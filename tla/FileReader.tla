----------------------------- MODULE FileReader -----------------------------
(***************************************************************************)
(* The disc image reader: the CPU thread, which begins, finishes and       *)
(* forces reads of sectors (pcsx2/CDVD/InputIsoFile.cpp), and the thread   *)
(* that decompresses and reads ahead for it                                *)
(* (pcsx2/CDVD/ThreadedFileReader.cpp).                                    *)
(*                                                                         *)
(* Chunks are sectors; a cache buffer is a run of them.  A target holds    *)
(* the number of the sector in it, or 0 for anything else.  Steps under    *)
(* m_mtx that nothing can tell apart are one step.                         *)
(***************************************************************************)
EXTENDS Integers, FiniteSets

CONSTANTS
  Sectors,    \* how many the image has
  Buffers,    \* how many the cache has: std::size(m_buffer) (8)
  Cap,        \* sectors that fit in one
  Reissue     \* may a read begin while one that was begun is not finished?

ASSUME FileReaderAssumption ==
  /\ Sectors \in Nat \ {0} /\ Buffers \in Nat \ {0} /\ Cap \in Nat \ {0}
  /\ Reissue \in BOOLEAN

VARIABLES
  mutex, waiter,        \* m_mtx; the threads that wait on m_condition
  ptr, sec, size,       \* m_requestPtr, m_requestOffset, m_requestSize
  cancelled, running, quit,
  cache, next,          \* m_buffer, m_nextBuffer
  amt,                  \* m_amtRead, up to 2
  content,              \* what the targets hold
  ee, op, want, picked,           \* the CPU thread and its call
  readLsn, inprogress,  \* m_read_lsn, m_read_inprogress
  rd, rptr, rsec, rsize, ok, buf, filled    \* the read thread

requestVars == <<ptr, sec, size>>
cacheVars == <<cache, next>>
callVars == <<op, want, picked>>
isoVars == <<readLsn, inprogress>>
eeVars == <<ee, callVars, isoVars>>
loadVars == <<rptr, rsec, rsize>>
rdVars == <<rd, loadVars, ok, buf, filled>>
flagVars == <<cancelled, running, quit>>
vars == <<mutex, waiter, requestVars, flagVars, cacheVars, amt, content, eeVars,
          rdVars>>

-----------------------------------------------------------------------------
Empty == [offset |-> 0, size |-> 0]
End(b) == cache[b].offset + cache[b].size
Holds(b, s) == cache[b].offset <= s /\ s < End(b)
After(b) == (b + 1) % Buffers
More(n) == IF n = 0 THEN 1 ELSE 2

\* One block is asked for, or only that what follows a sector is read ahead.
Block == 2
Ahead == 1

Init ==
  /\ mutex = "free" /\ waiter = {}
  /\ ptr = "null" /\ sec = 0 /\ size = 0
  /\ cancelled = FALSE /\ running = FALSE /\ quit = FALSE
  /\ cache = [b \in 0..(Buffers - 1) |-> Empty] /\ next = 0
  /\ amt = 0 /\ content = [t \in {"read", "sync"} |-> 0]
  /\ ee = "run" /\ op = "read" /\ want = 0 /\ picked = 0
  /\ readLsn = 0 /\ inprogress = FALSE
  /\ rd = "lock" /\ rptr = "null" /\ rsec = 0 /\ rsize = 0
  /\ ok = TRUE /\ buf = 0 /\ filled = 0

-----------------------------------------------------------------------------
(* Reads of the CPU thread: TryCachedRead, BeginRead, ReadSync.            *)

\* BeginRead2, also where Reissue for a command that does not wait for the read
\* of the one before.  For the sector that was read last there is nothing to do.
BeginRead(s) ==
  /\ ee = "run" /\ (inprogress => Reissue)
  /\ s # readLsn
  /\ readLsn' = s /\ inprogress' = TRUE
  /\ op' = "read" /\ want' = s
  /\ ee' = "look"
  /\ UNCHANGED <<mutex, waiter, requestVars, flagVars, cacheVars, amt, content,
                 picked, rdVars>>

ReadSync(s) ==
  /\ ee = "run" /\ ~inprogress
  /\ op' = "sync" /\ want' = s
  /\ ee' = "look"
  /\ UNCHANGED <<mutex, waiter, requestVars, flagVars, cacheVars, amt, content,
                 picked, isoVars, rdVars>>

\* Defect: ReadSync does not ask whether the read thread runs.
MissRunning == ee' = IF op = "sync" THEN "syncRead" ELSE "request"

Miss == ee' = IF op = "sync" /\ ~running THEN "syncRead" ELSE "request"

\* TryCachedRead, under the mutex that it keeps.
Look ==
  /\ ee = "look"
  /\ mutex = "free"
  /\ mutex' = "ee"
  /\ amt' = 0
  /\ \/ \E b \in DOMAIN cache :
          Holds(b, want) /\ picked' = b /\ ee' = "copy"
     \/ /\ ~\E b \in DOMAIN cache : Holds(b, want)
        /\ Miss
        /\ UNCHANGED picked
  /\ UNCHANGED <<waiter, requestVars, flagVars, cacheVars, content, op, want,
                 isoVars, rdVars>>

EndCall == ee' = "run" /\ op' = "read" /\ want' = 0

\* Once a buffer has served, the loop goes twice round in all: the end is that
\* of the last one seen that has the next sector, and a buffer must begin there.
AllDone ==
  LET visits == picked..(2 * Buffers - 1)
      end[i \in visits] ==
        IF i = picked \/ Holds(i % Buffers, want + 1)
        THEN End(i % Buffers)
        ELSE end[i - 1]
  IN  \E i \in visits :
        cache[i % Buffers].size > 0 /\ cache[i % Buffers].offset = end[i]

\* The sector is copied; unless all is done, what follows is to be read ahead.
Copy ==
  /\ ee = "copy"
  /\ content' = [content EXCEPT ![op] = IF Holds(picked, want) THEN want ELSE 0]
  /\ amt' = More(amt)
  /\ picked' = 0
  /\ IF AllDone
       THEN /\ mutex' = "free"
            /\ IF op = "sync" THEN ee' = "return" /\ UNCHANGED <<op, want>>
               ELSE EndCall
       ELSE ee' = "requestAhead" /\ UNCHANGED <<mutex, op, want>>
  /\ UNCHANGED <<waiter, requestVars, flagVars, cacheVars, isoVars, rdVars>>

\* ReadSync decompresses on its own thread: without a buffer, in one that has
\* the sector, or in the next one.  It may fail.
Decompress ==
  /\ ee = "syncRead"
  /\ \/ /\ ~cancelled
        /\ \/ UNCHANGED cacheVars
           \/ \E b \in DOMAIN cache : Holds(b, want) /\ next' = After(b)
                                      /\ UNCHANGED cache
           \/ /\ ~\E b \in DOMAIN cache : Holds(b, want)
              /\ cache' = [cache EXCEPT ![next] = [offset |-> want, size |-> 1]]
              /\ next' = After(next)
        /\ content' = [content EXCEPT ![op] = want]
        /\ amt' = More(amt) /\ ee' = "requestAhead"
     \/ /\ \/ UNCHANGED cacheVars
           \/ /\ ~cancelled
              /\ ~\E b \in DOMAIN cache : Holds(b, want)
              /\ cache' = [cache EXCEPT ![next] = Empty] /\ UNCHANGED next
        /\ ee' = "request" /\ UNCHANGED <<content, amt>>
  /\ UNCHANGED <<mutex, waiter, requestVars, flagVars, callVars, isoVars,
                 rdVars>>

Request ==
  /\ sec' = want
  /\ \/ ee = "request" /\ size' = Block /\ ptr' = op /\ ee' = "notify"
     \/ ee = "requestAhead" /\ size' = Ahead /\ ptr' = "null"
        /\ ee' = "notifyAhead"
  /\ cancelled' = FALSE
  /\ mutex' = "free"
  /\ UNCHANGED <<waiter, running, quit, cacheVars, amt, content, callVars,
                 isoVars, rdVars>>

\* notify_one: each thread waits only for the other.
NotifyOne == waiter' = {}

Notify ==
  /\ ee \in {"notify", "notifyAhead"}
  /\ NotifyOne
  /\ \/ op = "read" /\ EndCall
     \/ /\ op = "sync" /\ UNCHANGED <<op, want>>
        /\ ee' = IF ee = "notify" THEN "finish" ELSE "return"
  /\ UNCHANGED <<mutex, requestVars, flagVars, cacheVars, amt, content, picked,
                 isoVars, rdVars>>

-----------------------------------------------------------------------------
(* FinishRead.                                                             *)

FinishRead3 ==
  /\ ee = "run"
  /\ inprogress
  /\ op' = "read" /\ want' = readLsn
  /\ ee' = "finish"
  /\ UNCHANGED <<mutex, waiter, requestVars, flagVars, cacheVars, amt, content,
                 picked, isoVars, rdVars>>

\* The look without the mutex, ...
FinishLook ==
  /\ ee = "finish"
  /\ ee' = IF ptr = "null" THEN "return" ELSE "finishLock"
  /\ UNCHANGED <<mutex, waiter, requestVars, flagVars, cacheVars, amt, content,
                 callVars, isoVars, rdVars>>

\* ... the look under it, and ...
FinishLock ==
  /\ ee = "finishLock"
  /\ mutex = "free"
  /\ IF ptr = "null"
       THEN mutex' = "free" /\ ee' = "return"
       ELSE mutex' = "ee" /\ ee' = "finishSleep"
  /\ UNCHANGED <<waiter, requestVars, flagVars, cacheVars, amt, content,
                 callVars, isoVars, rdVars>>

\* ... the wait, which gives the mutex back.
FinishSleep ==
  /\ ee = "finishSleep"
  /\ waiter' = waiter \cup {"ee"}
  /\ mutex' = "free"
  /\ ee' = "finishWait"
  /\ UNCHANGED <<requestVars, flagVars, cacheVars, amt, content, callVars,
                 isoVars, rdVars>>

\* Defect: the request is not looked at again.
FinishWakeOnce ==
  /\ ee = "finishWait" /\ "ee" \notin waiter
  /\ mutex = "free"
  /\ ee' = "return"
  /\ UNCHANGED <<mutex, waiter, requestVars, flagVars, cacheVars, amt, content,
                 callVars, isoVars, rdVars>>

FinishWake ==
  /\ ee = "finishWait" /\ "ee" \notin waiter
  /\ ee' = "finishLock"
  /\ UNCHANGED <<mutex, waiter, requestVars, flagVars, cacheVars, amt, content,
                 callVars, isoVars, rdVars>>

\* Nothing read is an error, after which the sector may be begun again.
Return ==
  /\ ee = "return"
  /\ \/ /\ op = "read"
        /\ inprogress' = FALSE
        /\ readLsn' = IF amt = 0 THEN 0 ELSE readLsn
        /\ UNCHANGED content
     \/ /\ op = "sync"
        /\ content' = [content EXCEPT !["sync"] = 0]    \* no one's any more
        /\ UNCHANGED isoVars
  /\ EndCall
  /\ UNCHANGED <<mutex, waiter, requestVars, flagVars, cacheVars, amt, picked,
                 rdVars>>

-----------------------------------------------------------------------------
(* CancelAndWaitUntilStopped, Close, and the destructor.                   *)

\* For Precache or for Close.
Cancel(why) ==
  /\ ee = "run" /\ (why = "precache" => ~inprogress)
  /\ op' = why
  /\ cancelled' = TRUE
  /\ ee' = "cancel"
  /\ UNCHANGED <<mutex, waiter, requestVars, running, quit, cacheVars, amt,
                 content, want, picked, isoVars, rdVars>>

\* The request is withdrawn; then the thread is waited for.
Stop ==
  /\ ee \in {"cancel", "stopWait"} /\ "ee" \notin waiter
  /\ mutex = "free"
  /\ size' = 0
  /\ IF running
       THEN ee' = "stopWait" /\ waiter' = waiter \cup {"ee"}
       ELSE ee' = "stopped" /\ UNCHANGED waiter
  /\ UNCHANGED <<mutex, ptr, sec, flagVars, cacheVars, amt, content, callVars,
                 isoVars, rdVars>>

\* Precache2, or Close2 and the destructor's flag.
Stopped ==
  /\ ee = "stopped"
  /\ \/ op = "precache" /\ EndCall /\ UNCHANGED <<quit, cache>>
     \/ /\ op = "close"
        /\ cache' = [b \in DOMAIN cache |-> [cache[b] EXCEPT !.size = 0]]
        /\ quit' = TRUE
        /\ ee' = "quitLock" /\ UNCHANGED <<op, want>>
  /\ UNCHANGED <<mutex, waiter, requestVars, cancelled, running, next, amt,
                 content, picked, isoVars, rdVars>>

\* The mutex is taken and given back, so that the thread is not between its
\* look at the flag and its wait.
QuitLock ==
  /\ ee = "quitLock"
  /\ mutex = "free"
  /\ ee' = "quitNotify"
  /\ UNCHANGED <<mutex, waiter, requestVars, flagVars, cacheVars, amt, content,
                 callVars, isoVars, rdVars>>

QuitNotify ==
  /\ ee = "quitNotify"
  /\ NotifyOne
  /\ ee' = "join"
  /\ UNCHANGED <<mutex, requestVars, flagVars, cacheVars, amt, content, callVars,
                 isoVars, rdVars>>

\* The thread is joined; another image is opened with a reader of its own.
Reopen ==
  /\ ee = "join" /\ rd = "exit"
  /\ mutex' = "free" /\ waiter' = {}
  /\ ptr' = "null" /\ sec' = 0 /\ size' = 0
  /\ cancelled' = FALSE /\ running' = FALSE /\ quit' = FALSE
  /\ cache' = [b \in 0..(Buffers - 1) |-> Empty] /\ next' = 0
  /\ amt' = 0 /\ content' = [t \in {"read", "sync"} |-> 0]
  /\ ee' = "run" /\ op' = "read" /\ want' = 0 /\ picked' = 0
  /\ readLsn' = 0 /\ inprogress' = FALSE
  /\ rd' = "lock" /\ rptr' = "null" /\ rsec' = 0 /\ rsize' = 0
  /\ ok' = TRUE /\ buf' = 0 /\ filled' = 0

-----------------------------------------------------------------------------
(* The read thread: Loop.                                                  *)

\* The inputs are loaded under the mutex.
Load ==
  /\ rptr' = ptr /\ rsec' = sec /\ rsize' = size
  /\ rd' = IF ptr = "null" THEN "publish" ELSE "decompress"

\* It takes the mutex and looks for work.
Lock ==
  /\ rd = "lock" \/ (rd = "wait" /\ "reader" \notin waiter)
  /\ mutex = "free"
  /\ mutex' = "reader" /\ rd' = "top"
  /\ UNCHANGED <<waiter, requestVars, flagVars, cacheVars, amt, content, eeVars,
                 loadVars, ok, buf, filled>>

\* Holding the mutex from its look to its wait.
Top ==
  /\ rd = "top"
  /\ \/ /\ size = 0 /\ ~quit
        /\ rd' = "sleep"
        /\ UNCHANGED <<mutex, running, loadVars, ok>>
     \/ /\ quit
        /\ rd' = "exit" /\ mutex' = "free"
        /\ UNCHANGED <<running, loadVars, ok>>
     \/ /\ size # 0 /\ ~quit
        /\ running' = TRUE /\ ok' = TRUE
        /\ Load
        /\ mutex' = "free"
  /\ UNCHANGED <<waiter, requestVars, cancelled, quit, cacheVars, amt, content,
                 eeVars, buf, filled>>

Sleep ==
  /\ rd = "sleep"
  /\ waiter' = waiter \cup {"reader"}
  /\ mutex' = "free"
  /\ rd' = "wait"
  /\ UNCHANGED <<requestVars, flagVars, cacheVars, amt, content, eeVars,
                 loadVars, ok, buf, filled>>

Reload ==
  /\ rd = "reload"
  /\ mutex = "free"
  /\ Load
  /\ UNCHANGED <<mutex, waiter, requestVars, flagVars, cacheVars, amt, content,
                 eeVars, ok, buf, filled>>

\* Decompress: into the target, or through a buffer.
StartDecompress ==
  /\ rd = "decompress"
  /\ IF cancelled
       THEN rd' = "publish" /\ ok' = FALSE /\ UNCHANGED content
       ELSE \/ /\ rd' = "direct" /\ content' = [content EXCEPT ![rptr] = 0]
               /\ UNCHANGED ok
            \/ rd' = "serve" /\ UNCHANGED <<content, ok>>
  /\ UNCHANGED <<mutex, waiter, requestVars, flagVars, cacheVars, amt, eeVars,
                 loadVars, buf, filled>>

\* The end of Decompress; of the target another part may have been written.
Delivered ==
  /\ content' = [content EXCEPT ![rptr] = rsec]
  /\ amt' = More(amt)
  /\ ok' = TRUE
  /\ rd' = "publish"

Failed ==
  /\ ok' = FALSE
  /\ rd' = "publish"
  /\ UNCHANGED <<content, amt>>

DirectRead ==
  /\ rd = "direct"
  /\ Delivered \/ Failed
  /\ UNCHANGED <<mutex, waiter, requestVars, flagVars, cacheVars, eeVars,
                 loadVars, buf, filled>>

\* The sector that the read thread wants in a buffer.
Chunk == CASE rd \in {"serve", "serveFill"} -> rsec
           [] rd \in {"ahead", "aheadFill"} -> rsec + 1
           [] rd \in {"aheadNext", "aheadNextFill"} -> End(buf)

\* Defect: the buffer is taken without the mutex.
EvictUnlocked ==
  /\ ~\E b \in DOMAIN cache : Holds(b, Chunk)
  /\ cache' = [cache EXCEPT ![next].size = 0]

\* GetBlockPtr: no buffer has it; one is emptied, under the mutex.
Evict ==
  /\ ~\E b \in DOMAIN cache : Holds(b, Chunk)
  /\ mutex = "free"
  /\ cache' = [cache EXCEPT ![next].size = 0]

\* And then filled, without.
Fill ==
  /\ cache' = [cache EXCEPT ![next] = [offset |-> Chunk, size |-> 1]]
  /\ next' = After(next)

Serve ==
  /\ rd = "serve"
  /\ \/ \E b \in DOMAIN cache :
          Holds(b, Chunk) /\ next' = After(b) /\ Delivered /\ UNCHANGED cache
     \/ Evict /\ rd' = "serveFill" /\ UNCHANGED <<next, content, amt, ok>>
  /\ UNCHANGED <<mutex, waiter, requestVars, flagVars, eeVars, loadVars, buf,
                 filled>>

ServeFill ==
  /\ rd = "serveFill"
  /\ (Fill /\ Delivered) \/ (Failed /\ UNCHANGED cacheVars)
  /\ UNCHANGED <<mutex, waiter, requestVars, flagVars, eeVars, loadVars, buf,
                 filled>>

\* The compare-exchange, without the mutex.
Publish ==
  /\ rd = "publish"
  /\ IF ptr = rptr
       THEN ptr' = "null" /\ rd' = "notify"
       ELSE rd' = "reload" /\ UNCHANGED ptr
  /\ UNCHANGED <<mutex, waiter, sec, size, flagVars, cacheVars, amt, content,
                 eeVars, loadVars, ok, buf, filled>>

\* Defect: there is always something to read ahead.
AheadOfTheEnd ==
  /\ rd = "notify"
  /\ NotifyOne
  /\ filled' = 0
  /\ rd' = IF ok THEN "ahead" ELSE "end"
  /\ UNCHANGED <<mutex, requestVars, flagVars, cacheVars, amt, content, eeVars,
                 loadVars, ok, buf>>

NotifyFinished ==
  /\ rd = "notify"
  /\ NotifyOne
  /\ filled' = 0
  /\ rd' = IF ok /\ rsec < Sectors THEN "ahead" ELSE "end"
  /\ UNCHANGED <<mutex, requestVars, flagVars, cacheVars, amt, content, eeVars,
                 loadVars, ok, buf>>

\* Readahead: a buffer for the next sector, ...
AheadGet ==
  /\ rd \in {"ahead", "aheadNext"}
  /\ \/ \E b \in DOMAIN cache :
          /\ Holds(b, Chunk) /\ next' = After(b) /\ buf' = b
          /\ rd' = "aheadLoop" /\ UNCHANGED cache
     \/ /\ Evict
        /\ rd' = IF rd = "ahead" THEN "aheadFill" ELSE "aheadNextFill"
        /\ UNCHANGED <<next, buf>>
  /\ UNCHANGED <<mutex, waiter, requestVars, flagVars, amt, content, eeVars,
                 loadVars, ok, filled>>

AheadFill ==
  /\ rd \in {"aheadFill", "aheadNextFill"}
  /\ \/ Fill /\ buf' = next /\ rd' = "aheadLoop"
     \/ rd' = "end" /\ UNCHANGED <<cacheVars, buf>>
  /\ UNCHANGED <<mutex, waiter, requestVars, flagVars, amt, content, eeVars,
                 loadVars, ok, filled>>

\* ... which is filled up, and then one more, until there is a new request.
AheadLoop ==
  /\ rd = "aheadLoop"
  /\ \/ /\ ptr # "null" \/ End(buf) > Sectors
        /\ rd' = "end" /\ UNCHANGED <<cache, filled>>
     \/ /\ ptr = "null" /\ End(buf) <= Sectors
        /\ \/ /\ cache[buf].size = Cap
              /\ filled' = filled + 1
              /\ rd' = IF filled = 0 THEN "aheadNext" ELSE "end"
              /\ UNCHANGED cache
           \/ /\ cache[buf].size < Cap
              /\ cache' = [cache EXCEPT ![buf].size = @ + 1]
              /\ UNCHANGED <<rd, filled>>
           \/ /\ cache[buf].size < Cap
              /\ rd' = "end" /\ UNCHANGED <<cache, filled>>
  /\ UNCHANGED <<mutex, waiter, requestVars, flagVars, next, amt, content,
                 eeVars, loadVars, ok, buf>>

\* The locals are gone.
Scope ==
  /\ rd' = "top"
  /\ rptr' = "null" /\ rsec' = 0 /\ rsize' = 0
  /\ ok' = TRUE /\ buf' = 0 /\ filled' = 0

\* Defect: only who waits for the thread to stop is notified at the end.
EndQuietly ==
  /\ rd = "end"
  /\ mutex = "free"
  /\ mutex' = "reader"
  /\ size' = IF rsize = size /\ rsec = sec /\ ptr = "null" THEN 0 ELSE size
  /\ running' = FALSE
  /\ IF size = 0 THEN NotifyOne ELSE UNCHANGED waiter
  /\ Scope
  /\ UNCHANGED <<ptr, sec, cancelled, quit, cacheVars, amt, content, eeVars>>

\* "If no one's added more work, mark this one as done."
Finish ==
  /\ rd = "end"
  /\ mutex = "free"
  /\ mutex' = "reader"
  /\ size' = IF rsize = size /\ rsec = sec /\ ptr = "null" THEN 0 ELSE size
  /\ running' = FALSE
  /\ NotifyOne
  /\ Scope
  /\ UNCHANGED <<ptr, sec, cancelled, quit, cacheVars, amt, content, eeVars>>

-----------------------------------------------------------------------------
\* What the CPU thread has begun and goes on with.
EEStep ==
  \/ Look \/ Copy \/ Decompress \/ Request \/ Notify
  \/ FinishLook \/ FinishLock \/ FinishSleep \/ FinishWake \/ Return
  \/ Stop \/ Stopped \/ QuitLock \/ QuitNotify \/ Reopen

ReaderStep ==
  \/ Lock \/ Top \/ Sleep \/ Reload
  \/ StartDecompress \/ DirectRead \/ Serve \/ ServeFill
  \/ Publish \/ NotifyFinished
  \/ AheadGet \/ AheadFill \/ AheadLoop \/ Finish

Next ==
  \/ \E s \in 1..Sectors : BeginRead(s) \/ ReadSync(s)
  \/ FinishRead3
  \/ \E why \in {"precache", "close"} : Cancel(why)
  \/ EEStep
  \/ ReaderStep

\* Both threads run when they can; no call need ever be made.
Spec == Init /\ [][Next]_vars /\ WF_vars(EEStep) /\ WF_vars(ReaderStep)

-----------------------------------------------------------------------------
(* Properties.                                                             *)

Writing == {"decompress", "direct", "serve", "serveFill"}
Decompressing ==
  Writing \cup {"ahead", "aheadFill", "aheadNext", "aheadNextFill", "aheadLoop"}

FlagsTypeOK ==
  /\ mutex \in {"free", "ee", "reader"} /\ waiter \subseteq {"ee", "reader"}
  /\ ptr \in {"null", "read", "sync"} /\ sec \in 0..Sectors
  /\ size \in {0, Ahead, Block}
  /\ cancelled \in BOOLEAN /\ running \in BOOLEAN /\ quit \in BOOLEAN
  /\ inprogress \in BOOLEAN /\ ok \in BOOLEAN

CacheTypeOK ==
  /\ cache \in [0..(Buffers - 1) -> [offset : 0..Sectors, size : 0..Cap]]
  /\ \A b \in DOMAIN cache : cache[b].size > 0 => End(b) <= Sectors + 1
  /\ next \in 0..(Buffers - 1)

\* Every variable has its type, and no buffer is ever longer than it may be.
TypeOK ==
  /\ FlagsTypeOK /\ CacheTypeOK
  /\ amt \in 0..2
  /\ content \in [{"read", "sync"} -> 0..Sectors]
  /\ want \in 0..Sectors /\ readLsn \in 0..Sectors

\* A call that returns data returns that of the sector it was made for, one
\* block of it; and the sector read last is there for who asks for it again.
DataIsRight ==
  /\ ee = "return" => amt < 2 /\ (amt = 1 => content[op] = want)
  /\ ee = "run" /\ ~inprogress /\ readLsn # 0 => content["read"] = readLsn

\* No target is written when the call that gave it has returned: "wait until
\* m_requestPtr is cleared to ensure it's not being written to".
NoLateWrite ==
  rd \in Writing =>
    /\ rptr = "sync" => ee # "run"
    /\ rptr = "read" => inprogress

\* "If false, you may touch decompression functions from other threads": the
\* format's own code never runs on both threads, nor when it is closed.
DecompressorExclusive ==
  ee \in {"syncRead", "stopped", "quitLock", "quitNotify", "join"} =>
    rd \notin Decompressing

\* "So, we do a compare-exchange instead, to detect when this happens": what is
\* marked as finished is what was asked for.
PublishedIsRequested ==
  [][rd = "publish" /\ rd' = "notify" /\ rptr # "null" => rsec = sec]_vars

\* Every call returns, the join of the destructor included.
CallsReturn == ee # "run" ~> ee = "run"
=============================================================================
