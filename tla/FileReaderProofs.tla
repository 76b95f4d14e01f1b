-------------------------- MODULE FileReaderProofs --------------------------
(***************************************************************************)
(* Proofs about FileReader, for every image, cache and buffer size: types, *)
(* that the format's own code never runs on both threads, and, for callers *)
(* that finish a read before they begin the next, that no target is        *)
(* written late and that every call returns the data it was made for.      *)
(***************************************************************************)
EXTENDS FileReader, TLAPS

-----------------------------------------------------------------------------
(* The threads, the mutex, and m_running.                                  *)

Asking == {"look", "copy", "syncRead", "request"}
Closing == {"stopped", "quitLock", "quitNotify", "join"}
Busy == Decompressing \cup {"publish", "notify", "reload", "end"}

Places ==
  /\ mutex = "ee" <=>
       ee \in {"copy", "syncRead", "request", "requestAhead", "finishSleep"}
  /\ mutex = "reader" <=> rd \in {"top", "sleep"}
  /\ (running => rd \in Busy) /\ (rd \in Busy => running)
  /\ ee = "syncRead" => ~running /\ op = "sync"
  /\ ee \in Closing => ~running /\ size = 0
  /\ ee \in Asking => op \in {"read", "sync"}

\* Each thread is where the mutex and m_running say.
LEMMA NextPlaces ==
  ASSUME Places, [Next]_vars
  PROVE  Places'
<1> USE DEF Places, Asking, Closing, Busy, Decompressing, Writing,
     requestVars, cacheVars, callVars, isoVars, eeVars, loadVars, rdVars,
     flagVars
<1>1. ASSUME NEW s \in 1..Sectors, BeginRead(s) PROVE Places'
  BY <1>1 DEF BeginRead
<1>2. ASSUME NEW s \in 1..Sectors, ReadSync(s) PROVE Places'
  BY <1>2 DEF ReadSync
<1>3. CASE FinishRead3
  BY <1>3 DEF FinishRead3
<1>4. ASSUME NEW why \in {"precache", "close"}, Cancel(why) PROVE Places'
  BY <1>4 DEF Cancel
<1>5. CASE Look
  BY <1>5 DEF Look, Miss
<1>6. CASE Copy
  BY <1>6 DEF Copy, EndCall, More
<1>7. CASE Decompress
  BY <1>7 DEF Decompress, More
<1>8. CASE Request
  BY <1>8 DEF Request
<1>9. CASE Notify
  BY <1>9 DEF Notify, NotifyOne, EndCall
<1>10. CASE FinishLook
  BY <1>10 DEF FinishLook
<1>11. CASE FinishLock
  BY <1>11 DEF FinishLock
<1>12. CASE FinishSleep
  BY <1>12 DEF FinishSleep
<1>13. CASE FinishWake
  BY <1>13 DEF FinishWake
<1>14. CASE Return
  BY <1>14 DEF Return, EndCall
<1>15. CASE Stop
  BY <1>15 DEF Stop
<1>16. CASE Stopped
  BY <1>16 DEF Stopped, EndCall
<1>17. CASE QuitLock
  BY <1>17 DEF QuitLock
<1>18. CASE QuitNotify
  BY <1>18 DEF QuitNotify, NotifyOne
<1>19. CASE Reopen
  BY <1>19 DEF Reopen
<1>20. CASE Lock
  BY <1>20 DEF Lock
<1>21. CASE Top
  BY <1>21 DEF Top, Load
<1>22. CASE Sleep
  BY <1>22 DEF Sleep
<1>23. CASE Reload
  BY <1>23 DEF Reload, Load
<1>24. CASE StartDecompress
  BY <1>24 DEF StartDecompress
<1>25. CASE DirectRead
  BY <1>25 DEF DirectRead, Delivered, Failed, More
<1>26. CASE Serve
  BY <1>26 DEF Serve, Delivered, Evict, More, Chunk
<1>27. CASE ServeFill
  BY <1>27 DEF ServeFill, Delivered, Failed, Fill, More, Chunk
<1>28. CASE Publish
  BY <1>28 DEF Publish
<1>29. CASE NotifyFinished
  BY <1>29 DEF NotifyFinished, NotifyOne
<1>30. CASE AheadGet
  BY <1>30 DEF AheadGet, Evict, Chunk
<1>31. CASE AheadFill
  BY <1>31 DEF AheadFill, Fill, Chunk
<1>32. CASE AheadLoop
  BY <1>32 DEF AheadLoop
<1>33. CASE Finish
  BY <1>33 DEF Finish, NotifyOne, Scope
<1>34. CASE UNCHANGED vars
  BY <1>34 DEF vars
<1> HIDE DEF Places, Asking, Closing, Busy, Decompressing, Writing,
     requestVars, cacheVars, callVars, isoVars, eeVars, loadVars, rdVars,
     flagVars
<1> QED
  BY <1>1, <1>2, <1>3, <1>4, <1>5, <1>6, <1>7, <1>8, <1>9, <1>10, <1>11,
       <1>12, <1>13, <1>14, <1>15, <1>16, <1>17, <1>18, <1>19, <1>20, <1>21,
       <1>22, <1>23, <1>24, <1>25, <1>26, <1>27, <1>28, <1>29, <1>30, <1>31,
       <1>32, <1>33, <1>34 DEF Next, EEStep, ReaderStep

-----------------------------------------------------------------------------
(* Types.                                                                  *)

\* m_nextBuffer goes round.
LEMMA NextBuffer ==
  ASSUME NEW b \in 0..(Buffers - 1) PROVE After(b) \in 0..(Buffers - 1)
<1> DEFINE n == Buffers
           a == b + 1
<1>1. n \in Int /\ n > 0 /\ a \in Int
  BY FileReaderAssumption
<1> HIDE DEF n, a
<1>2. a % n \in 0..(n - 1)
  BY <1>1
<1> QED
  BY <1>2 DEF After, n, a

\* The cache, and what the threads do to a buffer of it.
Caches == [0..(Buffers - 1) -> [offset : 0..Sectors, size : 0..Cap]]
Bounded(c) ==
  \A b \in 0..(Buffers - 1) :
    c[b].size > 0 => c[b].offset + c[b].size <= Sectors + 1

\* A buffer alone.
Chunks == [offset : 0..Sectors, size : 0..Cap]

\* Emptied, it keeps its offset.
LEMMA EmptyRecord ==
  ASSUME NEW r \in Chunks
  PROVE  [r EXCEPT !.size = 0] \in Chunks /\ [r EXCEPT !.size = 0].size = 0
BY FileReaderAssumption DEF Chunks

\* A chunk more.
LEMMA GrownRecord ==
  ASSUME NEW r \in Chunks
  PROVE  [r EXCEPT !.size = @ + 1] = [offset |-> r.offset, size |-> r.size + 1]
BY DEF Chunks

\* One emptied buffer leaves the cache a cache, ...
LEMMA Emptied ==
  ASSUME NEW c \in Caches, NEW b \in 0..(Buffers - 1), Bounded(c)
  PROVE  /\ [c EXCEPT ![b].size = 0] \in Caches
         /\ Bounded([c EXCEPT ![b].size = 0])
<1> DEFINE d == [c EXCEPT ![b].size = 0]
<1>1. c[b] \in [offset : 0..Sectors, size : 0..Cap]
  BY DEF Caches
<1>2. [c[b] EXCEPT !.size = 0] \in [offset : 0..Sectors, size : 0..Cap]
  BY <1>1, FileReaderAssumption
<1>3. d = [c EXCEPT ![b] = [c[b] EXCEPT !.size = 0]]
  OBVIOUS
<1>4. d \in Caches
  BY <1>2, <1>3 DEF Caches
<1>5. \A i \in 0..(Buffers - 1) : d[i].size = 0 \/ d[i] = c[i]
  BY DEF Caches
<1>6. Bounded(d)
  BY <1>5 DEF Bounded
<1> QED
  BY <1>4, <1>6

\* ... and so does one that is stored whole.
LEMMA Stored ==
  ASSUME NEW c \in Caches, NEW b \in 0..(Buffers - 1), Bounded(c),
         NEW r \in [offset : 0..Sectors, size : 0..Cap],
         r.size > 0 => r.offset + r.size <= Sectors + 1
  PROVE  /\ [c EXCEPT ![b] = r] \in Caches
         /\ Bounded([c EXCEPT ![b] = r])
<1> DEFINE d == [c EXCEPT ![b] = r]
<1>1. d \in Caches
  BY DEF Caches
<1>2. \A i \in 0..(Buffers - 1) : d[i] = r \/ d[i] = c[i]
  BY DEF Caches
<1>3. Bounded(d)
  BY <1>2 DEF Bounded
<1> QED
  BY <1>1, <1>3

\* What is stored.
LEMMA Chunked ==
  ASSUME NEW s \in 0..Sectors
  PROVE  LET r == [offset |-> s, size |-> 1] IN
           /\ r \in [offset : 0..Sectors, size : 0..Cap]
           /\ r.offset + r.size <= Sectors + 1
BY FileReaderAssumption

\* Or stored when it fails.
LEMMA EmptyChunk ==
  Empty \in [offset : 0..Sectors, size : 0..Cap] /\ Empty.size = 0
BY FileReaderAssumption DEF Empty

\* The same, of the variables.
LEMMA CacheType == CacheTypeOK <=> cache \in Caches /\ Bounded(cache)
                                    /\ next \in 0..(Buffers - 1)
BY DEF CacheTypeOK, Caches, Bounded, End

\* What the read thread remembers, and how far it reads ahead.
Ranges ==
  /\ rptr \in {"null", "read", "sync"} /\ rsec \in 0..Sectors
  /\ buf \in 0..(Buffers - 1)
  /\ rd \in {"ahead", "aheadFill"} => rsec < Sectors
  /\ rd \in {"aheadNext", "aheadNextFill"} => End(buf) <= Sectors

\* Flags and the request keep their types.
LEMMA NextFlags ==
  ASSUME FlagsTypeOK, Places, rptr \in {"null", "read", "sync"}, sec \in 0..Sectors,
         want \in 0..Sectors, readLsn \in 0..Sectors, [Next]_vars
  PROVE  FlagsTypeOK'
<1> USE DEF FlagsTypeOK, Block, Ahead, requestVars, cacheVars, callVars,
     isoVars, eeVars, loadVars, rdVars, flagVars
<1>1. ASSUME NEW s \in 1..Sectors, BeginRead(s) PROVE FlagsTypeOK'
  BY <1>1 DEF BeginRead
<1>2. ASSUME NEW s \in 1..Sectors, ReadSync(s) PROVE FlagsTypeOK'
  BY <1>2 DEF ReadSync
<1>3. CASE FinishRead3
  BY <1>3 DEF FinishRead3
<1>4. ASSUME NEW why \in {"precache", "close"}, Cancel(why) PROVE FlagsTypeOK'
  BY <1>4 DEF Cancel
<1>5. CASE Look
  BY <1>5 DEF Look, Miss
<1>6. CASE Copy
  BY <1>6 DEF Copy, EndCall, More
<1>7. CASE Decompress
  BY <1>7 DEF Decompress, More
<1>8. CASE Request
  BY <1>8 DEF Request, Places, Asking
<1>9. CASE Notify
  BY <1>9 DEF Notify, NotifyOne, EndCall
<1>10. CASE FinishLook
  BY <1>10 DEF FinishLook
<1>11. CASE FinishLock
  BY <1>11 DEF FinishLock
<1>12. CASE FinishSleep
  BY <1>12 DEF FinishSleep
<1>13. CASE FinishWake
  BY <1>13 DEF FinishWake
<1>14. CASE Return
  BY ZenonT(60), <1>14 DEF Return, EndCall
<1>15. CASE Stop
  BY <1>15 DEF Stop
<1>16. CASE Stopped
  BY ZenonT(60), <1>16 DEF Stopped, EndCall
<1>17. CASE QuitLock
  BY <1>17 DEF QuitLock
<1>18. CASE QuitNotify
  BY <1>18 DEF QuitNotify, NotifyOne
<1>19. CASE Reopen
  <2>1. /\ mutex' = "free" /\ waiter' = {} /\ ptr' = "null" /\ sec' = 0
        /\ size' = 0
    BY <1>19 DEF Reopen
  <2>2. /\ cancelled' = FALSE /\ running' = FALSE /\ quit' = FALSE
        /\ inprogress' = FALSE /\ ok' = TRUE
    BY <1>19 DEF Reopen
  <2>3. 0 \in 0..Sectors
    BY FileReaderAssumption
  <2> QED
    BY <2>1, <2>2, <2>3
<1>20. CASE Lock
  BY <1>20 DEF Lock
<1>21. CASE Top
  BY ZenonT(60), <1>21 DEF Top, Load
<1>22. CASE Sleep
  BY <1>22 DEF Sleep
<1>23. CASE Reload
  BY <1>23 DEF Reload, Load
<1>24. CASE StartDecompress
  BY <1>24 DEF StartDecompress
<1>25. CASE DirectRead
  BY <1>25 DEF DirectRead, Delivered, Failed, More
<1>26. CASE Serve
  BY ZenonT(60), <1>26 DEF Serve, Delivered, Evict, More, Chunk
<1>27. CASE ServeFill
  BY ZenonT(60), <1>27 DEF ServeFill, Delivered, Failed, Fill, More, Chunk
<1>28. CASE Publish
  BY <1>28 DEF Publish
<1>29. CASE NotifyFinished
  BY <1>29 DEF NotifyFinished, NotifyOne
<1>30. CASE AheadGet
  BY <1>30 DEF AheadGet, Evict, Chunk
<1>31. CASE AheadFill
  BY <1>31 DEF AheadFill, Fill, Chunk
<1>32. CASE AheadLoop
  BY <1>32 DEF AheadLoop
<1>33. CASE Finish
  BY <1>33 DEF Finish, NotifyOne, Scope
<1>34. CASE UNCHANGED vars
  BY <1>34 DEF vars
<1> HIDE DEF FlagsTypeOK, Block, Ahead, requestVars, cacheVars, callVars,
     isoVars, eeVars, loadVars, rdVars, flagVars
<1> QED
  BY <1>1, <1>2, <1>3, <1>4, <1>5, <1>6, <1>7, <1>8, <1>9, <1>10, <1>11,
       <1>12, <1>13, <1>14, <1>15, <1>16, <1>17, <1>18, <1>19, <1>20, <1>21,
       <1>22, <1>23, <1>24, <1>25, <1>26, <1>27, <1>28, <1>29, <1>30, <1>31,
       <1>32, <1>33, <1>34 DEF Next, EEStep, ReaderStep

\* No chunk behind the last sector is asked for.
LEMMA ChunkType ==
  ASSUME Ranges, CacheTypeOK,
         rd \in {"serve", "serveFill", "ahead", "aheadFill", "aheadNext",
                 "aheadNextFill"}
  PROVE  Chunk \in 0..Sectors
<1>1. CASE rd \in {"serve", "serveFill"}
  BY <1>1 DEF Chunk, Ranges
<1>2. CASE rd \in {"ahead", "aheadFill"}
  BY <1>2, FileReaderAssumption DEF Chunk, Ranges
<1>3. CASE rd \in {"aheadNext", "aheadNextFill"}
  <2>1. cache[buf].offset \in 0..Sectors /\ cache[buf].size \in Nat
    BY DEF CacheTypeOK, Ranges
  <2>2. Chunk = End(buf)
    BY <1>3 DEF Chunk
  <2> QED
    BY <1>3, <2>1, <2>2, FileReaderAssumption DEF Ranges, End
<1> QED
  BY <1>1, <1>2, <1>3

\* Eviction, and ...
LEMMA EvictType ==
  ASSUME CacheTypeOK, Evict, UNCHANGED next PROVE CacheTypeOK'
<1>1. cache' \in Caches /\ Bounded(cache')
  BY CacheType, Emptied DEF Evict
<1> QED
  BY <1>1 DEF CacheTypeOK, Caches, Bounded, End

\* ... filling keep the cache in bounds.
LEMMA FillType ==
  ASSUME CacheTypeOK, Ranges, Fill,
         rd \in {"serve", "serveFill", "ahead", "aheadFill", "aheadNext",
                 "aheadNextFill"}
  PROVE  CacheTypeOK'
<1> DEFINE r == [offset |-> Chunk, size |-> 1]
<1>1. r \in [offset : 0..Sectors, size : 0..Cap] /\ r.offset + r.size <= Sectors + 1
  BY ChunkType, Chunked
<1>2. next' \in 0..(Buffers - 1)
  BY NextBuffer DEF Fill, CacheTypeOK
<1>3. cache' = [cache EXCEPT ![next] = r]
  BY DEF Fill
<1> HIDE DEF r
<1>4. cache' \in Caches /\ Bounded(cache')
  BY <1>1, <1>3, CacheType, Stored
<1> QED
  BY <1>2, <1>4 DEF CacheTypeOK, Caches, Bounded, End

\* No step overfills a buffer.
LEMMA NextCache ==
  ASSUME CacheTypeOK, Ranges, want \in 0..Sectors, [Next]_vars
  PROVE  CacheTypeOK'
<1> USE DEF CacheTypeOK, Ranges, End, Empty, requestVars, cacheVars,
     callVars, isoVars, eeVars, loadVars, rdVars, flagVars
<1>1. ASSUME NEW s \in 1..Sectors, BeginRead(s) PROVE CacheTypeOK'
  BY <1>1 DEF BeginRead
<1>2. ASSUME NEW s \in 1..Sectors, ReadSync(s) PROVE CacheTypeOK'
  BY <1>2 DEF ReadSync
<1>3. CASE FinishRead3
  BY <1>3 DEF FinishRead3
<1>4. ASSUME NEW why \in {"precache", "close"}, Cancel(why) PROVE CacheTypeOK'
  BY <1>4 DEF Cancel
<1>5. CASE Look
  BY <1>5 DEF Look, Miss
<1>6. CASE Copy
  BY <1>6 DEF Copy, EndCall, More
<1>7. CASE Decompress
  <2>1. CASE UNCHANGED cacheVars
    BY <2>1
  <2>2. ASSUME NEW b \in DOMAIN cache, next' = After(b), UNCHANGED cache
        PROVE  CacheTypeOK'
    BY <2>2, NextBuffer
  <2>3. CASE /\ cache' = [cache EXCEPT ![next] = [offset |-> want, size |-> 1]]
             /\ next' = After(next)
    <3> DEFINE r == [offset |-> want, size |-> 1]
    <3>1. r \in [offset : 0..Sectors, size : 0..Cap]
          /\ r.offset + r.size <= Sectors + 1
      BY Chunked
    <3>2. cache' = [cache EXCEPT ![next] = r]
      BY <2>3
    <3> HIDE DEF r
    <3>3. cache' \in Caches /\ Bounded(cache')
      BY <3>1, <3>2, CacheType, Stored
    <3> QED
      BY <2>3, <3>3, NextBuffer DEF Caches, Bounded
  <2>4. CASE cache' = [cache EXCEPT ![next] = Empty] /\ UNCHANGED next
    <3> DEFINE r == Empty
    <3>0. r \in [offset : 0..Sectors, size : 0..Cap] /\ r.size = 0
      BY EmptyChunk
    <3>4. r.size > 0 => r.offset + r.size <= Sectors + 1
      BY <3>0
    <3>2. cache' = [cache EXCEPT ![next] = r]
      BY <2>4
    <3> HIDE DEF r
    <3>1. cache' \in Caches /\ Bounded(cache')
      BY <3>0, <3>2, <3>4, CacheType, Stored
    <3> QED
      BY <2>4, <3>1 DEF Caches, Bounded
  <2> QED
    BY <1>7, <2>1, <2>2, <2>3, <2>4 DEF Decompress
<1>8. CASE Request
  BY <1>8 DEF Request
<1>9. CASE Notify
  BY <1>9 DEF Notify, NotifyOne, EndCall
<1>10. CASE FinishLook
  BY <1>10 DEF FinishLook
<1>11. CASE FinishLock
  BY <1>11 DEF FinishLock
<1>12. CASE FinishSleep
  BY <1>12 DEF FinishSleep
<1>13. CASE FinishWake
  BY <1>13 DEF FinishWake
<1>14. CASE Return
  BY <1>14 DEF Return, EndCall
<1>15. CASE Stop
  BY <1>15 DEF Stop
<1>16. CASE Stopped
  <2>1. CASE cache' = [b \in DOMAIN cache |-> [cache[b] EXCEPT !.size = 0]]
    <3>1. \A b \in 0..(Buffers - 1) :
            cache[b] \in [offset : 0..Sectors, size : 0..Cap]
      OBVIOUS
    <3>2. \A b \in 0..(Buffers - 1) :
            /\ [cache[b] EXCEPT !.size = 0] \in [offset : 0..Sectors, size : 0..Cap]
            /\ [cache[b] EXCEPT !.size = 0].size = 0
      BY <3>1, EmptyRecord DEF Chunks
    <3>3. cache' = [b \in 0..(Buffers - 1) |-> [cache[b] EXCEPT !.size = 0]]
      BY <2>1
    <3>4. /\ cache' \in [0..(Buffers - 1) -> [offset : 0..Sectors, size : 0..Cap]]
          /\ \A b \in 0..(Buffers - 1) : cache'[b].size = 0
      BY <3>2, <3>3
    <3>5. next' = next
      BY <1>16 DEF Stopped
    <3> QED
      BY <3>4, <3>5
  <2> QED
    BY <1>16, <2>1 DEF Stopped
<1>17. CASE QuitLock
  BY <1>17 DEF QuitLock
<1>18. CASE QuitNotify
  BY <1>18 DEF QuitNotify, NotifyOne
<1>19. CASE Reopen
  BY <1>19, FileReaderAssumption DEF Reopen
<1>20. CASE Lock
  BY <1>20 DEF Lock
<1>21. CASE Top
  BY <1>21 DEF Top, Load
<1>22. CASE Sleep
  BY <1>22 DEF Sleep
<1>23. CASE Reload
  BY <1>23 DEF Reload, Load
<1>24. CASE StartDecompress
  BY <1>24 DEF StartDecompress
<1>25. CASE DirectRead
  BY <1>25 DEF DirectRead, Delivered, Failed, More
<1>26. CASE Serve
  <2>1. CASE Evict /\ UNCHANGED next
    BY <2>1, EvictType
  <2>2. ASSUME NEW b \in DOMAIN cache, next' = After(b), UNCHANGED cache
        PROVE  CacheTypeOK'
    BY <2>2, NextBuffer
  <2> QED
    BY <1>26, <2>1, <2>2 DEF Serve
<1>27. CASE ServeFill
  BY <1>27, FillType DEF ServeFill, Failed
<1>28. CASE Publish
  BY <1>28 DEF Publish
<1>29. CASE NotifyFinished
  BY <1>29 DEF NotifyFinished, NotifyOne
<1>30. CASE AheadGet
  <2>1. CASE Evict /\ UNCHANGED next
    BY <2>1, EvictType
  <2>2. ASSUME NEW b \in DOMAIN cache, next' = After(b), UNCHANGED cache
        PROVE  CacheTypeOK'
    BY <2>2, NextBuffer
  <2> QED
    BY <1>30, <2>1, <2>2 DEF AheadGet
<1>31. CASE AheadFill
  BY <1>31, FillType DEF AheadFill
<1>32. CASE AheadLoop
  <2>1. CASE UNCHANGED cache
    BY <1>32, <2>1 DEF AheadLoop
  <2>2. CASE /\ End(buf) <= Sectors /\ cache[buf].size < Cap
             /\ cache' = [cache EXCEPT ![buf].size = @ + 1]
    <3> DEFINE r == [cache[buf] EXCEPT !.size = @ + 1]
    <3>4. cache[buf] \in [offset : 0..Sectors, size : 0..Cap]
      OBVIOUS
    <3>5. r = [offset |-> cache[buf].offset, size |-> cache[buf].size + 1]
      BY <3>4, GrownRecord DEF Chunks
    <3>6. cache[buf].offset \in 0..Sectors /\ cache[buf].size \in 0..Cap
      BY <3>4
    <3>7. cache[buf].size + 1 \in 0..Cap
      BY SMTT(30), <2>2, <3>6, FileReaderAssumption
    <3>8. cache[buf].offset + (cache[buf].size + 1) <= Sectors + 1
      BY SMTT(30), <2>2, <3>6, FileReaderAssumption
    <3>1. r \in [offset : 0..Sectors, size : 0..Cap]
          /\ r.offset + r.size <= Sectors + 1
      BY <3>5, <3>6, <3>7, <3>8
    <3>2. cache' = [cache EXCEPT ![buf] = r]
      BY <2>2
    <3> HIDE DEF r
    <3>3. cache' \in Caches /\ Bounded(cache')
      BY <3>1, <3>2, CacheType, Stored
    <3> QED
      BY <1>32, <3>3 DEF Caches, Bounded, AheadLoop
  <2>3. UNCHANGED cache
        \/ /\ End(buf) <= Sectors /\ cache[buf].size < Cap
           /\ cache' = [cache EXCEPT ![buf].size = @ + 1]
    BY <1>32 DEF AheadLoop
  <2> QED
    BY <2>1, <2>2, <2>3
<1>33. CASE Finish
  BY <1>33 DEF Finish, NotifyOne, Scope
<1>34. CASE UNCHANGED vars
  BY <1>34 DEF vars
<1> HIDE DEF CacheTypeOK, Ranges, End, Empty, requestVars, cacheVars,
     callVars, isoVars, eeVars, loadVars, rdVars, flagVars
<1> QED
  BY <1>1, <1>2, <1>3, <1>4, <1>5, <1>6, <1>7, <1>8, <1>9, <1>10, <1>11,
       <1>12, <1>13, <1>14, <1>15, <1>16, <1>17, <1>18, <1>19, <1>20, <1>21,
       <1>22, <1>23, <1>24, <1>25, <1>26, <1>27, <1>28, <1>29, <1>30, <1>31,
       <1>32, <1>33, <1>34 DEF Next, EEStep, ReaderStep

\* Reading ahead ends at the end of the image.
LEMMA NextRanges ==
  ASSUME Ranges, CacheTypeOK, Places, ptr \in {"null", "read", "sync"},
         sec \in 0..Sectors, [Next]_vars
  PROVE  Ranges'
<1> USE DEF Ranges, End, requestVars, cacheVars, callVars, isoVars,
     eeVars, loadVars, rdVars, flagVars
<1>1. ASSUME NEW s \in 1..Sectors, BeginRead(s) PROVE Ranges'
  BY <1>1 DEF BeginRead
<1>2. ASSUME NEW s \in 1..Sectors, ReadSync(s) PROVE Ranges'
  BY <1>2 DEF ReadSync
<1>3. CASE FinishRead3
  BY <1>3 DEF FinishRead3
<1>4. ASSUME NEW why \in {"precache", "close"}, Cancel(why) PROVE Ranges'
  BY <1>4 DEF Cancel
<1>5. CASE Look
  BY <1>5 DEF Look, Miss
<1>6. CASE Copy
  BY <1>6 DEF Copy, EndCall, More
<1>7. CASE Decompress
  <2>1. ~running
    BY <1>7 DEF Decompress, Places, Closing
  <2>2. rd' \notin {"ahead", "aheadFill", "aheadNext", "aheadNextFill"}
    BY <1>7, <2>1 DEF Decompress, Places, Busy, Decompressing
  <2> QED
    BY <1>7, <2>2 DEF Decompress
<1>8. CASE Request
  BY <1>8 DEF Request
<1>9. CASE Notify
  BY <1>9 DEF Notify, NotifyOne, EndCall
<1>10. CASE FinishLook
  BY <1>10 DEF FinishLook
<1>11. CASE FinishLock
  BY <1>11 DEF FinishLock
<1>12. CASE FinishSleep
  BY <1>12 DEF FinishSleep
<1>13. CASE FinishWake
  BY <1>13 DEF FinishWake
<1>14. CASE Return
  BY <1>14 DEF Return, EndCall
<1>15. CASE Stop
  BY <1>15 DEF Stop
<1>16. CASE Stopped
  <2>1. ~running
    BY <1>16 DEF Stopped, Places, Closing
  <2>2. rd' \notin {"ahead", "aheadFill", "aheadNext", "aheadNextFill"}
    BY <1>16, <2>1 DEF Stopped, Places, Busy, Decompressing
  <2> QED
    BY <1>16, <2>2 DEF Stopped
<1>17. CASE QuitLock
  BY <1>17 DEF QuitLock
<1>18. CASE QuitNotify
  BY <1>18 DEF QuitNotify, NotifyOne
<1>19. CASE Reopen
  BY <1>19, FileReaderAssumption DEF Finish, Reopen, NotifyOne, Scope
<1>20. CASE Lock
  BY <1>20 DEF Lock
<1>21. CASE Top
  BY <1>21 DEF Top, Load
<1>22. CASE Sleep
  BY <1>22 DEF Sleep
<1>23. CASE Reload
  BY <1>23 DEF Reload, Load
<1>24. CASE StartDecompress
  BY <1>24 DEF StartDecompress
<1>25. CASE DirectRead
  BY <1>25 DEF DirectRead, Delivered, Failed, More
<1>26. CASE Serve
  BY <1>26 DEF Serve, Delivered, Evict, More, Chunk
<1>27. CASE ServeFill
  BY <1>27 DEF ServeFill, Delivered, Failed, Fill, More, Chunk
<1>28. CASE Publish
  BY <1>28 DEF Publish
<1>29. CASE NotifyFinished
  BY <1>29, FileReaderAssumption DEF NotifyFinished, NotifyOne
<1>30. CASE AheadGet
  <2>1. rd' \in {"aheadLoop", "aheadFill", "aheadNextFill"}
    BY <1>30 DEF AheadGet
  <2>2. /\ rptr' = rptr /\ rsec' = rsec /\ buf' \in 0..(Buffers - 1)
        /\ rd' = "aheadFill" => rd = "ahead"
        /\ rd' = "aheadNextFill" => rd = "aheadNext" /\ buf' = buf
                                    /\ cache' = [cache EXCEPT ![next].size = 0]
    BY <1>30 DEF AheadGet, Evict, CacheTypeOK
  <2>3. ASSUME rd' = "aheadNextFill"
        PROVE  cache'[buf].offset + cache'[buf].size <= Sectors
    <3>1. cache[buf] \in Chunks
      BY DEF CacheTypeOK, Chunks
    <3>2. \/ cache'[buf] = cache[buf]
          \/ cache'[buf] = [cache[buf] EXCEPT !.size = 0]
      BY <2>2, <2>3 DEF CacheTypeOK
    <3>3. [cache[buf] EXCEPT !.size = 0].offset = cache[buf].offset
      BY <3>1 DEF Chunks
    <3>4. cache[buf].offset \in 0..Sectors /\ cache[buf].size \in 0..Cap
      BY <3>1 DEF Chunks
    <3>5. [cache[buf] EXCEPT !.size = 0].size = 0
      BY <3>1, EmptyRecord
    <3>6. cache[buf].offset + cache[buf].size <= Sectors
      BY <2>2, <2>3
    <3>7. cache[buf].offset + 0 <= Sectors
      BY <3>4, <3>6, FileReaderAssumption
    <3> QED
      BY <3>2, <3>3, <3>5, <3>6, <3>7
  <2> QED
    BY <2>1, <2>2, <2>3
<1>31. CASE AheadFill
  BY <1>31 DEF AheadFill, Fill, CacheTypeOK
<1>32. CASE AheadLoop
  <2>1. rd' = "aheadNext" => UNCHANGED cache /\ End(buf) <= Sectors
    BY <1>32 DEF AheadLoop
  <2>2. rd' \in {"aheadLoop", "aheadNext", "end"} /\ UNCHANGED <<rptr,
       rsec, buf>>
    BY <1>32 DEF AheadLoop
  <2> QED
    BY <2>1, <2>2
<1>33. CASE Finish
  BY <1>33, FileReaderAssumption DEF Finish, Reopen, NotifyOne, Scope
<1>34. CASE UNCHANGED vars
  BY <1>34 DEF vars
<1> HIDE DEF Ranges, End, requestVars, cacheVars, callVars, isoVars,
     eeVars, loadVars, rdVars, flagVars
<1> QED
  BY <1>1, <1>2, <1>3, <1>4, <1>5, <1>6, <1>7, <1>8, <1>9, <1>10, <1>11,
       <1>12, <1>13, <1>14, <1>15, <1>16, <1>17, <1>18, <1>19, <1>20, <1>21,
       <1>22, <1>23, <1>24, <1>25, <1>26, <1>27, <1>28, <1>29, <1>30, <1>31,
       <1>32, <1>33, <1>34 DEF Next, EEStep, ReaderStep

\* The other numbers.
Numbers ==
  /\ amt \in 0..2
  /\ content \in [{"read", "sync"} -> 0..Sectors]
  /\ want \in 0..Sectors /\ readLsn \in 0..Sectors

\* Sectors stay sectors.
LEMMA NextNumbers ==
  ASSUME Numbers, Ranges, [Next]_vars
  PROVE  Numbers'
<1> USE DEF Numbers, Ranges, requestVars, cacheVars, callVars, isoVars,
     eeVars, loadVars, rdVars, flagVars
<1>1. ASSUME NEW s \in 1..Sectors, BeginRead(s) PROVE Numbers'
  BY <1>1 DEF BeginRead
<1>2. ASSUME NEW s \in 1..Sectors, ReadSync(s) PROVE Numbers'
  BY <1>2 DEF ReadSync
<1>3. CASE FinishRead3
  BY <1>3 DEF FinishRead3
<1>4. ASSUME NEW why \in {"precache", "close"}, Cancel(why) PROVE Numbers'
  BY <1>4 DEF Cancel
<1>5. CASE Look
  BY <1>5 DEF Look, Miss
<1>6. CASE Copy
  <2> DEFINE s == IF Holds(picked, want) THEN want ELSE 0
  <2>0. s \in 0..Sectors
    BY FileReaderAssumption
  <2>1. content' = [content EXCEPT ![op] = s]
    BY <1>6 DEF Copy
  <2> HIDE DEF s
  <2>2. content' \in [{"read", "sync"} -> 0..Sectors]
    BY <2>0, <2>1
  <2>3. (want' = 0 \/ UNCHANGED want) /\ UNCHANGED readLsn
    BY <1>6 DEF Copy, EndCall
  <2>4. amt' \in 0..2
    BY <1>6 DEF Copy, More
  <2>5. want' \in 0..Sectors /\ readLsn' \in 0..Sectors
    BY <2>3, FileReaderAssumption
  <2> QED
    BY <2>2, <2>4, <2>5
<1>7. CASE Decompress
  BY <1>7 DEF Decompress, More
<1>8. CASE Request
  BY <1>8 DEF Request
<1>9. CASE Notify
  BY <1>9, FileReaderAssumption DEF Notify, NotifyOne, EndCall
<1>10. CASE FinishLook
  BY <1>10 DEF FinishLook
<1>11. CASE FinishLock
  BY <1>11 DEF FinishLock
<1>12. CASE FinishSleep
  BY <1>12 DEF FinishSleep
<1>13. CASE FinishWake
  BY <1>13 DEF FinishWake
<1>14. CASE Return
  BY <1>14, FileReaderAssumption DEF Return, EndCall
<1>15. CASE Stop
  BY <1>15 DEF Stop
<1>16. CASE Stopped
  BY <1>16, FileReaderAssumption DEF Stopped, EndCall
<1>17. CASE QuitLock
  BY <1>17 DEF QuitLock
<1>18. CASE QuitNotify
  BY <1>18 DEF QuitNotify, NotifyOne
<1>19. CASE Reopen
  BY <1>19, FileReaderAssumption DEF Reopen
<1>20. CASE Lock
  BY <1>20 DEF Lock
<1>21. CASE Top
  BY <1>21 DEF Top, Load
<1>22. CASE Sleep
  BY <1>22 DEF Sleep
<1>23. CASE Reload
  BY <1>23 DEF Reload, Load
<1>24. CASE StartDecompress
  <2>1. content' = content \/ content' = [content EXCEPT ![rptr] = 0]
    BY <1>24 DEF StartDecompress
  <2>2. 0 \in 0..Sectors
    BY FileReaderAssumption
  <2>3. content' \in [{"read", "sync"} -> 0..Sectors]
    BY <2>1, <2>2
  <2>4. UNCHANGED <<want, readLsn, amt>>
    BY <1>24 DEF StartDecompress
  <2> QED
    BY <2>3, <2>4
<1>25. CASE DirectRead
  BY <1>25 DEF DirectRead, Delivered, Failed, More
<1>26. CASE Serve
  BY <1>26 DEF Serve, Delivered, Evict, More, Chunk
<1>27. CASE ServeFill
  BY <1>27 DEF ServeFill, Delivered, Failed, Fill, More, Chunk
<1>28. CASE Publish
  BY <1>28 DEF Publish
<1>29. CASE NotifyFinished
  BY <1>29 DEF NotifyFinished, NotifyOne
<1>30. CASE AheadGet
  BY <1>30 DEF AheadGet, Evict, Chunk
<1>31. CASE AheadFill
  BY <1>31 DEF AheadFill, Fill, Chunk
<1>32. CASE AheadLoop
  BY <1>32 DEF AheadLoop
<1>33. CASE Finish
  BY <1>33 DEF Finish, NotifyOne, Scope
<1>34. CASE UNCHANGED vars
  BY <1>34 DEF vars
<1> HIDE DEF Numbers, Ranges, requestVars, cacheVars, callVars, isoVars,
     eeVars, loadVars, rdVars, flagVars
<1> QED
  BY <1>1, <1>2, <1>3, <1>4, <1>5, <1>6, <1>7, <1>8, <1>9, <1>10, <1>11,
       <1>12, <1>13, <1>14, <1>15, <1>16, <1>17, <1>18, <1>19, <1>20, <1>21,
       <1>22, <1>23, <1>24, <1>25, <1>26, <1>27, <1>28, <1>29, <1>30, <1>31,
       <1>32, <1>33, <1>34 DEF Next, EEStep, ReaderStep

TypesOK == TypeOK /\ Ranges /\ Places

\* The constructor.
LEMMA InitTypes == Init => TypesOK
<1> SUFFICES ASSUME Init PROVE TypesOK
  OBVIOUS
<1>1. Places
  BY DEF Init, Places, Asking, Closing, Busy, Decompressing, Writing
<1>2. 0 \in 0..Sectors /\ 0 \in 0..(Buffers - 1) /\ 0 \in 0..2
  BY FileReaderAssumption
<1>3. FlagsTypeOK
  BY <1>2 DEF Init, FlagsTypeOK
<1>4. cache = [b \in 0..(Buffers - 1) |-> Empty]
  BY DEF Init
<1>5. cache \in Caches /\ Bounded(cache)
  BY <1>4, EmptyChunk DEF Caches, Bounded
<1>6. CacheTypeOK
  BY <1>2, <1>5, CacheType DEF Init
<1>7. Ranges
  BY <1>2 DEF Init, Ranges
<1>8. Numbers
  BY <1>2 DEF Init, Numbers
<1> QED
  BY <1>1, <1>3, <1>6, <1>7, <1>8 DEF TypesOK, TypeOK, Numbers

\* Every step.
LEMMA NextTypes == TypesOK /\ [Next]_vars => TypesOK'
<1> SUFFICES ASSUME TypesOK, [Next]_vars PROVE TypesOK'
  OBVIOUS
<1>1. FlagsTypeOK /\ CacheTypeOK /\ Numbers /\ Ranges /\ Places
  BY DEF TypesOK, TypeOK, Numbers
<1>2. /\ ptr \in {"null", "read", "sync"} /\ sec \in 0..Sectors
      /\ rptr \in {"null", "read", "sync"}
      /\ want \in 0..Sectors /\ readLsn \in 0..Sectors
  BY <1>1 DEF FlagsTypeOK, Numbers, Ranges
<1>3. FlagsTypeOK'
  BY <1>1, <1>2, NextFlags
<1>4. CacheTypeOK'
  BY <1>1, <1>2, NextCache
<1>5. Numbers'
  BY <1>1, NextNumbers
<1>6. Ranges'
  BY <1>1, <1>2, NextRanges
<1>7. Places'
  BY <1>1, NextPlaces
<1> QED
  BY <1>3, <1>4, <1>5, <1>6, <1>7 DEF TypesOK, TypeOK, Numbers

\* So in every reachable state.
LEMMA Types == Spec => []TypesOK
BY InitTypes, NextTypes, PTL DEF Spec

\* Every variable keeps its type, and no buffer is longer than it may be.
THEOREM TypeCorrect == Spec => []TypeOK
<1>1. TypesOK => TypeOK
  BY DEF TypesOK
<1> QED
  BY <1>1, Types, PTL

\* The format's own code runs on one thread at a time, whoever calls it.
THEOREM DecompressorSafe == Spec => []DecompressorExclusive
<1>1. TypesOK => DecompressorExclusive
  BY DEF TypesOK, Places, Busy, Closing, DecompressorExclusive
<1> QED
  BY <1>1, Types, PTL

-----------------------------------------------------------------------------
(* Targets.                                                                *)

Calling == Asking \cup {"requestAhead", "notify", "notifyAhead", "finish",
                        "finishLock", "finishSleep", "finishWait", "return"}
Fills == {"serveFill", "aheadFill", "aheadNextFill"}
Told == rd = "publish" /\ rptr # "null"

\* Of a caller that finishes a read before it begins the next: a target is the
\* read thread's only inside the call that gave it.
Owned ==
  /\ ptr = "read" =>
       /\ inprogress
       /\ ee \notin Asking \cup {"requestAhead", "notifyAhead", "return"}
  /\ ptr = "sync" =>
       /\ op = "sync"
       /\ ee \in {"notify", "finish", "finishLock", "finishSleep", "finishWait"}
  /\ rd \in Writing => rptr = ptr /\ ptr # "null"
  /\ Told => rptr = ptr
  /\ op = "read" /\ ee # "run" => inprogress
  /\ op = "sync" => ~inprogress /\ ee # "run"
  /\ ee = "run" => op = "read"
  /\ ee \in Calling => op \in {"read", "sync"}

\* The request is the call's sector, and ...
Asked ==
  /\ op = "read" /\ ee \in Calling => want = readLsn
  /\ ptr = "read" => sec = readLsn
  /\ ptr = "sync" => sec = want
  /\ rd \in Writing \/ Told => rsec = sec

\* ... what has been read is it, once.
Counted ==
  /\ ee \in {"copy", "syncRead", "request"} => amt = 0
  /\ ptr # "null" =>
       IF Told /\ ok THEN amt = 1 /\ content[ptr] = sec ELSE amt = 0
  /\ ptr = "null" /\ inprogress /\ ee \notin Asking =>
       amt < 2 /\ (amt = 1 => content["read"] = readLsn)
  /\ ptr = "null" /\ op = "sync" /\ ee \notin Asking =>
       amt < 2 /\ (amt = 1 => content["sync"] = want)
  /\ ~inprogress /\ readLsn # 0 => content["read"] = readLsn

\* The buffer that a call copies from is not the one that is being filled.
Kept ==
  /\ ee = "copy" => picked \in 0..(Buffers - 1) /\ Holds(picked, want)
  /\ rd \in Fills => cache[next].size = 0

\* Targets change hands only where a call begins and where it is published.
LEMMA NextOwned ==
  ASSUME Reissue = FALSE, TypesOK, Owned, [Next]_vars
  PROVE  Owned'
<1> USE DEF Owned, Asking, Calling, Writing, Told, requestVars,
     cacheVars, callVars, isoVars, eeVars, loadVars, rdVars, flagVars
<1>1. ASSUME NEW s \in 1..Sectors, BeginRead(s) PROVE Owned'
  BY <1>1 DEF BeginRead
<1>2. ASSUME NEW s \in 1..Sectors, ReadSync(s) PROVE Owned'
  BY <1>2 DEF ReadSync
<1>3. CASE FinishRead3
  BY <1>3 DEF FinishRead3
<1>4. ASSUME NEW why \in {"precache", "close"}, Cancel(why) PROVE Owned'
  BY <1>4 DEF Cancel
<1>5. CASE Look
  BY <1>5 DEF Look, Miss
<1>6. CASE Copy
  BY <1>6 DEF Copy, EndCall, More
<1>7. CASE Decompress
  BY <1>7 DEF Decompress, More
<1>8. CASE Request
  <2>1. ptr = "null"
    BY <1>8 DEF Request, TypesOK, TypeOK, FlagsTypeOK
  <2>2. rd \notin Writing /\ ~Told /\ rd' = rd /\ rptr' = rptr
    BY <1>8, <2>1 DEF Request
  <2>3. op \in {"read", "sync"} /\ op' = op /\ inprogress' = inprogress
    BY <1>8 DEF Request
  <2>4. CASE ee = "request"
    <3>1. ptr' = op /\ ee' = "notify"
      BY <1>8, <2>4 DEF Request
    <3> QED
      BY <1>8, <2>2, <2>3, <2>4, <3>1
  <2>5. CASE ee = "requestAhead"
    <3>1. ptr' = "null" /\ ee' = "notifyAhead"
      BY <1>8, <2>5 DEF Request
    <3> QED
      BY <1>8, <2>2, <2>3, <2>5, <3>1
  <2> QED
    BY <1>8, <2>4, <2>5 DEF Request
<1>9. CASE Notify
  BY <1>9 DEF Notify, NotifyOne, EndCall
<1>10. CASE FinishLook
  BY <1>10 DEF FinishLook
<1>11. CASE FinishLock
  BY <1>11 DEF FinishLock
<1>12. CASE FinishSleep
  BY <1>12 DEF FinishSleep
<1>13. CASE FinishWake
  BY <1>13 DEF FinishWake
<1>14. CASE Return
  BY <1>14 DEF Return, EndCall
<1>15. CASE Stop
  BY <1>15 DEF Stop
<1>16. CASE Stopped
  BY <1>16 DEF Stopped, EndCall
<1>17. CASE QuitLock
  BY <1>17 DEF QuitLock
<1>18. CASE QuitNotify
  BY <1>18 DEF QuitNotify, NotifyOne
<1>19. CASE Reopen
  BY <1>19 DEF Reopen
<1>20. CASE Lock
  BY <1>20 DEF Lock
<1>21. CASE Top
  BY <1>21 DEF Top, Load
<1>22. CASE Sleep
  BY <1>22 DEF Sleep
<1>23. CASE Reload
  BY <1>23 DEF Reload, Load
<1>24. CASE StartDecompress
  BY <1>24 DEF StartDecompress
<1>25. CASE DirectRead
  BY <1>25 DEF DirectRead, Delivered, Failed, More
<1>26. CASE Serve
  BY <1>26 DEF Serve, Delivered, Evict, More, Chunk
<1>27. CASE ServeFill
  BY <1>27 DEF ServeFill, Delivered, Failed, Fill, More, Chunk
<1>28. CASE Publish
  BY <1>28 DEF Publish
<1>29. CASE NotifyFinished
  BY <1>29 DEF NotifyFinished, NotifyOne
<1>30. CASE AheadGet
  BY <1>30 DEF AheadGet, Evict, Chunk
<1>31. CASE AheadFill
  BY <1>31 DEF AheadFill, Fill, Chunk
<1>32. CASE AheadLoop
  BY <1>32 DEF AheadLoop
<1>33. CASE Finish
  BY <1>33 DEF Finish, NotifyOne, Scope
<1>34. CASE UNCHANGED vars
  BY <1>34 DEF vars
<1> HIDE DEF Owned, Asking, Calling, Writing, Told, requestVars,
     cacheVars, callVars, isoVars, eeVars, loadVars, rdVars, flagVars
<1> QED
  BY <1>1, <1>2, <1>3, <1>4, <1>5, <1>6, <1>7, <1>8, <1>9, <1>10, <1>11,
       <1>12, <1>13, <1>14, <1>15, <1>16, <1>17, <1>18, <1>19, <1>20, <1>21,
       <1>22, <1>23, <1>24, <1>25, <1>26, <1>27, <1>28, <1>29, <1>30, <1>31,
       <1>32, <1>33, <1>34 DEF Next, EEStep, ReaderStep

\* The request does not change under the read thread.
LEMMA NextAsked ==
  ASSUME Reissue = FALSE, TypesOK, Owned, Asked, [Next]_vars
  PROVE  Asked'
<1> USE DEF Owned, Asked, Asking, Calling, Writing, Told, requestVars,
     cacheVars, callVars, isoVars, eeVars, loadVars, rdVars, flagVars
<1>1. ASSUME NEW s \in 1..Sectors, BeginRead(s) PROVE Asked'
  BY <1>1 DEF BeginRead
<1>2. ASSUME NEW s \in 1..Sectors, ReadSync(s) PROVE Asked'
  BY <1>2 DEF ReadSync
<1>3. CASE FinishRead3
  BY <1>3 DEF FinishRead3
<1>4. ASSUME NEW why \in {"precache", "close"}, Cancel(why) PROVE Asked'
  BY <1>4 DEF Cancel
<1>5. CASE Look
  BY <1>5 DEF Look, Miss
<1>6. CASE Copy
  BY <1>6 DEF Copy, EndCall, More
<1>7. CASE Decompress
  BY <1>7 DEF Decompress, More
<1>8. CASE Request
  <2>1. ptr = "null"
    BY <1>8 DEF Request, TypesOK, TypeOK, FlagsTypeOK
  <2>2. rd \notin Writing /\ ~Told
    BY <2>1
  <2>3. /\ sec' = want /\ ptr' \in {op, "null"} /\ ee' \in {"notify", "notifyAhead"}
        /\ UNCHANGED <<op, want, readLsn, rd, rptr, rsec>>
    BY <1>8 DEF Request
  <2> QED
    BY <1>8, <2>2, <2>3 DEF Request
<1>9. CASE Notify
  BY <1>9 DEF Notify, NotifyOne, EndCall
<1>10. CASE FinishLook
  BY <1>10 DEF FinishLook
<1>11. CASE FinishLock
  BY <1>11 DEF FinishLock
<1>12. CASE FinishSleep
  BY <1>12 DEF FinishSleep
<1>13. CASE FinishWake
  BY <1>13 DEF FinishWake
<1>14. CASE Return
  BY <1>14 DEF Return, EndCall
<1>15. CASE Stop
  BY <1>15 DEF Stop
<1>16. CASE Stopped
  BY <1>16 DEF Stopped, EndCall
<1>17. CASE QuitLock
  BY <1>17 DEF QuitLock
<1>18. CASE QuitNotify
  BY <1>18 DEF QuitNotify, NotifyOne
<1>19. CASE Reopen
  BY <1>19 DEF Reopen
<1>20. CASE Lock
  BY <1>20 DEF Lock
<1>21. CASE Top
  BY <1>21 DEF Top, Load
<1>22. CASE Sleep
  BY <1>22 DEF Sleep
<1>23. CASE Reload
  BY <1>23 DEF Reload, Load
<1>24. CASE StartDecompress
  BY <1>24 DEF StartDecompress
<1>25. CASE DirectRead
  BY <1>25 DEF DirectRead, Delivered, Failed, More
<1>26. CASE Serve
  BY <1>26 DEF Serve, Delivered, Evict, More, Chunk
<1>27. CASE ServeFill
  BY <1>27 DEF ServeFill, Delivered, Failed, Fill, More, Chunk
<1>28. CASE Publish
  BY <1>28 DEF Publish
<1>29. CASE NotifyFinished
  BY <1>29 DEF NotifyFinished, NotifyOne
<1>30. CASE AheadGet
  BY <1>30 DEF AheadGet, Evict, Chunk
<1>31. CASE AheadFill
  BY <1>31 DEF AheadFill, Fill, Chunk
<1>32. CASE AheadLoop
  BY <1>32 DEF AheadLoop
<1>33. CASE Finish
  BY <1>33 DEF Finish, NotifyOne, Scope
<1>34. CASE UNCHANGED vars
  BY <1>34 DEF vars
<1> HIDE DEF Owned, Asked, Asking, Calling, Writing, Told, requestVars,
     cacheVars, callVars, isoVars, eeVars, loadVars, rdVars, flagVars
<1> QED
  BY <1>1, <1>2, <1>3, <1>4, <1>5, <1>6, <1>7, <1>8, <1>9, <1>10, <1>11,
       <1>12, <1>13, <1>14, <1>15, <1>16, <1>17, <1>18, <1>19, <1>20, <1>21,
       <1>22, <1>23, <1>24, <1>25, <1>26, <1>27, <1>28, <1>29, <1>30, <1>31,
       <1>32, <1>33, <1>34 DEF Next, EEStep, ReaderStep

\* Filled, emptied or grown, a buffer keeps the sectors it holds for who copies.
LEMMA EvictKeeps ==
  ASSUME TypesOK, Evict, UNCHANGED <<next, ee>>
  PROVE  ee # "copy" /\ cache'[next'].size = 0
<1>1. ee # "copy"
  BY DEF Evict, TypesOK, Places
<1>2. cache \in [0..(Buffers - 1) -> Chunks] /\ next \in 0..(Buffers - 1)
  BY DEF TypesOK, TypeOK, CacheTypeOK, Chunks
<1>3. cache'[next] = [cache[next] EXCEPT !.size = 0]
  BY <1>2 DEF Evict
<1>4. cache[next] \in Chunks
  BY <1>2
<1>5. cache'[next].size = 0
  BY <1>3, <1>4, EmptyRecord
<1> QED
  BY <1>1, <1>5

\* A buffer that is filled is not copied from.
LEMMA FillKeeps ==
  ASSUME TypesOK, Kept, rd \in Fills, Fill, UNCHANGED <<ee, picked, want>>
  PROVE  (ee = "copy" => picked \in 0..(Buffers - 1) /\ Holds(picked, want))'
<1> SUFFICES ASSUME ee = "copy"
             PROVE  picked \in 0..(Buffers - 1)
                    /\ cache'[picked].offset <= want
                    /\ want < cache'[picked].offset + cache'[picked].size
  BY DEF Holds, End
<1>1. picked \in 0..(Buffers - 1) /\ Holds(picked, want) /\ cache[next].size = 0
  BY DEF Kept
<1>2. /\ cache \in [0..(Buffers - 1) -> Chunks] /\ next \in 0..(Buffers - 1)
      /\ want \in 0..Sectors
  BY DEF TypesOK, TypeOK, CacheTypeOK, Chunks
<1>3. cache[next].offset \in 0..Sectors
  BY <1>2 DEF Chunks
<1>4. ~Holds(next, want)
  BY <1>1, <1>2, <1>3, FileReaderAssumption DEF Holds, End
<1>5. picked # next
  BY <1>1, <1>4
<1>6. cache'[picked] = cache[picked]
  BY <1>1, <1>2, <1>5 DEF Fill
<1> QED
  BY <1>1, <1>6 DEF Holds, End

\* The mutex keeps Evict and a copy apart; the read thread only adds.
LEMMA NextKept ==
  ASSUME TypesOK, Kept, [Next]_vars
  PROVE  Kept'
<1> USE DEF Kept, Fills, Holds, End, requestVars, cacheVars, callVars,
     isoVars, eeVars, loadVars, rdVars, flagVars
<1>1. ASSUME NEW s \in 1..Sectors, BeginRead(s) PROVE Kept'
  BY <1>1 DEF BeginRead
<1>2. ASSUME NEW s \in 1..Sectors, ReadSync(s) PROVE Kept'
  BY <1>2 DEF ReadSync
<1>3. CASE FinishRead3
  BY <1>3 DEF FinishRead3
<1>4. ASSUME NEW why \in {"precache", "close"}, Cancel(why) PROVE Kept'
  BY <1>4 DEF Cancel
<1>5. CASE Look
  BY <1>5 DEF Look, Miss, TypesOK, TypeOK, CacheTypeOK
<1>6. CASE Copy
  BY <1>6 DEF Copy, EndCall, More
<1>7. CASE Decompress
  <2>1. rd \notin Fills
    BY <1>7 DEF Decompress, TypesOK, Places, Closing, Busy,
         Decompressing, Writing
  <2>2. ee' # "copy" /\ rd' = rd
    BY <1>7 DEF Decompress, EndCall
  <2> QED
    BY <2>1, <2>2
<1>8. CASE Request
  BY <1>8 DEF Request
<1>9. CASE Notify
  BY <1>9 DEF Notify, NotifyOne, EndCall
<1>10. CASE FinishLook
  BY <1>10 DEF FinishLook
<1>11. CASE FinishLock
  BY <1>11 DEF FinishLock
<1>12. CASE FinishSleep
  BY <1>12 DEF FinishSleep
<1>13. CASE FinishWake
  BY <1>13 DEF FinishWake
<1>14. CASE Return
  BY <1>14 DEF Return, EndCall
<1>15. CASE Stop
  BY <1>15 DEF Stop
<1>16. CASE Stopped
  <2>1. rd \notin Fills
    BY <1>16 DEF Stopped, TypesOK, Places, Closing, Busy, Decompressing,
         Writing
  <2>2. ee' # "copy" /\ rd' = rd
    BY <1>16 DEF Stopped, EndCall
  <2> QED
    BY <2>1, <2>2
<1>17. CASE QuitLock
  BY <1>17 DEF QuitLock
<1>18. CASE QuitNotify
  BY <1>18 DEF QuitNotify, NotifyOne
<1>19. CASE Reopen
  BY <1>19 DEF Reopen
<1>20. CASE Lock
  BY <1>20 DEF Lock
<1>21. CASE Top
  BY <1>21 DEF Top, Load
<1>22. CASE Sleep
  BY <1>22 DEF Sleep
<1>23. CASE Reload
  BY <1>23 DEF Reload, Load
<1>24. CASE StartDecompress
  BY <1>24 DEF StartDecompress
<1>25. CASE DirectRead
  BY <1>25 DEF DirectRead, Delivered, Failed, More
<1>26. CASE Serve
  <2>1. CASE Evict /\ UNCHANGED <<next, ee>>
    BY <2>1, EvictKeeps
  <2>2. CASE UNCHANGED <<cache, ee, picked, want>> /\ rd' = "publish"
    BY <2>2
  <2> QED
    BY <1>26, <2>1, <2>2 DEF Serve, Delivered
<1>27. CASE ServeFill
  <2>1. rd' \notin Fills /\ rd \in Fills /\ UNCHANGED <<ee, picked, want>>
    BY <1>27 DEF ServeFill, Delivered, Failed
  <2>2. CASE Fill
    BY <2>1, <2>2, FillKeeps
  <2>3. CASE UNCHANGED cacheVars
    BY <2>1, <2>3
  <2> QED
    BY <1>27, <2>2, <2>3 DEF ServeFill
<1>28. CASE Publish
  BY <1>28 DEF Publish
<1>29. CASE NotifyFinished
  BY <1>29 DEF NotifyFinished, NotifyOne
<1>30. CASE AheadGet
  <2>1. CASE Evict /\ UNCHANGED <<next, ee>>
    BY <2>1, EvictKeeps
  <2>2. CASE UNCHANGED <<cache, ee, picked, want>> /\ rd' = "aheadLoop"
    BY <2>2
  <2> QED
    BY <1>30, <2>1, <2>2 DEF AheadGet
<1>31. CASE AheadFill
  <2>1. rd' \notin Fills /\ rd \in Fills /\ UNCHANGED <<ee, picked, want>>
    BY <1>31 DEF AheadFill
  <2>2. CASE Fill
    BY <2>1, <2>2, FillKeeps
  <2>3. CASE UNCHANGED cacheVars
    BY <2>1, <2>3
  <2> QED
    BY <1>31, <2>2, <2>3 DEF AheadFill
<1>32. CASE AheadLoop
  <2>1. rd' \notin Fills /\ UNCHANGED <<ee, picked, want>>
    BY <1>32 DEF AheadLoop
  <2>2. CASE UNCHANGED cache
    BY <2>1, <2>2
  <2>3. CASE cache' = [cache EXCEPT ![buf].size = @ + 1]
    <3>1. \A b \in 0..(Buffers - 1) : cache[b] \in Chunks
      BY DEF TypesOK, TypeOK, CacheTypeOK, Chunks
    <3>2. SUFFICES ASSUME ee = "copy"
                   PROVE  /\ cache'[picked].offset <= want
                          /\ want < cache'[picked].offset + cache'[picked].size
      BY <2>1
    <3>3. picked \in 0..(Buffers - 1) /\ Holds(picked, want)
      BY <3>2
    <3>4. cache'[picked] = cache[picked]
          \/ cache'[picked] = [cache[picked] EXCEPT !.size = @ + 1]
      BY <2>3, <3>3 DEF TypesOK, TypeOK, CacheTypeOK
    <3>5. cache[picked].offset \in 0..Sectors /\ cache[picked].size \in 0..Cap
      BY <3>1, <3>3 DEF Chunks
    <3>6. cache[picked].offset + cache[picked].size
            <= cache[picked].offset + (cache[picked].size + 1)
      BY <3>5, FileReaderAssumption
    <3>7. want \in 0..Sectors
      BY DEF TypesOK, TypeOK
    <3>8. want < cache[picked].offset + (cache[picked].size + 1)
      BY <3>3, <3>5, <3>6, <3>7, FileReaderAssumption
    <3>9. CASE cache'[picked] = cache[picked]
      BY <3>3, <3>9
    <3>10. CASE cache'[picked] = [cache[picked] EXCEPT !.size = @ + 1]
      <4>1. cache'[picked] = [offset |-> cache[picked].offset,
                              size |-> cache[picked].size + 1]
        BY <3>1, <3>3, <3>10, GrownRecord
      <4>2. /\ cache'[picked].offset = cache[picked].offset
            /\ cache'[picked].size = cache[picked].size + 1
        BY <4>1
      <4> QED
        BY <3>3, <3>8, <4>2
    <3> QED
      BY <3>4, <3>9, <3>10
  <2> QED
    BY <1>32, <2>2, <2>3 DEF AheadLoop
<1>33. CASE Finish
  BY <1>33 DEF Finish, NotifyOne, Scope
<1>34. CASE UNCHANGED vars
  BY <1>34 DEF vars
<1> HIDE DEF Kept, Fills, Holds, End, requestVars, cacheVars, callVars,
     isoVars, eeVars, loadVars, rdVars, flagVars
<1> QED
  BY <1>1, <1>2, <1>3, <1>4, <1>5, <1>6, <1>7, <1>8, <1>9, <1>10, <1>11,
       <1>12, <1>13, <1>14, <1>15, <1>16, <1>17, <1>18, <1>19, <1>20, <1>21,
       <1>22, <1>23, <1>24, <1>25, <1>26, <1>27, <1>28, <1>29, <1>30, <1>31,
       <1>32, <1>33, <1>34 DEF Next, EEStep, ReaderStep

\* The end of Decompress counts for the call whose target it had.
LEMMA TargetWritten ==
  ASSUME TypesOK, Owned, Asked, Counted, rd \in Writing
  PROVE  /\ ptr = rptr /\ ptr \in {"read", "sync"} /\ rsec = sec /\ amt = 0
         /\ ee \notin Asking
         /\ ptr = "read" => inprogress
<1>1. rd # "publish"
  BY DEF Writing
<1>2. ptr = rptr /\ ptr # "null" /\ rsec = sec
  BY DEF Owned, Asked
<1>3. ptr \in {"read", "sync"}
  BY <1>2 DEF TypesOK, TypeOK, FlagsTypeOK
<1>4. amt = 0
  BY <1>1, <1>2 DEF Counted, Told
<1>5. ee \notin Asking /\ (ptr = "read" => inprogress)
  BY <1>3 DEF Owned, Asking
<1> QED
  BY <1>2, <1>3, <1>4, <1>5

\* What is delivered counts once.
LEMMA DeliveredCounts ==
  ASSUME TypesOK, Owned, Asked, Counted, rd \in Writing, Delivered,
         UNCHANGED <<requestVars, eeVars, loadVars>>
  PROVE  Counted'
<1> USE DEF requestVars, eeVars, callVars, isoVars, loadVars
<1>1. /\ ptr = rptr /\ ptr \in {"read", "sync"} /\ rsec = sec /\ amt = 0
      /\ ee \notin Asking
  BY TargetWritten
<1>2. ptr = "read" => inprogress
  BY TargetWritten
<1>3. amt' = 1 /\ rd' = "publish" /\ ok' = TRUE
  BY <1>1 DEF Delivered, More
<1>4. content' = [content EXCEPT ![ptr] = sec] /\ ptr \in DOMAIN content
  BY <1>1 DEF Delivered, TypesOK, TypeOK
<1>5. content'[ptr] = sec
  BY <1>4
<1>6. ptr = "sync" => content'["read"] = content["read"]
  BY <1>4
<1>7. ptr' = ptr /\ ee' = ee /\ sec' = sec /\ rptr' = rptr /\ inprogress'
     = inprogress
      /\ readLsn' = readLsn
  OBVIOUS
<1>8. (~inprogress /\ readLsn # 0 => content["read"] = readLsn)'
  BY <1>1, <1>2, <1>6, <1>7 DEF Counted
<1> QED
  BY <1>1, <1>3, <1>5, <1>7, <1>8 DEF Counted, Told, Asking

\* A failed one leaves nothing read.
LEMMA FailedCounts ==
  ASSUME TypesOK, Owned, Asked, Counted, rd \in Writing, Failed,
         UNCHANGED <<requestVars, eeVars, loadVars>>
  PROVE  Counted'
<1> USE DEF requestVars, eeVars, callVars, isoVars, loadVars
<1>1. ptr \in {"read", "sync"} /\ amt = 0 /\ ee \notin Asking
  BY TargetWritten
<1>2. amt' = 0 /\ ok' = FALSE /\ content' = content
  BY <1>1 DEF Failed
<1>3. ptr' = ptr /\ ee' = ee /\ inprogress' = inprogress /\ readLsn' = readLsn
  OBVIOUS
<1> QED
  BY <1>1, <1>2, <1>3 DEF Counted, Told, Asking

\* No step loses what was read, or counts it twice.
LEMMA NextCounted ==
  ASSUME Reissue = FALSE, TypesOK, Owned, Asked, Kept, Counted, [Next]_vars
  PROVE  Counted'
<1> USE DEF Owned, Asked, Kept, Counted, Asking, Calling, Writing, Told,
     requestVars, cacheVars, callVars, isoVars, eeVars, loadVars, rdVars,
     flagVars
<1>1. ASSUME NEW s \in 1..Sectors, BeginRead(s) PROVE Counted'
  BY <1>1 DEF BeginRead
<1>2. ASSUME NEW s \in 1..Sectors, ReadSync(s) PROVE Counted'
  BY <1>2 DEF ReadSync
<1>3. CASE FinishRead3
  BY <1>3 DEF FinishRead3
<1>4. ASSUME NEW why \in {"precache", "close"}, Cancel(why) PROVE Counted'
  BY <1>4 DEF Cancel
<1>5. CASE Look
  <2>1. amt' = 0 /\ ee' \in Asking /\ ee \in Asking
    BY <1>5 DEF Look, Miss
  <2>2. UNCHANGED <<ptr, sec, content, op, want, inprogress, readLsn, rd,
       rptr, ok>>
    BY <1>5 DEF Look
  <2>3. ptr = "null"
    BY <2>1 DEF TypesOK, TypeOK, FlagsTypeOK
  <2> QED
    BY <2>1, <2>2, <2>3
<1>6. CASE Copy
  <2>1. ee = "copy" /\ Holds(picked, want) /\ amt = 0
    BY <1>6 DEF Copy
  <2>2. op \in {"read", "sync"} /\ ptr = "null"
    BY <2>1 DEF TypesOK, TypeOK, FlagsTypeOK
  <2>3. /\ amt' = 1 /\ content' = [content EXCEPT ![op] = want]
        /\ ee' \in {"return", "run", "requestAhead"}
    BY <1>6, <2>1 DEF Copy, More, EndCall
  <2>4. /\ content'[op] = want
        /\ \A x \in {"read", "sync"} \ {op} : content'[x] = content[x]
    BY <2>2, <2>3 DEF TypesOK, TypeOK
  <2>5. UNCHANGED <<ptr, inprogress, readLsn>>
    BY <1>6 DEF Copy
  <2>6. CASE op = "read"
    <3>1. want = readLsn /\ inprogress
      BY <2>1, <2>6
    <3>2. op' = "read"
      BY <1>6, <2>6 DEF Copy, EndCall
    <3> QED
      BY <2>2, <2>3, <2>4, <2>5, <2>6, <3>1, <3>2
  <2>7. CASE op = "sync"
    <3>1. ~inprogress
      BY <2>7
    <3>2. op' = "sync" /\ want' = want
      BY <1>6, <2>7 DEF Copy
    <3> QED
      BY <2>2, <2>3, <2>4, <2>5, <2>7, <3>1, <3>2
  <2> QED
    BY <2>2, <2>6, <2>7
<1>7. CASE Decompress
  <2>1. ee = "syncRead" /\ amt = 0
    BY <1>7 DEF Decompress
  <2>2. op = "sync" /\ ptr = "null" /\ ~inprogress
    BY <2>1 DEF TypesOK, TypeOK, FlagsTypeOK, Places
  <2>3. UNCHANGED <<ptr, inprogress, readLsn, op, want>>
    BY <1>7 DEF Decompress
  <2>4. CASE content' = [content EXCEPT ![op] = want] /\ amt' = More(amt)
             /\ ee' = "requestAhead"
    <3>1. content'["sync"] = want /\ content'["read"] = content["read"]
      BY <2>2, <2>4 DEF TypesOK, TypeOK
    <3>2. amt' = 1
      BY <2>1, <2>4 DEF More
    <3> QED
      BY <2>2, <2>3, <2>4, <3>1, <3>2
  <2>5. CASE UNCHANGED <<content, amt>> /\ ee' = "request"
    BY <2>1, <2>2, <2>3, <2>5
  <2> QED
    BY <1>7, <2>4, <2>5 DEF Decompress
<1>8. CASE Request
  <2>1. ptr = "null" /\ UNCHANGED <<content, amt, inprogress, readLsn,
       op, want, rd, rptr, ok>>
    BY <1>8 DEF Request, TypesOK, TypeOK, FlagsTypeOK
  <2>2. ~Told
    BY <2>1
  <2>3. CASE ee = "request"
    <3>1. ptr' = op /\ ee' = "notify" /\ amt = 0 /\ op \in {"read", "sync"}
      BY <1>8, <2>3 DEF Request
    <3> QED
      BY <2>1, <2>2, <3>1
  <2>4. CASE ee = "requestAhead"
    <3>1. ptr' = "null" /\ ee' = "notifyAhead"
      BY <1>8, <2>4 DEF Request
    <3> QED
      BY <2>1, <2>2, <2>4, <3>1
  <2> QED
    BY <1>8, <2>3, <2>4 DEF Request
<1>9. CASE Notify
  BY <1>9 DEF Notify, NotifyOne, EndCall
<1>10. CASE FinishLook
  BY <1>10 DEF FinishLook
<1>11. CASE FinishLock
  BY <1>11 DEF FinishLock
<1>12. CASE FinishSleep
  BY <1>12 DEF FinishSleep
<1>13. CASE FinishWake
  BY <1>13 DEF FinishWake
<1>14. CASE Return
  <2>1. ptr = "null" /\ ee = "return"
    BY <1>14 DEF Return, TypesOK, TypeOK, FlagsTypeOK
  <2>2. ee' = "run" /\ op' = "read" /\ UNCHANGED <<ptr, amt>>
    BY <1>14 DEF Return, EndCall
  <2>3. CASE op = "read"
    <3>1. inprogress /\ amt < 2 /\ (amt = 1 => content["read"] = readLsn)
      BY <2>1, <2>3
    <3>2. /\ inprogress' = FALSE /\ content' = content
          /\ readLsn' = IF amt = 0 THEN 0 ELSE readLsn
      BY <1>14, <2>3 DEF Return
    <3>3. amt = 0 \/ amt = 1
      BY <3>1 DEF TypesOK, TypeOK
    <3>4. (~inprogress /\ readLsn # 0 => content["read"] = readLsn)'
      BY <3>1, <3>2, <3>3
    <3> QED
      BY <2>1, <2>2, <3>2, <3>4
  <2>4. CASE op = "sync"
    <3>1. ~inprogress
      BY <2>4
    <3>2. /\ UNCHANGED <<inprogress, readLsn>>
          /\ content' = [content EXCEPT !["sync"] = 0]
      BY <1>14, <2>4 DEF Return
    <3>3. content'["read"] = content["read"]
      BY <3>2 DEF TypesOK, TypeOK
    <3> QED
      BY <2>1, <2>2, <3>1, <3>2, <3>3
  <2> QED
    BY <1>14, <2>3, <2>4 DEF Return
<1>15. CASE Stop
  BY <1>15 DEF Stop
<1>16. CASE Stopped
  BY <1>16 DEF Stopped, EndCall
<1>17. CASE QuitLock
  BY <1>17 DEF QuitLock
<1>18. CASE QuitNotify
  BY <1>18 DEF QuitNotify, NotifyOne
<1>19. CASE Reopen
  BY <1>19 DEF Reopen
<1>20. CASE Lock
  BY <1>20 DEF Lock
<1>21. CASE Top
  BY <1>21 DEF Top, Load
<1>22. CASE Sleep
  BY <1>22 DEF Sleep
<1>23. CASE Reload
  BY <1>23 DEF Reload, Load
<1>24. CASE StartDecompress
  <2>1. rd \in Writing
    BY <1>24 DEF StartDecompress
  <2>2. UNCHANGED <<requestVars, eeVars, loadVars, amt>>
    BY <1>24 DEF StartDecompress
  <2>3. CASE rd' = "publish" /\ ok' = FALSE /\ UNCHANGED content
    BY <2>1, <2>2, <2>3, FailedCounts DEF Failed
  <2>4. CASE /\ rd' \in {"direct", "serve"}
             /\ content' = content \/ content' = [content EXCEPT ![rptr] = 0]
    <3>1. /\ ptr = rptr /\ ptr \in {"read", "sync"} /\ amt = 0 /\ ee \notin Asking
          /\ ptr = "read" => inprogress
      BY <2>1, TargetWritten
    <3>2. ptr = "sync" => content'["read"] = content["read"]
      BY <2>4, <3>1 DEF TypesOK, TypeOK
    <3>3. (~inprogress /\ readLsn # 0 => content["read"] = readLsn)'
      BY <2>2, <3>1, <3>2
    <3> QED
      BY <2>2, <2>4, <3>1, <3>3
  <2> QED
    BY <1>24, <2>3, <2>4 DEF StartDecompress
<1>25. CASE DirectRead
  <2>1. rd \in Writing
    BY <1>25 DEF DirectRead
  <2>2. UNCHANGED <<requestVars, eeVars, loadVars>>
    BY <1>25 DEF DirectRead
  <2> QED
    BY <1>25, <2>1, <2>2, DeliveredCounts, FailedCounts DEF DirectRead
<1>26. CASE Serve
  <2>1. rd \in Writing
    BY <1>26 DEF Serve
  <2>2. UNCHANGED <<requestVars, eeVars, loadVars>>
    BY <1>26 DEF Serve
  <2>3. CASE Delivered
    BY <2>1, <2>2, <2>3, DeliveredCounts
  <2>4. CASE rd' = "serveFill" /\ UNCHANGED <<content, amt, ok>>
    BY <1>26, <2>2, <2>4 DEF Serve
  <2> QED
    BY <1>26, <2>3, <2>4 DEF Serve
<1>27. CASE ServeFill
  <2>1. rd \in Writing
    BY <1>27 DEF ServeFill
  <2>2. UNCHANGED <<requestVars, eeVars, loadVars>>
    BY <1>27 DEF ServeFill
  <2> QED
    BY <1>27, <2>1, <2>2, DeliveredCounts, FailedCounts DEF ServeFill
<1>28. CASE Publish
  <2>1. UNCHANGED <<sec, content, amt, eeVars, loadVars, ok>>
    BY <1>28 DEF Publish
  <2>2. CASE ptr # rptr
    <3>1. rd' = "reload" /\ ptr' = ptr
      BY <1>28, <2>2 DEF Publish
    <3>2. ~Told
      BY <2>2
    <3> QED
      BY <2>1, <3>1, <3>2
  <2>3. CASE ptr = rptr /\ ptr = "null"
    BY <1>28, <2>1, <2>3 DEF Publish
  <2>4. CASE ptr = rptr /\ ptr # "null"
    <3>1. Told /\ ptr' = "null" /\ rd' = "notify"
      BY <1>28, <2>4 DEF Publish
    <3>2. ptr \in {"read", "sync"}
      BY <2>4 DEF TypesOK, TypeOK, FlagsTypeOK
    <3>3. amt < 2 /\ (amt = 1 => content[ptr] = sec)
      BY <2>4, <3>1
    <3>4. CASE ptr = "read"
      BY <2>1, <3>1, <3>3, <3>4
    <3>5. CASE ptr = "sync"
      BY <2>1, <3>1, <3>3, <3>5
    <3> QED
      BY <3>2, <3>4, <3>5
  <2> QED
    BY <2>2, <2>3, <2>4
<1>29. CASE NotifyFinished
  BY <1>29 DEF NotifyFinished, NotifyOne
<1>30. CASE AheadGet
  BY <1>30 DEF AheadGet, Evict, Chunk
<1>31. CASE AheadFill
  BY <1>31 DEF AheadFill, Fill, Chunk
<1>32. CASE AheadLoop
  BY <1>32 DEF AheadLoop
<1>33. CASE Finish
  BY <1>33 DEF Finish, NotifyOne, Scope
<1>34. CASE UNCHANGED vars
  BY <1>34 DEF vars
<1> HIDE DEF Owned, Asked, Kept, Counted, Asking, Calling, Writing, Told,
     requestVars, cacheVars, callVars, isoVars, eeVars, loadVars, rdVars,
     flagVars
<1> QED
  BY <1>1, <1>2, <1>3, <1>4, <1>5, <1>6, <1>7, <1>8, <1>9, <1>10, <1>11,
       <1>12, <1>13, <1>14, <1>15, <1>16, <1>17, <1>18, <1>19, <1>20, <1>21,
       <1>22, <1>23, <1>24, <1>25, <1>26, <1>27, <1>28, <1>29, <1>30, <1>31,
       <1>32, <1>33, <1>34 DEF Next, EEStep, ReaderStep

\* All of it, for callers that finish a read before they begin the next.
Order == Owned /\ Asked /\ Kept /\ Counted
OrderIfFinished == Reissue = FALSE => Order

\* Nothing has been asked for.
LEMMA InitOrder == Init => Order
<1> SUFFICES ASSUME Init PROVE Order
  OBVIOUS
<1>1. Owned /\ Asked /\ Kept
  BY DEF Init, Owned, Asked, Kept, Calling, Asking, Writing, Told, Fills
<1>2. Counted
  BY DEF Init, Counted, Asking, Told
<1> QED
  BY <1>1, <1>2 DEF Order

\* Together they are inductive.
LEMMA NextOrder == TypesOK /\ OrderIfFinished /\ [Next]_vars => OrderIfFinished'
<1> SUFFICES ASSUME TypesOK, Reissue = FALSE, Order, [Next]_vars PROVE Order'
  BY DEF OrderIfFinished
<1>1. Owned /\ Asked /\ Kept /\ Counted
  BY DEF Order
<1>2. Owned'
  BY <1>1, NextOwned
<1>3. Asked'
  BY <1>1, NextAsked
<1>4. Kept'
  BY <1>1, NextKept
<1>5. Counted'
  BY <1>1, NextCounted
<1> QED
  BY <1>2, <1>3, <1>4, <1>5 DEF Order

\* So in every reachable state.
LEMMA Ordered == Spec => []OrderIfFinished
<1>1. Init => OrderIfFinished
  BY InitOrder DEF OrderIfFinished
<1> QED
  BY <1>1, NextOrder, Types, PTL DEF Spec

\* A call that returns data returns that of its own sector, once; a buffer is
\* never filled while it is copied from.
THEOREM DataSafe == Spec => [](Reissue = FALSE => DataIsRight)
<1>1. TypesOK /\ Order => DataIsRight
  <2> SUFFICES ASSUME TypesOK, Order PROVE DataIsRight
    OBVIOUS
  <2>1. Owned /\ Asked /\ Counted /\ ptr \in {"null", "read", "sync"}
    BY DEF Order, TypesOK, TypeOK, FlagsTypeOK
  <2>2. ASSUME ee = "return" PROVE amt < 2 /\ (amt = 1 => content[op] = want)
    <3>1. ptr = "null" /\ op \in {"read", "sync"} /\ ee \notin Asking
      BY <2>1, <2>2 DEF Owned, Calling, Asking
    <3>2. CASE op = "read"
      BY <2>1, <2>2, <3>1, <3>2 DEF Owned, Asked, Counted, Calling
    <3>3. CASE op = "sync"
      BY <2>1, <2>2, <3>1, <3>3 DEF Counted
    <3> QED
      BY <3>1, <3>2, <3>3
  <2> QED
    BY <2>1, <2>2 DEF Counted, DataIsRight
<1>2. TypesOK /\ OrderIfFinished => (Reissue = FALSE => DataIsRight)
  BY <1>1 DEF OrderIfFinished
<1> QED
  BY <1>2, Types, Ordered, PTL

\* The read thread writes a target only inside the call that gave it.
THEOREM NoLateWriteSafe == Spec => [](Reissue = FALSE => NoLateWrite)
<1>1. Order => NoLateWrite
  BY DEF Order, Owned, NoLateWrite
<1>2. OrderIfFinished => (Reissue = FALSE => NoLateWrite)
  BY <1>1 DEF OrderIfFinished
<1> QED
  BY <1>2, Ordered, PTL
=============================================================================
