----------------------------- MODULE MCWorkSema -----------------------------
(***************************************************************************)
(* WorkSema with two producers, one of which also waits for empty.         *)
(***************************************************************************)
EXTENDS WorkSema

CONSTANTS ee, mtvu
=============================================================================
