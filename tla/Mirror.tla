-------------------------------- MODULE Mirror --------------------------------
(***************************************************************************)
(* What a table that is kept by notifications promises: it holds what its  *)
(* source has been at some time, or nothing; it may jump forward or lose   *)
(* everything, and it never goes back to something older.                  *)
(***************************************************************************)
EXTENDS Naturals

VARIABLES now,   \* the version of the source, from 1
          held   \* the version that is held; 0: nothing

Init == now = 1 /\ held = 0

SourceChanges == now' = now + 1 /\ UNCHANGED held
CatchesUp == held' \in (held + 1)..now /\ UNCHANGED now
Loses == held # 0 /\ held' = 0 /\ UNCHANGED now

Next == SourceChanges \/ CatchesUp \/ Loses

Spec == Init /\ [][Next]_<<now, held>>
=============================================================================
