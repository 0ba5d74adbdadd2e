---------------------------- MODULE OutputStream ----------------------------
(***************************************************************************)
(* What is promised to the reader of a program's output, in a console or   *)
(* in the record of a run.  The program writes pieces, numbered in the     *)
(* order it writes them, and the reader gets some of them: none twice,     *)
(* none out of order, none that was not written, and none once they have   *)
(* stopped watching.  Pieces may be left out, because every queue on the   *)
(* way is bounded.                                                         *)
(***************************************************************************)
EXTENDS Naturals

VARIABLES
  made,     \* pieces the program has written
  last,     \* the latest piece the reader has
  watching  \* the reader is there

vars == <<made, last, watching>>

Init == made = 0 /\ last = 0 /\ watching = TRUE

Write == made' = made + 1 /\ UNCHANGED <<last, watching>>

Show ==
  /\ watching
  /\ \E piece \in (last + 1)..made : last' = piece
  /\ UNCHANGED <<made, watching>>

Leave == watching /\ watching' = FALSE /\ UNCHANGED <<made, last>>

Next == Write \/ Show \/ Leave

Spec == Init /\ [][Next]_vars
=============================================================================
