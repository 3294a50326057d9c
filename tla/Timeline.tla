------------------------------ MODULE Timeline ------------------------------
(***************************************************************************)
(* What undo and redo promise: the operator walks along one line of shapes. *)
(* An edit forgets what lies ahead and the oldest shapes beyond the limit;  *)
(* going back and forth changes no shape of the line.                       *)
(***************************************************************************)
EXTENDS Integers, Sequences

CONSTANT Limit  \* how many steps back the line keeps

VARIABLES line, at

Newest(s) == SubSeq(s, IF Len(s) > Limit + 1 THEN Len(s) - Limit ELSE 1, Len(s))

Init == Len(line) = 1 /\ at = 1

Edit ==
  /\ line' = Newest(Append(SubSeq(line, 1, at), line'[Len(line')]))
  /\ at' = Len(line')
Back == at > 1 /\ at' = at - 1 /\ UNCHANGED line
Forth == at < Len(line) /\ at' = at + 1 /\ UNCHANGED line
\* The editor is opened, or mounted again on another revision.
Begin == Len(line') = 1 /\ at' = 1

Next == Edit \/ Back \/ Forth \/ Begin
Spec == Init /\ [][Next]_<<line, at>>
=============================================================================
