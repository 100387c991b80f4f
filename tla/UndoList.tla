------------------------------ MODULE UndoList ------------------------------
(***************************************************************************)
(* What undo and redo promise: the versions of a diagram form a list with  *)
(* a position.  An edit drops the versions after the position and adds     *)
(* one; undo and redo move the position; opening another diagram starts    *)
(* over.  Only the oldest versions may be forgotten.                       *)
(***************************************************************************)
EXTENDS Integers, Sequences

CONSTANT Limit      \* how many versions can be undone

VARIABLES list, pos

Init == Len(list) = 1 /\ pos = 1

(* The list without its oldest version when it has grown over the limit.   *)
Recent(l) == IF Len(l) > Limit + 1 THEN Tail(l) ELSE l

Edit ==
    /\ pos' = Len(list') /\ pos' # 0
    /\ list' = Recent(Append(SubSeq(list, 1, pos), list'[pos']))

Undo == pos > 1 /\ pos' = pos - 1 /\ UNCHANGED list

Redo == pos' = pos + 1 /\ pos < Len(list) /\ UNCHANGED list

StartOver == pos' = 1 /\ Len(list') = 1

Next == Undo \/ Redo \/ StartOver \/ Edit

Spec == Init /\ [][Next]_<<list, pos>>
=============================================================================
