---------------------------- MODULE MCShiftTask ----------------------------
(* Small instances of ShiftTask for TLC. *)
EXTENDS ShiftTask, TLC

CONSTANTS interval, endpoint

W(s, e) == [start |-> s, end |-> e]
Crossing == {W(0, 1), W(1, 2)}
Inverted == {W(0, 1), W(1, 2), W(2, 1)}

\* Two activities, the first with two shifts; an activity for every shift.
TwoAndOne == 1 :> 1 @@ 2 :> 1 @@ 3 :> 2
OneEach == 1 :> 1 @@ 2 :> 2 @@ 3 :> 3
=============================================================================
