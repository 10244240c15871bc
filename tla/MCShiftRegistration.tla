------------------------ MODULE MCShiftRegistration ------------------------
(* Small instances of ShiftRegistration for TLC. *)
EXTENDS ShiftRegistration, TLC

CONSTANTS a1, a2, m1, m2, h1, h2

\* A window ahead of the clock, one that ends as it starts to run, and two overlapping
\* ones that the clock runs through.
W(s, e) == [start |-> s, end |-> e]
OneWindow == {W(1, 2)}
TwoWindows == {W(0, 1), W(0, 2)}
Ending == {W(-1, 0)}

NoLimits == {NULL}
OneOrNull == {1, NULL}
OneTwoOrNull == {1, 2, NULL}

HandlerSymmetry == Permutations(Handlers)
ActorSymmetry ==
    Permutations(Handlers) \cup Permutations(Accounts) \cup Permutations(Censors)
=============================================================================
