----------------------------- MODULE MCTaskForms -----------------------------
(* One announcement and up to two personal tasks, one of them with dates.   *)
EXTENDS TaskForms, TLC

MCAnnouncements == {1}
MCDated == {3}
Symmetry == Permutations(Requests)
=============================================================================
