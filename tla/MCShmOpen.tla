----------------------------- MODULE MCShmOpen -----------------------------
(* Processes whose urls ask for two layouts of one size and one of another. *)
EXTENDS ShmOpen, TLC

CONSTANTS p1, p2, p3
Symmetry == Permutations(Procs)

Layout(d, e, s) == [depth |-> d, elt_sz |-> e, size |-> s]
MCGeometries == {Layout(1, 2, 1), Layout(2, 1, 1), Layout(2, 2, 2)}
=============================================================================
