----------------------------- MODULE MCScheduler -----------------------------
(***************************************************************************)
(* Instances of Scheduler for TLC.  Workers are integers and processors    *)
(* are visited in index order, so only the fibers are interchangeable.     *)
(***************************************************************************)
EXTENDS Scheduler, TLC

CONSTANTS f1, f2, f3, f4

TwoFibers == {f1, f2}
FourFibers == {f1, f2, f3, f4}

NoRoot == -1

NoPins == {AnyThread}
PinsToOne == {AnyThread, 1}
PinsToAll == {AnyThread, 1, 2}

Symmetry4 == Permutations(FourFibers)

=============================================================================
