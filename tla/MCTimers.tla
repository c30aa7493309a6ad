------------------------------ MODULE MCTimers ------------------------------
(***************************************************************************)
(* Instance of Timers for TLC.  Timers are ordered by address, so only the *)
(* threads are interchangeable.                                            *)
(***************************************************************************)
EXTENDS Timers, TLC

CONSTANTS t1, t2

Symmetry == Permutations({t1, t2})

=============================================================================
