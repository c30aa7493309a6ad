------------------------------ MODULE MCSociPool ------------------------------
(***************************************************************************)
(* Instances of SociPool for TLC.  There are more connections than MaxConn *)
(* so that a pool that created too many would be seen.                     *)
(***************************************************************************)
EXTENDS SociPool

CONSTANTS u1, u2, u3, k1, k2, k3

ThreeCallers == {u1, u2, u3}

ThreeConns == {k1, k2, k3}

=============================================================================
