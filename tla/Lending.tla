------------------------------- MODULE Lending -------------------------------
(***************************************************************************)
(* What a connection pool promises its callers (the interface of           *)
(* SociManager in FiberServer/db/soci_db.h): a connection is lent to one   *)
(* caller at a time, at most MaxConn are out at once, and a caller has at  *)
(* most the one connection it asked for.  How callers wait is left open.   *)
(***************************************************************************)
EXTENDS Integers, FiniteSets

CONSTANTS Callers, Conns, NoConn, MaxConn

VARIABLE lent  \* the connection every caller has, or NoConn

Borrowers == {c \in Callers : lent[c] # NoConn}

Init == lent = [c \in Callers |-> NoConn]

\* get() returns a connection that nobody else has.
Take(c, conn) ==
    /\ lent[c] = NoConn
    /\ \A d \in Callers : lent[d] # conn
    /\ Cardinality(Borrowers) < MaxConn
    /\ lent' = [lent EXCEPT ![c] = conn]

\* The last shared_ptr to the connection goes away.
GiveBack(c) ==
    /\ lent[c] # NoConn
    /\ lent' = [lent EXCEPT ![c] = NoConn]

Next == \E c \in Callers : GiveBack(c) \/ \E conn \in Conns : Take(c, conn)

Spec == Init /\ [][Next]_lent

=============================================================================
