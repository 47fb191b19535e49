---------------------------- MODULE EventNetwork ----------------------------
(***************************************************************************)
(* What the nodes of a network may rely on: an event that one node         *)
(* executes is received at most once by each other node, and the events of *)
(* one node are received in the order of their execution. Events may be    *)
(* lost.                                                                   *)
(***************************************************************************)
EXTENDS Integers

CONSTANT Node

VARIABLES
    sent,       \* sent[m]: number of events executed by m
    got         \* got[n][m]: number of the last event of m that n received

Init == sent = [m \in Node |-> 0] /\ got = [n \in Node |-> [m \in Node |-> 0]]

Execute(m) == sent' = [sent EXCEPT ![m] = @ + 1] /\ UNCHANGED got

\* n receives an event of m, or a few of them; the ones skipped are lost.
Receive(n, m) ==
    /\ \E k \in (got[n][m] + 1)..sent[m] : got' = [got EXCEPT ![n][m] = k]
    /\ UNCHANGED sent

Next == \E m \in Node : Execute(m) \/ \E n \in Node : Receive(n, m)

Spec == Init /\ [][Next]_<<sent, got>>
=============================================================================
