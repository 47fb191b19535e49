----------------------------- MODULE MCSimplenet -----------------------------
(* Bounded instances of Simplenet for TLC: two nodes. MaxConn is one more   *)
(* than the crashes, stops and ends of listen threads that may close a      *)
(* connection, so that it never keeps a node from connecting.               *)
EXTENDS Simplenet

CONSTANTS n1, n2

TwoNodes  == {n1, n2}
FirstNode == {n1}

\* n1 executes alpha, n2 reads it, and the other way round with beta; nobody
\* executes gamma.
Events    == {"alpha", "beta", "gamma"}
InputsOf  == [n \in Node |-> IF n = n1 THEN {"beta", "gamma"} ELSE {"alpha", "gamma"}]
OutputsOf == [n \in Node |-> IF n = n1 THEN {"alpha"} ELSE {"beta"}]

\* Only n1 executes events.
OneWriter == [n \in Node |-> IF n = n1 THEN {"alpha"} ELSE {}]
==============================================================================
