------------------------- MODULE MCParallelExecutor -------------------------
(* A bounded instance of ParallelExecutor for TLC: a machine and a buffer   *)
(* that share the event beta, at most 8 units of time.                      *)
EXTENDS ParallelExecutor

Machine == "machine"
Buffer  == "buffer"

NoState == "none"
States  == {"idle", "busy", "empty", "full"}
Events  == {"alpha", "beta", "gamma", "delta"}
Clocks  == {"x", "y", "z"}

Less(b)     == [lb |-> -Infinity, lbincl |-> FALSE, ub |-> b, ubincl |-> FALSE]
AtMost(b)   == [lb |-> -Infinity, lbincl |-> FALSE, ub |-> b, ubincl |-> TRUE]
Greater(b)  == [lb |-> b, lbincl |-> FALSE, ub |-> Infinity, ubincl |-> FALSE]
Within(a, b) == [lb |-> a, lbincl |-> TRUE, ub |-> b, ubincl |-> TRUE]

Always == [c \in {} |-> Positive]
On(c, i) == [d \in {c} |-> i]

\* The machine may finish (beta) more than 2 after alpha and must do so until 5; it is
\* maintained (gamma) while idle, which has to be done early in the life of y.
MachineGen ==
    [states |-> {"idle", "busy"}, events |-> {"alpha", "beta", "gamma"}, clocks |-> {"x", "y"},
     init |-> "idle",
     next |-> [s \in {"idle", "busy"} |-> [e \in {"alpha", "beta", "gamma"} |->
                  CASE s = "idle" /\ e = "alpha" -> "busy"
                    [] s = "busy" /\ e = "beta" -> "idle"
                    [] s = "idle" /\ e = "gamma" -> "idle"
                    [] OTHER -> "none"]],
     invariant |-> [s \in {"idle", "busy"} |-> IF s = "busy" THEN On("x", AtMost(5)) ELSE Always],
     guard |-> [s \in {"idle", "busy"} |-> [e \in {"alpha", "beta", "gamma"} |->
                  CASE e = "alpha" -> Always
                    [] e = "beta" -> On("x", Greater(2))
                    [] e = "gamma" -> [c \in {"x", "y"} |->
                                          IF c = "x" THEN Within(1, 3) ELSE Less(4)]]],
     resets |-> [s \in {"idle", "busy"} |-> [e \in {"alpha", "beta", "gamma"} |->
                  CASE e = "alpha" -> {"x"} [] e = "beta" -> {"x"} [] e = "gamma" -> {"y"}]]]

\* The buffer is emptied (delta) in between 1 and 3 after beta.
BufferGen ==
    [states |-> {"empty", "full"}, events |-> {"beta", "delta"}, clocks |-> {"z"},
     init |-> "empty",
     next |-> [s \in {"empty", "full"} |-> [e \in {"beta", "delta"} |->
                  CASE s = "empty" /\ e = "beta" -> "full"
                    [] s = "full" /\ e = "delta" -> "empty"
                    [] OTHER -> "none"]],
     invariant |-> [s \in {"empty", "full"} |-> IF s = "full" THEN On("z", Less(4)) ELSE Always],
     guard |-> [s \in {"empty", "full"} |-> [e \in {"beta", "delta"} |->
                  IF e = "beta" THEN Always ELSE On("z", Within(1, 3))]],
     resets |-> [s \in {"empty", "full"} |-> [e \in {"beta", "delta"} |->
                  IF e = "beta" THEN {"z"} ELSE {}]]]

Ids        == {Machine, Buffer}
Generators == [i \in Ids |-> IF i = Machine THEN MachineGen ELSE BufferGen]

\* Two states to be assigned, the invariant of one does not hold, and one that is refused.
Assigned(a, x, y, b, z) ==
    [state |-> [i \in Ids |-> IF i = Machine THEN a ELSE b],
     clock |-> [i \in Ids |-> IF i = Machine THEN [c \in {"x", "y"} |-> IF c = "x" THEN x ELSE y]
                              ELSE [c \in {"z"} |-> z]]]
Presets == {Assigned("busy", 2, 0, "full", 1), Assigned("busy", 6, 1, "empty", 0),
            Assigned("busy", 1, 1, "idle", 1)}

Durations   == {1, 2, 3, Infinity}
PresetTimes == {0, Infinity}
=============================================================================
