--------------------------- MODULE MCSignalDevice ---------------------------
(* Bounded instances of SignalDevice for TLC: devices with one signal.     *)
EXTENDS SignalDevice

CONSTANTS sync, async, in, out

Devices == {sync, async, in, out}
Trigger == [d \in Devices |-> IF d \in {async, in} THEN {0} ELSE {}]
Outs == [d \in Devices |->
            CASE d = sync -> {[b \in {0} |-> "Set"], [b \in {0} |-> "Inv"]}
              [] d = in   -> {}
              [] OTHER    -> {[b \in {0} |-> "Set"]}]
Sync == [d \in Devices |-> d = sync]
MayFail == {sync, async}

\* Three devices, one at a time, and a container with two members.
Arrangements == {<<sync>>, <<async>>, <<out>>, <<in, out>>}
=============================================================================
