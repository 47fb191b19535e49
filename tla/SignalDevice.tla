---------------------------- MODULE SignalDevice ----------------------------
(***************************************************************************)
(* Signal devices of libFAUDES (sDevice): input events from edges of       *)
(* sampled signals, output events that set the levels of signals. A device *)
(* has a cyclic thread, SDeviceSynchro(), unless it has neither inputs nor *)
(* synchronous writes. An application drives one device, or a container of *)
(* several (xDevice) that share one input buffer.                          *)
(*                                                                         *)
(* mMutex of a device protects its edges and levels from thread and        *)
(* application. Not protected are the tests of mState, the flush of the    *)
(* buffer, which has a mutex of its own, and asynchronous writes. A        *)
(* critical section is one step, except for the cycle of the thread, which *)
(* is cut where the unprotected accesses of the application can come in    *)
(* between. Signals are independent of each other: a loop that reads or    *)
(* writes all of them is one step, unless it puts events into the buffer.  *)
(*                                                                         *)
(* Waiting for events is the subject of module InputWait.                  *)
(***************************************************************************)
EXTENDS Integers, Sequences

CONSTANTS
    Device,         \* signal devices
    MaxBitAddress,  \* bits are numbered from 0 to MaxBitAddress
    PosEdge,        \* per device, bits whose positive edge triggers an event
    NegEdge,        \* per device, bits whose negative edge triggers an event
    Output,         \* per device, output events: functions from bits to actions
    SyncWrite,      \* per device, whether the thread writes the outputs
    Arrangement,    \* the sequences of devices an application may use
    Failing,        \* bound: devices whose hardware may fail
    MaxBuffer       \* bound: signals change while fewer events are buffered

Bit == 0..MaxBitAddress
Act == {"Set", "Clr", "Inv"}

InBit(d)  == PosEdge[d] \cup NegEdge[d]
OutBit(d) == UNION {DOMAIN a : a \in Output[d]}

ASSUME BoundAssumption == MaxBitAddress \in Nat /\ MaxBuffer \in Nat
ASSUME ConfigAssumption ==
    /\ PosEdge \in [Device -> SUBSET Bit]
    /\ NegEdge \in [Device -> SUBSET Bit]
    /\ SyncWrite \in [Device -> BOOLEAN]
    /\ \A d \in Device : \A a \in Output[d] :
          /\ a \in [DOMAIN a -> Act]
          /\ DOMAIN a \subseteq Bit
          /\ ~SyncWrite[d] => \A b \in DOMAIN a : a[b] # "Inv"
    /\ Arrangement \subseteq Seq(Device)

\* A device without inputs and synchronous writes has no thread.
Threaded(d) == InBit(d) # {} \/ SyncWrite[d]

VARIABLES
    mDevices,       \* the devices in use; more than one form a container
    wire,           \* hardware: levels of input signals
    line,           \* hardware: levels of output signals
    ok,             \* hardware: the pre hooks succeed
    mState,         \* operating state of each device
    mCancelRequest, \* the thread is asked to terminate
    mMutex,         \* owner of the mutex of each device
    current,        \* mpInputEdges: level of the most recent sample
    next, edge,     \* mpOutputLevels: level to write, and whether it is pending
    rel,            \* mpOutputLevels: some output event uses the signal
    pInputBuffer,   \* input buffer, shared by the devices
    pc,             \* where the thread is in its cycle
    bit,            \* the bit it samples
    todo,           \* what is left of the call the application is in
    cleared         \* the last attempt to reset the outputs succeeded (aready)

hardware == <<wire, line, ok>>
image    == <<next, edge, rel>>
vars == <<mDevices, wire, line, ok, mState, mCancelRequest, mMutex, current, next,
          edge, rel, pInputBuffer, pc, bit, todo, cleared>>

Used  == {mDevices[i] : i \in 1..Len(mDevices)}
Level == [Device -> [Bit -> BOOLEAN]]
Low   == [b \in Bit |-> FALSE]

DeviceState == {"Down", "StartUp", "Up", "ShutDown"}

\* The thread takes and releases the mutex at the begin and the end of a cycle.
Busy     == {"edges", "inputs", "sense", "rise", "fall", "outputs", "settle", "end"}
Position == Busy \cup {"none", "sleep", "exit"}

\* Steps of the application's calls.
Op   == {"reset", "flush", "testin", "clrin", "testout", "clrout", "start", "run",
         "stop", "halt", "cancel", "join", "alloc"}
Todo == [op : Op, dev : Device]

(* An input event stands for the edge that triggers it. History: whether     *)
(* the edges have been sampled anew since (old), and by which run of the     *)
(* device it was sensed (past: by an earlier one).                          *)
Entry == [dev : Device, bit : Bit, pos : BOOLEAN, old : BOOLEAN, past : BOOLEAN]

TypeOK ==
    /\ mDevices \in Seq(Device)
    /\ wire \in Level /\ line \in Level /\ current \in Level
    /\ next \in Level /\ edge \in Level /\ rel \in Level
    /\ ok \in [Device -> BOOLEAN]
    /\ mState \in [Device -> DeviceState]
    /\ mCancelRequest \in [Device -> BOOLEAN]
    /\ mMutex \in [Device -> {"free", "thread"}]
    /\ pInputBuffer \in Seq(Entry)
    /\ pc \in [Device -> Position]
    /\ bit \in [Device -> 0..(MaxBitAddress + 1)]
    /\ \A d \in Device : pc[d] \in {"rise", "fall"} => bit[d] \in Bit
    /\ todo \in Seq(Todo)
    /\ cleared \in [Device -> BOOLEAN]

\* Outputs may have any level before the program runs, and the array behind rel
\* is allocated by Compile() without being initialised.
Init ==
    /\ mDevices \in Arrangement
    /\ wire = [d \in Device |-> Low]
    /\ \E l \in [Used -> BOOLEAN] :
          line = [d \in Device |-> [b \in Bit |-> d \in Used /\ l[d]]]
    /\ ok = [d \in Device |-> TRUE]
    /\ mState = [d \in Device |-> "Down"]
    /\ mCancelRequest = [d \in Device |-> FALSE]
    /\ mMutex = [d \in Device |-> "free"]
    /\ current = [d \in Device |-> Low]
    /\ next = [d \in Device |-> Low]
    /\ edge = [d \in Device |-> Low]
    /\ \E r \in [Used -> BOOLEAN] :
          rel = [d \in Device |-> [b \in Bit |-> d \in Used /\ r[d]]]
    /\ pInputBuffer = <<>>
    /\ pc = [d \in Device |-> "none"]
    /\ bit = [d \in Device |-> 0]
    /\ todo = <<>>
    /\ cleared = [d \in Device |-> FALSE]

\* Without the mutex: two comparisons of a plain variable, which a build with
\* optimisation (all targets of the Makefile) reads once.
Started(d) == mState[d] \in {"Up", "StartUp"}

\* A loop that leaves out every other bit (see Faulty variants below).
FaultNextBit(d) == [bit EXCEPT ![d] = @ + 2]
NextBit(d) == [bit EXCEPT ![d] = @ + 1]

\* The outputs in use set to zero.
Zero(d, used) == [line EXCEPT ![d] = [b \in Bit |-> IF used[b] THEN FALSE ELSE @[b]]]

\* The edges of d are sampled anew.
Resampled(d) ==
    [i \in DOMAIN pInputBuffer |->
        IF pInputBuffer[i].dev = d THEN [pInputBuffer[i] EXCEPT !.old = TRUE]
        ELSE pInputBuffer[i]]

------------------------------------------------------------------------------
(* Faulty variants. No action below uses them: each is a plausible slip in  *)
(* the code, substituted for the definition it imitates to confirm that the *)
(* runs notice.                                                            *)

\* The thread honours a cancel request at the begin of a cycle.
FaultCycleBegin(d) ==
    /\ pc[d] = "sleep"
    /\ mMutex[d] = "free"
    /\ \/ /\ mCancelRequest[d]
          /\ mState' = [mState EXCEPT ![d] = "ShutDown"]
          /\ pc' = [pc EXCEPT ![d] = "exit"]
          /\ UNCHANGED <<line, image, mMutex, cleared>>
       \/ /\ ~mCancelRequest[d]
          /\ mMutex' = [mMutex EXCEPT ![d] = "thread"]
          /\ cleared' = [cleared EXCEPT ![d] = IF mState[d] = "StartUp" THEN ok[d] ELSE @]
          /\ IF mState[d] = "StartUp" /\ ok[d]
             THEN /\ next' = [next EXCEPT ![d] = Low]
                  /\ edge' = [edge EXCEPT ![d] = Low]
                  /\ rel' = [rel EXCEPT ![d] = [b \in Bit |-> b \in OutBit(d)]]
                  /\ line' = Zero(d, rel'[d])
             ELSE UNCHANGED <<line, image>>
          /\ pc' = [pc EXCEPT ![d] = IF mState[d] = "StartUp" THEN "edges" ELSE "inputs"]
          /\ UNCHANGED mState
    /\ UNCHANGED <<mDevices, wire, ok, mCancelRequest, current, pInputBuffer, bit, todo>>

\* A device that cannot be read is taken for down.
FaultBeginInputs(d) ==
    /\ pc[d] = "inputs"
    /\ bit' = [bit EXCEPT ![d] = 0]
    /\ pc' = [pc EXCEPT ![d] = IF mState[d] = "Up" /\ ok[d] THEN "sense" ELSE "outputs"]
    /\ mState' = [mState EXCEPT ![d] = IF @ = "Up" /\ ~ok[d] THEN "Down" ELSE @]
    /\ UNCHANGED <<mDevices, hardware, mCancelRequest, mMutex, current, image,
                   pInputBuffer, todo, cleared>>

\* The loop over the levels leaves out the first bit.
FaultSettleLevels(d) ==
    /\ pc[d] = "settle"
    /\ edge' = [edge EXCEPT ![d] = [b \in Bit |-> b = 0 /\ @[b]]]
    /\ pc' = [pc EXCEPT ![d] = "end"]
    /\ UNCHANGED <<mDevices, hardware, mState, mCancelRequest, mMutex, current, next, rel,
                   pInputBuffer, bit, todo, cleared>>

\* Synchronous writes are recorded without the mutex.
FaultWriteOutputSync(d, a) ==
    /\ todo = <<>> /\ Started(d) /\ SyncWrite[d]
    /\ next' = [next EXCEPT ![d] = [b \in Bit |->
                    IF b \notin DOMAIN a THEN @[b]
                    ELSE a[b] = "Set" \/ (a[b] = "Inv" /\ ~@[b])]]
    /\ edge' = [edge EXCEPT ![d] = [b \in Bit |-> b \in DOMAIN a \/ @[b]]]
    /\ UNCHANGED <<mDevices, hardware, mState, mCancelRequest, mMutex, current, rel,
                   pInputBuffer, pc, bit, todo, cleared>>

\* The inputs are sampled anew without the mutex.
FaultClrInputSignals(d) ==
    /\ todo # <<>> /\ Head(todo) = [op |-> "clrin", dev |-> d]
    /\ current' = [current EXCEPT ![d] = IF ok[d] THEN wire[d] ELSE Low]
    /\ pInputBuffer' = Resampled(d)
    /\ todo' = Tail(todo)
    /\ UNCHANGED <<mDevices, hardware, mState, mCancelRequest, mMutex, image, pc, bit,
                   cleared>>

\* The mutex is left locked if the outputs cannot be written.
FaultClrOutputSignals(d) ==
    /\ todo # <<>> /\ Head(todo) = [op |-> "clrout", dev |-> d]
    /\ mMutex[d] = "free"
    /\ mMutex' = [mMutex EXCEPT ![d] = IF ok[d] THEN @ ELSE "thread"]
    /\ line' = IF ok[d] THEN Zero(d, rel[d]) ELSE line
    /\ next' = [next EXCEPT ![d] = Low]
    /\ edge' = [edge EXCEPT ![d] = Low]
    /\ cleared' = [cleared EXCEPT ![d] = ok[d]]
    /\ todo' = Tail(todo)
    /\ UNCHANGED <<mDevices, wire, ok, mState, mCancelRequest, current, rel,
                   pInputBuffer, pc, bit>>

\* Stop() does not wait for the thread to terminate.
FaultJoinThread(d) ==
    /\ todo # <<>> /\ Head(todo) = [op |-> "join", dev |-> d]
    /\ mState' = [mState EXCEPT ![d] = "Down"]
    /\ todo' = Tail(todo)
    /\ UNCHANGED <<mDevices, hardware, mCancelRequest, mMutex, current, image,
                   pInputBuffer, pc, bit, cleared>>

------------------------------------------------------------------------------
(* The hardware.                                                           *)

WireChange(d, b) ==
    /\ Len(pInputBuffer) < MaxBuffer
    /\ wire' = [wire EXCEPT ![d][b] = ~@]
    /\ UNCHANGED <<mDevices, line, ok, mState, mCancelRequest, mMutex, current, image,
                   pInputBuffer, pc, bit, todo, cleared>>

\* The connection to the hardware is lost or found again.
Connection(d) ==
    /\ d \in Failing
    /\ ok' = [ok EXCEPT ![d] = ~@]
    /\ UNCHANGED <<mDevices, wire, line, mState, mCancelRequest, mMutex, current, image,
                   pInputBuffer, pc, bit, todo, cleared>>

------------------------------------------------------------------------------
(* A cycle of the thread.                                                  *)

\* Take the mutex; on start up set the outputs to zero and forget what is pending.
CycleBegin(d) ==
    /\ pc[d] = "sleep"
    /\ mMutex[d] = "free"
    /\ mMutex' = [mMutex EXCEPT ![d] = "thread"]
    /\ \/ /\ mState[d] = "StartUp" /\ ok[d]
          /\ next' = [next EXCEPT ![d] = Low]
          /\ edge' = [edge EXCEPT ![d] = Low]
          /\ rel' = [rel EXCEPT ![d] = [b \in Bit |-> b \in OutBit(d)]]
          /\ line' = Zero(d, rel'[d])
          /\ cleared' = [cleared EXCEPT ![d] = TRUE]
          /\ pc' = [pc EXCEPT ![d] = "edges"]
       \/ /\ mState[d] = "StartUp" /\ ~ok[d]
          /\ cleared' = [cleared EXCEPT ![d] = FALSE]
          /\ pc' = [pc EXCEPT ![d] = "edges"]
          /\ UNCHANGED <<line, image>>
       \/ /\ mState[d] # "StartUp"
          /\ pc' = [pc EXCEPT ![d] = "inputs"]
          /\ UNCHANGED <<line, image, cleared>>
    /\ UNCHANGED <<mDevices, wire, ok, mState, mCancelRequest, current, pInputBuffer,
                   bit, todo>>

\* On start up, go on with the actual input levels; up if both hooks succeeded.
StartEdges(d) ==
    /\ pc[d] = "edges"
    /\ pc' = [pc EXCEPT ![d] = "inputs"]
    /\ \/ /\ ok[d]
          /\ current' = [current EXCEPT ![d] = wire[d]]
          /\ pInputBuffer' = Resampled(d)
          /\ mState' = [mState EXCEPT ![d] = IF cleared[d] THEN "Up" ELSE @]
       \/ /\ ~ok[d]
          /\ UNCHANGED <<current, pInputBuffer, mState>>
    /\ UNCHANGED <<mDevices, hardware, mCancelRequest, mMutex, image, bit, todo, cleared>>

\* Begin to sample, or start up again if the hardware cannot be read.
BeginInputs(d) ==
    /\ pc[d] = "inputs"
    /\ \/ /\ mState[d] = "Up" /\ ok[d]
          /\ bit' = [bit EXCEPT ![d] = 0]
          /\ pc' = [pc EXCEPT ![d] = "sense"]
          /\ UNCHANGED mState
       \/ /\ mState[d] # "Up" \/ ~ok[d]
          /\ mState' = [mState EXCEPT ![d] = IF @ = "Up" THEN "StartUp" ELSE @]
          /\ pc' = [pc EXCEPT ![d] = "outputs"]
          /\ UNCHANGED bit
    /\ UNCHANGED <<mDevices, hardware, mCancelRequest, mMutex, current, image,
                   pInputBuffer, todo, cleared>>

\* Sample a bit and compare it with its past value.
Sense(d) ==
    /\ pc[d] = "sense"
    /\ \/ /\ bit[d] \in Bit
          /\ LET sample == wire[d][bit[d]]
                 rise == sample /\ ~current[d][bit[d]] /\ bit[d] \in PosEdge[d]
                 fall == ~sample /\ current[d][bit[d]] /\ bit[d] \in NegEdge[d]
             IN  /\ current' = [current EXCEPT ![d][bit[d]] = sample]
                 /\ pc' = [pc EXCEPT ![d] = IF rise THEN "rise" ELSE IF fall THEN "fall" ELSE @]
                 /\ bit' = IF rise \/ fall THEN bit ELSE NextBit(d)
       \/ /\ bit[d] \notin Bit
          /\ pc' = [pc EXCEPT ![d] = "outputs"]
          /\ UNCHANGED <<current, bit>>
    /\ UNCHANGED <<mDevices, hardware, mState, mCancelRequest, mMutex, image,
                   pInputBuffer, todo, cleared>>

\* Buffer the events of an edge.
Push(d) ==
    /\ pc[d] \in {"rise", "fall"}
    /\ pInputBuffer' =
          Append(pInputBuffer, [dev |-> d, bit |-> bit[d], pos |-> pc[d] = "rise",
                                old |-> FALSE, past |-> FALSE])
    /\ bit' = NextBit(d)
    /\ pc' = [pc EXCEPT ![d] = "sense"]
    /\ UNCHANGED <<mDevices, hardware, mState, mCancelRequest, mMutex, current, image,
                   todo, cleared>>

\* Write the levels that are pending, if the device writes synchronously.
WriteLevels(d) ==
    /\ pc[d] = "outputs"
    /\ \/ /\ mState[d] = "Up" /\ SyncWrite[d] /\ ok[d]
          /\ line' = [line EXCEPT ![d] = [b \in Bit |-> IF edge[d][b] THEN next[d][b]
                                                                       ELSE @[b]]]
          /\ pc' = [pc EXCEPT ![d] = "settle"]
          /\ UNCHANGED mState
       \/ /\ ~(mState[d] = "Up" /\ SyncWrite[d] /\ ok[d])
          /\ mState' = [mState EXCEPT ![d] = IF @ = "Up" /\ SyncWrite[d] THEN "StartUp"
                                                                         ELSE @]
          /\ pc' = [pc EXCEPT ![d] = "end"]
          /\ UNCHANGED line
    /\ UNCHANGED <<mDevices, wire, ok, mCancelRequest, mMutex, current, image,
                   pInputBuffer, bit, todo, cleared>>

\* They are no longer pending.
SettleLevels(d) ==
    /\ pc[d] = "settle"
    /\ edge' = [edge EXCEPT ![d] = Low]
    /\ pc' = [pc EXCEPT ![d] = "end"]
    /\ UNCHANGED <<mDevices, hardware, mState, mCancelRequest, mMutex, current, next, rel,
                   pInputBuffer, bit, todo, cleared>>

\* Terminate on request, else unlock and sleep for the rest of the cycle.
CycleEnd(d) ==
    /\ pc[d] = "end"
    /\ mMutex' = [mMutex EXCEPT ![d] = "free"]
    /\ mState' = [mState EXCEPT ![d] = IF mCancelRequest[d] THEN "ShutDown" ELSE @]
    /\ pc' = [pc EXCEPT ![d] = IF mCancelRequest[d] THEN "exit" ELSE "sleep"]
    /\ UNCHANGED <<mDevices, hardware, mCancelRequest, current, image, pInputBuffer,
                   bit, todo, cleared>>

------------------------------------------------------------------------------
(* Calls of the application, as the steps that are left to do.             *)

Do(op, d) == [op |-> op, dev |-> d]

\* A container passes a call on to its members, one after the other.
ForEach(op) == [i \in 1..Len(mDevices) |-> Do(op, mDevices[i])]

Container == Len(mDevices) > 1

\* Reset() of a container flushes the buffer once more.
ResetAll == ForEach("reset") \o (IF Container THEN <<Do("flush", mDevices[1])>> ELSE <<>>)

Begin(call) ==
    /\ todo = <<>>
    /\ todo' = call
    /\ UNCHANGED <<mDevices, hardware, mState, mCancelRequest, mMutex, current, image,
                   pInputBuffer, pc, bit, cleared>>

\* Start() and Stop() of a container imply its Reset().
Implied == IF Container THEN ResetAll ELSE <<>>

Start == Begin(Implied \o ForEach("start"))
Stop  == Begin(Implied \o ForEach("stop"))
Reset == Begin(ResetAll)

\* Configure() stops the device, and so does Compile() before it allocates.
Configure(d) == ~Container /\ Begin(<<Do("stop", d), Do("stop", d), Do("alloc", d)>>)

\* WriteOutput(): Down and ShutDown ignore it. Written by the thread later on, ...
WriteOutputSync(d, a) ==
    /\ todo = <<>> /\ Started(d) /\ SyncWrite[d]
    /\ mMutex[d] = "free"
    /\ next' = [next EXCEPT ![d] = [b \in Bit |->
                    IF b \notin DOMAIN a THEN @[b]
                    ELSE a[b] = "Set" \/ (a[b] = "Inv" /\ ~@[b])]]
    /\ edge' = [edge EXCEPT ![d] = [b \in Bit |-> b \in DOMAIN a \/ @[b]]]
    /\ UNCHANGED <<mDevices, hardware, mState, mCancelRequest, mMutex, current, rel,
                   pInputBuffer, pc, bit, todo, cleared>>

\* ... or at once, without the mutex.
WriteOutputAsync(d, a) ==
    /\ todo = <<>> /\ Started(d) /\ ~SyncWrite[d] /\ ok[d]
    /\ line' = [line EXCEPT ![d] = [b \in Bit |->
                    IF b \in DOMAIN a THEN a[b] = "Set" ELSE @[b]]]
    /\ UNCHANGED <<mDevices, wire, ok, mState, mCancelRequest, mMutex, current, image,
                   pInputBuffer, pc, bit, todo, cleared>>

\* WriteSignal(): one signal by address, with the mutex in either case.
WriteSignal(d, b, l) ==
    /\ todo = <<>> /\ Started(d) /\ Output[d] # {}
    /\ mMutex[d] = "free"
    /\ \/ /\ SyncWrite[d]
          /\ next' = [next EXCEPT ![d][b] = l]
          /\ edge' = [edge EXCEPT ![d][b] = TRUE]
          /\ UNCHANGED line
       \/ /\ ~SyncWrite[d] /\ ok[d]
          /\ line' = [line EXCEPT ![d][b] = l]
          /\ UNCHANGED <<next, edge>>
    /\ UNCHANGED <<mDevices, wire, ok, mState, mCancelRequest, mMutex, current, rel,
                   pInputBuffer, pc, bit, todo, cleared>>

ReadInput ==
    /\ todo = <<>> /\ pInputBuffer # <<>>
    /\ pInputBuffer' = Tail(pInputBuffer)
    /\ UNCHANGED <<mDevices, hardware, mState, mCancelRequest, mMutex, current, image,
                   pc, bit, todo, cleared>>

------------------------------------------------------------------------------
(* Steps of Start(), Stop(), Reset() and Configure().                      *)

At(op, d) == todo # <<>> /\ Head(todo) = Do(op, d)

\* Reset(), and Stop(), which implies it: flush the buffer, go on with the signals.
ResetDevice(d) ==
    /\ \/ At("reset", d) /\ todo' = <<Do("testin", d), Do("testout", d)>> \o Tail(todo)
       \/ /\ At("stop", d)
          /\ todo' = <<Do("testin", d), Do("testout", d), Do("halt", d)>> \o Tail(todo)
    /\ pInputBuffer' = <<>>
    /\ UNCHANGED <<mDevices, hardware, mState, mCancelRequest, mMutex, current, image,
                   pc, bit, cleared>>

\* vDevice::Reset() of a container
Flush(d) ==
    /\ At("flush", d)
    /\ pInputBuffer' = <<>>
    /\ todo' = Tail(todo)
    /\ UNCHANGED <<mDevices, hardware, mState, mCancelRequest, mMutex, current, image,
                   pc, bit, cleared>>

\* ClrInputSignals() and ClrOutputSignals() are left again unless the device is up.
TestState(d) ==
    /\ \/ /\ At("testin", d)
          /\ todo' = IF mState[d] = "Up" /\ InBit(d) # {}
                     THEN <<Do("clrin", d)>> \o Tail(todo) ELSE Tail(todo)
       \/ /\ At("testout", d)
          /\ todo' = IF mState[d] = "Up" /\ Output[d] # {}
                     THEN <<Do("clrout", d)>> \o Tail(todo) ELSE Tail(todo)
    /\ UNCHANGED <<mDevices, hardware, mState, mCancelRequest, mMutex, current, image,
                   pInputBuffer, pc, bit, cleared>>

\* Sample the inputs anew; assume low levels if they cannot be read.
ClrInputSignals(d) ==
    /\ At("clrin", d)
    /\ mMutex[d] = "free"
    /\ current' = [current EXCEPT ![d] = IF ok[d] THEN wire[d] ELSE Low]
    /\ pInputBuffer' = Resampled(d)
    /\ todo' = Tail(todo)
    /\ UNCHANGED <<mDevices, hardware, mState, mCancelRequest, mMutex, image, pc, bit,
                   cleared>>

\* Set the outputs in use to zero, if they can be written, and forget what is
\* pending in any case.
ClrOutputSignals(d) ==
    /\ At("clrout", d)
    /\ mMutex[d] = "free"
    /\ line' = IF ok[d] THEN Zero(d, rel[d]) ELSE line
    /\ next' = [next EXCEPT ![d] = Low]
    /\ edge' = [edge EXCEPT ![d] = Low]
    /\ cleared' = [cleared EXCEPT ![d] = ok[d]]
    /\ todo' = Tail(todo)
    /\ UNCHANGED <<mDevices, wire, ok, mState, mCancelRequest, mMutex, current, rel,
                   pInputBuffer, pc, bit>>

\* Start(): a device that is down is declared up and reset.
StartDevice(d) ==
    /\ At("start", d)
    /\ \/ /\ Started(d)
          /\ todo' = Tail(todo)
          /\ UNCHANGED mState
       \/ /\ mState[d] = "Down"
          /\ mState' = [mState EXCEPT ![d] = "Up"]
          /\ todo' = <<Do("reset", d), Do("run", d)>> \o Tail(todo)
    /\ UNCHANGED <<mDevices, hardware, mCancelRequest, mMutex, current, image,
                   pInputBuffer, pc, bit, cleared>>

\* Create the thread. History: what is in the buffer is from earlier runs.
RunThread(d) ==
    /\ At("run", d)
    /\ \/ /\ Threaded(d)
          /\ mState' = [mState EXCEPT ![d] = "StartUp"]
          /\ mCancelRequest' = [mCancelRequest EXCEPT ![d] = FALSE]
          /\ pc' = [pc EXCEPT ![d] = "sleep"]
          /\ pInputBuffer' =
                [i \in DOMAIN pInputBuffer |->
                    [pInputBuffer[i] EXCEPT !.past = @ \/ pInputBuffer[i].dev = d]]
       \/ /\ ~Threaded(d)
          /\ UNCHANGED <<mState, mCancelRequest, pc, pInputBuffer>>
    /\ todo' = Tail(todo)
    /\ UNCHANGED <<mDevices, hardware, mMutex, current, image, bit, cleared>>

\* Stop(), after Reset(): the thread has to be asked.
StopDevice(d) ==
    /\ At("halt", d)
    /\ \/ /\ Started(d) /\ Threaded(d)
          /\ todo' = <<Do("cancel", d), Do("join", d)>> \o Tail(todo)
          /\ UNCHANGED mState
       \/ /\ ~(Started(d) /\ Threaded(d))
          /\ mState' = [mState EXCEPT ![d] = IF Started(d) THEN "Down" ELSE @]
          /\ todo' = Tail(todo)
    /\ UNCHANGED <<mDevices, hardware, mCancelRequest, mMutex, current, image,
                   pInputBuffer, pc, bit, cleared>>

CancelThread(d) ==
    /\ At("cancel", d)
    /\ mMutex[d] = "free"
    /\ mCancelRequest' = [mCancelRequest EXCEPT ![d] = TRUE]
    /\ todo' = Tail(todo)
    /\ UNCHANGED <<mDevices, hardware, mState, mMutex, current, image, pInputBuffer, pc,
                   bit, cleared>>

JoinThread(d) ==
    /\ At("join", d)
    /\ pc[d] = "exit"
    /\ pc' = [pc EXCEPT ![d] = "none"]
    /\ mState' = [mState EXCEPT ![d] = "Down"]
    /\ todo' = Tail(todo)
    /\ UNCHANGED <<mDevices, hardware, mCancelRequest, mMutex, current, image,
                   pInputBuffer, bit, cleared>>

\* Compile() allocates new levels. What it leaves uninitialised is set by Start(),
\* except for rel.
Allocate(d) ==
    /\ At("alloc", d)
    /\ \E r \in BOOLEAN : rel' = [rel EXCEPT ![d] = [b \in Bit |-> r]]
    /\ todo' = Tail(todo)
    /\ UNCHANGED <<mDevices, hardware, mState, mCancelRequest, mMutex, current, next,
                   edge, pInputBuffer, pc, bit, cleared>>

------------------------------------------------------------------------------
Cycle(d) ==
    \/ CycleBegin(d) \/ StartEdges(d)
    \/ BeginInputs(d) \/ Sense(d) \/ Push(d)
    \/ WriteLevels(d) \/ SettleLevels(d)
    \/ CycleEnd(d)

Locking(d) == ClrInputSignals(d) \/ ClrOutputSignals(d) \/ CancelThread(d)

Proceed(d) ==
    \/ ResetDevice(d) \/ Flush(d) \/ TestState(d) \/ StartDevice(d) \/ RunThread(d)
    \/ StopDevice(d) \/ JoinThread(d) \/ Allocate(d)

Call ==
    \/ Start \/ Stop \/ Reset \/ ReadInput
    \/ \E d \in Used : Configure(d)
    \/ \E d \in Used : \E a \in Output[d] : WriteOutputSync(d, a) \/ WriteOutputAsync(d, a)
    \/ \E d \in Used, b \in Bit, l \in BOOLEAN : WriteSignal(d, b, l)

Continue == todo # <<>> /\ (Locking(Head(todo).dev) \/ Proceed(Head(todo).dev))

Next ==
    \/ Call
    \/ \E d \in Used : Cycle(d) \/ Locking(d) \/ Proceed(d) \/ Connection(d)
    \/ \E d \in Used : \E b \in InBit(d) : WireChange(d, b)

Spec == Init /\ [][Next]_vars

(* Threads run, a call that has begun goes on, and who waits for a mutex    *)
(* that is free again and again gets it: a cycle ends with a sleep. Nothing *)
(* is assumed of the hardware, or of when the application calls.            *)
FairSpec ==
    /\ Spec
    /\ \A d \in Device : WF_vars(Cycle(d))
    /\ SF_vars(Continue)

------------------------------------------------------------------------------
(* Properties.                                                             *)

\* The documentation of Stop(): it "resets all output signals to 0". It does for
\* devices that write synchronously and for the signals of output events, if the
\* hardware can be written: also if the device is starting up again while Stop() is
\* called, so that ClrOutputSignals() does nothing and the last cycle of the thread
\* has to. (An asynchronous write can come between that cycle's reset of the outputs
\* and its end, and without a thread rel is never set: both are left out here.)
StopLeavesLow ==
    \A d \in Device :
        SyncWrite[d] /\ pc[d] = "none" /\ mState[d] = "Down" /\ cleared[d]
            => \A b \in OutBit(d) : ~line[d][b]

\* The image of a device that is up tells the truth: a signal that is not about to
\* be written has the level that the application or a reset has set last, unless
\* that reset could not write. It takes the mutex around reading, writing and
\* marking the levels, and the clearing of both lines and levels on start up.
LineFollows ==
    \A d \in Device :
        SyncWrite[d] /\ pc[d] # "none" /\ mState[d] = "Up" /\ cleared[d]
            => \A b \in OutBit(d) : edge[d][b] \/ line[d][b] = next[d][b]

\* The entry at i is about an edge of bit b of d, sensed since the last sampling anew.
About(d, b, i) ==
    pInputBuffer[i].dev = d /\ pInputBuffer[i].bit = b /\ ~pInputBuffer[i].old

Later(d, b, i) == {j \in DOMAIN pInputBuffer : i < j /\ About(d, b, j)}

\* An edge of b is sampled, but not yet buffered: the level of the events so far is the
\* other one.
Pushing(d, b)  == pc[d] \in {"rise", "fall"} /\ bit[d] = b
Buffered(d, b) == current[d][b] # Pushing(d, b)

\* Every edge is one event: the events of a signal alternate between positive and
\* negative edge, and the last one agrees with the level sampled last, however the
\* thread, flushing and sampling anew interleave.
EdgesAlternate ==
    \A d \in Device : \A b \in PosEdge[d] \cap NegEdge[d] :
    \A i \in DOMAIN pInputBuffer :
        About(d, b, i) =>
            \/ Later(d, b, i) = {} /\ pInputBuffer[i].pos = Buffered(d, b)
            \/ \E j \in Later(d, b, i) : /\ \A k \in Later(d, b, i) : j <= k
                                         /\ pInputBuffer[j].pos # pInputBuffer[i].pos

\* No event that a device has sensed before it was stopped is read after it has been
\* started again, though the thread may buffer events after the reset in Stop().
StartsEmpty ==
    \A i \in DOMAIN pInputBuffer : ~pInputBuffer[i].past

\* Start(), Stop(), Reset() and Configure() return: thread and application never
\* wait for each other.
CallsReturn == todo # <<>> ~> todo = <<>>

\* A device with a thread comes up, and up again after a failure, while its hardware
\* can be reached.
ComesUp ==
    \A d \in Device : Threaded(d) =>
        (pc[d] # "none" ~> mState[d] = "Up" \/ ~ok[d] \/ pc[d] = "none")

\* What is written synchronously does not stay pending: it reaches the signal, see
\* LineFollows, or is reset, unless the hardware fails or the device is stopped.
OutputReaches ==
    \A d \in Device : SyncWrite[d] =>
        \A b \in OutBit(d) : edge[d][b] ~> ~edge[d][b] \/ ~ok[d] \/ pc[d] = "none"
=============================================================================
