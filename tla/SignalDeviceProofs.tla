------------------------- MODULE SignalDeviceProofs -------------------------
(***************************************************************************)
(* Theorems about signal devices, for any devices with any signals, any    *)
(* events, any hardware, and any containers.                               *)
(***************************************************************************)
EXTENDS SignalDevice, SequenceTheorems, TLAPS

------------------------------------------------------------------------------
(* What the sequences of steps are made of.                                *)

LEMMA DoType == \A op \in Op, d \in Device : Do(op, d) \in Todo
  BY DEF Do, Todo

LEMMA UsedType == TypeOK => Used \subseteq Device
  BY DEF TypeOK, Used

\* A call is a sequence of steps.
LEMMA ForEachType ==
  ASSUME TypeOK, NEW op \in Op
  PROVE  /\ ForEach(op) \in Seq(Todo)
         /\ Len(ForEach(op)) = Len(mDevices)
         /\ \A i \in 1..Len(mDevices) : ForEach(op)[i] = Do(op, mDevices[i])
<1>1. /\ Len(mDevices) \in Nat
      /\ \A i \in 1..Len(mDevices) : mDevices[i] \in Device
  BY DEF TypeOK
<1>2. \A i \in 1..Len(mDevices) : Do(op, mDevices[i]) \in Todo
  BY <1>1, DoType
<1>3. ForEach(op) \in Seq(Todo)
  BY <1>1, <1>2, IsASeq DEF ForEach
<1>4. DOMAIN ForEach(op) = 1..Len(mDevices)
  BY DEF ForEach
<1> QED
  BY <1>1, <1>3, <1>4, LenProperties DEF ForEach

LEMMA ResetAllType == TypeOK => ResetAll \in Seq(Todo)
<1> SUFFICES ASSUME TypeOK PROVE ResetAll \in Seq(Todo)
  OBVIOUS
<1>1. ForEach("reset") \in Seq(Todo)
  BY ForEachType DEF Op
<1>2. CASE Container
  <2>1. mDevices[1] \in Device
    BY <1>2 DEF Container, TypeOK
  <2>2. Do("flush", mDevices[1]) \in Todo
    BY <2>1, DoType DEF Op
  <2>3. <<Do("flush", mDevices[1])>> \in Seq(Todo)
    BY <2>2
  <2> QED
    BY <1>1, <1>2, <2>3, ConcatProperties DEF ResetAll
<1>3. CASE ~Container
  BY <1>1, <1>3, ConcatProperties, EmptySeq DEF ResetAll
<1> QED
  BY <1>2, <1>3

LEMMA ImpliedType == TypeOK => Implied \in Seq(Todo)
  BY ResetAllType, EmptySeq DEF Implied

------------------------------------------------------------------------------
(* Type correctness.                                                       *)

LEMMA TypeInit == Init => TypeOK
<1> SUFFICES ASSUME Init PROVE TypeOK
  OBVIOUS
<1>1. wire \in Level /\ current \in Level /\ next \in Level /\ edge \in Level
  BY DEF Init, Level, Low
<1>2. line \in Level
  <2> PICK l \in [Used -> BOOLEAN] :
              line = [d \in Device |-> [b \in Bit |-> d \in Used /\ l[d]]]
    BY DEF Init
  <2> QED
    BY DEF Level
<1>3. rel \in Level
  <2> PICK r \in [Used -> BOOLEAN] :
              rel = [d \in Device |-> [b \in Bit |-> d \in Used /\ r[d]]]
    BY DEF Init
  <2> QED
    BY DEF Level
<1>4. mDevices \in Seq(Device)
  BY ConfigAssumption DEF Init
<1>5. bit \in [Device -> 0..(MaxBitAddress + 1)]
  BY BoundAssumption DEF Init
<1>6. /\ mState \in [Device -> DeviceState] /\ pc \in [Device -> Position]
      /\ \A d \in Device : pc[d] = "none"
  BY DEF Init, DeviceState, Position
<1>7. pInputBuffer \in Seq(Entry) /\ todo \in Seq(Todo)
  BY EmptySeq DEF Init
<1> QED
  BY <1>1, <1>2, <1>3, <1>4, <1>5, <1>6, <1>7 DEF Init, TypeOK

LEMMA LevelUpdate ==
  \A f \in Level, d \in Device, l \in [Bit -> BOOLEAN] : [f EXCEPT ![d] = l] \in Level
  BY DEF Level

LEMMA LowType == Low \in [Bit -> BOOLEAN]
  BY DEF Low

LEMMA ZeroType == TypeOK => \A d \in Device, used \in [Bit -> BOOLEAN] : Zero(d, used) \in Level
  BY DEF TypeOK, Zero, Level

LEMMA ResampledType == TypeOK => \A d \in Device : Resampled(d) \in Seq(Entry)
<1> SUFFICES ASSUME TypeOK, NEW d \in Device PROVE Resampled(d) \in Seq(Entry)
  OBVIOUS
<1>1. /\ Len(pInputBuffer) \in Nat
      /\ DOMAIN pInputBuffer = 1..Len(pInputBuffer)
      /\ \A i \in 1..Len(pInputBuffer) : pInputBuffer[i] \in Entry
  BY DEF TypeOK
<1>2. \A e \in Entry : [e EXCEPT !.old = TRUE] \in Entry
  BY DEF Entry
<1>3. \A i \in 1..Len(pInputBuffer) :
         (IF pInputBuffer[i].dev = d THEN [pInputBuffer[i] EXCEPT !.old = TRUE]
                                     ELSE pInputBuffer[i]) \in Entry
  BY <1>1, <1>2
<1> QED
  BY <1>1, <1>3, IsASeq DEF Resampled

LEMMA TypeCycle ==
  ASSUME TypeOK, NEW d \in Used, Cycle(d)
  PROVE  TypeOK'
<1>0. d \in Device
  BY UsedType
<1>1. CASE CycleBegin(d)
  <2>1. mMutex' \in [Device -> {"free", "thread"}] /\ cleared' \in [Device -> BOOLEAN]
    BY <1>0, <1>1 DEF CycleBegin, TypeOK
  <2>2. pc' \in [Device -> Position]
    BY <1>0, <1>1 DEF CycleBegin, TypeOK, Position, Busy
  <2>3. [b \in Bit |-> b \in OutBit(d)] \in [Bit -> BOOLEAN]
    OBVIOUS
  <2>4. next' \in Level /\ edge' \in Level /\ rel' \in Level
    <3>1. [next EXCEPT ![d] = Low] \in Level /\ [edge EXCEPT ![d] = Low] \in Level
      BY <1>0, LevelUpdate, LowType DEF TypeOK
    <3>2. [rel EXCEPT ![d] = [b \in Bit |-> b \in OutBit(d)]] \in Level
      BY <1>0, <2>3, LevelUpdate DEF TypeOK
    <3> QED
      BY <1>1, <3>1, <3>2 DEF CycleBegin, TypeOK, image
  <2>5. rel'[d] \in [Bit -> BOOLEAN]
    BY <1>0, <2>4 DEF Level
  <2>6. line' \in Level
    BY <1>0, <1>1, <2>5, ZeroType DEF CycleBegin, TypeOK, image
  <2> QED
    BY <1>1, <2>1, <2>2, <2>4, <2>6 DEF CycleBegin, TypeOK
<1>2. CASE StartEdges(d)
  <2>1. pc' \in [Device -> Position] /\ mState' \in [Device -> DeviceState]
    BY <1>0, <1>2 DEF StartEdges, TypeOK, Position, Busy, DeviceState
  <2>2. current' \in Level
    BY <1>0, <1>2, LevelUpdate DEF StartEdges, TypeOK, Level
  <2>3. pInputBuffer' \in Seq(Entry)
    BY <1>0, <1>2, ResampledType DEF StartEdges, TypeOK
  <2> QED
    BY <1>2, <2>1, <2>2, <2>3 DEF StartEdges, TypeOK, hardware, image
<1>3. CASE BeginInputs(d)
  <2>1. pc' \in [Device -> Position] /\ mState' \in [Device -> DeviceState]
    BY <1>0, <1>3 DEF BeginInputs, TypeOK, Position, Busy, DeviceState
  <2>2. bit' \in [Device -> 0..(MaxBitAddress + 1)]
    <3>1. 0 \in 0..(MaxBitAddress + 1)
      BY BoundAssumption
    <3> QED
      BY <1>0, <1>3, <3>1 DEF BeginInputs, TypeOK
  <2> QED
    BY <1>3, <2>1, <2>2 DEF BeginInputs, TypeOK, hardware, image
<1>4. CASE Sense(d)
  <2>1. pc' \in [Device -> Position]
    BY <1>0, <1>4 DEF Sense, TypeOK, Position, Busy
  <2>2. bit' \in [Device -> 0..(MaxBitAddress + 1)]
    <3>1. bit[d] \in Bit => bit[d] + 1 \in 0..(MaxBitAddress + 1)
      BY BoundAssumption DEF Bit
    <3>2. bit[d] \in Bit => NextBit(d) \in [Device -> 0..(MaxBitAddress + 1)]
      BY <1>0, <3>1 DEF NextBit, TypeOK
    <3> QED
      BY <1>4, <3>2 DEF Sense, TypeOK
  <2>3. current' \in Level
    <3>1. wire[d] \in [Bit -> BOOLEAN] /\ current[d] \in [Bit -> BOOLEAN]
      BY <1>0 DEF TypeOK, Level
    <3>2. CASE bit[d] \in Bit
      <4>1. current' = [current EXCEPT ![d] = [current[d] EXCEPT ![bit[d]] = wire[d][bit[d]]]]
        BY <1>4, <3>2 DEF Sense
      <4>2. [current[d] EXCEPT ![bit[d]] = wire[d][bit[d]]] \in [Bit -> BOOLEAN]
        BY <3>1, <3>2
      <4> QED
        BY <1>0, <4>1, <4>2, LevelUpdate DEF TypeOK
    <3>3. CASE bit[d] \notin Bit
      BY <1>4, <3>3 DEF Sense, TypeOK
    <3> QED
      BY <3>2, <3>3
  <2>4. \A e \in Device : pc'[e] \in {"rise", "fall"} => bit'[e] \in Bit
    <3> SUFFICES ASSUME NEW e \in Device, pc'[e] \in {"rise", "fall"} PROVE bit'[e] \in Bit
      OBVIOUS
    <3>1. CASE e = d
      BY <1>0, <1>4, <3>1 DEF Sense, TypeOK
    <3>2. CASE e # d
      <4>1. pc'[e] = pc[e] /\ bit'[e] = bit[e]
        BY <1>0, <1>4, <3>2 DEF Sense, TypeOK, NextBit
      <4> QED
        BY <4>1 DEF TypeOK
    <3> QED
      BY <3>1, <3>2
  <2> QED
    BY <1>4, <2>1, <2>2, <2>3, <2>4 DEF Sense, TypeOK, hardware, image
<1>5. CASE Push(d)
  <2>1. pc' \in [Device -> Position]
    BY <1>0, <1>5 DEF Push, TypeOK, Position, Busy
  <2>2. bit[d] \in Bit
    BY <1>0, <1>5 DEF Push, TypeOK
  <2>3. bit' \in [Device -> 0..(MaxBitAddress + 1)]
    <3>1. bit[d] + 1 \in 0..(MaxBitAddress + 1)
      BY <2>2, BoundAssumption DEF Bit
    <3> QED
      BY <1>0, <1>5, <3>1 DEF Push, TypeOK, NextBit
  <2>4. pInputBuffer' \in Seq(Entry)
    BY <1>0, <1>5, <2>2 DEF Push, TypeOK, Entry
  <2>5. \A e \in Device : pc'[e] \in {"rise", "fall"} => bit'[e] \in Bit
    BY <1>0, <1>5 DEF Push, TypeOK, NextBit
  <2> QED
    BY <1>5, <2>1, <2>3, <2>4, <2>5 DEF Push, TypeOK, hardware, image
<1>6. CASE WriteLevels(d)
  <2>1. pc' \in [Device -> Position] /\ mState' \in [Device -> DeviceState]
    BY <1>0, <1>6 DEF WriteLevels, TypeOK, Position, Busy, DeviceState
  <2>2. line' \in Level
    <3>1. [b \in Bit |-> IF edge[d][b] THEN next[d][b] ELSE line[d][b]] \in [Bit -> BOOLEAN]
      BY <1>0 DEF TypeOK, Level
    <3>2. [line EXCEPT ![d] = [b \in Bit |-> IF edge[d][b] THEN next[d][b] ELSE @[b]]] \in Level
      BY <1>0, <3>1, LevelUpdate DEF TypeOK
    <3> QED
      BY <1>6, <3>2 DEF WriteLevels, TypeOK
  <2> QED
    BY <1>6, <2>1, <2>2 DEF WriteLevels, TypeOK, image
<1>7. CASE SettleLevels(d)
  <2>1. pc' \in [Device -> Position]
    BY <1>0, <1>7 DEF SettleLevels, TypeOK, Position, Busy
  <2>2. edge' \in Level
    BY <1>0, <1>7, LevelUpdate, LowType DEF SettleLevels, TypeOK
  <2> QED
    BY <1>7, <2>1, <2>2 DEF SettleLevels, TypeOK, hardware
<1>8. CASE CycleEnd(d)
  <2>1. pc' \in [Device -> Position] /\ mState' \in [Device -> DeviceState]
    BY <1>0, <1>8 DEF CycleEnd, TypeOK, Position, DeviceState
  <2>2. mMutex' \in [Device -> {"free", "thread"}]
    BY <1>0, <1>8 DEF CycleEnd, TypeOK
  <2> QED
    BY <1>8, <2>1, <2>2 DEF CycleEnd, TypeOK, hardware, image
<1> QED
  BY <1>1, <1>2, <1>3, <1>4, <1>5, <1>6, <1>7, <1>8 DEF Cycle

LEMMA TypeCall ==
  ASSUME TypeOK, Call
  PROVE  TypeOK'
<1>1. ASSUME NEW call \in Seq(Todo), Begin(call) PROVE TypeOK'
  BY <1>1 DEF Begin, TypeOK, hardware, image
<1>2. CASE Start
  <2>1. Implied \o ForEach("start") \in Seq(Todo)
    BY ImpliedType, ForEachType, ConcatProperties DEF Op
  <2> QED
    BY <1>1, <1>2, <2>1 DEF Start
<1>3. CASE Stop
  <2>1. Implied \o ForEach("stop") \in Seq(Todo)
    BY ImpliedType, ForEachType, ConcatProperties DEF Op
  <2> QED
    BY <1>1, <1>3, <2>1 DEF Stop
<1>4. CASE Reset
  BY <1>1, <1>4, ResetAllType DEF Reset
<1>5. ASSUME NEW d \in Used, Configure(d) PROVE TypeOK'
  <2>1. Do("stop", d) \in Todo /\ Do("alloc", d) \in Todo
    BY UsedType, DoType DEF Op
  <2>2. <<Do("stop", d), Do("stop", d), Do("alloc", d)>> \in Seq(Todo)
    BY <2>1
  <2> QED
    BY <1>1, <1>5, <2>2 DEF Configure
<1>6. CASE ReadInput
  BY <1>6 DEF ReadInput, TypeOK, hardware, image
<1>7. ASSUME NEW d \in Used, NEW a \in Output[d], WriteOutputSync(d, a) PROVE TypeOK'
  <2>0. d \in Device
    BY UsedType
  <2> DEFINE New(b) == IF b \notin DOMAIN a THEN next[d][b]
                       ELSE a[b] = "Set" \/ (a[b] = "Inv" /\ ~next[d][b])
  <2>a. next[d] \in [Bit -> BOOLEAN]
    BY <2>0 DEF TypeOK, Level
  <2>b. ASSUME NEW b \in Bit
        PROVE  New(b) \in BOOLEAN
    <3>1. next[d][b] \in BOOLEAN
      BY <2>a
    <3>2. CASE b \in DOMAIN a
      BY <3>2
    <3>3. CASE b \notin DOMAIN a
      BY <3>1, <3>3
    <3> QED
      BY <3>2, <3>3
  <2>c. \A b \in Bit : New(b) \in BOOLEAN
    BY <2>b
  <2>d. [b \in Bit |-> New(b)] \in [Bit -> BOOLEAN]
    <3> HIDE DEF New
    <3> QED
      BY <2>c
  <2>e. [b \in Bit |-> b \in DOMAIN a \/ edge[d][b]] \in [Bit -> BOOLEAN]
    OBVIOUS
  <2>1. /\ [b \in Bit |-> IF b \notin DOMAIN a THEN next[d][b]
                          ELSE a[b] = "Set" \/ (a[b] = "Inv" /\ ~next[d][b])] \in [Bit -> BOOLEAN]
        /\ [b \in Bit |-> b \in DOMAIN a \/ edge[d][b]] \in [Bit -> BOOLEAN]
    BY <2>d, <2>e, Zenon
  <2>2. next' \in Level
    BY <1>7, <2>0, <2>1, LevelUpdate DEF WriteOutputSync, TypeOK
  <2>3. edge' \in Level
    BY <1>7, <2>0, <2>1, LevelUpdate DEF WriteOutputSync, TypeOK
  <2> QED
    BY <1>7, <2>2, <2>3 DEF WriteOutputSync, TypeOK, hardware
<1>8. ASSUME NEW d \in Used, NEW a \in Output[d], WriteOutputAsync(d, a) PROVE TypeOK'
  <2>0. d \in Device
    BY UsedType
  <2> DEFINE New(b) == IF b \in DOMAIN a THEN a[b] = "Set" ELSE line[d][b]
  <2>a. line[d] \in [Bit -> BOOLEAN]
    BY <2>0 DEF TypeOK, Level
  <2>b. ASSUME NEW b \in Bit PROVE New(b) \in BOOLEAN
    <3>1. line[d][b] \in BOOLEAN
      BY <2>a
    <3>2. CASE b \in DOMAIN a
      BY <3>2
    <3>3. CASE b \notin DOMAIN a
      BY <3>1, <3>3
    <3> QED
      BY <3>2, <3>3
  <2>c. \A b \in Bit : New(b) \in BOOLEAN
    BY <2>b
  <2>d. [b \in Bit |-> New(b)] \in [Bit -> BOOLEAN]
    <3> HIDE DEF New
    <3> QED
      BY <2>c
  <2>1. [b \in Bit |-> IF b \in DOMAIN a THEN a[b] = "Set" ELSE line[d][b]] \in [Bit -> BOOLEAN]
    BY <2>d, Zenon
  <2>2. line' \in Level
    BY <1>8, <2>0, <2>1, LevelUpdate DEF WriteOutputAsync, TypeOK
  <2> QED
    BY <1>8, <2>2 DEF WriteOutputAsync, TypeOK, image
<1>9. ASSUME NEW d \in Used, NEW b \in Bit, NEW l \in BOOLEAN, WriteSignal(d, b, l)
      PROVE  TypeOK'
  <2>0. d \in Device
    BY UsedType
  <2>1. \A f \in Level, x \in BOOLEAN : [f EXCEPT ![d][b] = x] \in Level
    BY <2>0 DEF Level
  <2>2. next' \in Level /\ edge' \in Level /\ line' \in Level
    BY <1>9, <2>1 DEF WriteSignal, TypeOK
  <2> QED
    BY <1>9, <2>2 DEF WriteSignal, TypeOK
<1> QED
  BY <1>2, <1>3, <1>4, <1>5, <1>6, <1>7, <1>8, <1>9 DEF Call

LEMMA TypeProceed ==
  ASSUME TypeOK, NEW d \in Used, Proceed(d) \/ Locking(d)
  PROVE  TypeOK'
<1>0. d \in Device /\ \A op \in Op : Do(op, d) \in Todo
  BY UsedType, DoType
<1>1. ASSUME NEW op \in Op, At(op, d)
      PROVE  /\ Tail(todo) \in Seq(Todo)
             /\ \A s \in Seq(Todo) : s \o Tail(todo) \in Seq(Todo)
  BY <1>1, HeadTailProperties, ConcatProperties DEF At, TypeOK
<1>2. CASE ResetDevice(d)
  <2>1. /\ <<Do("testin", d), Do("testout", d)>> \in Seq(Todo)
        /\ <<Do("testin", d), Do("testout", d), Do("halt", d)>> \in Seq(Todo)
    BY <1>0 DEF Op
  <2>2. todo' \in Seq(Todo)
    BY <1>1, <1>2, <2>1 DEF ResetDevice, Op
  <2> QED
    BY <1>2, <2>2, EmptySeq DEF ResetDevice, TypeOK, hardware, image
<1>3. CASE Flush(d)
  BY <1>1, <1>3, EmptySeq DEF Flush, TypeOK, hardware, image, Op
<1>4. CASE TestState(d)
  <2>1. <<Do("clrin", d)>> \in Seq(Todo) /\ <<Do("clrout", d)>> \in Seq(Todo)
    BY <1>0 DEF Op
  <2>2. todo' \in Seq(Todo)
    BY <1>1, <1>4, <2>1 DEF TestState, Op
  <2> QED
    BY <1>4, <2>2 DEF TestState, TypeOK, hardware, image
<1>5. CASE StartDevice(d)
  <2>1. <<Do("reset", d), Do("run", d)>> \in Seq(Todo)
    BY <1>0 DEF Op
  <2>2. todo' \in Seq(Todo)
    BY <1>1, <1>5, <2>1 DEF StartDevice, Op
  <2>3. mState' \in [Device -> DeviceState]
    BY <1>0, <1>5 DEF StartDevice, TypeOK, DeviceState
  <2> QED
    BY <1>5, <2>2, <2>3 DEF StartDevice, TypeOK, hardware, image
<1>6. CASE RunThread(d)
  <2>1. todo' \in Seq(Todo)
    BY <1>1, <1>6 DEF RunThread, Op
  <2>2. /\ mState' \in [Device -> DeviceState] /\ mCancelRequest' \in [Device -> BOOLEAN]
        /\ pc' \in [Device -> Position]
        /\ \A e \in Device : pc'[e] \in {"rise", "fall"} => bit'[e] \in Bit
    BY <1>0, <1>6 DEF RunThread, TypeOK, DeviceState, Position
  <2>3. pInputBuffer' \in Seq(Entry)
    <3>1. /\ Len(pInputBuffer) \in Nat
          /\ DOMAIN pInputBuffer = 1..Len(pInputBuffer)
          /\ \A i \in 1..Len(pInputBuffer) : pInputBuffer[i] \in Entry
      BY DEF TypeOK
    <3>2. \A x \in Entry : [x EXCEPT !.past = @ \/ x.dev = d] \in Entry
      BY DEF Entry
    <3>3. \A i \in 1..Len(pInputBuffer) :
             [pInputBuffer[i] EXCEPT !.past = @ \/ pInputBuffer[i].dev = d] \in Entry
      BY <3>1, <3>2
    <3>4. [i \in DOMAIN pInputBuffer |->
             [pInputBuffer[i] EXCEPT !.past = @ \/ pInputBuffer[i].dev = d]] \in Seq(Entry)
      BY <3>1, <3>3, IsASeq
    <3> QED
      BY <1>6, <3>4 DEF RunThread, TypeOK
  <2> QED
    BY <1>6, <2>1, <2>2, <2>3 DEF RunThread, TypeOK, hardware, image
<1>7. CASE StopDevice(d)
  <2>1. <<Do("cancel", d), Do("join", d)>> \in Seq(Todo)
    BY <1>0 DEF Op
  <2>2. todo' \in Seq(Todo)
    BY <1>1, <1>7, <2>1 DEF StopDevice, Op
  <2>3. mState' \in [Device -> DeviceState]
    BY <1>0, <1>7 DEF StopDevice, TypeOK, DeviceState
  <2> QED
    BY <1>7, <2>2, <2>3 DEF StopDevice, TypeOK, hardware, image
<1>8. CASE JoinThread(d)
  <2>1. todo' \in Seq(Todo)
    BY <1>1, <1>8 DEF JoinThread, Op
  <2>2. /\ mState' \in [Device -> DeviceState] /\ pc' \in [Device -> Position]
        /\ \A e \in Device : pc'[e] \in {"rise", "fall"} => bit'[e] \in Bit
    BY <1>0, <1>8 DEF JoinThread, TypeOK, DeviceState, Position
  <2> QED
    BY <1>8, <2>1, <2>2 DEF JoinThread, TypeOK, hardware, image
<1>9. CASE Allocate(d)
  <2>1. todo' \in Seq(Todo)
    BY <1>1, <1>9 DEF Allocate, Op
  <2>2. PICK r \in BOOLEAN : rel' = [rel EXCEPT ![d] = [b \in Bit |-> r]]
    BY <1>9 DEF Allocate
  <2>3. rel' \in Level
    BY <1>0, <2>2, LevelUpdate DEF TypeOK
  <2> QED
    BY <1>9, <2>1, <2>3 DEF Allocate, TypeOK, hardware, image
<1>10. CASE ClrInputSignals(d)
  <2>1. todo' \in Seq(Todo)
    BY <1>1, <1>10 DEF ClrInputSignals, Op
  <2>2. (IF ok[d] THEN wire[d] ELSE Low) \in [Bit -> BOOLEAN]
    BY <1>0, LowType DEF TypeOK, Level
  <2>3. current' \in Level
    BY <1>0, <1>10, <2>2, LevelUpdate DEF ClrInputSignals, TypeOK
  <2>4. pInputBuffer' \in Seq(Entry)
    BY <1>0, <1>10, ResampledType DEF ClrInputSignals
  <2> QED
    BY <1>10, <2>1, <2>3, <2>4 DEF ClrInputSignals, TypeOK, hardware, image
<1>11. CASE ClrOutputSignals(d)
  <2>1. todo' \in Seq(Todo)
    BY <1>1, <1>11 DEF ClrOutputSignals, Op
  <2>2. rel[d] \in [Bit -> BOOLEAN]
    BY <1>0 DEF TypeOK, Level
  <2>3. line' \in Level
    BY <1>0, <1>11, <2>2, ZeroType DEF ClrOutputSignals, TypeOK
  <2>4. next' \in Level /\ edge' \in Level
    BY <1>0, <1>11, LevelUpdate, LowType DEF ClrOutputSignals, TypeOK
  <2>5. cleared' \in [Device -> BOOLEAN]
    BY <1>0, <1>11 DEF ClrOutputSignals, TypeOK
  <2> QED
    BY <1>11, <2>1, <2>3, <2>4, <2>5 DEF ClrOutputSignals, TypeOK
<1>12. CASE CancelThread(d)
  <2>1. todo' \in Seq(Todo)
    BY <1>1, <1>12 DEF CancelThread, Op
  <2>2. mCancelRequest' \in [Device -> BOOLEAN]
    BY <1>0, <1>12 DEF CancelThread, TypeOK
  <2> QED
    BY <1>12, <2>1, <2>2 DEF CancelThread, TypeOK, hardware, image
<1> QED
  BY <1>2, <1>3, <1>4, <1>5, <1>6, <1>7, <1>8, <1>9, <1>10, <1>11, <1>12 DEF Proceed, Locking

LEMMA TypeHardware ==
  ASSUME TypeOK, NEW d \in Used, Connection(d) \/ \E b \in InBit(d) : WireChange(d, b)
  PROVE  TypeOK'
<1>0. d \in Device
  BY UsedType
<1>1. CASE Connection(d)
  BY <1>0, <1>1 DEF Connection, TypeOK, image
<1>2. ASSUME NEW b \in InBit(d), WireChange(d, b) PROVE TypeOK'
  <2>1. b \in Bit
    BY <1>0, ConfigAssumption DEF InBit
  <2>2. wire' \in Level
    BY <1>0, <1>2, <2>1 DEF WireChange, TypeOK, Level
  <2> QED
    BY <1>2, <2>2 DEF WireChange, TypeOK, image
<1> QED
  BY <1>1, <1>2

LEMMA TypeStep == TypeOK /\ [Next]_vars => TypeOK'
<1> SUFFICES ASSUME TypeOK, [Next]_vars PROVE TypeOK'
  OBVIOUS
<1>1. CASE UNCHANGED vars
  BY <1>1 DEF vars, TypeOK
<1> QED
  BY <1>1, TypeCall, TypeCycle, TypeProceed, TypeHardware DEF Next

\* Every reachable state is well typed; in particular the thread only buffers events of
\* bits that the device has.
THEOREM TypeCorrect == Spec => []TypeOK
  BY TypeInit, TypeStep, PTL DEF Spec
------------------------------------------------------------------------------
(* Thread and application. What is left of a call has a shape that tells   *)
(* where the application is: nothing but the reset of Start() comes before *)
(* the thread is created, a thread is joined right after the request to    *)
(* terminate, and levels are allocated right after the device is stopped.  *)

\* y can be the step that is left to do after x.
Follows(x, y) ==
    /\ y.op \notin {"testin", "clrin", "clrout", "cancel"}
    /\ y.op = "halt"  => x \in {Do("testout", y.dev), Do("clrout", y.dev)}
    /\ y.op = "join"  => x = Do("cancel", y.dev)
    /\ y.op = "alloc" => x \in {Do("stop", y.dev), Do("halt", y.dev), Do("join", y.dev)}

Resetting == {"reset", "testin", "testout", "clrin", "clrout"}

\* t can be what is left of a call.
Plan(t) ==
    /\ \A i \in 1..(Len(t) - 1) : Follows(t[i], t[i + 1])
    /\ \A i \in 1..Len(t) : t[i].op = "cancel" =>
          i + 1 \in 1..Len(t) /\ t[i + 1] = Do("join", t[i].dev)
    /\ \A i \in 1..Len(t) : t[i].op = "run" =>
          \A j \in 1..(i - 1) : t[j].op \in Resetting /\ t[j].dev = t[i].dev

ThreadInv(d) ==
    /\ mMutex[d] = "thread" <=> pc[d] \in Busy
    /\ mState[d] = "Down" => pc[d] = "none"
    /\ mState[d] = "ShutDown" <=> pc[d] = "exit"
    /\ pc[d] # "none" => Threaded(d)
    /\ pc[d] # "none" /\ mCancelRequest[d] => At("join", d)
    /\ pc[d] = "exit" => At("join", d)
    /\ At("alloc", d) => pc[d] = "none"
    /\ At("clrout", d) => Started(d)

\* No events of d are buffered.
NoneOf(d) == \A k \in DOMAIN pInputBuffer : pInputBuffer[k].dev # d

\* A thread is created for a device that is up and reset: none of its events are left.
Startable(d) == pc[d] = "none" /\ mState[d] = "Up" /\ (At("reset", d) \/ NoneOf(d))
StartInv == \A i \in 1..Len(todo) : todo[i].op = "run" => Startable(todo[i].dev)

ControlInv == Plan(todo) /\ (\A d \in Device : ThreadInv(d)) /\ StartInv

LEMMA DoFields == \A op, d : Do(op, d).op = op /\ Do(op, d).dev = d
  BY DEF Do

LEMMA PlanTail ==
  ASSUME NEW t \in Seq(Todo), t # <<>>, Plan(t)
  PROVE  Plan(Tail(t))
<1>1. /\ Len(t) \in Nat \ {0} /\ Len(Tail(t)) = Len(t) - 1 /\ Tail(t) \in Seq(Todo)
      /\ \A i \in 1..Len(Tail(t)) : Tail(t)[i] = t[i + 1]
  BY HeadTailProperties, EmptySeq, LenProperties
<1>2. \A i \in 1..(Len(Tail(t)) - 1) : Follows(Tail(t)[i], Tail(t)[i + 1])
  <2> SUFFICES ASSUME NEW i \in 1..(Len(Tail(t)) - 1)
               PROVE  Follows(Tail(t)[i], Tail(t)[i + 1])
    OBVIOUS
  <2>1. i + 1 \in 1..(Len(t) - 1) /\ i \in 1..Len(Tail(t)) /\ i + 1 \in 1..Len(Tail(t))
    BY <1>1
  <2>2. Follows(t[i + 1], t[(i + 1) + 1])
    BY <2>1 DEF Plan
  <2> QED
    BY <1>1, <2>1, <2>2
<1>3. ASSUME NEW i \in 1..Len(Tail(t)), Tail(t)[i].op = "cancel"
      PROVE  i + 1 \in 1..Len(Tail(t)) /\ Tail(t)[i + 1] = Do("join", Tail(t)[i].dev)
  <2>1. i + 1 \in 1..Len(t) /\ t[i + 1].op = "cancel"
    BY <1>1, <1>3
  <2>2. (i + 1) + 1 \in 1..Len(t) /\ t[(i + 1) + 1] = Do("join", t[i + 1].dev)
    BY <2>1 DEF Plan
  <2> QED
    BY <1>1, <2>1, <2>2
<1>4. ASSUME NEW i \in 1..Len(Tail(t)), Tail(t)[i].op = "run", NEW j \in 1..(i - 1)
      PROVE  Tail(t)[j].op \in Resetting /\ Tail(t)[j].dev = Tail(t)[i].dev
  <2>1. i + 1 \in 1..Len(t) /\ t[i + 1].op = "run" /\ j + 1 \in 1..((i + 1) - 1)
    BY <1>1, <1>4
  <2>2. t[j + 1].op \in Resetting /\ t[j + 1].dev = t[i + 1].dev
    BY <2>1 DEF Plan
  <2>3. j \in 1..Len(Tail(t))
    BY <1>1
  <2> QED
    BY <1>1, <2>2, <2>3
<1> QED
  BY <1>2, <1>3, <1>4 DEF Plan

\* A plan whose first step is unfolded.
LEMMA PlanUnfold ==
  ASSUME NEW t \in Seq(Todo), t # <<>>, Plan(t),
         NEW s \in Seq(Todo), s # <<>>, Plan(s),
         Len(t) > 1 => Follows(s[Len(s)], t[2]),
         \A i \in 2..Len(t) : t[i].op = "run" =>
            \A j \in 1..Len(s) : s[j].op \in Resetting /\ s[j].dev = t[i].dev,
         s[Len(s)].op # "cancel"
  PROVE  Plan(s \o Tail(t))
<1> DEFINE u == s \o Tail(t)
           m == Len(s)
<1>1. /\ Len(t) \in Nat \ {0} /\ Len(Tail(t)) = Len(t) - 1 /\ Tail(t) \in Seq(Todo)
      /\ \A i \in 1..Len(Tail(t)) : Tail(t)[i] = t[i + 1]
  BY HeadTailProperties, EmptySeq, LenProperties
<1>2. m \in Nat \ {0}
  BY EmptySeq, LenProperties
<1>3. /\ Len(u) = m + Len(t) - 1
      /\ \A i \in 1..m : u[i] = s[i]
      /\ \A i \in (m + 1)..Len(u) : u[i] = t[i - m + 1]
  <2>1. /\ Len(u) = m + Len(Tail(t))
        /\ \A i \in 1..(m + Len(Tail(t))) : u[i] = IF i <= m THEN s[i] ELSE Tail(t)[i - m]
    BY <1>1, ConcatProperties
  <2> QED
    BY <1>1, <1>2, <2>1
<1> HIDE DEF u, m
<1>4. ASSUME NEW i \in 1..(Len(u) - 1) PROVE Follows(u[i], u[i + 1])
  <2>1. CASE i < m
    BY <1>2, <1>3, <2>1 DEF Plan, m
  <2>2. CASE i = m
    <3>1. Len(t) > 1 /\ u[i] = s[Len(s)] /\ u[i + 1] = t[2]
      BY <1>1, <1>2, <1>3, <2>2 DEF m
    <3> QED
      BY <3>1
  <2>3. CASE i > m
    <3>1. u[i] = t[i - m + 1] /\ u[i + 1] = t[(i - m + 1) + 1] /\ i - m + 1 \in 1..(Len(t) - 1)
      BY <1>1, <1>2, <1>3, <2>3
    <3> QED
      BY <3>1 DEF Plan
  <2> QED
    BY <1>2, <2>1, <2>2, <2>3
<1>5. ASSUME NEW i \in 1..Len(u), u[i].op = "cancel"
      PROVE  i + 1 \in 1..Len(u) /\ u[i + 1] = Do("join", u[i].dev)
  <2>1. CASE i <= m
    <3>1. i # m /\ i \in 1..m /\ s[i].op = "cancel"
      BY <1>2, <1>3, <1>5, <2>1 DEF m
    <3>2. s[i + 1] = Do("join", s[i].dev) /\ i + 1 \in 1..m
      BY <3>1 DEF Plan, m
    <3> QED
      BY <1>1, <1>2, <1>3, <3>1, <3>2
  <2>2. CASE i > m
    <3>0. i \in (m + 1)..Len(u) /\ i - m + 1 \in 1..Len(t)
      BY <1>1, <1>2, <1>3, <2>2
    <3>1. u[i] = t[i - m + 1] /\ i - m + 1 \in 1..Len(t)
      BY <1>3, <3>0
    <3>2. (i - m + 1) + 1 \in 1..Len(t) /\ t[(i - m + 1) + 1] = Do("join", u[i].dev)
      BY <1>5, <3>1 DEF Plan
    <3> QED
      BY <1>1, <1>2, <1>3, <2>2, <3>2
  <2> QED
    BY <1>2, <2>1, <2>2
<1>6. ASSUME NEW i \in 1..Len(u), u[i].op = "run", NEW j \in 1..(i - 1)
      PROVE  u[j].op \in Resetting /\ u[j].dev = u[i].dev
  <2>1. CASE i <= m
    <3>1. i \in 1..m /\ j \in 1..m /\ u[i] = s[i] /\ u[j] = s[j]
      BY <1>2, <1>3, <2>1
    <3> QED
      BY <1>6, <3>1 DEF Plan, m
  <2>2. CASE i > m
    <3>1. u[i] = t[i - m + 1] /\ i - m + 1 \in 2..Len(t)
      BY <1>1, <1>2, <1>3, <2>2
    <3>2. CASE j <= m
      <4>1. j \in 1..m /\ u[j] = s[j]
        BY <1>2, <1>3, <3>2
      <4> QED
        BY <1>6, <3>1, <4>1 DEF m
    <3>3. CASE j > m
      <4>1. u[j] = t[j - m + 1] /\ j - m + 1 \in 1..((i - m + 1) - 1)
        BY <1>1, <1>2, <1>3, <2>2, <3>3
      <4>2. i - m + 1 \in 1..Len(t)
        BY <3>1
      <4> QED
        BY <1>6, <3>1, <4>1, <4>2 DEF Plan
    <3> QED
      BY <1>2, <3>2, <3>3
  <2> QED
    BY <1>2, <2>1, <2>2
<1>7. Plan(u)
  BY <1>4, <1>5, <1>6 DEF Plan
<1> QED
  BY <1>7 DEF u
\* Start(), Stop() and Reset() are made of these steps.
LEMMA PlanBegin ==
  ASSUME NEW t \in Seq(Todo), \A i \in 1..Len(t) : t[i].op \in {"reset", "flush", "start", "stop"}
  PROVE  Plan(t)
<1>1. Len(t) \in Nat
  BY LenProperties
<1>2. \A i \in 1..(Len(t) - 1) : i + 1 \in 1..Len(t)
  BY <1>1
<1> QED
  BY <1>1, <1>2 DEF Plan, Follows

LEMMA CallOps ==
  ASSUME TypeOK, NEW op \in {"start", "stop"}
  PROVE  /\ ResetAll \in Seq(Todo) /\ Implied \o ForEach(op) \in Seq(Todo)
         /\ \A i \in 1..Len(ResetAll) :
               ResetAll[i].op \in {"reset", "flush", "start", "stop"}
         /\ \A i \in 1..Len(Implied \o ForEach(op)) :
               (Implied \o ForEach(op))[i].op \in {"reset", "flush", "start", "stop"}
<1> DEFINE Ops == {"reset", "flush", "start", "stop"}
           Simple(t) == t \in Seq(Todo) /\ \A i \in 1..Len(t) : t[i].op \in Ops
<1>1. \A s, t : Simple(s) /\ Simple(t) => Simple(s \o t)
  <2> SUFFICES ASSUME NEW s, NEW t, Simple(s), Simple(t) PROVE Simple(s \o t)
    OBVIOUS
  <2>1. /\ s \o t \in Seq(Todo) /\ Len(s \o t) = Len(s) + Len(t)
        /\ \A i \in 1..(Len(s) + Len(t)) : (s \o t)[i] = IF i <= Len(s) THEN s[i] ELSE t[i - Len(s)]
        /\ Len(s) \in Nat /\ Len(t) \in Nat
    BY ConcatProperties, LenProperties
  <2>2. ASSUME NEW i \in 1..Len(s \o t) PROVE (s \o t)[i].op \in Ops
    <3>1. CASE i <= Len(s)
      BY <2>1, <3>1
    <3>2. CASE ~(i <= Len(s))
      <4>1. i - Len(s) \in 1..Len(t)
        BY <2>1, <3>2
      <4> QED
        BY <2>1, <3>2, <4>1
    <3> QED
      BY <3>1, <3>2
  <2> QED
    BY <2>1, <2>2
<1>2. \A x \in {"reset", "start", "stop"} : Simple(ForEach(x))
  <2> SUFFICES ASSUME NEW x \in {"reset", "start", "stop"} PROVE Simple(ForEach(x))
    OBVIOUS
  <2>1. x \in Op /\ x \in Ops
    BY DEF Op
  <2> QED
    BY <2>1, ForEachType, DoFields
<1>3. Container => Simple(<<Do("flush", mDevices[1])>>)
  <2> SUFFICES ASSUME Container PROVE Simple(<<Do("flush", mDevices[1])>>)
    OBVIOUS
  <2>1. mDevices[1] \in Device
    BY DEF Container, TypeOK
  <2>2. Do("flush", mDevices[1]) \in Todo /\ Do("flush", mDevices[1]).op = "flush"
    BY <2>1, DoType, DoFields DEF Op
  <2> QED
    BY <2>2
<1>4. Simple(<<>>)
  BY EmptySeq
<1> HIDE DEF Simple
<1>5. Simple(ResetAll)
  BY <1>1, <1>2, <1>3, <1>4 DEF ResetAll
<1>6. Simple(Implied)
  BY <1>4, <1>5 DEF Implied
<1>7. Simple(Implied \o ForEach(op))
  BY <1>1, <1>2, <1>6
<1> QED
  BY <1>5, <1>7 DEF Simple

LEMMA CallPlans ==
  ASSUME TypeOK, NEW op \in {"start", "stop"}
  PROVE  Plan(ResetAll) /\ Plan(Implied \o ForEach(op))
  BY CallOps, PlanBegin

LEMMA ConfigurePlan ==
  ASSUME NEW d \in Device
  PROVE  Plan(<<Do("stop", d), Do("stop", d), Do("alloc", d)>>)
<1> DEFINE t == <<Do("stop", d), Do("stop", d), Do("alloc", d)>>
<1>1. /\ Len(t) = 3 /\ t[1] = Do("stop", d) /\ t[2] = Do("stop", d) /\ t[3] = Do("alloc", d)
  OBVIOUS
<1> HIDE DEF t
<1>2. /\ \A i \in 1..(Len(t) - 1) : i \in {1, 2} /\ i + 1 \in {2, 3}
      /\ \A i \in 1..Len(t) : i \in {1, 2, 3}
  BY <1>1
<1>3. Follows(t[1], t[1 + 1]) /\ Follows(t[2], t[2 + 1])
  BY <1>1, DoFields DEF Follows
<1>4. \A i \in 1..Len(t) : t[i].op \notin {"cancel", "run"}
  BY <1>1, <1>2, DoFields
<1>5. Plan(t)
  BY <1>2, <1>3, <1>4 DEF Plan
<1> QED
  BY <1>5 DEF t

LEMMA PlanCall ==
  ASSUME TypeOK, Plan(todo), Call
  PROVE  Plan(todo')
<1>1. CASE Start
  BY <1>1, CallPlans DEF Start, Begin
<1>2. CASE Stop
  BY <1>2, CallPlans DEF Stop, Begin
<1>3. CASE Reset
  BY <1>3, CallPlans DEF Reset, Begin
<1>4. ASSUME NEW d \in Used, Configure(d) PROVE Plan(todo')
  BY <1>4, UsedType, ConfigurePlan DEF Configure, Begin
<1>5. CASE UNCHANGED todo
  BY <1>5
<1> QED
  BY <1>1, <1>2, <1>3, <1>4, <1>5
  DEF Call, ReadInput, WriteOutputSync, WriteOutputAsync, WriteSignal

\* What comes after a step that is done, and before a step.
LEMMA StepDone ==
  ASSUME TypeOK, Plan(todo), todo # <<>>, todo' = Tail(todo), NEW e
  PROVE  /\ Plan(todo')
         /\ At("join", e)'  => At("cancel", e)
         /\ At("halt", e)'  => At("testout", e) \/ At("clrout", e)
         /\ At("alloc", e)' => At("stop", e) \/ At("halt", e) \/ At("join", e)
         /\ ~At("clrin", e)' /\ ~At("clrout", e)' /\ ~At("cancel", e)'
         /\ At("cancel", e) => At("join", e)'
<1>1. todo \in Seq(Todo)
  BY DEF TypeOK
<1>2. Plan(todo')
  BY <1>1, PlanTail
<1>3. /\ Len(todo) \in Nat \ {0} /\ Len(Tail(todo)) = Len(todo) - 1 /\ Tail(todo) \in Seq(Todo)
      /\ \A i \in 1..Len(Tail(todo)) : Tail(todo)[i] = todo[i + 1]
      /\ Head(todo) = todo[1]
  BY <1>1, HeadTailProperties, EmptySeq, LenProperties
<1>4. todo' # <<>> => /\ Len(todo) > 1 /\ Head(todo') = todo[2]
                      /\ Follows(Head(todo), Head(todo'))
  <2> SUFFICES ASSUME todo' # <<>>
               PROVE  /\ Len(todo) > 1 /\ Head(todo') = todo[2]
                      /\ Follows(Head(todo), Head(todo'))
    OBVIOUS
  <2>1. Len(Tail(todo)) \in Nat \ {0} /\ Head(todo') = Tail(todo)[1]
    BY <1>3, EmptySeq, LenProperties, HeadTailProperties
  <2>2. Len(todo) > 1 /\ Head(todo') = todo[2] /\ 1 \in 1..(Len(todo) - 1)
    BY <1>3, <2>1
  <2>3. Follows(todo[1], todo[1 + 1])
    BY <2>2 DEF Plan
  <2> QED
    BY <1>3, <2>2, <2>3
<1>5. At("cancel", e) => At("join", e)'
  <2> SUFFICES ASSUME At("cancel", e) PROVE At("join", e)'
    OBVIOUS
  <2>1. todo[1].op = "cancel" /\ todo[1].dev = e /\ 1 \in 1..Len(todo)
    BY <1>3, DoFields DEF At
  <2>2. 2 \in 1..Len(todo) /\ todo[1 + 1] = Do("join", e)
    BY <2>1 DEF Plan
  <2>3. Len(Tail(todo)) # 0 /\ 1 \in 1..Len(Tail(todo))
    BY <1>3, <2>2
  <2>4. Tail(todo) # <<>>
    BY <2>3, EmptySeq
  <2> QED
    BY <1>4, <2>2, <2>4 DEF At
<1>6. /\ At("join", e)'  => At("cancel", e)
      /\ At("halt", e)'  => At("testout", e) \/ At("clrout", e)
      /\ At("alloc", e)' => At("stop", e) \/ At("halt", e) \/ At("join", e)
      /\ ~At("clrin", e)' /\ ~At("clrout", e)' /\ ~At("cancel", e)'
  BY <1>4, DoFields DEF At, Follows
<1> QED
  BY <1>2, <1>5, <1>6

LEMMA StepUnfolds ==
  ASSUME NEW s \in Seq(Todo), s # <<>>, TypeOK, todo # <<>>, todo' = s \o Tail(todo), NEW op, NEW e
  PROVE  At(op, e)' <=> s[1] = Do(op, e)
<1>1. Tail(todo) \in Seq(Todo)
  BY HeadTailProperties DEF TypeOK
<1>2. /\ Len(s) \in Nat \ {0} /\ Len(Tail(todo)) \in Nat
      /\ Len(todo') = Len(s) + Len(Tail(todo)) /\ todo' \in Seq(Todo)
      /\ \A i \in 1..(Len(s) + Len(Tail(todo))) :
            todo'[i] = IF i <= Len(s) THEN s[i] ELSE Tail(todo)[i - Len(s)]
  BY <1>1, ConcatProperties, EmptySeq, LenProperties
<1>3. todo'[1] = s[1] /\ todo' # <<>>
  BY <1>2, EmptySeq
<1>4. Head(todo') = s[1]
  BY <1>2, <1>3, HeadTailProperties
<1> QED
  BY <1>3, <1>4 DEF At
\* The sequences a step unfolds to.
LEMMA UnfoldedPlans ==
  ASSUME NEW d \in Device
  PROVE  /\ Plan(<<Do("testin", d), Do("testout", d)>>)
         /\ Plan(<<Do("testin", d), Do("testout", d), Do("halt", d)>>)
         /\ Plan(<<Do("clrin", d)>>) /\ Plan(<<Do("clrout", d)>>)
         /\ Plan(<<Do("reset", d), Do("run", d)>>)
         /\ Plan(<<Do("cancel", d), Do("join", d)>>)
<1>1. \A x : x.op \notin {"cancel", "run"} => Plan(<<x>>)
  <2> SUFFICES ASSUME NEW x, x.op \notin {"cancel", "run"} PROVE Plan(<<x>>)
    OBVIOUS
  <2>1. Len(<<x>>) = 1 /\ <<x>>[1] = x
    OBVIOUS
  <2>2. \A i \in 1..Len(<<x>>) : i = 1
    BY <2>1
  <2>3. \A i \in 1..(Len(<<x>>) - 1) : FALSE
    BY <2>1
  <2> QED
    BY <2>1, <2>2, <2>3 DEF Plan
<1>2. \A x, y : /\ Follows(x, y) /\ x.op # "run" /\ y.op # "cancel"
                /\ x.op = "cancel" => y = Do("join", x.dev)
                /\ y.op = "run" => x.op \in Resetting /\ x.dev = y.dev
                => Plan(<<x, y>>)
  <2> SUFFICES ASSUME NEW x, NEW y, Follows(x, y), x.op # "run", y.op # "cancel",
                      x.op = "cancel" => y = Do("join", x.dev),
                      y.op = "run" => x.op \in Resetting /\ x.dev = y.dev
               PROVE  Plan(<<x, y>>)
    OBVIOUS
  <2> DEFINE t == <<x, y>>
  <2>1. Len(t) = 2 /\ t[1] = x /\ t[2] = y
    OBVIOUS
  <2> HIDE DEF t
  <2>2. /\ \A i \in 1..Len(t) : i \in {1, 2} /\ (\A j \in 1..(i - 1) : i = 2 /\ j = 1)
        /\ \A i \in 1..(Len(t) - 1) : i = 1
    BY <2>1
  <2>3. \A i \in 1..(Len(t) - 1) : Follows(t[i], t[i + 1])
    BY <2>1, <2>2
  <2>4. \A i \in 1..Len(t) : t[i].op = "cancel" =>
           i + 1 \in 1..Len(t) /\ t[i + 1] = Do("join", t[i].dev)
    BY <2>1, <2>2
  <2>5. \A i \in 1..Len(t) : t[i].op = "run" =>
           \A j \in 1..(i - 1) : t[j].op \in Resetting /\ t[j].dev = t[i].dev
    BY <2>1, <2>2
  <2>6. Plan(t)
    BY <2>3, <2>4, <2>5 DEF Plan
  <2> QED
    BY <2>6 DEF t
<1>3. Plan(<<Do("testin", d), Do("testout", d), Do("halt", d)>>)
  <2> DEFINE t == <<Do("testin", d), Do("testout", d), Do("halt", d)>>
  <2>1. /\ Len(t) = 3
        /\ t[1] = Do("testin", d) /\ t[2] = Do("testout", d) /\ t[3] = Do("halt", d)
    OBVIOUS
  <2> HIDE DEF t
  <2>2. /\ \A i \in 1..(Len(t) - 1) : i \in {1, 2}
        /\ \A i \in 1..Len(t) : i \in {1, 2, 3}
    BY <2>1
  <2>3. Follows(t[1], t[1 + 1]) /\ Follows(t[2], t[2 + 1])
    BY <2>1, DoFields DEF Follows
  <2>4. \A i \in 1..Len(t) : t[i].op \notin {"cancel", "run"}
    BY <2>1, <2>2, DoFields
  <2>5. Plan(t)
    BY <2>2, <2>3, <2>4 DEF Plan
  <2> QED
    BY <2>5 DEF t
<1>4. /\ Follows(Do("testin", d), Do("testout", d))
      /\ Follows(Do("reset", d), Do("run", d))
      /\ Follows(Do("cancel", d), Do("join", d))
  BY DoFields DEF Follows
<1> QED
  BY <1>1, <1>2, <1>3, <1>4, DoFields DEF Resetting

\* Which step does what to the plan.
LEMMA Unfolding ==
  ASSUME TypeOK, NEW d \in Used, Proceed(d) \/ Locking(d)
  PROVE  /\ todo # <<>> /\ d \in Device
         /\ \/ todo' = Tail(todo)
            \/ \E s \in Seq(Todo) :
                  /\ todo' = s \o Tail(todo)
                  /\ \/ At("reset", d) /\ s = <<Do("testin", d), Do("testout", d)>>
                     \/ At("stop", d) /\ s = <<Do("testin", d), Do("testout", d), Do("halt", d)>>
                     \/ At("testin", d) /\ s = <<Do("clrin", d)>>
                     \/ At("testout", d) /\ s = <<Do("clrout", d)>>
                     \/ At("start", d) /\ s = <<Do("reset", d), Do("run", d)>>
                     \/ At("halt", d) /\ s = <<Do("cancel", d), Do("join", d)>>
<1>1. d \in Device /\ \A op \in Op : Do(op, d) \in Todo
  BY UsedType, DoType
<1>2. /\ <<Do("testin", d), Do("testout", d)>> \in Seq(Todo)
      /\ <<Do("testin", d), Do("testout", d), Do("halt", d)>> \in Seq(Todo)
      /\ <<Do("clrin", d)>> \in Seq(Todo) /\ <<Do("clrout", d)>> \in Seq(Todo)
      /\ <<Do("reset", d), Do("run", d)>> \in Seq(Todo)
      /\ <<Do("cancel", d), Do("join", d)>> \in Seq(Todo)
  BY <1>1 DEF Op
<1>3. CASE ResetDevice(d)
  BY <1>1, <1>2, <1>3 DEF ResetDevice, At
<1>4. CASE TestState(d)
  BY <1>1, <1>2, <1>4 DEF TestState, At
<1>5. CASE StartDevice(d)
  BY <1>1, <1>2, <1>5 DEF StartDevice, At
<1>6. CASE StopDevice(d)
  BY <1>1, <1>2, <1>6 DEF StopDevice, At
<1>7. CASE Flush(d) \/ RunThread(d) \/ JoinThread(d) \/ Allocate(d) \/ Locking(d)
  BY <1>1, <1>7
  DEF Flush, RunThread, JoinThread, Allocate, Locking, ClrInputSignals, ClrOutputSignals,
      CancelThread, At
<1> QED
  BY <1>3, <1>4, <1>5, <1>6, <1>7 DEF Proceed

LEMMA PlanProceed ==
  ASSUME TypeOK, Plan(todo), NEW d \in Used, Proceed(d) \/ Locking(d)
  PROVE  Plan(todo')
<1>0. /\ Plan(<<Do("testin", d), Do("testout", d)>>)
      /\ Plan(<<Do("testin", d), Do("testout", d), Do("halt", d)>>)
      /\ Plan(<<Do("clrin", d)>>) /\ Plan(<<Do("clrout", d)>>)
      /\ Plan(<<Do("reset", d), Do("run", d)>>)
      /\ Plan(<<Do("cancel", d), Do("join", d)>>)
  BY UsedType, UnfoldedPlans
<1>1. CASE todo' = Tail(todo)
  BY <1>1, StepDone, Unfolding
<1>2. ASSUME NEW s \in Seq(Todo), NEW op, NEW last,
             todo' = s \o Tail(todo), At(op, d), Plan(s), s # <<>>,
             s[Len(s)] = Do(last, d), last # "cancel",
             \A y : Follows(Do(op, d), y) => Follows(Do(last, d), y),
             op \in Resetting => \A j \in 1..Len(s) : s[j].op \in Resetting /\ s[j].dev = d
      PROVE  Plan(todo')
  <2>1. todo \in Seq(Todo) /\ todo # <<>> /\ Len(todo) \in Nat \ {0} /\ todo[1] = Do(op, d)
    BY <1>2, EmptySeq, LenProperties, HeadTailProperties DEF TypeOK, At
  <2>2. Len(todo) > 1 => Follows(s[Len(s)], todo[2])
    <3> SUFFICES ASSUME Len(todo) > 1 PROVE Follows(s[Len(s)], todo[2])
      OBVIOUS
    <3>1. 1 \in 1..(Len(todo) - 1)
      BY <2>1
    <3>2. Follows(todo[1], todo[1 + 1])
      BY <3>1 DEF Plan
    <3> QED
      BY <1>2, <2>1, <3>2
  <2>3. ASSUME NEW i \in 2..Len(todo), todo[i].op = "run", NEW j \in 1..Len(s)
        PROVE  s[j].op \in Resetting /\ s[j].dev = todo[i].dev
    <3>1. i \in 1..Len(todo) /\ 1 \in 1..(i - 1)
      BY <2>1
    <3>2. todo[1].op \in Resetting /\ todo[1].dev = todo[i].dev
      BY <2>3, <3>1 DEF Plan
    <3>3. todo[1].op = op /\ todo[1].dev = d
      BY <2>1, DoFields
    <3>4. \A k \in 1..Len(s) : s[k].op \in Resetting /\ s[k].dev = d
      BY <1>2, <3>2, <3>3
    <3> QED
      BY <3>2, <3>3, <3>4
  <2>4. s[Len(s)].op # "cancel"
    BY <1>2, DoFields
  <2>5. Plan(s \o Tail(todo))
    BY <1>2, <2>1, <2>2, <2>3, <2>4, PlanUnfold
  <2> QED
    BY <1>2, <2>5
<1>3. ASSUME NEW s \in Seq(Todo), todo' = s \o Tail(todo), At("reset", d),
             s = <<Do("testin", d), Do("testout", d)>>
      PROVE  Plan(todo')
  <2>1. /\ Len(s) = 2 /\ s[1] = Do("testin", d) /\ s[2] = Do("testout", d) /\ s # <<>>
        /\ \A j \in 1..Len(s) : j \in {1, 2}
    BY <1>3
  <2>2. Plan(s)
    BY <1>0, <1>3
  <2>4. \A y : Follows(Do("reset", d), y) => Follows(Do("testout", d), y)
    BY DoFields DEF Follows
  <2>3. \A j \in 1..Len(s) : s[j].op \in Resetting /\ s[j].dev = d
    BY <2>1, DoFields DEF Resetting
  <2> QED
    BY <1>2, <1>3, <2>1, <2>2, <2>3, <2>4
<1>4. ASSUME NEW s \in Seq(Todo), todo' = s \o Tail(todo), At("stop", d),
             s = <<Do("testin", d), Do("testout", d), Do("halt", d)>>
      PROVE  Plan(todo')
  <2>1. Len(s) = 3 /\ s[3] = Do("halt", d) /\ s # <<>>
    BY <1>4
  <2>2. Plan(s)
    BY <1>0, <1>4
  <2>4. \A y : Follows(Do("stop", d), y) => Follows(Do("halt", d), y)
    BY DoFields DEF Follows
  <2> QED
    BY <1>2, <1>4, <2>1, <2>2, <2>4 DEF Resetting
<1>5. ASSUME NEW s \in Seq(Todo), todo' = s \o Tail(todo), At("testin", d),
             s = <<Do("clrin", d)>>
      PROVE  Plan(todo')
  <2>1. Len(s) = 1 /\ s[1] = Do("clrin", d) /\ s # <<>> /\ \A j \in 1..Len(s) : j = 1
    BY <1>5
  <2>2. Plan(s)
    BY <1>0, <1>5
  <2>4. \A y : Follows(Do("testin", d), y) => Follows(Do("clrin", d), y)
    BY DoFields DEF Follows
  <2>3. \A j \in 1..Len(s) : s[j].op \in Resetting /\ s[j].dev = d
    BY <2>1, DoFields DEF Resetting
  <2> QED
    BY <1>2, <1>5, <2>1, <2>2, <2>3, <2>4
<1>6. ASSUME NEW s \in Seq(Todo), todo' = s \o Tail(todo), At("testout", d),
             s = <<Do("clrout", d)>>
      PROVE  Plan(todo')
  <2>1. Len(s) = 1 /\ s[1] = Do("clrout", d) /\ s # <<>> /\ \A j \in 1..Len(s) : j = 1
    BY <1>6
  <2>2. Plan(s)
    BY <1>0, <1>6
  <2>4. \A y : Follows(Do("testout", d), y) => Follows(Do("clrout", d), y)
    BY DoFields DEF Follows
  <2>3. \A j \in 1..Len(s) : s[j].op \in Resetting /\ s[j].dev = d
    BY <2>1, DoFields DEF Resetting
  <2> QED
    BY <1>2, <1>6, <2>1, <2>2, <2>3, <2>4
<1>7. ASSUME NEW s \in Seq(Todo), todo' = s \o Tail(todo), At("start", d),
             s = <<Do("reset", d), Do("run", d)>>
      PROVE  Plan(todo')
  <2>1. Len(s) = 2 /\ s[2] = Do("run", d) /\ s # <<>>
    BY <1>7
  <2>2. Plan(s)
    BY <1>0, <1>7
  <2>4. \A y : Follows(Do("start", d), y) => Follows(Do("run", d), y)
    BY DoFields DEF Follows
  <2> QED
    BY <1>2, <1>7, <2>1, <2>2, <2>4 DEF Resetting
<1>8. ASSUME NEW s \in Seq(Todo), todo' = s \o Tail(todo), At("halt", d),
             s = <<Do("cancel", d), Do("join", d)>>
      PROVE  Plan(todo')
  <2>1. Len(s) = 2 /\ s[2] = Do("join", d) /\ s # <<>>
    BY <1>8
  <2>2. Plan(s)
    BY <1>0, <1>8
  <2>4. \A y : Follows(Do("halt", d), y) => Follows(Do("join", d), y)
    BY DoFields DEF Follows
  <2> QED
    BY <1>2, <1>8, <2>1, <2>2, <2>4 DEF Resetting
<1> QED
  BY <1>1, <1>3, <1>4, <1>5, <1>6, <1>7, <1>8, Unfolding
LEMMA AtUnique ==
  \A op1, op2, d1, d2 : At(op1, d1) /\ At(op2, d2) => op1 = op2 /\ d1 = d2
  BY DoFields DEF At

\* Where the application can get to by a step.
LEMMA NextStep ==
  ASSUME TypeOK, Plan(todo), NEW d \in Used, Proceed(d) \/ Locking(d), NEW e \in Device
  PROVE  /\ At("join", e)'   => At("cancel", e)
         /\ At("halt", e)'   => At("testout", e) \/ At("clrout", e)
         /\ At("alloc", e)'  => At("halt", e) \/ At("join", e)
         /\ At("clrout", e)' => At("testout", e)
         /\ At("cancel", e)' => At("halt", e)
<1> DEFINE Goal ==
             /\ At("join", e)'   => At("cancel", e)
             /\ At("halt", e)'   => At("testout", e) \/ At("clrout", e)
             /\ At("alloc", e)'  => At("halt", e) \/ At("join", e)
             /\ At("clrout", e)' => At("testout", e)
             /\ At("cancel", e)' => At("halt", e)
<1>1. CASE todo' = Tail(todo)
  <2>1. At("stop", e) => ResetDevice(e)
    BY Unfolding, AtUnique
    DEF Proceed, Locking, ResetDevice, Flush, TestState, StartDevice, RunThread, StopDevice,
        JoinThread, Allocate, ClrInputSignals, ClrOutputSignals, CancelThread
  <2>2. At("stop", e) => ~At("alloc", e)'
    <3> SUFFICES ASSUME At("stop", e) PROVE ~At("alloc", e)'
      OBVIOUS
    <3> DEFINE s == <<Do("testin", e), Do("testout", e), Do("halt", e)>>
    <3>1. todo' = s \o Tail(todo)
      BY <2>1, AtUnique DEF ResetDevice
    <3>2. s \in Seq(Todo) /\ s # <<>> /\ s[1] = Do("testin", e)
      BY DoType DEF Op
    <3>3. s[1] # Do("alloc", e)
      BY <3>2, DoFields
    <3> HIDE DEF s
    <3> QED
      BY <3>1, <3>2, <3>3, StepUnfolds DEF At
  <2> QED
    BY <1>1, <2>2, StepDone, Unfolding
<1>2. ASSUME NEW s \in Seq(Todo), todo' = s \o Tail(todo), s # <<>>,
             NEW first, s[1] = Do(first, d)
      PROVE  \A op : At(op, e)' => op = first /\ e = d
  <2>1. \A op : At(op, e)' => Do(op, e) = Do(first, d)
    BY <1>2, Unfolding, StepUnfolds
  <2> QED
    BY <2>1, DoFields
<1>3. ASSUME NEW s \in Seq(Todo), todo' = s \o Tail(todo), At("reset", d),
             s = <<Do("testin", d), Do("testout", d)>>
      PROVE  Goal
  <2>1. s # <<>> /\ s[1] = Do("testin", d)
    BY <1>3
  <2>2. \A op : At(op, e)' => op = "testin" /\ e = d
    BY <1>2, <1>3, <2>1
  <2> QED
    BY <1>3, <2>2
<1>4. ASSUME NEW s \in Seq(Todo), todo' = s \o Tail(todo), At("stop", d),
             s = <<Do("testin", d), Do("testout", d), Do("halt", d)>>
      PROVE  Goal
  <2>1. s # <<>> /\ s[1] = Do("testin", d)
    BY <1>4
  <2>2. \A op : At(op, e)' => op = "testin" /\ e = d
    BY <1>2, <1>4, <2>1
  <2> QED
    BY <1>4, <2>2
<1>5. ASSUME NEW s \in Seq(Todo), todo' = s \o Tail(todo), At("start", d),
             s = <<Do("reset", d), Do("run", d)>>
      PROVE  Goal
  <2>1. s # <<>> /\ s[1] = Do("reset", d)
    BY <1>5
  <2>2. \A op : At(op, e)' => op = "reset" /\ e = d
    BY <1>2, <1>5, <2>1
  <2> QED
    BY <1>5, <2>2
<1>6. ASSUME NEW s \in Seq(Todo), todo' = s \o Tail(todo), At("halt", d),
             s = <<Do("cancel", d), Do("join", d)>>
      PROVE  Goal
  <2>1. s # <<>> /\ s[1] = Do("cancel", d)
    BY <1>6
  <2>2. \A op : At(op, e)' => op = "cancel" /\ e = d
    BY <1>2, <1>6, <2>1
  <2> QED
    BY <1>6, <2>2
<1>7. ASSUME NEW s \in Seq(Todo), todo' = s \o Tail(todo), At("testin", d),
             s = <<Do("clrin", d)>>
      PROVE  Goal
  <2>1. s # <<>> /\ s[1] = Do("clrin", d)
    BY <1>7
  <2>2. \A op : At(op, e)' => op = "clrin" /\ e = d
    BY <1>2, <1>7, <2>1
  <2> QED
    BY <1>7, <2>2
<1>8. ASSUME NEW s \in Seq(Todo), todo' = s \o Tail(todo), At("testout", d),
             s = <<Do("clrout", d)>>
      PROVE  Goal
  <2>1. s # <<>> /\ s[1] = Do("clrout", d)
    BY <1>8
  <2>2. \A op : At(op, e)' => op = "clrout" /\ e = d
    BY <1>2, <1>8, <2>1
  <2> QED
    BY <1>8, <2>2
<1> HIDE DEF Goal
<1> HIDE DEF Goal
<1>9. ASSUME todo' # Tail(todo) PROVE Goal
  <2>1. PICK s \in Seq(Todo) :
              /\ todo' = s \o Tail(todo)
              /\ \/ At("reset", d) /\ s = <<Do("testin", d), Do("testout", d)>>
                 \/ At("stop", d) /\ s = <<Do("testin", d), Do("testout", d), Do("halt", d)>>
                 \/ At("testin", d) /\ s = <<Do("clrin", d)>>
                 \/ At("testout", d) /\ s = <<Do("clrout", d)>>
                 \/ At("start", d) /\ s = <<Do("reset", d), Do("run", d)>>
                 \/ At("halt", d) /\ s = <<Do("cancel", d), Do("join", d)>>
    BY <1>9, Unfolding
  <2> QED
    BY <1>3, <1>4, <1>5, <1>6, <1>7, <1>8, <2>1
<1> QED
  BY <1>1, <1>9 DEF Goal

\* A call begins with none of the later steps.
LEMMA CallStep ==
  ASSUME TypeOK, Call
  PROVE  /\ todo = <<>>
         /\ \A i \in 1..Len(todo') : todo'[i].op # "run"
         /\ \A e : ~At("alloc", e)' /\ ~At("clrout", e)' /\ ~At("halt", e)'
                   /\ ~At("cancel", e)' /\ ~At("join", e)'
<1> DEFINE Simple(t) == \A i \in 1..Len(t) : t[i].op \in {"reset", "flush", "start", "stop"}
<1>1. todo = <<>>
  BY DEF Call, Start, Stop, Reset, Configure, Begin, ReadInput, WriteOutputSync,
         WriteOutputAsync, WriteSignal
<1>2. ASSUME NEW t \in Seq(Todo), todo' = t, Simple(t)
      PROVE  /\ \A i \in 1..Len(todo') : todo'[i].op # "run"
             /\ \A e : ~At("alloc", e)' /\ ~At("clrout", e)' /\ ~At("halt", e)'
                       /\ ~At("cancel", e)' /\ ~At("join", e)'
  <2>1. t # <<>> => Head(t) = t[1] /\ 1 \in 1..Len(t)
    BY EmptySeq, LenProperties, HeadTailProperties
  <2> QED
    BY <1>2, <2>1, DoFields DEF At
<1>3. ASSUME NEW d \in Used, Configure(d)
      PROVE  /\ \A i \in 1..Len(todo') : todo'[i].op # "run"
             /\ \A e : ~At("alloc", e)' /\ ~At("clrout", e)' /\ ~At("halt", e)'
                       /\ ~At("cancel", e)' /\ ~At("join", e)'
  <2> DEFINE t == <<Do("stop", d), Do("stop", d), Do("alloc", d)>>
  <2>1. /\ Len(t) = 3 /\ t[1] = Do("stop", d) /\ t[2] = Do("stop", d) /\ t[3] = Do("alloc", d)
        /\ t # <<>> /\ Head(t) = Do("stop", d)
    OBVIOUS
  <2>2. todo' = t
    BY <1>3 DEF Configure, Begin
  <2> HIDE DEF t
  <2>3. \A i \in 1..Len(t) : i \in {1, 2, 3}
    BY <2>1
  <2>4. \A i \in 1..Len(t) : t[i].op # "run"
    BY <2>1, <2>3, DoFields
  <2>5. \A e, op : At(op, e)' => op = "stop"
    BY <2>1, <2>2, DoFields DEF At
  <2> QED
    BY <2>2, <2>4, <2>5
<1>4. CASE UNCHANGED todo
  BY <1>1, <1>4 DEF At
<1>5. CASE Start
  BY <1>2, <1>5, CallOps DEF Start, Begin
<1>6. CASE Stop
  BY <1>2, <1>6, CallOps DEF Stop, Begin
<1>7. CASE Reset
  BY <1>2, <1>7, CallOps DEF Reset, Begin
<1> QED
  BY <1>1, <1>3, <1>4, <1>5, <1>6, <1>7
  DEF Call, ReadInput, WriteOutputSync, WriteOutputAsync, WriteSignal

LEMMA ThreadCall ==
  ASSUME TypeOK, Call, NEW e \in Device, ThreadInv(e)
  PROVE  ThreadInv(e)'
<1>1. /\ UNCHANGED <<mMutex, pc, mState, mCancelRequest>>
      /\ \A op : ~At(op, e)
  BY CallStep
  DEF Call, Start, Stop, Reset, Configure, Begin, ReadInput, WriteOutputSync,
      WriteOutputAsync, WriteSignal, At
<1> QED
  BY <1>1, CallStep DEF ThreadInv, Started

LEMMA ThreadCycle ==
  ASSUME TypeOK, NEW d \in Used, Cycle(d), NEW e \in Device, ThreadInv(e)
  PROVE  ThreadInv(e)'
<1>0. d \in Device
  BY UsedType
<1>1. UNCHANGED <<todo, mCancelRequest>>
  BY DEF Cycle, CycleBegin, StartEdges, BeginInputs, Sense, Push, WriteLevels, SettleLevels,
         CycleEnd
<1>2. CASE e # d
  <2>1. mMutex'[e] = mMutex[e] /\ pc'[e] = pc[e] /\ mState'[e] = mState[e]
    BY <1>0, <1>2
    DEF Cycle, CycleBegin, StartEdges, BeginInputs, Sense, Push, WriteLevels, SettleLevels,
        CycleEnd, TypeOK
  <2> QED
    BY <1>1, <2>1 DEF ThreadInv, At, Started
<1>3. CASE e = d
  <2>0. ~(At("clrout", d) /\ At("join", d))
    BY AtUnique
  <2> USE <1>0, <1>1, <1>3 DEF ThreadInv, At, Started, Busy, TypeOK
  <2>1. CASE CycleBegin(d)
    BY <2>1 DEF CycleBegin
  <2>2. CASE StartEdges(d)
    BY <2>2 DEF StartEdges
  <2>3. CASE BeginInputs(d)
    BY <2>3 DEF BeginInputs
  <2>4. CASE Sense(d)
    BY <2>4 DEF Sense
  <2>5. CASE Push(d)
    BY <2>5 DEF Push
  <2>6. CASE WriteLevels(d)
    BY <2>6 DEF WriteLevels
  <2>7. CASE SettleLevels(d)
    BY <2>7 DEF SettleLevels
  <2>8. CASE CycleEnd(d)
    BY <2>0, <2>8 DEF CycleEnd
  <2> QED
    BY <2>1, <2>2, <2>3, <2>4, <2>5, <2>6, <2>7, <2>8 DEF Cycle
<1> QED
  BY <1>2, <1>3
\* A step is done or unfolded by the application alone.
LEMMA Operation ==
  ASSUME NEW d, Proceed(d) \/ Locking(d)
  PROVE  \E op \in Op : At(op, d)
BY DEF Proceed, Locking, ResetDevice, Flush, TestState, StartDevice, RunThread, StopDevice,
       JoinThread, Allocate, ClrInputSignals, ClrOutputSignals, CancelThread, At, Op

LEMMA ThreadProceed ==
  ASSUME TypeOK, ControlInv, NEW d \in Used, Proceed(d) \/ Locking(d), NEW e \in Device
  PROVE  ThreadInv(e)'
<1>0. d \in Device /\ todo # <<>> /\ ThreadInv(e)
  BY UsedType DEF ControlInv, Proceed, Locking, ResetDevice, Flush, TestState, StartDevice,
     RunThread, StopDevice, JoinThread, Allocate, ClrInputSignals, ClrOutputSignals,
     CancelThread, At
<1>1. PICK op \in Op : At(op, d)
  BY Operation
<1>2. /\ At("alloc", e)'  => At("halt", e) \/ At("join", e)
      /\ At("clrout", e)' => At("testout", e)
  BY NextStep DEF ControlInv
<1>3. CASE e # d
  <2>1. \A x : ~At(x, e)
    BY <1>1, <1>3, AtUnique
  <2>2. ~At("alloc", e)' /\ ~At("clrout", e)'
    BY <1>2, <2>1
  <2>3. mMutex'[e] = mMutex[e] /\ pc'[e] = pc[e] /\ mState'[e] = mState[e]
    BY <1>0, <1>3
    DEF Proceed, Locking, ResetDevice, Flush, TestState, StartDevice, RunThread, StopDevice,
        JoinThread, Allocate, ClrInputSignals, ClrOutputSignals, CancelThread, TypeOK
  <2>4. mCancelRequest'[e] = mCancelRequest[e]
    BY <1>0, <1>3
    DEF Proceed, Locking, ResetDevice, Flush, TestState, StartDevice, RunThread, StopDevice,
        JoinThread, Allocate, ClrInputSignals, ClrOutputSignals, CancelThread, TypeOK
  <2> QED
    BY <1>0, <2>1, <2>2, <2>3, <2>4 DEF ThreadInv
<1>4. ASSUME e = d, ~At("join", d), UNCHANGED <<mMutex, pc, mState, mCancelRequest>>,
             ~At("halt", d), ~At("testout", d)
      PROVE  ThreadInv(e)'
  BY <1>0, <1>2, <1>4 DEF ThreadInv
<1>5. ASSUME e = d, ResetDevice(d) \/ Flush(d) \/ Allocate(d) \/ ClrInputSignals(d) \/ ClrOutputSignals(d)
      PROVE  ThreadInv(e)'
  <2>1. UNCHANGED <<mMutex, pc, mState, mCancelRequest>>
    BY <1>5 DEF ResetDevice, Flush, Allocate, ClrInputSignals, ClrOutputSignals
  <2>2. ~At("join", d) /\ ~At("halt", d) /\ ~At("testout", d)
    BY <1>5, AtUnique DEF ResetDevice, Flush, Allocate, ClrInputSignals, ClrOutputSignals
  <2> QED
    BY <1>4, <1>5, <2>1, <2>2
<1>6. ASSUME e = d, TestState(d) PROVE ThreadInv(e)'
  <2>1. UNCHANGED <<mMutex, pc, mState, mCancelRequest>>
    BY <1>6 DEF TestState
  <2>2. ~At("join", d) /\ ~At("halt", d)
    BY <1>6, AtUnique DEF TestState
  <2>3. At("clrout", d)' => mState[d] = "Up"
    <3> SUFFICES ASSUME At("clrout", d)', mState[d] # "Up" PROVE FALSE
      OBVIOUS
    <3>1. todo' = Tail(todo)
      BY <1>6 DEF TestState
    <3> QED
      BY <1>0, <3>1, StepDone DEF ControlInv
  <2> QED
    BY <1>0, <1>2, <1>6, <2>1, <2>2, <2>3 DEF ThreadInv, Started
<1>7. ASSUME e = d, StartDevice(d) PROVE ThreadInv(e)'
  <2>1. ~At("join", d) /\ ~At("halt", d) /\ ~At("testout", d)
    BY <1>7, AtUnique DEF StartDevice
  <2>2. UNCHANGED <<mMutex, pc, mCancelRequest>>
    BY <1>7 DEF StartDevice
  <2>3. mState'[d] = mState[d] \/ (mState[d] = "Down" /\ mState'[d] = "Up")
    BY <1>0, <1>7 DEF StartDevice, TypeOK
  <2> QED
    BY <1>0, <1>2, <1>7, <2>1, <2>2, <2>3 DEF ThreadInv
<1>8. ASSUME e = d, RunThread(d) PROVE ThreadInv(e)'
  <2>1. ~At("join", d) /\ ~At("halt", d) /\ ~At("testout", d)
    BY <1>8, AtUnique DEF RunThread
  <2>2. pc[d] = "none" /\ mState[d] = "Up"
    <3>1. 1 \in 1..Len(todo) /\ todo[1].op = "run" /\ todo[1].dev = d
      <4>1. Len(todo) \in Nat \ {0} /\ Head(todo) = todo[1]
        BY <1>0, EmptySeq, LenProperties, HeadTailProperties DEF TypeOK
      <4> QED
        BY <1>8, <4>1, DoFields DEF RunThread, At
    <3> QED
      BY <3>1 DEF ControlInv, StartInv, Startable
  <2>3. mMutex' = mMutex
    BY <1>8 DEF RunThread
  <2>4. CASE Threaded(d)
    <3>1. mState'[d] = "StartUp" /\ mCancelRequest'[d] = FALSE /\ pc'[d] = "sleep"
      BY <1>0, <1>8, <2>4 DEF RunThread, TypeOK
    <3> QED
      BY <1>0, <1>2, <1>8, <2>1, <2>2, <2>3, <2>4, <3>1 DEF ThreadInv, Busy, Threaded
  <2>5. CASE ~Threaded(d)
    <3>1. UNCHANGED <<mState, mCancelRequest, pc>>
      BY <1>8, <2>5 DEF RunThread
    <3> QED
      BY <1>0, <1>4, <1>8, <2>1, <2>3, <3>1
  <2> QED
    BY <2>4, <2>5
<1>9. ASSUME e = d, StopDevice(d) PROVE ThreadInv(e)'
  <2>1. ~At("join", d) /\ ~At("testout", d)
    BY <1>9, AtUnique DEF StopDevice
  <2>2. UNCHANGED <<mMutex, pc, mCancelRequest>>
    BY <1>9 DEF StopDevice
  <2>3. CASE Started(d) /\ Threaded(d)
    <3>1. mState' = mState /\ todo' = <<Do("cancel", d), Do("join", d)>> \o Tail(todo)
      BY <1>9, <2>3 DEF StopDevice
    <3>2. ~At("alloc", d)'
      <4> DEFINE s == <<Do("cancel", d), Do("join", d)>>
      <4>1. s \in Seq(Todo) /\ s # <<>> /\ s[1] = Do("cancel", d)
        BY <1>0, DoType DEF Op
      <4>2. s[1] # Do("alloc", d)
        BY <4>1, DoFields
      <4>3. todo' = s \o Tail(todo)
        BY <3>1
      <4> HIDE DEF s
      <4> QED
        BY <1>0, <4>1, <4>2, <4>3, StepUnfolds
    <3> QED
      BY <1>0, <1>2, <1>9, <2>1, <2>2, <3>1, <3>2 DEF ThreadInv
  <2>4. CASE ~(Started(d) /\ Threaded(d))
    <3>1. mState'[d] = IF Started(d) THEN "Down" ELSE mState[d]
      BY <1>0, <1>9, <2>4 DEF StopDevice, TypeOK
    <3>2. pc[d] = "none" /\ mState[d] # "ShutDown"
      BY <1>0, <1>9, <2>1, <2>4 DEF ThreadInv, Started, TypeOK, DeviceState
    <3> QED
      BY <1>0, <1>2, <1>9, <2>1, <2>2, <3>1, <3>2 DEF ThreadInv
  <2> QED
    BY <2>3, <2>4
<1>10. ASSUME e = d, JoinThread(d) PROVE ThreadInv(e)'
  <2>1. pc[d] = "exit" /\ pc'[d] = "none" /\ mState'[d] = "Down" /\ mMutex' = mMutex
    BY <1>0, <1>10 DEF JoinThread, TypeOK
  <2>2. ~At("testout", d)
    BY <1>10, AtUnique DEF JoinThread
  <2> QED
    BY <1>0, <1>2, <1>10, <2>1, <2>2 DEF ThreadInv, Busy
<1>11. ASSUME e = d, CancelThread(d) PROVE ThreadInv(e)'
  <2>1. ~At("join", d) /\ ~At("halt", d) /\ ~At("testout", d)
    BY <1>11, AtUnique DEF CancelThread
  <2>2. UNCHANGED <<mMutex, pc, mState>>
    BY <1>11 DEF CancelThread
  <2>3. At("join", d)'
    BY <1>0, <1>11, StepDone DEF CancelThread, ControlInv
  <2> QED
    BY <1>0, <1>2, <1>11, <2>1, <2>2, <2>3 DEF ThreadInv
<1> QED
  BY <1>3, <1>5, <1>6, <1>7, <1>8, <1>9, <1>10, <1>11 DEF Proceed, Locking

\* Where the creation of a thread is planned.
LEMMA Runs ==
  ASSUME TypeOK, Plan(todo), NEW d \in Used, Proceed(d) \/ Locking(d),
         NEW i \in 1..Len(todo'), todo'[i].op = "run"
  PROVE  /\ todo'[i].dev = d
         /\ \/ StartDevice(d) /\ mState[d] = "Down" /\ At("reset", d)'
            \/ /\ \E op \in Resetting : At(op, d)
               /\ \E k \in 1..Len(todo) : todo[k].op = "run" /\ todo[k].dev = d
<1>1. /\ todo # <<>> /\ d \in Device /\ Len(todo) \in Nat \ {0} /\ Head(todo) = todo[1]
      /\ Tail(todo) \in Seq(Todo) /\ Len(Tail(todo)) = Len(todo) - 1
      /\ \A j \in 1..Len(Tail(todo)) : Tail(todo)[j] = todo[j + 1]
  BY Unfolding, EmptySeq, LenProperties, HeadTailProperties DEF TypeOK
<1>2. PICK op \in Op : At(op, d)
  BY Operation
<1>3. todo[1].op = op /\ todo[1].dev = d
  BY <1>1, <1>2, DoFields DEF At
<1>4. ASSUME NEW k \in 2..Len(todo), todo[k] = todo'[i]
      PROVE  /\ todo'[i].dev = d
             /\ \E x \in Resetting : At(x, d)
             /\ \E n \in 1..Len(todo) : todo[n].op = "run" /\ todo[n].dev = d
  <2>1. k \in 1..Len(todo) /\ 1 \in 1..(k - 1) /\ todo[k].op = "run"
    BY <1>1, <1>4
  <2>2. todo[1].op \in Resetting /\ todo[1].dev = todo[k].dev
    BY <2>1 DEF Plan
  <2> QED
    BY <1>2, <1>3, <1>4, <2>1, <2>2
<1>5. CASE todo' = Tail(todo)
  <2>1. i + 1 \in 2..Len(todo) /\ todo[i + 1] = todo'[i]
    BY <1>1, <1>5
  <2> QED
    BY <1>4, <2>1
<1>6. ASSUME NEW s \in Seq(Todo), todo' = s \o Tail(todo), i > Len(s)
      PROVE  \E k \in 2..Len(todo) : todo[k] = todo'[i]
  <2>1. /\ Len(s) \in Nat /\ Len(todo') = Len(s) + Len(Tail(todo))
        /\ \A j \in 1..(Len(s) + Len(Tail(todo))) :
              todo'[j] = IF j <= Len(s) THEN s[j] ELSE Tail(todo)[j - Len(s)]
    BY <1>1, <1>6, ConcatProperties, LenProperties
  <2>2. todo'[i] = Tail(todo)[i - Len(s)] /\ i - Len(s) \in 1..Len(Tail(todo))
    BY <1>1, <1>6, <2>1
  <2>3. (i - Len(s)) + 1 \in 2..Len(todo) /\ todo[(i - Len(s)) + 1] = todo'[i]
    BY <1>1, <2>1, <2>2
  <2> QED
    BY <2>3
<1>7. ASSUME NEW s \in Seq(Todo), todo' = s \o Tail(todo), i <= Len(s)
      PROVE  i \in 1..Len(s) /\ s[i].op = "run"
  <2>1. /\ Len(s) \in Nat /\ Len(todo') = Len(s) + Len(Tail(todo))
        /\ \A j \in 1..(Len(s) + Len(Tail(todo))) :
              todo'[j] = IF j <= Len(s) THEN s[j] ELSE Tail(todo)[j - Len(s)]
    BY <1>1, <1>7, ConcatProperties, LenProperties
  <2> QED
    BY <1>1, <1>7, <2>1
<1>8. ASSUME todo' # Tail(todo)
      PROVE  \/ \E k \in 2..Len(todo) : todo[k] = todo'[i]
             \/ todo'[i].dev = d /\ StartDevice(d) /\ mState[d] = "Down" /\ At("reset", d)'
  <2>1. PICK s \in Seq(Todo) :
              /\ todo' = s \o Tail(todo)
              /\ \/ At("reset", d) /\ s = <<Do("testin", d), Do("testout", d)>>
                 \/ At("stop", d) /\ s = <<Do("testin", d), Do("testout", d), Do("halt", d)>>
                 \/ At("testin", d) /\ s = <<Do("clrin", d)>>
                 \/ At("testout", d) /\ s = <<Do("clrout", d)>>
                 \/ At("start", d) /\ s = <<Do("reset", d), Do("run", d)>>
                 \/ At("halt", d) /\ s = <<Do("cancel", d), Do("join", d)>>
    BY <1>8, Unfolding
  <2>2. CASE i > Len(s)
    BY <1>6, <2>1, <2>2
  <2>3. CASE i <= Len(s)
    <3>1. i \in 1..Len(s) /\ s[i].op = "run"
      BY <1>7, <2>1, <2>3
    <3>2. CASE At("start", d) /\ s = <<Do("reset", d), Do("run", d)>>
      <4>1. Len(s) = 2 /\ s[1] = Do("reset", d) /\ s[2] = Do("run", d) /\ s # <<>>
        BY <3>2
      <4>2. At("reset", d)'
        BY <1>1, <2>1, <4>1, StepUnfolds
      <4>3. StartDevice(d)
        BY <3>2, AtUnique
        DEF Proceed, Locking, ResetDevice, Flush, TestState, StartDevice, RunThread, StopDevice,
            JoinThread, Allocate, ClrInputSignals, ClrOutputSignals, CancelThread
      <4>4. mState[d] = "Down"
        BY <1>8, <4>3 DEF StartDevice
      <4>5. todo'[i].dev = d
        <5>1. i \in {1, 2}
          BY <3>1, <4>1
        <5>2. todo'[i] = s[i]
          BY <1>1, <2>1, <3>1, ConcatProperties
        <5> QED
          BY <4>1, <5>1, <5>2, DoFields
      <4> QED
        BY <4>2, <4>3, <4>4, <4>5
    <3>3. ASSUME NEW x, NEW y, NEW z, s = <<Do(x, d)>> \/ s = <<Do(x, d), Do(y, d)>> \/ s = <<Do(x, d), Do(y, d), Do(z, d)>>,
                 x # "run", y # "run", z # "run"
          PROVE  FALSE
      <4>1. s[i] \in {Do(x, d), Do(y, d), Do(z, d)}
        BY <3>1, <3>3
      <4> QED
        BY <3>1, <3>3, <4>1, DoFields
    <3> QED
      BY <2>1, <3>2, <3>3
  <2> QED
    BY <1>1, <2>2, <2>3, LenProperties
<1> QED
  BY <1>4, <1>5, <1>8
LEMMA StartProceed ==
  ASSUME TypeOK, ControlInv, NEW d \in Used, Proceed(d) \/ Locking(d)
  PROVE  StartInv'
<1> SUFFICES ASSUME NEW i \in 1..Len(todo'), todo'[i].op = "run"
             PROVE  Startable(todo[i].dev)'
  BY DEF StartInv
<1>0. d \in Device
  BY UsedType
<1>1. Plan(todo) /\ ThreadInv(d)
  BY <1>0 DEF ControlInv
<1>2. todo'[i].dev = d
  BY <1>1, Runs
<1>3. CASE StartDevice(d) /\ mState[d] = "Down" /\ At("reset", d)'
  <2>1. pc'[d] = "none"
    BY <1>1, <1>3 DEF StartDevice, ThreadInv
  <2>2. mState'[d] = "Up"
    BY <1>0, <1>3 DEF StartDevice, Started, TypeOK
  <2> QED
    BY <1>2, <1>3, <2>1, <2>2 DEF Startable
<1>4. ASSUME NEW op \in Resetting, At(op, d),
             NEW k \in 1..Len(todo), todo[k].op = "run", todo[k].dev = d
      PROVE  pc'[d] = "none" /\ mState'[d] = "Up" /\ NoneOf(d)'
  <2>1. pc[d] = "none" /\ mState[d] = "Up" /\ (At("reset", d) \/ NoneOf(d))
    BY <1>4 DEF ControlInv, StartInv, Startable
  <2>2. ResetDevice(d) \/ TestState(d) \/ ClrInputSignals(d) \/ ClrOutputSignals(d)
    BY <1>4, AtUnique
    DEF Resetting, Proceed, Locking, ResetDevice, Flush, TestState, StartDevice, RunThread,
        StopDevice, JoinThread, Allocate, ClrInputSignals, ClrOutputSignals, CancelThread
  <2>3. UNCHANGED <<pc, mState>>
    BY <2>2 DEF ResetDevice, TestState, ClrInputSignals, ClrOutputSignals
  <2>4. CASE ResetDevice(d)
    BY <2>1, <2>3, <2>4 DEF ResetDevice, NoneOf
  <2>5. CASE ~ResetDevice(d)
    <3>1. op # "reset" => ~At("reset", d)
      BY <1>4, AtUnique
    <3>2. ~At("reset", d)
      BY <2>2, <2>5, AtUnique DEF TestState, ClrInputSignals, ClrOutputSignals
    <3>3. pInputBuffer' = pInputBuffer \/ pInputBuffer' = Resampled(d)
      BY <2>2, <2>5 DEF TestState, ClrInputSignals, ClrOutputSignals
    <3>4. /\ DOMAIN Resampled(d) = DOMAIN pInputBuffer
          /\ \A n \in DOMAIN pInputBuffer : pInputBuffer[n].dev # d => Resampled(d)[n].dev # d
      BY DEF Resampled
    <3> QED
      BY <2>1, <2>3, <3>2, <3>3, <3>4 DEF NoneOf
  <2> QED
    BY <2>4, <2>5
<1> QED
  BY <1>1, <1>2, <1>3, <1>4, Runs DEF Startable

\* The thread of a device buffers events of this device.
LEMMA CycleBuffers ==
  ASSUME TypeOK, NEW d \in Used, Cycle(d), NEW e, e # d, NoneOf(e)
  PROVE  NoneOf(e)'
<1>1. CASE pInputBuffer' = pInputBuffer
  BY <1>1 DEF NoneOf
<1>2. CASE StartEdges(d) /\ pInputBuffer' = Resampled(d)
  <2>1. /\ DOMAIN Resampled(d) = DOMAIN pInputBuffer
        /\ \A n \in DOMAIN pInputBuffer : pInputBuffer[n].dev # e => Resampled(d)[n].dev # e
    BY DEF Resampled
  <2> QED
    BY <1>2, <2>1 DEF NoneOf
<1>3. CASE Push(d)
  <2> DEFINE x == [dev |-> d, bit |-> bit[d], pos |-> pc[d] = "rise", old |-> FALSE, past |-> FALSE]
  <2>1. pInputBuffer' = Append(pInputBuffer, x)
    BY <1>3 DEF Push
  <2>2. x \in Entry
    BY <1>3, UsedType DEF Push, TypeOK, Entry
  <2>3. /\ DOMAIN pInputBuffer' = 1..(Len(pInputBuffer) + 1) /\ Len(pInputBuffer) \in Nat
        /\ DOMAIN pInputBuffer = 1..Len(pInputBuffer)
        /\ \A n \in 1..Len(pInputBuffer) : pInputBuffer'[n] = pInputBuffer[n]
        /\ pInputBuffer'[Len(pInputBuffer) + 1] = x
    BY <2>1, <2>2, AppendProperties, LenProperties DEF TypeOK
  <2>4. x.dev = d
    OBVIOUS
  <2> HIDE DEF x
  <2> QED
    BY <2>3, <2>4 DEF NoneOf
<1> QED
  BY <1>1, <1>2, <1>3
  DEF Cycle, CycleBegin, StartEdges, BeginInputs, Sense, WriteLevels, SettleLevels, CycleEnd

LEMMA StartCycle ==
  ASSUME TypeOK, ControlInv, NEW d \in Used, Cycle(d)
  PROVE  StartInv'
<1>0. d \in Device /\ todo' = todo /\ pc[d] # "none"
  BY UsedType
  DEF Cycle, CycleBegin, StartEdges, BeginInputs, Sense, Push, WriteLevels, SettleLevels,
      CycleEnd
<1>1. ASSUME NEW e \in Device, Startable(e)
      PROVE  pc'[e] = "none" /\ mState'[e] = "Up" /\ (At("reset", e)' \/ NoneOf(e)')
  <2>1. e # d
    BY <1>0, <1>1 DEF Startable
  <2>2. pc'[e] = pc[e] /\ mState'[e] = mState[e]
    BY <1>0, <1>1, <2>1
    DEF Cycle, CycleBegin, StartEdges, BeginInputs, Sense, Push, WriteLevels, SettleLevels,
        CycleEnd, TypeOK
  <2>3. At("reset", e) => At("reset", e)'
    BY <1>0 DEF At
  <2> QED
    BY <1>1, <2>1, <2>2, <2>3, CycleBuffers DEF Startable
<1>2. \A i \in 1..Len(todo) : todo[i] \in Todo
  BY DEF TypeOK
<1>3. \A i \in 1..Len(todo) : todo[i].dev \in Device
  BY <1>2 DEF Todo
<1>4. ASSUME NEW i \in 1..Len(todo'), todo'[i].op = "run"
      PROVE  Startable(todo[i].dev)'
  <2>1. Startable(todo[i].dev) /\ todo[i].dev \in Device
    BY <1>0, <1>3, <1>4 DEF ControlInv, StartInv
  <2> QED
    BY <1>0, <1>1, <2>1 DEF Startable
<1> QED
  BY <1>4 DEF StartInv

LEMMA ControlInit == Init => ControlInv
<1> SUFFICES ASSUME Init PROVE ControlInv
  OBVIOUS
<1>1. todo = <<>> /\ Len(todo) = 0 /\ 1..Len(todo) = {} /\ \A op, d : ~At(op, d)
  BY DEF Init, At
<1>2. Plan(todo) /\ StartInv
  BY <1>1 DEF Plan, StartInv
<1>3. \A d \in Device : ThreadInv(d)
  BY <1>1 DEF Init, ThreadInv, Busy
<1> QED
  BY <1>2, <1>3 DEF ControlInv

LEMMA ControlStep == TypeOK /\ ControlInv /\ [Next]_vars => ControlInv'
<1> SUFFICES ASSUME TypeOK, ControlInv, [Next]_vars PROVE ControlInv'
  OBVIOUS
<1>1. CASE Call
  <2>1. Plan(todo') /\ \A e \in Device : ThreadInv(e)'
    BY <1>1, PlanCall, ThreadCall DEF ControlInv
  <2>2. StartInv'
    BY <1>1, CallStep DEF StartInv
  <2> QED
    BY <2>1, <2>2 DEF ControlInv
<1>2. ASSUME NEW d \in Used, Cycle(d) PROVE ControlInv'
  <2>1. todo' = todo
    BY <1>2 DEF Cycle, CycleBegin, StartEdges, BeginInputs, Sense, Push, WriteLevels,
                SettleLevels, CycleEnd
  <2> QED
    BY <1>2, <2>1, ThreadCycle, StartCycle DEF ControlInv
<1>3. ASSUME NEW d \in Used, Proceed(d) \/ Locking(d) PROVE ControlInv'
  BY <1>3, PlanProceed, ThreadProceed, StartProceed DEF ControlInv
<1>4. ASSUME UNCHANGED <<todo, mMutex, pc, mState, mCancelRequest, pInputBuffer>>
      PROVE  ControlInv'
  BY <1>4 DEF ControlInv, ThreadInv, StartInv, Startable, NoneOf, Plan, At, Started
<1> QED
  BY <1>1, <1>2, <1>3, <1>4 DEF Next, Connection, WireChange, vars

\* Where thread and application are, in every reachable state.
THEOREM ControlCorrect == Spec => [](TypeOK /\ ControlInv)
  BY TypeInit, TypeStep, ControlInit, ControlStep, PTL DEF Spec

LEMMA EmptyStep == TypeOK /\ ControlInv /\ StartsEmpty /\ [Next]_vars => StartsEmpty'
<1> SUFFICES ASSUME TypeOK, ControlInv, StartsEmpty, [Next]_vars PROVE StartsEmpty'
  OBVIOUS
<1>0. pInputBuffer \in Seq(Entry) /\ DOMAIN pInputBuffer = 1..Len(pInputBuffer) /\ Len(pInputBuffer) \in Nat
  BY LenProperties DEF TypeOK
<1>1. CASE pInputBuffer' = pInputBuffer \/ pInputBuffer' = <<>>
  BY <1>1 DEF StartsEmpty
<1>2. ASSUME NEW d, pInputBuffer' = Resampled(d) PROVE StartsEmpty'
  BY <1>2 DEF StartsEmpty, Resampled
<1>3. ASSUME NEW d \in Used, Push(d) PROVE StartsEmpty'
  <2> DEFINE x == [dev |-> d, bit |-> bit[d], pos |-> pc[d] = "rise", old |-> FALSE, past |-> FALSE]
  <2>1. pInputBuffer' = Append(pInputBuffer, x)
    BY <1>3 DEF Push
  <2>2. x \in Entry
    BY <1>3, UsedType DEF Push, TypeOK, Entry
  <2>3. /\ DOMAIN pInputBuffer' = 1..(Len(pInputBuffer) + 1)
        /\ \A n \in 1..Len(pInputBuffer) : pInputBuffer'[n] = pInputBuffer[n]
        /\ pInputBuffer'[Len(pInputBuffer) + 1] = x
    BY <1>0, <2>1, <2>2, AppendProperties
  <2>4. ~x.past
    OBVIOUS
  <2> HIDE DEF x
  <2> QED
    BY <1>0, <2>3, <2>4 DEF StartsEmpty
<1>4. CASE ReadInput
  <2>1. pInputBuffer # <<>> /\ pInputBuffer' = Tail(pInputBuffer)
    BY <1>4 DEF ReadInput
  <2>2. /\ DOMAIN pInputBuffer' = 1..(Len(pInputBuffer) - 1)
        /\ \A n \in 1..(Len(pInputBuffer) - 1) : pInputBuffer'[n] = pInputBuffer[n + 1]
    BY <1>0, <2>1, HeadTailProperties
  <2> QED
    BY <1>0, <2>2 DEF StartsEmpty
<1>5. ASSUME NEW d \in Used, RunThread(d) PROVE StartsEmpty'
  <2>1. NoneOf(d)
    <3>0. todo # <<>> /\ Len(todo) \in Nat \ {0} /\ Head(todo) = todo[1]
      BY <1>5, EmptySeq, LenProperties, HeadTailProperties DEF TypeOK, RunThread, At
    <3>1. 1 \in 1..Len(todo) /\ todo[1].op = "run" /\ todo[1].dev = d
      BY <1>5, <3>0, DoFields DEF RunThread, At
    <3>2. ~At("reset", d)
      BY <1>5, AtUnique DEF RunThread
    <3> QED
      BY <3>1, <3>2 DEF ControlInv, StartInv, Startable
  <2>2. \/ pInputBuffer' = pInputBuffer
        \/ pInputBuffer' = [i \in DOMAIN pInputBuffer |->
                               [pInputBuffer[i] EXCEPT !.past = @ \/ pInputBuffer[i].dev = d]]
    BY <1>5 DEF RunThread
  <2>3. \A y \in Entry, p \in BOOLEAN : [y EXCEPT !.past = p].past = p
    BY DEF Entry
  <2>4. \A i \in DOMAIN pInputBuffer :
           ~[pInputBuffer[i] EXCEPT !.past = @ \/ pInputBuffer[i].dev = d].past
    <3> SUFFICES ASSUME NEW i \in DOMAIN pInputBuffer
                 PROVE  ~[pInputBuffer[i] EXCEPT !.past = @ \/ pInputBuffer[i].dev = d].past
      OBVIOUS
    <3>1. pInputBuffer[i] \in Entry
      BY <1>0
    <3>2. pInputBuffer[i].dev # d /\ ~pInputBuffer[i].past
      BY <2>1 DEF StartsEmpty, NoneOf
    <3>3. pInputBuffer[i].past \in BOOLEAN
      BY <3>1 DEF Entry
    <3> QED
      BY <2>3, <3>1, <3>2, <3>3
  <2> QED
    BY <1>1, <2>2, <2>4 DEF StartsEmpty
<1>6. CASE Call
  BY <1>1, <1>4, <1>6
  DEF Call, Start, Stop, Reset, Configure, Begin, WriteOutputSync, WriteOutputAsync, WriteSignal
<1>7. ASSUME NEW d \in Used, Cycle(d) PROVE StartsEmpty'
  BY <1>1, <1>2, <1>3, <1>7
  DEF Cycle, CycleBegin, StartEdges, BeginInputs, Sense, WriteLevels, SettleLevels, CycleEnd
<1>8. ASSUME NEW d \in Used, Proceed(d) \/ Locking(d) PROVE StartsEmpty'
  BY <1>1, <1>2, <1>5, <1>8
  DEF Proceed, Locking, ResetDevice, Flush, TestState, StartDevice, StopDevice, JoinThread,
      Allocate, ClrInputSignals, ClrOutputSignals, CancelThread
<1> QED
  BY <1>1, <1>6, <1>7, <1>8 DEF Next, Connection, WireChange, vars

\* No event from before a stop is read after the next start: Start() resets the device
\* while its thread does not exist, and so does a container for each of its members.
THEOREM StartsEmptyCorrect == Spec => []StartsEmpty
<1>1. Init => StartsEmpty
  BY DEF Init, StartsEmpty
<1> QED
  BY <1>1, ControlCorrect, EmptyStep, PTL DEF Spec
------------------------------------------------------------------------------
(* Output levels. The thread sets them to zero on start up, and nobody      *)
(* writes while an application waits in Stop(): if the device is up when    *)
(* Stop() resets the outputs, they are low and stay so; if it is not, the   *)
(* cycle that brings it up again makes them low.                            *)

Marked(d)  == \A b \in OutBit(d) : rel[d][b]
Zeroed(d) == \A b \in OutBit(d) : ~line[d][b] /\ ~next[d][b] /\ ~edge[d][b] /\ rel[d][b]
Truth(d)  == \A b \in OutBit(d) : edge[d][b] \/ line[d][b] = next[d][b]
Quiet(d)  == \A b \in OutBit(d) : ~line[d][b] /\ (edge[d][b] => ~next[d][b])

Stopping(d) == At("halt", d) \/ At("cancel", d) \/ At("join", d)

OutputInv(d) ==
    SyncWrite[d] =>
        /\ pc[d] = "edges" /\ cleared[d] => Zeroed(d)
        /\ pc[d] # "none" /\ mState[d] = "Up" => Marked(d)
        /\ pc[d] # "none" /\ mState[d] = "Up" /\ cleared[d] => Truth(d)
        /\ pc[d] = "settle" => \A b \in OutBit(d) : edge[d][b] => line[d][b] = next[d][b]
        /\ Stopping(d) /\ pc[d] # "none" /\ mState[d] = "Up" /\ cleared[d] => Quiet(d)
        /\ At("join", d) /\ pc[d] \notin {"none", "sleep"} /\ cleared[d] => Quiet(d)
        /\ pc[d] = "none" /\ mState[d] = "Down" /\ cleared[d] =>
              \A b \in OutBit(d) : ~line[d][b]

LEMMA OutBits == \A d \in Device : OutBit(d) \subseteq Bit
  BY ConfigAssumption DEF OutBit

\* What another device does is of no effect.
LEMMA OutputKept ==
  ASSUME TypeOK, NEW e \in Device, OutputInv(e),
         line'[e] = line[e], next'[e] = next[e], edge'[e] = edge[e], rel'[e] = rel[e],
         pc'[e] = pc[e], mState'[e] = mState[e], cleared'[e] = cleared[e],
         Stopping(e)' => Stopping(e), At("join", e)' => At("join", e)
  PROVE  OutputInv(e)'
BY DEF OutputInv, Marked, Zeroed, Truth, Quiet

LEMMA OutputCycle ==
  ASSUME TypeOK, ControlInv, NEW d \in Used, Cycle(d), NEW e \in Device, OutputInv(e)
  PROVE  OutputInv(e)'
<1>0. d \in Device
  BY UsedType
<1>1. todo' = todo /\ \A op : At(op, e)' <=> At(op, e)
  BY DEF Cycle, CycleBegin, StartEdges, BeginInputs, Sense, Push, WriteLevels, SettleLevels,
         CycleEnd, At
<1>2. CASE e # d
  <2>1. next'[e] = next[e] /\ edge'[e] = edge[e] /\ rel'[e] = rel[e]
    BY <1>0, <1>2
    DEF Cycle, CycleBegin, StartEdges, BeginInputs, Sense, Push, WriteLevels, SettleLevels,
        CycleEnd, TypeOK, Level, image
  <2>2. line'[e] = line[e]
    BY <1>0, <1>2
    DEF Cycle, CycleBegin, StartEdges, BeginInputs, Sense, Push, WriteLevels, SettleLevels,
        CycleEnd, TypeOK, Level, hardware, Zero
  <2>3. pc'[e] = pc[e] /\ mState'[e] = mState[e] /\ cleared'[e] = cleared[e]
    BY <1>0, <1>2
    DEF Cycle, CycleBegin, StartEdges, BeginInputs, Sense, Push, WriteLevels, SettleLevels,
        CycleEnd, TypeOK
  <2> QED
    BY <1>1, <2>1, <2>2, <2>3, OutputKept DEF Stopping
<1>3. CASE e = d
  <2>0. ThreadInv(d) /\ (Stopping(d)' <=> Stopping(d))
    BY <1>0, <1>1, <1>3 DEF ControlInv, Stopping
  <2> SUFFICES ASSUME SyncWrite[d] PROVE OutputInv(d)'
    BY <1>3 DEF OutputInv
  <2> USE <1>0
  <2>1. CASE CycleBegin(d)
    <3>0. pc[d] = "sleep" /\ mState' = mState
      BY <2>1 DEF CycleBegin
    <3>1. CASE mState[d] = "StartUp" /\ ok[d]
      <4>1. pc'[d] = "edges"
        BY <2>1, <3>1 DEF CycleBegin, TypeOK
      <4>2. /\ next' = [next EXCEPT ![d] = Low] /\ edge' = [edge EXCEPT ![d] = Low]
            /\ rel' = [rel EXCEPT ![d] = [b \in Bit |-> b \in OutBit(d)]]
            /\ line' = Zero(d, rel'[d])
        BY <2>1, <3>1 DEF CycleBegin
      <4>3. next'[d] = Low /\ edge'[d] = Low /\ rel'[d] = [b \in Bit |-> b \in OutBit(d)]
        BY <4>2 DEF TypeOK, Level
      <4>4. line'[d] = [b \in Bit |-> IF rel'[d][b] THEN FALSE ELSE line[d][b]]
        BY <4>2 DEF TypeOK, Level, Zero
      <4>5. Zeroed(d)'
        BY <4>3, <4>4, OutBits DEF Zeroed, Low
      <4> QED
        BY <3>0, <3>1, <4>1, <4>5 DEF OutputInv, Zeroed, Quiet
    <3>2. CASE mState[d] = "StartUp" /\ ~ok[d]
      BY <2>1, <3>0, <3>2 DEF CycleBegin, OutputInv, TypeOK
    <3>3. CASE mState[d] # "StartUp"
      <4>1. pc'[d] = "inputs" /\ UNCHANGED <<line, image, cleared>>
        BY <2>1, <3>3 DEF CycleBegin, TypeOK
      <4>2. mState[d] = "Up"
        BY <2>0, <3>0, <3>3 DEF ThreadInv, TypeOK, DeviceState
      <4> QED
        BY <1>1, <1>3, <2>0, <3>0, <4>1, <4>2
        DEF OutputInv, Marked, Truth, Quiet, Stopping, image
    <3> QED
      BY <3>1, <3>2, <3>3
  <2>2. CASE StartEdges(d)
    <3>1. pc[d] = "edges" /\ pc'[d] = "inputs" /\ UNCHANGED <<line, image, cleared>>
      BY <2>2 DEF StartEdges, TypeOK, hardware
    <3>2. mState'[d] = mState[d] \/ (mState'[d] = "Up" /\ cleared[d])
      BY <2>2 DEF StartEdges, TypeOK
    <3>3. \A b \in OutBit(d) : line[d][b] \in BOOLEAN /\ next[d][b] \in BOOLEAN
      BY OutBits DEF TypeOK, Level
    <3>4. Zeroed(d) => Marked(d) /\ Truth(d) /\ Quiet(d)
      BY <3>3 DEF Zeroed, Marked, Truth, Quiet
    <3> QED
      BY <1>1, <1>3, <2>0, <3>1, <3>2, <3>4
      DEF OutputInv, Zeroed, Marked, Truth, Quiet, Stopping, image
  <2>3. ASSUME UNCHANGED <<line, image, cleared>>, pc[d] \notin {"none", "sleep"},
               pc'[d] \notin {"none", "edges", "settle"},
               mState'[d] = mState[d] \/ mState'[d] \in {"StartUp", "ShutDown"}
        PROVE  OutputInv(d)'
    BY <1>1, <1>3, <2>0, <2>3 DEF OutputInv, Marked, Truth, Quiet, Stopping, image
  <2>4. CASE BeginInputs(d)
    BY <2>3, <2>4 DEF BeginInputs, TypeOK, hardware
  <2>5. CASE Sense(d)
    <3>1. UNCHANGED <<line, image, cleared, mState>> /\ pc[d] = "sense"
      BY <2>5 DEF Sense, hardware
    <3>2. pc'[d] \in {"rise", "fall", "sense", "outputs"}
      BY <2>5 DEF Sense, TypeOK
    <3> QED
      BY <2>3, <3>1, <3>2
  <2>6. CASE Push(d)
    BY <2>3, <2>6 DEF Push, TypeOK, hardware
  <2>7. CASE WriteLevels(d)
    <3>0. pc[d] = "outputs" /\ UNCHANGED <<image, cleared>>
      BY <2>7 DEF WriteLevels
    <3>1. CASE mState[d] = "Up" /\ SyncWrite[d] /\ ok[d]
      <4>1. /\ pc'[d] = "settle" /\ mState' = mState
            /\ line'[d] = [b \in Bit |-> IF edge[d][b] THEN next[d][b] ELSE line[d][b]]
        BY <2>7, <3>1 DEF WriteLevels, TypeOK, Level
      <4>2. \A b \in OutBit(d) : line'[d][b] = IF edge[d][b] THEN next[d][b] ELSE line[d][b]
        BY <4>1, OutBits
      <4> QED
        BY <1>1, <1>3, <2>0, <3>0, <3>1, <4>1, <4>2
        DEF OutputInv, Marked, Truth, Quiet, Stopping, image
    <3>2. CASE ~(mState[d] = "Up" /\ SyncWrite[d] /\ ok[d])
      BY <2>3, <2>7, <3>2 DEF WriteLevels, TypeOK
    <3> QED
      BY <3>1, <3>2
  <2>8. CASE SettleLevels(d)
    <3>1. /\ pc[d] = "settle" /\ pc'[d] = "end" /\ UNCHANGED <<line, next, rel, mState, cleared>>
          /\ edge'[d] = Low
      BY <2>8 DEF SettleLevels, TypeOK, Level, hardware
    <3>2. \A b \in OutBit(d) : edge'[d][b] = FALSE
      BY <3>1, OutBits DEF Low
    <3> QED
      BY <1>1, <1>3, <2>0, <3>1, <3>2 DEF OutputInv, Marked, Truth, Quiet, Stopping
  <2>9. CASE CycleEnd(d)
    <3>1. /\ pc[d] = "end" /\ pc'[d] \in {"sleep", "exit"} /\ UNCHANGED <<line, image, cleared>>
          /\ mState'[d] = mState[d] \/ mState'[d] = "ShutDown"
      BY <2>9 DEF CycleEnd, TypeOK, hardware
    <3> QED
      BY <2>3, <3>1
  <2>10. OutputInv(d)'
    BY <2>1, <2>2, <2>4, <2>5, <2>6, <2>7, <2>8, <2>9 DEF Cycle
  <2> QED
    BY <2>10
<1> QED
  BY <1>2, <1>3

LEMMA OutputCall ==
  ASSUME TypeOK, ControlInv, Call, NEW e \in Device, OutputInv(e)
  PROVE  OutputInv(e)'
<1>1. ~Stopping(e)' /\ ~At("join", e)'
  BY CallStep DEF Stopping
<1>2. UNCHANGED <<pc, mState, cleared, rel>>
  BY DEF Call, Start, Stop, Reset, Configure, Begin, ReadInput, WriteOutputSync,
         WriteOutputAsync, WriteSignal, image
<1>3. CASE UNCHANGED <<line, next, edge>>
  BY <1>1, <1>2, <1>3, OutputKept
<1>4. ASSUME SyncWrite[e], Started(e), mMutex[e] = "free", line' = line,
             \A b \in OutBit(e) : edge'[e][b] \/ (edge'[e][b] = edge[e][b] /\ next'[e][b] = next[e][b])
      PROVE  OutputInv(e)'
  <2>1. pc[e] \notin {"edges", "settle"}
    BY <1>4 DEF ControlInv, ThreadInv, Busy
  <2>2. mState[e] # "Down"
    BY <1>4 DEF Started
  <2> QED
    BY <1>1, <1>2, <1>4, <2>1, <2>2 DEF OutputInv, Marked, Truth
<1>5. ASSUME NEW d \in Used, NEW a \in Output[d], WriteOutputSync(d, a) PROVE OutputInv(e)'
  <2>0. d \in Device
    BY UsedType
  <2>1. CASE e # d
    <3>1. line' = line /\ next'[e] = next[e] /\ edge'[e] = edge[e]
      BY <1>5, <2>0, <2>1 DEF WriteOutputSync, hardware, TypeOK, Level
    <3> QED
      BY <1>1, <1>2, <3>1, OutputKept
  <2>2. CASE e = d
    <3>1. /\ SyncWrite[d] /\ Started(d) /\ mMutex[d] = "free" /\ line' = line
          /\ next'[d] = [b \in Bit |-> IF b \notin DOMAIN a THEN next[d][b]
                                       ELSE a[b] = "Set" \/ (a[b] = "Inv" /\ ~next[d][b])]
          /\ edge'[d] = [b \in Bit |-> b \in DOMAIN a \/ edge[d][b]]
      BY <1>5, <2>0 DEF WriteOutputSync, hardware, TypeOK, Level
    <3>2. edge[d] \in [Bit -> BOOLEAN]
      BY <2>0 DEF TypeOK, Level
    <3>3. ASSUME NEW b \in OutBit(d)
          PROVE  edge'[d][b] \/ (edge'[d][b] = edge[d][b] /\ next'[d][b] = next[d][b])
      <4>1. b \in Bit
        BY <2>0, OutBits
      <4>2. CASE b \in DOMAIN a
        BY <3>1, <4>1, <4>2
      <4>3. CASE b \notin DOMAIN a
        BY <3>1, <3>2, <4>1, <4>3
      <4> QED
        BY <4>2, <4>3
    <3> QED
      BY <1>4, <2>2, <3>1, <3>3
  <2> QED
    BY <2>1, <2>2
<1>6. ASSUME NEW d \in Used, NEW a \in Output[d], WriteOutputAsync(d, a) PROVE OutputInv(e)'
  <2>0. d \in Device /\ ~SyncWrite[d]
    BY <1>6, UsedType DEF WriteOutputAsync
  <2>1. CASE e # d
    <3>1. line'[e] = line[e] /\ next'[e] = next[e] /\ edge'[e] = edge[e]
      BY <1>6, <2>0, <2>1 DEF WriteOutputAsync, image, TypeOK, Level
    <3> QED
      BY <1>1, <1>2, <3>1, OutputKept
  <2>2. CASE e = d
    BY <2>0, <2>2 DEF OutputInv
  <2> QED
    BY <2>1, <2>2
<1>7. ASSUME NEW d \in Used, NEW c \in Bit, NEW l \in BOOLEAN, WriteSignal(d, c, l)
      PROVE  OutputInv(e)'
  <2>0. d \in Device
    BY UsedType
  <2>1. CASE e # d
    <3>1. line'[e] = line[e] /\ next'[e] = next[e] /\ edge'[e] = edge[e]
      BY <1>7, <2>0, <2>1 DEF WriteSignal, TypeOK, Level
    <3> QED
      BY <1>1, <1>2, <3>1, OutputKept
  <2>2. CASE e = d /\ SyncWrite[d]
    <3>1. /\ Started(d) /\ mMutex[d] = "free" /\ line' = line
          /\ next'[d] = [next[d] EXCEPT ![c] = l] /\ edge'[d] = [edge[d] EXCEPT ![c] = TRUE]
      BY <1>7, <2>0, <2>2 DEF WriteSignal, TypeOK, Level
    <3>2. edge[d] \in [Bit -> BOOLEAN] /\ next[d] \in [Bit -> BOOLEAN]
      BY <2>0 DEF TypeOK, Level
    <3>3. \A b \in OutBit(d) :
             edge'[d][b] \/ (edge'[d][b] = edge[d][b] /\ next'[d][b] = next[d][b])
      BY <2>0, <3>1, <3>2, OutBits
    <3> QED
      BY <1>4, <2>2, <3>1, <3>3
  <2>3. CASE e = d /\ ~SyncWrite[d]
    BY <2>3 DEF OutputInv
  <2> QED
    BY <2>1, <2>2, <2>3
<1> QED
  BY <1>3, <1>5, <1>6, <1>7
  DEF Call, Start, Stop, Reset, Configure, Begin, ReadInput, image, hardware
LEMMA OutputProceed ==
  ASSUME TypeOK, ControlInv, NEW d \in Used, Proceed(d) \/ Locking(d),
         NEW e \in Device, OutputInv(e)
  PROVE  OutputInv(e)'
<1>0. d \in Device /\ Plan(todo) /\ ThreadInv(d)
  BY UsedType DEF ControlInv
<1>1. PICK op \in Op : At(op, d)
  BY Operation
<1>2. /\ At("join", e)'   => At("cancel", e)
      /\ At("halt", e)'   => At("testout", e) \/ At("clrout", e)
      /\ At("cancel", e)' => At("halt", e)
  BY <1>0, NextStep
<1>3. CASE e # d
  <2>1. \A x : ~At(x, e)
    BY <1>1, <1>3, AtUnique
  <2>2. ~Stopping(e)' /\ ~At("join", e)'
    BY <1>2, <2>1 DEF Stopping
  <2>3. next'[e] = next[e] /\ edge'[e] = edge[e] /\ rel'[e] = rel[e]
    BY <1>0, <1>3
    DEF Proceed, Locking, ResetDevice, Flush, TestState, StartDevice, RunThread, StopDevice,
        JoinThread, Allocate, ClrInputSignals, ClrOutputSignals, CancelThread, TypeOK, Level,
        image
  <2>4. line'[e] = line[e]
    <3>1. CASE ClrOutputSignals(d)
      <4>1. Zero(d, rel[d])[e] = line[e]
        BY <1>0, <1>3 DEF Zero, TypeOK, Level
      <4> QED
        BY <3>1, <4>1 DEF ClrOutputSignals
    <3>2. CASE ~ClrOutputSignals(d)
      BY <3>2
      DEF Proceed, Locking, ResetDevice, Flush, TestState, StartDevice, RunThread, StopDevice,
          JoinThread, Allocate, ClrInputSignals, CancelThread, hardware
    <3> QED
      BY <3>1, <3>2
  <2>5. pc'[e] = pc[e] /\ mState'[e] = mState[e] /\ cleared'[e] = cleared[e]
    BY <1>0, <1>3
    DEF Proceed, Locking, ResetDevice, Flush, TestState, StartDevice, RunThread, StopDevice,
        JoinThread, Allocate, ClrInputSignals, ClrOutputSignals, CancelThread, TypeOK
  <2> QED
    BY <2>2, <2>3, <2>4, <2>5, OutputKept
<1>4. CASE e = d
  <2> SUFFICES ASSUME SyncWrite[d] PROVE OutputInv(d)'
    BY <1>4 DEF OutputInv
  <2>0. Threaded(d)
    BY DEF Threaded
  <2>1. ASSUME UNCHANGED <<line, image, cleared, pc, mState>>,
               ~At("testout", d), ~At("clrout", d), ~At("halt", d), ~At("cancel", d)
        PROVE  OutputInv(d)'
    <3>1. ~Stopping(d)' /\ ~At("join", d)'
      BY <1>2, <1>4, <2>1 DEF Stopping
    <3> QED
      BY <1>4, <2>1, <3>1, OutputKept DEF image
  <2>2. CASE ResetDevice(d) \/ Flush(d) \/ ClrInputSignals(d)
    <3>1. UNCHANGED <<line, image, cleared, pc, mState>>
      BY <2>2 DEF ResetDevice, Flush, ClrInputSignals, hardware
    <3>2. ~At("testout", d) /\ ~At("clrout", d) /\ ~At("halt", d) /\ ~At("cancel", d)
      BY <2>2, AtUnique DEF ResetDevice, Flush, ClrInputSignals
    <3> QED
      BY <2>1, <3>1, <3>2
  <2>3. CASE TestState(d)
    <3>1. UNCHANGED <<line, image, cleared, pc, mState>>
      BY <2>3 DEF TestState, hardware
    <3>2. ~At("clrout", d) /\ ~At("halt", d) /\ ~At("cancel", d)
      BY <2>3, AtUnique DEF TestState
    <3>3. CASE ~At("testout", d)
      BY <2>1, <3>1, <3>2, <3>3
    <3>4. CASE At("testout", d)
      <4>1. ~At("join", d)' /\ ~At("cancel", d)'
        BY <1>2, <1>4, <3>2
      <4>2. At("halt", d)' => mState[d] # "Up" \/ Output[d] = {}
        <5> SUFFICES ASSUME mState[d] = "Up", Output[d] # {} PROVE ~At("halt", d)'
          OBVIOUS
        <5> DEFINE s == <<Do("clrout", d)>>
        <5>1. todo' = s \o Tail(todo)
          BY <2>3, <3>4, AtUnique DEF TestState
        <5>2. s \in Seq(Todo) /\ s # <<>> /\ s[1] = Do("clrout", d)
          BY <1>0, DoType DEF Op
        <5>3. s[1] # Do("halt", d)
          BY <5>2, DoFields
        <5> HIDE DEF s
        <5> QED
          BY <3>4, <5>1, <5>2, <5>3, StepUnfolds DEF At
      <4>3. Output[d] = {} => OutBit(d) = {}
        BY DEF OutBit
      <4>4. Stopping(d)' /\ mState[d] = "Up" => Quiet(d)
        BY <4>1, <4>2, <4>3 DEF Stopping, Quiet
      <4> QED
        BY <1>4, <3>1, <4>1, <4>4 DEF OutputInv, Marked, Zeroed, Truth, Quiet, image
    <3> QED
      BY <3>3, <3>4
  <2>4. CASE StartDevice(d)
    <3>1. UNCHANGED <<line, image, cleared, pc>>
      BY <2>4 DEF StartDevice, hardware
    <3>2. mState'[d] = mState[d] \/ (mState[d] = "Down" /\ mState'[d] = "Up")
      BY <1>0, <2>4 DEF StartDevice, TypeOK
    <3>3. mState[d] = "Down" => pc[d] = "none"
      BY <1>0 DEF ThreadInv
    <3>4. ~Stopping(d)' /\ ~At("join", d)'
      BY <1>2, <1>4, <2>4, AtUnique DEF StartDevice, Stopping
    <3> QED
      BY <1>4, <3>1, <3>2, <3>3, <3>4 DEF OutputInv, Marked, Zeroed, Truth, image
  <2>5. CASE RunThread(d)
    <3>1. pc'[d] = "sleep" /\ mState'[d] = "StartUp"
      BY <1>0, <2>0, <2>5 DEF RunThread, TypeOK
    <3> QED
      BY <3>1 DEF OutputInv
  <2>6. CASE StopDevice(d)
    <3>1. UNCHANGED <<line, image, cleared, pc>> /\ Stopping(d)
      BY <2>6 DEF StopDevice, hardware, Stopping
    <3>2. mState'[d] = mState[d]
      BY <1>0, <2>0, <2>6 DEF StopDevice, TypeOK
    <3>3. ~At("join", d)'
      BY <1>2, <1>4, <2>6, AtUnique DEF StopDevice
    <3> QED
      BY <1>4, <3>1, <3>2, <3>3 DEF OutputInv, Marked, Zeroed, Truth, Quiet, image
  <2>7. CASE CancelThread(d)
    <3>1. UNCHANGED <<line, image, cleared, pc, mState>> /\ Stopping(d)
      BY <2>7 DEF CancelThread, hardware, Stopping
    <3>2. pc[d] \in {"none", "sleep"}
      <4>1. ~At("join", d)
        BY <2>7, AtUnique DEF CancelThread
      <4> QED
        BY <1>0, <2>7, <4>1 DEF CancelThread, ThreadInv, TypeOK, Position
    <3> QED
      BY <1>4, <3>1, <3>2 DEF OutputInv, Marked, Zeroed, Truth, Quiet, image
  <2>8. CASE JoinThread(d)
    <3>1. /\ pc[d] = "exit" /\ pc'[d] = "none" /\ UNCHANGED <<line, image, cleared>>
          /\ At("join", d)
      BY <1>0, <2>8 DEF JoinThread, TypeOK, hardware
    <3>2. cleared[d] => Quiet(d)
      BY <1>4, <3>1 DEF OutputInv
    <3> QED
      BY <3>1, <3>2 DEF OutputInv, Quiet
  <2>9. CASE Allocate(d)
    <3>1. pc[d] = "none" /\ UNCHANGED <<line, cleared, pc, mState>>
      BY <1>0, <2>9 DEF Allocate, ThreadInv, hardware
    <3> QED
      BY <1>4, <3>1 DEF OutputInv
  <2>10. CASE ClrOutputSignals(d)
    <3>1. UNCHANGED <<pc, mState, rel>> /\ cleared'[d] = ok[d] /\ At("clrout", d)
      BY <1>0, <2>10 DEF ClrOutputSignals, TypeOK
    <3>2. pc[d] \notin {"edges", "settle"} /\ mState[d] # "Down"
      BY <1>0, <2>10, <3>1 DEF ClrOutputSignals, ThreadInv, Busy, Started
    <3>3. ~At("join", d)'
      BY <1>2, <1>4, <3>1, AtUnique
    <3>4. CASE ok[d]
      <4>1. /\ next'[d] = Low /\ edge'[d] = Low
            /\ line'[d] = [b \in Bit |-> IF rel[d][b] THEN FALSE ELSE line[d][b]]
        BY <1>0, <2>10, <3>4 DEF ClrOutputSignals, Zero, TypeOK, Level
      <4>2. Marked(d) => \A b \in OutBit(d) : ~line'[d][b] /\ next'[d][b] = FALSE /\ line'[d][b] = FALSE
        BY <1>0, <4>1, OutBits DEF Marked, Low
      <4> QED
        BY <1>4, <3>1, <3>2, <3>3, <4>2 DEF OutputInv, Marked, Truth, Quiet
    <3>5. CASE ~ok[d]
      BY <1>4, <3>1, <3>2, <3>5 DEF OutputInv, Marked
    <3> QED
      BY <3>4, <3>5
  <2>11. OutputInv(d)'
    BY <2>2, <2>3, <2>4, <2>5, <2>6, <2>7, <2>8, <2>9, <2>10 DEF Proceed, Locking
  <2> QED
    BY <2>11
<1> QED
  BY <1>3, <1>4

Outputs == \A d \in Device : OutputInv(d)

LEMMA OutputInit == Init => Outputs
  BY DEF Init, Outputs, OutputInv

LEMMA OutputStep == TypeOK /\ ControlInv /\ Outputs /\ [Next]_vars => Outputs'
<1> SUFFICES ASSUME TypeOK, ControlInv, Outputs, [Next]_vars, NEW e \in Device
             PROVE  OutputInv(e)'
  BY DEF Outputs
<1>0. OutputInv(e)
  BY DEF Outputs
<1>1. CASE Call
  BY <1>0, <1>1, OutputCall
<1>2. ASSUME NEW d \in Used, Cycle(d) PROVE OutputInv(e)'
  BY <1>0, <1>2, OutputCycle
<1>3. ASSUME NEW d \in Used, Proceed(d) \/ Locking(d) PROVE OutputInv(e)'
  BY <1>0, <1>3, OutputProceed
<1>4. ASSUME UNCHANGED <<line, next, edge, rel, cleared, pc, mState, todo>>
      PROVE  OutputInv(e)'
  BY <1>0, <1>4 DEF OutputInv, Zeroed, Marked, Truth, Quiet, Stopping, At
<1>5. ASSUME NEW d \in Used, Connection(d) \/ \E b \in InBit(d) : WireChange(d, b)
      PROVE  OutputInv(e)'
  BY <1>4, <1>5 DEF Connection, WireChange, image
<1>6. CASE UNCHANGED vars
  BY <1>4, <1>6 DEF vars
<1> QED
  BY <1>1, <1>2, <1>3, <1>5, <1>6 DEF Next

LEMMA OutputsCorrect == Spec => []Outputs
  BY OutputInit, OutputStep, ControlCorrect, PTL DEF Spec

\* A signal of a device that is up, and that is not about to be written, has the level
\* recorded for it: whoever writes, reads or resets the record holds the mutex.
THEOREM LineFollowsCorrect == Spec => []LineFollows
<1>1. Outputs => LineFollows
  BY DEF Outputs, OutputInv, Truth, LineFollows
<1> QED
  BY <1>1, OutputsCorrect, PTL

\* After Stop(), the signals of output events are low: they were set to zero by Reset()
\* or by the last start up, and nothing was written in between.
THEOREM StopLeavesLowCorrect == Spec => []StopLeavesLow
<1>1. Outputs => StopLeavesLow
  BY DEF Outputs, OutputInv, StopLeavesLow
<1> QED
  BY <1>1, OutputsCorrect, PTL
------------------------------------------------------------------------------
(* Input events.                                                           *)

Alternates(d, b, i) ==
    About(d, b, i) =>
        \/ Later(d, b, i) = {} /\ pInputBuffer[i].pos = Buffered(d, b)
        \/ \E j \in Later(d, b, i) : /\ \A k \in Later(d, b, i) : j <= k
                                     /\ pInputBuffer[j].pos # pInputBuffer[i].pos

Signal(d, b) == \A i \in DOMAIN pInputBuffer : Alternates(d, b, i)

\* What the thread is about to buffer is the level it has sampled.
Sensed(d) ==
    /\ pc[d] = "rise" => current[d][bit[d]]
    /\ pc[d] = "fall" => ~current[d][bit[d]]

EdgeInv ==
    \A d \in Device : Sensed(d) /\ \A b \in PosEdge[d] \cap NegEdge[d] : Signal(d, b)

\* The buffer stays as it is for this signal, ...
LEMMA SignalKept ==
  ASSUME NEW d, NEW b, Signal(d, b),
         Buffered(d, b)' = Buffered(d, b), DOMAIN pInputBuffer' = DOMAIN pInputBuffer,
         \A i \in DOMAIN pInputBuffer :
            /\ About(d, b, i)' <=> About(d, b, i)
            /\ pInputBuffer'[i].pos = pInputBuffer[i].pos
  PROVE  Signal(d, b)'
<1>1. \A i \in DOMAIN pInputBuffer : Later(d, b, i)' = Later(d, b, i)
  BY DEF Later
<1>2. \A i \in DOMAIN pInputBuffer : \A j \in Later(d, b, i) : j \in DOMAIN pInputBuffer
  BY DEF Later
<1>3. ASSUME NEW i \in DOMAIN pInputBuffer', About(d, b, i)'
      PROVE  \/ Later(d, b, i)' = {} /\ pInputBuffer'[i].pos = Buffered(d, b)'
             \/ \E j \in Later(d, b, i)' : /\ \A k \in Later(d, b, i)' : j <= k
                                           /\ pInputBuffer'[j].pos # pInputBuffer'[i].pos
  BY <1>1, <1>2, <1>3 DEF Signal, Alternates
<1> QED
  BY <1>3 DEF Signal, Alternates

\* ... an event is added, ...
LEMMA SignalAppend ==
  ASSUME NEW d, NEW b, Signal(d, b), pInputBuffer \in Seq(Entry), NEW x \in Entry,
         pInputBuffer' = Append(pInputBuffer, x),
         \/ (x.dev # d \/ x.bit # b) /\ Buffered(d, b)' = Buffered(d, b)
         \/ x.dev = d /\ x.bit = b /\ ~x.old /\ x.pos # Buffered(d, b) /\ x.pos = Buffered(d, b)'
  PROVE  Signal(d, b)'
<1>0. PICK n \in Nat : n = Len(pInputBuffer)
  BY LenProperties
<1>1. /\ n \in Nat /\ DOMAIN pInputBuffer = 1..n /\ DOMAIN pInputBuffer' = 1..(n + 1)
      /\ \A i \in 1..n : pInputBuffer'[i] = pInputBuffer[i]
      /\ pInputBuffer'[n + 1] = x
  BY <1>0, AppendProperties, LenProperties
<1>2. \A i \in 1..n : About(d, b, i)' <=> About(d, b, i)
  BY <1>1 DEF About
<1>3. About(d, b, n + 1)' <=> x.dev = d /\ x.bit = b /\ ~x.old
  BY <1>1 DEF About
<1>4. CASE (x.dev # d \/ x.bit # b) /\ Buffered(d, b)' = Buffered(d, b)
  <2>1. \A i \in 1..n : Later(d, b, i)' = Later(d, b, i)
    BY <1>1, <1>2, <1>3, <1>4 DEF Later
  <2>2. \A i \in 1..n : \A j \in Later(d, b, i) : j \in 1..n
    BY <1>1 DEF Later
  <2>3. ASSUME NEW i \in DOMAIN pInputBuffer', About(d, b, i)'
        PROVE  \/ Later(d, b, i)' = {} /\ pInputBuffer'[i].pos = Buffered(d, b)'
               \/ \E j \in Later(d, b, i)' : /\ \A k \in Later(d, b, i)' : j <= k
                                             /\ pInputBuffer'[j].pos # pInputBuffer'[i].pos
    <3>1. i \in 1..n /\ About(d, b, i)
      BY <1>1, <1>2, <1>3, <1>4, <2>3
    <3> QED
      BY <1>1, <1>4, <2>1, <2>2, <3>1 DEF Signal, Alternates
  <2> QED
    BY <2>3 DEF Signal, Alternates
<1>5. CASE /\ x.dev = d /\ x.bit = b /\ ~x.old
           /\ x.pos # Buffered(d, b) /\ x.pos = Buffered(d, b)'
  <2>1. \A i \in 1..n : Later(d, b, i)' = Later(d, b, i) \cup {n + 1}
    BY <1>1, <1>2, <1>3, <1>5 DEF Later
  <2>2. Later(d, b, n + 1)' = {}
    BY <1>1 DEF Later
  <2>3. ASSUME NEW i \in DOMAIN pInputBuffer', About(d, b, i)'
        PROVE  \/ Later(d, b, i)' = {} /\ pInputBuffer'[i].pos = Buffered(d, b)'
               \/ \E j \in Later(d, b, i)' : /\ \A k \in Later(d, b, i)' : j <= k
                                             /\ pInputBuffer'[j].pos # pInputBuffer'[i].pos
    <3>1. CASE i = n + 1
      BY <1>1, <1>5, <2>2, <3>1
    <3>2. CASE i # n + 1
      <4>1. i \in 1..n /\ About(d, b, i)
        BY <1>1, <1>2, <2>3, <3>2
      <4>2. CASE Later(d, b, i) = {} /\ pInputBuffer[i].pos = Buffered(d, b)
        <5>1. Later(d, b, i)' = {n + 1}
          BY <2>1, <4>1, <4>2
        <5>2. pInputBuffer'[n + 1].pos # pInputBuffer'[i].pos
          BY <1>1, <1>5, <4>1, <4>2
        <5> QED
          BY <1>1, <5>1, <5>2
      <4>3. ASSUME NEW j \in Later(d, b, i), \A k \in Later(d, b, i) : j <= k,
                   pInputBuffer[j].pos # pInputBuffer[i].pos
            PROVE  \E m \in Later(d, b, i)' : /\ \A k \in Later(d, b, i)' : m <= k
                                              /\ pInputBuffer'[m].pos # pInputBuffer'[i].pos
        <5>1. j \in 1..n
          BY <1>1 DEF Later
        <5>0. Later(d, b, i)' = Later(d, b, i) \cup {n + 1} /\ j <= n + 1
          BY <2>1, <4>1, <5>1
        <5>2. j \in Later(d, b, i)' /\ \A k \in Later(d, b, i)' : j <= k
          BY <4>3, <5>0
        <5>3. pInputBuffer'[j].pos # pInputBuffer'[i].pos
          BY <1>1, <4>1, <4>3, <5>1
        <5> QED
          BY <5>2, <5>3
      <4>4. Alternates(d, b, i)
        BY <1>1, <4>1 DEF Signal
      <4> QED
        BY <4>1, <4>2, <4>3, <4>4 DEF Alternates
    <3> QED
      BY <3>1, <3>2
  <2> QED
    BY <2>3 DEF Signal, Alternates
<1> QED
  BY <1>4, <1>5

\* ... or the first event is taken.
LEMMA SignalTail ==
  ASSUME NEW d, NEW b, Signal(d, b), pInputBuffer \in Seq(Entry), pInputBuffer # <<>>,
         pInputBuffer' = Tail(pInputBuffer), Buffered(d, b)' = Buffered(d, b)
  PROVE  Signal(d, b)'
<1> DEFINE n == Len(pInputBuffer)
<1>1. /\ n \in Nat \ {0} /\ DOMAIN pInputBuffer = 1..n /\ DOMAIN pInputBuffer' = 1..(n - 1)
      /\ \A i \in 1..(n - 1) : pInputBuffer'[i] = pInputBuffer[i + 1]
  BY HeadTailProperties, LenProperties, EmptySeq
<1> HIDE DEF n
<1>2. \A i \in 1..(n - 1) : About(d, b, i)' <=> About(d, b, i + 1)
  BY <1>1 DEF About
<1>3. ASSUME NEW i \in DOMAIN pInputBuffer', About(d, b, i)'
      PROVE  \/ Later(d, b, i)' = {} /\ pInputBuffer'[i].pos = Buffered(d, b)'
             \/ \E j \in Later(d, b, i)' : /\ \A k \in Later(d, b, i)' : j <= k
                                           /\ pInputBuffer'[j].pos # pInputBuffer'[i].pos
  <2>1. /\ i \in 1..(n - 1) /\ i + 1 \in DOMAIN pInputBuffer /\ About(d, b, i + 1)
        /\ pInputBuffer'[i] = pInputBuffer[i + 1]
    BY <1>1, <1>2, <1>3
  <2>2. \A j : j \in Later(d, b, i)' => j \in 1..(n - 1) /\ j + 1 \in Later(d, b, i + 1)
    BY <1>1, <1>2, <2>1 DEF Later
  <2>3. \A j : j \in Later(d, b, i + 1) => j \in 2..n /\ j - 1 \in Later(d, b, i)'
    <3> SUFFICES ASSUME NEW j \in Later(d, b, i + 1)
                 PROVE  j \in 2..n /\ j - 1 \in Later(d, b, i)'
      OBVIOUS
    <3>1. j \in 1..n /\ i + 1 < j /\ About(d, b, j)
      BY <1>1 DEF Later
    <3>2. j - 1 \in 1..(n - 1) /\ i < j - 1 /\ (j - 1) + 1 = j
      BY <1>1, <2>1, <3>1
    <3>3. About(d, b, j - 1)'
      BY <1>2, <3>1, <3>2
    <3> QED
      BY <1>1, <3>1, <3>2, <3>3 DEF Later
  <2>4. CASE Later(d, b, i + 1) = {} /\ pInputBuffer[i + 1].pos = Buffered(d, b)
    BY <2>1, <2>2, <2>4
  <2>5. ASSUME NEW j \in Later(d, b, i + 1), \A k \in Later(d, b, i + 1) : j <= k,
               pInputBuffer[j].pos # pInputBuffer[i + 1].pos
        PROVE  \E m \in Later(d, b, i)' : /\ \A k \in Later(d, b, i)' : m <= k
                                          /\ pInputBuffer'[m].pos # pInputBuffer'[i].pos
    <3>1. j \in 2..n /\ j - 1 \in Later(d, b, i)'
      BY <2>3
    <3>2. \A k \in Later(d, b, i)' : j - 1 <= k
      <4> SUFFICES ASSUME NEW k \in Later(d, b, i)' PROVE j - 1 <= k
        OBVIOUS
      <4>1. k \in 1..(n - 1) /\ j <= k + 1
        BY <2>2, <2>5
      <4> QED
        BY <1>1, <3>1, <4>1
    <3>3. pInputBuffer'[j - 1] = pInputBuffer[j]
      <4>1. j - 1 \in 1..(n - 1) /\ (j - 1) + 1 = j
        BY <1>1, <3>1
      <4> QED
        BY <1>1, <4>1
    <3> QED
      BY <2>1, <2>5, <3>1, <3>2, <3>3
  <2>6. Alternates(d, b, i + 1)
    BY <2>1 DEF Signal
  <2> QED
    BY <2>1, <2>4, <2>5, <2>6 DEF Alternates
<1> QED
  BY <1>3 DEF Signal, Alternates
\* When the levels of d are sampled anew, nothing in the buffer is about its edges.
LEMMA ResampledSignals ==
  ASSUME TypeOK, EdgeInv, NEW d \in Device, pInputBuffer' = Resampled(d),
         \A e \in Device : e # d => \A b : Buffered(e, b)' = Buffered(e, b)
  PROVE  \A e \in Device : \A b \in PosEdge[e] \cap NegEdge[e] : Signal(e, b)'
<1> SUFFICES ASSUME NEW e \in Device, NEW b \in PosEdge[e] \cap NegEdge[e]
             PROVE  Signal(e, b)'
  OBVIOUS
<1>0. DOMAIN pInputBuffer = 1..Len(pInputBuffer) /\ \A i \in DOMAIN pInputBuffer : pInputBuffer[i] \in Entry
  BY DEF TypeOK
<1>1. DOMAIN pInputBuffer' = DOMAIN pInputBuffer
  BY DEF Resampled
<1>2. \A x \in Entry : LET y == [x EXCEPT !.old = TRUE]
                       IN  y.dev = x.dev /\ y.bit = x.bit /\ y.pos = x.pos /\ y.old = TRUE
  BY DEF Entry
<1>3. \A i \in DOMAIN pInputBuffer :
         /\ pInputBuffer'[i].dev = pInputBuffer[i].dev
         /\ pInputBuffer[i].dev = d => pInputBuffer'[i].old = TRUE
         /\ pInputBuffer[i].dev # d => pInputBuffer'[i] = pInputBuffer[i]
  BY <1>0, <1>2 DEF Resampled
<1>4. CASE e = d
  BY <1>1, <1>3, <1>4 DEF Signal, Alternates, About
<1>5. CASE e # d
  <2>1. Signal(e, b) /\ Buffered(e, b)' = Buffered(e, b)
    BY <1>5 DEF EdgeInv
  <2>2. \A i \in DOMAIN pInputBuffer :
           (About(e, b, i)' <=> About(e, b, i)) /\ pInputBuffer'[i].pos = pInputBuffer[i].pos
    <3> SUFFICES ASSUME NEW i \in DOMAIN pInputBuffer
                 PROVE  /\ About(e, b, i)' <=> About(e, b, i)
                        /\ pInputBuffer'[i].pos = pInputBuffer[i].pos
      OBVIOUS
    <3>1. pInputBuffer'[i].dev = pInputBuffer[i].dev
      BY <1>3
    <3>2. CASE pInputBuffer[i].dev = d
      <4>1. pInputBuffer'[i] = [pInputBuffer[i] EXCEPT !.old = TRUE]
        BY <3>2 DEF Resampled
      <4>2. pInputBuffer'[i].pos = pInputBuffer[i].pos
        BY <1>0, <1>2, <4>1
      <4> QED
        BY <1>5, <3>1, <3>2, <4>2 DEF About
    <3>3. CASE pInputBuffer[i].dev # d
      BY <1>3, <3>3 DEF About
    <3> QED
      BY <3>2, <3>3
  <2> QED
    BY <1>1, <2>1, <2>2, SignalKept
<1> QED
  BY <1>4, <1>5

LEMMA EdgeCycle ==
  ASSUME TypeOK, ControlInv, EdgeInv, NEW d \in Used, Cycle(d)
  PROVE  EdgeInv'
<1>0. d \in Device /\ pInputBuffer \in Seq(Entry) /\ DOMAIN pInputBuffer = 1..Len(pInputBuffer)
  BY UsedType, LenProperties DEF TypeOK
<1>1. ASSUME NEW e \in Device, e # d
      PROVE  /\ current'[e] = current[e] /\ bit'[e] = bit[e] /\ pc'[e] = pc[e]
             /\ \A b : Buffered(e, b)' = Buffered(e, b)
  <2>1. pc'[e] = pc[e]
    BY <1>0, <1>1
    DEF Cycle, CycleBegin, StartEdges, BeginInputs, Sense, Push, WriteLevels, SettleLevels,
        CycleEnd, TypeOK
  <2>2. bit'[e] = bit[e]
    BY <1>0, <1>1
    DEF Cycle, CycleBegin, StartEdges, BeginInputs, Sense, Push, WriteLevels, SettleLevels,
        CycleEnd, NextBit, TypeOK
  <2>3. current'[e] = current[e]
    BY <1>0, <1>1
    DEF Cycle, CycleBegin, StartEdges, BeginInputs, Sense, Push, WriteLevels, SettleLevels,
        CycleEnd, TypeOK, Level
  <2> QED
    BY <2>1, <2>2, <2>3 DEF Buffered, Pushing
<1>2. \A e \in Device : e # d => Sensed(e)'
  BY <1>1 DEF EdgeInv, Sensed
<1>3. CASE Push(d)
  <2> DEFINE x == [dev |-> d, bit |-> bit[d], pos |-> pc[d] = "rise", old |-> FALSE, past |-> FALSE]
  <2>1. /\ pInputBuffer' = Append(pInputBuffer, x) /\ current' = current
        /\ pc[d] \in {"rise", "fall"} /\ pc'[d] = "sense"
    BY <1>0, <1>3 DEF Push, TypeOK
  <2>2. x \in Entry /\ x.dev = d /\ x.bit = bit[d] /\ ~x.old /\ x.pos = (pc[d] = "rise")
    BY <1>0, <1>3 DEF Push, TypeOK, Entry
  <2> HIDE DEF x
  <2>3. bit[d] \in Bit /\ current[d][bit[d]] \in BOOLEAN /\ Sensed(d)
    BY <1>0, <2>1 DEF TypeOK, Level, EdgeInv
  <2>4. \A b : Pushing(d, b)' = FALSE /\ (Pushing(d, b) <=> bit[d] = b)
    BY <2>1 DEF Pushing
  <2>5. x.pos = current[d][bit[d]]
    BY <2>1, <2>2, <2>3 DEF Sensed
  <2>6. x.pos # Buffered(d, bit[d]) /\ x.pos = (current'[d][bit[d]] # FALSE)
    BY <2>1, <2>3, <2>4, <2>5 DEF Buffered
  <2>7. ASSUME NEW e \in Device, NEW b \in PosEdge[e] \cap NegEdge[e] PROVE Signal(e, b)'
    <3>1. Signal(e, b)
      BY DEF EdgeInv
    <3>2. CASE e # d
      BY <1>0, <1>1, <2>1, <2>2, <3>1, <3>2, SignalAppend
    <3>3. CASE e = d /\ b # bit[d]
      <4>1. Buffered(d, b)' = Buffered(d, b)
        BY <2>1, <2>4, <3>3 DEF Buffered, Pushing
      <4> QED
        BY <1>0, <2>1, <2>2, <3>1, <3>3, <4>1, SignalAppend
    <3>4. CASE e = d /\ b = bit[d]
      <4>1. x.dev = e /\ x.bit = b /\ ~x.old /\ x.pos # Buffered(e, b)
        BY <2>2, <2>6, <3>4
      <4>2. x.pos = Buffered(e, b)'
        <5>1. Pushing(e, b)' = FALSE
          BY <2>4, <3>4
        <5>2. current'[e][b] = current[d][bit[d]]
          BY <2>1, <3>4
        <5> QED
          BY <2>3, <2>5, <5>1, <5>2 DEF Buffered
      <4> QED
        BY <1>0, <2>1, <2>2, <3>1, <4>1, <4>2, SignalAppend
    <3> QED
      BY <3>2, <3>3, <3>4
  <2>8. Sensed(d)'
    BY <2>1 DEF Sensed
  <2> QED
    BY <1>2, <2>7, <2>8 DEF EdgeInv
<1>4. CASE StartEdges(d) /\ ok[d]
  <2>1. pInputBuffer' = Resampled(d) /\ pc'[d] = "inputs"
    BY <1>0, <1>4 DEF StartEdges, TypeOK
  <2>2. Sensed(d)'
    BY <2>1 DEF Sensed
  <2>3. \A e \in Device : \A b \in PosEdge[e] \cap NegEdge[e] : Signal(e, b)'
    BY <1>0, <1>1, <2>1, ResampledSignals
  <2> QED
    BY <1>2, <2>2, <2>3 DEF EdgeInv
<1>5. CASE Sense(d) /\ bit[d] \in Bit
  <2>1. pInputBuffer' = pInputBuffer /\ pc[d] = "sense"
    BY <1>5 DEF Sense
  <2> DEFINE c == bit[d]
             sample == wire[d][c]
             rise == sample /\ ~current[d][c] /\ c \in PosEdge[d]
             fall == ~sample /\ current[d][c] /\ c \in NegEdge[d]
  <2>2. /\ current'[d] = [current[d] EXCEPT ![c] = sample]
        /\ pc'[d] = IF rise THEN "rise" ELSE IF fall THEN "fall" ELSE "sense"
        /\ rise \/ fall => bit' = bit
        /\ sample \in BOOLEAN /\ current[d] \in [Bit -> BOOLEAN] /\ c \in Bit
    <3>1. sample \in BOOLEAN /\ current[d] \in [Bit -> BOOLEAN] /\ c \in Bit
      BY <1>0, <1>5 DEF TypeOK, Level
    <3>2. current' = [current EXCEPT ![d][c] = sample]
      BY <1>5 DEF Sense
    <3>3. current'[d] = [current[d] EXCEPT ![c] = sample]
      BY <1>0, <3>2 DEF TypeOK, Level
    <3>4. pc' = [pc EXCEPT ![d] = IF rise THEN "rise" ELSE IF fall THEN "fall" ELSE @]
      BY <1>5 DEF Sense
    <3>5. pc'[d] = IF rise THEN "rise" ELSE IF fall THEN "fall" ELSE "sense"
      BY <1>0, <2>1, <3>4 DEF TypeOK
    <3>6. rise \/ fall => bit' = bit
      BY <1>5 DEF Sense
    <3> QED
      BY <3>1, <3>3, <3>5, <3>6
  <2>3. Sensed(d)'
    BY <2>2 DEF Sensed
  <2>4. ASSUME NEW b \in PosEdge[d] \cap NegEdge[d] PROVE Buffered(d, b)' = Buffered(d, b)
    <3>0. b \in Bit
      BY <1>0, ConfigAssumption
    <3>1. ~Pushing(d, b)
      BY <2>1 DEF Pushing
    <3>2. CASE b # c
      <4>1. ~Pushing(d, b)'
        BY <2>2, <3>2 DEF Pushing
      <4>2. current'[d][b] = current[d][b]
        BY <2>2, <3>0, <3>2
      <4> QED
        BY <3>1, <4>1, <4>2 DEF Buffered, Pushing
    <3>3. CASE b = c
      <4>1. current'[d][b] = sample /\ current[d][b] \in BOOLEAN
        BY <2>2, <3>0, <3>3
      <4>2. CASE rise \/ fall
        <5>1. Pushing(d, b)' = TRUE
          BY <2>2, <3>3, <4>2 DEF Pushing
        <5>2. Pushing(d, b) = FALSE
          BY <3>1 DEF Pushing
        <5>3. sample = ~current[d][b]
          BY <2>2, <3>3, <4>1, <4>2
        <5> QED
          BY <2>2, <4>1, <5>1, <5>2, <5>3 DEF Buffered
      <4>3. CASE ~(rise \/ fall)
        <5>1. Pushing(d, b)' = FALSE
          BY <2>2, <4>3 DEF Pushing
        <5>2. Pushing(d, b) = FALSE
          BY <3>1 DEF Pushing
        <5>3. sample = current[d][b]
          BY <2>2, <3>3, <4>1, <4>3
        <5> QED
          BY <4>1, <5>1, <5>2, <5>3 DEF Buffered
      <4> QED
        BY <4>2, <4>3
    <3> QED
      BY <3>2, <3>3
  <2>5. ASSUME NEW e \in Device, NEW b \in PosEdge[e] \cap NegEdge[e] PROVE Signal(e, b)'
    <3>1. Buffered(e, b)' = Buffered(e, b) /\ Signal(e, b)
      BY <1>1, <2>4 DEF EdgeInv
    <3>2. \A i \in DOMAIN pInputBuffer : About(e, b, i)' <=> About(e, b, i)
      BY <2>1 DEF About
    <3> QED
      BY <2>1, <3>1, <3>2, SignalKept
  <2> QED
    BY <1>2, <2>3, <2>5 DEF EdgeInv
<1>6. ASSUME UNCHANGED <<pInputBuffer, current>>,
             pc[d] \notin {"rise", "fall"}, pc'[d] \notin {"rise", "fall"}
      PROVE  EdgeInv'
  <2>1. \A b : Buffered(d, b)' = Buffered(d, b)
    BY <1>6 DEF Buffered, Pushing
  <2>2. ASSUME NEW e \in Device, NEW b \in PosEdge[e] \cap NegEdge[e] PROVE Signal(e, b)'
    <3>1. Buffered(e, b)' = Buffered(e, b) /\ Signal(e, b)
      BY <1>1, <2>1 DEF EdgeInv
    <3>2. \A i \in DOMAIN pInputBuffer : About(e, b, i)' <=> About(e, b, i)
      BY <1>6 DEF About
    <3> QED
      BY <1>6, <3>1, <3>2, SignalKept
  <2>3. Sensed(d)'
    BY <1>6 DEF Sensed
  <2> QED
    BY <1>2, <2>2, <2>3 DEF EdgeInv
<1>7. CASE CycleBegin(d) \/ (StartEdges(d) /\ ~ok[d]) \/ BeginInputs(d)
  <2>1. UNCHANGED <<pInputBuffer, current>> /\ pc[d] \in {"sleep", "edges", "inputs"}
    BY <1>7 DEF CycleBegin, StartEdges, BeginInputs
  <2>2. pc'[d] \in {"edges", "inputs", "sense", "outputs"}
    BY <1>0, <1>7 DEF CycleBegin, StartEdges, BeginInputs, TypeOK
  <2> QED
    BY <1>6, <2>1, <2>2
<1>8. CASE (Sense(d) /\ bit[d] \notin Bit) \/ WriteLevels(d) \/ SettleLevels(d) \/ CycleEnd(d)
  <2>1. UNCHANGED <<pInputBuffer, current>> /\ pc[d] \in {"sense", "outputs", "settle", "end"}
    BY <1>8 DEF Sense, WriteLevels, SettleLevels, CycleEnd
  <2>2. pc'[d] \in {"outputs", "settle", "end", "sleep", "exit"}
    BY <1>0, <1>8 DEF Sense, WriteLevels, SettleLevels, CycleEnd, TypeOK
  <2> QED
    BY <1>6, <2>1, <2>2
<1> QED
  BY <1>3, <1>4, <1>5, <1>7, <1>8 DEF Cycle

\* Whatever else happens, the level is sampled by the thread, or without events.
LEMMA EdgeOther ==
  ASSUME TypeOK, ControlInv, EdgeInv,
         Call \/ \E d \in Used : Proceed(d) \/ Locking(d) \/ Connection(d)
                                 \/ \E b \in InBit(d) : WireChange(d, b)
  PROVE  EdgeInv'
<1>0. pInputBuffer \in Seq(Entry) /\ DOMAIN pInputBuffer = 1..Len(pInputBuffer)
  BY LenProperties DEF TypeOK
<1>1. ASSUME UNCHANGED <<current, pc, bit>>,
             \/ pInputBuffer' = pInputBuffer
             \/ pInputBuffer' = <<>>
             \/ pInputBuffer # <<>> /\ pInputBuffer' = Tail(pInputBuffer)
      PROVE  EdgeInv'
  <2>1. \A d, b : Buffered(d, b)' = Buffered(d, b)
    BY <1>1 DEF Buffered, Pushing
  <2>2. ASSUME NEW d \in Device, NEW b \in PosEdge[d] \cap NegEdge[d] PROVE Signal(d, b)'
    <3>1. Signal(d, b)
      BY DEF EdgeInv
    <3>2. CASE pInputBuffer' = pInputBuffer
      <4>1. \A i \in DOMAIN pInputBuffer : About(d, b, i)' <=> About(d, b, i)
        BY <3>2 DEF About
      <4> QED
        BY <2>1, <3>1, <3>2, <4>1, SignalKept
    <3>3. CASE pInputBuffer' = <<>>
      BY <3>3 DEF Signal
    <3>4. CASE pInputBuffer # <<>> /\ pInputBuffer' = Tail(pInputBuffer)
      BY <1>0, <2>1, <3>1, <3>4, SignalTail
    <3> QED
      BY <1>1, <3>2, <3>3, <3>4
  <2>3. \A d \in Device : Sensed(d)'
    BY <1>1 DEF EdgeInv, Sensed
  <2> QED
    BY <2>2, <2>3 DEF EdgeInv
<1>2. CASE Call
  BY <1>1, <1>2
  DEF Call, Start, Stop, Reset, Configure, Begin, ReadInput, WriteOutputSync,
      WriteOutputAsync, WriteSignal
<1>3. ASSUME NEW d \in Used, Connection(d) \/ \E b \in InBit(d) : WireChange(d, b)
      PROVE  EdgeInv'
  BY <1>1, <1>3 DEF Connection, WireChange
<1>4. ASSUME NEW d \in Used,
             ResetDevice(d) \/ Flush(d) \/ TestState(d) \/ StartDevice(d) \/ StopDevice(d)
             \/ Allocate(d) \/ ClrOutputSignals(d) \/ CancelThread(d)
      PROVE  EdgeInv'
  BY <1>1, <1>4
  DEF ResetDevice, Flush, TestState, StartDevice, StopDevice, Allocate, ClrOutputSignals,
      CancelThread
<1>5. ASSUME NEW d \in Used, ClrInputSignals(d) PROVE EdgeInv'
  <2>1. d \in Device
    BY UsedType
  <2>2. pInputBuffer' = Resampled(d) /\ pc' = pc /\ bit' = bit /\ mMutex[d] = "free"
    BY <1>5 DEF ClrInputSignals
  <2>3. pc[d] \notin {"rise", "fall"}
    BY <2>1, <2>2 DEF ControlInv, ThreadInv, Busy
  <2>4. ASSUME NEW e \in Device, e # d
        PROVE  Sensed(e)' /\ \A b : Buffered(e, b)' = Buffered(e, b)
    <3>1. current'[e] = current[e]
      BY <1>5, <2>1, <2>4 DEF ClrInputSignals, TypeOK, Level
    <3> QED
      BY <2>2, <3>1 DEF EdgeInv, Sensed, Buffered, Pushing
  <2> QED
    BY <2>1, <2>2, <2>3, <2>4, ResampledSignals DEF EdgeInv, Sensed
<1>6. ASSUME NEW d \in Used, NEW p \in {"none", "sleep"}, pc' = [pc EXCEPT ![d] = p],
             pc[d] \notin {"rise", "fall"}, UNCHANGED <<current, bit>>,
             DOMAIN pInputBuffer' = DOMAIN pInputBuffer,
             \A i \in DOMAIN pInputBuffer :
                /\ \A e, b : About(e, b, i)' <=> About(e, b, i)
                /\ pInputBuffer'[i].pos = pInputBuffer[i].pos
      PROVE  EdgeInv'
  <2>1. \A e \in Device : pc'[e] = pc[e] \/ (e = d /\ pc'[e] = p)
    BY <1>6 DEF TypeOK
  <2>2. \A e \in Device : \A b : Buffered(e, b)' = Buffered(e, b)
    BY <1>6, <2>1 DEF Buffered, Pushing
  <2>3. \A e \in Device : Sensed(e)'
    BY <1>6, <2>1 DEF EdgeInv, Sensed
  <2>4. ASSUME NEW e \in Device, NEW b \in PosEdge[e] \cap NegEdge[e] PROVE Signal(e, b)'
    <3>1. Signal(e, b)
      BY DEF EdgeInv
    <3> QED
      BY <1>6, <2>2, <3>1, SignalKept
  <2> QED
    BY <2>3, <2>4 DEF EdgeInv
<1>7. ASSUME NEW d \in Used, JoinThread(d) PROVE EdgeInv'
  <2>1. /\ UNCHANGED <<pInputBuffer, current, bit>> /\ pc[d] = "exit"
        /\ pc' = [pc EXCEPT ![d] = "none"]
    BY <1>7 DEF JoinThread
  <2>2. \A i \in DOMAIN pInputBuffer : \A e, b : About(e, b, i)' <=> About(e, b, i)
    BY <2>1 DEF About
  <2> QED
    BY <1>6, <2>1, <2>2
<1>8. ASSUME NEW d \in Used, RunThread(d) PROVE EdgeInv'
  <2>1. CASE ~Threaded(d)
    BY <1>1, <1>8, <2>1 DEF RunThread
  <2>2. CASE Threaded(d)
    <3>1. /\ UNCHANGED <<current, bit>> /\ pc' = [pc EXCEPT ![d] = "sleep"]
          /\ pInputBuffer' = [i \in DOMAIN pInputBuffer |->
                                [pInputBuffer[i] EXCEPT !.past = @ \/ pInputBuffer[i].dev = d]]
      BY <1>8, <2>2 DEF RunThread
    <3>2. \A x \in Entry, p \in BOOLEAN :
             LET y == [x EXCEPT !.past = p]
             IN  y.dev = x.dev /\ y.bit = x.bit /\ y.pos = x.pos /\ y.old = x.old
      BY DEF Entry
    <3>3. ASSUME NEW i \in DOMAIN pInputBuffer
          PROVE  /\ pInputBuffer'[i].dev = pInputBuffer[i].dev
                 /\ pInputBuffer'[i].bit = pInputBuffer[i].bit
                 /\ pInputBuffer'[i].pos = pInputBuffer[i].pos
                 /\ pInputBuffer'[i].old = pInputBuffer[i].old
      <4>1. pInputBuffer[i] \in Entry
        BY <1>0
      <4>2. pInputBuffer[i].past \in BOOLEAN
        BY <4>1 DEF Entry
      <4>3. (pInputBuffer[i].past \/ pInputBuffer[i].dev = d) \in BOOLEAN
        BY <4>2
      <4>4. pInputBuffer'[i] =
              [pInputBuffer[i] EXCEPT !.past = pInputBuffer[i].past \/ pInputBuffer[i].dev = d]
        BY <3>1
      <4> QED
        BY <3>2, <4>1, <4>3, <4>4
    <3>4. DOMAIN pInputBuffer' = DOMAIN pInputBuffer
      BY <3>1
    <3>5. \A i \in DOMAIN pInputBuffer : \A e, b : About(e, b, i)' <=> About(e, b, i)
      BY <3>3 DEF About
    <3>6. pc[d] = "none"
      <4>0. todo # <<>> /\ Len(todo) \in Nat \ {0} /\ Head(todo) = todo[1]
        BY <1>8, EmptySeq, LenProperties, HeadTailProperties DEF TypeOK, RunThread, At
      <4>1. 1 \in 1..Len(todo) /\ todo[1].op = "run" /\ todo[1].dev = d
        BY <1>8, <4>0, DoFields DEF RunThread, At
      <4> QED
        BY <4>1 DEF ControlInv, StartInv, Startable
    <3> QED
      BY <1>6, <3>1, <3>3, <3>4, <3>5, <3>6
  <2> QED
    BY <2>1, <2>2
<1> QED
  BY <1>2, <1>3, <1>4, <1>5, <1>7, <1>8 DEF Proceed, Locking

LEMMA EdgeInit == Init => EdgeInv
<1> SUFFICES ASSUME Init PROVE EdgeInv
  OBVIOUS
<1>1. DOMAIN pInputBuffer = {}
  BY DEF Init
<1> QED
  BY <1>1 DEF Init, EdgeInv, Sensed, Signal

LEMMA EdgeStep == TypeOK /\ ControlInv /\ EdgeInv /\ [Next]_vars => EdgeInv'
<1> SUFFICES ASSUME TypeOK, ControlInv, EdgeInv, [Next]_vars PROVE EdgeInv'
  OBVIOUS
<1>1. CASE UNCHANGED vars
  BY <1>1 DEF vars, EdgeInv, Sensed, Signal, Alternates, About, Later, Buffered, Pushing
<1>2. CASE \E d \in Used : Cycle(d)
  BY <1>2, EdgeCycle
<1>3. CASE Call \/ \E d \in Used : Proceed(d) \/ Locking(d) \/ Connection(d)
                                   \/ \E b \in InBit(d) : WireChange(d, b)
  BY <1>3, EdgeOther
<1> QED
  BY <1>1, <1>2, <1>3 DEF Next

\* An edge gives one event: no interleaving of the thread with a reset of the buffer or
\* of the levels, or with the reading of events, loses or doubles one.
THEOREM EdgesAlternateCorrect == Spec => []EdgesAlternate
<1>1. EdgeInv => EdgesAlternate
  BY DEF EdgeInv, Signal, Alternates, EdgesAlternate
<1> QED
  BY <1>1, EdgeInit, EdgeStep, ControlCorrect, PTL DEF Spec
=============================================================================
