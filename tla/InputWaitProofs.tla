--------------------------- MODULE InputWaitProofs ---------------------------
(* Theorems about InputWait, for any number of devices and any bounds.     *)
EXTENDS InputWait, TLAPS

\* The type invariant: every step keeps the state within its declared range.
THEOREM TypeCorrect == Spec => []TypeOK
<1>1. Init => TypeOK
  <2> SUFFICES ASSUME Init PROVE TypeOK
    OBVIOUS
  <2>1. mResetRequest \in [Device -> BOOLEAN] /\ sr \in BOOLEAN
    BY Zenon DEF Init
  <2>2. pInputBuffer \in [Device -> 0..MaxBuffer] /\ revcount \in [Device -> 0..MaxBatch]
    BY BoundAssumption DEF Init
  <2>3. appPc \in AppPc /\ pc \in [Device -> {"run", "notify"}]
    BY DEF Init, AppPc
  <2>4. pWaitMutex \in Device \cup {App, Free}
    BY DEF Init
  <2> QED
    BY <2>1, <2>2, <2>3, <2>4 DEF TypeOK
<1>2. TypeOK /\ [Next]_vars => TypeOK'
  <2> SUFFICES ASSUME TypeOK, [Next]_vars PROVE TypeOK'
    OBVIOUS
  <2> USE BoundAssumption DEF TypeOK, AppPc
  <2>0. InputReady \in BOOLEAN
    BY DEF InputReady
  <2>1. ASSUME NEW nontrivial \in BOOLEAN, WaitTest(nontrivial) PROVE TypeOK'
    <3>1. sr' \in BOOLEAN
      BY <2>1, <2>0, Zenon DEF WaitTest
    <3> QED
      BY <2>1, <3>1 DEF WaitTest
  <2>2. CASE WaitStep
    <3>1. CASE WaitBlock
      BY <3>1 DEF WaitBlock
    <3>2. CASE WaitRetest
      <4>1. sr' \in BOOLEAN
        BY <3>2, <2>0, Zenon DEF WaitRetest
      <4> QED
        BY <3>2, <4>1 DEF WaitRetest
    <3>3. CASE WaitLeave
      BY <3>3 DEF WaitLeave
    <3> QED
      BY <2>2, <3>1, <3>2, <3>3 DEF WaitStep
  <2>3. CASE WaitTimeout
    BY <2>3 DEF WaitTimeout
  <2>4. CASE ReadInput
    BY <2>4 DEF ReadInput, InputReady
  <2>5. ASSUME NEW d \in Device, ResetRequest(d) \/ Reset(d) PROVE TypeOK'
    <3>1. mResetRequest' \in [Device -> BOOLEAN]
      BY <2>5, Zenon DEF ResetRequest, Reset
    <3>2. pInputBuffer' \in [Device -> 0..MaxBuffer]
      BY <2>5 DEF ResetRequest, Reset
    <3>3. UNCHANGED <<pWaitMutex, appPc, sr, pc, revcount>>
      BY <2>5 DEF ResetRequest, Reset
    <3> QED
      BY <3>1, <3>2, <3>3
  <2>6. ASSUME NEW d \in NetDevice, NetStep(d) PROVE TypeOK'
    <3>1. d \in Device
      BY DEF Device
    <3>2. ASSUME NEW known \in BOOLEAN, NetReceive(d, known) PROVE TypeOK'
      BY <3>1, <3>2 DEF NetReceive
    <3>3. CASE NetResetRequest(d)
      BY <3>1, <3>3 DEF NetResetRequest
    <3>4. CASE NetLock(d)
      BY <3>1, <3>4 DEF NetLock
    <3>5. CASE NetNotify(d)
      BY <3>1, <3>5 DEF NetNotify, Broadcast
    <3> QED
      BY <2>6, <3>2, <3>3, <3>4, <3>5 DEF NetStep
  <2>7. ASSUME NEW d \in SignalDevice, SignalStep(d) PROVE TypeOK'
    <3>1. d \in Device
      BY DEF Device
    <3>2. ASSUME NEW n \in 1..MaxBatch, SignalEdge(d, n) PROVE TypeOK'
      BY <3>1, <3>2 DEF SignalEdge
    <3>3. CASE SignalNotify(d)
      BY <3>1, <3>3 DEF SignalNotify, Broadcast
    <3> QED
      BY <2>7, <3>2, <3>3 DEF SignalStep
  <2>8. CASE UNCHANGED vars
    BY <2>8 DEF vars
  <2> QED
    BY <2>1, <2>2, <2>3, <2>4, <2>5, <2>6, <2>7, <2>8 DEF Next
<1> QED
  BY <1>1, <1>2, PTL DEF Spec

------------------------------------------------------------------------------
\* The wait mutex follows the program counters, with any mix of devices: an
\* nDevice never broadcasts while the application is between its test of the
\* buffer and cond_timedwait.
THEOREM MutexCorrect == Spec => []WaitMutexHeld
<1>1. Init => WaitMutexHeld
  BY OwnerAssumption DEF Init, WaitMutexHeld, Device, App, Free
<1>2. TypeOK /\ WaitMutexHeld /\ [Next]_vars => WaitMutexHeld'
  <2> SUFFICES ASSUME TypeOK, WaitMutexHeld, [Next]_vars PROVE WaitMutexHeld'
    OBVIOUS
  <2> USE OwnerAssumption, DeviceAssumption DEF WaitMutexHeld, Device
  <2>1. ASSUME NEW nontrivial \in BOOLEAN, WaitTest(nontrivial)
        PROVE WaitMutexHeld'
    BY <2>1 DEF WaitTest, Free, App
  <2>2. CASE WaitStep
    BY <2>2 DEF WaitStep, WaitBlock, WaitRetest, WaitLeave, Free, App
  <2>3. CASE WaitTimeout
    BY <2>3 DEF WaitTimeout
  <2>4. CASE ReadInput
    BY <2>4 DEF ReadInput
  <2>5. ASSUME NEW d \in Device, ResetRequest(d) \/ Reset(d)
        PROVE WaitMutexHeld'
    BY <2>5 DEF ResetRequest, Reset
  <2>6. ASSUME NEW d \in NetDevice, NetStep(d) PROVE WaitMutexHeld'
    <3>1. ASSUME NEW known \in BOOLEAN, NetReceive(d, known)
          PROVE WaitMutexHeld'
      BY <3>1 DEF NetReceive
    <3>2. CASE NetResetRequest(d)
      BY <3>2 DEF NetResetRequest
    <3>3. CASE NetLock(d)
      BY <3>3 DEF NetLock, TypeOK, App, Free
    <3>4. CASE NetNotify(d)
      BY <3>4 DEF NetNotify, Broadcast, TypeOK, App, Free
    <3> QED
      BY <2>6, <3>1, <3>2, <3>3, <3>4 DEF NetStep
  <2>7. ASSUME NEW d \in SignalDevice, SignalStep(d) PROVE WaitMutexHeld'
    BY <2>7 DEF SignalStep, SignalEdge, SignalNotify, Broadcast, TypeOK
  <2>8. CASE UNCHANGED vars
    BY <2>8 DEF vars
  <2> QED
    BY <2>1, <2>2, <2>3, <2>4, <2>5, <2>6, <2>7, <2>8 DEF Next
<1> QED
  BY <1>1, <1>2, TypeCorrect, PTL DEF Spec

------------------------------------------------------------------------------
(* The strengthening that makes NoLostWakeup inductive: the promise already *)
(* holds when the application has seen an empty buffer and is about to      *)
(* block, and a thread in its notification has something to notify.         *)
NotifyInv ==
    /\ appPc \in {"block", "blocked"} /\ NetReady => Notifying
    /\ \A d \in NetDevice : pc[d] = "notify" => revcount[d] > 0

\* No wake-up of an nDevice is lost, whatever other devices share the condition:
\* an application blocked over a buffered event of a network device always has a
\* broadcast coming.
THEOREM NetNoLostWakeup == Spec => []NoLostWakeup
<1>1. Init => NotifyInv
  BY DEF Init, NotifyInv, NetReady, Device
<1>2. TypeOK /\ WaitMutexHeld /\ NotifyInv /\ [Next]_vars => NotifyInv'
  <2> SUFFICES ASSUME TypeOK, WaitMutexHeld, NotifyInv, [Next]_vars
               PROVE NotifyInv'
    OBVIOUS
  <2> USE OwnerAssumption DEF NotifyInv, Notifying, InputReady, NetReady, TypeOK, Device
  <2>1. ASSUME NEW nontrivial \in BOOLEAN, WaitTest(nontrivial)
        PROVE NotifyInv'
    BY <2>1 DEF WaitTest
  <2>2. CASE WaitStep
    BY <2>2 DEF WaitStep, WaitBlock, WaitRetest, WaitLeave
  <2>3. CASE WaitTimeout
    BY <2>3 DEF WaitTimeout
  <2>4. CASE ReadInput
    BY <2>4 DEF ReadInput
  <2>5. ASSUME NEW d \in Device, ResetRequest(d) \/ Reset(d) PROVE NotifyInv'
    BY <2>5 DEF ResetRequest, Reset
  <2>6. ASSUME NEW d \in NetDevice, NetStep(d) PROVE NotifyInv'
    <3>1. ASSUME NEW known \in BOOLEAN, NetReceive(d, known) PROVE NotifyInv'
      <4>1. revcount'[d] > 0 /\ \A e \in NetDevice : revcount'[e] >= revcount[e]
        BY <3>1, BoundAssumption DEF NetReceive
      <4> QED
        BY <3>1, <4>1, BoundAssumption DEF NetReceive
    <3>2. CASE NetResetRequest(d)
      <4>1. \A e \in NetDevice : revcount'[e] >= revcount[e]
        BY <3>2, BoundAssumption DEF NetResetRequest
      <4>2. Notifying => Notifying'
        BY <4>1, <3>2, BoundAssumption DEF NetResetRequest
      <4> QED
        BY <3>2, <4>1, <4>2, BoundAssumption DEF NetResetRequest
    <3>3. CASE NetLock(d)
      BY <3>3 DEF NetLock
    <3>4. CASE NetNotify(d)
      \* The mutex is d's, so the application is neither about to block nor
      \* left blocked by the broadcast.
      <4>1. appPc' \notin {"block", "blocked"}
        BY <3>4 DEF NetNotify, Broadcast, WaitMutexHeld, App
      <4> QED
        BY <3>4, <4>1 DEF NetNotify
    <3> QED
      BY <2>6, <3>1, <3>2, <3>3, <3>4 DEF NetStep
  <2>7. ASSUME NEW d \in SignalDevice, SignalStep(d) PROVE NotifyInv'
    <3>1. \A e \in NetDevice : pInputBuffer'[e] = pInputBuffer[e]
      \* d is none of them.
      BY <2>7, DeviceAssumption DEF SignalStep, SignalEdge, SignalNotify
    <3>2. \A e \in NetDevice : pc'[e] = pc[e]
      BY <2>7, DeviceAssumption DEF SignalStep, SignalEdge, SignalNotify
    <3>3. appPc' \in {"block", "blocked"} => appPc' = appPc
      BY <2>7 DEF SignalStep, SignalEdge, SignalNotify, Broadcast
    <3>4. UNCHANGED revcount
      BY <2>7 DEF SignalStep, SignalEdge, SignalNotify
    <3> QED
      BY <3>1, <3>2, <3>3, <3>4
  <2>8. CASE UNCHANGED vars
    BY <2>8 DEF vars
  <2> QED
    BY <2>1, <2>2, <2>3, <2>4, <2>5, <2>6, <2>7, <2>8 DEF Next
<1>3. NotifyInv => NoLostWakeup
  BY DEF NotifyInv, NoLostWakeup
<1> QED
  BY <1>1, <1>2, <1>3, TypeCorrect, MutexCorrect, PTL DEF Spec

------------------------------------------------------------------------------
\* When WaitInputs() is about to return TRUE there is an event to read: nobody but
\* the application takes events out of the buffer.
THEOREM ReadyCorrect == Spec => []ReadyMeansReadable
<1>1. Init => ReadyMeansReadable
  BY DEF Init, ReadyMeansReadable
<1>2. TypeOK /\ ReadyMeansReadable /\ [Next]_vars => ReadyMeansReadable'
  <2> SUFFICES ASSUME TypeOK, ReadyMeansReadable, [Next]_vars
               PROVE ReadyMeansReadable'
    OBVIOUS
  <2> USE DEF ReadyMeansReadable
  <2>1. ASSUME NEW nontrivial \in BOOLEAN, WaitTest(nontrivial)
        PROVE ReadyMeansReadable'
    BY <2>1 DEF WaitTest, InputReady
  <2>2. CASE WaitStep
    BY <2>2 DEF WaitStep, WaitBlock, WaitRetest, WaitLeave, InputReady
  <2>3. CASE WaitTimeout
    BY <2>3 DEF WaitTimeout
  <2>4. CASE ReadInput
    BY <2>4 DEF ReadInput
  <2>5. ASSUME NEW d \in Device, ResetRequest(d) \/ Reset(d)
        PROVE ReadyMeansReadable'
    BY <2>5 DEF ResetRequest, Reset
  <2>6. ASSUME NEW d \in NetDevice, NetStep(d) PROVE ReadyMeansReadable'
    <3> USE BoundAssumption DEF InputReady, TypeOK, Device
    <3>1. ASSUME NEW known \in BOOLEAN, NetReceive(d, known)
          PROVE ReadyMeansReadable'
      BY <3>1 DEF NetReceive
    <3>2. CASE NetResetRequest(d)
      BY <3>2 DEF NetResetRequest
    <3>3. CASE NetLock(d)
      BY <3>3 DEF NetLock
    <3>4. CASE NetNotify(d)
      BY <3>4 DEF NetNotify, Broadcast
    <3> QED
      BY <2>6, <3>1, <3>2, <3>3, <3>4 DEF NetStep
  <2>7. ASSUME NEW d \in SignalDevice, SignalStep(d) PROVE ReadyMeansReadable'
    <3> USE BoundAssumption DEF InputReady, TypeOK, Device
    <3>1. ASSUME NEW n \in 1..MaxBatch, SignalEdge(d, n) PROVE ReadyMeansReadable'
      BY <3>1 DEF SignalEdge
    <3>2. CASE SignalNotify(d)
      BY <3>2 DEF SignalNotify, Broadcast
    <3> QED
      BY <2>7, <3>1, <3>2 DEF SignalStep
  <2>8. CASE UNCHANGED vars
    BY <2>8 DEF vars, InputReady
  <2> QED
    BY <2>1, <2>2, <2>3, <2>4, <2>5, <2>6, <2>7, <2>8 DEF Next
<1> QED
  BY <1>1, <1>2, TypeCorrect, PTL DEF Spec
=============================================================================
