------------------------------ MODULE InputWait ------------------------------
(***************************************************************************)
(* How an application waits for input events of libFAUDES devices: the     *)
(* buffer, the wait mutex and the condition variable of vDevice, shared by *)
(* the application thread, which calls WaitInputs(), ReadInput(), Reset()  *)
(* and ResetRequest(), and by the background thread of every device.       *)
(*                                                                         *)
(* Two kinds of background threads feed the buffer:                        *)
(*   - network devices (nDevice): a batch of notifications and reset       *)
(*     requests, then one broadcast made while holding the wait mutex;     *)
(*   - signal devices (sDevice): one broadcast per sensed edge, made       *)
(*     without the wait mutex.                                             *)
(* The devices share one mutex, one condition and one buffer, as the       *)
(* members of an xDevice do; a stand-alone device is the case of a single  *)
(* device.                                                                 *)
(*                                                                         *)
(* The critical sections of the buffer mutex are straight-line code, hence *)
(* one step each. Only whether events are buffered matters to waiting: the *)
(* one buffer is kept here as the number of events from each device, and   *)
(* reading takes one of any device.                                        *)
(***************************************************************************)
EXTENDS Integers

CONSTANTS
    NetDevice,      \* devices with an nDevice style background thread
    SignalDevice,   \* devices with an sDevice style background thread
    MaxBuffer,      \* bound: events of one device in the buffer
    MaxBatch        \* bound: notifications handled in one round of a thread

ASSUME BoundAssumption  == MaxBuffer \in Nat \ {0} /\ MaxBatch \in Nat \ {0}
ASSUME DeviceAssumption == NetDevice \cap SignalDevice = {}

Device == NetDevice \cup SignalDevice

App  == "app"
Free == "free"
ASSUME OwnerAssumption == App \notin Device /\ Free \notin Device

VARIABLES
    pInputBuffer,   \* events in the shared input buffer, per device they came from
    mResetRequest,  \* per device, the reset request flag
    pWaitMutex,     \* owner of the wait mutex
    appPc,          \* where the application thread is in WaitInputs()
    sr,             \* the result WaitInputs() is about to return
    pc,             \* per device, where the background thread is
    revcount        \* per network device, notifications of this round

vars == <<pInputBuffer, mResetRequest, pWaitMutex, appPc, sr, pc, revcount>>

AppPc == {"idle", "block", "blocked", "woken", "leave"}

TypeOK ==
    /\ pInputBuffer \in [Device -> 0..MaxBuffer]
    /\ mResetRequest \in [Device -> BOOLEAN]
    /\ pWaitMutex \in Device \cup {App, Free}
    /\ appPc \in AppPc
    /\ sr \in BOOLEAN
    /\ pc \in [Device -> {"run", "notify"}]
    /\ revcount \in [Device -> 0..MaxBatch]

Init ==
    /\ pInputBuffer = [d \in Device |-> 0]
    /\ mResetRequest = [d \in Device |-> FALSE]
    /\ pWaitMutex = Free
    /\ appPc = "idle"
    /\ sr = FALSE
    /\ pc = [d \in Device |-> "run"]
    /\ revcount = [d \in Device |-> 0]

\* The buffer of the device that is asked, which is the shared one for a single
\* device and for the container. (A member that is asked directly tests the buffer of
\* its own, which it does not use.)
InputReady == \E d \in Device : pInputBuffer[d] > 0

------------------------------------------------------------------------------
(* Faulty variants. No action below uses them: each is a plausible slip in  *)
(* the code, substituted for the definition it imitates to confirm that the *)
(* runs notice.                                                            *)

\* ReadInput() without its test for an empty buffer.
FaultReadEmpty ==
    /\ appPc = "idle"
    /\ \E d \in Device : pInputBuffer' = [pInputBuffer EXCEPT ![d] = @ - 1]
    /\ UNCHANGED <<mResetRequest, pWaitMutex, appPc, sr, pc, revcount>>

\* nDevice broadcasting without the wait mutex.
FaultUnlockedNotify(d) ==
    /\ pc[d] = "run"
    /\ revcount[d] > 0
    /\ appPc' = IF appPc = "blocked" THEN "woken" ELSE appPc
    /\ revcount' = [revcount EXCEPT ![d] = 0]
    /\ UNCHANGED <<pInputBuffer, mResetRequest, pWaitMutex, sr, pc>>

\* revcount reset by a notification that is no input event.
FaultUncounted(d, known) ==
    /\ pc[d] = "run"
    /\ revcount[d] < MaxBatch
    /\ known => pInputBuffer[d] < MaxBuffer
    /\ pInputBuffer' = [pInputBuffer EXCEPT ![d] = IF known THEN @ + 1 ELSE @]
    /\ revcount' = [revcount EXCEPT ![d] = IF known THEN @ + 1 ELSE 0]
    /\ UNCHANGED <<mResetRequest, pWaitMutex, appPc, sr, pc>>

\* A wake-up taken for an event.
FaultWokenMeansReady ==
    /\ appPc = "woken"
    /\ pWaitMutex = Free
    /\ pWaitMutex' = App
    /\ sr' = TRUE
    /\ appPc' = "leave"
    /\ UNCHANGED <<pInputBuffer, mResetRequest, pc, revcount>>

\* A wait that starts over, with its full duration, if nothing is ready.
FaultWaitAgain ==
    /\ appPc = "woken"
    /\ pWaitMutex = Free
    /\ pWaitMutex' = App
    /\ sr' = InputReady
    /\ appPc' = IF InputReady THEN "leave" ELSE "block"
    /\ UNCHANGED <<pInputBuffer, mResetRequest, pc, revcount>>

------------------------------------------------------------------------------
(* The application thread.                                                 *)

\* Enter WaitInputs(duration): take the wait mutex, get a first result.
WaitTest(nontrivial) ==
    /\ appPc = "idle"
    /\ pWaitMutex = Free
    /\ sr' = InputReady
    /\ pWaitMutex' = App
    /\ appPc' = IF InputReady \/ ~nontrivial THEN "leave" ELSE "block"
    /\ UNCHANGED <<pInputBuffer, mResetRequest, pc, revcount>>

\* cond_timedwait releases the mutex and blocks in one step.
WaitBlock ==
    /\ appPc = "block"
    /\ appPc' = "blocked"
    /\ pWaitMutex' = Free
    /\ UNCHANGED <<pInputBuffer, mResetRequest, sr, pc, revcount>>

\* The duration passed to WaitInputs() has elapsed.
WaitTimeout ==
    /\ appPc = "blocked"
    /\ appPc' = "woken"
    /\ UNCHANGED <<pInputBuffer, mResetRequest, pWaitMutex, sr, pc, revcount>>

\* cond_timedwait takes the mutex again and returns; the result is updated.
WaitRetest ==
    /\ appPc = "woken"
    /\ pWaitMutex = Free
    /\ pWaitMutex' = App
    /\ sr' = InputReady
    /\ appPc' = "leave"
    /\ UNCHANGED <<pInputBuffer, mResetRequest, pc, revcount>>

WaitLeave ==
    /\ appPc = "leave"
    /\ pWaitMutex' = Free
    /\ appPc' = "idle"
    /\ UNCHANGED <<pInputBuffer, mResetRequest, sr, pc, revcount>>

ReadInput ==
    /\ appPc = "idle"
    /\ \/ /\ ~InputReady
          /\ UNCHANGED pInputBuffer
       \/ \E d \in Device :
            /\ pInputBuffer[d] > 0
            /\ pInputBuffer' = [pInputBuffer EXCEPT ![d] = @ - 1]
    /\ UNCHANGED <<mResetRequest, pWaitMutex, appPc, sr, pc, revcount>>

\* ResetRequest() reads and clears the flag.
ResetRequest(d) ==
    /\ appPc = "idle"
    /\ mResetRequest' = [mResetRequest EXCEPT ![d] = FALSE]
    /\ UNCHANGED <<pInputBuffer, pWaitMutex, appPc, sr, pc, revcount>>

\* vDevice::Reset(): flush the buffer and forget a pending request.
Reset(d) ==
    /\ appPc = "idle"
    /\ pInputBuffer' = [e \in Device |-> 0]
    /\ mResetRequest' = [mResetRequest EXCEPT ![d] = FALSE]
    /\ UNCHANGED <<pWaitMutex, appPc, sr, pc, revcount>>

------------------------------------------------------------------------------
(* The background threads.                                                 *)

Broadcast == appPc' = IF appPc = "blocked" THEN "woken" ELSE appPc

\* A notification is received: an input event is buffered (known = TRUE), an
\* event that is no input only counts.
NetReceive(d, known) ==
    /\ pc[d] = "run"
    /\ revcount[d] < MaxBatch
    /\ known => pInputBuffer[d] < MaxBuffer
    /\ pInputBuffer' = [pInputBuffer EXCEPT ![d] = IF known THEN @ + 1 ELSE @]
    /\ revcount' = [revcount EXCEPT ![d] = @ + 1]
    /\ UNCHANGED <<mResetRequest, pWaitMutex, appPc, sr, pc>>

\* A reset request is received: it counts only if none is pending yet.
NetResetRequest(d) ==
    /\ pc[d] = "run"
    /\ revcount[d] < MaxBatch
    /\ revcount' = [revcount EXCEPT ![d] = IF mResetRequest[d] THEN @ ELSE @ + 1]
    /\ mResetRequest' = [mResetRequest EXCEPT ![d] = TRUE]
    /\ UNCHANGED <<pInputBuffer, pWaitMutex, appPc, sr, pc>>

\* End of a round with notifications: lock the wait mutex ...
NetLock(d) ==
    /\ pc[d] = "run"
    /\ revcount[d] > 0
    /\ pWaitMutex = Free
    /\ pWaitMutex' = d
    /\ pc' = [pc EXCEPT ![d] = "notify"]
    /\ UNCHANGED <<pInputBuffer, mResetRequest, appPc, sr, revcount>>

\* ... broadcast, unlock and begin the next round.
NetNotify(d) ==
    /\ pc[d] = "notify"
    /\ Broadcast
    /\ pWaitMutex' = Free
    /\ revcount' = [revcount EXCEPT ![d] = 0]
    /\ pc' = [pc EXCEPT ![d] = "run"]
    /\ UNCHANGED <<pInputBuffer, mResetRequest, sr>>

\* An edge is sensed: its n events are buffered ...
SignalEdge(d, n) ==
    /\ pc[d] = "run"
    /\ pInputBuffer[d] + n <= MaxBuffer
    /\ pInputBuffer' = [pInputBuffer EXCEPT ![d] = @ + n]
    /\ pc' = [pc EXCEPT ![d] = "notify"]
    /\ UNCHANGED <<mResetRequest, pWaitMutex, appPc, sr, revcount>>

\* ... and the condition is broadcast, without the wait mutex.
SignalNotify(d) ==
    /\ pc[d] = "notify"
    /\ Broadcast
    /\ pc' = [pc EXCEPT ![d] = "run"]
    /\ UNCHANGED <<pInputBuffer, mResetRequest, pWaitMutex, sr, revcount>>

------------------------------------------------------------------------------
WaitStep == WaitBlock \/ WaitRetest \/ WaitLeave

NetStep(d) ==
    \/ \E known \in BOOLEAN : NetReceive(d, known)
    \/ NetResetRequest(d)
    \/ NetLock(d)
    \/ NetNotify(d)

SignalStep(d) ==
    \/ \E n \in 1..MaxBatch : SignalEdge(d, n)
    \/ SignalNotify(d)

Next ==
    \/ \E nontrivial \in BOOLEAN : WaitTest(nontrivial)
    \/ WaitStep
    \/ WaitTimeout
    \/ ReadInput
    \/ \E d \in Device : ResetRequest(d) \/ Reset(d)
    \/ \E d \in NetDevice : NetStep(d)
    \/ \E d \in SignalDevice : SignalStep(d)

Spec == Init /\ [][Next]_vars

(* Threads that are in the middle of a call go on, and a mutex that is free *)
(* again and again is obtained. Nothing forces a timeout: what is shown     *)
(* under FairSpec does not rely on the duration of the wait elapsing.       *)
FairSpec ==
    /\ Spec
    /\ WF_vars(WaitBlock) /\ SF_vars(WaitRetest) /\ WF_vars(WaitLeave)
    /\ \A d \in NetDevice : SF_vars(NetLock(d)) /\ WF_vars(NetNotify(d))
    /\ \A d \in SignalDevice : WF_vars(SignalNotify(d))

------------------------------------------------------------------------------
(* Properties.                                                             *)

\* The wait mutex is held exactly by the thread whose program counter is in a
\* critical section: between the test and cond_timedwait, between the return of
\* cond_timedwait and the unlock, and around the broadcast of a network device.
WaitMutexHeld ==
    /\ (pWaitMutex = App) <=> (appPc \in {"block", "leave"})
    /\ \A d \in NetDevice : (pWaitMutex = d) <=> (pc[d] = "notify")

\* A device thread still has a broadcast to make in its present round.
Notifying == \E d \in NetDevice : revcount[d] > 0

\* An event of a network device is in the buffer.
NetReady == \E d \in NetDevice : pInputBuffer[d] > 0

\* No wake-up is lost: whenever the application is blocked although an event of a
\* network device is buffered, a background thread has its broadcast still ahead.
\* This is about the test of the buffer and the blocking being one critical section
\* of WaitInputs(), and nDevice broadcasting within that critical section; signal
\* devices that share the buffer and the condition do no harm to it.
NoLostWakeup == appPc = "blocked" /\ NetReady => Notifying

\* The same promise for any kind of device (the class documentation makes no
\* difference): a blocked application and a buffered event, then some thread has
\* yet to broadcast.
NoLostWakeupAnyDevice ==
    appPc = "blocked" /\ InputReady =>
        Notifying \/ \E d \in SignalDevice : pc[d] = "notify"

\* WaitInputs() says "True, if events are available for read": once the result is
\* TRUE, no background thread takes it back before the caller sees it.
ReadyMeansReadable == appPc = "leave" /\ sr => InputReady

\* The application does not sleep over an event of a network device: it is woken
\* without the help of a timeout.
EventEndsWait == (appPc = "blocked" /\ NetReady) ~> (appPc # "blocked")

\* Whatever the devices do, a call of WaitInputs() comes back if the system clock
\* goes on, so that a wait of finite duration times out.
WaitReturns == WF_vars(WaitTimeout) => ((appPc # "idle") ~> (appPc = "idle"))
=============================================================================
