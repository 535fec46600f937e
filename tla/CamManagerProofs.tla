------------------------- MODULE CamManagerProofs -------------------------
(***************************************************************************)
(* Theorems about CamManager, for every number of cameras, buffers,        *)
(* clients and sinks, every call budget and any number of faults.          *)
(***************************************************************************)
EXTENDS CamManager, FiniteSetTheorems, SequenceTheorems, TLAPS

(* What TypeOK needs to be inductive: the poll thread works on a frame and *)
(* on a returned lease only where it has one.                              *)
Located ==
    /\ pc \in {"publish", "publishing"} => frame \in Leases
    /\ pc = "returns" => returned # <<>>

TypeInv == TypeOK /\ Located

-----------------------------------------------------------------------------
(* One field of a slot may take any value of its type.                     *)
LEMMA SlotField ==
    ASSUME NEW s \in Slots
    PROVE  /\ \A v \in States : [s EXCEPT !.state = v] \in Slots
           /\ \A v \in Nat : /\ [s EXCEPT !.recoveryGeneration = v] \in Slots
                             /\ [s EXCEPT !.leaseGeneration = v] \in Slots
                             /\ [s EXCEPT !.restartAttempts = v] \in Slots
                             /\ [s EXCEPT !.inFlightFrames = v] \in Slots
           /\ \A v \in BOOLEAN : /\ [s EXCEPT !.startPending = v] \in Slots
                                 /\ [s EXCEPT !.startQueued = v] \in Slots
                                 /\ [s EXCEPT !.restartPending = v] \in Slots
                                 /\ [s EXCEPT !.restartQueued = v] \in Slots
                                 /\ [s EXCEPT !.requiresDeviceReopen = v] \in Slots
                                 /\ [s EXCEPT !.backingOff = v] \in Slots
<1>1. \A v \in States : [s EXCEPT !.state = v] \in Slots
  BY DEF Slots
<1>2. \A v \in Nat : [s EXCEPT !.recoveryGeneration = v] \in Slots
  BY DEF Slots
<1>3. \A v \in Nat : [s EXCEPT !.leaseGeneration = v] \in Slots
  BY DEF Slots
<1>4. \A v \in Nat : [s EXCEPT !.restartAttempts = v] \in Slots
  BY DEF Slots
<1>5. \A v \in Nat : [s EXCEPT !.inFlightFrames = v] \in Slots
  BY DEF Slots
<1>6. \A v \in BOOLEAN : [s EXCEPT !.startPending = v] \in Slots
  BY DEF Slots
<1>7. \A v \in BOOLEAN : [s EXCEPT !.startQueued = v] \in Slots
  BY DEF Slots
<1>8. \A v \in BOOLEAN : [s EXCEPT !.restartPending = v] \in Slots
  BY DEF Slots
<1>9. \A v \in BOOLEAN : [s EXCEPT !.restartQueued = v] \in Slots
  BY DEF Slots
<1>10. \A v \in BOOLEAN : [s EXCEPT !.requiresDeviceReopen = v] \in Slots
  BY DEF Slots
<1>11. \A v \in BOOLEAN : [s EXCEPT !.backingOff = v] \in Slots
  BY DEF Slots
<1> QED
  BY <1>1, <1>2, <1>3, <1>4, <1>5, <1>6, <1>7, <1>8, <1>9, <1>10, <1>11

(* The counters of a slot are natural numbers.                             *)
LEMMA SlotNumbers ==
    ASSUME NEW s \in Slots
    PROVE  /\ s.recoveryGeneration \in Nat /\ s.leaseGeneration \in Nat
           /\ s.restartAttempts \in Nat /\ s.inFlightFrames \in Nat
BY DEF Slots

(* Opening a recovery round gives a slot.                                  *)
LEMMA NewRoundType == ASSUME NEW s \in Slots PROVE NewRound(s) \in Slots
BY DEF NewRound, Slots

(* Clearing the deferred start gives a slot.                               *)
LEMMA NoStartType == ASSUME NEW s \in Slots PROVE NoStart(s) \in Slots
BY DEF NoStart, Slots

(* Clearing the pending restart gives a slot.                              *)
LEMMA NoRestartType == ASSUME NEW s \in Slots PROVE NoRestart(s) \in Slots
BY DEF NoRestart, Slots

(* Isolating a camera gives a slot.                                        *)
LEMMA FaultedType ==
    ASSUME NEW s \in Slots, NEW r \in BOOLEAN PROVE Faulted(s, r) \in Slots
<1> DEFINE t == [s EXCEPT !.state = "Error", !.requiresDeviceReopen = r]
<1>1. t \in Slots
  BY DEF Slots, States
<1>2. NewRound(t) \in Slots
  BY <1>1, NewRoundType
<1> QED
  BY <1>2 DEF Faulted

(* Counting an attempt and setting the backoff gives a slot.               *)
LEMMA BackedOffType == ASSUME NEW s \in Slots PROVE BackedOff(s) \in Slots
<1> DEFINE b == s.restartAttempts > 0
           t == [s EXCEPT !.restartAttempts = @ + 1]
<1>1. b \in BOOLEAN
  OBVIOUS
<1>2. t \in Slots
  BY DEF Slots
<1>3. BackedOff(s) = [t EXCEPT !.backingOff = b]
  BY DEF BackedOff, Slots
<1> HIDE DEF b, t
<1> QED
  BY <1>1, <1>2, <1>3, SlotField

(* Waiting for a restart gives a slot.                                     *)
LEMMA RetryingType == ASSUME NEW s \in Slots PROVE Retrying(s) \in Slots
<1> DEFINE t == BackedOff(s)
<1>1. t \in Slots
  BY BackedOffType
<1>2. Retrying(s) = [t EXCEPT !.state = "Error", !.restartPending = TRUE,
                              !.restartQueued = FALSE]
  BY DEF Retrying
<1> HIDE DEF t
<1> QED
  BY <1>1, <1>2 DEF Slots, States

(* A failed StartCamera leaves a slot.                                     *)
LEMMA AfterFailedStartType ==
    ASSUME NEW s \in Slots PROVE AfterFailedStart(s) \in Slots
<1> DEFINE t == NoStart(Retrying(s))
           u == [t EXCEPT !.requiresDeviceReopen = FALSE]
<1>1. t \in Slots
  BY RetryingType, NoStartType
<1>2. AfterFailedStart(s) = NewRound(u)
  BY DEF AfterFailedStart
<1>3. u \in Slots
  <2> HIDE DEF t
  <2> QED  BY <1>1, SlotField
<1> HIDE DEF u
<1> QED
  BY <1>2, <1>3, NewRoundType

(* A failed RestartCamera leaves a slot, escalated or not.                 *)
LEMMA AfterFailedRestartType ==
    ASSUME NEW s \in Slots PROVE AfterFailedRestart(s) \in Slots
<1> DEFINE t == Retrying(s)
<1>1. t \in Slots
  BY RetryingType
<1>2. AfterFailedRestart(s) \in {t, [t EXCEPT !.requiresDeviceReopen = TRUE]}
  BY DEF AfterFailedRestart
<1> HIDE DEF t
<1> QED
  BY <1>1, <1>2, SlotField

(* StopCamera leaves a slot.                                               *)
LEMMA HaltedType == ASSUME NEW s \in Slots PROVE Halted(s) \in Slots
<1>1. [s EXCEPT !.state = "Stopped"] \in Slots
  BY SlotField DEF States
<1> QED
  BY <1>1, NoRestartType, NoStartType, NewRoundType DEF Halted

(* What every successful start clears leaves a slot.                       *)
LEMMA SettledType == ASSUME NEW s \in Slots PROVE Settled(s) \in Slots
<1> DEFINE t == NoStart(NoRestart(s))
<1>1. t \in Slots
  BY NoRestartType, NoStartType
<1> DEFINE u == [t EXCEPT !.state = "Streaming", !.restartAttempts = 0]
<1>2. Settled(s) = [u EXCEPT !.requiresDeviceReopen = FALSE]
  BY DEF Settled
<1> HIDE DEF t
<1>3. u \in Slots
  BY <1>1 DEF Slots, States
<1> HIDE DEF u
<1> QED
  BY <1>2, <1>3, SlotField

(* A successful start leaves a slot.                                       *)
LEMMA RunningType == ASSUME NEW s \in Slots PROVE Running(s) \in Slots
<1> DEFINE t == Settled(s)
<1>1. t \in Slots
  BY SettledType
<1>2. Running(s) = [t EXCEPT !.leaseGeneration = @ + 1]
  BY DEF Running
<1> HIDE DEF t
<1> QED
  BY <1>1, <1>2 DEF Slots

(* Counting a frame back never takes the count below zero.                 *)
LEMMA ReturnedType == ASSUME NEW s \in Slots PROVE Returned(s) \in Slots
<1> DEFINE n == IF s.inFlightFrames > 0 THEN s.inFlightFrames - 1 ELSE 0
<1>1. n \in Nat
  BY SlotNumbers
<1>2. Returned(s) = [s EXCEPT !.inFlightFrames = n]
  BY DEF Returned
<1> HIDE DEF n
<1> QED
  BY <1>1, <1>2, SlotField

(* A new or erased camera has a slot.                                      *)
LEMMA FreshSlotType ==
    ASSUME NEW st \in States PROVE FreshSlot(st) \in Slots
BY DEF FreshSlot, Slots

(* A driver call leaves a device.                                          *)
LEMMA StartOutcomesType ==
    ASSUME NEW src \in Sources, NEW out \in StartOutcomes(src)
    PROVE  out.src \in Sources
<1>1. CASE out = [ok |-> TRUE, src |-> Started(src)]
  BY <1>1 DEF Started, Sources, Stages
<1>2. ASSUME NEW t \in StartFailures(src), out = [ok |-> FALSE, src |-> t]
      PROVE  out.src \in Sources
  <2>1. CASE src.stage # "BufferAllocated"
    BY <1>2, <2>1 DEF StartFailures
  <2>2. CASE src.stage = "BufferAllocated"
    <3>1. PICK k \in 0 .. BufferCount : t = [src EXCEPT !.queued = @ \cup 1 .. k]
      BY <1>2, <2>2 DEF StartFailures
    <3>2. 1 .. k \subseteq Buffers
      BY BufferCountAssumption DEF Buffers
    <3>3. src.queued \cup 1 .. k \in SUBSET Buffers
      BY <3>2 DEF Sources
    <3> QED
      BY <1>2, <3>1, <3>3 DEF Sources
  <2> QED
    BY <2>1, <2>2
<1> QED
  BY <1>1, <1>2 DEF StartOutcomes

(* The prepared and the closed device are devices.                         *)
LEMMA PreparedType == PreparedSource \in Sources /\ ClosedSource \in Sources
BY DEF PreparedSource, ClosedSource, Sources, Stages

(* Reopening leaves a device, also where it fails half-way.                *)
LEMMA ReopenOutcomesType ==
    ASSUME NEW out \in ReopenOutcomes PROVE out.src \in Sources
<1>1. CASE out = [ok |-> TRUE, src |-> PreparedSource]
  BY <1>1, PreparedType
<1>2. ASSUME NEW s \in {ClosedSource, OpenedSource, ConfiguredSource},
             out = [ok |-> FALSE, src |-> s]
      PROVE  out.src \in Sources
  BY <1>2 DEF ClosedSource, OpenedSource, ConfiguredSource, Sources, Stages
<1> QED
  BY <1>1, <1>2 DEF ReopenOutcomes

(* STREAMOFF leaves a device.                                              *)
LEMMA StopType == ASSUME NEW src \in Sources PROVE Stop(src) \in Sources
BY DEF Stop, Sources, Stages

(* DQBUF and QBUF leave a device.                                          *)
LEMMA BufferMoveType ==
    ASSUME NEW src \in Sources, NEW b \in Buffers
    PROVE  Dequeue(src, b) \in Sources /\ Requeued(src, b) \in Sources
BY DEF Dequeue, Requeued, Sources
(* Replacing one slot keeps the type of all.                               *)
LEMMA SlotUpdate ==
    ASSUME slot \in [Cameras -> Slots], NEW c \in Cameras, NEW s \in Slots
    PROVE  [slot EXCEPT ![c] = s] \in [Cameras -> Slots]
OBVIOUS

(* Replacing one device keeps the type of all.                             *)
LEMMA SourceUpdate ==
    ASSUME source \in [Cameras -> Sources], NEW c \in Cameras, NEW s \in Sources
    PROVE  [source EXCEPT ![c] = s] \in [Cameras -> Sources]
OBVIOUS

(* One call of the budget.                                                 *)
LEMMA CallType ==
    ASSUME TypeInv, NEW p \in Clients, NEW q \in ApiPcs,
           NEW todo \in SUBSET Commands, NEW cams \in SUBSET Cameras
    PROVE  [api EXCEPT ![p] = [pc |-> q, todo |-> todo, cam |-> cams]]
               \in [Clients -> ApiStates]
BY DEF TypeInv, TypeOK, ApiStates

(* A call within the budget leaves a budget.                               *)
LEMMA SpentType ==
    ASSUME TypeInv, NEW call \in Calls, callsLeft[call] > 0
    PROVE  [callsLeft EXCEPT ![call] = @ - 1] \in [Calls -> Nat]
<1>1. callsLeft[call] - 1 \in Nat
  BY DEF TypeInv, TypeOK
<1> QED
  BY <1>1 DEF TypeInv, TypeOK

(* The clients' next command of a camera is a command.                     *)
LEMMA CommandType ==
    ASSUME NEW t \in CommandTypes, NEW c \in Cameras, NEW g \in Nat
    PROVE  Command(t, c, g) \in Commands
BY DEF Command, Commands

(* The ProcessError of the next round is a command.                        *)
LEMMA ErrorCommandType ==
    ASSUME TypeInv, NEW c \in Cameras PROVE ErrorCommand(c) \in Commands
<1>1. slot[c].recoveryGeneration + 1 \in Nat
  BY SlotNumbers DEF TypeInv, TypeOK
<1> QED
  BY <1>1, CommandType DEF ErrorCommand, CommandTypes

(* addCamera() keeps the type invariant.                                   *)
LEMMA TypeAddCamera ==
    ASSUME TypeInv, NEW p \in Clients, NEW c \in Cameras, AddCamera(p, c)
    PROVE  TypeInv'
<1>1. slot' \in [Cameras -> Slots]
  BY FreshSlotType, SlotUpdate DEF TypeInv, TypeOK, AddCamera, States
<1>2. source' \in [Cameras -> Sources]
  BY PreparedType, SourceUpdate DEF TypeInv, TypeOK, AddCamera
<1>3. /\ api' \in [Clients -> ApiStates]
      /\ callsLeft' \in [Calls -> Nat]
      /\ faultsLeft' \in Nat
  BY CallType, SpentType DEF AddCamera, Call, Calls, ApiPcs, TypeInv, TypeOK
<1> QED
  BY <1>1, <1>2, <1>3 DEF TypeInv, TypeOK, Located, AddCamera, mail, life, locals

(* The start and stop calls keep the type invariant.                       *)
LEMMA TypeRequestControl ==
    ASSUME TypeInv, NEW p \in Clients, NEW call \in {"start", "stop"},
           NEW C \in SUBSET Cameras, RequestControl(p, call, C)
    PROVE  TypeInv'
<1> DEFINE t == IF call = "start" THEN "StartCamera" ELSE "StopCamera"
           todo == {Command(t, c, 0) : c \in C}
<1>1. todo \in SUBSET Commands
  <2>1. t \in CommandTypes
    BY DEF CommandTypes
  <2> QED
    BY <2>1, CommandType
<1>2. /\ api' \in [Clients -> ApiStates]
      /\ callsLeft' \in [Calls -> Nat]
      /\ faultsLeft' \in Nat
  <2>1. Call(p, call, "push", todo, {})
    BY DEF RequestControl
  <2> HIDE DEF todo
  <2> QED
    BY <1>1, <2>1, CallType, SpentType DEF Call, Calls, ApiPcs, TypeInv, TypeOK
<1> QED
  BY <1>2 DEF TypeInv, TypeOK, Located, RequestControl, managed, mail, life, locals

(* requestCameraRecovery() keeps the type invariant.                       *)
LEMMA TypeRequestCameraRecovery ==
    ASSUME TypeInv, NEW p \in Clients, NEW c \in Cameras,
           NEW call \in {"recover", "reopen"}, RequestCameraRecovery(p, c, call)
    PROVE  TypeInv'
<1>1. slot' \in [Cameras -> Slots]
  <2> DEFINE r == call = "reopen"
  <2>1. Faulted(slot[c], r) \in Slots
    BY FaultedType DEF TypeInv, TypeOK
  <2>2. slot' = [slot EXCEPT ![c] = Faulted(slot[c], r)]
    BY DEF RequestCameraRecovery
  <2> HIDE DEF r
  <2> QED
    BY <2>1, <2>2, SlotUpdate DEF TypeInv, TypeOK
<1>2. /\ api' \in [Clients -> ApiStates]
      /\ callsLeft' \in [Calls -> Nat]
      /\ faultsLeft' \in Nat
  <2>1. {ErrorCommand(c)} \in SUBSET Commands
    BY ErrorCommandType
  <2>2. Call(p, call, "push", {ErrorCommand(c)}, {})
    BY DEF RequestCameraRecovery
  <2> QED
    BY <2>1, <2>2, CallType, SpentType DEF Call, Calls, ApiPcs, TypeInv, TypeOK
<1> QED
  BY <1>1, <1>2 DEF TypeInv, TypeOK, Located, RequestCameraRecovery, mail, life, locals

(* The first section of delCamera() keeps the type invariant.              *)
LEMMA TypeDelCamera ==
    ASSUME TypeInv, NEW p \in Clients, NEW c \in Cameras, DelCamera(p, c)
    PROVE  TypeInv'
<1>1. slot' \in [Cameras -> Slots]
  <2>1. [slot[c] EXCEPT !.state = "Deleting"] \in Slots
    BY SlotField DEF TypeInv, TypeOK, States
  <2> QED
    BY <2>1, SlotUpdate DEF TypeInv, TypeOK, DelCamera
<1>2. /\ api' \in [Clients -> ApiStates]
      /\ callsLeft' \in [Calls -> Nat]
      /\ faultsLeft' \in Nat
  <2>1. {c} \in SUBSET Cameras /\ "close" \in ApiPcs /\ "delete" \in Calls
    BY DEF ApiPcs, Calls
  <2>2. /\ callsLeft["delete"] > 0 /\ faultsLeft' = faultsLeft
        /\ callsLeft' = [callsLeft EXCEPT !["delete"] = @ - 1]
        /\ api' = [api EXCEPT ![p] = [pc |-> "close", todo |-> {}, cam |-> {c}]]
    BY DEF DelCamera, Call
  <2>3. api' \in [Clients -> ApiStates]
    BY <2>1, <2>2, CallType
  <2> QED
    BY <2>1, <2>2, <2>3, SpentType DEF TypeInv, TypeOK
<1> QED
  BY <1>1, <1>2 DEF TypeInv, TypeOK, Located, DelCamera, mail, life, locals

(* startPolling(), requestStop() and shutdownPolling().                    *)
LEMMA TypePollingCalls ==
    ASSUME TypeInv, NEW p \in Clients,
           StartPolling(p) \/ RequestStop(p) \/ ShutdownPolling(p)
    PROVE  TypeInv'
<1>1. /\ api' \in [Clients -> ApiStates]
      /\ callsLeft' \in [Calls -> Nat]
      /\ faultsLeft' \in Nat
  <2>1. CASE StartPolling(p)
    <3>1. (IF running THEN "idle" ELSE "launch") \in ApiPcs
      BY DEF ApiPcs
    <3> QED
      BY <2>1, <3>1, CallType, SpentType DEF StartPolling, Call, Calls, TypeInv, TypeOK
  <2>2. CASE RequestStop(p)
    BY <2>2, CallType, SpentType DEF RequestStop, Call, Calls, ApiPcs, TypeInv, TypeOK
  <2>3. CASE ShutdownPolling(p)
    BY <2>3, CallType, SpentType DEF ShutdownPolling, Call, Calls, ApiPcs, TypeInv, TypeOK
  <2> QED
    BY <2>1, <2>2, <2>3
<1>2. running' \in BOOLEAN /\ stopRequested' \in BOOLEAN /\ joinable' \in BOOLEAN
  BY DEF TypeInv, TypeOK, StartPolling, RequestStop, ShutdownPolling
<1> QED
  BY <1>1, <1>2 DEF TypeInv, TypeOK, Located, StartPolling, RequestStop,
                    ShutdownPolling, managed, mail, life, locals

(* FrameHub::close() keeps the type invariant.                             *)
LEMMA TypeCloseHub ==
    ASSUME TypeInv, NEW p \in Clients, CloseHub(p) PROVE TypeInv'
<1>1. hub' \in [Cameras -> {"Open", "Closed"}]
  BY DEF TypeInv, TypeOK, CloseHub
<1>2. api' \in [Clients -> ApiStates]
  BY ZenonT(60) DEF TypeInv, TypeOK, CloseHub, ApiStates, ApiPcs
<1> QED
  BY <1>1, <1>2 DEF TypeInv, TypeOK, Located, CloseHub, mail, life, locals, budgets

(* The end of delCamera() keeps the type invariant.                        *)
LEMMA TypeFinishDelete ==
    ASSUME TypeInv, NEW p \in Clients, FinishDelete(p) PROVE TypeInv'
<1>1. api' \in [Clients -> ApiStates]
  <2> DEFINE todo == {Command("DeleteCamera", c, 0) : c \in api[p].cam}
  <2>1. todo \in SUBSET Commands
    <3>1. api[p].cam \in SUBSET Cameras
      BY DEF TypeInv, TypeOK, ApiStates
    <3>2. \A c \in Cameras : Command("DeleteCamera", c, 0) \in Commands
      BY CommandType DEF CommandTypes
    <3> QED
      BY <3>1, <3>2
  <2>2. \/ api' = [api EXCEPT ![p].pc = "erase"]
        \/ api' = [api EXCEPT ![p] = [pc |-> "push", todo |-> todo, cam |-> {}]]
    BY DEF FinishDelete
  <2> HIDE DEF todo
  <2>3. "push" \in ApiPcs /\ "erase" \in ApiPcs /\ {} \in SUBSET Cameras
    BY DEF ApiPcs
  <2>4. [api EXCEPT ![p].pc = "erase"] \in [Clients -> ApiStates]
    BY ZenonT(60), <2>3 DEF TypeInv, TypeOK, ApiStates
  <2>5. [api EXCEPT ![p] = [pc |-> "push", todo |-> todo, cam |-> {}]]
            \in [Clients -> ApiStates]
    BY <2>1, <2>3, CallType
  <2> QED
    BY <2>2, <2>4, <2>5
<1> QED
  BY <1>1 DEF TypeInv, TypeOK, Located, FinishDelete, managed, mail, life, locals, budgets

LEMMA TypeEraseDeleted ==
    ASSUME TypeInv, NEW p \in Clients, EraseDeleted(p) PROVE TypeInv'
<1>1. slot' \in [Cameras -> Slots]
  BY FreshSlotType DEF TypeInv, TypeOK, EraseDeleted, Erase, States
<1>2. api' \in [Clients -> ApiStates]
  <2>1. "idle" \in ApiPcs /\ {} \in SUBSET Commands /\ {} \in SUBSET Cameras
    BY DEF ApiPcs
  <2>2. [api EXCEPT ![p] = IdleClient] \in [Clients -> ApiStates]
    BY <2>1, CallType DEF IdleClient
  <2> QED
    BY <2>2 DEF EraseDeleted
<1> QED
  BY <1>1, <1>2 DEF TypeInv, TypeOK, Located, EraseDeleted, mail, life, locals, budgets

(* The notification by a client keeps the type invariant.                  *)
LEMMA TypeNotifyPollThread ==
    ASSUME TypeInv, NEW p \in Clients, NotifyPollThread(p) PROVE TypeInv'
<1> DEFINE q == IF api[p].pc = "shutdownNotify" THEN "join"
                ELSE IF api[p].todo = {} THEN "idle" ELSE "push"
<1>1. q \in ApiPcs
  BY DEF ApiPcs
<1>2. api' = [api EXCEPT ![p].pc = q]
  BY DEF NotifyPollThread
<1> HIDE DEF q
<1>3. api' \in [Clients -> ApiStates]
  BY <1>1, <1>2 DEF TypeInv, TypeOK, ApiStates
<1> QED
  BY <1>3 DEF TypeInv, TypeOK, Located, NotifyPollThread, Notify, PollPcs, managed,
              life, locals, budgets

(* The camera of the next command.                                         *)
LEMMA HeadType ==
    ASSUME TypeInv, batch # <<>>
    PROVE  Head(batch).cam \in Cameras /\ slot[Head(batch).cam] \in Slots
           /\ source[Head(batch).cam] \in Sources
<1>1. Head(batch) \in Commands
  BY DEF TypeInv, TypeOK
<1> QED
  BY <1>1 DEF TypeInv, TypeOK, Commands

(* DeleteCamera keeps the type invariant.                                  *)
LEMMA TypeExecuteDelete ==
    ASSUME TypeInv, ExecuteDelete PROVE TypeInv'
<1>1. slot' \in [Cameras -> Slots]
  BY FreshSlotType DEF TypeInv, TypeOK, ExecuteDelete, Erase, States
<1> QED
  BY <1>1 DEF ExecuteDelete, Execute, TypeInv, TypeOK, Located, mail, life, others

(* Ignored commands keep the type invariant.                               *)
LEMMA TypeExecuteIgnored ==
    ASSUME TypeInv, NEW t \in CommandTypes,
           ExecuteForGoneCamera(t) \/ ExecuteStale(t)
    PROVE  TypeInv'
<1>1. Execute(t) /\ UNCHANGED <<slot, source, faultsLeft>>
  BY DEF ExecuteForGoneCamera, ExecuteStale
<1> QED
  BY <1>1 DEF Execute, TypeInv, TypeOK, Located, mail, life, others

(* A StartCamera that is put off keeps the type invariant.                 *)
LEMMA TypeExecuteStartDeferred ==
    ASSUME TypeInv, ExecuteStartDeferred PROVE TypeInv'
<1> DEFINE c == Head(batch).cam
           s == [slot[c] EXCEPT !.startPending = TRUE]
           u == [s EXCEPT !.startQueued = FALSE]
<1>1. c \in Cameras /\ slot[c] \in Slots
  BY HeadType DEF ExecuteStartDeferred, Execute
<1>2. s \in Slots
  BY <1>1, SlotField
<1>3. u \in Slots
  <2> HIDE DEF s
  <2> QED  BY <1>2, SlotField
<1>4. slot' = [slot EXCEPT ![c] = u]
  BY <1>1 DEF ExecuteStartDeferred, TypeInv, TypeOK
<1>5. slot' \in [Cameras -> Slots]
  <2> HIDE DEF u, c
  <2> QED  BY <1>1, <1>3, <1>4, SlotUpdate DEF TypeInv, TypeOK
<1> QED
  BY <1>5 DEF ExecuteStartDeferred, Execute, TypeInv, TypeOK, Located, mail, life,
              others

(* Adopting a running stream keeps the type invariant.                     *)
LEMMA TypeExecuteStartAdopt ==
    ASSUME TypeInv, ExecuteStartAdopt PROVE TypeInv'
<1> DEFINE c == Head(batch).cam
           s == NewRound(Settled(slot[c]))
<1>1. c \in Cameras /\ slot[c] \in Slots
  BY HeadType DEF ExecuteStartAdopt, Execute
<1>2. s \in Slots
  BY <1>1, SettledType, NewRoundType
<1>3. slot' = [slot EXCEPT ![c] = s]
  BY DEF ExecuteStartAdopt
<1>4. slot' \in [Cameras -> Slots]
  <2> HIDE DEF s, c
  <2> QED  BY <1>1, <1>2, <1>3, SlotUpdate DEF TypeInv, TypeOK
<1> QED
  BY <1>4 DEF ExecuteStartAdopt, Execute, TypeInv, TypeOK, Located, mail, life, others

(* A driver call and its outcome, on the camera of the command.            *)
LEMMA OutcomeType ==
    ASSUME TypeInv, NEW c \in Cameras, NEW src \in Sources, NEW s \in Slots
    PROVE  /\ [source EXCEPT ![c] = src] \in [Cameras -> Sources]
           /\ [slot EXCEPT ![c] = s] \in [Cameras -> Slots]
BY SlotUpdate, SourceUpdate DEF TypeInv, TypeOK

(* A StartCamera that calls start() keeps the type invariant.              *)
LEMMA TypeExecuteStart ==
    ASSUME TypeInv, ExecuteStart PROVE TypeInv'
<1> DEFINE c == Head(batch).cam
<1>1. c \in Cameras /\ slot[c] \in Slots /\ source[c] \in Sources
  BY HeadType DEF ExecuteStart, Execute
<1>2. PICK out \in StartOutcomes(source[c]) :
          /\ PayFault(~out.ok /\ source[c].stage = "BufferAllocated")
          /\ source' = [source EXCEPT ![c] = out.src]
          /\ slot' = [slot EXCEPT ![c] = IF out.ok THEN Running(slot[c])
                                                   ELSE AfterFailedStart(slot[c])]
  BY DEF ExecuteStart
<1>3. out.src \in Sources
  BY <1>1, <1>2, StartOutcomesType
<1>4. (IF out.ok THEN Running(slot[c]) ELSE AfterFailedStart(slot[c])) \in Slots
  BY <1>1, RunningType, AfterFailedStartType
<1>5. slot' \in [Cameras -> Slots] /\ source' \in [Cameras -> Sources]
  BY <1>1, <1>2, <1>3, <1>4, OutcomeType
<1>6. faultsLeft' \in Nat
  BY <1>2 DEF PayFault, TypeInv, TypeOK
<1> QED
  BY <1>5, <1>6 DEF ExecuteStart, Execute, TypeInv, TypeOK, Located, mail, life, others

(* StopCamera keeps the type invariant.                                    *)
LEMMA TypeExecuteStop ==
    ASSUME TypeInv, ExecuteStop PROVE TypeInv'
<1> DEFINE c == Head(batch).cam
<1>1. c \in Cameras /\ slot[c] \in Slots /\ source[c] \in Sources
  BY HeadType DEF ExecuteStop, Execute
<1>2. /\ slot' = [slot EXCEPT ![c] = Halted(slot[c])]
      /\ source' = [source EXCEPT ![c] = Stop(source[c])]
  BY DEF ExecuteStop
<1>3. slot' \in [Cameras -> Slots] /\ source' \in [Cameras -> Sources]
  BY <1>1, <1>2, HaltedType, StopType, OutcomeType
<1> QED
  BY <1>3 DEF ExecuteStop, Execute, TypeInv, TypeOK, Located, mail, life, others

(* ProcessError keeps the type invariant.                                  *)
LEMMA TypeExecuteProcessError ==
    ASSUME TypeInv, ExecuteProcessError PROVE TypeInv'
<1> DEFINE c == Head(batch).cam
<1>1. c \in Cameras /\ slot[c] \in Slots /\ source[c] \in Sources
  BY HeadType DEF ExecuteProcessError, Execute
<1>2. /\ slot' = [slot EXCEPT ![c] = Retrying(slot[c])]
      /\ source' = [source EXCEPT ![c] = Stop(source[c])]
  BY DEF ExecuteProcessError
<1>3. slot' \in [Cameras -> Slots] /\ source' \in [Cameras -> Sources]
  BY <1>1, <1>2, RetryingType, StopType, OutcomeType
<1> QED
  BY <1>3 DEF ExecuteProcessError, Execute, TypeInv, TypeOK, Located, mail, life, others

(* RestartCamera, deferred or not, keeps the type invariant.               *)
LEMMA TypeExecuteRestart ==
    ASSUME TypeInv, ExecuteRestart PROVE TypeInv'
<1> DEFINE c == Head(batch).cam
<1>1. c \in Cameras /\ slot[c] \in Slots /\ source[c] \in Sources
  BY HeadType DEF ExecuteRestart, Execute
<1>2. CASE /\ slot' = [slot EXCEPT ![c].restartQueued = FALSE]
           /\ UNCHANGED <<source, faultsLeft>>
  <2>1. [slot[c] EXCEPT !.restartQueued = FALSE] \in Slots
    BY <1>1, SlotField
  <2>2. slot' \in [Cameras -> Slots]
    BY <1>1, <1>2, <2>1, OutcomeType
  <2> QED
    BY <1>2, <2>2 DEF ExecuteRestart, Execute, TypeInv, TypeOK, Located, mail, life,
                      others
<1>3. ASSUME NEW out \in RestartOutcomes(c),
             PayFault(~out.ok /\ (\/ slot[c].requiresDeviceReopen
                                  \/ source[c].stage = "BufferAllocated")),
             source' = [source EXCEPT ![c] = out.src],
             slot' = [slot EXCEPT ![c] = IF out.ok THEN Running(slot[c])
                                         ELSE AfterFailedRestart(slot[c])]
      PROVE  TypeInv'
  <2>1. out.src \in Sources
    BY <1>1, StartOutcomesType, ReopenOutcomesType, PreparedType DEF RestartOutcomes
  <2>2. (IF out.ok THEN Running(slot[c]) ELSE AfterFailedRestart(slot[c])) \in Slots
    BY <1>1, RunningType, AfterFailedRestartType
  <2>3. slot' \in [Cameras -> Slots] /\ source' \in [Cameras -> Sources]
    BY <1>1, <1>3, <2>1, <2>2, OutcomeType
  <2>4. faultsLeft' \in Nat
    BY <1>3 DEF PayFault, TypeInv, TypeOK
  <2> QED
    BY <2>3, <2>4 DEF ExecuteRestart, Execute, TypeInv, TypeOK, Located, mail, life,
                      others
<1> QED
  BY <1>2, <1>3 DEF ExecuteRestart
(* The next returned frame, and what is left of the others.                *)
LEMMA ReturnedHeadType ==
    ASSUME TypeInv, pc = "returns"
    PROVE  /\ Head(returned) \in Leases /\ Tail(returned) \in Seq(Leases)
           /\ Head(returned).cam \in Cameras /\ Head(returned).buf \in Buffers
           /\ slot[Head(returned).cam] \in Slots
           /\ source[Head(returned).cam] \in Sources
<1>1. returned \in Seq(Leases) /\ returned # <<>>
  BY DEF TypeInv, TypeOK, Located
<1>2. Head(returned) \in Leases /\ Tail(returned) \in Seq(Leases)
  BY <1>1
<1> QED
  BY <1>2 DEF TypeInv, TypeOK, Leases

(* What is left to prove of a returned frame: the slot and the device.     *)
LEMMA TakeReturnType ==
    ASSUME TypeInv, NEW cmds \in SUBSET Commands,
           pc = "returns", returned' = Tail(returned), outbox' = outbox \cup cmds,
           pc' = IF Tail(returned) # <<>> THEN pc
                 ELSE IF outbox \cup cmds = {} THEN resume ELSE "post"
    PROVE  /\ returned' \in Seq(Leases) /\ outbox' \in SUBSET Commands
           /\ pc' \in PollPcs
           /\ pc' \notin {"publish", "publishing"}
           /\ pc' = "returns" => returned' # <<>>
<1>1. returned' \in Seq(Leases)
  BY ReturnedHeadType
<1>2. outbox' \in SUBSET Commands
  BY DEF TypeInv, TypeOK
<1>3. /\ pc' \in PollPcs
      /\ pc' \notin {"publish", "publishing"}
      /\ pc' = "returns" => returned' # <<>>
  BY DEF TypeInv, TypeOK, PollPcs
<1> QED
  BY <1>1, <1>2, <1>3

(* Counting a frame back keeps the type invariant.                         *)
LEMMA TypeCountReturn ==
    ASSUME TypeInv, CountReturn PROVE TypeInv'
<1> DEFINE c == Head(returned).cam
<1>1. c \in Cameras /\ slot[c] \in Slots
  BY ReturnedHeadType DEF CountReturn, TakeReturn
<1>2. slot' = [slot EXCEPT ![c] = Returned(slot[c])]
  BY DEF CountReturn
<1>3. slot' \in [Cameras -> Slots]
  BY <1>1, <1>2, ReturnedType, OutcomeType DEF TypeInv, TypeOK
<1>4. /\ returned' \in Seq(Leases) /\ outbox' \in SUBSET Commands
      /\ pc' \in PollPcs
      /\ pc' \notin {"publish", "publishing"}
      /\ pc' = "returns" => returned' # <<>>
  BY TakeReturnType DEF CountReturn, TakeReturn
<1> QED
  BY <1>3, <1>4 DEF CountReturn, TakeReturn, TypeInv, TypeOK, Located, mail, life,
                    others

(* Handing a buffer back to the driver keeps it.                           *)
LEMMA TypeRequeueReturn ==
    ASSUME TypeInv, RequeueReturn PROVE TypeInv'
<1> DEFINE l == Head(returned)
<1>1. /\ l.cam \in Cameras /\ l.buf \in Buffers
      /\ slot[l.cam] \in Slots /\ source[l.cam] \in Sources
  BY ReturnedHeadType DEF RequeueReturn, TakeReturn
<1>2. /\ slot' = [slot EXCEPT ![l.cam] = Returned(slot[l.cam])]
      /\ source' = [source EXCEPT ![l.cam] = Requeued(source[l.cam], l.buf)]
  BY DEF RequeueReturn
<1>3. slot' \in [Cameras -> Slots] /\ source' \in [Cameras -> Sources]
  BY <1>1, <1>2, ReturnedType, BufferMoveType, OutcomeType DEF TypeInv, TypeOK
<1>4. /\ returned' \in Seq(Leases) /\ outbox' \in SUBSET Commands
      /\ pc' \in PollPcs
      /\ pc' \notin {"publish", "publishing"}
      /\ pc' = "returns" => returned' # <<>>
  BY TakeReturnType DEF RequeueReturn, TakeReturn
<1> QED
  BY <1>3, <1>4 DEF RequeueReturn, TakeReturn, TypeInv, TypeOK, Located, mail, life,
                    others

(* A failed QBUF, which isolates the camera, keeps it.                     *)
LEMMA TypeRequeueFails ==
    ASSUME TypeInv, RequeueFails PROVE TypeInv'
<1> DEFINE l == Head(returned)
<1>1. l.cam \in Cameras /\ slot[l.cam] \in Slots /\ source[l.cam] \in Sources
  BY ReturnedHeadType DEF RequeueFails, TakeReturn
<1>2. slot' = [slot EXCEPT ![l.cam] = Faulted(Returned(slot[l.cam]), TRUE)]
  BY DEF RequeueFails
<1>3. slot' \in [Cameras -> Slots]
  BY <1>1, <1>2, ReturnedType, FaultedType, OutcomeType DEF TypeInv, TypeOK
<1>4. {ErrorCommand(l.cam)} \in SUBSET Commands
  BY <1>1, ErrorCommandType
<1>5. /\ returned' \in Seq(Leases) /\ outbox' \in SUBSET Commands
      /\ pc' \in PollPcs
      /\ pc' \notin {"publish", "publishing"}
      /\ pc' = "returns" => returned' # <<>>
  BY <1>4, TakeReturnType DEF RequeueFails, TakeReturn
<1>6. faultsLeft' \in Nat
  BY DEF RequeueFails, PayFault, TypeInv, TypeOK
<1> QED
  BY <1>3, <1>5, <1>6 DEF RequeueFails, TakeReturn, TypeInv, TypeOK, Located, mail,
                          life, others
(* Dropping a frame of an old generation keeps it.                         *)
LEMMA TypeIgnoreReturn ==
    ASSUME TypeInv, IgnoreReturn PROVE TypeInv'
BY DEF TypeInv, TypeOK, Located, IgnoreReturn, TakeReturn, PollPcs, mail, life, others

(* Taking the queue of returned frames keeps it.                           *)
LEMMA TypeSwapReturns ==
    ASSUME TypeInv, SwapReturns PROVE TypeInv'
BY DEF TypeInv, TypeOK, Located, SwapReturns, PollPcs, managed, mail, life, others, budgets

(* The periodic check of deferred starts and restarts keeps it.            *)
LEMMA TypeCheckRestarts ==
    ASSUME TypeInv, CheckRestarts PROVE TypeInv'
<1> DEFINE starts == {c \in Cameras : Deferred(c)}
           restarts == {c \in Cameras : AwaitsRestart(c) /\ ~slot[c].backingOff}
           s(c) == [slot[c] EXCEPT !.startQueued = @ \/ c \in starts,
                                   !.restartQueued = @ \/ c \in restarts]
           cmds == {Command("StartCamera", c, 0) : c \in starts} \cup
                   {Command("RestartCamera", c, slot[c].recoveryGeneration) :
                        c \in restarts}
<1>1. ASSUME NEW c \in Cameras PROVE s(c) \in Slots
  <2> DEFINE a == slot[c].startQueued \/ c \in starts
             b == slot[c].restartQueued \/ c \in restarts
             t == [slot[c] EXCEPT !.startQueued = a]
  <2>1. slot[c] \in Slots /\ a \in BOOLEAN /\ b \in BOOLEAN
    BY DEF TypeInv, TypeOK
  <2>2. s(c) = [t EXCEPT !.restartQueued = b]
    BY <2>1 DEF Slots
  <2> HIDE DEF a, b, starts, restarts, s
  <2>3. t \in Slots
    BY <2>1, SlotField
  <2> HIDE DEF t
  <2> QED
    BY <2>1, <2>2, <2>3, SlotField
<1>2. slot' = [c \in Cameras |-> s(c)]
  BY DEF CheckRestarts
<1>3. slot' \in [Cameras -> Slots]
  <2> HIDE DEF s
  <2> QED  BY <1>1, <1>2
<1>4. cmds \in SUBSET Commands
  <2>1. \A c \in Cameras : Command("StartCamera", c, 0) \in Commands
    BY CommandType DEF CommandTypes
  <2>2. \A c \in Cameras :
            Command("RestartCamera", c, slot[c].recoveryGeneration) \in Commands
    BY CommandType, SlotNumbers DEF CommandTypes, TypeInv, TypeOK
  <2> HIDE DEF s
  <2> QED  BY <2>1, <2>2
<1>5. outbox' = cmds /\ pc' \in {"snapshot", "post"}
  BY DEF CheckRestarts, PostThen
<1> HIDE DEF cmds, s
<1> QED
  BY <1>3, <1>4, <1>5 DEF CheckRestarts, TypeInv, TypeOK, Located, PollPcs, mail, life,
                          others, budgets

(* A failing poll(), the last one of run() or not, keeps it.               *)
LEMMA TypePollFails ==
    ASSUME TypeInv, PollFails PROVE TypeInv'
<1>1. faultsLeft' \in Nat
  BY DEF PollFails, PayFault, TypeInv, TypeOK
<1>2. failures' \in Nat /\ pc' \in {"off", "loop"} /\ running' \in BOOLEAN
  <2>1. /\ failures' = failures + 1
        /\ \/ pc' = "off" /\ running' = FALSE
           \/ pc' = "loop" /\ UNCHANGED running
    BY DEF PollFails
  <2>2. failures' \in Nat
    BY <2>1 DEF TypeInv, TypeOK
  <2>3. pc' \in {"off", "loop"}
    BY <2>1
  <2>4. running' \in BOOLEAN
    BY <2>1, Zenon DEF TypeInv, TypeOK
  <2> QED
    BY <2>2, <2>3, <2>4
<1> QED
  BY <1>1, <1>2 DEF PollFails, TypeInv, TypeOK, Located, PollPcs, managed, mail, others

(* reportCameraFault() keeps the type invariant.                           *)
LEMMA TypeCameraFault ==
    ASSUME TypeInv, NEW c \in Cameras, NEW hangUp \in BOOLEAN, CameraFault(c, hangUp)
    PROVE  TypeInv'
<1>1. faultsLeft' \in Nat
  BY DEF CameraFault, PayFault, TypeInv, TypeOK
<1>2. slot' \in [Cameras -> Slots]
  <2>1. slot[c] \in Slots
    BY DEF TypeInv, TypeOK
  <2>2. Faulted(slot[c], hangUp) \in Slots
    BY <2>1, FaultedType
  <2>3. slot' = slot \/ slot' = [slot EXCEPT ![c] = Faulted(slot[c], hangUp)]
    BY DEF CameraFault
  <2> QED
    BY <2>2, <2>3, OutcomeType DEF TypeInv, TypeOK
<1>3. outbox' \in SUBSET Commands
  BY ErrorCommandType DEF CameraFault, PostThen, TypeInv, TypeOK
<1>4. pc' \in {"round", "post"} /\ ready' \in SUBSET Cameras
  BY DEF CameraFault, NextFd, PostThen, TypeInv, TypeOK
<1> QED
  BY <1>1, <1>2, <1>3, <1>4
  DEF CameraFault, TypeInv, TypeOK, Located, PollPcs, mail, life, others

(* DQBUF and the check that follows it keep the type invariant.            *)
LEMMA TypeDequeueFrame ==
    ASSUME TypeInv, NEW c \in Cameras, NEW b \in Buffers, DequeueFrame(c, b)
    PROVE  TypeInv'
<1>1. slot[c] \in Slots /\ source[c] \in Sources
  BY DEF TypeInv, TypeOK
<1>2. source' \in [Cameras -> Sources]
  BY <1>1, BufferMoveType, OutcomeType DEF DequeueFrame
<1>3. ready' \in SUBSET Cameras
  BY DEF DequeueFrame, NextFd, TypeInv, TypeOK
<1>4. CASE slot[c].state = "Streaming"
  <2>1. [cam |-> c, buf |-> b, gen |-> slot[c].leaseGeneration] \in Leases
    BY <1>1, SlotNumbers DEF Leases
  <2>2. slot' \in [Cameras -> Slots]
    <3> DEFINE s == [slot[c] EXCEPT !.inFlightFrames = @ + 1]
    <3>1. s \in Slots
      BY <1>1 DEF Slots
    <3>2. slot' = [slot EXCEPT ![c] = s]
      BY <1>4 DEF DequeueFrame
    <3> HIDE DEF s
    <3> QED
      BY <3>1, <3>2, SlotUpdate DEF TypeInv, TypeOK
  <2>3. /\ frame' \in Leases /\ pc' = "publish"
        /\ UNCHANGED <<returnQueue, wakeEvent>>
    BY <1>4, <2>1 DEF DequeueFrame
  <2> QED
    BY <1>2, <1>3, <2>2, <2>3
    DEF DequeueFrame, TypeInv, TypeOK, Located, PollPcs, life, others, budgets
<1>5. CASE slot[c].state # "Streaming"
  <2>1. [cam |-> c, buf |-> b, gen |-> 0] \in Leases
    BY DEF Leases
  <2>2. returnQueue' \in Seq(Leases)
    <3>1. returnQueue' = Append(returnQueue, [cam |-> c, buf |-> b, gen |-> 0])
      BY <1>5 DEF DequeueFrame
    <3> QED
      BY <2>1, <3>1 DEF TypeInv, TypeOK
  <2>3. /\ pc' = "swapReturns" /\ wakeEvent' = TRUE
        /\ UNCHANGED <<slot, frame>>
    BY <1>5 DEF DequeueFrame
  <2> QED
    BY <1>2, <1>3, <2>2, <2>3
    DEF DequeueFrame, TypeInv, TypeOK, Located, PollPcs, life, others, budgets
<1> QED
  BY <1>4, <1>5

(* The frame goes back to the poll thread itself, or stays downstream.     *)
LEMMA TypePublish ==
    ASSUME TypeInv, BeginPublish \/ EndPublish \/ PostToDecoder
    PROVE  TypeInv'
<1>1. frame \in Leases
  BY DEF TypeInv, Located, BeginPublish, EndPublish, PostToDecoder
<1>2. returnQueue' \in Seq(Leases) /\ leases' \in SUBSET Leases /\ wakeEvent' \in BOOLEAN
  <2>1. \/ /\ returnQueue' = Append(returnQueue, frame)
           /\ wakeEvent' = TRUE /\ leases' = leases
        \/ /\ leases' = leases \cup {frame}
           /\ UNCHANGED <<returnQueue, wakeEvent>>
        \/ UNCHANGED <<leases, returnQueue, wakeEvent>>
    BY DEF BeginPublish, EndPublish, PostToDecoder, DropFrame, KeepFrame
  <2>2. Append(returnQueue, frame) \in Seq(Leases)
    BY <1>1 DEF TypeInv, TypeOK
  <2>3. leases \cup {frame} \in SUBSET Leases
    BY <1>1 DEF TypeInv, TypeOK
  <2> QED
    BY <2>1, <2>2, <2>3 DEF TypeInv, TypeOK
<1>3. /\ frame' \in Leases \cup {NoFrame} /\ pc' \in PollPcs
      /\ pc' \in {"publish", "publishing"} => frame' \in Leases
      /\ pc' # "returns"
  BY <1>1 DEF BeginPublish, EndPublish, PostToDecoder, PollPcs
<1> QED
  BY <1>2, <1>3 DEF BeginPublish, EndPublish, PostToDecoder, TypeInv, TypeOK, Located,
                    managed, life, others, budgets

(* The passing of the backoff keeps the type invariant.                    *)
LEMMA TypeBackoffElapses ==
    ASSUME TypeInv, NEW c \in Cameras, BackoffElapses(c) PROVE TypeInv'
<1> DEFINE s == [slot[c] EXCEPT !.backingOff = FALSE]
<1>1. s \in Slots
  BY SlotField DEF TypeInv, TypeOK
<1>2. slot' \in [Cameras -> Slots]
  <2>1. slot' = [slot EXCEPT ![c] = s]
    BY DEF BackoffElapses
  <2> HIDE DEF s
  <2> QED
    BY <1>1, <2>1, SlotUpdate DEF TypeInv, TypeOK
<1> QED
  BY <1>2 DEF BackoffElapses, TypeInv, TypeOK, Located, mail, life, locals, others, budgets

(* The steps that touch neither a slot nor a device.                       *)
LEMMA TypeClientSteps ==
    ASSUME TypeInv, NEW p \in Clients,
           PushCommand(p) \/ LaunchPollThread(p) \/ JoinPollThread(p)
    PROVE  TypeInv'
<1>1. CASE PushCommand(p)
  <2>1. PICK cmd \in api[p].todo :
            /\ cmdQueue' = Append(cmdQueue, cmd)
            /\ api' = [api EXCEPT ![p].todo = @ \ {cmd}, ![p].pc = "notify"]
    BY <1>1 DEF PushCommand
  <2>2. cmdQueue' \in Seq(Commands)
    BY <2>1 DEF TypeInv, TypeOK, ApiStates
  <2>3. api' \in [Clients -> ApiStates]
    <3> DEFINE r == [api[p] EXCEPT !.todo = @ \ {cmd}, !.pc = "notify"]
    <3>1. r \in ApiStates
      BY DEF TypeInv, TypeOK, ApiStates, ApiPcs
    <3>2. api' = [api EXCEPT ![p] = r]
      BY <2>1 DEF TypeInv, TypeOK
    <3> HIDE DEF r
    <3> QED
      BY <3>1, <3>2 DEF TypeInv, TypeOK
  <2> QED
    BY <1>1, <2>2, <2>3 DEF PushCommand, TypeInv, TypeOK, Located, managed, life,
                            locals, budgets
<1>2. CASE LaunchPollThread(p)
  BY <1>2 DEF LaunchPollThread, IdleClient, TypeInv, TypeOK, Located, ApiStates, ApiPcs,
              PollPcs, managed, mail, life, locals, budgets
<1>3. CASE JoinPollThread(p)
  BY <1>3 DEF JoinPollThread, IdleClient, TypeInv, TypeOK, Located, ApiStates, ApiPcs,
              managed, mail, life, locals, budgets
<1> QED
  BY <1>1, <1>2, <1>3

(* Releasing a lease keeps the type invariant.                             *)
LEMMA TypeDownstream ==
    ASSUME TypeInv, NEW s \in Sinks, Downstream(s) PROVE TypeInv'
<1>1. ASSUME NEW l \in leases, ReleaseLease(s, l) PROVE TypeInv'
  BY <1>1 DEF ReleaseLease, TypeInv, TypeOK, Located, managed, mail, life, locals,
              budgets
<1>2. CASE NotifyReturn(s)
  BY <1>2 DEF NotifyReturn, Notify, TypeInv, TypeOK, Located, PollPcs, managed, life,
              locals, budgets
<1> QED
  BY <1>1, <1>2 DEF Downstream

(* The steps of the loop that touch no camera keep it.                     *)
LEMMA TypeLoopSteps ==
    ASSUME TypeInv,
           RunLoop \/ SwapCommands \/ PostFromOutbox \/ Snapshot \/ TestWaitPredicate
           \/ FallAsleep \/ WaitTimesOut \/ PollReturns \/ HandleWakeEvent \/ RoundEnds
    PROVE  TypeInv'
<1> USE DEF TypeInv, TypeOK, Located, PollPcs, managed, mail, life, locals, others,
            budgets
<1>1. CASE RunLoop
  BY <1>1 DEF RunLoop
<1>2. CASE SwapCommands
  BY <1>2 DEF SwapCommands
<1>3. CASE PostFromOutbox
  BY <1>3 DEF PostFromOutbox, PostThen
<1>4. CASE Snapshot
  BY <1>4 DEF Snapshot, Pollable
<1>5. CASE TestWaitPredicate
  BY <1>5 DEF TestWaitPredicate, RestartDeadlines
<1>6. CASE FallAsleep
  BY <1>6 DEF FallAsleep
<1>7. CASE WaitTimesOut
  BY <1>7 DEF WaitTimesOut
<1>8. CASE PollReturns
  BY <1>8 DEF PollReturns
<1>9. CASE HandleWakeEvent
  BY <1>9 DEF HandleWakeEvent
<1>10. CASE RoundEnds
  BY <1>10 DEF RoundEnds
<1> QED
  BY <1>1, <1>2, <1>3, <1>4, <1>5, <1>6, <1>7, <1>8, <1>9, <1>10

(* A descriptor without events keeps the type invariant.                   *)
LEMMA TypeNothingReady ==
    ASSUME TypeInv, NEW c \in Cameras, NothingReady(c) PROVE TypeInv'
BY DEF NothingReady, NextFd, TypeInv, TypeOK, Located, PollPcs, managed, mail, life,
       others, budgets
-----------------------------------------------------------------------------
(* The initial states satisfy the type invariant.                          *)
LEMMA TypeInit == Init => TypeInv
<1> SUFFICES ASSUME Init PROVE TypeInv
  OBVIOUS
<1>1. slot \in [Cameras -> Slots]
  BY FreshSlotType DEF Init, States
<1>2. source \in [Cameras -> Sources]
  BY PreparedType DEF Init
<1>3. api \in [Clients -> ApiStates]
  BY DEF Init, IdleClient, ApiStates, ApiPcs
<1>4. /\ callsLeft \in [Calls -> Nat] /\ faultsLeft \in Nat
      /\ hub \in [Cameras -> {"Open", "Closed"}]
      /\ sinkPc \in [Sinks -> {"idle", "notify"}]
  BY CamManagerAssumption DEF Init
<1>5. /\ cmdQueue \in Seq(Commands) /\ batch \in Seq(Commands)
      /\ returnQueue \in Seq(Leases) /\ returned \in Seq(Leases)
  BY DEF Init
<1>6. /\ running \in BOOLEAN /\ stopRequested \in BOOLEAN /\ joinable \in BOOLEAN
      /\ wakeEvent \in BOOLEAN /\ wakeSeen \in BOOLEAN
  BY DEF Init
<1> QED
  BY <1>1, <1>2, <1>3, <1>4, <1>5, <1>6 DEF Init, TypeInv, TypeOK, Located, PollPcs

(* Every step of a client keeps the type invariant.                        *)
LEMMA TypeApi ==
    ASSUME TypeInv, NEW p \in Clients, ApiCall(p) \/ ApiContinues(p) PROVE TypeInv'
<1>1. CASE ApiCall(p)
  BY <1>1, TypeAddCamera, TypeDelCamera, TypeRequestControl, TypeRequestCameraRecovery,
     TypePollingCalls DEF ApiCall
<1>2. CASE ApiContinues(p)
  BY <1>2, TypeCloseHub, TypeFinishDelete, TypeEraseDeleted, TypeNotifyPollThread,
     TypeClientSteps
  DEF ApiContinues
<1> QED
  BY <1>1, <1>2

(* Every step of the poll thread keeps the type invariant.                 *)
LEMMA TypePollThread ==
    ASSUME TypeInv, PollThread PROVE TypeInv'
<1>1. CASE ExecuteCommand
  BY <1>1, TypeExecuteDelete, TypeExecuteIgnored, TypeExecuteStartDeferred,
     TypeExecuteStartAdopt, TypeExecuteStart, TypeExecuteStop, TypeExecuteProcessError,
     TypeExecuteRestart DEF ExecuteCommand
<1>2. CASE DrainReturnedFrames
  BY <1>2, TypeSwapReturns, TypeIgnoreReturn, TypeCountReturn, TypeRequeueReturn,
     TypeRequeueFails DEF DrainReturnedFrames
<1>3. CASE PollRound
  BY <1>3, TypeNothingReady, TypeCameraFault, TypeDequeueFrame, TypePublish, TypeLoopSteps
  DEF PollRound
<1>4. CASE CheckRestarts \/ PollFails
  BY <1>4, TypeCheckRestarts, TypePollFails
<1> QED
  BY <1>1, <1>2, <1>3, <1>4, TypeLoopSteps DEF PollThread

(* The type invariant is inductive.                                        *)
LEMMA TypeNext == TypeInv /\ [Next]_vars => TypeInv'
<1> SUFFICES ASSUME TypeInv, [Next]_vars PROVE TypeInv'
  OBVIOUS
<1>1. ASSUME NEW p \in Clients, ApiCall(p) \/ ApiContinues(p) PROVE TypeInv'
  BY <1>1, TypeApi
<1>2. CASE PollThread
  BY <1>2, TypePollThread
<1>3. ASSUME NEW s \in Sinks, Downstream(s) PROVE TypeInv'
  BY <1>3, TypeDownstream
<1>4. ASSUME NEW c \in Cameras, BackoffElapses(c) PROVE TypeInv'
  BY <1>4, TypeBackoffElapses
<1>5. CASE UNCHANGED vars
  BY <1>5 DEF vars, managed, mail, life, locals, others, budgets, TypeInv, TypeOK,
              Located
<1> QED
  BY <1>1, <1>2, <1>3, <1>4, <1>5 DEF Next

(* Every state the camera manager reaches is of its type: no handler        *)
(* leaves a counter negative, a generation undefined, or takes the first    *)
(* frame of an empty batch.                                                 *)
THEOREM TypeCorrect == Spec => []TypeOK
<1>1. TypeInv => TypeOK
  BY DEF TypeInv
<1> QED
  BY <1>1, TypeInit, TypeNext, PTL DEF Spec
-----------------------------------------------------------------------------
(* m_running and the thread: a thread is launched only with m_running set  *)
(* and none at work, and m_threadMutex has one owner.                      *)
ThreadSection == {"launch", "shutdownNotify", "join"}

ThreadInv ==
    /\ ThreadOnlyWhileRunning
    /\ \A p \in Clients : api[p].pc = "launch" => running /\ pc = "off"
    /\ \A p, q \in Clients :
           api[p].pc \in ThreadSection /\ api[q].pc \in ThreadSection => p = q

(* The poll thread acts only while it exists, and clears m_running only as *)
(* its last step.                                                          *)
LEMMA PollThreadRuns ==
    ASSUME TypeInv, PollThread
    PROVE  pc # "off" /\ (running' = running \/ pc' = "off") /\ api' = api
<1> USE DEF TypeInv, TypeOK, life, locals, others
<1>1. CASE RunLoop \/ PollFails
  BY <1>1 DEF RunLoop, PollFails
<1>2. CASE SwapCommands \/ PostFromOutbox \/ Snapshot \/ TestWaitPredicate
           \/ FallAsleep \/ WaitTimesOut \/ PollReturns \/ CheckRestarts
  BY <1>2 DEF SwapCommands, PostFromOutbox, Snapshot, TestWaitPredicate, FallAsleep,
              WaitTimesOut, PollReturns, CheckRestarts
<1>3. CASE ExecuteCommand
  <2>1. PICK t \in CommandTypes : Execute(t)
    BY <1>3 DEF ExecuteCommand, ExecuteDelete, ExecuteStartDeferred, ExecuteStartAdopt,
       ExecuteStart, ExecuteStop, ExecuteProcessError, ExecuteRestart,
       ExecuteForGoneCamera, ExecuteStale, CommandTypes
  <2> QED
    BY SMTT(40), <2>1 DEF Execute
<1>4. CASE DrainReturnedFrames
  <2>1. CASE SwapReturns
    BY <2>1 DEF SwapReturns
  <2>2. CASE \E cmds : TakeReturn(cmds)
    BY <2>2 DEF TakeReturn
  <2> QED
    BY <1>4, <2>1, <2>2 DEF DrainReturnedFrames, IgnoreReturn, CountReturn,
       RequeueReturn, RequeueFails
<1>5. CASE PollRound
  BY <1>5 DEF PollRound, NothingReady, CameraFault, DequeueFrame, NextFd, BeginPublish,
     EndPublish, PostToDecoder, HandleWakeEvent, RoundEnds
<1> QED
  BY <1>1, <1>2, <1>3, <1>4, <1>5 DEF PollThread

(* The clients keep the thread invariant.                                  *)
LEMMA ThreadApi ==
    ASSUME TypeInv, ThreadInv, NEW p \in Clients, ApiCall(p) \/ ApiContinues(p)
    PROVE  ThreadInv'
<1> USE DEF ThreadInv, ThreadOnlyWhileRunning, ThreadSection, TypeInv, TypeOK,
            ApiStates, life, locals
<1>1. CASE \E c \in Cameras : AddCamera(p, c) \/ DelCamera(p, c)
  <2>1. ASSUME NEW c \in Cameras, AddCamera(p, c) PROVE ThreadInv'
    BY <2>1 DEF AddCamera, Call
  <2>2. ASSUME NEW c \in Cameras, DelCamera(p, c) PROVE ThreadInv'
    BY <2>2 DEF DelCamera, Call
  <2> QED
    BY <1>1, <2>1, <2>2
<1>2. CASE \E call \in {"start", "stop"}, C \in SUBSET Cameras : RequestControl(p, call, C)
  BY <1>2 DEF RequestControl, Call
<1>3. CASE \E c \in Cameras, call \in {"recover", "reopen"} :
               RequestCameraRecovery(p, c, call)
  BY <1>3 DEF RequestCameraRecovery, Call
<1>4. CASE StartPolling(p)
  BY <1>4 DEF StartPolling, Call, ThreadMutexFree
<1>5. CASE RequestStop(p)
  BY <1>5 DEF RequestStop, Call
<1>6. CASE ShutdownPolling(p)
  BY <1>6 DEF ShutdownPolling, Call, ThreadMutexFree
<1>7. CASE CloseHub(p) \/ FinishDelete(p) \/ EraseDeleted(p) \/ PushCommand(p)
  <2>1. CASE CloseHub(p)
    BY <2>1 DEF CloseHub
  <2>2. CASE FinishDelete(p)
    <3>1. PICK r : api' = [api EXCEPT ![p] = r] /\ r.pc \in {"erase", "push"}
      BY <2>2 DEF FinishDelete
    <3>2. running' = running /\ pc' = pc
      BY <2>2 DEF FinishDelete
    <3> QED
      BY <3>1, <3>2
  <2>3. CASE PushCommand(p)
    BY <2>3 DEF PushCommand
  <2>4. CASE EraseDeleted(p)
    BY <2>4 DEF EraseDeleted, IdleClient
  <2> QED
    BY <1>7, <2>1, <2>2, <2>3, <2>4
<1>8. CASE NotifyPollThread(p)
  BY <1>8 DEF NotifyPollThread, Notify
<1>9. CASE LaunchPollThread(p)
  BY <1>9 DEF LaunchPollThread, IdleClient
<1>10. CASE JoinPollThread(p)
  BY <1>10 DEF JoinPollThread, IdleClient
<1> QED
  BY <1>1, <1>2, <1>3, <1>4, <1>5, <1>6, <1>7, <1>8, <1>9, <1>10
  DEF ApiCall, ApiContinues

(* The thread invariant is inductive, given the types.                     *)
LEMMA ThreadNext == TypeInv /\ ThreadInv /\ [Next]_vars => ThreadInv'
<1> SUFFICES ASSUME TypeInv, ThreadInv, [Next]_vars PROVE ThreadInv'
  OBVIOUS
<1>1. ASSUME NEW p \in Clients, ApiCall(p) \/ ApiContinues(p) PROVE ThreadInv'
  BY <1>1, ThreadApi
<1>2. CASE PollThread
  BY <1>2, PollThreadRuns DEF ThreadInv, ThreadOnlyWhileRunning
<1>3. ASSUME NEW s \in Sinks, Downstream(s) PROVE ThreadInv'
  <2>1. running' = running /\ api' = api /\ (pc' = "off" <=> pc = "off")
    BY <1>3 DEF Downstream, NotifyReturn, ReleaseLease, Notify, life
  <2> QED
    BY <2>1 DEF ThreadInv, ThreadOnlyWhileRunning
<1>4. ASSUME NEW c \in Cameras, BackoffElapses(c) PROVE ThreadInv'
  BY <1>4 DEF BackoffElapses, life, others, ThreadInv, ThreadOnlyWhileRunning
<1>5. CASE UNCHANGED vars
  BY <1>5 DEF vars, life, others, ThreadInv, ThreadOnlyWhileRunning
<1> QED
  BY <1>1, <1>2, <1>3, <1>4, <1>5 DEF Next

-----------------------------------------------------------------------------
(* The deletion of a camera, delCamera(): it is final, and the FrameHub is *)
(* closed before the camera is erased.                                     *)

(* A step of the kind DeletionIsFinal allows.                              *)
KeepsDeletion ==
    \A c \in Cameras :
        /\ slot[c].state = "Deleting" => slot'[c].state \in {"Deleting", "Erased"}
        /\ slot[c].state = "Erased" => slot'[c].state = "Erased"

(* A step that changes one slot only, which is not the slot of a deleted   *)
(* camera, or whose state it keeps.                                        *)
LEMMA OneSlotKeepsDeletion ==
    ASSUME TypeInv, NEW c \in Cameras, NEW s, slot' = [slot EXCEPT ![c] = s],
           slot[c].state \notin {"Deleting", "Erased"} \/ s.state = slot[c].state
    PROVE  KeepsDeletion
BY DEF TypeInv, TypeOK, KeepsDeletion

(* Erasing cameras keeps deletions final.                                  *)
LEMMA EraseKeepsDeletion ==
    ASSUME NEW C, Erase(C) PROVE KeepsDeletion
BY DEF Erase, FreshSlot, KeepsDeletion

(* No call of the API revives a camera.                                    *)
LEMMA ApiKeepsDeletion ==
    ASSUME TypeInv, NEW p \in Clients, ApiCall(p) \/ ApiContinues(p)
    PROVE  KeepsDeletion
<1>1. ASSUME NEW c \in Cameras, AddCamera(p, c) PROVE KeepsDeletion
  BY <1>1, OneSlotKeepsDeletion DEF AddCamera
<1>2. ASSUME NEW c \in Cameras, DelCamera(p, c) PROVE KeepsDeletion
  BY <1>2 DEF DelCamera, InMap, KeepsDeletion, TypeInv, TypeOK, Slots
<1>3. ASSUME NEW c \in Cameras, NEW call, RequestCameraRecovery(p, c, call)
      PROVE  KeepsDeletion
  BY <1>3, OneSlotKeepsDeletion DEF RequestCameraRecovery, Controllable, InMap
<1>4. CASE EraseDeleted(p)
  BY <1>4, EraseKeepsDeletion DEF EraseDeleted, KeepsDeletion
<1>5. CASE UNCHANGED slot
  BY <1>5 DEF KeepsDeletion
<1> QED
  BY <1>1, <1>2, <1>3, <1>4, <1>5
  DEF ApiCall, ApiContinues, RequestControl, StartPolling, RequestStop, ShutdownPolling,
      CloseHub, FinishDelete, PushCommand, NotifyPollThread, LaunchPollThread,
      JoinPollThread, managed

(* No command revives a camera.                                            *)
LEMMA ExecuteKeepsDeletion ==
    ASSUME TypeInv, ExecuteCommand PROVE KeepsDeletion
<1> DEFINE c == Head(batch).cam
<1>1. CASE UNCHANGED slot
  BY <1>1 DEF KeepsDeletion
<1>2. CASE ExecuteDelete
  BY <1>2, EraseKeepsDeletion DEF ExecuteDelete
<1>3. CASE ExecuteStartDeferred
  <2>1. c \in Cameras
    BY <1>3, HeadType DEF ExecuteStartDeferred, Execute
  <2> QED
    BY <1>3, <2>1 DEF ExecuteStartDeferred, KeepsDeletion, TypeInv, TypeOK, Slots
<1>4. ASSUME batch # <<>>, slot[c].state \notin {"Deleting", "Erased"},
             \E s : slot' = [slot EXCEPT ![c] = s]
      PROVE  KeepsDeletion
  BY <1>4, HeadType, OneSlotKeepsDeletion
<1>5. CASE ExecuteStartAdopt \/ ExecuteStart \/ ExecuteStop
  BY <1>4, <1>5 DEF ExecuteStartAdopt, ExecuteStart, ExecuteStop, Execute, Controllable,
                    InMap
<1>6. CASE ExecuteProcessError
  BY <1>4, <1>6 DEF ExecuteProcessError, Execute, CurrentRound
<1>7. CASE ExecuteRestart
  <2>1. batch # <<>> /\ slot[c].state = "Error"
    BY <1>7 DEF ExecuteRestart, Execute, RestartApplies, CurrentRound
  <2>2. CASE slot' = [slot EXCEPT ![c].restartQueued = FALSE]
    BY <1>4, <2>1, <2>2
  <2>3. CASE \E s : slot' = [slot EXCEPT ![c] = s]
    BY <1>4, <2>1, <2>3
  <2> QED
    BY <1>7, <2>2, <2>3 DEF ExecuteRestart
<1> QED
  BY <1>1, <1>2, <1>3, <1>5, <1>6, <1>7
  DEF ExecuteCommand, ExecuteForGoneCamera, ExecuteStale

(* No returned frame revives a camera.                                     *)
LEMMA ReturnKeepsDeletion ==
    ASSUME TypeInv, DrainReturnedFrames PROVE KeepsDeletion
<1> DEFINE c == Head(returned).cam
<1>1. ASSUME pc = "returns", slot' = [slot EXCEPT ![c] = Returned(slot[c])]
      PROVE  KeepsDeletion
  <2>1. c \in Cameras /\ slot[c] \in Slots
    BY <1>1, ReturnedHeadType
  <2>2. Returned(slot[c]).state = slot[c].state
    BY <2>1 DEF Returned, Slots
  <2> QED
    BY <1>1, <2>1, <2>2, OneSlotKeepsDeletion
<1>2. CASE RequeueFails
  <2>1. c \in Cameras
    BY <1>2, ReturnedHeadType DEF RequeueFails, TakeReturn
  <2> QED
    BY <1>2, <2>1, OneSlotKeepsDeletion DEF RequeueFails, ReturnRequeues
<1>3. CASE CountReturn \/ RequeueReturn
  BY <1>1, <1>3 DEF CountReturn, RequeueReturn, TakeReturn
<1>4. CASE UNCHANGED slot
  BY <1>4 DEF KeepsDeletion
<1> QED
  BY <1>2, <1>3, <1>4 DEF DrainReturnedFrames, SwapReturns, IgnoreReturn, managed

(* No event of a poll() round revives a camera.                            *)
LEMMA RoundKeepsDeletion ==
    ASSUME TypeInv, PollRound PROVE KeepsDeletion
<1>1. ASSUME NEW c \in Cameras, NEW hangUp, CameraFault(c, hangUp) PROVE KeepsDeletion
  <2>1. CASE UNCHANGED slot
    BY <2>1 DEF KeepsDeletion
  <2>2. CASE slot' = [slot EXCEPT ![c] = Faulted(slot[c], hangUp)] /\ InMap(c)
             /\ slot[c].state \notin {"Deleting", "Error"}
    BY <2>2, OneSlotKeepsDeletion DEF InMap
  <2> QED
    BY <1>1, <2>1, <2>2 DEF CameraFault
<1>2. ASSUME NEW c \in Cameras, NEW b \in Buffers, DequeueFrame(c, b) PROVE KeepsDeletion
  <2>1. CASE slot[c].state = "Streaming"
    BY <1>2, <2>1 DEF DequeueFrame, KeepsDeletion, TypeInv, TypeOK
  <2>2. CASE UNCHANGED slot
    BY <2>2 DEF KeepsDeletion
  <2> QED
    BY <1>2, <2>1, <2>2 DEF DequeueFrame
<1>3. CASE UNCHANGED slot
  BY <1>3 DEF KeepsDeletion
<1> QED
  BY <1>1, <1>2, <1>3
  DEF PollRound, NothingReady, BeginPublish, EndPublish, PostToDecoder, HandleWakeEvent,
      RoundEnds, managed

(* No step of the poll thread revives a camera.                            *)
LEMMA PollThreadKeepsDeletion ==
    ASSUME TypeInv, PollThread PROVE KeepsDeletion
<1>1. CASE CheckRestarts
  BY ZenonT(60), <1>1 DEF CheckRestarts, KeepsDeletion, TypeInv, TypeOK, Slots
<1>2. CASE UNCHANGED slot
  BY <1>2 DEF KeepsDeletion
<1> QED
  BY <1>1, <1>2, ExecuteKeepsDeletion, ReturnKeepsDeletion, RoundKeepsDeletion
  DEF PollThread, RunLoop, SwapCommands, PostFromOutbox, Snapshot, TestWaitPredicate,
      FallAsleep, WaitTimesOut, PollReturns, PollFails, managed

(* No step revives a camera.                                               *)
LEMMA NextKeepsDeletion == TypeInv /\ [Next]_vars => KeepsDeletion
<1> SUFFICES ASSUME TypeInv, [Next]_vars PROVE KeepsDeletion
  OBVIOUS
<1>1. ASSUME NEW p \in Clients, ApiCall(p) \/ ApiContinues(p) PROVE KeepsDeletion
  BY <1>1, ApiKeepsDeletion
<1>2. CASE PollThread
  BY <1>2, PollThreadKeepsDeletion
<1>3. ASSUME NEW c \in Cameras, BackoffElapses(c) PROVE KeepsDeletion
  BY <1>3 DEF BackoffElapses, KeepsDeletion, TypeInv, TypeOK, Slots
<1>4. CASE UNCHANGED slot
  BY <1>4 DEF KeepsDeletion
<1> QED
  BY <1>1, <1>2, <1>3, <1>4
  DEF Next, Downstream, NotifyReturn, ReleaseLease, vars, managed

(* Once delCamera() has marked a camera nothing brings it back: no fault,  *)
(* command, returned frame or deferred start that races with the deletion. *)
THEOREM DeletedForGood == Spec => DeletionIsFinal
<1>1. TypeInv /\ [Next]_vars => [KeepsDeletion]_vars
  BY NextKeepsDeletion
<1> QED
  BY <1>1, TypeInit, TypeNext, PTL DEF Spec, DeletionIsFinal, KeepsDeletion
-----------------------------------------------------------------------------
(* What the poll thread has in hand: a frame while it publishes, cameras   *)
(* in its snapshot during a poll() round. Neither is one that a client     *)
(* erases, as a marked camera never streams again.                         *)
HandsInv ==
    /\ pc \notin {"publish", "publishing"} => frame = NoFrame
    /\ pc \in {"publish", "publishing"} => resume = "round"
    /\ ready # {} =>
           \/ pc \in {"poll", "round", "publish", "publishing"}
           \/ /\ resume = "round"
              /\ pc \in {"swapCommands", "commands", "swapReturns", "returns", "post"}
    /\ \A p \in Clients : api[p].pc \in {"close", "finish", "erase"} =>
           \A c \in api[p].cam : slot[c].state \in {"Deleting", "Erased"}
    /\ ErasedIsInNoHand

(* A step that leaves the poll thread's hands alone, calls aside.          *)
LEMMA HandsClient ==
    ASSUME TypeInv, HandsInv, KeepsDeletion, UNCHANGED <<resume, ready, frame>>,
           \/ pc' = pc
           \/ {pc, pc'} \subseteq {"off", "loop", "cvAgain", "cvWait"},
           \A p \in Clients : api'[p].pc \in {"close", "finish", "erase"} =>
               \/ /\ api[p].pc \in {"close", "finish", "erase"}
                  /\ api'[p].cam = api[p].cam
                  /\ api'[p].pc = "erase" =>
                        api[p].pc = "erase" \/ (pc = "off" /\ api[p].pc = "finish")
               \/ /\ api'[p].pc = "close"
                  /\ \A c \in api'[p].cam : slot'[c].state = "Deleting"
    PROVE  HandsInv'
<1>1. \A p \in Clients : api'[p].cam \subseteq Cameras \/ api'[p].cam = api[p].cam
              \/ \A c \in api'[p].cam : slot'[c].state = "Deleting"
              \/ api'[p].pc \notin {"close", "finish", "erase"}
  OBVIOUS
<1>2. ASSUME NEW p \in Clients, api'[p].pc \in {"close", "finish", "erase"},
             NEW c \in api'[p].cam
      PROVE  slot'[c].state \in {"Deleting", "Erased"}
  BY <1>2 DEF HandsInv, KeepsDeletion, TypeInv, TypeOK, ApiStates
<1>3. ASSUME NEW p \in Clients, api'[p].pc = "erase", NEW c \in api'[p].cam
      PROVE  c \notin ready' /\ frame'.cam # c
  <2>1. c \in api[p].cam /\ c \in Cameras
    BY <1>3 DEF TypeInv, TypeOK, ApiStates
  <2>2. CASE api[p].pc = "erase"
    BY <2>1, <2>2 DEF HandsInv, ErasedIsInNoHand
  <2>3. CASE pc = "off"
    <3>1. ready = {} /\ frame = NoFrame
      BY <2>3 DEF HandsInv
    <3> QED
      BY <2>1, <3>1, CamManagerAssumption DEF NoFrame
  <2> QED
    BY <1>3, <2>2, <2>3
<1>4. /\ pc' \notin {"publish", "publishing"} => frame' = NoFrame
      /\ pc' \in {"publish", "publishing"} => resume' = "round"
      /\ ready' # {} =>
             \/ pc' \in {"poll", "round", "publish", "publishing"}
             \/ /\ resume' = "round"
                /\ pc' \in {"swapCommands", "commands", "swapReturns", "returns", "post"}
  BY DEF HandsInv
<1> QED
  BY <1>2, <1>3, <1>4 DEF HandsInv, ErasedIsInNoHand

(* The calls of the API erase only what is in nobody's hand.               *)
LEMMA HandsApi ==
    ASSUME TypeInv, ThreadInv, HandsInv, NEW p \in Clients,
           ApiCall(p) \/ ApiContinues(p)
    PROVE  HandsInv'
<1> USE DEF TypeInv, TypeOK, ApiStates, locals, mail, life, managed
<1>1. KeepsDeletion
  BY ApiKeepsDeletion
<1>2. CASE \E c \in Cameras : AddCamera(p, c)
  BY <1>1, <1>2, HandsClient DEF AddCamera, Call
<1>3. ASSUME NEW c \in Cameras, DelCamera(p, c) PROVE HandsInv'
  <2>1. \A d \in {c} : slot'[d].state = "Deleting"
    BY <1>3 DEF DelCamera, Slots
  <2>2. UNCHANGED <<pc, resume, ready, frame>>
        /\ api' = [api EXCEPT ![p] = [pc |-> "close", todo |-> {}, cam |-> {c}]]
    BY <1>3 DEF DelCamera, Call
  <2> QED
    BY <1>1, <2>1, <2>2, HandsClient
<1>4. ASSUME UNCHANGED <<resume, ready, frame>>,
             \/ pc' = pc
             \/ {pc, pc'} \subseteq {"off", "loop", "cvAgain", "cvWait"},
             NEW r, api' = [api EXCEPT ![p] = r],
             r.pc \notin {"close", "finish", "erase"}
      PROVE  HandsInv'
  BY <1>1, <1>4, HandsClient
<1>5. ASSUME NEW call, NEW C, RequestControl(p, call, C) PROVE HandsInv'
  BY <1>4, <1>5 DEF RequestControl, Call
<1>6. ASSUME NEW c \in Cameras, NEW call, RequestCameraRecovery(p, c, call)
      PROVE  HandsInv'
  BY <1>4, <1>6 DEF RequestCameraRecovery, Call
<1>7. CASE StartPolling(p) \/ RequestStop(p) \/ ShutdownPolling(p)
  BY <1>4, <1>7 DEF StartPolling, RequestStop, ShutdownPolling, Call
<1>8. CASE CloseHub(p)
  <2>1. /\ UNCHANGED <<pc, resume, ready, frame>> /\ api[p].pc = "close"
        /\ api' = [api EXCEPT ![p].pc = "finish"]
    BY <1>8 DEF CloseHub
  <2> QED
    BY <1>1, <2>1, HandsClient
<1>9. CASE FinishDelete(p)
  <2>1. /\ UNCHANGED <<pc, resume, ready, frame>> /\ api[p].pc = "finish"
    BY <1>9 DEF FinishDelete
  <2>2. CASE ~running /\ api' = [api EXCEPT ![p].pc = "erase"]
    <3>1. pc = "off"
      BY <2>2 DEF ThreadInv, ThreadOnlyWhileRunning
    <3> QED
      BY <1>1, <2>1, <2>2, <3>1, HandsClient
  <2>3. CASE running
    <3>1. PICK r : api' = [api EXCEPT ![p] = r] /\ r.pc = "push"
      BY <1>9, <2>3 DEF FinishDelete
    <3> QED
      BY <1>4, <2>1, <3>1
  <2> QED
    BY <1>9, <2>2, <2>3 DEF FinishDelete
<1>10. CASE EraseDeleted(p)
  BY <1>4, <1>10 DEF EraseDeleted, IdleClient
<1>11. CASE PushCommand(p)
  <2>1. /\ UNCHANGED <<pc, resume, ready, frame>>
        /\ \A q \in Clients : api'[q].pc \in {"close", "finish", "erase"} =>
              api'[q] = api[q]
    BY <1>11 DEF PushCommand
  <2> QED
    BY <1>1, <2>1, HandsClient
<1>12. CASE NotifyPollThread(p)
  <2>1. /\ UNCHANGED <<resume, ready, frame>>
        /\ pc' = pc \/ {pc, pc'} \subseteq {"off", "loop", "cvAgain", "cvWait"}
        /\ \A q \in Clients : api'[q].pc \in {"close", "finish", "erase"} =>
              api'[q] = api[q]
    BY <1>12 DEF NotifyPollThread, Notify
  <2> QED
    BY <1>1, <2>1, HandsClient
<1>13. CASE LaunchPollThread(p) \/ JoinPollThread(p)
  BY <1>4, <1>13 DEF LaunchPollThread, JoinPollThread, IdleClient
<1> QED
  BY <1>2, <1>3, <1>5, <1>6, <1>7, <1>8, <1>9, <1>10, <1>11, <1>12, <1>13
     DEF ApiCall, ApiContinues

(* The poll thread puts only cameras that stream into its snapshot.        *)
LEMMA HandsPoll ==
    ASSUME TypeInv, HandsInv, PollThread PROVE HandsInv'
<1> USE DEF TypeInv, TypeOK, locals, mail, life, managed, others
<1>1. api' = api /\ KeepsDeletion
  BY PollThreadRuns, PollThreadKeepsDeletion
<1>2. ASSUME NEW p \in Clients, api'[p].pc \in {"close", "finish", "erase"},
             NEW c \in api'[p].cam
      PROVE  slot'[c].state \in {"Deleting", "Erased"}
  BY <1>1, <1>2 DEF HandsInv, KeepsDeletion, ApiStates
<1>3. ASSUME /\ pc' \notin {"publish", "publishing"} => frame' = NoFrame
             /\ pc' \in {"publish", "publishing"} => resume' = "round"
             /\ ready' # {} =>
                    \/ pc' \in {"poll", "round", "publish", "publishing"}
                    \/ /\ resume' = "round"
                       /\ pc' \in {"swapCommands", "commands", "swapReturns",
                                   "returns", "post"},
             \/ ready' \subseteq ready
             \/ \A c \in ready' : slot[c].state = "Streaming",
             frame' \in {frame, NoFrame} \/ frame'.cam \in ready
      PROVE  HandsInv'
  <2>1. ASSUME NEW p \in Clients, api'[p].pc = "erase", NEW c \in api'[p].cam
        PROVE  c \notin ready' /\ frame'.cam # c
    <3>1. /\ c \notin ready /\ frame.cam # c /\ c \in Cameras
          /\ slot[c].state \in {"Deleting", "Erased"}
      BY <1>1, <2>1 DEF HandsInv, ErasedIsInNoHand, ApiStates
    <3>2. NoFrame.cam # c
      BY <3>1, CamManagerAssumption DEF NoFrame
    <3> QED
      BY <1>3, <3>1, <3>2
  <2> QED
    BY <1>2, <1>3, <2>1 DEF HandsInv, ErasedIsInNoHand
<1>4. ASSUME UNCHANGED <<resume, ready, frame>>,
             \/ pc' = pc
             \/ /\ pc \notin {"poll", "round", "publish", "publishing"}
                /\ pc' \in {"swapCommands", "commands", "swapReturns", "returns",
                            "post", resume}
                /\ pc \in {"swapCommands", "commands", "swapReturns", "returns", "post"}
             \/ ready = {} /\ {pc, pc'} \cap {"publish", "publishing"} = {}
      PROVE  HandsInv'
  <2>1. resume \in {"check", "snapshot", "round"}
    OBVIOUS
  <2> QED
    BY <1>3, <1>4, <2>1 DEF HandsInv
<1>5. CASE RunLoop
  <2>1. ready = {} /\ frame = NoFrame /\ pc' \in {"off", "swapCommands"}
        /\ UNCHANGED <<ready, frame>>
    BY <1>5 DEF RunLoop, HandsInv
  <2> QED
    BY <1>3, <2>1
<1>6. CASE SwapCommands
  BY <1>4, <1>6 DEF SwapCommands
<1>7. CASE ExecuteCommand
  <2>1. PICK t \in CommandTypes : Execute(t)
    BY <1>7 DEF ExecuteCommand, ExecuteDelete, ExecuteStartDeferred, ExecuteStartAdopt,
       ExecuteStart, ExecuteStop, ExecuteProcessError, ExecuteRestart,
       ExecuteForGoneCamera, ExecuteStale, CommandTypes
  <2> QED
    BY <1>4, <2>1 DEF Execute
<1>8. CASE DrainReturnedFrames
  <2>1. CASE SwapReturns
    BY <1>4, <2>1 DEF SwapReturns
  <2>2. ASSUME NEW cmds, TakeReturn(cmds) PROVE HandsInv'
    BY <1>4, <2>2 DEF TakeReturn
  <2> QED
    BY <1>8, <2>1, <2>2 DEF DrainReturnedFrames, IgnoreReturn, CountReturn,
       RequeueReturn, RequeueFails
<1>9. CASE PostFromOutbox
  BY <1>4, <1>9 DEF PostFromOutbox, PostThen
<1>10. CASE CheckRestarts
  <2>1. ready = {} /\ frame = NoFrame /\ pc' \in {"post", "snapshot"}
        /\ UNCHANGED <<ready, frame>>
    BY <1>10 DEF CheckRestarts, PostThen, HandsInv
  <2> QED
    BY <1>3, <2>1
<1>11. CASE Snapshot
  <2>1. frame = NoFrame /\ frame' = frame /\ ready' = Pollable
        /\ pc' = IF ready' = {} THEN "cvFirst" ELSE "poll"
    BY <1>11 DEF Snapshot, HandsInv
  <2>2. \A c \in ready' : slot[c].state = "Streaming"
    BY <2>1 DEF Pollable
  <2> QED
    BY <1>3, <2>1, <2>2
<1>12. CASE TestWaitPredicate \/ FallAsleep \/ WaitTimesOut
  BY <1>4, <1>12 DEF TestWaitPredicate, FallAsleep, WaitTimesOut, HandsInv
<1>13. CASE PollReturns \/ PollFails
  <2>1. frame = NoFrame /\ frame' = frame /\ ready' \in {ready, {}}
        /\ (ready' = {} \/ pc' = "round") /\ pc' \in {"round", "off", "loop"}
    BY <1>13 DEF PollReturns, PollFails, HandsInv
  <2> QED
    BY <1>3, <2>1
<1>14. CASE PollRound
  <2>1. ASSUME NEW c \in Cameras, NothingReady(c) PROVE HandsInv'
    BY <1>3, <2>1 DEF NothingReady, NextFd, HandsInv
  <2>2. ASSUME NEW c \in Cameras, NEW hangUp, CameraFault(c, hangUp) PROVE HandsInv'
    <3>1. /\ frame = NoFrame /\ frame' = frame /\ ready' \subseteq ready
          /\ resume' = "round" /\ pc' \in {"round", "post"}
      BY <2>2 DEF CameraFault, NextFd, PostThen, HandsInv
    <3> QED
      BY <1>3, <3>1
  <2>3. ASSUME NEW c \in Cameras, NEW b \in Buffers, DequeueFrame(c, b)
        PROVE  HandsInv'
    <3>1. /\ frame = NoFrame /\ ready' \subseteq ready /\ c \in ready
          /\ resume' = "round"
          /\ \/ pc' = "publish" /\ frame'.cam = c
             \/ pc' = "swapReturns" /\ frame' = frame
      BY <2>3 DEF DequeueFrame, NextFd, HandsInv
    <3> QED
      BY <1>3, <3>1
  <2>4. CASE BeginPublish \/ EndPublish \/ PostToDecoder
    <3>1. /\ resume = "round" /\ resume' = "round" /\ ready' = ready
          /\ \/ pc' = "publishing" /\ frame' = frame
             \/ pc' \in {"swapReturns", "round"} /\ frame' = NoFrame
      BY <2>4 DEF BeginPublish, EndPublish, PostToDecoder, HandsInv
    <3> QED
      BY <1>3, <3>1
  <2>5. CASE HandleWakeEvent \/ RoundEnds
    <3>1. /\ frame = NoFrame /\ frame' = frame /\ ready' = {} /\ ready = {}
          /\ pc' \in {"swapCommands", "loop"}
      BY <2>5 DEF HandleWakeEvent, RoundEnds, HandsInv
    <3> QED
      BY <1>3, <3>1
  <2> QED
    BY <1>14, <2>1, <2>2, <2>3, <2>4, <2>5 DEF PollRound
<1> QED
  BY <1>5, <1>6, <1>7, <1>8, <1>9, <1>10, <1>11, <1>12, <1>13, <1>14 DEF PollThread

LEMMA HandsNext == TypeInv /\ ThreadInv /\ HandsInv /\ [Next]_vars => HandsInv'
<1> SUFFICES ASSUME TypeInv, ThreadInv, HandsInv, [Next]_vars PROVE HandsInv'
  OBVIOUS
<1>1. KeepsDeletion
  BY NextKeepsDeletion
<1>2. ASSUME NEW p \in Clients, ApiCall(p) \/ ApiContinues(p) PROVE HandsInv'
  BY <1>2, HandsApi
<1>3. CASE PollThread
  BY <1>3, HandsPoll
<1>4. ASSUME NEW s \in Sinks, Downstream(s) PROVE HandsInv'
  <2>1. /\ UNCHANGED <<resume, ready, frame, api>>
        /\ pc' = pc \/ {pc, pc'} \subseteq {"off", "loop", "cvAgain", "cvWait"}
    BY <1>4 DEF Downstream, NotifyReturn, ReleaseLease, Notify, locals
  <2> QED
    BY <1>1, <2>1, HandsClient
<1>5. ASSUME NEW c \in Cameras, BackoffElapses(c) PROVE HandsInv'
  <2>1. UNCHANGED <<pc, resume, ready, frame, api>>
    BY <1>5 DEF BackoffElapses, locals, others
  <2> QED
    BY <1>1, <2>1, HandsClient
<1>6. CASE UNCHANGED vars
  <2>1. UNCHANGED <<pc, resume, ready, frame, api>>
    BY <1>6 DEF vars, locals, others
  <2> QED
    BY <1>1, <2>1, HandsClient
<1> QED
  BY <1>2, <1>3, <1>4, <1>5, <1>6 DEF Next

(* delCamera() may destroy a slot itself when it has found m_running       *)
(* false: no poll thread is then at work on it, nor does one that is       *)
(* launched before the erasure, whatever calls race with each other.       *)
THEOREM NoThreadUnlessRunning == Spec => []NotRunningMeansNoThread
<1> DEFINE Inv == TypeInv /\ ThreadInv /\ HandsInv
<1>1. Init => ThreadInv
  BY DEF Init, ThreadInv, ThreadOnlyWhileRunning, IdleClient, ThreadSection
<1>2. Init => HandsInv
  BY DEF Init, HandsInv, ErasedIsInNoHand, IdleClient
<1>3. Inv => NotRunningMeansNoThread
  BY DEF ThreadInv, HandsInv, NotRunningMeansNoThread
<1>4. Inv /\ [Next]_vars => Inv'
  BY TypeNext, ThreadNext, HandsNext
<1> QED
  BY <1>1, <1>2, <1>3, <1>4, TypeInit, PTL DEF Spec
-----------------------------------------------------------------------------
(* Where a camera may be erased, its hub is closed already.                *)
Doomed(cmd) == cmd.type = "DeleteCamera" => hub[cmd.cam] = "Closed"

(* Where a client has closed the hub of a camera it is to erase.           *)
Erasing == {"finish", "erase"}

HubInv ==
    /\ NoFrameAfterDelete
    /\ \A p \in Clients : api[p].pc \in Erasing =>
           \A c \in api[p].cam : hub[c] = "Closed"
    /\ \A p \in Clients : \A cmd \in api[p].todo : Doomed(cmd)
    /\ \A i \in 1 .. Len(cmdQueue) : Doomed(cmdQueue[i])
    /\ \A i \in 1 .. Len(batch) : Doomed(batch[i])
    /\ \A cmd \in outbox : cmd.type # "DeleteCamera"

(* A step that neither erases a camera nor touches the hubs, the commands  *)
(* or the frame being published keeps all of it.                           *)
LEMMA HubFrame ==
    ASSUME HubInv, UNCHANGED <<hub, cmdQueue, batch>>,
           \/ api' = api
           \/ \E p \in Clients : \E r :
                 /\ api' = [api EXCEPT ![p] = r]
                 /\ r.pc \notin Erasing
                 /\ \A cmd \in r.todo : Doomed(cmd),
           outbox' = outbox \/ \A cmd \in outbox' : cmd.type # "DeleteCamera",
           TypeInv,
           \A c \in Cameras : slot'[c].state = "Erased" => slot[c].state = "Erased",
           pc' = "publishing" => pc = "publishing" /\ frame' = frame
    PROVE  HubInv'
<1>1. NoFrameAfterDelete'
  BY DEF HubInv, NoFrameAfterDelete
<1>2. /\ \A p \in Clients : api'[p].pc \in Erasing => \A c \in api'[p].cam : hub'[c] = "Closed"
      /\ \A p \in Clients : \A cmd \in api'[p].todo : Doomed(cmd)'
  <2>1. CASE api' = api
    BY <2>1 DEF HubInv, Doomed
  <2>2. ASSUME NEW p \in Clients, NEW r, api' = [api EXCEPT ![p] = r], r.pc \notin Erasing,
               \A cmd \in r.todo : Doomed(cmd)
        PROVE  <1>2!1 /\ <1>2!2
    BY <2>2 DEF HubInv, Doomed, TypeInv, TypeOK
  <2> QED
    BY <2>1, <2>2
<1>3. /\ \A i \in 1 .. Len(cmdQueue') : Doomed(cmdQueue[i])'
      /\ \A i \in 1 .. Len(batch') : Doomed(batch[i])'
      /\ \A cmd \in outbox' : cmd.type # "DeleteCamera"
  BY DEF HubInv, Doomed
<1> QED
  BY <1>1, <1>2, <1>3 DEF HubInv

(* The states the updates of a slot give.                                  *)
LEMMA UpdatedStates ==
    ASSUME NEW s \in Slots
    PROVE  /\ \A r \in BOOLEAN : Faulted(s, r).state = "Error"
           /\ Retrying(s).state = "Error"
           /\ AfterFailedStart(s).state = "Error"
           /\ AfterFailedRestart(s).state = "Error"
           /\ Halted(s).state = "Stopped"
           /\ NewRound(Settled(s)).state = "Streaming"
           /\ Running(s).state = "Streaming"
           /\ Returned(s).state = s.state
<1> USE DEF Slots
<1>1. \A r \in BOOLEAN : Faulted(s, r).state = "Error"
  BY DEF Faulted, NewRound
<1>2. Retrying(s).state = "Error"
  BY DEF Retrying, BackedOff
<1>3. AfterFailedStart(s).state = "Error"
  BY DEF AfterFailedStart, NewRound, NoStart, Retrying, BackedOff
<1>4. AfterFailedRestart(s).state = "Error"
  BY DEF AfterFailedRestart, Retrying, BackedOff
<1>5. Halted(s).state = "Stopped"
  BY DEF Halted, NewRound, NoStart, NoRestart
<1>6. NewRound(Settled(s)).state = "Streaming"
  BY DEF NewRound, Settled, NoStart, NoRestart
<1>7. Running(s).state = "Streaming"
  BY DEF Running, Settled, NoStart, NoRestart
<1>8. Returned(s).state = s.state
  BY DEF Returned
<1> QED
  BY <1>1, <1>2, <1>3, <1>4, <1>5, <1>6, <1>7, <1>8

ErasesNone ==
    \A c \in Cameras : slot'[c].state = "Erased" => slot[c].state = "Erased"

(* A step that changes one slot, not to Erased, erases none.               *)
LEMMA OneSlotErasesNone ==
    ASSUME TypeInv, NEW c \in Cameras, NEW s, slot' = [slot EXCEPT ![c] = s],
           s.state # "Erased" \/ s.state = slot[c].state
    PROVE  ErasesNone
BY DEF TypeInv, TypeOK, ErasesNone

(* A step that changes no slot erases none.                                *)
LEMMA SameSlotsEraseNone == UNCHANGED slot => ErasesNone
BY DEF ErasesNone

(* Of the commands only DeleteCamera erases.                               *)
LEMMA ExecuteErasesNone ==
    ASSUME TypeInv, ExecuteCommand, ~ExecuteDelete PROVE ErasesNone
<1> DEFINE c == Head(batch).cam
<1>1. batch # <<>> \/ UNCHANGED slot
  BY DEF ExecuteCommand, ExecuteForGoneCamera, ExecuteStale, ExecuteStartDeferred,
     ExecuteStartAdopt, ExecuteStart, ExecuteStop, ExecuteProcessError, ExecuteRestart,
     Execute
<1>2. CASE UNCHANGED slot
  BY <1>2, SameSlotsEraseNone
<1>3. CASE batch # <<>>
  <2>1. c \in Cameras /\ slot[c] \in Slots
    BY <1>3, HeadType
  <2>2. CASE ExecuteStartDeferred
    BY <2>1, <2>2 DEF ExecuteStartDeferred, ErasesNone, TypeInv, TypeOK, Slots
  <2>3. CASE ExecuteStartAdopt
    BY <2>1, <2>3, UpdatedStates, OneSlotErasesNone DEF ExecuteStartAdopt
  <2>4. CASE ExecuteStart
    <3>1. \/ slot' = [slot EXCEPT ![c] = Running(slot[c])]
          \/ slot' = [slot EXCEPT ![c] = AfterFailedStart(slot[c])]
      BY <2>4 DEF ExecuteStart
    <3> QED
      BY <2>1, <3>1, UpdatedStates, OneSlotErasesNone
  <2>5. CASE ExecuteStop \/ ExecuteProcessError
    BY <2>1, <2>5, UpdatedStates, OneSlotErasesNone DEF ExecuteStop, ExecuteProcessError
  <2>6. CASE ExecuteRestart
    <3>1. \/ slot' = [slot EXCEPT ![c].restartQueued = FALSE]
          \/ slot' = [slot EXCEPT ![c] = Running(slot[c])]
          \/ slot' = [slot EXCEPT ![c] = AfterFailedRestart(slot[c])]
      BY <2>6 DEF ExecuteRestart
    <3>2. CASE slot' = [slot EXCEPT ![c].restartQueued = FALSE]
      BY <2>1, <3>2 DEF ErasesNone, TypeInv, TypeOK, Slots
    <3> QED
      BY <2>1, <3>1, <3>2, UpdatedStates, OneSlotErasesNone
  <2>7. CASE \E t \in CommandTypes : ExecuteForGoneCamera(t) \/ ExecuteStale(t)
    BY <2>7, SameSlotsEraseNone DEF ExecuteForGoneCamera, ExecuteStale
  <2> QED
    BY <2>2, <2>3, <2>4, <2>5, <2>6, <2>7 DEF ExecuteCommand
<1> QED
  BY SMTT(40), <1>1, <1>2, <1>3

(* No returned frame erases a camera.                                      *)
LEMMA ReturnErasesNone ==
    ASSUME TypeInv, DrainReturnedFrames PROVE ErasesNone
<1> DEFINE c == Head(returned).cam
<1>1. CASE CountReturn \/ RequeueReturn \/ RequeueFails
  <2>1. pc = "returns"
    BY <1>1 DEF CountReturn, RequeueReturn, RequeueFails, TakeReturn
  <2>2. c \in Cameras /\ slot[c] \in Slots
    BY <2>1, ReturnedHeadType
  <2>3. \/ slot' = [slot EXCEPT ![c] = Returned(slot[c])]
        \/ slot' = [slot EXCEPT ![c] = Faulted(Returned(slot[c]), TRUE)]
    BY <1>1 DEF CountReturn, RequeueReturn, RequeueFails
  <2>4. Returned(slot[c]).state = slot[c].state
    BY <2>2, UpdatedStates
  <2>5. Faulted(Returned(slot[c]), TRUE).state = "Error"
    BY <2>2, ReturnedType, UpdatedStates
  <2> QED
    BY <2>2, <2>3, <2>4, <2>5, OneSlotErasesNone
<1> QED
  BY <1>1, SameSlotsEraseNone DEF DrainReturnedFrames, SwapReturns, IgnoreReturn, managed

(* No event of a poll() round erases a camera.                             *)
LEMMA RoundErasesNone ==
    ASSUME TypeInv, PollRound PROVE ErasesNone
<1>1. ASSUME NEW c \in Cameras, NEW hangUp \in BOOLEAN, CameraFault(c, hangUp)
      PROVE  ErasesNone
  <2>1. slot' = slot \/ slot' = [slot EXCEPT ![c] = Faulted(slot[c], hangUp)]
    BY <1>1 DEF CameraFault
  <2>2. Faulted(slot[c], hangUp).state = "Error"
    BY UpdatedStates DEF TypeInv, TypeOK
  <2> QED
    BY <2>1, <2>2, SameSlotsEraseNone, OneSlotErasesNone
<1>2. ASSUME NEW c \in Cameras, NEW b \in Buffers, DequeueFrame(c, b) PROVE ErasesNone
  BY ZenonT(60), <1>2 DEF DequeueFrame, ErasesNone, TypeInv, TypeOK, Slots
<1> QED
  BY <1>1, <1>2, SameSlotsEraseNone
  DEF PollRound, NothingReady, BeginPublish, EndPublish, PostToDecoder, HandleWakeEvent,
      RoundEnds, managed

(* The same for a step of a client, that continues at q with commands todo.*)
LEMMA HubClient ==
    ASSUME TypeInv, HubInv, NEW p \in Clients, NEW q, NEW todo, NEW cams,
           api' = [api EXCEPT ![p] = [pc |-> q, todo |-> todo, cam |-> cams]],
           q \notin Erasing, \A cmd \in todo : Doomed(cmd),
           UNCHANGED <<hub, cmdQueue, batch, outbox, pc, frame>>, ErasesNone
    PROVE  HubInv'
<1> DEFINE r == [pc |-> q, todo |-> todo, cam |-> cams]
<1>1. r.pc \notin Erasing /\ \A cmd \in r.todo : Doomed(cmd)
  OBVIOUS
<1>2. api' = [api EXCEPT ![p] = r]
  OBVIOUS
<1> HIDE DEF r
<1> QED
  BY <1>1, <1>2, HubFrame DEF ErasesNone

(* The same for a client with nothing to post.                             *)
LEMMA HubClientPostsNone ==
    ASSUME TypeInv, HubInv, NEW p \in Clients, NEW q, NEW cams,
           api' = [api EXCEPT ![p] = [pc |-> q, todo |-> {}, cam |-> cams]],
           q \notin Erasing,
           UNCHANGED <<hub, cmdQueue, batch, outbox, pc, frame>>, ErasesNone
    PROVE  HubInv'
<1> DEFINE todo == {}
<1>1. \A cmd \in todo : Doomed(cmd)
  OBVIOUS
<1>2. api' = [api EXCEPT ![p] = [pc |-> q, todo |-> todo, cam |-> cams]]
  OBVIOUS
<1> HIDE DEF todo
<1> QED
  BY <1>1, <1>2, HubClient

(* The calls of the API keep the hub invariant.                            *)
LEMMA HubApiCall ==
    ASSUME TypeInv, HubInv, NEW p \in Clients, ApiCall(p) PROVE HubInv'
<1>1. ASSUME NEW c \in Cameras, AddCamera(p, c) PROVE HubInv'
  <2>1. UNCHANGED <<hub, cmdQueue, batch, outbox, pc, frame>>
    BY <1>1 DEF AddCamera, mail, locals
  <2>2. api' = [api EXCEPT ![p] = [pc |-> "idle", todo |-> {}, cam |-> {}]]
    BY <1>1 DEF AddCamera, Call
  <2>3. FreshSlot("Ready").state # "Erased"
    BY DEF FreshSlot
  <2>4. ErasesNone
    BY <1>1, <2>3, OneSlotErasesNone DEF AddCamera
  <2>5. "idle" \notin Erasing
    BY DEF Erasing
  <2> QED
    BY <2>1, <2>2, <2>4, <2>5, HubClientPostsNone
<1>2. ASSUME NEW c \in Cameras, DelCamera(p, c) PROVE HubInv'
  <2>1. UNCHANGED <<hub, cmdQueue, batch, outbox, pc, frame>>
    BY <1>2 DEF DelCamera, mail, locals
  <2>2. api' = [api EXCEPT ![p] = [pc |-> "close", todo |-> {}, cam |-> {c}]]
    BY <1>2 DEF DelCamera, Call
  <2>3. ErasesNone
    BY <1>2 DEF DelCamera, ErasesNone, TypeInv, TypeOK, Slots
  <2>4. "close" \notin Erasing
    BY DEF Erasing
  <2> QED
    BY <2>1, <2>2, <2>3, <2>4, HubClientPostsNone
<1>3. ASSUME NEW call \in {"start", "stop"}, NEW C \in SUBSET Cameras,
             RequestControl(p, call, C)
      PROVE  HubInv'
  <2> DEFINE todo == {Command(IF call = "start" THEN "StartCamera" ELSE "StopCamera", c, 0)
                         : c \in C}
  <2>1. UNCHANGED <<hub, cmdQueue, batch, outbox, pc, frame>> /\ ErasesNone
    BY <1>3, SameSlotsEraseNone DEF RequestControl, mail, locals, managed
  <2>2. api' = [api EXCEPT ![p] = [pc |-> "push", todo |-> todo, cam |-> {}]]
    BY <1>3 DEF RequestControl, Call
  <2>3. \A cmd \in todo : Doomed(cmd)
    BY DEF Doomed, Command
  <2> HIDE DEF todo
  <2> QED
    BY <2>1, <2>2, <2>3, HubClient DEF Erasing
<1>4. ASSUME NEW c \in Cameras, NEW call \in {"recover", "reopen"},
             RequestCameraRecovery(p, c, call)
      PROVE  HubInv'
  <2> DEFINE todo == {ErrorCommand(c)}
             s == Faulted(slot[c], call = "reopen")
  <2>1. UNCHANGED <<hub, cmdQueue, batch, outbox, pc, frame>>
    BY <1>4 DEF RequestCameraRecovery, mail, locals
  <2>2. api' = [api EXCEPT ![p] = [pc |-> "push", todo |-> todo, cam |-> {}]]
    BY <1>4 DEF RequestCameraRecovery, Call
  <2>3. \A cmd \in todo : Doomed(cmd)
    BY DEF Doomed, ErrorCommand, Command
  <2>4. ErasesNone
    <3>1. s.state = "Error"
      <4> DEFINE r == call = "reopen"
      <4>1. r \in BOOLEAN
        OBVIOUS
      <4>2. Faulted(slot[c], r).state = "Error"
        <5> HIDE DEF r
        <5> QED  BY <4>1, UpdatedStates DEF TypeInv, TypeOK
      <4> QED
        BY <4>2
    <3>2. slot' = [slot EXCEPT ![c] = s]
      BY <1>4 DEF RequestCameraRecovery
    <3> HIDE DEF s
    <3> QED
      BY <3>1, <3>2, OneSlotErasesNone
  <2> HIDE DEF todo
  <2> QED
    BY <2>1, <2>2, <2>3, <2>4, HubClient DEF Erasing
<1>5. CASE StartPolling(p) \/ RequestStop(p) \/ ShutdownPolling(p)
  <2>1. UNCHANGED <<hub, cmdQueue, batch, outbox, pc, frame>> /\ ErasesNone
    BY <1>5, SameSlotsEraseNone DEF StartPolling, RequestStop, ShutdownPolling, mail,
       locals, managed
  <2>2. PICK q : api' = [api EXCEPT ![p] = [pc |-> q, todo |-> {}, cam |-> {}]]
                 /\ q \notin Erasing
    BY <1>5 DEF StartPolling, RequestStop, ShutdownPolling, Call, Erasing
  <2> QED
    BY <2>1, <2>2, HubClientPostsNone
<1> QED
  BY <1>1, <1>2, <1>3, <1>4, <1>5 DEF ApiCall

(* The later sections of the calls keep the hub invariant.                 *)
LEMMA HubApiContinues ==
    ASSUME TypeInv, HubInv, NEW p \in Clients, ApiContinues(p) PROVE HubInv'
<1> USE DEF TypeInv, TypeOK, ApiStates
<1>1. CASE CloseHub(p)
  <2>1. /\ UNCHANGED <<slot, cmdQueue, batch, outbox, pc, frame>>
        /\ hub' = [c \in Cameras |-> IF c \in api[p].cam THEN "Closed" ELSE hub[c]]
        /\ api' = [api EXCEPT ![p].pc = "finish"]
        /\ \A c \in api[p].cam : ~(pc = "publishing" /\ frame.cam = c)
    BY <1>1 DEF CloseHub, mail, locals
  <2>2. /\ \A c \in Cameras : hub[c] = "Closed" => hub'[c] = "Closed"
        /\ api[p].cam \subseteq Cameras
        /\ \A c \in api[p].cam : hub'[c] = "Closed"
        /\ pc = "publishing" => frame.cam \in Cameras /\ hub'[frame.cam] = hub[frame.cam]
    BY <2>1 DEF Located, Leases
  <2>3. NoFrameAfterDelete'
    BY <2>1, <2>2 DEF HubInv, NoFrameAfterDelete
  <2>4. \A cmd \in Commands : Doomed(cmd) => Doomed(cmd)'
    BY <2>2 DEF Doomed, Commands
  <2>5. \A q \in Clients : api'[q].pc \in Erasing => \A c \in api'[q].cam : hub'[c] = "Closed"
    BY <2>1, <2>2 DEF HubInv
  <2>6. \A q \in Clients : \A cmd \in api'[q].todo : Doomed(cmd)'
    <3>1. \A q \in Clients : api'[q].todo = api[q].todo /\ api[q].todo \subseteq Commands
      BY <2>1
    <3> QED
      BY <2>4, <3>1 DEF HubInv
  <2>7. /\ \A i \in 1 .. Len(cmdQueue') : Doomed(cmdQueue[i])'
        /\ \A i \in 1 .. Len(batch') : Doomed(batch[i])'
    <3>1. /\ \A i \in 1 .. Len(cmdQueue) : cmdQueue[i] \in Commands
          /\ \A i \in 1 .. Len(batch) : batch[i] \in Commands
      OBVIOUS
    <3> QED
      BY <2>1, <2>4, <3>1 DEF HubInv
  <2> QED
    BY <2>1, <2>3, <2>5, <2>6, <2>7 DEF HubInv
<1>2. CASE FinishDelete(p)
  <2>1. UNCHANGED <<hub, slot, cmdQueue, batch, outbox, pc, frame>>
    BY <1>2 DEF FinishDelete, managed, mail, locals
  <2>2. api[p].pc \in Erasing /\ \A c \in api[p].cam : hub[c] = "Closed"
    BY <1>2 DEF FinishDelete, HubInv, Erasing
  <2>3. CASE api' = [api EXCEPT ![p].pc = "erase"]
    <3>1. /\ \A q \in Clients : api'[q].pc \in Erasing => api[q].pc \in Erasing
          /\ \A q \in Clients : api'[q].cam = api[q].cam /\ api'[q].todo = api[q].todo
      BY <2>2, <2>3
    <3> QED
      BY <2>1, <3>1 DEF HubInv, NoFrameAfterDelete, Doomed
  <2>4. CASE api' = [api EXCEPT ![p] =
                [pc |-> "push",
                 todo |-> {Command("DeleteCamera", c, 0) : c \in api[p].cam},
                 cam |-> {}]]
    <3> DEFINE todo == {Command("DeleteCamera", c, 0) : c \in api[p].cam}
    <3>1. \A cmd \in todo : Doomed(cmd)
      BY <2>2 DEF Doomed, Command
    <3>2. api' = [api EXCEPT ![p] = [pc |-> "push", todo |-> todo, cam |-> {}]]
      BY <2>4
    <3>3. ErasesNone
      BY <2>1, SameSlotsEraseNone
    <3> HIDE DEF todo
    <3>4. TypeInv
      OBVIOUS
    <3>5. "push" \notin Erasing
      BY DEF Erasing
    <3> QED
      BY <2>1, <3>1, <3>2, <3>3, <3>4, <3>5, HubClient
  <2> QED
    BY <1>2, <2>3, <2>4 DEF FinishDelete
<1>5. CASE EraseDeleted(p)
  <2>1. UNCHANGED <<hub, cmdQueue, batch, outbox, pc, frame>>
        /\ Erase(api[p].cam) /\ api' = [api EXCEPT ![p] = IdleClient]
    BY <1>5 DEF EraseDeleted, mail, locals
  <2>2. \A c \in api[p].cam : hub[c] = "Closed"
    BY <1>5 DEF EraseDeleted, HubInv, Erasing
  <2>3. NoFrameAfterDelete'
    BY <2>1, <2>2 DEF Erase, HubInv, NoFrameAfterDelete
  <2>4. /\ \A q \in Clients : api'[q].pc \in Erasing => \A c \in api'[q].cam : hub'[c] = "Closed"
        /\ \A q \in Clients : \A cmd \in api'[q].todo : Doomed(cmd)'
    BY <2>1 DEF HubInv, IdleClient, Doomed
  <2> QED
    BY <2>1, <2>3, <2>4 DEF HubInv, Doomed
<1>3. CASE PushCommand(p)
  <2>1. PICK cmd \in api[p].todo :
            /\ cmdQueue' = Append(cmdQueue, cmd)
            /\ api' = [api EXCEPT ![p].todo = @ \ {cmd}, ![p].pc = "notify"]
    BY <1>3 DEF PushCommand
  <2>2. UNCHANGED <<hub, slot, batch, outbox, pc, frame>>
    BY <1>3 DEF PushCommand, managed, locals
  <2>3. Doomed(cmd) /\ cmd \in Commands
    BY DEF HubInv
  <2>4. \A i \in 1 .. Len(cmdQueue') : Doomed(cmdQueue'[i])
    BY <2>1, <2>3 DEF HubInv
  <2>5. /\ \A q \in Clients : api'[q].pc \in Erasing => api[q].pc \in Erasing
                                                       /\ api'[q].cam = api[q].cam
        /\ \A q \in Clients : api'[q].todo \subseteq api[q].todo
    BY <2>1 DEF Erasing
  <2> QED
    BY <2>2, <2>4, <2>5 DEF HubInv, NoFrameAfterDelete, Doomed
<1>4. CASE NotifyPollThread(p) \/ LaunchPollThread(p) \/ JoinPollThread(p)
  <2>1. UNCHANGED <<hub, slot, cmdQueue, batch, outbox, frame>>
        /\ (pc' = "publishing" => pc = "publishing")
    BY <1>4 DEF NotifyPollThread, LaunchPollThread, JoinPollThread, Notify, managed, mail,
       locals
  <2>2. /\ \A q \in Clients : api'[q].pc \in Erasing => api[q].pc \in Erasing
                                                       /\ api'[q].cam = api[q].cam
        /\ \A q \in Clients : api'[q].todo \subseteq api[q].todo
    <3>1. CASE NotifyPollThread(p)
      BY <3>1 DEF NotifyPollThread, Erasing
    <3>2. CASE api' = [api EXCEPT ![p] = IdleClient]
      BY <3>2 DEF IdleClient, Erasing
    <3> QED
      BY <1>4, <3>1, <3>2 DEF LaunchPollThread, JoinPollThread
  <2> QED
    BY <2>1, <2>2 DEF HubInv, NoFrameAfterDelete, Doomed
<1> QED
  BY <1>1, <1>2, <1>3, <1>4, <1>5 DEF ApiContinues

(* A step of the poll thread or of a sink that posts no deletion.          *)
LEMMA HubQuiet ==
    ASSUME TypeInv, HubInv, ErasesNone, UNCHANGED <<hub, api>>,
           cmdQueue' = cmdQueue
               \/ \E cmd : cmd.type # "DeleteCamera" /\ cmdQueue' = Append(cmdQueue, cmd)
                           /\ cmd \in Commands,
           batch' = batch \/ (batch # <<>> /\ batch' = Tail(batch)),
           \A cmd \in outbox' : cmd.type # "DeleteCamera",
           pc' = "publishing" => /\ pc = "publishing" \/ hub[frame.cam] = "Open"
                                 /\ frame' = frame
    PROVE  HubInv'
<1>1. NoFrameAfterDelete'
  BY DEF HubInv, NoFrameAfterDelete, ErasesNone
<1>2. /\ \A p \in Clients : api'[p].pc \in Erasing => \A c \in api'[p].cam : hub'[c] = "Closed"
      /\ \A p \in Clients : \A cmd \in api'[p].todo : Doomed(cmd)'
  BY DEF HubInv, Doomed
<1>3. \A i \in 1 .. Len(cmdQueue') : Doomed(cmdQueue[i])'
  <2>1. CASE cmdQueue' = cmdQueue
    BY <2>1 DEF HubInv, Doomed
  <2>2. ASSUME NEW cmd \in Commands, cmd.type # "DeleteCamera",
               cmdQueue' = Append(cmdQueue, cmd)
        PROVE  <1>3!:
    BY <2>2 DEF HubInv, Doomed, TypeInv, TypeOK
  <2> QED
    BY <2>1, <2>2
<1>4. \A i \in 1 .. Len(batch') : Doomed(batch[i])'
  <2>1. CASE batch' = batch
    BY <2>1 DEF HubInv, Doomed
  <2>2. CASE batch # <<>> /\ batch' = Tail(batch)
    <3>1. batch \in Seq(Commands)
      BY DEF TypeInv, TypeOK
    <3>2. Len(batch') = Len(batch) - 1 /\ \A i \in 1 .. Len(batch') : batch'[i] = batch[i + 1]
      BY <2>2, <3>1
    <3>3. \A i \in 1 .. Len(batch') : i + 1 \in 1 .. Len(batch)
      BY <3>1, <3>2
    <3> QED
      BY <3>2, <3>3 DEF HubInv, Doomed
  <2> QED
    BY <2>1, <2>2
<1> QED
  BY <1>1, <1>2, <1>3, <1>4 DEF HubInv

(* The commands keep it: DeleteCamera finds the hub closed.                *)
LEMMA HubExecute ==
    ASSUME TypeInv, HubInv, ExecuteCommand PROVE HubInv'
<1>1. PICK t \in CommandTypes : Execute(t)
  BY DEF ExecuteCommand, ExecuteDelete, ExecuteStartDeferred, ExecuteStartAdopt,
     ExecuteStart, ExecuteStop, ExecuteProcessError, ExecuteRestart,
     ExecuteForGoneCamera, ExecuteStale, CommandTypes
<1>2. /\ UNCHANGED <<hub, api, cmdQueue, outbox, pc, frame>>
      /\ batch # <<>> /\ batch' = Tail(batch)
  BY <1>1 DEF Execute, mail, others
<1>3. CASE ~ExecuteDelete
  BY <1>2, <1>3, ExecuteErasesNone, HubQuiet DEF HubInv, NoFrameAfterDelete
<1>4. CASE ExecuteDelete
  <2> DEFINE c == Head(batch).cam
  <2>1. Head(batch).type = "DeleteCamera" /\ Head(batch) = batch[1] /\ 1 \in 1 .. Len(batch)
    BY <1>2, <1>4 DEF ExecuteDelete, Execute, TypeInv, TypeOK
  <2>2. hub[c] = "Closed"
    BY <2>1 DEF HubInv, Doomed
  <2>3. \A d \in Cameras : slot'[d].state = "Erased" => d = c \/ slot[d].state = "Erased"
    BY <1>4 DEF ExecuteDelete, Erase
  <2>4. \A i \in 1 .. Len(batch') : Doomed(batch[i])'
    <3>1. batch \in Seq(Commands)
      BY DEF TypeInv, TypeOK
    <3>2. Len(batch') = Len(batch) - 1 /\ \A i \in 1 .. Len(batch') : batch'[i] = batch[i + 1]
      BY <1>2, <3>1
    <3>3. \A i \in 1 .. Len(batch') : i + 1 \in 1 .. Len(batch)
      BY <3>1, <3>2
    <3> QED
      BY <1>2, <3>2, <3>3 DEF HubInv, Doomed
  <2> QED
    BY <1>2, <2>2, <2>3, <2>4 DEF HubInv, NoFrameAfterDelete, Doomed
<1> QED
  BY SMTT(40), <1>3, <1>4

(* Draining returned frames keeps the hub invariant.                       *)
LEMMA HubDrainReturns ==
    ASSUME TypeInv, HubInv, DrainReturnedFrames PROVE HubInv'
<1>1. ErasesNone
  BY ReturnErasesNone
<1>2. UNCHANGED <<hub, api, cmdQueue, batch, frame>>
  BY DEF DrainReturnedFrames, SwapReturns, IgnoreReturn, CountReturn, RequeueReturn,
     RequeueFails, TakeReturn, managed, mail, others
<1>3. pc' # "publishing"
  <2>1. CASE SwapReturns
    BY <2>1 DEF SwapReturns, TypeInv, TypeOK
  <2>2. CASE \E cmds : TakeReturn(cmds)
    BY <2>2 DEF TakeReturn, TypeInv, TypeOK
  <2> QED
    BY <2>1, <2>2 DEF DrainReturnedFrames, IgnoreReturn, CountReturn, RequeueReturn,
       RequeueFails
<1>4. \A cmd \in outbox' : cmd.type # "DeleteCamera"
  <2>1. ErrorCommand(Head(returned).cam).type # "DeleteCamera"
    BY DEF ErrorCommand, Command
  <2>2. outbox' = outbox \/ outbox' = outbox \cup {}
        \/ outbox' = outbox \cup {ErrorCommand(Head(returned).cam)}
    BY DEF DrainReturnedFrames, SwapReturns, IgnoreReturn, CountReturn, RequeueReturn,
       RequeueFails, TakeReturn
  <2> QED
    BY <2>1, <2>2 DEF HubInv
<1> QED
  BY <1>1, <1>2, <1>3, <1>4, HubQuiet

(* A poll() round keeps it: publication begins on an open hub only.        *)
LEMMA HubRound ==
    ASSUME TypeInv, HubInv, PollRound PROVE HubInv'
<1>1. ErasesNone
  BY RoundErasesNone
<1>2. UNCHANGED <<hub, api, cmdQueue, batch>>
  BY DEF PollRound, NothingReady, CameraFault, DequeueFrame, BeginPublish, EndPublish,
     PostToDecoder, HandleWakeEvent, RoundEnds, managed, mail, others
<1>3. pc' = "publishing" => /\ hub[frame.cam] = "Open" /\ frame' = frame
  <2>1. ASSUME NEW c \in Cameras, NEW hangUp \in BOOLEAN, CameraFault(c, hangUp)
        PROVE  pc' # "publishing"
    BY <2>1 DEF CameraFault, NextFd, PostThen
  <2>2. ASSUME NEW c \in Cameras, NEW b \in Buffers, DequeueFrame(c, b)
        PROVE  pc' # "publishing"
    BY <2>2 DEF DequeueFrame
  <2>3. CASE BeginPublish
    <3>1. frame.cam \in Cameras
      BY <2>3 DEF BeginPublish, TypeInv, Located, Leases
    <3> QED
      BY <2>3, <3>1 DEF BeginPublish, TypeInv, TypeOK
  <2>4. CASE EndPublish \/ PostToDecoder \/ HandleWakeEvent \/ RoundEnds
             \/ \E c \in Cameras : NothingReady(c)
    BY <2>4 DEF EndPublish, PostToDecoder, HandleWakeEvent, RoundEnds, NothingReady, NextFd
  <2> QED
    BY <2>1, <2>2, <2>3, <2>4 DEF PollRound
<1>4. \A cmd \in outbox' : cmd.type # "DeleteCamera"
  <2>1. ASSUME NEW c \in Cameras, NEW hangUp \in BOOLEAN, CameraFault(c, hangUp)
        PROVE  outbox' = outbox \/ outbox' = {ErrorCommand(c)}
    BY <2>1 DEF CameraFault, PostThen
  <2>2. \A c \in Cameras : ErrorCommand(c).type # "DeleteCamera"
    BY DEF ErrorCommand, Command
  <2>3. CASE UNCHANGED outbox
    BY <2>3 DEF HubInv
  <2> QED
    BY <2>1, <2>2, <2>3 DEF PollRound, HubInv, NothingReady, DequeueFrame, BeginPublish,
       EndPublish, PostToDecoder, HandleWakeEvent, RoundEnds
<1> QED
  BY <1>1, <1>2, <1>3, <1>4, HubQuiet

(* Every step of the poll thread keeps the hub invariant.                  *)
LEMMA HubPollThread ==
    ASSUME TypeInv, HubInv, PollThread PROVE HubInv'
<1>1. CASE SwapCommands
  BY <1>1 DEF SwapCommands, HubInv, NoFrameAfterDelete, Doomed, managed, others
<1>2. CASE PostFromOutbox
  <2>1. PICK cmd \in outbox : /\ cmdQueue' = Append(cmdQueue, cmd)
                              /\ PostThen(outbox \ {cmd}, resume)
    BY <1>2 DEF PostFromOutbox
  <2>2. UNCHANGED <<hub, slot, api, batch>>
    BY <1>2 DEF PostFromOutbox, managed, others
  <2>3. cmd \in Commands /\ cmd.type # "DeleteCamera"
    BY DEF HubInv, TypeInv, TypeOK
  <2>4. pc' # "publishing" /\ outbox' \subseteq outbox
    BY <2>1 DEF PostThen, TypeInv, TypeOK
  <2>5. \A d \in outbox' : d.type # "DeleteCamera"
    BY <2>4 DEF HubInv
  <2> QED
    BY <2>1, <2>2, <2>3, <2>4, <2>5, SameSlotsEraseNone, HubQuiet
<1>3. CASE CheckRestarts
  <2>1. ErasesNone
    BY ZenonT(60), <1>3 DEF CheckRestarts, ErasesNone, TypeInv, TypeOK, Slots
  <2>2. UNCHANGED <<hub, api, cmdQueue, batch>> /\ pc' # "publishing"
    BY <1>3 DEF CheckRestarts, PostThen, mail, others
  <2>3. \A cmd \in outbox' : cmd.type # "DeleteCamera"
    <3>1. \A c, g : /\ Command("StartCamera", c, g).type # "DeleteCamera"
                    /\ Command("RestartCamera", c, g).type # "DeleteCamera"
      BY DEF Command
    <3>2. PICK A, B : outbox' = {Command("StartCamera", c, 0) : c \in A} \cup
                          {Command("RestartCamera", c, slot[c].recoveryGeneration) : c \in B}
      BY <1>3 DEF CheckRestarts, PostThen
    <3> QED
      BY <3>1, <3>2
  <2> QED
    BY <2>1, <2>2, <2>3, HubQuiet
<1>4. CASE RunLoop \/ Snapshot \/ TestWaitPredicate \/ FallAsleep \/ WaitTimesOut
           \/ PollReturns \/ PollFails
  <2>1. UNCHANGED <<hub, slot, api, cmdQueue, batch, outbox>> /\ pc' # "publishing"
    BY <1>4 DEF RunLoop, Snapshot, TestWaitPredicate, FallAsleep, WaitTimesOut,
       PollReturns, PollFails, managed, mail, locals, others
  <2> QED
    BY <2>1, SameSlotsEraseNone, HubQuiet DEF HubInv
<1> QED
  BY <1>1, <1>2, <1>3, <1>4, HubExecute, HubDrainReturns, HubRound DEF PollThread

(* The hub invariant is inductive, given the types.                        *)
LEMMA HubNext == TypeInv /\ HubInv /\ [Next]_vars => HubInv'
<1> SUFFICES ASSUME TypeInv, HubInv, [Next]_vars PROVE HubInv'
  OBVIOUS
<1>1. ASSUME NEW p \in Clients, ApiCall(p) \/ ApiContinues(p) PROVE HubInv'
  BY <1>1, HubApiCall, HubApiContinues
<1>2. CASE PollThread
  BY <1>2, HubPollThread
<1>3. ASSUME NEW s \in Sinks, Downstream(s) PROVE HubInv'
  <2>1. UNCHANGED <<hub, slot, api, cmdQueue, batch, outbox, frame>>
        /\ (pc' = "publishing" => pc = "publishing")
    BY <1>3 DEF Downstream, NotifyReturn, ReleaseLease, Notify, managed, locals
  <2> QED
    BY <2>1, SameSlotsEraseNone, HubQuiet DEF HubInv
<1>4. ASSUME NEW c \in Cameras, BackoffElapses(c) PROVE HubInv'
  <2>1. UNCHANGED <<hub, api, cmdQueue, batch, outbox, frame, pc>>
    BY <1>4 DEF BackoffElapses, mail, locals, others
  <2>2. ErasesNone
    BY <1>4 DEF BackoffElapses, ErasesNone, TypeInv, TypeOK, Slots
  <2> QED
    BY <2>1, <2>2, HubQuiet DEF HubInv
<1>5. CASE UNCHANGED vars
  BY <1>5 DEF vars, managed, mail, locals, others, HubInv, NoFrameAfterDelete, Doomed
<1> QED
  BY <1>1, <1>2, <1>3, <1>4, <1>5 DEF Next

(* delCamera() closes the hub before anybody erases the camera, and waits  *)
(* for the publication under way: no sink is called for a deleted camera.  *)
THEOREM ClosedBeforeErased == Spec => []NoFrameAfterDelete
<1>1. Init => HubInv
  BY DEF Init, HubInv, NoFrameAfterDelete, IdleClient, FreshSlot
<1>2. HubInv => NoFrameAfterDelete
  BY DEF HubInv
<1> QED
  BY <1>1, <1>2, TypeInit, TypeNext, HubNext, PTL DEF Spec

-----------------------------------------------------------------------------
(* Recovery rounds: every round that reportCameraFault() starts is         *)
(* processed once, and no camera is stuck in it.                           *)

(* A slot u after s whose camera is in no round, or in a round that waits  *)
(* for its restart.                                                        *)
Rests(s, u) ==
    /\ u.state \in {"Streaming", "Stopped"} /\ u.restartPending = FALSE
    /\ u.recoveryGeneration \in {s.recoveryGeneration, s.recoveryGeneration + 1}
    /\ u.state = "Stopped" => ~(u.startPending /\ u.startQueued)

Waits(s, u) ==
    /\ u.state = "Error" /\ u.restartPending = TRUE /\ u.restartQueued = FALSE
    /\ u.recoveryGeneration \in {s.recoveryGeneration, s.recoveryGeneration + 1}

(* A fault opens a round.                                                  *)
LEMMA FaultedRound ==
    ASSUME NEW s \in Slots, NEW r \in BOOLEAN
    PROVE  /\ Faulted(s, r).state = "Error"
           /\ Faulted(s, r).recoveryGeneration = s.recoveryGeneration + 1
           /\ Faulted(s, r).restartPending = s.restartPending
BY DEF Faulted, NewRound, Slots

(* A start that succeeds and a stop end the rounds of a camera.            *)
LEMMA RestingSlots ==
    ASSUME NEW s \in Slots
    PROVE  Rests(s, NewRound(Settled(s))) /\ Rests(s, Running(s)) /\ Rests(s, Halted(s))
<1> USE DEF Slots, Rests
<1>1. Rests(s, NewRound(Settled(s)))
  BY DEF NewRound, Settled, NoStart, NoRestart
<1>2. Rests(s, Running(s))
  BY DEF Running, Settled, NoStart, NoRestart
<1>3. Rests(s, Halted(s))
  BY DEF Halted, NewRound, NoStart, NoRestart
<1> QED
  BY <1>1, <1>2, <1>3

(* A processed error and a start that fails leave a restart pending.       *)
LEMMA WaitingSlots ==
    ASSUME NEW s \in Slots
    PROVE  /\ Waits(s, Retrying(s)) /\ Waits(s, AfterFailedStart(s))
           /\ Waits(s, AfterFailedRestart(s))
           /\ AfterFailedStart(s).recoveryGeneration # s.recoveryGeneration
<1> USE DEF Slots, Waits
<1>1. Waits(s, Retrying(s))
  BY DEF Retrying, BackedOff
<1>2. /\ Waits(s, AfterFailedStart(s))
      /\ AfterFailedStart(s).recoveryGeneration # s.recoveryGeneration
  BY DEF AfterFailedStart, NewRound, NoStart, Retrying, BackedOff
<1>3. Waits(s, AfterFailedRestart(s))
  BY DEF AfterFailedRestart, Retrying, BackedOff
<1> QED
  BY <1>1, <1>2, <1>3
-----------------------------------------------------------------------------
(* The rounds. Commands of the poll thread in the order it will execute    *)
(* them, and all commands that have been decided on.                       *)
Line == batch \o cmdQueue

Todos == UNION {api[p].todo : p \in Clients}

Pending(line, box, todos) == SeqElems(line) \cup box \cup todos

IsError(cmd) == cmd.type = "ProcessError"

(* Commands are only where a thread is working on them.                    *)
Placed ==
    /\ pc # "commands" => batch = <<>>
    /\ pc \notin {"returns", "post"} => outbox = {}
    /\ \A p \in Clients : api[p].pc \notin {"push", "notify"} => api[p].todo = {}

(* No fault has two ProcessErrors.                                         *)
ErrorsOnce ==
    /\ \A i, j \in 1 .. Len(Line) : IsError(Line[i]) /\ Line[i] = Line[j] => i = j
    /\ \A i \in 1 .. Len(Line) : IsError(Line[i]) => Line[i] \notin outbox \cup Todos
    /\ \A cmd \in outbox : IsError(cmd) => cmd \notin Todos
    /\ \A p, q \in Clients : \A cmd \in api[p].todo \cap api[q].todo :
           IsError(cmd) => p = q

(* A camera with slot s is on its way when U are the commands underway:    *)
(* the two parts of RoundsAccounted, and what makes them inductive.        *)
RoundOk(c, s, U) ==
    LET g == s.recoveryGeneration IN
    /\ s.restartPending => s.state \in {"Error", "Deleting"}
    /\ s.state = "Unused" => g = 0
    /\ s.state = "Error" /\ s.restartPending =>
           /\ s.restartQueued => Command("RestartCamera", c, g) \in U
           /\ Command("ProcessError", c, g) \notin U
    /\ s.state = "Error" /\ ~s.restartPending => Command("ProcessError", c, g) \in U
    /\ s.state = "Stopped" /\ s.startPending /\ s.startQueued
           => Command("StartCamera", c, 0) \in U
    /\ s.state # "Erased" => \A cmd \in U : IsError(cmd) /\ cmd.cam = c => cmd.gen <= g

RoundInv ==
    /\ Placed /\ ErrorsOnce
    /\ \A c \in Cameras : RoundOk(c, slot[c], Underway)

(* The elements of two queues in a row.                                    *)
LEMMA ConcatElems ==
    ASSUME NEW S, NEW q \in Seq(S), NEW r \in Seq(S)
    PROVE  SeqElems(q \o r) = SeqElems(q) \cup SeqElems(r)
<1>1. /\ Len(q \o r) = Len(q) + Len(r) /\ Len(q) \in Nat /\ Len(r) \in Nat
      /\ \A i \in 1 .. Len(q) + Len(r) :
             (q \o r)[i] = IF i <= Len(q) THEN q[i] ELSE r[i - Len(q)]
  OBVIOUS
<1>2. ASSUME NEW i \in 1 .. Len(q \o r)
      PROVE  (q \o r)[i] \in SeqElems(q) \cup SeqElems(r)
  <2>1. CASE i <= Len(q)
    BY <1>1, <2>1 DEF SeqElems
  <2>2. CASE ~(i <= Len(q))
    <3>1. i - Len(q) \in 1 .. Len(r)
      BY <1>1, <2>2
    <3> QED
      BY <1>1, <2>2, <3>1 DEF SeqElems
  <2> QED
    BY <2>1, <2>2
<1>3. ASSUME NEW i \in 1 .. Len(q) PROVE q[i] \in SeqElems(q \o r)
  BY <1>1 DEF SeqElems
<1>4. ASSUME NEW i \in 1 .. Len(r) PROVE r[i] \in SeqElems(q \o r)
  <2> DEFINE j == i + Len(q)
  <2>1. j \in 1 .. Len(q \o r) /\ (q \o r)[j] = r[i]
    BY <1>1
  <2> QED
    BY <2>1 DEF SeqElems
<1> QED
  BY <1>2, <1>3, <1>4 DEF SeqElems

(* Pushing to the second queue is pushing to both.                         *)
LEMMA ConcatAppend ==
    ASSUME NEW S, NEW q \in Seq(S), NEW r \in Seq(S), NEW x \in S
    PROVE  q \o Append(r, x) = Append(q \o r, x)
<1> DEFINE a == q \o Append(r, x)
           b == Append(q \o r, x)
<1>1. a \in Seq(S) /\ b \in Seq(S) /\ Len(a) = Len(b)
  OBVIOUS
<1>2. \A i \in 1 .. Len(a) : a[i] = b[i]
  OBVIOUS
<1> HIDE DEF a, b
<1>3. a = b
  BY <1>1, <1>2, SeqEqual
<1> QED
  BY <1>3 DEF a, b

(* Taking from the first queue is taking from both.                        *)
LEMMA ConcatTail ==
    ASSUME NEW S, NEW q \in Seq(S), NEW r \in Seq(S), q # <<>>
    PROVE  /\ q \o r \in Seq(S) /\ q \o r # <<>> /\ (q \o r)[1] = Head(q)
           /\ Tail(q) \o r = Tail(q \o r)
<1> DEFINE a == Tail(q) \o r
           b == Tail(q \o r)
<1>1. q \o r \in Seq(S) /\ q \o r # <<>> /\ (q \o r)[1] = Head(q)
  OBVIOUS
<1>2. a \in Seq(S) /\ b \in Seq(S) /\ Len(a) = Len(b)
  BY <1>1
<1>3. \A i \in 1 .. Len(a) : a[i] = b[i]
  BY <1>1
<1>4. a = b
  <2> HIDE DEF a, b
  <2> QED
    BY <1>2, <1>3, SeqEqual
<1> QED
  BY <1>1, <1>4

(* The commands underway, of all three kinds of place.                     *)
LEMMA LineType ==
    ASSUME TypeInv
    PROVE  /\ Line \in Seq(Commands)
           /\ SeqElems(Line) = SeqElems(batch) \cup SeqElems(cmdQueue)
           /\ Underway = SeqElems(Line) \cup outbox \cup Todos
           /\ Underway \subseteq Commands
<1>1. batch \in Seq(Commands) /\ cmdQueue \in Seq(Commands)
  BY DEF TypeInv, TypeOK
<1>2. Line \in Seq(Commands) /\ SeqElems(Line) = SeqElems(batch) \cup SeqElems(cmdQueue)
  BY <1>1, ConcatElems DEF Line
<1>3. SeqElems(Line) \subseteq Commands
  BY <1>2 DEF SeqElems
<1> QED
  BY <1>2, <1>3 DEF Underway, Todos, TypeInv, TypeOK, ApiStates

(* Adding commands that are no ProcessError keeps a camera on its way.     *)
LEMMA RoundGrows ==
    ASSUME NEW c, NEW s, NEW U, NEW V, RoundOk(c, s, U), U \subseteq V,
           \A cmd \in V \ U : ~IsError(cmd)
    PROVE  RoundOk(c, s, V)
<1>1. \A g : Command("ProcessError", c, g) \in V => Command("ProcessError", c, g) \in U
  BY DEF IsError, Command
<1> QED
  BY <1>1 DEF RoundOk, IsError

(* What happens to the commands of other cameras does not matter.          *)
LEMMA RoundOfOther ==
    ASSUME NEW c, NEW s, NEW U, NEW V, RoundOk(c, s, U),
           \A cmd \in U \ V : cmd.cam # c, \A cmd \in V \ U : cmd.cam # c
    PROVE  RoundOk(c, s, V)
<1>1. \A t, g : Command(t, c, g) \in V <=> Command(t, c, g) \in U
  BY DEF Command
<1> QED
  BY <1>1 DEF RoundOk

(* The fields a round depends on are the same in slots s and t.            *)
SameRound(s, t) ==
    /\ t.state = s.state /\ t.recoveryGeneration = s.recoveryGeneration
    /\ t.restartPending = s.restartPending /\ t.restartQueued = s.restartQueued
    /\ t.startPending = s.startPending /\ t.startQueued = s.startQueued

LEMMA RoundSame ==
    ASSUME NEW c, NEW s, NEW t, NEW U, RoundOk(c, s, U), SameRound(s, t)
    PROVE  RoundOk(c, t, U)
BY DEF RoundOk, SameRound

(* Commands leave the head of the line, or places lose ProcessErrors: none *)
(* is there twice afterwards.                                              *)
LEMMA ErrorsShrink ==
    ASSUME TypeInv, ErrorsOnce,
           Line' = Line \/ (Line # <<>> /\ Line' = Tail(Line)),
           \A cmd \in outbox' : IsError(cmd) => cmd \in outbox,
           \A p \in Clients : \A cmd \in api'[p].todo : IsError(cmd) => cmd \in api[p].todo
    PROVE  ErrorsOnce'
<1>1. Line \in Seq(Commands)
  BY LineType
<1>2. \E k \in {0, 1} : /\ Len(Line') = Len(Line) - k
                        /\ \A i \in 1 .. Len(Line') : /\ Line'[i] = Line[i + k]
                                                      /\ i + k \in 1 .. Len(Line)
  <2>1. CASE Line' = Line
    BY <1>1, <2>1
  <2>2. CASE Line # <<>> /\ Line' = Tail(Line)
    <3>1. /\ Len(Line') = Len(Line) - 1
          /\ \A i \in 1 .. Len(Line') : Line'[i] = Line[i + 1]
      BY <1>1, <2>2
    <3>2. \A i \in 1 .. Len(Line') : i + 1 \in 1 .. Len(Line)
      BY <1>1, <3>1
    <3> QED
      BY <3>1, <3>2
  <2> QED
    BY <2>1, <2>2
<1>3. PICK k \in {0, 1} : /\ Len(Line') = Len(Line) - k
                          /\ \A i \in 1 .. Len(Line') : /\ Line'[i] = Line[i + k]
                                                        /\ i + k \in 1 .. Len(Line)
  BY <1>2
<1>4. \A cmd \in Todos' : IsError(cmd) => cmd \in Todos
  BY DEF Todos
<1>5. ASSUME NEW i \in 1 .. Len(Line'), NEW j \in 1 .. Len(Line'), IsError(Line'[i]),
             Line'[i] = Line'[j]
      PROVE  i = j
  <2>1. i + k = j + k
    BY SMTT(40), <1>3, <1>5 DEF ErrorsOnce
  <2> QED
    BY <1>1, <2>1
<1>6. ASSUME NEW i \in 1 .. Len(Line'), IsError(Line'[i])
      PROVE  Line'[i] \notin outbox' \cup Todos'
  <2>1. i + k \in 1 .. Len(Line) /\ Line'[i] = Line[i + k]
    BY <1>3
  <2>2. Line[i + k] \notin outbox \cup Todos
    BY <1>6, <2>1 DEF ErrorsOnce
  <2> QED
    BY <1>4, <1>6, <2>1, <2>2
<1>7. \A cmd \in outbox' : IsError(cmd) => cmd \notin Todos'
  BY <1>4 DEF ErrorsOnce
<1>8. \A p, q \in Clients : \A cmd \in api'[p].todo \cap api'[q].todo : IsError(cmd) => p = q
  BY DEF ErrorsOnce
<1> QED
  BY <1>5, <1>6, <1>7, <1>8 DEF ErrorsOnce, IsError

(* A command that is posted leaves the place it was in for the line.       *)
LEMMA ErrorsPosted ==
    ASSUME TypeInv, ErrorsOnce, NEW cmd \in Commands, Line' = Append(Line, cmd),
           outbox' \subseteq outbox,
           \A p \in Clients : api'[p].todo \subseteq api[p].todo,
           cmd \in outbox \cup Todos, IsError(cmd) => cmd \notin outbox' \cup Todos'
    PROVE  ErrorsOnce'
<1>1. Line \in Seq(Commands)
  BY LineType
<1>2. /\ Len(Line') = Len(Line) + 1
      /\ \A i \in 1 .. Len(Line) : Line'[i] = Line[i]
      /\ Line'[Len(Line) + 1] = cmd
      /\ Len(Line) \in Nat
  BY <1>1
<1>3. IsError(cmd) => \A i \in 1 .. Len(Line) : Line[i] # cmd
  BY DEF ErrorsOnce
<1>4. Todos' \subseteq Todos
  BY DEF Todos
<1>5. ASSUME NEW i \in 1 .. Len(Line'), NEW j \in 1 .. Len(Line'), IsError(Line'[i]),
             Line'[i] = Line'[j]
      PROVE  i = j
  <2>1. CASE i \in 1 .. Len(Line) /\ j \in 1 .. Len(Line)
    BY <1>2, <1>5, <2>1 DEF ErrorsOnce
  <2>2. CASE i = Len(Line) + 1 \/ j = Len(Line) + 1
    BY <1>2, <1>3, <1>5, <2>2
  <2> QED
    BY <1>2, <2>1, <2>2
<1>6. ASSUME NEW i \in 1 .. Len(Line'), IsError(Line'[i])
      PROVE  Line'[i] \notin outbox' \cup Todos'
  <2>1. CASE i \in 1 .. Len(Line)
    BY <1>2, <1>4, <1>6, <2>1 DEF ErrorsOnce
  <2>2. CASE i = Len(Line) + 1
    BY <1>2, <1>6, <2>2
  <2> QED
    BY <1>2, <2>1, <2>2
<1>7. \A d \in outbox' : IsError(d) => d \notin Todos'
  BY <1>4 DEF ErrorsOnce
<1>8. \A p, q \in Clients : \A d \in api'[p].todo \cap api'[q].todo : IsError(d) => p = q
  BY DEF ErrorsOnce
<1> QED
  BY <1>5, <1>6, <1>7, <1>8 DEF ErrorsOnce, IsError

(* The ProcessError of a new round is underway nowhere yet.                *)
LEMMA NewErrorIsNew ==
    ASSUME TypeInv, RoundInv, NEW c \in Cameras, InMap(c)
    PROVE  /\ ErrorCommand(c) \notin Underway
           /\ IsError(ErrorCommand(c)) /\ ErrorCommand(c).cam = c
           /\ ErrorCommand(c).gen = slot[c].recoveryGeneration + 1
<1>1. /\ IsError(ErrorCommand(c)) /\ ErrorCommand(c).cam = c
      /\ ErrorCommand(c).gen = slot[c].recoveryGeneration + 1
  BY DEF ErrorCommand, Command, IsError
<1>2. slot[c].recoveryGeneration \in Nat
  BY SlotNumbers DEF TypeInv, TypeOK
<1>3. \A cmd \in Underway : IsError(cmd) /\ cmd.cam = c =>
          cmd.gen <= slot[c].recoveryGeneration
  BY DEF RoundInv, RoundOk, InMap
<1> QED
  BY <1>1, <1>2, <1>3

(* A fault opens a round: its ProcessError joins the commands underway.    *)
LEMMA FaultOpensRound ==
    ASSUME TypeInv, RoundInv, NEW c \in Cameras, NEW s \in Slots, NEW r \in BOOLEAN,
           SameRound(slot[c], s), InMap(c), s.state \notin {"Error", "Deleting"}
    PROVE  RoundOk(c, Faulted(s, r), Underway \cup {ErrorCommand(c)})
<1> DEFINE g == slot[c].recoveryGeneration
           t == Faulted(s, r)
<1>1. /\ t.state = "Error" /\ t.recoveryGeneration = g + 1
      /\ t.restartPending = s.restartPending
  <2>1. /\ Faulted(s, r).state = "Error"
        /\ Faulted(s, r).recoveryGeneration = s.recoveryGeneration + 1
        /\ Faulted(s, r).restartPending = s.restartPending
    BY FaultedRound
  <2> QED
    BY <2>1 DEF SameRound
<1>2. s.restartPending = FALSE
  BY DEF RoundInv, RoundOk, SameRound, TypeInv, TypeOK, Slots
<1>3. ErrorCommand(c) = Command("ProcessError", c, g + 1)
  BY DEF ErrorCommand
<1>4. \A cmd \in Underway : IsError(cmd) /\ cmd.cam = c => cmd.gen <= g
  BY DEF RoundInv, RoundOk, InMap
<1>5. g \in Nat /\ \A cmd \in Underway : cmd.gen \in Nat
  BY SlotNumbers, LineType DEF TypeInv, TypeOK, Commands
<1>6. \A cmd \in Underway \cup {ErrorCommand(c)} :
          IsError(cmd) /\ cmd.cam = c => cmd.gen <= g + 1
  BY <1>3, <1>4, <1>5 DEF Command
<1>7. RoundOk(c, t, Underway \cup {ErrorCommand(c)})
  <2> HIDE DEF g, t
  <2> QED
    BY <1>1, <1>2, <1>3, <1>6 DEF RoundOk
<1> QED
  BY <1>7

(* The poll thread stays where it has no commands.                         *)
Elsewhere == pc' = pc \/ {pc, pc'} \cap {"commands", "returns", "post"} = {}

(* A step of a client that goes on with the commands it has and new ones.  *)
LEMMA RoundClient ==
    ASSUME TypeInv, RoundInv, NEW p \in Clients, NEW r,
           api' = [api EXCEPT ![p] = r], UNCHANGED <<batch, cmdQueue, outbox>>,
           Elsewhere, r.pc \notin {"push", "notify"} => r.todo = {},
           api[p].todo \subseteq r.todo,
           \A cmd \in r.todo \ api[p].todo : IsError(cmd) => cmd \notin Underway
    PROVE  Placed' /\ ErrorsOnce' /\ Underway' = Underway \cup r.todo
<1>1. /\ api'[p] = r /\ \A q \in Clients : q # p => api'[q] = api[q]
      /\ api' \in [Clients -> {api[q] : q \in Clients} \cup {r}]
  BY DEF TypeInv, TypeOK
<1>2. Todos' = Todos \cup r.todo
  BY <1>1 DEF Todos
<1>3. Underway = SeqElems(Line) \cup outbox \cup Todos
  BY LineType
<1>4. Underway' = Underway \cup r.todo
  BY <1>2 DEF Underway, Todos
<1>5. Placed'
  BY <1>1 DEF RoundInv, Placed, Elsewhere
<1>6. Line' = Line
  BY DEF Line
<1>7. ErrorsOnce'
  <2>1. \A i, j \in 1 .. Len(Line') : IsError(Line'[i]) /\ Line'[i] = Line'[j] => i = j
    BY <1>6 DEF RoundInv, ErrorsOnce
  <2>2. \A i \in 1 .. Len(Line') : IsError(Line'[i]) => Line'[i] \notin outbox' \cup Todos'
    <3>1. \A i \in 1 .. Len(Line) : Line[i] \in Underway
      BY <1>3 DEF SeqElems
    <3>2. \A q \in Clients : api[q].todo \subseteq Todos
      BY DEF Todos
    <3> QED
      BY <1>2, <1>6, <3>1, <3>2 DEF RoundInv, ErrorsOnce
  <2>3. \A cmd \in outbox' : IsError(cmd) => cmd \notin Todos'
    <3>1. \A q \in Clients : api[q].todo \subseteq Todos
      BY DEF Todos
    <3> QED
      BY <1>2, <1>3, <3>1 DEF RoundInv, ErrorsOnce
  <2>4. ASSUME NEW q \in Clients, NEW q2 \in Clients,
               NEW cmd \in api'[q].todo \cap api'[q2].todo, IsError(cmd)
        PROVE  q = q2
    <3>1. \A q3 \in Clients : api[q3].todo \subseteq Underway
      BY <1>3 DEF Todos
    <3>2. CASE q # p /\ q2 # p
      BY <1>1, <2>4, <3>2 DEF RoundInv, ErrorsOnce
    <3>3. CASE (q = p \/ q2 = p) /\ q # q2
      <4>1. PICK q3 \in Clients : q3 # p /\ cmd \in api[q3].todo
        BY <1>1, <2>4, <3>3
      <4>2. cmd \in r.todo
        BY <1>1, <2>4, <3>3
      <4>3. cmd \in api[p].todo
        BY <2>4, <3>1, <4>1, <4>2
      <4> QED
        BY <2>4, <4>1, <4>3 DEF RoundInv, ErrorsOnce
    <3> QED
      BY <3>2, <3>3
  <2> QED
    BY <2>1, <2>2, <2>3, <2>4 DEF ErrorsOnce, IsError
<1> QED
  BY <1>4, <1>5, <1>7

(* ... and that has no new ones for the cameras whose slots it leaves.     *)
LEMMA RoundClientQuiet ==
    ASSUME TypeInv, RoundInv, NEW p \in Clients, NEW r,
           api' = [api EXCEPT ![p] = r], UNCHANGED <<batch, cmdQueue, outbox>>,
           Elsewhere, r.pc \notin {"push", "notify"} => r.todo = {},
           api[p].todo \subseteq r.todo,
           \A cmd \in r.todo \ api[p].todo : ~IsError(cmd),
           \A c \in Cameras : SameRound(slot[c], slot'[c])
    PROVE  RoundInv'
<1>1. Placed' /\ ErrorsOnce' /\ Underway' = Underway \cup r.todo
  BY RoundClient
<1>2. \A cmd \in Underway' \ Underway : ~IsError(cmd)
  <2>1. api[p].todo \subseteq Underway
    BY DEF Underway
  <2> QED
    BY <1>1, <2>1
<1>3. ASSUME NEW c \in Cameras PROVE RoundOk(c, slot'[c], Underway')
  <2>1. RoundOk(c, slot[c], Underway')
    BY <1>1, <1>2, RoundGrows DEF RoundInv
  <2> QED
    BY <2>1, RoundSame
<1> QED
  BY <1>1, <1>3 DEF RoundInv

(* A slot that is left alone.                                              *)
LEMMA UnchangedSlots == UNCHANGED slot => \A c \in Cameras : SameRound(slot[c], slot'[c])
BY DEF SameRound

(* The calls of the API keep every round.                                  *)
LEMMA RoundApiCall ==
    ASSUME TypeInv, RoundInv, NEW p \in Clients, ApiCall(p) PROVE RoundInv'
<1> USE DEF Elsewhere
<1>1. api[p].pc = "idle" => api[p].todo = {}
  BY DEF RoundInv, Placed
<1>2. ASSUME NEW call, NEW q, NEW todo, NEW cams, Call(p, call, q, todo, cams)
      PROVE  /\ api' = [api EXCEPT ![p] = [pc |-> q, todo |-> todo, cam |-> cams]]
             /\ api[p].todo = {}
  BY <1>1, <1>2 DEF Call
<1>3. ASSUME NEW c \in Cameras, AddCamera(p, c) PROVE RoundInv'
  <2>1. /\ UNCHANGED <<batch, cmdQueue, outbox, pc>>
        /\ Call(p, "add", "idle", {}, {})
        /\ slot[c].state = "Unused" /\ slot' = [slot EXCEPT ![c] = FreshSlot("Ready")]
    BY <1>3 DEF AddCamera, mail, locals
  <2>2. Placed' /\ ErrorsOnce' /\ Underway' = Underway
    <3> DEFINE r == [pc |-> "idle", todo |-> {}, cam |-> {}]
    <3>1. api' = [api EXCEPT ![p] = r] /\ api[p].todo = {}
      BY <1>2, <2>1
    <3>2. r.todo = {}
      OBVIOUS
    <3> HIDE DEF r
    <3> QED
      BY <2>1, <3>1, <3>2, RoundClient
  <2>3. ASSUME NEW d \in Cameras PROVE RoundOk(d, slot'[d], Underway)
    <3>1. CASE d # c
      BY <2>1, <3>1 DEF RoundInv, TypeInv, TypeOK
    <3>2. CASE d = c
      <4>1. slot'[c] = FreshSlot("Ready") /\ RoundOk(c, slot[c], Underway)
        BY <2>1 DEF RoundInv, TypeInv, TypeOK
      <4> QED
        BY <2>1, <3>2, <4>1 DEF FreshSlot, RoundOk
    <3> QED
      BY <3>1, <3>2
  <2> QED
    BY <2>2, <2>3 DEF RoundInv
<1>4. ASSUME NEW c \in Cameras, DelCamera(p, c) PROVE RoundInv'
  <2>1. /\ UNCHANGED <<batch, cmdQueue, outbox, pc>>
        /\ Call(p, "delete", "close", {}, {c})
        /\ InMap(c) /\ slot' = [slot EXCEPT ![c].state = "Deleting"]
    BY <1>4 DEF DelCamera, mail, locals
  <2>2. Placed' /\ ErrorsOnce' /\ Underway' = Underway
    <3> DEFINE r == [pc |-> "close", todo |-> {}, cam |-> {c}]
    <3>1. api' = [api EXCEPT ![p] = r] /\ api[p].todo = {}
      BY <1>2, <2>1
    <3>2. r.todo = {}
      OBVIOUS
    <3> HIDE DEF r
    <3> QED
      BY <2>1, <3>1, <3>2, RoundClient
  <2>3. ASSUME NEW d \in Cameras PROVE RoundOk(d, slot'[d], Underway)
    <3>1. CASE d # c
      BY <2>1, <3>1 DEF RoundInv, TypeInv, TypeOK
    <3>2. CASE d = c
      <4>1. /\ slot'[c] = [slot[c] EXCEPT !.state = "Deleting"] /\ slot[c] \in Slots
            /\ RoundOk(c, slot[c], Underway)
        BY <2>1 DEF RoundInv, TypeInv, TypeOK
      <4> QED
        BY <2>1, <3>2, <4>1 DEF Slots, InMap, RoundOk
    <3> QED
      BY <3>1, <3>2
  <2> QED
    BY <2>2, <2>3 DEF RoundInv
<1>5. ASSUME NEW call \in {"start", "stop"}, NEW C \in SUBSET Cameras,
             RequestControl(p, call, C)
      PROVE  RoundInv'
  <2> DEFINE todo == {Command(IF call = "start" THEN "StartCamera" ELSE "StopCamera",
                              c, 0) : c \in C}
             r == [pc |-> "push", todo |-> todo, cam |-> {}]
  <2>1. /\ UNCHANGED <<batch, cmdQueue, outbox, pc, slot>>
        /\ Call(p, call, "push", todo, {})
    BY <1>5 DEF RequestControl, mail, locals, managed
  <2>2. \A cmd \in todo : ~IsError(cmd)
    BY DEF IsError, Command
  <2> HIDE DEF todo
  <2>3. api' = [api EXCEPT ![p] = r] /\ api[p].todo = {}
    BY <1>2, <2>1
  <2>4. r.todo = todo /\ r.pc = "push"
    OBVIOUS
  <2> HIDE DEF r
  <2> QED
    BY <2>1, <2>2, <2>3, <2>4, RoundClientQuiet, UnchangedSlots
<1>6. ASSUME NEW c \in Cameras, NEW call \in {"recover", "reopen"},
             RequestCameraRecovery(p, c, call)
      PROVE  RoundInv'
  <2> DEFINE e == ErrorCommand(c)
             b == call = "reopen"
             r == [pc |-> "push", todo |-> {e}, cam |-> {}]
  <2>1. /\ UNCHANGED <<batch, cmdQueue, outbox, pc>>
        /\ Call(p, call, "push", {e}, {})
        /\ Controllable(c) /\ slot[c].state # "Error"
        /\ slot' = [slot EXCEPT ![c] = Faulted(slot[c], b)]
    BY <1>6 DEF RequestCameraRecovery, mail, locals
  <2>2. e \notin Underway /\ e.cam = c
    BY <2>1, NewErrorIsNew DEF Controllable
  <2>3. RoundOk(c, Faulted(slot[c], b), Underway \cup {e})
    BY <2>1, FaultOpensRound DEF Controllable, SameRound, TypeInv, TypeOK
  <2> HIDE DEF e, b
  <2>4. Placed' /\ ErrorsOnce' /\ Underway' = Underway \cup {e}
    <3>1. api' = [api EXCEPT ![p] = r] /\ api[p].todo = {}
      BY <1>2, <2>1
    <3>2. r.todo = {e} /\ r.pc = "push"
      OBVIOUS
    <3> HIDE DEF r
    <3>3. Placed' /\ ErrorsOnce' /\ Underway' = Underway \cup r.todo
      BY <2>1, <2>2, <3>1, <3>2, RoundClient
    <3> QED
      BY <3>2, <3>3
  <2>5. ASSUME NEW d \in Cameras PROVE RoundOk(d, slot'[d], Underway')
    <3>1. CASE d # c
      <4>1. slot'[d] = slot[d] /\ RoundOk(d, slot[d], Underway)
        BY <2>1, <3>1 DEF RoundInv, TypeInv, TypeOK
      <4>2. /\ \A cmd \in Underway \ Underway' : cmd.cam # d
            /\ \A cmd \in Underway' \ Underway : cmd.cam # d
        BY <2>2, <2>4, <3>1
      <4> QED
        BY <4>1, <4>2, RoundOfOther
    <3>2. CASE d = c
      BY <2>1, <2>3, <2>4, <3>2 DEF TypeInv, TypeOK
    <3> QED
      BY <3>1, <3>2
  <2> QED
    BY <2>4, <2>5 DEF RoundInv
<1>7. CASE StartPolling(p) \/ RequestStop(p) \/ ShutdownPolling(p)
  <2>1. /\ UNCHANGED <<batch, cmdQueue, outbox, pc, slot>>
        /\ \E call, q : Call(p, call, q, {}, {})
    BY <1>7 DEF StartPolling, RequestStop, ShutdownPolling, mail, locals, managed
  <2>2. PICK q : api' = [api EXCEPT ![p] = [pc |-> q, todo |-> {}, cam |-> {}]]
                 /\ api[p].todo = {}
    BY <1>2, <2>1
  <2> QED
    BY <2>1, <2>2, RoundClientQuiet, UnchangedSlots
<1> QED
  BY <1>3, <1>4, <1>5, <1>6, <1>7 DEF ApiCall

(* A command pushed is the last of the line.                               *)
LEMMA AppendLast ==
    ASSUME TypeInv, NEW cmd \in Commands, UNCHANGED batch,
           cmdQueue' = Append(cmdQueue, cmd)
    PROVE  /\ Line' = Append(Line, cmd)
           /\ SeqElems(cmdQueue') = SeqElems(cmdQueue) \cup {cmd}
<1>1. batch \in Seq(Commands) /\ cmdQueue \in Seq(Commands)
  BY DEF TypeInv, TypeOK
<1>2. batch \o Append(cmdQueue, cmd) = Append(batch \o cmdQueue, cmd)
  BY <1>1, ConcatAppend
<1>3. SeqElems(Append(cmdQueue, cmd)) = SeqElems(cmdQueue) \cup {cmd}
  <2>1. /\ Len(Append(cmdQueue, cmd)) = Len(cmdQueue) + 1 /\ Len(cmdQueue) \in Nat
        /\ \A i \in 1 .. Len(cmdQueue) : Append(cmdQueue, cmd)[i] = cmdQueue[i]
        /\ Append(cmdQueue, cmd)[Len(cmdQueue) + 1] = cmd
    BY <1>1
  <2> QED
    BY <2>1 DEF SeqElems
<1> QED
  BY <1>2, <1>3 DEF Line

(* Erasing a camera ends all its rounds.                                   *)
LEMMA RoundErased == ASSUME NEW c, NEW U PROVE RoundOk(c, FreshSlot("Erased"), U)
BY DEF RoundOk, FreshSlot

(* postCommand(): the push leaves the set of the commands underway as it   *)
(* was.                                                                    *)
LEMMA RoundPushCommand ==
    ASSUME TypeInv, RoundInv, NEW p \in Clients, PushCommand(p) PROVE RoundInv'
<1>1. PICK cmd \in api[p].todo :
          /\ cmdQueue' = Append(cmdQueue, cmd)
          /\ api' = [api EXCEPT ![p].todo = @ \ {cmd}, ![p].pc = "notify"]
  BY DEF PushCommand
<1>2. UNCHANGED <<batch, outbox, pc, slot>>
  BY DEF PushCommand, managed, locals
<1>3. /\ api'[p].todo = api[p].todo \ {cmd} /\ api'[p].pc = "notify"
      /\ \A q \in Clients : q # p => api'[q] = api[q]
  BY <1>1 DEF TypeInv, TypeOK, ApiStates
<1>4. cmd \in Commands /\ cmd \in Todos
  BY DEF TypeInv, TypeOK, ApiStates, Todos
<1>5. Line' = Append(Line, cmd) /\ SeqElems(cmdQueue') = SeqElems(cmdQueue) \cup {cmd}
  BY <1>1, <1>2, <1>4, AppendLast
<1>6. Placed'
  BY <1>2, <1>3 DEF RoundInv, Placed
<1>7. IsError(cmd) => cmd \notin outbox' \cup Todos'
  BY <1>2, <1>3, <1>4 DEF RoundInv, ErrorsOnce, Todos
<1>8. ErrorsOnce'
  BY <1>2, <1>3, <1>4, <1>5, <1>7, ErrorsPosted DEF RoundInv
<1>9. Underway' = Underway
  <2>1. Todos' \cup {cmd} = Todos
    BY <1>3, <1>4 DEF Todos
  <2> QED
    BY <1>2, <1>5, <2>1 DEF Underway, Todos
<1> QED
  BY <1>2, <1>6, <1>8, <1>9 DEF RoundInv

(* The rest of a call keeps every round.                                   *)
LEMMA RoundApiContinues ==
    ASSUME TypeInv, RoundInv, NEW p \in Clients, ApiContinues(p) PROVE RoundInv'
<1> USE DEF Elsewhere
<1>1. api[p].pc \notin {"push", "notify"} => api[p].todo = {}
  BY DEF RoundInv, Placed
<1>2. ASSUME NEW r, api' = [api EXCEPT ![p] = r], UNCHANGED <<batch, cmdQueue, outbox>>,
             pc' = pc \/ {pc, pc'} \subseteq {"off", "loop", "cvAgain", "cvWait"},
             UNCHANGED slot, r.pc \notin {"push", "notify"} => r.todo = {},
             r.todo = api[p].todo
      PROVE  RoundInv'
  BY <1>2, RoundClientQuiet, UnchangedSlots
<1>3. CASE CloseHub(p)
  <2> DEFINE r == [api[p] EXCEPT !.pc = "finish"]
  <2>1. r.todo = api[p].todo /\ api[p].todo = {}
    BY <1>1, <1>3 DEF CloseHub
  <2>2. /\ api' = [api EXCEPT ![p] = r]
        /\ UNCHANGED <<batch, cmdQueue, outbox, pc, slot>>
    BY <1>3 DEF CloseHub, mail, locals
  <2> HIDE DEF r
  <2> QED
    BY <1>2, <2>1, <2>2
<1>4. CASE FinishDelete(p)
  <2>1. UNCHANGED <<batch, cmdQueue, outbox, pc, slot>> /\ api[p].todo = {}
    BY <1>1, <1>4 DEF FinishDelete, managed, mail, locals
  <2> DEFINE todo == {Command("DeleteCamera", c, 0) : c \in api[p].cam}
             r == [pc |-> "push", todo |-> todo, cam |-> {}]
             e == [api[p] EXCEPT !.pc = "erase"]
  <2>2. CASE api' = [api EXCEPT ![p] = e]
    <3>1. e.todo = api[p].todo
      OBVIOUS
    <3> HIDE DEF e
    <3> QED
      BY <1>2, <2>1, <2>2, <3>1
  <2>3. CASE api' = [api EXCEPT ![p] = r]
    <3>1. \A cmd \in todo : ~IsError(cmd)
      BY DEF IsError, Command
    <3> HIDE DEF todo
    <3>2. r.todo = todo /\ r.pc = "push"
      OBVIOUS
    <3> HIDE DEF r
    <3> QED
      BY <2>1, <2>3, <3>1, <3>2, RoundClientQuiet, UnchangedSlots
  <2>4. api' = [api EXCEPT ![p] = e] \/ api' = [api EXCEPT ![p] = r]
    BY <1>4 DEF FinishDelete
  <2> QED
    BY <2>2, <2>3, <2>4
<1>11. CASE EraseDeleted(p)
  <2>1. /\ UNCHANGED <<batch, cmdQueue, outbox, pc>> /\ api[p].todo = {}
        /\ Erase(api[p].cam) /\ api' = [api EXCEPT ![p] = IdleClient]
    BY <1>1, <1>11 DEF EraseDeleted, mail, locals
  <2>2. IdleClient.todo = {}
    BY DEF IdleClient
  <2>3. Placed' /\ ErrorsOnce' /\ Underway' = Underway
    BY <2>1, <2>2, RoundClient
  <2>4. \A c \in Cameras : slot'[c] = slot[c] \/ slot'[c] = FreshSlot("Erased")
    BY <2>1 DEF Erase
  <2> QED
    BY <2>3, <2>4, RoundErased DEF RoundInv
<1>5. CASE NotifyPollThread(p)
  <2> DEFINE q == IF api[p].pc = "shutdownNotify" THEN "join"
                  ELSE IF api[p].todo = {} THEN "idle" ELSE "push"
             r == [api[p] EXCEPT !.pc = q]
  <2>1. r.todo = api[p].todo /\ r.pc = q
    BY DEF TypeInv, TypeOK, ApiStates
  <2>2. q # "push" => api[p].todo = {}
    BY <1>1
  <2>3. /\ api' = [api EXCEPT ![p] = r]
        /\ UNCHANGED <<batch, cmdQueue, outbox, slot>>
        /\ pc' = pc \/ {pc, pc'} \subseteq {"off", "loop", "cvAgain", "cvWait"}
    BY <1>5 DEF NotifyPollThread, Notify, managed, locals
  <2> HIDE DEF r, q
  <2> QED
    BY <1>2, <2>1, <2>2, <2>3
<1>6. CASE LaunchPollThread(p) \/ JoinPollThread(p)
  <2>1. api[p].todo = {} /\ IdleClient.todo = {}
    BY <1>1, <1>6 DEF LaunchPollThread, JoinPollThread, IdleClient
  <2>2. /\ api' = [api EXCEPT ![p] = IdleClient]
        /\ UNCHANGED <<batch, cmdQueue, outbox, slot>>
        /\ pc' = pc \/ {pc, pc'} \subseteq {"off", "loop", "cvAgain", "cvWait"}
    BY <1>6 DEF LaunchPollThread, JoinPollThread, managed, mail, locals
  <2> QED
    BY <1>2, <2>1, <2>2
<1> QED
  BY <1>3, <1>4, <1>5, <1>6, <1>11, RoundPushCommand DEF ApiContinues

(* A command executed leaves the commands after it.                        *)
LEMMA TailElems ==
    ASSUME TypeInv, batch # <<>>
    PROVE  SeqElems(Tail(batch) \o cmdQueue) = SeqElems(Tail(batch)) \cup SeqElems(cmdQueue)
<1> DEFINE q == Tail(batch)
<1>1. q \in Seq(Commands) /\ cmdQueue \in Seq(Commands)
  BY DEF TypeInv, TypeOK
<1> HIDE DEF q
<1>2. SeqElems(q \o cmdQueue) = SeqElems(q) \cup SeqElems(cmdQueue)
  BY <1>1, ConcatElems
<1> QED
  BY <1>2 DEF q

(* executeCommand() takes the head of the line: no other command moves,    *)
(* and a ProcessError is then underway nowhere.                            *)
LEMMA RoundExecute ==
    ASSUME TypeInv, RoundInv, NEW t, Execute(t)
    PROVE  /\ Placed' /\ ErrorsOnce'
           /\ Underway' \subseteq Underway
           /\ Underway \subseteq Underway' \cup {Head(batch)}
           /\ IsError(Head(batch)) => Head(batch) \notin Underway'
           /\ Head(batch) \in Commands
<1>1. /\ batch # <<>> /\ batch \in Seq(Commands) /\ cmdQueue \in Seq(Commands)
      /\ batch' = Tail(batch) /\ UNCHANGED <<cmdQueue, outbox, api, pc>>
      /\ pc = "commands"
  BY DEF TypeInv, TypeOK, Execute, mail, others
<1>2. Line # <<>> /\ Head(batch) = Line[1] /\ Line' = Tail(Line) /\ Line \in Seq(Commands)
  BY <1>1, ConcatTail DEF Line
<1>3. Placed'
  BY <1>1 DEF RoundInv, Placed
<1>4. ErrorsOnce'
  BY <1>1, <1>2, ErrorsShrink DEF RoundInv
<1>5. Underway' = SeqElems(Line') \cup outbox \cup Todos
  <2>1. SeqElems(Line') = SeqElems(batch') \cup SeqElems(cmdQueue')
    BY TailElems, <1>1 DEF Line
  <2> QED
    BY <1>1, <2>1 DEF Underway, Todos
<1>6. Underway = SeqElems(Line) \cup outbox \cup Todos
  BY LineType
<1>7. /\ Len(Line) \in Nat /\ 1 \in 1 .. Len(Line) /\ Len(Line') = Len(Line) - 1
      /\ \A i \in 1 .. Len(Line') : Line'[i] = Line[i + 1] /\ i + 1 \in 1 .. Len(Line)
      /\ \A i \in 1 .. Len(Line) : i = 1 \/ (i - 1 \in 1 .. Len(Line') /\ Line[i] = Line'[i - 1])
  BY <1>2
<1>8. /\ SeqElems(Line') \subseteq SeqElems(Line)
      /\ SeqElems(Line) \subseteq SeqElems(Line') \cup {Head(batch)}
  BY <1>2, <1>7 DEF SeqElems
<1>9. ASSUME IsError(Head(batch)) PROVE Head(batch) \notin Underway'
  <2>1. Head(batch) \notin outbox \cup Todos
    BY <1>2, <1>7, <1>9 DEF RoundInv, ErrorsOnce
  <2>2. ASSUME NEW i \in 1 .. Len(Line') PROVE Line'[i] # Head(batch)
    <3>1. Line[1] = Line[i + 1] => 1 = i + 1
      BY <1>2, <1>7, <1>9 DEF RoundInv, ErrorsOnce
    <3> QED
      BY <1>2, <1>7, <3>1
  <2> QED
    BY <1>5, <2>1, <2>2 DEF SeqElems
<1> QED
  BY <1>1, <1>3, <1>4, <1>5, <1>6, <1>8, <1>9

(* What is left to prove of a command: the round of its own camera.        *)
LEMMA RoundOfCommand ==
    ASSUME TypeInv, RoundInv, NEW t, Execute(t),
           NEW s, slot' = [slot EXCEPT ![Head(batch).cam] = s],
           RoundOk(Head(batch).cam, s, Underway')
    PROVE  RoundInv'
<1> DEFINE c == Head(batch).cam
<1>1. c \in Cameras /\ slot \in [Cameras -> Slots]
  BY HeadType DEF Execute, TypeInv, TypeOK
<1>2. ASSUME NEW d \in Cameras PROVE RoundOk(d, slot'[d], Underway')
  <2>1. CASE d = c
    BY <1>1, <2>1
  <2>2. CASE d # c
    <3>1. slot'[d] = slot[d] /\ RoundOk(d, slot[d], Underway)
      BY <1>1, <2>2 DEF RoundInv
    <3>2. /\ \A cmd \in Underway \ Underway' : cmd.cam # d
          /\ \A cmd \in Underway' \ Underway : cmd.cam # d
      BY <2>2, RoundExecute
    <3> QED
      BY <3>1, <3>2, RoundOfOther
  <2> QED
    BY <2>1, <2>2
<1> QED
  BY <1>2, RoundExecute DEF RoundInv

(* Commands that are dropped, or find their camera gone.                   *)
LEMMA RoundExecuteIgnored ==
    ASSUME TypeInv, RoundInv, NEW t \in CommandTypes,
           ExecuteForGoneCamera(t) \/ ExecuteStale(t)
    PROVE  RoundInv'
<1> DEFINE h == Head(batch)
           c == h.cam
           s == slot[c]
<1>1. Execute(t) /\ UNCHANGED slot /\ h.type = t
  BY DEF ExecuteForGoneCamera, ExecuteStale, Execute
<1>2. c \in Cameras /\ s \in Slots /\ slot \in [Cameras -> Slots]
  BY <1>1, HeadType DEF Execute, TypeInv, TypeOK
<1>3. RoundOk(c, s, Underway)
  BY <1>2 DEF RoundInv
<1>4. Underway' \subseteq Underway /\ Underway \subseteq Underway' \cup {h}
  BY <1>1, RoundExecute
<1>5. RoundOk(c, s, Underway')
  <2>1. CASE ExecuteForGoneCamera(t)
    <3>1. s.state \in {"Unused", "Erased", "Deleting"}
      BY <2>1 DEF ExecuteForGoneCamera, Controllable, InMap
    <3> QED
      BY <1>3, <1>4, <3>1 DEF RoundOk
  <2>2. CASE ExecuteStale(t)
    <3>1. \/ t = "ProcessError" /\ ~(s.state = "Error" /\ h.gen = s.recoveryGeneration)
          \/ /\ t = "RestartCamera"
             /\ ~(s.state = "Error" /\ h.gen = s.recoveryGeneration /\ s.restartPending)
      BY <2>2 DEF ExecuteStale, CurrentRound, RestartApplies
    <3>2. /\ s.state = "Error" /\ ~s.restartPending =>
                 h # Command("ProcessError", c, s.recoveryGeneration)
          /\ s.state = "Error" /\ s.restartPending =>
                 h # Command("RestartCamera", c, s.recoveryGeneration)
          /\ h # Command("StartCamera", c, 0)
      BY <1>1, <3>1 DEF Command
    <3> HIDE DEF h, c, s
    <3> QED
      BY <1>3, <1>4, <3>2 DEF RoundOk
  <2> QED
    BY <2>1, <2>2
<1>6. slot' = [slot EXCEPT ![c] = s]
  BY <1>1, <1>2
<1> QED
  BY <1>1, <1>5, <1>6, RoundOfCommand

(* The commands that act keep every round.                                 *)
LEMMA RoundExecuteCommand ==
    ASSUME TypeInv, RoundInv, ExecuteCommand PROVE RoundInv'
<1> DEFINE h == Head(batch)
           c == h.cam
           s == slot[c]
           g == s.recoveryGeneration
<1>1. ASSUME NEW t, Execute(t)
      PROVE  /\ c \in Cameras /\ s \in Slots /\ RoundOk(c, s, Underway)
             /\ Underway' \subseteq Underway /\ Underway \subseteq Underway' \cup {h}
             /\ IsError(h) => h \notin Underway'
             /\ h \in Commands /\ h.type = t
             /\ g \in Nat /\ \A cmd \in Underway : cmd.gen \in Nat
  <2>1. c \in Cameras /\ s \in Slots
    BY <1>1, HeadType DEF Execute
  <2>2. g \in Nat
    BY <2>1, SlotNumbers
  <2>3. \A cmd \in Underway : cmd.gen \in Nat
    BY LineType DEF Commands
  <2> QED
    BY <1>1, <2>1, <2>2, <2>3, RoundExecute DEF RoundInv, Execute
<1>2. CASE ExecuteDelete
  <2>1. Execute("DeleteCamera") /\ slot \in [Cameras -> Slots]
    BY <1>2 DEF ExecuteDelete, TypeInv, TypeOK
  <2>2. CASE InMap(c)
    <3>1. slot' = [slot EXCEPT ![c] = FreshSlot("Erased")]
      BY <1>1, <1>2, <2>1, <2>2 DEF ExecuteDelete, Erase
    <3> QED
      BY <2>1, <3>1, RoundErased, RoundOfCommand
  <2>3. CASE ~InMap(c)
    <3>1. slot' = [slot EXCEPT ![c] = s]
      BY <1>1, <1>2, <2>1, <2>3 DEF ExecuteDelete, Erase
    <3>2. RoundOk(c, s, Underway')
      BY <1>1, <2>1, <2>3 DEF InMap, RoundOk
    <3> QED
      BY <2>1, <3>1, <3>2, RoundOfCommand
  <2> QED
    BY <2>2, <2>3
<1>3. ASSUME NEW t, Execute(t), NEW u, slot' = [slot EXCEPT ![c] = u], Controllable(c),
             Rests(s, u)
      PROVE  RoundInv'
  <2>1. \A cmd \in Underway : IsError(cmd) /\ cmd.cam = c => cmd.gen <= g
    BY <1>1, <1>3 DEF RoundOk, Controllable, InMap
  <2>2. \A cmd \in Underway' :
            IsError(cmd) /\ cmd.cam = c => cmd.gen <= u.recoveryGeneration
    BY <1>1, <1>3, <2>1 DEF Rests
  <2>3. RoundOk(c, u, Underway')
    BY <1>3, <2>2 DEF RoundOk, Rests
  <2> QED
    BY <1>3, <2>3, RoundOfCommand
<1>4. ASSUME NEW t, Execute(t), NEW u, slot' = [slot EXCEPT ![c] = u], Controllable(c),
             Waits(s, u),
             u.recoveryGeneration # g \/ Command("ProcessError", c, g) \notin Underway'
      PROVE  RoundInv'
  <2>1. \A cmd \in Underway : IsError(cmd) /\ cmd.cam = c => cmd.gen <= g
    BY <1>1, <1>4 DEF RoundOk, Controllable, InMap
  <2>2. \A cmd \in Underway' :
            IsError(cmd) /\ cmd.cam = c => cmd.gen <= u.recoveryGeneration
    BY <1>1, <1>4, <2>1 DEF Waits
  <2>3. Command("ProcessError", c, g + 1) \notin Underway'
    <3> DEFINE e == Command("ProcessError", c, g + 1)
    <3>1. IsError(e) /\ e.cam = c /\ e.gen = g + 1
      BY DEF IsError, Command
    <3> HIDE DEF e
    <3>2. e \notin Underway
      BY <1>1, <1>4, <2>1, <3>1
    <3>3. e \notin Underway'
      BY <1>1, <1>4, <3>2
    <3> QED
      BY <3>3 DEF e
  <2>4. RoundOk(c, u, Underway')
    BY <1>4, <2>2, <2>3 DEF RoundOk, Waits
  <2> QED
    BY <1>4, <2>4, RoundOfCommand
<1>5. CASE ExecuteStartDeferred
  <2>1. /\ Execute("StartCamera") /\ s.state = "Stopped"
        /\ slot' = [slot EXCEPT ![c].startPending = TRUE, ![c].startQueued = FALSE]
    BY <1>5 DEF ExecuteStartDeferred
  <2> DEFINE u == [s EXCEPT !.startPending = TRUE, !.startQueued = FALSE]
  <2>2. slot' = [slot EXCEPT ![c] = u]
    BY <1>1, <2>1 DEF TypeInv, TypeOK
  <2>3. s.restartPending = FALSE /\ Controllable(c)
    BY <1>1, <2>1 DEF RoundOk, Slots, Controllable, InMap
  <2>4. Rests(s, u)
    BY <1>1, <2>1, <2>3 DEF Slots, Rests
  <2> HIDE DEF u
  <2> QED
    BY <1>3, <2>1, <2>2, <2>3, <2>4
<1>6. CASE ExecuteStartAdopt
  <2>1. /\ Execute("StartCamera") /\ Controllable(c)
        /\ slot' = [slot EXCEPT ![c] = NewRound(Settled(s))]
    BY <1>6 DEF ExecuteStartAdopt
  <2>2. Rests(s, NewRound(Settled(s)))
    BY <1>1, <2>1, RestingSlots
  <2> QED
    BY <1>3, <2>1, <2>2
<1>7. CASE ExecuteStart
  <2>1. /\ Execute("StartCamera") /\ Controllable(c)
        /\ \/ slot' = [slot EXCEPT ![c] = Running(s)]
           \/ slot' = [slot EXCEPT ![c] = AfterFailedStart(s)]
    BY <1>7 DEF ExecuteStart
  <2>2. /\ Rests(s, Running(s)) /\ Waits(s, AfterFailedStart(s))
        /\ AfterFailedStart(s).recoveryGeneration # g
    BY <1>1, <2>1, RestingSlots, WaitingSlots
  <2> QED
    BY <1>3, <1>4, <2>1, <2>2
<1>8. CASE ExecuteStop
  <2>1. /\ Execute("StopCamera") /\ Controllable(c)
        /\ slot' = [slot EXCEPT ![c] = Halted(s)]
    BY <1>8 DEF ExecuteStop
  <2>2. Rests(s, Halted(s))
    BY <1>1, <2>1, RestingSlots
  <2> QED
    BY <1>3, <2>1, <2>2
<1>9. CASE ExecuteProcessError
  <2>1. /\ Execute("ProcessError") /\ CurrentRound(h)
        /\ slot' = [slot EXCEPT ![c] = Retrying(s)]
    BY <1>9 DEF ExecuteProcessError
  <2>2. Controllable(c)
    BY <2>1 DEF CurrentRound, Controllable, InMap
  <2>3. Command("ProcessError", c, g) \notin Underway'
    <3>1. h = Command("ProcessError", c, g) /\ IsError(h)
      BY <1>1, <2>1 DEF CurrentRound, Command, Commands, IsError
    <3> QED
      BY <1>1, <2>1, <3>1
  <2>4. Waits(s, Retrying(s))
    BY <1>1, <2>1, WaitingSlots
  <2> QED
    BY <1>4, <2>1, <2>2, <2>3, <2>4
<1>10. CASE ExecuteRestart
  <2>1. /\ Execute("RestartCamera") /\ s.state = "Error" /\ s.restartPending
    BY <1>10 DEF ExecuteRestart, RestartApplies, CurrentRound
  <2>2. /\ Controllable(c) /\ c \in Cameras /\ s \in Slots /\ g \in Nat
        /\ s.restartPending = TRUE
    BY <1>1, <2>1 DEF Controllable, InMap, Slots
  <2>3. Command("ProcessError", c, g) \notin Underway'
    BY <1>1, <2>1 DEF RoundOk
  <2>4. \/ slot' = [slot EXCEPT ![c].restartQueued = FALSE]
        \/ slot' = [slot EXCEPT ![c] = Running(s)]
        \/ slot' = [slot EXCEPT ![c] = AfterFailedRestart(s)]
    BY <1>10 DEF ExecuteRestart
  <2>5. CASE slot' = [slot EXCEPT ![c].restartQueued = FALSE]
    <3> DEFINE u == [s EXCEPT !.restartQueued = FALSE]
    <3>1. Waits(s, u)
      BY <2>1, <2>2 DEF Slots, Waits
    <3>2. slot' = [slot EXCEPT ![c] = u]
      BY <2>5
    <3> HIDE DEF u
    <3> QED
      BY <1>4, <2>1, <2>2, <2>3, <3>1, <3>2
  <2>6. Rests(s, Running(s)) /\ Waits(s, AfterFailedRestart(s))
    BY <2>2, RestingSlots, WaitingSlots
  <2> QED
    BY <1>3, <1>4, <2>1, <2>2, <2>3, <2>4, <2>5, <2>6
<1> QED
  BY <1>2, <1>5, <1>6, <1>7, <1>8, <1>9, <1>10, RoundExecuteIgnored DEF ExecuteCommand

(* A step that moves no command and changes no round.                      *)
LEMMA RoundQuiet ==
    ASSUME TypeInv, RoundInv, UNCHANGED <<batch, cmdQueue, outbox, api>>,
           pc' # pc => batch = <<>> /\ (outbox = {} \/ pc' \in {"returns", "post"}),
           \A c \in Cameras : SameRound(slot[c], slot'[c])
    PROVE  RoundInv'
<1>1. Placed'
  BY DEF RoundInv, Placed
<1>2. Line' = Line
  BY DEF Line
<1>3. ErrorsOnce'
  BY <1>2, ErrorsShrink DEF RoundInv
<1>4. Underway' = Underway
  BY DEF Underway
<1>5. \A c \in Cameras : RoundOk(c, slot'[c], Underway')
  BY <1>4, RoundSame DEF RoundInv
<1> QED
  BY <1>1, <1>3, <1>5 DEF RoundInv

(* drainCommands() takes the queue as its batch.                           *)
LEMMA RoundSwapCommands ==
    ASSUME TypeInv, RoundInv, SwapCommands PROVE RoundInv'
<1>1. /\ batch' = cmdQueue /\ cmdQueue' = <<>> /\ pc = "swapCommands" /\ pc' = "commands"
      /\ UNCHANGED <<outbox, api, slot>>
  BY DEF SwapCommands, managed, others
<1>2. batch = <<>> /\ outbox = {} /\ cmdQueue \in Seq(Commands)
  BY <1>1 DEF RoundInv, Placed, TypeInv, TypeOK
<1>3. Line' = Line
  <2>1. Line = cmdQueue
    BY <1>2, ConcatEmptySeq DEF Line
  <2>2. Line' = cmdQueue
    BY <1>1, <1>2, ConcatEmptySeq DEF Line
  <2> QED
    BY <2>1, <2>2
<1>4. Placed'
  BY <1>1, <1>2 DEF RoundInv, Placed
<1>5. ErrorsOnce'
  BY <1>1, <1>3, ErrorsShrink DEF RoundInv
<1>6. Underway' = Underway
  BY <1>1, <1>2 DEF Underway, SeqElems
<1> QED
  BY <1>1, <1>4, <1>5, <1>6 DEF RoundInv

(* A fault seen by the poll thread: its ProcessError waits to be posted.   *)
LEMMA RoundFault ==
    ASSUME TypeInv, RoundInv, NEW c \in Cameras, NEW s \in Slots, NEW r \in BOOLEAN,
           SameRound(slot[c], s), InMap(c), s.state \notin {"Error", "Deleting"},
           slot' = [slot EXCEPT ![c] = Faulted(s, r)],
           outbox' = outbox \cup {ErrorCommand(c)},
           UNCHANGED <<batch, cmdQueue, api>>, pc' \in {"returns", "post"}, batch = <<>>
    PROVE  RoundInv'
<1> DEFINE e == ErrorCommand(c)
<1>1. e \notin Underway /\ e.cam = c
  BY NewErrorIsNew
<1>2. RoundOk(c, Faulted(s, r), Underway \cup {e})
  BY FaultOpensRound
<1>3. outbox' = outbox \cup {e}
  OBVIOUS
<1> HIDE DEF e
<1>4. Underway' = Underway \cup {e}
  BY <1>3 DEF Underway
<1>5. Placed'
  BY DEF RoundInv, Placed
<1>6. Underway = SeqElems(Line) \cup outbox \cup Todos
  BY LineType
<1>7. Line' = Line /\ Todos' = Todos
  BY DEF Line, Todos
<1>8. \A i \in 1 .. Len(Line) : Line[i] # e
  BY <1>1, <1>6 DEF SeqElems
<1>9. ErrorsOnce'
  BY <1>1, <1>3, <1>6, <1>7, <1>8 DEF RoundInv, ErrorsOnce
<1>10. ASSUME NEW d \in Cameras PROVE RoundOk(d, slot'[d], Underway')
  <2>1. CASE d = c
    BY <1>2, <1>4, <2>1 DEF TypeInv, TypeOK
  <2>2. CASE d # c
    <3>1. slot'[d] = slot[d] /\ RoundOk(d, slot[d], Underway)
      BY <2>2 DEF RoundInv, TypeInv, TypeOK
    <3>2. /\ \A cmd \in Underway \ Underway' : cmd.cam # d
          /\ \A cmd \in Underway' \ Underway : cmd.cam # d
      BY <1>1, <1>4, <2>2
    <3> QED
      BY <3>1, <3>2, RoundOfOther
  <2> QED
    BY <2>1, <2>2
<1> QED
  BY <1>5, <1>9, <1>10 DEF RoundInv

(* Counting a frame back opens and ends no round.                          *)
LEMMA ReturnedRound ==
    ASSUME NEW s \in Slots PROVE SameRound(s, Returned(s))
BY DEF SameRound, Returned, Slots

(* A step that changes one slot within its round.                          *)
LEMMA OneSlotSameRound ==
    ASSUME TypeInv, NEW c \in Cameras, NEW s, SameRound(slot[c], s),
           slot' = [slot EXCEPT ![c] = s]
    PROVE  \A d \in Cameras : SameRound(slot[d], slot'[d])
BY DEF SameRound, TypeInv, TypeOK

(* drainReturnedFrames() keeps every round.                                *)
LEMMA RoundReturns ==
    ASSUME TypeInv, RoundInv, DrainReturnedFrames PROVE RoundInv'
<1> DEFINE l == Head(returned)
           s == slot[l.cam]
<1>1. ASSUME NEW cmds, TakeReturn(cmds)
      PROVE  /\ l.cam \in Cameras /\ s \in Slots /\ batch = <<>>
             /\ UNCHANGED <<batch, cmdQueue, api>> /\ outbox' = outbox \cup cmds
             /\ pc' # pc => outbox' = {} \/ pc' = "post"
             /\ pc = "returns"
  BY <1>1, ReturnedHeadType DEF TakeReturn, RoundInv, Placed, mail, others
<1>2. CASE SwapReturns
  <2>1. /\ batch = <<>> /\ outbox = {}
        /\ UNCHANGED <<batch, cmdQueue, api, slot, outbox>>
    BY <1>2 DEF SwapReturns, RoundInv, Placed, managed, others
  <2> QED
    BY <2>1, RoundQuiet, UnchangedSlots
<1>3. CASE IgnoreReturn
  <2>1. TakeReturn({}) /\ UNCHANGED slot
    BY <1>3 DEF IgnoreReturn
  <2>2. /\ UNCHANGED <<batch, cmdQueue, api, outbox>> /\ batch = <<>>
        /\ pc' # pc => outbox = {} \/ pc' = "post"
    <3>1. /\ UNCHANGED <<batch, cmdQueue, api>> /\ outbox' = outbox \cup {} /\ batch = <<>>
          /\ pc' # pc => outbox' = {} \/ pc' = "post"
      BY <1>1, <2>1
    <3>2. outbox \cup {} = outbox
      OBVIOUS
    <3> QED
      BY <3>1, <3>2
  <2> QED
    BY <2>1, <2>2, RoundQuiet, UnchangedSlots
<1>4. CASE CountReturn \/ RequeueReturn
  <2>1. TakeReturn({}) /\ slot' = [slot EXCEPT ![l.cam] = Returned(s)]
    BY <1>4 DEF CountReturn, RequeueReturn
  <2>2. \A c \in Cameras : SameRound(slot[c], slot'[c])
    BY <1>1, <2>1, ReturnedRound, OneSlotSameRound
  <2>3. /\ UNCHANGED <<batch, cmdQueue, api, outbox>> /\ batch = <<>>
        /\ pc' # pc => outbox = {} \/ pc' = "post"
    <3>1. /\ UNCHANGED <<batch, cmdQueue, api>> /\ outbox' = outbox \cup {} /\ batch = <<>>
          /\ pc' # pc => outbox' = {} \/ pc' = "post"
      BY <1>1, <2>1
    <3>2. outbox \cup {} = outbox
      OBVIOUS
    <3> QED
      BY <3>1, <3>2
  <2> QED
    BY <2>2, <2>3, RoundQuiet
<1>5. CASE RequeueFails
  <2>1. /\ TakeReturn({ErrorCommand(l.cam)}) /\ s.state = "Streaming"
        /\ slot' = [slot EXCEPT ![l.cam] = Faulted(Returned(s), TRUE)]
    BY <1>5 DEF RequeueFails, ReturnRequeues
  <2>2. l.cam \in Cameras /\ s \in Slots /\ InMap(l.cam)
    BY <1>1, <2>1 DEF InMap
  <2>3. SameRound(s, Returned(s)) /\ Returned(s) \in Slots
    BY <2>2, ReturnedRound, ReturnedType
  <2>4. Returned(s).state = "Streaming"
    BY <2>1, <2>3 DEF SameRound
  <2>5. /\ outbox' = outbox \cup {ErrorCommand(l.cam)} /\ batch = <<>>
        /\ UNCHANGED <<batch, cmdQueue, api>> /\ pc' \in {"returns", "post"}
    BY <1>1, <2>1
  <2> QED
    BY <2>1, <2>2, <2>3, <2>4, <2>5, RoundFault
<1> QED
  BY <1>2, <1>3, <1>4, <1>5 DEF DrainReturnedFrames

(* postCommand() by the poll thread.                                       *)
LEMMA RoundPostFromOutbox ==
    ASSUME TypeInv, RoundInv, PostFromOutbox PROVE RoundInv'
<1>1. PICK cmd \in outbox : /\ cmdQueue' = Append(cmdQueue, cmd)
                            /\ PostThen(outbox \ {cmd}, resume)
  BY DEF PostFromOutbox
<1>2. UNCHANGED <<batch, api, slot>> /\ pc = "post"
  BY DEF PostFromOutbox, managed, others
<1>3. /\ outbox' = outbox \ {cmd} /\ cmd \in Commands /\ batch = <<>>
      /\ outbox' # {} => pc' = "post"
  BY <1>1, <1>2 DEF PostThen, RoundInv, Placed, TypeInv, TypeOK
<1>4. Line' = Append(Line, cmd) /\ SeqElems(cmdQueue') = SeqElems(cmdQueue) \cup {cmd}
  BY <1>1, <1>2, <1>3, AppendLast
<1>5. Placed'
  BY <1>2, <1>3 DEF RoundInv, Placed
<1>6. IsError(cmd) => cmd \notin outbox' \cup Todos'
  BY <1>2, <1>3 DEF RoundInv, ErrorsOnce, Todos
<1>7. ErrorsOnce'
  BY <1>2, <1>3, <1>4, <1>6, ErrorsPosted DEF RoundInv
<1>8. Underway' = Underway
  BY <1>2, <1>3, <1>4 DEF Underway
<1> QED
  BY <1>2, <1>5, <1>7, <1>8 DEF RoundInv

(* The periodic check marks as queued what it is about to post.            *)
LEMMA RoundCheckRestarts ==
    ASSUME TypeInv, RoundInv, CheckRestarts PROVE RoundInv'
<1> DEFINE starts == {c \in Cameras : Deferred(c)}
           restarts == {c \in Cameras : AwaitsRestart(c) /\ ~slot[c].backingOff}
           cmds == {Command("StartCamera", c, 0) : c \in starts} \cup
                   {Command("RestartCamera", c, slot[c].recoveryGeneration) :
                        c \in restarts}
<1>1. /\ slot' = [c \in Cameras |->
                     [slot[c] EXCEPT !.startQueued = @ \/ c \in starts,
                                     !.restartQueued = @ \/ c \in restarts]]
      /\ PostThen(cmds, "snapshot") /\ pc = "check"
      /\ UNCHANGED <<batch, cmdQueue, api>>
  BY DEF CheckRestarts, mail, others
<1>2. outbox = {} /\ batch = <<>>
  BY <1>1 DEF RoundInv, Placed
<1>3. /\ \A cmd \in cmds : ~IsError(cmd)
      /\ \A c \in starts : Command("StartCamera", c, 0) \in cmds
      /\ \A c \in restarts :
             Command("RestartCamera", c, slot[c].recoveryGeneration) \in cmds
  BY DEF IsError, Command
<1>4. ASSUME NEW c \in Cameras
      PROVE  /\ slot'[c].state = slot[c].state
             /\ slot'[c].recoveryGeneration = slot[c].recoveryGeneration
             /\ slot'[c].restartPending = slot[c].restartPending
             /\ slot'[c].startPending = slot[c].startPending
             /\ slot'[c].startQueued => slot[c].startQueued \/ c \in starts
             /\ slot'[c].restartQueued => slot[c].restartQueued \/ c \in restarts
  BY ZenonT(60), <1>1 DEF TypeInv, TypeOK, Slots
<1> HIDE DEF cmds, starts, restarts
<1>5. outbox' = cmds /\ pc' \in {"snapshot", "post"} /\ (cmds # {} => pc' = "post")
  BY <1>1 DEF PostThen
<1>6. Placed'
  BY <1>1, <1>2, <1>5 DEF RoundInv, Placed
<1>7. Line' = Line
  BY <1>1 DEF Line
<1>8. ErrorsOnce'
  BY <1>1, <1>3, <1>5, <1>7, ErrorsShrink DEF RoundInv
<1>9. Underway' = Underway \cup cmds
  BY ZenonT(60), <1>1, <1>2, <1>5 DEF Underway
<1>10. ASSUME NEW c \in Cameras PROVE RoundOk(c, slot'[c], Underway')
  <2>1. RoundOk(c, slot[c], Underway')
    BY <1>3, <1>9, RoundGrows DEF RoundInv
  <2> QED
    BY <1>3, <1>4, <1>9, <2>1 DEF RoundOk
<1> QED
  BY <1>6, <1>8, <1>10 DEF RoundInv

(* The events of a poll() round keep every round of recovery.              *)
LEMMA RoundPollRound ==
    ASSUME TypeInv, RoundInv, PollRound PROVE RoundInv'
<1>1. pc \in {"round", "publish", "publishing"} => batch = <<>> /\ outbox = {}
  BY DEF RoundInv, Placed
<1>2. ASSUME NEW c \in Cameras, NEW hangUp \in BOOLEAN, CameraFault(c, hangUp)
      PROVE  RoundInv'
  <2>1. /\ pc = "round" /\ batch = <<>> /\ outbox = {}
        /\ UNCHANGED <<batch, cmdQueue, api>>
    BY <1>1, <1>2 DEF CameraFault, NextFd, mail, others
  <2>2. CASE UNCHANGED <<slot, outbox, pc>>
    BY <2>1, <2>2, RoundQuiet, UnchangedSlots
  <2>3. CASE /\ slot[c].state \notin {"Deleting", "Error"} /\ InMap(c)
             /\ slot' = [slot EXCEPT ![c] = Faulted(slot[c], hangUp)]
             /\ PostThen({ErrorCommand(c)}, "round")
    <3>1. slot[c] \in Slots /\ SameRound(slot[c], slot[c])
      BY DEF TypeInv, TypeOK, SameRound
    <3>2. outbox' = outbox \cup {ErrorCommand(c)} /\ pc' = "post"
      BY <2>1, <2>3 DEF PostThen
    <3> QED
      BY <2>1, <2>3, <3>1, <3>2, RoundFault
  <2> QED
    BY <1>2, <2>2, <2>3 DEF CameraFault
<1>3. ASSUME NEW c \in Cameras, NEW b \in Buffers, DequeueFrame(c, b) PROVE RoundInv'
  <2>1. /\ pc = "round" /\ batch = <<>> /\ outbox = {}
        /\ UNCHANGED <<batch, cmdQueue, api, outbox>>
    BY <1>1, <1>3 DEF DequeueFrame, NextFd, others
  <2>2. CASE UNCHANGED slot
    BY <2>1, <2>2, RoundQuiet, UnchangedSlots
  <2>3. CASE slot' = [slot EXCEPT ![c].inFlightFrames = @ + 1]
    <3>1. \A d \in Cameras : SameRound(slot[d], slot'[d])
      BY SMTT(40), <2>3 DEF SameRound, TypeInv, TypeOK, Slots
    <3> QED
      BY <2>1, <3>1, RoundQuiet
  <2> QED
    BY <1>3, <2>2, <2>3 DEF DequeueFrame
<1>4. ASSUME pc \in {"round", "publish", "publishing"},
             UNCHANGED <<batch, cmdQueue, api, outbox, slot>>
      PROVE  RoundInv'
  BY <1>1, <1>4, RoundQuiet, UnchangedSlots
<1>5. ASSUME NEW c \in Cameras, NothingReady(c) PROVE RoundInv'
  BY <1>4, <1>5 DEF NothingReady, NextFd, managed, mail, others
<1>6. CASE BeginPublish \/ EndPublish \/ PostToDecoder
  BY <1>4, <1>6 DEF BeginPublish, EndPublish, PostToDecoder, managed
<1>7. CASE HandleWakeEvent \/ RoundEnds
  BY <1>4, <1>7 DEF HandleWakeEvent, RoundEnds, managed, mail, others
<1> QED
  BY <1>2, <1>3, <1>5, <1>6, <1>7 DEF PollRound

(* The poll thread keeps every round.                                      *)
LEMMA RoundPollThread ==
    ASSUME TypeInv, RoundInv, PollThread PROVE RoundInv'
<1>1. ASSUME pc \notin {"commands", "returns", "post"},
             UNCHANGED <<batch, cmdQueue, api, outbox, slot>>
      PROVE  RoundInv'
  <2>1. batch = <<>> /\ outbox = {}
    BY <1>1 DEF RoundInv, Placed
  <2> QED
    BY <1>1, <2>1, RoundQuiet, UnchangedSlots
<1>2. CASE RunLoop \/ Snapshot \/ TestWaitPredicate \/ FallAsleep \/ WaitTimesOut
           \/ PollReturns \/ PollFails
  <2>1. /\ pc \notin {"commands", "returns", "post"}
        /\ UNCHANGED <<batch, cmdQueue, api, outbox, slot>>
    BY <1>2 DEF RunLoop, Snapshot, TestWaitPredicate, FallAsleep, WaitTimesOut,
                PollReturns, PollFails, managed, mail, others, locals
  <2> QED
    BY <1>1, <2>1
<1> QED
  BY <1>2, RoundSwapCommands, RoundExecuteCommand, RoundReturns, RoundPostFromOutbox,
     RoundCheckRestarts, RoundPollRound DEF PollThread

(* The rounds start in order.                                              *)
LEMMA RoundInit == Init => RoundInv
<1> SUFFICES ASSUME Init PROVE RoundInv
  OBVIOUS
<1>1. Placed /\ ErrorsOnce
  BY DEF Init, Placed, ErrorsOnce, Line, Todos, IdleClient
<1>2. \A c \in Cameras : RoundOk(c, slot[c], Underway)
  <2>1. Underway = {}
    BY DEF Init, Underway, SeqElems, IdleClient
  <2>2. \A c \in Cameras : RoundOk(c, FreshSlot("Unused"), {})
    BY DEF RoundOk, FreshSlot
  <2> QED
    BY <2>1, <2>2 DEF Init
<1> QED
  BY <1>1, <1>2 DEF RoundInv

(* ... and stay in order.                                                  *)
LEMMA RoundNext == TypeInv /\ RoundInv /\ [Next]_vars => RoundInv'
<1> SUFFICES ASSUME TypeInv, RoundInv, [Next]_vars PROVE RoundInv'
  OBVIOUS
<1>1. ASSUME NEW p \in Clients, ApiCall(p) \/ ApiContinues(p) PROVE RoundInv'
  BY <1>1, RoundApiCall, RoundApiContinues
<1>2. ASSUME NEW s \in Sinks, Downstream(s) PROVE RoundInv'
  <2>1. /\ UNCHANGED <<batch, cmdQueue, api, outbox, slot>>
        /\ pc' # pc => pc = "cvWait"
    BY <1>2 DEF Downstream, NotifyReturn, ReleaseLease, Notify, managed, locals
  <2>2. pc = "cvWait" => batch = <<>> /\ outbox = {}
    BY DEF RoundInv, Placed
  <2> QED
    BY <2>1, <2>2, RoundQuiet, UnchangedSlots
<1>3. ASSUME NEW c \in Cameras, BackoffElapses(c) PROVE RoundInv'
  <2>1. \A d \in Cameras : SameRound(slot[d], slot'[d])
    BY SMTT(40), <1>3 DEF BackoffElapses, SameRound, TypeInv, TypeOK, Slots
  <2> QED
    BY <1>3, <2>1, RoundQuiet DEF BackoffElapses, mail, locals, others
<1>4. CASE UNCHANGED vars
  BY <1>4, RoundQuiet, UnchangedSlots DEF vars, managed, mail, locals, others
<1> QED
  BY <1>1, <1>2, <1>3, <1>4, RoundPollThread DEF Next

(* Every recovery round is processed exactly once, and no camera is stuck  *)
(* in it: the command that ends it is underway, or the periodic check will *)
(* post it. It holds whatever faults, calls and commands race.             *)
THEOREM RoundsStayAccounted == Spec => []RoundsAccounted
<1>1. RoundInv => RoundsAccounted
  BY DEF RoundInv, RoundOk, RoundsAccounted, NoCameraStuck, OneErrorPerRound
<1> QED
  BY <1>1, TypeInit, TypeNext, RoundInit, RoundNext, PTL DEF Spec

-----------------------------------------------------------------------------
(* Buffers: a V4L2 buffer has one owner, inFlightFrames counts the leases  *)
(* that are out, and a device is restarted only when there is none.        *)

(* How many frames of queue q are of camera c and lease generation g.      *)
Indexes(q, c, g) == {i \in DOMAIN q : q[i].cam = c /\ q[i].gen = g}

Count(q, c, g) == Cardinality(Indexes(q, c, g))

Counts(l, c, g) == l.cam = c /\ l.gen = g

(* They are finitely many.                                                 *)
LEMMA CountType ==
    ASSUME NEW q \in Seq(Leases), NEW c, NEW g
    PROVE  IsFiniteSet(Indexes(q, c, g)) /\ Count(q, c, g) \in Nat
<1>1. Indexes(q, c, g) \subseteq 1 .. Len(q) /\ Len(q) \in Nat
  BY DEF Indexes
<1>2. IsFiniteSet(1 .. Len(q))
  BY <1>1, FS_Interval
<1>3. IsFiniteSet(Indexes(q, c, g))
  BY <1>1, <1>2, FS_Subset
<1> QED
  BY <1>3, FS_CardinalityType DEF Count

(* An empty queue has none, and neither has one without frames of c and g. *)
LEMMA CountNone ==
    ASSUME NEW q, NEW c, NEW g, \A i \in DOMAIN q : ~Counts(q[i], c, g)
    PROVE  Count(q, c, g) = 0
<1>1. Indexes(q, c, g) = {}
  BY DEF Indexes, Counts
<1> QED
  BY <1>1, FS_EmptySet DEF Count

(* Pushing a frame counts it.                                              *)
LEMMA CountAppend ==
    ASSUME NEW q \in Seq(Leases), NEW c, NEW g, NEW l \in Leases
    PROVE  Count(Append(q, l), c, g) = Count(q, c, g) + IF Counts(l, c, g) THEN 1 ELSE 0
<1> DEFINE n == Len(q) + 1
           a == Append(q, l)
<1>1. /\ Len(q) \in Nat /\ DOMAIN q = 1 .. Len(q) /\ DOMAIN a = 1 .. n
      /\ a[n] = l /\ \A i \in 1 .. Len(q) : a[i] = q[i]
  OBVIOUS
<1>2. n \notin Indexes(q, c, g)
  BY <1>1 DEF Indexes
<1>3. IsFiniteSet(Indexes(q, c, g)) /\ Count(q, c, g) \in Nat
  BY CountType
<1> HIDE DEF a
<1>4. CASE Counts(l, c, g)
  <2>1. Indexes(a, c, g) = Indexes(q, c, g) \cup {n}
    BY <1>1, <1>4 DEF Indexes, Counts
  <2>2. Cardinality(Indexes(q, c, g) \cup {n}) = Cardinality(Indexes(q, c, g)) + 1
    BY <1>2, <1>3, FS_AddElement
  <2> QED
    BY <1>4, <2>1, <2>2 DEF Count, a
<1>5. CASE ~Counts(l, c, g)
  <2>1. Indexes(a, c, g) = Indexes(q, c, g)
    BY <1>1, <1>5 DEF Indexes, Counts
  <2> QED
    BY <1>3, <1>5, <2>1 DEF Count, a
<1> QED
  BY <1>4, <1>5

(* Taking a frame uncounts it.                                             *)
LEMMA CountTail ==
    ASSUME NEW q \in Seq(Leases), q # <<>>, NEW c, NEW g
    PROVE  Count(q, c, g) =
               Count(Tail(q), c, g) + IF Counts(Head(q), c, g) THEN 1 ELSE 0
<1> DEFINE t == Tail(q)
           S == Indexes(t, c, g)
           T == Indexes(q, c, g) \ {1}
           f == [i \in S |-> i + 1]
<1>1. /\ t \in Seq(Leases) /\ Len(q) \in Nat \ {0} /\ DOMAIN q = 1 .. Len(q)
      /\ DOMAIN t = 1 .. Len(q) - 1 /\ Head(q) = q[1]
      /\ \A i \in 1 .. Len(q) - 1 : t[i] = q[i + 1]
  OBVIOUS
<1>2. IsFiniteSet(S) /\ IsFiniteSet(Indexes(q, c, g))
  BY <1>1, CountType
<1>3. f \in Bijection(S, T)
  <2> HIDE DEF t
  <2>1. \A i \in S : i \in Int /\ i + 1 \in T
    BY <1>1 DEF Indexes
  <2>2. ASSUME NEW j \in T PROVE \E i \in S : i + 1 = j
    <3>1. j - 1 \in S /\ (j - 1) + 1 = j
      BY <1>1 DEF Indexes
    <3> QED
      BY <3>1
  <2> HIDE DEF S, T
  <2>3. f \in [S -> T] /\ \A i \in S : f[i] = i + 1
    BY <2>1
  <2> HIDE DEF f
  <2>4. f \in Injection(S, T)
    <3>1. ASSUME NEW i \in S, NEW j \in S, f[i] = f[j] PROVE i = j
      <4>1. i \in Int /\ j \in Int /\ i + 1 = j + 1
        BY <2>1, <2>3, <3>1
      <4> QED
        BY <4>1
    <3> QED
      BY <2>3, <3>1 DEF Injection, IsInjective
  <2>5. f \in Surjection(S, T)
    BY <2>2, <2>3 DEF Surjection
  <2> QED
    BY <2>4, <2>5 DEF Bijection
<1>4. Cardinality(T) = Cardinality(S)
  <2> HIDE DEF S, T, f
  <2>1. ExistsBijection(S, T)
    BY <1>3 DEF ExistsBijection
  <2> QED
    BY <1>2, <2>1, FS_Bijection
<1>5. /\ Count(q, c, g) \in Nat
      /\ Cardinality(T) = IF 1 \in Indexes(q, c, g) THEN Count(q, c, g) - 1
                                                   ELSE Count(q, c, g)
  BY <1>2, FS_RemoveElement, CountType DEF Count
<1>6. 1 \in Indexes(q, c, g) <=> Counts(Head(q), c, g)
  BY <1>1 DEF Indexes, Counts
<1> QED
  BY <1>4, <1>5, <1>6 DEF Count
-----------------------------------------------------------------------------
(* One camera c: its slot s, its device src, the leases that are held, and *)
(* the two queues of frames on their way back.                             *)
Gone(s) == s.state \in {"Unused", "Erased"}

OfCam(held, c) == {l \in held : l.cam = c}

(* A lease is of a camera that has been added, and of no generation to     *)
(* come.                                                                   *)
Known(l, s) == s.state # "Unused" /\ (~Gone(s) => l.gen <= s.leaseGeneration)

(* OneOwnerPerBuffer of one camera that streams.                           *)
OneOwner(c, g, src, held, way) ==
    /\ \A l \in held : Counts(l, c, g) => l.buf \notin src.queued
    /\ \A i \in 1 .. Len(way) : Counts(way[i], c, g) =>
           /\ way[i].buf \notin src.queued
           /\ \A l \in held : Counts(l, c, g) => l.buf # way[i].buf
           /\ \A j \in 1 .. Len(way) :
                  Counts(way[j], c, g) /\ way[i].buf = way[j].buf => i = j

Covered(c, s, held, first, rest) ==
    s.inFlightFrames >= Cardinality(OfCam(held, c))
                        + Count(first, c, s.leaseGeneration)
                        + Count(rest, c, s.leaseGeneration)

(* BuffersAccounted of one camera, and what makes it inductive.            *)
BufOk(c, s, src, held, first, rest) ==
    /\ s.leaseGeneration >= 1
    /\ s.state = "Streaming" => IsStreaming(src)
    /\ s.state = "Unused" => src.queued = {}
    /\ \A l \in held : l.cam = c => Known(l, s)
    /\ \A i \in 1 .. Len(first \o rest) :
           (first \o rest)[i].cam = c => Known((first \o rest)[i], s)
    /\ ~Gone(s) =>
           /\ Covered(c, s, held, first, rest)
           /\ IsStreaming(src) =>
                  OneOwner(c, s.leaseGeneration, src, held, first \o rest)

(* Buffer b of camera c is accounted for: it is the driver's, a sink's, or *)
(* on its way back.                                                        *)
HasBuf(b, c, g, src, held, way) ==
    \/ b \in src.queued
    \/ \E l \in held : Counts(l, c, g) /\ l.buf = b
    \/ \E i \in 1 .. Len(way) : Counts(way[i], c, g) /\ way[i].buf = b

(* The leases of a camera are finitely many, and so are its returns.       *)
LEMMA OutCounts ==
    ASSUME NEW held \in SUBSET Leases, IsFiniteSet(held), NEW first \in Seq(Leases),
           NEW rest \in Seq(Leases), NEW c, NEW g
    PROVE  /\ IsFiniteSet(OfCam(held, c)) /\ Cardinality(OfCam(held, c)) \in Nat
           /\ Count(first, c, g) \in Nat /\ Count(rest, c, g) \in Nat
           /\ first \o rest \in Seq(Leases)
           /\ Len(first \o rest) \in Nat
           /\ \A i \in 1 .. Len(first \o rest) : (first \o rest)[i] \in Leases
<1>1. OfCam(held, c) \subseteq held
  BY DEF OfCam
<1>2. IsFiniteSet(OfCam(held, c))
  BY <1>1, FS_Subset
<1> QED
  BY <1>2, FS_CardinalityType, CountType

(* The slot changes within a lease generation, and the device not at all,  *)
(* or it is one that does not stream.                                      *)
LEMMA BufSlot ==
    ASSUME NEW c, NEW s \in Slots, NEW t \in Slots, NEW src \in Sources,
           NEW out \in Sources, NEW held, NEW first, NEW rest,
           BufOk(c, s, src, held, first, rest),
           t.leaseGeneration = s.leaseGeneration, t.inFlightFrames = s.inFlightFrames,
           Gone(s) => Gone(t), t.state = "Unused" => s.state = "Unused",
           \/ out = src /\ (t.state = "Streaming" => IsStreaming(src))
           \/ ~IsStreaming(out) /\ t.state \notin {"Streaming", "Unused"}
    PROVE  BufOk(c, t, out, held, first, rest)
<1>1. \A l : Known(l, s) => Known(l, t)
  BY DEF Known
<1> QED
  BY <1>1 DEF BufOk, Covered

(* An erased camera has no buffers.                                        *)
LEMMA BufErased ==
    ASSUME NEW c, NEW src \in Sources, NEW held, NEW first, NEW rest
    PROVE  BufOk(c, FreshSlot("Erased"), src, held, first, rest)
<1>1. FreshSlot("Erased").state = "Erased" /\ FreshSlot("Erased").leaseGeneration = 1
  BY DEF FreshSlot
<1> QED
  BY <1>1 DEF BufOk, Gone, Known

(* A camera that has just been added has none out.                         *)
LEMMA BufFresh ==
    ASSUME NEW c, NEW s, NEW src, NEW held \in SUBSET Leases, IsFiniteSet(held),
           NEW first \in Seq(Leases), NEW rest \in Seq(Leases),
           BufOk(c, s, src, held, first, rest), s.state = "Unused"
    PROVE  BufOk(c, FreshSlot("Ready"), PreparedSource, held, first, rest)
<1> DEFINE t == FreshSlot("Ready")
<1>1. /\ t.state = "Ready" /\ t.leaseGeneration = 1 /\ t.inFlightFrames = 0
      /\ ~IsStreaming(PreparedSource)
  BY DEF FreshSlot, IsStreaming, PreparedSource
<1>2. /\ \A l \in held : l.cam # c
      /\ \A i \in 1 .. Len(first \o rest) : (first \o rest)[i].cam # c
  BY DEF BufOk, Known
<1>3. Cardinality(OfCam(held, c)) = 0
  <2>1. OfCam(held, c) = {}
    BY <1>2 DEF OfCam
  <2> QED
    BY <2>1, FS_EmptySet
<1>4. Count(first, c, 1) = 0 /\ Count(rest, c, 1) = 0
  <2>1. SeqElems(first) \subseteq SeqElems(first \o rest)
        /\ SeqElems(rest) \subseteq SeqElems(first \o rest)
    BY ConcatElems
  <2>2. \A l \in SeqElems(first \o rest) : l.cam # c
    BY <1>2 DEF SeqElems
  <2>3. /\ DOMAIN first = 1 .. Len(first) /\ DOMAIN rest = 1 .. Len(rest)
    OBVIOUS
  <2>4. /\ \A i \in DOMAIN first : ~Counts(first[i], c, 1)
        /\ \A i \in DOMAIN rest : ~Counts(rest[i], c, 1)
    BY <2>1, <2>2, <2>3 DEF SeqElems, Counts
  <2> QED
    BY <2>4, CountNone
<1>5. Covered(c, t, held, first, rest)
  BY <1>1, <1>3, <1>4 DEF Covered
<1> HIDE DEF t
<1>6. BufOk(c, t, PreparedSource, held, first, rest)
  BY <1>1, <1>2, <1>5 DEF BufOk
<1> QED
  BY <1>6 DEF t

(* A start begins a lease generation of which no frame is out.             *)
LEMMA BufRunning ==
    ASSUME NEW c, NEW s \in Slots, NEW t \in Slots, NEW src, NEW out \in Sources,
           NEW held \in SUBSET Leases, IsFiniteSet(held), NEW first \in Seq(Leases),
           NEW rest \in Seq(Leases), BufOk(c, s, src, held, first, rest), ~Gone(s),
           t.leaseGeneration = s.leaseGeneration + 1,
           t.inFlightFrames = s.inFlightFrames,
           t.state = "Streaming", IsStreaming(out)
    PROVE  BufOk(c, t, out, held, first, rest)
<1> DEFINE g == s.leaseGeneration
           way == first \o rest
<1>1. g \in Nat /\ s.inFlightFrames \in Nat /\ ~Gone(t) /\ t.state # "Unused"
  BY SlotNumbers DEF Gone
<1>2. /\ \A l \in held : l.cam = c => l.gen <= g /\ l.gen \in Nat
      /\ \A i \in 1 .. Len(way) : way[i].cam = c => way[i].gen <= g /\ way[i].gen \in Nat
  BY OutCounts DEF BufOk, Known, Leases
<1>3. /\ \A l \in held : ~Counts(l, c, g + 1)
      /\ \A i \in 1 .. Len(way) : ~Counts(way[i], c, g + 1)
  BY <1>1, <1>2 DEF Counts
<1>4. Count(first, c, g + 1) = 0 /\ Count(rest, c, g + 1) = 0
  <2>1. SeqElems(first) \subseteq SeqElems(way) /\ SeqElems(rest) \subseteq SeqElems(way)
    BY ConcatElems
  <2>2. \A l \in SeqElems(way) : ~Counts(l, c, g + 1)
    BY <1>3 DEF SeqElems
  <2>3. DOMAIN first = 1 .. Len(first) /\ DOMAIN rest = 1 .. Len(rest)
    OBVIOUS
  <2> HIDE DEF g, way
  <2>4. /\ \A i \in DOMAIN first : ~Counts(first[i], c, g + 1)
        /\ \A i \in DOMAIN rest : ~Counts(rest[i], c, g + 1)
    BY <2>1, <2>2, <2>3 DEF SeqElems
  <2> QED
    BY <2>4, CountNone
<1>5. Covered(c, t, held, first, rest)
  <2>1. Covered(c, s, held, first, rest)
    BY DEF BufOk
  <2>2. /\ Cardinality(OfCam(held, c)) \in Nat /\ Count(first, c, g) \in Nat
        /\ Count(rest, c, g) \in Nat
    BY OutCounts
  <2> QED
    BY <1>1, <1>4, <2>1, <2>2 DEF Covered
<1>6. OneOwner(c, g + 1, out, held, way)
  BY <1>3 DEF OneOwner
<1>7. /\ \A l \in held : l.cam = c => Known(l, t)
      /\ \A i \in 1 .. Len(way) : way[i].cam = c => Known(way[i], t)
  BY SMTT(40), <1>1, <1>2 DEF Known
<1> HIDE DEF g
<1> QED
  BY <1>1, <1>5, <1>6, <1>7 DEF BufOk, g

(* Leases of other cameras do not matter.                                  *)
LEMMA BufElsewhere ==
    ASSUME NEW c, NEW s, NEW src, NEW held, NEW keep, NEW first, NEW rest,
           BufOk(c, s, src, held, first, rest), \A l \in keep : l.cam = c <=> l \in held /\ l.cam = c,
           \A l \in held : l.cam = c => l \in keep
    PROVE  /\ BufOk(c, s, src, keep, first, rest)
           /\ \A b, g, way : HasBuf(b, c, g, src, held, way) => HasBuf(b, c, g, src, keep, way)
<1>1. OfCam(keep, c) = OfCam(held, c)
  BY DEF OfCam
<1>2. \A l, g : Counts(l, c, g) => (l \in keep <=> l \in held)
  BY DEF Counts
<1>3. Covered(c, s, held, first, rest) => Covered(c, s, keep, first, rest)
  BY <1>1 DEF Covered
<1>4. \A l \in keep : l.cam = c => l \in held
  OBVIOUS
<1>5. \A b, g, way : HasBuf(b, c, g, src, held, way) => HasBuf(b, c, g, src, keep, way)
  BY <1>2 DEF HasBuf
<1>6. \A g, way : OneOwner(c, g, src, held, way) => OneOwner(c, g, src, keep, way)
  BY <1>2 DEF OneOwner
<1>7. BufOk(c, s, src, keep, first, rest)
  BY <1>3, <1>4, <1>6 DEF BufOk
<1> QED
  BY <1>5, <1>7

(* A lease that is dropped is on its way back.                             *)
LEMMA BufReturn ==
    ASSUME NEW c, NEW s \in Slots, NEW src, NEW held \in SUBSET Leases,
           IsFiniteSet(held), NEW first \in Seq(Leases), NEW rest \in Seq(Leases),
           NEW l \in held, BufOk(c, s, src, held, first, rest)
    PROVE  /\ BufOk(c, s, src, held \ {l}, first, Append(rest, l))
           /\ \A b, g : HasBuf(b, c, g, src, held, first \o rest) =>
                  HasBuf(b, c, g, src, held \ {l}, first \o Append(rest, l))
<1> DEFINE g == s.leaseGeneration
           way == first \o rest
           new == first \o Append(rest, l)
           keep == held \ {l}
           n == Len(way) + 1
<1>1. /\ new = Append(way, l) /\ way \in Seq(Leases) /\ l \in Leases
      /\ Append(rest, l) \in Seq(Leases)
  BY ConcatAppend
<1>2. /\ Len(way) \in Nat /\ Len(new) = n /\ new[n] = l
      /\ \A i \in 1 .. Len(way) : new[i] = way[i]
      /\ \A i \in 1 .. n : i = n \/ i \in 1 .. Len(way)
      /\ n \in 1 .. n /\ 1 .. Len(way) \subseteq 1 .. n
  BY <1>1
<1>3. Covered(c, s, held, first, rest) => Covered(c, s, keep, first, Append(rest, l))
  <2>1. /\ Cardinality(OfCam(held, c)) \in Nat /\ Count(first, c, g) \in Nat
        /\ Count(rest, c, g) \in Nat /\ IsFiniteSet(OfCam(held, c))
        /\ s.inFlightFrames \in Nat
    BY OutCounts, SlotNumbers
  <2>2. Count(Append(rest, l), c, g) = Count(rest, c, g) + IF Counts(l, c, g) THEN 1 ELSE 0
    BY CountAppend
  <2>3. CASE l.cam = c
    <3>1. OfCam(keep, c) = OfCam(held, c) \ {l} /\ l \in OfCam(held, c)
      BY <2>3 DEF OfCam
    <3>2. Cardinality(OfCam(keep, c)) = Cardinality(OfCam(held, c)) - 1
      <4> DEFINE O == OfCam(held, c)
      <4>1. IsFiniteSet(O) /\ l \in O /\ OfCam(keep, c) = O \ {l}
        BY <2>1, <3>1
      <4> HIDE DEF O
      <4>2. Cardinality(O \ {l}) = Cardinality(O) - 1
        BY <4>1, FS_RemoveElement
      <4> QED
        BY <4>1, <4>2 DEF O
    <3> HIDE DEF g, keep
    <3> QED
      BY <2>1, <2>2, <3>2 DEF Covered, g
  <2>4. CASE l.cam # c
    <3>1. OfCam(keep, c) = OfCam(held, c)
      BY <2>4 DEF OfCam
    <3>2. ~Counts(l, c, g)
      BY <2>4 DEF Counts
    <3> HIDE DEF g, keep
    <3> QED
      BY <2>1, <2>2, <3>1, <3>2 DEF Covered, g
  <2> QED
    BY <2>3, <2>4
<1> HIDE DEF new, n, way
<1>4. OneOwner(c, g, src, held, way) => OneOwner(c, g, src, keep, new)
  <2> HIDE DEF g
  <2> SUFFICES ASSUME OneOwner(c, g, src, held, way) PROVE OneOwner(c, g, src, keep, new)
    OBVIOUS
  <2>1. \A k \in keep : Counts(k, c, g) => k.buf \notin src.queued
    BY DEF OneOwner
  <2>2. ASSUME NEW k \in keep, Counts(k, c, g), Counts(l, c, g) PROVE k.buf # l.buf
    <3>1. k \in Leases /\ l \in Leases
      OBVIOUS
    <3> QED
      BY <2>2, <3>1 DEF Leases, Counts
  <2>3. ASSUME NEW i \in 1 .. Len(new), Counts(new[i], c, g)
        PROVE  /\ new[i].buf \notin src.queued
               /\ \A k \in keep : Counts(k, c, g) => k.buf # new[i].buf
               /\ \A j \in 1 .. Len(new) :
                      Counts(new[j], c, g) /\ new[i].buf = new[j].buf => i = j
    <3>1. CASE i = n
      BY <1>2, <2>2, <2>3, <3>1 DEF OneOwner
    <3>2. CASE i \in 1 .. Len(way)
      BY <1>2, <2>3, <3>2 DEF OneOwner
    <3> QED
      BY <1>2, <3>1, <3>2
  <2> QED
    BY <2>1, <2>3 DEF OneOwner
<1>5. ASSUME NEW i \in 1 .. Len(new), new[i].cam = c PROVE Known(new[i], s)
  <2>1. CASE i = n
    BY <1>2, <1>5, <2>1 DEF BufOk
  <2>2. CASE i \in 1 .. Len(way)
    BY <1>2, <1>5, <2>2 DEF BufOk, way
  <2> QED
    BY <1>2, <2>1, <2>2
<1>6. BufOk(c, s, src, keep, first, Append(rest, l))
  BY <1>3, <1>4, <1>5 DEF BufOk, way, new
<1>7. ASSUME NEW b, NEW f, HasBuf(b, c, f, src, held, way)
      PROVE  HasBuf(b, c, f, src, keep, new)
  BY <1>2, <1>7 DEF HasBuf
<1> QED
  BY <1>6, <1>7 DEF way, new

(* A frame dequeued from a camera that was stopped or is being deleted is  *)
(* returned under a generation that no lease has.                          *)
LEMMA BufOld ==
    ASSUME NEW c, NEW s \in Slots, NEW src, NEW out, NEW held \in SUBSET Leases,
           IsFiniteSet(held), NEW first \in Seq(Leases), NEW rest \in Seq(Leases),
           NEW l \in Leases, BufOk(c, s, src, held, first, rest),
           l.gen = 0, l.cam = c => s.state # "Unused", out.queued \subseteq src.queued,
           out.stage = src.stage
    PROVE  /\ BufOk(c, s, out, held, first, Append(rest, l))
           /\ \A b, g : HasBuf(b, c, g, src, held, first \o rest) =>
                  HasBuf(b, c, g, src, held, first \o Append(rest, l))
<1> DEFINE g == s.leaseGeneration
           way == first \o rest
           new == first \o Append(rest, l)
           n == Len(way) + 1
<1>1. /\ new = Append(way, l) /\ way \in Seq(Leases)
  BY ConcatAppend
<1>2. /\ Len(way) \in Nat /\ Len(new) = n /\ new[n] = l
      /\ \A i \in 1 .. Len(way) : new[i] = way[i]
      /\ \A i \in 1 .. n : i = n \/ i \in 1 .. Len(way)
      /\ 1 .. Len(way) \subseteq 1 .. n
  BY SMTT(40), <1>1
<1>3. g \in Nat /\ g >= 1 /\ ~Counts(l, c, g)
  BY SlotNumbers DEF BufOk, Counts
<1>4. Covered(c, s, held, first, rest) => Covered(c, s, held, first, Append(rest, l))
  <2>1. Count(Append(rest, l), c, g) = Count(rest, c, g)
    BY <1>3, CountAppend, CountType
  <2> QED
    BY <2>1 DEF Covered
<1>5. Known(l, s) \/ l.cam # c
  BY <1>3 DEF Known
<1> HIDE DEF new, n, way, g
<1>6. OneOwner(c, g, src, held, way) => OneOwner(c, g, out, held, new)
  <2>1. ASSUME NEW i \in 1 .. Len(new), Counts(new[i], c, g)
        PROVE  i \in 1 .. Len(way) /\ new[i] = way[i]
    BY <1>2, <1>3, <2>1
  <2>2. SUFFICES ASSUME OneOwner(c, g, src, held, way) PROVE OneOwner(c, g, out, held, new)
    OBVIOUS
  <2>3. \A k \in held : Counts(k, c, g) => k.buf \notin out.queued
    BY <2>2 DEF OneOwner
  <2>4. ASSUME NEW i \in 1 .. Len(new), Counts(new[i], c, g)
        PROVE  /\ new[i].buf \notin out.queued
               /\ \A k \in held : Counts(k, c, g) => k.buf # new[i].buf
               /\ \A j \in 1 .. Len(new) :
                      Counts(new[j], c, g) /\ new[i].buf = new[j].buf => i = j
    <3>1. i \in 1 .. Len(way) /\ new[i] = way[i] /\ Counts(way[i], c, g)
      BY <2>1, <2>4
    <3>2. \A j \in 1 .. Len(new) : Counts(new[j], c, g) =>
              j \in 1 .. Len(way) /\ new[j] = way[j]
      BY <2>1
    <3> QED
      BY <2>2, <3>1, <3>2 DEF OneOwner
  <2> QED
    BY <2>3, <2>4 DEF OneOwner
<1>7. ASSUME NEW i \in 1 .. Len(new), new[i].cam = c PROVE Known(new[i], s)
  <2>1. CASE i = n
    BY <1>2, <1>5, <1>7, <2>1
  <2>2. CASE i \in 1 .. Len(way)
    BY <1>2, <1>7, <2>2 DEF BufOk, way
  <2> QED
    BY <1>2, <2>1, <2>2
<1>8. BufOk(c, s, out, held, first, Append(rest, l))
  BY <1>4, <1>6, <1>7 DEF BufOk, way, new, g, IsStreaming
<1>9. ASSUME NEW b, NEW f, HasBuf(b, c, f, src, held, way)
      PROVE  HasBuf(b, c, f, src, held, new)
  BY <1>2, <1>9 DEF HasBuf
<1> QED
  BY <1>8, <1>9 DEF way, new

(* DQBUF of a camera that streams: lease l is of buffer b, and slot t      *)
(* counts it.                                                              *)
Takes(c, s, t, b, l) ==
    /\ l.cam = c /\ l.buf = b /\ l.gen = s.leaseGeneration
    /\ s.state = "Streaming" /\ t.state = s.state
    /\ t.leaseGeneration = s.leaseGeneration
    /\ t.inFlightFrames = s.inFlightFrames + 1

LEMMA BufTake ==
    ASSUME NEW c, NEW s \in Slots, NEW t \in Slots, NEW src \in Sources,
           NEW b \in src.queued, NEW held \in SUBSET Leases,
           IsFiniteSet(held), NEW first \in Seq(Leases), NEW rest \in Seq(Leases),
           NEW l, Takes(c, s, t, b, l), BufOk(c, s, src, held, first, rest)
    PROVE  /\ BufOk(c, t, Dequeue(src, b), held \cup {l}, first, rest)
           /\ l \notin held
           /\ \A d : HasBuf(d, c, s.leaseGeneration, src, held, first \o rest) =>
                  HasBuf(d, c, s.leaseGeneration, Dequeue(src, b), held \cup {l},
                         first \o rest)
<1> USE DEF Takes
<1> DEFINE g == s.leaseGeneration
           way == first \o rest
           out == Dequeue(src, b)
           more == held \cup {l}
<1>1. /\ out.queued = src.queued \ {b} /\ out.stage = src.stage
      /\ IsStreaming(out) /\ IsStreaming(src)
  BY DEF Dequeue, Sources, BufOk, IsStreaming
<1>2. OneOwner(c, g, src, held, way) /\ Covered(c, s, held, first, rest)
  BY <1>1 DEF BufOk, Gone
<1>3. Counts(l, c, g) /\ l \notin held
  BY <1>2 DEF OneOwner, Counts
<1>4. Covered(c, t, more, first, rest)
  <2>1. /\ Cardinality(OfCam(held, c)) \in Nat /\ Count(first, c, g) \in Nat
        /\ Count(rest, c, g) \in Nat /\ IsFiniteSet(OfCam(held, c))
        /\ s.inFlightFrames \in Nat
    BY OutCounts, SlotNumbers
  <2>2. OfCam(more, c) = OfCam(held, c) \cup {l} /\ l \notin OfCam(held, c)
    BY <1>3 DEF OfCam
  <2>3. Cardinality(OfCam(more, c)) = Cardinality(OfCam(held, c)) + 1
    <3> DEFINE O == OfCam(held, c)
    <3>1. IsFiniteSet(O) /\ l \notin O /\ OfCam(more, c) = O \cup {l}
      BY <2>1, <2>2
    <3> HIDE DEF O
    <3>2. Cardinality(O \cup {l}) = Cardinality(O) + 1
      BY <3>1, FS_AddElement
    <3> QED
      BY <3>1, <3>2 DEF O
  <2> HIDE DEF g, more
  <2>4. t.leaseGeneration = g /\ t.inFlightFrames = s.inFlightFrames + 1
    BY DEF g
  <2>5. s.inFlightFrames >= Cardinality(OfCam(held, c)) + Count(first, c, g) + Count(rest, c, g)
    BY <1>2 DEF Covered, g
  <2> QED
    BY <2>1, <2>3, <2>4, <2>5 DEF Covered
<1> HIDE DEF way, out, more, g
<1>5. OneOwner(c, g, out, more, way)
  <2>1. \A k \in more : k \in held \/ k = l
    BY DEF more
  <2> QED
    BY <1>1, <1>2, <1>3, <2>1 DEF OneOwner
<1>6. /\ \A k \in more : k.cam = c => Known(k, t)
      /\ \A i \in 1 .. Len(way) : way[i].cam = c => Known(way[i], t)
  <2>1. /\ \A k \in held : k.cam = c => Known(k, s)
        /\ \A i \in 1 .. Len(way) : way[i].cam = c => Known(way[i], s)
    BY DEF BufOk, way
  <2>2. \A k : Known(k, s) => Known(k, t)
    BY DEF Known, Gone
  <2>3. Known(l, t)
    BY SlotNumbers DEF Known
  <2> QED
    BY <2>1, <2>2, <2>3 DEF more
<1>7. BufOk(c, t, out, more, first, rest)
  BY <1>1, <1>4, <1>5, <1>6 DEF BufOk, way, g
<1>8. ASSUME NEW d, HasBuf(d, c, g, src, held, way) PROVE HasBuf(d, c, g, out, more, way)
  BY <1>1, <1>3, <1>8 DEF HasBuf, more
<1> QED
  BY <1>3, <1>7, <1>8 DEF way, out, more, g

(* drainReturnedFrames() takes the queue.                                  *)
LEMMA BufSwap ==
    ASSUME NEW c, NEW s \in Slots, NEW src, NEW held \in SUBSET Leases,
           IsFiniteSet(held), NEW rest \in Seq(Leases),
           BufOk(c, s, src, held, <<>>, rest)
    PROVE  BufOk(c, s, src, held, rest, <<>>)
<1> DEFINE k == Cardinality(OfCam(held, c))
           m == Count(rest, c, s.leaseGeneration)
<1>1. <<>> \o rest = rest /\ rest \o <<>> = rest /\ <<>> \in Seq(Leases)
  BY ConcatEmptySeq
<1>2. /\ Count(<<>>, c, s.leaseGeneration) = 0
      /\ k \in Nat /\ m \in Nat
  BY <1>1, CountNone, OutCounts
<1>3. Covered(c, s, held, <<>>, rest) => Covered(c, s, held, rest, <<>>)
  <2>1. k + 0 + m = k + m + 0
    BY <1>2
  <2> QED
    BY <1>2, <2>1 DEF Covered
<1> QED
  BY <1>1, <1>3 DEF BufOk

(* The next frame of the batch, and the frames after it.                   *)
LEMMA WayTail ==
    ASSUME NEW first \in Seq(Leases), NEW rest \in Seq(Leases), first # <<>>
    PROVE  LET way == first \o rest
               new == Tail(first) \o rest
           IN  /\ Tail(first) \in Seq(Leases) /\ Head(first) \in Leases
               /\ Len(way) \in Nat /\ Len(new) = Len(way) - 1
               /\ 1 \in 1 .. Len(way) /\ way[1] = Head(first)
               /\ \A i \in 1 .. Len(new) : new[i] = way[i + 1] /\ i + 1 \in 1 .. Len(way)
               /\ \A i \in 1 .. Len(way) :
                      i = 1 \/ (i - 1 \in 1 .. Len(new) /\ way[i] = new[i - 1])
<1> DEFINE way == first \o rest
           new == Tail(first) \o rest
<1>1. way \in Seq(Leases) /\ way # <<>> /\ way[1] = Head(first) /\ new = Tail(way)
  BY ConcatTail
<1>2. Tail(first) \in Seq(Leases) /\ Head(first) \in Leases
  OBVIOUS
<1> HIDE DEF way, new
<1>3. /\ Len(way) \in Nat /\ Len(new) = Len(way) - 1
      /\ 1 \in 1 .. Len(way)
      /\ \A i \in 1 .. Len(new) : new[i] = way[i + 1] /\ i + 1 \in 1 .. Len(way)
      /\ \A i \in 1 .. Len(way) :
             i = 1 \/ (i - 1 \in 1 .. Len(new) /\ way[i] = new[i - 1])
  BY <1>1
<1> QED
  BY <1>1, <1>2, <1>3 DEF way, new

(* A returned frame is taken from the batch without being counted.         *)
LEMMA BufDrop ==
    ASSUME NEW c, NEW s \in Slots, NEW src, NEW held \in SUBSET Leases,
           IsFiniteSet(held), NEW first \in Seq(Leases), NEW rest \in Seq(Leases),
           first # <<>>, BufOk(c, s, src, held, first, rest)
    PROVE  /\ BufOk(c, s, src, held, Tail(first), rest)
           /\ ~Counts(Head(first), c, s.leaseGeneration) => \A b :
                  HasBuf(b, c, s.leaseGeneration, src, held, first \o rest) =>
                  HasBuf(b, c, s.leaseGeneration, src, held, Tail(first) \o rest)
<1> DEFINE g == s.leaseGeneration
           way == first \o rest
           new == Tail(first) \o rest
<1>1. /\ Tail(first) \in Seq(Leases)
      /\ Len(way) \in Nat /\ Len(new) = Len(way) - 1 /\ way[1] = Head(first)
      /\ \A i \in 1 .. Len(new) : new[i] = way[i + 1] /\ i + 1 \in 1 .. Len(way)
      /\ \A i \in 1 .. Len(way) :
             i = 1 \/ (i - 1 \in 1 .. Len(new) /\ way[i] = new[i - 1])
  BY WayTail
<1>2. Covered(c, s, held, first, rest) => Covered(c, s, held, Tail(first), rest)
  <2>1. /\ Cardinality(OfCam(held, c)) \in Nat /\ Count(first, c, g) \in Nat
        /\ Count(rest, c, g) \in Nat /\ Count(Tail(first), c, g) \in Nat
        /\ s.inFlightFrames \in Nat
    BY <1>1, OutCounts, SlotNumbers
  <2>2. Count(Tail(first), c, g) <= Count(first, c, g)
    BY <2>1, CountTail
  <2> HIDE DEF g
  <2> QED
    BY <2>1, <2>2 DEF Covered, g
<1> HIDE DEF way, new, g
<1>3. OneOwner(c, g, src, held, way) => OneOwner(c, g, src, held, new)
  <2> SUFFICES ASSUME OneOwner(c, g, src, held, way) PROVE OneOwner(c, g, src, held, new)
    OBVIOUS
  <2>1. ASSUME NEW i \in 1 .. Len(new), Counts(new[i], c, g)
        PROVE  /\ new[i].buf \notin src.queued
               /\ \A k \in held : Counts(k, c, g) => k.buf # new[i].buf
               /\ \A j \in 1 .. Len(new) :
                      Counts(new[j], c, g) /\ new[i].buf = new[j].buf => i + 1 = j + 1
    BY <1>1, <2>1 DEF OneOwner
  <2>2. \A i, j \in 1 .. Len(new) : i + 1 = j + 1 => i = j
    OBVIOUS
  <2> QED
    BY <2>1, <2>2 DEF OneOwner
<1>4. \A i \in 1 .. Len(new) : new[i].cam = c => Known(new[i], s)
  BY <1>1 DEF BufOk, way
<1>5. BufOk(c, s, src, held, Tail(first), rest)
  BY <1>2, <1>3, <1>4 DEF BufOk, way, new, g
<1>6. ASSUME NEW b, HasBuf(b, c, g, src, held, way), ~Counts(Head(first), c, g)
      PROVE  HasBuf(b, c, g, src, held, new)
  BY <1>1, <1>6 DEF HasBuf
<1> QED
  BY <1>5, <1>6 DEF way, new, g

(* A returned frame of the current generation is counted, and possibly     *)
(* handed back to the driver.                                              *)
LEMMA BufCount ==
    ASSUME NEW c, NEW s \in Slots, NEW t \in Slots, NEW src \in Sources,
           NEW held \in SUBSET Leases,
           IsFiniteSet(held), NEW first \in Seq(Leases), NEW rest \in Seq(Leases),
           first # <<>>, BufOk(c, s, src, held, first, rest), ~Gone(s),
           Counts(Head(first), c, s.leaseGeneration),
           t.state \in {s.state, "Error"}, t.leaseGeneration = s.leaseGeneration,
           t.inFlightFrames = IF s.inFlightFrames > 0 THEN s.inFlightFrames - 1 ELSE 0
    PROVE  /\ BufOk(c, t, src, held, Tail(first), rest)
           /\ IsStreaming(src) =>
                  BufOk(c, t, Requeued(src, Head(first).buf), held, Tail(first), rest)
           /\ \A b : HasBuf(b, c, s.leaseGeneration, src, held, first \o rest) =>
                  HasBuf(b, c, s.leaseGeneration, Requeued(src, Head(first).buf), held,
                         Tail(first) \o rest)
<1> DEFINE g == s.leaseGeneration
           way == first \o rest
           new == Tail(first) \o rest
           l == Head(first)
           out == Requeued(src, l.buf)
<1>1. /\ Tail(first) \in Seq(Leases)
      /\ Len(way) \in Nat /\ Len(new) = Len(way) - 1 /\ way[1] = l
      /\ 1 \in 1 .. Len(way)
      /\ \A i \in 1 .. Len(new) : new[i] = way[i + 1] /\ i + 1 \in 1 .. Len(way)
      /\ \A i \in 1 .. Len(way) :
             i = 1 \/ (i - 1 \in 1 .. Len(new) /\ way[i] = new[i - 1])
  BY WayTail
<1>2. out.queued = src.queued \cup {l.buf} /\ out.stage = src.stage
  BY DEF Requeued, Sources
<1>3. Covered(c, t, held, Tail(first), rest)
  <2>1. /\ Cardinality(OfCam(held, c)) \in Nat /\ Count(first, c, g) \in Nat
        /\ Count(rest, c, g) \in Nat /\ Count(Tail(first), c, g) \in Nat
        /\ s.inFlightFrames \in Nat
    BY <1>1, OutCounts, SlotNumbers
  <2>2. Count(first, c, g) = Count(Tail(first), c, g) + 1
    BY CountTail
  <2>3. s.inFlightFrames >= Cardinality(OfCam(held, c)) + Count(first, c, g) + Count(rest, c, g)
    BY DEF BufOk, Covered
  <2>4. t.inFlightFrames >= Cardinality(OfCam(held, c)) + Count(Tail(first), c, g) + Count(rest, c, g)
    <3> HIDE DEF g
    <3> QED
      BY <2>1, <2>2, <2>3
  <2> QED
    BY <2>4 DEF Covered
<1>4. BufOk(c, s, src, held, Tail(first), rest)
  BY BufDrop
<1>5. Gone(t) <=> Gone(s)
  BY DEF Gone
<1> HIDE DEF way, new, g, out, l
<1>6. IsStreaming(src) => OneOwner(c, g, src, held, new) /\ OneOwner(c, g, src, held, way)
  BY <1>4 DEF BufOk, way, new, g
<1>7. IsStreaming(src) => OneOwner(c, g, out, held, new)
  <2> SUFFICES ASSUME IsStreaming(src) PROVE OneOwner(c, g, out, held, new)
    OBVIOUS
  <2>1. Counts(way[1], c, g)
    BY <1>1 DEF g, l
  <2>2. \A k \in held : Counts(k, c, g) => k.buf # l.buf
    BY <1>1, <1>6, <2>1 DEF OneOwner
  <2>3. ASSUME NEW i \in 1 .. Len(new), Counts(new[i], c, g) PROVE new[i].buf # l.buf
    <3>1. i + 1 # 1
      BY <1>1
    <3>2. Counts(way[i + 1], c, g) /\ way[i + 1] = new[i] /\ i + 1 \in 1 .. Len(way)
      BY <1>1, <2>3
    <3> QED
      BY <1>1, <1>6, <2>1, <3>1, <3>2 DEF OneOwner
  <2> QED
    BY <1>2, <1>6, <2>2, <2>3 DEF OneOwner
<1>8. \A k : Known(k, s) => Known(k, t)
  BY <1>5 DEF Known, Gone
<1>9. BufOk(c, t, src, held, Tail(first), rest)
  BY <1>3, <1>4, <1>5, <1>8 DEF BufOk
<1>10. IsStreaming(src) => BufOk(c, t, out, held, Tail(first), rest)
  <2>1. IsStreaming(out) <=> IsStreaming(src)
    BY <1>2 DEF IsStreaming
  <2>2. t.state # "Unused" /\ t.leaseGeneration = g
    BY DEF Gone, g
  <2> QED
    BY <1>7, <1>9, <2>1, <2>2 DEF BufOk, new
<1>11. ASSUME NEW b, HasBuf(b, c, g, src, held, way) PROVE HasBuf(b, c, g, out, held, new)
  BY ZenonT(60), <1>1, <1>2, <1>11 DEF HasBuf
<1> QED
  BY <1>9, <1>10, <1>11 DEF way, new, g, out, l
-----------------------------------------------------------------------------
(* The leases that exist: the sinks', and the frame that is being          *)
(* published.                                                              *)
Held == (leases \cup {frame}) \ {NoFrame}

Publishing == pc \in {"publish", "publishing"}

BufPlaced ==
    /\ ~Publishing => frame = NoFrame
    /\ frame \notin leases
    /\ pc # "returns" => returned = <<>>
    /\ IsFiniteSet(leases)

BufInv ==
    /\ BufPlaced
    /\ \A c \in Cameras : BufOk(c, slot[c], source[c], Held, returned, returnQueue)

(* A step of a camera that streams before and after loses no buffer.       *)
Keeps(c) ==
    slot[c].state = "Streaming" /\ slot'[c].state = "Streaming" =>
        /\ slot'[c].leaseGeneration = slot[c].leaseGeneration
        /\ \A b : HasBuf(b, c, slot[c].leaseGeneration, source[c], Held,
                         returned \o returnQueue) =>
                  HasBuf(b, c, slot[c].leaseGeneration, source'[c], Held',
                         returned' \o returnQueue')

CamStep(c) ==
    BufOk(c, slot'[c], source'[c], Held', returned', returnQueue') /\ Keeps(c)

BufStep == BufInv' /\ \A c \in Cameras : Keeps(c)

LEMMA CamSteps ==
    ASSUME BufPlaced', \A c \in Cameras : CamStep(c) PROVE BufStep
BY DEF BufStep, BufInv, CamStep

(* The leases that exist are leases, and finitely many.                    *)
LEMMA HeldType ==
    ASSUME TypeInv, BufPlaced
    PROVE  /\ Held \in SUBSET Leases /\ IsFiniteSet(Held) /\ NoFrame \notin Leases
           /\ returned \in Seq(Leases) /\ returnQueue \in Seq(Leases)
           /\ frame = NoFrame => Held = leases
           /\ Publishing => frame \in Leases /\ frame \in Held /\ Held \ {frame} = leases
<1>1. /\ frame \in Leases \cup {NoFrame} /\ leases \in SUBSET Leases
      /\ returned \in Seq(Leases) /\ returnQueue \in Seq(Leases)
  BY DEF TypeInv, TypeOK
<1>2. NoFrame \notin Leases
  BY CamManagerAssumption DEF NoFrame, Leases
<1>3. IsFiniteSet(Held)
  <2>1. IsFiniteSet(leases \cup {frame})
    BY FS_AddElement DEF BufPlaced
  <2> QED
    BY <2>1, FS_Subset DEF Held
<1>4. Publishing => frame \in Leases
  BY DEF TypeInv, Located, Publishing
<1> QED
  BY <1>1, <1>2, <1>3, <1>4 DEF Held, BufPlaced

(* A slot t after s of the same lease generation, with the same frames.    *)
SameLease(s, t) ==
    /\ t.leaseGeneration = s.leaseGeneration /\ t.inFlightFrames = s.inFlightFrames
    /\ Gone(s) => Gone(t)
    /\ t.state = "Unused" => s.state = "Unused"
    /\ t.state = "Streaming" => s.state = "Streaming"

(* Faults, stops and starts that fail stay in the lease generation.        *)
LEMMA SameLeaseSlots ==
    ASSUME NEW s \in Slots, ~Gone(s)
    PROVE  /\ \A r \in BOOLEAN : SameLease(s, Faulted(s, r))
           /\ SameLease(s, Retrying(s)) /\ SameLease(s, AfterFailedStart(s))
           /\ SameLease(s, AfterFailedRestart(s)) /\ SameLease(s, Halted(s))
           /\ Retrying(s).state = "Error" /\ AfterFailedStart(s).state = "Error"
           /\ AfterFailedRestart(s).state = "Error" /\ Halted(s).state = "Stopped"
<1> USE DEF Slots, SameLease
<1>1. \A r \in BOOLEAN : SameLease(s, Faulted(s, r))
  BY DEF Faulted, NewRound
<1>2. SameLease(s, Retrying(s)) /\ Retrying(s).state = "Error"
  BY DEF Retrying, BackedOff
<1>3. SameLease(s, AfterFailedStart(s)) /\ AfterFailedStart(s).state = "Error"
  BY DEF AfterFailedStart, NewRound, NoStart, Retrying, BackedOff
<1>4. SameLease(s, AfterFailedRestart(s)) /\ AfterFailedRestart(s).state = "Error"
  BY DEF AfterFailedRestart, Retrying, BackedOff
<1>5. SameLease(s, Halted(s)) /\ Halted(s).state = "Stopped"
  BY DEF Halted, NewRound, NoStart, NoRestart
<1> QED
  BY <1>1, <1>2, <1>3, <1>4, <1>5

(* The poll thread keeps its frame and its batch of returned frames.       *)
Quiet ==
    /\ UNCHANGED <<leases, frame, returned, returnQueue>>
    /\ \/ pc' = pc
       \/ pc \notin {"publish", "publishing", "returns"}
       \/ {pc, pc'} \subseteq {"publish", "publishing"}

LEMMA QuietPlaced ==
    ASSUME BufPlaced, Quiet PROVE BufPlaced' /\ Held' = Held
BY DEF BufPlaced, Quiet, Publishing, Held

(* A step that changes slots within their lease generation, or erases      *)
(* them.                                                                   *)
LEMMA BufQuiet ==
    ASSUME TypeInv, TypeInv', BufInv, Quiet, UNCHANGED source,
           \A c \in Cameras : SameLease(slot[c], slot'[c]) \/ slot'[c] = FreshSlot("Erased")
    PROVE  BufStep
<1>1. BufPlaced' /\ Held' = Held
  BY QuietPlaced DEF BufInv
<1>2. UNCHANGED <<returned, returnQueue>>
  BY DEF Quiet
<1>3. ASSUME NEW c \in Cameras PROVE CamStep(c)
  <2>1. /\ slot[c] \in Slots /\ slot'[c] \in Slots /\ source[c] \in Sources
        /\ BufOk(c, slot[c], source[c], Held, returned, returnQueue)
    BY DEF TypeInv, TypeOK, BufInv
  <2>2. CASE slot'[c] = FreshSlot("Erased")
    <3>1. BufOk(c, FreshSlot("Erased"), source[c], Held, returned, returnQueue)
      BY <2>1, BufErased
    <3>2. FreshSlot("Erased").state = "Erased"
      BY DEF FreshSlot
    <3> QED
      BY <1>1, <1>2, <2>2, <3>1, <3>2 DEF CamStep, Keeps
  <2>3. CASE SameLease(slot[c], slot'[c])
    <3>1. slot'[c].state = "Streaming" => IsStreaming(source[c])
      BY <2>1, <2>3 DEF SameLease, BufOk
    <3>2. BufOk(c, slot'[c], source[c], Held, returned, returnQueue)
      BY <2>1, <2>3, <3>1, BufSlot DEF SameLease
    <3>3. slot'[c].leaseGeneration = slot[c].leaseGeneration
      BY <2>3 DEF SameLease
    <3> QED
      BY <1>1, <1>2, <3>2, <3>3 DEF CamStep, Keeps
  <2> QED
    BY <2>2, <2>3
<1> QED
  BY <1>1, <1>3, CamSteps

(* A step that changes one camera and its device.                          *)
LEMMA BufOneCamera ==
    ASSUME TypeInv, BufInv, Quiet, NEW c \in Cameras, NEW t, NEW out,
           slot' = [slot EXCEPT ![c] = t], source' = [source EXCEPT ![c] = out],
           BufOk(c, t, out, Held, returned, returnQueue),
           \/ slot[c].state # "Streaming" \/ t.state # "Streaming"
           \/ out = source[c] /\ t.leaseGeneration = slot[c].leaseGeneration
    PROVE  BufStep
<1>1. BufPlaced' /\ Held' = Held
  BY QuietPlaced DEF BufInv
<1>2. UNCHANGED <<returned, returnQueue>>
  BY DEF Quiet
<1>3. slot'[c] = t /\ source'[c] = out
  BY DEF TypeInv, TypeOK
<1>4. ASSUME NEW d \in Cameras PROVE CamStep(d)
  <2>1. CASE d = c
    BY <1>1, <1>2, <1>3, <2>1 DEF CamStep, Keeps
  <2>2. CASE d # c
    <3>1. slot'[d] = slot[d] /\ source'[d] = source[d]
      BY <2>2 DEF TypeInv, TypeOK
    <3> QED
      BY <1>1, <1>2, <3>1 DEF CamStep, Keeps, BufInv
  <2> QED
    BY <2>1, <2>2
<1> QED
  BY <1>1, <1>4, CamSteps

LEMMA SameLeaseSelf == \A s : SameLease(s, s)
BY DEF SameLease

(* addCamera(): a camera without leases begins.                            *)
LEMMA BufAddCamera ==
    ASSUME TypeInv, BufInv, NEW p \in Clients, NEW c \in Cameras, AddCamera(p, c)
    PROVE  BufStep
<1>1. /\ slot[c].state = "Unused"
      /\ slot' = [slot EXCEPT ![c] = FreshSlot("Ready")]
      /\ source' = [source EXCEPT ![c] = PreparedSource]
      /\ Quiet
  BY DEF AddCamera, Quiet, mail, locals
<1>2. BufOk(c, slot[c], source[c], Held, returned, returnQueue)
  BY DEF BufInv
<1>3. /\ Held \in SUBSET Leases /\ IsFiniteSet(Held)
      /\ returned \in Seq(Leases) /\ returnQueue \in Seq(Leases)
  BY HeldType DEF BufInv
<1>4. BufOk(c, FreshSlot("Ready"), PreparedSource, Held, returned, returnQueue)
  BY <1>1, <1>2, <1>3, BufFresh
<1> QED
  BY <1>1, <1>4, BufOneCamera

(* The other calls mark slots, isolate cameras or erase them.              *)
LEMMA BufApi ==
    ASSUME TypeInv, TypeInv', BufInv, NEW p \in Clients, ApiCall(p) \/ ApiContinues(p)
    PROVE  BufStep
<1> DEFINE Slotwise == \A c \in Cameras : SameLease(slot[c], slot'[c])
                                          \/ slot'[c] = FreshSlot("Erased")
<1>1. UNCHANGED slot => Slotwise
  BY SameLeaseSelf
<1>2. ASSUME NEW c \in Cameras, AddCamera(p, c) PROVE BufStep
  BY <1>2, BufAddCamera
<1>3. ASSUME NEW c \in Cameras, DelCamera(p, c) PROVE BufStep
  <2>1. Slotwise
    <3>1. slot' = [slot EXCEPT ![c].state = "Deleting"] /\ ~Gone(slot[c])
      BY <1>3 DEF DelCamera, InMap, Gone
    <3>2. \A d \in Cameras \ {c} : slot'[d] = slot[d]
      BY <3>1 DEF TypeInv, TypeOK
    <3>3. SameLease(slot[c], slot'[c])
      BY <3>1 DEF SameLease, TypeInv, TypeOK, Slots
    <3> QED
      BY <3>2, <3>3, SameLeaseSelf
  <2>2. Quiet /\ UNCHANGED source
    BY <1>3 DEF DelCamera, Quiet, mail, locals
  <2> QED
    BY <2>1, <2>2, BufQuiet
<1>4. ASSUME NEW c \in Cameras, NEW call, RequestCameraRecovery(p, c, call) PROVE BufStep
  <2>1. Slotwise
    <3>1. slot' = [slot EXCEPT ![c] = Faulted(@, call = "reopen")] /\ ~Gone(slot[c])
      BY <1>4 DEF RequestCameraRecovery, Controllable, InMap, Gone
    <3>2. \A d \in Cameras \ {c} : slot'[d] = slot[d]
      BY <3>1 DEF TypeInv, TypeOK
    <3>3. slot[c] \in Slots /\ (call = "reopen") \in BOOLEAN
      BY DEF TypeInv, TypeOK
    <3>4. SameLease(slot[c], Faulted(slot[c], call = "reopen"))
      BY <3>1, <3>3, SameLeaseSlots
    <3>5. slot'[c] = Faulted(slot[c], call = "reopen")
      BY <3>1 DEF TypeInv, TypeOK
    <3> QED
      BY <3>2, <3>4, <3>5, SameLeaseSelf
  <2>2. Quiet /\ UNCHANGED source
    BY <1>4 DEF RequestCameraRecovery, Quiet, mail, locals
  <2> QED
    BY <2>1, <2>2, BufQuiet
<1>5. CASE EraseDeleted(p)
  <2>1. Slotwise
    <3>1. Erase(api[p].cam)
      BY <1>5 DEF EraseDeleted
    <3> QED
      BY <3>1, SameLeaseSelf DEF Erase
  <2>2. Quiet /\ UNCHANGED source
    BY <1>5 DEF EraseDeleted, Quiet, mail, locals
  <2> QED
    BY <2>1, <2>2, BufQuiet
<1>6. ASSUME UNCHANGED <<slot, source>>, Quiet PROVE BufStep
  BY <1>1, <1>6, BufQuiet
<1>7. ASSUME NEW call, NEW C, RequestControl(p, call, C) PROVE BufStep
  BY <1>6, <1>7 DEF RequestControl, Quiet, managed, mail, locals
<1>8. CASE StartPolling(p) \/ RequestStop(p) \/ ShutdownPolling(p)
  BY <1>6, <1>8 DEF StartPolling, RequestStop, ShutdownPolling, Quiet, managed, mail, locals
<1>9. CASE CloseHub(p) \/ FinishDelete(p) \/ PushCommand(p) \/ JoinPollThread(p)
  BY <1>6, <1>9 DEF CloseHub, FinishDelete, PushCommand, JoinPollThread, Quiet, managed, mail, locals
<1>10. CASE LaunchPollThread(p) \/ NotifyPollThread(p)
  BY <1>6, <1>10 DEF LaunchPollThread, NotifyPollThread, Notify, Quiet, managed, mail, locals
<1> HIDE DEF Slotwise
<1>11. CASE ApiCall(p)
  BY <1>2, <1>3, <1>4, <1>7, <1>8, <1>11 DEF ApiCall
<1>12. CASE ApiContinues(p)
  BY <1>5, <1>9, <1>10, <1>12 DEF ApiContinues
<1> QED
  BY <1>11, <1>12

(* start() either streams, or leaves a device that does not, or as it was. *)
LEMMA StartResult ==
    ASSUME NEW src \in Sources, NEW out \in StartOutcomes(src)
    PROVE  /\ out.src \in Sources /\ out.ok \in BOOLEAN
           /\ out.ok => IsStreaming(out.src)
           /\ ~out.ok => out.src = src \/ ~IsStreaming(out.src)
<1>1. out.src \in Sources
  BY StartOutcomesType
<1>2. CASE src.stage = "BufferAllocated" /\ out = [ok |-> TRUE, src |-> Started(src)]
  <2>1. out.ok = TRUE /\ IsStreaming(out.src)
    BY <1>2 DEF Started, IsStreaming
  <2> QED
    BY <1>1, <2>1
<1>3. ASSUME NEW t \in StartFailures(src), out = [ok |-> FALSE, src |-> t]
      PROVE  out.ok = FALSE /\ (out.src = src \/ ~IsStreaming(out.src))
  <2>1. out.ok = FALSE /\ out.src = t
    BY <1>3
  <2>2. CASE src.stage # "BufferAllocated"
    BY <2>1, <2>2 DEF StartFailures
  <2>3. CASE src.stage = "BufferAllocated"
    <3>1. t.stage = "BufferAllocated"
      BY <2>3 DEF StartFailures, Sources
    <3> QED
      BY <2>1, <3>1 DEF IsStreaming
  <2> QED
    BY <2>2, <2>3
<1> QED
  BY <1>1, <1>2, <1>3 DEF StartOutcomes

(* ... and so does the restart, that may have reopened it before.          *)
LEMMA RestartResult ==
    ASSUME TypeInv, NEW c \in Cameras, NEW out \in RestartOutcomes(c)
    PROVE  /\ out.src \in Sources /\ out.ok \in BOOLEAN
           /\ out.ok => IsStreaming(out.src)
           /\ ~out.ok => out.src = source[c] \/ ~IsStreaming(out.src)
<1>1. source[c] \in Sources
  BY DEF TypeInv, TypeOK
<1>2. CASE out \in StartOutcomes(source[c])
  BY <1>1, <1>2, StartResult
<1>3. CASE out \in StartOutcomes(PreparedSource)
  <2>1. ~IsStreaming(PreparedSource)
    BY DEF PreparedSource, IsStreaming
  <2> QED
    BY <1>3, <2>1, PreparedType, StartResult
<1>4. CASE out \in ReopenOutcomes /\ ~out.ok
  <2>1. out.src \in Sources
    BY <1>4, ReopenOutcomesType
  <2>2. out.src \in {ClosedSource, OpenedSource, ConfiguredSource}
        /\ out.ok = FALSE
    BY <1>4 DEF ReopenOutcomes
  <2>3. ~IsStreaming(out.src)
    BY <2>2 DEF ClosedSource, OpenedSource, ConfiguredSource, IsStreaming
  <2> QED
    BY <2>1, <2>2, <2>3
<1> QED
  BY <1>2, <1>3, <1>4 DEF RestartOutcomes

(* A start that succeeds, or one that fails and leaves slot t.             *)
LEMMA BufStarted ==
    ASSUME TypeInv, BufInv, Quiet, NEW c \in Cameras, NEW t \in Slots, NEW out,
           out.src \in Sources, out.ok \in BOOLEAN,
           out.ok => IsStreaming(out.src),
           ~out.ok => out.src = source[c] \/ ~IsStreaming(out.src),
           SameLease(slot[c], t), t.state = "Error", ~Gone(slot[c]),
           slot[c].state # "Streaming",
           source' = [source EXCEPT ![c] = out.src],
           slot' = [slot EXCEPT ![c] = IF out.ok THEN Running(slot[c]) ELSE t]
    PROVE  BufStep
<1> DEFINE s == slot[c]
           src == source[c]
<1>1. /\ s \in Slots /\ src \in Sources
      /\ BufOk(c, s, src, Held, returned, returnQueue)
  BY DEF TypeInv, TypeOK, BufInv
<1>2. /\ Held \in SUBSET Leases /\ IsFiniteSet(Held)
      /\ returned \in Seq(Leases) /\ returnQueue \in Seq(Leases)
  BY HeldType DEF BufInv
<1>3. CASE out.ok
  <2>1. /\ Running(s).state = "Streaming" /\ Running(s) \in Slots
        /\ Running(s).leaseGeneration = s.leaseGeneration + 1
        /\ Running(s).inFlightFrames = s.inFlightFrames
    <3>1. Running(s) \in Slots
      BY <1>1, RunningType
    <3> QED
      BY <1>1, <3>1 DEF Slots, Running, Settled, NoStart, NoRestart
  <2>2. BufOk(c, Running(s), out.src, Held, returned, returnQueue)
    BY <1>1, <1>2, <1>3, <2>1, BufRunning
  <2> QED
    BY <1>3, <2>2, BufOneCamera
<1>4. CASE ~out.ok
  <2>1. BufOk(c, t, out.src, Held, returned, returnQueue)
    BY <1>1, <1>4, BufSlot DEF SameLease
  <2> QED
    BY <1>4, <2>1, BufOneCamera
<1> QED
  BY <1>3, <1>4

(* The driver is stopped: every buffer is the application's.               *)
LEMMA BufStopped ==
    ASSUME TypeInv, BufInv, Quiet, NEW c \in Cameras, NEW t \in Slots,
           SameLease(slot[c], t), t.state \in {"Error", "Stopped"},
           source' = [source EXCEPT ![c] = Stop(source[c])],
           slot' = [slot EXCEPT ![c] = t]
    PROVE  BufStep
<1>1. /\ slot[c] \in Slots /\ source[c] \in Sources
      /\ BufOk(c, slot[c], source[c], Held, returned, returnQueue)
  BY DEF TypeInv, TypeOK, BufInv
<1>2. ~IsStreaming(Stop(source[c])) /\ Stop(source[c]) \in Sources
  BY <1>1, StopType DEF Stop, IsStreaming
<1>3. BufOk(c, t, Stop(source[c]), Held, returned, returnQueue)
  BY <1>1, <1>2, BufSlot DEF SameLease
<1> QED
  BY <1>3, BufOneCamera

(* The commands.                                                           *)
LEMMA BufExecuteCommand ==
    ASSUME TypeInv, TypeInv', BufInv, ExecuteCommand PROVE BufStep
<1> DEFINE c == Head(batch).cam
           s == slot[c]
<1>1. ASSUME NEW t, Execute(t)
      PROVE  Quiet /\ c \in Cameras /\ s \in Slots /\ source[c] \in Sources
  BY <1>1, HeadType DEF Execute, Quiet, mail, others
<1>2. Controllable(c) \/ s.state \in {"Stopped", "Error"} => ~Gone(s)
  BY DEF Controllable, InMap, Gone
<1>3. CASE ExecuteDelete
  <2>1. \A d \in Cameras : SameLease(slot[d], slot'[d]) \/ slot'[d] = FreshSlot("Erased")
    BY <1>3, SameLeaseSelf DEF ExecuteDelete, Erase
  <2> QED
    BY <1>1, <1>3, <2>1, BufQuiet DEF ExecuteDelete
<1>4. ASSUME NEW t \in CommandTypes, ExecuteForGoneCamera(t) \/ ExecuteStale(t)
      PROVE  BufStep
  <2>1. Execute(t) /\ UNCHANGED <<slot, source>>
    BY <1>4 DEF ExecuteForGoneCamera, ExecuteStale
  <2>2. \A d \in Cameras : SameLease(slot[d], slot'[d])
    BY <2>1, SameLeaseSelf
  <2> QED
    BY <1>1, <2>1, <2>2, BufQuiet
<1>5. CASE ExecuteStartDeferred
  <2>1. Quiet /\ c \in Cameras /\ s \in Slots /\ UNCHANGED source
    BY <1>1, <1>5 DEF ExecuteStartDeferred
  <2> DEFINE u == [s EXCEPT !.startPending = TRUE, !.startQueued = FALSE]
  <2>2. slot' = [slot EXCEPT ![c] = u]
    BY <1>5, <2>1 DEF ExecuteStartDeferred, TypeInv, TypeOK
  <2>3. \A d \in Cameras : SameLease(slot[d], slot'[d])
    <3>1. SameLease(s, u)
      <4>1. \A v \in Slots :
                SameLease(v, [v EXCEPT !.startPending = TRUE, !.startQueued = FALSE])
        BY DEF SameLease, Slots, Gone
      <4> QED
        BY <2>1, <4>1
    <3> HIDE DEF c, u
    <3> QED
      BY <2>1, <2>2, <3>1, SameLeaseSelf DEF TypeInv, TypeOK, s
  <2> QED
    BY <2>1, <2>3, BufQuiet
<1>6. CASE ExecuteStartAdopt
  <2> DEFINE t == NewRound(Settled(s))
  <2>1. /\ Quiet /\ c \in Cameras /\ s \in Slots /\ source[c] \in Sources /\ ~Gone(s)
        /\ slot' = [slot EXCEPT ![c] = t] /\ UNCHANGED source
        /\ s.state = "Streaming" \/ IsStreaming(source[c])
    BY <1>1, <1>2, <1>6 DEF ExecuteStartAdopt
  <2>2. /\ t \in Slots /\ t.state = "Streaming" /\ t.leaseGeneration = s.leaseGeneration
        /\ t.inFlightFrames = s.inFlightFrames
    <3>1. t \in Slots
      BY <2>1, SettledType, NewRoundType
    <3> QED
      BY <2>1, <3>1 DEF Slots, NewRound, Settled, NoStart, NoRestart
  <2> HIDE DEF t
  <2>3. BufOk(c, s, source[c], Held, returned, returnQueue)
    BY <2>1 DEF BufInv
  <2>4. IsStreaming(source[c])
    BY <2>1, <2>3 DEF BufOk
  <2>5. BufOk(c, t, source[c], Held, returned, returnQueue)
    BY <2>1, <2>2, <2>3, <2>4, BufSlot
  <2>6. source' = [source EXCEPT ![c] = source[c]]
    BY <2>1 DEF TypeInv, TypeOK
  <2> HIDE DEF c, s
  <2>7. t.leaseGeneration = slot[c].leaseGeneration
    BY <2>2 DEF s
  <2> QED
    BY <2>1, <2>5, <2>6, <2>7, BufOneCamera
<1>7. CASE ExecuteStart
  <2>1. /\ Quiet /\ c \in Cameras /\ s \in Slots /\ source[c] \in Sources
        /\ ~Gone(s) /\ s.state # "Streaming"
    BY <1>1, <1>2, <1>7 DEF ExecuteStart
  <2>2. PICK out \in StartOutcomes(source[c]) :
            /\ source' = [source EXCEPT ![c] = out.src]
            /\ slot' = [slot EXCEPT ![c] = IF out.ok THEN Running(s) ELSE AfterFailedStart(s)]
    BY <1>7 DEF ExecuteStart
  <2>3. /\ SameLease(s, AfterFailedStart(s)) /\ AfterFailedStart(s).state = "Error"
        /\ AfterFailedStart(s) \in Slots
    BY <2>1, SameLeaseSlots, AfterFailedStartType
  <2>4. /\ out.src \in Sources /\ out.ok \in BOOLEAN
        /\ out.ok => IsStreaming(out.src)
        /\ ~out.ok => out.src = source[c] \/ ~IsStreaming(out.src)
    BY <2>1, StartResult
  <2> HIDE DEF c
  <2> QED
    BY <2>1, <2>2, <2>3, <2>4, BufStarted
<1>8. CASE ExecuteRestart
  <2>1. /\ Quiet /\ c \in Cameras /\ s \in Slots /\ ~Gone(s) /\ s.state # "Streaming"
    BY <1>1, <1>2, <1>8 DEF ExecuteRestart, RestartApplies, CurrentRound
  <2>2. CASE /\ slot' = [slot EXCEPT ![c].restartQueued = FALSE]
             /\ UNCHANGED source
    <3>1. \A d \in Cameras : SameLease(slot[d], slot'[d])
      <4> HIDE DEF c
      <4> QED
        BY ZenonT(60), <2>1, <2>2 DEF SameLease, TypeInv, TypeOK, Slots
    <3> QED
      BY <2>1, <2>2, <3>1, BufQuiet
  <2>3. ASSUME NEW out \in RestartOutcomes(c), source' = [source EXCEPT ![c] = out.src],
               slot' = [slot EXCEPT ![c] = IF out.ok THEN Running(s) ELSE AfterFailedRestart(s)]
        PROVE  BufStep
    <3>1. /\ SameLease(s, AfterFailedRestart(s)) /\ AfterFailedRestart(s).state = "Error"
          /\ AfterFailedRestart(s) \in Slots
      BY <2>1, SameLeaseSlots, AfterFailedRestartType
    <3>2. /\ out.src \in Sources /\ out.ok \in BOOLEAN
          /\ out.ok => IsStreaming(out.src)
          /\ ~out.ok => out.src = source[c] \/ ~IsStreaming(out.src)
      BY <2>1, RestartResult
    <3> HIDE DEF c
    <3> QED
      BY <2>1, <2>3, <3>1, <3>2, BufStarted
  <2> QED
    BY <1>8, <2>2, <2>3 DEF ExecuteRestart
<1>9. CASE ExecuteStop
  <2>1. /\ Quiet /\ c \in Cameras /\ s \in Slots /\ ~Gone(s)
        /\ source' = [source EXCEPT ![c] = Stop(source[c])]
        /\ slot' = [slot EXCEPT ![c] = Halted(s)]
    BY <1>1, <1>2, <1>9 DEF ExecuteStop
  <2>2. SameLease(s, Halted(s)) /\ Halted(s).state = "Stopped" /\ Halted(s) \in Slots
    BY <2>1, SameLeaseSlots, HaltedType
  <2> HIDE DEF c
  <2> QED
    BY <2>1, <2>2, BufStopped
<1>10. CASE ExecuteProcessError
  <2>1. /\ Quiet /\ c \in Cameras /\ s \in Slots /\ ~Gone(s)
        /\ source' = [source EXCEPT ![c] = Stop(source[c])]
        /\ slot' = [slot EXCEPT ![c] = Retrying(s)]
    BY <1>1, <1>2, <1>10 DEF ExecuteProcessError, CurrentRound
  <2>2. SameLease(s, Retrying(s)) /\ Retrying(s).state = "Error" /\ Retrying(s) \in Slots
    BY <2>1, SameLeaseSlots, RetryingType
  <2> HIDE DEF c
  <2> QED
    BY <2>1, <2>2, BufStopped
<1> QED
  BY <1>3, <1>4, <1>5, <1>6, <1>7, <1>8, <1>9, <1>10 DEF ExecuteCommand

(* drainReturnedFrames() takes the queue as its batch.                     *)
LEMMA BufSwapReturns ==
    ASSUME TypeInv, BufInv, SwapReturns PROVE BufStep
<1>1. /\ returned' = returnQueue /\ returnQueue' = <<>>
      /\ pc' = IF returnQueue = <<>> THEN resume ELSE "returns"
      /\ pc \in {"swapReturns", "commands"} /\ resume \in {"check", "snapshot", "round"}
      /\ UNCHANGED <<slot, source, leases, frame>>
  BY DEF SwapReturns, managed, others, TypeInv, TypeOK
<1>2. returned = <<>> /\ frame = NoFrame
  BY <1>1 DEF BufInv, BufPlaced, Publishing
<1>3. BufPlaced' /\ Held' = Held
  BY <1>1, <1>2 DEF BufInv, BufPlaced, Publishing, Held
<1>4. /\ Held \in SUBSET Leases /\ IsFiniteSet(Held) /\ returnQueue \in Seq(Leases)
  BY HeldType DEF BufInv
<1>5. <<>> \o returnQueue = returnQueue /\ returnQueue \o <<>> = returnQueue
  BY <1>4, ConcatEmptySeq
<1>6. ASSUME NEW c \in Cameras PROVE CamStep(c)
  <2>1. BufOk(c, slot[c], source[c], Held, <<>>, returnQueue) /\ slot[c] \in Slots
    BY <1>2 DEF BufInv, TypeInv, TypeOK
  <2>2. BufOk(c, slot[c], source[c], Held, returnQueue, <<>>)
    BY <1>4, <2>1, BufSwap
  <2> QED
    BY <1>1, <1>2, <1>3, <1>5, <2>2 DEF CamStep, Keeps
<1> QED
  BY <1>3, <1>6, CamSteps

(* One returned frame is taken: what is left to say is what happens to its *)
(* camera c.                                                               *)
LEMMA BufTaken ==
    ASSUME TypeInv, BufInv, NEW cmds, TakeReturn(cmds), NEW c, c = Head(returned).cam,
           NEW t, NEW out,
           slot' = [slot EXCEPT ![c] = t], source' = [source EXCEPT ![c] = out],
           BufOk(c, t, out, Held, Tail(returned), returnQueue),
           slot[c].state = "Streaming" /\ t.state = "Streaming" =>
               /\ t.leaseGeneration = slot[c].leaseGeneration
               /\ \A b : HasBuf(b, c, slot[c].leaseGeneration, source[c], Held,
                                returned \o returnQueue) =>
                         HasBuf(b, c, slot[c].leaseGeneration, out, Held,
                                Tail(returned) \o returnQueue)
    PROVE  BufStep
<1>1. /\ returned' = Tail(returned) /\ pc = "returns" /\ returned # <<>>
      /\ pc' \in {"returns", "post", "check", "snapshot", "round"}
      /\ pc' # "returns" => Tail(returned) = <<>>
      /\ UNCHANGED <<returnQueue, leases, frame>>
  BY ReturnedHeadType DEF TakeReturn, mail, others, TypeInv, TypeOK
<1>2. BufPlaced' /\ Held' = Held
  BY <1>1 DEF BufInv, BufPlaced, Publishing, Held
<1>3. /\ Held \in SUBSET Leases /\ IsFiniteSet(Held) /\ c \in Cameras
      /\ returned \in Seq(Leases) /\ returnQueue \in Seq(Leases)
  BY <1>1, HeldType, ReturnedHeadType DEF BufInv
<1>4. slot'[c] = t /\ source'[c] = out
  BY <1>3 DEF TypeInv, TypeOK
<1>5. ASSUME NEW d \in Cameras PROVE CamStep(d)
  <2>1. CASE d = c
    BY <1>1, <1>2, <1>4, <2>1 DEF CamStep, Keeps
  <2>2. CASE d # c
    <3>1. /\ slot'[d] = slot[d] /\ source'[d] = source[d] /\ slot[d] \in Slots
          /\ BufOk(d, slot[d], source[d], Held, returned, returnQueue)
      BY <2>2 DEF TypeInv, TypeOK, BufInv
    <3>2. ~Counts(Head(returned), d, slot[d].leaseGeneration)
      BY <2>2 DEF Counts
    <3>3. /\ BufOk(d, slot[d], source[d], Held, Tail(returned), returnQueue)
          /\ \A b : HasBuf(b, d, slot[d].leaseGeneration, source[d], Held,
                           returned \o returnQueue) =>
                    HasBuf(b, d, slot[d].leaseGeneration, source[d], Held,
                           Tail(returned) \o returnQueue)
      BY <1>1, <1>3, <3>1, <3>2, BufDrop
    <3> QED
      BY <1>1, <1>2, <3>1, <3>3 DEF CamStep, Keeps
  <2> QED
    BY <2>1, <2>2
<1> QED
  BY <1>2, <1>5, CamSteps

(* The slot of a camera whose frame has been counted back.                 *)
LEMMA ReturnedSlots ==
    ASSUME NEW s \in Slots
    PROVE  /\ Returned(s) \in Slots /\ Faulted(Returned(s), TRUE) \in Slots
           /\ Returned(s).state = s.state /\ Faulted(Returned(s), TRUE).state = "Error"
           /\ \A t \in {Returned(s), Faulted(Returned(s), TRUE)} :
                  /\ t.leaseGeneration = s.leaseGeneration
                  /\ t.inFlightFrames = IF s.inFlightFrames > 0
                                        THEN s.inFlightFrames - 1 ELSE 0
<1>1. Returned(s) \in Slots /\ Faulted(Returned(s), TRUE) \in Slots
  BY ReturnedType, FaultedType
<1>2. /\ Returned(s).state = s.state /\ Returned(s).leaseGeneration = s.leaseGeneration
      /\ Returned(s).inFlightFrames = IF s.inFlightFrames > 0
                                      THEN s.inFlightFrames - 1 ELSE 0
  BY DEF Returned, Slots
<1>3. \A r \in Slots : /\ Faulted(r, TRUE).state = "Error"
                       /\ Faulted(r, TRUE).leaseGeneration = r.leaseGeneration
                       /\ Faulted(r, TRUE).inFlightFrames = r.inFlightFrames
  BY DEF Faulted, NewRound, Slots
<1> QED
  BY <1>1, <1>2, <1>3

(* The frames of the batch, one by one.                                    *)
LEMMA BufReturns ==
    ASSUME TypeInv, BufInv, DrainReturnedFrames PROVE BufStep
<1> DEFINE l == Head(returned)
           c == l.cam
           s == slot[c]
<1>1. ASSUME NEW cmds, TakeReturn(cmds)
      PROVE  /\ c \in Cameras /\ s \in Slots /\ source[c] \in Sources /\ returned # <<>>
             /\ Held \in SUBSET Leases /\ IsFiniteSet(Held)
             /\ returned \in Seq(Leases) /\ returnQueue \in Seq(Leases)
             /\ BufOk(c, s, source[c], Held, returned, returnQueue)
  <2>1. c \in Cameras /\ returned # <<>>
    BY <1>1, ReturnedHeadType DEF TakeReturn
  <2> QED
    BY <2>1, HeldType DEF BufInv, TypeInv, TypeOK
<1>2. CASE IgnoreReturn
  <2>1. TakeReturn({}) /\ UNCHANGED <<slot, source>> /\ ~ReturnCounts(l)
    BY <1>2 DEF IgnoreReturn
  <2>2. s.state = "Streaming" => ~Counts(l, c, s.leaseGeneration)
    BY <2>1 DEF ReturnCounts, InMap, Counts
  <2>3. /\ BufOk(c, s, source[c], Held, Tail(returned), returnQueue)
        /\ ~Counts(l, c, s.leaseGeneration) => \A b :
               HasBuf(b, c, s.leaseGeneration, source[c], Held, returned \o returnQueue) =>
               HasBuf(b, c, s.leaseGeneration, source[c], Held, Tail(returned) \o returnQueue)
    BY <1>1, <2>1, BufDrop
  <2> DEFINE t == s
             out == source[c]
  <2>4. slot' = [slot EXCEPT ![c] = t] /\ source' = [source EXCEPT ![c] = out]
    BY <2>1 DEF TypeInv, TypeOK
  <2>5. /\ BufOk(c, t, out, Held, Tail(returned), returnQueue)
        /\ t.leaseGeneration = s.leaseGeneration
        /\ s.state = "Streaming" => \A b :
               HasBuf(b, c, s.leaseGeneration, source[c], Held, returned \o returnQueue) =>
               HasBuf(b, c, s.leaseGeneration, out, Held, Tail(returned) \o returnQueue)
    BY <2>2, <2>3
  <2> HIDE DEF c, t, out
  <2>6. c = Head(returned).cam /\ TakeReturn({})
    BY <2>1 DEF c
  <2> QED
    BY <2>4, <2>5, <2>6, BufTaken
<1>3. ASSUME NEW cmds, TakeReturn(cmds), ReturnCounts(l)
      PROVE  /\ ~Gone(s) /\ Counts(l, c, s.leaseGeneration)
             /\ \A t \in {Returned(s), Faulted(Returned(s), TRUE)} :
                 /\ BufOk(c, t, source[c], Held, Tail(returned), returnQueue)
                 /\ IsStreaming(source[c]) =>
                       BufOk(c, t, Requeued(source[c], l.buf), Held, Tail(returned), returnQueue)
             /\ \A b : HasBuf(b, c, s.leaseGeneration, source[c], Held,
                              returned \o returnQueue) =>
                       HasBuf(b, c, s.leaseGeneration, Requeued(source[c], l.buf), Held,
                              Tail(returned) \o returnQueue)
  <2>1. ~Gone(s) /\ Counts(l, c, s.leaseGeneration)
    BY <1>3 DEF ReturnCounts, InMap, Gone, Counts
  <2>2. /\ c \in Cameras /\ s \in Slots /\ source[c] \in Sources /\ returned # <<>>
        /\ Held \in SUBSET Leases /\ IsFiniteSet(Held)
        /\ returned \in Seq(Leases) /\ returnQueue \in Seq(Leases)
        /\ BufOk(c, s, source[c], Held, returned, returnQueue)
    BY <1>1, <1>3
  <2>3. ASSUME NEW t \in {Returned(s), Faulted(Returned(s), TRUE)}
        PROVE  /\ t \in Slots /\ t.state \in {s.state, "Error"}
               /\ t.leaseGeneration = s.leaseGeneration
               /\ t.inFlightFrames = IF s.inFlightFrames > 0
                                     THEN s.inFlightFrames - 1 ELSE 0
    BY <2>2, ReturnedSlots
  <2> HIDE DEF s, c
  <2>4. Counts(Head(returned), c, s.leaseGeneration)
    BY <2>1
  <2>5. ASSUME NEW t \in {Returned(s), Faulted(Returned(s), TRUE)}
        PROVE  /\ BufOk(c, t, source[c], Held, Tail(returned), returnQueue)
               /\ IsStreaming(source[c]) =>
                     BufOk(c, t, Requeued(source[c], Head(returned).buf), Held,
                           Tail(returned), returnQueue)
               /\ \A b : HasBuf(b, c, s.leaseGeneration, source[c], Held,
                                returned \o returnQueue) =>
                         HasBuf(b, c, s.leaseGeneration,
                                Requeued(source[c], Head(returned).buf), Held,
                                Tail(returned) \o returnQueue)
    BY <2>1, <2>2, <2>3, <2>4, BufCount
  <2> QED
    BY <2>1, <2>5
<1>4. ASSUME NEW cmds, TakeReturn(cmds), ReturnCounts(l), UNCHANGED source,
             NEW t \in {Returned(s), Faulted(Returned(s), TRUE)},
             slot' = [slot EXCEPT ![c] = t],
             s.state # "Streaming" \/ t.state # "Streaming"
      PROVE  BufStep
  <2>1. BufOk(c, t, source[c], Held, Tail(returned), returnQueue)
    BY <1>3, <1>4
  <2>2. source' = [source EXCEPT ![c] = source[c]]
    BY <1>4 DEF TypeInv, TypeOK
  <2> HIDE DEF c
  <2>3. c = Head(returned).cam
    BY DEF c
  <2> QED
    BY <1>4, <2>1, <2>2, <2>3, BufTaken
<1>5. CASE CountReturn
  <2>1. /\ TakeReturn({}) /\ ReturnCounts(l) /\ ~ReturnRequeues(l)
        /\ slot' = [slot EXCEPT ![c] = Returned(s)] /\ UNCHANGED source
    BY <1>5 DEF CountReturn
  <2>2. s.state # "Streaming"
    BY <1>1, <2>1 DEF ReturnRequeues, BufOk
  <2> QED
    BY <1>4, <2>1, <2>2
<1>6. CASE RequeueFails
  <2>1. /\ TakeReturn({ErrorCommand(c)}) /\ ReturnCounts(l)
        /\ slot' = [slot EXCEPT ![c] = Faulted(Returned(s), TRUE)] /\ UNCHANGED source
    BY <1>6 DEF RequeueFails, ReturnRequeues
  <2>2. Faulted(Returned(s), TRUE).state = "Error"
    BY <1>1, <2>1, ReturnedSlots
  <2> QED
    BY <1>4, <2>1, <2>2
<1>7. CASE RequeueReturn
  <2> DEFINE out == Requeued(source[c], l.buf)
             t == Returned(s)
  <2>1. /\ TakeReturn({}) /\ ReturnCounts(l) /\ IsStreaming(source[c])
        /\ slot' = [slot EXCEPT ![c] = t]
        /\ source' = [source EXCEPT ![c] = out]
    BY <1>7 DEF RequeueReturn, ReturnRequeues
  <2>2. /\ BufOk(c, t, out, Held, Tail(returned), returnQueue)
        /\ \A b : HasBuf(b, c, s.leaseGeneration, source[c], Held,
                         returned \o returnQueue) =>
                  HasBuf(b, c, s.leaseGeneration, out, Held, Tail(returned) \o returnQueue)
    BY <1>3, <2>1
  <2>3. t.leaseGeneration = s.leaseGeneration
    BY <1>1, <2>1, ReturnedSlots
  <2> HIDE DEF c, t, out
  <2>4. c = Head(returned).cam /\ s = slot[c]
    BY DEF c
  <2> QED
    BY <2>1, <2>2, <2>3, <2>4, BufTaken
<1> QED
  BY <1>2, <1>5, <1>6, <1>7, BufSwapReturns DEF DrainReturnedFrames

(* DQBUF and the check that follows it.                                    *)
LEMMA BufDequeue ==
    ASSUME TypeInv, TypeInv', BufInv, NEW c \in Cameras, NEW b \in Buffers,
           DequeueFrame(c, b)
    PROVE  BufStep
<1> DEFINE s == slot[c]
           src == source[c]
<1>1. /\ pc = "round" /\ b \in src.queued
      /\ source' = [source EXCEPT ![c] = Dequeue(src, b)]
      /\ UNCHANGED <<returned, leases>>
  BY DEF DequeueFrame, NextFd, others
<1>2. /\ Held \in SUBSET Leases /\ IsFiniteSet(Held) /\ Held = leases
      /\ returned \in Seq(Leases) /\ returnQueue \in Seq(Leases) /\ frame = NoFrame
  BY <1>1, HeldType DEF BufInv, BufPlaced, Publishing
<1>3. ASSUME NEW d \in Cameras
      PROVE  /\ slot[d] \in Slots /\ source[d] \in Sources
             /\ BufOk(d, slot[d], source[d], Held, returned, returnQueue)
             /\ d # c => source'[d] = source[d]
             /\ d = c => source'[d] = Dequeue(src, b)
  BY <1>1 DEF TypeInv, TypeOK, BufInv
<1>4. CASE s.state = "Streaming"
  <2> DEFINE l == [cam |-> c, buf |-> b, gen |-> s.leaseGeneration]
             t == [s EXCEPT !.inFlightFrames = @ + 1]
  <2>1. /\ frame' = l /\ slot' = [slot EXCEPT ![c] = t] /\ pc' = "publish"
        /\ UNCHANGED returnQueue
    BY <1>4 DEF DequeueFrame
  <2>2. l.cam = c /\ l.buf = b /\ l.gen = s.leaseGeneration /\ l # NoFrame
    BY CamManagerAssumption DEF NoFrame
  <2>3. /\ t.state = s.state /\ t.leaseGeneration = s.leaseGeneration
        /\ t.inFlightFrames = s.inFlightFrames + 1 /\ t = slot'[c]
        /\ \A d \in Cameras \ {c} : slot'[d] = slot[d]
    BY <1>3, <2>1 DEF Slots, TypeInv, TypeOK
  <2> HIDE DEF l, t
  <2>4. t \in Slots
    BY <2>3 DEF TypeInv, TypeOK
  <2>5. /\ BufOk(c, t, Dequeue(src, b), Held \cup {l}, returned, returnQueue)
        /\ l \notin Held
        /\ \A d : HasBuf(d, c, s.leaseGeneration, src, Held, returned \o returnQueue) =>
               HasBuf(d, c, s.leaseGeneration, Dequeue(src, b), Held \cup {l},
                      returned \o returnQueue)
    <3>1. /\ s \in Slots /\ src \in Sources /\ b \in src.queued
          /\ BufOk(c, s, src, Held, returned, returnQueue)
      BY <1>1, <1>3
    <3>2. /\ Held \in SUBSET Leases /\ IsFiniteSet(Held)
          /\ returned \in Seq(Leases) /\ returnQueue \in Seq(Leases)
      BY <1>2
    <3> HIDE DEF s, src
    <3>3. Takes(c, s, t, b, l)
      BY <1>4, <2>2, <2>3 DEF Takes
    <3> QED
      BY <2>4, <3>1, <3>2, <3>3, BufTake
  <2>6. Held' = Held \cup {l}
    BY <1>1, <1>2, <2>1, <2>2 DEF Held
  <2>7. BufPlaced'
    BY <1>1, <1>2, <2>1, <2>5 DEF BufPlaced, BufInv, Publishing
  <2>8. ASSUME NEW d \in Cameras PROVE CamStep(d)
    <3>1. CASE d = c
      BY <1>1, <1>3, <2>1, <2>3, <2>5, <2>6, <3>1 DEF CamStep, Keeps
    <3>2. CASE d # c
      <4>1. /\ \A k \in Held \cup {l} : k.cam = d <=> k \in Held /\ k.cam = d
            /\ \A k \in Held : k.cam = d => k \in Held \cup {l}
        BY <2>2, <3>2
      <4>2. /\ BufOk(d, slot[d], source[d], Held \cup {l}, returned, returnQueue)
            /\ \A e, g, way : HasBuf(e, d, g, source[d], Held, way) =>
                              HasBuf(e, d, g, source[d], Held \cup {l}, way)
        BY <1>3, <4>1, BufElsewhere
      <4> QED
        BY SMTT(40), <1>1, <1>3, <2>1, <2>3, <2>6, <3>2, <4>2 DEF CamStep, Keeps
    <3> QED
      BY <3>1, <3>2
  <2> QED
    BY <2>7, <2>8, CamSteps
<1>5. CASE s.state # "Streaming"
  <2> DEFINE l == [cam |-> c, buf |-> b, gen |-> 0]
  <2>1. /\ returnQueue' = Append(returnQueue, l) /\ pc' = "swapReturns"
        /\ UNCHANGED <<slot, frame>>
    BY <1>5 DEF DequeueFrame
  <2>2. l \in Leases /\ l.gen = 0 /\ l.cam = c
    BY DEF Leases
  <2>3. s.state # "Unused"
    BY <1>1, <1>3 DEF BufOk
  <2>4. Dequeue(src, b).queued \subseteq src.queued /\ Dequeue(src, b).stage = src.stage
    BY <1>3 DEF Dequeue, Sources
  <2>5. Held' = Held /\ BufPlaced'
    BY <1>1, <1>2, <2>1 DEF Held, BufPlaced, BufInv, Publishing
  <2> HIDE DEF l
  <2>6. ASSUME NEW d \in Cameras PROVE CamStep(d)
    <3>1. CASE d = c
      <4>1. BufOk(c, s, Dequeue(src, b), Held, returned, Append(returnQueue, l))
        BY <1>2, <1>3, <2>2, <2>3, <2>4, BufOld
      <4> QED
        BY <1>1, <1>3, <1>5, <2>1, <2>5, <3>1, <4>1 DEF CamStep, Keeps
    <3>2. CASE d # c
      <4>1. l.cam = d => slot[d].state # "Unused"
        BY <2>2, <3>2
      <4>2. /\ BufOk(d, slot[d], source[d], Held, returned, Append(returnQueue, l))
            /\ \A e, g : HasBuf(e, d, g, source[d], Held, returned \o returnQueue) =>
                   HasBuf(e, d, g, source[d], Held, returned \o Append(returnQueue, l))
        BY <1>2, <1>3, <2>2, <4>1, BufOld
      <4> QED
        BY <1>1, <1>3, <2>1, <2>5, <3>2, <4>2 DEF CamStep, Keeps
    <3> QED
      BY <3>1, <3>2
  <2> QED
    BY <2>5, <2>6, CamSteps
<1> QED
  BY <1>4, <1>5

(* A lease is dropped, by a sink or by the poll thread: its frame is on    *)
(* its way back.                                                           *)
LEMMA BufDropped ==
    ASSUME TypeInv, BufInv, NEW l \in Held, Held' = Held \ {l},
           returnQueue' = Append(returnQueue, l), UNCHANGED <<slot, source, returned>>,
           BufPlaced'
    PROVE  BufStep
<1>1. /\ Held \in SUBSET Leases /\ IsFiniteSet(Held)
      /\ returned \in Seq(Leases) /\ returnQueue \in Seq(Leases)
  BY HeldType DEF BufInv
<1>2. ASSUME NEW c \in Cameras PROVE CamStep(c)
  <2>1. slot[c] \in Slots /\ BufOk(c, slot[c], source[c], Held, returned, returnQueue)
    BY DEF TypeInv, TypeOK, BufInv
  <2>2. /\ BufOk(c, slot[c], source[c], Held \ {l}, returned, Append(returnQueue, l))
        /\ \A b, g : HasBuf(b, c, g, source[c], Held, returned \o returnQueue) =>
               HasBuf(b, c, g, source[c], Held \ {l}, returned \o Append(returnQueue, l))
    BY <1>1, <2>1, BufReturn
  <2> QED
    BY <2>2 DEF CamStep, Keeps
<1> QED
  BY <1>2, CamSteps

(* The frame that was dequeued is published, kept or dropped.              *)
LEMMA BufPublish ==
    ASSUME TypeInv, BufInv, BeginPublish \/ EndPublish \/ PostToDecoder
    PROVE  BufStep
<1>1. /\ pc \in {"publish", "publishing"} /\ UNCHANGED <<slot, source, returned>>
  BY DEF BeginPublish, EndPublish, PostToDecoder, managed
<1>2. /\ frame \in Leases /\ frame \in Held /\ Held \ {frame} = leases /\ NoFrame \notin Leases
      /\ returned = <<>> /\ frame \notin leases /\ IsFiniteSet(leases)
      /\ leases \in SUBSET Leases
  BY <1>1, HeldType DEF BufInv, BufPlaced, Publishing, TypeInv, TypeOK
<1>3. CASE DropFrame /\ frame' = NoFrame /\ pc' = "swapReturns"
  <2>1. Held' = Held \ {frame} /\ returnQueue' = Append(returnQueue, frame)
    BY <1>2, <1>3 DEF DropFrame, Held
  <2>2. BufPlaced'
    BY <1>1, <1>2, <1>3 DEF DropFrame, BufPlaced, Publishing
  <2> QED
    BY <1>1, <1>2, <2>1, <2>2, BufDropped
<1>4. CASE KeepFrame /\ frame' = NoFrame /\ pc' \in {"swapReturns", "round"}
  <2>1. Held' = Held /\ UNCHANGED returnQueue
    BY <1>2, <1>4 DEF KeepFrame, Held
  <2>2. IsFiniteSet(leases')
    BY <1>2, <1>4, FS_AddElement DEF KeepFrame
  <2>3. BufPlaced'
    BY <1>1, <1>2, <1>4, <2>2 DEF KeepFrame, BufPlaced, Publishing
  <2>4. \A c \in Cameras : CamStep(c)
    BY <1>1, <2>1 DEF CamStep, Keeps, BufInv
  <2> QED
    BY <2>3, <2>4, CamSteps
<1>5. CASE pc' = "publishing" /\ UNCHANGED <<leases, returnQueue, frame>>
  <2>1. Held' = Held /\ BufPlaced'
    BY <1>1, <1>2, <1>5 DEF Held, BufPlaced, Publishing
  <2>2. \A c \in Cameras : CamStep(c)
    BY <1>1, <1>5, <2>1 DEF CamStep, Keeps, BufInv
  <2> QED
    BY <2>1, <2>2, CamSteps
<1> QED
  BY <1>3, <1>4, <1>5 DEF BeginPublish, EndPublish, PostToDecoder

(* Downstream threads.                                                     *)
LEMMA BufDownstream ==
    ASSUME TypeInv, TypeInv', BufInv, NEW k \in Sinks, Downstream(k) PROVE BufStep
<1>1. CASE NotifyReturn(k)
  <2>1. Quiet /\ UNCHANGED <<slot, source>>
    BY <1>1 DEF NotifyReturn, Notify, Quiet, managed, locals
  <2> QED
    BY <2>1, SameLeaseSelf, BufQuiet
<1>2. ASSUME NEW l \in leases, ReleaseLease(k, l) PROVE BufStep
  <2>1. /\ leases' = leases \ {l} /\ returnQueue' = Append(returnQueue, l)
        /\ UNCHANGED <<slot, source, returned, frame, pc>>
    BY <1>2 DEF ReleaseLease, managed, locals
  <2>2. l # frame /\ l # NoFrame
    BY HeldType DEF BufInv, BufPlaced, TypeInv, TypeOK
  <2>3. l \in Held /\ Held' = Held \ {l}
    BY <2>1, <2>2 DEF Held
  <2>4. IsFiniteSet(leases')
    BY <2>1, FS_Subset DEF BufInv, BufPlaced
  <2>5. BufPlaced'
    BY <2>1, <2>4 DEF BufInv, BufPlaced, Publishing
  <2> QED
    BY <2>1, <2>3, <2>5, BufDropped
<1> QED
  BY <1>1, <1>2 DEF Downstream

(* The poll thread.                                                        *)
LEMMA BufPollThread ==
    ASSUME TypeInv, TypeInv', BufInv, PollThread PROVE BufStep
<1>1. ASSUME UNCHANGED <<slot, source>>, Quiet PROVE BufStep
  BY <1>1, SameLeaseSelf, BufQuiet
<1>2. CASE RunLoop \/ SwapCommands \/ PostFromOutbox \/ Snapshot \/ TestWaitPredicate
  BY <1>1, <1>2 DEF RunLoop, SwapCommands, PostFromOutbox, Snapshot, TestWaitPredicate,
                    Quiet, managed, mail, locals, others
<1>3. CASE FallAsleep \/ WaitTimesOut \/ PollReturns \/ PollFails
  BY <1>1, <1>3 DEF FallAsleep, WaitTimesOut, PollReturns, PollFails, Quiet, managed, mail,
                    locals, others
<1>4. CASE HandleWakeEvent \/ RoundEnds
  BY <1>1, <1>4 DEF HandleWakeEvent, RoundEnds, Quiet, managed, mail, others
<1>5. ASSUME NEW c \in Cameras, NothingReady(c) PROVE BufStep
  BY <1>1, <1>5 DEF NothingReady, Quiet, managed, mail, others
<1>6. CASE CheckRestarts
  <2> DEFINE starts == {c \in Cameras : Deferred(c)}
             restarts == {c \in Cameras : AwaitsRestart(c) /\ ~slot[c].backingOff}
  <2>1. /\ Quiet /\ UNCHANGED source
        /\ slot' = [c \in Cameras |->
                       [slot[c] EXCEPT !.startQueued = @ \/ c \in starts,
                                       !.restartQueued = @ \/ c \in restarts]]
    BY <1>6 DEF CheckRestarts, Quiet, mail, others
  <2> HIDE DEF starts, restarts
  <2>2. ASSUME NEW c \in Cameras
        PROVE  /\ slot'[c].state = slot[c].state
               /\ slot'[c].leaseGeneration = slot[c].leaseGeneration
               /\ slot'[c].inFlightFrames = slot[c].inFlightFrames
    <3>1. slot[c] \in Slots
      BY DEF TypeInv, TypeOK
    <3> DEFINE a == slot[c].startQueued \/ c \in starts
               b == slot[c].restartQueued \/ c \in restarts
    <3>2. slot'[c] = [slot[c] EXCEPT !.startQueued = a, !.restartQueued = b]
      BY <2>1, Zenon
    <3> HIDE DEF a, b
    <3> QED
      BY <3>1, <3>2 DEF Slots
  <2>3. \A c \in Cameras : SameLease(slot[c], slot'[c])
    BY <2>2 DEF SameLease, Gone
  <2> QED
    BY <2>1, <2>3, BufQuiet
<1>7. ASSUME NEW c \in Cameras, NEW hangUp \in BOOLEAN, CameraFault(c, hangUp)
      PROVE  BufStep
  <2>1. Quiet /\ UNCHANGED source
    BY <1>7 DEF CameraFault, NextFd, Quiet, mail, others
  <2>2. CASE UNCHANGED slot
    BY <1>1, <2>1, <2>2
  <2>3. CASE InMap(c) /\ slot' = [slot EXCEPT ![c] = Faulted(slot[c], hangUp)]
    <3>1. SameLease(slot[c], Faulted(slot[c], hangUp))
      BY <2>3, SameLeaseSlots DEF InMap, Gone, TypeInv, TypeOK
    <3>2. \A d \in Cameras : SameLease(slot[d], slot'[d])
      BY <2>3, <3>1, SameLeaseSelf DEF TypeInv, TypeOK
    <3> QED
      BY <2>1, <3>2, BufQuiet
  <2> QED
    BY <1>7, <2>2, <2>3 DEF CameraFault
<1> QED
  BY <1>2, <1>3, <1>4, <1>5, <1>6, <1>7, BufExecuteCommand, BufReturns, BufDequeue,
     BufPublish DEF PollThread, PollRound

(* Every step keeps the buffers of every camera accounted for.             *)
LEMMA BufNext == TypeInv /\ TypeInv' /\ BufInv /\ [Next]_vars => BufStep
<1> SUFFICES ASSUME TypeInv, TypeInv', BufInv, [Next]_vars PROVE BufStep
  OBVIOUS
<1>1. ASSUME NEW c \in Cameras, BackoffElapses(c) PROVE BufStep
  <2>1. /\ slot' = [slot EXCEPT ![c].backingOff = FALSE] /\ UNCHANGED source /\ Quiet
    BY <1>1 DEF BackoffElapses, Quiet, mail, locals, others
  <2>2. \A s \in Slots : SameLease(s, [s EXCEPT !.backingOff = FALSE])
    BY DEF SameLease, Slots, Gone
  <2>3. \A d \in Cameras : SameLease(slot[d], slot'[d])
    BY <2>1, <2>2, SameLeaseSelf DEF TypeInv, TypeOK
  <2> QED
    BY <2>1, <2>3, BufQuiet
<1>2. CASE UNCHANGED vars
  BY <1>2, SameLeaseSelf, BufQuiet DEF vars, managed, mail, locals, others, Quiet
<1> QED
  BY <1>1, <1>2, BufApi, BufPollThread, BufDownstream DEF Next

LEMMA BufInit == Init => BufInv
<1> SUFFICES ASSUME Init PROVE BufInv
  OBVIOUS
<1>1. BufPlaced
  BY FS_EmptySet DEF Init, BufPlaced
<1>2. Held = {} /\ returned = <<>> /\ returnQueue = <<>>
  BY DEF Init, Held
<1>3. ASSUME NEW c \in Cameras
      PROVE  BufOk(c, FreshSlot("Unused"), ClosedSource, {}, <<>>, <<>>)
  <2>1. /\ FreshSlot("Unused").state = "Unused" /\ FreshSlot("Unused").leaseGeneration = 1
        /\ ClosedSource.queued = {}
    BY DEF FreshSlot, ClosedSource
  <2>2. <<>> \o <<>> = <<>> /\ Len(<<>>) = 0
    OBVIOUS
  <2> QED
    BY <2>1, <2>2 DEF BufOk, Gone
<1> QED
  BY <1>1, <1>2, <1>3 DEF BufInv, Init

(* What the invariant says of the leases of a camera that is in the map.   *)
LEMMA OutstandingHeld ==
    ASSUME TypeInv, BufInv, NEW c \in Cameras
    PROVE  /\ Outstanding(c) = OfCam(Held, c) /\ IsFiniteSet(Outstanding(c))
           /\ Cardinality(Outstanding(c)) \in Nat
           /\ InMap(c) => ~Gone(slot[c])
<1>1. /\ Held \in SUBSET Leases /\ IsFiniteSet(Held)
      /\ returned \in Seq(Leases) /\ returnQueue \in Seq(Leases)
  BY HeldType DEF BufInv
<1>2. Outstanding(c) = OfCam(Held, c)
  BY CamManagerAssumption DEF Outstanding, OfCam, Held, NoFrame
<1>3. IsFiniteSet(OfCam(Held, c)) /\ Cardinality(OfCam(Held, c)) \in Nat
  BY <1>1, OutCounts
<1> QED
  BY <1>2, <1>3 DEF InMap, Gone

LEMMA BufAccounts == TypeInv /\ BufInv => BuffersAccounted
<1> SUFFICES ASSUME TypeInv, BufInv PROVE BuffersAccounted
  OBVIOUS
<1>1. returned \in Seq(Leases) /\ returnQueue \in Seq(Leases)
  BY DEF TypeInv, TypeOK
<1>2. ASSUME NEW c \in Cameras, InMap(c)
      PROVE  slot[c].inFlightFrames >= Cardinality(Outstanding(c))
                                       + ReturnsUnderway(c, slot[c].leaseGeneration)
  <2> DEFINE g == slot[c].leaseGeneration
  <2>1. Covered(c, slot[c], Held, returned, returnQueue)
    BY <1>2, OutstandingHeld DEF BufInv, BufOk
  <2>2. /\ Count(returned, c, g) \in Nat /\ Count(returnQueue, c, g) \in Nat
        /\ slot[c].inFlightFrames \in Nat
    BY <1>1, CountType, SlotNumbers DEF TypeInv, TypeOK
  <2>3. ReturnsUnderway(c, g) = Count(returned, c, g) + Count(returnQueue, c, g)
    BY DEF ReturnsUnderway, Count, Indexes
  <2>4. /\ Outstanding(c) = OfCam(Held, c) /\ Cardinality(Outstanding(c)) \in Nat
    BY OutstandingHeld
  <2> QED
    BY <2>1, <2>2, <2>3, <2>4 DEF Covered
<1>3. ASSUME NEW c \in Cameras, InMap(c), IsStreaming(source[c])
      PROVE  LET g == slot[c].leaseGeneration
                 way == returned \o returnQueue
                 Mine(l) == l.cam = c /\ l.gen = g
                 out == {l.buf : l \in {k \in Outstanding(c) : Mine(k)}}
                 back == {i \in DOMAIN way : Mine(way[i])}
             IN  /\ out \cap source[c].queued = {}
                 /\ \A i \in back : way[i].buf \notin source[c].queued \cup out
                 /\ \A i, j \in back : way[i].buf = way[j].buf => i = j
  <2> DEFINE g == slot[c].leaseGeneration
             way == returned \o returnQueue
             out == {l.buf : l \in {k \in Outstanding(c) : k.cam = c /\ k.gen = g}}
             back == {i \in DOMAIN way : way[i].cam = c /\ way[i].gen = g}
  <2>1. OneOwner(c, g, source[c], Held, way)
    BY <1>3, OutstandingHeld DEF BufInv, BufOk
  <2>2. \A b \in out : \E l \in Held : Counts(l, c, g) /\ l.buf = b
    BY OutstandingHeld DEF OfCam, Counts
  <2>3. DOMAIN way = 1 .. Len(way)
    BY <1>1
  <2>4. \A i \in back : i \in 1 .. Len(way) /\ Counts(way[i], c, g)
    BY <2>3 DEF Counts
  <2> HIDE DEF g, way, out, back
  <2>5. /\ out \cap source[c].queued = {}
        /\ \A i \in back : way[i].buf \notin source[c].queued \cup out
        /\ \A i, j \in back : way[i].buf = way[j].buf => i = j
    BY <2>1, <2>2, <2>4 DEF OneOwner
  <2> QED
    BY <2>5 DEF g, way, out, back
<1>4. InFlightCoversLeases
  BY <1>2 DEF InFlightCoversLeases
<1>5. OneOwnerPerBuffer
  BY <1>3 DEF OneOwnerPerBuffer
<1> QED
  BY <1>4, <1>5 DEF BuffersAccounted

(* No buffer of a camera has two owners, and every lease that a sink still *)
(* holds is counted: inFlightFrames = 0 does mean that the buffers may be  *)
(* reused, whatever stops, restarts and late returns race.                 *)
THEOREM CameraBuffersStayAccounted == Spec => []BuffersAccounted
<1>1. TypeInv /\ BufInv /\ [Next]_vars => TypeInv' /\ BufInv'
  BY TypeNext, BufNext DEF BufStep
<1> QED
  BY <1>1, TypeInit, BufInit, BufAccounts, PTL DEF Spec

(* A camera that keeps streaming loses no buffer.                          *)
THEOREM StreamingStrandsNothing == Spec => StreamingStrandsNoBuffer
<1> DEFINE A == \A c \in Cameras :
                    slot[c].state = "Streaming" /\ slot'[c].state = "Streaming"
                        => Stranded(c)' \subseteq Stranded(c)
<1>1. TypeInv /\ BufInv /\ [Next]_vars => TypeInv' /\ BufInv' /\ [A]_vars
  <2> SUFFICES ASSUME TypeInv, BufInv, [Next]_vars
               PROVE  TypeInv' /\ BufInv' /\ A
    OBVIOUS
  <2>1. TypeInv'
    BY TypeNext
  <2>2. BufStep
    BY <2>1, BufNext
  <2>3. ASSUME NEW c \in Cameras, slot[c].state = "Streaming", slot'[c].state = "Streaming",
               NEW b \in Stranded(c)'
        PROVE  b \in Stranded(c)
    <3> DEFINE g == slot[c].leaseGeneration
    <3>1. Keeps(c)
      BY <2>2 DEF BufStep
    <3>2. slot'[c].leaseGeneration = g
      BY <2>3, <3>1 DEF Keeps
    <3>3. /\ returned \o returnQueue \in Seq(Leases)
          /\ returned' \o returnQueue' \in Seq(Leases)
      BY <2>1 DEF TypeInv, TypeOK
    <3>4. ~HasBuf(b, c, g, source'[c], Held', returned' \o returnQueue')
      <4>1. \A l \in Held' : Counts(l, c, g) => l \in Outstanding(c)'
        BY DEF Outstanding, Held, Counts
      <4> QED
        BY <2>3, <3>2, <3>3, <4>1 DEF Stranded, HasBuf, Counts
    <3>5. ~HasBuf(b, c, g, source[c], Held, returned \o returnQueue)
      BY <2>3, <3>1, <3>4 DEF Keeps
    <3>6. b \in Buffers
      BY <2>3 DEF Stranded
    <3>7. \A l \in Outstanding(c) : l.gen = g => l \in Held /\ Counts(l, c, g)
      BY CamManagerAssumption DEF Outstanding, Held, Counts, NoFrame
    <3> QED
      BY <3>3, <3>5, <3>6, <3>7 DEF Stranded, HasBuf, Counts
  <2> QED
    BY <2>1, <2>2, <2>3 DEF BufStep
<1> QED
  BY <1>1, TypeInit, BufInit, PTL DEF Spec, StreamingStrandsNoBuffer

(* A restart, and a start from Stopped, touch the buffers of a camera only *)
(* when no sink holds one.                                                 *)
THEOREM RestartsWaitForLeases == Spec => RestartWaitsForLeases
<1> DEFINE A == \A c \in Cameras :
                  /\ source'[c] # source[c] /\ batch # <<>> /\ batch' # batch
                  /\ source'[c].stage # "BufferAllocated" \/ source'[c].queued # {}
                  /\ \/ Head(batch).type = "RestartCamera"
                     \/ Head(batch).type = "StartCamera" /\ slot[c].state = "Stopped"
                  => Outstanding(c) = {}
<1>1. TypeInv /\ RoundInv /\ BufInv /\ [Next]_vars
          => TypeInv' /\ RoundInv' /\ BufInv' /\ [A]_vars
  <2> SUFFICES ASSUME TypeInv, RoundInv, BufInv, [Next]_vars
               PROVE  TypeInv' /\ RoundInv' /\ BufInv' /\ [A]_vars
    OBVIOUS
  <2>1. TypeInv' /\ RoundInv' /\ BufInv'
    BY TypeNext, RoundNext, BufNext DEF BufStep
  <2>2. ASSUME NEW c \in Cameras, source'[c] # source[c], batch # <<>>, batch' # batch,
               \/ Head(batch).type = "RestartCamera"
               \/ Head(batch).type = "StartCamera" /\ slot[c].state = "Stopped"
        PROVE  Outstanding(c) = {}
    <3>1. pc = "commands"
      BY <2>2 DEF RoundInv, Placed
    <3>2. ExecuteCommand
      BY ZenonT(60), <2>2, <3>1
      DEF Next, ApiCall, ApiContinues, PollThread, PollRound, DrainReturnedFrames, Downstream,
          AddCamera, DelCamera, RequestControl, RequestCameraRecovery, StartPolling,
          RequestStop, ShutdownPolling, CloseHub, FinishDelete, EraseDeleted, PushCommand,
          NotifyPollThread, LaunchPollThread, JoinPollThread, ReleaseLease, NotifyReturn, RunLoop, SwapCommands,
          SwapReturns, IgnoreReturn, CountReturn, RequeueReturn, RequeueFails, TakeReturn,
          PostFromOutbox, CheckRestarts, Snapshot, TestWaitPredicate, FallAsleep, WaitTimesOut,
          PollReturns, PollFails, NothingReady, CameraFault, DequeueFrame, BeginPublish,
          EndPublish, PostToDecoder, HandleWakeEvent, RoundEnds, BackoffElapses, NextFd, locals,
          vars
    <3>3. /\ slot[c].inFlightFrames = 0 /\ InMap(c)
      <4>1. CASE ExecuteStart \/ ExecuteRestart
        <5>1. c = Head(batch).cam
          BY <2>2, <4>1 DEF ExecuteStart, ExecuteRestart, TypeInv, TypeOK
        <5> QED
          BY <2>2, <4>1, <5>1 DEF ExecuteStart, ExecuteRestart, Execute, RestartApplies,
                                  CurrentRound, Controllable, InMap
      <4>2. ~(ExecuteStop \/ ExecuteProcessError \/ ExecuteDelete \/ ExecuteStartDeferred
              \/ ExecuteStartAdopt)
        BY <2>2 DEF ExecuteStop, ExecuteProcessError, ExecuteDelete, ExecuteStartDeferred,
                    ExecuteStartAdopt, Execute
      <4>3. \A t : ~(ExecuteForGoneCamera(t) \/ ExecuteStale(t))
        BY <2>2 DEF ExecuteForGoneCamera, ExecuteStale
      <4> QED
        BY <3>2, <4>1, <4>2, <4>3 DEF ExecuteCommand
    <3>4. /\ Outstanding(c) = OfCam(Held, c) /\ IsFiniteSet(Outstanding(c))
          /\ Cardinality(Outstanding(c)) \in Nat /\ ~Gone(slot[c])
      BY <3>3, OutstandingHeld
    <3>5. Covered(c, slot[c], Held, returned, returnQueue)
      BY <3>4 DEF BufInv, BufOk
    <3>6. /\ Count(returned, c, slot[c].leaseGeneration) \in Nat
          /\ Count(returnQueue, c, slot[c].leaseGeneration) \in Nat
      BY CountType DEF TypeInv, TypeOK
    <3>7. Cardinality(Outstanding(c)) = 0
      BY <3>3, <3>4, <3>5, <3>6 DEF Covered
    <3> QED
      BY <3>4, <3>7, FS_EmptySet
  <2> QED
    BY <2>1, <2>2
<1> QED
  BY <1>1, TypeInit, RoundInit, BufInit, PTL DEF Spec, RestartWaitsForLeases
=============================================================================
