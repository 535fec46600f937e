---------------------------- MODULE CamManager ----------------------------
(***************************************************************************)
(* The camera manager (src/core/cam/CamManager.cpp): API threads that only *)
(* change a slot's state and post commands, one poll thread that executes  *)
(* the commands and owns every V4L2 call, and downstream threads that hold *)
(* frame leases and post the returned buffers back.                        *)
(*                                                                         *)
(* A step is one critical section of the code, or one access to state      *)
(* shared with another thread: the lookups and pushes of an API call are   *)
(* separate steps, and so are the test of the wait predicate and the sleep *)
(* on m_camCv. The poll thread keeps m_camChangeMutex over several steps   *)
(* at pc "returns" and "cvEnter"; every other section is one step.         *)
(*                                                                         *)
(* The flags m_hasPendingCommand and m_hasPendingReturnedFrame are written *)
(* in the critical sections that change their queue: here they are the     *)
(* queue being non-empty. A condition "now < nextRestartTime" is the       *)
(* boolean backingOff; time passing resets it.                             *)
(***************************************************************************)
EXTENDS V4L2CameraSource, Sequences, FiniteSets

CONSTANTS
    Cameras,          \* camera ids, each given out once by addCamera()
    MjpegCameras,     \* the cameras whose frames go to a DecodeWorker
    Clients,          \* threads calling the public API
    Sinks,            \* downstream threads that drop the last lease reference
    CallBudget,       \* [call -> how often the clients make it], a bound
    MaxFaults,        \* how many driver calls fail, a bound
    MaxFailures,      \* pollOnce() failures in a row that end run(): 10
    EscalateAfter     \* failed light restarts before a device reopen: 3

Calls == {"add", "start", "stop", "recover", "reopen", "delete",
          "startPolling", "requestStop", "shutdown"}

ASSUME CamManagerAssumption ==
    /\ "none" \notin Cameras       \* NoFrame is no camera's frame
    /\ MjpegCameras \subseteq Cameras
    /\ CallBudget \in [Calls -> Nat]
    /\ MaxFaults \in Nat
    /\ MaxFailures \in Nat \ {0}
    /\ EscalateAfter \in Nat \ {0}

VARIABLES
    slot,           \* m_cameraMap: state and runtime of each camera
    source,         \* the V4L2 device of each camera
    hub,            \* m_frameHubMap: FrameHub::m_closed of each camera
    cmdQueue,       \* m_commandQueue
    returnQueue,    \* m_returnQueue
    wakeEvent,      \* m_pollWakeEventFd is readable
    running,        \* m_running
    stopRequested,  \* m_stopRequested
    joinable,       \* m_pollThread.joinable()
    pc,             \* where the poll thread is
    resume,         \* where it goes after draining returned frames
    batch,          \* drainCommands(): commands taken, not yet executed
    returned,       \* drainReturnedFrames(): frames taken, not yet handled
    outbox,         \* commands it has decided to post, not yet posted
    ready,          \* the cameras of this poll() round not yet looked at
    wakeSeen,       \* poll() reported the eventfd
    frame,          \* the lease of the frame being published
    timed,          \* the cameras whose restart bounds the wait on m_camCv
    failures,       \* consecutiveFailures of run()
    leases,         \* live leases held downstream
    api,            \* where each client thread is in its call
    sinkPc,         \* where each downstream thread is in postReturnedFrame()
    callsLeft,      \* what is left of CallBudget
    faultsLeft      \* what is left of MaxFaults

managed == <<slot, source, hub>>
mail    == <<cmdQueue, returnQueue, wakeEvent>>
life    == <<running, stopRequested, joinable>>
locals  == <<resume, batch, returned, outbox, ready, wakeSeen, frame, timed,
             failures>>
others  == <<leases, api, sinkPc>>
budgets == <<callsLeft, faultsLeft>>
vars    == <<managed, mail, life, pc, locals, others, budgets>>
-----------------------------------------------------------------------------
States == {"Unused", "Ready", "Streaming", "Stopped", "Deleting", "Error",
           "Erased"}

CommandTypes == {"StartCamera", "StopCamera", "DeleteCamera", "ProcessError",
                 "RestartCamera"}

Slots == [state : States,
          recoveryGeneration : Nat,
          leaseGeneration : Nat,
          restartAttempts : Nat,
          inFlightFrames : Nat,
          startPending : BOOLEAN,
          startQueued : BOOLEAN,
          restartPending : BOOLEAN,
          restartQueued : BOOLEAN,
          requiresDeviceReopen : BOOLEAN,
          backingOff : BOOLEAN]

Commands == [type : CommandTypes, cam : Cameras, gen : Nat]

(* A FrameLease, and the ReturnedFrame it posts. Generation 0 marks a      *)
(* frame dequeued after its camera was stopped or deleted.                 *)
Leases == [cam : Cameras, buf : Buffers, gen : Nat]
NoFrame == [cam |-> "none", buf |-> 0, gen |-> 0]

PollPcs == {"off", "loop", "swapCommands", "commands", "swapReturns",
            "returns", "post", "check", "snapshot", "cvFirst", "cvAgain",
            "cvEnter", "cvWait", "poll", "round", "publish", "publishing"}

ApiPcs == {"idle", "push", "notify", "close", "finish", "erase", "launch",
           "shutdownNotify", "join"}

ApiStates == [pc : ApiPcs, todo : SUBSET Commands, cam : SUBSET Cameras]

(* A slot whose camera is not in m_cameraMap, and the slot of a camera     *)
(* that addCamera() has just put there.                                    *)
FreshSlot(st) ==
    [state |-> st, recoveryGeneration |-> 0, leaseGeneration |-> 1,
     restartAttempts |-> 0, inFlightFrames |-> 0,
     startPending |-> FALSE, startQueued |-> FALSE,
     restartPending |-> FALSE, restartQueued |-> FALSE,
     requiresDeviceReopen |-> FALSE, backingOff |-> FALSE]

Command(t, c, g) == [type |-> t, cam |-> c, gen |-> g]

InMap(c) == slot[c].state \notin {"Unused", "Erased"}

PresentOnly(c) == InMap(c)

Controllable(c) == InMap(c) /\ slot[c].state # "Deleting"

(* The poll thread keeps m_camChangeMutex across steps only here.          *)
CamMutexFree == pc \notin {"returns", "cvEnter"}

(* m_threadMutex is kept by startPolling() and shutdownPolling().          *)
ThreadMutexFree ==
    \A p \in Clients : api[p].pc \notin {"launch", "shutdownNotify", "join"}

(* m_camCv.notify_one(): it reaches the poll thread only while it sleeps.  *)
Notify == pc' = IF pc = "cvWait" THEN "cvAgain" ELSE pc

IdleClient == [pc |-> "idle", todo |-> {}, cam |-> {}]

Init ==
    /\ slot = [c \in Cameras |-> FreshSlot("Unused")]
    /\ source = [c \in Cameras |-> ClosedSource]
    /\ hub = [c \in Cameras |-> "Open"]
    /\ cmdQueue = <<>> /\ returnQueue = <<>> /\ wakeEvent = FALSE
    /\ running = FALSE /\ stopRequested = FALSE /\ joinable = FALSE
    /\ pc = "off" /\ resume = "check"
    /\ batch = <<>> /\ returned = <<>> /\ outbox = {}
    /\ ready = {} /\ wakeSeen = FALSE /\ frame = NoFrame
    /\ timed = {} /\ failures = 0
    /\ leases = {}
    /\ api = [p \in Clients |-> IdleClient]
    /\ sinkPc = [s \in Sinks |-> "idle"]
    /\ callsLeft = CallBudget /\ faultsLeft = MaxFaults
-----------------------------------------------------------------------------
(* What the code does to a slot.                                           *)

NewRound(s) == [s EXCEPT !.recoveryGeneration = @ + 1]

NoStart(s) == [s EXCEPT !.startPending = FALSE, !.startQueued = FALSE]

NoRestart(s) == [s EXCEPT !.restartPending = FALSE, !.restartQueued = FALSE]

(* A camera is isolated: reportCameraFault(), requestCameraRecovery() and a *)
(* failed QBUF open a new recovery round.                                   *)
Faulted(s, reopen) ==
    NewRound([s EXCEPT !.state = "Error", !.requiresDeviceReopen = reopen])

(* restartBackoff(n) is zero for the first attempt only.                   *)
BackedOff(s) ==
    [s EXCEPT !.restartAttempts = @ + 1, !.backingOff = s.restartAttempts > 0]

RetryingStillQueued(s) ==
    [BackedOff(s) EXCEPT !.state = "Error", !.restartPending = TRUE]

Retrying(s) ==
    [BackedOff(s) EXCEPT !.state = "Error",
                         !.restartPending = TRUE, !.restartQueued = FALSE]

AfterFailedStart(s) ==
    NewRound([NoStart(Retrying(s)) EXCEPT !.requiresDeviceReopen = FALSE])

AfterFailedRestart(s) ==
    IF s.restartAttempts + 1 >= EscalateAfter
    THEN [Retrying(s) EXCEPT !.requiresDeviceReopen = TRUE]
    ELSE Retrying(s)

Halted(s) == NewRound(NoStart(NoRestart([s EXCEPT !.state = "Stopped"])))

(* What every successful start clears, and the lease generation that all   *)
(* but the adoption of a stream still running begin.                       *)
Settled(s) ==
    [NoStart(NoRestart(s)) EXCEPT !.state = "Streaming",
                                  !.restartAttempts = 0,
                                  !.requiresDeviceReopen = FALSE]

Running(s) == [Settled(s) EXCEPT !.leaseGeneration = @ + 1]

ReturnedAll(s) == [s EXCEPT !.inFlightFrames = 0]

Returned(s) ==
    [s EXCEPT !.inFlightFrames = IF @ > 0 THEN @ - 1 ELSE 0]
-----------------------------------------------------------------------------
(* The public API, called from any thread.                                 *)

(* One call of the budget, begun by an idle client, that continues at pc q *)
(* with commands todo to post.                                             *)
Call(p, call, q, todo, cams) ==
    /\ api[p].pc = "idle"
    /\ callsLeft[call] > 0
    /\ callsLeft' = [callsLeft EXCEPT ![call] = @ - 1]
    /\ api' = [api EXCEPT ![p] = [pc |-> q, todo |-> todo, cam |-> cams]]
    /\ UNCHANGED faultsLeft

(* addCamera() prepares the device and enters it under m_camChangeMutex.   *)
AddCamera(p, c) ==
    /\ CamMutexFree
    /\ slot[c].state = "Unused"
    /\ Call(p, "add", "idle", {}, {})
    /\ slot' = [slot EXCEPT ![c] = FreshSlot("Ready")]
    /\ source' = [source EXCEPT ![c] = PreparedSource]
    /\ UNCHANGED <<hub, mail, life, pc, locals, leases, sinkPc>>

(* startCamera(), stopCamera() on one camera, startAllCameras() and        *)
(* stopAllCameras() on all: the ids are checked under the lock and the     *)
(* commands pushed after it is released.                                   *)
RequestControl(p, call, C) ==
    /\ CamMutexFree
    /\ C \subseteq {c \in Cameras : Controllable(c)} /\ C # {}
    /\ Call(p, call, "push",
            {Command(IF call = "start" THEN "StartCamera" ELSE "StopCamera",
                     c, 0) : c \in C},
            {})
    /\ UNCHANGED <<managed, mail, life, pc, locals, leases, sinkPc>>

ErrorCommand(c) == Command("ProcessError", c, slot[c].recoveryGeneration + 1)

RequestCameraRecovery(p, c, call) ==
    /\ CamMutexFree
    /\ Controllable(c) /\ slot[c].state # "Error"
    /\ Call(p, call, "push", {ErrorCommand(c)}, {})
    /\ slot' = [slot EXCEPT ![c] = Faulted(@, call = "reopen")]
    /\ UNCHANGED <<source, hub, mail, life, pc, locals, leases, sinkPc>>

(* delCamera(): mark, close the hub, then erase or post DeleteCamera.      *)
DelCamera(p, c) ==
    /\ CamMutexFree
    /\ InMap(c)
    /\ Call(p, "delete", "close", {}, {c})
    /\ slot' = [slot EXCEPT ![c].state = "Deleting"]
    /\ UNCHANGED <<source, hub, mail, life, pc, locals, leases, sinkPc>>

CloseHubAtOnce(p) ==
    /\ api[p].pc = "close"
    /\ hub' = [c \in Cameras |-> IF c \in api[p].cam THEN "Closed" ELSE hub[c]]
    /\ api' = [api EXCEPT ![p].pc = "finish"]
    /\ UNCHANGED <<slot, source, mail, life, pc, locals, leases, sinkPc,
                   budgets>>

(* FrameHub::close() takes m_publishMutex, which publishFrame() keeps over *)
(* the sink callbacks.                                                     *)
CloseHub(p) ==
    /\ api[p].pc = "close"
    /\ \A c \in api[p].cam : ~(pc = "publishing" /\ frame.cam = c)
    /\ hub' = [c \in Cameras |-> IF c \in api[p].cam THEN "Closed" ELSE hub[c]]
    /\ api' = [api EXCEPT ![p].pc = "finish"]
    /\ UNCHANGED <<slot, source, mail, life, pc, locals, leases, sinkPc,
                   budgets>>

Erase(C) ==
    slot' = [c \in Cameras |-> IF c \in C THEN FreshSlot("Erased") ELSE slot[c]]

(* delCamera() looks at m_running without a lock. If it is clear the call   *)
(* goes on to erase the camera itself, whoever starts the poll thread by    *)
(* then; otherwise it asks the poll thread to.                              *)
FinishDelete(p) ==
    /\ api[p].pc = "finish"
    /\ \/ /\ ~running
          /\ api' = [api EXCEPT ![p].pc = "erase"]
       \/ /\ running
          /\ api' = [api EXCEPT ![p] =
                [pc |-> "push",
                 todo |-> {Command("DeleteCamera", c, 0) : c \in api[p].cam},
                 cam |-> {}]]
    /\ UNCHANGED <<managed, mail, life, pc, locals, leases, sinkPc, budgets>>

EraseDeleted(p) ==
    /\ api[p].pc = "erase" /\ CamMutexFree
    /\ Erase(api[p].cam)
    /\ api' = [api EXCEPT ![p] = IdleClient]
    /\ UNCHANGED <<source, hub, mail, life, pc, locals, leases, sinkPc,
                   budgets>>

(* postCommand(): the push, then the notification and the eventfd.         *)
PushCommand(p) ==
    /\ api[p].pc = "push"
    /\ \E cmd \in api[p].todo :
          /\ cmdQueue' = Append(cmdQueue, cmd)
          /\ api' = [api EXCEPT ![p].todo = @ \ {cmd}, ![p].pc = "notify"]
    /\ UNCHANGED <<managed, returnQueue, wakeEvent, life, pc, locals, leases,
                   sinkPc, budgets>>

NotifyPollThread(p) ==
    /\ api[p].pc \in {"notify", "shutdownNotify"}
    /\ Notify
    /\ wakeEvent' = TRUE
    /\ api' = [api EXCEPT ![p].pc =
                  IF api[p].pc = "shutdownNotify" THEN "join"
                  ELSE IF api[p].todo = {} THEN "idle" ELSE "push"]
    /\ UNCHANGED <<managed, cmdQueue, returnQueue, life, locals, leases,
                   sinkPc, budgets>>

(* startPolling(): m_running.exchange(true), then the flag is reset and    *)
(* the thread launched. A call that finds m_running set returns at once.   *)
StartPolling(p) ==
    /\ ThreadMutexFree
    /\ running' = TRUE
    /\ Call(p, "startPolling", IF running THEN "idle" ELSE "launch", {}, {})
    /\ UNCHANGED <<managed, mail, stopRequested, joinable, pc, locals, leases, sinkPc>>

LaunchPollThread(p) ==
    /\ api[p].pc = "launch" /\ pc = "off"
    /\ stopRequested' = FALSE /\ joinable' = TRUE
    /\ pc' = "loop" /\ failures' = 0
    /\ api' = [api EXCEPT ![p] = IdleClient]
    /\ UNCHANGED <<managed, mail, running, resume, batch, returned, outbox,
                   ready, wakeSeen, frame, timed, leases, sinkPc, budgets>>

RequestStop(p) ==
    /\ Call(p, "requestStop", "notify", {}, {})
    /\ stopRequested' = TRUE
    /\ UNCHANGED <<managed, mail, running, joinable, pc, locals, leases, sinkPc>>

(* shutdownPolling() waits for the thread with m_threadMutex held. Without *)
(* a loop that runs or a thread to join it returns at once.                *)
ShutdownPolling(p) ==
    /\ ThreadMutexFree
    /\ running \/ joinable
    /\ Call(p, "shutdown", "shutdownNotify", {}, {})
    /\ stopRequested' = TRUE
    /\ UNCHANGED <<managed, mail, running, joinable, pc, locals, leases, sinkPc>>

DetachPollThread(p) ==
    /\ api[p].pc = "join"
    /\ running' = FALSE /\ joinable' = FALSE
    /\ api' = [api EXCEPT ![p] = IdleClient]
    /\ UNCHANGED <<managed, mail, stopRequested, pc, locals, leases, sinkPc,
                   budgets>>

JoinPollThread(p) ==
    /\ api[p].pc = "join" /\ pc = "off"
    /\ running' = FALSE /\ joinable' = FALSE
    /\ api' = [api EXCEPT ![p] = IdleClient]
    /\ UNCHANGED <<managed, mail, stopRequested, pc, locals, leases, sinkPc,
                   budgets>>
-----------------------------------------------------------------------------
(* Downstream: the last reference to a lease is dropped, postReturnedFrame *)
(* pushes the buffer, then notifies.                                       *)

ReleaseLease(s, l) ==
    /\ sinkPc[s] = "idle"
    /\ leases' = leases \ {l}
    /\ returnQueue' = Append(returnQueue, l)
    /\ sinkPc' = [sinkPc EXCEPT ![s] = "notify"]
    /\ UNCHANGED <<managed, cmdQueue, wakeEvent, life, pc, locals, api,
                   budgets>>

NotifyReturn(s) ==
    /\ sinkPc[s] = "notify"
    /\ Notify
    /\ wakeEvent' = TRUE
    /\ sinkPc' = [sinkPc EXCEPT ![s] = "idle"]
    /\ UNCHANGED <<managed, cmdQueue, returnQueue, life, locals, leases, api,
                   budgets>>
-----------------------------------------------------------------------------
(* The poll thread: run() and drainCommands().                             *)

RunLoop ==
    /\ pc = "loop"
    /\ \/ /\ stopRequested
          /\ pc' = "off" /\ running' = FALSE
          /\ UNCHANGED resume
       \/ /\ ~stopRequested
          /\ pc' = "swapCommands" /\ resume' = "check"
          /\ UNCHANGED running
    /\ UNCHANGED <<managed, mail, stopRequested, joinable, batch, returned, outbox,
                   ready, wakeSeen, frame, timed, failures, others, budgets>>

SwapCommands ==
    /\ pc = "swapCommands"
    /\ batch' = cmdQueue
    /\ cmdQueue' = <<>>
    /\ pc' = "commands"
    /\ UNCHANGED <<managed, returnQueue, wakeEvent, life, resume, returned,
                   outbox, ready, wakeSeen, frame, timed, failures, others,
                   budgets>>

(* executeCommand() on the next command of the batch, of type t.           *)
Execute(t) ==
    /\ pc = "commands" /\ batch # <<>>
    /\ Head(batch).type = t
    /\ batch' = Tail(batch)
    /\ UNCHANGED <<hub, mail, life, pc, resume, returned, outbox, ready,
                   wakeSeen, frame, timed, failures, others, callsLeft>>

(* A driver call that fails although the device was ready for it is a      *)
(* fault of the environment and is paid for.                               *)
PayFault(failed) ==
    /\ failed => faultsLeft > 0
    /\ faultsLeft' = IF failed THEN faultsLeft - 1 ELSE faultsLeft

ExecuteDelete ==
    /\ Execute("DeleteCamera")
    /\ Erase({Head(batch).cam} \cap {c \in Cameras : InMap(c)})
    /\ UNCHANGED <<source, faultsLeft>>

(* Commands for a camera that is gone, or that is being deleted.           *)
ExecuteForGoneCamera(t) ==
    /\ Execute(t)
    /\ t # "DeleteCamera"
    /\ ~Controllable(Head(batch).cam)
    /\ UNCHANGED <<slot, source, faultsLeft>>

(* StartCamera on a stopped camera waits for the old leases.               *)
ExecuteStartDeferred ==
    /\ Execute("StartCamera")
    /\ LET c == Head(batch).cam IN
          /\ slot[c].state = "Stopped" /\ slot[c].inFlightFrames # 0
          /\ slot' = [slot EXCEPT ![c].startPending = TRUE,
                                  ![c].startQueued = FALSE]
    /\ UNCHANGED <<source, faultsLeft>>

(* StartCamera on a camera that streams, or whose device still does.       *)
ExecuteStartAdopt ==
    /\ Execute("StartCamera")
    /\ LET c == Head(batch).cam IN
          /\ Controllable(c)
          /\ ~(slot[c].state = "Stopped" /\ slot[c].inFlightFrames # 0)
          /\ slot[c].state = "Streaming" \/ IsStreaming(source[c])
          /\ slot' = [slot EXCEPT ![c] = NewRound(Settled(@))]
    /\ UNCHANGED <<source, faultsLeft>>

ExecuteStart ==
    /\ Execute("StartCamera")
    /\ LET c == Head(batch).cam IN
          /\ Controllable(c)
          /\ ~(slot[c].state = "Stopped" /\ slot[c].inFlightFrames # 0)
          /\ slot[c].state # "Streaming" /\ ~IsStreaming(source[c])
          /\ \E out \in StartOutcomes(source[c]) :
                /\ PayFault(~out.ok /\ source[c].stage = "BufferAllocated")
                /\ source' = [source EXCEPT ![c] = out.src]
                /\ slot' = [slot EXCEPT ![c] =
                      IF out.ok THEN Running(@) ELSE AfterFailedStart(@)]

ExecuteStop ==
    /\ Execute("StopCamera")
    /\ LET c == Head(batch).cam IN
          /\ Controllable(c)
          /\ source' = [source EXCEPT ![c] = Stop(@)]
          /\ slot' = [slot EXCEPT ![c] = Halted(@)]
    /\ UNCHANGED faultsLeft

(* ProcessError and RestartCamera act only in the recovery round that      *)
(* posted them.                                                            *)
CurrentRound(cmd) ==
    /\ slot[cmd.cam].state = "Error"
    /\ cmd.gen = slot[cmd.cam].recoveryGeneration

ExecuteProcessError ==
    /\ Execute("ProcessError")
    /\ LET c == Head(batch).cam IN
          /\ CurrentRound(Head(batch))
          /\ source' = [source EXCEPT ![c] = Stop(@)]
          /\ slot' = [slot EXCEPT ![c] = Retrying(@)]
    /\ UNCHANGED faultsLeft

RestartApplies(cmd) == CurrentRound(cmd) /\ slot[cmd.cam].restartPending

ExecuteStale(t) ==
    /\ t \in {"ProcessError", "RestartCamera"}
    /\ Execute(t)
    /\ Controllable(Head(batch).cam)
    /\ IF t = "ProcessError" THEN ~CurrentRound(Head(batch))
                             ELSE ~RestartApplies(Head(batch))
    /\ UNCHANGED <<slot, source, faultsLeft>>

(* The device after the optional reopen and start().                       *)
RestartOutcomes(c) ==
    IF ~slot[c].requiresDeviceReopen
    THEN StartOutcomes(source[c])
    ELSE {out \in ReopenOutcomes : ~out.ok} \cup StartOutcomes(PreparedSource)

ExecuteRestart ==
    /\ Execute("RestartCamera")
    /\ LET c == Head(batch).cam IN
          /\ RestartApplies(Head(batch))
          /\ \/ /\ slot[c].inFlightFrames # 0
                /\ slot' = [slot EXCEPT ![c].restartQueued = FALSE]
                /\ UNCHANGED <<source, faultsLeft>>
             \/ /\ slot[c].inFlightFrames = 0
                /\ \E out \in RestartOutcomes(c) :
                      /\ PayFault(~out.ok /\ (\/ slot[c].requiresDeviceReopen
                                              \/ source[c].stage = "BufferAllocated"))
                      /\ source' = [source EXCEPT ![c] = out.src]
                      /\ slot' = [slot EXCEPT ![c] =
                            IF out.ok THEN Running(@) ELSE AfterFailedRestart(@)]
-----------------------------------------------------------------------------
(* The poll thread: drainReturnedFrames().                                 *)

(* Where the poll thread goes once commands it wants to post, if any, have *)
(* been posted.                                                            *)
PostThen(cmds, next) ==
    /\ outbox' = cmds
    /\ pc' = IF cmds = {} THEN next ELSE "post"

(* drainReturnedFrames() follows drainCommands() and every publication.    *)
SwapReturns ==
    /\ pc = "swapReturns" \/ (pc = "commands" /\ batch = <<>>)
    /\ returned' = returnQueue
    /\ returnQueue' = <<>>
    /\ pc' = IF returnQueue = <<>> THEN resume ELSE "returns"
    /\ UNCHANGED <<managed, cmdQueue, wakeEvent, life, resume, batch, outbox,
                   ready, wakeSeen, frame, timed, failures, others, budgets>>

ReturnOfAnyGeneration(l) == InMap(l.cam) /\ l.gen # 0

(* The loop body, with m_camChangeMutex held until the last frame. Only a  *)
(* frame of the current lease generation is counted back.                  *)
ReturnCounts(l) == InMap(l.cam) /\ l.gen = slot[l.cam].leaseGeneration

ReturnRequeues(l) ==
    /\ ReturnCounts(l)
    /\ slot[l.cam].state = "Streaming" /\ IsStreaming(source[l.cam])

(* One iteration; cmds are the commands it adds to recoveryCommands.       *)
TakeReturn(cmds) ==
    /\ pc = "returns"
    /\ returned' = Tail(returned)
    /\ outbox' = outbox \cup cmds
    /\ pc' = IF Tail(returned) # <<>> THEN pc
             ELSE IF outbox \cup cmds = {} THEN resume ELSE "post"
    /\ UNCHANGED <<hub, mail, life, resume, batch, ready, wakeSeen, frame,
                   timed, failures, others, callsLeft>>

IgnoreReturn ==
    /\ TakeReturn({})
    /\ ~ReturnCounts(Head(returned))
    /\ UNCHANGED <<slot, source, faultsLeft>>

CountReturn ==
    /\ TakeReturn({})
    /\ LET l == Head(returned) IN
          /\ ReturnCounts(l) /\ ~ReturnRequeues(l)
          /\ slot' = [slot EXCEPT ![l.cam] = Returned(@)]
    /\ UNCHANGED <<source, faultsLeft>>

RequeueReturn ==
    /\ TakeReturn({})
    /\ LET l == Head(returned) IN
          /\ ReturnRequeues(l) /\ CanRequeue(source[l.cam], l.buf)
          /\ slot' = [slot EXCEPT ![l.cam] = Returned(@)]
          /\ source' = [source EXCEPT ![l.cam] = Requeued(@, l.buf)]
    /\ UNCHANGED faultsLeft

RequeueFails ==
    LET l == Head(returned) IN
    /\ TakeReturn({ErrorCommand(l.cam)})
    /\ ReturnRequeues(l)
    /\ PayFault(CanRequeue(source[l.cam], l.buf))
    /\ slot' = [slot EXCEPT ![l.cam] = Faulted(Returned(@), TRUE)]
    /\ UNCHANGED source

(* postCommand() by the poll thread itself, which nobody has to wake.      *)
PostFromOutbox ==
    /\ pc = "post"
    /\ \E cmd \in outbox :
          /\ cmdQueue' = Append(cmdQueue, cmd)
          /\ PostThen(outbox \ {cmd}, resume)
    /\ wakeEvent' = TRUE
    /\ UNCHANGED <<managed, returnQueue, life, resume, batch, returned, ready,
                   wakeSeen, frame, timed, failures, others, budgets>>
-----------------------------------------------------------------------------
(* The poll thread: the rest of pollOnce().                                *)

Deferred(c) ==
    /\ slot[c].state = "Stopped" /\ slot[c].startPending
    /\ slot[c].inFlightFrames = 0 /\ ~slot[c].startQueued

(* A recovery that waits only for its backoff.                             *)
AwaitsRestart(c) ==
    /\ slot[c].state = "Error" /\ slot[c].restartPending
    /\ ~slot[c].restartQueued /\ slot[c].inFlightFrames = 0

CheckRestarts ==
    /\ pc = "check"
    /\ LET starts   == {c \in Cameras : Deferred(c)}
           restarts == {c \in Cameras : AwaitsRestart(c) /\ ~slot[c].backingOff}
       IN  /\ slot' = [c \in Cameras |->
                 [slot[c] EXCEPT !.startQueued = @ \/ c \in starts,
                                 !.restartQueued = @ \/ c \in restarts]]
           /\ PostThen({Command("StartCamera", c, 0) : c \in starts} \cup
                       {Command("RestartCamera", c, slot[c].recoveryGeneration) :
                            c \in restarts},
                       "snapshot")
    /\ resume' = "snapshot"
    /\ UNCHANGED <<source, hub, mail, life, batch, returned, ready, wakeSeen,
                   frame, timed, failures, others, budgets>>

Pollable == {c \in Cameras : slot[c].state = "Streaming" /\ IsStreaming(source[c])}

Snapshot ==
    /\ pc = "snapshot"
    /\ ready' = Pollable
    /\ pc' = IF Pollable = {} THEN "cvFirst" ELSE "poll"
    /\ UNCHANGED <<managed, mail, life, resume, batch, returned, outbox,
                   wakeSeen, frame, timed, failures, others, budgets>>

NoRestartDeadline == {}

(* The restarts whose earliest nextRestartTime bounds the wait.            *)
RestartDeadlines == {c \in Cameras : AwaitsRestart(c)}

ShouldWake ==
    Pollable # {} \/ stopRequested \/ cmdQueue # <<>> \/ returnQueue # <<>>

(* m_camCv.wait() or wait_until(): the predicate is tested with the lock   *)
(* held, and the thread falls asleep in a later step.                      *)
TestWaitPredicate ==
    /\ pc \in {"cvFirst", "cvAgain"}
    /\ timed' = IF ShouldWake THEN {}
                ELSE IF pc = "cvAgain" THEN timed
                ELSE RestartDeadlines
    /\ pc' = IF ShouldWake THEN "loop" ELSE "cvEnter"
    /\ failures' = 0
    /\ UNCHANGED <<managed, mail, life, resume, batch, returned, outbox, ready,
                   wakeSeen, frame, others, budgets>>

FallAsleep ==
    /\ pc = "cvEnter"
    /\ pc' = "cvWait"
    /\ UNCHANGED <<managed, mail, life, locals, others, budgets>>

WaitTimesOut ==
    /\ pc = "cvWait"
    /\ \E c \in timed : ~slot[c].backingOff
    /\ pc' = "loop" /\ timed' = {}
    /\ UNCHANGED <<managed, mail, life, resume, batch, returned, outbox, ready,
                   wakeSeen, frame, failures, others, budgets>>

(* poll() returns, at the latest after its timeout.                        *)
PollReturns ==
    /\ pc = "poll"
    /\ wakeSeen' = wakeEvent
    /\ pc' = "round"
    /\ UNCHANGED <<managed, mail, life, resume, batch, returned, outbox, ready,
                   frame, timed, failures, others, budgets>>

PollFails ==
    /\ pc = "poll"
    /\ PayFault(TRUE)
    /\ failures' = failures + 1
    /\ ready' = {}
    /\ IF failures + 1 >= MaxFailures
       THEN pc' = "off" /\ running' = FALSE
       ELSE pc' = "loop" /\ UNCHANGED running
    /\ UNCHANGED <<managed, mail, stopRequested, joinable, resume, batch, returned,
                   outbox, wakeSeen, frame, timed, others, callsLeft>>

(* The descriptors of the round; the eventfd comes last.                   *)
NextFd(c) ==
    /\ pc = "round"
    /\ c \in ready
    /\ ready' = ready \ {c}

NothingReady(c) ==
    /\ NextFd(c)
    /\ UNCHANGED <<managed, mail, life, pc, resume, batch, returned, outbox,
                   wakeSeen, frame, timed, failures, others, budgets>>

(* reportCameraFault(): POLLERR, POLLHUP or POLLNVAL, or a failed DQBUF;   *)
(* hangUp says whether POLLHUP or POLLNVAL was among the events.           *)
CameraFault(c, hangUp) ==
    /\ NextFd(c)
    /\ PayFault(TRUE)
    /\ IF slot[c].state \in {"Deleting", "Error"} \/ ~InMap(c)
       THEN UNCHANGED <<slot, outbox, pc>>
       ELSE /\ slot' = [slot EXCEPT ![c] = Faulted(@, hangUp)]
            /\ PostThen({ErrorCommand(c)}, "round")
    /\ resume' = "round"
    /\ UNCHANGED <<source, hub, mail, life, batch, returned, wakeSeen, frame,
                   timed, failures, others, callsLeft>>

(* DQBUF, then the check under the lock that the camera still streams. The *)
(* lease of a frame that is not published is dropped at once.              *)
DequeueFrame(c, b) ==
    /\ NextFd(c)
    /\ b \in source[c].queued
    /\ source' = [source EXCEPT ![c] = Dequeue(@, b)]
    /\ IF slot[c].state = "Streaming"
       THEN /\ frame' = [cam |-> c, buf |-> b, gen |-> slot[c].leaseGeneration]
            /\ slot' = [slot EXCEPT ![c].inFlightFrames = @ + 1]
            /\ pc' = "publish"
            /\ UNCHANGED <<returnQueue, wakeEvent>>
       ELSE /\ returnQueue' = Append(returnQueue, [cam |-> c, buf |-> b, gen |-> 0])
            /\ wakeEvent' = TRUE
            /\ pc' = "swapReturns"
            /\ UNCHANGED <<slot, frame>>
    /\ resume' = "round"
    /\ UNCHANGED <<hub, cmdQueue, life, batch, returned, outbox, wakeSeen,
                   timed, failures, others, budgets>>

LoseFrame == UNCHANGED <<returnQueue, wakeEvent, leases>>

(* A frame nobody kept comes back through the poll thread itself.          *)
DropFrame ==
    /\ returnQueue' = Append(returnQueue, frame)
    /\ wakeEvent' = TRUE
    /\ UNCHANGED leases

(* A sink, or the DecodeWorker, keeps the lease.                           *)
KeepFrame ==
    /\ leases' = leases \cup {frame}
    /\ UNCHANGED <<returnQueue, wakeEvent>>

(* A closed FrameHub ignores the frame; an open one calls the sinks with   *)
(* m_publishMutex held.                                                    *)
BeginPublish ==
    /\ pc = "publish"
    /\ frame.cam \notin MjpegCameras
    /\ IF hub[frame.cam] = "Closed"
       THEN DropFrame /\ pc' = "swapReturns" /\ frame' = NoFrame
       ELSE pc' = "publishing" /\ UNCHANGED <<leases, returnQueue, wakeEvent, frame>>
    /\ UNCHANGED <<managed, cmdQueue, life, resume, batch, returned, outbox,
                   ready, wakeSeen, timed, failures, api, sinkPc, budgets>>

EndPublish ==
    /\ pc = "publishing"
    /\ DropFrame \/ KeepFrame
    /\ pc' = "swapReturns" /\ frame' = NoFrame
    /\ UNCHANGED <<managed, cmdQueue, life, resume, batch, returned, outbox,
                   ready, wakeSeen, timed, failures, api, sinkPc, budgets>>

(* An MJPEG frame goes to the DecodeWorker, one of the downstream threads. *)
PostToDecoder ==
    /\ pc = "publish"
    /\ frame.cam \in MjpegCameras
    /\ KeepFrame
    /\ pc' = "round" /\ frame' = NoFrame
    /\ UNCHANGED <<managed, cmdQueue, life, resume, batch, returned, outbox,
                   ready, wakeSeen, timed, failures, api, sinkPc, budgets>>

(* drainPollWakeEvent(), then the commands and the returned frames.        *)
HandleWakeEvent ==
    /\ pc = "round" /\ ready = {} /\ wakeSeen
    /\ wakeEvent' = FALSE /\ wakeSeen' = FALSE
    /\ pc' = "swapCommands" /\ resume' = "round"
    /\ UNCHANGED <<managed, cmdQueue, returnQueue, life, batch, returned,
                   outbox, ready, frame, timed, failures, others, budgets>>

RoundEnds ==
    /\ pc = "round" /\ ready = {} /\ ~wakeSeen
    /\ pc' = "loop" /\ failures' = 0
    /\ UNCHANGED <<managed, mail, life, resume, batch, returned, outbox, ready,
                   wakeSeen, frame, timed, others, budgets>>

(* Time passes nextRestartTime.                                            *)
BackoffElapses(c) ==
    /\ slot[c].backingOff
    /\ slot' = [slot EXCEPT ![c].backingOff = FALSE]
    /\ UNCHANGED <<source, hub, mail, life, pc, locals, others, budgets>>
-----------------------------------------------------------------------------
ApiCall(p) ==
    \/ \E c \in Cameras : AddCamera(p, c) \/ DelCamera(p, c)
    \/ \E call \in {"start", "stop"}, C \in SUBSET Cameras :
           /\ Cardinality(C) = 1 \/ C = {c \in Cameras : Controllable(c)}
           /\ RequestControl(p, call, C)
    \/ \E c \in Cameras, call \in {"recover", "reopen"} :
           RequestCameraRecovery(p, c, call)
    \/ StartPolling(p) \/ RequestStop(p) \/ ShutdownPolling(p)

ApiContinues(p) ==
    \/ CloseHub(p) \/ FinishDelete(p) \/ EraseDeleted(p)
    \/ PushCommand(p) \/ NotifyPollThread(p)
    \/ LaunchPollThread(p) \/ JoinPollThread(p)

ExecuteCommand ==
    \/ ExecuteDelete \/ ExecuteStartDeferred \/ ExecuteStartAdopt
    \/ ExecuteStart \/ ExecuteStop \/ ExecuteProcessError \/ ExecuteRestart
    \/ \E t \in CommandTypes : ExecuteForGoneCamera(t) \/ ExecuteStale(t)

DrainReturnedFrames ==
    SwapReturns \/ IgnoreReturn \/ CountReturn \/ RequeueReturn \/ RequeueFails

PollRound ==
    \/ \E c \in Cameras :
           \/ NothingReady(c)
           \/ \E hangUp \in BOOLEAN : CameraFault(c, hangUp)
           \/ \E b \in Buffers : DequeueFrame(c, b)
    \/ BeginPublish \/ EndPublish \/ PostToDecoder
    \/ HandleWakeEvent \/ RoundEnds

PollThread ==
    \/ RunLoop \/ SwapCommands \/ ExecuteCommand
    \/ DrainReturnedFrames \/ PostFromOutbox \/ CheckRestarts
    \/ Snapshot \/ TestWaitPredicate \/ FallAsleep \/ WaitTimesOut
    \/ PollReturns \/ PollFails \/ PollRound

Downstream(s) == NotifyReturn(s) \/ \E l \in leases : ReleaseLease(s, l)

Next ==
    \/ \E p \in Clients : ApiCall(p) \/ ApiContinues(p)
    \/ PollThread
    \/ \E s \in Sinks : Downstream(s)
    \/ \E c \in Cameras : BackoffElapses(c)

Spec == Init /\ [][Next]_vars

(* Every thread of the program keeps running, downstream threads return    *)
(* their leases, and time passes. Clients need not call anything.          *)
Fairness ==
    /\ WF_vars(PollThread)
    /\ \A p \in Clients : WF_vars(ApiContinues(p))
    /\ \A s \in Sinks : WF_vars(Downstream(s))
    /\ \A c \in Cameras : WF_vars(BackoffElapses(c))

FairSpec == Spec /\ Fairness
-----------------------------------------------------------------------------
(* The type of the state.                                                  *)
TypeOK ==
    /\ slot \in [Cameras -> Slots]
    /\ source \in [Cameras -> Sources]
    /\ hub \in [Cameras -> {"Open", "Closed"}]
    /\ cmdQueue \in Seq(Commands) /\ batch \in Seq(Commands)
    /\ returnQueue \in Seq(Leases) /\ returned \in Seq(Leases)
    /\ outbox \in SUBSET Commands
    /\ wakeEvent \in BOOLEAN /\ wakeSeen \in BOOLEAN
    /\ running \in BOOLEAN /\ stopRequested \in BOOLEAN
    /\ joinable \in BOOLEAN
    /\ pc \in PollPcs /\ resume \in {"check", "snapshot", "round"}
    /\ ready \in SUBSET Cameras /\ timed \in SUBSET Cameras
    /\ frame \in Leases \cup {NoFrame}
    /\ failures \in Nat
    /\ leases \in SUBSET Leases
    /\ api \in [Clients -> ApiStates]
    /\ sinkPc \in [Sinks -> {"idle", "notify"}]
    /\ callsLeft \in [Calls -> Nat] /\ faultsLeft \in Nat

SeqElems(q) == {q[i] : i \in 1 .. Len(q)}

(* Commands that have been decided on and not yet been executed.           *)
Underway ==
    SeqElems(batch) \cup SeqElems(cmdQueue) \cup outbox
        \cup UNION {api[p].todo : p \in Clients}

(* A camera in state Error is always on its way out of it: the              *)
(* ProcessError of its round is underway, or its restart is pending and, if *)
(* marked as queued, really underway. Likewise a start put off until the    *)
(* old leases return. Were it otherwise the camera would wait for good: the *)
(* periodic check skips a camera whose command is marked as queued.         *)
NoCameraStuck ==
    \A c \in Cameras :
        LET g == slot[c].recoveryGeneration IN
        /\ slot[c].state = "Error" =>
              IF slot[c].restartPending
              THEN slot[c].restartQueued =>
                       Command("RestartCamera", c, g) \in Underway
              ELSE Command("ProcessError", c, g) \in Underway
        /\ slot[c].state = "Stopped" /\ slot[c].startPending /\ slot[c].startQueued
              => Command("StartCamera", c, 0) \in Underway

(* One fault is processed once: after ProcessError has run for a recovery   *)
(* round no second one of that round is underway. A second one would stop   *)
(* the restarted stream or lengthen the backoff.                            *)
OneErrorPerRound ==
    \A c \in Cameras :
        slot[c].state = "Error" /\ slot[c].restartPending =>
            Command("ProcessError", c, slot[c].recoveryGeneration) \notin Underway

(* Every round of recovery is on its way to its end and is processed once: *)
(* no command is lost and none is issued twice, whichever of the poll      *)
(* thread, the clients and the periodic check posts it.                    *)
RoundsAccounted == NoCameraStuck /\ OneErrorPerRound

(* Frames of c that are out: with a sink, or with the poll thread.          *)
Outstanding(c) == {l \in leases \cup {frame} : l.cam = c}

ReturnsUnderway(c, g) ==
    Cardinality({i \in DOMAIN returned : returned[i].cam = c /\ returned[i].gen = g})
    + Cardinality({i \in DOMAIN returnQueue :
                      returnQueue[i].cam = c /\ returnQueue[i].gen = g})

(* inFlightFrames never undercounts: it covers every live lease of the      *)
(* camera, of whatever generation, and every return still to be counted.    *)
(* Only so does "inFlightFrames == 0" mean that no sink reads a buffer.     *)
InFlightCoversLeases ==
    \A c \in Cameras : InMap(c) =>
        slot[c].inFlightFrames >= Cardinality(Outstanding(c))
                                  + ReturnsUnderway(c, slot[c].leaseGeneration)

(* While a device streams, a buffer has one owner: the driver, one lease of *)
(* the current generation, or one return on its way to QBUF. A second owner *)
(* means a double QBUF or DMA into a frame being read.                      *)
OneOwnerPerBuffer ==
    \A c \in Cameras : InMap(c) /\ IsStreaming(source[c]) =>
        LET g == slot[c].leaseGeneration
            way == returned \o returnQueue
            Mine(l) == l.cam = c /\ l.gen = g
            out == {l.buf : l \in {k \in Outstanding(c) : Mine(k)}}
            back == {i \in DOMAIN way : Mine(way[i])}
        IN  /\ out \cap source[c].queued = {}
            /\ \A i \in back : way[i].buf \notin source[c].queued \cup out
            /\ \A i, j \in back : way[i].buf = way[j].buf => i = j

(* No buffer of a camera is used twice and none that is out is forgotten.   *)
BuffersAccounted == InFlightCoversLeases /\ OneOwnerPerBuffer

(* Buffers of a camera that nobody will hand back to the driver.            *)
Stranded(c) ==
    LET g == slot[c].leaseGeneration
        way == returned \o returnQueue
    IN  Buffers \ (source[c].queued
                     \cup {l.buf : l \in {k \in Outstanding(c) : k.gen = g}}
                     \cup {way[i].buf : i \in {j \in DOMAIN way :
                                                way[j].cam = c /\ way[j].gen = g}})

(* A streaming camera loses no buffer: each one it dequeues comes back to   *)
(* the driver. Losing all of them would stop the camera without an error.   *)
StreamingStrandsNoBuffer ==
    [][\A c \in Cameras :
          slot[c].state = "Streaming" /\ slot'[c].state = "Streaming"
              => Stranded(c)' \subseteq Stranded(c)]_vars

(* A restart by the recovery, and a start from Stopped, reuse or free the   *)
(* buffers of a camera only once no sink holds one of them.                 *)
RestartWaitsForLeases ==
    [][\A c \in Cameras :
          /\ source'[c] # source[c] /\ batch # <<>> /\ batch' # batch
          /\ source'[c].stage # "BufferAllocated" \/ source'[c].queued # {}
          /\ \/ Head(batch).type = "RestartCamera"
             \/ Head(batch).type = "StartCamera" /\ slot[c].state = "Stopped"
          => Outstanding(c) = {}]_vars

(* As the log of the recovery feature puts it: a restart never reuses a     *)
(* buffer that a sink still reads. No live lease's buffer is the driver's.  *)
NoHeldBufferQueued ==
    \A l \in leases : InMap(l.cam) => l.buf \notin source[l.cam].queued

(* delCamera() has closed the hub before the camera leaves the map, and a   *)
(* closed hub hands no frame to a sink.                                     *)
NoFrameAfterDelete ==
    /\ \A c \in Cameras : slot[c].state = "Erased" => hub[c] = "Closed"
    /\ pc = "publishing" => hub[frame.cam] = "Open"

(* Nothing revives a camera that delCamera() has marked: neither a fault    *)
(* reported meanwhile, nor a command or a returned frame still underway.    *)
DeletionIsFinal ==
    [][\A c \in Cameras :
          /\ slot[c].state = "Deleting" => slot'[c].state \in {"Deleting", "Erased"}
          /\ slot[c].state = "Erased" => slot'[c].state = "Erased"]_vars

(* m_running is false only when no poll thread is at work.                  *)
ThreadOnlyWhileRunning == running \/ pc = "off"

(* The camera that a client is about to erase is in no snapshot and no      *)
(* publication of the poll thread.                                          *)
ErasedIsInNoHand ==
    \A p \in Clients : api[p].pc = "erase" =>
        \A c \in api[p].cam : c \notin ready /\ frame.cam # c

(* delCamera() destroys a slot, and the DecodeWorker the poll thread has    *)
(* pointers to, by itself if it has found m_running false. No thread works  *)
(* on them then, and one that is launched between the test and the erasure  *)
(* does not get hold of them.                                               *)
NotRunningMeansNoThread == ThreadOnlyWhileRunning /\ ErasedIsInNoHand

(* A recovery that has processed its error and whose leases are back ends,  *)
(* as long as the poll thread is not asked to stop.                         *)
RecoveryCompletes ==
    \A c \in Cameras :
        (slot[c].state = "Error" /\ AwaitsRestart(c) /\ running)
            ~> (slot[c].state # "Error" \/ ~running \/ stopRequested)

(* What postCommand() promises: the poll thread, woken, drains the queue.   *)
PostedCommandsAreTaken ==
    (cmdQueue # <<>> /\ running) ~> (cmdQueue = <<>> \/ ~running \/ stopRequested)
=============================================================================
