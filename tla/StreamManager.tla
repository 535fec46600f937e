--------------------------- MODULE StreamManager ---------------------------
(***************************************************************************)
(* StreamManager (src/core/stream/StreamManager.cpp) with one RtspStream,  *)
(* its live555 client and the output side of its decode worker.            *)
(*                                                                         *)
(* Four threads: a client of the manager that makes one call at a time, the*)
(* live555 event thread, the decode worker, and the publisher. A call that *)
(* starts, stops or deletes the stream has m_streamChangeMutex from its    *)
(* second step to its last and joins the threads of the stream under it.   *)
(* The other mutexes are held within single steps.                         *)
(***************************************************************************)
EXTENDS DmaBufferPool, Sequences

CONSTANTS ReadyCapacity,   \* m_readyQueueCapacity
          MaxCalls,        \* calls to the manager, a bound
          MaxFaults        \* failing connections, stalls and changes of the
                           \* picture size, a bound

ASSUME StreamManagerAssumption ==
    /\ ReadyCapacity \in Nat \ {0}
    /\ MaxCalls \in Nat /\ MaxFaults \in Nat

VARIABLES
    state,       \* of the slot, "Erased" once it has gone
    gen,         \* runGeneration of the slot, and of the stream
    reports,     \* m_pendingStreamRuntimeStates
    pending,     \* m_hasPendingFrames
    stopping,    \* m_stopRequested
    hub,         \* the FrameHub of the stream
    call,        \* what the client is at
    at,          \* and where in it
    callsLeft,   \* what is left of MaxCalls
    faultsLeft,  \* what is left of MaxFaults
    started,     \* RtspStream::m_started
    event,       \* where the event thread is
    endedByStop, \* stopRequestedByCaller
    worker,      \* where the decode worker is
    workerStop,  \* its m_stopRequested
    stalled,     \* its m_recoveryTimeoutReported
    run,         \* which decode worker of the stream it is
    fed,         \* the event thread has come to give it packets
    output,      \* the output slot it writes, or 0
    pool,        \* m_activePool; earlier pools live on in their leases
    ready,       \* m_readyQueue
    publisher,   \* where the publisher is
    batch,       \* the reports it applies
    held,        \* the frame it publishes
    leases       \* the output slots of the pool that sinks have

manager == <<state, gen>>
mailbox == <<reports, pending, stopping>>
control == <<call, at, callsLeft>>
rtsp    == <<started, event, endedByStop>>
decoder == <<worker, workerStop, stalled, run, fed, output>>
frames  == <<pool, ready, leases>>
publish == <<publisher, batch, held>>
vars == <<manager, mailbox, hub, control, faultsLeft, rtsp, decoder, frames,
          publish>>

Calls == {"start", "startAll", "stop", "stopAll", "delete", "shutdown"}

Frames == [run : 1 .. MaxCalls, slot : Outputs]
NoFrame == [run |-> 0, slot |-> 0]

Reports == [gen : 0 .. MaxCalls,
            state : {"Connecting", "Streaming", "Stopped", "Error"}]

Init ==
    /\ state = "Ready" /\ gen = 0
    /\ reports = <<>> /\ pending = FALSE /\ stopping = FALSE
    /\ hub = "open"
    /\ call = "none" /\ at = "idle"
    /\ callsLeft = MaxCalls /\ faultsLeft = MaxFaults
    /\ started = FALSE /\ event = "none" /\ endedByStop = FALSE
    /\ worker = "none" /\ workerStop = FALSE /\ stalled = FALSE
    /\ run = 0 /\ fed = FALSE /\ output = 0
    /\ pool = NewPool /\ ready = <<>> /\ leases = {}
    /\ publisher = "none" /\ batch = <<>> /\ held = NoFrame
-----------------------------------------------------------------------------
(* m_streamChangeMutex is neither with the client nor with the publisher.  *)
MutexFree ==
    at \in {"idle", "lock", "joinPublisher"} /\ publisher # "applying"

(* The runtime state callback is unset while the stream is deleted.        *)
Connected == state \notin {"Deleting", "Erased"}

(* notify_one() on the condition variable of the publisher                 *)
Wake == publisher' = IF publisher = "asleep" THEN "test" ELSE publisher

ReportUnderMutex(s) ==
    /\ MutexFree
    /\ reports' = Append(reports, [gen |-> gen, state |-> s])
    /\ pending' = TRUE
    /\ Wake

ReportQuietly(s) ==
    /\ reports' = Append(reports, [gen |-> gen, state |-> s])
    /\ pending' = TRUE
    /\ UNCHANGED publisher

(* notifyStreamRuntimeState() with the generation the stream has now       *)
Report(s) ==
    IF Connected /\ ~stopping
    THEN /\ reports' = Append(reports, [gen |-> gen, state |-> s])
         /\ pending' = TRUE
         /\ IF pending THEN UNCHANGED publisher ELSE Wake
    ELSE UNCHANGED <<reports, pending, publisher>>

SlotsOf(fs) == {fs[i].slot : i \in DOMAIN fs}

ForgetReady == ready' = <<>> /\ UNCHANGED pool

(* clearReadyFrames(): the leases of the frames go with them.              *)
ClearReady ==
    /\ ready' = <<>>
    /\ pool' = IF ready = <<>> THEN pool
               ELSE PoolOf(pool.inUse \ SlotsOf(ready))

Spend(left) == left > 0 /\ left' = left - 1
-----------------------------------------------------------------------------
(* The client.                                                             *)

(* startStream() and startAllStreams() run startPublishing() first.        *)
CallStart(c) ==
    /\ at = "idle" /\ c \in {"start", "startAll"} /\ Spend(callsLeft)
    /\ call' = c /\ at' = "lock"
    /\ IF publisher = "none"
       THEN stopping' = FALSE /\ pending' = FALSE /\ publisher' = "test"
       ELSE UNCHANGED <<stopping, pending, publisher>>
    /\ UNCHANGED <<manager, reports, hub, faultsLeft, rtsp, decoder, frames,
                   batch, held>>

CallStop(c) ==
    /\ at = "idle" /\ c \in {"stop", "stopAll", "delete"} /\ Spend(callsLeft)
    /\ call' = c /\ at' = "lock"
    /\ UNCHANGED <<manager, mailbox, hub, faultsLeft, rtsp, decoder, frames,
                   publish>>

Return == call' = "none" /\ at' = "idle"

(* The stream is not there, or streams already; startAllStreams() passes   *)
(* over one that is starting, too.                                         *)
Refused ==
    /\ at = "lock" /\ MutexFree
    /\ \/ state = "Erased"
       \/ call \in {"start", "startAll"} /\ state = "Streaming"
       \/ call = "startAll" /\ state = "Starting"
    /\ Return
    /\ UNCHANGED <<manager, mailbox, hub, callsLeft, faultsLeft, rtsp,
                   decoder, frames, publish>>

(* A new run, as far as RtspStream::start(), which returns at once if the  *)
(* stream is started, and goes on to release an old worker.                *)
BeginRun ==
    /\ state' = "Starting" /\ gen' = gen + 1
    /\ ClearReady
    /\ IF started THEN Return ELSE call' = "start" /\ at' = "stopWorker"
    /\ UNCHANGED <<mailbox, hub, callsLeft, faultsLeft, rtsp, decoder, leases,
                   publish>>

LockStart ==
    /\ at = "lock" /\ MutexFree /\ call = "start"
    /\ state \notin {"Streaming", "Erased"}
    /\ BeginRun

StartAll ==
    /\ at = "lock" /\ MutexFree /\ call = "startAll"
    /\ state \notin {"Streaming", "Starting", "Erased"}
    /\ BeginRun

(* stopAllStreams() does for each stream what stopStream() does.           *)
StopAll ==
    /\ at = "lock" /\ MutexFree /\ call = "stopAll" /\ state # "Erased"
    /\ state' = "Stopping" /\ gen' = gen + 1
    /\ call' = "stop" /\ at' = "signal"
    /\ UNCHANGED <<mailbox, hub, callsLeft, faultsLeft, rtsp, decoder, frames,
                   publish>>

(* stopStream() and delStream() as far as RtspStream::stop()               *)
LockStop ==
    /\ at = "lock" /\ MutexFree /\ call \in {"stop", "delete"}
    /\ state # "Erased"
    /\ IF call = "stop"
       THEN state' = "Stopping" /\ gen' = gen + 1
       ELSE state' = "Deleting" /\ UNCHANGED gen
    /\ at' = "signal"
    /\ UNCHANGED <<mailbox, hub, call, callsLeft, faultsLeft, rtsp, decoder,
                   frames, publish>>

(* stopDecodeWorker()                                                      *)
StopWorker ==
    /\ at = "stopWorker"
    /\ workerStop' = (worker # "none")
    /\ at' = "joinWorker"
    /\ UNCHANGED <<manager, mailbox, hub, call, callsLeft, faultsLeft, rtsp,
                   worker, stalled, run, fed, output, frames, publish>>

(* A start then has a new worker, and the stream counts as started.        *)
JoinWorker ==
    /\ at = "joinWorker" /\ worker \in {"none", "exited"}
    /\ workerStop' = FALSE /\ stalled' = FALSE /\ fed' = FALSE
    /\ IF call = "start"
       THEN worker' = "running" /\ run' = run + 1 /\ started' = TRUE
       ELSE worker' = "none" /\ started' = FALSE /\ UNCHANGED run
    /\ at' = IF call = "start" THEN "signal" ELSE "finish"
    /\ UNCHANGED <<manager, mailbox, hub, call, callsLeft, faultsLeft, event,
                   endedByStop, output, frames, publish>>

(* Live555RtspClient::stop(), with which its start() begins.               *)
SignalEvent ==
    /\ at = "signal"
    /\ endedByStop' = TRUE
    /\ at' = "joinEvent"
    /\ UNCHANGED <<manager, mailbox, hub, call, callsLeft, faultsLeft,
                   started, event, decoder, frames, publish>>

(* A start then tells of the new connection and launches its thread.       *)
JoinEvent ==
    /\ at = "joinEvent" /\ event \in {"none", "ended"}
    /\ IF call = "start"
       THEN /\ endedByStop' = FALSE
            /\ event' = "connecting"
            /\ Report("Connecting")
            /\ Return
       ELSE /\ event' = "none" /\ at' = "stopWorker"
            /\ UNCHANGED <<endedByStop, reports, pending, publisher, call>>
    /\ UNCHANGED <<manager, stopping, hub, callsLeft, faultsLeft, started,
                   decoder, frames, batch, held>>

FinishStopKeepingFrames ==
    /\ at = "finish" /\ call = "stop"
    /\ Report("Stopped")
    /\ state' = "Stopped"
    /\ Return
    /\ UNCHANGED <<gen, stopping, hub, callsLeft, faultsLeft, rtsp, decoder,
                   frames, batch, held>>

(* The end of stopStream(): RtspStream::stop() reports too.                *)
FinishStop ==
    /\ at = "finish" /\ call = "stop"
    /\ Report("Stopped")
    /\ ClearReady
    /\ state' = "Stopped"
    /\ Return
    /\ UNCHANGED <<gen, stopping, hub, callsLeft, faultsLeft, rtsp, decoder,
                   leases, batch, held>>

(* The end of delStream(): the hub closes when no frame is published.      *)
FinishDelete ==
    /\ at = "finish" /\ call = "delete"
    /\ ClearReady
    /\ at' = "closeHub"
    /\ UNCHANGED <<manager, mailbox, hub, call, callsLeft, faultsLeft, rtsp,
                   decoder, leases, publish>>

CloseHub ==
    /\ at = "closeHub" /\ publisher # "calling"
    /\ hub' = "closed" /\ state' = "Erased"
    /\ Return
    /\ UNCHANGED <<gen, mailbox, callsLeft, faultsLeft, rtsp, decoder, frames,
                   publish>>

(* shutdownPublishing()                                                    *)
CallShutdown ==
    /\ at = "idle" /\ publisher # "none" /\ Spend(callsLeft)
    /\ stopping' = TRUE /\ Wake
    /\ call' = "shutdown" /\ at' = "joinPublisher"
    /\ UNCHANGED <<manager, reports, pending, hub, faultsLeft, rtsp, decoder,
                   frames, batch, held>>

JoinPublisher ==
    /\ at = "joinPublisher" /\ publisher = "exited"
    /\ publisher' = "none" /\ stopping' = FALSE /\ pending' = FALSE
    /\ Return
    /\ UNCHANGED <<manager, reports, hub, callsLeft, faultsLeft, rtsp,
                   decoder, frames, batch, held>>
-----------------------------------------------------------------------------
(* The event thread.                                                       *)

(* PLAY is answered. A callback may begin after stop() asked the loop to   *)
(* end, which looks at that between two callbacks only.                    *)
Plays ==
    /\ event = "connecting"
    /\ event' = "playing" /\ fed' = TRUE
    /\ Report("Streaming")
    /\ UNCHANGED <<manager, stopping, hub, control, faultsLeft, started,
                   endedByStop, worker, workerStop, stalled, run, output,
                   frames, batch, held>>

(* The connection fails: onRtspClientState(Error) clears m_started and the *)
(* packets of the worker ...                                               *)
Fails ==
    /\ event \in {"connecting", "playing"}
    /\ Spend(faultsLeft)
    /\ started' = FALSE /\ event' = "failing"
    /\ stalled' = FALSE
    /\ UNCHANGED <<manager, mailbox, hub, control, endedByStop, worker,
                   workerStop, run, fed, output, frames, publish>>

(* ... and reports it. The loop ends.                                      *)
ReportFailure ==
    /\ event = "failing"
    /\ event' = "leaving"
    /\ Report("Error")
    /\ UNCHANGED <<manager, stopping, hub, control, faultsLeft, started,
                   endedByStop, decoder, frames, batch, held>>

LeaveLoop ==
    /\ event \in {"connecting", "playing"} /\ endedByStop
    /\ event' = "leaving"
    /\ UNCHANGED <<manager, mailbox, hub, control, faultsLeft, started,
                   endedByStop, decoder, frames, publish>>

(* The end of eventThreadMain(): an end that stop() asked for is reported, *)
(* a failure has been.                                                     *)
EndEvent ==
    /\ event = "leaving"
    /\ event' = "ended"
    /\ IF endedByStop
       THEN started' = FALSE /\ Report("Stopped")
       ELSE UNCHANGED <<started, reports, pending, publisher>>
    /\ UNCHANGED <<manager, stopping, hub, control, faultsLeft, endedByStop,
                   decoder, frames, batch, held>>
-----------------------------------------------------------------------------
(* The decode worker. Pictures come out of it once it has packets, also    *)
(* after the event thread that gave them has ended.                        *)

(* The recovery gate has been closed too long; it is opened again.         *)
Stalls ==
    /\ worker = "running" /\ ~workerStop /\ ~stalled /\ Spend(faultsLeft)
    /\ stalled' = TRUE
    /\ Report("Error")
    /\ UNCHANGED <<manager, stopping, hub, control, rtsp, worker, workerStop,
                   run, fed, output, frames, batch, held>>

Recovers ==
    /\ stalled /\ event = "playing"
    /\ stalled' = FALSE
    /\ Report("Streaming")
    /\ UNCHANGED <<manager, stopping, hub, control, faultsLeft, rtsp, worker,
                   workerStop, run, fed, output, frames, batch, held>>

Decoding == worker = "running" /\ ~workerStop /\ ~stalled /\ fed

(* ensureOutputPool(): a picture of another layout has a new pool made. The*)
(* frames that wait go; those with the publisher and with sinks keep the   *)
(* old pool, in which their slots are none of the new one.                 *)
ReplacePool ==
    /\ Decoding /\ Spend(faultsLeft)
    /\ pool' = NewPool /\ ready' = <<>> /\ leases' = {}
    /\ held' = [held EXCEPT !.slot = 0]
    /\ UNCHANGED <<manager, mailbox, hub, control, rtsp, decoder, publisher,
                   batch>>

(* makeStableFramePacket() of a decoded picture: in a free slot, ...       *)
AcquireOutput(o) ==
    /\ Decoding /\ IsFirstFree(pool, o)
    /\ pool' = Acquired(pool, o)
    /\ output' = o /\ worker' = "copying"
    /\ UNCHANGED <<manager, mailbox, hub, control, faultsLeft, rtsp,
                   workerStop, stalled, run, fed, ready, leases, publish>>

(* ... or in that of the oldest frame that waits; ...                      *)
StealOldest ==
    /\ Decoding /\ ~CanAcquire(pool) /\ ready # <<>>
    /\ LET o == Head(ready).slot
       IN pool' = Acquired(Released(AcquireFailed(pool), o), o) /\ output' = o
    /\ ready' = Tail(ready)
    /\ worker' = "copying"
    /\ UNCHANGED <<manager, mailbox, hub, control, faultsLeft, rtsp,
                   workerStop, stalled, run, fed, leases, publish>>

(* ... if sinks have all slots the picture is dropped.                     *)
DropPicture ==
    /\ Decoding /\ ~CanAcquire(pool) /\ ready = <<>>
    /\ pool' = AcquireFailed(pool)
    /\ UNCHANGED <<manager, mailbox, hub, control, faultsLeft, rtsp, decoder,
                   ready, leases, publish>>

NewFrame == [run |-> run, slot |-> output]

(* enqueueDecodedFrame(): the queue keeps the newest frames.               *)
EnqueueFrame ==
    /\ worker = "copying"
    /\ IF Len(ready) >= ReadyCapacity
       THEN /\ ready' = Append(Tail(ready), NewFrame)
            /\ pool' = Released(pool, Head(ready).slot)
       ELSE ready' = Append(ready, NewFrame) /\ UNCHANGED pool
    /\ output' = 0 /\ worker' = "notify"
    /\ UNCHANGED <<manager, mailbox, hub, control, faultsLeft, rtsp,
                   workerStop, stalled, run, fed, leases, publish>>

(* RGA cannot copy the picture.                                            *)
CopyFails ==
    /\ worker = "copying"
    /\ pool' = Released(pool, output)
    /\ output' = 0 /\ worker' = "running"
    /\ UNCHANGED <<manager, mailbox, hub, control, faultsLeft, rtsp,
                   workerStop, stalled, run, fed, ready, leases, publish>>

(* notifyFrameReady()                                                      *)
NotifyFrame ==
    /\ worker = "notify"
    /\ worker' = "running"
    /\ IF Connected /\ ~stopping
       THEN pending' = TRUE /\ IF pending THEN UNCHANGED publisher ELSE Wake
       ELSE UNCHANGED <<pending, publisher>>
    /\ UNCHANGED <<manager, reports, stopping, hub, control, faultsLeft, rtsp,
                   workerStop, stalled, run, fed, output, frames, batch, held>>

WorkerExits ==
    /\ worker = "running" /\ workerStop
    /\ worker' = "exited"
    /\ UNCHANGED <<manager, mailbox, hub, control, faultsLeft, rtsp,
                   workerStop, stalled, run, fed, output, frames, publish>>
-----------------------------------------------------------------------------
(* The publisher: runPublishLoop().                                        *)

TestPending ==
    /\ publisher = "test"
    /\ publisher' = CASE stopping -> "exited"
                      [] ~stopping /\ pending -> "swap"
                      [] OTHER -> "asleep"
    /\ pending' = (pending /\ stopping)
    /\ UNCHANGED <<manager, reports, stopping, hub, control, faultsLeft, rtsp,
                   decoder, frames, batch, held>>

SwapReports ==
    /\ publisher = "swap"
    /\ batch' = reports /\ reports' = <<>>
    /\ publisher' = IF reports = <<>> THEN "snapshot" ELSE "apply"
    /\ UNCHANGED <<manager, pending, stopping, hub, control, faultsLeft, rtsp,
                   decoder, frames, held>>

(* What a report makes of the state of the slot                            *)
Counts(r) == r.gen = gen /\ Connected

After(s, r) ==
    CASE ~Counts(r) -> s
      [] Counts(r) /\ r.state = "Connecting" ->
            IF s \in {"Stopping", "Stopped"} THEN s ELSE "Starting"
      [] Counts(r) /\ r.state = "Streaming" ->
            IF s \in {"Stopping", "Stopped"} THEN s ELSE "Streaming"
      [] OTHER -> r.state

(* applyPendingStreamRuntimeStates() applies a report in each round of its *)
(* loop and has the mutex from the first to the last.                      *)
ApplyReport ==
    /\ \/ publisher = "apply" /\ MutexFree
       \/ publisher = "applying"
    /\ state' = After(state, Head(batch))
    /\ IF Counts(Head(batch)) /\ Head(batch).state \in {"Stopped", "Error"}
       THEN ClearReady
       ELSE UNCHANGED <<pool, ready>>
    /\ batch' = Tail(batch)
    /\ publisher' = IF Tail(batch) = <<>> THEN "snapshot" ELSE "applying"
    /\ UNCHANGED <<gen, mailbox, hub, control, faultsLeft, rtsp, decoder,
                   leases, held>>

(* publishReadyFrames() looks which streams are streaming, ...             *)
Snapshot ==
    /\ publisher = "snapshot" /\ MutexFree
    /\ publisher' = IF state = "Streaming" THEN "drain" ELSE "test"
    /\ UNCHANGED <<manager, mailbox, hub, control, faultsLeft, rtsp, decoder,
                   frames, batch, held>>

(* ... and takes their frames until none is left.                          *)
TakeFrame ==
    /\ publisher = "drain" /\ ready # <<>>
    /\ held' = Head(ready) /\ ready' = Tail(ready)
    /\ publisher' = "publish"
    /\ UNCHANGED <<manager, mailbox, hub, control, faultsLeft, rtsp, decoder,
                   pool, leases, batch>>

NoFrameLeft ==
    /\ publisher = "drain" /\ ready = <<>>
    /\ publisher' = "test"
    /\ UNCHANGED <<manager, mailbox, hub, control, faultsLeft, rtsp, decoder,
                   frames, batch, held>>

PublishFrame ==
    /\ publisher = "publish"
    /\ IF hub = "open"
       THEN publisher' = "calling" /\ UNCHANGED <<pool, held>>
       ELSE /\ publisher' = "drain"
            /\ pool' = Released(pool, held.slot) /\ held' = NoFrame
    /\ UNCHANGED <<manager, mailbox, hub, control, faultsLeft, rtsp, decoder,
                   ready, leases, batch>>

(* A sink keeps the frame or none does.                                    *)
SinksReturn ==
    /\ publisher = "calling"
    /\ \/ leases' = leases \cup ({held.slot} \ {0}) /\ UNCHANGED pool
       \/ pool' = Released(pool, held.slot) /\ UNCHANGED leases
    /\ held' = NoFrame /\ publisher' = "drain"
    /\ UNCHANGED <<manager, mailbox, hub, control, faultsLeft, rtsp, decoder,
                   ready, batch>>

SinkReleases(o) ==
    /\ o \in leases
    /\ leases' = leases \ {o} /\ pool' = Released(pool, o)
    /\ UNCHANGED <<manager, mailbox, hub, control, faultsLeft, rtsp, decoder,
                   ready, publish>>
-----------------------------------------------------------------------------
Client ==
    \/ Refused \/ LockStart \/ StartAll \/ LockStop \/ StopAll
    \/ StopWorker \/ JoinWorker
    \/ SignalEvent \/ JoinEvent \/ FinishStop \/ FinishDelete \/ CloseHub
    \/ JoinPublisher

Event == ReportFailure \/ LeaveLoop \/ EndEvent

Worker == EnqueueFrame \/ CopyFails \/ NotifyFrame \/ WorkerExits

Publisher ==
    \/ TestPending \/ SwapReports \/ ApplyReport \/ Snapshot \/ TakeFrame
    \/ NoFrameLeft \/ PublishFrame \/ SinksReturn

Next ==
    \/ (\E c \in Calls : CallStart(c) \/ CallStop(c)) \/ CallShutdown
    \/ Client
    \/ Plays \/ Fails \/ Event
    \/ Stalls \/ Recovers
    \/ ReplacePool
    \/ (\E o \in Outputs : AcquireOutput(o)) \/ StealOldest \/ DropPicture
    \/ Worker \/ Publisher
    \/ \E o \in Outputs : SinkReleases(o)

Spec == Init /\ [][Next]_vars

(* Sinks take less time than the camera between two pictures: the          *)
(* publisher comes to the end of the ready queue again and again.          *)
SinksKeepUp == []<>(publisher \notin {"drain", "publish", "calling"})

(* The threads run. No server need answer, no picture arrive, no sink      *)
(* release what it keeps.                                                  *)
FairSpec ==
    /\ Spec
    /\ WF_vars(Client) /\ WF_vars(Event) /\ WF_vars(Worker)
    /\ WF_vars(Publisher)
    /\ SinksKeepUp
-----------------------------------------------------------------------------
TypeOK ==
    /\ state \in {"Ready", "Starting", "Streaming", "Stopping", "Stopped",
                  "Deleting", "Error", "Erased"}
    /\ gen \in 0 .. MaxCalls
    /\ reports \in Seq(Reports) /\ pending \in BOOLEAN /\ stopping \in BOOLEAN
    /\ hub \in {"open", "closed"}
    /\ call \in Calls \cup {"none"}
    /\ at \in {"idle", "lock", "stopWorker", "joinWorker", "signal",
               "joinEvent", "finish", "closeHub", "joinPublisher"}
    /\ callsLeft \in 0 .. MaxCalls /\ faultsLeft \in 0 .. MaxFaults
    /\ started \in BOOLEAN /\ endedByStop \in BOOLEAN
    /\ event \in {"none", "connecting", "playing", "failing", "leaving",
                  "ended"}
    /\ worker \in {"none", "running", "copying", "notify", "exited"}
    /\ workerStop \in BOOLEAN /\ stalled \in BOOLEAN /\ fed \in BOOLEAN
    /\ run \in 0 .. MaxCalls /\ output \in Outputs \cup {0}
    /\ pool \in Pools /\ leases \in SUBSET Outputs
    /\ ready \in Seq(Frames) /\ Len(ready) <= ReadyCapacity
    /\ publisher \in {"none", "asleep", "test", "swap", "apply", "applying",
                      "snapshot", "drain", "publish", "calling", "exited"}
    /\ batch \in Seq(Reports)
    /\ held \in [run : 0 .. MaxCalls, slot : Outputs \cup {0}]

(* Every output slot in use is in one place: with the worker, in the ready *)
(* queue, with the publisher or with a sink. Eviction, a cleared queue, a  *)
(* restart and a deletion free the slots they should and no others.        *)
SlotsAccounted ==
    /\ pool.inUse = leases \cup SlotsOf(ready)
                           \cup ({output, held.slot} \ {0})
    /\ leases \cap (SlotsOf(ready) \cup {output, held.slot}) = {}
    /\ SlotsOf(ready) \cap {output, held.slot} = {}
    /\ output = held.slot => output = 0
    /\ \A i, j \in DOMAIN ready : ready[i].slot = ready[j].slot => i = j

(* After delStream() the stream is silent: nothing of it runs and no sink   *)
(* is in a call or will be called, though the publisher may hold a frame.   *)
DeletedIsSilent ==
    state = "Erased" =>
        /\ event = "none" /\ worker = "none" /\ ready = <<>>
        /\ publisher # "calling"

(* When stopStream() or delStream() returns no thread of the stream is left *)
(* and no frame of the run waits to be published. (One that the publisher   *)
(* has popped is still published after stopStream(); delStream() waits.)    *)
StopIsComplete ==
    /\ [][at = "finish" /\ at' = "idle"
              => event' = "none" /\ worker' = "none" /\ ready' = <<>>]_vars
    /\ []DeletedIsSilent

(* Every call returns: a thread that is joined under m_streamChangeMutex    *)
(* does not wait for that mutex, and the publisher, which does, is joined   *)
(* without it.                                                              *)
CallsReturn == at # "idle" ~> at = "idle"

(* A report is applied although the flag that wakes the publisher is        *)
(* shared with the frames and cleared before they are looked at.            *)
ReportsAreApplied ==
    reports # <<>> /\ pending /\ publisher # "none"
        ~> reports = <<>> \/ stopping

(* What the comment at the generation check says: what an old connection    *)
(* reports does not override the state of a new one. A connection that     *)
(* plays does not count as stopped, for its frames would not be published.  *)
OldReportsDoNotStop ==
    event = "playing" /\ at = "idle" => state # "Stopped"
=============================================================================
