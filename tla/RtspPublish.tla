---------------------------- MODULE RtspPublish ----------------------------
(***************************************************************************)
(* One published video stream: Live555RtspServer with the clients of the   *)
(* stream, its AnnexBFrameQueue and AnnexBSource, and the RtspPublishSink  *)
(* that composes the OSD, encodes and pushes.                              *)
(*                                                                         *)
(* Four threads: the application, which starts and stops the server and at *)
(* the end destroys the sink; the live555 event thread; the worker of the  *)
(* sink; and whoever delivers the camera's frames. m_mutex of the sink and *)
(* clientStateMutex of the stream are held within single steps: the server *)
(* counts its clients under one and tells the sink under the other.        *)
(***************************************************************************)
EXTENDS Naturals, Sequences, SequencesExt, FiniteSets

CONSTANTS Clients,      \* RTSP client sessions
          Osd,          \* Config::enableOsd
          QueueLimit,   \* m_maxQueuedNalus
          MaxSessions,  \* how often a first client starts to play, a bound
          MaxStarts,    \* calls of Live555RtspServer::start, a bound
          MaxFailures   \* failures of OSD, DMA, MPP and live555, a bound

ASSUME PublishAssumption ==
    /\ Osd \in BOOLEAN /\ QueueLimit \in Nat \ {0}
    /\ MaxSessions \in Nat /\ MaxStarts \in Nat /\ MaxFailures \in Nat

VARIABLES
    app,           \* where the application is
    running,       \* m_running
    watch,         \* m_eventLoopWatchVariable
    scheduler,     \* m_scheduler and what it belongs to are there
    rtsp,          \* where the event thread is
    event,         \* what it has to tell the sink
    client,        \* what each client of the stream has asked for
    count,         \* activeClientCount
    queue,         \* frameQueue: the session each NALU was captured in
    source,        \* the AnnexBSource, registered with the queue or "none"
    trigger,       \* its frameArrivedTrigger is set
    session,       \* how often the count has left zero
    active,        \* m_activeRequested
    accepting,     \* m_acceptingFrames
    keyRequested,  \* m_keyFrameRequested
    stopping,      \* m_stopping of the sink
    pending,       \* m_pendingFrame: its session, or 0
    worker,        \* where the worker is
    packet,        \* the frame it works on: its session, or 0
    idr,           \* its requestKeyFrame
    output,        \* osdOutputMemory.valid()
    mpp,           \* what the encoder has of MPP
    startsLeft,    \* what is left of MaxStarts
    failuresLeft   \* what is left of MaxFailures

server  == <<running, watch, scheduler, rtsp, event>>
clients == <<client, count, session>>
track   == <<queue, source, trigger>>
control == <<active, accepting, keyRequested, stopping>>
encode  == <<worker, packet, idr, output, mpp>>
bounds  == <<startsLeft, failuresLeft>>
vars    == <<app, server, clients, track, control, pending, encode, bounds>>

(* What rk_mpp_encoder_prepare() takes, in its order.                      *)
Resources == <<"context", "config", "group", "frame", "packet">>

Init ==
    /\ app = "idle" /\ running = FALSE /\ watch = FALSE
    /\ scheduler = FALSE /\ rtsp = "none" /\ event = "none"
    /\ client = [c \in Clients |-> "none"] /\ count = 0 /\ session = 0
    /\ queue = <<>> /\ source = "none" /\ trigger = FALSE
    /\ active = FALSE /\ accepting = FALSE /\ keyRequested = FALSE
    /\ stopping = FALSE /\ pending = 0
    /\ worker = "waiting" /\ packet = 0 /\ idr = FALSE /\ output = FALSE
    /\ mpp = {}
    /\ startsLeft = MaxStarts /\ failuresLeft = MaxFailures

Fail == failuresLeft > 0 /\ failuresLeft' = failuresLeft - 1
-----------------------------------------------------------------------------
(* The application.                                                        *)

(* start(): a running server is left as it is; otherwise the counts and the*)
(* queue are reset and the event thread is started and waited for.         *)
Start ==
    /\ app = "idle" /\ startsLeft > 0 /\ ~running
    /\ startsLeft' = startsLeft - 1
    /\ app' = "starting" /\ running' = TRUE /\ watch' = FALSE
    /\ rtsp' = "setup"
    /\ count' = 0 /\ queue' = <<>>
    /\ UNCHANGED <<scheduler, event, client, session, source, trigger,
                   control, pending, encode, failuresLeft>>

(* start() returns: at once when every session is there, and with a failed *)
(* setup after the thread has been joined.                                 *)
Started ==
    /\ app = "starting"
    /\ rtsp \in {"loop", "none"}
    /\ app' = "idle"
    /\ UNCHANGED <<server, clients, track, control, pending, encode, bounds>>

(* stop(): the watch variable first, then the trigger that wakes the loop, *)
(* then the join.                                                          *)
Stop ==
    /\ app = "idle" /\ running /\ rtsp # "none"
    /\ app' = "joining" /\ watch' = TRUE
    /\ UNCHANGED <<running, scheduler, rtsp, event, clients, track, control,
                   pending, encode, bounds>>

Stopped ==
    /\ app = "joining" /\ rtsp = "none"
    /\ app' = "idle"
    /\ UNCHANGED <<server, clients, track, control, pending, encode, bounds>>

(* ~RtspPublishSink, once the server has been stopped.                     *)
Destroy ==
    /\ app = "idle" /\ ~running /\ rtsp = "none"
    /\ app' = "destroying"
    /\ active' = FALSE /\ accepting' = FALSE /\ pending' = 0
    /\ stopping' = TRUE
    /\ UNCHANGED <<server, clients, track, keyRequested, encode, bounds>>

Destroyed ==
    /\ app = "destroying" /\ worker = "ended"
    /\ app' = "gone"
    /\ UNCHANGED <<server, clients, track, control, pending, encode, bounds>>
-----------------------------------------------------------------------------
(* RtspPublishSink, as the event thread calls it.                          *)

(* An end of the request that leaves the frame to the worker.              *)
SetActiveOnly(on) ==
    IF stopping
    THEN UNCHANGED <<active, accepting, keyRequested, pending>>
    ELSE /\ active' = on
         /\ accepting' = (on /\ accepting)
         /\ keyRequested' = (on /\ keyRequested)
         /\ UNCHANGED pending

SetActive(on) ==
    IF stopping
    THEN UNCHANGED <<active, accepting, keyRequested, pending>>
    ELSE /\ active' = on
         /\ IF on
            THEN UNCHANGED <<accepting, keyRequested, pending>>
            ELSE accepting' = FALSE /\ keyRequested' = FALSE /\ pending' = 0

RequestKeyFrame ==
    /\ keyRequested' = (keyRequested \/ (~stopping /\ active))
    /\ UNCHANGED <<active, accepting, pending>>

OnClientPlaybackEvent ==
    /\ CASE event = "first"      -> SetActive(TRUE)
         [] event = "additional" -> RequestKeyFrame
         [] event = "last"       -> SetActive(FALSE)
         [] OTHER -> UNCHANGED <<active, accepting, keyRequested, pending>>
    /\ UNCHANGED stopping
-----------------------------------------------------------------------------
(* The event thread.                                                       *)

(* setupLive555(): scheduler, environment, server, sessions and URLs.      *)
Setup ==
    /\ rtsp = "setup"
    /\ scheduler' = TRUE
    /\ \/ rtsp' = "loop" /\ UNCHANGED failuresLeft
       \/ rtsp' = "closing" /\ Fail
    /\ UNCHANGED <<app, running, watch, event, clients, track, control,
                   pending, encode, startsLeft>>

InLoop == rtsp = "loop" /\ event = "none"

(* SETUP: the first client of the stream creates the source, which         *)
(* registers itself with the queue; later ones share it.                   *)
NewStreamSource == IF source = "none" THEN "ready" ELSE source

SetUpSession(c) ==
    /\ InLoop /\ client[c] = "none"
    /\ client' = [client EXCEPT ![c] = "ready"]
    /\ source' = NewStreamSource
    /\ trigger' = (source # "none" /\ trigger)
    /\ UNCHANGED <<app, server, count, session, queue, control, pending,
                   encode, bounds>>

(* PLAY: startStream() counts the client before live555 asks for data.     *)
StartStream(c) ==
    /\ InLoop /\ client[c] = "ready"
    /\ count = 0 => session < MaxSessions
    /\ client' = [client EXCEPT ![c] = "playing"]
    /\ count' = count + 1
    /\ session' = IF count = 0 THEN session + 1 ELSE session
    /\ event' = IF count = 0 THEN "first" ELSE "additional"
    /\ UNCHANGED <<app, running, watch, scheduler, rtsp, track, control,
                   pending, encode, bounds>>

(* TEARDOWN, a lost connection or the end of the server: deleteStream()    *)
(* uncounts a client that plays; the last one empties the queue.           *)
DeleteStream(c) ==
    /\ rtsp \in {"loop", "closing"} /\ event = "none" /\ client[c] # "none"
    /\ client' = [client EXCEPT ![c] = "none"]
    /\ IF client[c] = "playing" /\ count > 0
       THEN /\ count' = count - 1
            /\ queue' = IF count = 1 THEN <<>> ELSE queue
            /\ event' = IF count = 1 THEN "last" ELSE "left"
       ELSE event' = "left" /\ UNCHANGED <<count, queue>>
    /\ UNCHANGED <<app, running, watch, scheduler, rtsp, session, source,
                   trigger, control, pending, encode, bounds>>

(* What follows the count: the sink is told, then live555 starts the RTP   *)
(* sink of the first client, or closes the source after the last one.      *)
NotifySink ==
    /\ event # "none" /\ rtsp \in {"loop", "closing"}
    /\ OnClientPlaybackEvent
    /\ event' = "none"
    /\ source' = IF \A c \in Clients : client[c] = "none" THEN "none"
                 ELSE IF event = "first" /\ source = "ready" THEN "asking"
                 ELSE source
    /\ trigger' = (source' # "none" /\ trigger)
    /\ UNCHANGED <<app, running, watch, scheduler, rtsp, clients, queue,
                   encode, bounds>>

(* doGetNextFrame(), asked by the RTP sink: a NALU at once, or wait.       *)
DoGetNextFrame ==
    /\ InLoop /\ source = "asking"
    /\ IF queue = <<>> THEN source' = "awaiting" /\ UNCHANGED queue
       ELSE queue' = Tail(queue) /\ UNCHANGED source
    /\ UNCHANGED <<app, server, clients, trigger, control, pending, encode,
                   bounds>>

(* frameArrivedCallback(): deliverFrame() returns unless data is awaited.  *)
FrameArrived ==
    /\ InLoop /\ trigger
    /\ trigger' = FALSE
    /\ IF source = "awaiting" /\ queue # <<>>
       THEN queue' = Tail(queue) /\ source' = "asking"
       ELSE UNCHANGED <<queue, source>>
    /\ UNCHANGED <<app, server, clients, control, pending, encode, bounds>>

LeaveLoop ==
    /\ InLoop /\ watch
    /\ rtsp' = "closing"
    /\ UNCHANGED <<app, running, watch, scheduler, event, clients, track,
                   control, pending, encode, bounds>>

(* cleanupLive555(): Medium::close() of the server takes the sessions and  *)
(* the source with it, having called deleteStream() for some of them; the  *)
(* scheduler goes after it.                                                *)
CloseServer ==
    /\ rtsp = "closing" /\ event = "none"
    /\ client' = [c \in Clients |-> "none"]
    /\ source' = "none" /\ trigger' = FALSE
    /\ rtsp' = "closed"
    /\ UNCHANGED <<app, running, watch, scheduler, event, count, session,
                   queue, control, pending, encode, bounds>>

DeleteScheduler ==
    /\ rtsp = "closed" /\ scheduler
    /\ scheduler' = FALSE
    /\ UNCHANGED <<app, running, watch, rtsp, event, clients, track, control,
                   pending, encode, bounds>>

(* The count that is left is taken away under the lock, and the sink told  *)
(* after it.                                                               *)
ResetClients ==
    /\ rtsp = "closed" /\ ~scheduler
    /\ event' = IF count > 0 THEN "last" ELSE "none"
    /\ count' = 0 /\ queue' = <<>>
    /\ rtsp' = "ending"
    /\ UNCHANGED <<app, running, watch, scheduler, client, session, source,
                   trigger, control, pending, encode, bounds>>

EndThread ==
    /\ rtsp = "ending"
    /\ OnClientPlaybackEvent
    /\ event' = "none" /\ running' = FALSE /\ rtsp' = "none"
    /\ UNCHANGED <<app, watch, scheduler, clients, track, encode, bounds>>
-----------------------------------------------------------------------------
(* onFrame(): the newest frame replaces the one nobody has taken.          *)
OnFrame ==
    /\ accepting
    /\ pending' = session
    /\ UNCHANGED <<app, server, clients, track, control, encode, bounds>>
-----------------------------------------------------------------------------
(* The worker.                                                             *)

WorkerOnly == UNCHANGED <<app, server, clients, startsLeft, stopping>>

Wake ==
    /\ worker = "waiting" /\ (stopping \/ active)
    /\ worker' = IF stopping THEN "ended" ELSE IF Osd THEN "osd" ELSE "arm"
    /\ WorkerOnly
    /\ UNCHANGED <<track, active, accepting, keyRequested, pending, packet,
                   idr, output, mpp, failuresLeft>>

(* initialize() and the two addTextObject(): a failure ends the request.   *)
StartOsd ==
    /\ worker = "osd"
    /\ \/ worker' = "arm" /\ UNCHANGED <<active, accepting, failuresLeft>>
       \/ Fail /\ worker' = "waiting" /\ active' = FALSE /\ accepting' = FALSE
    /\ WorkerOnly
    /\ UNCHANGED <<track, keyRequested, pending, packet, idr, output, mpp>>

Arm ==
    /\ worker = "arm"
    /\ accepting' = (~stopping /\ active)
    /\ worker' = IF ~stopping /\ active THEN "frames" ELSE "deinit"
    /\ WorkerOnly
    /\ UNCHANGED <<track, active, keyRequested, pending, packet, idr, output,
                   mpp, failuresLeft>>

(* A wait for a frame that the end of the request does not end.            *)
TakeFrameOnly ==
    /\ worker = "frames"
    /\ \/ /\ stopping
          /\ accepting' = FALSE /\ pending' = 0 /\ worker' = "deinit"
          /\ UNCHANGED <<keyRequested, packet, idr>>
       \/ /\ ~stopping /\ pending # 0
          /\ packet' = pending /\ pending' = 0
          /\ idr' = keyRequested /\ keyRequested' = FALSE
          /\ worker' = IF Osd THEN "compose" ELSE "prepare"
          /\ UNCHANGED accepting
    /\ WorkerOnly
    /\ UNCHANGED <<track, active, output, mpp, failuresLeft>>

(* The wait for a frame: a stop or the end of the request goes before it.  *)
TakeFrame ==
    /\ worker = "frames"
    /\ \/ /\ stopping \/ ~active
          /\ accepting' = FALSE /\ pending' = 0 /\ worker' = "deinit"
          /\ UNCHANGED <<keyRequested, packet, idr>>
       \/ /\ ~stopping /\ active /\ pending # 0
          /\ packet' = pending /\ pending' = 0
          /\ idr' = keyRequested /\ keyRequested' = FALSE
          /\ worker' = IF Osd THEN "compose" ELSE "prepare"
          /\ UNCHANGED accepting
    /\ WorkerOnly
    /\ UNCHANGED <<track, active, output, mpp, failuresLeft>>

(* A failure that ends the request: the frame in hand goes with it, one    *)
(* that came after it stays.                                               *)
GiveUp ==
    /\ Fail
    /\ active' = FALSE /\ accepting' = FALSE
    /\ worker' = "deinit" /\ packet' = 0 /\ idr' = FALSE

(* A failure that costs the frame in hand only.                            *)
DropFrame ==
    /\ Fail
    /\ worker' = "frames" /\ packet' = 0 /\ idr' = FALSE
    /\ UNCHANGED <<active, accepting>>

(* The output buffer is allocated for the first frame; then the time is    *)
(* updated and the text blended over a copy of the frame.                  *)
Compose ==
    /\ worker = "compose"
    /\ \/ ~output /\ GiveUp /\ UNCHANGED output
       \/ output' = TRUE /\ DropFrame
       \/ /\ output' = TRUE /\ worker' = "prepare"
          /\ UNCHANGED <<active, accepting, packet, idr, failuresLeft>>
    /\ WorkerOnly
    /\ UNCHANGED <<track, keyRequested, pending, mpp>>

Released(taken) == taken \ ToSet(Resources)

(* rk_mpp_encoder_init(): what MPP gave before the step that fails is given*)
(* back by rk_mpp_encoder_deinit().                                        *)
PrepareFails ==
    \E n \in 0 .. Len(Resources) - 1 :
        mpp' = Released(ToSet(SubSeq(Resources, 1, n)))

(* MppEncoder::init() on the first frame.                                  *)
InitEncoder ==
    \/ /\ worker' = "encode" /\ mpp' = ToSet(Resources) /\ idr' = FALSE
       /\ UNCHANGED <<active, accepting, packet, failuresLeft>>
    \/ GiveUp /\ PrepareFails

Prepare ==
    /\ worker = "prepare"
    /\ \/ mpp = {} /\ InitEncoder
       \/ /\ mpp # {} /\ worker' = "encode"
          /\ UNCHANGED <<mpp, active, accepting, packet, idr, failuresLeft>>
    /\ WorkerOnly
    /\ UNCHANGED <<track, keyRequested, pending, output>>

(* The packet MPP gives back goes to the callback, which is the next step. *)
EmitPacket ==
    /\ worker' = "callback"
    /\ UNCHANGED <<active, accepting, packet, idr, failuresLeft>>

(* sendFrame() waits for the packet; a frame that is refused costs that    *)
(* frame.                                                                  *)
SendFrame == DropFrame \/ EmitPacket

(* A requestKeyFrame() that fails has no consequence.                      *)
Encode ==
    /\ worker = "encode"
    /\ SendFrame
    /\ WorkerOnly
    /\ UNCHANGED <<track, keyRequested, pending, output, mpp>>

(* The queue drops its oldest NALU at the limit and wakes its reader.      *)
Queued(q, n) == Append(IF Len(q) >= QueueLimit THEN Tail(q) ELSE q, n)

(* The callback has had the packet: sendFrame() returns and the lease of   *)
(* the frame is given back.                                                *)
SendReturns == worker' = "frames" /\ packet' = 0 /\ idr' = FALSE

(* A push that wakes nobody.                                               *)
PushUnseen ==
    /\ worker = "callback"
    /\ IF count = 0 THEN UNCHANGED queue ELSE queue' = Queued(queue, packet)
    /\ SendReturns
    /\ WorkerOnly
    /\ UNCHANGED <<source, trigger, active, accepting, keyRequested, pending,
                   output, mpp, failuresLeft>>

(* pushAnnexBFrame(): dropped while nobody plays.                          *)
PushAnnexBFrame ==
    /\ worker = "callback"
    /\ IF count = 0 THEN UNCHANGED <<queue, trigger>>
       ELSE queue' = Queued(queue, packet) /\ trigger' = (source # "none")
    /\ SendReturns
    /\ WorkerOnly
    /\ UNCHANGED <<source, active, accepting, keyRequested, pending, output,
                   mpp, failuresLeft>>

Deinit ==
    /\ worker = "deinit"
    /\ mpp' = Released(mpp) /\ output' = FALSE /\ worker' = "waiting"
    /\ WorkerOnly
    /\ UNCHANGED <<track, active, accepting, keyRequested, pending, packet,
                   idr, failuresLeft>>
-----------------------------------------------------------------------------
Work == \/ Wake \/ StartOsd \/ Arm \/ TakeFrame \/ Compose \/ Prepare
        \/ Encode \/ PushAnnexBFrame \/ Deinit

Serve == \/ Setup \/ NotifySink \/ DoGetNextFrame \/ FrameArrived
         \/ LeaveLoop \/ CloseServer \/ DeleteScheduler \/ ResetClients
         \/ EndThread

Ask == \E c \in Clients : SetUpSession(c) \/ StartStream(c) \/ DeleteStream(c)

Run == \/ Start \/ Started \/ Stop \/ Stopped \/ Destroy \/ Destroyed

Next == Work \/ Serve \/ Ask \/ Run \/ OnFrame

Spec == Init /\ [][Next]_vars

(* The threads run on. doEventLoop() tests its watch variable before, and  *)
(* serves the triggers in, every round of the loop, whatever the clients   *)
(* send: strong fairness. Nothing is assumed of the clients, the camera    *)
(* and the calls of the application.                                       *)
Fairness ==
    /\ WF_vars(Work)
    /\ WF_vars(Setup \/ NotifySink \/ CloseServer \/ DeleteScheduler
               \/ ResetClients \/ EndThread)
    /\ SF_vars(LeaveLoop) /\ SF_vars(DoGetNextFrame) /\ SF_vars(FrameArrived)
    /\ WF_vars(Started) /\ WF_vars(Stopped) /\ WF_vars(Destroyed)

FairSpec == Spec /\ Fairness
-----------------------------------------------------------------------------
(* No client, no frame: once the sink has been told that the last client   *)
(* has gone it holds no frame of the camera and takes no new one, however  *)
(* its worker and the event thread meet (setActive, workerMain).           *)
NoClientNoFrame ==
    count = 0 /\ event = "none" => pending = 0 /\ ~accepting

(* What a client is sent of the time before it came is the one unit that   *)
(* was being encoded (onClientPlaybackStateChanged clears the queue when   *)
(* the last client leaves, pushAnnexBFrame drops what comes after).        *)
AtMostOneStaleUnit ==
    Cardinality({i \in DOMAIN queue : queue[i] < session}) <= 1

(* Between two audiences nothing is encoded, and the next one sees nothing *)
(* of the last.                                                            *)
AudiencesApart == NoClientNoFrame /\ AtMostOneStaleUnit

(* The worker that waits for a frame on a request that stands accepts      *)
(* frames, so that the wait can end (RtspPublishSink.hpp:51).              *)
ActiveMeansAccepting ==
    worker = "frames" /\ active /\ ~stopping => accepting

(* A stream that nobody plays gives the encoder, its MPP buffers and the   *)
(* frame it holds back.                                                    *)
EncoderFollowsClients ==
    count = 0 ~> count > 0 \/ (mpp = {} /\ packet = 0 /\ ~output)

(* A NALU in the queue and a source that waits for one find each other: no *)
(* wake-up is lost between push, pop and the trigger.                      *)
QueuedIsDelivered ==
    queue # <<>> /\ source = "awaiting" ~> queue = <<>> \/ source # "awaiting"

(* start(), stop() and the destructor of the sink come to their end.       *)
CallsReturn ==
    app \in {"starting", "joining", "destroying"} ~> app \in {"idle", "gone"}

(* Nobody waits for good: neither a client's source nor a caller.          *)
NobodyWaitsForGood == QueuedIsDelivered /\ CallsReturn
=============================================================================
