--------------------------- MODULE AudioPipeline ---------------------------
(***************************************************************************)
(* AudioPipeline: one AudioCapture, the ApmNodes and EncoderNodes that its *)
(* subscriptions keep alive, and RtspAudioPublishSink, the subscription of *)
(* the RTSP server, with the audio queues it feeds.                        *)
(*                                                                         *)
(* Threads: the application, which starts and stops the capture; the ALSA  *)
(* thread; one worker per node; the worker of the publishing sink; other   *)
(* subscribers. A node is an instance: it is taken when findOrCreate finds *)
(* none that fits, and is given back when nothing holds it any more, with  *)
(* its destructor run by the thread that let go of it last.                *)
(***************************************************************************)
EXTENDS Naturals, Sequences, SequencesExt, FiniteSets

CONSTANTS Nodes,        \* instances of ApmNode and EncoderNode, a bound
          Rtsp,         \* RtspAudioPublishSink, as a subscriber
          Others,       \* the other subscribers
          Chain,        \* per subscriber, the kinds of node it asks for
          Streams,      \* the published streams with an audio track
          QueueLimit,   \* m_queueCapacity of a node
          PacketFrames, \* blocks of PCM that make a packet
          MaxFrames,    \* blocks the microphone delivers, a bound
          MaxStarts,    \* calls of startCapture, a bound
          MaxShares,    \* subscriptions of the others, a bound
          MaxFailures   \* failures of ALSA, APM and codec, a bound

Subscribers == {Rtsp} \cup Others

ASSUME AudioAssumption ==
    /\ Rtsp \notin Others /\ "app" \notin Subscribers /\ IsFiniteSet(Nodes)
    /\ Chain \in [Subscribers -> {<<"apm">>, <<"encoder">>, <<"apm", "encoder">>}]
    /\ QueueLimit \in Nat \ {0} /\ PacketFrames \in Nat \ {0}
    /\ MaxFrames \in Nat /\ MaxStarts \in Nat /\ MaxShares \in Nat /\ MaxFailures \in Nat

VARIABLES
    app,          \* where the application is
    capturing,    \* m_captureRunning
    alsa,         \* where the capture thread is
    clock,        \* blocks delivered or lost so far
    taken,        \* the block the capture thread publishes, or 0
    collected,    \* the nodes stopCapture() has strong references to
    kind,         \* of each node, "none" while it is not in use
    input,        \* the node it is subscribed to, or "raw"
    running,      \* its m_running
    stopRequest,  \* its m_stopRequested
    queue,        \* its m_queue
    hand,         \* the block its worker works on, or 0
    cache,        \* the blocks of the packet that is being filled
    expected,     \* the block that follows them, 0 for none
    holds,        \* the nodes a subscription keeps alive
    todo,         \* the nodes a thread has still to stop
    sink,         \* where the worker of the publishing sink is
    wanted,       \* m_encodingRequested
    attempted,    \* m_activationAttempted
    accepting,    \* acceptingPackets
    playing,      \* the streams whose audio track has clients
    startsLeft,   \* what is left of MaxStarts
    sharesLeft,   \* what is left of MaxShares
    failuresLeft  \* what is left of MaxFailures

capture == <<capturing, alsa, clock, taken, collected>>
graph   == <<kind, input, holds>>
workers == <<running, stopRequest, queue, hand, cache, expected>>
publish == <<sink, wanted, attempted, accepting>>
calls   == <<startsLeft, sharesLeft>>
bounds  == <<calls, failuresLeft>>
vars    == <<app, capture, graph, workers, todo, publish, playing, bounds>>

Threads == Subscribers \cup {"app"}

Init ==
    /\ app = "stopped" /\ capturing = FALSE /\ alsa = "none"
    /\ clock = 0 /\ taken = 0 /\ collected = {}
    /\ kind = [n \in Nodes |-> "none"]
    /\ input = [n \in Nodes |-> "raw"]
    /\ running = [n \in Nodes |-> FALSE]
    /\ stopRequest = [n \in Nodes |-> FALSE]
    /\ queue = [n \in Nodes |-> <<>>]
    /\ hand = [n \in Nodes |-> 0]
    /\ cache = [n \in Nodes |-> <<>>]
    /\ expected = [n \in Nodes |-> 0]
    /\ holds = [s \in Subscribers |-> {}]
    /\ todo = [t \in Threads |-> <<>>]
    /\ sink = "waiting" /\ wanted = FALSE /\ attempted = FALSE
    /\ accepting = FALSE
    /\ playing = {}
    /\ startsLeft = MaxStarts /\ sharesLeft = MaxShares /\ failuresLeft = MaxFailures

Fail == failuresLeft > 0 /\ failuresLeft' = failuresLeft - 1

(* What a weak reference to a node can still be turned into.               *)
Held == collected \cup UNION {holds[s] : s \in Subscribers}
Alive(k) == {n \in Held : kind[n] = k}
-----------------------------------------------------------------------------
(* A node.                                                                 *)

(* enqueue(): nothing before start() and after a stop request; at the limit*)
(* the oldest block goes.                                                  *)
Enqueued(n, block) ==
    IF ~running[n] \/ stopRequest[n] THEN queue[n]
    ELSE Append(IF Len(queue[n]) = QueueLimit THEN Tail(queue[n])
                ELSE queue[n], block)

(* publish() of a hub: its subscribers' queues.                            *)
Published(hub, block) ==
    [n \in Nodes |-> IF kind[n] # "none" /\ input[n] = hub
                     THEN Enqueued(n, block) ELSE queue[n]]

(* workerMain(): a stop request goes before what is queued.                *)
TakeBlock(n) ==
    /\ running[n] /\ hand[n] = 0 /\ ~stopRequest[n] /\ queue[n] # <<>>
    /\ hand' = [hand EXCEPT ![n] = Head(queue[n])]
    /\ queue' = [queue EXCEPT ![n] = Tail(@)]
    /\ UNCHANGED <<app, capture, graph, running, stopRequest, cache,
                   expected, todo, publish, playing, bounds>>

(* AudioFramePool::copyFrom(): the block, or nothing when every frame of   *)
(* the pool is out.                                                        *)
Copied(block) == {0, block}

(* audio_apm_process_capture(): the block, or nothing when the APM refuses *)
(* it.                                                                     *)
Processed(block) == {0, block}

(* The APM: a block that fails, that warms the APM up or that finds the    *)
(* pool empty is not published.                                            *)
ProcessBlock(n) ==
    /\ kind[n] = "apm" /\ hand[n] # 0
    /\ hand' = [hand EXCEPT ![n] = 0]
    /\ \E block \in Processed(hand[n]) : \E copy \in Copied(block) :
          queue' = IF copy = 0 THEN queue ELSE Published(n, copy)
    /\ UNCHANGED <<app, capture, graph, running, stopRequest, cache,
                   expected, todo, publish, playing, bounds>>

ContinuedAcross(n) == cache[n]

(* isTimestampDiscontinuous(): a block is ten times the tolerance, so that *)
(* blocks that follow each other pass and a lost one is found.             *)
Discontinuous(n) == expected[n] # 0 /\ hand[n] # expected[n]

(* The blocks the packet is continued with: a block that does not follow   *)
(* the last one resets the encoder, and its cache with it; an encoder that *)
(* cannot be reset is made anew.                                           *)
Continued(n) == IF Discontinuous(n) THEN <<>> ELSE cache[n]

(* That fails, too: the block is lost and there is no encoder. What is     *)
(* expected stays as it was, so each later block is discontinuous and has  *)
(* the encoder made, as one has that finds m_encoderReady unset.           *)
RecreateFails(n) ==
    /\ Fail /\ Discontinuous(n)
    /\ cache' = [cache EXCEPT ![n] = <<>>]
    /\ UNCHANGED expected

(* push_pcm() of a codec: a packet an earlier failure left full goes first.*)
Begun(n) ==
    Append(IF Len(Continued(n)) = PacketFrames THEN <<>> ELSE Continued(n),
           hand[n])

(* The block is kept for a packet that is not full yet.                    *)
Cache(n) ==
    /\ Len(Begun(n)) < PacketFrames
    /\ cache' = [cache EXCEPT ![n] = Begun(n)]
    /\ expected' = [expected EXCEPT ![n] = hand[n] + 1]
    /\ UNCHANGED failuresLeft

(* emit_access_unit(): the full packet goes to the codec, the cache with it.*)
EmitAccessUnit(n) ==
    /\ Len(Begun(n)) = PacketFrames
    /\ cache' = [cache EXCEPT ![n] = <<>>]
    /\ expected' = [expected EXCEPT ![n] = hand[n] + 1]
    /\ UNCHANGED failuresLeft

(* The codec fails: the packet that was to be encoded stays in the cache   *)
(* and what follows is not known to follow.                                *)
EncodeFails(n) ==
    /\ Fail
    /\ cache' = [cache EXCEPT ![n] =
                    IF Len(Continued(n)) = PacketFrames
                    THEN Continued(n) ELSE Begun(n)]
    /\ Len(cache'[n]) = PacketFrames
    /\ expected' = [expected EXCEPT ![n] = 0]

EncodeBlock(n) ==
    /\ kind[n] = "encoder" /\ hand[n] # 0
    /\ hand' = [hand EXCEPT ![n] = 0]
    /\ Cache(n) \/ EmitAccessUnit(n) \/ EncodeFails(n) \/ RecreateFails(n)
    /\ UNCHANGED <<app, capture, graph, running, stopRequest, queue, todo,
                   publish, playing, calls>>

(* stop() of a node, in the thread t: the request, then the join.          *)
RequestStop(t) ==
    /\ todo[t] # <<>>
    /\ LET n == Head(todo[t]) IN
       IF running[n] /\ ~stopRequest[n]
       THEN /\ stopRequest' = [stopRequest EXCEPT ![n] = TRUE]
            /\ queue' = [queue EXCEPT ![n] = <<>>]
            /\ UNCHANGED todo
       ELSE /\ ~running[n]
            /\ todo' = [todo EXCEPT ![t] = Tail(@)]
            /\ UNCHANGED <<stopRequest, queue>>
    /\ UNCHANGED <<app, capture, graph, running, hand, cache, expected,
                   publish, playing, bounds>>

JoinNode(t) ==
    /\ todo[t] # <<>>
    /\ LET n == Head(todo[t]) IN
       /\ stopRequest[n] /\ hand[n] = 0
       /\ running' = [running EXCEPT ![n] = FALSE]
       /\ stopRequest' = [stopRequest EXCEPT ![n] = FALSE]
       /\ cache' = [cache EXCEPT ![n] = <<>>]
       /\ expected' = [expected EXCEPT ![n] = 0]
       /\ todo' = [todo EXCEPT ![t] = Tail(@)]
    /\ UNCHANGED <<app, capture, graph, queue, hand, publish, playing, bounds>>
-----------------------------------------------------------------------------
(* Subscriptions.                                                          *)

(* findOrCreateApmNodeLocked(), findOrCreateEncoderNodeLocked(): a node of *)
(* the kind that is subscribed to the same hub, or a new one.              *)
Found(k, hub) ==
    LET fitting == {n \in Alive(k) : input[n] = hub}
    IN IF fitting # {} THEN fitting ELSE {n \in Nodes : kind[n] = "none"}

(* start() of nodes: one that runs already stays as it is.                 *)
StartNodes(set) == running' = [n \in Nodes |-> running[n] \/ n \in set]

(* subscribePcm(), subscribeEncoded(): under m_mutex. A node that is made  *)
(* while the capture runs is started at once; if that fails it is gone and *)
(* there is no subscription.                                               *)
Grow(s, chosen) ==
    /\ holds' = [holds EXCEPT ![s] = chosen]
    /\ StartNodes({n \in chosen : kind[n] = "none" /\ capturing})

SubscribeToRaw(s) ==
    /\ Len(Chain[s]) = 1
    /\ \E n \in Found(Chain[s][1], "raw") :
          /\ Grow(s, {n})
          /\ kind' = [kind EXCEPT ![n] = Chain[s][1]]
          /\ input' = [input EXCEPT ![n] = "raw"]

(* An encoder behind an APM.                                               *)
SubscribeToProcessed(s) ==
    /\ Len(Chain[s]) = 2
    /\ \E n \in Found("apm", "raw") : \E e \in Found("encoder", n) \ {n} :
          /\ Grow(s, {n, e})
          /\ kind' = [kind EXCEPT ![n] = "apm", ![e] = "encoder"]
          /\ input' = [input EXCEPT ![n] = "raw", ![e] = n]

Subscribe(s) == SubscribeToRaw(s) \/ SubscribeToProcessed(s)

(* AudioSubscription::reset(): the callback first, then the references; the*)
(* nodes nobody else holds are stopped here, the APM before the encoder.   *)
Orphans(s) == holds[s] \ (collected \cup UNION {holds[r] : r \in Subscribers \ {s}})

Ordered(set, first) ==
    SetToSeq({n \in set : kind[n] = first}) \o SetToSeq({n \in set : kind[n] # first})

Reset(s) ==
    /\ todo' = [todo EXCEPT ![s] = Ordered(Orphans(s), "apm")]
    /\ holds' = [holds EXCEPT ![s] = {}]

(* The memory of a node goes with the destruction of the last of them.     *)
InUse(n) == n \in Held \/ \E t \in Threads : n \in ToSet(todo[t])

Discard ==
    /\ \E n \in Nodes : kind[n] # "none" /\ ~InUse(n)
    /\ kind' = [n \in Nodes |-> IF InUse(n) THEN kind[n] ELSE "none"]
    /\ input' = [n \in Nodes |-> IF InUse(n) THEN input[n] ELSE "raw"]
    /\ UNCHANGED <<app, capture, holds, workers, todo, publish, playing, bounds>>

OtherSubscribes(s) ==
    /\ holds[s] = {} /\ todo[s] = <<>> /\ sharesLeft > 0
    /\ sharesLeft' = sharesLeft - 1
    /\ Subscribe(s)
    /\ UNCHANGED <<app, capture, stopRequest, queue, hand, cache, expected,
                   todo, publish, playing, startsLeft, failuresLeft>>

OtherResets(s) ==
    /\ holds[s] # {}
    /\ Reset(s)
    /\ UNCHANGED <<app, capture, kind, input, workers, publish, playing, bounds>>
-----------------------------------------------------------------------------
(* RtspAudioPublishSink.                                                   *)

(* setStreamActive(), by the live555 thread: only the first stream that    *)
(* gets listeners and the last that loses them change what is wanted.      *)
StreamPlaysOnce(m) ==
    /\ m \notin playing
    /\ playing' = playing \cup {m}
    /\ wanted' = TRUE
    /\ UNCHANGED <<app, capture, graph, workers, todo, sink, attempted,
                   accepting, bounds>>

StreamPlays(m) ==
    /\ m \notin playing
    /\ playing' = playing \cup {m}
    /\ IF playing = {} THEN wanted' = TRUE /\ attempted' = FALSE
       ELSE UNCHANGED <<wanted, attempted>>
    /\ UNCHANGED <<app, capture, graph, workers, todo, sink, accepting,
                   bounds>>

StreamEndsQuietly(m) ==
    /\ m \in playing
    /\ playing' = playing \ {m}
    /\ UNCHANGED <<app, capture, graph, workers, todo, publish, bounds>>

StreamEnds(m) ==
    /\ m \in playing
    /\ playing' = playing \ {m}
    /\ wanted' = (wanted /\ playing # {m})
    /\ UNCHANGED <<app, capture, graph, workers, todo, sink, attempted,
                   accepting, bounds>>

(* The worker decides under the lock what to do, and does it without.      *)
Subscribed == holds[Rtsp] # {}

Decide ==
    /\ sink = "waiting" /\ todo[Rtsp] = <<>>
    /\ \/ /\ wanted /\ ~Subscribed /\ ~attempted
          /\ attempted' = TRUE /\ sink' = "subscribing"
          /\ UNCHANGED accepting
       \/ /\ ~wanted /\ Subscribed
          /\ accepting' = FALSE /\ sink' = "leaving"
          /\ UNCHANGED attempted
    /\ UNCHANGED <<app, capture, graph, workers, todo, wanted, playing, bounds>>

SinkSubscribes ==
    /\ sink = "subscribing"
    /\ \/ Subscribe(Rtsp) /\ sink' = "checking" /\ UNCHANGED failuresLeft
       \/ Fail /\ sink' = "waiting" /\ UNCHANGED <<graph, running>>
    /\ UNCHANGED <<app, capture, stopRequest, queue, hand, cache, expected,
                   todo, wanted, attempted, accepting, playing, calls>>

(* Nobody may be listening any more when the subscription is there.        *)
Keep ==
    /\ sink = "checking" /\ wanted
    /\ accepting' = TRUE /\ sink' = "waiting"
    /\ UNCHANGED <<app, capture, graph, workers, todo, wanted, attempted,
                   playing, bounds>>

LetGo ==
    /\ \/ sink = "checking" /\ ~wanted /\ sink' = "waiting" /\ UNCHANGED attempted
       \/ sink = "leaving" /\ sink' = "left" /\ UNCHANGED attempted
    /\ Reset(Rtsp)
    /\ UNCHANGED <<app, capture, kind, input, workers, wanted, accepting,
                   playing, bounds>>

Left ==
    /\ sink = "left" /\ todo[Rtsp] = <<>>
    /\ attempted' = FALSE /\ sink' = "waiting"
    /\ UNCHANGED <<app, capture, graph, workers, todo, wanted, accepting,
                   playing, bounds>>
-----------------------------------------------------------------------------
(* The application and the capture thread.                                 *)

(* audio_capture_open_auto(): the device first; nothing has been started   *)
(* when it fails.                                                          *)
OpenFails == UNCHANGED running

(* start() of the APMs, then of the encoders: a node that fails leaves     *)
(* those of its own kind that had already been started; nodes of the       *)
(* earlier kind are stopped.                                               *)
NodeFails(k) ==
    \E begun \in SUBSET Alive(k) :
        /\ begun # Alive(k)
        /\ running' = [n \in Nodes |->
              IF n \in Alive(k) THEN running[n] \/ n \in begun
              ELSE running[n] /\ ~(k = "encoder" /\ n \in Held)]

(* audio_capture_start(): without its thread every node is stopped.        *)
ThreadFails == running' = [n \in Nodes |-> running[n] /\ n \notin Held]

(* startCapture(), under m_mutex: the device, the nodes, the thread.       *)
StartCapture ==
    /\ app \in {"stopped", "failed"} /\ startsLeft > 0
    /\ startsLeft' = startsLeft - 1
    /\ \/ /\ app' = "running" /\ capturing' = TRUE /\ alsa' = "reading"
          /\ StartNodes(Held)
          /\ UNCHANGED failuresLeft
       \/ /\ Fail /\ app' = "failed"
          /\ OpenFails \/ NodeFails("apm") \/ NodeFails("encoder") \/ ThreadFails
          /\ UNCHANGED <<capturing, alsa>>
    /\ UNCHANGED <<clock, taken, collected, graph, stopRequest, queue, hand,
                   cache, expected, todo, publish, playing, sharesLeft>>

(* stopCapture(): the flag and the references under m_mutex; the join of   *)
(* the capture thread; the encoders, the APMs.                             *)
StopCapture ==
    /\ app \in {"running", "failed"}
    /\ app' = "joining" /\ capturing' = FALSE
    /\ collected' = Held
    /\ UNCHANGED <<alsa, clock, taken, graph, workers, todo, publish, playing,
                   bounds>>

JoinCapture ==
    /\ app = "joining" /\ taken = 0
    /\ alsa' = "none" /\ app' = "stopping"
    /\ todo' = [todo EXCEPT !["app"] = Ordered(collected, "encoder")]
    /\ UNCHANGED <<capturing, clock, taken, collected, graph, workers,
                   publish, playing, bounds>>

CaptureStopped ==
    /\ app = "stopping" /\ todo["app"] = <<>>
    /\ app' = "stopped" /\ collected' = {}
    /\ UNCHANGED <<capturing, alsa, clock, taken, graph, workers, todo,
                   publish, playing, bounds>>

(* The capture thread: a block, or time that an XRUN or an empty pool lost;*)
(* a fatal error ends the thread and nothing else.                         *)
Read ==
    /\ alsa = "reading" /\ taken = 0
    /\ \/ /\ clock < MaxFrames /\ clock' = clock + 1
          /\ taken' \in Copied(clock + 1)
          /\ UNCHANGED <<alsa, failuresLeft>>
       \/ Fail /\ alsa' = "dead" /\ UNCHANGED <<clock, taken>>
    /\ UNCHANGED <<app, capturing, collected, graph, workers, todo, publish,
                   playing, calls>>

PublishCapturedPcm ==
    /\ taken # 0
    /\ queue' = Published("raw", taken)
    /\ taken' = 0
    /\ UNCHANGED <<app, capturing, alsa, clock, collected, graph, running,
                   stopRequest, hand, cache, expected, todo, publish, playing,
                   bounds>>
-----------------------------------------------------------------------------
Work == \E n \in Nodes : TakeBlock(n) \/ ProcessBlock(n) \/ EncodeBlock(n)
StopNodes == \E t \in Threads : RequestStop(t) \/ JoinNode(t)
Listen == \E m \in Streams : StreamPlays(m) \/ StreamEnds(m)
Serve == Decide \/ SinkSubscribes \/ Keep \/ LetGo \/ Left
Share == \E s \in Others : OtherSubscribes(s) \/ OtherResets(s)
Run == StartCapture \/ StopCapture \/ JoinCapture \/ CaptureStopped
Capture == Read \/ PublishCapturedPcm

Next == Work \/ StopNodes \/ Discard \/ Listen \/ Serve \/ Share \/ Run \/ Capture

Spec == Init /\ [][Next]_vars

(* Every thread that has something to do goes on; nothing is assumed of the*)
(* microphone, the listeners and the calls of the application.             *)
Fairness ==
    /\ \A n \in Nodes : WF_vars(ProcessBlock(n) \/ EncodeBlock(n))
    /\ \A t \in Threads : WF_vars(RequestStop(t) \/ JoinNode(t))
    /\ WF_vars(Discard) /\ WF_vars(Serve)
    /\ WF_vars(JoinCapture \/ CaptureStopped) /\ WF_vars(PublishCapturedPcm)

FairSpec == Spec /\ Fairness
-----------------------------------------------------------------------------
(* A packet is made of blocks that follow each other, whatever the queues, *)
(* the pools and XRUNs lost and whatever failed before: what waits in the  *)
(* encoder to be completed has no gap (AudioPipeline.cpp:516-531).         *)
NoPacketAcrossGap ==
    \A n \in Nodes : \A i \in 1 .. Len(cache[n]) - 1 :
        cache[n][i + 1] = cache[n][i] + 1

(* When stopCapture() has returned the capture thread has been joined and  *)
(* no node works but one whose destructor is stopping it already, even if  *)
(* nodes were made and dropped meanwhile.                                  *)
StopIsComplete ==
    app = "stopped" =>
        /\ alsa = "none" /\ taken = 0
        /\ \A n \in Nodes : running[n] =>
              \E s \in Subscribers : n \in ToSet(todo[s])

(* When the last listener has gone the RTSP audio gives up its subscription*)
(* whatever the worker was doing, so no encoder runs for nobody.           *)
SubscriptionEnds == playing = {} ~> playing # {} \/ ~Subscribed

(* Nothing of the audio works for nobody.                                  *)
NothingRunsForNobody == []StopIsComplete /\ SubscriptionEnds

(* A failed attempt to subscribe is not the end: when everybody leaves and *)
(* somebody comes again the audio is published, unless they leave first.   *)
SubscriptionBegins ==
    [](playing = {} /\ failuresLeft = 0 =>
         [](playing # {} ~> playing = {} \/ (Subscribed /\ accepting)))
=============================================================================
