------------------------- MODULE RtspPublishProofs -------------------------
(***************************************************************************)
(* Theorems about a published stream: between two audiences the sink holds *)
(* no frame, and what one audience is sent of the time of another is a     *)
(* single unit, for any clients, queue limit, number of restarts of the    *)
(* server and failures.                                                    *)
(***************************************************************************)
EXTENDS RtspPublish, FiniteSetTheorems, SequenceTheorems, TLAPS

(* Sessions are numbers; what is queued, pending and encoded has one.      *)
TypeOK ==
    /\ session \in Nat /\ count \in Nat /\ pending \in Nat /\ packet \in Nat
    /\ queue \in Seq(Nat)
    /\ active \in BOOLEAN /\ accepting \in BOOLEAN /\ stopping \in BOOLEAN
    /\ event \in {"none", "first", "additional", "last", "left"}
    /\ rtsp \in {"none", "setup", "loop", "closing", "closed", "ending"}

(* Nobody plays and the sink knows it, or it does not yet know of the      *)
(* first: the request has ended, in every place the worker reads it from.  *)
Unasked == (count = 0 /\ event # "last") \/ event = "first"

QuietWhenUnasked == Unasked => ~active /\ ~accepting /\ pending = 0

(* The sink accepts only on a request, and no more when it is destroyed.   *)
AcceptsOnRequest == (accepting => active) /\ (stopping => ~active /\ ~accepting /\ pending = 0)

(* A server that does not run counts nobody and has nothing to tell.       *)
NobodyAtRest ==
    /\ rtsp = "none" \/ rtsp = "setup" => count = 0 /\ event = "none"
    /\ rtsp = "closed" => event = "none"
    /\ rtsp = "ending" => count = 0 /\ event \in {"none", "last"}
    /\ event = "first" => count # 0
    /\ ~running => rtsp = "none"

(* An empty audience has an empty queue.                                   *)
EmptyWhenUnplayed == count = 0 => queue = <<>>

(* A frame that waits is of the present session, and at most one unit of a *)
(* past one is queued or being encoded.                                    *)
Current ==
    /\ pending \in {0, session} /\ packet <= session
    /\ worker \in {"compose", "prepare", "encode", "callback"} => packet # 0

(* Units of q and the unit p in hand (0 for none) in session n: one of the *)
(* past at most.                                                           *)
StaleOnce(q, p, n) ==
    /\ \A i \in 1..Len(q) : q[i] <= n
    /\ \A i, j \in 1..Len(q) : q[i] < n /\ q[j] < n => i = j
    /\ p # 0 /\ p < n => \A i \in 1..Len(q) : q[i] = n

OneStale == StaleOnce(queue, packet, session)

PublishInv ==
    /\ TypeOK /\ QuietWhenUnasked /\ AcceptsOnRequest /\ NobodyAtRest /\ EmptyWhenUnplayed
    /\ Current /\ OneStale
-----------------------------------------------------------------------------
(* The queue: what the source takes and what the encoder adds.             *)
LEMMA TailStaleOnce ==
    ASSUME NEW q \in Seq(Nat), q # <<>>, NEW p \in Nat, NEW n \in Nat, StaleOnce(q, p, n)
    PROVE  Tail(q) \in Seq(Nat) /\ StaleOnce(Tail(q), p, n)
<1>1. /\ Tail(q) \in Seq(Nat) /\ Len(Tail(q)) = Len(q) - 1 /\ Len(q) \in Nat
      /\ \A i \in 1..Len(Tail(q)) : Tail(q)[i] = q[i + 1] /\ i + 1 \in 1..Len(q)
      /\ \A i \in 1..Len(q) : q[i] \in Nat
  OBVIOUS
<1>2. \A i, j \in 1..Len(Tail(q)) : Tail(q)[i] < n /\ Tail(q)[j] < n => i = j
  <2>1. SUFFICES ASSUME NEW i \in 1..Len(Tail(q)), NEW j \in 1..Len(Tail(q)),
                        Tail(q)[i] < n, Tail(q)[j] < n
                 PROVE  i = j
    OBVIOUS
  <2>2. i + 1 = j + 1
    BY <1>1, <2>1 DEF StaleOnce
  <2>q. QED
    BY <2>2, <1>1
<1>q. QED
  BY <1>1, <1>2 DEF StaleOnce

LEMMA AppendStaleOnce ==
    ASSUME NEW q \in Seq(Nat), NEW p \in Nat \ {0}, NEW n \in Nat, p <= n, StaleOnce(q, p, n)
    PROVE  Append(q, p) \in Seq(Nat) /\ StaleOnce(Append(q, p), 0, n)
<1>1. /\ Append(q, p) \in Seq(Nat) /\ Len(Append(q, p)) = Len(q) + 1 /\ Len(q) \in Nat
      /\ \A i \in 1..Len(q) : Append(q, p)[i] = q[i] /\ q[i] \in Nat
      /\ Append(q, p)[Len(q) + 1] = p
      /\ \A i \in 1..(Len(q) + 1) : i \in 1..Len(q) \/ i = Len(q) + 1
  OBVIOUS
<1>q. QED
  BY <1>1 DEF StaleOnce

(* The oldest unit makes room for the new one at the limit.                *)
LEMMA QueuedStaleOnce ==
    ASSUME NEW q \in Seq(Nat), NEW p \in Nat \ {0}, NEW n \in Nat, p <= n, StaleOnce(q, p, n)
    PROVE  Queued(q, p) \in Seq(Nat) /\ StaleOnce(Queued(q, p), 0, n)
<1>1. CASE Len(q) >= QueueLimit
  <2>1. q # <<>>
    BY <1>1, PublishAssumption
  <2>2. Tail(q) \in Seq(Nat) /\ StaleOnce(Tail(q), p, n)
    BY <2>1, TailStaleOnce
  <2>q. QED
    BY <1>1, <2>2, AppendStaleOnce DEF Queued
<1>2. CASE ~(Len(q) >= QueueLimit)
  BY <1>2, AppendStaleOnce DEF Queued
<1>q. QED
  BY <1>1, <1>2

LEMMA EmptyStaleOnce ==
    ASSUME NEW p \in Nat, NEW n \in Nat PROVE StaleOnce(<<>>, p, n) /\ <<>> \in Seq(Nat)
BY DEF StaleOnce
-----------------------------------------------------------------------------
Holding == {"compose", "prepare", "encode", "callback"}

(* A step of the worker that takes no frame, or of somebody else who does  *)
(* nothing to the stream: the frame in hand may be dropped, and the        *)
(* request be ended.                                                       *)
MovesOn ==
    /\ UNCHANGED <<session, count, pending, queue, stopping, event, rtsp, running>>
    /\ UNCHANGED <<active, accepting>> \/ (active' = FALSE /\ accepting' = FALSE)
    /\ \/ packet' = packet /\ (worker' \in Holding => worker \in Holding)
       \/ packet' = 0 /\ worker' \notin Holding

LEMMA MovesOnKeeps ==
    ASSUME PublishInv, MovesOn PROVE PublishInv'
<1>1. /\ active' \in BOOLEAN /\ accepting' \in BOOLEAN
      /\ (active' => active) /\ (accepting' => accepting) /\ (accepting' => active')
  <2>1. CASE UNCHANGED <<active, accepting>>
    BY <2>1 DEF PublishInv, TypeOK, AcceptsOnRequest
  <2>2. CASE active' = FALSE /\ accepting' = FALSE
    BY <2>2, Zenon
  <2>q. QED
    BY <2>1, <2>2 DEF MovesOn
<1>2. TypeOK'
  BY <1>1 DEF PublishInv, TypeOK, MovesOn
<1>3. QuietWhenUnasked' /\ AcceptsOnRequest'
  BY <1>1 DEF PublishInv, QuietWhenUnasked, Unasked, AcceptsOnRequest, MovesOn
<1>4. NobodyAtRest' /\ EmptyWhenUnplayed'
  BY DEF PublishInv, NobodyAtRest, EmptyWhenUnplayed, MovesOn
<1>5. Current'
  BY DEF PublishInv, TypeOK, Current, MovesOn, Holding
<1>6. OneStale'
  BY DEF PublishInv, OneStale, StaleOnce, MovesOn
<1>q. QED
  BY <1>2, <1>3, <1>4, <1>5, <1>6 DEF PublishInv

(* A step of the event thread that changes where it is only.               *)
LEMMA EventThreadMoves ==
    ASSUME PublishInv, NobodyAtRest',
           rtsp' \in {"none", "setup", "loop", "closing", "closed", "ending"},
           UNCHANGED <<session, count, pending, packet, queue, active, accepting, stopping, event,
                       worker>>
    PROVE  PublishInv'
<1>1. TypeOK'
  BY DEF PublishInv, TypeOK
<1>2. QuietWhenUnasked' /\ AcceptsOnRequest' /\ EmptyWhenUnplayed'
  BY DEF PublishInv, QuietWhenUnasked, Unasked, AcceptsOnRequest, EmptyWhenUnplayed
<1>3. Current' /\ OneStale'
  BY DEF PublishInv, Current, OneStale, StaleOnce
<1>q. QED
  BY <1>1, <1>2, <1>3 DEF PublishInv

(* The source takes a unit.                                                *)
LEMMA TakingKeeps ==
    ASSUME PublishInv, queue # <<>>, queue' = Tail(queue),
           UNCHANGED <<session, count, pending, packet, active, accepting, stopping, event, rtsp,
                       running, worker>>
    PROVE  PublishInv'
<1>1. queue' \in Seq(Nat) /\ OneStale'
  BY TailStaleOnce DEF PublishInv, TypeOK, OneStale
<1>2. TypeOK'
  BY <1>1 DEF PublishInv, TypeOK
<1>3. QuietWhenUnasked' /\ AcceptsOnRequest' /\ EmptyWhenUnplayed' /\ NobodyAtRest' /\ Current'
  BY DEF PublishInv, QuietWhenUnasked, Unasked, AcceptsOnRequest, EmptyWhenUnplayed, NobodyAtRest,
         Current
<1>q. QED
  BY <1>1, <1>2, <1>3 DEF PublishInv
-----------------------------------------------------------------------------
LEMMA StepsThatMoveOn ==
    ASSUME PublishInv,
           \/ Started \/ Stop \/ Stopped \/ Destroyed \/ DeleteScheduler \/ Wake \/ StartOsd
           \/ Compose \/ Prepare \/ Encode \/ Deinit \/ \E c \in Clients : SetUpSession(c)
    PROVE  MovesOn
<1> USE DEF MovesOn, Holding, clients, control
<1>1. CASE Started \/ Stopped \/ Destroyed
  BY <1>1 DEF Started, Stopped, Destroyed, server, track, encode
<1>2. CASE Stop \/ DeleteScheduler
  BY <1>2 DEF Stop, DeleteScheduler, track, encode
<1>3. CASE \E c \in Clients : SetUpSession(c)
  BY <1>3 DEF SetUpSession, server, encode
<1> USE DEF WorkerOnly, server, track
<1>4. CASE Wake
  BY <1>4 DEF Wake
<1>5. CASE StartOsd
  BY <1>5 DEF StartOsd
<1>6. CASE Compose
  BY <1>6 DEF Compose, GiveUp, DropFrame
<1>7. CASE Prepare
  BY <1>7 DEF Prepare, InitEncoder, GiveUp
<1>8. CASE Encode
  BY <1>8 DEF Encode, SendFrame, EmitPacket, DropFrame
<1>9. CASE Deinit
  BY <1>9 DEF Deinit
<1>q. QED
  BY <1>1, <1>2, <1>3, <1>4, <1>5, <1>6, <1>7, <1>8, <1>9

(* The worker arms itself only for a request that stands.                  *)
LEMMA ArmKeeps ==
    ASSUME PublishInv, Arm PROVE PublishInv'
<1>1. /\ accepting' = (~stopping /\ active) /\ worker' \notin Holding
      /\ UNCHANGED <<session, count, pending, packet, queue, active, stopping, event, rtsp, running>>
  BY DEF Arm, WorkerOnly, server, clients, track, Holding
<1>2. accepting' \in BOOLEAN /\ (accepting' => active /\ ~stopping)
  BY <1>1, Zenon
<1>3. TypeOK'
  BY <1>1, <1>2 DEF PublishInv, TypeOK
<1>4. QuietWhenUnasked' /\ AcceptsOnRequest'
  BY <1>1, <1>2 DEF PublishInv, QuietWhenUnasked, Unasked, AcceptsOnRequest
<1>5. NobodyAtRest' /\ EmptyWhenUnplayed' /\ Current'
  BY <1>1 DEF PublishInv, NobodyAtRest, EmptyWhenUnplayed, Current, Holding
<1>6. OneStale'
  BY <1>1 DEF PublishInv, OneStale, StaleOnce
<1>q. QED
  BY <1>3, <1>4, <1>5, <1>6 DEF PublishInv

(* A frame that is taken is of the present session.                        *)
LEMMA TakeFrameKeeps ==
    ASSUME PublishInv, TakeFrame PROVE PublishInv'
<1>1. /\ pending' = 0
      /\ UNCHANGED <<session, count, queue, active, stopping, event, rtsp, running>>
      /\ \/ accepting' = FALSE /\ packet' = packet /\ worker' \notin Holding
         \/ accepting' = accepting /\ pending # 0 /\ packet' = pending
  BY DEF TakeFrame, WorkerOnly, server, clients, track, Holding
<1>2. accepting' \in BOOLEAN /\ (accepting' => accepting)
  <2>1. CASE accepting' = FALSE
    BY <2>1, Zenon
  <2>2. CASE accepting' = accepting
    BY <2>2 DEF PublishInv, TypeOK
  <2>q. QED
    BY <1>1, <2>1, <2>2
<1>3. TypeOK'
  BY <1>1, <1>2 DEF PublishInv, TypeOK
<1>4. QuietWhenUnasked' /\ AcceptsOnRequest'
  BY <1>1, <1>2 DEF PublishInv, QuietWhenUnasked, Unasked, AcceptsOnRequest
<1>5. NobodyAtRest' /\ EmptyWhenUnplayed'
  BY <1>1 DEF PublishInv, NobodyAtRest, EmptyWhenUnplayed
<1>6. Current'
  BY <1>1 DEF PublishInv, TypeOK, Current, Holding
<1>7. OneStale'
  BY <1>1 DEF PublishInv, TypeOK, Current, OneStale, StaleOnce
<1>q. QED
  BY <1>3, <1>4, <1>5, <1>6, <1>7 DEF PublishInv

(* The unit of a past session is pushed at most once.                      *)
LEMMA PushKeeps ==
    ASSUME PublishInv, PushAnnexBFrame PROVE PublishInv'
<1>1. /\ worker = "callback" /\ worker' \notin Holding /\ packet' = 0
      /\ UNCHANGED <<session, count, pending, active, accepting, stopping, event, rtsp, running>>
      /\ IF count = 0 THEN queue' = queue ELSE queue' = Queued(queue, packet)
  BY DEF PushAnnexBFrame, SendReturns, WorkerOnly, server, clients, Holding
<1>2. packet \in Nat \ {0} /\ packet <= session /\ session \in Nat /\ queue \in Seq(Nat)
  BY <1>1 DEF PublishInv, TypeOK, Current
<1>3. queue' \in Seq(Nat) /\ OneStale'
  <2>1. CASE count = 0
    BY <1>1, <1>2, <2>1 DEF PublishInv, OneStale, StaleOnce
  <2>2. CASE count # 0
    BY <1>1, <1>2, <2>2, QueuedStaleOnce DEF PublishInv, OneStale
  <2>q. QED
    BY <2>1, <2>2
<1>4. TypeOK'
  BY <1>1, <1>3 DEF PublishInv, TypeOK
<1>5. QuietWhenUnasked' /\ AcceptsOnRequest' /\ NobodyAtRest' /\ EmptyWhenUnplayed'
  BY <1>1 DEF PublishInv, QuietWhenUnasked, Unasked, AcceptsOnRequest, NobodyAtRest,
              EmptyWhenUnplayed
<1>6. Current'
  BY <1>1, <1>2 DEF PublishInv, Current, Holding
<1>q. QED
  BY <1>3, <1>4, <1>5, <1>6 DEF PublishInv

LEMMA OnFrameKeeps ==
    ASSUME PublishInv, OnFrame PROVE PublishInv'
<1>1. /\ accepting /\ pending' = session
      /\ UNCHANGED <<session, count, packet, queue, active, accepting, stopping, event, rtsp,
                     running, worker>>
  BY DEF OnFrame, server, clients, track, control, encode
<1>2. ~Unasked /\ ~stopping
  BY <1>1 DEF PublishInv, QuietWhenUnasked, AcceptsOnRequest
<1>3. TypeOK'
  BY <1>1 DEF PublishInv, TypeOK
<1>4. QuietWhenUnasked' /\ AcceptsOnRequest' /\ NobodyAtRest' /\ EmptyWhenUnplayed'
  BY <1>1, <1>2 DEF PublishInv, QuietWhenUnasked, Unasked, AcceptsOnRequest, NobodyAtRest,
                    EmptyWhenUnplayed
<1>5. Current' /\ OneStale'
  BY <1>1 DEF PublishInv, TypeOK, Current, OneStale, StaleOnce
<1>q. QED
  BY <1>3, <1>4, <1>5 DEF PublishInv

LEMMA WorkKeeps ==
    ASSUME PublishInv, Work PROVE PublishInv'
BY StepsThatMoveOn, MovesOnKeeps, ArmKeeps, TakeFrameKeeps, PushKeeps DEF Work
-----------------------------------------------------------------------------
(* The event thread and the application.                                   *)
LEMMA EventThreadKeeps ==
    ASSUME PublishInv, Setup \/ LeaveLoop \/ CloseServer PROVE PublishInv'
<1> USE DEF clients, track, control, encode
<1>1. /\ event = "none" \/ rtsp = "setup"
      /\ rtsp' \in {"loop", "closing", "closed"}
      /\ UNCHANGED <<session, count, pending, packet, queue, active, accepting, stopping, event,
                     worker, running>>
      /\ rtsp # "none"
  BY DEF Setup, LeaveLoop, CloseServer, InLoop
<1>2. NobodyAtRest'
  BY <1>1 DEF PublishInv, NobodyAtRest
<1>q. QED
  BY <1>1, <1>2, EventThreadMoves

LEMMA DeliveryKeeps ==
    ASSUME PublishInv, DoGetNextFrame \/ FrameArrived PROVE PublishInv'
<1>1. /\ UNCHANGED <<session, count, pending, packet, active, accepting, stopping, event, rtsp,
                     running, worker>>
      /\ queue' = queue \/ (queue # <<>> /\ queue' = Tail(queue))
  BY DEF DoGetNextFrame, FrameArrived, server, clients, control, encode
<1>2. CASE queue' = queue
  BY <1>1, <1>2, MovesOnKeeps DEF MovesOn
<1>q. QED
  BY <1>1, <1>2, TakingKeeps

(* A first client finds nothing in the queue and the sink at rest.         *)
LEMMA StartStreamKeeps ==
    ASSUME PublishInv, NEW c \in Clients, StartStream(c) PROVE PublishInv'
<1>1. /\ event = "none" /\ rtsp = "loop" /\ count' = count + 1
      /\ session' = (IF count = 0 THEN session + 1 ELSE session)
      /\ event' = (IF count = 0 THEN "first" ELSE "additional")
      /\ UNCHANGED <<pending, packet, queue, active, accepting, stopping, rtsp, running, worker>>
  BY DEF StartStream, InLoop, track, control, encode
<1>2. session \in Nat /\ count \in Nat /\ packet \in Nat
  BY DEF PublishInv, TypeOK
<1>3. TypeOK'
  BY <1>1, <1>2 DEF PublishInv, TypeOK
<1>4. QuietWhenUnasked' /\ AcceptsOnRequest' /\ NobodyAtRest' /\ EmptyWhenUnplayed'
  BY <1>1, <1>2 DEF PublishInv, QuietWhenUnasked, Unasked, AcceptsOnRequest, NobodyAtRest,
                    EmptyWhenUnplayed
<1>5. CASE count = 0
  <2>1. queue = <<>> /\ pending = 0 /\ session' = session + 1
    BY <1>1, <1>5 DEF PublishInv, EmptyWhenUnplayed, QuietWhenUnasked, Unasked
  <2>2. Current'
    BY <1>1, <1>2, <2>1 DEF PublishInv, Current
  <2>3. OneStale'
    BY <1>1, <1>2, <2>1, EmptyStaleOnce DEF OneStale
  <2>q. QED
    BY <1>3, <1>4, <2>2, <2>3 DEF PublishInv
<1>6. CASE count # 0
  <2>1. Current' /\ OneStale'
    BY <1>1, <1>6 DEF PublishInv, Current, OneStale, StaleOnce
  <2>q. QED
    BY <1>3, <1>4, <2>1 DEF PublishInv
<1>q. QED
  BY <1>5, <1>6

(* The last client leaves an empty queue, and the sink is to be told; so   *)
(* does a start or the end of the server.                                  *)
LEMMA DepartureKeeps ==
    ASSUME PublishInv,
           UNCHANGED <<session, pending, packet, active, accepting, stopping, worker>>,
           rtsp' \in {"none", "setup", "loop", "closing", "closed", "ending"}, NobodyAtRest',
           count' \in Nat, event' \in {"none", "left", "last"},
           queue' = queue \/ queue' = <<>>, count' = 0 => queue' = <<>> \/ count = 0,
           event = "none", count' = 0 /\ event' # "last" => count = 0
    PROVE  PublishInv'
<1>1. queue' \in Seq(Nat) /\ OneStale'
  BY ZenonT(60), EmptyStaleOnce DEF PublishInv, TypeOK, OneStale, StaleOnce
<1>2. TypeOK'
  BY <1>1 DEF PublishInv, TypeOK
<1>3. QuietWhenUnasked' /\ AcceptsOnRequest'
  BY DEF PublishInv, QuietWhenUnasked, Unasked, AcceptsOnRequest
<1>4. EmptyWhenUnplayed' /\ Current'
  BY DEF PublishInv, EmptyWhenUnplayed, Current
<1>q. QED
  BY <1>1, <1>2, <1>3, <1>4 DEF PublishInv

LEMMA DeleteStreamKeeps ==
    ASSUME PublishInv, NEW c \in Clients, DeleteStream(c) PROVE PublishInv'
<1>1. /\ rtsp \in {"loop", "closing"} /\ event = "none"
      /\ UNCHANGED <<session, pending, packet, active, accepting, stopping, worker, running, rtsp>>
      /\ \/ /\ count > 0 /\ count' = count - 1
            /\ queue' = (IF count = 1 THEN <<>> ELSE queue)
            /\ event' = (IF count = 1 THEN "last" ELSE "left")
         \/ event' = "left" /\ count' = count /\ queue' = queue
  BY DEF DeleteStream, control, encode
<1>2. count \in Nat
  BY DEF PublishInv, TypeOK
<1>3. NobodyAtRest'
  BY <1>1, <1>2 DEF PublishInv, NobodyAtRest
<1>q. QED
  BY <1>1, <1>2, <1>3, DepartureKeeps

LEMMA ResetKeeps ==
    ASSUME PublishInv, ResetClients PROVE PublishInv'
<1>1. /\ rtsp = "closed" /\ rtsp' = "ending" /\ count' = 0 /\ queue' = <<>>
      /\ event' = (IF count > 0 THEN "last" ELSE "none")
      /\ UNCHANGED <<session, pending, packet, active, accepting, stopping, worker, running>>
  BY DEF ResetClients, control, encode
<1>2. count \in Nat /\ event = "none" /\ running
  BY <1>1 DEF PublishInv, TypeOK, NobodyAtRest
<1>3. NobodyAtRest'
  BY <1>1, <1>2 DEF PublishInv, NobodyAtRest
<1>q. QED
  BY <1>1, <1>2, <1>3, DepartureKeeps

LEMMA StartKeeps ==
    ASSUME PublishInv, Start PROVE PublishInv'
<1>1. /\ ~running /\ running' = TRUE /\ rtsp' = "setup" /\ count' = 0 /\ queue' = <<>>
      /\ UNCHANGED <<event, session, pending, packet, active, accepting, stopping, worker>>
  BY DEF Start, control, encode
<1>2. count = 0 /\ event = "none"
  BY <1>1 DEF PublishInv, NobodyAtRest
<1>3. NobodyAtRest'
  BY <1>1, <1>2 DEF NobodyAtRest
<1>q. QED
  BY <1>1, <1>2, <1>3, DepartureKeeps

LEMMA DestroyKeeps ==
    ASSUME PublishInv, Destroy PROVE PublishInv'
<1>1. /\ active' = FALSE /\ accepting' = FALSE /\ pending' = 0 /\ stopping' = TRUE
      /\ UNCHANGED <<session, count, packet, queue, event, rtsp, running, worker>>
  BY DEF Destroy, server, clients, track, encode
<1>2. /\ active' \in BOOLEAN /\ accepting' \in BOOLEAN /\ stopping' \in BOOLEAN
      /\ ~active' /\ ~accepting'
  BY <1>1, Zenon
<1>3. TypeOK'
  BY <1>1, <1>2 DEF PublishInv, TypeOK
<1>4. QuietWhenUnasked' /\ AcceptsOnRequest'
  BY <1>1, <1>2 DEF QuietWhenUnasked, AcceptsOnRequest
<1>5. NobodyAtRest' /\ EmptyWhenUnplayed' /\ Current' /\ OneStale'
  BY <1>1 DEF PublishInv, NobodyAtRest, EmptyWhenUnplayed, Current, OneStale, StaleOnce
<1>q. QED
  BY <1>3, <1>4, <1>5 DEF PublishInv

(* What the sink makes of an event: the last one ends the request.         *)
LEMMA SinkIsTold ==
    ASSUME PublishInv, OnClientPlaybackEvent
    PROVE  /\ stopping' = stopping /\ active' \in BOOLEAN /\ accepting' \in BOOLEAN
           /\ pending' \in {0, pending}
           /\ accepting' => accepting /\ active'
           /\ stopping => ~active' /\ ~accepting' /\ pending' = 0
           /\ event = "last" => ~active' /\ ~accepting' /\ pending' = 0
           /\ event # "first" => (active' => active)
<1>1. /\ active \in BOOLEAN /\ accepting \in BOOLEAN /\ stopping \in BOOLEAN
      /\ event \in {"none", "first", "additional", "last", "left"}
      /\ accepting => active
      /\ stopping => ~active /\ ~accepting /\ pending = 0
  BY DEF PublishInv, TypeOK, AcceptsOnRequest
<1>2. stopping' = stopping
  BY DEF OnClientPlaybackEvent
<1>3. CASE UNCHANGED <<active, accepting, pending>> /\ event # "last"
  BY <1>1, <1>2, <1>3
<1>4. CASE UNCHANGED <<active, accepting, pending>> /\ stopping
  BY <1>1, <1>2, <1>4
<1>5. CASE ~stopping /\ event = "first"
  <2>1. active' = TRUE /\ UNCHANGED <<accepting, pending>>
    BY <1>5 DEF OnClientPlaybackEvent, SetActive
  <2>2. active' \in BOOLEAN /\ active'
    BY <2>1, Zenon
  <2>q. QED
    BY <1>1, <1>2, <1>5, <2>1, <2>2
<1>6. CASE ~stopping /\ event = "last"
  <2>1. active' = FALSE /\ accepting' = FALSE /\ pending' = 0
    BY <1>6 DEF OnClientPlaybackEvent, SetActive
  <2>2. active' \in BOOLEAN /\ accepting' \in BOOLEAN /\ ~active' /\ ~accepting'
    BY <2>1, Zenon
  <2>q. QED
    BY <1>2, <1>6, <2>1, <2>2
<1>7. event \in {"none", "additional", "left"} => UNCHANGED <<active, accepting, pending>>
  BY <1>1 DEF OnClientPlaybackEvent, RequestKeyFrame
<1>8. stopping /\ event \in {"first", "last"} => UNCHANGED <<active, accepting, pending>>
  BY <1>1 DEF OnClientPlaybackEvent, SetActive
<1>q. QED
  BY <1>1, <1>3, <1>4, <1>5, <1>6, <1>7, <1>8

LEMMA NotifyKeeps ==
    ASSUME PublishInv, NotifySink \/ EndThread PROVE PublishInv'
<1>1. /\ OnClientPlaybackEvent /\ event' = "none"
      /\ UNCHANGED <<session, count, packet, queue, worker>>
      /\ \/ rtsp \in {"loop", "closing"} /\ UNCHANGED <<rtsp, running>>
         \/ rtsp = "ending" /\ rtsp' = "none"
  BY DEF NotifySink, EndThread, clients, track, encode
<1>2. TypeOK'
  BY <1>1, SinkIsTold DEF PublishInv, TypeOK
<1>3. AcceptsOnRequest'
  BY <1>1, SinkIsTold DEF AcceptsOnRequest
<1>4. NobodyAtRest'
  BY <1>1 DEF PublishInv, NobodyAtRest
<1>5. QuietWhenUnasked'
  <2>1. SUFFICES ASSUME count = 0 PROVE ~active' /\ ~accepting' /\ pending' = 0
    BY <1>1 DEF QuietWhenUnasked, Unasked
  <2>2. event # "first"
    BY <2>1 DEF PublishInv, NobodyAtRest
  <2>3. CASE event = "last"
    BY <1>1, <2>3, SinkIsTold
  <2>4. CASE event # "last"
    <3>1. ~active /\ pending = 0
      BY <2>1, <2>4 DEF PublishInv, QuietWhenUnasked, Unasked
    <3>q. QED
      BY <1>1, <2>2, <3>1, SinkIsTold
  <2>q. QED
    BY <2>3, <2>4
<1>6. EmptyWhenUnplayed' /\ OneStale'
  BY <1>1 DEF PublishInv, EmptyWhenUnplayed, OneStale, StaleOnce
<1>7. Current'
  BY <1>1, SinkIsTold DEF PublishInv, Current
<1>q. QED
  BY <1>2, <1>3, <1>4, <1>5, <1>6, <1>7 DEF PublishInv
-----------------------------------------------------------------------------
LEMMA PublishInit ==
    ASSUME Init PROVE PublishInv
<1>1. active \in BOOLEAN /\ accepting \in BOOLEAN /\ stopping \in BOOLEAN /\ ~active /\ ~accepting
  BY Zenon DEF Init
<1>2. TypeOK
  BY <1>1 DEF Init, TypeOK
<1>3. QuietWhenUnasked /\ AcceptsOnRequest /\ NobodyAtRest /\ EmptyWhenUnplayed /\ Current
  BY <1>1 DEF Init, QuietWhenUnasked, AcceptsOnRequest, NobodyAtRest, EmptyWhenUnplayed, Current
<1>4. OneStale
  BY <1>2, EmptyStaleOnce DEF Init, TypeOK, OneStale
<1>q. QED
  BY <1>2, <1>3, <1>4 DEF PublishInv

LEMMA PublishNext ==
    ASSUME PublishInv, [Next]_vars PROVE PublishInv'
<1>1. CASE Work
  BY <1>1, WorkKeeps
<1>2. CASE Serve
  <2>1. CASE Setup \/ LeaveLoop \/ CloseServer
    BY <2>1, EventThreadKeeps
  <2>2. CASE DoGetNextFrame \/ FrameArrived
    BY <2>2, DeliveryKeeps
  <2>3. CASE NotifySink \/ EndThread
    BY <2>3, NotifyKeeps
  <2>4. CASE DeleteScheduler
    BY <2>4, StepsThatMoveOn, MovesOnKeeps
  <2>5. CASE ResetClients
    BY <2>5, ResetKeeps
  <2>q. QED
    BY <1>2, <2>1, <2>2, <2>3, <2>4, <2>5 DEF Serve
<1>3. ASSUME NEW c \in Clients, SetUpSession(c) \/ StartStream(c) \/ DeleteStream(c)
      PROVE  PublishInv'
  <2>1. CASE SetUpSession(c)
    BY <2>1, StepsThatMoveOn, MovesOnKeeps
  <2>q. QED
    BY <1>3, <2>1, StartStreamKeeps, DeleteStreamKeeps
<1>4. CASE Run
  <2>1. CASE Started \/ Stop \/ Stopped \/ Destroyed
    BY <2>1, StepsThatMoveOn, MovesOnKeeps
  <2>q. QED
    BY <1>4, <2>1, StartKeeps, DestroyKeeps DEF Run
<1>5. CASE OnFrame
  BY <1>5, OnFrameKeeps
<1>6. CASE UNCHANGED vars
  <2>1. MovesOn
    BY <1>6 DEF vars, server, clients, track, control, encode, MovesOn
  <2>q. QED
    BY <2>1, MovesOnKeeps
<1>q. QED
  BY <1>1, <1>2, <1>3, <1>4, <1>5, <1>6 DEF Next, Ask

(* A set any two elements of which are the same has one at most.           *)
LEMMA AtMostOne ==
    ASSUME NEW S, \A i, j \in S : i = j PROVE Cardinality(S) <= 1
<1>1. CASE S = {}
  BY <1>1, FS_EmptySet
<1>2. CASE S # {}
  <2>1. PICK x : S = {x}
    BY <1>2
  <2>q. QED
    BY <2>1, FS_Singleton
<1>q. QED
  BY <1>1, <1>2

(* No client, no frame, and of one audience's time the next is sent one    *)
(* unit at most (setActive, pushAnnexBFrame, onClientPlaybackStateChanged) *)
(* however the worker, the event thread and the camera meet.               *)
THEOREM AudiencesStayApart == Spec => []AudiencesApart
<1>1. Init => PublishInv
  BY PublishInit
<1>2. PublishInv /\ [Next]_vars => PublishInv'
  BY PublishNext
<1>3. ASSUME PublishInv PROVE AudiencesApart
  <2>1. NoClientNoFrame
    BY <1>3 DEF PublishInv, QuietWhenUnasked, Unasked, NoClientNoFrame
  <2>2. \A i, j \in {i \in DOMAIN queue : queue[i] < session} : i = j
    BY <1>3 DEF PublishInv, TypeOK, OneStale, StaleOnce
  <2>q. QED
    BY <2>1, <2>2, AtMostOne DEF AudiencesApart, AtMostOneStaleUnit
<1>q. QED
  BY <1>1, <1>2, <1>3, PTL DEF Spec
=============================================================================
