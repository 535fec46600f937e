---------------------------- MODULE PictureProofs ----------------------------
(***************************************************************************)
(* A picture from its decoder to those who watch it. The properties of     *)
(* FrameHub, for any number of sinks and frames, and that it implements    *)
(* FanOut; then the two properties of MppDecoder about the memory of a     *)
(* picture and whose picture it is, for any number of buffers, layouts,    *)
(* packets and failures. The two modules have no state in common.          *)
(***************************************************************************)
EXTENDS FrameHub, MppDecoder, SequenceTheorems, FiniteSetTheorems, TLAPS

(* m_publishMutex: a snapshot exists only while a publication runs, none   *)
(* runs on a closed hub. A sink somebody has a reference to is not         *)
(* destroyed.                                                              *)
HubInv ==
    /\ TypeOK
    /\ ~publishing => snapshot = {} /\ todo = {} /\ calling = NoEntry
    /\ closed => ~publishing /\ sinks = {}
    /\ todo \subseteq snapshot
    /\ calling # NoEntry => calling \in snapshot
    /\ sinks \subseteq used /\ snapshot \subseteq used
    /\ \A s \in destroyed : s \notin owned /\ s \notin SnapshotSinks
    /\ NoFrameMissed

(* The initial state satisfies the invariant.                              *)
LEMMA HubStarts == HubInit => HubInv
<1> SUFFICES ASSUME HubInit PROVE HubInv
  OBVIOUS
<1>1. TypeOK
  <2>1. 0 \in 0 .. MaxFrames
    BY FrameHubAssumption
  <2>2. published \in 0 .. MaxFrames /\ last \in [Entries -> 0 .. MaxFrames]
    BY <2>1 DEF HubInit
  <2>3. {} \in SUBSET Entries /\ {} \in SUBSET Sinks /\ Sinks \in SUBSET Sinks
    OBVIOUS
  <2>4. closed \in BOOLEAN /\ publishing \in BOOLEAN
    BY DEF HubInit
  <2> QED
    BY <2>2, <2>3, <2>4 DEF HubInit, TypeOK
<1>2. NoFrameMissed
  BY DEF HubInit, NoFrameMissed, Members
<1> QED
  BY <1>1, <1>2 DEF HubInit, HubInv

(* Steps of the application and of the manager keep it.                    *)
LEMMA HubApi ==
    ASSUME HubInv,
           \/ \E e \in Entries : AddSink(e)
           \/ \E s \in Sinks : DropSink(s)
           \/ RemoveSink \/ Close
    PROVE  HubInv'
<1> USE DEF HubInv, TypeOK, SnapshotSinks, publication
<1>1. ASSUME NEW e \in Entries, AddSink(e)
      PROVE  HubInv'
  <2>1. NoFrameMissed'
    BY <1>1 DEF AddSink, NoFrameMissed, Members, Live
  <2> QED
    BY <1>1, <2>1 DEF AddSink
<1>2. ASSUME NEW s \in Sinks, DropSink(s)
      PROVE  HubInv'
  <2>1. NoFrameMissed'
    BY <1>2 DEF DropSink, NoFrameMissed, Members, Live
  <2>2. (\A t \in destroyed : t \notin owned /\ t \notin SnapshotSinks)'
    BY <1>2 DEF DropSink
  <2> QED
    BY <1>2, <2>1, <2>2 DEF DropSink
<1>3. CASE RemoveSink
  BY <1>3 DEF RemoveSink, NoFrameMissed, Members
<1>4. CASE Close
  BY <1>4 DEF Close, NoFrameMissed, Members
<1> QED
  BY <1>1, <1>2, <1>3, <1>4

(* A publication keeps it.                                                 *)
LEMMA HubPublication ==
    ASSUME HubInv,
           \/ TakeSnapshot \/ SinkReturns \/ EndPublish
           \/ \E e \in Entries : CallSink(e)
    PROVE  HubInv'
<1> USE DEF HubInv, TypeOK, SnapshotSinks, api
<1>1. CASE TakeSnapshot
  <2>1. todo = {} /\ published \in Nat /\ published' = published + 1
    BY <1>1, FrameHubAssumption DEF TakeSnapshot
  <2>2. published' \in 0 .. MaxFrames
    BY <1>1, FrameHubAssumption DEF TakeSnapshot
  <2>3. CASE closed
    BY <1>1, <2>1, <2>2, <2>3 DEF TakeSnapshot, NoFrameMissed, Members
  <2>4. CASE ~closed
    <3>1. /\ sinks' = Members /\ snapshot' = Members /\ todo' = Members
          /\ publishing' /\ calling' = NoEntry /\ last' = last
          /\ UNCHANGED <<used, closed, owned, destroyed>>
      BY <1>1, <2>4 DEF TakeSnapshot, Members
    <3>2. NoFrameMissed'
      BY <2>1, <3>1 DEF NoFrameMissed, Members
    <3>3. (\A t \in destroyed : t \notin owned /\ t \notin SnapshotSinks)'
      BY <3>1 DEF Members, Live
    <3> QED
      BY <2>2, <2>4, <3>1, <3>2, <3>3 DEF Members
  <2> QED
    BY <2>3, <2>4
<1>2. CASE SinkReturns
  BY <1>2 DEF SinkReturns, NoFrameMissed, Members, Live
<1>3. CASE EndPublish
  <2>1. NoFrameMissed'
    BY <1>3 DEF EndPublish, NoFrameMissed, Members, Live
  <2> QED
    BY <1>3, <2>1, FrameHubAssumption DEF EndPublish
<1>4. ASSUME NEW e \in Entries, CallSink(e)
      PROVE  HubInv'
  <2>1. NoFrameMissed'
    BY <1>4 DEF CallSink, NoFrameMissed, Members, Live
  <2> QED
    BY <1>4, <2>1, FrameHubAssumption DEF CallSink
<1> QED
  BY <1>1, <1>2, <1>3, <1>4

(* Every step keeps it.                                                    *)
LEMMA HubSteps == HubInv /\ [HubNext]_hubVars => HubInv'
<1> SUFFICES ASSUME HubInv, [HubNext]_hubVars PROVE HubInv'
  OBVIOUS
<1>1. CASE UNCHANGED hubVars
  BY <1>1 DEF hubVars, api, publication, HubInv, TypeOK, SnapshotSinks, NoFrameMissed, Members, Live
<1>2. CASE HubNext
  BY <1>2, HubApi, HubPublication DEF HubNext
<1> QED
  BY <1>1, <1>2

(* The invariant holds throughout.                                         *)
LEMMA HubInvariant == HubSpec => []HubInv
BY HubStarts, HubSteps, PTL DEF HubSpec

(* No sink is called, or about to be called, once close() has returned.    *)
THEOREM ClosedHubIsSilent == HubSpec => []SilentOnceClosed
<1>1. HubInv => SilentOnceClosed
  BY DEF HubInv, SilentOnceClosed
<1> QED
  BY <1>1, HubInvariant, PTL

(* onFrame() never runs on a destroyed sink.                               *)
THEOREM SinksOutliveCalls == HubSpec => []CalledSinkLives
<1>1. HubInv => CalledSinkLives
  BY DEF HubInv, CalledSinkLives, SnapshotSinks
<1> QED
  BY <1>1, HubInvariant, PTL

(* Both together: a sink is called at no wrong time.                       *)
THEOREM SinksCalledSafely == HubSpec => []CallsAreSafe
<1>1. SilentOnceClosed /\ CalledSinkLives => CallsAreSafe
  BY DEF CallsAreSafe
<1> QED
  BY <1>1, ClosedHubIsSilent, SinksOutliveCalls, PTL

(* A registered sink is called with every frame.                           *)
THEOREM EveryFrameReachesMembers == HubSpec => []NoFrameMissed
<1>1. HubInv => NoFrameMissed
  BY DEF HubInv
<1> QED
  BY <1>1, HubInvariant, PTL
-----------------------------------------------------------------------------
(* A step of the hub is a step of FanOut, or changes nothing of it.        *)
LEMMA HubStep == HubInv /\ HubInv' /\ [HubNext]_hubVars => [Promise!Next]_Promise!vars
<1> SUFFICES ASSUME HubInv, HubInv', [HubNext]_hubVars
             PROVE  Promise!Next \/ UNCHANGED Promise!vars
  OBVIOUS
<1> USE DEF HubInv, TypeOK, Members, Live, api, publication
<1>1. ASSUME NEW e \in Entries, AddSink(e)
      PROVE  Promise!Subscribe(e)
  BY <1>1 DEF AddSink, Promise!Subscribe
<1>2. ASSUME NEW s \in Sinks, DropSink(s)
      PROVE  Promise!Leave
  <2>1. Members' = Members \ {e \in Members : SinkOf[e] = s}
    BY <1>2 DEF DropSink
  <2> QED
    BY <1>2, <2>1 DEF DropSink, Promise!Leave
<1>3. CASE RemoveSink
  <2>1. Members' = Members \ Members
    BY <1>3 DEF RemoveSink
  <2> QED
    BY <1>3, <2>1 DEF RemoveSink, Promise!Leave, Promise!Next
<1>4. CASE Close
  BY <1>4 DEF Close, Promise!Close, Promise!Next
<1>5. CASE TakeSnapshot
  BY <1>5 DEF TakeSnapshot, Promise!Publish, Promise!Next
<1>6. ASSUME NEW e \in Entries, CallSink(e)
      PROVE  Promise!Deliver(e)
  BY <1>6 DEF CallSink, Promise!Deliver
<1>7. CASE SinkReturns \/ EndPublish \/ UNCHANGED hubVars
  BY <1>7 DEF SinkReturns, EndPublish, hubVars, Promise!vars
<1> QED
  BY <1>1, <1>2, <1>3, <1>4, <1>5, <1>6, <1>7 DEF HubNext, Promise!Next

(* The hub keeps the promise of FanOut: each sink gets every frame from    *)
(* its addSink() until it leaves, once and in order, and none after        *)
(* close().                                                                *)
THEOREM HubImplementsFanOut == HubSpec => KeepsPromise
<1>1. HubInit => Promise!Init
  BY DEF HubInit, Promise!Init, Members
<1> QED
  BY <1>1, HubInvariant, HubStep, PTL DEF HubSpec, KeepsPromise, Promise!Spec
-----------------------------------------------------------------------------
(* MppDecoder: the frames and requests that MPP has, the packets it waits  *)
(* for.                                                                    *)

Frames == [kind : {"frame"}, buffer : Buffers]
Infos == [kind : {"info"}, layout : {"none"} \union Layouts]

Packets == [id : Nat, layout : {"none"} \union Layouts, output : {"none"} \union Outputs]

FramesOK ==
    /\ ready \in Seq(Frames \union Infos) /\ pending \in Seq(Packets)
    /\ fds \in SUBSET Buffers /\ group \in SUBSET Buffers /\ waiting \in BOOLEAN
    /\ work \in Packets /\ sent \in Nat

(* A request for new buffers is the last that MPP has said, and it waits   *)
(* for an answer: no picture comes after it.                               *)
InfoIsLast ==
    \A i \in 1..Len(ready) : ready[i].kind = "info" => i = Len(ready) /\ waiting

(* As long as MPP does not wait, what it takes buffers from is open. When  *)
(* it waits after a failed info change, it may not be.                     *)
GroupIsOpen == waiting \/ group \subseteq fds

MemoryInv ==
    FramesOK /\ InfoIsLast /\ GroupIsOpen /\ PicturesHaveMemory

(* The task of the call in progress is the only one, unless one was left   *)
(* behind; its result is the picture of the call.                          *)
Done(w) == content[w.output].of = w.id

TaskIsOwn ==
    \/ abandoned
    \/ pc \notin {"result", "recycle"} /\ jobs = <<>> /\ results = <<>>
    \/ pc = "result" /\ jobs = <<work>> /\ results = <<>>
    \/ pc = "result" /\ jobs = <<>> /\ results = <<work.id>> /\ Done(work)
    \/ pc = "recycle" /\ jobs = <<>> /\ results = <<>> /\ Done(work)

TaskInv ==
    /\ DOMAIN content = Outputs
    /\ pc \in {"bind", "submit", "result", "recycle"} => work.output \in Outputs
    /\ TaskIsOwn
-----------------------------------------------------------------------------
(* Memory.                                                                 *)

(* A decoder that is released has no frame and no buffer.                  *)
LEMMA ReleaseKeepsMemory ==
    ASSUME ReleaseStream, work' \in Packets, sent' \in Nat PROVE MemoryInv'
<1>1. ready' = <<>> /\ pending' = <<>> /\ fds' = {} /\ group' = {} /\ waiting' = FALSE
  BY DEF ReleaseStream, ReleaseExtDmaFds
<1>2. waiting' \in BOOLEAN
  BY <1>1, Zenon
<1>3. FramesOK'
  BY <1>1, <1>2 DEF FramesOK
<1>4. InfoIsLast' /\ GroupIsOpen' /\ PicturesHaveMemory'
  BY <1>1 DEF InfoIsLast, GroupIsOpen, PicturesHaveMemory
<1>q. QED
  BY <1>3, <1>4 DEF MemoryInv

(* A step that leaves memory and frames alone.                             *)
LEMMA SameMemory ==
    ASSUME MemoryInv, UNCHANGED <<fds, group, waiting, ready>>,
           pending' \in Seq(Packets), work' \in Packets, sent' \in Nat
    PROVE  MemoryInv'
<1>1. FramesOK'
  BY DEF MemoryInv, FramesOK
<1>2. InfoIsLast' /\ GroupIsOpen' /\ PicturesHaveMemory'
  BY DEF MemoryInv, InfoIsLast, GroupIsOpen, PicturesHaveMemory
<1>q. QED
  BY <1>1, <1>2 DEF MemoryInv

LEMMA NothingIsPacket == Nothing \in Packets
BY DEF Nothing, Packets

(* The calls: a decoder is released first, or nothing is done to it.       *)
LEMMA CallKeepsMemory ==
    ASSUME MemoryInv, Call PROVE MemoryInv'
<1>1. sent \in Nat /\ work \in Packets /\ pending \in Seq(Packets)
  BY DEF MemoryInv, FramesOK
<1>2. ASSUME NEW c \in {"stream", "mjpeg"}, InitDecoder(c) \/ ImplicitInitFails(c)
      PROVE  MemoryInv'
  <2>1. ReleaseStream /\ work' = work /\ (sent' = sent \/ sent' = sent + 1)
    BY <1>2 DEF InitDecoder, ImplicitInitFails, Initialized, InitFails, Released
  <2>q. QED
    BY <1>1, <2>1, ReleaseKeepsMemory
<1>3. CASE Deinit
  <2>1. ReleaseStream /\ work' = work /\ sent' = sent
    BY <1>3 DEF Deinit, Released
  <2>q. QED
    BY <1>1, <2>1, ReleaseKeepsMemory
<1>4. ASSUME NEW l \in Layouts, SendPacket(l) PROVE MemoryInv'
  <2>1. work' \in Packets /\ sent' \in Nat
    BY <1>1, <1>4 DEF SendPacket, Packets
  <2>2. UNCHANGED <<memory, waiting, pending, ready>> \/ ReleaseStream
    BY <1>4 DEF SendPacket, Initialized, Released, stream
  <2>3. CASE UNCHANGED <<memory, waiting, pending, ready>>
    BY <1>1, <2>1, <2>3, SameMemory DEF memory
  <2>q. QED
    BY <2>1, <2>2, <2>3, ReleaseKeepsMemory
<1>5. ASSUME NEW o \in Outputs, DecodeMjpeg(o) PROVE MemoryInv'
  <2>1. work' \in Packets /\ sent' \in Nat
    BY <1>1, <1>5 DEF DecodeMjpeg, Packets
  <2>2. UNCHANGED <<memory, waiting, pending, ready>> \/ ReleaseStream
    BY <1>5 DEF DecodeMjpeg, Initialized, Released, stream
  <2>3. CASE UNCHANGED <<memory, waiting, pending, ready>>
    BY <1>1, <2>1, <2>3, SameMemory DEF memory
  <2>q. QED
    BY <2>1, <2>2, <2>3, ReleaseKeepsMemory
<1>q. QED
  BY <1>2, <1>3, <1>4, <1>5 DEF Call

LEMMA NoneIsEmpty ==
    ASSUME NEW S, NEW s \in Seq(S), Len(s) = 0 PROVE s = <<>>
<1>1. s # <<>> => Len(s) \in Nat \ {0}
  BY EmptySeq
<1>q. QED
  BY <1>1

(* What the worker takes is the head; if that asks for new buffers, there  *)
(* is nothing behind it.                                                   *)
LEMMA TakenFromReady ==
    ASSUME MemoryInv, ready # <<>>
    PROVE  /\ Tail(ready) \in Seq(Frames \union Infos)
           /\ \A i \in 1..Len(Tail(ready)) : /\ Tail(ready)[i] = ready[i + 1]
                                             /\ i + 1 \in 1..Len(ready)
           /\ Len(Tail(ready)) = Len(ready) - 1 /\ Len(ready) \in Nat
           /\ Head(ready).kind = "info" => waiting /\ Tail(ready) = <<>>
<1>1. ready \in Seq(Frames \union Infos)
  BY DEF MemoryInv, FramesOK
<1>2. /\ Tail(ready) \in Seq(Frames \union Infos) /\ Len(ready) \in Nat /\ Len(ready) > 0
      /\ Len(Tail(ready)) = Len(ready) - 1 /\ Head(ready) = ready[1]
      /\ \A i \in 1..Len(Tail(ready)) : Tail(ready)[i] = ready[i + 1]
  BY <1>1
<1>3. ASSUME Head(ready).kind = "info" PROVE waiting /\ Tail(ready) = <<>>
  <2>1. 1 \in 1..Len(ready) /\ ready[1].kind = "info"
    BY <1>2, <1>3
  <2>2. \A i \in 1..Len(ready) : ready[i].kind = "info" => i = Len(ready) /\ waiting
    BY DEF MemoryInv, InfoIsLast
  <2>3. 1 = Len(ready) /\ waiting
    BY <2>1, <2>2, Zenon
  <2>4. Len(Tail(ready)) = 0
    <3>1. Len(ready) = 1 /\ Len(Tail(ready)) = Len(ready) - 1
      BY <1>2, <2>3, Zenon
    <3>2. Len(ready) - 1 = 0
      BY <3>1, SMT
    <3>q. QED
      BY <3>1, <3>2, Zenon
  <2>5. Tail(ready) = <<>>
    <3>1. Tail(ready) \in Seq(Frames \union Infos)
      BY <1>2, Zenon
    <3>q. QED
      BY <3>1, <2>4, NoneIsEmpty, Zenon
  <2>q. QED
    BY <2>3, <2>5, Zenon
<1>q. QED
  BY <1>2, <1>3

LEMMA TakeFrameKeepsMemory ==
    ASSUME MemoryInv, TakeFrame PROVE MemoryInv'
<1>1. /\ ready # <<>> /\ ready' = Tail(ready)
      /\ UNCHANGED <<fds, group, waiting, pending, work, sent>>
  BY DEF TakeFrame, memory
<1>2. FramesOK'
  BY <1>1, TakenFromReady DEF MemoryInv, FramesOK
<1>3. InfoIsLast' /\ GroupIsOpen'
  BY <1>1, TakenFromReady DEF MemoryInv, InfoIsLast, GroupIsOpen
<1>4. PicturesHaveMemory'
  <2>1. \A i \in 1..Len(ready) : ready[i].kind = "frame" => ready[i].buffer \in fds \cap group
    BY DEF MemoryInv, PicturesHaveMemory, FramesOK
  <2>q. QED
    BY <1>1, <2>1, TakenFromReady DEF PicturesHaveMemory
<1>q. QED
  BY <1>2, <1>3, <1>4 DEF MemoryInv

(* The old buffers go only when no picture is left in them.                *)
LEMMA ChangeInfoKeepsMemory ==
    ASSUME MemoryInv, ChangeInfo PROVE MemoryInv'
<1>1. /\ ready' = <<>> /\ waiting /\ fds' \in SUBSET Buffers /\ group' \in SUBSET Buffers
      /\ UNCHANGED <<pending, sent>> /\ work' \in Packets
      /\ \/ fds' = Buffers /\ group' = Buffers /\ waiting' = FALSE
         \/ waiting' = waiting
  BY TakenFromReady, NothingIsPacket
  DEF ChangeInfo, CreateDmabufFds, ReleaseExtDmaFds, Return, MemoryInv, FramesOK
<1>2. waiting' \in BOOLEAN /\ (waiting' \/ group' \subseteq fds')
  <2>1. CASE waiting' = FALSE /\ fds' = Buffers /\ group' = Buffers
    <3>1. waiting' \in BOOLEAN
      BY <2>1, Zenon
    <3>q. QED
      BY <2>1, <3>1
  <2>2. CASE waiting' = waiting
    BY <1>1, <2>2 DEF MemoryInv, FramesOK
  <2>q. QED
    BY <1>1, <2>1, <2>2
<1>3. FramesOK'
  BY <1>1, <1>2 DEF MemoryInv, FramesOK
<1>4. InfoIsLast' /\ GroupIsOpen' /\ PicturesHaveMemory'
  BY <1>1, <1>2 DEF InfoIsLast, GroupIsOpen, PicturesHaveMemory
<1>q. QED
  BY <1>3, <1>4 DEF MemoryInv

(* MPP takes buffers from the group while it does not wait, and asks for   *)
(* new ones as its last word.                                              *)
LEMMA DecodeKeepsMemory ==
    ASSUME MemoryInv, Decode PROVE MemoryInv'
<1>1. /\ ~waiting /\ pending # <<>> /\ UNCHANGED <<fds, group, work, sent>>
      /\ ready \in Seq(Frames \union Infos) /\ pending \in Seq(Packets)
      /\ Head(pending) \in Packets /\ Tail(pending) \in Seq(Packets)
  BY DEF Decode, call, memory, MemoryInv, FramesOK
<1>2. group \subseteq fds /\ \A i \in 1..Len(ready) : ready[i].kind # "info"
  BY <1>1 DEF MemoryInv, GroupIsOpen, InfoIsLast
<1>3. \A i \in 1..Len(ready) : ready[i].kind = "frame" => ready[i].buffer \in fds \cap group
  BY <1>1 DEF MemoryInv, PicturesHaveMemory
<1>4. ASSUME NEW r \in Frames \union Infos, ready' = Append(ready, r),
             r.kind = "info" => waiting',
             r.kind = "frame" => r.buffer \in group /\ waiting' = waiting,
             pending' \in Seq(Packets), waiting' \in BOOLEAN
      PROVE  MemoryInv'
  <2>1. /\ ready' \in Seq(Frames \union Infos) /\ Len(ready') = Len(ready) + 1
        /\ Len(ready) \in Nat /\ ready'[Len(ready) + 1] = r
        /\ \A i \in 1..Len(ready) : ready'[i] = ready[i]
    BY <1>1, <1>4
  <2>2. FramesOK'
    BY <1>1, <1>4, <2>1 DEF MemoryInv, FramesOK
  <2>3. InfoIsLast'
    BY <1>2, <1>4, <2>1 DEF InfoIsLast
  <2>4. GroupIsOpen'
    BY <1>1, <1>2 DEF GroupIsOpen
  <2>5. PicturesHaveMemory'
    BY <1>1, <1>2, <1>3, <1>4, <2>1 DEF PicturesHaveMemory
  <2>q. QED
    BY <2>2, <2>3, <2>4, <2>5 DEF MemoryInv
<1>5. CASE /\ ready' = Append(ready, [kind |-> "info", layout |-> Head(pending).layout])
           /\ waiting' = TRUE /\ UNCHANGED pending
  <2>1. waiting' \in BOOLEAN /\ waiting'
    BY <1>5, Zenon
  <2>2. [kind |-> "info", layout |-> Head(pending).layout] \in Infos
    BY <1>1 DEF Infos, Packets
  <2>q. QED
    BY <1>1, <1>4, <1>5, <2>1, <2>2
<1>6. CASE /\ \E b \in FreeBuffers : ready' = Append(ready, [kind |-> "frame", buffer |-> b])
           /\ pending' = Tail(pending) /\ UNCHANGED waiting
  <2>1. PICK b \in group : ready' = Append(ready, [kind |-> "frame", buffer |-> b])
    BY <1>6 DEF FreeBuffers
  <2>2. [kind |-> "frame", buffer |-> b] \in Frames /\ waiting' \in BOOLEAN
    BY <1>6 DEF Frames, MemoryInv, FramesOK
  <2>q. QED
    BY <1>1, <1>4, <1>6, <2>1, <2>2
<1>q. QED
  BY <1>5, <1>6 DEF Decode

(* What the worker does without the memory of the frames.                  *)
LEMMA RestKeepsMemory ==
    ASSUME MemoryInv,
           \/ PutPacket \/ NoFrame \/ BindBuffers \/ Submit \/ TakeResult
           \/ Recycle \/ Finish \/ UNCHANGED vars
    PROVE  MemoryInv'
<1>1. sent \in Nat /\ work \in Packets /\ pending \in Seq(Packets)
  BY DEF MemoryInv, FramesOK
<1>2. /\ UNCHANGED <<fds, group, waiting, ready, sent>>
      /\ work' = work \/ work' = Nothing
      /\ pending' = pending \/ pending' = Append(pending, work)
  <2>1. CASE PutPacket
    BY <2>1 DEF PutPacket, memory
  <2>2. CASE NoFrame
    BY <2>2 DEF NoFrame, Return, stream, memory
  <2>3. CASE BindBuffers
    BY <2>3 DEF BindBuffers, Return, stream, memory
  <2>4. CASE Submit
    BY <2>4 DEF Submit, Return, stream, memory
  <2>5. CASE TakeResult
    BY <2>5 DEF TakeResult, Return, stream, memory
  <2>6. CASE Recycle
    BY <2>6 DEF Recycle, Return, stream, memory
  <2>7. CASE Finish
    BY <2>7 DEF Finish, call, stream, memory
  <2>8. CASE UNCHANGED vars
    BY <2>8 DEF vars, call, stream, memory
  <2>q. QED
    BY <2>1, <2>2, <2>3, <2>4, <2>5, <2>6, <2>7, <2>8
<1>3. sent' \in Nat /\ work' \in Packets /\ pending' \in Seq(Packets)
  <2>1. Append(pending, work) \in Seq(Packets)
    BY <1>1
  <2>q. QED
    BY <1>1, <1>2, <2>1, NothingIsPacket
<1>q. QED
  BY <1>2, <1>3, SameMemory

LEMMA MemoryInit == Init => MemoryInv
<1> SUFFICES ASSUME Init PROVE MemoryInv
  OBVIOUS
<1>1. ready = <<>> /\ pending = <<>> /\ fds = {} /\ group = {} /\ waiting = FALSE
      /\ work = Nothing /\ sent = 0
  BY DEF Init
<1>2. waiting \in BOOLEAN
  BY <1>1, Zenon
<1>3. FramesOK
  BY <1>1, <1>2, NothingIsPacket DEF FramesOK
<1>4. InfoIsLast /\ GroupIsOpen /\ PicturesHaveMemory
  BY <1>1 DEF InfoIsLast, GroupIsOpen, PicturesHaveMemory
<1>q. QED
  BY <1>3, <1>4 DEF MemoryInv

LEMMA MemoryNext == MemoryInv /\ [Next]_vars => MemoryInv'
<1> SUFFICES ASSUME MemoryInv, [Next]_vars PROVE MemoryInv'
  OBVIOUS
<1>q. QED
  BY CallKeepsMemory, TakeFrameKeepsMemory, ChangeInfoKeepsMemory,
     DecodeKeepsMemory, RestKeepsMemory
  DEF Next, Worker, Mpp

(* A picture that waits for the worker lies in a buffer whose descriptor   *)
(* is open and that the group of MPP has (mpp_simple.c).                   *)
THEOREM PicturesKeepMemory == Spec => []PicturesHaveMemory
<1>1. MemoryInv => PicturesHaveMemory
  BY DEF MemoryInv
<1>q. QED
  BY <1>1, MemoryInit, MemoryNext, PTL DEF Spec
-----------------------------------------------------------------------------
(* Tasks.                                                                  *)

LEMMA OneTask ==
    ASSUME NEW w
    PROVE  Append(<<>>, w) = <<w>> /\ Head(<<w>>) = w /\ Tail(<<w>>) = <<>> /\ <<w>> # <<>>
OBVIOUS

(* Without a task in progress there is none, or one was left behind.       *)
LEMMA NoTask ==
    ASSUME TaskInv, pc \notin {"result", "recycle"}
    PROVE  abandoned \/ (jobs = <<>> /\ results = <<>>)
BY DEF TaskInv, TaskIsOwn

LEMMA QuietKeepsTask ==
    ASSUME TaskInv, pc \notin {"result", "recycle"}, pc' \notin {"result", "recycle"},
           pc' \in {"bind", "submit"} => work'.output \in Outputs,
           content' = content,
           \/ UNCHANGED <<jobs, results, abandoned>>
           \/ jobs' = <<>> /\ results' = <<>>
    PROVE  TaskInv'
<1>1. DOMAIN content' = Outputs
  BY DEF TaskInv
<1>2. abandoned' \/ (jobs' = <<>> /\ results' = <<>>)
  BY NoTask
<1>3. TaskIsOwn'
  BY <1>2 DEF TaskIsOwn
<1>q. QED
  BY <1>1, <1>3 DEF TaskInv

LEMMA CallKeepsTask ==
    ASSUME TaskInv, Call PROVE TaskInv'
<1>1. ASSUME NEW c \in {"stream", "mjpeg"}, InitDecoder(c) \/ ImplicitInitFails(c)
      PROVE  TaskInv'
  <2>1. /\ pc = "idle" /\ pc' = pc /\ content' = content
        /\ jobs' = <<>> /\ results' = <<>>
    BY <1>1 DEF InitDecoder, ImplicitInitFails, Initialized, InitFails, Released,
                ReleaseTasks
  <2>q. QED
    BY <2>1, QuietKeepsTask
<1>2. CASE Deinit
  <2>1. /\ pc = "idle" /\ pc' = pc /\ content' = content
        /\ jobs' = <<>> /\ results' = <<>>
    BY <1>2 DEF Deinit, Released, ReleaseTasks
  <2>q. QED
    BY <2>1, QuietKeepsTask
<1>3. ASSUME NEW l \in Layouts, SendPacket(l) PROVE TaskInv'
  <2>1. /\ pc = "idle" /\ pc' = "put" /\ content' = content
        /\ \/ UNCHANGED <<jobs, results, abandoned>>
           \/ jobs' = <<>> /\ results' = <<>>
    BY <1>3 DEF SendPacket, ports, Initialized, Released, ReleaseTasks
  <2>q. QED
    BY <2>1, QuietKeepsTask
<1>4. ASSUME NEW o \in Outputs, DecodeMjpeg(o) PROVE TaskInv'
  <2>1. /\ pc = "idle" /\ pc' = "bind" /\ content' = content
        /\ work' = [id |-> sent + 1, layout |-> "none", output |-> o]
        /\ \/ UNCHANGED <<jobs, results, abandoned>>
           \/ jobs' = <<>> /\ results' = <<>>
    BY <1>4 DEF DecodeMjpeg, ports, Initialized, Released, ReleaseTasks
  <2>2. work'.output \in Outputs
    BY <2>1
  <2>q. QED
    BY <2>1, <2>2, QuietKeepsTask
<1>q. QED
  BY <1>1, <1>2, <1>3, <1>4 DEF Call

LEMMA FramesKeepTask ==
    ASSUME TaskInv,
           \/ PutPacket \/ NoFrame \/ TakeFrame
           \/ ChangeInfo \/ BindBuffers
    PROVE  TaskInv'
<1>1. UNCHANGED <<jobs, results, abandoned>> /\ content' = content
  BY DEF PutPacket, NoFrame, TakeFrame, ChangeInfo, BindBuffers,
         task, ports
<1>2. pc \in {"put", "poll", "bind"} /\ pc' \in {"put", "poll", "idle", "submit"}
  BY DEF PutPacket, NoFrame, TakeFrame, ChangeInfo, BindBuffers, Return
<1>3. pc' = "submit" => pc = "bind" /\ work' = work
  BY DEF PutPacket, NoFrame, TakeFrame, ChangeInfo, BindBuffers, Return
<1>4. pc' \in {"bind", "submit"} => work'.output \in Outputs
  BY <1>2, <1>3 DEF TaskInv
<1>q. QED
  BY <1>1, <1>2, <1>4, QuietKeepsTask

(* The only task of the decoder is the one of this call.                   *)
LEMMA SubmitKeepsTask ==
    ASSUME TaskInv, Submit PROVE TaskInv'
<1>1. /\ pc = "submit" /\ UNCHANGED <<content, results, abandoned>>
      /\ DOMAIN content = Outputs /\ work.output \in Outputs
  BY DEF Submit, TaskInv
<1>2. abandoned \/ (jobs = <<>> /\ results = <<>>)
  BY <1>1, NoTask
<1>3. CASE jobs' = Append(jobs, work) /\ pc' = "result" /\ work' = work
  <2>1. TaskIsOwn'
    BY <1>1, <1>2, <1>3, OneTask DEF TaskIsOwn
  <2>q. QED
    BY <1>1, <1>3, <2>1 DEF TaskInv
<1>4. CASE pc' = "idle" /\ jobs' = jobs
  BY <1>1, <1>4, QuietKeepsTask
<1>q. QED
  BY <1>3, <1>4 DEF Submit, Return

(* The result that is there is the one of this call.                       *)
LEMMA TakeResultKeepsTask ==
    ASSUME TaskInv, TakeResult PROVE TaskInv'
<1>1. /\ pc = "result" /\ UNCHANGED <<content, jobs>>
      /\ DOMAIN content = Outputs /\ work.output \in Outputs
  BY DEF TakeResult, TaskInv
<1>2. results # <<>> => \/ abandoned
                        \/ jobs = <<>> /\ results = <<work.id>> /\ Done(work)
  BY <1>1 DEF TaskInv, TaskIsOwn
<1>3. CASE /\ results # <<>> /\ results' = Tail(results) /\ pc' = "recycle"
           /\ UNCHANGED <<work, abandoned>>
  <2>1. abandoned' \/ (jobs' = <<>> /\ results' = <<>> /\ Done(work)')
    BY <1>1, <1>2, <1>3, OneTask DEF Done
  <2>2. TaskIsOwn'
    BY <1>3, <2>1 DEF TaskIsOwn
  <2>q. QED
    BY <1>1, <1>3, <2>2 DEF TaskInv
<1>4. CASE results # <<>> /\ results' = Tail(results) /\ pc' = "idle" /\ UNCHANGED abandoned
  <2>1. abandoned' \/ (jobs' = <<>> /\ results' = <<>>)
    BY <1>1, <1>2, <1>4, OneTask
  <2>2. TaskIsOwn'
    BY <1>4, <2>1 DEF TaskIsOwn
  <2>q. QED
    BY <1>1, <1>4, <2>2 DEF TaskInv
<1>5. CASE abandoned' = TRUE /\ pc' = "idle"
  <2>1. TaskIsOwn'
    BY <1>5 DEF TaskIsOwn
  <2>q. QED
    BY <1>1, <1>5, <2>1 DEF TaskInv
<1>q. QED
  BY <1>3, <1>4, <1>5 DEF TakeResult, Return

LEMMA RecycleKeepsTask ==
    ASSUME TaskInv, Recycle PROVE TaskInv'
<1>1. pc = "recycle" /\ pc' = "idle" /\ UNCHANGED <<content, jobs, results, abandoned>>
  BY DEF Recycle, Return
<1>2. abandoned \/ (jobs = <<>> /\ results = <<>>)
  BY <1>1 DEF TaskInv, TaskIsOwn
<1>3. TaskIsOwn'
  BY <1>1, <1>2 DEF TaskIsOwn
<1>q. QED
  BY <1>1, <1>3 DEF TaskInv

(* The hardware decodes the picture of the call into its output.           *)
LEMMA FinishKeepsTask ==
    ASSUME TaskInv, Finish PROVE TaskInv'
<1>1. /\ jobs # <<>> /\ results' = Append(results, Head(jobs).id) /\ jobs' = Tail(jobs)
      /\ UNCHANGED <<pc, work, abandoned>>
  BY DEF Finish, call
<1>2. PICK intact \in BOOLEAN :
         content' = [content EXCEPT ![Head(jobs).output] =
                        [of |-> Head(jobs).id, intact |-> intact]]
  BY DEF Finish
<1>3. DOMAIN content' = Outputs
  BY <1>2 DEF TaskInv
<1>4. TaskIsOwn'
  <2>1. CASE abandoned
    BY <1>1, <2>1 DEF TaskIsOwn
  <2>2. CASE pc = "result" /\ jobs = <<work>> /\ results = <<>>
    <3>1. Head(jobs) = work /\ jobs' = <<>> /\ results' = <<work.id>>
      BY <1>1, <2>2, OneTask
    <3>2. work.output \in DOMAIN content
      BY <2>2 DEF TaskInv
    <3>3. content'[work.output] = [of |-> work.id, intact |-> intact]
      BY <1>2, <3>1, <3>2
    <3>4. Done(work)'
      BY <1>1, <3>3 DEF Done
    <3>q. QED
      BY <1>1, <2>2, <3>1, <3>4 DEF TaskIsOwn
  <2>q. QED
    BY <1>1, <2>1, <2>2 DEF TaskInv, TaskIsOwn
<1>q. QED
  BY <1>1, <1>3, <1>4 DEF TaskInv

LEMMA TaskInit == Init => TaskInv
BY DEF Init, TaskInv, TaskIsOwn

LEMMA TaskNext == TaskInv /\ [Next]_vars => TaskInv'
<1> SUFFICES ASSUME TaskInv, [Next]_vars PROVE TaskInv'
  OBVIOUS
<1>1. CASE Decode \/ UNCHANGED vars
  <2>1. UNCHANGED <<pc, work, content, jobs, results, abandoned>>
    BY <1>1 DEF Decode, vars, call, task, ports
  <2>q. QED
    BY <2>1 DEF TaskInv, TaskIsOwn, Done
<1>q. QED
  BY <1>1, CallKeepsTask, FramesKeepTask, SubmitKeepsTask, TakeResultKeepsTask,
     RecycleKeepsTask, FinishKeepsTask
  DEF Next, Worker, Mpp

(* decodeMjpeg() answers with the picture of its own input, unless a call  *)
(* before it gave up and left its task behind (mpp_advance.c).             *)
THEOREM ResultStaysOwn == Spec => ResultIsOwn
<1>1. TaskInv /\ [Next]_vars
      => [answer' = "decoded" /\ pc = "recycle" =>
             abandoned \/ content[work.output].of = work.id]_vars
  BY DEF TaskInv, TaskIsOwn, Done
<1>q. QED
  BY <1>1, TaskInit, TaskNext, PTL DEF Spec, ResultIsOwn
=============================================================================
