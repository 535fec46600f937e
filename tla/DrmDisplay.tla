----------------------------- MODULE DrmDisplay -----------------------------
(***************************************************************************)
(* Direct display of an RTSP stream: RtspDrmPipeline (a queue of NALUs, a  *)
(* decode thread, a pool of output buffers), DrmPresenter (the leases of   *)
(* the front and of the pending picture) and drm_display.c (the choice of  *)
(* the display route, a cache of FB_COUNT framebuffers, page flips). The   *)
(* kernel, which flips at a vertical blank, and the decoder are external.  *)
(***************************************************************************)
EXTENDS Naturals, Sequences, SequencesExt, FiniteSets

CONSTANTS Buffers,     \* the output pool
          FB_COUNT,    \* slots of the framebuffer cache
          Boards,      \* the display hardware there can be
          ScanLimit,   \* DRM_MAX_CONNECTORS, _ENCODERS, _CRTCS, _PLANES...
          Layouts,     \* picture layouts of a stream
          Format,      \* the format the pool has
          QueueLimit,  \* kMaxQueuedNalus
          MaxStarts,   \* calls of start(), a bound
          MaxFailures  \* failures of the kernel, RGA and MPP, a bound

None == "none"

ASSUME DrmDisplayAssumption ==
    /\ None \notin Buffers \union Layouts
    /\ FB_COUNT \in Nat \ {0} /\ ScanLimit \in Nat \ {0} /\ QueueLimit \in Nat \ {0}
    /\ MaxStarts \in Nat /\ MaxFailures \in Nat

(* What RoomForNextFrame needs of kOutputPoolBufferCount, which is 4, and  *)
(* of FB_COUNT, which is 3.                                                *)
ASSUME EnoughForOneThread ==
    IsFiniteSet(Buffers) /\ Cardinality(Buffers) > 2 /\ FB_COUNT > 1

VARIABLES
    board,          \* the hardware there is
    owner,          \* where the thread that calls start() and stop() is
    client,         \* the RTSP client is up
    queue,          \* length of m_nalus
    accepting,      \* m_acceptingNalus
    stopRequested,  \* m_stopRequested
    thought,        \* m_decoderInitialized
    decoder,        \* the decoder of the decode thread is initialized
    pc,             \* where the decode thread is
    work,           \* the output buffer it works on
    poolLayout,     \* the layout of the pool, None before ensureOutputPool()
    free,           \* buffers acquireFrame() can hand out
    initialized,    \* m_initialized
    route,          \* the connector, CRTC, plane and mode that were chosen
    modeset,        \* modeset_done
    slots,          \* drm_fds: the buffer of each framebuffer and its state
    front, pending, \* front_idx and pending_idx, 0 for -1
    hasFront,       \* m_hasFrontFrame
    frontPacket, pendingPacket,  \* the leases of the presenter
    screen,         \* the buffer the CRTC scans out
    queued,         \* the buffer it scans out from the next vertical blank
    event,          \* a page flip event waits at drm_fd
    startsLeft, failuresLeft

input  == <<client, queue, accepting, stopRequested>>
thread == <<thought, decoder, pc, work>>
pool   == <<poolLayout, free>>
slotsOf == <<slots, front, pending>>
ctx    == <<initialized, route, modeset, slotsOf>>
leases == <<hasFront, frontPacket, pendingPacket>>
kernel == <<screen, queued, event>>
bounds == <<startsLeft, failuresLeft>>
vars   == <<board, owner, input, thread, pool, ctx, leases, kernel, bounds>>

Slots == 1..FB_COUNT
Unused == [buffer |-> None, state |-> "free"]
NoRoute == [connector |-> 0, crtc |-> 0, plane |-> 0, mode |-> 0]

Init ==
    /\ board \in Boards /\ owner = "idle"
    /\ client = FALSE /\ queue = 0 /\ accepting = FALSE /\ stopRequested = FALSE
    /\ thought = FALSE /\ decoder = FALSE /\ pc = "off" /\ work = None
    /\ poolLayout = None /\ free = Buffers
    /\ initialized = FALSE /\ route = NoRoute /\ modeset = FALSE
    /\ slots = [i \in Slots |-> Unused] /\ front = 0 /\ pending = 0
    /\ hasFront = FALSE /\ frontPacket = None /\ pendingPacket = None
    /\ screen = None /\ queued = None /\ event = FALSE
    /\ startsLeft = MaxStarts /\ failuresLeft = MaxFailures

Fail == failuresLeft > 0 /\ failuresLeft' = failuresLeft - 1
Released(bs) == free' = free \union (bs \ {None})
-----------------------------------------------------------------------------
(* What drmInit() finds. The hardware has sequences of connectors,         *)
(* encoders, CRTCs and planes; an id is the place in its sequence and 0 is *)
(* "none". Of each kind the first ScanLimit are looked at, and of one that *)
(* cannot be read only the id is known.                                    *)

FirstOf(s, Test(_)) == SelectInSeq(s, Test)
Looked(s) == SubSeq(s, 1, IF Len(s) < ScanLimit THEN Len(s) ELSE ScanLimit)

(* What the kernel says of the hardware: an encoder has a CRTC of its mask *)
(* or none, and a connector an encoder of its own or none.                 *)
Connectors == [readable : BOOLEAN, connected : BOOLEAN, encoder : Nat, encoders : Seq(Nat),
               modes : Seq(Nat), properties : SUBSET STRING]
Encoders == {e \in [readable : BOOLEAN, crtc : Nat, mask : SUBSET Nat] :
                e.crtc # 0 => e.crtc - 1 \in e.mask}
Planes == [readable : BOOLEAN, type : STRING, mask : SUBSET Nat, formats : Seq(STRING),
           properties : SUBSET STRING]
Hardware == [connectors : Seq({c \in Connectors : c.encoder \in {0} \union ToSet(c.encoders)}),
             encoders : Seq(Encoders), planes : Seq(Planes), crtcs : Nat,
             crtcProperties : SUBSET STRING]

(* A connector that shows something has an encoder that can have a CRTC,   *)
(* and the scan reads both.                                                *)
HasEncoder(c, b) ==
    \E i \in ToSet(Looked(c.encoders)) \intersect DOMAIN Looked(b.encoders) :
        /\ b.encoders[i].readable
        /\ b.encoders[i].crtc # 0 \/ \E x \in 1..b.crtcs : x - 1 \in b.encoders[i].mask

ASSUME HardwareAssumption ==
    \A b \in Boards :
        /\ b \in Hardware
        /\ \A i \in DOMAIN b.connectors :
              LET c == b.connectors[i]
              IN  c.readable /\ c.connected /\ c.modes # <<>> => HasEncoder(c, b)

(* A mask of CRTC indices, from 0, as the ids of the CRTCs there are; the  *)
(* array they are written to is in the order of the ids.                   *)
FillPossibleCrtcs(mask, b) ==
    LET masked == {i \in 1..b.crtcs : i - 1 \in mask}
    IN  {i \in masked : Cardinality({j \in masked : j < i}) < ScanLimit}

ScanCrtcs(b) == Looked([i \in 1..b.crtcs |-> i])

ScanEncoders(b) ==
    LET Info(e) == IF e.readable THEN [crtc |-> e.crtc, possible |-> FillPossibleCrtcs(e.mask, b)]
                   ELSE [crtc |-> 0, possible |-> {}]
    IN  [i \in DOMAIN Looked(b.encoders) |-> Info(b.encoders[i])]

ScanConnectors(b) ==
    LET Info(c) == [connected |-> c.readable /\ c.connected,
                    encoder |-> IF c.readable THEN c.encoder ELSE 0,
                    encoders |-> IF c.readable THEN Looked(c.encoders) ELSE <<>>,
                    modes |-> IF c.readable THEN Looked(c.modes) ELSE <<>>]
    IN  [i \in DOMAIN Looked(b.connectors) |-> Info(b.connectors[i])]

FillPlaneType(p) == IF p.readable THEN p.type ELSE "Unknown"

ScanPlanes(b) ==
    LET Info(p) == [type |-> FillPlaneType(p),
                    crtcs |-> IF p.readable THEN FillPossibleCrtcs(p.mask, b) ELSE {},
                    formats |-> IF p.readable THEN Looked(p.formats) ELSE <<>>]
    IN  [i \in DOMAIN Looked(b.planes) |-> Info(b.planes[i])]

DrmInit(b) == [crtcs |-> ScanCrtcs(b), encoders |-> ScanEncoders(b),
               connectors |-> ScanConnectors(b), planes |-> ScanPlanes(b)]
-----------------------------------------------------------------------------
(* The route drmDisplaySetupConfig() takes through what was found, 0 for a *)
(* part that is missing. The presenters leave every part to be chosen.     *)

ChooseConnectedConnector(res) ==
    LET Shows(c) == c.connected /\ c.modes # <<>> IN FirstOf(res.connectors, Shows)

(* The CRTC an encoder has, else the first it can have. The encoder may be *)
(* one that was not scanned.                                               *)
CrtcOfEncoder(res, id) ==
    IF id \notin DOMAIN res.encoders THEN 0
    ELSE LET encoder == res.encoders[id]
         IN  IF encoder.crtc # 0 THEN encoder.crtc
             ELSE IF encoder.possible # {} THEN Min(encoder.possible) ELSE 0

FirstCrtc(res, c) == IF res.crtcs # <<>> THEN res.crtcs[1] ELSE 0

ChooseCrtcForConnector(res, c) ==
    LET connector == res.connectors[c]
        mine == <<connector.encoder>> \o connector.encoders
        crtcs == [i \in DOMAIN mine |-> CrtcOfEncoder(res, mine[i])]
        IsThere(crtc) == crtc # 0
        first == FirstOf(crtcs, IsThere)
    IN  IF first = 0 THEN FirstCrtc(res, c) ELSE crtcs[first]

PlaneSupportsFormat(plane, crtc) == Format \in ToSet(plane.formats)
PlaneSupports(plane, crtc) == crtc \in plane.crtcs /\ Format \in ToSet(plane.formats)

(* planeTypeRank()                                                         *)
PlaneTypes == <<"Primary", "Overlay", "Cursor">>

ChoosePlaneForFormat(res, crtc) ==
    LET OfType(t) == LET Fits(p) == p.type = t /\ PlaneSupports(p, crtc)
                     IN FirstOf(res.planes, Fits)
        ranked == [r \in DOMAIN PlaneTypes |-> OfType(PlaneTypes[r])]
        IsThere(plane) == plane # 0
        first == FirstOf(ranked, IsThere)
    IN  IF first = 0 THEN 0 ELSE ranked[first]

(* No mode is asked for: the first one.                                    *)
ChooseModeForConfig(connector) == IF connector.modes = <<>> THEN 0 ELSE connector.modes[1]

(* An id of every property a commit sets: without one there is no route.   *)
ConnectorProps == {"CRTC_ID"}
CrtcProps == {"MODE_ID", "ACTIVE"}
PlaneProps == {"FB_ID", "CRTC_ID", "SRC_X", "SRC_Y", "SRC_W", "SRC_H",
               "CRTC_X", "CRTC_Y", "CRTC_W", "CRTC_H"}

GetPropertyIds(properties, names) == names \subseteq properties

AtomicCacheProps(r) ==
    /\ GetPropertyIds(board.connectors[r.connector].properties, ConnectorProps)
    /\ GetPropertyIds(board.crtcProperties, CrtcProps)
    /\ GetPropertyIds(board.planes[r.plane].properties, PlaneProps)

(* The route, or none: each part is chosen for the one before it, and the  *)
(* properties of all of them are there.                                    *)
SetupConfig(res) ==
    {r \in [connector : DOMAIN res.connectors, crtc : 1..board.crtcs, plane : DOMAIN res.planes,
            mode : UNION {ToSet(c.modes) : c \in ToSet(res.connectors)}] :
        /\ r.connector = ChooseConnectedConnector(res)
        /\ r.crtc = ChooseCrtcForConnector(res, r.connector)
        /\ r.mode = ChooseModeForConfig(res.connectors[r.connector])
        /\ r.plane = ChoosePlaneForFormat(res, r.crtc)
        /\ PlaneSupports(res.planes[r.plane], r.crtc)
        /\ AtomicCacheProps(r)}
-----------------------------------------------------------------------------
(* start() and stop(): the thread that owns the pipeline.                  *)

Start ==
    /\ owner = "idle" /\ pc = "off" /\ startsLeft > 0 /\ startsLeft' = startsLeft - 1
    /\ accepting' = TRUE /\ stopRequested' = FALSE /\ queue' = 0
    /\ pc' = "wait" /\ decoder' = FALSE
    /\ owner' = "starting"
    /\ UNCHANGED <<board, client, thought, work, pool, ctx, leases, kernel, failuresLeft>>

(* m_client.start() brings the event thread up before it returns.          *)
ClientUp ==
    /\ owner = "starting" /\ ~client
    /\ client' = TRUE
    /\ UNCHANGED <<board, owner, queue, accepting, stopRequested, thread, pool, ctx, leases,
                   kernel, bounds>>

Started ==
    /\ owner = "starting"
    /\ \/ client /\ owner' = "running" /\ UNCHANGED <<client, failuresLeft>>
       \/ Fail /\ owner' = "requesting" /\ client' = FALSE
    /\ UNCHANGED <<board, queue, accepting, stopRequested, thread, pool, ctx, leases, kernel,
                   startsLeft>>

(* m_client.stop() waits for the event thread.                             *)
Stop ==
    /\ owner = "running"
    /\ client' = FALSE /\ owner' = "requesting"
    /\ UNCHANGED <<board, queue, accepting, stopRequested, thread, pool, ctx, leases, kernel,
                   bounds>>

RequestDecodeThreadStop ==
    /\ owner = "requesting"
    /\ accepting' = FALSE /\ stopRequested' = TRUE
    /\ owner' = "joining"
    /\ UNCHANGED <<board, client, queue, thread, pool, ctx, leases, kernel, bounds>>

Joined ==
    /\ owner = "joining" /\ pc = "ended"
    /\ owner' = "idle" /\ pc' = "off"
    /\ UNCHANGED <<board, input, thought, decoder, work, pool, ctx, leases, kernel, bounds>>

(* releaseFbSlot() of all slots: a framebuffer that is removed leaves the  *)
(* screen.                                                                 *)
DrmDeinit ==
    /\ slots' = [i \in Slots |-> Unused]
    /\ screen' = None /\ queued' = None /\ event' = FALSE

(* ~RtspDrmPipeline: ~DrmPresenter closes the display before the leases go.*)
Destroy ==
    /\ owner = "idle" /\ pc = "off"
    /\ owner' = "gone"
    /\ IF initialized THEN DrmDeinit ELSE UNCHANGED <<slots, kernel>>
    /\ frontPacket' = None /\ pendingPacket' = None
    /\ Released({frontPacket, pendingPacket})
    /\ UNCHANGED <<board, input, thread, poolLayout, initialized, route, modeset, front, pending,
                   hasFront, bounds>>
-----------------------------------------------------------------------------
(* onNalu() and enqueueNalu(), on the event thread of the RTSP client.     *)
EnqueueNalu ==
    /\ client /\ accepting /\ queue < QueueLimit
    /\ queue' = queue + 1
    /\ UNCHANGED <<board, owner, client, accepting, stopRequested, thread, pool, ctx, leases,
                   kernel, bounds>>
-----------------------------------------------------------------------------
(* decodeLoop(), the decode thread.                                        *)

(* The loop ends at a stop, when the queue is empty, and its decoder with  *)
(* it; m_decoderInitialized stays.                                         *)
EndLoop == pc' = "ended" /\ decoder' = FALSE /\ UNCHANGED <<queue, thought>>

(* decoder.init() is tried when the member says it has not been done; the  *)
(* member outlives the decoder, which is local to the loop. The codec is   *)
(* that of the one video track of the client and does not change.          *)
NextNalu ==
    /\ queue > 0 /\ queue' = queue - 1
    /\ \/ thought /\ pc' = "send" /\ UNCHANGED <<thought, decoder, failuresLeft>>
       \/ /\ ~thought /\ pc' = "send" /\ thought' = TRUE /\ decoder' = TRUE
          /\ UNCHANGED failuresLeft
       \/ ~thought /\ Fail /\ pc' = "wait" /\ decoder' = FALSE /\ UNCHANGED thought

TakeUnlessStopped ==
    /\ pc = "wait"
    /\ \/ ~stopRequested /\ NextNalu
       \/ stopRequested /\ EndLoop /\ UNCHANGED failuresLeft
    /\ UNCHANGED <<board, owner, client, accepting, stopRequested, work, pool, ctx, leases,
                   kernel, startsLeft>>

Take ==
    /\ pc = "wait"
    /\ \/ NextNalu
       \/ queue = 0 /\ stopRequested /\ EndLoop /\ UNCHANGED failuresLeft
    /\ UNCHANGED <<board, owner, client, accepting, stopRequested, work, pool, ctx, leases,
                   kernel, startsLeft>>

(* sendPacket() has no more frames, or there is no decoder behind it.      *)
PacketDone ==
    /\ pc = "send"
    /\ pc' = "wait"
    /\ UNCHANGED <<board, owner, input, thought, decoder, work, pool, ctx, leases, kernel, bounds>>

(* ensureOutputPool(): the pool is made for the first layout and serves no *)
(* other.                                                                  *)
EnsureOutputPool(l) == poolLayout \in {None, l} /\ poolLayout' = l

(* copyAndPresent() up to RGA: acquireFrame() finds a buffer or the frame  *)
(* is refused. A frame of another layout than the pool's is refused before *)
(* anything changes: no step, and PacketDone() goes on.                    *)
CopyFrame(l) ==
    /\ pc = "send" /\ decoder
    /\ \/ /\ EnsureOutputPool(l)
          /\ \E b \in IF free = {} THEN {None} ELSE free :
                 work' = b /\ free' = free \ {b} /\ pc' = IF b = None THEN "send" ELSE "write"
          /\ UNCHANGED failuresLeft
       \/ poolLayout = None /\ Fail /\ UNCHANGED <<pc, work, pool>>
    /\ UNCHANGED <<board, owner, input, thought, decoder, ctx, leases, kernel, startsLeft>>

(* The work buffer goes back: releaseFrame(), or the lease is dropped.     *)
GiveBack == pc' = "send" /\ work' = None /\ Released({work})

Copied ==
    /\ pc = "write"
    /\ \/ pc' = "present" /\ UNCHANGED <<work, free, failuresLeft>>
       \/ Fail /\ GiveBack
    /\ UNCHANGED <<board, owner, input, thought, decoder, poolLayout, ctx, leases, kernel,
                   startsLeft>>
-----------------------------------------------------------------------------
(* DrmPresenter::present().                                                *)

(* ensureInitialized(): drmInit() clears the context, drmDisplaySetupConfig*)
(* chooses the route and resets it; a failure is tried again at the next   *)
(* frame.                                                                  *)
EnsureInitialized ==
    /\ pc = "present"
    /\ \/ initialized /\ pc' = "events" /\ UNCHANGED <<work, free, ctx, failuresLeft>>
       \/ /\ ~initialized
          /\ \E routes \in {SetupConfig(DrmInit(board))} :
                \/ /\ route' \in routes
                   /\ initialized' = TRUE
                   /\ modeset' = FALSE /\ front' = 0 /\ pending' = 0
                   /\ slots' = [i \in Slots |-> Unused]
                   /\ pc' = "events"
                   /\ UNCHANGED <<work, free, failuresLeft>>
                \/ /\ IF routes = {} THEN UNCHANGED failuresLeft ELSE Fail
                   /\ GiveBack
                   /\ UNCHANGED ctx
    /\ UNCHANGED <<board, owner, input, thought, decoder, poolLayout, leases, kernel, startsLeft>>

(* pageFlipHandler(): the pending framebuffer is the front, the old front  *)
(* is free.                                                                *)
PageFlipHandler ==
    IF pending = 0 THEN UNCHANGED slotsOf
    ELSE /\ slots' = [i \in Slots |->
                        IF i = pending THEN [slots[i] EXCEPT !.state = "front"]
                        ELSE IF i = front THEN [slots[i] EXCEPT !.state = "free"] ELSE slots[i]]
         /\ front' = pending /\ pending' = 0

HandleEvents(eventReady) ==
    IF eventReady THEN event' = FALSE /\ PageFlipHandler ELSE UNCHANGED <<event, slotsOf>>

(* consumeDrmEvents(): what is there, then one wait of 20 ms that can end  *)
(* before the vertical blank.                                              *)
PollEvents ==
    /\ pc = "events"
    /\ HandleEvents(event)
    /\ pc' = IF pending' # 0 THEN "await" ELSE "submit"
    /\ UNCHANGED <<board, owner, input, thought, decoder, work, pool, initialized, route, modeset,
                   leases, screen, queued, bounds>>

AwaitEvent ==
    /\ pc = "await"
    /\ HandleEvents(event)
    /\ pc' = "submit"
    /\ UNCHANGED <<board, owner, input, thought, decoder, work, pool, initialized, route, modeset,
                   leases, screen, queued, bounds>>

(* The end of consumeDrmEvents(): a pending packet whose flip is done takes*)
(* the place of the front packet, whose lease ends.                        *)
FlipAssumed == pendingPacket # None
FlipDone == pending = 0 /\ pendingPacket # None
HeldFront == IF FlipDone THEN pendingPacket ELSE frontPacket
HeldPending == IF FlipDone THEN None ELSE pendingPacket
Replaced == IF FlipDone THEN {frontPacket} ELSE {}
-----------------------------------------------------------------------------
(* drmDisplaySubmit(): the framebuffer of the buffer, cached or imported   *)
(* into the first slot that is unused, else free.                          *)

FindCachedFb(b) == FirstOf(slots, LAMBDA s : s.buffer = b)

FindAnyFbSlot ==
    LET unused == FirstOf(slots, LAMBDA s : s.buffer = None)
    IN  IF unused # 0 THEN unused ELSE 1

FindFreeFbSlot ==
    LET unused == FirstOf(slots, LAMBDA s : s.buffer = None)
    IN  IF unused # 0 THEN unused ELSE FirstOf(slots, LAMBDA s : s.state = "free")

(* The slot to show b from, and the cache and screen after the import: the *)
(* framebuffer that was in the slot is removed, from the screen too.       *)
SlotFor(b) == IF FindCachedFb(b) # 0 THEN FindCachedFb(b) ELSE FindFreeFbSlot

Imported(b) ==
    IF FindCachedFb(b) # 0 THEN slots
    ELSE [slots EXCEPT ![FindFreeFbSlot] = [buffer |-> b, state |-> "free"]]

Evicted(b) ==
    IF FindCachedFb(b) # 0 \/ FindFreeFbSlot = 0 THEN None ELSE slots[FindFreeFbSlot].buffer
Kept(shown, b) == IF shown = Evicted(b) THEN None ELSE shown

(* The first commit is a blocking modeset with the mode of the route.      *)
CommitModePlane(b, i) ==
    /\ modeset' = TRUE /\ front' = i /\ UNCHANGED pending
    /\ slots' = [Imported(b) EXCEPT ![i].state = "front"]
    /\ screen' = b /\ UNCHANGED <<queued, event>>

(* The others are nonblocking and end with an event.                       *)
CommitFb(b, i) ==
    /\ pending' = i /\ UNCHANGED <<modeset, front>>
    /\ slots' = [Imported(b) EXCEPT ![i].state = "queued"]
    /\ queued' = b /\ screen' = Kept(screen, b) /\ UNCHANGED event

(* The presenter keeps the lease of what was taken.                        *)
Shown(b) ==
    /\ IF modeset THEN CommitFb(b, SlotFor(b)) ELSE CommitModePlane(b, SlotFor(b))
    /\ IF hasFront THEN frontPacket' = HeldFront /\ pendingPacket' = b /\ UNCHANGED hasFront
       ELSE frontPacket' = b /\ pendingPacket' = HeldPending /\ hasFront' = TRUE
    /\ work' = None /\ Released(Replaced) /\ pc' = "send"
    /\ UNCHANGED failuresLeft

(* A failed import leaves the slot empty, a failed commit leaves the new   *)
(* framebuffer in the cache.                                               *)
ImportFails(b) == FindCachedFb(b) = 0 /\ slots' = [slots EXCEPT ![FindFreeFbSlot] = Unused]
CommitFails(b) == slots' = Imported(b)

(* A pending flip drops the frame.                                         *)
NotShown(b) ==
    /\ \/ /\ pending # 0 \/ SlotFor(b) = 0
          /\ UNCHANGED <<slots, kernel, failuresLeft>>
       \/ /\ pending = 0 /\ SlotFor(b) # 0 /\ Fail
          /\ ImportFails(b) \/ CommitFails(b)
          /\ screen' = Kept(screen, b) /\ UNCHANGED <<queued, event>>
    /\ frontPacket' = HeldFront /\ pendingPacket' = HeldPending
    /\ work' = None /\ Released(Replaced \union {b}) /\ pc' = "send"
    /\ UNCHANGED <<modeset, front, pending, hasFront>>

Submit ==
    /\ pc = "submit"
    /\ \/ pending = 0 /\ SlotFor(work) # 0 /\ Shown(work)
       \/ NotShown(work)
    /\ UNCHANGED <<board, owner, input, thought, decoder, poolLayout, initialized, route,
                   startsLeft>>
-----------------------------------------------------------------------------
(* The kernel: at a vertical blank the queued framebuffer is on the screen,*)
(* and the event is written.                                               *)
VBlank ==
    /\ queued # None
    /\ screen' = queued /\ queued' = None /\ event' = TRUE
    /\ UNCHANGED <<board, owner, input, thread, pool, ctx, leases, bounds>>

DecodeThread ==
    \/ Take \/ PacketDone \/ Copied \/ EnsureInitialized \/ PollEvents \/ AwaitEvent
    \/ Submit \/ \E l \in Layouts : CopyFrame(l)

Owner == Start \/ Started \/ Stop \/ RequestDecodeThreadStop \/ Joined \/ Destroy

Next == Owner \/ ClientUp \/ EnqueueNalu \/ DecodeThread \/ VBlank

Spec == Init /\ [][Next]_vars

(* Threads run, the display keeps blanking, and a packet has finitely many *)
(* frames.                                                                 *)
FairSpec ==
    /\ Spec
    /\ WF_vars(DecodeThread) /\ SF_vars(PacketDone) /\ WF_vars(VBlank)
    /\ WF_vars(RequestDecodeThreadStop) /\ WF_vars(Joined)
-----------------------------------------------------------------------------
(* The buffer the display reads, and the one it will read from the next    *)
(* vertical blank, are leased by the presenter, and neither is written to: *)
(* the reason DrmPresenter keeps the front and the pending packet.         *)
ScanoutIsLeased ==
    /\ {screen, queued} \ {None} \subseteq {frontPacket, pendingPacket}
    /\ pc \in {"write", "present"} => work \notin {screen, queued, frontPacket, pendingPacket}

(* The cache agrees with the kernel: the front framebuffer is on the screen*)
(* when no flip is under way, a flip under way is of the pending one, and  *)
(* no framebuffer of theirs was removed to make room for another.          *)
CacheMatchesScreen ==
    modeset /\ owner # "gone" =>
        /\ pending = 0 => screen = slots[front].buffer /\ queued = None
        /\ pending # 0 => slots[pending].buffer = IF event THEN screen ELSE queued
        /\ pending # 0 /\ ~event => screen = slots[front].buffer

(* A decoded frame finds a buffer in the output pool and a framebuffer slot*)
(* in the cache: four buffers and three slots are enough for a single      *)
(* decode thread, whatever failed before.                                  *)
RoomForNextFrame ==
    /\ pc = "send" /\ owner # "gone" => free # {}
    /\ pc = "submit" /\ pending = 0 => SlotFor(work) # 0

(* No frame is lost for want of a buffer or a slot that an earlier one has *)
(* not given back.                                                         *)
CacheIsSound == CacheMatchesScreen /\ RoomForNextFrame

(* A route that was set up can be committed, by what the hardware says and *)
(* not by what was scanned of it: a connected connector and a mode of it,  *)
(* a CRTC its encoders can have, and a plane for this CRTC and the format. *)
RouteIsPossible ==
    initialized =>
        LET connector == board.connectors[route.connector]
            plane == board.planes[route.plane]
            mine == {board.encoders[e] : e \in ToSet(connector.encoders)}
        IN  /\ connector.connected /\ route.mode \in ToSet(connector.modes)
            /\ \E e \in mine : route.crtc - 1 \in e.mask
            /\ route.crtc - 1 \in plane.mask /\ Format \in ToSet(plane.formats)

(* stop() returns, and by then the decode thread has taken every NALU that *)
(* was accepted, as the comment in stop() says.                            *)
StopDrains == owner = "requesting" ~> owner = "idle" /\ queue = 0

(* While frames keep coming, a flip that was queued ends for the presenter:*)
(* pending is cleared and later frames are shown.                          *)
FlipsEnd == []<>(pc = "events") => (pending # 0 ~> pending = 0)

(* The display path comes to its end, the NALUs of a stop and each flip.   *)
DisplayMovesOn == StopDrains /\ FlipsEnd

(* m_decoderInitialized tells the decode thread whether its decoder has    *)
(* been initialized. (It does not after a second start: DisplayRestart.)   *)
PacketsHaveDecoder == pc = "send" => decoder
=============================================================================
