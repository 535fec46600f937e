----------------------------- MODULE FrameHub -----------------------------
(***************************************************************************)
(* The fan-out of the frames of one camera or stream to its sinks          *)
(* (src/core/common/FrameHub.cpp). One thread publishes: the poll thread,  *)
(* a DecodeWorker or the publish loop. Any thread adds sinks and closes.   *)
(* Applications own the sinks; the hub has weak references to them, which  *)
(* publishFrame() turns into strong ones for as long as it runs.           *)
(*                                                                         *)
(* m_publishMutex is held from TakeSnapshot to EndPublish, m_mutex within  *)
(* single steps. An entry stands for one element of m_sinks; the order of  *)
(* the calls in one publication is left open.                              *)
(***************************************************************************)
EXTENDS Naturals

CONSTANTS Entries,        \* weak_ptrs, one for each call of addSink()
          Sinks,          \* sink objects
          SinkOf,         \* [entry -> its sink]
          NoEntry,
          MaxFrames       \* how many frames are published, a bound

ASSUME FrameHubAssumption ==
    /\ SinkOf \in [Entries -> Sinks]
    /\ NoEntry \notin Entries
    /\ MaxFrames \in Nat

VARIABLES sinks,          \* m_sinks
          used,           \* entries of addSink() calls that have been made
          closed,         \* m_closed
          owned,          \* sinks the application keeps a reference to
          destroyed,      \* sinks whose destructor has run
          publishing,     \* publishFrame() runs and has m_publishMutex
          snapshot,       \* its local sinks: strong references
          todo,           \* those it has yet to call
          calling,        \* the one whose onFrame() runs
          published,      \* frames published so far
          last            \* the last frame each entry's sink was called with

api  == <<sinks, used, closed, owned, destroyed>>
publication == <<publishing, snapshot, todo, calling>>
hubVars == <<api, publication, published, last>>

HubInit ==
    /\ sinks = {} /\ used = {} /\ closed = FALSE
    /\ owned = Sinks /\ destroyed = {}
    /\ publishing = FALSE /\ snapshot = {} /\ todo = {} /\ calling = NoEntry
    /\ published = 0 /\ last = [e \in Entries |-> 0]

Live(e) == SinkOf[e] \in owned

SnapshotSinks == {SinkOf[e] : e \in snapshot}
-----------------------------------------------------------------------------
(* addSink() by a caller that has a reference to the sink. "last" of the   *)
(* entry notes since when it counts.                                       *)
AddSink(e) ==
    /\ ~closed
    /\ e \notin used /\ Live(e)
    /\ sinks' = sinks \cup {e} /\ used' = used \cup {e}
    /\ last' = [last EXCEPT ![e] = published]
    /\ UNCHANGED <<closed, owned, destroyed, publication, published>>

RemoveSink ==
    /\ sinks' = {}
    /\ UNCHANGED <<used, closed, owned, destroyed, publication, published, last>>

DropAndDestroy(s) ==
    /\ s \in owned
    /\ owned' = owned \ {s}
    /\ destroyed' = destroyed \cup {s}
    /\ UNCHANGED <<sinks, used, closed, publication, published, last>>

(* The application drops its last reference. The sink is destroyed at      *)
(* once, unless a publication in progress still has a reference.           *)
DropSink(s) ==
    /\ s \in owned
    /\ owned' = owned \ {s}
    /\ destroyed' = IF s \in SnapshotSinks THEN destroyed
                                           ELSE destroyed \cup {s}
    /\ UNCHANGED <<sinks, used, closed, publication, published, last>>

CloseWithoutWaiting ==
    /\ closed' = TRUE /\ sinks' = {}
    /\ UNCHANGED <<used, owned, destroyed, publication, published, last>>

(* close() waits for the publication in progress.                          *)
Close ==
    /\ ~publishing
    /\ closed' = TRUE /\ sinks' = {}
    /\ UNCHANGED <<used, owned, destroyed, publication, published, last>>
-----------------------------------------------------------------------------
SkippingSnapshot ==
    /\ ~publishing /\ published < MaxFrames
    /\ published' = published + 1
    /\ IF closed
       THEN UNCHANGED <<sinks, publishing, snapshot, todo>>
       ELSE /\ publishing' = TRUE
            /\ sinks' = {e \in sinks : Live(e)}
            /\ \E skipped \in SUBSET sinks' :
                  /\ skipped # {} => sinks' # sinks
                  /\ snapshot' = sinks' \ skipped /\ todo' = snapshot'
    /\ UNCHANGED <<used, closed, owned, destroyed, calling, last>>

(* publishFrame(): a closed hub takes the frame and does nothing; an open  *)
(* one forgets the entries whose sink is gone and locks the others.        *)
TakeSnapshot ==
    /\ ~publishing /\ published < MaxFrames
    /\ published' = published + 1
    /\ IF closed
       THEN UNCHANGED <<sinks, publishing, snapshot, todo>>
       ELSE /\ publishing' = TRUE
            /\ sinks' = {e \in sinks : Live(e)}
            /\ snapshot' = sinks' /\ todo' = sinks'
    /\ UNCHANGED <<used, closed, owned, destroyed, calling, last>>

CallTwice(e) ==
    /\ e \in todo /\ calling = NoEntry
    /\ calling' = e
    /\ last' = [last EXCEPT ![e] = published]
    /\ UNCHANGED <<api, publishing, snapshot, todo, published>>

CallSink(e) ==
    /\ e \in todo /\ calling = NoEntry
    /\ calling' = e /\ todo' = todo \ {e}
    /\ last' = [last EXCEPT ![e] = published]
    /\ UNCHANGED <<api, publishing, snapshot, published>>

SinkReturns ==
    /\ calling # NoEntry
    /\ calling' = NoEntry
    /\ UNCHANGED <<api, publishing, snapshot, todo, published, last>>

(* The snapshot goes before m_publishMutex is released, and with it the    *)
(* sinks nobody else has a reference to.                                   *)
EndPublish ==
    /\ publishing /\ todo = {} /\ calling = NoEntry
    /\ publishing' = FALSE /\ snapshot' = {}
    /\ destroyed' = destroyed \cup (SnapshotSinks \ owned)
    /\ UNCHANGED <<sinks, used, closed, owned, todo, calling, published, last>>

HubNext ==
    \/ \E e \in Entries : AddSink(e) \/ CallSink(e)
    \/ \E s \in Sinks : DropSink(s)
    \/ RemoveSink \/ Close
    \/ TakeSnapshot \/ SinkReturns \/ EndPublish

HubSpec == HubInit /\ [][HubNext]_hubVars
-----------------------------------------------------------------------------
TypeOK ==
    /\ sinks \in SUBSET Entries /\ used \in SUBSET Entries
    /\ closed \in BOOLEAN
    /\ owned \in SUBSET Sinks /\ destroyed \in SUBSET Sinks
    /\ publishing \in BOOLEAN
    /\ snapshot \in SUBSET Entries /\ todo \in SUBSET Entries
    /\ calling \in Entries \cup {NoEntry}
    /\ published \in 0 .. MaxFrames
    /\ last \in [Entries -> 0 .. MaxFrames]

(* CamManager.hpp: once delCamera() has returned no sink gets a frame. A    *)
(* closed hub calls nobody, and a call begun before has ended.              *)
SilentOnceClosed == closed => calling = NoEntry /\ todo = {}

(* onFrame() runs only on a sink that still exists, although the hub does   *)
(* not own it and the application may drop it at any time.                  *)
CalledSinkLives == calling # NoEntry => SinkOf[calling] \notin destroyed

(* A sink is called at no wrong time: not after close(), not after its end. *)
CallsAreSafe == SilentOnceClosed /\ CalledSinkLives

Members == {e \in sinks : Live(e)}

(* A registered sink misses no frame: it has been called with the last one, *)
(* or is about to be. Entries of other sinks that disappear meanwhile and   *)
(* are erased from m_sinks do not make publishFrame() skip it.              *)
NoFrameMissed ==
    \A e \in Members :
        last[e] = IF e \in todo THEN published - 1 ELSE published

Promise == INSTANCE FanOut WITH
    Subscribers <- Entries, members <- Members, past <- used,
    owed <- todo, open <- ~closed

(* Each sink gets every frame published from its addSink() until it leaves, *)
(* once and in order: the hub implements FanOut.                            *)
KeepsPromise == Promise!Spec
=============================================================================
