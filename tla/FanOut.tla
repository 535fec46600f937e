------------------------------ MODULE FanOut ------------------------------
(***************************************************************************)
(* What a FrameHub promises its subscribers. Frames are numbered in the    *)
(* order of their publication. A subscriber is one successful addSink().   *)
(* It gets each frame published while it is a member, once and in order,   *)
(* and nothing when the hub has been closed.                               *)
(***************************************************************************)
EXTENDS Naturals

CONSTANTS Subscribers,
          MaxFrames       \* how many frames are published, a bound

VARIABLES published,      \* frames published so far, the number of the last
          members,        \* subscribers the next frame will go to
          past,           \* everybody who is or has been a member
          owed,           \* subscribers that have yet to get frame "published"
          last,           \* the last frame of each subscriber
          open            \* the hub has not been closed

vars == <<published, members, past, owed, last, open>>

Init ==
    /\ published = 0
    /\ members = {} /\ past = {} /\ owed = {}
    /\ last = [s \in Subscribers |-> 0]
    /\ open = TRUE

(* A subscriber gets the frames published from now on.                     *)
Subscribe(s) ==
    /\ open /\ s \notin past
    /\ members' = members \cup {s} /\ past' = past \cup {s}
    /\ last' = [last EXCEPT ![s] = published]
    /\ UNCHANGED <<published, owed, open>>

(* One frame is handed out before the next is published.                   *)
Publish ==
    /\ owed = {} /\ published < MaxFrames
    /\ published' = published + 1
    /\ owed' = members
    /\ UNCHANGED <<members, past, last, open>>

Deliver(s) ==
    /\ s \in owed
    /\ owed' = owed \ {s}
    /\ last' = [last EXCEPT ![s] = published]
    /\ UNCHANGED <<published, members, past, open>>

(* Subscribers leave; a frame already on its way still reaches them.       *)
Leave ==
    /\ \E S \in SUBSET members : members' = members \ S
    /\ UNCHANGED <<published, past, owed, last, open>>

Close ==
    /\ owed = {}
    /\ members' = {} /\ open' = FALSE
    /\ UNCHANGED <<published, past, owed, last>>

Next ==
    \/ \E s \in Subscribers : Subscribe(s) \/ Deliver(s)
    \/ Publish \/ Leave \/ Close

Spec == Init /\ [][Next]_vars
=============================================================================
