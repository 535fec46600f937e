---------------------------- MODULE DisplayProofs ----------------------------
(***************************************************************************)
(* Theorems about what is shown. The direct display (DrmDisplay): it never *)
(* reads a buffer that may be written to, its cache agrees with the kernel *)
(* and its route stays possible, for every pool, cache, hardware and       *)
(* stream. The overlay (OsdRenderer): nothing leaks, a layout is sound and *)
(* a frame shows what was asked for, for every set of text objects, font,  *)
(* design size, source and list of heaps and nodes.                        *)
(***************************************************************************)
EXTENDS DrmDisplay, OsdRenderer, FiniteSetTheorems, SequenceTheorems,
        WellFoundedInduction, TLAPS

Handles == Buffers \union {None}
Framebuffers == [buffer : Handles, state : {"free", "front", "queued"}]

TypeOK ==
    /\ owner \in {"idle", "starting", "running", "requesting", "joining", "gone"}
    /\ pc \in {"off", "wait", "send", "write", "present", "events", "await", "submit", "ended"}
    /\ work \in Handles /\ frontPacket \in Handles /\ pendingPacket \in Handles
    /\ free \in SUBSET Buffers
    /\ initialized \in BOOLEAN /\ modeset \in BOOLEAN /\ hasFront \in BOOLEAN
    /\ slots \in [Slots -> Framebuffers]
    /\ front \in 0..FB_COUNT /\ pending \in 0..FB_COUNT
    /\ screen \in Handles /\ queued \in Handles /\ event \in BOOLEAN

(* The decode thread has a work buffer from the copy to the submission.    *)
Working ==
    /\ work # None <=> pc \in {"write", "present", "events", "await", "submit"}
    /\ pc \in {"events", "await", "submit"} => initialized
    /\ pc = "await" => pending # 0

(* A buffer of the pool is free, worked on, the front or the pending one.  *)
OneHolder ==
    /\ Buffers = free \union ({work, frontPacket, pendingPacket} \ {None})
    /\ {work, frontPacket, pendingPacket} \cap free = {}
    /\ work # None => work \notin {frontPacket, pendingPacket}
    /\ frontPacket # None => frontPacket # pendingPacket

(* A buffer has one framebuffer at most.                                   *)
CachedOnce ==
    \A i, j \in Slots : slots[i].buffer = slots[j].buffer /\ i # j => slots[i].buffer = None

(* Before the modeset nothing is shown, and after the end neither.         *)
Dark == screen = None /\ queued = None /\ event = FALSE
NothingHeld == frontPacket = None /\ pendingPacket = None

BeforeModeset ==
    /\ hasFront <=> modeset
    /\ modeset => initialized
    /\ ~modeset => /\ Dark /\ NothingHeld /\ front = 0 /\ pending = 0
                   /\ \A i \in Slots : slots[i].state = "free"
    /\ owner = "gone" => Dark /\ NothingHeld /\ pc = "off"

(* Where a flip stands, in the cache, in the presenter and in the kernel:  *)
(* none is under way, the cache has taken note of the last, if the         *)
(* presenter has not it is about to; one is queued; one is done, and the   *)
(* event tells of it.                                                      *)
NoFlip ==
    /\ pending = 0 /\ queued = None /\ event = FALSE
    /\ slots[front].buffer = HeldFront /\ screen = HeldFront
    /\ pendingPacket # None => pc = "submit"

FlipUnderWay ==
    /\ pending # 0 /\ pendingPacket # None
    /\ slots[front].buffer = frontPacket /\ slots[pending].buffer = pendingPacket
    /\ \/ event = FALSE /\ queued = pendingPacket /\ screen = frontPacket
       \/ event = TRUE /\ queued = None /\ screen = pendingPacket

AfterModeset ==
    modeset /\ owner # "gone" =>
        /\ front # 0 /\ frontPacket # None
        /\ \A i \in Slots : /\ slots[i].state = "front" <=> i = front
                            /\ slots[i].state = "queued" <=> i = pending
        /\ NoFlip \/ FlipUnderWay

DisplayInv ==
    TypeOK /\ Working /\ OneHolder /\ CachedOnce /\ BeforeModeset /\ AfterModeset
-----------------------------------------------------------------------------
(* The search of the cache, FirstOf over its slots.                        *)

(* A set of numbers that is not empty has a least one.                   *)
LEMMA LeastNumber ==
    ASSUME NEW S \in SUBSET Nat, S # {}
    PROVE  \E x \in S : \A y \in S : x <= y
<1>1. PICK x \in S : \A y \in S : ~ (<<y, x>> \in OpToRel(<, Nat))
  BY NatLessThanWellFounded, WFMin
<1>2. ASSUME NEW y \in S, y < x PROVE FALSE
  <2>1. <<y, x>> \in {p \in Nat \X Nat : p[1] < p[2]}
    BY <1>2
  <2>q. QED
    BY <1>1, <2>1, Zenon DEF OpToRel
<1>q. QED
  BY <1>2

(* Min of some slots is one of them.                                       *)
LEMMA FirstSlot ==
    ASSUME NEW I, I \subseteq Nat, I # {} PROVE Min(I) \in I
  BY LeastNumber DEF Min

(* The cache is a sequence of FB_COUNT slots.                              *)
LEMMA CacheLength ==
    ASSUME TypeOK PROVE Len(slots) = FB_COUNT
<1>1. slots \in Seq(Framebuffers)
  BY DrmDisplayAssumption, SeqDef DEF TypeOK, Slots
<1>2. DOMAIN slots = 1..Len(slots) /\ Len(slots) \in Nat
  BY <1>1, LenProperties
<1>q. QED
  BY <1>2, DrmDisplayAssumption DEF TypeOK, Slots

(* A cached framebuffer is found, and what is found shows the buffer.      *)
LEMMA CachedFbFound ==
    ASSUME TypeOK, NEW b
    PROVE  /\ FindCachedFb(b) # 0 => FindCachedFb(b) \in Slots /\ slots[FindCachedFb(b)].buffer = b
           /\ FindCachedFb(b) = 0 => \A i \in Slots : slots[i].buffer # b
<1> DEFINE I == {i \in 1..Len(slots) : slots[i].buffer = b}
<1>1. FindCachedFb(b) = IF I # {} THEN Min(I) ELSE 0
  BY DEF FindCachedFb, FirstOf, SelectInSeq
<1>2. I \subseteq Slots /\ I \subseteq Nat /\ 0 \notin I
  BY CacheLength DEF Slots
<1>3. I # {} => Min(I) \in I
  BY <1>2, FirstSlot
<1>q. QED
  BY <1>1, <1>2, <1>3, CacheLength DEF Slots

(* A slot to import into is unused or free, and there is one if any slot   *)
(* is.                                                                     *)
LEMMA FreeSlotFound ==
    ASSUME TypeOK
    PROVE  /\ FindFreeFbSlot # 0 =>
                /\ FindFreeFbSlot \in Slots
                /\ \/ slots[FindFreeFbSlot].buffer = None
                   \/ slots[FindFreeFbSlot].state = "free"
           /\ FindFreeFbSlot = 0 => \A i \in Slots : slots[i].state # "free"
<1> DEFINE I == {i \in 1..Len(slots) : slots[i].buffer = None}
           J == {i \in 1..Len(slots) : slots[i].state = "free"}
           unused == IF I # {} THEN Min(I) ELSE 0
<1>1. FindFreeFbSlot = IF unused # 0 THEN unused ELSE IF J # {} THEN Min(J) ELSE 0
  BY DEF FindFreeFbSlot, FirstOf, SelectInSeq
<1>2. /\ I \subseteq Slots /\ I \subseteq Nat /\ 0 \notin I
      /\ J \subseteq Slots /\ J \subseteq Nat /\ 0 \notin J
  BY CacheLength DEF Slots
<1>3. (I # {} => Min(I) \in I) /\ (J # {} => Min(J) \in J)
  BY <1>2, FirstSlot
<1>q. QED
  BY <1>1, <1>2, <1>3, CacheLength DEF Slots
-----------------------------------------------------------------------------
(* The steps that touch neither a buffer nor the display.                  *)
Elsewhere == {"off", "wait", "send", "ended"}

Apart ==
    /\ UNCHANGED <<work, free, initialized, modeset, slots, front, pending, hasFront, frontPacket,
                   pendingPacket, screen, queued, event>>
    /\ pc' = pc \/ {pc, pc'} \subseteq Elsewhere
    /\ \/ owner # "gone" /\ owner' \in {"idle", "starting", "running", "requesting", "joining"}
       \/ owner' = owner /\ pc' = pc

LEMMA ApartKeeps ==
    ASSUME DisplayInv, Apart PROVE DisplayInv'
<1>1. TypeOK'
  BY DEF DisplayInv, TypeOK, Apart, Elsewhere
<1>2. Working'
  BY DEF DisplayInv, Working, Apart, Elsewhere
<1>3. OneHolder' /\ CachedOnce'
  BY DEF DisplayInv, OneHolder, CachedOnce, Apart
<1>4. BeforeModeset'
  BY DEF DisplayInv, BeforeModeset, Dark, NothingHeld, Apart
<1>5. (owner' = "gone") = (owner = "gone")
  BY DEF Apart
<1>6. NoFlip => NoFlip'
  BY DEF NoFlip, HeldFront, FlipDone, Apart, Elsewhere
<1>7. FlipUnderWay => FlipUnderWay'
  BY DEF FlipUnderWay, Apart
<1>8. AfterModeset'
  BY <1>5, <1>6, <1>7 DEF DisplayInv, AfterModeset, Apart
<1>q. QED
  BY <1>1, <1>2, <1>3, <1>4, <1>8 DEF DisplayInv

LEMMA ApartSteps ==
    ASSUME DisplayInv,
           \/ Start \/ ClientUp \/ Started \/ Stop \/ RequestDecodeThreadStop \/ Joined
           \/ EnqueueNalu \/ Take \/ PacketDone
    PROVE  Apart
<1> USE DEF Apart, Elsewhere, pool, ctx, slotsOf, leases, kernel
<1>t. owner \in {"idle", "starting", "running", "requesting", "joining"} \/ owner = "gone"
  BY DEF DisplayInv, TypeOK
<1>g. owner = "gone" => pc = "off"
  BY DEF DisplayInv, BeforeModeset
<1>1. CASE Start
  BY <1>1 DEF Start
<1>2. CASE ClientUp
  BY <1>2 DEF ClientUp, thread
<1>3. CASE Started
  BY <1>3 DEF Started, thread
<1>4. CASE Stop
  BY <1>4 DEF Stop, thread
<1>5. CASE RequestDecodeThreadStop
  BY <1>5 DEF RequestDecodeThreadStop, thread
<1>6. CASE Joined
  BY <1>6 DEF Joined
<1>7. CASE EnqueueNalu
  BY <1>7, <1>t DEF EnqueueNalu, thread
<1>8. CASE Take
  BY <1>8, <1>t, <1>g DEF Take, NextNalu, EndLoop
<1>9. CASE PacketDone
  BY <1>9, <1>t, <1>g DEF PacketDone
<1>q. QED
  BY <1>1, <1>2, <1>3, <1>4, <1>5, <1>6, <1>7, <1>8, <1>9
-----------------------------------------------------------------------------
(* The steps of the decode thread up to the display: a buffer of the pool  *)
(* becomes the work buffer, or goes back.                                  *)
LEMMA DisplayUntouched ==
    ASSUME DisplayInv, pc \notin {"off", "submit"},
           UNCHANGED <<owner, initialized, modeset, slots, front, pending, hasFront, frontPacket,
                       pendingPacket, screen, queued, event>>
    PROVE  CachedOnce' /\ BeforeModeset' /\ AfterModeset'
<1>1. CachedOnce'
  BY DEF DisplayInv, CachedOnce
<1>2. BeforeModeset'
  BY DEF DisplayInv, BeforeModeset, Dark, NothingHeld
<1>3. NoFlip => NoFlip'
  BY DEF NoFlip, HeldFront, FlipDone
<1>4. FlipUnderWay => FlipUnderWay'
  BY DEF FlipUnderWay
<1>5. AfterModeset'
  BY <1>3, <1>4 DEF DisplayInv, AfterModeset
<1>q. QED
  BY <1>1, <1>2, <1>5

(* The work buffer goes back to the pool.                                  *)
LEMMA GiveBackKeeps ==
    ASSUME DisplayInv, GiveBack, pc \in {"write", "present"},
           UNCHANGED <<owner, initialized, modeset, slots, front, pending, hasFront, frontPacket,
                       pendingPacket, screen, queued, event>>
    PROVE  DisplayInv'
<1>1. work \in Buffers /\ work \notin {frontPacket, pendingPacket, None}
  BY DrmDisplayAssumption DEF DisplayInv, TypeOK, Handles, Working, OneHolder
<1>2. free' = free \union {work} /\ work' = None /\ pc' = "send"
  BY <1>1 DEF GiveBack, Released
<1>3. TypeOK'
  BY <1>1, <1>2 DEF DisplayInv, TypeOK, Handles
<1>4. Working'
  BY <1>2 DEF Working
<1>5. OneHolder'
  BY <1>1, <1>2, DrmDisplayAssumption DEF DisplayInv, OneHolder, TypeOK
<1>q. QED
  BY <1>3, <1>4, <1>5, DisplayUntouched DEF DisplayInv

LEMMA CopyFrameKeeps ==
    ASSUME DisplayInv, NEW l \in Layouts, CopyFrame(l) PROVE DisplayInv'
<1>1. /\ pc = "send"
      /\ UNCHANGED <<owner, initialized, modeset, slots, front, pending, hasFront, frontPacket,
                     pendingPacket, screen, queued, event>>
  BY DEF CopyFrame, ctx, slotsOf, leases, kernel
<1>2. CASE UNCHANGED <<pc, work, free>>
  BY <1>1, <1>2, ApartKeeps DEF Apart
<1>3. ASSUME NEW b \in free, work' = b, free' = free \ {b}, pc' = "write"
      PROVE  DisplayInv'
  <2>1. b \in Buffers /\ b # None /\ work = None
    BY <1>1, <1>3, DrmDisplayAssumption DEF DisplayInv, TypeOK, Working
  <2>2. TypeOK'
    BY <1>1, <1>3, <2>1 DEF DisplayInv, TypeOK, Handles
  <2>3. Working'
    BY <1>3, <2>1 DEF Working
  <2>4. OneHolder'
    BY <1>1, <1>3, <2>1 DEF DisplayInv, OneHolder
  <2>q. QED
    BY <1>1, <2>2, <2>3, <2>4, DisplayUntouched DEF DisplayInv
<1>4. CASE \E b \in IF free = {} THEN {None} ELSE free :
               work' = b /\ free' = free \ {b} /\ pc' = IF b = None THEN "send" ELSE "write"
  <2>1. CASE free = {}
    <3>1. work' = None /\ free' = {} /\ pc' = "send"
      BY <1>4, <2>1
    <3>2. work = None
      BY <1>1 DEF DisplayInv, Working
    <3>q. QED
      BY <1>1, <1>2, <2>1, <3>1, <3>2
  <2>2. CASE free # {}
    <3>1. PICK b \in free : /\ work' = b /\ free' = free \ {b}
                            /\ pc' = IF b = None THEN "send" ELSE "write"
      BY <1>4, <2>2
    <3>2. b # None
      BY DrmDisplayAssumption DEF DisplayInv, TypeOK
    <3>q. QED
      BY <1>3, <3>1, <3>2
  <2>q. QED
    BY <2>1, <2>2
<1>q. QED
  BY <1>2, <1>4 DEF CopyFrame, pool

LEMMA CopiedKeeps ==
    ASSUME DisplayInv, Copied PROVE DisplayInv'
<1>1. /\ pc = "write"
      /\ UNCHANGED <<owner, initialized, modeset, slots, front, pending, hasFront, frontPacket,
                     pendingPacket, screen, queued, event>>
  BY DEF Copied, ctx, slotsOf, leases, kernel
<1>2. CASE pc' = "present" /\ UNCHANGED <<work, free>>
  <2>1. TypeOK'
    BY <1>1, <1>2 DEF DisplayInv, TypeOK
  <2>2. Working' /\ OneHolder'
    BY <1>1, <1>2 DEF DisplayInv, Working, OneHolder
  <2>q. QED
    BY <1>1, <2>1, <2>2, DisplayUntouched DEF DisplayInv
<1>q. QED
  BY <1>1, <1>2, GiveBackKeeps DEF Copied

(* drmInit() and drmDisplaySetupConfig() start from nothing.               *)
LEMMA EnsureInitializedKeeps ==
    ASSUME DisplayInv, EnsureInitialized PROVE DisplayInv'
<1>1. /\ pc = "present"
      /\ UNCHANGED <<owner, hasFront, frontPacket, pendingPacket, screen, queued, event>>
  BY DEF EnsureInitialized, leases, kernel
<1>2. CASE initialized /\ pc' = "events" /\ UNCHANGED <<work, free, ctx>>
  <2>1. UNCHANGED <<work, free, initialized, modeset, slots, front, pending>>
    BY <1>2 DEF ctx, slotsOf
  <2>2. TypeOK'
    BY <1>1, <1>2, <2>1 DEF DisplayInv, TypeOK
  <2>3. Working' /\ OneHolder'
    BY <1>1, <1>2, <2>1 DEF DisplayInv, Working, OneHolder
  <2>q. QED
    BY <1>1, <2>1, <2>2, <2>3, DisplayUntouched DEF DisplayInv
<1>3. CASE /\ ~initialized /\ initialized' = TRUE /\ modeset' = FALSE
           /\ front' = 0 /\ pending' = 0 /\ slots' = [i \in Slots |-> Unused]
           /\ pc' = "events" /\ UNCHANGED <<work, free>>
  <2>t. initialized' \in BOOLEAN /\ modeset' \in BOOLEAN /\ initialized' /\ ~modeset'
    BY <1>3, Zenon
  <2>u. Unused \in Framebuffers
    BY DEF Unused, Framebuffers, Handles
  <2>v. slots' \in [Slots -> Framebuffers] /\ front' \in 0..FB_COUNT /\ pending' \in 0..FB_COUNT
    BY <1>3, <2>u, DrmDisplayAssumption
  <2>1. TypeOK'
    BY <1>1, <1>3, <2>t, <2>v DEF DisplayInv, TypeOK
  <2>2. Working' /\ OneHolder'
    BY <1>1, <1>3 DEF DisplayInv, Working, OneHolder
  <2>3. CachedOnce'
    BY <1>3 DEF CachedOnce, Unused
  <2>4. ~modeset /\ owner # "gone"
    BY <1>1, <1>3 DEF DisplayInv, BeforeModeset
  <2>5. BeforeModeset'
    BY <1>1, <1>3, <2>4, <2>t DEF DisplayInv, BeforeModeset, Dark, NothingHeld, Unused
  <2>6. AfterModeset'
    BY <2>t DEF AfterModeset
  <2>q. QED
    BY <2>1, <2>2, <2>3, <2>5, <2>6 DEF DisplayInv
<1>4. CASE GiveBack /\ UNCHANGED ctx
  BY <1>1, <1>4, GiveBackKeeps DEF ctx, slotsOf
<1>q. QED
  BY <1>2, <1>3, <1>4 DEF EnsureInitialized
-----------------------------------------------------------------------------
(* The events of the kernel: a flip that is done becomes the front.        *)
LEMMA EventsKeep ==
    ASSUME DisplayInv, PollEvents \/ AwaitEvent PROVE DisplayInv'
<1>1. /\ pc \in {"events", "await"}
      /\ HandleEvents(event)
      /\ pc' = "submit" \/ (pc' = "await" /\ pending' # 0)
      /\ UNCHANGED <<owner, work, free, initialized, modeset, hasFront, frontPacket, pendingPacket,
                     screen, queued>>
  BY DEF PollEvents, AwaitEvent, pool, leases
<1>2. initialized /\ owner # "gone"
  BY <1>1 DEF DisplayInv, Working, BeforeModeset
<1>3. OneHolder'
  BY <1>1 DEF DisplayInv, OneHolder
<1>4. Working'
  BY <1>1, <1>2 DEF DisplayInv, Working
<1>5. CASE event = FALSE
  <2>1. UNCHANGED <<event, slots, front, pending>>
    BY <1>1, <1>5 DEF HandleEvents, slotsOf
  <2>2. TypeOK'
    BY <1>1, <2>1 DEF DisplayInv, TypeOK
  <2>3. CachedOnce'
    BY <2>1 DEF DisplayInv, CachedOnce
  <2>4. BeforeModeset'
    BY <1>1, <1>2, <2>1 DEF DisplayInv, BeforeModeset, Dark, NothingHeld
  <2>5. NoFlip => NoFlip'
    BY <1>1, <2>1 DEF NoFlip, HeldFront, FlipDone
  <2>6. FlipUnderWay => FlipUnderWay'
    BY <1>1, <2>1 DEF FlipUnderWay
  <2>7. AfterModeset'
    BY <1>1, <2>1, <2>5, <2>6 DEF DisplayInv, AfterModeset
  <2>q. QED
    BY <1>3, <1>4, <2>2, <2>3, <2>4, <2>7 DEF DisplayInv
<1>6. CASE event = TRUE
  <2>1. modeset /\ FlipUnderWay
    BY <1>2, <1>6 DEF DisplayInv, BeforeModeset, Dark, AfterModeset, NoFlip
  <2>2. /\ pending # 0 /\ queued = None /\ screen = pendingPacket /\ pendingPacket # None
        /\ slots[pending].buffer = pendingPacket
    BY <1>6, <2>1 DEF FlipUnderWay
  <2>3. /\ front # 0 /\ front \in Slots /\ pending \in Slots /\ frontPacket # None
        /\ \A i \in Slots : /\ slots[i].state = "front" <=> i = front
                            /\ slots[i].state = "queued" <=> i = pending
    BY <1>2, <2>1, <2>2, DrmDisplayAssumption DEF DisplayInv, AfterModeset, TypeOK, Slots
  <2>4. /\ event' = FALSE /\ front' = pending /\ pending' = 0
        /\ slots' = [i \in Slots |->
                        IF i = pending THEN [slots[i] EXCEPT !.state = "front"]
                        ELSE IF i = front THEN [slots[i] EXCEPT !.state = "free"] ELSE slots[i]]
    BY <1>1, <1>6, <2>2 DEF HandleEvents, PageFlipHandler
  <2>5. slots \in [Slots -> Framebuffers]
    BY DEF DisplayInv, TypeOK
  <2>6. \A i \in Slots : /\ slots'[i].buffer = slots[i].buffer
                         /\ slots'[i].state = IF i = pending THEN "front"
                                              ELSE IF i = front THEN "free" ELSE slots[i].state
    BY <2>4, <2>5 DEF Framebuffers
  <2>7. slots' \in [Slots -> Framebuffers]
    BY <2>4, <2>5 DEF Framebuffers
  <2>t. event' \in BOOLEAN /\ event' = FALSE
    BY <2>4, Zenon
  <2>8. TypeOK'
    BY <1>1, <2>3, <2>4, <2>7, <2>t, DrmDisplayAssumption DEF DisplayInv, TypeOK, Slots
  <2>9. CachedOnce'
    BY <2>6 DEF DisplayInv, CachedOnce
  <2>10. BeforeModeset'
    BY <1>1, <1>2, <2>1 DEF DisplayInv, BeforeModeset
  <2>11. pc' = "submit"
    BY <1>1, <2>4
  <2>12. NoFlip'
    BY <1>1, <2>2, <2>3, <2>4, <2>6, <2>11, <2>t DEF NoFlip, HeldFront, FlipDone
  <2>13. \A i \in Slots : /\ slots'[i].state = "front" <=> i = front'
                          /\ slots'[i].state = "queued" <=> i = pending'
    BY <2>3, <2>4, <2>6, DrmDisplayAssumption DEF Slots
  <2>14. AfterModeset'
    BY <1>1, <2>2, <2>3, <2>4, <2>12, <2>13 DEF AfterModeset
  <2>q. QED
    BY <1>3, <1>4, <2>8, <2>9, <2>10, <2>14 DEF DisplayInv
<1>q. QED
  BY <1>5, <1>6 DEF DisplayInv, TypeOK

(* The vertical blank: what was queued is on the screen.                   *)
LEMMA VBlankKeeps ==
    ASSUME DisplayInv, VBlank PROVE DisplayInv'
<1>1. /\ queued # None /\ screen' = queued /\ queued' = None /\ event' = TRUE
      /\ UNCHANGED <<owner, pc, work, free, initialized, modeset, slots, front, pending, hasFront,
                     frontPacket, pendingPacket>>
  BY DEF VBlank, thread, pool, ctx, slotsOf, leases
<1>2. modeset /\ owner # "gone" /\ FlipUnderWay
  BY <1>1 DEF DisplayInv, BeforeModeset, Dark, AfterModeset, NoFlip
<1>t. event' \in BOOLEAN /\ event' = TRUE
  BY <1>1, Zenon
<1>3. TypeOK'
  BY <1>1, <1>t DEF DisplayInv, TypeOK, Handles
<1>4. Working' /\ OneHolder' /\ CachedOnce'
  BY <1>1 DEF DisplayInv, Working, OneHolder, CachedOnce
<1>5. BeforeModeset'
  BY <1>1, <1>2 DEF DisplayInv, BeforeModeset
<1>6. FlipUnderWay'
  BY <1>1, <1>2, <1>t DEF FlipUnderWay
<1>7. AfterModeset'
  BY <1>1, <1>2, <1>6 DEF DisplayInv, AfterModeset
<1>q. QED
  BY <1>3, <1>4, <1>5, <1>7 DEF DisplayInv

(* The end of the pipeline: the display is closed, the leases go.          *)
LEMMA DestroyKeeps ==
    ASSUME DisplayInv, Destroy PROVE DisplayInv'
<1>1. /\ owner # "gone" /\ pc = "off" /\ owner' = "gone"
      /\ frontPacket' = None /\ pendingPacket' = None
      /\ free' = free \union ({frontPacket, pendingPacket} \ {None})
      /\ UNCHANGED <<pc, work, initialized, modeset, front, pending, hasFront>>
  BY DEF Destroy, Released, thread
<1>2. work = None
  BY <1>1 DEF DisplayInv, Working
<1>3. /\ screen' = None /\ queued' = None /\ event' = FALSE
      /\ slots' = slots \/ slots' = [i \in Slots |-> Unused]
  <2>1. CASE initialized
    BY <2>1 DEF Destroy, DrmDeinit
  <2>2. CASE ~initialized
    BY <1>1, <2>2 DEF Destroy, kernel, DisplayInv, BeforeModeset, Dark
  <2>q. QED
    BY <2>1, <2>2
<1>t. event' \in BOOLEAN /\ event' = FALSE
  BY <1>3, Zenon
<1>4. \A i \in Slots : slots'[i] = slots[i] \/ slots'[i] = Unused
  BY <1>3
<1>5. Unused \in Framebuffers
  BY DEF Unused, Framebuffers, Handles
<1>6. slots' \in [Slots -> Framebuffers]
  BY <1>3, <1>5 DEF DisplayInv, TypeOK
<1>7. TypeOK'
  BY <1>1, <1>3, <1>6, <1>t DEF DisplayInv, TypeOK, Handles
<1>8. Working'
  BY <1>1 DEF DisplayInv, Working
<1>9. OneHolder'
  BY <1>1, <1>2 DEF DisplayInv, OneHolder
<1>10. CachedOnce'
  BY <1>3 DEF DisplayInv, CachedOnce, Unused
<1>11. BeforeModeset'
  BY <1>1, <1>3, <1>4 DEF DisplayInv, BeforeModeset, Dark, NothingHeld, Unused
<1>12. AfterModeset'
  BY <1>1 DEF AfterModeset
<1>q. QED
  BY <1>7, <1>8, <1>9, <1>10, <1>11, <1>12 DEF DisplayInv
-----------------------------------------------------------------------------
(* drmDisplaySubmit(). Without a flip under way the slot to show a buffer  *)
(* from is not the front one, so that neither the import nor the eviction  *)
(* takes from the screen what it shows.                                    *)
LEMMA AtSubmit ==
    ASSUME DisplayInv, pc = "submit"
    PROVE  /\ initialized /\ owner # "gone"
           /\ work \in Buffers /\ work # None /\ work \notin {frontPacket, pendingPacket}
           /\ modeset => NoFlip \/ FlipUnderWay
           /\ pending = 0 /\ modeset => NoFlip
BY DrmDisplayAssumption
DEF DisplayInv, TypeOK, Handles, Working, OneHolder, BeforeModeset, AfterModeset, FlipUnderWay

(* With no flip under way every slot but the front one is free.            *)
LEMMA OthersAreFree ==
    ASSUME DisplayInv, pc = "submit", pending = 0
    PROVE  /\ \A j \in Slots : slots[j].state = "free" <=> j # front
           /\ modeset => /\ front \in Slots /\ slots[front].buffer = HeldFront
                         /\ screen = HeldFront /\ HeldFront \notin {None, work}
           /\ ~modeset => front = 0 /\ screen = None
<1>1. CASE modeset
  <2>1. /\ front # 0 /\ frontPacket # None /\ NoFlip
        /\ \A i \in Slots : /\ slots[i].state = "front" <=> i = front
                            /\ slots[i].state = "queued" <=> i = pending
    BY <1>1, AtSubmit DEF DisplayInv, AfterModeset
  <2>2. \A j \in Slots : slots[j].state \in {"free", "front", "queued"}
    BY DEF DisplayInv, TypeOK, Framebuffers
  <2>3. \A j \in Slots : j # 0
    BY DEF Slots
  <2>4. \A j \in Slots : slots[j].state = "free" <=> j # front
    BY <2>1, <2>2, <2>3
  <2>5. front \in Slots
    BY <2>1, DrmDisplayAssumption DEF DisplayInv, TypeOK, Slots
  <2>6. HeldFront \notin {None, work}
    BY <2>1, AtSubmit DEF HeldFront, FlipDone
  <2>q. QED
    BY <1>1, <2>1, <2>4, <2>5, <2>6 DEF NoFlip
<1>2. CASE ~modeset
  <2>1. front = 0 /\ screen = None /\ \A i \in Slots : slots[i].state = "free"
    BY <1>2 DEF DisplayInv, BeforeModeset, Dark
  <2>2. \A j \in Slots : j # 0
    BY DEF Slots
  <2>q. QED
    BY <1>2, <2>1, <2>2
<1>q. QED
  BY <1>1, <1>2

LEMMA SlotIsNotFront ==
    ASSUME DisplayInv, pc = "submit", pending = 0, SlotFor(work) # 0
    PROVE  /\ SlotFor(work) \in Slots /\ SlotFor(work) # front
           /\ FindCachedFb(work) = 0 => \A j \in Slots : slots[j].buffer # work
           /\ FindCachedFb(work) # 0 => slots[SlotFor(work)].buffer = work
<1> TypeOK
  BY DEF DisplayInv
<1>1. CASE FindCachedFb(work) # 0
  <2>1. SlotFor(work) \in Slots /\ slots[SlotFor(work)].buffer = work
    BY <1>1, CachedFbFound DEF SlotFor
  <2>2. SlotFor(work) # front
    BY <2>1, OthersAreFree DEF Slots
  <2>q. QED
    BY <1>1, <2>1, <2>2
<1>2. CASE FindCachedFb(work) = 0
  <2>1. /\ SlotFor(work) \in Slots
        /\ slots[SlotFor(work)].buffer = None \/ slots[SlotFor(work)].state = "free"
    BY <1>2, FreeSlotFound DEF SlotFor
  <2>2. SlotFor(work) # front
    BY <2>1, OthersAreFree DEF Slots
  <2>q. QED
    BY <1>2, <2>1, <2>2, CachedFbFound
<1>q. QED
  BY <1>1, <1>2

(* What was imported, and what a failed import leaves.                     *)
LEMMA ImportIsSafe ==
    ASSUME DisplayInv, pc = "submit", pending = 0, SlotFor(work) # 0,
           NEW s, \/ s = Imported(work)
                  \/ FindCachedFb(work) = 0 /\ s = [slots EXCEPT ![FindFreeFbSlot] = Unused]
    PROVE  /\ s \in [Slots -> Framebuffers]
           /\ \A i, j \in Slots : s[i].buffer = s[j].buffer /\ i # j => s[i].buffer = None
           /\ \A j \in Slots : s[j].state = slots[j].state
           /\ \A j \in Slots : j # SlotFor(work) => s[j] = slots[j]
           /\ s = Imported(work) => s[SlotFor(work)].buffer = work
           /\ Kept(screen, work) = screen
<1> DEFINE i == SlotFor(work)
<1>1. /\ i \in Slots /\ i # front /\ slots[i].state = "free"
      /\ FindCachedFb(work) = 0 => \A j \in Slots : slots[j].buffer # work
      /\ FindCachedFb(work) # 0 => slots[i].buffer = work
  BY SlotIsNotFront, OthersAreFree
<1>2. /\ slots \in [Slots -> Framebuffers] /\ work \in Handles
      /\ \A j, k \in Slots : slots[j].buffer = slots[k].buffer /\ j # k => slots[j].buffer = None
  BY DEF DisplayInv, TypeOK, CachedOnce
<1>3. CASE FindCachedFb(work) # 0
  <2>1. s = slots /\ Kept(screen, work) = screen
    BY <1>3 DEF Imported, Kept, Evicted
  <2>q. QED
    BY <1>1, <1>2, <1>3, <2>1
<1>4. CASE FindCachedFb(work) = 0
  <2>1. FindFreeFbSlot = i
    BY <1>4 DEF SlotFor
  <2>2. PICK b \in {None, work} : s = [slots EXCEPT ![i] = [buffer |-> b, state |-> "free"]]
    BY <1>4, <2>1 DEF Imported, Unused
  <2>3. s = Imported(work) => s[i].buffer = work
    BY <1>1, <1>2, <1>4, <2>1 DEF Imported
  <2>4. s \in [Slots -> Framebuffers]
    BY <1>1, <1>2, <2>2 DEF Framebuffers, Handles
  <2>5. s[i].buffer = b /\ s[i].state = "free" /\ \A j \in Slots : j # i => s[j] = slots[j]
    BY <1>1, <1>2, <2>2
  <2>6. \A j, k \in Slots : s[j].buffer = s[k].buffer /\ j # k => s[j].buffer = None
    BY <1>1, <1>2, <1>4, <2>5
  <2>7. Kept(screen, work) = IF screen = slots[i].buffer THEN None ELSE screen
    BY <1>4, <2>1, <1>1 DEF Kept, Evicted, Slots
  <2>8. modeset => front \in Slots /\ screen = slots[front].buffer /\ screen # None
    BY OthersAreFree
  <2>9. ~modeset => screen = None
    BY OthersAreFree
  <2>10. Kept(screen, work) = screen
    BY <1>1, <1>2, <2>7, <2>8, <2>9
  <2>q. QED
    BY <1>1, <2>3, <2>4, <2>5, <2>6, <2>10
<1>q. QED
  BY <1>3, <1>4
(* The buffers change hands: the two packets are what is held of the old   *)
(* ones and, if the frame is taken, the work buffer.                       *)
LEMMA LeasesChangeHands ==
    ASSUME DisplayInv, pc = "submit", work' = None,
           \/ /\ frontPacket' = HeldFront /\ pendingPacket' = HeldPending
              /\ Released(Replaced \union {work})
           \/ /\ frontPacket' = HeldFront /\ pendingPacket' = work
              /\ Released(Replaced)
              /\ modeset /\ pending = 0
           \/ /\ frontPacket' = work /\ pendingPacket' = HeldPending
              /\ Released(Replaced)
              /\ ~modeset
    PROVE  /\ OneHolder' /\ free' \in SUBSET Buffers
           /\ frontPacket' \in Handles /\ pendingPacket' \in Handles /\ work' \in Handles
<1>1. /\ work \in Buffers /\ work # None /\ work \notin {frontPacket, pendingPacket}
      /\ free \subseteq Buffers /\ None \notin Buffers
      /\ frontPacket \in Handles /\ pendingPacket \in Handles
  BY AtSubmit, DrmDisplayAssumption DEF DisplayInv, TypeOK
<1>2. /\ Buffers = free \union ({work, frontPacket, pendingPacket} \ {None})
      /\ {work, frontPacket, pendingPacket} \cap free = {}
      /\ frontPacket # None => frontPacket # pendingPacket
  BY DEF DisplayInv, OneHolder
<1>3. modeset /\ pending = 0 => HeldPending = None
  BY AtSubmit DEF NoFlip, HeldPending, FlipDone
<1>4. ~modeset => frontPacket = None /\ pendingPacket = None
  BY DEF DisplayInv, BeforeModeset, NothingHeld
<1>5. \/ HeldFront = frontPacket /\ HeldPending = pendingPacket /\ Replaced = {}
      \/ HeldFront = pendingPacket /\ HeldPending = None /\ Replaced = {frontPacket}
         /\ pendingPacket # None
  BY DEF HeldFront, HeldPending, Replaced, FlipDone
<1>6. CASE /\ frontPacket' = HeldFront /\ pendingPacket' = HeldPending
           /\ Released(Replaced \union {work})
  BY <1>1, <1>2, <1>5, <1>6 DEF OneHolder, Released, Handles
<1>7. CASE /\ frontPacket' = HeldFront /\ pendingPacket' = work
           /\ Released(Replaced) /\ modeset /\ pending = 0
  BY <1>1, <1>2, <1>3, <1>5, <1>7 DEF OneHolder, Released, Handles
<1>8. CASE /\ frontPacket' = work /\ pendingPacket' = HeldPending
           /\ Released(Replaced) /\ ~modeset
  BY <1>1, <1>2, <1>4, <1>5, <1>8 DEF OneHolder, Released, Handles
<1>q. QED
  BY <1>6, <1>7, <1>8

(* The frame is shown: by a modeset, or by a flip that is queued.          *)
LEMMA ShownKeeps ==
    ASSUME DisplayInv, pc = "submit", pending = 0, SlotFor(work) # 0, Shown(work),
           UNCHANGED <<owner, initialized>>
    PROVE  DisplayInv'
<1> DEFINE i == SlotFor(work)
           s == Imported(work)
<1>1. /\ i \in Slots /\ i # front /\ i # 0
      /\ s \in [Slots -> Framebuffers] /\ s[i].buffer = work
      /\ \A j, k \in Slots : s[j].buffer = s[k].buffer /\ j # k => s[j].buffer = None
      /\ \A j \in Slots : s[j].state = "free" <=> j # front
      /\ \A j \in Slots : j # i => s[j] = slots[j]
      /\ Kept(screen, work) = screen
  BY SlotIsNotFront, ImportIsSafe, OthersAreFree
<1>2. /\ initialized /\ owner # "gone" /\ work \in Buffers /\ work # None
      /\ \A j \in Slots : s[j].state \in {"free", "front", "queued"}
      /\ screen \in Handles /\ queued \in Handles /\ event \in BOOLEAN
      /\ hasFront <=> modeset
  BY <1>1, AtSubmit DEF DisplayInv, TypeOK, BeforeModeset, Framebuffers
<1> HIDE DEF i, s
<1>3. /\ work' = None /\ pc' = "send"
      /\ IF hasFront THEN frontPacket' = HeldFront /\ pendingPacket' = work /\ UNCHANGED hasFront
         ELSE frontPacket' = work /\ pendingPacket' = HeldPending /\ hasFront' = TRUE
      /\ Released(Replaced)
  BY DEF Shown
<1>4. /\ OneHolder' /\ free' \in SUBSET Buffers
      /\ frontPacket' \in Handles /\ pendingPacket' \in Handles /\ work' \in Handles
  BY <1>2, <1>3, LeasesChangeHands
<1>5. Working'
  BY <1>2, <1>3 DEF Working
<1>6. CASE modeset
  <2>1. /\ pending' = i /\ UNCHANGED <<modeset, front, event>>
        /\ slots' = [s EXCEPT ![i].state = "queued"]
        /\ queued' = work /\ screen' = screen
    BY <1>1, <1>6 DEF Shown, CommitFb, i, s
  <2>2. /\ frontPacket' = HeldFront /\ pendingPacket' = work /\ UNCHANGED hasFront
    BY <1>2, <1>3, <1>6
  <2>3. /\ front \in Slots /\ front # 0 /\ slots[front].buffer = HeldFront
        /\ screen = HeldFront /\ HeldFront # None /\ event = FALSE
    BY <1>6, AtSubmit, OthersAreFree DEF NoFlip, Slots
  <2>4. /\ slots' \in [Slots -> Framebuffers]
        /\ \A j \in Slots : slots'[j].buffer = s[j].buffer
        /\ \A j \in Slots : slots'[j].state = IF j = i THEN "queued" ELSE s[j].state
    BY <1>1, <2>1 DEF Framebuffers
  <2>5. TypeOK'
    BY <1>1, <1>2, <1>3, <1>4, <2>1, <2>2, <2>4, DrmDisplayAssumption
    DEF DisplayInv, TypeOK, Handles, Slots
  <2>6. CachedOnce'
    BY <1>1, <2>4 DEF CachedOnce
  <2>7. BeforeModeset'
    BY <1>2, <1>6, <2>1, <2>2 DEF BeforeModeset, DisplayInv
  <2>8. \A j \in Slots : /\ slots'[j].state = "front" <=> j = front'
                         /\ slots'[j].state = "queued" <=> j = pending'
    <3>1. \A j \in Slots : s[j].state = "front" <=> j = front
      <4>1. s[front] = slots[front]
        BY <1>1, <2>3
      <4>2. slots[front].state = "front"
        BY <1>2, <1>6, <2>3 DEF DisplayInv, AfterModeset
      <4>q. QED
        BY <1>1, <4>1, <4>2
    <3>2. \A j \in Slots : s[j].state # "queued"
      BY <1>1, <3>1
    <3>q. QED
      BY <1>1, <2>1, <2>4, <3>1, <3>2
  <2>9. FlipUnderWay'
    BY <1>1, <1>2, <2>1, <2>2, <2>3, <2>4 DEF FlipUnderWay
  <2>10. AfterModeset'
    BY <2>1, <2>2, <2>3, <2>8, <2>9 DEF AfterModeset
  <2>q. QED
    BY <1>4, <1>5, <2>5, <2>6, <2>7, <2>10 DEF DisplayInv
<1>7. CASE ~modeset
  <2>1. /\ modeset' = TRUE /\ front' = i /\ UNCHANGED <<pending, queued, event>>
        /\ slots' = [s EXCEPT ![i].state = "front"] /\ screen' = work
    BY <1>7 DEF Shown, CommitModePlane, i, s
  <2>2. /\ frontPacket' = work /\ pendingPacket' = HeldPending /\ hasFront' = TRUE
    BY <1>2, <1>3, <1>7
  <2>3. front = 0 /\ queued = None /\ event = FALSE /\ HeldPending = None
    BY <1>7 DEF DisplayInv, BeforeModeset, Dark, NothingHeld, HeldPending
  <2>4. /\ slots' \in [Slots -> Framebuffers]
        /\ \A j \in Slots : slots'[j].buffer = s[j].buffer
        /\ \A j \in Slots : slots'[j].state = IF j = i THEN "front" ELSE s[j].state
    BY <1>1, <2>1 DEF Framebuffers
  <2>t. modeset' \in BOOLEAN /\ hasFront' \in BOOLEAN /\ modeset' /\ hasFront'
    BY <2>1, <2>2, Zenon
  <2>5. TypeOK'
    BY <1>1, <1>2, <1>3, <1>4, <2>1, <2>4, <2>t, DrmDisplayAssumption
    DEF DisplayInv, TypeOK, Handles, Slots
  <2>6. CachedOnce'
    BY <1>1, <2>4 DEF CachedOnce
  <2>7. BeforeModeset'
    BY <1>2, <2>t DEF BeforeModeset
  <2>8. \A j \in Slots : /\ slots'[j].state = "front" <=> j = front'
                         /\ slots'[j].state = "queued" <=> j = pending'
    <3>1. \A j \in Slots : s[j].state = "free" /\ j # 0
      BY <1>1, <2>3 DEF Slots
    <3>q. QED
      BY <1>1, <2>1, <2>4, <3>1
  <2>9. NoFlip'
    BY <1>1, <2>1, <2>2, <2>3, <2>4 DEF NoFlip, HeldFront, FlipDone
  <2>10. AfterModeset'
    BY <1>1, <1>2, <2>1, <2>2, <2>8, <2>9 DEF AfterModeset
  <2>q. QED
    BY <1>4, <1>5, <2>5, <2>6, <2>7, <2>10 DEF DisplayInv
<1>q. QED
  BY <1>6, <1>7
(* The frame is dropped, or the kernel refuses it: the display shows what  *)
(* it showed, whether or not a framebuffer had to go for it.               *)
LEMMA NotShownKeeps ==
    ASSUME DisplayInv, pc = "submit", NotShown(work), UNCHANGED <<owner, initialized>>
    PROVE  DisplayInv'
<1>1. /\ frontPacket' = HeldFront /\ pendingPacket' = HeldPending
      /\ work' = None /\ Released(Replaced \union {work}) /\ pc' = "send"
      /\ UNCHANGED <<modeset, front, pending, hasFront>>
  BY DEF NotShown
<1>2. /\ OneHolder' /\ free' \in SUBSET Buffers
      /\ frontPacket' \in Handles /\ pendingPacket' \in Handles /\ work' \in Handles
  BY <1>1, LeasesChangeHands
<1>3. Working'
  BY <1>1 DEF Working
<1>4. /\ UNCHANGED <<screen, queued, event>> /\ slots' \in [Slots -> Framebuffers] /\ CachedOnce'
      /\ \A j \in Slots : slots'[j].state = slots[j].state
      /\ \A j \in Slots : j = front \/ pending # 0 => slots'[j] = slots[j]
  <2>1. CASE UNCHANGED <<slots, kernel>>
    BY <2>1 DEF DisplayInv, TypeOK, CachedOnce, kernel
  <2>2. CASE /\ pending = 0 /\ SlotFor(work) # 0
             /\ ImportFails(work) \/ CommitFails(work)
             /\ screen' = Kept(screen, work) /\ UNCHANGED <<queued, event>>
    <3>1. \/ slots' = Imported(work)
          \/ FindCachedFb(work) = 0 /\ slots' = [slots EXCEPT ![FindFreeFbSlot] = Unused]
      BY <2>2 DEF ImportFails, CommitFails
    <3>2. /\ slots' \in [Slots -> Framebuffers]
          /\ \A i, j \in Slots :
                slots'[i].buffer = slots'[j].buffer /\ i # j => slots'[i].buffer = None
          /\ \A j \in Slots : slots'[j].state = slots[j].state
          /\ \A j \in Slots : j # SlotFor(work) => slots'[j] = slots[j]
          /\ Kept(screen, work) = screen
      BY <2>2, <3>1, ImportIsSafe
    <3>3. SlotFor(work) # front
      BY <2>2, SlotIsNotFront
    <3>q. QED
      BY <2>2, <3>2, <3>3 DEF CachedOnce
  <2>q. QED
    BY <2>1, <2>2 DEF NotShown
<1>5. TypeOK'
  BY <1>1, <1>2, <1>4 DEF DisplayInv, TypeOK
<1>6. modeset \/ (HeldFront = None /\ HeldPending = None)
  BY DEF DisplayInv, BeforeModeset, NothingHeld, HeldFront, HeldPending, FlipDone
<1>7. BeforeModeset'
  BY <1>1, <1>4, <1>6, AtSubmit DEF DisplayInv, BeforeModeset, Dark, NothingHeld
<1>8. CASE modeset
  <2>1. /\ front \in Slots /\ frontPacket # None
        /\ \A i \in Slots : /\ slots'[i].state = "front" <=> i = front
                            /\ slots'[i].state = "queued" <=> i = pending
    BY <1>4, <1>8, AtSubmit, DrmDisplayAssumption DEF DisplayInv, AfterModeset, TypeOK, Slots
  <2>2. front # 0 /\ HeldFront # None
    BY <2>1 DEF Slots, HeldFront, FlipDone
  <2>3. CASE NoFlip
    <3>1. HeldPending = None
      BY <2>3 DEF NoFlip, HeldPending, FlipDone
    <3>2. NoFlip'
      BY <1>1, <1>4, <2>1, <2>3, <3>1 DEF NoFlip, HeldFront, FlipDone
    <3>q. QED
      BY <1>1, <1>2, <1>3, <1>4, <1>5, <1>7, <2>1, <2>2, <3>2 DEF DisplayInv, AfterModeset
  <2>4. CASE FlipUnderWay
    <3>1. HeldFront = frontPacket /\ HeldPending = pendingPacket
      BY <2>4 DEF FlipUnderWay, HeldFront, HeldPending, FlipDone
    <3>2. pending \in Slots
      BY <2>4, DrmDisplayAssumption DEF DisplayInv, TypeOK, Slots, FlipUnderWay
    <3>3. FlipUnderWay'
      BY <1>1, <1>4, <2>1, <2>4, <3>1, <3>2 DEF FlipUnderWay
    <3>q. QED
      BY <1>1, <1>2, <1>3, <1>4, <1>5, <1>7, <2>1, <2>2, <3>3 DEF DisplayInv, AfterModeset
  <2>q. QED
    BY <1>8, <2>3, <2>4, AtSubmit
<1>9. CASE ~modeset
  <2>1. AfterModeset'
    BY <1>1, <1>9 DEF AfterModeset
  <2>q. QED
    BY <1>2, <1>3, <1>4, <1>5, <1>7, <2>1 DEF DisplayInv
<1>q. QED
  BY <1>8, <1>9

LEMMA SubmitKeeps ==
    ASSUME DisplayInv, Submit PROVE DisplayInv'
BY ShownKeeps, NotShownKeeps DEF Submit
-----------------------------------------------------------------------------
LEMMA DisplayInit ==
    ASSUME Init PROVE DisplayInv
<1>1. Unused \in Framebuffers
  BY DEF Unused, Framebuffers, Handles
<1>b. /\ initialized \in BOOLEAN /\ modeset \in BOOLEAN /\ hasFront \in BOOLEAN
      /\ event \in BOOLEAN
  BY Zenon DEF Init
<1>s. slots \in [Slots -> Framebuffers] /\ front \in 0..FB_COUNT /\ pending \in 0..FB_COUNT
  BY <1>1, DrmDisplayAssumption DEF Init
<1>2. TypeOK
  BY <1>b, <1>s DEF Init, TypeOK, Handles
<1>3. Working /\ OneHolder /\ CachedOnce
  BY DrmDisplayAssumption DEF Init, Working, OneHolder, CachedOnce, Unused
<1>4. BeforeModeset /\ AfterModeset
  BY DEF Init, BeforeModeset, AfterModeset, Dark, NothingHeld, Unused
<1>q. QED
  BY <1>2, <1>3, <1>4 DEF DisplayInv

LEMMA DisplayNext ==
    ASSUME DisplayInv, [Next]_vars PROVE DisplayInv'
<1>1. CASE Start \/ ClientUp \/ Started \/ Stop \/ RequestDecodeThreadStop \/ Joined
           \/ EnqueueNalu \/ Take \/ PacketDone
  BY <1>1, ApartSteps, ApartKeeps
<1>2. CASE Destroy
  BY <1>2, DestroyKeeps
<1>3. ASSUME NEW l \in Layouts, CopyFrame(l) PROVE DisplayInv'
  BY <1>3, CopyFrameKeeps
<1>4. CASE Copied
  BY <1>4, CopiedKeeps
<1>5. CASE EnsureInitialized
  BY <1>5, EnsureInitializedKeeps
<1>6. CASE PollEvents \/ AwaitEvent
  BY <1>6, EventsKeep
<1>7. CASE Submit
  BY <1>7, SubmitKeeps
<1>8. CASE VBlank
  BY <1>8, VBlankKeeps
<1>9. CASE UNCHANGED vars
  <2>1. Apart
    BY <1>9 DEF vars, thread, pool, ctx, slotsOf, leases, kernel, Apart
  <2>q. QED
    BY <2>1, ApartKeeps
<1>q. QED
  BY <1>1, <1>2, <1>3, <1>4, <1>5, <1>6, <1>7, <1>8, <1>9 DEF Next, Owner, DecodeThread

(* The inductive invariant.                                                *)
THEOREM DisplayInvHolds == Spec => []DisplayInv
<1>1. Init => DisplayInv
  BY DisplayInit
<1>2. DisplayInv /\ [Next]_vars => DisplayInv'
  BY DisplayNext
<1>q. QED
  BY <1>1, <1>2, PTL DEF Spec
-----------------------------------------------------------------------------
(* The buffer on the screen and the one that comes next are leased and not *)
(* written to: what DrmPresenter keeps two packets for. Whatever the sizes *)
(* of pool and cache, whatever fails, and wherever a vertical blank falls. *)
THEOREM ScanoutStaysLeased == Spec => []ScanoutIsLeased
<1>1. ASSUME DisplayInv PROVE ScanoutIsLeased
  <2>1. CASE modeset /\ owner # "gone"
    <3>1. CASE NoFlip
      <4>1. queued = None /\ screen \in {frontPacket, pendingPacket}
        BY <3>1 DEF NoFlip, HeldFront, FlipDone
      <4>q. QED
        BY <4>1, <2>1, <1>1 DEF ScanoutIsLeased, DisplayInv, Working, OneHolder
    <3>2. CASE FlipUnderWay
      <4>1. {screen, queued} \subseteq {frontPacket, pendingPacket, None}
        BY <3>2 DEF FlipUnderWay
      <4>q. QED
        BY <4>1, <1>1 DEF ScanoutIsLeased, DisplayInv, Working, OneHolder
    <3>q. QED
      BY <1>1, <2>1, <3>1, <3>2 DEF DisplayInv, AfterModeset
  <2>2. CASE ~modeset \/ owner = "gone"
    BY <1>1, <2>2 DEF DisplayInv, BeforeModeset, Dark, Working, OneHolder, ScanoutIsLeased
  <2>q. QED
    BY <2>1, <2>2
<1>q. QED
  BY <1>1, DisplayInvHolds, PTL

-----------------------------------------------------------------------------
(* Two buffers are not all of the pool.                                    *)
LEMMA ThirdBuffer ==
    ASSUME NEW b, NEW c, Buffers \subseteq {b, c} PROVE FALSE
<1>1. IsFiniteSet({b}) /\ Cardinality({b}) = 1
  BY FS_Singleton
<1>2. IsFiniteSet({b} \union {c}) /\ Cardinality({b} \union {c}) \in {1, 2}
  BY <1>1, FS_AddElement
<1>3. Cardinality(Buffers) =< Cardinality({b} \union {c}) /\ Cardinality(Buffers) \in Nat
  <2>1. Buffers \subseteq {b} \union {c}
    OBVIOUS
  <2>q. QED
    BY <1>2, <2>1, FS_Subset, FS_CardinalityType
<1>q. QED
  BY <1>2, <1>3, EnoughForOneThread

(* Between two frames the presenter holds two buffers at most, and without *)
(* a flip under way one slot is in use.                                    *)
LEMMA ThereIsRoom ==
    ASSUME DisplayInv PROVE RoomForNextFrame
<1>1. ASSUME pc = "send", free = {} PROVE FALSE
  <2>1. work = None
    BY <1>1 DEF DisplayInv, Working
  <2>2. Buffers \subseteq {frontPacket, pendingPacket}
    BY <1>1, <2>1 DEF DisplayInv, OneHolder
  <2>q. QED
    BY <2>2, ThirdBuffer
<1>2. ASSUME pc = "submit", pending = 0, SlotFor(work) = 0 PROVE FALSE
  <2>1. FindFreeFbSlot = 0
    BY <1>2 DEF SlotFor
  <2>2. \A j \in Slots : slots[j].state # "free"
    BY <2>1, FreeSlotFound DEF DisplayInv
  <2>3. \A j \in Slots : j = front
    BY <1>2, <2>2, OthersAreFree
  <2>4. 1 \in Slots /\ 2 \in Slots
    BY DrmDisplayAssumption, EnoughForOneThread DEF Slots
  <2>q. QED
    BY <2>3, <2>4
<1>q. QED
  BY <1>1, <1>2 DEF RoomForNextFrame

(* drm_fds agrees with what the kernel shows, through failed imports and   *)
(* commits, and no frame is lost for want of a buffer or a slot.           *)
THEOREM CacheStaysSound == Spec => []CacheIsSound
<1>1. ASSUME DisplayInv PROVE CacheMatchesScreen
  <2>1. SUFFICES ASSUME modeset, owner # "gone"
                 PROVE  /\ pending = 0 => screen = slots[front].buffer /\ queued = None
                        /\ pending # 0 => slots[pending].buffer = IF event THEN screen ELSE queued
                        /\ pending # 0 /\ ~event => screen = slots[front].buffer
    BY DEF CacheMatchesScreen
  <2>2. NoFlip \/ FlipUnderWay
    BY <1>1, <2>1 DEF DisplayInv, AfterModeset
  <2>3. CASE NoFlip
    BY <2>3 DEF NoFlip
  <2>4. CASE FlipUnderWay
    BY <2>4 DEF FlipUnderWay
  <2>q. QED
    BY <2>2, <2>3, <2>4
<1>2. ASSUME DisplayInv PROVE CacheIsSound
  BY <1>1, <1>2, ThereIsRoom DEF CacheIsSound
<1>q. QED
  BY <1>2, DisplayInvHolds, PTL
-----------------------------------------------------------------------------
(* The route. What the scan reads is what there is.                        *)
LEMMA LookedAt ==
    ASSUME NEW S, NEW s \in Seq(S)
    PROVE  /\ Looked(s) \in Seq(S) /\ DOMAIN Looked(s) = 1..Len(Looked(s)) /\ Len(Looked(s)) \in Nat
           /\ \A i \in DOMAIN Looked(s) : i \in DOMAIN s /\ Looked(s)[i] = s[i]
           /\ s # <<>> => Looked(s) # <<>> /\ Looked(s)[1] = s[1] /\ 1 \in DOMAIN s
<1> DEFINE n == IF Len(s) < ScanLimit THEN Len(s) ELSE ScanLimit
<1>1. Len(s) \in Nat /\ n \in Nat /\ n <= Len(s) /\ DOMAIN s = 1..Len(s)
  BY DrmDisplayAssumption, LenProperties
<1>2. Looked(s) = [i \in 1..n |-> s[i]]
  BY <1>1 DEF Looked
<1>3. \A i \in 1..n : i \in DOMAIN s /\ s[i] \in S
  BY <1>1
<1>4. Looked(s) \in [1..n -> S]
  BY <1>2, <1>3
<1>5. Looked(s) \in Seq(S) /\ Len(Looked(s)) = n
  BY <1>1, <1>2, <1>4, SeqDef
<1>6. s # <<>> => n > 0
  BY <1>1, DrmDisplayAssumption, EmptySeq
<1>7. ASSUME n > 0 PROVE Looked(s) # <<>> /\ Looked(s)[1] = s[1] /\ 1 \in DOMAIN s
  BY <1>1, <1>2, <1>5, <1>7
<1>q. QED
  BY <1>1, <1>2, <1>5, <1>6, <1>7, <1>3

(* The first CRTC of a mask is one of the mask, and there is one if the    *)
(* mask names a CRTC that there is.                                        *)
LEMMA PossibleCrtcs ==
    ASSUME NEW b \in Hardware, NEW mask
    PROVE  LET possible == FillPossibleCrtcs(mask, b)
           IN  /\ \A x \in possible : x \in 1..b.crtcs /\ x - 1 \in mask
               /\ possible # {} => Min(possible) \in possible
               /\ (\E x \in 1..b.crtcs : x - 1 \in mask) => possible # {}
<1> DEFINE masked == {i \in 1..b.crtcs : i - 1 \in mask}
           possible == FillPossibleCrtcs(mask, b)
<1>1. possible = {i \in masked : Cardinality({j \in masked : j < i}) < ScanLimit}
  BY DEF FillPossibleCrtcs
<1>2. masked \subseteq Nat /\ possible \subseteq masked
  BY <1>1 DEF Hardware
<1>3. ASSUME masked # {} PROVE possible # {}
  <2>1. Min(masked) \in masked
    BY <1>2, <1>3, FirstSlot
  <2>2. PICK x \in masked : \A y \in masked : x <= y
    BY <1>2, <1>3, LeastNumber
  <2>3. ASSUME NEW y \in masked, y < x PROVE FALSE
    BY <1>2, <2>2, <2>3
  <2>4. {j \in masked : j < x} = {}
    BY <2>3
  <2>5. Cardinality({j \in masked : j < x}) < ScanLimit
    <3>1. Cardinality({j \in masked : j < x}) = 0
      BY <2>4, FS_EmptySet, Zenon
    <3>q. QED
      BY <3>1, DrmDisplayAssumption
  <2>q. QED
    BY <1>1, <2>5
<1>4. possible # {} => Min(possible) \in possible
  BY <1>2, FirstSlot
<1>q. QED
  BY <1>2, <1>3, <1>4

(* The connector that is chosen is connected and has modes, and they are   *)
(* the first of its own.                                                   *)
LEMMA ConnectorChosen ==
    ASSUME NEW b \in Hardware, NEW c,
           c = ChooseConnectedConnector(DrmInit(b)), c \in DOMAIN DrmInit(b).connectors
    PROVE  /\ c \in DOMAIN b.connectors
           /\ b.connectors[c].readable /\ b.connectors[c].connected /\ b.connectors[c].modes # <<>>
           /\ DrmInit(b).connectors[c].encoder = b.connectors[c].encoder
           /\ DrmInit(b).connectors[c].encoders = Looked(b.connectors[c].encoders)
           /\ DrmInit(b).connectors[c].modes = Looked(b.connectors[c].modes)
<1> DEFINE res == DrmInit(b)
           I == {i \in 1..Len(res.connectors) :
                    res.connectors[i].connected /\ res.connectors[i].modes # <<>>}
<1>1. b.connectors \in Seq(Connectors)
  BY DEF Hardware
<1>2. /\ DOMAIN Looked(b.connectors) = 1..Len(Looked(b.connectors))
      /\ Len(Looked(b.connectors)) \in Nat
      /\ \A i \in DOMAIN Looked(b.connectors) : i \in DOMAIN b.connectors
  BY <1>1, LookedAt, SMTT(30)
<1>3. /\ DOMAIN res.connectors = 1..Len(Looked(b.connectors))
      /\ \A i \in DOMAIN res.connectors :
            LET k == b.connectors[i]
            IN  /\ res.connectors[i].connected <=> k.readable /\ k.connected
                /\ res.connectors[i].encoder = IF k.readable THEN k.encoder ELSE 0
                /\ res.connectors[i].encoders = IF k.readable THEN Looked(k.encoders) ELSE <<>>
                /\ res.connectors[i].modes = IF k.readable THEN Looked(k.modes) ELSE <<>>
  BY <1>2 DEF DrmInit, ScanConnectors
<1>4. Len(res.connectors) = Len(Looked(b.connectors))
  BY <1>2, <1>3 DEF DrmInit, ScanConnectors
<1>5. c = IF I # {} THEN Min(I) ELSE 0
  BY DEF ChooseConnectedConnector, FirstOf, SelectInSeq
<1>6. I \subseteq Nat /\ 0 \notin DOMAIN res.connectors
  BY <1>2, <1>3, <1>4
<1>7. c \in I
  BY <1>5, <1>6, FirstSlot
<1>8. res.connectors[c].connected /\ res.connectors[c].modes # <<>>
  BY <1>7
<1>9. b.connectors[c].readable /\ b.connectors[c].connected
  BY <1>7, <1>8, <1>3, Zenon
<1>10. Looked(b.connectors[c].modes) # <<>>
  BY <1>7, <1>8, <1>3, <1>9, Zenon
<1>11. b.connectors[c].modes # <<>>
  BY <1>10 DEF Looked
<1>q. QED
  BY <1>2, <1>3, <1>9, <1>11

(* The CRTC taken from an encoder is one it can have, and one is taken     *)
(* from an encoder that was read and can have any.                         *)
LEMMA EncoderCrtc ==
    ASSUME NEW b \in Hardware, NEW id
    PROVE  LET x == CrtcOfEncoder(DrmInit(b), id)
               e == b.encoders[id]
           IN  /\ x # 0 => id \in DOMAIN b.encoders /\ id # 0 /\ x - 1 \in e.mask
               /\ /\ id \in DOMAIN Looked(b.encoders) /\ e.readable
                  /\ e.crtc # 0 \/ \E y \in 1..b.crtcs : y - 1 \in e.mask
                  => x # 0
<1> DEFINE res == DrmInit(b)
           e == b.encoders[id]
           possible == FillPossibleCrtcs(e.mask, b)
           x == CrtcOfEncoder(res, id)
<1>1. b.encoders \in Seq(Encoders) /\ b.crtcs \in Nat
  BY DEF Hardware
<1>2. /\ DOMAIN Looked(b.encoders) = 1..Len(Looked(b.encoders))
      /\ Len(Looked(b.encoders)) \in Nat
      /\ \A i \in DOMAIN Looked(b.encoders) : i \in DOMAIN b.encoders
  BY <1>1, LookedAt
<1>3. DOMAIN res.encoders = DOMAIN Looked(b.encoders)
  BY DEF DrmInit, ScanEncoders
<1>4. CASE id \notin DOMAIN Looked(b.encoders)
  BY <1>3, <1>4 DEF CrtcOfEncoder
<1>5. CASE id \in DOMAIN Looked(b.encoders)
  <2>1. e \in Encoders /\ id \in DOMAIN b.encoders /\ id # 0
    BY <1>1, <1>2, <1>5
  <2>2. e.crtc \in Nat /\ (e.crtc # 0 => e.crtc - 1 \in e.mask)
    BY <2>1 DEF Encoders
  <2>3. /\ res.encoders[id].crtc = IF e.readable THEN e.crtc ELSE 0
        /\ res.encoders[id].possible = IF e.readable THEN possible ELSE {}
    BY <1>5 DEF DrmInit, ScanEncoders
  <2>4. x = IF res.encoders[id].crtc # 0 THEN res.encoders[id].crtc
            ELSE IF res.encoders[id].possible # {} THEN Min(res.encoders[id].possible) ELSE 0
    BY <1>3, <1>5 DEF CrtcOfEncoder
  <2>5. x = IF e.readable /\ e.crtc # 0 THEN e.crtc
            ELSE IF e.readable /\ possible # {} THEN Min(possible) ELSE 0
    BY <2>3, <2>4, Zenon
  <2>6. /\ \A y \in possible : y \in 1..b.crtcs /\ y - 1 \in e.mask
        /\ possible # {} => Min(possible) \in possible
        /\ (\E y \in 1..b.crtcs : y - 1 \in e.mask) => possible # {}
    BY PossibleCrtcs
  <2>7. \A y \in possible : y # 0
    BY <2>6, <1>1
  <2>8. ASSUME e.readable, e.crtc = 0, possible # {}
        PROVE  x = Min(possible) /\ x # 0 /\ x - 1 \in e.mask
    BY <2>5, <2>6, <2>7, <2>8, Zenon
  <2>9. ASSUME e.readable, e.crtc # 0 PROVE x = e.crtc
    BY <2>5, <2>9, Zenon
  <2>10. ASSUME ~e.readable PROVE x = 0
    BY <2>5, <2>10, Zenon
  <2>11. ASSUME e.crtc = 0, possible = {} PROVE x = 0
    BY <2>5, <2>11, Zenon
  <2>12. x # 0 => x - 1 \in e.mask
    BY <2>2, <2>8, <2>9, <2>10, <2>11, Zenon
  <2>13. e.readable /\ (e.crtc # 0 \/ \E y \in 1..b.crtcs : y - 1 \in e.mask) => x # 0
    BY <2>6, <2>8, <2>9, Zenon
  <2>q. QED
    BY <2>1, <2>12, <2>13, Zenon
<1>q. QED
  BY <1>4, <1>5

(* A connector with an encoder that can have a CRTC gets a CRTC that one   *)
(* of its encoders can have.                                               *)
LEMMA CrtcChosen ==
    ASSUME NEW b \in Hardware, NEW c,
           c = ChooseConnectedConnector(DrmInit(b)), c \in DOMAIN DrmInit(b).connectors,
           HasEncoder(b.connectors[c], b)
    PROVE  \E id \in ToSet(b.connectors[c].encoders) :
              ChooseCrtcForConnector(DrmInit(b), c) - 1 \in b.encoders[id].mask
<1> DEFINE res == DrmInit(b)
           k == b.connectors[c]
           mine == <<res.connectors[c].encoder>> \o res.connectors[c].encoders
           crtcs == [i \in DOMAIN mine |-> CrtcOfEncoder(res, mine[i])]
           I == {i \in 1..Len(crtcs) : crtcs[i] # 0}
           first == IF I # {} THEN Min(I) ELSE 0
<1>1. /\ c \in DOMAIN b.connectors /\ res.connectors[c].encoder = k.encoder
      /\ res.connectors[c].encoders = Looked(k.encoders)
  BY ConnectorChosen
<1>2. k \in Connectors /\ k.encoder \in {0} \union ToSet(k.encoders)
  <2>1. b.connectors \in Seq({x \in Connectors : x.encoder \in {0} \union ToSet(x.encoders)})
    BY DEF Hardware
  <2>q. QED
    BY <2>1, <1>1
<1>3. k.encoder \in Nat /\ k.encoders \in Seq(Nat)
  BY <1>2 DEF Connectors
<1>4. /\ Looked(k.encoders) \in Seq(Nat) /\ Len(Looked(k.encoders)) \in Nat
      /\ DOMAIN Looked(k.encoders) = 1..Len(Looked(k.encoders))
      /\ \A i \in DOMAIN Looked(k.encoders) :
            i \in DOMAIN k.encoders /\ Looked(k.encoders)[i] = k.encoders[i]
  BY <1>3, LookedAt
<1>5. mine = <<k.encoder>> \o Looked(k.encoders)
  BY <1>1
<1> HIDE DEF mine
<1>6. /\ mine \in Seq(Nat) /\ DOMAIN mine = 1..(1 + Len(Looked(k.encoders)))
      /\ mine[1] = k.encoder
      /\ \A i \in 1..Len(Looked(k.encoders)) : mine[i + 1] = Looked(k.encoders)[i]
  BY <1>3, <1>4, <1>5, ConcatProperties
<1>7. \A i \in DOMAIN mine : mine[i] \in {0} \union ToSet(k.encoders)
  <2>1. ASSUME NEW i \in DOMAIN mine, i # 1
        PROVE  i - 1 \in 1..Len(Looked(k.encoders)) /\ mine[i] = Looked(k.encoders)[i - 1]
    <3>1. i - 1 \in 1..Len(Looked(k.encoders)) /\ (i - 1) + 1 = i
      BY <2>1, <1>4, <1>6
    <3>q. QED
      BY <3>1, <1>6
  <2>2. \A j \in 1..Len(Looked(k.encoders)) : Looked(k.encoders)[j] \in ToSet(k.encoders)
    BY <1>4 DEF ToSet
  <2>q. QED
    BY <2>1, <2>2, <1>2, <1>6
<1>8. DOMAIN crtcs = DOMAIN mine /\ Len(crtcs) = 1 + Len(Looked(k.encoders))
  BY <1>4, <1>6
<1>9. \A i \in DOMAIN mine : crtcs[i] = CrtcOfEncoder(res, mine[i])
  BY DEF crtcs
<1>10. I \subseteq DOMAIN mine /\ I \subseteq Nat /\ 0 \notin I
  BY <1>8, <1>6, <1>4
<1>11. I # {}
  <2>1. PICK id \in ToSet(Looked(k.encoders)) \intersect DOMAIN Looked(b.encoders) :
          /\ b.encoders[id].readable
          /\ b.encoders[id].crtc # 0 \/ \E x \in 1..b.crtcs : x - 1 \in b.encoders[id].mask
    BY DEF HasEncoder
  <2>2. CrtcOfEncoder(res, id) # 0
    BY <2>1, EncoderCrtc, Zenon
  <2>3. PICK i \in DOMAIN Looked(k.encoders) : Looked(k.encoders)[i] = id
    BY <2>1 DEF ToSet
  <2>4. i + 1 \in DOMAIN mine /\ mine[i + 1] = id
    <3>1. i \in 1..Len(Looked(k.encoders))
      BY <2>3, <1>4
    <3>2. mine[i + 1] = Looked(k.encoders)[i]
      BY <3>1, <1>6
    <3>3. i + 1 \in 1..(1 + Len(Looked(k.encoders)))
      BY <3>1, <1>4
    <3>q. QED
      BY <2>3, <3>2, <3>3, <1>6
  <2>5. crtcs[i + 1] # 0
    BY <2>2, <2>4, <1>9
  <2>6. i + 1 \in 1..Len(crtcs)
    BY <2>4, <1>8, <1>6
  <2>q. QED
    BY <2>5, <2>6
<1>12. first \in I /\ first # 0
  BY <1>10, <1>11, FirstSlot
<1>13. ChooseCrtcForConnector(res, c) = crtcs[first]
  <2>1. ChooseCrtcForConnector(res, c) = IF first = 0 THEN FirstCrtc(res, c) ELSE crtcs[first]
    BY DEF ChooseCrtcForConnector, FirstOf, SelectInSeq, mine
  <2>q. QED
    BY <2>1, <1>12
<1>14. crtcs[first] # 0 /\ first \in DOMAIN mine
  BY <1>12, <1>10
<1>15. CrtcOfEncoder(res, mine[first]) # 0 /\ crtcs[first] = CrtcOfEncoder(res, mine[first])
  BY <1>14, <1>9
<1>16. mine[first] # 0 /\ CrtcOfEncoder(res, mine[first]) - 1 \in b.encoders[mine[first]].mask
  BY <1>15, EncoderCrtc, Zenon
<1>q. QED
  BY <1>7, <1>13, <1>14, <1>15, <1>16

(* The plane and the mode that were chosen are what the hardware has.      *)
LEMMA PlaneChosen ==
    ASSUME NEW b \in Hardware, NEW p \in DOMAIN DrmInit(b).planes, NEW x,
           PlaneSupports(DrmInit(b).planes[p], x)
    PROVE  x - 1 \in b.planes[p].mask /\ Format \in ToSet(b.planes[p].formats)
<1>1. b.planes \in Seq(Planes)
  BY DEF Hardware
<1>2. p \in DOMAIN Looked(b.planes) /\ p \in DOMAIN b.planes /\ b.planes[p] \in Planes
  <2>1. p \in DOMAIN Looked(b.planes)
    BY DEF DrmInit, ScanPlanes
  <2>2. p \in DOMAIN b.planes
    BY <2>1, <1>1, LookedAt
  <2>q. QED
    BY <2>1, <2>2, <1>1
<1>3. LET q == b.planes[p]
      IN  /\ DrmInit(b).planes[p].crtcs = IF q.readable THEN FillPossibleCrtcs(q.mask, b) ELSE {}
          /\ DrmInit(b).planes[p].formats = IF q.readable THEN Looked(q.formats) ELSE <<>>
  BY <1>2 DEF DrmInit, ScanPlanes
<1>4. x \in FillPossibleCrtcs(b.planes[p].mask, b)
  BY <1>3 DEF PlaneSupports
<1>5. Format \in ToSet(Looked(b.planes[p].formats))
  BY <1>3 DEF PlaneSupports, ToSet
<1>6. b.planes[p].formats \in Seq(STRING)
  BY <1>2 DEF Planes
<1>7. Format \in ToSet(b.planes[p].formats)
  BY <1>5, <1>6, LookedAt DEF ToSet
<1>q. QED
  BY <1>4, <1>7, PossibleCrtcs

RouteFits(b, r) ==
    LET connector == b.connectors[r.connector]
        plane == b.planes[r.plane]
        mine == {b.encoders[e] : e \in ToSet(connector.encoders)}
    IN  /\ connector.connected /\ r.mode \in ToSet(connector.modes)
        /\ \E e \in mine : r.crtc - 1 \in e.mask
        /\ r.crtc - 1 \in plane.mask /\ Format \in ToSet(plane.formats)

LEMMA RouteChosen ==
    ASSUME board \in Boards, NEW r \in SetupConfig(DrmInit(board))
    PROVE  RouteFits(board, r)
<1> DEFINE res == DrmInit(board)
           c == r.connector
<1>1. /\ c \in DOMAIN res.connectors /\ r.plane \in DOMAIN res.planes
      /\ c = ChooseConnectedConnector(res)
      /\ r.crtc = ChooseCrtcForConnector(res, c)
      /\ r.mode = ChooseModeForConfig(res.connectors[c])
      /\ PlaneSupports(res.planes[r.plane], r.crtc)
  BY DEF SetupConfig
<1> HIDE DEF c
<1>2. board \in Hardware
  BY HardwareAssumption
<1>3. /\ c \in DOMAIN board.connectors
      /\ board.connectors[c].readable /\ board.connectors[c].connected
      /\ board.connectors[c].modes # <<>>
      /\ res.connectors[c].modes = Looked(board.connectors[c].modes)
  BY <1>1, <1>2, ConnectorChosen
<1>4. HasEncoder(board.connectors[c], board)
  BY <1>3, HardwareAssumption, Zenon
<1>5. \E id \in ToSet(board.connectors[c].encoders) : r.crtc - 1 \in board.encoders[id].mask
  BY <1>1, <1>2, <1>4, CrtcChosen
<1>6. r.crtc - 1 \in board.planes[r.plane].mask /\ Format \in ToSet(board.planes[r.plane].formats)
  BY <1>1, <1>2, PlaneChosen
<1>7. board.connectors[c].modes \in Seq(Nat)
  BY <1>2, <1>3 DEF Hardware, Connectors
<1>8. Looked(board.connectors[c].modes) # <<>>
      /\ Looked(board.connectors[c].modes)[1] = board.connectors[c].modes[1]
      /\ 1 \in DOMAIN board.connectors[c].modes
  BY <1>3, <1>7, LookedAt
<1>9. r.mode = board.connectors[c].modes[1]
  BY <1>1, <1>3, <1>8 DEF ChooseModeForConfig
<1>10. r.mode \in ToSet(board.connectors[c].modes)
  BY <1>8, <1>9 DEF ToSet
<1>q. QED
  BY <1>3, <1>5, <1>6, <1>10 DEF RouteFits, c

(* The route in use is one that was chosen for the board there is.         *)
RouteInv ==
    /\ board \in Boards
    /\ initialized => route \in SetupConfig(DrmInit(board))

LEMMA RouteKept ==
    ASSUME RouteInv, Next PROVE RouteInv'
<1>1. ASSUME UNCHANGED <<board, initialized, route>> PROVE RouteInv'
  BY <1>1 DEF RouteInv, SetupConfig, AtomicCacheProps
<1>2. ASSUME EnsureInitialized PROVE RouteInv'
  <2>1. board' = board
    BY <1>2 DEF EnsureInitialized
  <2>2. SetupConfig(DrmInit(board))' = SetupConfig(DrmInit(board))
    BY <2>1 DEF SetupConfig, AtomicCacheProps
  <2>3. \/ UNCHANGED <<initialized, route>>
        \/ route' \in SetupConfig(DrmInit(board))
    BY <1>2 DEF EnsureInitialized, ctx
  <2>q. QED
    BY <2>1, <2>2, <2>3 DEF RouteInv
<1>3. ASSUME Owner \/ ClientUp \/ EnqueueNalu \/ VBlank PROVE UNCHANGED <<board, initialized, route>>
  BY <1>3 DEF Owner, Start, Started, Stop, RequestDecodeThreadStop, Joined, Destroy, ClientUp,
              EnqueueNalu, VBlank, ctx
<1>4. ASSUME Take \/ PacketDone \/ Copied PROVE UNCHANGED <<board, initialized, route>>
  BY <1>4 DEF Take, PacketDone, Copied, ctx
<1>5. ASSUME PollEvents \/ AwaitEvent PROVE UNCHANGED <<board, initialized, route>>
  BY <1>5 DEF PollEvents, AwaitEvent, ctx
<1>6. ASSUME Submit PROVE UNCHANGED <<board, initialized, route>>
  BY <1>6 DEF Submit
<1>7. ASSUME NEW l \in Layouts, CopyFrame(l) PROVE UNCHANGED <<board, initialized, route>>
  BY <1>7 DEF CopyFrame, ctx
<1>q. QED
  BY <1>1, <1>2, <1>3, <1>4, <1>5, <1>6, <1>7 DEF Next, DecodeThread

(* The route of the display, once it is set up, can be committed, whatever *)
(* the hardware: what was scanned only in part, or could not be read, never*)
(* leads to a connector, a CRTC and a plane that do not go together.       *)
THEOREM RouteStaysPossible == Spec => []RouteIsPossible
<1>1. Init => RouteInv
  BY DEF Init, RouteInv
<1>2. ASSUME RouteInv, [Next]_vars PROVE RouteInv'
  <2>1. ASSUME UNCHANGED vars PROVE RouteInv'
    BY <1>2, <2>1 DEF vars, ctx, RouteInv, SetupConfig, AtomicCacheProps
  <2>q. QED
    BY <1>2, <2>1, RouteKept
<1>3. ASSUME RouteInv PROVE RouteIsPossible
  <2>1. SUFFICES ASSUME initialized PROVE RouteFits(board, route)
    BY DEF RouteIsPossible, RouteFits
  <2>q. QED
    BY <1>3, <2>1, RouteChosen DEF RouteInv
<1>q. QED
  BY <1>1, <1>2, <1>3, PTL DEF Spec
-----------------------------------------------------------------------------
(* The overlay.                                                            *)

(* Induction over numbers, about a set: the theorems of the library take   *)
(* an operator.                                                            *)
LEMMA CountingUp ==
    ASSUME NEW T \in SUBSET Nat, 0 \in T, \A n \in T : n + 1 \in T
    PROVE  T = Nat
<1> DEFINE I == Nat \ T
<1> SUFFICES ASSUME I # {} PROVE FALSE
  OBVIOUS
<1>1. PICK x \in I : \A y \in I : x <= y
  BY LeastNumber
<1>2. x # 0 /\ x - 1 \in Nat
  OBVIOUS
<1>3. x - 1 \notin I
  BY <1>1, <1>2
<1>q. QED
  BY <1>2, <1>3
-----------------------------------------------------------------------------
(* The allocator. An attempt that fails leaves nothing, one that makes a   *)
(* memory leaves the memory, and the memory gives back all it holds.       *)
Sound(result) ==
    /\ result.memory \subseteq Things /\ Reset(result.memory) = result.memory
    /\ result.left = [t \in Things |-> IF t \in result.memory THEN 1 ELSE 0]

(* One attempt, on a heap or on a node.                                  *)
LEMMA AttemptLeavesItsMemory ==
    ASSUME NEW node, NEW a \in AllocateFrom(node)
    PROVE  a.left = a.memory /\ a.memory \subseteq Things /\ Reset(a.memory) = a.memory
<1>1. ASSUME NEW x \in AllocateFromHeap PROVE x.left = x.memory /\ x.memory \in {{}, {"buffer", "map"}}
  <2>1. ({"node"} \union {"buffer"}) \ {"node"} = {"buffer"}
    BY Zenon
  <2>2. ({"node"} \ {"node"} = {}) /\ ({"buffer"} \ {"buffer"} = {})
    BY Zenon
  <2>3. {"buffer"} \union {"map"} = {"buffer", "map"}
    BY Zenon
  <2>q. QED
    BY <2>1, <2>2, <2>3 DEF AllocateFromHeap, Fails, Makes, NoMemory
<1>2. ASSUME NEW x \in AllocateFromDrm
      PROVE  x.left = x.memory /\ x.memory \in {{}, {"node", "handle", "map", "buffer"}}
  <2>1. {"node"} \ {"node"} = {}
    BY Zenon
  <2>2. ({"node"} \union {"handle"}) \ {"map", "handle", "node"} = {}
    BY Zenon
  <2>3. (({"node"} \union {"handle"}) \union {"map"}) \ {"map", "handle", "node"} = {}
    BY Zenon
  <2>4. (({"node"} \union {"handle"}) \union {"map"}) \union {"buffer"} = {"node", "handle", "map", "buffer"}
    BY Zenon
  <2>q. QED
    BY <2>1, <2>2, <2>3, <2>4 DEF AllocateFromDrm, Undone, Fails, Makes, NoMemory
<1>3. a.left = a.memory /\ a.memory \in {{}, {"buffer", "map"}, {"node", "handle", "map", "buffer"}}
  BY <1>1, <1>2 DEF AllocateFrom
<1>4. \A m \in {{}, {"buffer", "map"}, {"node", "handle", "map", "buffer"}} :
        m \subseteq Things /\ Reset(m) = m
  BY DEF Things, Reset
<1>q. QED
  BY <1>3, <1>4

(* The results of the first n nodes, for each n.                           *)
Results(results, nodes, n) ==
    results[0] = {[memory |-> NoMemory, left |-> Nothing]}
    /\ \A k \in 1..n : results[k] = Tried(results[k - 1], nodes[k])

LEMMA TriedIsSound ==
    ASSUME NEW S, \A r \in S : Sound(r), NEW node, NEW r \in Tried(S, node)
    PROVE  Sound(r)
<1>1. CASE r \in S
  BY <1>1
<1>2. CASE r \notin S
  <2>1. PICK q \in S, a \in AllocateFrom(node) :
            q.memory = NoMemory /\ r = [memory |-> a.memory, left |-> More(q.left, a.left)]
    BY <1>2 DEF Tried
  <2>2. a.left = a.memory /\ a.memory \subseteq Things /\ Reset(a.memory) = a.memory
    BY <2>1, AttemptLeavesItsMemory
  <2>3. q.left = [t \in Things |-> 0]
    BY <2>1 DEF Sound, NoMemory
  <2>4. More(q.left, a.left) = [t \in Things |-> IF t \in a.memory THEN 1 ELSE 0]
    BY <2>2, <2>3 DEF More
  <2>q. QED
    BY <2>1, <2>2, <2>4 DEF Sound
<1>q. QED
  BY <1>1, <1>2

LEMMA ResultsExist ==
    ASSUME NEW nodes, Len(nodes) \in Nat
    PROVE  \E results : /\ results = [n \in 0..Len(nodes) |->
                                        IF n = 0 THEN {[memory |-> NoMemory, left |-> Nothing]}
                                        ELSE Tried(results[n - 1], nodes[n])]
<1> DEFINE AtFirst == {[memory |-> NoMemory, left |-> Nothing]}
           T == {n \in Nat : \E f : DOMAIN f = 0..n /\ Results(f, nodes, n)}
<1>1. 0 \in T
  <2>1. DOMAIN [k \in 0..0 |-> AtFirst] = 0..0 /\ Results([k \in 0..0 |-> AtFirst], nodes, 0)
    BY DEF Results
  <2>q. QED
    BY <2>1
<1>2. ASSUME NEW n \in T PROVE n + 1 \in T
  <2>1. PICK f : DOMAIN f = 0..n /\ Results(f, nodes, n)
    OBVIOUS
  <2> DEFINE g == [k \in 0..(n + 1) |-> IF k = n + 1 THEN Tried(f[n], nodes[n + 1]) ELSE f[k]]
  <2>2. (\A k \in 0..n : g[k] = f[k]) /\ g[n + 1] = Tried(f[n], nodes[n + 1]) /\ DOMAIN g = 0..(n + 1)
    OBVIOUS
  <2> HIDE DEF g
  <2>3. ASSUME NEW k \in 1..(n + 1) PROVE g[k] = Tried(g[k - 1], nodes[k])
    <3>1. CASE k = n + 1
      BY <3>1, <2>2
    <3>2. CASE k # n + 1
      <4>1. k \in 1..n /\ k \in 0..n /\ k - 1 \in 0..n
        BY <3>2
      <4>q. QED
        BY <4>1, <2>1, <2>2 DEF Results
    <3>q. QED
      BY <3>1, <3>2
  <2>4. g[0] = AtFirst
    <3>1. 0 \in 0..n
      OBVIOUS
    <3>q. QED
      BY <3>1, <2>1, <2>2 DEF Results
  <2>5. Results(g, nodes, n + 1)
    BY <2>3, <2>4 DEF Results
  <2>q. QED
    BY <2>2, <2>5
<1>3. Len(nodes) \in T
  <2>1. T \in SUBSET Nat
    OBVIOUS
  <2> HIDE DEF T
  <2>q. QED
    BY <1>1, <1>2, <2>1, CountingUp
<1>4. PICK f : DOMAIN f = 0..Len(nodes) /\ Results(f, nodes, Len(nodes))
  BY <1>3
<1> DEFINE h == [n \in 0..Len(nodes) |-> f[n]]
<1>5. ASSUME NEW n \in 0..Len(nodes)
      PROVE  h[n] = IF n = 0 THEN AtFirst ELSE Tried(h[n - 1], nodes[n])
  <2>1. CASE n = 0
    BY <2>1, <1>4 DEF Results
  <2>2. CASE n # 0
    <3>1. n \in 1..Len(nodes) /\ n - 1 \in 0..Len(nodes)
      BY <2>2
    <3>q. QED
      BY <3>1, <2>2, <1>4 DEF Results
  <2>q. QED
    BY <2>1, <2>2
<1>6. h = [n \in 0..Len(nodes) |-> IF n = 0 THEN AtFirst ELSE Tried(h[n - 1], nodes[n])]
  BY <1>5
<1>q. QED
  BY <1>6

(* So does allocate(), over all the nodes.                                 *)
LEMMA AllocateIsSound ==
    ASSUME NEW nodes, Len(nodes) \in Nat, NEW r \in Allocate(nodes)
    PROVE  Sound(r)
<1> DEFINE AtFirst == {[memory |-> NoMemory, left |-> Nothing]}
           IsResults(f) == f = [n \in 0..Len(nodes) |-> IF n = 0 THEN AtFirst
                                                        ELSE Tried(f[n - 1], nodes[n])]
           f == CHOOSE g : IsResults(g)
<1>1. IsResults(f)
  BY ResultsExist
<1>2. Allocate(nodes) = f[Len(nodes)]
  BY Zenon DEF Allocate
<1> HIDE DEF f
<1> DEFINE T == {n \in Nat : n =< Len(nodes) => \A q \in f[n] : Sound(q)}
<1>3. 0 \in T
  <2>1. f[0] = AtFirst
    BY <1>1
  <2>2. Reset({}) = {}
    BY DEF Reset
  <2>3. Sound([memory |-> NoMemory, left |-> Nothing])
    BY <2>2 DEF Sound, NoMemory, Nothing
  <2>q. QED
    BY <2>1, <2>3
<1>4. ASSUME NEW n \in T PROVE n + 1 \in T
  <2>1. SUFFICES ASSUME n + 1 =< Len(nodes), NEW q \in f[n + 1] PROVE Sound(q)
    OBVIOUS
  <2>2. n + 1 \in 0..Len(nodes) /\ n + 1 # 0 /\ (n + 1) - 1 = n
    BY <2>1
  <2>3. f[n + 1] = Tried(f[n], nodes[n + 1])
    BY <1>1, <2>2
  <2>4. \A p \in f[n] : Sound(p)
    BY <2>1
  <2>q. QED
    BY <2>1, <2>3, <2>4, TriedIsSound
<1>5. T \in SUBSET Nat
  OBVIOUS
<1>6. T = Nat
  <2> HIDE DEF T
  <2>q. QED
    BY <1>3, <1>4, <1>5, CountingUp
<1>q. QED
  BY <1>2, <1>6
-----------------------------------------------------------------------------
(* What the state is made of.                                              *)
Sizes == [width : Nat, height : Nat]
Rects == [x : Int, y : Int, width : Int, height : Int]
Bitmaps == [text : DOMAIN Glyphs \union {NoText}, width : Nat, height : Nat]
Runtimes == [object : TextObjects, bitmap : Bitmaps, px : Nat \ {0}, placement : Rects,
             band : Nat, placementDirty : BOOLEAN]
Pictures == [id : Ids, text : DOMAIN Glyphs \union {NoText}, color : STRING, px : Nat \ {0},
             rect : Rects]
Bands == [top : Int, height : Int, ids : Seq(Ids), dirty : BOOLEAN, drawn : SUBSET Pictures,
          memory : SUBSET Things]

(* objects and order name the same text objects, each once.                *)
Registered ==
    /\ DOMAIN objects \subseteq Ids /\ objects \in [DOMAIN objects -> Runtimes]
    /\ order \in Seq(Ids) /\ {order[i] : i \in DOMAIN order} = DOMAIN objects
    /\ \A i, j \in DOMAIN order : order[i] = order[j] => i = j

OsdTypeOK ==
    /\ Registered
    /\ bands \in Seq(Bands) /\ bandSize \in Sizes
    /\ source \in VideoFrames /\ destination \in VideoFrames
    /\ inKernel \in [Things -> Nat]
    /\ osdInitialized \in BOOLEAN /\ layoutDirty \in BOOLEAN /\ torn \in BOOLEAN
    /\ fresh \in BOOLEAN

(* A distance in the design is one in the video.                           *)
LEMMA ScaledIsNat ==
    ASSUME NEW v \in Nat, NEW frame, frame.width \in Nat, frame.height \in Nat
    PROVE  ScaleDesignPixels(v, frame) \in Nat
<1> DEFINE narrow == frame.width * DesignHeight <= frame.height * DesignWidth
           n == IF narrow THEN frame.width ELSE frame.height
           d == IF narrow THEN DesignWidth ELSE DesignHeight
<1>1. n \in Nat /\ d \in Nat \ {0}
  BY OsdRendererAssumption
<1>2. ScaleDesignPixels(v, frame) = (2 * v * n + d) \div (2 * d)
  BY DEF ScaleDesignPixels
<1> HIDE DEF n, d
<1>3. ASSUME NEW m \in Nat, NEW k \in Nat \ {0} PROVE m \div k \in Nat
  BY <1>3
<1>4. v * n \in Nat
  BY <1>1
<1>5. 2 * v * n + d \in Nat /\ 2 * d \in Nat \ {0}
  <2>1. 2 * v * n = 2 * (v * n)
    BY <1>1
  <2>q. QED
    BY <1>1, <1>4, <2>1
<1>q. QED
  BY <1>2, <1>3, <1>5

(* Only the size of a frame matters for where objects go.                  *)
LEMMA SizeMatters ==
    ASSUME NEW frame, NEW size, frame.width = size.width, frame.height = size.height, NEW o, NEW v
    PROVE  /\ ScaleDesignPixels(v, frame) = ScaleDesignPixels(v, size)
           /\ EnsureTextBitmap(o, frame) = EnsureTextBitmap(o, size)
           /\ Placement(o, frame) = Placement(o, size)
           /\ HasPlace(o, frame) = HasPlace(o, size)
<1>1. \A w : ScaleDesignPixels(w, frame) = ScaleDesignPixels(w, size)
  BY DEF ScaleDesignPixels
<1>2. \A p : EnsureTextBitmap(p, frame) = EnsureTextBitmap(p, size)
  BY <1>1 DEF EnsureTextBitmap
<1>3. \A p : Placement(p, frame) = Placement(p, size)
  BY <1>1 DEF Placement
<1>4. \A r : IsInside(r, frame) = IsInside(r, size)
  BY DEF IsInside
<1>q. QED
  BY <1>1, <1>2, <1>3, <1>4 DEF HasPlace

LEMMA Halves ==
    ASSUME NEW n \in Nat, NEW m \in Nat PROVE n * m \in Nat /\ (n * m + 1) \div 2 \in Nat
<1>1. n * m \in Nat
  OBVIOUS
<1>2. \A k \in Nat : k \div 2 \in Nat
  OBVIOUS
<1>q. QED
  BY <1>1, <1>2

(* A text with glyphs has a bitmap, as high as the font; one without does not. *)
LEMMA BitmapIsRendered ==
    ASSUME NEW text \in DOMAIN Glyphs, NEW px \in Nat
    PROVE  /\ RenderText(text, px) \in Bitmaps
           /\ Glyphs[text] > 0 <=> RenderText(text, px) # NoBitmap
           /\ Glyphs[text] > 0 => RenderText(text, px).text = text /\ RenderText(text, px).height = px
<1> DEFINE g == Glyphs[text]
           drawn == [text |-> text, width |-> (g * px + 1) \div 2, height |-> px]
<1>1. g \in Nat /\ text # NoText
  BY InputsAssumption, Zenon
<1>2. RenderText(text, px) = IF g = 0 THEN NoBitmap ELSE drawn
  BY Zenon DEF RenderText
<1> HIDE DEF g
<1>3. NoBitmap \in Bitmaps
  BY DEF NoBitmap, Bitmaps
<1>4. (g * px + 1) \div 2 \in Nat
  BY <1>1, Halves
<1>5. drawn \in Bitmaps /\ drawn.text = text /\ drawn.height = px /\ NoBitmap.text = NoText
  BY <1>4 DEF Bitmaps, NoBitmap
<1>6. drawn # NoBitmap
  BY <1>1, <1>5, Zenon
<1> HIDE DEF drawn
<1>7. g > 0 <=> g # 0
  BY <1>1
<1>8. CASE g = 0
  BY <1>2, <1>3, <1>7, <1>8, Zenon DEF g
<1>9. CASE g # 0
  <2>1. RenderText(text, px) = drawn /\ g > 0
    BY <1>2, <1>7, <1>9
  <2>q. QED
    BY <2>1, <1>5, <1>6, Zenon DEF g
<1>q. QED
  BY <1>8, <1>9

(* EnsureTextBitmap() leaves an object with the bitmap of its text and font. *)
LEMMA BitmapEnsured ==
    ASSUME NEW o \in Runtimes, NEW frame, frame.width \in Nat, frame.height \in Nat
    PROVE  LET e == EnsureTextBitmap(o, frame)
           IN  /\ e \in Runtimes /\ e.object = o.object /\ e.placement = o.placement /\ e.band = o.band
               /\ e.bitmap # NoBitmap =>
                    e.px = LargerOf(1, ScaleDesignPixels(o.object.px, frame))
               /\ o.bitmap = RenderText(o.object.text, o.px)
                    => e.bitmap = RenderText(e.object.text, e.px)
<1> DEFINE scaled == ScaleDesignPixels(o.object.px, frame)
           px == IF scaled < 1 THEN 1 ELSE scaled
           bitmap == RenderText(o.object.text, px)
<1>1. o.object.px \in Nat /\ o.object.text \in DOMAIN Glyphs
  BY DEF Runtimes, TextObjects
<1>2. scaled \in Nat
  BY <1>1, ScaledIsNat
<1>3. px \in Nat \ {0} /\ px = LargerOf(1, scaled)
  BY <1>2 DEF LargerOf
<1>4. bitmap \in Bitmaps
  BY <1>1, <1>3, BitmapIsRendered
<1> HIDE DEF px, scaled
<1>5. CASE o.bitmap # NoBitmap /\ o.px = px
  <2>1. EnsureTextBitmap(o, frame) = o
    BY <1>5 DEF EnsureTextBitmap, px, scaled
  <2>q. QED
    BY <2>1, <1>5, <1>3 DEF scaled
<1>6. CASE ~(o.bitmap # NoBitmap /\ o.px = px)
  <2> DEFINE dirty == o.placementDirty \/ bitmap # NoBitmap
  <2>1. EnsureTextBitmap(o, frame) =
          [o EXCEPT !.px = px, !.bitmap = bitmap, !.placementDirty = dirty]
    BY <1>6 DEF EnsureTextBitmap, px, scaled
  <2>2. dirty \in BOOLEAN
    OBVIOUS
  <2> HIDE DEF dirty, bitmap
  <2>3. LET e == EnsureTextBitmap(o, frame)
        IN  /\ e \in Runtimes /\ e.object = o.object /\ e.placement = o.placement
            /\ e.band = o.band /\ e.px = px /\ e.bitmap = bitmap
    BY <2>1, <2>2, <1>3, <1>4 DEF Runtimes
  <2>q. QED
    BY <2>3, <1>3 DEF bitmap, scaled
<1>q. QED
  BY <1>5, <1>6

(* A placement has an even height and an even row.                       *)
LEMMA PlacementIsRect ==
    ASSUME NEW o, o.object \in TextObjects, o.bitmap \in Bitmaps,
           NEW frame, frame.width \in Nat, frame.height \in Nat
    PROVE  LET p == Placement(o, frame)
           IN  /\ p \in Rects /\ p.height \in Nat /\ p.y % 2 = 0 /\ p.height % 2 = 0
<1> DEFINE S(v) == ScaleDesignPixels(v, frame)
           c == o.object
           w == AlignUp(o.bitmap.width + 2 * S(c.paddingX), 16)
           h == AlignUp(o.bitmap.height + 2 * S(c.paddingY), 2)
           fromRight == c.anchor \in {"TopRight", "BottomRight"}
           fromBottom == c.anchor \in {"BottomLeft", "BottomRight"}
           left == IF fromRight THEN frame.width - S(c.x) - w ELSE S(c.x)
           top == IF fromBottom THEN frame.height - S(c.y) - h ELSE S(c.y)
<1>1. c.paddingX \in Nat /\ c.paddingY \in Nat /\ c.x \in Nat /\ c.y \in Nat
  BY DEF TextObjects
<1>2. S(c.paddingX) \in Nat /\ S(c.paddingY) \in Nat /\ S(c.x) \in Nat /\ S(c.y) \in Nat
  BY <1>1, ScaledIsNat
<1>3. o.bitmap.width \in Nat /\ o.bitmap.height \in Nat
  BY DEF Bitmaps
<1> HIDE DEF S
<1>4. w \in Nat /\ h \in Nat /\ h % 2 = 0
  BY <1>2, <1>3 DEF AlignUp
<1> HIDE DEF w, h
<1>5. left \in Int /\ top \in Int
  BY <1>2, <1>4
<1>6. Placement(o, frame) = [x |-> AlignDown(left, 2), y |-> AlignDown(top, 2), width |-> w, height |-> h]
  BY DEF Placement, S, w, h
<1> HIDE DEF left, top
<1>7. \A v \in Int : AlignDown(v, 2) \in Int /\ AlignDown(v, 2) % 2 = 0
  BY DEF AlignDown
<1>q. QED
  BY <1>4, <1>5, <1>6, <1>7 DEF Rects
-----------------------------------------------------------------------------
(* The grouping. What the bands of a layout are while the objects join     *)
(* them from the top down, rest those that have not; e the objects with    *)
(* their bitmaps, and gap the distance within which a band takes another.  *)
Groups == [top : Nat, bottom : Nat, ids : Seq(Ids)]
PlaceIn(e, id) == Placement(e[id], source)

Placeable(e) ==
    \A id \in DOMAIN objects :
        LET p == PlaceIn(e, id)
        IN  p.y \in Nat /\ p.height \in Nat /\ p.y % 2 = 0 /\ p.height % 2 = 0

AreGroups(bs) ==
    /\ bs \in Seq(Groups)
    /\ \A b \in DOMAIN bs : /\ bs[b].top <= bs[b].bottom /\ bs[b].ids # <<>>
                            /\ bs[b].top % 2 = 0 /\ bs[b].bottom % 2 = 0

(* Those that joined are in one band each.                                 *)
Members(bs, rest) ==
    /\ \A b \in DOMAIN bs : \A k \in DOMAIN bs[b].ids :
          \E i \in DOMAIN order \ rest : bs[b].ids[k] = order[i]
    /\ \A i \in DOMAIN order \ rest : \E b \in DOMAIN bs : \E k \in DOMAIN bs[b].ids :
          bs[b].ids[k] = order[i]
    /\ \A b, c \in DOMAIN bs : \A k \in DOMAIN bs[b].ids : \A l \in DOMAIN bs[c].ids :
          bs[b].ids[k] = bs[c].ids[l] => b = c

(* A band reaches as far as its objects, and each of them touches one that *)
(* joined before it.                                                       *)
Inside(e, bs) ==
    \A b \in DOMAIN bs :
        /\ \A k \in DOMAIN bs[b].ids :
              LET p == PlaceIn(e, bs[b].ids[k])
              IN  bs[b].top <= p.y /\ p.y + p.height <= bs[b].bottom
        /\ \E k \in DOMAIN bs[b].ids :
              LET p == PlaceIn(e, bs[b].ids[k]) IN p.y + p.height = bs[b].bottom

Chained(e, bs, gap) ==
    \A b \in DOMAIN bs : \A k \in DOMAIN bs[b].ids :
        k # 1 => \E j \in 1..(k - 1) :
                    Touch(PlaceIn(e, bs[b].ids[k]), PlaceIn(e, bs[b].ids[j]), gap)

FarApart(bs, gap) == \A b, c \in DOMAIN bs : b < c => bs[b].bottom + gap < bs[c].top

FromTheTop(e, rest) ==
    \A r \in rest : \A i \in DOMAIN order \ rest :
        PlaceIn(e, order[i]).y <= PlaceIn(e, order[r]).y

JoinInv(e, bs, rest) ==
    /\ AreGroups(bs) /\ Members(bs, rest) /\ Inside(e, bs)
    /\ Chained(e, bs, BandJoinGap(source)) /\ FarApart(bs, BandJoinGap(source))
    /\ FromTheTop(e, rest)

LEMMA GapIsNat ==
    ASSUME NEW frame, frame.width \in Nat, frame.height \in Nat
    PROVE  BandJoinGap(frame) \in Nat
BY ScaledIsNat DEF BandJoinGap

(* An object that joins is in no band yet.                                 *)
LEMMA NotYetJoined ==
    ASSUME Registered, NEW bs, NEW rest \in SUBSET DOMAIN order, Members(bs, rest), NEW i \in rest
    PROVE  \A b \in DOMAIN bs : \A k \in DOMAIN bs[b].ids : bs[b].ids[k] # order[i]
BY DEF Registered, Members

(* A band of its own.                                                      *)
LEMMA OpensBand ==
    ASSUME Registered, source \in VideoFrames, NEW e, Placeable(e),
           NEW bs, NEW rest \in SUBSET DOMAIN order, JoinInv(e, bs, rest), NEW i \in rest,
           bs = <<>> \/ PlaceIn(e, order[i]).y > bs[Len(bs)].bottom + BandJoinGap(source)
    PROVE  LET p == PlaceIn(e, order[i])
               new == Append(bs, [top |-> p.y, bottom |-> p.y + p.height, ids |-> <<order[i]>>])
               gap == BandJoinGap(source)
           IN  /\ AreGroups(new) /\ Members(new, rest \ {i}) /\ Inside(e, new)
               /\ Chained(e, new, gap) /\ FarApart(new, gap)
<1> DEFINE id == order[i]
           p == PlaceIn(e, id)
           gap == BandJoinGap(source)
           group == [top |-> p.y, bottom |-> p.y + p.height, ids |-> <<id>>]
           new == Append(bs, group)
           n == Len(bs)
<1>1. id \in DOMAIN objects /\ id \in Ids /\ i \in DOMAIN order
  BY DEF Registered
<1>2. p.y \in Nat /\ p.height \in Nat /\ p.y % 2 = 0 /\ p.height % 2 = 0
  BY <1>1 DEF Placeable
<1>3. gap \in Nat
  BY GapIsNat DEF VideoFrames
<1>4. bs \in Seq(Groups) /\ n \in Nat /\ DOMAIN bs = 1..n
  BY LenProperties DEF JoinInv, AreGroups
<1> HIDE DEF p, gap, id
<1>5. <<id>> \in Seq(Ids) /\ DOMAIN <<id>> = {1} /\ <<id>>[1] = id /\ <<id>> # <<>>
  BY <1>1
<1>6. group \in Groups /\ group.top = p.y /\ group.bottom = p.y + p.height /\ group.ids = <<id>>
  BY <1>2, <1>5 DEF Groups
<1> HIDE DEF group
<1>7. /\ new \in Seq(Groups) /\ DOMAIN new = 1..(n + 1) /\ new[n + 1] = group
      /\ \A b \in 1..n : new[b] = bs[b]
  BY <1>4, <1>6, AppendProperties, LenProperties
<1>8. \A b \in DOMAIN new : b = n + 1 \/ b \in DOMAIN bs
  BY <1>4, <1>7
<1> HIDE DEF new
<1>9. AreGroups(new)
  <2>1. group.top <= group.bottom /\ group.ids # <<>> /\ group.top % 2 = 0 /\ group.bottom % 2 = 0
    BY <1>2, <1>5, <1>6
  <2>q. QED
    BY <2>1, <1>4, <1>7, <1>8 DEF AreGroups, JoinInv
<1>10. Members(new, rest \ {i})
  <2>1. \A b \in DOMAIN bs : \A k \in DOMAIN bs[b].ids : bs[b].ids[k] # id
    BY NotYetJoined DEF JoinInv, id
  <2>2. ASSUME NEW b \in DOMAIN new, NEW k \in DOMAIN new[b].ids
        PROVE  \E j \in DOMAIN order \ (rest \ {i}) : new[b].ids[k] = order[j]
    <3>1. CASE b = n + 1
      BY <3>1, <1>1, <1>5, <1>6, <1>7 DEF id
    <3>2. CASE b \in DOMAIN bs
      BY <3>2, <1>4, <1>7 DEF JoinInv, Members
    <3>q. QED
      BY <1>8, <3>1, <3>2
  <2>3. ASSUME NEW j \in DOMAIN order \ (rest \ {i})
        PROVE  \E b \in DOMAIN new : \E k \in DOMAIN new[b].ids : new[b].ids[k] = order[j]
    <3>1. CASE j = i
      <4>1. n + 1 \in DOMAIN new /\ 1 \in DOMAIN new[n + 1].ids /\ new[n + 1].ids[1] = order[j]
        BY <3>1, <1>4, <1>5, <1>6, <1>7 DEF id
      <4>q. QED
        BY <4>1
    <3>2. CASE j # i
      <4>1. PICK b \in DOMAIN bs : \E k \in DOMAIN bs[b].ids : bs[b].ids[k] = order[j]
        BY <3>2 DEF JoinInv, Members
      <4>2. b \in DOMAIN new /\ new[b] = bs[b]
        BY <1>4, <1>7
      <4>q. QED
        BY <4>1, <4>2
    <3>q. QED
      BY <3>1, <3>2
  <2>4. ASSUME NEW b \in DOMAIN new, NEW c \in DOMAIN new, NEW k \in DOMAIN new[b].ids,
               NEW l \in DOMAIN new[c].ids, new[b].ids[k] = new[c].ids[l]
        PROVE  b = c
    <3>1. CASE b = n + 1 /\ c \in DOMAIN bs
      BY <3>1, <2>1, <2>4, <1>4, <1>5, <1>6, <1>7
    <3>2. CASE b \in DOMAIN bs /\ c = n + 1
      BY <3>2, <2>1, <2>4, <1>4, <1>5, <1>6, <1>7
    <3>3. CASE b \in DOMAIN bs /\ c \in DOMAIN bs
      BY <3>3, <2>4, <1>4, <1>7 DEF JoinInv, Members
    <3>q. QED
      BY <1>8, <3>1, <3>2, <3>3
  <2>q. QED
    BY <2>2, <2>3, <2>4 DEF Members
<1>11. Inside(e, new)
  <2>1. PlaceIn(e, group.ids[1]) = p /\ DOMAIN group.ids = {1}
    BY <1>5, <1>6 DEF p
  <2>2. \A k \in DOMAIN group.ids :
          LET q == PlaceIn(e, group.ids[k])
          IN  group.top <= q.y /\ q.y + q.height <= group.bottom /\ q.y + q.height = group.bottom
    BY <2>1, <1>2, <1>6
  <2>3. ASSUME NEW b \in DOMAIN new
        PROVE  /\ \A k \in DOMAIN new[b].ids :
                    LET q == PlaceIn(e, new[b].ids[k])
                    IN  new[b].top <= q.y /\ q.y + q.height <= new[b].bottom
               /\ \E k \in DOMAIN new[b].ids :
                    LET q == PlaceIn(e, new[b].ids[k]) IN q.y + q.height = new[b].bottom
    <3>1. CASE b = n + 1
      <4>1. new[b] = group
        BY <3>1, <1>7
      <4>q. QED
        BY <4>1, <2>1, <2>2
    <3>2. CASE b \in DOMAIN bs
      <4>1. new[b] = bs[b]
        BY <3>2, <1>4, <1>7
      <4>q. QED
        BY <4>1, <3>2 DEF JoinInv, Inside
    <3>q. QED
      BY <1>8, <3>1, <3>2
  <2>q. QED
    BY <2>3 DEF Inside
<1>12. Chained(e, new, gap)
  <2>1. ASSUME NEW b \in DOMAIN new, NEW k \in DOMAIN new[b].ids, k # 1
        PROVE  \E j \in 1..(k - 1) :
                  Touch(PlaceIn(e, new[b].ids[k]), PlaceIn(e, new[b].ids[j]), gap)
    <3>1. b # n + 1
      BY <2>1, <1>5, <1>6, <1>7
    <3>2. b \in DOMAIN bs /\ new[b] = bs[b]
      BY <3>1, <1>4, <1>7, <1>8
    <3>q. QED
      BY <3>2, <2>1 DEF JoinInv, Chained, gap
  <2>q. QED
    BY <2>1 DEF Chained
<1>13. FarApart(new, gap)
  <2>1. ASSUME NEW b \in DOMAIN bs PROVE bs[b].bottom + gap < p.y
    <3>1. bs # <<>> /\ n \in DOMAIN bs
      BY <1>4
    <3>2. p.y > bs[n].bottom + gap
      BY <3>1 DEF p, gap, id
    <3>3. bs[b] \in Groups /\ bs[n] \in Groups /\ bs[n].top <= bs[n].bottom
      BY <3>1, <1>4 DEF JoinInv, AreGroups
    <3>4. b = n \/ bs[b].bottom + gap < bs[n].top
      BY <3>1, <1>4 DEF JoinInv, FarApart, gap
    <3>q. QED
      BY <3>2, <3>3, <3>4, <1>2, <1>3, SMTT(30) DEF Groups
  <2>2. ASSUME NEW b \in DOMAIN new, NEW c \in DOMAIN new, b < c
        PROVE  new[b].bottom + gap < new[c].top
    <3>1. CASE c = n + 1
      BY <3>1, <2>1, <2>2, <1>4, <1>6, <1>7, <1>8
    <3>2. CASE c \in DOMAIN bs
      BY <3>2, <2>2, <1>4, <1>7 DEF JoinInv, FarApart, gap
    <3>q. QED
      BY <1>8, <3>1, <3>2
  <2>q. QED
    BY <2>2 DEF FarApart
<1>q. QED
  BY <1>9, <1>10, <1>11, <1>12, <1>13 DEF new, group, p, gap, id

(* An object within the gap of the last band joins it: the band begins     *)
(* above it, and the object that reached farthest down is the one it       *)
(* touches.                                                                *)
LEMMA ExtendsBand ==
    ASSUME Registered, source \in VideoFrames, NEW e, Placeable(e),
           NEW bs, NEW rest \in SUBSET DOMAIN order, JoinInv(e, bs, rest), NEW i \in rest,
           bs # <<>>, PlaceIn(e, order[i]).y <= bs[Len(bs)].bottom + BandJoinGap(source)
    PROVE  LET p == PlaceIn(e, order[i])
               last == bs[Len(bs)]
               new == [bs EXCEPT ![Len(bs)] = [top |-> last.top,
                                               bottom |-> BottomOf(last.bottom, p.y + p.height),
                                               ids |-> Append(last.ids, order[i])]]
               gap == BandJoinGap(source)
           IN  /\ AreGroups(new) /\ Members(new, rest \ {i}) /\ Inside(e, new)
               /\ Chained(e, new, gap) /\ FarApart(new, gap)
<1> DEFINE id == order[i]
           p == PlaceIn(e, id)
           gap == BandJoinGap(source)
           n == Len(bs)
           last == bs[n]
           m == Len(last.ids)
           bottom == BottomOf(last.bottom, p.y + p.height)
           group == [top |-> last.top, bottom |-> bottom, ids |-> Append(last.ids, id)]
           new == [bs EXCEPT ![n] = group]
<1>1. id \in DOMAIN objects /\ id \in Ids /\ i \in DOMAIN order
  BY DEF Registered
<1>2. p.y \in Nat /\ p.height \in Nat /\ p.y % 2 = 0 /\ p.height % 2 = 0
  BY <1>1 DEF Placeable
<1>3. gap \in Nat
  BY GapIsNat DEF VideoFrames
<1>4. bs \in Seq(Groups) /\ n \in 1..n /\ DOMAIN bs = 1..n
  BY LenProperties DEF JoinInv, AreGroups
<1>5. p.y <= last.bottom + gap
  OBVIOUS
<1> HIDE DEF p, gap, id
<1>6. /\ last \in Groups /\ last.top <= last.bottom /\ last.ids # <<>>
      /\ last.top % 2 = 0 /\ last.bottom % 2 = 0 /\ last.top \in Nat /\ last.bottom \in Nat
      /\ last.ids \in Seq(Ids)
  <2>1. n \in DOMAIN bs /\ last \in Groups
    BY <1>4
  <2>2. /\ last.top <= last.bottom /\ last.ids # <<>>
        /\ last.top % 2 = 0 /\ last.bottom % 2 = 0
    BY <2>1 DEF JoinInv, AreGroups
  <2> HIDE DEF last, n
  <2>q. QED
    BY <2>1, <2>2 DEF Groups
<1>7. m \in Nat /\ m > 0 /\ DOMAIN last.ids = 1..m
  BY <1>6, LenProperties
<1>8. /\ bottom \in Nat /\ last.bottom <= bottom /\ p.y + p.height <= bottom /\ bottom % 2 = 0
      /\ bottom = last.bottom \/ bottom = p.y + p.height
  BY <1>2, <1>6, SMTT(30) DEF BottomOf, LargerOf
<1> HIDE DEF bottom
<1>9. /\ group \in Groups /\ group.top = last.top /\ group.bottom = bottom
      /\ group.ids \in Seq(Ids) /\ group.ids # <<>> /\ DOMAIN group.ids = 1..(m + 1)
      /\ group.ids[m + 1] = id /\ \A k \in 1..m : group.ids[k] = last.ids[k]
  <2>1. /\ Append(last.ids, id) \in Seq(Ids) /\ Append(last.ids, id) # <<>>
        /\ DOMAIN Append(last.ids, id) = 1..(m + 1) /\ Append(last.ids, id)[m + 1] = id
        /\ \A k \in 1..m : Append(last.ids, id)[k] = last.ids[k]
    BY <1>1, <1>6, <1>7, AppendProperties, LenProperties
  <2>q. QED
    BY <2>1, <1>6, <1>8 DEF Groups
<1> HIDE DEF group
<1>10. new \in Seq(Groups) /\ DOMAIN new = DOMAIN bs /\ new[n] = group
  BY <1>4, <1>9, ExceptSeq
<1>11. \A b \in DOMAIN bs : b # n => new[b] = bs[b]
  BY <1>4
<1> HIDE DEF new, n
<1>12. AreGroups(new)
  BY <1>4, <1>6, <1>8, <1>9, <1>10, <1>11, SMTT(30) DEF AreGroups, JoinInv
<1>13. ASSUME NEW k \in 1..m PROVE PlaceIn(e, last.ids[k]).y <= p.y /\ last.ids[k] \in DOMAIN objects
  <2>1. PICK j \in DOMAIN order \ rest : last.ids[k] = order[j]
    <3>1. n \in DOMAIN bs /\ k \in DOMAIN last.ids
      BY <1>4, <1>7
    <3>q. QED
      BY <3>1 DEF JoinInv, Members
  <2>q. QED
    BY <2>1 DEF JoinInv, FromTheTop, p, id, Registered
<1>14. last.top <= p.y
  <2>1. 1 \in 1..m
    BY <1>7
  <2>2. last.top <= PlaceIn(e, last.ids[1]).y
    BY <2>1, <1>4, <1>7 DEF JoinInv, Inside
  <2>3. PlaceIn(e, last.ids[1]).y \in Nat
    BY <2>1, <1>13 DEF Placeable
  <2>q. QED
    BY <2>1, <2>2, <2>3, <1>2, <1>6, <1>13
<1>15. PICK far \in 1..m : PlaceIn(e, last.ids[far]).y + PlaceIn(e, last.ids[far]).height = last.bottom
  BY <1>4, <1>7 DEF JoinInv, Inside
<1>16. Members(new, rest \ {i})
  <2>1. \A b \in DOMAIN bs : \A k \in DOMAIN bs[b].ids : bs[b].ids[k] # id
    BY NotYetJoined DEF JoinInv, id
  <2>2. ASSUME NEW b \in DOMAIN new, NEW k \in DOMAIN new[b].ids
        PROVE  \/ b = n /\ k = m + 1 /\ new[b].ids[k] = id
               \/ b \in DOMAIN bs /\ k \in DOMAIN bs[b].ids /\ new[b].ids[k] = bs[b].ids[k]
    <3>1. CASE b = n
      <4>1. new[b].ids = group.ids /\ bs[b].ids = last.ids /\ n \in DOMAIN bs
        BY <3>1, <1>4, <1>10
      <4>2. k \in 1..(m + 1)
        BY <4>1, <1>9
      <4>3. k = m + 1 \/ k \in 1..m
        BY <4>2, <1>7
      <4>q. QED
        BY <3>1, <4>1, <4>3, <1>7, <1>9
    <3>2. CASE b # n
      BY <3>2, <1>10, <1>11
    <3>q. QED
      BY <3>1, <3>2
  <2>3. ASSUME NEW b \in DOMAIN bs, NEW k \in DOMAIN bs[b].ids
        PROVE  b \in DOMAIN new /\ k \in DOMAIN new[b].ids /\ new[b].ids[k] = bs[b].ids[k]
    <3>1. CASE b = n
      BY <3>1, <1>4, <1>7, <1>9, <1>10
    <3>2. CASE b # n
      BY <3>2, <1>10, <1>11
    <3>q. QED
      BY <3>1, <3>2
  <2>4. ASSUME NEW b \in DOMAIN new, NEW k \in DOMAIN new[b].ids
        PROVE  \E j \in DOMAIN order \ (rest \ {i}) : new[b].ids[k] = order[j]
    <3>1. CASE b = n /\ k = m + 1 /\ new[b].ids[k] = id
      BY <3>1, <1>1 DEF id
    <3>2. CASE b \in DOMAIN bs /\ k \in DOMAIN bs[b].ids /\ new[b].ids[k] = bs[b].ids[k]
      BY <3>2 DEF JoinInv, Members
    <3>q. QED
      BY <2>2, <3>1, <3>2
  <2>5. ASSUME NEW j \in DOMAIN order \ (rest \ {i})
        PROVE  \E b \in DOMAIN new : \E k \in DOMAIN new[b].ids : new[b].ids[k] = order[j]
    <3>1. CASE j = i
      <4>1. n \in DOMAIN new /\ m + 1 \in DOMAIN new[n].ids /\ new[n].ids[m + 1] = order[j]
        BY <3>1, <1>4, <1>7, <1>9, <1>10 DEF id
      <4>q. QED
        BY <4>1
    <3>2. CASE j # i
      <4>1. PICK b \in DOMAIN bs : \E k \in DOMAIN bs[b].ids : bs[b].ids[k] = order[j]
        BY <3>2 DEF JoinInv, Members
      <4>q. QED
        BY <4>1, <2>3
    <3>q. QED
      BY <3>1, <3>2
  <2>6. ASSUME NEW b \in DOMAIN new, NEW c \in DOMAIN new, NEW k \in DOMAIN new[b].ids,
               NEW l \in DOMAIN new[c].ids, new[b].ids[k] = new[c].ids[l]
        PROVE  b = c
    <3> DEFINE Old(a, x) == a \in DOMAIN bs /\ x \in DOMAIN bs[a].ids /\ new[a].ids[x] = bs[a].ids[x]
               New(a, x) == a = n /\ x = m + 1 /\ new[a].ids[x] = id
    <3>1. (New(b, k) \/ Old(b, k)) /\ (New(c, l) \/ Old(c, l))
      BY <2>2
    <3>2. CASE Old(b, k) /\ Old(c, l)
      <4>1. bs[b].ids[k] = bs[c].ids[l]
        BY <3>2, <2>6
      <4>q. QED
        BY <4>1, <3>2, Zenon DEF JoinInv, Members
    <3>3. CASE New(b, k) /\ New(c, l)
      BY <3>3
    <3>4. ~(New(b, k) /\ Old(c, l)) /\ ~(Old(b, k) /\ New(c, l))
      BY <2>1, <2>6
    <3>q. QED
      BY <3>1, <3>2, <3>3, <3>4
  <2>q. QED
    BY <2>4, <2>5, <2>6 DEF Members
<1>17. Inside(e, new)
  <2>1. ASSUME NEW k \in DOMAIN group.ids
        PROVE  LET q == PlaceIn(e, group.ids[k])
               IN  group.top <= q.y /\ q.y + q.height <= group.bottom
    <3>1. CASE k = m + 1
      <4>1. PlaceIn(e, group.ids[k]) = p
        BY <3>1, <1>9 DEF p
      <4>q. QED
        BY <4>1, <1>8, <1>9, <1>14
    <3>2. CASE k # m + 1
      <4>0. m \in Nat /\ k \in 1..(m + 1)
        BY <1>7, <1>9, Zenon
      <4>1. k \in 1..m /\ group.ids[k] = last.ids[k]
        <5>1. k \in 1..m
          BY <4>0, <3>2
        <5>q. QED
          BY <5>1, <1>9, Zenon
      <4>2. LET q == PlaceIn(e, last.ids[k]) IN last.top <= q.y /\ q.y + q.height <= last.bottom
        BY <4>1, <1>4, <1>7 DEF JoinInv, Inside
      <4>3. LET q == PlaceIn(e, last.ids[k]) IN q.y \in Nat /\ q.height \in Nat
        BY <4>1, <1>13 DEF Placeable
      <4> DEFINE q == PlaceIn(e, last.ids[k])
      <4>4. last.top <= q.y /\ q.y + q.height <= last.bottom /\ q.y \in Nat /\ q.height \in Nat
        BY <4>2, <4>3
      <4>5. PlaceIn(e, group.ids[k]) = q /\ group.top = last.top /\ group.bottom = bottom
        BY <4>1, <1>9
      <4> HIDE DEF q
      <4>6. last.top <= q.y /\ q.y + q.height <= bottom
        BY <4>4, <1>6, <1>8
      <4>q. QED
        BY <4>5, <4>6
    <3>q. QED
      BY <3>1, <3>2
  <2>2. \E k \in DOMAIN group.ids :
          LET q == PlaceIn(e, group.ids[k]) IN q.y + q.height = group.bottom
    <3>1. CASE bottom = last.bottom
      <4>1. far \in DOMAIN group.ids /\ group.ids[far] = last.ids[far]
        BY <1>7, <1>9
      <4>q. QED
        BY <3>1, <4>1, <1>9, <1>15
    <3>2. CASE bottom = p.y + p.height
      <4>1. m + 1 \in DOMAIN group.ids
        BY <1>7, <1>9
      <4>q. QED
        BY <3>2, <4>1, <1>9 DEF p
    <3>q. QED
      BY <3>1, <3>2, <1>8
  <2>3. ASSUME NEW b \in DOMAIN new
        PROVE  /\ \A k \in DOMAIN new[b].ids :
                    LET q == PlaceIn(e, new[b].ids[k])
                    IN  new[b].top <= q.y /\ q.y + q.height <= new[b].bottom
               /\ \E k \in DOMAIN new[b].ids :
                    LET q == PlaceIn(e, new[b].ids[k]) IN q.y + q.height = new[b].bottom
    <3>1. CASE b = n
      BY <3>1, <2>1, <2>2, <1>10
    <3>2. CASE b # n
      <4>1. new[b] = bs[b] /\ b \in DOMAIN bs
        BY <3>2, <1>10, <1>11
      <4>q. QED
        BY <4>1 DEF JoinInv, Inside
    <3>q. QED
      BY <3>1, <3>2
  <2>q. QED
    BY <2>3 DEF Inside
<1>18. Chained(e, new, gap)
  <2>1. ASSUME NEW b \in DOMAIN new, NEW k \in DOMAIN new[b].ids, k # 1
        PROVE  \E j \in 1..(k - 1) :
                  Touch(PlaceIn(e, new[b].ids[k]), PlaceIn(e, new[b].ids[j]), gap)
    <3>1. CASE b # n
      <4>1. b \in DOMAIN bs /\ new[b] = bs[b]
        BY <3>1, <1>10, <1>11
      <4>q. QED
        BY <4>1, <2>1 DEF JoinInv, Chained, gap
    <3>2. CASE b = n /\ k # m + 1
      <4>1. k \in 1..m /\ new[b].ids[k] = last.ids[k]
        <5>1. new[b].ids = group.ids
          BY <3>2, <1>10
        <5>2. k \in 1..(m + 1) /\ k # m + 1
          BY <5>1, <3>2, <1>9
        <5>3. k \in 1..m
          BY <5>2, <1>7
        <5>q. QED
          BY <5>1, <5>3, <1>9
      <4>2. PICK j \in 1..(k - 1) : Touch(PlaceIn(e, last.ids[k]), PlaceIn(e, last.ids[j]), gap)
        BY <4>1, <2>1, <1>4, <1>7 DEF JoinInv, Chained, gap
      <4>3. j \in 1..m /\ new[b].ids[j] = last.ids[j]
        <5>1. new[b].ids = group.ids
          BY <3>2, <1>10
        <5>2. j \in 1..m
          BY <4>1, <4>2, <1>7
        <5>q. QED
          BY <5>1, <5>2, <1>9
      <4>q. QED
        BY <4>1, <4>2, <4>3
    <3>3. CASE b = n /\ k = m + 1
      <4> DEFINE q == PlaceIn(e, last.ids[far])
      <4>1. new[b].ids[k] = id /\ new[b].ids[far] = last.ids[far] /\ far \in 1..(k - 1)
        BY <3>3, <1>7, <1>9, <1>10
      <4>2. q.y \in Nat /\ q.height \in Nat /\ q.y <= p.y /\ q.y + q.height = last.bottom
        BY <1>13, <1>15 DEF Placeable
      <4> HIDE DEF q
      <4>3. p.y <= q.y + q.height + gap
        BY <4>2, <1>5
      <4>4. q.y <= p.y + p.height + gap
        BY <4>2, <1>2, <1>3
      <4>5. Touch(p, q, gap)
        BY <4>3, <4>4 DEF Touch
      <4>q. QED
        BY <4>1, <4>5 DEF p, q
    <3>q. QED
      BY <3>1, <3>2, <3>3
  <2>q. QED
    BY <2>1 DEF Chained
<1>19. FarApart(new, gap)
  <2>1. ASSUME NEW b \in DOMAIN new, NEW c \in DOMAIN new, b < c
        PROVE  new[b].bottom + gap < new[c].top
    <3>1. b # n /\ new[b] = bs[b] /\ b \in DOMAIN bs /\ c \in DOMAIN bs
      BY <2>1, <1>4, <1>10, <1>11
    <3>2. new[c].top = bs[c].top
      BY <3>1, <1>9, <1>10, <1>11
    <3>q. QED
      BY <3>1, <3>2, <2>1 DEF JoinInv, FarApart, gap
  <2>q. QED
    BY <2>1 DEF FarApart
<1>q. QED
  BY <1>12, <1>16, <1>17, <1>18, <1>19 DEF new, group, p, gap, id, n, bottom

(* There is a topmost object among those that have not joined.             *)
LEMMA TopmostExists ==
    ASSUME Registered, NEW e, Placeable(e), NEW rest \in SUBSET DOMAIN order, rest # {}
    PROVE  \E k \in rest : \A j \in rest \ {k} : Above(e, k, j)
<1> DEFINE y(k) == PlaceOf(e, k).y
           ys == {y(k) : k \in rest}
<1>1. DOMAIN order \in SUBSET Nat
  BY LenProperties DEF Registered
<1>2. \A k \in rest : y(k) \in Nat
  BY DEF Registered, Placeable, PlaceIn, PlaceOf
<1> HIDE DEF y
<1>3. PICK top \in ys : \A v \in ys : top <= v
  <2>1. ys # {} /\ ys \in SUBSET Nat
    BY <1>2
  <2> HIDE DEF ys
  <2>q. QED
    BY <2>1, LeastNumber
<1> DEFINE tops == {k \in rest : y(k) = top}
<1>4. tops # {} /\ tops \in SUBSET Nat
  BY <1>1, <1>3
<1>5. PICK k \in tops : \A j \in tops : k <= j
  BY <1>4, LeastNumber
<1>6. ASSUME NEW j \in rest \ {k} PROVE Above(e, k, j)
  <2>1. y(k) <= y(j) /\ y(k) \in Nat /\ y(j) \in Nat /\ k \in Nat /\ j \in Nat
    BY <1>1, <1>2, <1>3, <1>5
  <2>2. CASE y(k) = y(j)
    <3>1. k <= j /\ k # j
      BY <2>2, <1>5
    <3>q. QED
      BY <3>1, <2>1, <2>2 DEF Above, y
  <2>3. CASE y(k) # y(j)
    BY <2>1, <2>3 DEF Above, y
  <2>q. QED
    BY <2>2, <2>3
<1>q. QED
  BY <1>5, <1>6

LEMMA JoiningKeepsInv ==
    ASSUME Registered, source \in VideoFrames, NEW e, Placeable(e),
           NEW bs, NEW rest \in SUBSET DOMAIN order, JoinInv(e, bs, rest), rest # {}
    PROVE  LET next == JoinTopmost(e, [bands |-> bs, rest |-> rest])
           IN  /\ JoinInv(e, next.bands, next.rest)
               /\ \E i \in rest : next.rest = rest \ {i}
<1> DEFINE i == CHOOSE k \in rest : \A j \in rest \ {k} : Above(e, k, j)
           next == JoinTopmost(e, [bands |-> bs, rest |-> rest])
           new == JoinBands(bs, order[i], PlaceOf(e, i))
<1>1. i \in rest /\ \A j \in rest \ {i} : Above(e, i, j)
  BY TopmostExists
<1>2. next = [bands |-> new, rest |-> rest \ {i}]
  BY Zenon DEF JoinTopmost
<1> HIDE DEF i, next
<1>3. PlaceOf(e, i) = PlaceIn(e, order[i])
  BY DEF PlaceOf, PlaceIn
<1>4. order[i] \in DOMAIN objects
  BY <1>1 DEF Registered
<1>5. /\ AreGroups(new) /\ Members(new, rest \ {i}) /\ Inside(e, new)
      /\ Chained(e, new, BandJoinGap(source)) /\ FarApart(new, BandJoinGap(source))
  <2> DEFINE p == PlaceIn(e, order[i])
             last == bs[Len(bs)]
             opened == Append(bs, [top |-> p.y, bottom |-> p.y + p.height, ids |-> <<order[i]>>])
             joined == [bs EXCEPT ![Len(bs)] = [top |-> last.top,
                                                bottom |-> BottomOf(last.bottom, p.y + p.height),
                                                ids |-> Append(last.ids, order[i])]]
             far == p.y > last.bottom + BandJoinGap(source)
  <2>1. new = IF bs = <<>> \/ far THEN opened ELSE joined
    BY <1>3 DEF JoinBands
  <2>2. CASE bs = <<>> \/ far
    <3>1. new = opened
      BY <2>1, <2>2
    <3>2. /\ AreGroups(opened) /\ Members(opened, rest \ {i}) /\ Inside(e, opened)
          /\ Chained(e, opened, BandJoinGap(source)) /\ FarApart(opened, BandJoinGap(source))
      BY <2>2, <1>1, OpensBand, Zenon
    <3> HIDE DEF new, opened
    <3>q. QED
      BY <3>1, <3>2
  <2>3. CASE ~(bs = <<>> \/ far)
    <3>1. new = joined
      BY <2>1, <2>3
    <3>2. p.y \in Nat
      BY <1>4 DEF Placeable
    <3>3. last.bottom \in Nat /\ BandJoinGap(source) \in Nat
      <4>1. Len(bs) \in DOMAIN bs
        BY <2>3, LenProperties DEF JoinInv, AreGroups
      <4>2. last \in Groups
        BY <4>1 DEF JoinInv, AreGroups
      <4> HIDE DEF last
      <4>q. QED
        BY <4>2, GapIsNat DEF Groups, VideoFrames
    <3> HIDE DEF new, opened, p, last
    <3>4. p.y <= last.bottom + BandJoinGap(source) /\ bs # <<>>
      BY <2>3, <3>2, <3>3
    <3>5. /\ AreGroups(joined) /\ Members(joined, rest \ {i}) /\ Inside(e, joined)
          /\ Chained(e, joined, BandJoinGap(source)) /\ FarApart(joined, BandJoinGap(source))
      BY <3>4, <1>1, ExtendsBand, Zenon DEF p, last
    <3> HIDE DEF joined
    <3>q. QED
      BY <3>1, <3>5
  <2>q. QED
    BY <2>2, <2>3
<1> HIDE DEF new
<1>6. FromTheTop(e, rest \ {i})
  <2>1. ASSUME NEW r \in rest \ {i}, NEW j \in DOMAIN order \ (rest \ {i})
        PROVE  PlaceIn(e, order[j]).y <= PlaceIn(e, order[r]).y
    <3>1. CASE j = i
      <4>1. Above(e, i, r) /\ order[r] \in DOMAIN objects
        BY <1>1 DEF Registered
      <4>2. PlaceIn(e, order[i]).y \in Nat /\ PlaceIn(e, order[r]).y \in Nat
        BY <4>1, <1>4 DEF Placeable
      <4>q. QED
        BY <3>1, <4>1, <4>2 DEF Above, PlaceOf, PlaceIn
    <3>2. CASE j # i
      BY <3>2 DEF JoinInv, FromTheTop
    <3>q. QED
      BY <3>1, <3>2
  <2>q. QED
    BY <2>1 DEF FromTheTop
<1>7. JoinInv(e, new, rest \ {i})
  BY <1>5, <1>6 DEF JoinInv
<1>q. QED
  <2>1. JoinInv(e, next.bands, next.rest) /\ next.rest = rest \ {i}
    BY <1>2, <1>7
  <2>q. QED
    BY <2>1, <1>1, Zenon DEF next
-----------------------------------------------------------------------------
(* The steps of the grouping, one for each object.                         *)
JoinSteps(joined, e, n) ==
    /\ joined[0] = [bands |-> <<>>, rest |-> DOMAIN order]
    /\ \A k \in 1..n : joined[k] = JoinTopmost(e, joined[k - 1])

LEMMA JoinStepsExist ==
    ASSUME NEW e, Len(order) \in Nat
    PROVE  \E joined : joined = [n \in 0..Len(order) |->
                                    IF n = 0 THEN [bands |-> <<>>, rest |-> DOMAIN order]
                                    ELSE JoinTopmost(e, joined[n - 1])]
<1> DEFINE AtStart == [bands |-> <<>>, rest |-> DOMAIN order]
           T == {n \in Nat : \E f : DOMAIN f = 0..n /\ JoinSteps(f, e, n)}
<1>1. 0 \in T
  <2>1. DOMAIN [k \in 0..0 |-> AtStart] = 0..0 /\ JoinSteps([k \in 0..0 |-> AtStart], e, 0)
    BY DEF JoinSteps
  <2>q. QED
    BY <2>1
<1>2. ASSUME NEW n \in T PROVE n + 1 \in T
  <2>1. PICK f : DOMAIN f = 0..n /\ JoinSteps(f, e, n)
    OBVIOUS
  <2> DEFINE g == [k \in 0..(n + 1) |-> IF k = n + 1 THEN JoinTopmost(e, f[n]) ELSE f[k]]
  <2>2. (\A k \in 0..n : g[k] = f[k]) /\ g[n + 1] = JoinTopmost(e, f[n]) /\ DOMAIN g = 0..(n + 1)
    OBVIOUS
  <2> HIDE DEF g
  <2>3. ASSUME NEW k \in 1..(n + 1) PROVE g[k] = JoinTopmost(e, g[k - 1])
    <3>1. CASE k = n + 1
      BY <3>1, <2>2
    <3>2. CASE k # n + 1
      <4>1. k \in 1..n /\ k \in 0..n /\ k - 1 \in 0..n
        BY <3>2
      <4>q. QED
        BY <4>1, <2>1, <2>2 DEF JoinSteps
    <3>q. QED
      BY <3>1, <3>2
  <2>4. g[0] = AtStart
    <3>1. 0 \in 0..n
      OBVIOUS
    <3>q. QED
      BY <3>1, <2>1, <2>2 DEF JoinSteps
  <2>5. JoinSteps(g, e, n + 1)
    BY <2>3, <2>4 DEF JoinSteps
  <2>q. QED
    BY <2>2, <2>5
<1>3. Len(order) \in T
  <2>1. T \in SUBSET Nat
    OBVIOUS
  <2> HIDE DEF T
  <2>q. QED
    BY <1>1, <1>2, <2>1, CountingUp
<1>4. PICK f : DOMAIN f = 0..Len(order) /\ JoinSteps(f, e, Len(order))
  BY <1>3
<1> DEFINE h == [n \in 0..Len(order) |-> f[n]]
<1>5. ASSUME NEW n \in 0..Len(order)
      PROVE  h[n] = IF n = 0 THEN AtStart ELSE JoinTopmost(e, h[n - 1])
  <2>1. CASE n = 0
    BY <2>1, <1>4 DEF JoinSteps
  <2>2. CASE n # 0
    <3>1. n \in 1..Len(order) /\ n - 1 \in 0..Len(order)
      BY <2>2
    <3>q. QED
      BY <3>1, <2>2, <1>4 DEF JoinSteps
  <2>q. QED
    BY <2>1, <2>2
<1>6. h = [n \in 0..Len(order) |-> IF n = 0 THEN AtStart ELSE JoinTopmost(e, h[n - 1])]
  BY <1>5
<1>q. QED
  BY <1>6

(* Joined() is what the steps end with.                                  *)
LEMMA JoinedBySteps ==
    ASSUME NEW e, Len(order) \in Nat
    PROVE  \E joined : JoinSteps(joined, e, Len(order)) /\ JoinedBands(e) = joined[Len(order)].bands
<1> DEFINE IsJoined(f) == f = [n \in 0..Len(order) |->
                                 IF n = 0 THEN [bands |-> <<>>, rest |-> DOMAIN order]
                                 ELSE JoinTopmost(e, f[n - 1])]
           f == CHOOSE g : IsJoined(g)
<1>1. IsJoined(f)
  BY JoinStepsExist
<1>2. JoinedBands(e) = f[Len(order)].bands
  BY Zenon DEF JoinedBands
<1> HIDE DEF f
<1>3. JoinSteps(f, e, Len(order))
  <2>1. f[0] = [bands |-> <<>>, rest |-> DOMAIN order]
    BY <1>1
  <2>2. ASSUME NEW k \in 1..Len(order) PROVE f[k] = JoinTopmost(e, f[k - 1])
    <3>1. k \in 0..Len(order) /\ k # 0
      OBVIOUS
    <3>q. QED
      BY <3>1, <1>1
  <2>q. QED
    BY <2>1, <2>2 DEF JoinSteps
<1>q. QED
  BY <1>2, <1>3

(* Once all have joined, the bands are right.                              *)
LEMMA JoinedInv ==
    ASSUME Registered, source \in VideoFrames, NEW e, Placeable(e)
    PROVE  JoinInv(e, JoinedBands(e), {})
<1>1. Len(order) \in Nat /\ DOMAIN order = 1..Len(order)
  BY LenProperties DEF Registered
<1>2. PICK f : JoinSteps(f, e, Len(order)) /\ JoinedBands(e) = f[Len(order)].bands
  BY <1>1, JoinedBySteps
<1>3. IsFiniteSet(DOMAIN order) /\ Cardinality(DOMAIN order) = Len(order)
  <2> DEFINE N == Len(order)
  <2> HIDE DEF N
  <2>1. N \in Nat /\ 1 \in Int /\ N \in Int
    BY <1>1 DEF N
  <2>2. IsFiniteSet(1..N) /\ Cardinality(1..N) = IF 1 > N THEN 0 ELSE N - 1 + 1
    BY <2>1, FS_Interval
  <2>3. (IF 1 > N THEN 0 ELSE N - 1 + 1) = N
    BY <2>1
  <2>q. QED
    BY <2>2, <2>3, <1>1 DEF N
<1> DEFINE Holds(n) == /\ f[n] = [bands |-> f[n].bands, rest |-> f[n].rest]
                       /\ f[n].rest \in SUBSET DOMAIN order
                       /\ Cardinality(f[n].rest) = Len(order) - n
                       /\ JoinInv(e, f[n].bands, f[n].rest)
           T == {n \in Nat : n =< Len(order) => Holds(n)}
<1>4. 0 \in T
  <2>1. f[0] = [bands |-> <<>>, rest |-> DOMAIN order]
    BY <1>2 DEF JoinSteps
  <2>2. DOMAIN <<>> = {} /\ <<>> \in Seq(Groups)
    OBVIOUS
  <2>3. JoinInv(e, <<>>, DOMAIN order)
    BY <2>2 DEF JoinInv, AreGroups, Members, Inside, Chained, FarApart, FromTheTop
  <2>4. Holds(0)
    BY <2>1, <2>3, <1>1, <1>3
  <2>q. QED
    BY <2>4
<1>5. ASSUME NEW n \in T PROVE n + 1 \in T
  <2>1. SUFFICES ASSUME n + 1 =< Len(order) PROVE Holds(n + 1)
    OBVIOUS
  <2>2. f[n + 1] = JoinTopmost(e, f[n])
    <3>1. n + 1 \in 1..Len(order) /\ (n + 1) - 1 = n
      BY <2>1
    <3>q. QED
      BY <3>1, <1>2 DEF JoinSteps
  <2> DEFINE bs == f[n].bands
             rest == f[n].rest
             next == JoinTopmost(e, [bands |-> bs, rest |-> rest])
  <2>3. Holds(n) /\ n \in Nat
    BY <2>1, <1>1
  <2>4. f[n + 1] = next /\ f[n] = [bands |-> bs, rest |-> rest]
    BY <2>2, <2>3
  <2>5. next = [bands |-> next.bands, rest |-> next.rest]
    BY DEF JoinTopmost
  <2>6. IsFiniteSet(rest)
    BY <2>3, <1>3, FS_Subset
  <2>7. rest # {}
    <3>1. Cardinality(rest) = 0 <=> rest = {}
      BY <2>6, FS_EmptySet
    <3>2. Cardinality(rest) = Len(order) - n /\ Len(order) - n > 0
      BY <2>1, <2>3, <1>1
    <3> HIDE DEF rest
    <3>q. QED
      BY <3>1, <3>2
  <2>8. JoinInv(e, next.bands, next.rest) /\ \E i \in rest : next.rest = rest \ {i}
    <3>1. rest \in SUBSET DOMAIN order /\ JoinInv(e, bs, rest) /\ rest # {}
      BY <2>3, <2>7
    <3> HIDE DEF bs, rest
    <3>2. Registered /\ source \in VideoFrames /\ Placeable(e)
      OBVIOUS
    <3>q. QED
      BY <3>1, <3>2, JoiningKeepsInv
  <2> HIDE DEF next, bs, rest
  <2>9. PICK i \in rest : next.rest = rest \ {i}
    BY <2>8
  <2>10. Cardinality(next.rest) = Cardinality(rest) - 1
    BY <2>6, <2>9, FS_RemoveElement
  <2>11. rest \in SUBSET DOMAIN order /\ Cardinality(rest) = Len(order) - n
    BY <2>3 DEF rest
  <2>12. /\ next.rest \in SUBSET DOMAIN order
         /\ Cardinality(next.rest) = Len(order) - (n + 1)
    BY <2>3, <2>9, <2>10, <2>11, <1>1
  <2>q. QED
    BY <2>4, <2>5, <2>8, <2>12
<1>6. Len(order) \in T
  <2>1. T \in SUBSET Nat
    OBVIOUS
  <2> HIDE DEF T
  <2>q. QED
    BY <1>1, <1>4, <1>5, <2>1, CountingUp
<1>7. Holds(Len(order))
  BY <1>1, <1>6
<1>8. f[Len(order)].rest = {}
  <2>1. IsFiniteSet(f[Len(order)].rest) /\ Cardinality(f[Len(order)].rest) = 0
    BY <1>1, <1>3, <1>7, FS_Subset
  <2>q. QED
    BY <2>1, FS_EmptySet
<1>q. QED
  BY <1>2, <1>7, <1>8

(* The alignment of a group changes nothing, its ends are even.            *)
LEMMA GroupedAsJoined ==
    ASSUME Registered, source \in VideoFrames, NEW e, Placeable(e)
    PROVE  LET bs == JoinedBands(e)
               groups == Grouped(e)
           IN  /\ groups \in Seq([top : Nat, height : Nat, ids : Seq(Ids)])
               /\ DOMAIN groups = DOMAIN bs /\ Len(groups) \in Nat /\ DOMAIN groups = 1..Len(groups)
               /\ \A b \in DOMAIN bs :
                     groups[b] = [top |-> bs[b].top, height |-> bs[b].bottom - bs[b].top,
                                  ids |-> bs[b].ids]
<1> DEFINE bs == JoinedBands(e)
           groups == Grouped(e)
           group(i) == [top |-> AlignDown(bs[i].top, 2),
                        height |-> AlignUp(bs[i].bottom - bs[i].top, 2), ids |-> bs[i].ids]
           G == [top : Nat, height : Nat, ids : Seq(Ids)]
<1>1. AreGroups(bs)
  BY JoinedInv DEF JoinInv
<1>2. groups = [i \in DOMAIN bs |-> group(i)]
  BY DEF Grouped
<1> HIDE DEF bs, groups
<1>3. bs \in Seq(Groups) /\ DOMAIN bs = 1..Len(bs) /\ Len(bs) \in Nat
  BY <1>1, LenProperties DEF AreGroups
<1>4. ASSUME NEW b \in DOMAIN bs
      PROVE  /\ group(b) \in G
             /\ group(b) = [top |-> bs[b].top, height |-> bs[b].bottom - bs[b].top,
                            ids |-> bs[b].ids]
  <2> DEFINE g == bs[b]
  <2>1. /\ g \in Groups /\ g.top <= g.bottom /\ g.top % 2 = 0 /\ g.bottom % 2 = 0
    BY <1>1, <1>3 DEF AreGroups
  <2> HIDE DEF g
  <2>2. g.top \in Nat /\ g.bottom \in Nat /\ g.ids \in Seq(Ids)
    BY <2>1 DEF Groups
  <2>3. g.bottom - g.top \in Nat /\ (g.bottom - g.top) % 2 = 0
    BY <2>1, <2>2
  <2>4. \A v \in Nat : v % 2 = 0 => AlignDown(v, 2) = v /\ AlignUp(v, 2) = v
    BY DEF AlignDown, AlignUp
  <2>5. AlignDown(g.top, 2) = g.top /\ AlignUp(g.bottom - g.top, 2) = g.bottom - g.top
    BY <2>1, <2>2, <2>3, <2>4
  <2>q. QED
    BY <2>2, <2>3, <2>5 DEF g
<1>5. groups \in Seq(G)
  <2>1. \A b \in DOMAIN bs : group(b) \in G
    BY <1>4
  <2> HIDE DEF group, G
  <2>q. QED
    BY <2>1, <1>2, <1>3
<1>6. DOMAIN groups = DOMAIN bs /\ Len(groups) \in Nat /\ DOMAIN groups = 1..Len(groups)
  BY <1>2, <1>5, LenProperties
<1>7. \A b \in DOMAIN bs : groups[b] = [top |-> bs[b].top, height |-> bs[b].bottom - bs[b].top,
                                        ids |-> bs[b].ids]
  BY <1>2, <1>4
<1>q. QED
  BY <1>5, <1>6, <1>7 DEF bs, groups
-----------------------------------------------------------------------------
Size(frame) == [width |-> frame.width, height |-> frame.height]

(* A layout that fits the objects objs in bands bs of a video of that      *)
(* size. An object whose text renders is at the font size and the height   *)
(* that its configuration asks for; x and the width may be old.            *)
InItsBand(id, o, bs) ==
    /\ o.band \in DOMAIN bs /\ \E k \in DOMAIN bs[o.band].ids : bs[o.band].ids[k] = id
    /\ StaysIn(o.placement, bs[o.band])

AsConfigured(o, size) ==
    Glyphs[o.object.text] > 0 =>
        /\ o.px = LargerOf(1, ScaleDesignPixels(o.object.px, size))
        /\ o.placement.y = Placement(o, size).y /\ o.placement.height = Placement(o, size).height

Holds(objs, bs) ==
    \A b \in DOMAIN bs : \A k \in DOMAIN bs[b].ids :
        bs[b].ids[k] \in DOMAIN objs /\ objs[bs[b].ids[k]].band = b

Linked(objs, bs, gap) ==
    \A b \in DOMAIN bs : \A k \in DOMAIN bs[b].ids :
        k # 1 => \E j \in 1..(k - 1) :
                    Touch(objs[bs[b].ids[k]].placement, objs[bs[b].ids[j]].placement, gap)

Separate(bs, gap) == \A b, c \in DOMAIN bs : b < c => bs[b].top + bs[b].height + gap < bs[c].top

(* The pictures in a band are in the video and in the band; those of a     *)
(* band that is not dirty are of its objects, as they are.                 *)
DrawnRight(objs, band, size) ==
    /\ \A d \in band.drawn : IsInside(d.rect, size) /\ StaysIn(d.rect, band)
    /\ ~band.dirty =>
        /\ \A d \in band.drawn : \E k \in DOMAIN band.ids : band.ids[k] = d.id
        /\ \A k \in DOMAIN band.ids : \E d \in band.drawn : d.id = band.ids[k]
        /\ \A c, d \in band.drawn : c.id = d.id => c = d
        /\ \A k \in DOMAIN band.ids : LET id == band.ids[k] IN
              Glyphs[objs[id].object.text] > 0 => Drawing(id, objs[id]) \in band.drawn

Fits(objs, bs, size) ==
    /\ \A id \in DOMAIN objs : /\ InItsBand(id, objs[id], bs) /\ AsConfigured(objs[id], size)
                               /\ IsInside(objs[id].placement, size)
    /\ Holds(objs, bs)
    /\ Linked(objs, bs, BandJoinGap(size)) /\ Separate(bs, BandJoinGap(size))
    /\ \A b \in DOMAIN bs : DrawnRight(objs, bs[b], size)

(* The objects of the bands, whatever the layout, are there.               *)
Known(S, bs) == \A b \in DOMAIN bs : ToSet(bs[b].ids) \subseteq S

Rendered(objs) ==
    \A id \in DOMAIN objs : objs[id].bitmap = RenderText(objs[id].object.text, objs[id].px)

(* The kernel holds what bs own.                                           *)
Owned(bs, inUse) ==
    /\ \A b \in DOMAIN bs : Reset(bs[b].memory) = bs[b].memory
    /\ \A t \in Things : inUse[t] = Cardinality({b \in DOMAIN bs : t \in bs[b].memory})

InBuffer(frame) == LastByte(frame) <= frame.capacity

FreshInv ==
    fresh =>
        /\ order # <<>> => ~layoutDirty /\ bandSize = Size(source)
        /\ \A b \in DOMAIN bands : ~bands[b].dirty
        /\ InBuffer(source) /\ InBuffer(destination)
        /\ source.width = destination.width /\ source.height = destination.height

OsdInv ==
    /\ OsdTypeOK /\ Rendered(objects) /\ Known(DOMAIN objects, bands) /\ Owned(bands, inKernel)
    /\ order = <<>> => bands = <<>>
    /\ order # <<>> /\ ~layoutDirty /\ ~torn => Fits(objects, bands, bandSize)
    /\ source # NoFrame => ValidateStrideAlignment(source, DefaultByteAlignment)
    /\ FreshInv
-----------------------------------------------------------------------------
(* The first of a set of places, as SelectInSeq() and SelectInSubSeq() give*)
(* it: 0 if there is none.                                                 *)
LEMMA FirstPlace ==
    ASSUME NEW I \in SUBSET (Nat \ {0})
    PROVE  LET first == IF I # {} THEN Min(I) ELSE 0
           IN  /\ first \in I \union {0} /\ (first = 0 <=> I = {})
               /\ \A i \in I : first <= i
<1>1. CASE I = {}
  BY <1>1
<1>2. CASE I # {}
  <2>1. \E x \in I : \A y \in I : x <= y
    BY <1>2, LeastNumber
  <2>2. Min(I) \in I /\ \A y \in I : Min(I) <= y
    BY <2>1 DEF Min
  <2>q. QED
    BY <1>2, <2>2
<1>q. QED
  BY <1>1, <1>2

(* What an update keeps of an object.                                      *)
LEMMA ReconfiguredIsRendered ==
    ASSUME NEW o \in Runtimes, NEW c \in TextObjects
    PROVE  LET r == Reconfigured(o, c)
           IN  /\ r \in Runtimes /\ r.object = c /\ r.placement = o.placement /\ r.band = o.band
               /\ o.bitmap = RenderText(o.object.text, o.px) => r.bitmap = RenderText(c.text, r.px)
               /\ c.px = o.object.px => r.px = o.px
               /\ r.bitmap = o.bitmap \/ c.px # o.object.px \/ c.text # o.object.text
<1> DEFINE px == IF c.px # o.object.px THEN c.px ELSE o.px
           changed == c.px # o.object.px \/ c.text # o.object.text
           bitmap == IF changed THEN RenderText(c.text, px) ELSE o.bitmap
<1>1. px \in Nat \ {0} /\ c.text \in DOMAIN Glyphs
  BY DEF Runtimes, TextObjects
<1>2. RenderText(c.text, px) \in Bitmaps
  BY <1>1, BitmapIsRendered
<1>3. bitmap \in Bitmaps
  BY <1>2 DEF Runtimes
<1>4. Reconfigured(o, c) = [o EXCEPT !.object = c, !.px = px, !.bitmap = bitmap]
  BY DEF Reconfigured
<1>5. c.px = o.object.px => px = o.px
  OBVIOUS
<1>6. o.bitmap = RenderText(o.object.text, o.px) => bitmap = RenderText(c.text, px)
  OBVIOUS
<1>7. bitmap = o.bitmap \/ c.px # o.object.px \/ c.text # o.object.text
  OBVIOUS
<1> HIDE DEF px, bitmap
<1>8. LET r == Reconfigured(o, c)
      IN  /\ r \in Runtimes /\ r.object = c /\ r.placement = o.placement /\ r.band = o.band
          /\ r.px = px /\ r.bitmap = bitmap
  BY <1>1, <1>3, <1>4 DEF Runtimes
<1>q. QED
  BY <1>5, <1>6, <1>7, <1>8

(* The objects of a relayout, with their bitmaps.                          *)
LEMMA EnsuredAreRendered ==
    ASSUME Registered, source \in VideoFrames
    PROVE  /\ Ensured \in [DOMAIN objects -> Runtimes]
           /\ Rendered(objects) => Rendered(Ensured)
<1>1. source.width \in Nat /\ source.height \in Nat
  BY DEF VideoFrames
<1>2. ASSUME NEW id \in DOMAIN objects
      PROVE  /\ objects[id] \in Runtimes
             /\ Ensured[id] = objects[id] \/ Ensured[id] = EnsureTextBitmap(objects[id], source)
  BY <1>2 DEF Registered, Ensured
<1>3. DOMAIN Ensured = DOMAIN objects
  BY DEF Ensured
<1>4. ASSUME NEW id \in DOMAIN objects
      PROVE  /\ Ensured[id] \in Runtimes
             /\ Rendered(objects) => Ensured[id].bitmap = RenderText(Ensured[id].object.text, Ensured[id].px)
  <2> DEFINE o == objects[id]
             e == EnsureTextBitmap(o, source)
  <2>1. o \in Runtimes
    BY <1>2
  <2>2. e \in Runtimes /\ (o.bitmap = RenderText(o.object.text, o.px) => e.bitmap = RenderText(e.object.text, e.px))
    <3> HIDE DEF o
    <3>q. QED
      BY <2>1, <1>1, BitmapEnsured
  <2>3. Rendered(objects) => o.bitmap = RenderText(o.object.text, o.px)
    BY DEF Rendered
  <2>q. QED
    BY <1>2, <2>1, <2>2, <2>3
<1>5. Ensured \in [DOMAIN objects -> Runtimes]
  <2>1. Ensured = [id \in DOMAIN objects |-> Ensured[id]]
    BY <1>3 DEF Ensured
  <2>q. QED
    BY <2>1, <1>4
<1>q. QED
  BY <1>3, <1>4, <1>5 DEF Rendered

(* When every object has a place, it is inside the video.                  *)
LEMMA EnsuredHavePlaces ==
    ASSUME Registered, source \in VideoFrames, WithoutPlace = {}
    PROVE  /\ Placeable(Ensured)
           /\ \A id \in DOMAIN objects :
                LET e == Ensured[id]
                IN  /\ e.bitmap # NoBitmap /\ e.object = objects[id].object
                    /\ e.px = LargerOf(1, ScaleDesignPixels(e.object.px, source))
                    /\ IsInside(Placement(e, source), source) /\ Placement(e, source) \in Rects
<1>1. source.width \in Nat /\ source.height \in Nat
  BY DEF VideoFrames
<1>2. Ensured = [id \in DOMAIN objects |-> EnsureTextBitmap(objects[id], source)]
  <2>1. {order[i] : i \in {k \in DOMAIN order : \A j \in {} : k <= j}} = DOMAIN objects
    BY DEF Registered
  <2>q. QED
    BY <2>1 DEF Ensured
<1>3. ASSUME NEW id \in DOMAIN objects
      PROVE  LET e == Ensured[id]
             IN  /\ e.bitmap # NoBitmap /\ e.object = objects[id].object
                 /\ e.px = LargerOf(1, ScaleDesignPixels(e.object.px, source))
                 /\ IsInside(Placement(e, source), source) /\ Placement(e, source) \in Rects
                 /\ Placement(e, source).y \in Nat /\ Placement(e, source).height \in Nat
                 /\ Placement(e, source).y % 2 = 0 /\ Placement(e, source).height % 2 = 0
  <2> DEFINE o == objects[id]
             e == EnsureTextBitmap(o, source)
             p == Placement(e, source)
  <2>1. o \in Runtimes /\ Ensured[id] = e
    BY <1>2 DEF Registered
  <2>2. HasPlace(o, source)
    BY DEF WithoutPlace, Registered
  <2>3. e.bitmap # NoBitmap /\ IsInside(p, source)
    BY <2>2 DEF HasPlace
  <2>4. /\ e \in Runtimes /\ e.object = o.object
        /\ e.bitmap # NoBitmap => e.px = LargerOf(1, ScaleDesignPixels(o.object.px, source))
    <3> HIDE DEF o
    <3>q. QED
      BY <2>1, <1>1, BitmapEnsured
  <2> HIDE DEF e
  <2>5. e.object \in TextObjects /\ e.bitmap \in Bitmaps
    BY <2>4 DEF Runtimes
  <2>6. p \in Rects /\ p.height \in Nat /\ p.y % 2 = 0 /\ p.height % 2 = 0
    BY <2>5, <1>1, PlacementIsRect
  <2>7. p.y \in Nat
    <3> HIDE DEF p
    <3>q. QED
      BY <2>3, <2>6 DEF IsInside, Rects
  <2>q. QED
    BY <2>1, <2>3, <2>4, <2>6, <2>7
<1>q. QED
  BY <1>3 DEF Placeable, PlaceIn
-----------------------------------------------------------------------------
(* Where an object goes is a matter of its configuration and its bitmap.   *)
LEMMA PlacementOfSame ==
    ASSUME NEW o, NEW q, o.object = q.object, o.bitmap = q.bitmap, NEW frame
    PROVE  Placement(o, frame) = Placement(q, frame)
BY DEF Placement

(* An object of a group has its place there; the others are as they were. *)
LEMMA PlacedObjects ==
    ASSUME Registered, source \in VideoFrames, NEW e \in [DOMAIN objects -> Runtimes],
           NEW groups, NEW n \in Nat
    PROVE  LET placed == Placed(e, groups, n)
           IN  /\ placed \in [DOMAIN objects -> Runtimes]
               /\ \A id \in DOMAIN objects :
                    /\ placed[id].object = e[id].object /\ placed[id].bitmap = e[id].bitmap
                    /\ placed[id].px = e[id].px
                    /\ \/ placed[id] = e[id] /\ \A c \in 1..n : id \notin ToSet(groups[c].ids)
                       \/ /\ placed[id].band \in 1..n /\ id \in ToSet(groups[placed[id].band].ids)
                          /\ placed[id].placement = PlaceIn(e, id)
<1> DEFINE In(id) == {i \in 1..n : id \in ToSet(groups[i].ids)}
           first(id) == IF In(id) # {} THEN Min(In(id)) ELSE 0
           place(o, i) == [o EXCEPT !.placement = Placement(o, source), !.band = i,
                                    !.placementDirty = FALSE]
           placed == Placed(e, groups, n)
<1>1. placed = [id \in DOMAIN objects |-> IF first(id) = 0 THEN e[id] ELSE place(e[id], first(id))]
  BY DEF Placed, SelectInSubSeq
<1>2. ASSUME NEW id \in DOMAIN objects
      PROVE  /\ first(id) = 0 => \A c \in 1..n : id \notin ToSet(groups[c].ids)
             /\ first(id) # 0 => first(id) \in 1..n /\ id \in ToSet(groups[first(id)].ids)
  <2>1. In(id) \in SUBSET (Nat \ {0})
    OBVIOUS
  <2>2. first(id) \in In(id) \union {0} /\ (first(id) = 0 <=> In(id) = {})
    <3> HIDE DEF In
    <3>q. QED
      BY <2>1, FirstPlace
  <2> HIDE DEF first
  <2>q. QED
    BY <2>2
<1> HIDE DEF placed, first
<1>3. ASSUME NEW id \in DOMAIN objects
      PROVE  /\ placed[id] \in Runtimes
             /\ placed[id].object = e[id].object /\ placed[id].bitmap = e[id].bitmap
             /\ placed[id].px = e[id].px
             /\ \/ placed[id] = e[id] /\ \A c \in 1..n : id \notin ToSet(groups[c].ids)
                \/ /\ placed[id].band \in 1..n /\ id \in ToSet(groups[placed[id].band].ids)
                   /\ placed[id].placement = PlaceIn(e, id)
  <2>1. e[id] \in Runtimes
    OBVIOUS
  <2>2. CASE first(id) = 0
    <3>1. placed[id] = e[id]
      BY <2>2, <1>1
    <3>q. QED
      BY <3>1, <2>1, <2>2, <1>2
  <2>3. CASE first(id) # 0
    <3> DEFINE o == e[id]
               b == first(id)
               rect == Placement(o, source)
    <3>1. rect \in Rects
      <4>1. o.object \in TextObjects /\ o.bitmap \in Bitmaps
        BY <2>1 DEF Runtimes
      <4>2. source.width \in Nat /\ source.height \in Nat
        BY DEF VideoFrames
      <4> HIDE DEF o
      <4>q. QED
        BY <4>1, <4>2, PlacementIsRect
    <3>2. placed[id] = [o EXCEPT !.placement = rect, !.band = b, !.placementDirty = FALSE]
      BY <2>3, <1>1
    <3>3. b \in 1..n /\ id \in ToSet(groups[b].ids)
      BY <2>3, <1>2
    <3>4. o \in Runtimes /\ rect = PlaceIn(e, id)
      BY <2>1 DEF PlaceIn
    <3>6. b \in Nat
      BY <3>3
    <3> HIDE DEF o, b, rect
    <3>5. /\ placed[id] \in Runtimes /\ placed[id].object = o.object /\ placed[id].bitmap = o.bitmap
          /\ placed[id].px = o.px /\ placed[id].band = b /\ placed[id].placement = rect
      BY <3>1, <3>2, <3>4, <3>6 DEF Runtimes
    <3>q. QED
      BY <3>3, <3>4, <3>5 DEF o
  <2>q. QED
    BY <2>2, <2>3
<1>4. placed \in [DOMAIN objects -> Runtimes]
  BY <1>1, <1>3
<1>q. QED
  BY <1>3, <1>4 DEF placed
-----------------------------------------------------------------------------
(* What the bands own when all of them are given back.                     *)
LEMMA AllGivenBack ==
    ASSUME NEW bs, NEW inUse, Owned(bs, inUse), NEW t \in Things,
           Cardinality({b \in DOMAIN bs : t \in bs[b].memory}) \in Nat
    PROVE  ResetAll(inUse, MemoriesOf(bs))[t] = 0
<1> DEFINE has == {b \in DOMAIN bs : t \in bs[b].memory}
           gives == {i \in DOMAIN MemoriesOf(bs) : t \in Reset(MemoriesOf(bs)[i])}
<1>1. has = gives
  BY DEF MemoriesOf, Owned
<1>2. inUse[t] = Cardinality(has)
  BY DEF Owned
<1>3. ResetAll(inUse, MemoriesOf(bs))[t] = inUse[t] - Cardinality(gives)
  BY DEF ResetAll
<1>4. Cardinality(has) \in Nat
  OBVIOUS
<1> HIDE DEF has, gives
<1>q. QED
  BY <1>1, <1>2, <1>3, <1>4

LEMMA CountIsNat ==
    ASSUME NEW n \in Nat, NEW S \in SUBSET (1..n)
    PROVE  IsFiniteSet(S) /\ Cardinality(S) \in Nat
<1>1. IsFiniteSet(1..n)
  BY FS_Interval
<1>q. QED
  BY <1>1, FS_Subset, FS_CardinalityType

LEMMA CountOfAll ==
    ASSUME NEW n \in Nat PROVE Cardinality(1..n) = n
<1>1. 1 \in Int /\ n \in Int
  OBVIOUS
<1>2. Cardinality(1..n) = IF 1 > n THEN 0 ELSE n - 1 + 1
  BY <1>1, FS_Interval
<1>q. QED
  BY <1>2

(* A relayout that has its memories fits, and leaves nothing in the kernel *)
(* but them.                                                               *)
LEMMA RelaidOwns ==
    ASSUME OsdTypeOK, Owned(bands, inKernel), WithoutPlace = {},
           NEW a \in Allocate(Nodes)
    PROVE  LET lay == Relaid(Ensured, Grouped(Ensured), a)
           IN  /\ lay.kernel \in [Things -> Nat] /\ Owned(lay.bands, lay.kernel)
               /\ lay.bands \in Seq(Bands)
<1> DEFINE groups == Grouped(Ensured)
           lay == Relaid(Ensured, groups, a)
           band(g) == [top |-> g.top, height |-> g.height, ids |-> g.ids, dirty |-> TRUE,
                       drawn |-> {}, memory |-> a.memory]
           G == [top : Nat, height : Nat, ids : Seq(Ids)]
<1>1. Registered /\ source \in VideoFrames
  BY DEF OsdTypeOK
<1>2. Placeable(Ensured)
  BY <1>1, EnsuredHavePlaces
<1>3. groups \in Seq(G) /\ Len(groups) \in Nat /\ DOMAIN groups = 1..Len(groups)
  BY <1>1, <1>2, GroupedAsJoined
<1>4. Sound(a)
  <2>1. Len(Nodes) \in Nat
    BY OsdRendererAssumption
  <2>q. QED
    BY <2>1, AllocateIsSound
<1>5. /\ lay.bands = [i \in DOMAIN groups |-> band(groups[i])]
      /\ lay.kernel = [t \in Things |-> ResetAll(inKernel, MemoriesOf(bands))[t] + Len(groups) * a.left[t]]
  BY DEF Relaid
<1> HIDE DEF groups, lay
<1>6. ASSUME NEW g \in G PROVE band(g) \in Bands /\ band(g).memory = a.memory
  BY <1>4 DEF Sound, Bands
<1>7. lay.bands \in Seq(Bands)
  <2>1. \A i \in 1..Len(groups) : groups[i] \in G
    <3> HIDE DEF G
    <3>q. QED
      BY <1>3
  <2>2. \A i \in 1..Len(groups) : band(groups[i]) \in Bands
    <3> HIDE DEF band, G
    <3>q. QED
      BY <2>1, <1>6
  <2> HIDE DEF band
  <2>q. QED
    BY <2>2, <1>3, <1>5
<1>8. \A b \in DOMAIN lay.bands : lay.bands[b].memory = a.memory
  BY <1>3, <1>5
<1>9. DOMAIN lay.bands = 1..Len(groups)
  BY <1>3, <1>5
<1>10. ASSUME NEW t \in Things
       PROVE  lay.kernel[t] = Cardinality({b \in DOMAIN lay.bands : t \in lay.bands[b].memory})
              /\ lay.kernel[t] \in Nat
  <2>1. Cardinality({b \in DOMAIN bands : t \in bands[b].memory}) \in Nat
    <3>1. DOMAIN bands = 1..Len(bands) /\ Len(bands) \in Nat
      BY LenProperties DEF OsdTypeOK
    <3>q. QED
      BY <3>1, CountIsNat
  <2>2. ResetAll(inKernel, MemoriesOf(bands))[t] = 0
    BY <2>1, AllGivenBack
  <2>3. lay.kernel[t] = 0 + Len(groups) * a.left[t]
    BY <2>2, <1>5
  <2> DEFINE has == {b \in DOMAIN lay.bands : t \in lay.bands[b].memory}
  <2>4. CASE t \in a.memory
    <3>1. a.left[t] = 1
      BY <2>4, <1>4 DEF Sound
    <3>2. has = 1..Len(groups)
      BY <2>4, <1>8, <1>9
    <3> HIDE DEF has
    <3>3. Cardinality(has) = Len(groups)
      BY <3>2, <1>3, CountOfAll
    <3>4. lay.kernel[t] = Cardinality(has) /\ lay.kernel[t] \in Nat
      BY <3>1, <3>3, <2>3, <1>3
    <3>q. QED
      BY <3>4 DEF has
  <2>5. CASE t \notin a.memory
    <3>1. a.left[t] = 0
      BY <2>5, <1>4 DEF Sound
    <3>2. has = {}
      BY <2>5, <1>8
    <3> HIDE DEF has
    <3>3. Cardinality(has) = 0
      BY <3>2, FS_EmptySet
    <3>4. lay.kernel[t] = Cardinality(has) /\ lay.kernel[t] \in Nat
      BY <3>1, <3>3, <2>3, <1>3
    <3>q. QED
      BY <3>4 DEF has
  <2>q. QED
    BY <2>4, <2>5
<1>11. Owned(lay.bands, lay.kernel)
  <2>1. Reset(a.memory) = a.memory
    BY <1>4 DEF Sound
  <2>q. QED
    BY <2>1, <1>8, <1>10 DEF Owned
<1>12. lay.kernel \in [Things -> Nat]
  BY <1>5, <1>10
<1>q. QED
  BY <1>7, <1>11, <1>12 DEF lay, groups

(* A relayout that succeeds makes a layout that fits the video of the source. *)
LEMMA RelaidFits ==
    ASSUME OsdTypeOK, Rendered(objects), WithoutPlace = {}, NEW a
    PROVE  LET lay == Relaid(Ensured, Grouped(Ensured), a)
           IN  /\ lay.objects \in [DOMAIN objects -> Runtimes] /\ Rendered(lay.objects)
               /\ Fits(lay.objects, lay.bands, Size(source))
<1> DEFINE e == Ensured
           joined == JoinedBands(e)
           groups == Grouped(e)
           lay == Relaid(e, groups, a)
           objs == lay.objects
           bs == lay.bands
           size == Size(source)
           gap == BandJoinGap(size)
           band(g) == [top |-> g.top, height |-> g.height, ids |-> g.ids, dirty |-> TRUE,
                       drawn |-> {}, memory |-> a.memory]
           S == DOMAIN objects
<1>1. Registered /\ source \in VideoFrames
  BY DEF OsdTypeOK
<1>2. source.width \in Nat /\ source.height \in Nat /\ size.width = source.width /\ size.height = source.height
  BY <1>1 DEF VideoFrames, Size
<1>3. e \in [S -> Runtimes] /\ Rendered(e)
  BY <1>1, EnsuredAreRendered
<1>4. /\ Placeable(e)
      /\ \A id \in S : /\ e[id].bitmap # NoBitmap
                       /\ e[id].px = LargerOf(1, ScaleDesignPixels(e[id].object.px, source))
                       /\ IsInside(PlaceIn(e, id), source)
  BY <1>1, EnsuredHavePlaces DEF PlaceIn
<1>5. JoinInv(e, joined, {})
  BY <1>1, <1>4, JoinedInv
<1>6. gap = BandJoinGap(source) /\ gap \in Nat
  BY <1>2, SizeMatters, GapIsNat DEF BandJoinGap
<1>7. /\ Len(groups) \in Nat /\ DOMAIN groups = 1..Len(groups) /\ DOMAIN groups = DOMAIN joined
      /\ \A b \in DOMAIN joined :
            groups[b] = [top |-> joined[b].top, height |-> joined[b].bottom - joined[b].top,
                         ids |-> joined[b].ids]
  BY <1>1, <1>4, GroupedAsJoined
<1>8. objs = Placed(e, groups, Len(groups)) /\ bs = [i \in DOMAIN groups |-> band(groups[i])]
  BY DEF Relaid
<1> HIDE DEF e, joined, groups, lay, size, gap
<1>23. ASSUME NEW b \in DOMAIN joined
       PROVE  /\ groups[b].top = joined[b].top /\ groups[b].ids = joined[b].ids
              /\ groups[b].height = joined[b].bottom - joined[b].top
  <2> DEFINE height == joined[b].bottom - joined[b].top
  <2>1. groups[b] = [top |-> joined[b].top, height |-> height, ids |-> joined[b].ids]
    BY <1>7
  <2> HIDE DEF height
  <2>2. /\ groups[b].top = joined[b].top /\ groups[b].ids = joined[b].ids
        /\ groups[b].height = height
    BY <2>1
  <2>q. QED
    BY <2>2 DEF height
<1>9. /\ objs \in [S -> Runtimes]
      /\ \A id \in S :
            /\ objs[id].object = e[id].object /\ objs[id].bitmap = e[id].bitmap
            /\ objs[id].px = e[id].px
            /\ \/ objs[id] = e[id] /\ \A c \in 1..Len(groups) : id \notin ToSet(groups[c].ids)
               \/ /\ objs[id].band \in 1..Len(groups) /\ id \in ToSet(groups[objs[id].band].ids)
                  /\ objs[id].placement = PlaceIn(e, id)
  BY <1>1, <1>3, <1>7, <1>8, PlacedObjects
<1>10. ASSUME NEW b \in DOMAIN joined
       PROVE  /\ b \in DOMAIN bs /\ bs[b].ids = joined[b].ids /\ bs[b].top = joined[b].top
              /\ bs[b].dirty = TRUE /\ bs[b].drawn = {}
              /\ bs[b].top \in Nat /\ joined[b].bottom \in Nat
              /\ bs[b].height = joined[b].bottom - joined[b].top
              /\ bs[b].top + bs[b].height = joined[b].bottom
  <2>1. joined[b] \in Groups
    BY <1>5 DEF JoinInv, AreGroups
  <2>2. joined[b].top \in Nat /\ joined[b].bottom \in Nat
    BY <2>1 DEF Groups
  <2> DEFINE g == groups[b]
  <2>3. b \in DOMAIN bs /\ bs[b] = band(g)
    BY <1>7, <1>8
  <2>4. /\ g.top = joined[b].top /\ g.height = joined[b].bottom - joined[b].top
        /\ g.ids = joined[b].ids
    BY <1>23
  <2>5. /\ bs[b].ids = g.ids /\ bs[b].top = g.top /\ bs[b].height = g.height
        /\ bs[b].dirty = TRUE /\ bs[b].drawn = {}
    <3> HIDE DEF g, bs
    <3>q. QED
      BY <2>3
  <2> HIDE DEF g, bs
  <2>q. QED
    BY <2>2, <2>3, <2>4, <2>5
<1>11. DOMAIN bs = DOMAIN joined
  BY <1>7, <1>8
<1> HIDE DEF bs, objs, S
<1>21. ASSUME NEW b \in DOMAIN joined
       PROVE  b \in 1..Len(groups) /\ ToSet(groups[b].ids) = ToSet(joined[b].ids)
  <2>1. groups[b].ids = joined[b].ids
    BY <1>23
  <2>q. QED
    BY <2>1, <1>7
<1>22. \A b \in 1..Len(groups) : b \in DOMAIN joined
  BY <1>7
<1>12. ASSUME NEW id \in S
       PROVE  /\ objs[id].band \in DOMAIN joined /\ objs[id].placement = PlaceIn(e, id)
              /\ \E k \in DOMAIN joined[objs[id].band].ids : joined[objs[id].band].ids[k] = id
  <2>1. PICK i \in DOMAIN order : order[i] = id
    BY <1>1 DEF Registered, S
  <2>2. PICK b \in DOMAIN joined : \E k \in DOMAIN joined[b].ids : joined[b].ids[k] = id
    BY <2>1, <1>5 DEF JoinInv, Members
  <2>3. id \in ToSet(groups[b].ids) /\ b \in 1..Len(groups)
    BY <2>2, <1>21 DEF ToSet
  <2>4. /\ objs[id].band \in 1..Len(groups) /\ id \in ToSet(groups[objs[id].band].ids)
        /\ objs[id].placement = PlaceIn(e, id)
    BY <2>3, <1>9
  <2>5. objs[id].band \in DOMAIN joined /\ id \in ToSet(joined[objs[id].band].ids)
    BY <2>4, <1>21, <1>22
  <2>q. QED
    BY <2>4, <2>5 DEF ToSet
<1>13. ASSUME NEW b \in DOMAIN joined, NEW k \in DOMAIN joined[b].ids
       PROVE  joined[b].ids[k] \in S /\ objs[joined[b].ids[k]].band = b
  <2> DEFINE id == joined[b].ids[k]
  <2>1. id \in S
    BY <1>1, <1>5 DEF JoinInv, Members, Registered, S
  <2>2. objs[id].band \in DOMAIN joined
        /\ \E l \in DOMAIN joined[objs[id].band].ids : joined[objs[id].band].ids[l] = id
    BY <2>1, <1>12
  <2>3. objs[id].band = b
    BY <2>2, <1>5 DEF JoinInv, Members
  <2>q. QED
    BY <2>1, <2>3
<1>14. ASSUME NEW id \in S
       PROVE  /\ InItsBand(id, objs[id], bs) /\ AsConfigured(objs[id], size)
              /\ IsInside(objs[id].placement, size)
  <2> DEFINE o == objs[id]
             p == PlaceIn(e, id)
             b == o.band
  <2>1. b \in DOMAIN joined /\ o.placement = p
    BY <1>12
  <2>2. PICK k \in DOMAIN joined[b].ids : joined[b].ids[k] = id
    BY <1>12
  <2>3. joined[b].top <= p.y /\ p.y + p.height <= joined[b].bottom
    BY <2>1, <2>2, <1>5 DEF JoinInv, Inside
  <2>4. /\ b \in DOMAIN bs /\ bs[b].ids = joined[b].ids /\ bs[b].top = joined[b].top
        /\ bs[b].top + bs[b].height = joined[b].bottom
    BY <2>1, <1>10
  <2>5. p.y >= bs[b].top /\ p.y + p.height <= bs[b].top + bs[b].height
    <3>1. p.y \in Nat /\ bs[b].top \in Nat
      BY <2>1, <1>4, <1>10 DEF Placeable, S
    <3>q. QED
      BY <3>1, <2>3, <2>4
  <2>6. InItsBand(id, o, bs)
    BY <2>1, <2>2, <2>4, <2>5 DEF InItsBand, StaysIn
  <2>7. IsInside(o.placement, size)
    <3>1. IsInside(p, source)
      BY <1>4
    <3>q. QED
      BY <3>1, <2>1, <1>2 DEF IsInside
  <2>8. AsConfigured(o, size)
    <3>1. o.object = e[id].object /\ o.bitmap = e[id].bitmap /\ o.px = e[id].px
      BY <1>9
    <3>2. o.px = LargerOf(1, ScaleDesignPixels(o.object.px, size))
      <4>1. e[id].px = LargerOf(1, ScaleDesignPixels(e[id].object.px, source))
        BY <1>4
      <4>2. \A v : ScaleDesignPixels(v, source) = ScaleDesignPixels(v, size)
        BY <1>2, SizeMatters
      <4>q. QED
        BY <4>1, <4>2, <3>1
    <3>3. Placement(o, size) = p
      <4>1. Placement(o, size) = Placement(e[id], size)
        BY <3>1, PlacementOfSame
      <4>2. Placement(e[id], source) = Placement(e[id], size)
        BY <1>2, SizeMatters
      <4>q. QED
        BY <4>1, <4>2 DEF PlaceIn
    <3>4. o.placement.y = Placement(o, size).y /\ o.placement.height = Placement(o, size).height
      BY <3>3, <2>1
    <3>q. QED
      BY <3>2, <3>4 DEF AsConfigured
  <2>q. QED
    BY <2>6, <2>7, <2>8
<1>15. Holds(objs, bs)
  <2>1. ASSUME NEW b \in DOMAIN bs, NEW k \in DOMAIN bs[b].ids
        PROVE  bs[b].ids[k] \in DOMAIN objs /\ objs[bs[b].ids[k]].band = b
    <3>1. b \in DOMAIN joined /\ bs[b].ids = joined[b].ids
      BY <1>10, <1>11
    <3>2. DOMAIN objs = S
      BY <1>9
    <3>q. QED
      BY <2>1, <3>1, <3>2, <1>13
  <2>q. QED
    BY <2>1, Zenon DEF Holds
<1>16. Linked(objs, bs, gap)
  <2>1. ASSUME NEW b \in DOMAIN bs, NEW k \in DOMAIN bs[b].ids, k # 1
        PROVE  \E j \in 1..(k - 1) :
                  Touch(objs[bs[b].ids[k]].placement, objs[bs[b].ids[j]].placement, gap)
    <3>1. b \in DOMAIN joined /\ bs[b].ids = joined[b].ids
      BY <1>10, <1>11
    <3>2. PICK j \in 1..(k - 1) : Touch(PlaceIn(e, bs[b].ids[k]), PlaceIn(e, bs[b].ids[j]), gap)
      BY <3>1, <2>1, <1>5, <1>6 DEF JoinInv, Chained
    <3>3. j \in DOMAIN bs[b].ids
      <4>1. joined[b].ids \in Seq(Ids)
        <5>1. joined[b] \in Groups
          BY <3>1, <1>5 DEF JoinInv, AreGroups
        <5>q. QED
          BY <5>1 DEF Groups
      <4>2. DOMAIN bs[b].ids = 1..Len(bs[b].ids) /\ Len(bs[b].ids) \in Nat
        BY <4>1, <3>1, LenProperties
      <4>q. QED
        BY <4>2
    <3>4. /\ objs[bs[b].ids[k]].placement = PlaceIn(e, bs[b].ids[k])
          /\ objs[bs[b].ids[j]].placement = PlaceIn(e, bs[b].ids[j])
      BY <3>1, <3>3, <1>12, <1>13
    <3>q. QED
      BY <3>2, <3>4
  <2>q. QED
    BY <2>1 DEF Linked
<1>17. Separate(bs, gap)
  BY <1>5, <1>6, <1>10, <1>11 DEF JoinInv, FarApart, Separate
<1>18. \A b \in DOMAIN bs : DrawnRight(objs, bs[b], size)
  BY <1>10, <1>11 DEF DrawnRight
<1>19. Fits(objs, bs, size)
  BY <1>9, <1>14, <1>15, <1>16, <1>17, <1>18 DEF Fits, gap
<1>20. Rendered(objs)
  BY <1>3, <1>9 DEF Rendered
<1>q. QED
  BY <1>9, <1>19, <1>20 DEF objs, bs, lay, e, groups, size, S
-----------------------------------------------------------------------------
(* Drawing. The objects before the one that blocks a band can be drawn.    *)
LEMMA DrawableBeforeBlock ==
    ASSUME NEW lay, NEW b, lay.bands[b].dirty, lay.bands[b].ids \in Seq(Ids)
    PROVE  /\ Blocked(lay, b) = 0 => \A k \in DOMAIN lay.bands[b].ids :
                                        CanDraw(lay.objects[lay.bands[b].ids[k]], lay.bands[b])
           /\ \A k \in 1..(Blocked(lay, b) - 1) :
                 /\ k \in DOMAIN lay.bands[b].ids
                 /\ CanDraw(lay.objects[lay.bands[b].ids[k]], lay.bands[b])
<1> DEFINE ids == lay.bands[b].ids
           I == {k \in 1..Len(ids) : ~CanDraw(lay.objects[ids[k]], lay.bands[b])}
           first == IF I # {} THEN Min(I) ELSE 0
<1>1. Blocked(lay, b) = first
  BY DEF Blocked, SelectInSeq
<1>2. DOMAIN ids = 1..Len(ids) /\ Len(ids) \in Nat
  BY LenProperties
<1>3. I \in SUBSET (Nat \ {0}) /\ I \subseteq 1..Len(ids)
  BY <1>2
<1>4. first \in I \union {0} /\ (first = 0 <=> I = {}) /\ \A k \in I : first <= k
  <2> HIDE DEF I
  <2>q. QED
    BY <1>3, FirstPlace
<1> HIDE DEF first
<1>5. ASSUME first = 0, NEW k \in DOMAIN ids PROVE CanDraw(lay.objects[ids[k]], lay.bands[b])
  BY <1>2, <1>4, <1>5
<1>6. ASSUME NEW k \in 1..(first - 1)
      PROVE  k \in DOMAIN ids /\ CanDraw(lay.objects[ids[k]], lay.bands[b])
  <2>1. first \in Nat /\ k < first /\ first <= Len(ids) /\ k \in 1..Len(ids)
    BY <1>2, <1>3, <1>4
  <2>2. k \notin I
    <3> HIDE DEF I
    <3>q. QED
      BY <2>1, <1>3, <1>4
  <2>q. QED
    BY <2>1, <2>2, <1>2, SMTT(30)
<1>q. QED
  BY <1>1, <1>5, <1>6

(* An object that is placed again stays what it is.                        *)
LEMMA PlacedAgainIsRendered ==
    ASSUME source \in VideoFrames, NEW o \in Runtimes
    PROVE  LET p == PlacedAgain(o)
           IN  /\ p \in Runtimes /\ p.object = o.object /\ p.band = o.band
               /\ o.bitmap = RenderText(o.object.text, o.px) => p.bitmap = RenderText(p.object.text, p.px)
<1>1. CASE ~o.placementDirty
  BY <1>1 DEF PlacedAgain
<1>2. CASE o.placementDirty
  <2> DEFINE e == EnsureTextBitmap(o, source)
             rect == Placement(e, source)
  <2>1. source.width \in Nat /\ source.height \in Nat
    BY DEF VideoFrames
  <2>2. /\ e \in Runtimes /\ e.object = o.object /\ e.band = o.band
        /\ o.bitmap = RenderText(o.object.text, o.px) => e.bitmap = RenderText(e.object.text, e.px)
    BY <2>1, BitmapEnsured
  <2> HIDE DEF e
  <2>3. rect \in Rects
    <3>1. e.object \in TextObjects /\ e.bitmap \in Bitmaps
      BY <2>2 DEF Runtimes
    <3>q. QED
      BY <3>1, <2>1, PlacementIsRect
  <2> HIDE DEF rect
  <2>4. PlacedAgain(o) = [e EXCEPT !.placement = rect, !.placementDirty = FALSE]
    BY <1>2 DEF PlacedAgain, e, rect
  <2>5. LET p == PlacedAgain(o)
        IN  /\ p \in Runtimes /\ p.object = e.object /\ p.band = e.band
            /\ p.bitmap = e.bitmap /\ p.px = e.px
    BY <2>2, <2>3, <2>4 DEF Runtimes
  <2>q. QED
    BY <2>2, <2>5
<1>q. QED
  BY <1>1, <1>2

(* In a layout that fits it keeps its height in the video and its font,    *)
(* and the place is inside the video and the band.                         *)
LEMMA PlacedAgainFits ==
    ASSUME source \in VideoFrames, NEW o \in Runtimes, o.bitmap = RenderText(o.object.text, o.px),
           NEW id, NEW bs, InItsBand(id, o, bs), AsConfigured(o, Size(source)),
           IsInside(o.placement, Size(source)), CanDraw(o, bs[o.band])
    PROVE  LET p == PlacedAgain(o)
           IN  /\ p.px = o.px /\ p.bitmap = o.bitmap
               /\ p.placement.y = o.placement.y /\ p.placement.height = o.placement.height
               /\ InItsBand(id, p, bs) /\ AsConfigured(p, Size(source))
               /\ IsInside(p.placement, Size(source))
<1>1. CASE ~o.placementDirty
  BY <1>1 DEF PlacedAgain
<1>2. CASE o.placementDirty
  <2> DEFINE e == EnsureTextBitmap(o, source)
             rect == Placement(e, source)
             size == Size(source)
             p == PlacedAgain(o)
  <2>1. source.width \in Nat /\ source.height \in Nat /\ size.width = source.width /\ size.height = source.height
    BY DEF VideoFrames, Size
  <2>2. e.bitmap # NoBitmap /\ IsInside(rect, source)
    BY <1>2 DEF CanDraw, HasPlace
  <2>3. /\ e \in Runtimes /\ e.object = o.object
        /\ e.bitmap = RenderText(e.object.text, e.px)
    BY <2>1, BitmapEnsured
  <2>4. Glyphs[o.object.text] > 0
    <3>1. o.object.text \in DOMAIN Glyphs /\ e.px \in Nat
      <4> HIDE DEF e
      <4>q. QED
        BY <2>3 DEF Runtimes, TextObjects
    <3> HIDE DEF e
    <3>q. QED
      BY <3>1, <2>2, <2>3, BitmapIsRendered, ZenonT(30)
  <2>5. /\ o.px = LargerOf(1, ScaleDesignPixels(o.object.px, size))
        /\ o.placement.y = Placement(o, size).y /\ o.placement.height = Placement(o, size).height
    BY <2>4 DEF AsConfigured
  <2>6. e = o
    <3>1. ScaleDesignPixels(o.object.px, source) = ScaleDesignPixels(o.object.px, size)
      BY <2>1, SizeMatters
    <3>2. ScaleDesignPixels(o.object.px, source) \in Nat
      <4>1. o.object.px \in Nat
        BY DEF Runtimes, TextObjects
      <4>q. QED
        BY <4>1, <2>1, ScaledIsNat
    <3>3. o.px = IF ScaleDesignPixels(o.object.px, source) < 1 THEN 1
                 ELSE ScaleDesignPixels(o.object.px, source)
      BY <2>5, <3>1, <3>2 DEF LargerOf
    <3>4. o.bitmap # NoBitmap
      <4>1. o.object.text \in DOMAIN Glyphs /\ o.px \in Nat
        BY DEF Runtimes, TextObjects
      <4>2. RenderText(o.object.text, o.px) # NoBitmap
        BY <4>1, <2>4, BitmapIsRendered
      <4>q. QED
        BY <4>2
    <3>q. QED
      BY <3>3, <3>4 DEF EnsureTextBitmap
  <2> HIDE DEF e
  <2>7. rect = Placement(o, size)
    BY <2>1, <2>6, SizeMatters
  <2> HIDE DEF rect, size
  <2>8. p = [o EXCEPT !.placement = rect, !.placementDirty = FALSE]
    BY <1>2, <2>6 DEF PlacedAgain, e, rect
  <2> HIDE DEF p
  <2>9. /\ p.px = o.px /\ p.bitmap = o.bitmap /\ p.object = o.object /\ p.band = o.band
        /\ p.placement = rect
    BY <2>8 DEF Runtimes
  <2>10. rect.y = o.placement.y /\ rect.height = o.placement.height
    BY <2>5, <2>7
  <2>11. IsInside(rect, size)
    BY <2>1, <2>2 DEF IsInside
  <2>12. StaysIn(rect, bs[o.band])
    BY <2>10 DEF InItsBand, StaysIn
  <2>13. InItsBand(id, p, bs)
    BY <2>9, <2>12 DEF InItsBand
  <2>14. AsConfigured(p, size)
    <3>1. Placement(p, size) = rect
      BY <2>7, <2>9, PlacementOfSame
    <3>q. QED
      BY <3>1, <2>5, <2>9 DEF AsConfigured
  <2>q. QED
    BY <2>9, <2>10, <2>11, <2>13, <2>14 DEF p, size
<1>q. QED
  BY <1>1, <1>2

(* What drawing makes of objects and bands: those of A are placed again,   *)
(* and the bands of R are drawn.                                           *)
Again(objs, A) == [id \in DOMAIN objs |-> IF id \in A THEN PlacedAgain(objs[id]) ELSE objs[id]]

Redrawn(objs, bs, R) ==
    [b \in DOMAIN bs |->
        IF b \in R
        THEN [bs[b] EXCEPT !.dirty = FALSE,
                  !.drawn = {Drawing(id, PlacedAgain(objs[id])) : id \in ToSet(bs[b].ids)}]
        ELSE bs[b]]

LEMMA AgainIsRendered ==
    ASSUME source \in VideoFrames, NEW S, NEW objs \in [S -> Runtimes], NEW A
    PROVE  /\ Again(objs, A) \in [S -> Runtimes]
           /\ Rendered(objs) => Rendered(Again(objs, A))
<1>1. ASSUME NEW id \in S
      PROVE  /\ Again(objs, A)[id] \in Runtimes
             /\ objs[id].bitmap = RenderText(objs[id].object.text, objs[id].px)
                  => Again(objs, A)[id].bitmap
                       = RenderText(Again(objs, A)[id].object.text, Again(objs, A)[id].px)
  <2>1. CASE id \in A
    <3>1. Again(objs, A)[id] = PlacedAgain(objs[id])
      BY <2>1 DEF Again
    <3> DEFINE o == objs[id]
    <3>2. o \in Runtimes
      OBVIOUS
    <3> HIDE DEF o
    <3>3. /\ PlacedAgain(o) \in Runtimes
          /\ o.bitmap = RenderText(o.object.text, o.px)
               => PlacedAgain(o).bitmap = RenderText(PlacedAgain(o).object.text, PlacedAgain(o).px)
      BY <3>2, PlacedAgainIsRendered
    <3>q. QED
      BY <3>1, <3>3 DEF o
  <2>2. CASE id \notin A
    <3>1. Again(objs, A)[id] = objs[id]
      BY <2>2 DEF Again
    <3>q. QED
      BY <3>1
  <2>q. QED
    BY <2>1, <2>2
<1>2. DOMAIN Again(objs, A) = S
  BY DEF Again
<1>3. Again(objs, A) \in [S -> Runtimes]
  <2>1. Again(objs, A) = [id \in S |-> Again(objs, A)[id]]
    BY DEF Again
  <2>q. QED
    BY <2>1, <1>1
<1>q. QED
  BY <1>1, <1>2, <1>3 DEF Rendered

(* Drawing bands whose objects can all be drawn keeps the layout fitting. *)
LEMMA DrawingKeepsFits ==
    ASSUME source \in VideoFrames, NEW S \in SUBSET Ids, NEW objs \in [S -> Runtimes],
           NEW bs \in Seq(Bands), Rendered(objs), Fits(objs, bs, Size(source)),
           NEW A, NEW R \in SUBSET DOMAIN bs,
           \A id \in A : /\ id \in S /\ CanDraw(objs[id], bs[objs[id].band])
                         /\ bs[objs[id].band].dirty,
           \A b \in R : ToSet(bs[b].ids) \subseteq A
    PROVE  Fits(Again(objs, A), Redrawn(objs, bs, R), Size(source))
<1> DEFINE size == Size(source)
           gap == BandJoinGap(size)
           objs1 == Again(objs, A)
           bs1 == Redrawn(objs, bs, R)
<1>1. ASSUME NEW id \in S
      PROVE  /\ objs1[id].px = objs[id].px
             /\ objs1[id].placement.y = objs[id].placement.y
             /\ objs1[id].placement.height = objs[id].placement.height
             /\ InItsBand(id, objs1[id], bs) /\ AsConfigured(objs1[id], size)
             /\ IsInside(objs1[id].placement, size)
             /\ objs1[id].object = objs[id].object /\ objs1[id].band = objs[id].band
             /\ id \in A => objs1[id] = PlacedAgain(objs[id])
             /\ id \notin A => objs1[id] = objs[id]
  <2> DEFINE o == objs[id]
  <2>1. /\ o \in Runtimes /\ o.bitmap = RenderText(o.object.text, o.px)
        /\ InItsBand(id, o, bs) /\ AsConfigured(o, size) /\ IsInside(o.placement, size)
    BY DEF Rendered, Fits
  <2>2. CASE id \in A
    <3>1. CanDraw(o, bs[o.band]) /\ objs1[id] = PlacedAgain(o)
      BY <2>2 DEF Again
    <3> HIDE DEF o
    <3>2. LET p == PlacedAgain(o)
          IN  /\ p.px = o.px
              /\ p.placement.y = o.placement.y /\ p.placement.height = o.placement.height
              /\ InItsBand(id, p, bs) /\ AsConfigured(p, size)
              /\ IsInside(p.placement, size)
      BY <2>1, <3>1, PlacedAgainFits
    <3>3. PlacedAgain(o).object = o.object /\ PlacedAgain(o).band = o.band
      BY <2>1, PlacedAgainIsRendered
    <3>q. QED
      BY <2>2, <3>1, <3>2, <3>3 DEF o
  <2>3. CASE id \notin A
    <3>1. objs1[id] = o
      BY <2>3 DEF Again
    <3>q. QED
      BY <2>1, <2>3, <3>1
  <2>q. QED
    BY <2>2, <2>3
<1>2. DOMAIN objs1 = S /\ DOMAIN bs1 = DOMAIN bs
  BY DEF Again, Redrawn
<1>3. ASSUME NEW b \in DOMAIN bs
      PROVE  /\ bs1[b].top = bs[b].top /\ bs1[b].height = bs[b].height /\ bs1[b].ids = bs[b].ids
             /\ b \notin R => bs1[b] = bs[b]
             /\ b \in R => /\ bs1[b].dirty = FALSE
                           /\ bs1[b].drawn = {Drawing(id, PlacedAgain(objs[id])) : id \in ToSet(bs[b].ids)}
  <2>1. bs[b] \in Bands
    OBVIOUS
  <2>2. CASE b \in R
    <3> DEFINE new == {Drawing(id, PlacedAgain(objs[id])) : id \in ToSet(bs[b].ids)}
               g == bs[b]
    <3>1. bs1[b] = [g EXCEPT !.dirty = FALSE, !.drawn = new]
      BY <2>2 DEF Redrawn
    <3>2. g \in Bands
      BY <2>1
    <3> HIDE DEF new, g
    <3>3. /\ bs1[b].top = g.top /\ bs1[b].height = g.height /\ bs1[b].ids = g.ids
          /\ bs1[b].dirty = FALSE /\ bs1[b].drawn = new
      BY <3>1, <3>2 DEF Bands
    <3>q. QED
      BY <2>2, <3>3 DEF new, g
  <2>3. CASE b \notin R
    BY <2>3 DEF Redrawn
  <2>q. QED
    BY <2>2, <2>3
<1>4. Holds(objs, bs) /\ Linked(objs, bs, gap) /\ Separate(bs, gap)
  BY DEF Fits
<1>5. \A b \in DOMAIN bs : DrawnRight(objs, bs[b], size)
  BY DEF Fits
<1> HIDE DEF objs1, bs1, gap, size
<1>6. ASSUME NEW id \in DOMAIN objs1
      PROVE  /\ InItsBand(id, objs1[id], bs1) /\ AsConfigured(objs1[id], size)
             /\ IsInside(objs1[id].placement, size)
  <2> DEFINE b == objs1[id].band
             p == objs1[id].placement
  <2>1. id \in S /\ InItsBand(id, objs1[id], bs)
    BY <1>1, <1>2
  <2>2. /\ b \in DOMAIN bs /\ StaysIn(p, bs[b]) /\ \E k \in DOMAIN bs[b].ids : bs[b].ids[k] = id
    BY <2>1 DEF InItsBand
  <2>3. b \in DOMAIN bs1 /\ bs1[b].top = bs[b].top /\ bs1[b].height = bs[b].height /\ bs1[b].ids = bs[b].ids
    BY <2>2, <1>2, <1>3
  <2>4. StaysIn(p, bs1[b])
    BY <2>2, <2>3 DEF StaysIn
  <2>5. InItsBand(id, objs1[id], bs1)
    BY <2>2, <2>3, <2>4 DEF InItsBand
  <2>q. QED
    BY <2>1, <2>5, <1>1
<1>7. Holds(objs1, bs1)
  <2>1. ASSUME NEW b \in DOMAIN bs1, NEW k \in DOMAIN bs1[b].ids
        PROVE  bs1[b].ids[k] \in DOMAIN objs1 /\ objs1[bs1[b].ids[k]].band = b
    <3>1. b \in DOMAIN bs /\ bs1[b].ids = bs[b].ids
      BY <1>2, <1>3
    <3>2. bs[b].ids[k] \in S /\ objs[bs[b].ids[k]].band = b
      BY <3>1, <1>4 DEF Holds
    <3>q. QED
      BY <3>1, <3>2, <1>1, <1>2
  <2>q. QED
    BY <2>1 DEF Holds
<1>8. Linked(objs1, bs1, gap)
  <2>1. ASSUME NEW b \in DOMAIN bs1, NEW k \in DOMAIN bs1[b].ids, k # 1
        PROVE  \E j \in 1..(k - 1) :
                  Touch(objs1[bs1[b].ids[k]].placement, objs1[bs1[b].ids[j]].placement, gap)
    <3>1. b \in DOMAIN bs /\ bs1[b].ids = bs[b].ids /\ bs[b] \in Bands
      <4>1. b \in DOMAIN bs
        BY <1>2
      <4>2. bs[b] \in Bands
        BY <4>1
      <4>q. QED
        BY <4>1, <4>2, <1>3
    <3>2. PICK j \in 1..(k - 1) :
              Touch(objs[bs[b].ids[k]].placement, objs[bs[b].ids[j]].placement, gap)
      BY <2>1, <3>1, <1>4 DEF Linked
    <3>3. j \in DOMAIN bs[b].ids
      <4>1. bs[b].ids \in Seq(Ids)
        BY <3>1 DEF Bands
      <4>2. DOMAIN bs[b].ids = 1..Len(bs[b].ids) /\ Len(bs[b].ids) \in Nat
        BY <4>1, LenProperties
      <4>q. QED
        BY <3>1, <4>2
    <3>4. bs[b].ids[k] \in S /\ bs[b].ids[j] \in S
      BY <3>1, <3>3, <1>4 DEF Holds
    <3>5. /\ objs1[bs[b].ids[k]].placement.y = objs[bs[b].ids[k]].placement.y
          /\ objs1[bs[b].ids[k]].placement.height = objs[bs[b].ids[k]].placement.height
          /\ objs1[bs[b].ids[j]].placement.y = objs[bs[b].ids[j]].placement.y
          /\ objs1[bs[b].ids[j]].placement.height = objs[bs[b].ids[j]].placement.height
      BY <3>4, <1>1
    <3>q. QED
      BY <3>1, <3>2, <3>5, Zenon DEF Touch
  <2>q. QED
    BY <2>1 DEF Linked
<1>9. Separate(bs1, gap)
  BY <1>2, <1>3, <1>4, ZenonT(30) DEF Separate
<1>10. ASSUME NEW b \in DOMAIN bs1 PROVE DrawnRight(objs1, bs1[b], size)
  <2> DEFINE ids == bs[b].ids
  <2>1. b \in DOMAIN bs
    BY <1>2
  <2>2. \A k \in DOMAIN ids : ids[k] \in S /\ objs[ids[k]].band = b
    BY <2>1, <1>4 DEF Holds
  <2>3. CASE b \in R
    <3>1. /\ bs1[b].ids = ids /\ ~bs1[b].dirty /\ bs1[b].top = bs[b].top /\ bs1[b].height = bs[b].height
          /\ bs1[b].drawn = {Drawing(id, PlacedAgain(objs[id])) : id \in ToSet(ids)}
      BY <2>1, <2>3, <1>3
    <3>2. \A id \in ToSet(ids) : id \in A /\ id \in S /\ objs[id].band = b /\ objs1[id] = PlacedAgain(objs[id])
      BY <2>2, <2>3, <1>1 DEF ToSet
    <3>3. bs1[b].drawn = {Drawing(id, objs1[id]) : id \in ToSet(ids)}
      BY <3>1, <3>2
    <3>4. ASSUME NEW d \in bs1[b].drawn PROVE IsInside(d.rect, size) /\ StaysIn(d.rect, bs1[b])
      <4>1. PICK id \in ToSet(ids) : d = Drawing(id, objs1[id])
        BY <3>3
      <4>2. d.rect = objs1[id].placement
        BY <4>1 DEF Drawing
      <4>3. IsInside(objs1[id].placement, size) /\ StaysIn(objs1[id].placement, bs[b])
        BY <3>2, <1>1 DEF InItsBand
      <4>q. QED
        BY <4>2, <4>3, <3>1 DEF StaysIn
    <3>5. \A id : Drawing(id, objs1[id]).id = id
      BY DEF Drawing
    <3>6. /\ \A d \in bs1[b].drawn : \E k \in DOMAIN ids : ids[k] = d.id
          /\ \A k \in DOMAIN ids : \E d \in bs1[b].drawn : d.id = ids[k]
          /\ \A c, d \in bs1[b].drawn : c.id = d.id => c = d
          /\ \A k \in DOMAIN ids : Drawing(ids[k], objs1[ids[k]]) \in bs1[b].drawn
      <4>1. \A id : id \in ToSet(ids) <=> \E k \in DOMAIN ids : ids[k] = id
        BY DEF ToSet
      <4> HIDE DEF ids
      <4>2. \A d \in bs1[b].drawn : d.id \in ToSet(ids) /\ d = Drawing(d.id, objs1[d.id])
        BY <3>3, <3>5
      <4>3. \A id \in ToSet(ids) : Drawing(id, objs1[id]) \in bs1[b].drawn
        BY <3>3
      <4>4. \A k \in DOMAIN ids : ids[k] \in ToSet(ids)
        BY <4>1
      <4>5. \A k \in DOMAIN ids : Drawing(ids[k], objs1[ids[k]]) \in bs1[b].drawn
        BY <4>3, <4>4
      <4>6. \A k \in DOMAIN ids : \E d \in bs1[b].drawn : d.id = ids[k]
        BY <4>5, <3>5
      <4>7. \A c, d \in bs1[b].drawn : c.id = d.id => c = d
        BY <4>2
      <4>8. \A d \in bs1[b].drawn : \E k \in DOMAIN ids : ids[k] = d.id
        BY <4>1, <4>2
      <4>q. QED
        BY <4>5, <4>6, <4>7, <4>8
    <3>q. QED
      BY <3>1, <3>4, <3>6 DEF DrawnRight
  <2>4. CASE b \notin R
    <3>1. bs1[b] = bs[b]
      BY <2>1, <2>4, <1>3
    <3>2. ASSUME ~bs[b].dirty, NEW k \in DOMAIN ids PROVE objs1[ids[k]] = objs[ids[k]]
      BY <3>2, <2>2, <1>1
    <3>q. QED
      BY <2>1, <3>1, <3>2, <1>5 DEF DrawnRight
  <2>q. QED
    BY <2>3, <2>4
<1>q. QED
  BY <1>6, <1>7, <1>8, <1>9, <1>10 DEF Fits, gap, objs1, bs1, size

(* Drawing keeps what the bands own and name.                            *)
LEMMA RedrawnIsTyped ==
    ASSUME source \in VideoFrames, NEW S \in SUBSET Ids, NEW objs \in [S -> Runtimes],
           NEW bs \in Seq(Bands), Known(S, bs), NEW R
    PROVE  /\ Redrawn(objs, bs, R) \in Seq(Bands) /\ Known(S, Redrawn(objs, bs, R))
           /\ \A inUse : Owned(bs, inUse) => Owned(Redrawn(objs, bs, R), inUse)
           /\ bs = <<>> => Redrawn(objs, bs, R) = <<>>
<1> DEFINE bs1 == Redrawn(objs, bs, R)
<1>1. DOMAIN bs = 1..Len(bs) /\ Len(bs) \in Nat /\ DOMAIN bs1 = DOMAIN bs
  BY LenProperties DEF Redrawn
<1>2. ASSUME NEW b \in DOMAIN bs
      PROVE  bs1[b] \in Bands /\ bs1[b].ids = bs[b].ids /\ bs1[b].memory = bs[b].memory
  <2> DEFINE g == bs[b]
             new == {Drawing(id, PlacedAgain(objs[id])) : id \in ToSet(g.ids)}
  <2>1. g \in Bands
    OBVIOUS
  <2>2. new \subseteq Pictures
    <3>1. ASSUME NEW id \in ToSet(g.ids) PROVE Drawing(id, PlacedAgain(objs[id])) \in Pictures
      <4> DEFINE p == PlacedAgain(objs[id])
                 o == objs[id]
      <4>1. id \in S /\ id \in Ids /\ o \in Runtimes
        BY DEF Known
      <4>2. p \in Runtimes
        <5> HIDE DEF o
        <5>1. PlacedAgain(o) \in Runtimes
          BY <4>1, PlacedAgainIsRendered
        <5>q. QED
          BY <5>1 DEF o
      <4> HIDE DEF p
      <4>3. /\ p.bitmap.text \in DOMAIN Glyphs \union {NoText} /\ p.object.color \in STRING
            /\ p.px \in Nat \ {0} /\ p.placement \in Rects
        BY <4>2 DEF Runtimes, Bitmaps, TextObjects
      <4>4. Drawing(id, p) \in Pictures
        BY <4>1, <4>3 DEF Drawing, Pictures
      <4>q. QED
        BY <4>4 DEF p
    <3> HIDE DEF g
    <3>q. QED
      BY <3>1
  <2>3. bs1[b] = IF b \in R THEN [g EXCEPT !.dirty = FALSE, !.drawn = new] ELSE g
    BY DEF Redrawn
  <2> HIDE DEF g, new, bs1
  <2>4. CASE b \in R
    <3>1. bs1[b] = [g EXCEPT !.dirty = FALSE, !.drawn = new]
      BY <2>3, <2>4
    <3>2. bs1[b] \in Bands /\ bs1[b].ids = g.ids /\ bs1[b].memory = g.memory
      BY <3>1, <2>1, <2>2 DEF Bands
    <3>q. QED
      BY <3>2 DEF g
  <2>5. CASE b \notin R
    BY <2>1, <2>3, <2>5 DEF g
  <2>q. QED
    BY <2>4, <2>5
<1>3. bs1 \in Seq(Bands)
  <2>1. bs1 = [b \in 1..Len(bs) |-> bs1[b]]
    BY <1>1 DEF Redrawn
  <2>2. \A b \in 1..Len(bs) : bs1[b] \in Bands
    BY <1>1, <1>2
  <2> HIDE DEF bs1
  <2>q. QED
    BY <2>1, <2>2, <1>1
<1> HIDE DEF bs1
<1>4. Known(S, bs1)
  BY <1>1, <1>2 DEF Known
<1>5. ASSUME NEW inUse, Owned(bs, inUse) PROVE Owned(bs1, inUse)
  <2>1. \A b \in DOMAIN bs1 : Reset(bs1[b].memory) = bs1[b].memory
    BY <1>1, <1>2, <1>5 DEF Owned
  <2>2. \A t : {b \in DOMAIN bs1 : t \in bs1[b].memory} = {b \in DOMAIN bs : t \in bs[b].memory}
    BY <1>1, <1>2
  <2>q. QED
    BY <2>1, <2>2, <1>5 DEF Owned
<1>6. bs = <<>> => bs1 = <<>>
  <2>1. ASSUME bs = <<>> PROVE bs1 = <<>>
    <3>1. DOMAIN bs1 = {}
      BY <2>1, <1>1
    <3>q. QED
      BY <3>1, <1>3, EmptySeq, LenProperties
  <2>q. QED
    BY <2>1
<1>q. QED
  BY <1>3, <1>4, <1>5, <1>6 DEF bs1
-----------------------------------------------------------------------------
(* The layout composite() draws with, made again or not.                   *)
LayoutOK(lay) ==
    /\ lay.objects \in [DOMAIN objects -> Runtimes] /\ Rendered(lay.objects)
    /\ lay.bands \in Seq(Bands) /\ Known(DOMAIN objects, lay.bands)
    /\ lay.kernel \in [Things -> Nat] /\ Owned(lay.bands, lay.kernel)
    /\ lay.size \in Sizes /\ lay.torn \in BOOLEAN /\ lay.dirty \in BOOLEAN
    /\ order = <<>> => lay.bands = <<>>
    /\ order # <<>> => ~lay.dirty /\ lay.size = Size(source)
    /\ order # <<>> /\ ~lay.torn => Fits(lay.objects, lay.bands, Size(source))

(* Made again or kept, the layout is fit to draw with.                   *)
LEMMA RelayoutKeeps ==
    ASSUME OsdInv, NEW lay \in Relayout
    PROVE  LayoutOK(lay)
<1> USE DEF OsdInv
<1>1. Registered /\ source \in VideoFrames /\ OsdTypeOK
  BY DEF OsdTypeOK
<1>2. CASE ~NeedsLayout
  <2>1. lay = [objects |-> objects, bands |-> bands, kernel |-> inKernel, torn |-> torn,
               dirty |-> layoutDirty, size |-> bandSize]
    BY <1>2 DEF Relayout
  <2>2. /\ lay.objects = objects /\ lay.bands = bands /\ lay.kernel = inKernel /\ lay.size = bandSize
        /\ (lay.torn <=> torn) /\ (lay.dirty <=> layoutDirty)
        /\ lay.torn \in BOOLEAN /\ lay.dirty \in BOOLEAN
    BY <2>1, Zenon DEF OsdTypeOK
  <2>3. order # <<>> => ~layoutDirty /\ bandSize = Size(source)
    BY <1>2 DEF NeedsLayout, Size
  <2>4. order # <<>> /\ ~lay.torn => Fits(lay.objects, lay.bands, Size(source))
    BY <2>2, <2>3
  <2>5. order # <<>> => ~lay.dirty /\ lay.size = Size(source)
    BY <2>2, <2>3
  <2>q. QED
    BY <1>1, <2>2, <2>4, <2>5 DEF LayoutOK, OsdTypeOK, Registered
<1>3. CASE NeedsLayout
  <2>1. WithoutPlace = {}
    BY <1>3 DEF Relayout
  <2>2. PICK a \in Allocate(Nodes) : lay = Relaid(Ensured, Grouped(Ensured), a)
    BY <1>3, <2>1 DEF Relayout
  <2>3. lay.kernel \in [Things -> Nat] /\ Owned(lay.bands, lay.kernel) /\ lay.bands \in Seq(Bands)
    BY <2>1, <2>2, RelaidOwns
  <2>4. /\ lay.objects \in [DOMAIN objects -> Runtimes] /\ Rendered(lay.objects)
        /\ Fits(lay.objects, lay.bands, Size(source))
    BY <2>1, <2>2, RelaidFits
  <2>5. lay.torn = FALSE /\ lay.dirty = FALSE /\ lay.size = Size(source)
    BY <2>2 DEF Relaid, Size
  <2>6. Size(source) \in Sizes
    BY <1>1 DEF Size, Sizes, VideoFrames
  <2>7. Known(DOMAIN objects, lay.bands)
    <3>1. Holds(lay.objects, lay.bands)
      BY <2>4 DEF Fits
    <3>q. QED
      BY <2>4, <3>1 DEF Holds, Known, ToSet
  <2>8. order # <<>>
    BY <1>3 DEF NeedsLayout
  <2> HIDE DEF OsdInv
  <2>q. QED
    BY <2>3, <2>4, <2>5, <2>6, <2>7, <2>8 DEF LayoutOK
<1>q. QED
  BY <1>2, <1>3

(* The objects placed again and the bands drawn are those of dirty bands.  *)
LEMMA DrawingKeepsLayout ==
    ASSUME OsdTypeOK, NEW lay, LayoutOK(lay), NEW n \in Int, NEW m \in Int, n <= m,
           NEW part, \A b \in DOMAIN lay.bands : b <= m => Blocked(lay, b) = 0,
           part = {} \/ \E b \in DOMAIN lay.bands : part = BeforeBlock(lay, b)
    PROVE  LET objs1 == ObjectsAfter(lay, m, part)
               bs1 == BandsAfter(lay, n)
           IN  /\ objs1 \in [DOMAIN objects -> Runtimes] /\ Rendered(objs1)
               /\ bs1 \in Seq(Bands) /\ Known(DOMAIN objects, bs1) /\ Owned(bs1, lay.kernel)
               /\ order = <<>> => bs1 = <<>>
               /\ order # <<>> /\ ~lay.torn => Fits(objs1, bs1, Size(source))
<1> DEFINE S == DOMAIN objects
           objs == lay.objects
           bs == lay.bands
           drawn == UNION {ToSet(bs[b].ids) : b \in {k \in DOMAIN bs : k <= m /\ bs[k].dirty}}
           A == drawn \union part
           R == {b \in DOMAIN bs : b <= n /\ bs[b].dirty}
<1>1. source \in VideoFrames /\ S \in SUBSET Ids
  BY DEF OsdTypeOK, Registered
<1>2. objs \in [S -> Runtimes] /\ bs \in Seq(Bands) /\ Known(S, bs) /\ Rendered(objs)
  BY DEF LayoutOK
<1>3. DOMAIN bs = 1..Len(bs) /\ Len(bs) \in Nat
  BY <1>2, LenProperties
<1>4. ObjectsAfter(lay, m, part) = Again(objs, A)
  BY DEF ObjectsAfter, Again
<1>5. BandsAfter(lay, n) = Redrawn(objs, bs, R)
  <2>1. \A b \in DOMAIN bs : (b > n \/ ~bs[b].dirty) <=> b \notin R
    BY <1>3
  <2> HIDE DEF R
  <2>q. QED
    BY <2>1 DEF BandsAfter, Redrawn
<1>6. ASSUME NEW id \in A
      PROVE  \E b \in DOMAIN bs : /\ bs[b].dirty /\ id \in ToSet(bs[b].ids)
                                 /\ CanDraw(objs[id], bs[b])
  <2>1. CASE id \in drawn
    <3>1. PICK b \in DOMAIN bs : b <= m /\ bs[b].dirty /\ id \in ToSet(bs[b].ids)
      BY <2>1
    <3>2. Blocked(lay, b) = 0
      BY <3>1
    <3>3. bs[b].ids \in Seq(Ids)
      <4>1. bs[b] \in Bands
        BY <1>2
      <4>q. QED
        BY <4>1 DEF Bands
    <3>4. PICK k \in DOMAIN bs[b].ids : bs[b].ids[k] = id
      BY <3>1 DEF ToSet
    <3>5. CanDraw(objs[id], bs[b])
      BY <3>1, <3>2, <3>3, <3>4, DrawableBeforeBlock, SMTT(30)
    <3>q. QED
      BY <3>1, <3>5
  <2>2. CASE id \in part
    <3>1. PICK b \in DOMAIN bs : part = BeforeBlock(lay, b)
      BY <2>2
    <3>2. PICK k \in 1..(Blocked(lay, b) - 1) : id = bs[b].ids[k]
      BY <2>2, <3>1 DEF BeforeBlock
    <3>3. bs[b].dirty
      <4>1. ASSUME ~bs[b].dirty PROVE FALSE
        <5>1. Blocked(lay, b) = 0
          BY <4>1 DEF Blocked
        <5>q. QED
          BY <5>1, <3>2
      <4>q. QED
        BY <4>1
    <3>4. bs[b].ids \in Seq(Ids)
      <4>1. bs[b] \in Bands
        BY <1>2
      <4>q. QED
        BY <4>1 DEF Bands
    <3>5. k \in DOMAIN bs[b].ids /\ CanDraw(objs[id], bs[b])
      BY <3>2, <3>3, <3>4, DrawableBeforeBlock
    <3>q. QED
      BY <3>2, <3>3, <3>5 DEF ToSet
  <2>q. QED
    BY <2>1, <2>2
<1>7. \A b \in R : ToSet(bs[b].ids) \subseteq A
  <2>1. \A b \in R : b \in DOMAIN bs /\ b <= m /\ bs[b].dirty
    BY <1>3
  <2>q. QED
    BY <2>1
<1>8. R \in SUBSET DOMAIN bs
  OBVIOUS
<1>9. Owned(bs, lay.kernel) /\ (order = <<>> => bs = <<>>)
  BY DEF LayoutOK
<1> HIDE DEF A, R, objs, bs, S, drawn
<1>10. Again(objs, A) \in [S -> Runtimes] /\ Rendered(Again(objs, A))
  BY <1>1, <1>2, AgainIsRendered
<1>11. /\ Redrawn(objs, bs, R) \in Seq(Bands) /\ Known(S, Redrawn(objs, bs, R))
       /\ Owned(Redrawn(objs, bs, R), lay.kernel)
       /\ order = <<>> => Redrawn(objs, bs, R) = <<>>
  BY <1>1, <1>2, <1>9, RedrawnIsTyped
<1>12. ASSUME order # <<>>, ~lay.torn PROVE Fits(Again(objs, A), Redrawn(objs, bs, R), Size(source))
  <2>1. Fits(objs, bs, Size(source))
    BY <1>12 DEF LayoutOK, objs, bs
  <2>2. ASSUME NEW id \in A
        PROVE  id \in S /\ CanDraw(objs[id], bs[objs[id].band]) /\ bs[objs[id].band].dirty
    <3>1. PICK b \in DOMAIN bs : bs[b].dirty /\ id \in ToSet(bs[b].ids) /\ CanDraw(objs[id], bs[b])
      BY <1>6
    <3>2. objs[id].band = b
      BY <3>1, <2>1 DEF Fits, Holds, ToSet
    <3>q. QED
      BY <3>1, <3>2, <1>2 DEF Known
  <2>q. QED
    BY <1>1, <1>2, <1>7, <1>8, <2>1, <2>2, DrawingKeepsFits
<1>q. QED
  BY <1>4, <1>5, <1>10, <1>11, <1>12 DEF S, objs, bs
-----------------------------------------------------------------------------
(* The frames. A valid NV12 frame has its last byte in its buffer: rows    *)
(* fit in the stride, and half of the rows of a chroma plane follow a full *)
(* luma plane.                                                             *)
LEMMA LastRowFits ==
    ASSUME NEW s \in Nat, NEW hs \in Nat, NEW w \in Nat, NEW h \in Nat, w <= s, h <= hs, hs % 2 = 0
    PROVE  s * hs + (h \div 2 - 1) * s + w <= (s * hs * 3) \div 2
<1> DEFINE k == hs \div 2
           q == h \div 2
<1>1. k \in Nat /\ q \in Nat /\ hs = 2 * k /\ q <= k
  OBVIOUS
<1> HIDE DEF k, q
<1> DEFINE a == s * k
           r == k - q
<1>2. a \in Nat /\ r \in Nat
  BY <1>1
<1>3. s * hs = 2 * a /\ s * hs * 3 = 6 * a
  BY <1>1
<1>4. r * s \in Nat /\ q * s \in Int /\ r * s = k * s - q * s /\ k * s = a
  BY <1>1, <1>2
<1>5. (q - 1) * s = q * s - s
  BY <1>1
<1> DEFINE qs == q * s
           rs == r * s
<1>6. rs \in Nat /\ qs \in Int /\ rs = a - qs
  BY <1>4
<1> HIDE DEF a, qs, rs
<1>7. (6 * a) \div 2 = 3 * a
  BY <1>2
<1>8. 2 * a + (qs - s) + w <= 3 * a
  BY <1>2, <1>6
<1>9. s * hs + (q - 1) * s + w = 2 * a + (qs - s) + w
  BY <1>3, <1>5 DEF qs
<1>q. QED
  BY <1>3, <1>7, <1>8, <1>9 DEF q

LEMMA ValidFrameInBuffer ==
    ASSUME NEW frame \in VideoFrames, frame.format = "NV12", ValidateCapacity(frame),
           ValidateStrideAlignment(frame, DefaultByteAlignment)
    PROVE  InBuffer(frame)
<1> DEFINE s == EffectiveStride(frame)
           hs == EffectiveHeightStride(frame)
           w == frame.width
           h == frame.height
<1>1. s \in Nat /\ hs \in Nat /\ w \in Nat /\ h \in Nat /\ frame.capacity \in Nat
  BY DEF VideoFrames, EffectiveStride, EffectiveHeightStride
<1>2. MinDimensionAlignment(frame.format) = 2
  BY DEF MinDimensionAlignment
<1>3. w <= s /\ h <= hs /\ hs % 2 = 0
  <2>1. s >= w /\ hs >= h /\ hs % 2 = 0
    BY <1>2 DEF ValidateStrideAlignment
  <2> HIDE DEF s, hs, w, h
  <2>q. QED
    BY <2>1, <1>1
<1>4. RequiredSize(frame) = (s * hs * 3) \div 2
  BY DEF RequiredSize, BufferSizeFor
<1>5. (s * hs * 3) \div 2 <= frame.capacity
  BY <1>4 DEF ValidateCapacity
<1>6. LastByte(frame) = s * hs + (h \div 2 - 1) * s + w
  BY DEF LastByte, PlaneOffset
<1> HIDE DEF s, hs, w, h
<1>7. s * hs + (h \div 2 - 1) * s + w <= (s * hs * 3) \div 2
  BY <1>1, <1>3, LastRowFits
<1> DEFINE last == s * hs + (h \div 2 - 1) * s + w
           required == (s * hs * 3) \div 2
<1>8. last \in Int /\ required \in Int
  BY <1>1
<1> HIDE DEF last, required
<1>9. last <= frame.capacity
  BY <1>1, <1>5, <1>7, <1>8 DEF last, required
<1>q. QED
  BY <1>6, <1>9 DEF InBuffer, last

(* The strides that RGA computes.                                        *)
LEMMA StridesAreNat ==
    ASSUME NEW format, NEW v \in Nat
    PROVE  AlignedStride(format, v, DefaultByteAlignment) \in Nat /\ AlignedHeightStride(format, v) \in Nat
<1> DEFINE bpp == BytesPerPixelForStride(format)
           d == MinDimensionAlignment(format)
           even == AlignUp(v, d)
           bytes == AlignUp(even * bpp, 16)
<1>1. bpp \in {0, 1, 2, 4} /\ d \in {1, 2}
  BY DEF BytesPerPixelForStride, MinDimensionAlignment
<1>2. \A n \in Nat : AlignUp(n, 1) \in Nat /\ AlignUp(n, 2) \in Nat /\ AlignUp(n, 16) \in Nat
  BY DEF AlignUp
<1> HIDE DEF bpp, d
<1>3. even \in Nat
  BY <1>1, <1>2
<1> HIDE DEF even
<1>4. even * bpp \in Nat
  BY <1>1, <1>3
<1>5. bytes \in Nat
  BY <1>2, <1>4
<1> HIDE DEF bytes
<1>6. bpp = 0 \/ (bytes + bpp - 1) \div bpp \in Nat
  <2>1. CASE bpp = 0
    BY <2>1
  <2>2. CASE bpp = 1
    BY <2>2, <1>5
  <2>3. CASE bpp = 2
    BY <2>3, <1>5
  <2>4. CASE bpp = 4
    BY <2>4, <1>5
  <2>q. QED
    BY <1>1, <2>1, <2>2, <2>3, <2>4
<1>7. bpp = 0 \/ AlignUp((bytes + bpp - 1) \div bpp, d) \in Nat
  BY <1>1, <1>2, <1>6
<1>8. AlignedStride(format, v, DefaultByteAlignment)
      = IF bpp = 0 THEN even ELSE AlignUp((bytes + bpp - 1) \div bpp, d)
  BY DEF AlignedStride, DefaultByteAlignment, bpp, d, even, bytes
<1>9. AlignedHeightStride(format, v) = even
  BY DEF AlignedHeightStride, even, d
<1>q. QED
  BY <1>3, <1>7, <1>8, <1>9

(* A call of RGA leaves a frame, of the same format and buffer.            *)
LEMMA RgaLeavesFrame ==
    ASSUME NEW src \in VideoFrames, NEW dst \in VideoFrames, NEW op \in Operations
    PROVE  LET made == Rga(src, dst, op).dst
           IN  /\ made \in VideoFrames /\ made.format = dst.format
               /\ CallIsValid(src, dst, op) =>
                     LET g == ComputeOutputGeometry(src, dst, op)
                     IN  made.width = g.width /\ made.height = g.height
<1> DEFINE g == ComputeOutputGeometry(src, dst, op)
           applied == ApplyOutputGeometry(dst, g)
           laid == NormalizeDstLayout(applied)
<1>1. g.width \in Nat /\ g.height \in Nat
  <2> DEFINE window == SourceWindow(src, op)
             ofDst == op.op = "Resize" \/ (/\ op.op = "Auto" /\ ~HasCrop(op) /\ op.rotation = 0
                                           /\ dst.width > 0 /\ dst.height > 0)
             w == IF ofDst /\ dst.width > 0 THEN dst.width ELSE window.width
             h == IF ofDst /\ dst.height > 0 THEN dst.height ELSE window.height
  <2>1. window.width \in Nat /\ window.height \in Nat
    <3>1. /\ src.width \in Nat /\ src.height \in Nat
          /\ op.crop.width \in Nat /\ op.crop.height \in Nat
      BY DEF VideoFrames, Operations
    <3>q. QED
      BY <3>1 DEF SourceWindow
  <2>2. dst.width \in Nat /\ dst.height \in Nat
    BY DEF VideoFrames
  <2> HIDE DEF window, ofDst
  <2>3. w \in Nat /\ h \in Nat
    BY <2>1, <2>2
  <2>4. g = IF op.rotation \in {90, 270} THEN [width |-> h, height |-> w] ELSE [width |-> w, height |-> h]
    BY DEF ComputeOutputGeometry, window, ofDst
  <2> HIDE DEF w, h, g
  <2>q. QED
    BY <2>3, <2>4
<1> HIDE DEF g
<1>2. /\ applied \in VideoFrames /\ applied.format = dst.format
      /\ applied.width = g.width /\ applied.height = g.height
  <2> DEFINE stride == IF dst.stride = dst.width THEN 0 ELSE dst.stride
             high == IF dst.heightStride = dst.height THEN 0 ELSE dst.heightStride
  <2>1. stride \in Nat /\ high \in Nat
    BY DEF VideoFrames
  <2>2. applied = [dst EXCEPT !.width = g.width, !.height = g.height, !.stride = stride,
                              !.heightStride = high]
    BY DEF ApplyOutputGeometry, VideoFrames
  <2> HIDE DEF stride, high, applied
  <2>q. QED
    BY <2>1, <2>2, <1>1 DEF VideoFrames
<1> HIDE DEF applied
<1>3. /\ laid \in VideoFrames /\ laid.format = dst.format
      /\ laid.width = g.width /\ laid.height = g.height
  <2> DEFINE stride == IF applied.stride < applied.width \/ applied.stride = 0
                       THEN AlignedStride(applied.format, applied.width, DefaultByteAlignment)
                       ELSE applied.stride
             high == IF applied.heightStride < applied.height \/ applied.heightStride = 0
                     THEN AlignedHeightStride(applied.format, applied.height)
                     ELSE applied.heightStride
  <2>1. applied.width \in Nat /\ applied.height \in Nat /\ applied.stride \in Nat /\ applied.heightStride \in Nat
    BY <1>2 DEF VideoFrames
  <2>2. stride \in Nat /\ high \in Nat
    BY <2>1, StridesAreNat
  <2>3. laid = [applied EXCEPT !.stride = stride, !.heightStride = high]
    BY <1>2 DEF NormalizeDstLayout, VideoFrames
  <2> HIDE DEF stride, high, laid
  <2>q. QED
    BY <2>2, <2>3, <1>2 DEF VideoFrames
<1> HIDE DEF laid
<1>4. Rga(src, dst, op).dst = IF CallIsValid(src, dst, op) THEN laid ELSE dst
  BY DEF Rga, OutputLayout, laid, applied, g
<1>q. QED
  BY <1>3, <1>4 DEF g
-----------------------------------------------------------------------------
(* The base copy of composite(): it stays in its buffers if it is accepted,*)
(* as the source has an aligned layout whenever a caller has a frame.      *)
LEMMA CopyStaysInBuffers ==
    ASSUME source \in VideoFrames, destination \in VideoFrames,
           source.format = "NV12", destination.format = "NV12",
           ValidateStrideAlignment(source, DefaultByteAlignment)
    PROVE  LET base == Copy(source, destination)
           IN  /\ base.dst \in VideoFrames /\ base.accepted \in BOOLEAN
               /\ base.accepted =>
                     /\ InBuffer(source) /\ InBuffer(base.dst)
                     /\ source.width = base.dst.width /\ source.height = base.dst.height
<1> DEFINE op == [op |-> "Copy", rotation |-> 0, crop |-> NoCrop]
           laid == OutputLayout(source, destination, op)
           made == Rga(source, destination, op)
<1>1. op \in Operations /\ ~HasCrop(op) /\ op.op = "Copy" /\ op.rotation = 0
  <2>1. NoCrop \in [x : Nat, y : Nat, width : Nat, height : Nat] /\ ~(NoCrop.width > 0)
    BY DEF NoCrop
  <2>2. op.op = "Copy" /\ op.rotation = 0 /\ op.crop = NoCrop
    OBVIOUS
  <2>3. op \in Operations
    <3>1. ASSUME NEW crop \in [x : Nat, y : Nat, width : Nat, height : Nat]
          PROVE  [op |-> "Copy", rotation |-> 0, crop |-> crop] \in Operations
      BY DEF Operations
    <3>q. QED
      BY <2>1, <3>1
  <2>q. QED
    BY <2>1, <2>2, <2>3 DEF HasCrop
<1>2. Copy(source, destination) = made
  BY DEF Copy
<1> HIDE DEF op
<1>3. /\ made.dst \in VideoFrames /\ made.dst.format = "NV12"
      /\ CallIsValid(source, destination, op) =>
            LET g == ComputeOutputGeometry(source, destination, op)
            IN  made.dst.width = g.width /\ made.dst.height = g.height
  BY <1>1, RgaLeavesFrame
<1>4. made.accepted \in BOOLEAN
  <2>1. LayoutIsValid(source, laid, op) \in BOOLEAN
    BY Zenon DEF LayoutIsValid
  <2>q. QED
    BY <2>1, Zenon DEF Rga
<1>5. ASSUME made.accepted
      PROVE  /\ InBuffer(source) /\ InBuffer(made.dst)
             /\ source.width = made.dst.width /\ source.height = made.dst.height
  <2>1. CallIsValid(source, destination, op)
    BY <1>5, Zenon DEF Rga
  <2>2. made.dst = laid /\ LayoutIsValid(source, laid, op)
    BY <1>5, <2>1, Zenon DEF Rga
  <2>3. LET g == ComputeOutputGeometry(source, destination, op)
        IN  g.width = source.width /\ g.height = source.height
    BY <1>1 DEF ComputeOutputGeometry, SourceWindow
  <2> HIDE DEF made, laid
  <2>4. ValidateCapacity(source) /\ ValidateCapacity(laid) /\ ValidateStrideAlignment(laid, DefaultByteAlignment)
    BY <2>2, Zenon DEF LayoutIsValid
  <2>5. InBuffer(source)
    BY <2>4, ValidFrameInBuffer
  <2>6. InBuffer(made.dst)
    BY <2>2, <2>4, <1>3, ValidFrameInBuffer
  <2>q. QED
    BY <1>3, <2>1, <2>3, <2>5, <2>6
<1>q. QED
  BY <1>2, <1>3, <1>4, <1>5

(* RGA takes every band before the one it refuses.                         *)
LEMMA BandsTaken ==
    ASSUME NEW lay, lay.bands \in Seq(Bands), NEW output
    PROVE  LET refused == SelectInSeq([b \in DOMAIN lay.bands |-> b], LAMBDA b : ~Takes(lay, b, output))
           IN  /\ refused \in DOMAIN lay.bands \union {0}
               /\ \A b \in DOMAIN lay.bands :
                     refused = 0 \/ b < refused => Takes(lay, b, output)
<1> DEFINE bs == lay.bands
           seq == [b \in DOMAIN bs |-> b]
           I == {b \in 1..Len(seq) : ~Takes(lay, seq[b], output)}
           first == IF I # {} THEN Min(I) ELSE 0
<1>1. SelectInSeq(seq, LAMBDA b : ~Takes(lay, b, output)) = first
  BY DEF SelectInSeq
<1>2. DOMAIN bs = 1..Len(bs) /\ Len(bs) \in Nat
  BY LenProperties
<1>3. Len(seq) = Len(bs)
  <2>1. DOMAIN seq = 1..Len(bs)
    BY <1>2
  <2>2. seq \in Seq(Nat)
    BY <1>2
  <2> HIDE DEF seq
  <2>q. QED
    BY <2>1, <2>2, <1>2, LenProperties
<1>4. I = {b \in DOMAIN bs : ~Takes(lay, b, output)}
  <2>1. \A b \in DOMAIN bs : seq[b] = b
    OBVIOUS
  <2> HIDE DEF seq
  <2>q. QED
    BY <2>1, <1>2, <1>3
<1>5. I \in SUBSET (Nat \ {0}) /\ I \subseteq DOMAIN bs
  BY <1>2, <1>4
<1>6. first \in I \union {0} /\ (first = 0 <=> I = {}) /\ \A b \in I : first <= b
  <2> HIDE DEF I
  <2>q. QED
    BY <1>5, FirstPlace
<1> HIDE DEF first
<1>7. ASSUME NEW b \in DOMAIN bs, first = 0 \/ b < first PROVE Takes(lay, b, output)
  <2>1. b \notin I
    <3> HIDE DEF I
    <3>q. QED
      BY <1>2, <1>5, <1>6, <1>7
  <2>q. QED
    BY <2>1, <1>4
<1>8. first \in DOMAIN bs \union {0}
  <2> HIDE DEF I
  <2>q. QED
    BY <1>5, <1>6
<1>q. QED
  BY <1>1, <1>7, <1>8
-----------------------------------------------------------------------------
(* The invariant, action by action. Without bands nothing is held.         *)
LEMMA NoBands ==
    ASSUME NEW inUse, \A t \in Things : inUse[t] = 0, NEW S
    PROVE  /\ <<>> \in Seq(Bands) /\ Known(S, <<>>) /\ Owned(<<>>, inUse)
           /\ DOMAIN <<>> = {}
<1>1. \A t : {b \in DOMAIN <<>> : t \in (<<>>)[b].memory} = {}
  OBVIOUS
<1>2. Cardinality({}) = 0
  BY FS_EmptySet
<1>q. QED
  BY <1>1, <1>2 DEF Known, Owned

(* Nor is any object registered.                                         *)
LEMMA NothingRegistered ==
    ASSUME objects' = <<>>, order' = <<>>
    PROVE  Registered' /\ Rendered(objects')
<1>1. objects' \in [DOMAIN objects' -> Runtimes] /\ DOMAIN objects' = {}
  OBVIOUS
<1>2. order' \in Seq(Ids) /\ DOMAIN order' = {}
  OBVIOUS
<1>q. QED
  BY <1>1, <1>2 DEF Registered, Rendered

LEMMA OsdStarts == OsdInit => OsdInv
<1> SUFFICES ASSUME OsdInit PROVE OsdInv
  OBVIOUS
<1> USE DEF OsdInit
<1>1. Nothing \in [Things -> Nat] /\ \A t \in Things : Nothing[t] = 0
  BY DEF Nothing
<1>2. /\ bands \in Seq(Bands) /\ Known(DOMAIN objects, bands) /\ Owned(bands, inKernel)
  BY <1>1, NoBands
<1>3. Registered /\ Rendered(objects)
  <2>1. objects \in [DOMAIN objects -> Runtimes] /\ DOMAIN objects = {}
    OBVIOUS
  <2>2. order \in Seq(Ids) /\ DOMAIN order = {}
    OBVIOUS
  <2>q. QED
    BY <2>1, <2>2 DEF Registered, Rendered
<1>4. NoFrame \in VideoFrames /\ NoSize \in Sizes
  BY DEF NoFrame, NoSize, Sizes, VideoFrames, PixelFormats
<1>5. OsdTypeOK
  BY <1>1, <1>2, <1>3, <1>4 DEF OsdTypeOK
<1>6. FreshInv
  BY DEF FreshInv
<1>q. QED
  BY <1>2, <1>3, <1>5, <1>6 DEF OsdInv

LEMMA InitializeKeeps ==
    ASSUME OsdInv, Initialize PROVE OsdInv'
<1> USE DEF Initialize, callers
<1>1. OsdTypeOK /\ Owned(bands, inKernel)
  BY DEF OsdInv
<1>2. \A t \in Things : inKernel'[t] = 0
  <2>1. ASSUME NEW t \in Things PROVE ResetAll(inKernel, MemoriesOf(bands))[t] = 0
    <3>1. Len(bands) \in Nat /\ DOMAIN bands = 1..Len(bands)
      BY <1>1, LenProperties DEF OsdTypeOK
    <3>2. Cardinality({b \in DOMAIN bands : t \in bands[b].memory}) \in Nat
      BY <3>1, CountIsNat
    <3>q. QED
      BY <1>1, <3>2, AllGivenBack
  <2>q. QED
    BY <2>1
<1>3. inKernel' \in [Things -> Nat]
  BY <1>2 DEF ResetAll
<1>4. bands' \in Seq(Bands) /\ Known(DOMAIN objects', bands') /\ Owned(bands', inKernel')
  BY <1>2, NoBands
<1>5. Registered' /\ Rendered(objects')
  BY NothingRegistered
<1>6. NoSize \in Sizes
  BY DEF NoSize, Sizes
<1>7. OsdTypeOK'
  BY <1>1, <1>3, <1>4, <1>5, <1>6 DEF OsdTypeOK
<1>8. FreshInv'
  BY DEF FreshInv
<1>9. source # NoFrame => ValidateStrideAlignment(source, DefaultByteAlignment)
  BY DEF OsdInv
<1>q. QED
  BY <1>4, <1>5, <1>7, <1>8, <1>9 DEF OsdInv

(* A new object makes the layout dirty.                                  *)
LEMMA AddTextObjectKeeps ==
    ASSUME OsdInv, NEW id \in Ids, NEW c \in Objects[id], AddTextObject(id, c)
    PROVE  OsdInv'
<1> DEFINE r == [object |-> c, bitmap |-> RenderText(c.text, c.px), px |-> c.px,
                 placement |-> NoCrop, band |-> 0, placementDirty |-> TRUE]
           S == DOMAIN objects
<1>1. OsdTypeOK /\ Registered /\ Rendered(objects) /\ Known(S, bands) /\ Owned(bands, inKernel)
  BY DEF OsdInv, OsdTypeOK
<1>2. c \in TextObjects
  BY InputsAssumption
<1>3. r \in Runtimes /\ r.bitmap = RenderText(r.object.text, r.px)
  <2>1. c.text \in DOMAIN Glyphs /\ c.px \in Nat \ {0}
    BY <1>2 DEF TextObjects
  <2>2. RenderText(c.text, c.px) \in Bitmaps
    BY <2>1, BitmapIsRendered
  <2>3. NoCrop \in Rects
    BY DEF NoCrop, Rects
  <2> DEFINE bitmap == RenderText(c.text, c.px)
  <2> HIDE DEF bitmap
  <2>4. [object |-> c, bitmap |-> bitmap, px |-> c.px, placement |-> NoCrop, band |-> 0,
         placementDirty |-> TRUE] \in Runtimes
    BY <1>2, <2>1, <2>2, <2>3 DEF Runtimes, bitmap
  <2>q. QED
    BY <2>4 DEF bitmap
<1> HIDE DEF r
<1>4. objects' = [x \in S \union {id} |-> IF x = id THEN r ELSE objects[x]]
  BY DEF AddTextObject, r
<1>5. order' = Append(order, id) /\ id \notin S
  BY DEF AddTextObject
<1>6. Registered'
  <2>1. DOMAIN objects' = S \union {id} /\ objects' \in [DOMAIN objects' -> Runtimes]
    BY <1>1, <1>3, <1>4 DEF Registered
  <2>2. /\ order \in Seq(Ids) /\ Len(order) \in Nat /\ DOMAIN order = 1..Len(order)
    BY <1>1, LenProperties DEF Registered
  <2>3. /\ order' \in Seq(Ids) /\ DOMAIN order' = 1..(Len(order) + 1)
        /\ \A i \in DOMAIN order : order'[i] = order[i]
        /\ order'[Len(order) + 1] = id
    BY <1>5, <2>2, AppendProperties
  <2>4. {order'[i] : i \in DOMAIN order'} = S \union {id}
    <3>1. \A i \in DOMAIN order' : i \in DOMAIN order \/ i = Len(order) + 1
      BY <2>2, <2>3
    <3>2. \A i \in DOMAIN order : i \in DOMAIN order'
      BY <2>2, <2>3
    <3>3. Len(order) + 1 \in DOMAIN order'
      BY <2>2, <2>3
    <3>4. {order[i] : i \in DOMAIN order} = S
      BY <1>1 DEF Registered
    <3>q. QED
      BY <2>3, <3>1, <3>2, <3>3, <3>4
  <2>5. ASSUME NEW i \in DOMAIN order', NEW j \in DOMAIN order', order'[i] = order'[j] PROVE i = j
    <3>1. \A k \in DOMAIN order : order[k] \in S
      BY <1>1 DEF Registered
    <3>2. \A k \in DOMAIN order' : k \in DOMAIN order \/ k = Len(order) + 1
      BY <2>2, <2>3
    <3>q. QED
      BY <1>1, <1>5, <2>3, <2>5, <3>1, <3>2 DEF Registered
  <2>6. DOMAIN objects' \subseteq Ids
    BY <1>1, <2>1 DEF Registered
  <2>q. QED
    BY <2>1, <2>3, <2>4, <2>5, <2>6 DEF Registered
<1>7. Rendered(objects') /\ Known(DOMAIN objects', bands)
  BY <1>1, <1>3, <1>4 DEF Rendered, Known
<1>8. OsdTypeOK'
  BY <1>1, <1>6 DEF OsdTypeOK, AddTextObject, callers
<1>9. order' # <<>>
  <2>1. order \in Seq(Ids)
    BY <1>1 DEF Registered
  <2>q. QED
    BY <1>5, <2>1
<1>10. FreshInv'
  BY DEF FreshInv, AddTextObject
<1>11. source # NoFrame => ValidateStrideAlignment(source, DefaultByteAlignment)
  BY DEF OsdInv
<1>q. QED
  BY <1>1, <1>7, <1>8, <1>9, <1>10, <1>11 DEF OsdInv, AddTextObject, callers
-----------------------------------------------------------------------------
(* An object changes in place: a layout still fits if its band is drawn    *)
(* again, or its new text does not render.                                 *)
LEMMA ChangeKeepsFits ==
    ASSUME NEW S, NEW objs \in [S -> Runtimes], NEW bs, NEW bs1, NEW size, Fits(objs, bs, size),
           NEW id \in S, NEW r, r.band = objs[id].band, r.placement = objs[id].placement,
           AsConfigured(r, size), DOMAIN bs1 = DOMAIN bs,
           \A b \in DOMAIN bs :
              /\ bs1[b].top = bs[b].top /\ bs1[b].height = bs[b].height
              /\ bs1[b].ids = bs[b].ids /\ bs1[b].drawn = bs[b].drawn
              /\ ~bs1[b].dirty => ~bs[b].dirty /\ (b = r.band => ~(Glyphs[r.object.text] > 0))
    PROVE  Fits([objs EXCEPT ![id] = r], bs1, size)
<1> DEFINE objs1 == [objs EXCEPT ![id] = r]
           gap == BandJoinGap(size)
<1>1. /\ DOMAIN objs1 = S /\ objs1[id] = r /\ \A x \in S : x # id => objs1[x] = objs[x]
      /\ \A x \in S : objs1[x].band = objs[x].band /\ objs1[x].placement = objs[x].placement
  OBVIOUS
<1> HIDE DEF objs1
<1>2. ASSUME NEW x \in S
      PROVE  /\ InItsBand(x, objs1[x], bs1) /\ AsConfigured(objs1[x], size)
             /\ IsInside(objs1[x].placement, size)
  <2>1. InItsBand(x, objs[x], bs) /\ AsConfigured(objs[x], size) /\ IsInside(objs[x].placement, size)
    BY DEF Fits
  <2>2. AsConfigured(objs1[x], size)
    BY <1>1, <2>1
  <2>3. InItsBand(x, objs1[x], bs1)
    BY <1>1, <2>1 DEF InItsBand, StaysIn
  <2>q. QED
    BY <1>1, <2>1, <2>2, <2>3
<1>3. Holds(objs, bs) /\ Holds(objs1, bs1)
  <2>1. Holds(objs, bs)
    BY DEF Fits
  <2>q. QED
    BY <1>1, <2>1 DEF Holds
<1>4. Linked(objs1, bs1, gap) /\ Separate(bs1, gap)
  <2>1. Linked(objs, bs, gap) /\ Separate(bs, gap)
    BY DEF Fits
  <2> HIDE DEF gap
  <2>2. Separate(bs1, gap)
    BY <2>1 DEF Separate
  <2>3. ASSUME NEW b \in DOMAIN bs, NEW k \in DOMAIN bs[b].ids, k # 1
        PROVE  \E j \in 1..(k - 1) : Touch(objs1[bs[b].ids[k]].placement, objs1[bs[b].ids[j]].placement, gap)
    <3>1. PICK j \in 1..(k - 1) : Touch(objs[bs[b].ids[k]].placement, objs[bs[b].ids[j]].placement, gap)
      BY <2>1, <2>3 DEF Linked
    <3>2. \A x : objs1[x].placement = objs[x].placement
      <4>1. \A x : x # id => objs1[x].placement = objs[x].placement
        BY DEF objs1
      <4>q. QED
        BY <4>1, <1>1
    <3>q. QED
      BY <3>1, <3>2
  <2>q. QED
    BY <2>2, <2>3 DEF Linked
<1>5. ASSUME NEW b \in DOMAIN bs PROVE DrawnRight(objs1, bs1[b], size)
  <2>1. DrawnRight(objs, bs[b], size)
    BY DEF Fits
  <2>2. \A d \in bs1[b].drawn : IsInside(d.rect, size) /\ StaysIn(d.rect, bs1[b])
    BY <2>1 DEF DrawnRight, StaysIn
  <2>3. ASSUME ~bs1[b].dirty
        PROVE  /\ \A d \in bs1[b].drawn : \E k \in DOMAIN bs1[b].ids : bs1[b].ids[k] = d.id
               /\ \A k \in DOMAIN bs1[b].ids : \E d \in bs1[b].drawn : d.id = bs1[b].ids[k]
               /\ \A c, d \in bs1[b].drawn : c.id = d.id => c = d
    BY <2>1, <2>3 DEF DrawnRight
  <2>4. ASSUME ~bs1[b].dirty, NEW k \in DOMAIN bs1[b].ids,
               Glyphs[objs1[bs1[b].ids[k]].object.text] > 0
        PROVE  Drawing(bs1[b].ids[k], objs1[bs1[b].ids[k]]) \in bs1[b].drawn
    <3> DEFINE x == bs1[b].ids[k]
    <3>1. x \in S /\ objs[x].band = b /\ x = bs[b].ids[k] /\ k \in DOMAIN bs[b].ids
      BY <1>3 DEF Holds
    <3>2. x # id
      BY <1>1, <2>4, <3>1
    <3>3. objs1[x] = objs[x]
      BY <1>1, <3>1, <3>2
    <3>4. Glyphs[objs[x].object.text] > 0 => Drawing(x, objs[x]) \in bs[b].drawn
      BY <2>1, <2>4, <3>1 DEF DrawnRight
    <3>q. QED
      BY <2>4, <3>3, <3>4
  <2>q. QED
    BY <2>2, <2>3, <2>4 DEF DrawnRight
<1>q. QED
  BY <1>1, <1>2, <1>3, <1>4, <1>5 DEF Fits, objs1, gap

(* An update in place, not refused and not of the height: the font and the *)
(* row are those the layout was made for.                                  *)
LEMMA SameRowIsAsConfigured ==
    ASSUME NEW o \in Runtimes, o.bitmap = RenderText(o.object.text, o.px), NEW c \in TextObjects,
           ~MovesVertically(o, c), NEW size, AsConfigured(o, size),
           NEW r, r.object = c, r.bitmap = Reconfigured(o, c).bitmap,
           r.px = Reconfigured(o, c).px, r.placement = o.placement
    PROVE  AsConfigured(r, size)
<1> DEFINE q == Reconfigured(o, c)
<1>1. /\ q \in Runtimes /\ q.bitmap = RenderText(c.text, q.px) /\ (c.px = o.object.px => q.px = o.px)
  BY ReconfiguredIsRendered
<1>2. /\ o.object.anchor = c.anchor /\ o.object.y = c.y /\ o.object.paddingY = c.paddingY
      /\ o.object.px = c.px /\ o.bitmap.height = q.bitmap.height
  BY DEF MovesVertically
<1> HIDE DEF q
<1>3. c.text \in DOMAIN Glyphs /\ o.object.text \in DOMAIN Glyphs /\ q.px \in Nat \ {0} /\ o.px \in Nat
  BY <1>1 DEF Runtimes, TextObjects
<1>4. ASSUME Glyphs[c.text] > 0
      PROVE  /\ r.px = LargerOf(1, ScaleDesignPixels(c.px, size))
             /\ r.placement.y = Placement(r, size).y /\ r.placement.height = Placement(r, size).height
  <2>1. q.bitmap.height = q.px
    BY <1>1, <1>3, <1>4, BitmapIsRendered
  <2>2. o.bitmap # NoBitmap
    BY <1>2, <1>3, <2>1 DEF NoBitmap
  <2>3. Glyphs[o.object.text] > 0
    BY <1>3, <2>2, BitmapIsRendered
  <2>4. /\ o.px = LargerOf(1, ScaleDesignPixels(o.object.px, size))
        /\ o.placement.y = Placement(o, size).y /\ o.placement.height = Placement(o, size).height
    BY <2>3 DEF AsConfigured
  <2>5. Placement(r, size).y = Placement(o, size).y /\ Placement(r, size).height = Placement(o, size).height
    <3>1. r.bitmap.height = o.bitmap.height
      BY <1>2 DEF q
    <3>q. QED
      BY <1>2, <3>1 DEF Placement
  <2>6. r.px = o.px
    BY <1>1, <1>2 DEF q
  <2>q. QED
    BY <1>2, <2>4, <2>5, <2>6
<1>q. QED
  BY <1>4 DEF AsConfigured

(* An update in place marks the band of the object; any other the layout. *)
LEMMA UpdateTextObjectKeeps ==
    ASSUME OsdInv, NEW id \in Ids, NEW c \in Objects[id], UpdateTextObject(id, c)
    PROVE  OsdInv'
<1> DEFINE S == DOMAIN objects
           o == objects[id]
           q == Reconfigured(o, c)
           r == objects'[id]
<1>1. OsdTypeOK /\ Registered /\ Rendered(objects) /\ Known(S, bands) /\ Owned(bands, inKernel)
  BY DEF OsdInv, OsdTypeOK
<1>2. c \in TextObjects
  BY InputsAssumption
<1>3. id \in S /\ objects \in [S -> Runtimes] /\ o \in Runtimes /\ o.bitmap = RenderText(o.object.text, o.px)
  BY <1>1 DEF UpdateTextObject, Registered, Rendered
<1>4. /\ osdInitialized' = osdInitialized /\ order' = order /\ bandSize' = bandSize /\ torn' = torn
      /\ inKernel' = inKernel /\ source' = source /\ destination' = destination /\ fresh' = FALSE
  BY DEF UpdateTextObject, callers
<1> HIDE DEF o
<1>5. /\ q \in Runtimes /\ q.object = c /\ q.placement = o.placement /\ q.band = o.band
      /\ q.bitmap = RenderText(c.text, q.px)
  BY <1>2, <1>3, ReconfiguredIsRendered
<1> HIDE DEF q
<1>6. \E dirty \in BOOLEAN :
         /\ objects' = [objects EXCEPT ![id] = [q EXCEPT !.placementDirty = dirty]]
         /\ \/ Refused(o, c) /\ UNCHANGED <<bands, layoutDirty>>
            \/ ~Refused(o, c) /\ MovesVertically(o, c) /\ layoutDirty' = TRUE /\ UNCHANGED bands
            \/ ~Refused(o, c) /\ ~MovesVertically(o, c) /\ MarkBandDirty(o)
  <2>1. CASE Refused(o, c) /\ objects' = [objects EXCEPT ![id] = q] /\ UNCHANGED <<bands, layoutDirty>>
    <3>1. q.placementDirty \in BOOLEAN /\ q = [q EXCEPT !.placementDirty = q.placementDirty]
      BY <1>5 DEF Runtimes
    <3>q. QED
      BY <2>1, <3>1
  <2>2. CASE /\ ~Refused(o, c) /\ MovesVertically(o, c) /\ layoutDirty' = TRUE /\ UNCHANGED bands
             /\ objects' = [objects EXCEPT ![id] = [q EXCEPT !.placementDirty = TRUE]]
    BY <2>2
  <2>3. CASE /\ ~Refused(o, c) /\ ~MovesVertically(o, c) /\ MarkBandDirty(o)
             /\ objects' = [objects EXCEPT ![id] =
                               [q EXCEPT !.placementDirty = MovesHorizontally(o, c)]]
    <3>1. MovesHorizontally(o, c) \in BOOLEAN
      BY DEF MovesHorizontally
    <3>q. QED
      BY <2>3, <3>1
  <2>q. QED
    BY <2>1, <2>2, <2>3 DEF UpdateTextObject, o, q
<1>7. /\ r \in Runtimes /\ r.object = c /\ r.placement = o.placement /\ r.band = o.band
      /\ r.bitmap = q.bitmap /\ r.px = q.px /\ objects' = [objects EXCEPT ![id] = r]
  <2>1. PICK dirty \in BOOLEAN : objects' = [objects EXCEPT ![id] = [q EXCEPT !.placementDirty = dirty]]
    BY <1>6
  <2>2. r = [q EXCEPT !.placementDirty = dirty]
    BY <2>1, <1>3
  <2> DEFINE new == [q EXCEPT !.placementDirty = dirty]
  <2>3. /\ new \in Runtimes /\ new.object = c /\ new.placement = o.placement /\ new.band = o.band
        /\ new.bitmap = q.bitmap /\ new.px = q.px
    BY <1>5 DEF Runtimes
  <2> HIDE DEF new
  <2>q. QED
    BY <2>1, <2>2, <2>3 DEF new
<1> HIDE DEF r
<1>8. DOMAIN objects' = S /\ objects' \in [S -> Runtimes] /\ Rendered(objects')
  <2>1. DOMAIN objects' = S /\ objects'[id] = r /\ \A x \in S : x # id => objects'[x] = objects[x]
    BY <1>3, <1>7
  <2>2. objects' \in [S -> Runtimes]
    BY <1>3, <1>7
  <2>3. r.bitmap = RenderText(r.object.text, r.px)
    BY <1>5, <1>7
  <2>q. QED
    BY <2>1, <2>2, <2>3, <1>1 DEF Rendered
<1>9. Registered'
  BY <1>1, <1>4, <1>8 DEF Registered
<1>10. /\ bands' \in Seq(Bands) /\ DOMAIN bands' = DOMAIN bands /\ layoutDirty' \in BOOLEAN
       /\ ~layoutDirty' => ~layoutDirty
       /\ \A b \in DOMAIN bands :
             /\ bands'[b].top = bands[b].top /\ bands'[b].height = bands[b].height
             /\ bands'[b].ids = bands[b].ids /\ bands'[b].drawn = bands[b].drawn
             /\ bands'[b].memory = bands[b].memory
             /\ ~bands'[b].dirty => ~bands[b].dirty
  <2>1. bands \in Seq(Bands) /\ layoutDirty \in BOOLEAN
    BY <1>1 DEF OsdTypeOK
  <2>2. CASE bands' = bands
    <3>1. layoutDirty' = layoutDirty \/ layoutDirty' = TRUE
      BY <1>6 DEF MarkBandDirty
    <3>q. QED
      BY <2>1, <2>2, <3>1
  <2>3. CASE o.band \in DOMAIN bands /\ bands' = [bands EXCEPT ![o.band].dirty = TRUE] /\ UNCHANGED layoutDirty
    <3>1. \A b \in DOMAIN bands : bands[b] \in Bands
      BY <2>1
    <3>2. [bands[o.band] EXCEPT !.dirty = TRUE] \in Bands
      BY <2>3, <3>1 DEF Bands
    <3>3. bands' \in Seq(Bands)
      BY <2>1, <2>3, <3>2, ExceptSeq
    <3>4. /\ DOMAIN bands' = DOMAIN bands /\ bands'[o.band] = [bands[o.band] EXCEPT !.dirty = TRUE]
          /\ \A b \in DOMAIN bands : b # o.band => bands'[b] = bands[b]
      BY <2>3
    <3>5. LET g == bands'[o.band]
              h == bands[o.band]
          IN  /\ g.top = h.top /\ g.height = h.height /\ g.ids = h.ids /\ g.drawn = h.drawn
              /\ g.memory = h.memory /\ g.dirty
      BY <2>3, <3>1, <3>4 DEF Bands
    <3>6. layoutDirty' \in BOOLEAN /\ (~layoutDirty' => ~layoutDirty)
      BY <2>1, <2>3
    <3>q. QED
      BY <3>3, <3>4, <3>5, <3>6
  <2>q. QED
    BY <1>6, <2>2, <2>3 DEF MarkBandDirty
<1>11. OsdTypeOK'
  BY <1>1, <1>4, <1>9, <1>10 DEF OsdTypeOK
<1>12. Known(S, bands') /\ Owned(bands', inKernel)
  <2>1. \A t : {b \in DOMAIN bands' : t \in bands'[b].memory} = {b \in DOMAIN bands : t \in bands[b].memory}
    BY <1>10
  <2>q. QED
    BY <1>1, <1>10, <2>1 DEF Known, Owned
<1>13. ASSUME order # <<>>, ~layoutDirty', ~torn PROVE Fits(objects', bands', bandSize)
  <2>1. Fits(objects, bands, bandSize)
    BY <1>10, <1>13 DEF OsdInv
  <2>2. InItsBand(id, o, bands) /\ AsConfigured(o, bandSize)
    BY <1>3, <2>1 DEF Fits, o
  <2>3. o.band \in DOMAIN bands
    BY <2>2 DEF InItsBand
  <2>4. CASE Refused(o, c)
    <3>1. r.bitmap = NoBitmap
      BY <1>7, <2>4 DEF Refused, q
    <3>2. ~(Glyphs[c.text] > 0)
      <4>1. c.text \in DOMAIN Glyphs /\ q.px \in Nat
        BY <1>2, <1>5 DEF TextObjects, Runtimes
      <4>q. QED
        BY <1>5, <1>7, <3>1, <4>1, BitmapIsRendered, ZenonT(30)
    <3>3. AsConfigured(r, bandSize)
      BY <1>7, <3>2 DEF AsConfigured
    <3>4. \A b \in DOMAIN bands :
             /\ bands'[b].top = bands[b].top /\ bands'[b].height = bands[b].height
             /\ bands'[b].ids = bands[b].ids /\ bands'[b].drawn = bands[b].drawn
             /\ ~bands'[b].dirty => ~bands[b].dirty /\ (b = r.band => ~(Glyphs[r.object.text] > 0))
      BY <1>7, <1>10, <3>2
    <3>5. r.band = objects[id].band /\ r.placement = objects[id].placement
      BY <1>7 DEF o
    <3>6. Fits([objects EXCEPT ![id] = r], bands', bandSize)
      BY <1>3, <1>10, <2>1, <3>3, <3>4, <3>5, ChangeKeepsFits
    <3>q. QED
      BY <1>7, <3>6
  <2>5. CASE ~Refused(o, c)
    <3>1. ~MovesVertically(o, c) /\ bands' = [bands EXCEPT ![o.band].dirty = TRUE]
      BY <1>6, <1>13, <2>3, <2>5 DEF MarkBandDirty
    <3>2. AsConfigured(r, bandSize)
      BY <1>2, <1>3, <1>7, <2>2, <3>1, SameRowIsAsConfigured DEF q
    <3>3. bands'[o.band].dirty
      <4>1. bands \in Seq(Bands)
        BY <1>1 DEF OsdTypeOK
      <4>2. bands[o.band] \in Bands
        BY <2>3, <4>1
      <4>q. QED
        BY <2>3, <3>1, <4>1, <4>2 DEF Bands
    <3>4. \A b \in DOMAIN bands :
             /\ bands'[b].top = bands[b].top /\ bands'[b].height = bands[b].height
             /\ bands'[b].ids = bands[b].ids /\ bands'[b].drawn = bands[b].drawn
             /\ ~bands'[b].dirty => ~bands[b].dirty /\ (b = r.band => ~(Glyphs[r.object.text] > 0))
      BY <1>7, <1>10, <3>3
    <3>5. r.band = objects[id].band /\ r.placement = objects[id].placement
      BY <1>7 DEF o
    <3>6. Fits([objects EXCEPT ![id] = r], bands', bandSize)
      BY <1>3, <1>10, <2>1, <3>2, <3>4, <3>5, ChangeKeepsFits
    <3>q. QED
      BY <1>7, <3>6
  <2>q. QED
    BY <2>4, <2>5
<1>14. order = <<>> => bands' = <<>>
  <2>1. ASSUME order = <<>> PROVE bands' = <<>>
    <3>1. bands = <<>>
      BY <2>1 DEF OsdInv
    <3>2. DOMAIN bands' = {}
      BY <1>10, <3>1
    <3>q. QED
      BY <1>10, <3>2, EmptySeq, LenProperties
  <2>q. QED
    BY <2>1
<1>15. FreshInv'
  BY <1>4 DEF FreshInv
<1>16. source # NoFrame => ValidateStrideAlignment(source, DefaultByteAlignment)
  BY DEF OsdInv
<1>q. QED
  BY <1>4, <1>8, <1>11, <1>12, <1>13, <1>14, <1>15, <1>16 DEF OsdInv

LEMMA SetRectanglesKeeps ==
    ASSUME OsdInv, NEW rs, SetRectangles(rs) PROVE OsdInv'
<1> USE DEF SetRectangles, callers, layout
<1>1. OsdTypeOK' /\ FreshInv'
  BY DEF OsdInv, OsdTypeOK, Registered, FreshInv
<1>q. QED
  BY <1>1 DEF OsdInv

(* The caller's frames: a source is one that RGA made, so it is aligned.   *)
LEMMA OutputIsSized ==
    ASSUME NEW frame \in VideoFrames
    PROVE  BufferSizeFor("NV12", AlignedStride("NV12", EffectiveStride(frame), 64),
                         AlignedHeightStride("NV12", EffectiveHeightStride(frame))) \in Nat
<1> DEFINE s == EffectiveStride(frame)
           even == AlignUp(s, 2)
           bytes == AlignUp(even * 1, 64)
           w == AlignedStride("NV12", s, 64)
           h == AlignedHeightStride("NV12", EffectiveHeightStride(frame))
<1>1. s \in Nat /\ EffectiveHeightStride(frame) \in Nat
  BY DEF VideoFrames, EffectiveStride, EffectiveHeightStride
<1>2. \A n \in Nat : AlignUp(n, 2) \in Nat /\ AlignUp(n, 64) \in Nat
  BY DEF AlignUp
<1>3. BytesPerPixelForStride("NV12") = 1 /\ MinDimensionAlignment("NV12") = 2
  BY DEF BytesPerPixelForStride, MinDimensionAlignment
<1>4. w = AlignUp((bytes + 1 - 1) \div 1, 2)
  BY <1>3 DEF AlignedStride
<1> HIDE DEF s
<1>5. even \in Nat
  BY <1>1, <1>2
<1> HIDE DEF even
<1>6. bytes \in Nat
  BY <1>2, <1>5
<1> HIDE DEF bytes
<1>7. w \in Nat /\ h \in Nat
  BY <1>1, <1>2, <1>4, <1>6, StridesAreNat
<1> HIDE DEF w, h
<1>8. (w * h * 3) \div 2 \in Nat
  <2>1. w * h \in Nat
    BY <1>7
  <2>q. QED
    BY <2>1
<1>9. BufferSizeFor("NV12", w, h) = (w * h * 3) \div 2
  BY DEF BufferSizeFor
<1>q. QED
  BY <1>8, <1>9 DEF w, h, s

LEMMA NextFrameKeeps ==
    ASSUME OsdInv, NEW call \in Calls, NextFrame(call) PROVE OsdInv'
<1> DEFINE made == Rga(call.src, call.dst, call.op)
           laid == OutputLayout(call.src, call.dst, call.op)
           bytes == BufferSizeFor("NV12", AlignedStride("NV12", EffectiveStride(made.dst), 64),
                                  AlignedHeightStride("NV12", EffectiveHeightStride(made.dst)))
<1>1. call \in [src : VideoFrames, dst : VideoFrames, op : Operations]
  BY InputsAssumption
<1>2. made.dst \in VideoFrames
  BY <1>1, RgaLeavesFrame
<1>3. /\ made.accepted /\ source' = made.dst /\ fresh' = FALSE
      /\ destination' = IF destination = NoFrame THEN [made.dst EXCEPT !.capacity = bytes]
                        ELSE destination
      /\ UNCHANGED <<osdInitialized, objects, order, bands, bandSize, layoutDirty, torn, inKernel>>
  BY DEF NextFrame, layout
<1>4. ValidateStrideAlignment(made.dst, DefaultByteAlignment)
  <2>1. CallIsValid(call.src, call.dst, call.op)
    BY <1>3, Zenon DEF Rga
  <2>2. made.dst = laid /\ LayoutIsValid(call.src, laid, call.op)
    BY <1>3, <2>1, Zenon DEF Rga
  <2> HIDE DEF made, laid
  <2>q. QED
    BY <2>2, Zenon DEF LayoutIsValid
<1>5. bytes \in Nat
  BY <1>2, OutputIsSized
<1>6. destination \in VideoFrames
  BY DEF OsdInv, OsdTypeOK
<1> HIDE DEF made, bytes
<1>7. source' \in VideoFrames /\ destination' \in VideoFrames
  BY <1>2, <1>3, <1>5, <1>6 DEF VideoFrames
<1>8. OsdTypeOK'
  BY <1>3, <1>7 DEF OsdInv, OsdTypeOK, Registered
<1>9. FreshInv'
  BY <1>3 DEF FreshInv
<1>q. QED
  BY <1>3, <1>4, <1>8, <1>9 DEF OsdInv

(* A relayout that fails keeps the bands and what they own. If it was for  *)
(* another size, the objects may not be where the bands are: torn.         *)
LEMMA RelayoutFailsKeeps ==
    ASSUME OsdInv, RelayoutFails PROVE OsdInv'
<1>1. OsdTypeOK /\ Registered /\ Rendered(objects) /\ source \in VideoFrames
  BY DEF OsdInv, OsdTypeOK
<1>2. /\ UNCHANGED <<osdInitialized, order, bands, bandSize, layoutDirty, source, destination>>
      /\ torn' = (torn \/ ~layoutDirty) /\ fresh' = FALSE
  BY DEF RelayoutFails, callers
<1>3. objects' \in [DOMAIN objects -> Runtimes] /\ Rendered(objects') /\ inKernel' = inKernel
  <2>1. CASE objects' = Ensured /\ UNCHANGED <<inKernel, faultsLeft>>
    BY <1>1, <2>1, EnsuredAreRendered
  <2>2. CASE ~(objects' = Ensured /\ UNCHANGED <<inKernel, faultsLeft>>)
    <3>1. WithoutPlace = {}
      BY <2>2 DEF RelayoutFails
    <3>2. PICK n \in DOMAIN Grouped(Ensured), a \in Allocate(Nodes) :
             /\ a.memory = NoMemory /\ objects' = Placed(Ensured, Grouped(Ensured), n)
             /\ inKernel' = [t \in Things |-> inKernel[t] + a.left[t]]
      BY <2>2 DEF RelayoutFails
    <3>3. n \in Nat
      BY <1>1, <3>1, EnsuredHavePlaces, GroupedAsJoined
    <3>4. Ensured \in [DOMAIN objects -> Runtimes] /\ Rendered(Ensured)
      BY <1>1, EnsuredAreRendered
    <3> DEFINE placed == Placed(Ensured, Grouped(Ensured), n)
    <3>5. /\ placed \in [DOMAIN objects -> Runtimes]
          /\ \A id \in DOMAIN objects :
                /\ placed[id].object = Ensured[id].object /\ placed[id].bitmap = Ensured[id].bitmap
                /\ placed[id].px = Ensured[id].px
      BY <1>1, <3>3, <3>4, PlacedObjects
    <3> HIDE DEF placed
    <3>6. Rendered(placed)
      BY <3>4, <3>5 DEF Rendered
    <3>7. inKernel' = inKernel
      <4>1. Len(Nodes) \in Nat
        BY OsdRendererAssumption, LenProperties
      <4>2. Sound(a)
        BY <4>1, AllocateIsSound
      <4>3. \A t \in Things : a.left[t] = 0
        BY <3>2, <4>2 DEF Sound, NoMemory
      <4>4. inKernel \in [Things -> Nat]
        BY <1>1 DEF OsdTypeOK
      <4>5. \A t \in Things : inKernel'[t] = inKernel[t]
        BY <3>2, <4>3, <4>4
      <4>q. QED
        BY <3>2, <4>4, <4>5
    <3>q. QED
      BY <3>2, <3>5, <3>6, <3>7 DEF placed
  <2>q. QED
    BY <2>1, <2>2
<1>4. Registered' /\ DOMAIN objects' = DOMAIN objects
  BY <1>1, <1>2, <1>3 DEF Registered
<1>5. OsdTypeOK'
  BY <1>1, <1>2, <1>3, <1>4 DEF OsdTypeOK
<1>6. ~(~layoutDirty' /\ ~torn')
  BY <1>1, <1>2 DEF OsdTypeOK
<1>7. FreshInv'
  BY <1>2 DEF FreshInv
<1>q. QED
  BY <1>2, <1>3, <1>4, <1>5, <1>6, <1>7 DEF OsdInv

(* A frame, whether composite() ends early or not.                       *)
LEMMA CompositeFrameKeeps ==
    ASSUME OsdInv, CompositeFrame PROVE OsdInv'
<1>1. /\ OsdTypeOK /\ Registered /\ source \in VideoFrames /\ destination \in VideoFrames
      /\ source.format = "NV12" /\ destination.format = "NV12" /\ osdInitialized
      /\ ValidateStrideAlignment(source, DefaultByteAlignment)
  BY DEF OsdInv, OsdTypeOK, CompositeFrame, CanComposite
<1>2. UNCHANGED <<osdInitialized, order, source>>
  BY DEF CompositeFrame
<1> DEFINE base == Copy(source, destination)
           refusedOf(lay) == SelectInSeq([b \in DOMAIN lay.bands |-> b],
                                         LAMBDA b : ~Takes(lay, b, base.dst))
           blockedOf(lay) == refusedOf(lay) # 0 /\ Blocked(lay, refusedOf(lay)) # 0
           drawnOf(lay) == CASE ~base.accepted -> 0
                             [] base.accepted /\ refusedOf(lay) = 0 -> Len(lay.bands)
                             [] base.accepted /\ refusedOf(lay) # 0 ->
                                  IF blockedOf(lay) THEN refusedOf(lay) - 1 ELSE refusedOf(lay)
           partOf(lay) == IF base.accepted /\ blockedOf(lay) THEN BeforeBlock(lay, refusedOf(lay)) ELSE {}
           doneOf(lay) == base.accepted /\ refusedOf(lay) = 0
                          /\ DrawRectangles(base.dst, rectangles, LineWidthFor(source))
<1>3. PICK lay \in Relayout :
         /\ \/ /\ fresh' = doneOf(lay) /\ UNCHANGED faultsLeft
               /\ objects' = ObjectsAfter(lay, drawnOf(lay), partOf(lay))
               /\ bands' = BandsAfter(lay, drawnOf(lay))
            \/ /\ fresh' = FALSE
               /\ \E m \in 0..drawnOf(lay) :
                     /\ objects' = ObjectsAfter(lay, m, {})
                     /\ \E synced \in {m, m - 1} : bands' = BandsAfter(lay, synced)
         /\ destination' = base.dst /\ bandSize' = lay.size /\ layoutDirty' = lay.dirty
         /\ torn' = lay.torn /\ inKernel' = lay.kernel
  BY Zenon DEF CompositeFrame
<1> DEFINE refused == refusedOf(lay)
           drawn == drawnOf(lay)
           part == partOf(lay)
           done == doneOf(lay)
           bs == lay.bands
<1>4. LayoutOK(lay)
  BY RelayoutKeeps
<1>5. bs \in Seq(Bands) /\ Len(bs) \in Nat /\ DOMAIN bs = 1..Len(bs)
  BY <1>4, LenProperties DEF LayoutOK
<1>6. /\ base.dst \in VideoFrames /\ base.accepted \in BOOLEAN
      /\ base.accepted => /\ InBuffer(source) /\ InBuffer(base.dst)
                          /\ source.width = base.dst.width /\ source.height = base.dst.height
  BY <1>1, CopyStaysInBuffers
<1>7. /\ refused \in DOMAIN bs \union {0}
      /\ \A b \in DOMAIN bs : refused = 0 \/ b < refused => Takes(lay, b, base.dst)
  BY <1>5, BandsTaken
<1>8. \A b \in DOMAIN bs : refused = 0 \/ b < refused => Blocked(lay, b) = 0
  BY <1>7 DEF Takes
<1> HIDE DEF base, refusedOf
<1>9. drawn \in 0..Len(bs) /\ \A b \in DOMAIN bs : b <= drawn => Blocked(lay, b) = 0
  <2>1. CASE ~base.accepted
    <3>1. drawn = 0
      BY <2>1
    <3> HIDE DEF drawn
    <3>q. QED
      BY <1>5, <3>1
  <2>2. CASE base.accepted /\ refused = 0
    <3>1. drawn = Len(bs)
      BY <2>2
    <3> HIDE DEF drawn
    <3>q. QED
      BY <1>5, <1>8, <2>2, <3>1
  <2>3. CASE base.accepted /\ refused # 0 /\ Blocked(lay, refused) # 0
    <3>1. drawn = refused - 1
      BY <2>3
    <3> HIDE DEF drawn
    <3>q. QED
      BY <1>5, <1>7, <1>8, <2>3, <3>1
  <2>4. CASE base.accepted /\ refused # 0 /\ Blocked(lay, refused) = 0
    <3>1. drawn = refused
      BY <2>4
    <3> HIDE DEF drawn
    <3>2. refused \in 1..Len(bs)
      BY <1>5, <1>7, <2>4
    <3>3. ASSUME NEW b \in DOMAIN bs, b <= drawn PROVE Blocked(lay, b) = 0
      <4>1. b = refused \/ b < refused
        BY <1>5, <3>1, <3>2, <3>3
      <4>q. QED
        BY <4>1, <1>8, <2>4
    <3>q. QED
      BY <3>1, <3>2, <3>3
  <2>q. QED
    BY <1>6, <2>1, <2>2, <2>3, <2>4
<1>10. part = {} \/ \E b \in DOMAIN bs : part = BeforeBlock(lay, b)
  BY <1>7
<1>11. done \in BOOLEAN /\ (done => base.accepted /\ refused = 0)
  <2>1. DrawRectangles(base.dst, rectangles, LineWidthFor(source)) \in BOOLEAN
    BY DEF DrawRectangles
  <2>q. QED
    BY <2>1, <1>6, Zenon
<1>12. done => drawn = Len(bs)
  BY <1>11
<1> HIDE DEF drawnOf, partOf, doneOf
<1>13. PICK n \in Int, m \in Int, p \in {part, {}} :
          /\ n <= m /\ m <= drawn /\ (p = {} \/ \E b \in DOMAIN bs : p = BeforeBlock(lay, b))
          /\ objects' = ObjectsAfter(lay, m, p) /\ bands' = BandsAfter(lay, n)
          /\ fresh' \in BOOLEAN /\ (fresh' => done /\ n = Len(bs))
  <2>1. CASE /\ fresh' = done /\ objects' = ObjectsAfter(lay, drawn, part)
             /\ bands' = BandsAfter(lay, drawn)
    <3>1. drawn \in Int /\ drawn <= drawn
      BY <1>5, <1>9
    <3>2. fresh' \in BOOLEAN /\ (fresh' => done /\ drawn = Len(bs))
      BY <1>11, <1>12, <2>1
    <3>q. QED
      BY <1>10, <2>1, <3>1, <3>2
  <2>2. CASE /\ fresh' = FALSE
             /\ \E m \in 0..drawn :
                   /\ objects' = ObjectsAfter(lay, m, {})
                   /\ \E synced \in {m, m - 1} : bands' = BandsAfter(lay, synced)
    <3>0. PICK m \in 0..drawn : /\ objects' = ObjectsAfter(lay, m, {})
                               /\ \E synced \in {m, m - 1} : bands' = BandsAfter(lay, synced)
      BY <2>2
    <3>1. PICK synced \in {m, m - 1} : bands' = BandsAfter(lay, synced)
      BY <3>0
    <3>2. m \in Int /\ synced \in Int /\ synced <= m /\ m <= drawn
      BY <1>5, <1>9
    <3>q. QED
      BY <2>2, <3>0, <3>1, <3>2
  <2>q. QED
    BY <1>3, <2>1, <2>2
<1>14. \A b \in DOMAIN bs : b <= m => Blocked(lay, b) = 0
  BY <1>5, <1>9, <1>13
<1>15. /\ objects' \in [DOMAIN objects -> Runtimes] /\ Rendered(objects')
       /\ bands' \in Seq(Bands) /\ Known(DOMAIN objects, bands') /\ Owned(bands', lay.kernel)
       /\ order = <<>> => bands' = <<>>
       /\ order # <<>> /\ ~lay.torn => Fits(objects', bands', Size(source))
  BY <1>1, <1>4, <1>13, <1>14, DrawingKeepsLayout
<1>16. DOMAIN objects' = DOMAIN objects /\ Registered'
  BY <1>1, <1>2, <1>15 DEF Registered
<1>17. /\ lay.size \in Sizes /\ lay.kernel \in [Things -> Nat]
       /\ lay.torn \in BOOLEAN /\ lay.dirty \in BOOLEAN
       /\ order # <<>> => ~lay.dirty /\ lay.size = Size(source)
  BY <1>4 DEF LayoutOK
<1>18. OsdTypeOK'
  BY <1>1, <1>2, <1>3, <1>6, <1>13, <1>15, <1>16, <1>17 DEF OsdTypeOK
<1>19. FreshInv'
  <2>1. SUFFICES ASSUME fresh' PROVE FreshInv'
    BY DEF FreshInv
  <2>2. done /\ n = Len(bs)
    BY <1>13, <2>1
  <2>3. base.accepted
    BY <1>11, <2>2
  <2>4. \A b \in DOMAIN bands' : ~bands'[b].dirty
    <3>1. DOMAIN bands' = DOMAIN bs
      BY <1>13 DEF BandsAfter
    <3>2. ASSUME NEW b \in DOMAIN bs PROVE ~bands'[b].dirty
      <4>1. bs[b] \in Bands /\ b <= n
        BY <1>5, <2>2
      <4>2. CASE ~bs[b].dirty
        <5>1. bands'[b] = bs[b]
          BY <1>13, <4>2 DEF BandsAfter
        <5>q. QED
          BY <4>2, <5>1
      <4>3. CASE bs[b].dirty
        <5>1. ~(b > n)
          BY <1>5, <4>1, <2>2
        <5>2. bands'[b] = [bs[b] EXCEPT !.dirty = FALSE,
                  !.drawn = {Drawing(id, PlacedAgain(lay.objects[id])) : id \in ToSet(bs[b].ids)}]
          BY <1>13, <4>3, <5>1 DEF BandsAfter
        <5> DEFINE new == {Drawing(id, PlacedAgain(lay.objects[id])) : id \in ToSet(bs[b].ids)}
        <5> HIDE DEF new
        <5>3. bands'[b] = [bs[b] EXCEPT !.dirty = FALSE, !.drawn = new]
          BY <5>2 DEF new
        <5>q. QED
          BY <4>1, <5>3 DEF Bands
      <4>q. QED
        BY <4>2, <4>3
    <3>q. QED
      BY <3>1, <3>2
  <2>5. order # <<>> => ~layoutDirty' /\ bandSize' = Size(source)
    BY <1>3, <1>17
  <2>6. Size(source)' = Size(source) /\ InBuffer(source)' = InBuffer(source)
    BY <1>2 DEF Size, InBuffer, LastByte
  <2>q. QED
    BY <1>2, <1>3, <1>6, <2>3, <2>4, <2>5, <2>6 DEF FreshInv, InBuffer, LastByte
<1>20. order' # <<>> /\ ~layoutDirty' /\ ~torn' => Fits(objects', bands', bandSize')
  <2>1. ASSUME order # <<>>, ~lay.torn PROVE Fits(objects', bands', lay.size)
    BY <1>15, <1>17, <2>1
  <2>q. QED
    BY <1>2, <1>3, <1>17, <2>1
<1>q. QED
  BY <1>1, <1>2, <1>3, <1>15, <1>16, <1>18, <1>19, <1>20 DEF OsdInv

LEMMA OsdInvIsKept == OsdInv /\ [OsdNext]_osdVars => OsdInv'
<1> SUFFICES ASSUME OsdInv, [OsdNext]_osdVars PROVE OsdInv'
  OBVIOUS
<1>1. CASE Initialize
  BY <1>1, InitializeKeeps
<1>2. CASE \E id \in Ids : \E c \in Objects[id] : AddTextObject(id, c) \/ UpdateTextObject(id, c)
  BY <1>2, AddTextObjectKeeps, UpdateTextObjectKeeps
<1>3. CASE \E rs \in RectangleSets : SetRectangles(rs)
  BY <1>3, SetRectanglesKeeps
<1>4. CASE \E call \in Calls : NextFrame(call)
  BY <1>4, NextFrameKeeps
<1>5. CASE RelayoutFails
  BY <1>5, RelayoutFailsKeeps
<1>6. CASE CompositeFrame
  BY <1>6, CompositeFrameKeeps
<1>7. CASE UNCHANGED osdVars
  <2>1. OsdTypeOK' /\ FreshInv'
    BY <1>7 DEF osdVars, callers, layout, OsdInv, OsdTypeOK, Registered, FreshInv
  <2>q. QED
    BY <1>7, <2>1 DEF osdVars, callers, layout, OsdInv
<1>q. QED
  BY <1>1, <1>2, <1>3, <1>4, <1>5, <1>6, <1>7 DEF OsdNext

LEMMA OsdInvHolds == OsdSpec => []OsdInv
  BY OsdStarts, OsdInvIsKept, PTL DEF OsdSpec

(* Whatever call of an allocation fails and whichever layouts are thrown   *)
(* away, the kernel holds the memories of the bands and nothing else.      *)
THEOREM OsdLeaksNothing == OsdSpec => []NothingLeaks
<1>1. OsdInv => NothingLeaks
  BY DEF OsdInv, Owned, NothingLeaks
<1>q. QED
  BY <1>1, OsdInvHolds, PTL
-----------------------------------------------------------------------------
(* What a layout that fits means. The objects of a band are connected: of  *)
(* any two parts of them, the first of the one that was not opened touches *)
(* one that joined before it, in the other part.                           *)
LEMMA BandIsConnected ==
    ASSUME Registered, Fits(objects, bands, bandSize), bands \in Seq(Bands),
           NEW a \in DOMAIN objects, NEW b \in DOMAIN objects, objects[a].band = objects[b].band
    PROVE  Connected(DOMAIN objects, a, b, BandJoinGap(bandSize))
<1> DEFINE S == DOMAIN objects
           gap == BandJoinGap(bandSize)
           g == objects[a].band
           ids == bands[g].ids
           at(k) == objects[ids[k]].placement
<1>1. g \in DOMAIN bands /\ \E ka, kb \in DOMAIN ids : ids[ka] = a /\ ids[kb] = b
  BY DEF Fits, InItsBand
<1>2. bands[g] \in Bands
  BY <1>1
<1>3. ids \in Seq(Ids) /\ DOMAIN ids = 1..Len(ids) /\ Len(ids) \in Nat
  <2>1. ids \in Seq(Ids)
    BY <1>2 DEF Bands
  <2>q. QED
    BY <2>1, LenProperties
<1>4. \A k \in DOMAIN ids : ids[k] \in S
  BY <1>1 DEF Fits, Holds
<1>5. \A k \in DOMAIN ids : k # 1 => \E j \in 1..(k - 1) : Touch(at(k), at(j), gap)
  BY <1>1, SMTT(30) DEF Fits, Linked
<1>6. \A k, j : Touch(at(k), at(j), gap) => Touch(at(j), at(k), gap)
  BY DEF Touch
<1> HIDE DEF g, gap, ids
<1>7. ASSUME NEW A \in SUBSET S, a \in A, b \notin A
      PROVE  \E x \in A, y \in S \ A : Touch(objects[x].placement, objects[y].placement, gap)
  <2>1. CASE ids[1] \in A
    <3> DEFINE K == {k \in DOMAIN ids : ids[k] \notin A}
    <3>1. K \in SUBSET Nat /\ K # {}
      BY <1>1, <1>3, <1>7
    <3>2. PICK k \in K : \A j \in K : k <= j
      BY <3>1, LeastNumber
    <3>3. PICK j \in 1..(k - 1) : Touch(at(k), at(j), gap)
      BY <1>5, <2>1, <3>2
    <3>4. j \in DOMAIN ids /\ j \notin K
      BY <1>3, <3>2, <3>3
    <3>5. ids[j] \in A /\ ids[k] \in S \ A
      BY <1>4, <3>2, <3>4
    <3>q. QED
      BY <1>6, <3>3, <3>5
  <2>2. CASE ids[1] \notin A
    <3> DEFINE K == {k \in DOMAIN ids : ids[k] \in A}
    <3>1. K \in SUBSET Nat /\ K # {}
      BY <1>1, <1>3, <1>7
    <3>2. PICK k \in K : \A j \in K : k <= j
      BY <3>1, LeastNumber
    <3>3. PICK j \in 1..(k - 1) : Touch(at(k), at(j), gap)
      BY <1>5, <2>2, <3>2
    <3>4. j \in DOMAIN ids /\ j \notin K
      BY <1>3, <3>2, <3>3
    <3>5. ids[k] \in A /\ ids[j] \in S \ A
      BY <1>4, <3>2, <3>4
    <3>q. QED
      BY <3>3, <3>5
  <2>q. QED
    BY <2>1, <2>2
<1>q. QED
  BY <1>7 DEF Connected, gap

(* Objects of two bands are not: no object down to the upper band touches  *)
(* one below it.                                                           *)
LEMMA BandsAreApart ==
    ASSUME Registered, Fits(objects, bands, bandSize), bands \in Seq(Bands), bandSize \in Sizes,
           NEW x \in DOMAIN objects, NEW y \in DOMAIN objects, objects[x].band < objects[y].band
    PROVE  /\ ~Touch(objects[x].placement, objects[y].placement, BandJoinGap(bandSize))
           /\ ~Touch(objects[y].placement, objects[x].placement, BandJoinGap(bandSize))
<1> DEFINE gap == BandJoinGap(bandSize)
           p == objects[x].placement
           q == objects[y].placement
           upper == bands[objects[x].band]
           lower == bands[objects[y].band]
<1>1. p \in Rects /\ q \in Rects
  BY DEF Registered, Runtimes
<1>2. gap \in Nat
  BY GapIsNat DEF Sizes
<1>3. objects[x].band \in DOMAIN bands /\ objects[y].band \in DOMAIN bands
  BY DEF Fits, InItsBand
<1>4. StaysIn(p, upper) /\ StaysIn(q, lower)
  BY DEF Fits, InItsBand
<1>5. upper \in Bands /\ lower \in Bands
  BY <1>3
<1>6. upper.top + upper.height + gap < lower.top
  BY <1>3 DEF Fits, Separate
<1> HIDE DEF gap, p, q, upper, lower
<1>7. /\ p.y \in Int /\ p.height \in Int /\ q.y \in Int /\ q.height \in Int
      /\ upper.top \in Int /\ upper.height \in Int /\ lower.top \in Int
  BY <1>1, <1>5 DEF Rects, Bands
<1>8. p.y + p.height + gap < q.y
  <2>1. p.y + p.height <= upper.top + upper.height /\ lower.top <= q.y
    BY <1>4, <1>7 DEF StaysIn
  <2>q. QED
    BY <2>1, <1>2, <1>6, <1>7, SMTT(30)
<1>9. ~(q.y <= p.y + p.height + gap)
  BY <1>2, <1>7, <1>8
<1>q. QED
  BY <1>9 DEF Touch, gap, p, q

(* So the objects down to the upper band cut the two apart.              *)
LEMMA BandsSeparate ==
    ASSUME Registered, Fits(objects, bands, bandSize), bands \in Seq(Bands), bandSize \in Sizes,
           NEW a \in DOMAIN objects, NEW b \in DOMAIN objects, objects[a].band # objects[b].band
    PROVE  ~Connected(DOMAIN objects, a, b, BandJoinGap(bandSize))
<1> DEFINE S == DOMAIN objects
           gap == BandJoinGap(bandSize)
<1>1. \A x \in S : objects[x].band \in Nat
  BY DEF Registered, Runtimes
<1>2. \A x, y \in S : objects[x].band < objects[y].band
         => /\ ~Touch(objects[x].placement, objects[y].placement, gap)
            /\ ~Touch(objects[y].placement, objects[x].placement, gap)
  BY BandsAreApart
<1> HIDE DEF gap
<1>3. ASSUME NEW A \in SUBSET S, a \in A, b \notin A, Connected(S, a, b, gap)
      PROVE  \E x \in A, y \in S \ A : Touch(objects[x].placement, objects[y].placement, gap)
  BY <1>3 DEF Connected
<1>4. CASE objects[a].band < objects[b].band
  <2> DEFINE A == {x \in S : objects[x].band <= objects[a].band}
  <2>1. A \in SUBSET S /\ a \in A /\ b \notin A
    BY <1>1, <1>4
  <2>2. \A x \in A, y \in S \ A : objects[x].band < objects[y].band
    BY <1>1
  <2> HIDE DEF A
  <2>q. QED
    BY <1>2, <1>3, <2>1, <2>2 DEF gap
<1>5. CASE objects[b].band < objects[a].band
  <2> DEFINE A == {x \in S : objects[a].band <= objects[x].band}
  <2>1. A \in SUBSET S /\ a \in A /\ b \notin A
    BY <1>1, <1>5
  <2>2. \A x \in A, y \in S \ A : objects[y].band < objects[x].band
    BY <1>1
  <2> HIDE DEF A
  <2>q. QED
    BY <1>2, <1>3, <2>1, <2>2 DEF gap
<1>6. objects[a].band \in Nat /\ objects[b].band \in Nat
  BY <1>1
<1>q. QED
  BY <1>4, <1>5, <1>6

(* A layout is sound: the bands are the groups of objects that touch, they *)
(* hold their objects and do not overlap, and what the hardware reads and  *)
(* writes for a frame that composite() returned is inside the buffers.     *)
THEOREM OsdLayoutIsSound == OsdSpec => []LayoutIsSound
<1>1. ASSUME OsdInv PROVE BandsPartition
  <2> SUFFICES ASSUME order # <<>>, ~layoutDirty, ~torn PROVE BandsPartition
    BY DEF BandsPartition
  <2>1. Registered /\ bands \in Seq(Bands) /\ bandSize \in Sizes /\ Fits(objects, bands, bandSize)
    BY <1>1 DEF OsdInv, OsdTypeOK
  <2>2. \A a, b \in DOMAIN objects :
           objects[a].band = objects[b].band <=> Connected(DOMAIN objects, a, b, BandJoinGap(bandSize))
    <3> TAKE a, b \in DOMAIN objects
    <3>1. CASE objects[a].band = objects[b].band
      BY <2>1, <3>1, BandIsConnected
    <3>2. CASE objects[a].band # objects[b].band
      BY <2>1, <3>2, BandsSeparate
    <3>q. QED
      BY <3>1, <3>2
  <2>3. \A a \in DOMAIN objects : StaysIn(objects[a].placement, bands[objects[a].band])
    BY <2>1 DEF Fits, InItsBand
  <2>4. Separate(bands, BandJoinGap(bandSize))
    BY <2>1 DEF Fits
  <2>q. QED
    BY <2>2, <2>3, <2>4 DEF BandsPartition, Separate
<1>2. ASSUME OsdInv PROVE WritesStayInBuffers
  <2> SUFFICES ASSUME fresh PROVE WritesStayInBuffers
    BY DEF WritesStayInBuffers
  <2>1. ASSUME ~torn, NEW b \in DOMAIN bands, NEW d \in bands[b].drawn
        PROVE  IsInside(d.rect, source) /\ StaysIn(d.rect, bands[b])
    <3>1. order # <<>>
      BY <1>2, <2>1 DEF OsdInv
    <3>2. Fits(objects, bands, bandSize) /\ bandSize = Size(source)
      BY <1>2, <2>1, <3>1 DEF OsdInv, FreshInv
    <3>3. IsInside(d.rect, Size(source)) /\ StaysIn(d.rect, bands[b])
      BY <2>1, <3>2 DEF Fits, DrawnRight
    <3>q. QED
      BY <3>3 DEF IsInside, Size
  <2>q. QED
    BY <1>2, <2>1 DEF OsdInv, FreshInv, InBuffer, WritesStayInBuffers
<1>3. OsdInv => LayoutIsSound
  BY <1>1, <1>2 DEF LayoutIsSound
<1>q. QED
  BY <1>3, OsdInvHolds, PTL
-----------------------------------------------------------------------------
(* A frame that is shown: one picture for every object, of its text.       *)
LEMMA OnePictureEach ==
    ASSUME Registered, bands \in Seq(Bands), Fits(objects, bands, bandSize),
           \A b \in DOMAIN bands : ~bands[b].dirty
    PROVE  Cardinality(Drawings) = Len(order)
<1> DEFINE S == DOMAIN objects
           N == 1..Len(order)
           D == Drawings
           f == [i \in N |-> CHOOSE d \in D : d.id = order[i]]
<1>1. /\ Len(order) \in Nat /\ DOMAIN order = N /\ {order[i] : i \in DOMAIN order} = S
      /\ \A i, j \in N : order[i] = order[j] => i = j
  BY LenProperties DEF Registered
<1>2. \A b \in DOMAIN bands : \A k \in DOMAIN bands[b].ids :
         bands[b].ids[k] \in S /\ objects[bands[b].ids[k]].band = b
  BY DEF Fits, Holds
<1>3. \A b \in DOMAIN bands :
         /\ \A d \in bands[b].drawn : \E k \in DOMAIN bands[b].ids : bands[b].ids[k] = d.id
         /\ \A k \in DOMAIN bands[b].ids : \E d \in bands[b].drawn : d.id = bands[b].ids[k]
         /\ \A c, d \in bands[b].drawn : c.id = d.id => c = d
  BY DEF Fits, DrawnRight
<1>4. \A id \in S : \E b \in DOMAIN bands : \E k \in DOMAIN bands[b].ids : bands[b].ids[k] = id
  BY DEF Fits, InItsBand
<1>5. \A d : d \in D <=> \E b \in DOMAIN bands : d \in bands[b].drawn
  BY DEF Drawings
<1> HIDE DEF D, N, S
<1>6. \A i \in N : \E d \in D : d.id = order[i]
  <2> TAKE i \in N
  <2>1. order[i] \in S
    BY <1>1
  <2>q. QED
    BY <1>3, <1>4, <1>5, <2>1
<1>7. \A c, d \in D : c.id = d.id => c = d
  <2> SUFFICES ASSUME NEW c \in D, NEW d \in D, c.id = d.id PROVE c = d
    OBVIOUS
  <2>1. PICK b1 \in DOMAIN bands : c \in bands[b1].drawn
    BY <1>5
  <2>2. PICK b2 \in DOMAIN bands : d \in bands[b2].drawn
    BY <1>5
  <2>3. objects[c.id].band = b1 /\ objects[d.id].band = b2
    BY <1>2, <1>3, <2>1, <2>2
  <2>q. QED
    BY <1>3, <2>1, <2>2, <2>3
<1>8. \A i \in N : f[i] \in D /\ f[i].id = order[i]
  BY <1>6
<1> HIDE DEF f
<1>9. f \in Bijection(N, D)
  <2>1. f \in [N -> D]
    BY <1>8 DEF f
  <2>2. \A i, j \in N : f[i] = f[j] => i = j
    BY <1>1, <1>8
  <2>3. \A d \in D : \E i \in N : f[i] = d
    <3> TAKE d \in D
    <3>1. d.id \in S
      BY <1>2, <1>3, <1>5
    <3>2. PICK i \in N : order[i] = d.id
      BY <1>1, <3>1
    <3>q. QED
      BY <1>7, <1>8, <3>2
  <2>q. QED
    BY <2>1, <2>2, <2>3 DEF Bijection, Injection, Surjection, IsInjective
<1>10. IsFiniteSet(N) /\ Cardinality(N) = Len(order)
  BY <1>1, CountIsNat, CountOfAll DEF N
<1>11. ExistsBijection(N, D)
  BY <1>9 DEF ExistsBijection
<1>q. QED
  BY <1>10, <1>11, FS_Bijection DEF D

(* The picture of an object whose text renders is what was asked for.    *)
LEMMA PictureOfText ==
    ASSUME Registered, source \in VideoFrames, Rendered(objects), bands \in Seq(Bands),
           Fits(objects, bands, Size(source)), \A b \in DOMAIN bands : ~bands[b].dirty,
           NEW id \in DOMAIN objects, Glyphs[objects[id].object.text] > 0
    PROVE  LET c == objects[id].object
               px == LargerOf(1, ScaleDesignPixels(c.px, source))
               asked == [bitmap |-> RenderText(c.text, px), object |-> c]
           IN  \E d \in Drawings : /\ d.id = id /\ d.text = c.text /\ d.color = c.color /\ d.px = px
                                /\ d.rect.y = Placement(asked, source).y
<1> DEFINE o == objects[id]
           c == o.object
           px == LargerOf(1, ScaleDesignPixels(c.px, source))
           asked == [bitmap |-> RenderText(c.text, px), object |-> c]
           d == Drawing(id, o)
<1>1. o \in Runtimes /\ o.bitmap = RenderText(c.text, o.px)
  BY DEF Registered, Rendered
<1>2. c.text \in DOMAIN Glyphs /\ o.px \in Nat
  BY <1>1 DEF Runtimes, TextObjects
<1>3. /\ o.px = LargerOf(1, ScaleDesignPixels(c.px, Size(source)))
      /\ o.placement.y = Placement(o, Size(source)).y
  BY DEF Fits, AsConfigured
<1>4. /\ ScaleDesignPixels(c.px, source) = ScaleDesignPixels(c.px, Size(source))
      /\ Placement(o, source) = Placement(o, Size(source))
  BY SizeMatters DEF Size
<1>5. o.px = px
  BY <1>3, <1>4
<1>6. o.bitmap.text = c.text
  BY <1>1, <1>2, BitmapIsRendered
<1>7. d \in Drawings
  <2>1. PICK b \in DOMAIN bands : \E k \in DOMAIN bands[b].ids : bands[b].ids[k] = id
    BY DEF Fits, InItsBand
  <2>2. d \in bands[b].drawn
    BY <2>1 DEF Fits, DrawnRight
  <2>q. QED
    BY <2>1, <2>2 DEF Drawings
<1> HIDE DEF o, px
<1>8. asked.object = o.object /\ asked.bitmap = o.bitmap
  BY <1>1, <1>5
<1> HIDE DEF asked
<1>9. Placement(asked, source) = Placement(o, source)
  BY <1>8, PlacementOfSame
<1>10. d.id = id /\ d.text = c.text /\ d.color = c.color /\ d.px = px /\ d.rect.y = Placement(asked, source).y
  BY <1>3, <1>4, <1>5, <1>6, <1>9 DEF Drawing
<1> HIDE DEF d
<1>q. QED
  BY <1>7, <1>10 DEF o, px, asked

(* A frame that composite() returned shows every object as its last update *)
(* asked for, and nothing else.                                            *)
THEOREM OsdShowsWhatWasAsked == OsdSpec => []ShowsWhatWasAsked
<1>1. ASSUME OsdInv PROVE ShowsWhatWasAsked
  <2> SUFFICES ASSUME fresh, ~torn PROVE ShowsWhatWasAsked
    BY DEF ShowsWhatWasAsked
  <2>1. /\ Registered /\ source \in VideoFrames /\ Rendered(objects) /\ bands \in Seq(Bands)
        /\ \A b \in DOMAIN bands : ~bands[b].dirty
    BY <1>1 DEF OsdInv, OsdTypeOK, FreshInv
  <2>2. CASE order = <<>>
    <3>1. bands = <<>>
      BY <1>1, <2>2 DEF OsdInv
    <3>2. Drawings = {} /\ DOMAIN objects = {} /\ Len(order) = 0
      BY <2>1, <2>2, <3>1 DEF Drawings, Registered
    <3>3. Cardinality(Drawings) = 0
      BY <3>2, FS_EmptySet
    <3>q. QED
      BY <3>2, <3>3 DEF ShowsWhatWasAsked
  <2>3. CASE order # <<>>
    <3>1. Fits(objects, bands, bandSize) /\ bandSize = Size(source)
      BY <1>1, <2>3 DEF OsdInv, FreshInv
    <3>2. Cardinality(Drawings) = Len(order)
      BY <2>1, <3>1, OnePictureEach
    <3>q. QED
      BY <2>1, <3>1, <3>2, PictureOfText DEF ShowsWhatWasAsked
  <2>q. QED
    BY <2>2, <2>3
<1>2. OsdInv => ShowsWhatWasAsked
  BY <1>1
<1>q. QED
  BY <1>2, OsdInvHolds, PTL
=============================================================================
