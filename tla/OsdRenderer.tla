----------------------------- MODULE OsdRenderer -----------------------------
(***************************************************************************)
(* OsdRenderer: text objects, the bands they are drawn into and composite(), *)
(* with the allocator and the RGA calls it makes. Every public operation   *)
(* holds m_mutex, so each is one step. FreeType, the hardware and the      *)
(* kernel are external. The font file that was opened once opens again.    *)
(***************************************************************************)
EXTENDS RgaEngine, DmaAllocator, SequencesExt

CONSTANTS Ids,          \* names of text objects
          Objects,      \* for an id, the configurations callers give it
          Glyphs,       \* the glyphs of a text, 0 if it is not valid
          RectangleSets, LineWidth,  \* what setRectangles() is called with
          Calls,        \* the rga() calls that make the source frames
          Nodes,        \* the heaps and DRM nodes, in the order they are tried
          DesignWidth, DesignHeight,
          MaxCalls,     \* updates, rectangles and source frames, a bound
          MaxFaults     \* failures of the kernel and the hardware, a bound

ASSUME OsdRendererAssumption ==
    /\ DesignWidth \in Nat \ {0} /\ DesignHeight \in Nat \ {0}
    /\ MaxCalls \in Nat /\ MaxFaults \in Nat
    /\ Nodes \in Seq({"heap", "drm"})

(* The text of no bitmap.                                                  *)
NoText == "none"

(* What validateTextObject() accepts, and the frames a caller has.         *)
TextObjects == [text : DOMAIN Glyphs, anchor : STRING, x : Nat, y : Nat, px : Nat \ {0},
                paddingX : Nat, paddingY : Nat, color : STRING]

ASSUME InputsAssumption ==
    /\ NoText \notin DOMAIN Glyphs /\ \A text \in DOMAIN Glyphs : Glyphs[text] \in Nat
    /\ \A id \in Ids : Objects[id] \subseteq TextObjects
    /\ \A call \in Calls : call \in [src : VideoFrames, dst : VideoFrames, op : Operations]

VARIABLES
    osdInitialized, \* m_initialized
    objects,       \* m_textObjects
    order,         \* m_textObjectOrder
    bands,         \* m_overlayBands
    bandSize,      \* m_bandVideoWidth and m_bandVideoHeight
    layoutDirty,   \* m_bandLayoutDirty
    rectangles,    \* m_rectangles
    source,        \* the frame composite() is called with
    destination,   \* and the output frame of the caller
    fresh,         \* composite() returned true and nothing was changed since
    torn,          \* a relayout failed while the old layout stayed in use
    inKernel,      \* what the memories hold in the kernel
    callsLeft, faultsLeft

callers == <<source, destination>>
layout  == <<bands, bandSize, layoutDirty, torn, inKernel>>
osdVars == <<osdInitialized, objects, order, rectangles, callers, layout, fresh, callsLeft,
          faultsLeft>>

NoFrame == [format |-> "NV12", capacity |-> 0, width |-> 0, height |-> 0, stride |-> 0,
            heightStride |-> 0]
NoSize == [width |-> 0, height |-> 0]

OsdInit ==
    /\ osdInitialized = FALSE /\ objects = <<>> /\ order = <<>>
    /\ bands = <<>> /\ bandSize = NoSize /\ layoutDirty = TRUE
    /\ rectangles = {} /\ source = NoFrame /\ destination = NoFrame
    /\ fresh = FALSE /\ torn = FALSE /\ inKernel = Nothing
    /\ callsLeft = MaxCalls /\ faultsLeft = MaxFaults

Call == callsLeft > 0 /\ callsLeft' = callsLeft - 1
-----------------------------------------------------------------------------
(* FreeTypeTextRenderer: a text that decodes gives a bitmap as wide as its *)
(* glyphs and as high as the font; else the bitmap is empty.               *)
NoBitmap == [text |-> NoText, width |-> 0, height |-> 0]
RenderText(text, px) ==
    IF Glyphs[text] = 0 THEN NoBitmap
    ELSE [text |-> text, width |-> (Glyphs[text] * px + 1) \div 2, height |-> px]

(* The scale is that of the smaller ratio; a product is rounded.           *)
ScaleDesignPixels(v, frame) ==
    LET narrow == frame.width * DesignHeight <= frame.height * DesignWidth
        n == IF narrow THEN frame.width ELSE frame.height
        d == IF narrow THEN DesignWidth ELSE DesignHeight
    IN  (2 * v * n + d) \div (2 * d)

(* The bitmap at the font size of the source; a new one moves its object.  *)
EnsureTextBitmap(o, frame) ==
    LET scaled == ScaleDesignPixels(o.object.px, frame)
        px == IF scaled < 1 THEN 1 ELSE scaled
        bitmap == RenderText(o.object.text, px)
    IN  IF o.bitmap # NoBitmap /\ o.px = px THEN o
        ELSE [o EXCEPT !.px = px, !.bitmap = bitmap,
                       !.placementDirty = @ \/ bitmap # NoBitmap]

(* Where an object with its bitmap goes: padded, at its anchor, aligned.   *)
Placement(o, frame) ==
    LET S(v) == ScaleDesignPixels(v, frame)
        c == o.object
        w == AlignUp(o.bitmap.width + 2 * S(c.paddingX), 16)
        h == AlignUp(o.bitmap.height + 2 * S(c.paddingY), 2)
        fromRight == c.anchor \in {"TopRight", "BottomRight"}
        fromBottom == c.anchor \in {"BottomLeft", "BottomRight"}
    IN  [x |-> AlignDown(IF fromRight THEN frame.width - S(c.x) - w ELSE S(c.x), 2),
         y |-> AlignDown(IF fromBottom THEN frame.height - S(c.y) - h ELSE S(c.y), 2),
         width |-> w, height |-> h]

(* calculatePlacementLocked() fails without a bitmap or outside the video. *)
HasPlace(o, frame) ==
    LET e == EnsureTextBitmap(o, frame)
    IN  e.bitmap # NoBitmap /\ IsInside(Placement(e, frame), frame)
-----------------------------------------------------------------------------
(* initialize() forgets everything; the bands give their memories back.    *)
MemoriesOf(bs) == [i \in DOMAIN bs |-> bs[i].memory]

Initialize ==
    /\ osdInitialized' = TRUE
    /\ objects' = <<>> /\ order' = <<>> /\ rectangles' = {}
    /\ bands' = <<>> /\ bandSize' = NoSize /\ layoutDirty' = TRUE /\ torn' = FALSE
    /\ inKernel' = ResetAll(inKernel, MemoriesOf(bands))
    /\ fresh' = FALSE
    /\ UNCHANGED <<callers, callsLeft, faultsLeft>>

(* A new object is rendered at the design size, whatever the video is; one *)
(* whose text does not render is not added.                                *)
AddTextObject(id, c) ==
    /\ osdInitialized /\ id \notin DOMAIN objects /\ Glyphs[c.text] > 0
    /\ LET new == [object |-> c, bitmap |-> RenderText(c.text, c.px), px |-> c.px,
                   placement |-> NoCrop, band |-> 0, placementDirty |-> TRUE]
       IN  objects' = [x \in DOMAIN objects \union {id} |-> IF x = id THEN new ELSE objects[x]]
    /\ order' = Append(order, id)
    /\ layoutDirty' = TRUE /\ fresh' = FALSE
    /\ UNCHANGED <<osdInitialized, bands, bandSize, torn, inKernel, rectangles, callers, callsLeft,
                   faultsLeft>>

(* The object with the new configuration, its bitmap rendered again when   *)
(* the text or the font changed: at the design size if the font did.       *)
Reconfigured(o, c) ==
    LET px == IF c.px # o.object.px THEN c.px ELSE o.px
        changed == c.px # o.object.px \/ c.text # o.object.text
    IN  [o EXCEPT !.object = c, !.px = px,
                  !.bitmap = IF changed THEN RenderText(c.text, px) ELSE @]

Refused(o, c) ==
    Reconfigured(o, c).bitmap = NoBitmap /\ (c.px # o.object.px \/ c.text # o.object.text)

MovesVertically(o, c) ==
    \/ <<o.object.anchor, o.object.y, o.object.paddingY, o.object.px>>
         # <<c.anchor, c.y, c.paddingY, c.px>>
    \/ o.bitmap.height # Reconfigured(o, c).bitmap.height

MovesHorizontally(o, c) ==
    <<o.object.text, o.object.x, o.object.paddingX>> # <<c.text, c.x, c.paddingX>>

MarkNothing(o) == UNCHANGED <<bands, layoutDirty>>

(* markObjectBandDirtyLocked().                                            *)
MarkBandDirty(o) ==
    IF o.band \in DOMAIN bands
    THEN bands' = [bands EXCEPT ![o.band].dirty = TRUE] /\ UNCHANGED layoutDirty
    ELSE layoutDirty' = TRUE /\ UNCHANGED bands

(* The new configuration stays when its text does not render.              *)
UpdateTextObject(id, c) ==
    /\ Call /\ osdInitialized /\ id \in DOMAIN objects
    /\ LET o == objects[id] IN
       \/ /\ Refused(o, c)
          /\ objects' = [objects EXCEPT ![id] = Reconfigured(o, c)]
          /\ UNCHANGED <<bands, layoutDirty>>
       \/ /\ ~Refused(o, c) /\ MovesVertically(o, c)
          /\ objects' = [objects EXCEPT ![id] = [Reconfigured(o, c) EXCEPT !.placementDirty = TRUE]]
          /\ layoutDirty' = TRUE /\ UNCHANGED bands
       \/ /\ ~Refused(o, c) /\ ~MovesVertically(o, c)
          /\ objects' = [objects EXCEPT ![id] =
                            [Reconfigured(o, c) EXCEPT !.placementDirty = MovesHorizontally(o, c)]]
          /\ MarkBandDirty(o)
    /\ fresh' = FALSE
    /\ UNCHANGED <<osdInitialized, order, bandSize, torn, inKernel, rectangles, callers,
                   faultsLeft>>

SetRectangles(rs) ==
    /\ Call /\ rectangles' = rs /\ fresh' = FALSE
    /\ UNCHANGED <<osdInitialized, objects, order, callers, layout, faultsLeft>>

(* The caller: a source frame that rga() made from a raw one, and an output*)
(* frame allocated for the layout of the first source.                     *)
NextFrame(call) ==
    LET made == Rga(call.src, call.dst, call.op)
        bytes == LET s == EffectiveStride(made.dst) IN
                 BufferSizeFor("NV12", AlignedStride("NV12", s, 64),
                               AlignedHeightStride("NV12", EffectiveHeightStride(made.dst)))
    IN  /\ Call /\ made.accepted /\ source # made.dst
        /\ source' = made.dst
        /\ destination' = IF destination = NoFrame THEN [made.dst EXCEPT !.capacity = bytes]
                          ELSE destination
        /\ fresh' = FALSE
        /\ UNCHANGED <<osdInitialized, objects, order, rectangles, layout, faultsLeft>>
-----------------------------------------------------------------------------
(* rebuildBandLayoutLocked().                                              *)
BandJoinGap(frame) == ScaleDesignPixels(16, frame)

(* The objects after their bitmaps were ensured, up to the first of the    *)
(* order that has no place.                                                *)
WithoutPlace == {i \in DOMAIN order : ~HasPlace(objects[order[i]], source)}

Ensured ==
    LET lost == WithoutPlace
        tried == {order[i] : i \in {k \in DOMAIN order : \A j \in lost : k <= j}}
    IN  [id \in DOMAIN objects |-> IF id \in tried THEN EnsureTextBitmap(objects[id], source)
                                   ELSE objects[id]]

(* From the top down, and in the order they were added.                    *)
PlaceOf(ensured, i) == Placement(ensured[order[i]], source)
Above(ensured, i, j) ==
    \/ PlaceOf(ensured, i).y < PlaceOf(ensured, j).y
    \/ PlaceOf(ensured, i).y = PlaceOf(ensured, j).y /\ i < j

LargerOf(a, b) == IF a > b THEN a ELSE b
BottomOf(bandBottom, itemBottom) == LargerOf(bandBottom, itemBottom)

(* An item opens a band unless it is within the gap of the last one.       *)
JoinBands(bs, id, place) ==
    LET bottom == place.y + place.height
        last == bs[Len(bs)]
    IN  IF bs = <<>> \/ place.y > last.bottom + BandJoinGap(source)
        THEN Append(bs, [top |-> place.y, bottom |-> bottom, ids |-> <<id>>])
        ELSE [bs EXCEPT ![Len(bs)] = [top |-> last.top, bottom |-> BottomOf(last.bottom, bottom),
                                      ids |-> Append(last.ids, id)]]

JoinTopmost(ensured, joined) ==
    LET i == CHOOSE k \in joined.rest : \A j \in joined.rest \ {k} : Above(ensured, k, j)
    IN  [bands |-> JoinBands(joined.bands, order[i], PlaceOf(ensured, i)),
         rest |-> joined.rest \ {i}]

JoinedBands(ensured) ==
    LET joined[n \in 0..Len(order)] ==
            IF n = 0 THEN [bands |-> <<>>, rest |-> DOMAIN order]
            ELSE JoinTopmost(ensured, joined[n - 1])
    IN  joined[Len(order)].bands

Grouped(ensured) ==
    LET bs == JoinedBands(ensured)
    IN  [i \in DOMAIN bs |-> [top |-> AlignDown(bs[i].top, 2),
                              height |-> AlignUp(bs[i].bottom - bs[i].top, 2),
                              ids |-> bs[i].ids]]

(* The objects of the first n groups know their place and their band.      *)
Placed(ensured, groups, n) ==
    LET BandOf(id) == SelectInSubSeq(groups, 1, n, LAMBDA g : id \in ToSet(g.ids))
        place(o, i) == [o EXCEPT !.placement = Placement(o, source), !.band = i,
                                 !.placementDirty = FALSE]
    IN  [id \in DOMAIN ensured |-> IF BandOf(id) = 0 THEN ensured[id]
                                   ELSE place(ensured[id], BandOf(id))]

(* What composite() asks of its frames first.                              *)
CanComposite ==
    osdInitialized /\ source # NoFrame /\ source.format = "NV12" /\ destination.format = "NV12"

NeedsLayout ==
    order # <<>> /\ (layoutDirty \/ bandSize # [width |-> source.width, height |-> source.height])

(* An object without a place, or a band without memory: composite() fails. *)
RelayoutFails ==
    /\ CanComposite /\ NeedsLayout
    /\ \/ /\ WithoutPlace # {}
          /\ objects' = Ensured /\ UNCHANGED <<inKernel, faultsLeft>>
       \/ /\ faultsLeft > 0 /\ faultsLeft' = faultsLeft - 1 /\ WithoutPlace = {}
          /\ LET ensured == Ensured
                 groups == Grouped(ensured)
             IN  \E n \in DOMAIN groups, a \in Allocate(Nodes) :
                    /\ a.memory = NoMemory
                    /\ objects' = Placed(ensured, groups, n)
                    /\ inKernel' = [t \in Things |-> inKernel[t] + a.left[t]]
    /\ torn' = (torn \/ ~layoutDirty) /\ fresh' = FALSE
    /\ UNCHANGED <<osdInitialized, order, bands, bandSize, layoutDirty, rectangles, callers,
                   callsLeft>>

(* What a relayout makes: every band has its memory, and the old bands are *)
(* destroyed.                                                              *)
Relaid(ensured, groups, a) ==
    LET freed == ResetAll(inKernel, MemoriesOf(bands))
        band(g) == [top |-> g.top, height |-> g.height, ids |-> g.ids, dirty |-> TRUE,
                    drawn |-> {}, memory |-> a.memory]
    IN  [objects |-> Placed(ensured, groups, Len(groups)),
         bands |-> [i \in DOMAIN groups |-> band(groups[i])],
         kernel |-> [t \in Things |-> freed[t] + Len(groups) * a.left[t]],
         torn |-> FALSE, dirty |-> FALSE,
         size |-> [width |-> source.width, height |-> source.height]]

Relayout ==
    IF ~NeedsLayout
    THEN {[objects |-> objects, bands |-> bands, kernel |-> inKernel, torn |-> torn,
           dirty |-> layoutDirty, size |-> bandSize]}
    ELSE IF WithoutPlace # {} THEN {}
    ELSE LET ensured == Ensured
             groups == Grouped(ensured)
         IN  {Relaid(ensured, groups, a) : a \in {x \in Allocate(Nodes) : x.memory # NoMemory}}
-----------------------------------------------------------------------------
(* renderBandLocked() draws the objects of a band, each at its place; an   *)
(* object whose placement is dirty is placed again first.                  *)
PlacedAgain(o) ==
    IF ~o.placementDirty THEN o
    ELSE LET e == EnsureTextBitmap(o, source)
         IN  [e EXCEPT !.placement = Placement(e, source), !.placementDirty = FALSE]

StaysIn(rect, band) ==
    rect.y >= band.top /\ rect.y + rect.height <= band.top + band.height

CanDraw(o, band) ==
    o.placementDirty => HasPlace(o, source) /\ StaysIn(PlacedAgain(o).placement, band)

Drawing(id, o) == [id |-> id, text |-> o.bitmap.text, color |-> o.object.color,
                   px |-> o.px, rect |-> o.placement]

(* The place of the first object of band b that cannot be drawn.           *)
Blocked(lay, b) ==
    LET band == lay.bands[b]
    IN  IF ~band.dirty THEN 0
        ELSE SelectInSeq(band.ids, LAMBDA id : ~CanDraw(lay.objects[id], band))

OverlayFrame(band, frame) ==
    [format |-> "RGBA8888", capacity |-> frame.width * band.height * 4, width |-> frame.width,
     height |-> band.height, stride |-> frame.width, heightStride |-> band.height]

BandRect(band, frame) ==
    [x |-> 0, y |-> band.top, width |-> frame.width, height |-> band.height]

(* Band b is drawn and RGA takes it.                                       *)
Takes(lay, b, output) ==
    LET band == lay.bands[b]
    IN  /\ Blocked(lay, b) = 0
        /\ Composite(source, OverlayFrame(band, source), output, BandRect(band, source),
                     [BandRect(band, source) EXCEPT !.y = 0])

(* The objects of band b that are placed again before one blocks it.       *)
BeforeBlock(lay, b) == {lay.bands[b].ids[i] : i \in 1..(Blocked(lay, b) - 1)}

(* The objects when the first n bands and those of part are drawn.         *)
ObjectsAfter(lay, n, part) ==
    LET drawn == UNION {ToSet(lay.bands[b].ids) :
                          b \in {k \in DOMAIN lay.bands : k <= n /\ lay.bands[k].dirty}}
    IN  [id \in DOMAIN lay.objects |-> IF id \in drawn \union part THEN PlacedAgain(lay.objects[id])
                                       ELSE lay.objects[id]]

BandsAfter(lay, n) ==
    [b \in DOMAIN lay.bands |->
        IF b > n \/ ~lay.bands[b].dirty THEN lay.bands[b]
        ELSE [lay.bands[b] EXCEPT !.dirty = FALSE,
                  !.drawn = {Drawing(id, PlacedAgain(lay.objects[id])) : id \in ToSet(lay.bands[b].ids)}]]

LineWidthFor(frame) == LargerOf(1, ScaleDesignPixels(LineWidth, frame))

(* composite() after the layout: the base copy, the bands from the top, the*)
(* rectangles. It ends early when a band cannot be drawn, when RGA refuses *)
(* one that was drawn, or when the hardware or a sync of a buffer fails: a *)
(* band that was drawn is still dirty if the sync after it failed.         *)
CompositeFrame ==
    /\ CanComposite
    /\ \E lay \in Relayout :
       LET base == Copy(source, destination)
           count == Len(lay.bands)
           refused == SelectInSeq([b \in DOMAIN lay.bands |-> b], LAMBDA b : ~Takes(lay, b, base.dst))
           blocked == refused # 0 /\ Blocked(lay, refused) # 0
           drawn == CASE ~base.accepted -> 0
                      [] base.accepted /\ refused = 0 -> count
                      [] base.accepted /\ refused # 0 -> IF blocked THEN refused - 1 ELSE refused
           part == IF base.accepted /\ blocked THEN BeforeBlock(lay, refused) ELSE {}
           done == base.accepted /\ refused = 0
                   /\ DrawRectangles(base.dst, rectangles, LineWidthFor(source))
       IN  /\ \/ /\ fresh' = done /\ UNCHANGED faultsLeft
                 /\ objects' = ObjectsAfter(lay, drawn, part) /\ bands' = BandsAfter(lay, drawn)
              \/ /\ faultsLeft > 0 /\ faultsLeft' = faultsLeft - 1 /\ fresh' = FALSE
                 /\ \E m \in 0..drawn :
                       /\ objects' = ObjectsAfter(lay, m, {})
                       /\ \E synced \in {m, m - 1} : bands' = BandsAfter(lay, synced)
           /\ destination' = base.dst
           /\ bandSize' = lay.size /\ layoutDirty' = lay.dirty
           /\ torn' = lay.torn /\ inKernel' = lay.kernel
    /\ UNCHANGED <<osdInitialized, order, rectangles, source, callsLeft>>

OsdNext ==
    \/ Initialize
    \/ \E id \in Ids : \E c \in Objects[id] : AddTextObject(id, c) \/ UpdateTextObject(id, c)
    \/ \E rs \in RectangleSets : SetRectangles(rs)
    \/ \E call \in Calls : NextFrame(call)
    \/ RelayoutFails
    \/ CompositeFrame

OsdSpec == OsdInit /\ [][OsdNext]_osdVars
-----------------------------------------------------------------------------
(* A frame that composite() returned shows every object as its last update *)
(* asked for, text, colour, font size and height in the video, unless its  *)
(* text does not render; and nothing else. (Until a relayout for another   *)
(* video size fails: the objects then have the places of that size.)       *)
Drawings == UNION {bands[b].drawn : b \in DOMAIN bands}

ShowsWhatWasAsked ==
    fresh /\ ~torn =>
        /\ Cardinality(Drawings) = Len(order)
        /\ \A id \in DOMAIN objects : Glyphs[objects[id].object.text] > 0 =>
             LET c == objects[id].object
                 px == LargerOf(1, ScaleDesignPixels(c.px, source))
                 asked == [bitmap |-> RenderText(c.text, px), object |-> c]
             IN  \E d \in Drawings : /\ d.id = id /\ d.text = c.text /\ d.color = c.color /\ d.px = px
                                  /\ d.rect.y = Placement(asked, source).y

(* The same of frames after a relayout that failed.                        *)
ShowsAfterFailure ==
    fresh => \A d \in {x \in Drawings : x.text # NoText} :
        d.rect.y = Placement([bitmap |-> RenderText(d.text, d.px), object |-> objects[d.id].object],
                             source).y

(* A text is drawn where it belongs in its band, on a background as wide as*)
(* itself, after whatever updates: markObjectBandDirtyLocked() has its     *)
(* place computed again when the band is next drawn.                       *)
PlacedAnew ==
    fresh /\ ~torn => \A d \in {x \in Drawings : x.text # NoText} :
        d.rect = Placement([bitmap |-> RenderText(d.text, d.px), object |-> objects[d.id].object],
                           source)

(* The bands are the groups of objects that touch, directly or through     *)
(* others, when each is extended by the gap; they hold their objects and   *)
(* do not overlap.                                                         *)
Touch(a, b, gap) == a.y <= b.y + b.height + gap /\ b.y <= a.y + a.height + gap

Connected(S, a, b, gap) ==
    \A A \in SUBSET S : a \in A /\ b \notin A =>
        \E x \in A, y \in S \ A : Touch(objects[x].placement, objects[y].placement, gap)

BandsPartition ==
    order # <<>> /\ ~layoutDirty /\ ~torn =>
        LET S == DOMAIN objects
            gap == BandJoinGap(bandSize)
        IN  /\ \A a, b \in S : objects[a].band = objects[b].band <=> Connected(S, a, b, gap)
            /\ \A a \in S : StaysIn(objects[a].placement, bands[objects[a].band])
            /\ \A i, j \in DOMAIN bands : i < j => bands[i].top + bands[i].height + gap < bands[j].top

(* No access leaves its buffer: the last byte the hardware reads or writes *)
(* of a plane of the source or of the output is in its DMA-BUF, and the    *)
(* background of every object is inside the video and its band.            *)
LastByte(frame) ==
    LET s == EffectiveStride(frame)
        hs == EffectiveHeightStride(frame)
    IN  PlaneOffset(frame.format, s, hs, 1) + (frame.height \div 2 - 1) * s + frame.width

WritesStayInBuffers ==
    fresh =>
        /\ LastByte(source) <= source.capacity /\ LastByte(destination) <= destination.capacity
        /\ source.width = destination.width /\ source.height = destination.height
        /\ ~torn => \A b \in DOMAIN bands : \A d \in bands[b].drawn :
                        IsInside(d.rect, source) /\ StaysIn(d.rect, bands[b])

(* A layout is sound: the bands are right and no access leaves a buffer.   *)
LayoutIsSound == BandsPartition /\ WritesStayInBuffers

(* The kernel holds what the bands own and nothing else, whatever call of  *)
(* an allocation failed and whichever layouts were thrown away.            *)
NothingLeaks ==
    \A t \in Things : inKernel[t] = Cardinality({b \in DOMAIN bands : t \in bands[b].memory})
=============================================================================
