------------------------------ MODULE RgaEngine ------------------------------
(***************************************************************************)
(* The layout of a VideoFrame (VideoFrame.cpp) and what RgaEngine accepts  *)
(* and computes before it calls the hardware. A frame is a record: its     *)
(* format, the capacity of its DMA-BUF (0 without one), its visible size   *)
(* and its strides in pixels, 0 when they are not given.                   *)
(***************************************************************************)
EXTENDS Integers

PixelFormats == {"Unknown", "Auto", "NV12", "YUYV", "YUV420P", "RGBA8888", "MJPEG"}
VideoFrames == [format : PixelFormats, capacity : Nat, width : Nat, height : Nat, stride : Nat,
                heightStride : Nat]
Operations == [op : {"Auto", "Copy", "Resize", "ConvertColor"}, rotation : {0, 90, 180, 270},
               crop : [x : Nat, y : Nat, width : Nat, height : Nat]]

AlignUp(v, a) == IF a <= 1 THEN v ELSE ((v + a - 1) \div a) * a
(* Integer division of C rounds to 0.                                      *)
AlignDown(v, a) == IF v < 0 THEN -(((-v) \div a) * a) ELSE (v \div a) * a

BytesPerPixelForStride(format) ==
    CASE format \in {"NV12", "YUV420P"} -> 1
      [] format = "YUYV" -> 2
      [] format = "RGBA8888" -> 4
      [] OTHER -> 0

MinDimensionAlignment(format) == IF format \in {"NV12", "YUV420P", "YUYV"} THEN 2 ELSE 1

(* The stride in pixels whose pitch is a multiple of byteAlignment.        *)
AlignedStride(format, width, byteAlignment) ==
    LET bpp == BytesPerPixelForStride(format)
        even == AlignUp(width, MinDimensionAlignment(format))
        bytes == AlignUp(even * bpp, byteAlignment)
    IN  IF bpp = 0 \/ byteAlignment = 0 THEN even
        ELSE AlignUp((bytes + bpp - 1) \div bpp, MinDimensionAlignment(format))

AlignedHeightStride(format, height) == AlignUp(height, MinDimensionAlignment(format))

EffectiveStride(frame) == IF frame.stride > 0 THEN frame.stride ELSE frame.width
EffectiveHeightStride(frame) ==
    IF frame.heightStride > 0 THEN frame.heightStride ELSE frame.height

BufferSizeFor(format, widthStride, heightStride) ==
    CASE format \in {"NV12", "YUV420P"} -> (widthStride * heightStride * 3) \div 2
      [] format = "YUYV" -> widthStride * heightStride * 2
      [] format = "RGBA8888" -> widthStride * heightStride * 4
      [] OTHER -> 0

PlaneOffset(format, widthStride, heightStride, plane) ==
    LET ySize == widthStride * heightStride
    IN  CASE format \in {"NV12", "YUV420P"} /\ plane = 1 -> ySize
          [] format = "YUV420P" /\ plane = 2 -> ySize + ySize \div 4
          [] OTHER -> 0
-----------------------------------------------------------------------------
ToRgaFormat(format) == format \in {"NV12", "YUV420P", "YUYV", "RGBA8888"}

ValidateDmaFrame(frame) == frame.capacity > 0
ValidateFrame(frame) == ValidateDmaFrame(frame) /\ frame.width > 0 /\ frame.height > 0

RequiredSize(frame) ==
    BufferSizeFor(frame.format, EffectiveStride(frame), EffectiveHeightStride(frame))
ValidateNonEmpty(frame) == frame.capacity > 0
ValidateCapacity(frame) == RequiredSize(frame) \in 1..frame.capacity

ValidateWindowAlignment(frame, rect) ==
    \A v \in {rect.x, rect.y, rect.width, rect.height} :
        v % MinDimensionAlignment(frame.format) = 0

ValidateStrideAlignment(frame, byteAlignment) ==
    LET d == MinDimensionAlignment(frame.format)
        bpp == BytesPerPixelForStride(frame.format)
    IN  /\ bpp > 0
        /\ frame.width % d = 0 /\ frame.height % d = 0
        /\ EffectiveStride(frame) >= frame.width /\ EffectiveStride(frame) % d = 0
        /\ EffectiveHeightStride(frame) >= frame.height /\ EffectiveHeightStride(frame) % d = 0
        /\ byteAlignment > 0 => (EffectiveStride(frame) * bpp) % byteAlignment = 0

IsInside(rect, frame) ==
    /\ rect.x >= 0 /\ rect.x + rect.width <= frame.width
    /\ rect.y >= 0 /\ rect.y + rect.height <= frame.height
-----------------------------------------------------------------------------
(* rga(): op names the operation, the rotation and the crop of the source, *)
(* a rectangle without area for none.                                      *)
DefaultByteAlignment == 16
NoCrop == [x |-> 0, y |-> 0, width |-> 0, height |-> 0]
HasCrop(op) == op.crop.width > 0 /\ op.crop.height > 0

SourceWindow(src, op) ==
    IF HasCrop(op) THEN op.crop
    ELSE [x |-> 0, y |-> 0, width |-> src.width, height |-> src.height]

(* The visible size of the output: of the window, or of the destination    *)
(* for a resize, turned by a rotation.                                     *)
ComputeOutputGeometry(src, dst, op) ==
    LET window == SourceWindow(src, op)
        autoUsesDstSize == /\ op.op = "Auto" /\ ~HasCrop(op) /\ op.rotation = 0
                           /\ dst.width > 0 /\ dst.height > 0
        ofDst == op.op = "Resize" \/ autoUsesDstSize
        w == IF ofDst /\ dst.width > 0 THEN dst.width ELSE window.width
        h == IF ofDst /\ dst.height > 0 THEN dst.height ELSE window.height
    IN  IF op.rotation \in {90, 270} THEN [width |-> h, height |-> w]
        ELSE [width |-> w, height |-> h]

(* Strides that only followed the old size are given up.                   *)
ApplyOutputGeometry(dst, geometry) ==
    [dst EXCEPT !.width = geometry.width, !.height = geometry.height,
                !.stride = IF @ = dst.width THEN 0 ELSE @,
                !.heightStride = IF @ = dst.height THEN 0 ELSE @]

NormalizeDstLayout(dst) ==
    [dst EXCEPT !.stride = IF @ < dst.width \/ @ = 0
                           THEN AlignedStride(dst.format, dst.width, DefaultByteAlignment) ELSE @,
                !.heightStride = IF @ < dst.height \/ @ = 0
                                 THEN AlignedHeightStride(dst.format, dst.height) ELSE @]

OutputLayout(src, dst, op) ==
    NormalizeDstLayout(ApplyOutputGeometry(dst, ComputeOutputGeometry(src, dst, op)))

(* What is checked before the destination changes.                         *)
CallIsValid(src, dst, op) ==
    /\ ValidateFrame(src) /\ ValidateDmaFrame(dst)
    /\ op.op = "Copy" => src.format = dst.format
    /\ HasCrop(op) => IsInside(op.crop, src)

ConvertsColorOnly(src, dst, op) ==
    ~HasCrop(op) /\ op.rotation = 0 /\ src.width = dst.width /\ src.height = dst.height

(* What is checked with the new layout of the destination.                 *)
LayoutIsValid(src, dst, op) ==
    /\ ValidateWindowAlignment(src, SourceWindow(src, op))
    /\ ValidateCapacity(src) /\ ValidateCapacity(dst)
    /\ ValidateStrideAlignment(dst, DefaultByteAlignment)
    /\ ToRgaFormat(src.format) /\ ToRgaFormat(dst.format)
    /\ op.op = "ConvertColor" => ConvertsColorOnly(src, dst, op)

(* The call and the destination it leaves, changed by a refusal too.       *)
Rga(src, dst, op) ==
    LET laid == OutputLayout(src, dst, op)
    IN  IF CallIsValid(src, dst, op)
        THEN [accepted |-> LayoutIsValid(src, laid, op), dst |-> laid]
        ELSE [accepted |-> FALSE, dst |-> dst]

Copy(src, dst) == Rga(src, dst, [op |-> "Copy", rotation |-> 0, crop |-> NoCrop])

(* composite(): an RGBA overlay onto NV12, all three rectangles of a size. *)
(* A frame has no descriptor here: source and destination are different    *)
(* buffers, as all callers have it, and that test of composite() passes.   *)
Composite(source, overlay, destination, rect, overlayRect) ==
    /\ source.format = "NV12" /\ destination.format = "NV12" /\ overlay.format = "RGBA8888"
    /\ \A frame \in {source, overlay, destination} :
          /\ ValidateFrame(frame) /\ ValidateCapacity(frame)
          /\ ValidateStrideAlignment(frame, DefaultByteAlignment)
    /\ rect.width > 0 /\ rect.height > 0
    /\ rect.width = overlayRect.width /\ rect.height = overlayRect.height
    /\ IsInside(rect, source) /\ IsInside(overlayRect, overlay) /\ IsInside(rect, destination)
    /\ ValidateWindowAlignment(source, rect) /\ ValidateWindowAlignment(destination, rect)

DrawRectangles(destination, rectangles, lineWidth) ==
    \/ rectangles = {}
    \/ /\ ValidateFrame(destination) /\ ValidateCapacity(destination)
       /\ ValidateStrideAlignment(destination, DefaultByteAlignment)
       /\ lineWidth > 0
       /\ \A rect \in rectangles :
             /\ rect.width > 0 /\ rect.height > 0 /\ IsInside(rect, destination)
             /\ ValidateWindowAlignment(destination, rect)
       /\ ToRgaFormat(destination.format)
=============================================================================
