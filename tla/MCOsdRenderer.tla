--------------------------- MODULE MCOsdRenderer ---------------------------
(***************************************************************************)
(* OsdRenderer with three objects on videos of two layouts: 1080p, and an  *)
(* upright one that RGA rotates, on which the rectangle does not fit.      *)
(* Name and time are apart: they share a band only because the banner      *)
(* touches both.                                                           *)
(***************************************************************************)
EXTENDS OsdRenderer

Object(text, anchor, x, y, px, color) ==
    [text |-> text, anchor |-> anchor, x |-> x, y |-> y, px |-> px, paddingX |-> 12, paddingY |-> 8,
     color |-> color]

MCObjects ==
    [name |-> {Object("cam", "Absolute", 24, 850, 48, "orange"),
               Object("broken", "Absolute", 24, 850, 48, "orange")},
     time |-> {Object("12:00:00", "BottomRight", 24, 24, 48, "white"),
               Object("12:00:01 UTC", "BottomRight", 24, 24, 48, "red")},
     banner |-> {Object("cam", "BottomLeft", 24, 24, 200, "white")}]

MCGlyphs == [t \in {"cam", "12:00:00", "12:00:01 UTC", "broken"} |->
                CASE t = "cam" -> 3 [] t = "12:00:00" -> 8 [] t = "12:00:01 UTC" -> 12 [] OTHER -> 0]

Raw(format, w, h) ==
    [format |-> format, capacity |-> w * h * 4, width |-> w, height |-> h, stride |-> 0,
     heightStride |-> 0]
Blank == [Raw("NV12", 0, 0) EXCEPT !.capacity = 4000000]
Op(op, rotation) == [op |-> op, rotation |-> rotation, crop |-> NoCrop]

MCCalls ==
    {[src |-> Raw("YUYV", 1920, 1080), dst |-> Blank, op |-> Op("ConvertColor", 0)],
     [src |-> Raw("NV12", 1280, 720), dst |-> Blank, op |-> Op("Auto", 90)]}

MCNodes == <<"heap", "drm">>

MCRectangles == {{[x |-> 1200, y |-> 100, width |-> 100, height |-> 120]}}
=============================================================================
