SPECIFICATION OsdSpec
CONSTANTS
    Ids = {"name", "time", "banner"}
    Objects <- MCObjects
    Glyphs <- MCGlyphs
    RectangleSets <- MCRectangles
    LineWidth = 4
    Calls <- MCCalls
    Nodes <- MCNodes
    DesignWidth = 1920
    DesignHeight = 1080
    MaxCalls = 3
    MaxFaults = 1
INVARIANTS
    PlacedAnew
CHECK_DEADLOCK FALSE
