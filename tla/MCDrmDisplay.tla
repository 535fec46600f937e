---------------------------- MODULE MCDrmDisplay ----------------------------
(***************************************************************************)
(* DrmDisplay on three boards. What decides the route is different on each:*)
(* the connected connector is the second, whose encoder can only have the  *)
(* second CRTC and so not the primary plane; the only connected connector  *)
(* that has a mode is beyond the scan; the only plane that can be read     *)
(* lacks a property of the commits.                                        *)
(***************************************************************************)
EXTENDS DrmDisplay

Connector(connected, encoder, modes) ==
    [readable |-> TRUE, connected |-> connected, encoder |-> encoder, encoders |-> <<3, 2, 1>>,
     modes |-> modes, properties |-> ConnectorProps]
Encoder(mask) == [readable |-> TRUE, crtc |-> 0, mask |-> mask]
Plane(type, mask, formats) ==
    [readable |-> TRUE, type |-> type, mask |-> mask, formats |-> formats,
     properties |-> PlaneProps \union {"COLOR_RANGE"}]
Unreadable(object) == [object EXCEPT !.readable = FALSE]

Board(connectors, encoders, planes) ==
    [connectors |-> connectors, encoders |-> encoders, crtcs |-> 2,
     crtcProperties |-> CrtcProps, planes |-> planes]

MCBoards ==
    {Board(<<Connector(FALSE, 1, <<1>>), Connector(TRUE, 0, <<2, 1, 3>>)>>,
           <<Encoder({0, 1}), Encoder({1}), Encoder({0})>>,
           <<Plane("Primary", {0}, <<Format>>), Plane("Overlay", {0, 1}, <<"RGB", Format>>)>>),
     Board(<<Unreadable(Connector(TRUE, 1, <<1>>)), Connector(TRUE, 3, <<>>),
             Connector(TRUE, 1, <<1>>)>>,
           <<Encoder({0, 1}), Encoder({1}), Encoder({0})>>,
           <<Plane("Primary", {0}, <<Format>>)>>),
     Board(<<Connector(TRUE, 1, <<1>>), Connector(FALSE, 0, <<>>)>>,
           <<Encoder({0, 1}), Encoder({1}), Encoder({0})>>,
           <<Unreadable(Plane("Primary", {0}, <<Format>>)),
             [Plane("Overlay", {0}, <<Format>>) EXCEPT !.properties = @ \ {"SRC_X"}]>>)}
=============================================================================
