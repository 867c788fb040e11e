------------------------------- MODULE MCApp --------------------------------
(* The App's life, the frames, the broker, the host's channel, the recorder, *)
(* the shapes, the canvas and the draw buffers share no state here: one run  *)
(* checks each of them, and part says which.                                 *)
EXTENDS App, Drawing, Sequences, FiniteSets

CONSTANTS Cutters, Bytes, Magic, MaxRest, Dead, MaxBytes, MaxChunk,
          Clients, Limit, Window, MaxFrames, MaxWrites, MaxBreaks,
          Masks, MaxInline, Registered, Width, Height, Calls, MaxCalls,
          External, MaxMemory, MaxDrawings,
          MaxConns, MaxData, MaxObjects, MaxSplits

VARIABLES
    part,
    cutter, buf, pos, busy, units, fed, count, strayed,
    frames, state, since, out, sock, got, written, up, half, pipe, breaks,
    mask, panel, rec, view, drawn, stream, shown, seen, delivered, calls, set, leaned, lost, turned, foreign,
    buffers, slots, draw, display, enabled, target, live, picture, stopped, allocated, drawings, wanted,
    stranded,
    conn, number, linked, splits, toHost, toDevice, table, objects, tool, held, rx, frame, found, rest,
    managed, crossed, cut

framingVars == <<cutter, buf, pos, busy, units, fed, count, strayed>>
brokerVars == <<frames, state, since, out, sock, got, written, up, half, pipe, breaks>>

replayVars == <<mask, panel, rec, view, drawn, stream, shown, seen, delivered, calls, set, leaned,
                lost, turned, foreign>>
bufferVars == <<buffers, slots, draw, display, enabled, target, live, picture, stopped, allocated,
                drawings, wanted, stranded>>
hostVars == <<conn, number, linked, splits, toHost, toDevice, table, objects, tool, held, rx, frame,
              found, rest, managed, crossed, cut>>

MCRegistered == <<"sans">>
MCMagic == <<1, 2, 1>>

Stream == INSTANCE Framing WITH out <- units
ASSUME FramingConstants ==
    Bytes \subseteq Nat /\ Magic \in Seq(Nat) /\ Magic # << >> /\ MaxRest \in Nat /\ Dead \in Nat
MCMasks == {{"geometry", "text", "style", "bitmap"}, {"geometry", "text", "style"}, {"geometry", "text"}}
MCCalls ==
    {<<"drawRect", 1>>, <<"fillRect", 1>>, <<"fillScreen", "transparent">>, <<"fillScreen", "black">>}
    \cup {<<"drawBitmap", n>> : n \in 0..2}
    \cup {<<"setCursor", 1>>, <<"setTextColor", "red">>, <<"setTextWrap", FALSE>>}
    \cup {<<"setTextSize", n>> : n \in {0, 2}}
    \cup {<<"setFont", f>> : f \in {"builtin", "sans", "serif"}}
    \cup {<<"setStrokeWidth", 2>>, <<"setAntiAlias", TRUE>>, <<"setDrawStyle", <<2, FALSE>>>>,
          <<"setRotation", 1>>}
    \cup {<<"writeText", <<"a", "b", "newline", "c">>>>, <<"writeText", << >>>>, <<"println", << >>>>}
    \cup {<<"setText", [x |-> 1, ink |-> "red", font |-> "sans", turn |-> t, text |-> <<"a", "b">>]>>
              : t \in {0, 90}}

Shared == INSTANCE Broker
ASSUME BrokerConstants ==
    Limit \in Nat /\ Window \in Nat /\ MaxFrames \in Nat /\ MaxWrites \in Nat /\ MaxBreaks \in Nat
Recorder == INSTANCE Replay WITH count <- calls
ASSUME ReplayConstants ==
    \A c \in Calls :
        /\ c = <<c[1], c[2]>>
        /\ CASE c[1] = "writeText" -> c[2] \in Seq({c[2][i] : i \in DOMAIN c[2]})
             [] c[1] = "setText" ->
                    /\ c[2] = [x |-> c[2].x, ink |-> c[2].ink, font |-> c[2].font, turn |-> c[2].turn,
                               text |-> c[2].text]
                    /\ c[2].text \in Seq({c[2].text[i] : i \in DOMAIN c[2].text})
             [] c[1] \in {"setTextWrap", "setAntiAlias"} -> c[2] \in BOOLEAN
             [] c[1] = "setDrawStyle" -> c[2] = <<c[2][1], c[2][2]>> /\ c[2][2] \in BOOLEAN
             [] OTHER ->
                    c[1] \in {"drawRect", "fillRect", "fillScreen", "drawBitmap", "println", "setCursor",
                              "setTextColor", "setTextSize", "setFont", "setStrokeWidth", "setRotation"}
Memories == INSTANCE Buffers
ASSUME BuffersConstants ==
    /\ MaxMemory \in Nat /\ Cardinality(External) \in Nat
    /\ External \subseteq 2 .. 1 + Cardinality(External) /\ 1 + Cardinality(External) <= MaxMemory
Host == INSTANCE HostChannel WITH pipe <- toHost, up <- toDevice, running <- managed

(* Boxes and points on, across and off the edges of the surface.            *)
MCBoxes == [x : {-2, 0, 3}, y : {-2, 1, 4}, w : {0, 1, 2, 4, 9}, h : {0, 1, 2, 3, 5, 10}]
MCPoints == {<<-1, -2>>, <<0, 0>>, <<2, 1>>, <<3, 4>>, <<4, 5>>, <<7, 3>>, <<5, -2>>, <<-1, 5>>}

(* Colours of every translucency, points on the canvas and off it, lines    *)
(* across its edges.                                                        *)
Ink(a, r, g, b) == [a |-> a, r |-> r, g |-> g, b |-> b]
MCInks == {Ink(255, 255, 255, 250), Ink(255, 13, 37, 201), Ink(128, 255, 100, 9), Ink(0, 9, 9, 9)}
MCSpots == {<<0, 0>>, <<2, 1>>, <<1, 2>>, <<3, 1>>, <<-1, 0>>}
MCSpans == {<<0, 1, 3>>, <<-1, 2, 3>>, <<1, -1, 9>>, <<2, 2, 1>>, <<2, 2, 0>>}

MCInit ==
    /\ part \in {"app", "stream", "broker", "replay", "shapes", "canvas", "buffers", "host"}
    /\ Init /\ Stream!Init /\ Shared!Init /\ Recorder!Init
    /\ Drawn!Init /\ Surface!Init /\ Memories!Init /\ Host!Init
    /\ part # "stream" => cutter = "host"
    /\ part # "shapes" => surface = "panel" /\ stroke = 1
    /\ part # "canvas" => format = "BW"
    /\ part # "replay" => mask = {"geometry", "text"}

MCNext ==
    /\ UNCHANGED part
    /\ \/ part = "app" /\ Next
          /\ UNCHANGED <<framingVars, brokerVars, replayVars, shapeVars, canvasVars, bufferVars, hostVars>>
       \/ part = "stream" /\ Stream!Next
          /\ UNCHANGED <<vars, brokerVars, replayVars, shapeVars, canvasVars, bufferVars, hostVars>>
       \/ part = "broker" /\ Shared!Next
          /\ UNCHANGED <<vars, framingVars, replayVars, shapeVars, canvasVars, bufferVars, hostVars>>
       \/ part = "replay" /\ Recorder!Next
          /\ UNCHANGED <<vars, framingVars, brokerVars, shapeVars, canvasVars, bufferVars, hostVars>>
       \/ part = "shapes" /\ Drawn!Next
          /\ UNCHANGED <<vars, framingVars, brokerVars, replayVars, canvasVars, bufferVars, hostVars>>
       \/ part = "canvas" /\ Surface!Next
          /\ UNCHANGED <<vars, framingVars, brokerVars, replayVars, shapeVars, bufferVars, hostVars>>
       \/ part = "buffers" /\ Memories!Next
          /\ UNCHANGED <<vars, framingVars, brokerVars, replayVars, shapeVars, canvasVars, hostVars>>
       \/ part = "host" /\ Host!Next
          /\ UNCHANGED <<vars, framingVars, brokerVars, replayVars, shapeVars, canvasVars, bufferVars>>

(* The fairness of the App, while it is the part that runs. *)
MCFairness == WF_vars(part = "app" /\ MainNext) /\ WF_vars(part = "app" /\ UsbNext)

MCSpec ==
    /\ MCInit
    /\ [][MCNext]_<<part, vars, framingVars, brokerVars, replayVars, shapeVars, canvasVars, bufferVars,
                    hostVars>>
    /\ MCFairness

(* The properties of the other parts, stated in their modules. *)
ChunksDoNotMatter == Stream!ChunksDoNotMatter
RelayWhole == Shared!RelayWhole
ReplayExact == Recorder!ReplayExact
FrameStandsAlone == Recorder!FrameStandsAlone
DrawingReachesPanel == Memories!DrawingReachesPanel
ChannelServed == Host!ChannelServed
=============================================================================
