------------------------------- MODULE Broker -------------------------------
(***************************************************************************)
(* Sharing the USB pipe: remote_viewer's broker and its local clients.     *)
(*                                                                         *)
(* Frames from the device go to every client, through a queue that is      *)
(* bounded: a client too far behind is dropped.  What clients write is cut *)
(* into frames again before it goes to the pipe, which takes whole frames  *)
(* unless a bulk write fails part way.                                     *)
(*                                                                         *)
(* A frame has two halves, <<n, 1>> and <<n, 2>>; sockets and writes may   *)
(* stop between them.  The frames of the device are numbered, those of a   *)
(* client are numbered within the client: <<<<c, n>>, half>>.              *)
(*                                                                         *)
(* KeepBehind is a mistake the code could make; Next does not use it.      *)
(***************************************************************************)
EXTENDS Integers, Sequences, SequencesExt

CONSTANTS
    Clients,     \* a set of clients
    Limit,       \* queueLimit, in halves
    Window,      \* what the socket of a client holds, in halves
    MaxFrames,   \* bound: frames of the device
    MaxWrites,   \* bound: frames a client writes
    MaxBreaks    \* bound: bulk writes that fail

VARIABLES
    frames,      \* frames broadcast so far
    state,       \* of each client: "away", "waiting", "in", "closing", "left", "dropped"
    since,       \* frames broadcast before it was accepted
    out, sock,   \* Client::out from outPos on; its socket towards the client
    got,         \* halves the client has read
    written, up, \* halves the client has written; its socket towards the broker
    half,        \* Client::parser: the bytes of a frame not complete yet
    pipe,        \* halves on the bulk OUT endpoint
    breaks       \* bound; history: bulk writes that failed

clientVars == <<state, since, out, sock, got>>
upVars == <<written, up, half>>
vars == <<frames, clientVars, upVars, pipe, breaks>>

Halves(n) == <<<<n, 1>>, <<n, 2>>>>

Init ==
    /\ frames = 0
    /\ state = [c \in Clients |-> "away"] /\ since = [c \in Clients |-> 0]
    /\ out = [c \in Clients |-> << >>] /\ sock = out /\ got = out
    /\ written = [c \in Clients |-> 0] /\ up = out /\ half = out
    /\ pipe = << >> /\ breaks = 0

-----------------------------------------------------------------------------
(* The broker: broadcast() *)

(* What flush() moves from a queue to a socket: all that fits.               *)
Moved(q, s) == LET n == Window - Len(s) IN IF Len(q) < n THEN Len(q) ELSE n

(* What becomes of a client whose queue has no room for a frame.             *)
Room(c) == Len(out[c]) + 2 <= Limit
KeepBehind == "in"
AfterBehind == "dropped"
Queued(c) == out[c] \o Halves(frames + 1)

Broadcast ==
    /\ frames < MaxFrames /\ frames' = frames + 1
    /\ LET open == {c \in Clients : state[c] = "in"}
           kept == {c \in open : Room(c)}
       IN  /\ state' = [c \in Clients |-> IF c \in open \ kept THEN AfterBehind ELSE state[c]]
           /\ out' = [c \in Clients |->
                        IF c \in kept
                        THEN SubSeq(Queued(c), Moved(Queued(c), sock[c]) + 1, Len(Queued(c)))
                        ELSE IF c \in open THEN << >> ELSE out[c]]
           /\ sock' = [c \in Clients |->
                        IF c \in kept
                        THEN sock[c] \o SubSeq(Queued(c), 1, Moved(Queued(c), sock[c]))
                        ELSE sock[c]]
    /\ UNCHANGED <<since, got, upVars, pipe, breaks>>

-----------------------------------------------------------------------------
(* The broker: poll() *)

Accept(c) ==
    /\ state[c] = "waiting"
    /\ state' = [state EXCEPT ![c] = "in"]
    /\ since' = [since EXCEPT ![c] = frames]
    /\ UNCHANGED <<frames, out, sock, got, upVars, pipe, breaks>>

Flush(c) ==
    /\ state[c] = "in" /\ Moved(out[c], sock[c]) > 0
    /\ LET n == Moved(out[c], sock[c])
       IN  /\ sock' = [sock EXCEPT ![c] = @ \o SubSeq(out[c], 1, n)]
           /\ out' = [out EXCEPT ![c] = SubSeq(@, n + 1, Len(@))]
    /\ UNCHANGED <<frames, state, since, got, upVars, pipe, breaks>>

(* The frames that bytes complete; the rest stays in the parser.             *)
WholeFrames(bytes) == SubSeq(bytes, 1, Len(bytes) - (Len(bytes) % 2))

(* Everything the socket holds goes through the parser and frame by frame to *)
(* the pipe.  A bulk write may fail after some of a frame; what follows is   *)
(* written all the same.                                                     *)
Relay(c, fails) ==
    /\ state[c] \in {"in", "closing"} /\ up[c] # << >>
    /\ LET bytes == half[c] \o up[c]
           whole == WholeFrames(bytes)
       IN  /\ fails => breaks < MaxBreaks /\ whole # << >>
           /\ half' = [half EXCEPT ![c] = SubSeq(bytes, Len(whole) + 1, Len(bytes))]
           /\ pipe' = pipe \o IF fails THEN <<Head(whole)>> \o SubSeq(whole, 3, Len(whole))
                                       ELSE whole
    /\ up' = [up EXCEPT ![c] = << >>]
    /\ breaks' = breaks + (IF fails THEN 1 ELSE 0)
    /\ UNCHANGED <<frames, clientVars, written>>

(* recv() tells of the end, or of an error: what is queued or half read goes. *)
DropClient(c) ==
    /\ state[c] = "closing" /\ up[c] = << >>
    /\ state' = [state EXCEPT ![c] = "left"]
    /\ out' = [out EXCEPT ![c] = << >>] /\ half' = [half EXCEPT ![c] = << >>]
    /\ UNCHANGED <<frames, since, sock, got, written, up, pipe, breaks>>

-----------------------------------------------------------------------------
(* The clients *)

Connect(c) ==
    /\ state[c] = "away"
    /\ state' = [state EXCEPT ![c] = "waiting"]
    /\ UNCHANGED <<frames, since, out, sock, got, upVars, pipe, breaks>>

ClientReads(c) ==
    /\ sock[c] # << >>
    /\ got' = [got EXCEPT ![c] = Append(@, Head(sock[c]))]
    /\ sock' = [sock EXCEPT ![c] = Tail(@)]
    /\ UNCHANGED <<frames, state, since, out, upVars, pipe, breaks>>

(* A half at a time: the socket may be full, or the client may end between.  *)
ClientWrites(c) ==
    /\ state[c] \in {"waiting", "in"} /\ written[c] < 2 * MaxWrites /\ Len(up[c]) < Window
    /\ up' = [up EXCEPT ![c] = Append(@, <<<<c, written[c] \div 2 + 1>>, (written[c] % 2) + 1>>)]
    /\ written' = [written EXCEPT ![c] = @ + 1]
    /\ UNCHANGED <<frames, clientVars, half, pipe, breaks>>

ClientCloses(c) ==
    /\ state[c] = "in"
    /\ state' = [state EXCEPT ![c] = "closing"]
    /\ UNCHANGED <<frames, since, out, sock, got, upVars, pipe, breaks>>

Next ==
    \/ Broadcast
    \/ \E c \in Clients : \/ Accept(c) \/ Flush(c) \/ DropClient(c)
                          \/ \E fails \in BOOLEAN : Relay(c, fails)
                          \/ Connect(c) \/ ClientReads(c) \/ ClientWrites(c) \/ ClientCloses(c)

Spec == Init /\ [][Next]_vars

-----------------------------------------------------------------------------
(* Properties *)

HalfOf(frame) == {<<frame, 1>>, <<frame, 2>>}
DeviceHalves == UNION {HalfOf(n) : n \in 1..MaxFrames}
ClientHalves == UNION {HalfOf(<<c, n>>) : c \in Clients, n \in 1..MaxWrites}

TypeOK ==
    /\ frames \in 0..MaxFrames
    /\ state \in [Clients -> {"away", "waiting", "in", "closing", "left", "dropped"}]
    /\ since \in [Clients -> 0..MaxFrames]
    /\ \A c \in Clients : /\ Len(out[c]) <= Limit /\ Len(sock[c]) <= Window /\ Len(up[c]) <= Window
                          /\ Range(out[c] \o sock[c] \o got[c]) \subseteq DeviceHalves
                          /\ Range(up[c] \o half[c]) \subseteq ClientHalves
    /\ written \in [Clients -> 0..2 * MaxWrites]
    /\ Range(pipe) \subseteq ClientHalves /\ breaks \in 0..MaxBreaks

(* From when it was accepted until it is dropped a client gets every frame   *)
(* of the device, in order and whole: however far behind it falls there is   *)
(* no hole in its stream, only an end (usbproto_broker.cpp, broadcast).      *)
ClientsGapFree ==
    \A c \in Clients :
        LET all == [i \in 1..2 * (frames - since[c]) |-> <<since[c] + ((i + 1) \div 2), 2 - (i % 2)>>]
        IN  IF state[c] = "in" THEN got[c] \o sock[c] \o out[c] = all
            ELSE state[c] \in {"closing", "left", "dropped"} => IsPrefix(got[c] \o sock[c], all)

(* As long as no bulk write fails the pipe carries whole frames, each        *)
(* client's in the order written, however the clients' writes interleave     *)
(* and wherever one of them ends (usbproto_broker.cpp, poll).                *)
PipeWhole ==
    breaks = 0 =>
        /\ \A i \in 1..Len(pipe) : i % 2 = 1 => i < Len(pipe) /\ pipe[i + 1] = <<pipe[i][1], 2>>
        /\ \A i, j \in 1..Len(pipe) : i < j /\ pipe[i][1][1] = pipe[j][1][1]
                                            => pipe[i][1][2] <= pipe[j][1][2]

(* Both directions at once. *)
RelayWhole == ClientsGapFree /\ PipeWhole
=============================================================================
