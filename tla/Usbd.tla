--------------------------------- MODULE Usbd ---------------------------------
(***************************************************************************)
(* The USB multiplexer (services/usbd.cpp): one channel, the applications  *)
(* that connect to it one after the other, and the host.                   *)
(*                                                                         *)
(* A connection has three threads: the reader moves the application's      *)
(* messages from its socket into tx_ring, the sender moves tx_ring to the  *)
(* bulk pipe, the forwarder moves rx_ring to the socket.  One thread for   *)
(* all channels fills rx_ring from the pipe.  A byte is a pair of a client *)
(* and a number; a frame of the host is a number and a length; a ring      *)
(* counts in such units, a length prefix being one.                        *)
(*                                                                         *)
(* PushUnsignalled, SentKept and TimesOutAtOnce are mistakes this code     *)
(* could make; Next does not use them, the properties are tried against    *)
(* them.                                                                   *)
(***************************************************************************)
EXTENDS Integers, Sequences

CONSTANTS
    MaxClients,     \* bound: connections applications make to the channel
    RingSize,       \* RING_SIZE, in units
    MaxPayload,     \* USB_MAX_PAYLOAD
    MaxLen,         \* longest message and frame
    SocketSize,     \* messages a client's socket holds
    MaxUnits,       \* bound: units a client writes
    MaxFrames,      \* bound: frames the host sends
    MaxReplugs      \* bound: times the cable is pulled

ASSUME ConstantsAssumption ==
    /\ {RingSize, MaxPayload, MaxLen, SocketSize} \subseteq Nat \ {0}
    /\ {MaxClients, MaxUnits, MaxFrames, MaxReplugs} \subseteq Nat

Clients == 1 .. MaxClients       \* numbered in the order in which they are accepted
NoClient == 0

Least(m, n) == IF m < n THEN m ELSE n

Frames == [flag : {"data", "close"}, id : 0 .. MaxFrames, len : 0 .. MaxLen]
NoFrame == [flag |-> "close", id |-> 0, len |-> 0]
Mixed == 0                                        \* the id of a frame glued from two
Units(k, n) == [i \in 1 .. n |-> <<k, i, n>>]     \* a frame's payload in rx_ring
LengthOf(k, n) == << <<k, 0, n>> >>                 \* its length before it

Over == {"none", "end", "lost"}

VARIABLES
    active, sock,               \* Channel: active, and whose socket sock_fd is
    txRing, rxRing,
    accepting,                  \* ipc_accept_thread: place
    client, inbox, written,     \* applications: place, messages usbd has not read, units written
    delivered, taken,           \* messages usbd wrote to the socket, how many the client has read
    reader, held,               \* app_reader_thread: place, buf
    sender, cur, nxt,           \* channel_tx_thread: place, txbuf[cur], txbuf[nxt]
    forwarder, plen, rxbuf,     \* channel_rx_thread: place, plen, rxbuf
    rx, frame, seenActive, stump,  \* usb_rx_thread: place, frame, active as read; part of a frame in reassembly
    up, usbIn, hostSent,        \* the pipe: endpoints open, frames to usbd, how many were sent
    announced, got,             \* what the host has from usbd: connections opened, bytes of each
    replugs, mishaps            \* history: what has happened that spoils a channel

channelVars == <<active, sock, txRing, rxRing>>
clientVars == <<client, inbox, written, taken>>
readerVars == <<reader, held>>
senderVars == <<sender, cur, nxt>>
forwardVars == <<forwarder, plen, rxbuf>>
rxVars == <<rx, frame, seenActive, stump>>
usbVars == <<up, usbIn, hostSent, replugs>>
hostVars == <<announced, got>>
vars == <<channelVars, accepting, clientVars, delivered, readerVars, senderVars, forwardVars, rxVars,
          usbVars, hostVars, mishaps>>

Init ==
    /\ active = FALSE /\ sock = NoClient /\ txRing = << >> /\ rxRing = << >>
    /\ accepting = "idle"
    /\ client = [c \in Clients |-> "new"] /\ inbox = [c \in Clients |-> << >>]
    /\ written = [c \in Clients |-> 0]
    /\ delivered = [c \in Clients |-> << >>] /\ taken = [c \in Clients |-> 0]
    /\ reader = [c \in Clients |-> "none"] /\ held = [c \in Clients |-> << >>]
    /\ sender = [c \in Clients |-> "none"]
    /\ cur = [c \in Clients |-> << >>] /\ nxt = [c \in Clients |-> << >>]
    /\ forwarder = [c \in Clients |-> "none"] /\ plen = [c \in Clients |-> 0]
    /\ rxbuf = [c \in Clients |-> << >>]
    /\ rx = "idle" /\ frame = NoFrame /\ seenActive = FALSE /\ stump = FALSE
    /\ up = TRUE /\ usbIn = << >> /\ hostSent = 0
    /\ announced = {} /\ got = [c \in Clients |-> << >>]
    /\ replugs = 0 /\ mishaps = {}

-----------------------------------------------------------------------------
(* usb_send_frame: the pipe's writers take turns, so it is one step.  What  *)
(* is written while the endpoints are closed is not sent.  An ACK or CLOSE  *)
(* changes nothing that is said of the host here.                           *)
SendOpen(c) == announced' = (IF up THEN announced \cup {c} ELSE announced) /\ UNCHANGED got
SendData(c, s) == got' = (IF up THEN [got EXCEPT ![c] = @ \o s] ELSE got) /\ UNCHANGED announced

(* RingBuffer::write: what fits. *)
Fits(ring, s) == SubSeq(s, 1, Least(Len(s), RingSize - Len(ring)))

(* pthread_cond_signal: a thread that sleeps on the ring looks again. *)
Woken(threads) == [c \in Clients |-> IF threads[c] = "asleep" THEN "idle" ELSE threads[c]]

(* A reader at the end of the file of a departed client never comes back. *)
Unread(c) == Len(delivered[c]) - taken[c]
Reset(c) == client[c] = "closed" /\ Unread(c) > 0
Spins(c) == reader[c] = "read" /\ client[c] = "closed" /\ inbox[c] = << >> /\ ~Reset(c)

(* The forwarder's loop goes on while the channel is active. *)
Looping == IF active THEN "idle" ELSE "end"

(* Threads of an earlier connection that may still act on the channel. *)
Lingers(c) ==
    \/ reader[c] \notin Over /\ ~Spins(c)
    \/ sender[c] \notin Over \cup {"asleep"}
    \/ forwarder[c] \notin Over \cup {"asleep"}

-----------------------------------------------------------------------------
(* ipc_accept_thread *)

(* Channel::init: new rings.  A thread that slept on a condition variable   *)
(* of the old ones is not woken again (undefined; so it is under musl).  A  *)
(* client that finds the channel active is refused and tries again later.   *)
Accept(c) ==
    /\ accepting = "idle" /\ ~active
    /\ client[c] = "new" /\ \A d \in 1 .. c - 1 : client[d] # "new"
    /\ client' = [client EXCEPT ![c] = "asking"]
    /\ active' = TRUE /\ sock' = c /\ txRing' = << >> /\ rxRing' = << >>
    /\ sender' = [d \in Clients |-> IF sender[d] = "asleep" THEN "lost" ELSE sender[d]]
    /\ forwarder' = [d \in Clients |-> IF forwarder[d] = "asleep" THEN "lost" ELSE forwarder[d]]
    /\ mishaps' = mishaps \cup (IF rx # "idle" \/ \E d \in Clients : Lingers(d) THEN {"crowded"} ELSE {})
    /\ accepting' = "answer"
    /\ UNCHANGED <<inbox, written, delivered, taken, readerVars, cur, nxt, plen, rxbuf, rxVars, usbVars, hostVars>>

(* The client gets its channel number, *)
Answer(c) ==
    /\ accepting = "answer" /\ c = sock
    /\ client' = [client EXCEPT ![c] = "open"]
    /\ accepting' = "announce"
    /\ UNCHANGED <<channelVars, inbox, written, delivered, taken, readerVars, senderVars, forwardVars, rxVars,
                   usbVars, hostVars, mishaps>>

(* the host an OPEN, *)
Announce(c) ==
    /\ accepting = "announce" /\ c = sock
    /\ SendOpen(c)
    /\ accepting' = "spawn"
    /\ UNCHANGED <<channelVars, clientVars, delivered, readerVars, senderVars, forwardVars, rxVars, usbVars, mishaps>>

(* and the connection its threads.  The reader begins where it has pushed   *)
(* all it held, before its loop looks at active.                            *)
Spawn(c) ==
    /\ accepting = "spawn" /\ c = sock
    /\ reader' = [reader EXCEPT ![c] = "push"]
    /\ sender' = [sender EXCEPT ![c] = "idle"]
    /\ forwarder' = [forwarder EXCEPT ![c] = Looping]
    /\ accepting' = "idle"
    /\ UNCHANGED <<channelVars, clientVars, delivered, held, cur, nxt, plen, rxbuf, rxVars, usbVars, hostVars, mishaps>>

-----------------------------------------------------------------------------
(* The applications (UsbdClient). *)

ClientSend(c, n) ==
    /\ client[c] = "open" /\ written[c] + n <= MaxUnits
    /\ inbox' = [inbox EXCEPT ![c] = Append(@, [i \in 1 .. n |-> <<c, written[c] + i>>])]
    /\ written' = [written EXCEPT ![c] = @ + n]
    /\ UNCHANGED <<channelVars, accepting, client, taken, delivered, readerVars, senderVars, forwardVars, rxVars,
                   usbVars, hostVars, mishaps>>

ClientRecv(c) ==
    /\ client[c] = "open" /\ Unread(c) > 0
    /\ taken' = [taken EXCEPT ![c] = @ + 1]
    /\ UNCHANGED <<channelVars, accepting, client, inbox, written, delivered, readerVars, senderVars, forwardVars,
                   rxVars, usbVars, hostVars, mishaps>>

ClientClose(c) ==
    /\ client[c] = "open"
    /\ client' = [client EXCEPT ![c] = "closed"]
    /\ UNCHANGED <<channelVars, accepting, inbox, written, taken, delivered, readerVars, senderVars, forwardVars,
                   rxVars, usbVars, hostVars, mishaps>>

-----------------------------------------------------------------------------
(* app_reader_thread *)

(* read_all returns a message.  At the end of the file it never does. *)
Read(c) ==
    /\ reader[c] = "read" /\ inbox[c] # << >>
    /\ held' = [held EXCEPT ![c] = Head(inbox[c])]
    /\ inbox' = [inbox EXCEPT ![c] = Tail(@)]
    /\ reader' = [reader EXCEPT ![c] = "push"]
    /\ UNCHANGED <<channelVars, accepting, client, written, taken, delivered, senderVars, forwardVars, rxVars,
                   usbVars, hostVars, mishaps>>

(* A client that closed with messages unread resets its socket. *)
ReadFails(c) ==
    /\ reader[c] = "read" /\ inbox[c] = << >> /\ Reset(c)
    /\ reader' = [reader EXCEPT ![c] = "done"]
    /\ UNCHANGED <<channelVars, accepting, clientVars, delivered, held, senderVars, forwardVars, rxVars, usbVars,
                   hostVars, mishaps>>

PushUnsignalled(c) ==
    /\ reader[c] = "push" /\ held[c] # << >> /\ active /\ Len(txRing) < RingSize
    /\ LET now == Fits(txRing, held[c]) IN
        /\ txRing' = txRing \o now
        /\ held' = [held EXCEPT ![c] = SubSeq(@, Len(now) + 1, Len(@))]
    /\ UNCHANGED <<active, sock, rxRing, accepting, clientVars, delivered, reader, senderVars, forwardVars, rxVars,
                   usbVars, hostVars, mishaps>>

Push(c) ==
    /\ reader[c] = "push" /\ held[c] # << >> /\ active /\ Len(txRing) < RingSize
    /\ LET now == Fits(txRing, held[c]) IN
        /\ txRing' = txRing \o now
        /\ held' = [held EXCEPT ![c] = SubSeq(@, Len(now) + 1, Len(@))]
    /\ sender' = Woken(sender)
    /\ UNCHANGED <<active, sock, rxRing, accepting, clientVars, delivered, reader, cur, nxt, forwardVars, rxVars,
                   usbVars, hostVars, mishaps>>

(* What is held when the channel goes inactive is dropped. *)
Pushed(c) ==
    /\ reader[c] = "push"
    /\ \/ held[c] = << >> /\ active /\ reader' = [reader EXCEPT ![c] = "read"]
       \/ ~active /\ reader' = [reader EXCEPT ![c] = "done"]
    /\ held' = [held EXCEPT ![c] = << >>]
    /\ UNCHANGED <<channelVars, accepting, clientVars, delivered, senderVars, forwardVars, rxVars, usbVars, hostVars,
                   mishaps>>

(* The reader gives the channel up, whosever it is by now, and says CLOSE. *)
Deactivate(c) ==
    /\ reader[c] = "done"
    /\ active' = FALSE
    /\ reader' = [reader EXCEPT ![c] = "closing"]
    /\ UNCHANGED <<sock, txRing, rxRing, accepting, clientVars, delivered, held, senderVars, forwardVars, rxVars,
                   usbVars, hostVars, mishaps>>

SayClose(c) ==
    /\ reader[c] = "closing"
    /\ reader' = [reader EXCEPT ![c] = "end"]
    /\ UNCHANGED <<channelVars, accepting, clientVars, delivered, held, senderVars, forwardVars, rxVars, usbVars,
                   hostVars, mishaps>>

Reader(c) == Read(c) \/ ReadFails(c) \/ Push(c) \/ Pushed(c) \/ Deactivate(c) \/ SayClose(c)

-----------------------------------------------------------------------------
(* channel_tx_thread: one buffer is filled while the other is being sent.   *)
(* "idle" waits for data, "top" is the loop, "send" and "sendlast" write a  *)
(* buffer, "flush" is after the loop.                                       *)

Chunk == Least(Len(txRing), MaxPayload)
TakeChunk == txRing' = SubSeq(txRing, Chunk + 1, Len(txRing))

Sleep(c) ==
    /\ sender[c] = "idle" /\ txRing = << >> /\ active
    /\ sender' = [sender EXCEPT ![c] = "asleep"]
    /\ UNCHANGED <<channelVars, accepting, clientVars, delivered, readerVars, cur, nxt, forwardVars, rxVars, usbVars,
                   hostVars, mishaps>>

Fill(c) ==
    /\ sender[c] = "idle" /\ (txRing # << >> \/ ~active)
    /\ cur' = [cur EXCEPT ![c] = IF txRing = << >> THEN @ ELSE SubSeq(txRing, 1, Chunk)]
    /\ TakeChunk
    /\ sender' = [sender EXCEPT ![c] = "top"]
    /\ UNCHANGED <<active, sock, rxRing, accepting, clientVars, delivered, readerVars, nxt, forwardVars, rxVars,
                   usbVars, hostVars, mishaps>>

(* With nothing in the ring cur is sent first and then data waited for. *)
Loop(c) ==
    /\ sender[c] = "top"
    /\ nxt' = [nxt EXCEPT ![c] = IF active THEN SubSeq(txRing, 1, Chunk) ELSE @]
    /\ IF active THEN TakeChunk ELSE UNCHANGED txRing
    /\ sender' = [sender EXCEPT ![c] =
            CASE ~active -> "flush"
              [] active /\ txRing # << >> -> "send"
              [] active /\ txRing = << >> /\ cur[c] # << >> -> "sendlast"
              [] OTHER -> "idle"]
    /\ UNCHANGED <<active, sock, rxRing, accepting, clientVars, delivered, readerVars, cur, forwardVars, rxVars,
                   usbVars, hostVars, mishaps>>

SentKept(c) ==
    /\ sender[c] \in {"send", "sendlast"}
    /\ SendData(c, cur[c])
    /\ IF up \/ cur[c] = << >>
       THEN /\ sender' = [sender EXCEPT ![c] = IF @ = "send" THEN "top" ELSE "idle"]
            /\ cur' = [cur EXCEPT ![c] = IF sender[c] = "send" THEN nxt[c] ELSE @]
            /\ nxt' = [nxt EXCEPT ![c] = IF sender[c] = "send" THEN cur[c] ELSE @]
       ELSE /\ sender' = [sender EXCEPT ![c] = "flush"]
            /\ UNCHANGED <<cur, nxt>>
    /\ UNCHANGED <<channelVars, accepting, clientVars, delivered, readerVars, forwardVars, rxVars, usbVars, mishaps>>

(* After an error the loop is left, with the buffer taken meanwhile. *)
Send(c) ==
    /\ sender[c] \in {"send", "sendlast"}
    /\ SendData(c, cur[c])
    /\ IF up \/ cur[c] = << >>
       THEN /\ sender' = [sender EXCEPT ![c] = IF @ = "send" THEN "top" ELSE "idle"]
            /\ cur' = [cur EXCEPT ![c] = nxt[c]]
            /\ nxt' = [nxt EXCEPT ![c] = << >>]
       ELSE /\ sender' = [sender EXCEPT ![c] = "flush"]
            /\ UNCHANGED <<cur, nxt>>
    /\ UNCHANGED <<channelVars, accepting, clientVars, delivered, readerVars, forwardVars, rxVars, usbVars, mishaps>>

(* The last buffer is sent (again), also after a CLOSE. *)
Flush(c) ==
    /\ sender[c] = "flush"
    /\ SendData(c, cur[c])
    /\ sender' = [sender EXCEPT ![c] = "end"]
    /\ cur' = [cur EXCEPT ![c] = << >>] /\ nxt' = [nxt EXCEPT ![c] = << >>]
    /\ UNCHANGED <<channelVars, accepting, clientVars, delivered, readerVars, forwardVars, rxVars, usbVars, mishaps>>

Sender(c) == Sleep(c) \/ Fill(c) \/ Loop(c) \/ Send(c) \/ Flush(c)

-----------------------------------------------------------------------------
(* channel_rx_thread *)

Doze(c) ==
    /\ forwarder[c] = "idle" /\ rxRing = << >> /\ active
    /\ forwarder' = [forwarder EXCEPT ![c] = "asleep"]
    /\ UNCHANGED <<channelVars, accepting, clientVars, delivered, readerVars, senderVars, plen, rxbuf, rxVars,
                   usbVars, hostVars, mishaps>>

IsLength(u) == u[2] = 0

(* The length.  Bytes that are none give any length, or one that makes the  *)
(* thread throw away part of the ring.                                      *)
TakeLength(c) ==
    /\ forwarder[c] = "idle" /\ rxRing # << >>
    /\ \/ /\ \E n \in IF IsLength(Head(rxRing)) THEN {Head(rxRing)[3]} ELSE 1 .. MaxLen :
                 plen' = [plen EXCEPT ![c] = n]
          /\ rxRing' = Tail(rxRing)
          /\ forwarder' = [forwarder EXCEPT ![c] = "payload"]
       \/ /\ ~IsLength(Head(rxRing))
          /\ \E n \in 1 .. Len(rxRing) : rxRing' = SubSeq(rxRing, n + 1, Len(rxRing))
          /\ forwarder' = [forwarder EXCEPT ![c] = Looping]
          /\ UNCHANGED plen
    /\ UNCHANGED <<active, sock, txRing, accepting, clientVars, delivered, readerVars, senderVars, rxbuf, rxVars,
                   usbVars, hostVars, mishaps>>

TakePayload(c) ==
    /\ forwarder[c] = "payload" /\ Len(rxRing) >= plen[c]
    /\ rxbuf' = [rxbuf EXCEPT ![c] = SubSeq(rxRing, 1, plen[c])]
    /\ rxRing' = SubSeq(rxRing, plen[c] + 1, Len(rxRing))
    /\ plen' = [plen EXCEPT ![c] = 0]
    /\ forwarder' = [forwarder EXCEPT ![c] = "forward"]
    /\ UNCHANGED <<active, sock, txRing, accepting, clientVars, delivered, readerVars, senderVars, rxVars,
                   usbVars, hostVars, mishaps>>

TimesOutAtOnce(c) ==
    /\ forwarder[c] = "payload" /\ Len(rxRing) < plen[c]
    /\ forwarder' = [forwarder EXCEPT ![c] = Looping]
    /\ plen' = [plen EXCEPT ![c] = 0]
    /\ UNCHANGED <<channelVars, accepting, clientVars, delivered, readerVars, senderVars, rxbuf, rxVars,
                   usbVars, hostVars, mishaps>>

(* Five seconds, which the two writes of a frame do not take. *)
TimesOut(c) ==
    /\ forwarder[c] = "payload" /\ Len(rxRing) < plen[c] /\ rx # "payload"
    /\ forwarder' = [forwarder EXCEPT ![c] = Looping]
    /\ plen' = [plen EXCEPT ![c] = 0]
    /\ UNCHANGED <<channelVars, accepting, clientVars, delivered, readerVars, senderVars, rxbuf, rxVars,
                   usbVars, hostVars, mishaps>>

(* To whoever has the channel by now; to a client that left, nothing. *)
Forward(c) ==
    /\ forwarder[c] = "forward"
    /\ client[sock] # "closed" => Unread(sock) < SocketSize
    /\ delivered' = [delivered EXCEPT ![sock] = IF client[sock] = "closed" THEN @ ELSE Append(@, rxbuf[c])]
    /\ rxbuf' = [rxbuf EXCEPT ![c] = << >>]
    /\ forwarder' = [forwarder EXCEPT ![c] = Looping]
    /\ UNCHANGED <<channelVars, accepting, clientVars, readerVars, senderVars, plen, rxVars, usbVars, hostVars, mishaps>>

(* The channel went inactive before the loop's look at it; after the look    *)
(* TakeLength takes one more frame.                                         *)
Stops(c) ==
    /\ forwarder[c] = "idle" /\ ~active
    /\ forwarder' = [forwarder EXCEPT ![c] = "end"]
    /\ UNCHANGED <<channelVars, accepting, clientVars, delivered, readerVars, senderVars, plen, rxbuf, rxVars,
                   usbVars, hostVars, mishaps>>

Forwarder(c) == Doze(c) \/ TakeLength(c) \/ TakePayload(c) \/ TimesOut(c) \/ Forward(c) \/ Stops(c)

-----------------------------------------------------------------------------
(* usb_rx_thread *)

(* A frame is complete and active has been read.  A frame cut by a replug   *)
(* swallows the next one, and maybe more.                                   *)
Parse ==
    /\ rx = "idle" /\ usbIn # << >>
    /\ usbIn' = Tail(usbIn)
    /\ \/ /\ ~stump
          /\ frame' = Head(usbIn) /\ seenActive' = active
          /\ rx' = "dispatch"
          /\ UNCHANGED <<stump, mishaps>>
       \/ /\ stump
          /\ UNCHANGED <<rx, frame, seenActive, stump, mishaps>>
       \/ /\ stump
          /\ \E n \in 1 .. MaxLen : frame' = [flag |-> "data", id |-> Mixed, len |-> n]
          /\ seenActive' = active
          /\ rx' = "dispatch" /\ stump' = FALSE
          /\ mishaps' = mishaps \cup {"mixed"}
    /\ UNCHANGED <<channelVars, accepting, clientVars, delivered, readerVars, senderVars, forwardVars, up, hostSent,
                   replugs, hostVars>>

Overruns(s) == IF Len(Fits(rxRing, s)) < Len(s) THEN {"overrun"} ELSE {}

WriteRing(s) ==
    /\ rxRing' = rxRing \o Fits(rxRing, s)
    /\ mishaps' = mishaps \cup Overruns(s)
    /\ forwarder' = Woken(forwarder)

Handled == rx' = "idle" /\ frame' = NoFrame /\ seenActive' = FALSE

(* DATA: its length goes into the ring first, *)
WriteLength ==
    /\ rx = "dispatch" /\ frame.flag = "data" /\ seenActive
    /\ WriteRing(LengthOf(frame.id, frame.len))
    /\ rx' = "payload"
    /\ UNCHANGED <<active, sock, txRing, accepting, clientVars, delivered, readerVars, senderVars, plen, rxbuf, frame,
                   seenActive, stump, usbVars, hostVars>>

(* then its payload. *)
WritePayload ==
    /\ rx = "payload"
    /\ WriteRing(Units(frame.id, frame.len))
    /\ Handled
    /\ UNCHANGED <<active, sock, txRing, accepting, clientVars, delivered, readerVars, senderVars, plen, rxbuf, stump,
                   usbVars, hostVars>>

(* CLOSE, and DATA of a channel that was not active.  (An OPEN gets an ACK  *)
(* and changes nothing; it is left out.)                                    *)
Dispatch ==
    /\ rx = "dispatch" /\ ~(frame.flag = "data" /\ seenActive)
    /\ active' = (active /\ ~(frame.flag = "close" /\ seenActive))
    /\ Handled
    /\ UNCHANGED <<sock, txRing, rxRing, accepting, clientVars, delivered, readerVars, senderVars, forwardVars, stump,
                   usbVars, hostVars, mishaps>>

Receiver == Parse \/ WriteLength \/ WritePayload \/ Dispatch

-----------------------------------------------------------------------------
(* The host and the cable. *)

HostSend(f) ==
    /\ up /\ hostSent < MaxFrames
    /\ hostSent' = hostSent + 1
    /\ usbIn' = Append(usbIn, [f EXCEPT !.id = hostSent + 1])
    /\ UNCHANGED <<channelVars, accepting, clientVars, delivered, readerVars, senderVars, forwardVars, rxVars, up,
                   hostVars, replugs, mishaps>>

HostFrames == {[flag |-> "data", id |-> 0, len |-> n] : n \in 1 .. MaxLen}
              \cup {[flag |-> "close", id |-> 0, len |-> 0]}

(* FUNCTIONFS_DISABLE: what was on the pipe is lost, perhaps all but the    *)
(* beginning of a frame that usbd has read already.                         *)
Disable ==
    /\ up /\ replugs < MaxReplugs
    /\ up' = FALSE /\ usbIn' = << >> /\ replugs' = replugs + 1
    /\ stump' \in {stump, usbIn # << >>}
    /\ mishaps' = mishaps \cup {"replug"}
    /\ UNCHANGED <<channelVars, accepting, clientVars, delivered, readerVars, senderVars, forwardVars, rx, frame,
                   seenActive, hostSent, hostVars>>

Enable ==
    /\ ~up
    /\ up' = TRUE
    /\ UNCHANGED <<channelVars, accepting, clientVars, delivered, readerVars, senderVars, forwardVars, rxVars, usbIn,
                   hostSent, replugs, hostVars, mishaps>>

-----------------------------------------------------------------------------
Next ==
    \/ \E c \in Clients :
        \/ Accept(c) \/ Answer(c) \/ Announce(c) \/ Spawn(c)
        \/ \E n \in 1 .. MaxLen : ClientSend(c, n)
        \/ ClientRecv(c) \/ ClientClose(c)
        \/ Reader(c) \/ Sender(c) \/ Forwarder(c)
    \/ Receiver
    \/ \E f \in HostFrames : HostSend(f)
    \/ Disable
    \/ Enable

Spec == Init /\ [][Next]_vars

(* Every thread of usbd runs.  Applications read what they are sent while   *)
(* they are there; nobody is obliged to connect, send, close or replug.     *)
FairSpec ==
    /\ Spec
    /\ \A c \in Clients : WF_vars(Reader(c)) /\ WF_vars(Sender(c)) /\ WF_vars(Forwarder(c)) /\ WF_vars(ClientRecv(c))
                          /\ WF_vars(Answer(c) \/ Announce(c) \/ Spawn(c))
    /\ WF_vars(Receiver)

-----------------------------------------------------------------------------
(* Properties *)

Bytes == Clients \X (1 .. MaxUnits)
RxUnits == (0 .. MaxFrames) \X (0 .. MaxLen) \X (1 .. MaxLen)

TypeOK ==
    /\ active \in BOOLEAN /\ sock \in Clients \cup {NoClient}
    /\ txRing \in Seq(Bytes) /\ Len(txRing) <= RingSize
    /\ rxRing \in Seq(RxUnits) /\ Len(rxRing) <= RingSize
    /\ accepting \in {"idle", "answer", "announce", "spawn"}
    /\ client \in [Clients -> {"new", "asking", "open", "closed"}]
    /\ inbox \in [Clients -> Seq(Seq(Bytes))] /\ written \in [Clients -> 0 .. MaxUnits]
    /\ \A c \in Clients : delivered[c] \in Seq(Seq(RxUnits)) /\ Unread(c) \in 0 .. SocketSize
    /\ reader \in [Clients -> {"none", "read", "push", "done", "closing", "end"}]
    /\ held \in [Clients -> Seq(Bytes)]
    /\ sender \in [Clients -> {"none", "idle", "asleep", "top", "send", "sendlast", "flush", "end", "lost"}]
    /\ \A c \in Clients : {cur[c], nxt[c]} \subseteq Seq(Bytes) /\ {Len(cur[c]), Len(nxt[c])} \subseteq 0 .. MaxPayload
    /\ forwarder \in [Clients -> {"none", "idle", "asleep", "payload", "forward", "end", "lost"}]
    /\ plen \in [Clients -> 0 .. MaxLen] /\ rxbuf \in [Clients -> Seq(RxUnits)]
    /\ rx \in {"idle", "dispatch", "payload"} /\ frame \in Frames /\ {seenActive, stump, up} \subseteq BOOLEAN
    /\ usbIn \in Seq(Frames) /\ hostSent \in 0 .. MaxFrames /\ replugs \in 0 .. MaxReplugs
    /\ mishaps \subseteq {"crowded", "overrun", "mixed", "replug"}

(* usbproto.h:25: a channel is a byte stream to one application.  The host  *)
(* gets a connection's bytes in order, none twice and none skipped, also    *)
(* when a write fails, the cable is pulled or the channel is closed under   *)
(* way, as long as no thread of an earlier connection still runs.  Unless   *)
(* an OPEN may have been lost it knows of the connection by then: it drops  *)
(* data of channels it does not know.                                       *)
StreamInOrder ==
    /\ "crowded" \notin mishaps =>
           \A c \in Clients : got[c] = [i \in 1 .. Len(got[c]) |-> <<c, i>>]
    /\ mishaps = {} => \A c \in Clients : got[c] # << >> => c \in announced

(* uiinput.h:23: one message to the application per frame.  Unless the ring *)
(* overran, a frame was cut by a replug or threads of two connections met,  *)
(* what an application is given is a run of whole frames of the host.       *)
FramesWhole ==
    mishaps \subseteq {"replug"} =>
        \A c \in Clients : \A i \in DOMAIN delivered[c] :
            LET m == delivered[c][i] IN
                /\ m = Units(m[1][1], m[1][3])
                /\ i > 1 => m[1][1] > delivered[c][i - 1][1][1]

(* What an application wrote reaches the host, unless the channel was       *)
(* closed or the cable was pulled.                                          *)
BytesLeave ==
    \A c \in Clients :
        []<>(Len(got[c]) = written[c] \/ ~active \/ sock # c \/ mishaps # {})

(* otad.cpp:707: the daemon closes its channel after a session so that the  *)
(* host can reconnect for the next one.                                     *)
DepartedIsNoticed ==
    \A c \in Clients : (client[c] = "closed") ~> (~active \/ sock # c)

=============================================================================
