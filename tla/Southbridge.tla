----------------------------- MODULE Southbridge -----------------------------
(***************************************************************************)
(* The audio link to the southbridge (southbridge.cpp, ring_buffer.h): the *)
(* caller of send_audio puts frames into a ring, the transmit thread takes *)
(* them out and sends them over SPI.                                       *)
(*                                                                         *)
(* The ring is meant for one producer and one consumer.  When it is nearly *)
(* full the producer moves the consumer's index; a busy peer makes the     *)
(* transmit thread put its frame back, as a second producer; reset() takes *)
(* frames out, as a second consumer, and writes into the transmit buffer   *)
(* that the other thread fills.  So every access to the ring is a step.    *)
(*                                                                         *)
(* A frame is its number, counted from 1; 0 is one that was overwritten    *)
(* while it was copied, which its checksum tells.  Sequence numbers wrap   *)
(* and status counters are left out, and so is the command channel.        *)
(*                                                                         *)
(* NeverFull is a mistake the code could make; Next does not use it.       *)
(***************************************************************************)
EXTENDS Integers, Sequences, SequencesExt

CONSTANTS
    Capacity,      \* of the ring: one place stays empty
    Threshold,     \* frames from which on send_audio overwrites
    Silent,        \* send_silence_on_underrun
    MaxFrames, MaxOdd   \* bounds: frames; busy answers, resets and silences together

VARIABLES
    slot, head, tail,   \* the ring
    seq,                \* seq_
    app, tx,            \* the caller and the transmit thread: where, and what they loaded
    txbuf,              \* tx_buf_
    wire,               \* history: the frames that went over SPI
    handed,             \* history: the frames put into the ring by send_audio
    running,
    overwrote, crossed, disturbed, odd   \* histories and a bound

ringVars == <<slot, head, tail>>
wireVars == <<txbuf, wire>>
pastVars == <<handed, overwrote, crossed, disturbed, odd>>
audioVars == <<ringVars, seq, app, tx, wireVars, running, pastVars>>

Idle == [at |-> "idle", h |-> 0, t |-> 0, frame |-> 0, over |-> FALSE]

Init ==
    /\ slot = [i \in 0..(Capacity - 1) |-> 0] /\ head = 0 /\ tail = 0
    /\ seq = 1 /\ app = Idle /\ tx = Idle
    /\ txbuf = 0 /\ wire = << >> /\ handed = << >>
    /\ running = TRUE /\ overwrote = FALSE /\ crossed = FALSE /\ disturbed = FALSE /\ odd = 0

After(i) == (i + 1) % Capacity
Size == (head - tail) % Capacity

-----------------------------------------------------------------------------
(* Pushing: me is the actor, who has a frame.                               *)

NeverFull(h, t) == FALSE
Full(h, t) == After(h) = t

(* push and push_overwrite: a full ring refuses, or loses its oldest frame.  *)
Checked(me) ==
    CASE ~Full(me.h, tail) -> [me EXCEPT !.at = "write"]
      [] Full(me.h, tail) /\ me.over -> [me EXCEPT !.at = "drop", !.t = tail]
      [] OTHER -> Idle

Push(me, other) ==
    \/ /\ me.at = "check" /\ me' = Checked(me)
       /\ UNCHANGED <<ringVars, overwrote, crossed>>
    \/ /\ me.at = "drop" /\ me' = [me EXCEPT !.at = "write"]
       /\ tail' = After(me.t)
       /\ overwrote' = TRUE /\ crossed' = (crossed \/ other.at \in {"read", "take"})
       /\ UNCHANGED <<slot, head>>
    \/ /\ me.at = "write" /\ me' = [me EXCEPT !.at = "publish"]
       /\ slot' = [slot EXCEPT ![me.h] = me.frame]
       /\ UNCHANGED <<head, tail, overwrote, crossed>>
    \/ /\ me.at = "publish" /\ me' = Idle
       /\ head' = After(me.h)
       /\ UNCHANGED <<slot, tail, overwrote, crossed>>

(* Popping: the index is read, the frame copied, the index moved on.  What   *)
(* another thread is writing just then may be copied in part.                *)
Copied(me, other) == {slot[me.t]} \cup IF other.at = "write" /\ other.h = me.t THEN {0} ELSE {}

Pop(me, other, done) ==
    \/ /\ me.at = "read" /\ \E f \in Copied(me, other) : me' = [me EXCEPT !.at = "take", !.frame = f]
       /\ UNCHANGED <<ringVars, crossed>>
    \/ /\ me.at = "take" /\ me' = [me EXCEPT !.at = done]
       /\ tail' = After(me.t) /\ crossed' = (crossed \/ other.at = "drop")
       /\ UNCHANGED <<slot, head>>

-----------------------------------------------------------------------------
(* The caller *)

SendAudio ==
    /\ running /\ app.at = "idle" /\ Len(handed) < MaxFrames
    /\ app' = [Idle EXCEPT !.at = "check", !.h = head, !.frame = seq, !.over = (Size >= Threshold)]
    /\ seq' = seq + 1 /\ handed' = Append(handed, seq)
    /\ UNCHANGED <<ringVars, tx, wireVars, running, overwrote, crossed, disturbed, odd>>

AppPushes ==
    /\ Push(app, tx)
    /\ UNCHANGED <<seq, tx, wireVars, running, handed, disturbed, odd>>

(* reset(): the counter, the ring, and a frame of its own.                   *)
Reset ==
    /\ app.at = "idle" /\ odd < MaxOdd /\ odd' = odd + 1 /\ disturbed' = TRUE
    /\ seq' = 1 /\ app' = [app EXCEPT !.at = "empty"]
    /\ UNCHANGED <<ringVars, tx, wireVars, running, handed, overwrote, crossed>>

Empties ==
    /\ app.at = "empty"
    /\ app' = IF tail = head THEN [Idle EXCEPT !.at = "reset"] ELSE [Idle EXCEPT !.at = "read", !.t = tail]
    /\ UNCHANGED <<ringVars, seq, tx, wireVars, running, pastVars>>

AppPops ==
    /\ Pop(app, tx, "empty")
    /\ UNCHANGED <<seq, tx, wireVars, running, handed, overwrote, disturbed, odd>>

FillsReset ==
    /\ app.at = "reset" /\ app' = [app EXCEPT !.at = "transfer"]
    /\ txbuf' = 0
    /\ UNCHANGED <<ringVars, seq, tx, wire, running, pastVars>>

SendsReset ==
    /\ app.at = "transfer" /\ app' = Idle
    /\ wire' = Append(wire, txbuf)
    /\ UNCHANGED <<ringVars, seq, tx, txbuf, running, pastVars>>

Stop ==
    /\ app.at = "idle" /\ running /\ running' = FALSE
    /\ UNCHANGED <<ringVars, seq, app, tx, wireVars, pastVars>>

-----------------------------------------------------------------------------
(* The transmit thread *)

(* The wait ends with a frame or after ten milliseconds; the silence that is *)
(* made up then uses a number and is never sent.                             *)
Takes ==
    /\ running /\ tx.at = "idle"
    /\ IF tail = head
       THEN /\ Silent /\ odd < MaxOdd /\ odd' = odd + 1
            /\ seq' = seq + 1 /\ txbuf' = 0 /\ UNCHANGED tx
       ELSE tx' = [tx EXCEPT !.at = "read", !.t = tail] /\ UNCHANGED <<seq, txbuf, odd>>
    /\ UNCHANGED <<ringVars, app, wire, running, handed, overwrote, crossed, disturbed>>

TxPops ==
    /\ Pop(tx, app, "pack")
    /\ UNCHANGED <<seq, app, wireVars, running, handed, overwrote, disturbed, odd>>

Packs ==
    /\ tx.at = "pack" /\ tx' = [tx EXCEPT !.at = "transfer", !.t = 0]
    /\ txbuf' = tx.frame
    /\ UNCHANGED <<ringVars, seq, app, wire, running, pastVars>>

(* The transfer and the status that comes back with it.                      *)
Transfers ==
    /\ tx.at = "transfer"
    /\ wire' = Append(wire, txbuf)
    /\ \/ tx' = Idle /\ UNCHANGED <<disturbed, odd>>
       \/ /\ odd < MaxOdd /\ odd' = odd + 1 /\ disturbed' = TRUE
          /\ tx' = [tx EXCEPT !.at = "check", !.h = head, !.over = TRUE]
    /\ UNCHANGED <<ringVars, seq, app, txbuf, running, handed, overwrote, crossed>>

TxPushes ==
    /\ Push(tx, app)
    /\ UNCHANGED <<seq, app, wireVars, running, handed, disturbed, odd>>

Next ==
    \/ SendAudio \/ AppPushes \/ Reset \/ Empties \/ AppPops \/ FillsReset \/ SendsReset \/ Stop
    \/ Takes \/ TxPops \/ Packs \/ Transfers \/ TxPushes

Spec == Init /\ [][Next]_audioVars

-----------------------------------------------------------------------------
(* Properties *)

(* As long as nothing is overwritten the frames go out as they were handed    *)
(* in, none missing.  When the oldest are overwritten the rest is still sent  *)
(* whole, in order and once, until a push that overwrites meets a pop: the    *)
(* two then store the same index.  A busy peer and reset(), which use the     *)
(* ring from the wrong side, are out of this (ring_buffer.h).                 *)
AudioInOrder ==
    ~disturbed =>
        /\ ~overwrote => IsPrefix(wire, handed)
        /\ ~crossed => \A i \in DOMAIN wire : wire[i] > IF i = 1 THEN 0 ELSE wire[i - 1]
=============================================================================
