------------------------------ MODULE Framing ------------------------------
(***************************************************************************)
(* Cutting a byte stream into units, as it arrives.                        *)
(*                                                                         *)
(* Three loops of the code do it: FrameParser cuts the USB pipe into       *)
(* frames, StreamAssembler cuts a channel's payload into records with      *)
(* DRRecordSize as its sizer, and UsbChannelManager (Python) cuts the pipe *)
(* on the host.  All keep the bytes they cannot use yet, look for the next *)
(* magic when they are lost, and drop what lies before their position only *)
(* from time to time.  Each iteration of the loop is a step here.          *)
(*                                                                         *)
(* A unit is the magic, one byte that tells the length of the rest (or     *)
(* that is not a possible length), and the rest.  DropTail is a mistake    *)
(* the code could make; Next does not use it.                              *)
(***************************************************************************)
EXTENDS Integers, Sequences

CONSTANTS
    Cutters,     \* subset of {"frames", "records", "host"}
    Bytes,       \* what a byte may be: a subset of Nat
    Magic,       \* FRAME_MAGIC or the record's magic, as it is on the wire
    MaxRest,     \* MAX_FRAME_SIZE, maxRecord: a longer rest is an error
    Dead,        \* USB_BUF_SIZE: a dead prefix this long is dropped
    MaxBytes,    \* bound: bytes of the stream
    MaxChunk     \* bound: bytes that arrive at once

VARIABLES
    cutter,      \* which of them
    buf, pos,    \* m_buf and m_pos; _rx_buf and _rx_pos
    busy,        \* is the loop running
    out,         \* the units handed on since the last reset
    fed,         \* history: the bytes that came in since the last reset
    count,       \* bound: bytes fed
    strayed      \* history: a search went back into what was handed on, or gave up a tail

vars == <<cutter, buf, pos, busy, out, fed, count, strayed>>

Header == Len(Magic) + 1
Avail == Len(buf) - pos
At(s, i) == SubSeq(s, i + 1, i + Len(Magic))           \* the bytes at offset i
Rest(s, i) == s[i + Header]                            \* the length told at offset i
Unit(s, i) == SubSeq(s, i + 1, i + Header + Rest(s, i))

Init ==
    /\ cutter \in Cutters
    /\ buf = << >> /\ pos = 0 /\ busy = FALSE
    /\ out = << >> /\ fed = << >> /\ count = 0 /\ strayed = FALSE

-----------------------------------------------------------------------------
(* What stands at the position: "more", "bad" or "whole" *)

(* decodeHeader and the tests of FrameParser::feed and _parse_rx.            *)
FrameThere ==
    CASE Avail < Header -> "more"
      [] Avail >= Header /\ (At(buf, pos) # Magic \/ Rest(buf, pos) > MaxRest) -> "bad"
      [] OTHER -> IF Avail < Header + Rest(buf, pos) THEN "more" ELSE "whole"

(* The pre-check of StreamAssembler::feed and DRRecordSize, which looks at   *)
(* the magic as far as it has come.                                          *)
RecordThere ==
    LET have == IF Avail < Len(Magic) THEN Avail ELSE Len(Magic)
    IN  CASE Avail = 0 -> "more"
          [] Avail > 0 /\ SubSeq(buf, pos + 1, pos + have) # SubSeq(Magic, 1, have) -> "bad"
          [] OTHER -> FrameThere

There == IF cutter = "records" THEN RecordThere ELSE FrameThere

(* findPattern from an offset; Len(buf) stands for nothing found.            *)
Found(from) == {i \in from..Len(buf) - Len(Magic) : At(buf, i) = Magic}
FindPattern(from) ==
    IF Found(from) = {} THEN Len(buf) ELSE CHOOSE i \in Found(from) : \A j \in Found(from) : i <= j

DropTail == 0
KeepTail == Len(Magic) - 1

(* resync(): the next magic, or what may be the beginning of one.  The       *)
(* buffer may hold less than that after the position; then it steps back.    *)
Resync ==
    IF FindPattern(pos + 1) < Len(buf) THEN FindPattern(pos + 1)
    ELSE IF cutter = "host" THEN Len(buf)
    ELSE IF Len(buf) > KeepTail THEN Len(buf) - KeepTail ELSE pos

(* _parse_rx gives up the whole buffer at an impossible length.              *)
AfterBad ==
    IF cutter = "host" /\ At(buf, pos) = Magic THEN Len(buf) ELSE Resync

(* compact(): the dead prefix goes when it is all, or long.                  *)
Compact(b, p) ==
    IF p >= Len(b) /\ cutter # "host" THEN <<<< >>, 0>>
    ELSE IF p >= Dead THEN <<SubSeq(b, p + 1, Len(b)), 0>>
    ELSE <<b, p>>

-----------------------------------------------------------------------------
Feed(chunk) ==
    /\ ~busy /\ count + Len(chunk) <= MaxBytes
    /\ buf' = buf \o chunk /\ fed' = fed \o chunk /\ count' = count + Len(chunk)
    /\ busy' = TRUE
    /\ UNCHANGED <<cutter, pos, out, strayed>>

Move(p) == LET c == Compact(buf, p) IN buf' = c[1] /\ pos' = c[2]

Deliver ==
    /\ busy /\ There = "whole"
    /\ out' = Append(out, Unit(buf, pos))
    /\ Move(pos + Header + Rest(buf, pos))
    /\ UNCHANGED <<cutter, busy, fed, count, strayed>>

Lost ==
    /\ busy /\ There = "bad"
    /\ Move(AfterBad)
    /\ busy' = (FindPattern(pos + 1) < Len(buf) /\ AfterBad < Len(buf))
    /\ strayed' = (strayed \/ AfterBad < pos \/ (cutter = "host" /\ AfterBad = Len(buf)))
    /\ UNCHANGED <<cutter, out, fed, count>>

Wait ==
    /\ busy /\ There = "more"
    /\ busy' = FALSE
    /\ Move(pos)
    /\ UNCHANGED <<cutter, out, fed, count, strayed>>

(* Session::pump at a CLOSE of the channel: the assembler starts afresh.     *)
Close ==
    /\ ~busy /\ cutter = "records" /\ fed # << >>
    /\ buf' = << >> /\ pos' = 0
    /\ out' = << >> /\ fed' = << >>
    /\ UNCHANGED <<cutter, busy, count, strayed>>

Chunks == UNION {[1..n -> Bytes] : n \in 1..MaxChunk}
Next == (\E chunk \in Chunks : Feed(chunk)) \/ Deliver \/ Lost \/ Wait \/ Close
Spec == Init /\ [][Next]_vars

-----------------------------------------------------------------------------
(* Properties *)

TypeOK ==
    /\ cutter \in Cutters /\ buf \in Seq(Bytes) /\ pos \in 0..Len(buf)
    /\ busy \in BOOLEAN /\ out \in Seq(Seq(Bytes)) /\ fed \in Seq(Bytes)
    /\ count \in 0..MaxBytes /\ strayed \in BOOLEAN

(* The units of a stream that lies there as a whole: at each offset a unit   *)
(* that is all there, or one that is still to come, or else the next offset. *)
CutFrom(s) ==
    LET from[i \in 0..Len(s)] ==
            IF Len(s) - i < Header THEN << >>
            ELSE IF At(s, i) # Magic \/ Rest(s, i) > MaxRest THEN from[i + 1]
            ELSE IF Len(s) - i < Header + Rest(s, i) THEN << >>
            ELSE <<Unit(s, i)>> \o from[i + Header + Rest(s, i)]
    IN  from
Cut(s) == CutFrom(s)[0]

(* However the bytes are split over reads, and whatever is lost or damaged   *)
(* between units, the units handed on are those of the stream as a whole;    *)
(* but a search that runs into the end of the buffer may step back into a    *)
(* record already handed on (StreamAssembler::resync) or give up the         *)
(* beginning of a magic (_parse_rx), and is left out (usbproto.cpp, feed).   *)
ChunksDoNotMatter == ~busy /\ ~strayed => out = Cut(fed)
=============================================================================
