---------------------------- MODULE HostChannel -----------------------------
(***************************************************************************)
(* One channel of the host's UsbChannelManager (usb_channel.py), as two    *)
(* threads see it: a tool that opens and closes it, and the receive        *)
(* thread, which follows what the device says of the channel.  A queue     *)
(* keeps what it was given: nobody but its reader looks at what is taken.  *)
(*                                                                         *)
(* The table of channels has a lock, but each thread looks and stores      *)
(* under it separately.  UsbChannel objects are numbered as they are made; *)
(* a thread may keep one that has left the table.                          *)
(*                                                                         *)
(* A bulk transfer holds a whole frame, or one comes as two: a "head" and  *)
(* its "tail", or a "stub", shorter than a header.  Data are pairs of the  *)
(* connection and a number in it; End is the None that ends a queue.       *)
(*                                                                         *)
(* KeepClosed is a mistake this code could make; Next does not use it.     *)
(***************************************************************************)
EXTENDS Integers, Sequences

CONSTANTS
    MaxConns,      \* bound: connections the device opens
    MaxData,       \* bound: data in each
    MaxObjects,    \* bound: UsbChannel objects
    MaxSplits      \* bound: frames in two transfers

VARIABLES
    conn, number, linked,      \* the device: connection, data sent in it, is it open
    pipe, up, splits,          \* transfers to the host, frames to the device; bound
    table, objects,            \* _channels, 0 where it has none; the channels made
    tool, held,                \* the tool's thread: place, its channel
    rx, frame, found,          \* the receive thread: place, frame, what it looked up
    rest,                      \* _rx_buf holds the head of a frame
    running,
    crossed, cut               \* history: a look was stale when its store came; a frame lost its end

deviceVars == <<conn, number, linked, splits>>
tableVars == <<table, objects>>
toolVars == <<tool, held>>
rxVars == <<rx, frame, found, rest>>
hostVars == <<deviceVars, pipe, up, tableVars, toolVars, rxVars, running, crossed, cut>>

End == <<0, 0>>
Frame(flag, data, part) == [flag |-> flag, data |-> data, part |-> part]
NoFrame == Frame("none", End, "whole")

Init ==
    /\ conn = 0 /\ number = 0 /\ linked = FALSE /\ splits = 0
    /\ pipe = << >> /\ up = << >>
    /\ table = 0 /\ objects = << >>
    /\ tool = "idle" /\ held = 0
    /\ rx = "idle" /\ frame = NoFrame /\ found = 0 /\ rest = FALSE
    /\ running = TRUE /\ crossed = FALSE /\ cut = FALSE

(* UsbChannel(): made and entered under one lock. *)
Make ==
    /\ Len(objects) < MaxObjects
    /\ objects' = Append(objects, [open |-> TRUE, queue |-> << >>])
    /\ table' = Len(objects) + 1

-----------------------------------------------------------------------------
(* The device, as usbd speaks for its application *)

DeviceOpens ==
    /\ ~linked /\ conn < MaxConns
    /\ linked' = TRUE /\ conn' = conn + 1 /\ number' = 0
    /\ pipe' = Append(pipe, Frame("OPEN", End, "whole"))
    /\ UNCHANGED <<splits, up, tableVars, toolVars, rxVars, running, crossed, cut>>

DeviceSends(end) ==
    /\ linked /\ number < MaxData /\ number' = number + 1
    /\ LET data == <<conn, number + 1>>
       IN  IF end = "whole" THEN pipe' = Append(pipe, Frame("DATA", data, "whole")) /\ UNCHANGED splits
           ELSE /\ splits < MaxSplits /\ splits' = splits + 1
                /\ pipe' = pipe \o <<Frame("DATA", data, "head"), Frame("DATA", data, end)>>
    /\ UNCHANGED <<conn, linked, up, tableVars, toolVars, rxVars, running, crossed, cut>>

DeviceCloses ==
    /\ linked /\ linked' = FALSE
    /\ pipe' = Append(pipe, Frame("CLOSE", End, "whole"))
    /\ UNCHANGED <<conn, number, splits, up, tableVars, toolVars, rxVars, running, crossed, cut>>

(* A CLOSE ends the connection without a word; an OPEN changes nothing.      *)
DeviceHears ==
    /\ up # << >> /\ up' = Tail(up)
    /\ linked' = (linked /\ Head(up) # "CLOSE")
    /\ UNCHANGED <<conn, number, splits, pipe, tableVars, toolVars, rxVars, running, crossed, cut>>

-----------------------------------------------------------------------------
(* The tool *)

(* open_channel: the channel that is there, or a new one, which is announced *)
(* after the lock is given back.                                             *)
OpenChannel ==
    /\ tool = "idle" /\ running
    /\ held # 0 => ~objects[held].open
    /\ IF table # 0
       THEN held' = table /\ UNCHANGED <<tableVars, tool>>
       ELSE Make /\ held' = table' /\ tool' = "announce"
    /\ UNCHANGED <<deviceVars, pipe, up, rxVars, running, crossed, cut>>

Announce ==
    /\ tool = "announce" /\ tool' = "idle"
    /\ up' = Append(up, "OPEN")
    /\ UNCHANGED <<deviceVars, pipe, tableVars, held, rxVars, running, crossed, cut>>

(* close, in three steps: the flag, the frame, the table, whatever is in it. *)
CloseChannel ==
    /\ tool = "idle" /\ held # 0 /\ objects[held].open
    /\ objects' = [objects EXCEPT ![held].open = FALSE]
    /\ tool' = "say"
    /\ UNCHANGED <<deviceVars, pipe, up, table, held, rxVars, running, crossed, cut>>

SayClose ==
    /\ tool = "say" /\ tool' = "remove"
    /\ up' = Append(up, "CLOSE")
    /\ UNCHANGED <<deviceVars, pipe, tableVars, held, rxVars, running, crossed, cut>>

RemoveChannel ==
    /\ tool = "remove" /\ tool' = "idle" /\ held' = 0
    /\ table' = 0 /\ crossed' = (crossed \/ table \notin {0, held})
    /\ UNCHANGED <<deviceVars, pipe, up, objects, rxVars, running, cut>>

(* The manager's close: every channel in the table is closed and taken out.  *)
Marked(o) == [objects EXCEPT ![o].open = FALSE, ![o].queue = Append(@, End)]
Shut ==
    /\ tool = "idle" /\ running /\ running' = FALSE
    /\ objects' = IF table # 0 THEN Marked(table) ELSE objects
    /\ table' = 0 /\ tool' = "ended"
    /\ UNCHANGED <<deviceVars, pipe, up, held, rxVars, crossed, cut>>

-----------------------------------------------------------------------------
(* The receive thread *)

(* _on_rx and _parse_rx: a whole frame goes the fast way, the pieces of one  *)
(* go through the buffer; what is shorter than a header is dropped.  The     *)
(* look-up of _dispatch goes with it.                                        *)
Receive ==
    /\ rx = "idle" /\ running /\ pipe # << >>
    /\ LET t == Head(pipe)
       IN  /\ rx' = IF t.part \in {"whole", "tail"} THEN t.flag ELSE "idle"
           /\ frame' = IF rx' = "idle" THEN NoFrame ELSE t
           /\ found' = IF rx' = "idle" THEN 0 ELSE table
           /\ rest' = (t.part \in {"head", "stub"})
           /\ cut' = (t.part = "stub")
    /\ pipe' = Tail(pipe)
    /\ UNCHANGED <<deviceVars, up, tableVars, toolVars, running, crossed>>

Done == rx' = "idle" /\ frame' = NoFrame /\ found' = 0 /\ UNCHANGED rest

Opened ==
    /\ rx = "OPEN" /\ Done
    /\ IF found = 0 THEN Make /\ crossed' = (crossed \/ table # 0)
       ELSE UNCHANGED <<tableVars, crossed>>
    /\ UNCHANGED <<deviceVars, pipe, up, toolVars, running, cut>>

Dispatched ==
    /\ rx = "DATA" /\ Done
    /\ objects' = IF found # 0 THEN [objects EXCEPT ![found].queue = Append(@, frame.data)] ELSE objects
    /\ UNCHANGED <<deviceVars, pipe, up, table, toolVars, running, crossed, cut>>

MarkClosed ==
    /\ rx = "CLOSE"
    /\ IF found # 0 THEN objects' = Marked(found) /\ rx' = "pop" /\ UNCHANGED <<frame, found, rest>>
       ELSE Done /\ UNCHANGED objects
    /\ UNCHANGED <<deviceVars, pipe, up, table, toolVars, running, crossed, cut>>

KeepClosed ==
    /\ rx = "pop" /\ Done
    /\ UNCHANGED <<deviceVars, pipe, up, tableVars, toolVars, running, crossed, cut>>

Pop ==
    /\ rx = "pop" /\ Done
    /\ table' = 0 /\ crossed' = (crossed \/ table \notin {0, found})
    /\ UNCHANGED <<deviceVars, pipe, up, objects, toolVars, running, cut>>

-----------------------------------------------------------------------------
(* Bound: nothing is followed beyond a frame that lost its end, whose head   *)
(* stays in the buffer and takes the beginning of a later one for its own.   *)
Next ==
    /\ ~cut
    /\ \/ DeviceOpens \/ DeviceCloses \/ DeviceHears
       \/ \E end \in {"whole", "tail", "stub"} : DeviceSends(end)
       \/ OpenChannel \/ Announce \/ CloseChannel \/ SayClose \/ RemoveChannel \/ Shut
       \/ Receive \/ Opened \/ Dispatched \/ MarkClosed \/ Pop

Spec == Init /\ [][Next]_hostVars

-----------------------------------------------------------------------------
(* Properties *)

(* When neither thread is in the middle of a change, a tool's open channel   *)
(* is the one the device's data go to, and no closed channel is handed out   *)
(* again, unless one thread stored over what the other had changed since its *)
(* look (usb_channel.py, open_channel, close, _dispatch).                    *)
OpenIsServed ==
    rx = "idle" /\ tool \in {"idle", "announce"} /\ ~crossed =>
        /\ held # 0 /\ objects[held].open => table = held
        /\ table # 0 => objects[table].open

(* What a channel is given is a stretch of what the device sent, without a   *)
(* hole, and after a CLOSE nothing more, until the manager is closed.        *)
StreamOf(o) == objects[o].queue
NoHoles ==
    running => \A o \in DOMAIN objects : \A i \in 2..Len(StreamOf(o)) :
        LET before == StreamOf(o)[i - 1]
            this == StreamOf(o)[i]
        IN  /\ before # End
            /\ this # End => \/ this = <<before[1], before[2] + 1>>
                             \/ this[1] > before[1] /\ this[2] = 1

(* Both at once. *)
ChannelServed == OpenIsServed /\ NoHoles
=============================================================================
