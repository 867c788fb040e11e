------------------------------ MODULE Buffers -------------------------------
(***************************************************************************)
(* libgfx's draw buffers on a Linux frame buffer: up to three, allocated   *)
(* by enableMultiBuffer or attached by the caller, one drawn into through  *)
(* m_pBuffer and one copied to the panel's memory.                         *)
(*                                                                         *)
(* A piece of memory is a number, its picture the number of the last       *)
(* drawing in it, 0 when cleared.  Memory that was given back is not given *)
(* out again.                                                              *)
(*                                                                         *)
(* SwapKeepsTarget is a mistake the code could make; Next does not use it. *)
(***************************************************************************)
EXTENDS Integers, FiniteSets

CONSTANTS
    External,       \* the caller's own buffers
    MaxMemory,      \* bound: pieces of memory
    MaxDrawings     \* bound: drawings

VARIABLES
    buffers,        \* m_buffers: [data, owned]
    slots,          \* m_bufferCount
    draw, display,  \* m_drawBufferIndex, m_displayBufferIndex
    enabled,        \* m_multiBufferEnabled
    target,         \* m_pBuffer
    live,           \* memory that may be written to
    picture,        \* what each piece of memory shows
    stopped,
    allocated, drawings,    \* bounds
    wanted,         \* history: what was drawn into m_pBuffer before the last swap
    stranded        \* history: a call took away what m_pBuffer points at, or put nothing there

indexVars == <<slots, draw, display, enabled>>
vars == <<buffers, indexVars, target, live, picture, stopped, allocated, drawings, wanted, stranded>>

Null == 0
Frame == 1          \* m_pFbMem
Memory == 1 .. MaxMemory
Index == 0 .. 2
Empty == [data |-> Null, owned |-> FALSE]

(* The constructor and _initializeMultiBuffer. *)
Init ==
    /\ buffers = [i \in Index |-> IF i = 0 THEN [data |-> Frame, owned |-> FALSE] ELSE Empty]
    /\ slots = 1 /\ draw = 0 /\ display = 0 /\ enabled = FALSE
    /\ target = Frame /\ live = {Frame} \cup External
    /\ picture = [m \in Memory |-> 0]
    /\ stopped = FALSE /\ allocated = Frame + Cardinality(External) /\ drawings = 0
    /\ wanted = 0 /\ stranded = FALSE

-----------------------------------------------------------------------------
Owned(indexes) == {buffers[i].data : i \in {j \in indexes : buffers[j].owned}} \ {Null}
Shown(m) == IF m = Null THEN 0 ELSE picture[m]
Released(i) == IF i < slots /\ buffers[i].owned /\ buffers[i].data # Null THEN Empty ELSE buffers[i]

(* enableMultiBuffer: the old buffers go, then n new ones come, cleared.     *)
Enable(n) ==
    /\ ~stopped /\ allocated + n <= MaxMemory /\ allocated' = allocated + n
    /\ LET fresh == allocated + 1 .. allocated + n
           first == IF n > 1 THEN 1 ELSE 0
       IN  /\ live' = (live \ Owned(0 .. slots - 1)) \cup fresh
           /\ buffers' = [i \in Index |-> IF i < n THEN [data |-> allocated + 1 + i, owned |-> TRUE]
                                                   ELSE Released(i)]
           /\ slots' = n /\ display' = 0 /\ draw' = first /\ enabled' = TRUE
           /\ target' = allocated + 1 + first
    /\ wanted' = picture[Frame] /\ stranded' = FALSE
    /\ UNCHANGED <<picture, stopped, drawings>>

(* The allocation of buffer k fails: the old buffers are gone by then, those *)
(* before k are given back, and buffer 0 is whatever m_pBuffer was: memory   *)
(* that was freed, if the draw buffer was the library's own.                 *)
EnableFails(n, k) ==
    /\ ~stopped /\ k < n
    /\ live' = live \ Owned(0 .. slots - 1)
    /\ buffers' = [i \in Index |-> CASE i = 0 -> [data |-> target, owned |-> FALSE]
                                     [] i \in 1 .. k - 1 -> [data |-> Null, owned |-> TRUE]
                                     [] i = k /\ k > 0 -> [Released(i) EXCEPT !.data = Null]
                                     [] OTHER -> Released(i)]
    /\ slots' = 1 /\ enabled' = FALSE
    /\ stranded' = (stranded \/ (enabled /\ buffers[draw].owned))
    /\ UNCHANGED <<draw, display, target, picture, stopped, allocated, drawings, wanted>>

(* A drawing call.  Writes to memory that was freed are not followed.        *)
Draw ==
    /\ ~stopped /\ drawings < MaxDrawings /\ target \in live
    /\ drawings' = drawings + 1
    /\ picture' = [picture EXCEPT ![target] = drawings + 1]
    /\ UNCHANGED <<buffers, indexVars, target, live, stopped, allocated, wanted, stranded>>

(* swapBuffers without buffers: _flushToFb.  With them, a draw buffer that   *)
(* is not there ends the call; the next one becomes m_pBuffer.               *)
Flush ==
    /\ ~stopped /\ ~enabled /\ target \in live
    /\ picture' = [picture EXCEPT ![Frame] = picture[target]]
    /\ UNCHANGED <<buffers, indexVars, target, live, stopped, allocated, drawings, wanted, stranded>>

SwapKeepsTarget(autoclear) ==
    LET from == buffers[draw].data
        next == (draw + 1) % slots
        to == buffers[next].data
    IN  /\ ~stopped /\ enabled /\ draw < slots /\ from # Null
        /\ display' = draw /\ draw' = next
        /\ picture' = [m \in Memory |-> IF m = to /\ autoclear THEN 0
                                        ELSE IF m = Frame THEN picture[from] ELSE picture[m]]
        /\ wanted' = (IF stranded THEN picture[from] ELSE Shown(target))
        /\ stranded' = (to = Null)
        /\ UNCHANGED <<target, buffers, slots, enabled, live, stopped, allocated, drawings>>
Swap(autoclear) ==
    LET from == buffers[draw].data
        next == (draw + 1) % slots
        to == buffers[next].data
    IN  /\ ~stopped /\ enabled /\ draw < slots /\ from # Null
        /\ display' = draw /\ draw' = next
        /\ picture' = [m \in Memory |-> IF m = to /\ autoclear THEN 0
                                        ELSE IF m = Frame THEN picture[from] ELSE picture[m]]
        /\ target' = IF to = Null THEN target ELSE to
        /\ wanted' = (IF stranded THEN picture[from] ELSE Shown(target))
        /\ stranded' = (to = Null)
        /\ UNCHANGED <<buffers, slots, enabled, live, stopped, allocated, drawings>>

SelectDraw(i) ==
    /\ ~stopped /\ enabled /\ i < slots
    /\ draw' = i /\ target' = buffers[i].data
    /\ stranded' = (buffers[i].data = Null)
    /\ UNCHANGED <<buffers, slots, display, enabled, live, picture, stopped, allocated, drawings, wanted>>

SelectDisplay(i) ==
    /\ ~stopped /\ enabled /\ i < slots /\ buffers[i].data # Null
    /\ display' = i
    /\ picture' = [picture EXCEPT ![Frame] = picture[buffers[i].data]]
    /\ wanted' = picture[buffers[i].data]
    /\ UNCHANGED <<buffers, slots, draw, enabled, target, live, stopped, allocated, drawings, stranded>>

(* clearBuffer: all, the one drawn into, or one. *)
Clear(indexes) ==
    /\ ~stopped /\ {buffers[i].data : i \in indexes} \subseteq live \cup {Null}
    /\ picture' = [m \in Memory |-> IF m \in {buffers[i].data : i \in indexes} THEN 0 ELSE picture[m]]
    /\ UNCHANGED <<buffers, indexVars, target, live, stopped, allocated, drawings, wanted, stranded>>

(* attachExternalBuffer frees what the index owned, also when m_pBuffer is   *)
(* that, and does not move m_pBuffer; one past the end leaves the indexes    *)
(* between as they are, without memory at first.                             *)
Attach(i, m) ==
    /\ ~stopped
    /\ live' = live \ Owned({i})
    /\ buffers' = [buffers EXCEPT ![i] = [data |-> m, owned |-> FALSE]]
    /\ slots' = IF i >= slots THEN i + 1 ELSE slots
    /\ stranded' = (stranded \/ (enabled /\ i = draw))
    /\ UNCHANGED <<draw, display, enabled, target, picture, stopped, allocated, drawings, wanted>>

Detach(i) ==
    /\ ~stopped /\ i < slots /\ ~buffers[i].owned
    /\ buffers' = [buffers EXCEPT ![i].data = Null]
    /\ stranded' = (stranded \/ (enabled /\ i = draw))
    /\ UNCHANGED <<indexVars, target, live, picture, stopped, allocated, drawings, wanted>>

(* stop: the buffers and the panel's memory go, m_pBuffer stays.             *)
Stop ==
    /\ ~stopped /\ stopped' = TRUE
    /\ live' = (live \ Owned(Index)) \ {Frame}
    /\ buffers' = [i \in Index |-> IF buffers[i].owned THEN [buffers[i] EXCEPT !.data = Null] ELSE buffers[i]]
    /\ enabled' = FALSE
    /\ UNCHANGED <<slots, draw, display, target, picture, allocated, drawings, wanted, stranded>>

Next ==
    \/ \E n \in 1..3 : Enable(n) \/ \E k \in 0 .. n - 1 : EnableFails(n, k)
    \/ Draw \/ Flush \/ Stop
    \/ \E autoclear \in BOOLEAN : Swap(autoclear)
    \/ \E i \in 0 .. slots - 1 : SelectDraw(i) \/ SelectDisplay(i) \/ Detach(i) \/ Clear({i})
    \/ Clear(0 .. slots - 1) \/ Clear({draw})
    \/ \E i \in Index, m \in External : Attach(i, m)
Spec == Init /\ [][Next]_vars

-----------------------------------------------------------------------------
(* Properties *)

(* Until stop m_pBuffer is memory that is still there, and with buffers it is *)
(* the draw buffer, so that the panel shows what was drawn before the last    *)
(* swapBuffers (GFX.cpp:874-1043).  Five calls break this, and it is whole    *)
(* again once m_pBuffer gets memory: enableMultiBuffer called again, when it  *)
(* runs out of memory, frees the buffer m_pBuffer points at and leaves it     *)
(* pointing there; attachExternalBuffer over the draw buffer does so too;     *)
(* detachExternalBuffer of it, and swapBuffers or selectDrawBuffer onto an    *)
(* index without memory, leave the draw buffer and m_pBuffer apart.           *)
DrawingReachesPanel ==
    ~stopped /\ ~stranded =>
        /\ target \in live
        /\ enabled => target = buffers[draw].data /\ picture[Frame] = wanted
=============================================================================
