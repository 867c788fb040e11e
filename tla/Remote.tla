------------------------------- MODULE Remote -------------------------------
(***************************************************************************)
(* The App's picture, on the panel and on a remote viewer.                 *)
(*                                                                         *)
(* The render loop plans a frame from flags that several threads raise,    *)
(* draws it on the panel and, while a remote is attached, a second time as *)
(* a record of drawing commands.  drPublish drops a record equal to the    *)
(* last one and leaves the others in a slot that holds one; the sender     *)
(* thread takes it from there to channel 11 of usbd.  The viewer, which    *)
(* starts with a blank window, asks for a full frame and shows what comes. *)
(*                                                                         *)
(* A picture is the set of parts it paints, with the status text and the   *)
(* view they belong to.  The code means to mask the video out of the       *)
(* records (app.h:75-77) and sets no mask, so that records hold it too:    *)
(* what the viewer is promised is the picture beside the video.  Texts are *)
(* numbered, video frames are not; the way from the sender to the viewer   *)
(* loses some frames and requests (a relay that is behind).                *)
(*                                                                         *)
(* StatusOnRequest and PublishNoKeyframe are mistakes the code could make; *)
(* Next does not use them.                                                 *)
(***************************************************************************)
EXTENDS Integers, Sequences

CONSTANTS
    Views,         \* what touches lead to: subset of {"none", "about", "system", "hidden"}
    Videos,        \* is there a video stream at the start: subset of BOOLEAN
    MaxTexts,      \* bound: status texts written and touches by the viewer
    MaxAttach,     \* bound: viewers, one after the other
    MaxLost        \* bound: frames and requests lost, breaks of the link

VARIABLES
    text, raising,                     \* statusMsg; what its writer does next
    sysMsg, sysInfo, force, redraw,    \* RRFSYSMSG, RRFSYSINFO, RRFF, Manager::_needsRedraw
    view, video, hasFrame,             \* what is switched on, frameReady, hasFrame
    posted,                            \* touches by the viewer, actions of the USB thread
    elapsed,                           \* intervals that have run out
    main, plan, drawn, shown,          \* the render loop, RenderPlan, draw buffer, panel
    lastSent, pending, forceResend,    \* drLastSent, drPending, drForceResend
    sender, up, frame, inbound,        \* drLoop, drRemoteUp, its frame, records from the viewer
    viewer, seen,                      \* the viewer and its window
    taps, attached, lost,              \* bounds
    missed                             \* history: a flag was cleared for a text not drawn

textVars == <<text, raising, sysMsg>>
loopVars == <<sysInfo, force, redraw, view, video, hasFrame, posted, main, plan, drawn, shown, missed>>
slotVars == <<lastSent, pending, forceResend>>
senderVars == <<sender, up, frame, inbound>>
viewerVars == <<viewer, seen, attached>>
vars == <<textVars, loopVars, elapsed, slotVars, senderVars, viewerVars, taps, lost>>

Blank == [parts |-> {}, text |-> 0, view |-> "none"]
None == [parts |-> {"none"}, text |-> 0, view |-> "none"]
NoPlan == [parts |-> {}, ask |-> FALSE]

(* What a picture of this view consists of. *)
PartsOf(v) == {"text"} \cup (IF v = "hidden" THEN {} ELSE {"widgets"})
                     \cup (IF v = "about" THEN {"about"} ELSE {})
                     \cup (IF v \in {"system", "hidden"} THEN {"info"} ELSE {})
Current == [parts |-> PartsOf(view) \cup (IF video THEN {"video"} ELSE {}), text |-> text, view |-> view]

Init ==
    /\ text = 0 /\ raising = "nothing" /\ sysMsg = FALSE
    /\ sysInfo = FALSE /\ force = FALSE /\ redraw = TRUE
    /\ view = "about" /\ video \in Videos /\ hasFrame = FALSE /\ posted = {}
    /\ elapsed = {}
    /\ main = "process" /\ plan = NoPlan /\ drawn = Blank /\ shown = Blank
    /\ lastSent = None /\ pending = None /\ forceResend = TRUE
    /\ sender = "open" /\ up = FALSE /\ frame = None /\ inbound = << >>
    /\ viewer = "off" /\ seen = None
    /\ taps = 0 /\ attached = 0 /\ lost = 0
    /\ missed = FALSE

-----------------------------------------------------------------------------
(* The other threads, and time *)

(* A thread writes a text and then tells the loop: the USB thread raises    *)
(* the flag, or posts its time-out as an action; the touch thread queues the *)
(* event.                                                                    *)
WriteText(by) ==
    /\ raising = "nothing" /\ text + taps < MaxTexts
    /\ text' = text + 1 /\ raising' = by
    /\ UNCHANGED <<sysMsg, loopVars, elapsed, slotVars, senderVars, viewerVars, taps, lost>>

Tell ==
    /\ raising # "nothing" /\ raising' = "nothing"
    /\ sysMsg' = (sysMsg \/ raising = "flag")
    /\ posted' = posted \cup ({raising} \ {"flag"})
    /\ UNCHANGED <<text, sysInfo, force, redraw, view, video, hasFrame, main, plan, drawn, shown, missed,
                   elapsed, slotVars, senderVars, viewerVars, taps, lost>>

(* usbLoop, "Clear on disconnect": the frame goes, then the text is written. *)
VideoEnds ==
    /\ video /\ raising = "nothing" /\ text + taps < MaxTexts
    /\ video' = FALSE
    /\ text' = text + 1 /\ raising' = "flag"
    /\ UNCHANGED <<sysMsg, sysInfo, force, redraw, view, hasFrame, posted, main, plan, drawn, shown,
                   missed, elapsed, slotVars, senderVars, viewerVars, taps, lost>>

Elapse(t) ==
    /\ t = "info" => view \in {"system", "hidden"}      \* elsewhere it changes nothing
    /\ elapsed' = elapsed \cup {t}
    /\ UNCHANGED <<textVars, loopVars, slotVars, senderVars, viewerVars, taps, lost>>

-----------------------------------------------------------------------------
(* The render loop *)

(* process() up to render(), and planFrame.  A touch may change the view;    *)
(* nothing reaches the widgets once they are hidden.                         *)
StatusOnRequest(any) == sysMsg
StatusOf(any) == any

PlanFrame(dts, has, info, f, r, v) ==
    LET first == dts \/ f \/ v = "about"
        infoOn == v \in {"system", "hidden"} /\ (info \/ r \/ first)
        widgets == v # "hidden" /\ (sysMsg \/ r \/ first \/ infoOn)
        any == sysMsg \/ first \/ infoOn \/ widgets
    IN  [parts |-> (IF (dts \/ f) /\ has THEN {"video"} ELSE {})
                   \cup (IF v = "about" THEN {"about"} ELSE {})
                   \cup (IF infoOn THEN {"info"} ELSE {})
                   \cup (IF widgets THEN {"widgets"} ELSE {})
                   \cup (IF StatusOf(any) THEN {"text"} ELSE {}),
         ask |-> infoOn /\ info]

Process ==
    /\ main = "process" /\ main' = "draw"
    /\ posted' = {} /\ hasFrame' = (hasFrame \/ video)
    /\ LET handled == "touch" \in posted /\ view # "hidden"
           f == force \/ "alarm" \in posted
           r == redraw \/ handled
       IN  /\ view' \in IF handled THEN Views ELSE {view}
           /\ sysInfo' = (sysInfo \/ "info" \in elapsed)
           /\ plan' = PlanFrame(video, hasFrame', sysInfo', f, r, view')
           /\ redraw' = r
    /\ force' = FALSE
    /\ elapsed' = elapsed \ {"info"}
    /\ UNCHANGED <<textVars, video, drawn, shown, missed, slotVars, senderVars, viewerVars, taps, lost>>

Paint == [parts |-> plan.parts, text |-> IF "text" \in plan.parts THEN text ELSE 0, view |-> view]

(* drawFrame at the panel; Manager::draw takes the redraw request.           *)
Draw ==
    /\ main = "draw"
    /\ drawn' = Paint
    /\ redraw' = (redraw /\ "widgets" \notin plan.parts)
    /\ main' = IF plan.parts # {} /\ up THEN "record" ELSE "swap"
    /\ UNCHANGED <<textVars, sysInfo, force, view, video, hasFrame, posted, plan, shown, missed, elapsed,
                   slotVars, senderVars, viewerVars, taps, lost>>

(* drawFrame once more at the recorder, and drPublish: a record equal to the *)
(* last one is dropped unless a full frame was asked for or the last one is  *)
(* drKeyframeMs old; the slot keeps the newest.                              *)
PublishNoKeyframe(blob) ==
    /\ forceResend' = FALSE
    /\ IF forceResend \/ blob # lastSent
       THEN lastSent' = blob /\ pending' = blob /\ elapsed' = elapsed \ {"keyframe"}
       ELSE UNCHANGED <<lastSent, pending, elapsed>>

Publish(blob) ==
    /\ forceResend' = FALSE
    /\ IF forceResend \/ "keyframe" \in elapsed \/ blob # lastSent
       THEN lastSent' = blob /\ pending' = blob /\ elapsed' = elapsed \ {"keyframe"}
       ELSE UNCHANGED <<lastSent, pending, elapsed>>

Record ==
    /\ main = "record" /\ main' = "swap"
    /\ Publish(Paint)
    /\ UNCHANGED <<textVars, sysInfo, force, redraw, view, video, hasFrame, posted, plan, drawn, shown, missed,
                   senderVars, viewerVars, taps, lost>>

(* The flags are cleared, whatever was raised since planFrame; swapBuffers.  *)
Swap ==
    /\ main = "swap" /\ main' = "process"
    /\ sysInfo' = (sysInfo /\ "info" \notin plan.parts)
    /\ sysMsg' = (sysMsg /\ "text" \notin plan.parts)
    /\ redraw' = (redraw \/ plan.ask)
    /\ shown' = IF plan.parts # {} THEN drawn ELSE shown
    /\ missed' = IF plan.parts = {} THEN missed ELSE drawn.text # text /\ raising # "flag"
    /\ plan' = NoPlan
    /\ UNCHANGED <<text, raising, force, view, video, hasFrame, posted, drawn, elapsed, slotVars, senderVars,
                   viewerVars, taps, lost>>

-----------------------------------------------------------------------------
(* drLoop *)

(* Channel 11 is opened; first the request for a full frame, then the gate.  *)
Open ==
    /\ sender = "open" /\ sender' = "gate"
    /\ forceResend' = TRUE
    /\ UNCHANGED <<textVars, loopVars, elapsed, lastSent, pending, up, frame, inbound, viewerVars, taps, lost>>

Gate ==
    /\ sender = "gate" /\ sender' = "poll" /\ up' = TRUE
    /\ UNCHANGED <<textVars, loopVars, elapsed, slotVars, frame, inbound, viewerVars, taps, lost>>

(* drHandleInput: a control record, or a touch record, which joins the       *)
(* queue of touches.                                                         *)
Receive ==
    /\ sender = "poll" /\ inbound # << >>
    /\ inbound' = Tail(inbound)
    /\ forceResend' = (forceResend \/ Head(inbound) = "request")
    /\ posted' = posted \cup ({Head(inbound)} \ {"request"})
    /\ UNCHANGED <<textVars, sysInfo, force, redraw, view, video, hasFrame, main, plan, drawn, shown, missed,
                   elapsed, lastSent, pending, sender, up, frame, viewerVars, taps, lost>>

(* The wait ends with a frame, or after 20 ms without one. *)
Take ==
    /\ sender = "poll" /\ inbound = << >> /\ pending # None
    /\ frame' = pending /\ pending' = None
    /\ sender' = "send"
    /\ UNCHANGED <<textVars, loopVars, elapsed, lastSent, forceResend, up, inbound, viewerVars, taps, lost>>

(* What nobody listens to is gone, and so is a frame the way loses. *)
Send ==
    /\ sender = "send" /\ sender' = "poll" /\ frame' = None
    /\ \/ seen' = (IF viewer = "on" THEN frame ELSE seen) /\ UNCHANGED lost
       \/ lost < MaxLost /\ lost' = lost + 1 /\ UNCHANGED seen
    /\ UNCHANGED <<textVars, loopVars, elapsed, slotVars, up, inbound, viewer, attached, taps>>

(* recv or send fails: the gate is shut, the channel closed, and after a     *)
(* second the loop opens it again.                                           *)
LinkBreaks ==
    /\ sender \in {"poll", "send"} /\ lost < MaxLost
    /\ lost' = lost + 1
    /\ sender' = "open" /\ up' = FALSE /\ frame' = None /\ inbound' = << >>
    /\ UNCHANGED <<textVars, loopVars, elapsed, slotVars, viewerVars, taps>>

-----------------------------------------------------------------------------
(* The viewer (remote_viewer) *)

Ask == \/ inbound' = Append(inbound, "request") /\ UNCHANGED lost
       \/ lost < MaxLost /\ lost' = lost + 1 /\ UNCHANGED inbound

Attach ==
    /\ viewer = "off" /\ attached < MaxAttach
    /\ viewer' = "on" /\ seen' = None /\ attached' = attached + 1
    /\ Ask
    /\ UNCHANGED <<textVars, loopVars, elapsed, slotVars, sender, up, frame, taps>>

(* It keeps asking, once a second, until the first frame lands. *)
AskAgain ==
    /\ viewer = "on" /\ seen = None /\ inbound = << >>
    /\ Ask
    /\ UNCHANGED <<textVars, loopVars, elapsed, slotVars, sender, up, frame, viewerVars, taps>>

Touch ==
    /\ viewer = "on" /\ inbound = << >> /\ text + taps < MaxTexts
    /\ taps' = taps + 1
    /\ inbound' = Append(inbound, "touch")
    /\ UNCHANGED <<textVars, loopVars, elapsed, slotVars, sender, up, frame, viewerVars, lost>>

Detach ==
    /\ viewer = "on" /\ viewer' = "off" /\ seen' = None
    /\ UNCHANGED <<textVars, loopVars, elapsed, slotVars, senderVars, attached, taps, lost>>

-----------------------------------------------------------------------------
Render == Process \/ Draw \/ Record \/ Swap
Sender == Open \/ Gate \/ Receive \/ Take \/ Send

Next ==
    \/ \E by \in {"flag", "touch", "alarm"} : WriteText(by)
    \/ Tell \/ VideoEnds
    \/ \E t \in {"info", "keyframe"} : Elapse(t)
    \/ Render
    \/ Sender \/ LinkBreaks
    \/ Attach \/ AskAgain \/ Touch \/ Detach

(* Threads run and time passes; usbd accepts the sender in the end; a viewer *)
(* that asks once a second leaves the sender time to look at its slot.       *)
Fairness ==
    /\ WF_vars(Tell)
    /\ \A t \in {"info", "keyframe"} : WF_vars(Elapse(t))
    /\ WF_vars(Render) /\ WF_vars(Sender) /\ SF_vars(Take) /\ WF_vars(AskAgain)

Spec == Init /\ [][Next]_vars
FairSpec == Spec /\ Fairness

-----------------------------------------------------------------------------
(* Properties *)

Pictures == [parts : SUBSET {"text", "widgets", "about", "info", "video"}, text : 0 .. MaxTexts, view : Views \cup {"none", "about"}]

TypeOK ==
    /\ text \in 0 .. MaxTexts /\ raising \in {"nothing", "flag", "touch", "alarm"}
    /\ {sysMsg, sysInfo, force, redraw, video, hasFrame, up, forceResend, missed} \subseteq BOOLEAN
    /\ view \in Views \cup {"about"} /\ posted \subseteq {"touch", "alarm"}
    /\ elapsed \subseteq {"info", "keyframe"}
    /\ main \in {"process", "draw", "record", "swap"}
    /\ {drawn, shown} \subseteq Pictures
    /\ {lastSent, pending, frame, seen} \subseteq Pictures \cup {None}
    /\ sender \in {"open", "gate", "poll", "send"}
    /\ inbound \in Seq({"request", "touch"}) /\ viewer \in {"on", "off"}

(* A picture without its video.                                              *)
BesideVideo(p) == [p EXCEPT !.parts = @ \ {"video"}]

(* A forced frame still paints the last image of a stream that has ended.    *)
Shows(p) == p = Current \/ BesideVideo(p) = Current

(* Nothing keeps the loop drawing: no view that repaints and no video.       *)
Quiet == view = "none" /\ ~video

(* The panel comes to show the newest text and the whole of the view, unless *)
(* render() cleared the flag of a text written after it had drawn            *)
(* (ui.cpp:120-123).                                                         *)
PanelFollows == <>[](Shows(shown) \/ missed)

(* Whatever is lost, dropped as equal, overwritten in the slot or cut off by *)
(* a break of the link, a viewer that stays comes to show the picture, as    *)
(* long as the loop draws at all (drawreplay_link.cpp:78-96, 207-210).  Of   *)
(* the video nothing is said: it is not meant to be in the records.          *)
ViewerFollows == <>[](viewer = "off" \/ Quiet \/ BesideVideo(seen) = BesideVideo(Current))
=============================================================================
