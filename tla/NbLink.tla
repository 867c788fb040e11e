------------------------------- MODULE NbLink -------------------------------
(***************************************************************************)
(* The host side of the northbridge link (LinkImpl in                      *)
(* libs/hwinterface/northbridge.cpp): send() queues frames, request()      *)
(* sends one and waits for a reply of the same type, and the link thread   *)
(* exchanges one frame each way per SPI transfer.  The northbridge at the  *)
(* other end is what dspi.cpp and dspi_cmd.cpp promise: commands are       *)
(* executed in the order they arrive and answered if the queue has room.   *)
(*                                                                         *)
(* A transfer may damage either direction or fail.  A frame carries its    *)
(* type, the reply flag and the number of the call it was made by.         *)
(*                                                                         *)
(* TransferRequeues, ParseAnyReply and WaitForEdge are mistakes this code  *)
(* could make; Next does not use them, the properties are tried against    *)
(* them.                                                                   *)
(***************************************************************************)
EXTENDS Integers, Sequences

CONSTANTS
    Requesters,    \* threads that call request() and send()
    Types,         \* command types that are answered
    Attempts,      \* attempts of request()
    TxQueueDepth,  \* Config::tx_queue_depth
    PeerDepth,     \* the firmware's rx_depth and tx_depth
    Polling,       \* Config::poll_interval_ms > 0
    MaxCalls,      \* bound: calls of request() and send()
    MaxEvents      \* bound: unsolicited frames of the northbridge

Leds == "leds"                       \* NB_CMD_SET_LEDS is not answered
Event == "event"                     \* NB_CMD_PANEL_EVT, NB_CMD_ENC_EVT

(* The command codes of nb_protocol.h are distinct. *)
ASSUME ConstantsAssumption ==
    /\ Attempts \in Nat \ {0}
    /\ TxQueueDepth \in Nat \ {0}
    /\ PeerDepth \in Nat \ {0}
    /\ Polling \in BOOLEAN
    /\ MaxCalls \in Nat
    /\ MaxEvents \in Nat
    /\ Types \cap {Leds, Event} = {}

AllTypes == Types \cup {Leds, Event}
Calls == 0 .. MaxCalls
Frames == [type : AllTypes, reply : BOOLEAN, call : Calls]
NoFrame == [type |-> Event, reply |-> FALSE, call |-> 0]      \* kTypeIdle, or nothing

VARIABLES
    running,                                      \* running_
    stopper,                                      \* where stop() is
    calls,                                        \* calls made so far
    rpc, rtype, call, attempt, answer,            \* request(): place, locals, its reply
    pendingType, awaiting, haveReply, pendingReply,
    txq,                                          \* tx_queue_
    lpc, draining, out, inn, more,                \* the link thread: place, first loop, outgoing, received, peer_more
    handed,                                       \* the last frame given to on_frame_
    peerRx, peerTx, events, executed              \* the northbridge: queues, events sent, last call executed

requestVars == <<rpc, rtype, call, attempt, answer>>
replyVars == <<pendingType, awaiting, haveReply, pendingReply>>
linkVars == <<lpc, draining, out, inn, more>>
peerVars == <<peerRx, peerTx, events, executed>>
vars == <<running, stopper, calls, requestVars, replyVars, txq, linkVars, handed, peerVars>>

(* start() succeeded. *)
Init ==
    /\ running = TRUE /\ stopper = "idle" /\ calls = 0
    /\ rpc = [r \in Requesters |-> "idle"]
    /\ rtype = [r \in Requesters |-> Leds]
    /\ call = [r \in Requesters |-> 0]
    /\ attempt = [r \in Requesters |-> 0]
    /\ answer = [r \in Requesters |-> NoFrame]
    /\ pendingType = Event /\ awaiting = FALSE /\ haveReply = FALSE /\ pendingReply = NoFrame
    /\ txq = << >>
    /\ lpc = "exchange" /\ draining = TRUE /\ out = NoFrame /\ inn = NoFrame /\ more = FALSE
    /\ handed = NoFrame
    /\ peerRx = << >> /\ peerTx = << >> /\ events = 0 /\ executed = 0

-----------------------------------------------------------------------------
(* send(): refused when the queue is full. *)

Queue(f) == Len(txq) < TxQueueDepth /\ txq' = Append(txq, f)

SendLeds(r) ==
    /\ rpc[r] = "idle"
    /\ calls < MaxCalls
    /\ calls' = calls + 1
    /\ Queue([type |-> Leds, reply |-> FALSE, call |-> calls'])
    /\ UNCHANGED <<running, stopper, requestVars, replyVars, linkVars, handed, peerVars>>

-----------------------------------------------------------------------------
(* request() *)

Request(r) ==
    /\ rpc[r] = "idle"
    /\ calls < MaxCalls
    /\ calls' = calls + 1
    /\ call' = [call EXCEPT ![r] = calls']
    /\ \E t \in Types : rtype' = [rtype EXCEPT ![r] = t]
    /\ attempt' = [attempt EXCEPT ![r] = 0]
    /\ rpc' = [rpc EXCEPT ![r] = "arm"]
    /\ UNCHANGED <<running, stopper, answer, replyVars, txq, linkVars, handed, peerVars>>

Arm(r) ==
    /\ rpc[r] = "arm"
    /\ running
    /\ pendingType' = rtype[r]
    /\ haveReply' = FALSE
    /\ awaiting' = TRUE
    /\ rpc' = [rpc EXCEPT ![r] = "send"]
    /\ UNCHANGED <<running, stopper, calls, rtype, call, attempt, answer, pendingReply, txq, linkVars, handed, peerVars>>

(* The link stopped before the next attempt. *)
GiveUp(r) ==
    /\ rpc[r] = "arm"
    /\ ~running
    /\ rpc' = [rpc EXCEPT ![r] = "failed"]
    /\ UNCHANGED <<running, stopper, calls, rtype, call, attempt, answer, replyVars, txq, linkVars, handed, peerVars>>

Send(r) ==
    /\ rpc[r] = "send"
    /\ \/ /\ Queue([type |-> rtype[r], reply |-> FALSE, call |-> call[r]])
          /\ rpc' = [rpc EXCEPT ![r] = "wait"]
          /\ UNCHANGED awaiting
       \/ /\ Len(txq) = TxQueueDepth
          /\ awaiting' = FALSE
          /\ rpc' = [rpc EXCEPT ![r] = "failed"]
          /\ UNCHANGED txq
    /\ UNCHANGED <<running, stopper, calls, rtype, call, attempt, answer, pendingType, haveReply, pendingReply, linkVars, handed, peerVars>>

(* The wait ends with a reply ... *)
Answered(r) ==
    /\ rpc[r] = "wait"
    /\ haveReply
    /\ awaiting' = FALSE
    /\ answer' = [answer EXCEPT ![r] = pendingReply]
    /\ rpc' = [rpc EXCEPT ![r] = "answered"]
    /\ UNCHANGED <<running, stopper, calls, rtype, call, attempt, pendingType, haveReply, pendingReply, txq, linkVars, handed, peerVars>>

(* ... or without one, after timeout_ms or when the link stops. *)
TimedOut(r) ==
    /\ rpc[r] = "wait"
    /\ ~haveReply
    /\ awaiting' = FALSE
    /\ attempt' = [attempt EXCEPT ![r] = @ + 1]
    /\ rpc' = [rpc EXCEPT ![r] = IF attempt'[r] < Attempts THEN "arm" ELSE "failed"]
    /\ UNCHANGED <<running, stopper, calls, rtype, call, answer, pendingType, haveReply, pendingReply, txq, linkVars, handed, peerVars>>

Return(r) ==
    /\ rpc[r] \in {"answered", "failed"}
    /\ rpc' = [rpc EXCEPT ![r] = "idle"]
    /\ rtype' = [rtype EXCEPT ![r] = Leds]
    /\ call' = [call EXCEPT ![r] = 0]
    /\ attempt' = [attempt EXCEPT ![r] = 0]
    /\ answer' = [answer EXCEPT ![r] = NoFrame]
    /\ UNCHANGED <<running, stopper, calls, replyVars, txq, linkVars, handed, peerVars>>

InRequest(r) == Arm(r) \/ GiveUp(r) \/ Send(r) \/ Answered(r) \/ TimedOut(r) \/ Return(r)

-----------------------------------------------------------------------------
(* The link thread. *)

(* pop_tx: the frame leaves the queue before the transfer is tried. *)
Pop ==
    /\ lpc = "exchange"
    /\ IF txq = << >> THEN out' = NoFrame /\ UNCHANGED txq
       ELSE out' = Head(txq) /\ txq' = Tail(txq)
    /\ lpc' = "transfer"
    /\ UNCHANGED <<running, stopper, calls, requestVars, replyVars, draining, inn, more, handed, peerVars>>

(* The northbridge takes an intact command if its queue has room. *)
PeerTakes ==
    \/ UNCHANGED peerRx                                  \* damaged, dropped or idle
    \/ out # NoFrame /\ Len(peerRx) < PeerDepth /\ peerRx' = Append(peerRx, out)

(* exchange() failed or the frame that came back is damaged: the loop ends. *)
EndLoop ==
    /\ lpc' = IF running THEN "wait" ELSE "done"
    /\ draining' = FALSE
    /\ out' = NoFrame
    /\ inn' = NoFrame
    /\ more' = FALSE

TransferRequeues ==
    /\ lpc = "transfer"
    /\ UNCHANGED peerRx
    /\ txq' = IF out = NoFrame THEN txq ELSE Append(txq, out)
    /\ UNCHANGED peerTx
    /\ EndLoop
    /\ UNCHANGED <<running, stopper, calls, requestVars, replyVars, handed, events, executed>>

TransferFails ==
    /\ lpc = "transfer"
    /\ PeerTakes
    /\ \/ UNCHANGED peerTx
       \/ peerTx # << >> /\ peerTx' = Tail(peerTx)        \* the frame it was sending is lost
    /\ EndLoop
    /\ UNCHANGED <<running, stopper, calls, requestVars, replyVars, txq, handed, events, executed>>

(* An intact frame comes back: the next one, or the idle frame if the        *)
(* northbridge had not armed one yet.  It is handed on by parse().           *)
Transfer ==
    /\ lpc = "transfer"
    /\ PeerTakes
    /\ \/ inn' = NoFrame /\ more' = FALSE /\ UNCHANGED peerTx
       \/ /\ peerTx # << >>
          /\ inn' = Head(peerTx)
          /\ peerTx' = Tail(peerTx)
          /\ more' = (peerTx' # << >>)
    /\ out' = NoFrame
    /\ lpc' = "parse"
    /\ UNCHANGED <<running, stopper, calls, requestVars, replyVars, txq, draining, handed, events, executed>>

Wanted(f) == f.reply /\ awaiting /\ pendingType = f.type

ParseAnyReply ==
    /\ lpc = "parse"
    /\ IF inn.reply /\ awaiting
       THEN haveReply' = TRUE /\ pendingReply' = inn /\ UNCHANGED handed
       ELSE /\ handed' = IF inn = NoFrame THEN handed ELSE inn
            /\ UNCHANGED <<haveReply, pendingReply>>
    /\ inn' = NoFrame
    /\ lpc' = "next"
    /\ UNCHANGED <<running, stopper, calls, requestVars, pendingType, awaiting, txq, draining, out, more, peerVars>>

(* A reply goes to request() if one waits for its type, anything else to on_frame_. *)
Parse ==
    /\ lpc = "parse"
    /\ IF Wanted(inn)
       THEN haveReply' = TRUE /\ pendingReply' = inn /\ UNCHANGED handed
       ELSE /\ handed' = IF inn = NoFrame THEN handed ELSE inn
            /\ UNCHANGED <<haveReply, pendingReply>>
    /\ inn' = NoFrame
    /\ lpc' = "next"
    /\ UNCHANGED <<running, stopper, calls, requestVars, pendingType, awaiting, txq, draining, out, more, peerVars>>

(* Another exchange while the peer has more, the line is asserted or a frame *)
(* is queued; the first loop looks at peer_more alone.                       *)
Again == more \/ (~draining /\ (peerTx # << >> \/ txq # << >>))

Loop ==
    /\ lpc = "next"
    /\ \/ /\ Again /\ (draining \/ running)
          /\ lpc' = "exchange"
          /\ more' = FALSE
          /\ UNCHANGED <<draining, out, inn>>
       \/ ~(Again /\ (draining \/ running)) /\ EndLoop
    /\ UNCHANGED <<running, stopper, calls, requestVars, replyVars, txq, handed, peerVars>>

WaitForEdge ==
    /\ lpc = "wait"
    /\ peerTx # << >>
    /\ lpc' = IF running THEN "exchange" ELSE "done"
    /\ UNCHANGED <<running, stopper, calls, requestVars, replyVars, txq, draining, out, inn, more, handed, peerVars>>

(* Waits for an edge of the line or the poll interval. *)
Wait ==
    /\ lpc = "wait"
    /\ Polling \/ peerTx # << >>
    /\ lpc' = IF running THEN "exchange" ELSE "done"
    /\ UNCHANGED <<running, stopper, calls, requestVars, replyVars, txq, draining, out, inn, more, handed, peerVars>>

Link == Pop \/ TransferFails \/ Transfer \/ Parse \/ Loop \/ Wait

-----------------------------------------------------------------------------
(* stop(): clears running_, then joins the link thread. *)
Stop ==
    /\ stopper = "idle"
    /\ running' = FALSE
    /\ stopper' = "join"
    /\ UNCHANGED <<calls, requestVars, replyVars, txq, linkVars, handed, peerVars>>

Join ==
    /\ stopper = "join"
    /\ lpc = "done"
    /\ stopper' = "stopped"
    /\ UNCHANGED <<running, calls, requestVars, replyVars, txq, linkVars, handed, peerVars>>

-----------------------------------------------------------------------------
(* The northbridge: dispatcher_task executes the next command and answers    *)
(* it, if its handler succeeds and the outbound queue has room; the panel    *)
(* and the encoder send events.                                              *)
Execute ==
    /\ peerRx # << >>
    /\ peerRx' = Tail(peerRx)
    /\ executed' = Head(peerRx).call
    /\ \/ UNCHANGED peerTx
       \/ /\ Head(peerRx).type # Leds
          /\ Len(peerTx) < PeerDepth
          /\ peerTx' = Append(peerTx, [Head(peerRx) EXCEPT !.reply = TRUE])
    /\ UNCHANGED <<running, stopper, calls, requestVars, replyVars, txq, linkVars, handed, events>>

SendEvent ==
    /\ events < MaxEvents
    /\ Len(peerTx) < PeerDepth
    /\ events' = events + 1
    /\ peerTx' = Append(peerTx, [type |-> Event, reply |-> FALSE, call |-> 0])
    /\ UNCHANGED <<running, stopper, calls, requestVars, replyVars, txq, linkVars, handed, peerRx, executed>>

-----------------------------------------------------------------------------
Next ==
    \/ \E r \in Requesters : SendLeds(r) \/ Request(r) \/ InRequest(r)
    \/ Link
    \/ Stop
    \/ Join
    \/ Execute
    \/ SendEvent

(* The link thread and a thread inside request() run, and their waits time   *)
(* out; nobody has to call anything, and the northbridge may stay silent.    *)
Fairness ==
    /\ WF_vars(Link)
    /\ \A r \in Requesters : WF_vars(InRequest(r))
    /\ WF_vars(Join)

Spec == Init /\ [][Next]_vars
FairSpec == Spec /\ Fairness

-----------------------------------------------------------------------------
(* Properties *)

TypeOK ==
    /\ running \in BOOLEAN /\ stopper \in {"idle", "join", "stopped"}
    /\ calls \in Calls
    /\ rpc \in [Requesters -> {"idle", "arm", "send", "wait", "answered", "failed"}]
    /\ rtype \in [Requesters -> AllTypes]
    /\ call \in [Requesters -> Calls]
    /\ attempt \in [Requesters -> 0 .. Attempts]
    /\ answer \in [Requesters -> Frames]
    /\ pendingType \in AllTypes /\ awaiting \in BOOLEAN /\ haveReply \in BOOLEAN /\ pendingReply \in Frames
    /\ txq \in Seq(Frames) /\ Len(txq) <= TxQueueDepth
    /\ lpc \in {"exchange", "transfer", "parse", "next", "wait", "done"}
    /\ draining \in BOOLEAN /\ out \in Frames /\ inn \in Frames /\ more \in BOOLEAN
    /\ handed \in Frames
    /\ peerRx \in Seq(Frames) /\ Len(peerRx) <= PeerDepth
    /\ peerTx \in Seq(Frames) /\ Len(peerTx) <= PeerDepth
    /\ events \in 0 .. MaxEvents /\ executed \in Calls

(* request() returns true only with a reply of the type it asked for, to a   *)
(* command the northbridge executed: a late reply to an earlier call of      *)
(* another type is never taken for it.                                       *)
AnswerMatches ==
    \A r \in Requesters :
        rpc[r] = "answered" =>
            /\ answer[r].reply
            /\ answer[r].type = rtype[r]
            /\ answer[r].call \in 1 .. executed

(* northbridge.h:190-191, "resending is safe": whatever is lost, resent or   *)
(* answered late, the northbridge executes commands in the order of the      *)
(* calls, so that no resend undoes a later command.                          *)
ResendNeverOvertakes == [][executed' >= executed]_executed

(* request() returns, whatever is lost and whenever stop() comes; stop()     *)
(* returns, as the link thread notices it; and every accepted frame leaves   *)
(* the queue while the link runs, even when the northbridge has nothing to   *)
(* say and never asserts the line (northbridge.cpp, request, stop and run).  *)
NothingHangs ==
    /\ \A r \in Requesters : rpc[r] # "idle" ~> rpc[r] = "idle"
    /\ stopper = "join" ~> stopper = "stopped"
    /\ []<>(txq = << >> \/ ~running)

=============================================================================
