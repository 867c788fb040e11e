-------------------------- MODULE InterfaceProofs ---------------------------
(***************************************************************************)
(* Proofs about what connects the App with its panel: the northbridge      *)
(* link, the touch controller's driver, the widgets and the keyboard, and  *)
(* what is drawn on it.                                                    *)
(*                                                                         *)
(* The link, for every set of command types, every queue depth, any number *)
(* of attempts and of lost or damaged transfers: the commands of a thread  *)
(* reach the northbridge in the order of its calls, and request() returns  *)
(* only with the answer of an executed command of its own type.  Both rest *)
(* on OneRequester: the App calls request() and send() from one thread.    *)
(* request() has one rendezvous, so with two threads in it they would take *)
(* each other's.                                                           *)
(*                                                                         *)
(* The others, for any number of contacts, any widgets and any fields:     *)
(* presses and releases pair, nothing is left in hand, and the keyboard    *)
(* serves the field that is in use.                                        *)
(*                                                                         *)
(* What all of them draw, for any size of surface, any boxes, radii,       *)
(* strokes and corners: the pixels a call paints do not depend on what it  *)
(* is drawn on, fillings cover their outlines, and a canvas gives back the *)
(* colours it was given.                                                   *)
(***************************************************************************)
EXTENDS NbLink, TouchScreen, Drawing, SequenceTheorems, TLAPS

OneRequester == \A r, s \in Requesters : r = s

(* The call a thread is in is the last one made. *)
InCall(r) == rpc[r] \in {"arm", "send", "wait"}
CallInv == \A r \in Requesters : InCall(r) => call[r] = calls /\ calls >= 1

(* The attempt it makes is not beyond the last. *)
AttemptInv == \A r \in Requesters : InCall(r) => attempt[r] < Attempts

(* It asks for a type that is answered. *)
AskInv == \A r \in Requesters : InCall(r) => rtype[r] \in Types

(* What waits for the northbridge is a command of an earlier call ... *)
Command(f) == f.type # Event /\ f.call \in 1 .. calls
CommandInv ==
    /\ \A i \in DOMAIN txq : Command(txq[i])
    /\ out # NoFrame => Command(out)
    /\ \A i \in DOMAIN peerRx : Command(peerRx[i])

(* ... and from the last one executed through the northbridge's queue, the   *)
(* transfer and the host's queue the calls ascend.                           *)
Ascending(q) == \A i, j \in DOMAIN q : i < j => q[i].call <= q[j].call
OrderInv ==
    /\ Ascending(txq) /\ Ascending(peerRx)
    /\ executed <= calls
    /\ \A i \in DOMAIN peerRx :
           /\ executed <= peerRx[i].call
           /\ out # NoFrame => peerRx[i].call <= out.call
           /\ \A j \in DOMAIN txq : peerRx[i].call <= txq[j].call
    /\ \A j \in DOMAIN txq :
           /\ executed <= txq[j].call
           /\ out # NoFrame => out.call <= txq[j].call
    /\ out # NoFrame => executed <= out.call

(* A reply, wherever it is, answers a command that was executed. *)
Honest(f, e) == f.reply => f.call \in 1 .. e
ReplyInv ==
    /\ \A i \in DOMAIN peerTx : Honest(peerTx[i], executed)
    /\ Honest(inn, executed)
    /\ Honest(pendingReply, executed)

(* The rendezvous holds a reply of the type that is waited for. *)
RendezvousInv ==
    /\ haveReply => pendingReply.reply /\ pendingReply.type = pendingType
    /\ \A r \in Requesters : rpc[r] \in {"send", "wait"} => pendingType = rtype[r]

TypeInv == TypeOK /\ AttemptInv /\ AskInv
IInv == TypeInv /\ CallInv /\ CommandInv /\ OrderInv /\ ReplyInv /\ RendezvousInv /\ AnswerMatches

-----------------------------------------------------------------------------
(* Queues *)

(* An appended queue keeps its elements and ends with the new one. *)
LEMMA AppendElements ==
    ASSUME NEW S, NEW q \in Seq(S), NEW e \in S
    PROVE  /\ Append(q, e) \in Seq(S)
           /\ Len(q) \in Nat
           /\ DOMAIN q = 1 .. Len(q)
           /\ DOMAIN Append(q, e) = 1 .. (Len(q) + 1)
           /\ Len(Append(q, e)) = Len(q) + 1
           /\ \A i \in DOMAIN q : Append(q, e)[i] = q[i]
           /\ Append(q, e)[Len(q) + 1] = e
    OBVIOUS

(* The tail of a queue has the elements after the first, one place earlier. *)
LEMMA TailElements ==
    ASSUME NEW S, NEW q \in Seq(S), q # << >>
    PROVE  /\ Tail(q) \in Seq(S)
           /\ Head(q) \in S
           /\ Head(q) = q[1]
           /\ 1 \in DOMAIN q
           /\ DOMAIN q = 1 .. Len(q)
           /\ Len(q) \in Nat \ {0}
           /\ DOMAIN Tail(q) = 1 .. (Len(q) - 1)
           /\ Len(Tail(q)) = Len(q) - 1
           /\ \A i \in DOMAIN Tail(q) : Tail(q)[i] = q[i + 1]
    OBVIOUS

(* A frame of a call no earlier than any queued one keeps a queue ascending. *)
LEMMA AppendAscends ==
    ASSUME NEW q \in Seq(Frames), NEW e \in Frames, Ascending(q),
           \A i \in DOMAIN q : q[i].call <= e.call
    PROVE  Ascending(Append(q, e))
BY AppendElements DEF Ascending

(* What leaves an ascending queue is no later than what stays, in order. *)
LEMMA TailAscends ==
    ASSUME NEW q \in Seq(Frames), q # << >>, Ascending(q)
    PROVE  /\ Ascending(Tail(q))
           /\ \A i \in DOMAIN Tail(q) : i + 1 \in DOMAIN q /\ Head(q).call <= Tail(q)[i].call
<1>1. \A i \in DOMAIN Tail(q) : i \in Nat \ {0} /\ i + 1 \in DOMAIN q /\ Tail(q)[i] = q[i + 1]
  BY TailElements
<1> QED BY <1>1, TailElements DEF Ascending

-----------------------------------------------------------------------------
(* What the link puts together are frames. *)
LEMMA FramesAreFrames ==
    /\ NoFrame \in Frames
    /\ ~NoFrame.reply
    /\ \A t \in AllTypes, c \in Calls, b \in BOOLEAN : [type |-> t, reply |-> b, call |-> c] \in Frames
    /\ \A t \in Types : t \in AllTypes /\ t # Leds /\ t # Event
    /\ Leds \in AllTypes /\ Event \in AllTypes /\ Leds # Event
    /\ 0 \in Calls
BY ConstantsAssumption DEF NoFrame, Frames, AllTypes, Calls, Leds, Event


(* The inductive invariant holds at first. *)
LEMMA InitEstablishes == Init => IInv
<1> SUFFICES ASSUME Init PROVE IInv
  OBVIOUS
<1>1. TypeInv
  <2>1. /\ 0 \in 0 .. Attempts /\ 0 \in 0 .. MaxEvents /\ 0 < Attempts
        /\ << >> \in Seq(Frames) /\ Len(<< >>) = 0 /\ 0 <= TxQueueDepth /\ 0 <= PeerDepth
    BY ConstantsAssumption
  <2> QED BY <2>1, FramesAreFrames DEF Init, TypeInv, TypeOK, AttemptInv, AskInv, InCall
<1>2. CallInv /\ CommandInv /\ OrderInv
  BY DEF Init, CallInv, InCall, CommandInv, OrderInv, Ascending
<1>3. ReplyInv /\ RendezvousInv /\ AnswerMatches
  BY FramesAreFrames DEF Init, ReplyInv, Honest, RendezvousInv, AnswerMatches
<1> QED BY <1>1, <1>2, <1>3 DEF IInv

-----------------------------------------------------------------------------
(* Every action keeps the types and the number of attempts. *)
LEMMA RequestTypes ==
    ASSUME TypeInv, NEW r \in Requesters, InRequest(r)
    PROVE  TypeInv'
<1> USE FramesAreFrames, ConstantsAssumption
    DEF TypeInv, TypeOK, AttemptInv, AskInv, InCall, requestVars, replyVars, linkVars, peerVars
<1>1. CASE Arm(r)
  BY <1>1 DEF Arm
<1>2. CASE GiveUp(r)
  BY <1>2 DEF GiveUp
<1>3. CASE Send(r)
  <2> DEFINE f == [type |-> rtype[r], reply |-> FALSE, call |-> call[r]]
  <2>1. f \in Frames
    OBVIOUS
  <2>2. txq' \in Seq(Frames) /\ Len(txq') <= TxQueueDepth
    <3>1. CASE Queue(f)
      <4> HIDE DEF f
      <4> QED BY <2>1, <3>1, AppendElements DEF Queue
    <3>2. CASE UNCHANGED txq
      BY <3>2
    <3> QED BY <1>3, <3>1, <3>2 DEF Send
  <2> QED BY <1>3, <2>2 DEF Send
<1>4. CASE Answered(r)
  BY <1>4 DEF Answered
<1>5. CASE TimedOut(r)
  <2>1. attempt[r] + 1 \in 0 .. Attempts /\ attempt' = [attempt EXCEPT ![r] = attempt[r] + 1]
    BY <1>5 DEF TimedOut
  <2>2. attempt' \in [Requesters -> 0 .. Attempts] /\ attempt'[r] = attempt[r] + 1
    BY <2>1
  <2>3. TypeOK'
    BY <1>5, <2>2 DEF TimedOut
  <2>4. AttemptInv'
    BY <1>5, <2>1, <2>2 DEF TimedOut
  <2>5. AskInv'
    BY <1>5 DEF TimedOut
  <2> QED BY <2>3, <2>4, <2>5
<1>6. CASE Return(r)
  BY <1>6 DEF Return
<1> QED BY <1>1, <1>2, <1>3, <1>4, <1>5, <1>6 DEF InRequest

(* Every step keeps the types. *)
LEMMA TypeKept == TypeInv /\ [Next]_vars => TypeInv'
<1> SUFFICES ASSUME TypeInv, [Next]_vars PROVE TypeInv'
  OBVIOUS
<1> USE FramesAreFrames, ConstantsAssumption
    DEF TypeInv, TypeOK, AttemptInv, AskInv, InCall, requestVars, replyVars, linkVars, peerVars
<1>1. ASSUME NEW r \in Requesters, SendLeds(r) PROVE TypeInv'
  <2> DEFINE f == [type |-> Leds, reply |-> FALSE, call |-> calls']
  <2>1. calls' \in Calls
    BY <1>1 DEF SendLeds, Calls
  <2>2. f \in Frames
    BY <2>1
  <2>3. txq' \in Seq(Frames) /\ Len(txq') <= TxQueueDepth
    <3>1. Queue(f)
      BY <1>1 DEF SendLeds
    <3> HIDE DEF f
    <3> QED BY <2>2, <3>1, AppendElements DEF Queue
  <2> QED BY <1>1, <2>1, <2>3 DEF SendLeds
<1>2. ASSUME NEW r \in Requesters, Request(r) PROVE TypeInv'
  <2>1. calls' \in Calls
    BY <1>2 DEF Request, Calls
  <2> QED BY <1>2, <2>1 DEF Request
<1>3. ASSUME NEW r \in Requesters, InRequest(r) PROVE TypeInv'
  BY <1>3, RequestTypes
<1>4. CASE Pop
  <2>1. txq # << >> => Head(txq) \in Frames /\ Tail(txq) \in Seq(Frames) /\ Len(Tail(txq)) <= TxQueueDepth
    BY TailElements
  <2> QED BY <1>4, <2>1 DEF Pop
<1>5. CASE TransferFails \/ Transfer
  <2>1. peerRx' \in Seq(Frames) /\ Len(peerRx') <= PeerDepth
    <3>1. CASE UNCHANGED peerRx
      BY <3>1
    <3>2. CASE Len(peerRx) < PeerDepth /\ peerRx' = Append(peerRx, out)
      BY <3>2, AppendElements
    <3> QED BY <1>5, <3>1, <3>2 DEF TransferFails, Transfer, PeerTakes
  <2>2. peerTx # << >> => Head(peerTx) \in Frames /\ Tail(peerTx) \in Seq(Frames) /\ Len(Tail(peerTx)) <= PeerDepth
    BY TailElements
  <2>3. CASE TransferFails
    BY <2>1, <2>2, <2>3 DEF TransferFails, EndLoop
  <2>4. CASE Transfer
    BY <2>1, <2>2, <2>4 DEF Transfer
  <2> QED BY <1>5, <2>3, <2>4
<1>6. CASE Parse
  BY <1>6 DEF Parse
<1>7. CASE Loop
  BY <1>7 DEF Loop, EndLoop
<1>8. CASE Wait \/ Stop \/ Join
  BY <1>8 DEF Wait, Stop, Join
<1>9. CASE Execute
  <2>1. Head(peerRx) \in Frames /\ Tail(peerRx) \in Seq(Frames) /\ Len(Tail(peerRx)) <= PeerDepth
    BY <1>9, TailElements DEF Execute
  <2> DEFINE f == [Head(peerRx) EXCEPT !.reply = TRUE]
  <2>2. f \in Frames /\ Head(peerRx).call \in Calls
    BY <2>1 DEF Frames
  <2>3. peerTx' \in Seq(Frames) /\ Len(peerTx') <= PeerDepth
    <3>1. CASE UNCHANGED peerTx
      BY <3>1
    <3>2. CASE Len(peerTx) < PeerDepth /\ peerTx' = Append(peerTx, f)
      <4> HIDE DEF f
      <4> QED BY <2>2, <3>2, AppendElements
    <3> QED BY <1>9, <3>1, <3>2 DEF Execute
  <2> QED BY <1>9, <2>1, <2>2, <2>3 DEF Execute
<1>10. CASE SendEvent
  <2> DEFINE f == [type |-> Event, reply |-> FALSE, call |-> 0]
  <2>1. f \in Frames
    OBVIOUS
  <2>2. peerTx' \in Seq(Frames) /\ Len(peerTx') <= PeerDepth
    <3>1. Len(peerTx) < PeerDepth /\ peerTx' = Append(peerTx, f)
      BY <1>10 DEF SendEvent
    <3> HIDE DEF f
    <3> QED BY <2>1, <3>1, AppendElements
  <2> QED BY <1>10, <2>2 DEF SendEvent
<1>11. CASE UNCHANGED vars
  BY <1>11 DEF vars
<1> QED BY <1>1, <1>2, <1>3, <1>4, <1>5, <1>6, <1>7, <1>8, <1>9, <1>10, <1>11 DEF Next, Link

(* With one thread, nothing is sent while it is in a call. *)
LEMMA CallKept ==
    ASSUME OneRequester, TypeOK, CallInv, [Next]_vars
    PROVE  CallInv'
<1> USE DEF CallInv, InCall, TypeOK, OneRequester, requestVars, replyVars, linkVars, peerVars
<1>1. ASSUME NEW r \in Requesters, SendLeds(r) PROVE CallInv'
  BY <1>1 DEF SendLeds
<1>2. ASSUME NEW r \in Requesters, Request(r) PROVE CallInv'
  BY <1>2 DEF Request, Calls
<1>3. ASSUME NEW r \in Requesters, InRequest(r) PROVE CallInv'
  BY <1>3 DEF InRequest, Arm, GiveUp, Send, Answered, TimedOut, Return
<1>4. CASE Link
  BY <1>4 DEF Link, Pop, TransferFails, Transfer, Parse, Loop, Wait
<1>5. CASE Stop \/ Join \/ Execute \/ SendEvent \/ UNCHANGED vars
  BY <1>5 DEF Stop, Join, Execute, SendEvent, vars
<1> QED BY <1>1, <1>2, <1>3, <1>4, <1>5 DEF Next

(* Commands are queued at the back, of the last call ... *)
LEMMA QueueKeepsOrder ==
    ASSUME NEW f \in Frames, TypeOK, CommandInv, OrderInv, Queue(f),
           f.type # Event, f.call = calls', f.call \in Nat \ {0}, calls' \in Nat, calls <= calls',
           UNCHANGED <<out, peerRx, executed>>
    PROVE  CommandInv' /\ OrderInv'
<1>1. /\ txq \in Seq(Frames)
      /\ txq' = Append(txq, f)
      /\ DOMAIN txq' = DOMAIN txq \cup {Len(txq) + 1}
      /\ \A i \in DOMAIN txq : txq'[i] = txq[i]
      /\ txq'[Len(txq) + 1] = f
  BY AppendElements DEF Queue, TypeOK
<1>2. \A g \in Frames : Command(g) => Command(g)' /\ g.call <= f.call
  BY DEF Command, TypeOK, Calls, Frames
<1>3. Command(f)'
  BY DEF Command
<1>4. \A i \in DOMAIN txq : txq[i] \in Frames
  BY <1>1
<1>5. \A i \in DOMAIN peerRx : peerRx[i] \in Frames
  BY DEF TypeOK
<1>6. Ascending(txq)'
  BY <1>1, <1>2, <1>4, AppendAscends DEF CommandInv, OrderInv
<1>7. CommandInv'
  BY <1>1, <1>2, <1>3, <1>4, <1>5 DEF CommandInv, TypeOK
<1>8. \A i \in DOMAIN peerRx : peerRx[i].call <= f.call
  BY <1>2, <1>5 DEF CommandInv
<1>9. out # NoFrame => out.call <= f.call
  BY <1>2 DEF CommandInv, TypeOK
<1>10. executed <= f.call /\ executed <= calls'
  BY DEF OrderInv, TypeOK, Calls
<1>11. Ascending(peerRx)'
  BY DEF OrderInv, Ascending
<1>12. \A i \in DOMAIN peerRx' :
           /\ executed' <= peerRx'[i].call
           /\ out' # NoFrame => peerRx'[i].call <= out'.call
           /\ \A j \in DOMAIN txq' : peerRx'[i].call <= txq'[j].call
  BY <1>1, <1>8 DEF OrderInv
<1>13. \A j \in DOMAIN txq' :
           /\ executed' <= txq'[j].call
           /\ out' # NoFrame => out'.call <= txq'[j].call
  BY <1>1, <1>9, <1>10 DEF OrderInv
<1> QED BY <1>6, <1>7, <1>10, <1>11, <1>12, <1>13 DEF OrderInv

(* ... leave it at the front ... *)
LEMMA PopKeepsOrder == ASSUME TypeOK, CommandInv, OrderInv, Pop PROVE CommandInv' /\ OrderInv'
<1> USE DEF Pop, peerVars, requestVars
<1>1. CASE txq = << >>
  BY <1>1 DEF CommandInv, Command, OrderInv, Ascending
<1>2. CASE txq # << >>
  <2>1. /\ txq' = Tail(txq) /\ out' = txq[1] /\ 1 \in DOMAIN txq
        /\ \A i \in DOMAIN txq' : i + 1 \in DOMAIN txq /\ txq'[i] = txq[i + 1]
        /\ Ascending(txq')
        /\ \A i \in DOMAIN txq' : out'.call <= txq'[i].call
    BY <1>2, TailElements, TailAscends DEF OrderInv, TypeOK
  <2>2. CommandInv'
    BY <2>1 DEF CommandInv, Command
  <2>3. OrderInv'
    BY <2>1 DEF OrderInv, Ascending
  <2> QED BY <2>2, <2>3
<1> QED BY <1>1, <1>2

(* ... and are taken by the northbridge or lost; they never go back. *)
LEMMA TransferKeepsOrder ==
    ASSUME TypeOK, CommandInv, OrderInv, PeerTakes, out' = NoFrame, UNCHANGED <<txq, calls, executed>>
    PROVE  CommandInv' /\ OrderInv'
<1>1. CASE UNCHANGED peerRx
  BY <1>1 DEF CommandInv, Command, OrderInv, Ascending
<1>2. CASE out # NoFrame /\ peerRx' = Append(peerRx, out)
  <2>1. /\ peerRx \in Seq(Frames) /\ out \in Frames
        /\ DOMAIN peerRx' = DOMAIN peerRx \cup {Len(peerRx) + 1}
        /\ \A i \in DOMAIN peerRx : peerRx'[i] = peerRx[i]
        /\ peerRx'[Len(peerRx) + 1] = out
    BY <1>2, AppendElements DEF TypeOK
  <2>2. Ascending(peerRx)'
    BY <1>2, <2>1, AppendAscends DEF OrderInv
  <2>3. CommandInv'
    BY <1>2, <2>1 DEF CommandInv, Command
  <2>4. Ascending(txq)'
    BY DEF OrderInv, Ascending
  <2>5. OrderInv'
    BY <1>2, <2>1, <2>2, <2>4 DEF OrderInv
  <2> QED BY <2>3, <2>5
<1> QED BY <1>1, <1>2 DEF PeerTakes

(* The northbridge executes the first of its queue. *)
LEMMA ExecuteKeepsOrder ==
    ASSUME TypeOK, CommandInv, OrderInv, Execute
    PROVE  CommandInv' /\ OrderInv' /\ executed' >= executed /\ executed' \in 1 .. calls
<1> USE DEF Execute, requestVars, linkVars
<1>1. /\ peerRx' = Tail(peerRx) /\ executed' = peerRx[1].call /\ 1 \in DOMAIN peerRx
      /\ \A i \in DOMAIN peerRx' : i + 1 \in DOMAIN peerRx /\ peerRx'[i] = peerRx[i + 1]
      /\ Ascending(peerRx')
      /\ \A i \in DOMAIN peerRx' : executed' <= peerRx'[i].call
  BY TailElements, TailAscends DEF OrderInv, TypeOK
<1>2. CommandInv'
  BY <1>1 DEF CommandInv, Command
<1>3. executed' \in 1 .. calls /\ executed' >= executed
  BY <1>1 DEF CommandInv, Command, OrderInv, TypeOK, Calls
<1>4. Ascending(txq)'
  BY DEF OrderInv, Ascending
<1>5. OrderInv'
  BY <1>1, <1>3, <1>4 DEF OrderInv
<1> QED BY <1>2, <1>3, <1>5

(* Every step keeps the calls in order, from the queue to what was executed. *)
LEMMA OrderKept ==
    ASSUME OneRequester, TypeInv, CallInv, CommandInv, OrderInv, [Next]_vars
    PROVE  CommandInv' /\ OrderInv' /\ executed' >= executed
<1> USE FramesAreFrames
<1>a. ASSUME UNCHANGED <<txq, out, peerRx, executed>>, calls' \in Nat, calls <= calls'
      PROVE  CommandInv' /\ OrderInv' /\ executed' >= executed
  <2>1. executed' >= executed
    BY <1>a DEF TypeInv, TypeOK, Calls
  <2>2. CommandInv'
    BY <1>a DEF TypeInv, TypeOK, CommandInv, Command, Calls
  <2>3. OrderInv'
    BY <1>a DEF TypeInv, TypeOK, OrderInv, Ascending, Calls
  <2> QED BY <2>1, <2>2, <2>3
<1>b. calls \in Nat /\ executed \in Nat
  BY DEF TypeInv, TypeOK, Calls
<1>1. ASSUME NEW r \in Requesters, SendLeds(r) PROVE CommandInv' /\ OrderInv' /\ executed' >= executed
  <2> DEFINE f == [type |-> Leds, reply |-> FALSE, call |-> calls']
  <2>1. calls' \in Calls /\ calls <= calls' /\ calls' \in Nat \ {0}
    BY <1>1, <1>b, ConstantsAssumption DEF SendLeds, Calls
  <2>2. f \in Frames /\ f.type # Event /\ f.call = calls'
    BY <2>1
  <2>3. Queue(f) /\ UNCHANGED <<out, peerRx, executed>>
    BY <1>1 DEF SendLeds, linkVars, peerVars
  <2> HIDE DEF f
  <2> QED BY <1>b, <2>1, <2>2, <2>3, QueueKeepsOrder DEF TypeInv
<1>2. ASSUME NEW r \in Requesters, Send(r) PROVE CommandInv' /\ OrderInv' /\ executed' >= executed
  <2> DEFINE f == [type |-> rtype[r], reply |-> FALSE, call |-> call[r]]
  <2>1. UNCHANGED <<calls, out, peerRx, executed>>
    BY <1>2 DEF Send, linkVars, peerVars
  <2>2. CASE UNCHANGED txq
    BY <1>a, <1>b, <2>1, <2>2
  <2>3. CASE Queue(f)
    <3>1. f \in Frames /\ f.call = calls' /\ calls' \in Nat \ {0}
      BY <1>2, <1>b, <2>1 DEF Send, TypeInv, TypeOK, CallInv, InCall, Calls, Frames
    <3>2. f.type # Event
      BY <1>2 DEF Send, TypeInv, AskInv, InCall
    <3> HIDE DEF f
    <3> QED BY <1>b, <2>1, <2>3, <3>1, <3>2, QueueKeepsOrder DEF TypeInv
  <2> QED BY <1>2, <2>2, <2>3 DEF Send
<1>3. ASSUME NEW r \in Requesters, Request(r) PROVE CommandInv' /\ OrderInv' /\ executed' >= executed
  BY <1>a, <1>b, <1>3 DEF Request, linkVars, peerVars
<1>4. ASSUME NEW r \in Requesters, Arm(r) \/ GiveUp(r) \/ Answered(r) \/ TimedOut(r) \/ Return(r)
      PROVE  CommandInv' /\ OrderInv' /\ executed' >= executed
  BY <1>a, <1>b, <1>4 DEF Arm, GiveUp, Answered, TimedOut, Return, linkVars, peerVars
<1>5. CASE Pop
  <2>1. executed' >= executed
    BY <1>5, <1>b DEF Pop, peerVars
  <2> QED BY <1>5, <2>1, PopKeepsOrder DEF TypeInv
<1>6. CASE Transfer \/ TransferFails
  <2>1. PeerTakes /\ out' = NoFrame /\ UNCHANGED <<txq, calls, executed>>
    BY <1>6 DEF Transfer, TransferFails, EndLoop
  <2> QED BY <1>b, <2>1, TransferKeepsOrder DEF TypeInv
<1>7. CASE Loop
  <2>1. UNCHANGED <<txq, calls, executed, peerRx>> /\ out' \in {out, NoFrame}
    BY <1>7 DEF Loop, EndLoop, peerVars
  <2>2. CommandInv'
    BY <2>1 DEF CommandInv, Command
  <2>3. OrderInv'
    BY <2>1 DEF OrderInv, Ascending
  <2> QED BY <1>b, <2>1, <2>2, <2>3
<1>8. CASE Parse \/ Wait \/ Stop \/ Join \/ SendEvent
  BY <1>a, <1>b, <1>8 DEF Parse, Wait, Stop, Join, SendEvent, linkVars, peerVars
<1>9. CASE Execute
  BY <1>9, ExecuteKeepsOrder DEF TypeInv
<1>10. CASE UNCHANGED vars
  BY <1>a, <1>b, <1>10 DEF vars, linkVars, peerVars
<1> QED BY <1>1, <1>2, <1>3, <1>4, <1>5, <1>6, <1>7, <1>8, <1>9, <1>10 DEF Next, InRequest, Link

-----------------------------------------------------------------------------
(* Replies are made by the northbridge of executed commands, and stay such. *)
LEMMA ReplyKept ==
    ASSUME TypeInv, TypeInv', CommandInv, OrderInv, ReplyInv, [Next]_vars, executed' >= executed
    PROVE  ReplyInv'
<1> USE FramesAreFrames
<1>a. \A f \in Frames : Honest(f, executed) => Honest(f, executed')
  <2>1. executed \in Int /\ executed' \in Int
    BY DEF TypeInv, TypeOK, Calls
  <2>2. 1 .. executed \subseteq 1 .. executed'
    BY <2>1
  <2> QED BY <2>2 DEF Honest
<1>b. /\ peerTx \in Seq(Frames) /\ inn \in Frames /\ pendingReply \in Frames
      /\ \A i \in DOMAIN peerTx : peerTx[i] \in Frames
  BY DEF TypeInv, TypeOK
<1>c. Honest(NoFrame, executed')
  BY DEF Honest
<1>d. ASSUME UNCHANGED <<peerTx, inn, pendingReply>> PROVE ReplyInv'
  BY <1>a, <1>b, <1>d DEF ReplyInv
<1>e. peerTx # << >> =>
          /\ Head(peerTx) \in Frames /\ Honest(Head(peerTx), executed)
          /\ \A i \in DOMAIN Tail(peerTx) : Tail(peerTx)[i] \in Frames /\ Honest(Tail(peerTx)[i], executed)
  <2> SUFFICES ASSUME peerTx # << >>
               PROVE  /\ Head(peerTx) \in Frames /\ Honest(Head(peerTx), executed)
                      /\ \A i \in DOMAIN Tail(peerTx) : Tail(peerTx)[i] \in Frames /\ Honest(Tail(peerTx)[i], executed)
    OBVIOUS
  <2>1. Head(peerTx) = peerTx[1] /\ 1 \in DOMAIN peerTx
    BY <1>b, TailElements
  <2>2. \A i \in DOMAIN Tail(peerTx) : i + 1 \in DOMAIN peerTx /\ Tail(peerTx)[i] = peerTx[i + 1]
    BY <1>b, TailElements
  <2> QED BY <1>b, <2>1, <2>2 DEF ReplyInv
<1>1. ASSUME NEW r \in Requesters, SendLeds(r) \/ Request(r) \/ InRequest(r) PROVE ReplyInv'
  BY <1>d, <1>1 DEF SendLeds, Request, InRequest, Arm, GiveUp, Send, Answered, TimedOut, Return,
                    replyVars, linkVars, peerVars
<1>2. CASE Pop \/ Wait \/ Stop \/ Join
  BY <1>d, <1>2 DEF Pop, Wait, Stop, Join, replyVars, linkVars, peerVars
<1>3. CASE TransferFails
  <2>1. inn' = NoFrame /\ pendingReply' = pendingReply
    BY <1>3 DEF TransferFails, EndLoop, replyVars
  <2>2. \/ peerTx' = peerTx
        \/ peerTx # << >> /\ peerTx' = Tail(peerTx)
    BY <1>3 DEF TransferFails
  <2> QED BY <1>a, <1>b, <1>c, <1>e, <2>1, <2>2 DEF ReplyInv
<1>4. CASE Transfer
  <2>1. /\ pendingReply' = pendingReply
        /\ \/ inn' = NoFrame /\ peerTx' = peerTx
           \/ peerTx # << >> /\ inn' = Head(peerTx) /\ peerTx' = Tail(peerTx)
    BY <1>4 DEF Transfer, replyVars
  <2> QED BY <1>a, <1>b, <1>c, <1>e, <2>1 DEF ReplyInv
<1>5. CASE Parse
  <2>1. inn' = NoFrame /\ peerTx' = peerTx /\ pendingReply' \in {pendingReply, inn}
    BY <1>5 DEF Parse, peerVars
  <2> QED BY <1>a, <1>b, <1>c, <2>1 DEF ReplyInv
<1>6. CASE Loop
  <2>1. inn' \in {inn, NoFrame} /\ peerTx' = peerTx /\ pendingReply' = pendingReply
    BY <1>6 DEF Loop, EndLoop, peerVars, replyVars
  <2> QED BY <1>a, <1>b, <1>c, <2>1 DEF ReplyInv
<1>7. CASE Execute
  <2> DEFINE f == [Head(peerRx) EXCEPT !.reply = TRUE]
  <2>1. Head(peerRx) \in Frames /\ executed' \in 1 .. calls /\ executed' = Head(peerRx).call
    BY <1>7, TailElements, ExecuteKeepsOrder DEF Execute, TypeInv, TypeOK
  <2>2. f \in Frames /\ f.call = Head(peerRx).call
    BY <2>1 DEF Frames
  <2>3. Honest(f, executed')
    BY <2>1, <2>2 DEF Honest, TypeInv, TypeOK, Calls
  <2> HIDE DEF f
  <2>4. \A i \in DOMAIN Append(peerTx, f) :
            \/ Append(peerTx, f)[i] = f
            \/ i \in DOMAIN peerTx /\ Append(peerTx, f)[i] = peerTx[i]
    BY <1>b, <2>2, AppendElements
  <2>5. \A i \in DOMAIN peerTx' : Honest(peerTx'[i], executed')
    <3>1. CASE peerTx' = peerTx
      BY <1>a, <1>b, <3>1 DEF ReplyInv
    <3>2. CASE peerTx' = Append(peerTx, f)
      BY <1>a, <1>b, <2>3, <2>4, <3>2 DEF ReplyInv
    <3> QED BY <1>7, <3>1, <3>2 DEF Execute, f
  <2>6. inn' = inn /\ pendingReply' = pendingReply
    BY <1>7 DEF Execute, linkVars, replyVars
  <2> QED BY <1>a, <1>b, <2>5, <2>6 DEF ReplyInv
<1>8. CASE SendEvent
  <2> DEFINE f == [type |-> Event, reply |-> FALSE, call |-> 0]
  <2>1. f \in Frames /\ Honest(f, executed')
    BY DEF Honest
  <2>2. peerTx' = Append(peerTx, f) /\ inn' = inn /\ pendingReply' = pendingReply
    BY <1>8 DEF SendEvent, linkVars, replyVars
  <2> HIDE DEF f
  <2>3. \A i \in DOMAIN Append(peerTx, f) :
            \/ Append(peerTx, f)[i] = f
            \/ i \in DOMAIN peerTx /\ Append(peerTx, f)[i] = peerTx[i]
    BY <1>b, <2>1, AppendElements
  <2> QED BY <1>a, <1>b, <2>1, <2>2, <2>3 DEF ReplyInv
<1>9. CASE UNCHANGED vars
  BY <1>d, <1>9 DEF vars, replyVars, linkVars, peerVars
<1> QED BY <1>1, <1>2, <1>3, <1>4, <1>5, <1>6, <1>7, <1>8, <1>9 DEF Next, Link

(* The rendezvous belongs to the one thread that armed it. *)
LEMMA RendezvousKept ==
    ASSUME OneRequester, TypeInv, RendezvousInv, [Next]_vars
    PROVE  RendezvousInv'
<1> USE DEF TypeInv, TypeOK, RendezvousInv, OneRequester, requestVars, replyVars
<1>1. ASSUME NEW r \in Requesters, SendLeds(r) PROVE RendezvousInv'
  BY <1>1 DEF SendLeds
<1>2. ASSUME NEW r \in Requesters, Request(r) PROVE RendezvousInv'
  BY <1>2 DEF Request
<1>3. ASSUME NEW r \in Requesters, InRequest(r) PROVE RendezvousInv'
  BY <1>3 DEF InRequest, Arm, GiveUp, Send, Answered, TimedOut, Return
<1>4. CASE Parse
  BY <1>4 DEF Parse, Wanted
<1>5. CASE Pop \/ TransferFails \/ Transfer \/ Loop \/ Wait \/ Stop \/ Join \/ Execute \/ SendEvent \/ UNCHANGED vars
  BY <1>5 DEF Pop, TransferFails, Transfer, Loop, Wait, Stop, Join, Execute, SendEvent, vars
<1> QED BY <1>1, <1>2, <1>3, <1>4, <1>5 DEF Next, Link

(* request() takes the answer from the rendezvous. *)
LEMMA AnswerKept ==
    ASSUME TypeInv, TypeInv', ReplyInv, RendezvousInv, AnswerMatches, [Next]_vars, executed' >= executed
    PROVE  AnswerMatches'
<1> USE DEF TypeInv, TypeOK, AnswerMatches, requestVars
<1>a. \A n \in Calls : n \in 1 .. executed => n \in 1 .. executed'
  BY DEF Calls
<1>b. \A r \in Requesters : answer[r].call \in Calls
  BY DEF Frames
<1>1. ASSUME NEW r \in Requesters, SendLeds(r) PROVE AnswerMatches'
  BY <1>a, <1>b, <1>1 DEF SendLeds
<1>2. ASSUME NEW r \in Requesters, Request(r) PROVE AnswerMatches'
  BY <1>a, <1>b, <1>2 DEF Request
<1>3. ASSUME NEW r \in Requesters, Answered(r) PROVE AnswerMatches'
  <2>1. pendingReply.reply /\ pendingReply.type = rtype[r] /\ pendingReply.call \in 1 .. executed
    BY <1>3 DEF Answered, RendezvousInv, ReplyInv, Honest
  <2>2. /\ answer' = [answer EXCEPT ![r] = pendingReply] /\ rpc' = [rpc EXCEPT ![r] = "answered"]
        /\ rtype' = rtype /\ executed' = executed
    BY <1>3 DEF Answered, peerVars
  <2> QED BY <2>1, <2>2
<1>4. ASSUME NEW r \in Requesters, Arm(r) \/ GiveUp(r) \/ Send(r) \/ TimedOut(r) \/ Return(r) PROVE AnswerMatches'
  BY <1>a, <1>b, <1>4 DEF Arm, GiveUp, Send, TimedOut, Return
<1>5. CASE Link \/ Stop \/ Join \/ Execute \/ SendEvent \/ UNCHANGED vars
  BY <1>a, <1>b, <1>5 DEF Link, Pop, TransferFails, Transfer, Parse, Loop, Wait, Stop, Join, Execute, SendEvent, vars
<1> QED BY <1>1, <1>2, <1>3, <1>4, <1>5 DEF Next, InRequest

-----------------------------------------------------------------------------
(* Every variable keeps its type, with any number of threads. *)
THEOREM TypeCorrect == Spec => []TypeOK
<1>1. Init => TypeInv
  BY InitEstablishes DEF IInv
<1>2. TypeInv /\ [Next]_vars => TypeInv'
  BY TypeKept
<1>3. TypeInv => TypeOK
  BY DEF TypeInv
<1> QED BY <1>1, <1>2, <1>3, PTL DEF Spec

(* Every step keeps the inductive invariant. *)
LEMMA StepKeeps ==
    ASSUME OneRequester, IInv, [Next]_vars
    PROVE  IInv' /\ executed' >= executed
<1>1. TypeInv'
  BY TypeKept DEF IInv
<1>2. CallInv'
  BY CallKept DEF IInv, TypeInv
<1>3. CommandInv' /\ OrderInv' /\ executed' >= executed
  BY OrderKept DEF IInv
<1>4. ReplyInv' /\ RendezvousInv' /\ AnswerMatches'
  BY <1>1, <1>3, ReplyKept, RendezvousKept, AnswerKept DEF IInv
<1> QED BY <1>1, <1>2, <1>3, <1>4 DEF IInv

(* The inductive invariant holds always. *)
THEOREM Invariance == ASSUME OneRequester PROVE Spec => []IInv
<1>1. Init => IInv
  BY InitEstablishes
<1>2. IInv /\ [Next]_vars => IInv'
  BY StepKeeps
<1> QED BY <1>1, <1>2, PTL DEF Spec

(* request() returns true only with the answer of its own kind of command, *)
(* which the northbridge executed, however late other replies come.        *)
THEOREM AnswersMatch == ASSUME OneRequester PROVE Spec => []AnswerMatches
<1>1. IInv => AnswerMatches
  BY DEF IInv
<1> QED BY <1>1, Invariance, PTL

(* No resend undoes a later command, whatever is lost, dropped or damaged. *)
THEOREM ResendsInOrder == ASSUME OneRequester PROVE Spec => ResendNeverOvertakes
<1>1. IInv /\ [Next]_vars => [executed' >= executed]_executed
  BY StepKeeps
<1> QED BY <1>1, Invariance, PTL DEF Spec, ResendNeverOvertakes

-----------------------------------------------------------------------------
(* The touch controller's driver, for any number of contacts: a pass of       *)
(* pollLoop tells of each contact by itself, first the releases and then the  *)
(* others.                                                                    *)

Listen(known, e) == Glass!Heard(known, e)
Joined(s, t) == s \o t
Listening == INSTANCE Folding WITH Op <- Listen
Joining == INSTANCE Folding WITH Op <- Joined

(* The events of a pass that sees the contacts at contacts. *)
Ids == Glass!Ids
Kinds == {"PRESS", "RELEASE", "MOVE", "HOLD"}
EventsOf(contacts) == [kind : Kinds, id : Ids, place : {contacts[i] : i \in Ids} \cup {point[i] : i \in Ids}]

(* The listener knows what is tracked. *)
TouchInv ==
    /\ tracked \in [Ids -> {"no", "down", "bounced"}]
    /\ TouchesPair

(* What is tracked of a contact after the pass, and what the listener knows *)
(* of it after the releases and in the end.                                 *)
NowTracked(i, p) ==
    CASE p = Glass!Nowhere -> "no"
      [] Glass!Bounces(i, p) -> "bounced"
      [] Glass!Comes(i, p) /\ ~Glass!Bounces(i, p) -> "down"
      [] OTHER -> tracked[i]
Knows(t) == IF t = "down" THEN "down" ELSE "up"
Between(i, p) == IF p = Glass!Nowhere THEN "up" ELSE told[i]

(* The two folds of the model are instances of Folding's.                    *)
LEMMA ListenAll ==
    ASSUME NEW known, NEW q
    PROVE  Glass!FoldLeft(Glass!Heard, known, q) = Listening!Fold(known, q)
BY DEF Glass!FoldLeft, Glass!MapThenFoldSet, Glass!Max, Listening!Fold, Listening!MapThenFoldSet,
       Listening!Greatest, Listen

LEMMA JoinAll ==
    ASSUME NEW q
    PROVE  Glass!FoldLeft(LAMBDA s, t : s \o t, << >>, q) = Joining!Fold(<< >>, q)
BY DEF Glass!FoldLeft, Glass!MapThenFoldSet, Glass!Max, Joining!Fold, Joining!MapThenFoldSet,
       Joining!Greatest, Joined

(* A few events, one after the other. *)
LEMMA PairIs == ASSUME NEW S, NEW s \in Seq(S), Len(s) = 2 PROVE s = <<s[1], s[2]>>
<1>1. \A i \in 1 .. Len(s) : s[i] \in S
  OBVIOUS
<1>2. s[1] \in S /\ s[2] \in S
  BY <1>1
<1> DEFINE t == <<s[1], s[2]>>
<1>3. t \in Seq(S) /\ Len(t) = 2 /\ t[1] = s[1] /\ t[2] = s[2]
  BY <1>2
<1> HIDE DEF t
<1>4. \A i \in 1 .. Len(s) : s[i] = t[i]
  BY <1>3
<1>5. s = t
  BY <1>3, <1>4, SeqEqual
<1> QED BY <1>5 DEF t

LEMMA ShortSeqs ==
    ASSUME NEW S, NEW e \in S, NEW f \in S
    PROVE  /\ << >> \in Seq(S) /\ <<e>> \in Seq(S) /\ <<e, f>> \in Seq(S)
           /\ Append(<< >>, e) = <<e>> /\ Append(<<e>>, f) = <<e, f>>
           /\ << >> \o << >> = << >> /\ <<e>> \o << >> = <<e>> /\ << >> \o <<e>> = <<e>>
           /\ <<e>> \o <<f>> = <<e, f>>
<1>1. << >> \in Seq(S) /\ <<e>> \in Seq(S) /\ <<e, f>> \in Seq(S) /\ <<f>> \in Seq(S)
  OBVIOUS
<1>2. /\ Append(<<e>>, f) \in Seq(S) /\ Len(Append(<<e>>, f)) = 2
      /\ Append(<<e>>, f)[1] = e /\ Append(<<e>>, f)[2] = f
  BY <1>1
<1>3. /\ <<e>> \o <<f>> \in Seq(S) /\ Len(<<e>> \o <<f>>) = 2
      /\ (<<e>> \o <<f>>)[1] = e /\ (<<e>> \o <<f>>)[2] = f
  BY <1>1
<1>4. Append(<< >>, e) = <<e>>
  OBVIOUS
<1>5. Append(<<e>>, f) = <<e, f>>
  BY <1>2, PairIs
<1>6. << >> \o << >> = << >> /\ <<e>> \o << >> = <<e>> /\ << >> \o <<e>> = <<e>>
  BY <1>1
<1>7. <<e>> \o <<f>> = <<e, f>>
  BY <1>3, PairIs
<1> QED BY <1>1, <1>4, <1>5, <1>6, <1>7

LEMMA ListenFew ==
    ASSUME NEW known, NEW S, NEW e \in S, NEW f \in S
    PROVE  /\ << >> \in Seq(S) /\ <<e>> \in Seq(S) /\ <<e, f>> \in Seq(S)
           /\ Listening!Fold(known, << >>) = known
           /\ Listening!Fold(known, <<e>>) = Listen(known, e)
           /\ Listening!Fold(known, <<e, f>>) = Listen(Listen(known, e), f)
<1>1. Listening!Fold(known, << >>) = known
  BY Listening!FoldNone
<1>2. /\ << >> \in Seq(S) /\ <<e>> \in Seq(S) /\ <<e, f>> \in Seq(S)
      /\ Append(<< >>, e) = <<e>> /\ Append(<<e>>, f) = <<e, f>>
  BY ShortSeqs
<1>3. Listening!Fold(known, Append(<< >>, e)) = Listen(Listening!Fold(known, << >>), e)
  BY <1>2, Listening!FoldAppend
<1>4. Listening!Fold(known, Append(<<e>>, f)) = Listen(Listening!Fold(known, <<e>>), f)
  BY <1>2, Listening!FoldAppend
<1> QED BY <1>1, <1>2, <1>3, <1>4

(* A contact that is gone is released, if it was told of.                    *)
LEMMA ReleasesHeard ==
    ASSUME TouchInv, polling, NEW contacts, NEW i \in Ids,
           NEW known \in [Ids -> {"up", "down"}], known[i] = told[i]
    PROVE  /\ Glass!Releases(i, contacts[i]) \in Seq(EventsOf(contacts))
           /\ Listening!Fold(known, Glass!Releases(i, contacts[i])) = [known EXCEPT ![i] = Between(i, contacts[i])]
<1> DEFINE e == Glass!Event("RELEASE", i, point[i])
<1>1. tracked[i] \in {"no", "down", "bounced"} /\ told[i] = Knows(tracked[i])
  BY DEF TouchInv, TouchesPair, Glass!TouchesPair, Knows, Ids
<1>2. e \in EventsOf(contacts) /\ e.kind = "RELEASE" /\ e.id = i
  BY DEF EventsOf, Glass!Event, Kinds
<1>3. CASE Glass!Gone(i, contacts[i]) /\ tracked[i] = "down"
  <2>1. Glass!Releases(i, contacts[i]) = <<e>>
    BY <1>3 DEF Glass!Releases
  <2>2. Listen(known, e) = [known EXCEPT ![i] = "up"]
    BY <1>1, <1>2, <1>3 DEF Listen, Glass!Heard, Knows
  <2>3. Between(i, contacts[i]) = "up"
    BY <1>3 DEF Between, Glass!Gone
  <2> HIDE DEF e
  <2>4. <<e>> \in Seq(EventsOf(contacts)) /\ Listening!Fold(known, <<e>>) = Listen(known, e)
    BY <1>2, ListenFew, Zenon
  <2> QED BY <2>1, <2>2, <2>3, <2>4
<1>4. CASE ~(Glass!Gone(i, contacts[i]) /\ tracked[i] = "down")
  <2>1. Glass!Releases(i, contacts[i]) = << >>
    BY <1>4 DEF Glass!Releases
  <2>2. Between(i, contacts[i]) = known[i]
    BY <1>1, <1>4 DEF Between, Glass!Gone, Knows
  <2>3. << >> \in Seq(EventsOf(contacts)) /\ Listening!Fold(known, << >>) = known
    BY Listening!FoldNone
  <2> QED BY <2>1, <2>2, <2>3
<1> QED BY <1>3, <1>4

(* A contact that comes is pressed, unless it bounces, and one that stays is *)
(* neither pressed nor released.                                             *)
LEMMA OthersHeard ==
    ASSUME TouchInv, polling, NEW contacts, NEW i \in Ids,
           NEW known \in [Ids -> {"up", "down"}], known[i] = Between(i, contacts[i])
    PROVE  /\ Glass!Others(i, contacts[i]) \in Seq(EventsOf(contacts))
           /\ Listening!Fold(known, Glass!Others(i, contacts[i]))
                  = [known EXCEPT ![i] = Knows(NowTracked(i, contacts[i]))]
<1> DEFINE p == contacts[i]
           e == Glass!Event("PRESS", i, p)
           f == Glass!Event("MOVE", i, p)
           g == Glass!Event("HOLD", i, p)
<1>1. tracked[i] \in {"no", "down", "bounced"} /\ told[i] = Knows(tracked[i])
  BY DEF TouchInv, TouchesPair, Glass!TouchesPair, Knows, Ids
<1>2. /\ {e, f, g} \subseteq EventsOf(contacts) /\ e.kind = "PRESS" /\ e.id = i
      /\ f.kind = "MOVE" /\ g.kind = "HOLD"
  BY DEF EventsOf, Glass!Event, Kinds
<1>3. \A k : Listen(k, f) = k /\ Listen(k, g) = k
  BY <1>2 DEF Listen, Glass!Heard
<1>4. CASE Glass!Comes(i, p) /\ ~Glass!Bounces(i, p)
  <2>1. ~Glass!Stays(i, p) /\ ~Glass!Rests(i, p)
    BY <1>4 DEF Glass!Comes, Glass!Stays, Glass!Rests
  <2>2. Glass!Others(i, p) = <<e>>
    BY <1>4, <2>1 DEF Glass!Others
  <2>3. Listen(known, e) = [known EXCEPT ![i] = "down"]
    BY <1>1, <1>2, <1>4 DEF Listen, Glass!Heard, Knows, Between, Glass!Comes
  <2>4. NowTracked(i, p) = "down"
    BY <1>4 DEF NowTracked, Glass!Comes
  <2> HIDE DEF e
  <2>5. <<e>> \in Seq(EventsOf(contacts)) /\ Listening!Fold(known, <<e>>) = Listen(known, e)
    BY <1>2, ListenFew, Zenon
  <2> QED BY <2>2, <2>3, <2>4, <2>5 DEF Knows
<1>5. CASE ~(Glass!Comes(i, p) /\ ~Glass!Bounces(i, p))
  <2>1. Glass!Others(i, p) \in {<< >>, <<f>>, <<g>>, <<f, g>>}
    <3> DEFINE m == IF Glass!Stays(i, p) /\ p # point[i] THEN <<f>> ELSE << >>
               h == IF Glass!Rests(i, p) THEN <<g>> ELSE << >>
    <3>1. Glass!Others(i, p) = (<< >> \o m) \o h
      BY <1>5 DEF Glass!Others
    <3>2. m \in {<< >>, <<f>>} /\ h \in {<< >>, <<g>>}
      OBVIOUS
    <3> HIDE DEF m, h, f, g
    <3>3. /\ << >> \o << >> = << >> /\ << >> \o <<f>> = <<f>> /\ << >> \o <<g>> = <<g>>
          /\ <<f>> \o << >> = <<f>> /\ <<f>> \o <<g>> = <<f, g>>
      BY <1>2, ShortSeqs
    <3> QED BY ONLY <3>1, <3>2, <3>3
  <2>2. Knows(NowTracked(i, p)) = known[i]
    BY <1>1, <1>5 DEF NowTracked, Knows, Between, Glass!Bounces, Glass!Comes
  <2> HIDE DEF e, f, g
  <2>3. /\ << >> \in Seq(EventsOf(contacts)) /\ <<f>> \in Seq(EventsOf(contacts))
        /\ <<g>> \in Seq(EventsOf(contacts)) /\ <<f, g>> \in Seq(EventsOf(contacts))
    BY <1>2, ShortSeqs
  <2>4. /\ Listening!Fold(known, << >>) = known /\ Listening!Fold(known, <<f>>) = Listen(known, f)
        /\ Listening!Fold(known, <<f, g>>) = Listen(Listen(known, f), g)
    BY <1>2, ListenFew
  <2>5. Listening!Fold(known, <<g>>) = Listen(known, g)
    BY <1>2, ListenFew
  <2>6. [known EXCEPT ![i] = Knows(NowTracked(i, p))] = known
    BY <2>2
  <2>7. /\ Listening!Fold(known, <<f>>) = known /\ Listening!Fold(known, <<g>>) = known
        /\ Listening!Fold(known, <<f, g>>) = known
    BY <1>3, <2>4, <2>5
  <2>8. /\ Glass!Others(i, p) \in Seq(EventsOf(contacts))
        /\ Listening!Fold(known, Glass!Others(i, p)) = known
    BY <2>1, <2>3, <2>4, <2>7
  <2> QED BY <2>6, <2>8
<1> QED BY <1>4, <1>5

(* What a pass tells the listener, contact by contact.                       *)
LEMMA JoinedEvents ==
    ASSUME NEW contacts, NEW S, NEW base, NEW ss \in Seq(Seq(S)), NEW K, base \in K[0],
           \A n \in 1 .. Len(ss) : \A known \in K[n - 1] : Listening!Fold(known, ss[n]) \in K[n]
    PROVE  /\ Joining!Fold(<< >>, ss) \in Seq(S)
           /\ Listening!Fold(base, Joining!Fold(<< >>, ss)) \in K[Len(ss)]
<1> DEFINE W == [n \in 0 .. Len(ss) |-> {q \in Seq(S) : Listening!Fold(base, q) \in K[n]}]
<1>1. << >> \in W[0]
  BY Listening!FoldNone
<1>2. ASSUME NEW n \in 1 .. Len(ss), NEW q \in W[n - 1]
      PROVE  Joined(q, ss[n]) \in W[n]
  <2>1. q \in Seq(S) /\ Listening!Fold(base, q) \in K[n - 1] /\ ss[n] \in Seq(S)
    BY <1>2
  <2>2. Listening!Fold(base, q \o ss[n]) = Listening!Fold(Listening!Fold(base, q), ss[n])
    BY <2>1, Listening!FoldConcat
  <2>3. Listening!Fold(base, q \o ss[n]) \in K[n] /\ q \o ss[n] \in Seq(S)
    BY <2>1, <2>2
  <2>4. W[n] = {r \in Seq(S) : Listening!Fold(base, r) \in K[n]}
    OBVIOUS
  <2> QED BY <2>3, <2>4 DEF Joined
<1>3. Joining!Fold(<< >>, ss) \in W[Len(ss)]
  <2> HIDE DEF W
  <2> QED BY <1>1, <1>2, Joining!FoldKeeps
<1> QED BY <1>3

(* What the listener knows after the releases, and after the others, of the   *)
(* first n contacts.                                                         *)
ReleasedTo(n, contacts) == [i \in Ids |-> IF i <= n THEN Between(i, contacts[i]) ELSE told[i]]
ToldTo(n, contacts) == [i \in Ids |-> IF i <= n THEN Knows(NowTracked(i, contacts[i])) ELSE Between(i, contacts[i])]

(* First the releases of all contacts, up to the last, ... *)
LEMMA ReleasesTold ==
    ASSUME Glass!TouchConstants, TouchInv, polling, NEW contacts
    PROVE  LET ss == [i \in Ids |-> Glass!Releases(i, contacts[i])]
               q == Joining!Fold(<< >>, ss)
           IN  q \in Seq(EventsOf(contacts)) /\ Listening!Fold(told, q) = ReleasedTo(Contacts, contacts)
<1> DEFINE ss == [i \in Ids |-> Glass!Releases(i, contacts[i])]
           K == [n \in 0 .. Contacts |-> {ReleasedTo(n, contacts)}]
<1>1. told \in [Ids -> {"up", "down"}] /\ Ids = 1 .. Contacts /\ Contacts \in Nat
  BY DEF Glass!TouchConstants, TouchInv, TouchesPair, Glass!TouchesPair, Ids, Glass!Ids
<1>2. ASSUME NEW n \in 0 .. Contacts
      PROVE  ReleasedTo(n, contacts) \in [Ids -> {"up", "down"}]
  BY <1>1 DEF ReleasedTo, Between
<1>3. \A i \in Ids : Glass!Releases(i, contacts[i]) \in Seq(EventsOf(contacts))
  BY <1>1, ReleasesHeard
<1>4. ss \in Seq(Seq(EventsOf(contacts))) /\ Len(ss) = Contacts
  BY <1>1, <1>3
<1>5. told \in K[0]
  BY <1>1 DEF ReleasedTo
<1>6. ASSUME NEW n \in 1 .. Len(ss), NEW known \in K[n - 1]
      PROVE  Listening!Fold(known, ss[n]) \in K[n]
  <2>1. n \in Ids /\ n - 1 \in 0 .. Contacts /\ n \in 0 .. Contacts
    BY <1>1, <1>4
  <2>2. known = ReleasedTo(n - 1, contacts)
    BY <2>1
  <2>3. known \in [Ids -> {"up", "down"}] /\ known[n] = told[n]
    BY <1>1, <1>2, <2>1, <2>2 DEF ReleasedTo
  <2>4. Listening!Fold(known, ss[n]) = [known EXCEPT ![n] = Between(n, contacts[n])]
    BY <2>1, <2>3, ReleasesHeard
  <2>5. [known EXCEPT ![n] = Between(n, contacts[n])] = ReleasedTo(n, contacts)
    BY <1>1, <2>1, <2>2, <2>3 DEF ReleasedTo
  <2> QED BY <2>1, <2>4, <2>5
<1>7. /\ Joining!Fold(<< >>, ss) \in Seq(EventsOf(contacts))
      /\ Listening!Fold(told, Joining!Fold(<< >>, ss)) \in K[Len(ss)]
  <2> HIDE DEF ss, K
  <2> QED BY <1>4, <1>5, <1>6, JoinedEvents
<1> QED BY <1>4, <1>7

(* ... then what else became of them.                                        *)
LEMMA OthersTold ==
    ASSUME Glass!TouchConstants, TouchInv, polling, NEW contacts
    PROVE  LET ss == [i \in Ids |-> Glass!Others(i, contacts[i])]
               q == Joining!Fold(<< >>, ss)
           IN  /\ q \in Seq(EventsOf(contacts))
               /\ Listening!Fold(ReleasedTo(Contacts, contacts), q) = ToldTo(Contacts, contacts)
<1> DEFINE ss == [i \in Ids |-> Glass!Others(i, contacts[i])]
           K == [n \in 0 .. Contacts |-> {ToldTo(n, contacts)}]
<1>1. told \in [Ids -> {"up", "down"}] /\ Ids = 1 .. Contacts /\ Contacts \in Nat
  BY DEF Glass!TouchConstants, TouchInv, TouchesPair, Glass!TouchesPair, Ids, Glass!Ids
<1>2. ASSUME NEW n \in 0 .. Contacts
      PROVE  ToldTo(n, contacts) \in [Ids -> {"up", "down"}]
  BY <1>1 DEF ToldTo, Between, Knows
<1>5. ReleasedTo(Contacts, contacts) \in K[0] /\ ToldTo(0, contacts) \in K[0]
  BY <1>1 DEF ReleasedTo, ToldTo
<1>3. \A i \in Ids : Glass!Others(i, contacts[i]) \in Seq(EventsOf(contacts))
  <2> SUFFICES ASSUME NEW i \in Ids PROVE Glass!Others(i, contacts[i]) \in Seq(EventsOf(contacts))
    OBVIOUS
  <2>1. 0 \in 0 .. Contacts /\ ToldTo(0, contacts)[i] = Between(i, contacts[i])
    BY <1>1 DEF ToldTo
  <2> QED BY <1>2, <2>1, OthersHeard
<1>4. ss \in Seq(Seq(EventsOf(contacts))) /\ Len(ss) = Contacts
  BY <1>1, <1>3
<1>6. ASSUME NEW n \in 1 .. Len(ss), NEW known \in K[n - 1]
      PROVE  Listening!Fold(known, ss[n]) \in K[n]
  <2>1. n \in Ids /\ n - 1 \in 0 .. Contacts /\ n \in 0 .. Contacts
    BY <1>1, <1>4
  <2>2. known = ToldTo(n - 1, contacts)
    BY <2>1
  <2>3. known \in [Ids -> {"up", "down"}] /\ known[n] = Between(n, contacts[n])
    BY <1>1, <1>2, <2>1, <2>2 DEF ToldTo
  <2>4. Listening!Fold(known, ss[n]) = [known EXCEPT ![n] = Knows(NowTracked(n, contacts[n]))]
    BY <2>1, <2>3, OthersHeard
  <2>5. [known EXCEPT ![n] = Knows(NowTracked(n, contacts[n]))] = ToldTo(n, contacts)
    BY <1>1, <2>1, <2>2, <2>3 DEF ToldTo
  <2> QED BY <2>1, <2>4, <2>5
<1>7. /\ Joining!Fold(<< >>, ss) \in Seq(EventsOf(contacts))
      /\ Listening!Fold(ReleasedTo(Contacts, contacts), Joining!Fold(<< >>, ss)) \in K[Len(ss)]
  <2> HIDE DEF ss, K
  <2> QED BY <1>4, <1>5, <1>6, JoinedEvents
<1> QED BY <1>4, <1>7

(* One pass.                                                                 *)
LEMMA PassKeeps ==
    ASSUME Glass!TouchConstants, TouchInv, polling, polling' = polling, NEW contacts, Glass!ProcessTouches(contacts)
    PROVE  TouchInv'
<1> DEFINE r == Joining!Fold(<< >>, [i \in Ids |-> Glass!Releases(i, contacts[i])])
           o == Joining!Fold(<< >>, [i \in Ids |-> Glass!Others(i, contacts[i])])
<1>1. tracked' = [i \in Ids |-> NowTracked(i, contacts[i])]
  BY DEF Glass!ProcessTouches, NowTracked, Ids
<1>2. told' = Listening!Fold(told, r \o o)
  BY ListenAll, JoinAll DEF Glass!ProcessTouches, Glass!Sent, Ids
<1>3. Listening!Fold(told, r \o o) = ToldTo(Contacts, contacts)
  <2>1. r \in Seq(EventsOf(contacts)) /\ Listening!Fold(told, r) = ReleasedTo(Contacts, contacts)
    BY ReleasesTold
  <2>2. /\ o \in Seq(EventsOf(contacts))
        /\ Listening!Fold(ReleasedTo(Contacts, contacts), o) = ToldTo(Contacts, contacts)
    BY OthersTold
  <2> HIDE DEF r, o
  <2> QED BY <2>1, <2>2, Listening!FoldConcat
<1>4. ToldTo(Contacts, contacts) = [i \in Ids |-> Knows(NowTracked(i, contacts[i]))]
  BY DEF Glass!TouchConstants, ToldTo, Ids, Glass!Ids
<1>5. \A i \in Ids : NowTracked(i, contacts[i]) \in {"no", "down", "bounced"}
  BY DEF NowTracked, TouchInv
<1>6. told' = [i \in Ids |-> IF tracked'[i] = "down" THEN "down" ELSE "up"]
  BY <1>1, <1>2, <1>3, <1>4 DEF Knows
<1> QED BY <1>1, <1>5, <1>6 DEF TouchInv, TouchesPair, Glass!TouchesPair, Ids, Glass!Ids

(* While the loop runs the listener hears of each contact's presses and       *)
(* releases in turn, and knows which contacts are down (gt911.cpp,            *)
(* processTouches).                                                           *)
THEOREM TouchesArePaired == ASSUME Glass!TouchConstants PROVE Glass!Spec => []TouchesPair
<1>1. Glass!Init => TouchInv
  BY DEF Glass!Init, TouchInv, TouchesPair, Glass!TouchesPair, Ids
<1>2. ASSUME TouchInv, [Glass!Next]_(Glass!touchVars) PROVE TouchInv'
  <2>1. CASE Glass!Interrupted
    BY <1>2, <2>1, PassKeeps DEF Glass!Interrupted
  <2>2. CASE Glass!TimedOut
    BY <1>2, <2>2, PassKeeps DEF Glass!TimedOut
  <2>3. CASE Glass!Stop
    BY <1>2, <2>3 DEF Glass!Stop, TouchInv, TouchesPair, Glass!TouchesPair, Ids
  <2>4. CASE Glass!Tick \/ Glass!Skipped \/ UNCHANGED Glass!touchVars
             \/ \E i \in Ids, p \in Places \cup {Glass!Nowhere} : Glass!Contact(i, p)
    <3>1. tracked' = tracked /\ told' = told /\ polling' = polling
      BY <2>4 DEF Glass!Tick, Glass!Skipped, Glass!Contact, Glass!touchVars, Glass!trackVars
    <3> QED BY <1>2, <3>1 DEF TouchInv, TouchesPair, Glass!TouchesPair, Ids, Glass!Ids
  <2> QED BY <1>2, <2>1, <2>2, <2>3, <2>4 DEF Glass!Next, Ids
<1>3. TouchInv => TouchesPair
  BY DEF TouchInv
<1> QED BY <1>1, <1>2, <1>3, PTL DEF Glass!Spec

-----------------------------------------------------------------------------
(* The screen, for any widgets, views, questions and fingers.  With no finger *)
(* on the panel the last event of the queue is a RELEASE, and whoever hears   *)
(* of a RELEASE lets go of what it can.                                       *)

HandleOne(s, e) == Manager!Handle(s, e)
Handling == INSTANCE Folding WITH Op <- HandleOne

Widgets == Manager!Widgets
Swipes == {w \in Widgets : Kind[w] = "HOLD_SWIPE"}
TouchEvents == [kind : {"PRESS", "MOVE", "HOLD", "RELEASE"}, place : Manager!Spots]
Uis ==
    [view : Manager!Side \cup {"none"}, on : SUBSET Widgets, pressed : SUBSET Widgets, active : SUBSET Widgets,
     progress : [Swipes -> Int],
     pending : Asking \cup {"none"}, dialog : Asking \cup {"none"}, answer : Manager!Answers \cup {"none"},
     focused : SUBSET Widgets, keyboard : BOOLEAN, missed : SUBSET Widgets]

(* What is active is a button that is held, and that is in hand.             *)
HeldInHand(s) == s.active \subseteq s.pressed /\ \A w \in s.active : Kind[w] = "HOLD"
Excused(s) == s.pressed \cup s.active \subseteq s.missed
GoodUis == {s \in Uis : HeldInHand(s)}
AllUp == \A f \in Fingers : down[f] = "up"

(* When all contacts are up the last event that waits is a RELEASE.          *)
ScreenInv ==
    /\ ui \in GoodUis /\ queue \in Seq(TouchEvents) /\ down \in [Fingers -> Manager!Spots \cup {"up"}]
    /\ at = "close" => ui.dialog # "none"
    /\ AllUp => queue = << >> \/ queue[Len(queue)].kind = "RELEASE"
    /\ NothingStuck

(* Each of the manager's answers to an event keeps GoodUis.                  *)
LEMMA PressKeeps ==
    ASSUME NEW s \in GoodUis, NEW w \in Widgets PROVE Manager!PressOn(s, w) \in GoodUis
<1> DEFINE t == [s EXCEPT !.pressed = @ \cup {w}]
<1>1. t \in GoodUis
  BY DEF GoodUis, Uis, HeldInHand
<1> HIDE DEF t
<1>2. Manager!Toggled(t, w) \in GoodUis
  <2>1. \A v \in Manager!Side \cup {"none"} : Manager!SetView(t, v) \in GoodUis
    BY <1>1 DEF GoodUis, Uis, HeldInHand, Manager!SetView, Manager!Side, Widgets, Manager!Widgets
  <2>2. [t EXCEPT !.on = IF w \in @ THEN @ \ {w} ELSE @ \cup {w}] \in GoodUis
    BY <1>1 DEF GoodUis, Uis, HeldInHand
  <2> QED BY <2>1, <2>2 DEF Manager!Toggled
<1>3. w \in Asking => [t EXCEPT !.pending = w] \in GoodUis
  BY <1>1 DEF GoodUis, Uis, HeldInHand
<1>4. [t EXCEPT !.progress[w] = 0] \in GoodUis
  BY <1>1 DEF GoodUis, Uis, HeldInHand
<1> HIDE DEF GoodUis
<1> QED BY <1>1, <1>2, <1>3, <1>4 DEF Manager!PressOn, t

LEMMA ProgressKeeps ==
    ASSUME NEW s \in GoodUis, NEW left
    PROVE  LET t == [s EXCEPT !.progress =
                         [w \in DOMAIN @ |-> IF w \in left /\ @[w] < SwipeFrames THEN 0 ELSE @[w]]]
           IN  t \in GoodUis /\ t.pressed = s.pressed /\ t.active = s.active
<1>1. s.progress \in [Swipes -> Int]
  BY DEF GoodUis, Uis
<1>2. [w \in DOMAIN s.progress |-> IF w \in left /\ s.progress[w] < SwipeFrames THEN 0 ELSE s.progress[w]]
          \in [Swipes -> Int]
  BY <1>1
<1> QED BY <1>2 DEF GoodUis, Uis, HeldInHand

LEMMA ReleaseKeeps ==
    ASSUME NEW s \in GoodUis, NEW p
    PROVE  Manager!ReleaseAt(s, p) \in GoodUis /\ Excused(Manager!ReleaseAt(s, p))
<1> DEFINE left == s.pressed \cap Manager!Shown(s)
           t == [s EXCEPT !.progress = [w \in DOMAIN @ |-> IF w \in left /\ @[w] < SwipeFrames THEN 0 ELSE @[w]]]
<1>1. t \in GoodUis /\ t.pressed = s.pressed /\ t.active = s.active
  BY ProgressKeeps
<1>2. Manager!ReleaseAt(s, p) = [t EXCEPT !.pressed = @ \ left, !.active = @ \ left, !.missed = t.pressed \ left]
  BY DEF Manager!ReleaseAt, GoodUis, Uis
<1> DEFINE u == Manager!ReleaseAt(s, p)
<1> HIDE DEF t, left, u
<1>3. t \in Uis /\ HeldInHand(t)
  BY <1>1 DEF GoodUis
<1>4. /\ u.pressed = t.pressed \ left /\ u.active = t.active \ left /\ u.missed = t.pressed \ left
      /\ u \in Uis
  BY <1>2, <1>3 DEF Uis, u
<1>5. HeldInHand(u) /\ Excused(u)
  BY <1>3, <1>4 DEF HeldInHand, Excused
<1> QED BY <1>4, <1>5 DEF GoodUis, u

LEMMA MoveKeeps ==
    ASSUME NEW s \in GoodUis, NEW p PROVE Manager!MoveTo(s, p) \in GoodUis
<1> DEFINE left == {w \in s.pressed \cap Manager!Shown(s) : w # p /\ ~Manager!Dragged(w)}
           t == [s EXCEPT !.progress = [w \in DOMAIN @ |-> IF w \in left /\ @[w] < SwipeFrames THEN 0 ELSE @[w]]]
<1>1. t \in GoodUis /\ t.pressed = s.pressed /\ t.active = s.active
  BY ProgressKeeps
<1>2. Manager!MoveTo(s, p) = [t EXCEPT !.pressed = @ \ left, !.active = @ \ left]
  BY DEF Manager!MoveTo, GoodUis, Uis
<1> DEFINE u == Manager!MoveTo(s, p)
<1> HIDE DEF t, left, u
<1>3. t \in Uis /\ HeldInHand(t)
  BY <1>1 DEF GoodUis
<1>4. u.pressed = t.pressed \ left /\ u.active = t.active \ left /\ u \in Uis
  BY <1>2, <1>3 DEF Uis, u
<1>5. HeldInHand(u)
  BY <1>3, <1>4 DEF HeldInHand
<1> QED BY <1>4, <1>5 DEF GoodUis, u

LEMMA UnseenKeeps ==
    ASSUME NEW s \in GoodUis, NEW e
    PROVE  Manager!Unseen(s, e) \in GoodUis /\ (e.kind = "RELEASE" => Excused(Manager!Unseen(s, e)))
BY DEF Manager!Unseen, GoodUis, Uis, HeldInHand, Excused

(* The fields take nothing into hand, nor does the keyboard. *)
LEMMA FieldsKeep ==
    ASSUME NEW s \in GoodUis, NEW p PROVE Manager!FieldsHear(s, p) \in GoodUis
<1> DEFINE u == Manager!FieldsHear(s, p)
           fields == Manager!Range(Order) \cap Manager!Shown(s)
<1>1. fields \subseteq Widgets
  BY DEF Manager!Shown, Widgets
<1>2. \E focused \in SUBSET Widgets, keyboard \in BOOLEAN :
          u = [s EXCEPT !.focused = focused, !.keyboard = keyboard]
  <2> DEFINE focused == (s.focused \ fields) \cup ({p} \cap fields)
             keyboard == p \in fields \ s.focused
                            /\ \E i \in DOMAIN Order :
                                   /\ Order[i] = p
                                   /\ \A j \in DOMAIN Order : j > i => Order[j] \notin fields \cap s.focused
  <2>1. focused \in SUBSET Widgets
    BY <1>1 DEF GoodUis, Uis
  <2>2. keyboard \in BOOLEAN
    OBVIOUS
  <2>3. u = [s EXCEPT !.focused = focused, !.keyboard = keyboard]
    BY DEF Manager!FieldsHear, GoodUis, Uis
  <2> HIDE DEF focused, keyboard, u
  <2> QED BY <2>1, <2>2, <2>3
<1> HIDE DEF u
<1> QED BY <1>2 DEF GoodUis, Uis, HeldInHand, u

LEMMA KeyboardKeeps ==
    ASSUME NEW s \in GoodUis, NEW e
    PROVE  /\ Manager!KeyboardHandle(s, e) \in GoodUis
           /\ e.kind = "RELEASE" => Excused(Manager!KeyboardHandle(s, e))
<1>1. [s EXCEPT !.keyboard = FALSE] \in GoodUis
  BY DEF GoodUis, Uis, HeldInHand
<1> QED BY <1>1, UnseenKeeps DEF Manager!KeyboardHandle

(* Whatever hears of a RELEASE excuses what stays in hand.                   *)
LEMMA HandleKeeps ==
    ASSUME NEW s \in GoodUis, NEW e \in TouchEvents
    PROVE  HandleOne(s, e) \in GoodUis /\ (e.kind = "RELEASE" => Excused(HandleOne(s, e)))
<1>1. Manager!Shown(s) \subseteq Widgets
  BY DEF Manager!Shown, Widgets
<1>2. Manager!MoveTo(s, e.place) \in GoodUis
  BY MoveKeeps
<1>3. Manager!HoldAt(s, e.place) \in GoodUis
  BY DEF Manager!HoldAt, GoodUis, Uis, HeldInHand
<1>4. Manager!WidgetsHandle(s, e) \in GoodUis /\ (e.kind = "RELEASE" => Excused(Manager!WidgetsHandle(s, e)))
  <2>1. e.kind \in {"PRESS", "MOVE", "HOLD", "RELEASE"}
    BY DEF TouchEvents
  <2> DEFINE t == IF e.place \in Manager!Shown(s) \ Manager!Range(Order) THEN Manager!PressOn(s, e.place) ELSE s
  <2>2. t \in GoodUis
    BY <1>1, PressKeeps
  <2>3. Manager!FieldsHear(t, e.place) \in GoodUis
    <3> HIDE DEF t
    <3> QED BY <2>2, FieldsKeep
  <2> QED BY <1>2, <1>3, <2>1, <2>3, ReleaseKeeps DEF Manager!WidgetsHandle
<1>5. Manager!DialogHandle(s, e) \in GoodUis /\ (e.kind = "RELEASE" => Excused(Manager!DialogHandle(s, e)))
  <2> DEFINE u == Manager!Unseen(s, e)
  <2>1. u \in GoodUis /\ (e.kind = "RELEASE" => Excused(u))
    BY UnseenKeeps
  <2> HIDE DEF u
  <2>2. ASSUME NEW a \in Manager!Answers
        PROVE  [u EXCEPT !.answer = a] \in GoodUis /\ (Excused(u) => Excused([u EXCEPT !.answer = a]))
    BY <2>1 DEF GoodUis, Uis, HeldInHand, Excused
  <2> QED BY <2>1, <2>2 DEF Manager!DialogHandle, u
<1> QED BY <1>4, <1>5, KeyboardKeeps, UnseenKeeps DEF HandleOne, Manager!Handle

(* The main thread handles all that waits, the last event last.              *)
LEMMA ProcessKeeps ==
    ASSUME ScreenInv, Manager!Process PROVE ScreenInv'
<1> DEFINE s == Handling!Fold(ui, queue)
           Calm(k) == IF k = 0 THEN Excused(ui) ELSE queue[k].kind = "RELEASE"
           W == [k \in 0 .. Len(queue) |-> {t \in GoodUis : Calm(k) => Excused(t)}]
<1>1. /\ ui \in GoodUis /\ queue \in Seq(TouchEvents) /\ Len(queue) \in Nat
      /\ \A k \in 1 .. Len(queue) : queue[k] \in TouchEvents
  BY DEF ScreenInv
<1>2. ui \in W[0]
  BY <1>1
<1>3. ASSUME NEW k \in 1 .. Len(queue), NEW t \in W[k - 1] PROVE HandleOne(t, queue[k]) \in W[k]
  <2>1. t \in GoodUis /\ queue[k] \in TouchEvents /\ k \in 0 .. Len(queue) /\ k # 0
    BY <1>1, <1>3
  <2>2. HandleOne(t, queue[k]) \in GoodUis /\ (queue[k].kind = "RELEASE" => Excused(HandleOne(t, queue[k])))
    BY <2>1, HandleKeeps
  <2>3. W[k] = {u \in GoodUis : queue[k].kind = "RELEASE" => Excused(u)}
    BY <2>1
  <2> QED BY <2>2, <2>3
<1>4. s \in W[Len(queue)]
  <2> HIDE DEF W
  <2> QED BY <1>1, <1>2, <1>3, Handling!FoldKeeps
<1>5. s \in GoodUis /\ (Calm(Len(queue)) => Excused(s))
  BY <1>1, <1>4
<1>6. ui' = Manager!Update(s)
  BY DEF Manager!Process, Manager!FoldLeft, Manager!MapThenFoldSet, Manager!Max, Handling!Fold,
         Handling!MapThenFoldSet, Handling!Greatest, HandleOne
<1>7. AllUp => Calm(Len(queue))
  BY <1>1 DEF ScreenInv, NothingStuck, Manager!NothingStuck, AllUp, Excused
<1> HIDE DEF s, W, Calm
<1>8. ui' \in GoodUis /\ (Excused(s) => Excused(ui'))
  <2> DEFINE p == [w \in DOMAIN s.progress |->
                       IF w \in s.pressed /\ s.progress[w] < SwipeFrames THEN s.progress[w] + 1 ELSE s.progress[w]]
  <2>1. s.progress \in [Swipes -> Int]
    BY <1>5 DEF GoodUis, Uis
  <2>2. p \in [Swipes -> Int]
    BY <2>1
  <2>3. ui' = [s EXCEPT !.progress = p]
    BY <1>6 DEF Manager!Update
  <2> HIDE DEF p
  <2> QED BY <1>5, <2>2, <2>3 DEF GoodUis, Uis, HeldInHand, Excused
<1>9. queue' = << >> /\ down' = down /\ (at' = "close" => ui'.dialog # "none")
  BY DEF Manager!Process
<1>10. AllUp' => Excused(ui')
  BY <1>5, <1>7, <1>8, <1>9 DEF AllUp
<1> QED BY <1>8, <1>9, <1>10 DEF ScreenInv, NothingStuck, Manager!NothingStuck, AllUp, Excused

(* An event of a contact comes last in the queue; only a RELEASE leaves the   *)
(* contact up.                                                               *)
LEMMA EventKeeps ==
    ASSUME Manager!ScreenConstants, ScreenInv, NEW f \in Fingers, NEW p \in Manager!Spots, Manager!Finger(f, p)
    PROVE  ScreenInv'
<1>1. PICK kind \in {"PRESS", "MOVE", "HOLD", "RELEASE"} :
          Manager!Event(kind, f, p) /\ (kind = "RELEASE" => p # "up")
  <2>1. "up" \notin Manager!Spots
    BY DEF Manager!ScreenConstants, Manager!Spots, Widgets, Manager!Answers
  <2> QED BY <2>1 DEF Manager!Finger
<1> DEFINE e == [kind |-> kind, place |-> p]
<1>2. /\ p # "up"
      /\ queue' = Append(queue, e) /\ down' = [down EXCEPT ![f] = IF kind = "RELEASE" THEN "up" ELSE p]
      /\ UNCHANGED <<ui, hidden, at>>
  BY <1>1 DEF Manager!Event, Manager!ScreenConstants, Manager!Spots, Widgets, Manager!Answers
<1>3. /\ queue \in Seq(TouchEvents) /\ down \in [Fingers -> Manager!Spots \cup {"up"}] /\ ui \in GoodUis
      /\ at = "close" => ui.dialog # "none"
  BY DEF ScreenInv
<1>4. e \in TouchEvents /\ e.kind = kind
  BY DEF TouchEvents
<1> HIDE DEF e
<1>5. /\ queue' \in Seq(TouchEvents) /\ Len(queue') = Len(queue) + 1 /\ Len(queue') \in DOMAIN queue'
      /\ queue'[Len(queue')] = e
  BY <1>2, <1>3, <1>4
<1>6. CASE kind = "RELEASE"
  <2>1. down' \in [Fingers -> Manager!Spots \cup {"up"}] /\ queue'[Len(queue')].kind = "RELEASE"
    BY <1>2, <1>3, <1>4, <1>5, <1>6
  <2>2. NothingStuck'
    BY <1>5, <2>1 DEF NothingStuck, Manager!NothingStuck
  <2> QED BY <1>2, <1>3, <1>5, <2>1, <2>2 DEF ScreenInv
<1>7. CASE kind # "RELEASE"
  <2>1. down' \in [Fingers -> Manager!Spots \cup {"up"}] /\ down'[f] # "up"
    BY <1>2, <1>3, <1>7
  <2>2. NothingStuck' /\ ~AllUp'
    BY <2>1 DEF NothingStuck, Manager!NothingStuck, AllUp
  <2> QED BY <1>2, <1>3, <1>5, <2>1, <2>2 DEF ScreenInv
<1> QED BY <1>6, <1>7

(* A question's button is not one that is held.                              *)
LEMMA CloseKeeps ==
    ASSUME Manager!ScreenConstants, ScreenInv, Manager!Close PROVE ScreenInv'
<1> DEFINE d == ui.dialog
<1>1. ui \in GoodUis /\ d \in Asking
  BY DEF ScreenInv, Manager!Close, GoodUis, Uis
<1>2. d \notin ui.active
  BY <1>1 DEF Manager!ScreenConstants, GoodUis, HeldInHand
<1>3. /\ ui' = [ui EXCEPT !.pressed = @ \ {d}, !.missed = @ \ {d}, !.dialog = "none", !.answer = "none"]
      /\ UNCHANGED <<down, queue>> /\ at' # "close"
  BY DEF Manager!Close
<1>4. ui' \in GoodUis /\ (Excused(ui) => Excused(ui'))
  <2> HIDE DEF d
  <2> QED BY <1>1, <1>2, <1>3 DEF GoodUis, Uis, HeldInHand, Excused
<1> QED BY <1>3, <1>4 DEF ScreenInv, NothingStuck, Manager!NothingStuck, AllUp, Excused

(* A question that is opened puts nothing into hand.                         *)
LEMMA ActKeeps ==
    ASSUME ScreenInv, Manager!Act PROVE ScreenInv'
<1>1. /\ ui' = [ui EXCEPT !.dialog = ui.pending, !.pending = "none"]
      /\ UNCHANGED <<down, queue>> /\ at' # "close" /\ ui \in GoodUis
  BY DEF Manager!Act, ScreenInv
<1>2. ui' \in GoodUis /\ (Excused(ui) => Excused(ui'))
  BY <1>1 DEF GoodUis, Uis, HeldInHand, Excused
<1> QED BY <1>1, <1>2 DEF ScreenInv, NothingStuck, Manager!NothingStuck, AllUp, Excused

(* A widget stays in hand without a finger only if a dialog, the keyboard,   *)
(* hide_ui or a change of the view took the last RELEASE from it             *)
(* (manager.cpp, button_widget.cpp, slider_widget.cpp, dial_widget.cpp).     *)
THEOREM NothingIsStuck == ASSUME Manager!ScreenConstants PROVE Manager!Spec => []NothingStuck
<1>1. Manager!Init => ScreenInv
  <2> SUFFICES ASSUME Manager!Init PROVE ScreenInv
    OBVIOUS
  <2>1. ui \in GoodUis /\ Excused(ui)
    BY DEF Manager!Init, GoodUis, Uis, HeldInHand, Excused, Swipes, Widgets
  <2>2. queue = << >> /\ queue \in Seq(TouchEvents) /\ down \in [Fingers -> Manager!Spots \cup {"up"}] /\ at # "close"
    BY DEF Manager!Init
  <2> QED BY <2>1, <2>2 DEF ScreenInv, NothingStuck, Manager!NothingStuck, Excused
<1>2. ASSUME ScreenInv, [Manager!Next]_(Manager!screenVars) PROVE ScreenInv'
  <2>1. CASE UNCHANGED Manager!screenVars
    BY <1>2, <2>1 DEF Manager!screenVars, ScreenInv, NothingStuck, Manager!NothingStuck, AllUp
  <2> QED BY <1>2, <2>1, EventKeeps, ProcessKeeps, ActKeeps, CloseKeeps DEF Manager!Next
<1>3. ScreenInv => NothingStuck
  BY DEF ScreenInv
<1> QED BY <1>1, <1>2, <1>3, PTL DEF Manager!Spec

-----------------------------------------------------------------------------
(* The keyboard and the fields that share it, for any fields.  A press goes   *)
(* to one field after the other, and none that it does not hit stays in use.  *)

EditOne(s, f) == Keyboard!EditHandle(s, f)
SpinOne(s, f) == Keyboard!SpinHandle(s, f)
Editing == INSTANCE Folding WITH Op <- EditOne
Spinning == INSTANCE Folding WITH Op <- SpinOne

Fields == Keyboard!Fields
Keyboards == [visible : BOOLEAN, owner : Fields \cup {"none"}, buf : Int, numeric : BOOLEAN, shift : BOOLEAN]
FieldStates == [Fields -> [busy : BOOLEAN, text : Int]]
Presses == [kb : Keyboards, field : FieldStates, at : Fields \cup {"side", "else"}, step : BOOLEAN]

(* What is on the screen belongs to the one field that is being edited.      *)
Serves(k, F) ==
    /\ k.visible => k.owner \in Fields /\ F[k.owner] = [busy |-> TRUE, text |-> k.buf]
    /\ ~k.visible => k.owner = "none"
OneBusy(F) == \A f, g \in Fields : F[f].busy /\ F[g].busy => f = g

(* The keyboard serves the one field that is in use.                         *)
TypingInv ==
    /\ kb \in Keyboards /\ field \in FieldStates
    /\ KeyboardServesFocus

(* A sequence, of whatever.                                                  *)
IsSeq(q) == \E S : q \in Seq(S)

(* What a text edit and a spin box make of a press.                          *)
LEMMA EditKeeps ==
    ASSUME NEW s \in Presses, Serves(s.kb, s.field), NEW f \in Fields
    PROVE  LET t == EditOne(s, f)
           IN  /\ t \in Presses /\ t.at = s.at /\ Serves(t.kb, t.field)
               /\ \A g \in Fields \ {f} : t.field[g] = s.field[g]
               /\ f # s.at => ~t.field[f].busy
<1> DEFINE t == EditOne(s, f)
           opened == Keyboard!ShowWithText(f, s.field[f].text, f \in Numpad)
<1>1. /\ s.kb \in Keyboards /\ s.field \in FieldStates /\ s.field[f] \in [busy : BOOLEAN, text : Int]
      /\ s.at \in Fields \cup {"side", "else"} /\ s.step \in BOOLEAN
  BY DEF Presses, FieldStates
<1>2. opened \in Keyboards /\ opened.visible /\ opened.owner = f /\ opened.buf = s.field[f].text
  BY <1>1 DEF Keyboard!ShowWithText, Keyboards
<1>3. /\ Keyboard!Hide(s.kb) \in Keyboards /\ ~Keyboard!Hide(s.kb).visible
      /\ Keyboard!Hide(s.kb).owner = "none"
  BY <1>1 DEF Keyboard!Hide, Keyboards
<1>4. CASE s.at = f /\ ~s.field[f].busy
  <2>1. t = [s EXCEPT !.kb = opened, !.field = [@ EXCEPT ![f].busy = TRUE]]
    BY <1>4 DEF EditOne, Keyboard!EditHandle, Presses
  <2> HIDE DEF t, opened
  <2> DEFINE F == [s.field EXCEPT ![f].busy = TRUE]
  <2>2. /\ F \in FieldStates /\ F[f] = [busy |-> TRUE, text |-> s.field[f].text]
        /\ \A g \in Fields \ {f} : F[g] = s.field[g]
    BY <1>1 DEF FieldStates
  <2>3. t = [kb |-> opened, field |-> F, at |-> s.at, step |-> s.step]
    BY <2>1 DEF Presses
  <2> HIDE DEF F
  <2>4. t.kb = opened /\ t.field = F /\ t.at = s.at /\ t \in Presses
    BY <1>1, <1>2, <2>2, <2>3 DEF Presses
  <2>5. Serves(opened, F)
    BY <1>2, <2>2 DEF Serves
  <2> QED BY <1>4, <2>2, <2>4, <2>5 DEF t
<1>5. CASE s.at # f /\ s.field[f].busy
  <2> DEFINE k == IF s.kb.visible THEN Keyboard!Hide(s.kb) ELSE s.kb
             F == [s.field EXCEPT ![f].busy = FALSE]
  <2>1. t = [s EXCEPT !.kb = k, !.field = F]
    BY <1>5 DEF EditOne, Keyboard!EditHandle, Presses
  <2>2. F \in FieldStates /\ ~F[f].busy /\ \A g \in Fields \ {f} : F[g] = s.field[g]
    BY <1>1 DEF FieldStates
  <2>3. k \in Keyboards /\ ~k.visible /\ k.owner = "none"
    BY <1>1, <1>3 DEF Serves
  <2> HIDE DEF t, F, k
  <2>4. t = [kb |-> k, field |-> F, at |-> s.at, step |-> s.step]
    BY <2>1 DEF Presses
  <2> QED BY <1>1, <2>2, <2>3, <2>4 DEF Presses, Serves, t
<1>6. CASE ~(s.at = f /\ ~s.field[f].busy) /\ ~(s.at # f /\ s.field[f].busy)
  <2>1. t = s
    BY <1>6 DEF EditOne, Keyboard!EditHandle
  <2> HIDE DEF t
  <2> QED BY <1>6, <2>1 DEF t
<1> QED BY <1>4, <1>5, <1>6

LEMMA SpinKeeps ==
    ASSUME NEW s \in Presses, Serves(s.kb, s.field), NEW f \in Fields
    PROVE  LET t == SpinOne(s, f)
           IN  /\ t \in Presses /\ t.at = s.at /\ Serves(t.kb, t.field)
               /\ \A g \in Fields \ {f} : t.field[g] = s.field[g]
               /\ f # s.at => ~t.field[f].busy
<1> DEFINE t == SpinOne(s, f)
           opened == Keyboard!ShowWithText(f, 1, TRUE)
<1>1. /\ s.kb \in Keyboards /\ s.field \in FieldStates /\ s.field[f] \in [busy : BOOLEAN, text : Int]
      /\ s.at \in Fields \cup {"side", "else"} /\ s.step \in BOOLEAN
  BY DEF Presses, FieldStates
<1>2. opened \in Keyboards /\ opened.visible /\ opened.owner = f /\ opened.buf = 1
  BY <1>1 DEF Keyboard!ShowWithText, Keyboards
<1>3. /\ Keyboard!Commit(s.kb) \in Keyboards /\ ~Keyboard!Commit(s.kb).visible
      /\ Keyboard!Commit(s.kb).owner = "none"
  BY <1>1 DEF Keyboard!Commit, Keyboard!Hide, Keyboards
<1>4. CASE s.at = f /\ ~s.step /\ ~s.field[f].busy
  <2> DEFINE F == [s.field EXCEPT ![f] = [busy |-> TRUE, text |-> 1]]
  <2>1. t = [s EXCEPT !.kb = opened, !.field = F]
    BY <1>4 DEF SpinOne, Keyboard!SpinHandle, Presses
  <2>2. F \in FieldStates /\ F[f] = [busy |-> TRUE, text |-> 1] /\ \A g \in Fields \ {f} : F[g] = s.field[g]
    BY <1>1 DEF FieldStates
  <2> HIDE DEF t, opened, F
  <2>3. t = [kb |-> opened, field |-> F, at |-> s.at, step |-> s.step]
    BY <2>1 DEF Presses
  <2>4. t.kb = opened /\ t.field = F /\ t.at = s.at /\ t \in Presses
    BY <1>1, <1>2, <2>2, <2>3 DEF Presses
  <2>5. Serves(opened, F)
    BY <1>2, <2>2 DEF Serves
  <2> QED BY <1>4, <2>2, <2>4, <2>5 DEF t
<1>5. CASE s.at # f /\ s.field[f].busy
  <2> DEFINE k == Keyboard!Commit(s.kb)
             F == [s.field EXCEPT ![f] = [busy |-> FALSE, text |-> 0]]
  <2>1. t = [s EXCEPT !.kb = k, !.field = F]
    BY <1>5 DEF SpinOne, Keyboard!SpinHandle, Presses
  <2>2. F \in FieldStates /\ ~F[f].busy /\ \A g \in Fields \ {f} : F[g] = s.field[g]
    BY <1>1 DEF FieldStates
  <2> HIDE DEF t, F, k
  <2>3. t = [kb |-> k, field |-> F, at |-> s.at, step |-> s.step]
    BY <2>1 DEF Presses
  <2> QED BY <1>1, <1>3, <2>2, <2>3 DEF Presses, Serves, t, k
<1>6. CASE ~(s.at = f /\ ~s.step /\ ~s.field[f].busy) /\ ~(s.at # f /\ s.field[f].busy)
  <2>1. t = s
    BY <1>6 DEF SpinOne, Keyboard!SpinHandle
  <2> HIDE DEF t
  <2> QED BY <1>6, <2>1 DEF t
<1> QED BY <1>4, <1>5, <1>6

(* What is left of the fields in hand after the first k of a sequence.       *)
LetGo(F, fields, k, p) == \A j \in 1 .. k : fields[j] # p => ~F[fields[j]].busy

(* A press that all edits hear, and then all spin boxes.                     *)
LEMMA SomeEdited ==
    ASSUME NEW p, NEW fields, IsSeq(fields), \A j \in DOMAIN fields : fields[j] \in Fields,
           NEW s \in Presses, s.at = p, Serves(s.kb, s.field)
    PROVE  LET t == Editing!Fold(s, fields)
           IN  t \in Presses /\ t.at = p /\ Serves(t.kb, t.field) /\ LetGo(t.field, fields, Len(fields), p)
<1> DEFINE W == [k \in 0 .. Len(fields) |->
                     {t \in Presses : t.at = p /\ Serves(t.kb, t.field) /\ LetGo(t.field, fields, k, p)}]
<1>1. PICK S : fields \in Seq(S)
  BY DEF IsSeq
<1>2. Len(fields) \in Nat /\ DOMAIN fields = 1 .. Len(fields)
  BY <1>1
<1>3. s \in W[0]
  BY <1>2 DEF LetGo
<1>4. ASSUME NEW k \in 1 .. Len(fields), NEW t \in W[k - 1] PROVE EditOne(t, fields[k]) \in W[k]
  <2>1. k - 1 \in 0 .. Len(fields) /\ k \in 0 .. Len(fields) /\ fields[k] \in Fields
    BY <1>2
  <2>2. t \in Presses /\ t.at = p /\ Serves(t.kb, t.field) /\ LetGo(t.field, fields, k - 1, p)
    BY <2>1
  <2> DEFINE u == EditOne(t, fields[k])
  <2>3. /\ u \in Presses /\ u.at = p /\ Serves(u.kb, u.field)
        /\ \A g \in Fields \ {fields[k]} : u.field[g] = t.field[g]
        /\ fields[k] # p => ~u.field[fields[k]].busy
    BY <2>1, <2>2, EditKeeps
  <2> HIDE DEF u
  <2>4. LetGo(u.field, fields, k, p)
    <3> SUFFICES ASSUME NEW j \in 1 .. k, fields[j] # p PROVE ~u.field[fields[j]].busy
      BY DEF LetGo
    <3>1. CASE fields[j] = fields[k]
      BY <2>3, <3>1
    <3>2. CASE fields[j] # fields[k]
      <4>1. j \in 1 .. k - 1 /\ fields[j] \in Fields
        BY <1>2, <3>2
      <4> QED BY <2>2, <2>3, <3>2, <4>1 DEF LetGo
    <3> QED BY <3>1, <3>2
  <2>5. W[k] = {v \in Presses : v.at = p /\ Serves(v.kb, v.field) /\ LetGo(v.field, fields, k, p)}
    BY <2>1
  <2> QED BY <2>3, <2>4, <2>5 DEF u
<1>5. Editing!Fold(s, fields) \in W[Len(fields)]
  <2> HIDE DEF W
  <2> QED BY <1>1, <1>3, <1>4, Editing!FoldKeeps
<1> QED BY <1>2, <1>5

LEMMA SomeSpun ==
    ASSUME NEW p, NEW done, NEW n \in Nat, \A j \in 1 .. n : done[j] \in Fields,
           NEW fields, IsSeq(fields), \A j \in DOMAIN fields : fields[j] \in Fields,
           NEW s \in Presses, s.at = p, Serves(s.kb, s.field), LetGo(s.field, done, n, p)
    PROVE  LET t == Spinning!Fold(s, fields)
           IN  /\ t \in Presses /\ Serves(t.kb, t.field)
               /\ LetGo(t.field, done, n, p) /\ LetGo(t.field, fields, Len(fields), p)
<1> DEFINE Was(t) == t.at = p /\ Serves(t.kb, t.field) /\ LetGo(t.field, done, n, p)
           W == [k \in 0 .. Len(fields) |-> {t \in Presses : Was(t) /\ LetGo(t.field, fields, k, p)}]
<1>1. PICK S : fields \in Seq(S)
  BY DEF IsSeq
<1>2. Len(fields) \in Nat /\ DOMAIN fields = 1 .. Len(fields)
  BY <1>1
<1>3. s \in W[0]
  BY <1>2 DEF LetGo
<1>4. ASSUME NEW k \in 1 .. Len(fields), NEW t \in W[k - 1] PROVE SpinOne(t, fields[k]) \in W[k]
  <2>1. k - 1 \in 0 .. Len(fields) /\ k \in 0 .. Len(fields) /\ fields[k] \in Fields
    BY <1>2
  <2>2. t \in Presses /\ Was(t) /\ LetGo(t.field, fields, k - 1, p)
    BY <2>1
  <2> DEFINE u == SpinOne(t, fields[k])
  <2>3. /\ u \in Presses /\ u.at = p /\ Serves(u.kb, u.field)
        /\ \A g \in Fields \ {fields[k]} : u.field[g] = t.field[g]
        /\ fields[k] # p => ~u.field[fields[k]].busy
    BY <2>1, <2>2, SpinKeeps
  <2> HIDE DEF u
  <2>4. \A f \in Fields : (f # p => ~t.field[f].busy) => (f # p => ~u.field[f].busy)
    BY <2>3
  <2>5. LetGo(u.field, done, n, p)
    BY <2>2, <2>4 DEF LetGo
  <2>6. LetGo(u.field, fields, k, p)
    <3> SUFFICES ASSUME NEW j \in 1 .. k, fields[j] # p PROVE ~u.field[fields[j]].busy
      BY DEF LetGo
    <3>1. CASE fields[j] = fields[k]
      BY <2>3, <3>1
    <3>2. CASE fields[j] # fields[k]
      <4>1. j \in 1 .. k - 1 /\ fields[j] \in Fields
        BY <1>2, <3>2
      <4> QED BY <2>2, <2>4, <4>1 DEF LetGo
    <3> QED BY <3>1, <3>2
  <2>7. W[k] = {v \in Presses : Was(v) /\ LetGo(v.field, fields, k, p)}
    BY <2>1
  <2> QED BY <2>3, <2>5, <2>6, <2>7 DEF u
<1>5. Spinning!Fold(s, fields) \in W[Len(fields)]
  <2> HIDE DEF W
  <2> QED BY <1>1, <1>3, <1>4, Spinning!FoldKeeps
<1> QED BY <1>2, <1>5

(* A press, seen by the fields if they are shown.                            *)
LEMMA PressServes ==
    ASSUME Keyboard!TypingConstants, TypingInv, NEW p \in Fields \cup {"side", "else"}, NEW step \in BOOLEAN,
           Keyboard!Press(p, step)
    PROVE  TypingInv'
<1> DEFINE heard == [kb |-> kb, field |-> field, at |-> p, step |-> step]
           edited == Editing!Fold(heard, Edits)
           all == Spinning!Fold(edited, Spins)
<1>1. IF there' THEN kb' = all.kb /\ field' = all.field ELSE UNCHANGED <<kb, field>>
  BY DEF Keyboard!Press, Keyboard!FoldLeft, Keyboard!MapThenFoldSet, Keyboard!Max, Editing!Fold,
         Editing!MapThenFoldSet, Editing!Greatest, Spinning!Fold, Spinning!MapThenFoldSet,
         Spinning!Greatest, EditOne, SpinOne
<1>2. CASE there'
  <2>1. heard \in Presses /\ heard.at = p /\ Serves(heard.kb, heard.field)
    BY DEF TypingInv, KeyboardServesFocus, Keyboard!KeyboardServesFocus, Presses, Serves, Fields
  <2>2. /\ \A j \in DOMAIN Edits : Edits[j] \in Fields
        /\ \A j \in DOMAIN Spins : Spins[j] \in Fields
        /\ Fields = {Edits[j] : j \in DOMAIN Edits} \cup {Spins[j] : j \in DOMAIN Spins}
    BY DEF Fields, Keyboard!Fields, Keyboard!Range
  <2>3. /\ Len(Edits) \in Nat /\ DOMAIN Edits = 1 .. Len(Edits)
        /\ Len(Spins) \in Nat /\ DOMAIN Spins = 1 .. Len(Spins)
    BY DEF Keyboard!TypingConstants
  <2> HIDE DEF heard
  <2>4. /\ edited \in Presses /\ edited.at = p /\ Serves(edited.kb, edited.field)
        /\ LetGo(edited.field, Edits, Len(Edits), p)
    BY <2>1, <2>2, SomeEdited DEF Keyboard!TypingConstants, IsSeq
  <2> HIDE DEF edited
  <2>5. /\ all \in Presses /\ Serves(all.kb, all.field)
        /\ LetGo(all.field, Edits, Len(Edits), p) /\ LetGo(all.field, Spins, Len(Spins), p)
    BY <2>2, <2>3, <2>4, SomeSpun DEF Keyboard!TypingConstants, IsSeq
  <2> HIDE DEF all
  <2>6. \A f \in Fields : all.field[f].busy => f = p
    BY <2>2, <2>3, <2>5 DEF LetGo
  <2>7. OneBusy(all.field)
    BY <2>6 DEF OneBusy
  <2>8. kb' = all.kb /\ field' = all.field /\ all.kb \in Keyboards /\ all.field \in FieldStates
    BY <1>1, <1>2, <2>5 DEF Presses
  <2> QED BY <2>5, <2>7, <2>8
          DEF TypingInv, KeyboardServesFocus, Keyboard!KeyboardServesFocus, Serves, OneBusy, Fields
<1>3. CASE ~there'
  BY <1>1, <1>3 DEF TypingInv, KeyboardServesFocus, Keyboard!KeyboardServesFocus
<1> QED BY <1>2, <1>3

(* A key, told to the owner.                                                 *)
LEMMA TextReplaced ==
    ASSUME NEW c, NEW a, NEW b
    PROVE  [[busy |-> c, text |-> a] EXCEPT !.text = b] = [busy |-> c, text |-> b]
OBVIOUS

LEMMA KeyServes ==
    ASSUME Keyboard!TypingConstants, TypingInv, NEW key, Keyboard!Key(key) PROVE TypingInv'
<1>1. /\ kb \in Keyboards /\ field \in FieldStates /\ kb.visible /\ kb.owner \in Fields
      /\ field[kb.owner] = [busy |-> TRUE, text |-> kb.buf] /\ OneBusy(field)
  BY DEF Keyboard!Key, TypingInv, KeyboardServesFocus, Keyboard!KeyboardServesFocus, Fields, OneBusy
<1>2. ASSUME NEW typed \in Int, Keyboard!Told(typed)
      PROVE  /\ field' \in FieldStates /\ field'[kb.owner] = [busy |-> TRUE, text |-> typed]
             /\ OneBusy(field')
  <2>1. field' = [f \in Fields |-> IF f = kb.owner THEN [field[f] EXCEPT !.text = typed] ELSE field[f]]
    BY <1>2 DEF Keyboard!Told, Fields
  <2>2. field' \in FieldStates /\ \A f \in Fields : field'[f].busy = field[f].busy
    BY <1>1, <2>1 DEF FieldStates
  <2>3. field'[kb.owner] = [[busy |-> TRUE, text |-> kb.buf] EXCEPT !.text = typed]
    BY <1>1, <2>1
  <2>4. [[busy |-> TRUE, text |-> kb.buf] EXCEPT !.text = typed] = [busy |-> TRUE, text |-> typed]
    BY TextReplaced
  <2> QED BY <1>1, <2>2, <2>3, <2>4 DEF OneBusy
<1>3. CASE Keyboard!Type(key)
  <2>1. PICK typed \in Int : Keyboard!Told(typed) /\ kb' = [kb EXCEPT !.buf = typed, !.shift = @ /\ key = "BKSP"]
    <3> DEFINE b == CASE key = "char" -> Keyboard!Typed(1)
                      [] key = "double" -> Keyboard!Typed(2)
                      [] OTHER -> IF kb.buf > 0 THEN kb.buf - 1 ELSE 0
    <3>1. b \in Int
      BY <1>1 DEF Keyboard!Typed, Keyboards, Keyboard!TypingConstants
    <3>2. Keyboard!Told(b) /\ kb' = [kb EXCEPT !.buf = b, !.shift = @ /\ key = "BKSP"]
      BY <1>3 DEF Keyboard!Type
    <3> HIDE DEF b
    <3> QED BY <3>1, <3>2
  <2>2. kb' \in Keyboards /\ kb'.visible /\ kb'.owner = kb.owner /\ kb'.buf = typed
    BY <1>1, <2>1 DEF Keyboards
  <2> QED BY <1>1, <1>2, <2>1, <2>2
          DEF TypingInv, KeyboardServesFocus, Keyboard!KeyboardServesFocus, Fields, OneBusy
<1>4. CASE Keyboard!Done(key)
  <2>1. kb' \in Keyboards /\ ~kb'.visible /\ kb'.owner = "none" /\ kb.buf \in Int
    BY <1>1, <1>4 DEF Keyboard!Done, Keyboard!Hide, Keyboards
  <2>2. field' \in FieldStates /\ OneBusy(field')
    BY <1>1, <1>2, <1>4, <2>1 DEF Keyboard!Done
  <2> QED BY <1>1, <2>1, <2>2
          DEF TypingInv, KeyboardServesFocus, Keyboard!KeyboardServesFocus, Fields, OneBusy
<1>5. CASE Keyboard!Switch(key)
  <2>1. /\ kb' \in Keyboards /\ kb'.visible /\ kb'.owner = kb.owner /\ kb'.buf = kb.buf
        /\ field' = field
    BY <1>1, <1>5 DEF Keyboard!Switch, Keyboards
  <2> QED BY <1>1, <2>1
          DEF TypingInv, KeyboardServesFocus, Keyboard!KeyboardServesFocus, Fields, OneBusy
<1> QED BY <1>3, <1>4, <1>5 DEF Keyboard!Key

(* The keyboard is shown for one field, which shows what was typed, and no    *)
(* two fields are in use at once (TextEditWidget::unfocus,                    *)
(* SpinBoxWidget::commitEdit).                                               *)
THEOREM KeyboardIsServing == ASSUME Keyboard!TypingConstants PROVE Keyboard!Spec => []KeyboardServesFocus
<1>1. Keyboard!Init => TypingInv
  <2> SUFFICES ASSUME Keyboard!Init PROVE TypingInv
    OBVIOUS
  <2>1. kb \in Keyboards /\ field \in FieldStates /\ ~kb.visible /\ kb.owner = "none"
    BY DEF Keyboard!Init, Keyboards, FieldStates, Fields
  <2>2. OneBusy(field)
    BY DEF Keyboard!Init, OneBusy, Fields
  <2> QED BY <2>1, <2>2 DEF TypingInv, KeyboardServesFocus, Keyboard!KeyboardServesFocus, OneBusy, Fields
<1>2. ASSUME TypingInv, [Keyboard!Next]_(Keyboard!typingVars) PROVE TypingInv'
  <2>1. CASE UNCHANGED Keyboard!typingVars
    BY <1>2, <2>1 DEF Keyboard!typingVars, TypingInv, KeyboardServesFocus, Keyboard!KeyboardServesFocus
  <2> QED BY <1>2, <2>1, PressServes, KeyServes DEF Keyboard!Next, Fields
<1>3. TypingInv => KeyboardServesFocus
  BY DEF TypingInv
<1> QED BY <1>1, <1>2, <1>3, PTL DEF Keyboard!Spec

-----------------------------------------------------------------------------
(* The canvas *)

(* Conversions of colours *)
LEMMA GreyLevel ==
    ASSUME NEW c \in Surface!Colours
    PROVE  /\ Surface!Gray8(c) \in Surface!Level
           /\ \A n \in Surface!Level : Surface!Gray8(Surface!Rgb(n, n, n)) = n
<1>1. c.r \in 0 .. 255 /\ c.g \in 0 .. 255 /\ c.b \in 0 .. 255
  BY DEF Surface!Colours, Surface!Level
<1>2. Surface!Gray8(c) = (77 * c.r + 150 * c.g + 29 * c.b) \div 256
  BY DEF Surface!Gray8
<1>3. (77 * c.r + 150 * c.g + 29 * c.b) \div 256 \in 0 .. 255
  <2> DEFINE n == 77 * c.r + 150 * c.g + 29 * c.b
  <2>1. n \in Int /\ 0 <= n /\ n < 65536
    <3>1. PICK r, g, b \in 0 .. 255 : r = c.r /\ g = c.g /\ b = c.b
      BY <1>1
    <3>2. 77 * r + 150 * g + 29 * b \in Int /\ 0 <= 77 * r + 150 * g + 29 * b /\ 77 * r + 150 * g + 29 * b < 65536
      OBVIOUS
    <3> QED BY ONLY <3>1, <3>2
  <2> HIDE DEF n
  <2>2. n \div 256 \in 0 .. 255
    BY <2>1
  <2> QED BY <2>2 DEF n
<1>4. ASSUME NEW n \in Surface!Level PROVE Surface!Gray8(Surface!Rgb(n, n, n)) = n
  <2>1. n \in 0 .. 255
    BY DEF Surface!Level
  <2>2. Surface!Gray8(Surface!Rgb(n, n, n)) = (77 * n + 150 * n + 29 * n) \div 256
    BY DEF Surface!Gray8, Surface!Rgb
  <2>3. (77 * n + 150 * n + 29 * n) \div 256 = n
    BY <2>1
  <2> QED BY <2>2, <2>3
<1> QED BY <1>2, <1>3, <1>4 DEF Surface!Level

Packed == {n \in Nat : n < 65536}
LEMMA Pack ==
    ASSUME NEW c \in Surface!Colours
    PROVE  Surface!Rgb565(c) \in Packed
<1>1. c.r \in 0 .. 255 /\ c.g \in 0 .. 255 /\ c.b \in 0 .. 255
  BY DEF Surface!Colours, Surface!Level
<1> DEFINE r == c.r \div 8
           g == c.g \div 4
           b == c.b \div 8
<1>2. r \in Int /\ 0 <= r /\ r < 32 /\ g \in Int /\ 0 <= g /\ g < 64 /\ b \in Int /\ 0 <= b /\ b < 32
  BY <1>1
<1>3. Surface!Rgb565(c) = r * 2048 + g * 32 + b
  BY DEF Surface!Rgb565
<1> HIDE DEF r, g, b
<1>4. r * 2048 + g * 32 + b \in Nat /\ r * 2048 + g * 32 + b < 65536
  BY <1>2
<1> QED BY <1>3, <1>4 DEF Packed

LEMMA Parts ==
    ASSUME NEW n \in Int, 0 <= n, n < 65536
    PROVE  \E r, g, b \in Int :
              /\ 0 <= r /\ r < 32 /\ 0 <= g /\ g < 64 /\ 0 <= b /\ b < 32
              /\ n \div 2048 = r /\ (n \div 32) % 64 = g /\ n % 32 = b
              /\ n = r * 2048 + g * 32 + b
<1>1. PICK m \in Int : m = n \div 32 /\ n = 32 * m + (n % 32) /\ 0 <= m /\ m < 2048
  OBVIOUS
<1>2. PICK b \in Int : b = n % 32 /\ 0 <= b /\ b < 32
  OBVIOUS
<1>3. PICK r \in Int : r = m \div 64 /\ m = 64 * r + (m % 64) /\ 0 <= r /\ r < 32
  BY <1>1
<1>4. PICK g \in Int : g = m % 64 /\ 0 <= g /\ g < 64
  BY <1>1
<1>5. n = 2048 * r + 32 * g + b
  BY <1>1, <1>2, <1>3, <1>4
<1>6. 2048 * r <= n /\ n < 2048 * r + 2048
  BY <1>2, <1>4, <1>5
<1>7. n \div 2048 = r
  BY <1>6
<1>8. n = r * 2048 + g * 32 + b
  BY <1>5
<1> QED BY <1>1, <1>2, <1>3, <1>4, <1>7, <1>8

(* The colour of n has n for its value again. *)
LEMMA Unpack ==
    ASSUME NEW n \in Packed
    PROVE  /\ Surface!ArgbFromRGB565(n) \in Surface!Colours
           /\ Surface!Rgb565(Surface!ArgbFromRGB565(n)) = n
<1>1. PICK r, g, b \in Int :
              /\ 0 <= r /\ r < 32 /\ 0 <= g /\ g < 64 /\ 0 <= b /\ b < 32
              /\ n \div 2048 = r /\ (n \div 32) % 64 = g /\ n % 32 = b
              /\ n = r * 2048 + g * 32 + b
  BY Parts DEF Packed
<1> DEFINE u == r * 8 + r \div 4
           v == g * 4 + g \div 16
           w == b * 8 + b \div 4
<1>2. Surface!ArgbFromRGB565(n) = Surface!Rgb(u, v, w)
  BY <1>1 DEF Surface!ArgbFromRGB565
<1>3. u \in 0 .. 255 /\ u \div 8 = r
  BY <1>1
<1>4. v \in 0 .. 255 /\ v \div 4 = g
  BY <1>1
<1>5. w \in 0 .. 255 /\ w \div 8 = b
  BY <1>1
<1> HIDE DEF u, v, w
<1>6. Surface!Rgb565(Surface!Rgb(u, v, w)) = (u \div 8) * 2048 + (v \div 4) * 32 + w \div 8
  BY DEF Surface!Rgb, Surface!Rgb565
<1>7. Surface!Rgb(u, v, w) \in Surface!Colours
  BY <1>3, <1>4, <1>5 DEF Surface!Rgb, Surface!Colours, Surface!Level
<1> QED BY ONLY <1>1, <1>2, <1>3, <1>4, <1>5, <1>6, <1>7

(* Colours are colours, and keeping one twice is keeping it once. *)
LEMMA KeptColour ==
    ASSUME NEW c \in Surface!Colours, format \in Surface!Formats
    PROVE  Surface!Kept(c) \in Surface!Colours /\ Surface!Kept(Surface!Kept(c)) = Surface!Kept(c)
<1>0. Surface!White \in Surface!Colours /\ Surface!Black \in Surface!Colours
  BY DEF Surface!White, Surface!Black, Surface!Rgb, Surface!Colours, Surface!Level
<1>1. CASE format = "BW"
  <2>1. Surface!Gray8(Surface!White) = 255 /\ Surface!Gray8(Surface!Black) = 0
    BY GreyLevel, <1>0 DEF Surface!White, Surface!Black, Surface!Level
  <2> QED BY <1>0, <1>1, <2>1 DEF Surface!Kept
<1>2. CASE format = "GRAY8"
  <2> DEFINE n == Surface!Gray8(c)
  <2>1. n \in Surface!Level /\ Surface!Gray8(Surface!Rgb(n, n, n)) = n
    BY GreyLevel
  <2>2. Surface!Rgb(n, n, n) \in Surface!Colours
    BY <2>1 DEF Surface!Rgb, Surface!Colours, Surface!Level
  <2>3. \A d : Surface!Kept(d) = Surface!Rgb(Surface!Gray8(d), Surface!Gray8(d), Surface!Gray8(d))
    BY <1>2 DEF Surface!Kept
  <2> QED BY <2>1, <2>2, <2>3
<1>3. CASE format = "RGB565"
  <2>1. \A d : Surface!Kept(d) = Surface!ArgbFromRGB565(Surface!Rgb565(d))
    BY <1>3 DEF Surface!Kept
  <2> QED BY <2>1, Pack, Unpack
<1>4. CASE format = "RGB888"
  <2>1. \A d : Surface!Kept(d) = Surface!Rgb(d.r, d.g, d.b)
    BY <1>4 DEF Surface!Kept
  <2> QED BY <2>1 DEF Surface!Rgb, Surface!Colours, Surface!Level
<1>5. CASE format = "ARGB8888"
  BY <1>5 DEF Surface!Kept
<1> QED BY <1>1, <1>2, <1>3, <1>4, <1>5 DEF Surface!Formats

(* A share of a level and the rest of another are a level. *)
LEMMA Mixed ==
    ASSUME NEW a \in 0 .. 255, NEW m \in 0 .. 255, NEW n \in 0 .. 255
    PROVE  /\ (m * a + n * (255 - a)) \div 255 \in 0 .. 255
           /\ (m * a + m * (255 - a)) \div 255 = m
<1> DEFINE s == m * a
           t == n * (255 - a)
<1>1. s \in Int /\ 0 <= s /\ s <= 255 * a
  OBVIOUS
<1>2. t \in Int /\ 0 <= t /\ t <= 255 * (255 - a)
  OBVIOUS
<1>3. m * a + m * (255 - a) = 255 * m
  OBVIOUS
<1>4. (255 * m) \div 255 = m
  OBVIOUS
<1> HIDE DEF s, t
<1>5. 255 * a + 255 * (255 - a) = 65025
  OBVIOUS
<1> DEFINE k == s + t
<1>6. k \in Int /\ 0 <= k /\ k <= 65025
  BY <1>1, <1>2, <1>5
<1> HIDE DEF k
<1>7. k \div 255 \in 0 .. 255
  BY <1>6
<1> QED BY ONLY <1>3, <1>4, <1>7 DEF k, s, t

LEMMA BlendColour ==
    ASSUME NEW c \in Surface!Colours, NEW d \in Surface!Colours
    PROVE  /\ Surface!Blend(c, d) \in Surface!Colours
           /\ c.a = 0 => Surface!Blend(c, d) = d
           /\ Surface!Blend(c, Surface!Rgb(c.r, c.g, c.b)) = Surface!Rgb(c.r, c.g, c.b)
<1> DEFINE Mix(m, n) == (m * c.a + n * (255 - c.a)) \div 255
<1>1. /\ c.a \in 0 .. 255 /\ c.r \in 0 .. 255 /\ c.g \in 0 .. 255 /\ c.b \in 0 .. 255
      /\ d.r \in 0 .. 255 /\ d.g \in 0 .. 255 /\ d.b \in 0 .. 255
      /\ c = [a |-> c.a, r |-> c.r, g |-> c.g, b |-> c.b]
  BY DEF Surface!Colours, Surface!Level
<1>2. \A e : Surface!Blend(c, e) =
         CASE c.a = 255 -> c
           [] c.a = 0 -> e
           [] OTHER -> Surface!Rgb(Mix(c.r, e.r), Mix(c.g, e.g), Mix(c.b, e.b))
  BY DEF Surface!Blend
<1>3. \A m, n \in 0 .. 255 : Mix(m, n) \in 0 .. 255 /\ Mix(m, m) = m
  BY <1>1, Mixed
<1> HIDE DEF Mix
<1>4. \A u, v, w \in 0 .. 255 : Surface!Rgb(u, v, w) \in Surface!Colours
  BY DEF Surface!Rgb, Surface!Colours, Surface!Level
<1>5. Surface!Blend(c, d) \in Surface!Colours
  <2>1. CASE c.a = 255
    BY <1>2, <2>1
  <2>2. CASE c.a = 0
    BY <1>2, <2>2
  <2>3. CASE c.a # 0 /\ c.a # 255
    <3>1. Surface!Blend(c, d) = Surface!Rgb(Mix(c.r, d.r), Mix(c.g, d.g), Mix(c.b, d.b))
      BY <1>2, <2>3
    <3>2. Mix(c.r, d.r) \in 0 .. 255 /\ Mix(c.g, d.g) \in 0 .. 255 /\ Mix(c.b, d.b) \in 0 .. 255
      BY ONLY <1>1, <1>3
    <3> QED BY ONLY <1>4, <3>1, <3>2
  <2> QED BY <2>1, <2>2, <2>3
<1>6. Surface!Blend(c, Surface!Rgb(c.r, c.g, c.b)) = Surface!Rgb(c.r, c.g, c.b)
  <2> DEFINE e == Surface!Rgb(c.r, c.g, c.b)
  <2>1. e.r = c.r /\ e.g = c.g /\ e.b = c.b
    BY DEF Surface!Rgb
  <2>2. CASE c.a = 255
    BY <1>1, <1>2, <2>2 DEF Surface!Rgb
  <2>3. CASE c.a = 0
    BY <1>2, <2>3
  <2>4. CASE c.a # 0 /\ c.a # 255
    <3>1. Surface!Blend(c, e) = Surface!Rgb(Mix(c.r, e.r), Mix(c.g, e.g), Mix(c.b, e.b))
      BY <1>2, <2>4
    <3>2. Mix(c.r, c.r) = c.r /\ Mix(c.g, c.g) = c.g /\ Mix(c.b, c.b) = c.b
      BY ONLY <1>1, <1>3
    <3> HIDE DEF e
    <3>3. Surface!Blend(c, e) = Surface!Rgb(c.r, c.g, c.b)
      BY ONLY <2>1, <3>1, <3>2
    <3> QED BY <3>3 DEF e
  <2> QED BY <2>2, <2>3, <2>4
<1> QED BY <1>2, <1>5, <1>6

LEMMA Settled ==
    ASSUME Surface!ConstantsAssumption, format \in Surface!Formats
    PROVE  Surface!ColoursSettle
<1>1. Surface!White \in Surface!Colours /\ Surface!Black \in Surface!Colours
  BY DEF Surface!White, Surface!Black, Surface!Rgb, Surface!Colours, Surface!Level
<1>2. Inks \subseteq Surface!Colours
  BY DEF Surface!ConstantsAssumption
<1>3. Surface!Kept(Surface!White) = Surface!White /\ Surface!Kept(Surface!Black) = Surface!Black
  <2>1. Surface!Gray8(Surface!White) = 255 /\ Surface!Gray8(Surface!Black) = 0
    BY GreyLevel, <1>1 DEF Surface!White, Surface!Black, Surface!Level
  <2>2. /\ Surface!ArgbFromRGB565(Surface!Rgb565(Surface!White)) = Surface!White
        /\ Surface!ArgbFromRGB565(Surface!Rgb565(Surface!Black)) = Surface!Black
    BY DEF Surface!White, Surface!Black, Surface!Rgb, Surface!Rgb565, Surface!ArgbFromRGB565
  <2>3. /\ Surface!Rgb(255, 255, 255) = Surface!White /\ Surface!Rgb(0, 0, 0) = Surface!Black
        /\ Surface!Rgb(Surface!White.r, Surface!White.g, Surface!White.b) = Surface!White
        /\ Surface!Rgb(Surface!Black.r, Surface!Black.g, Surface!Black.b) = Surface!Black
    BY DEF Surface!White, Surface!Black, Surface!Rgb
  <2> QED BY <2>1, <2>2, <2>3 DEF Surface!Kept, Surface!Formats
<1> QED BY <1>1, <1>2, <1>3, KeptColour, BlendColour DEF Surface!ColoursSettle

(* Pixels and cells.  Each pixel has a place of its own. *)
Offsets == 0 .. Surface!Size - 1
LEMMA PlaceOf ==
    ASSUME Surface!ConstantsAssumption
    PROVE  /\ Surface!Size \in Nat
           /\ \A p \in Surface!AllPixels : Surface!Offset(p) \in Offsets
           /\ \A p, q \in Surface!AllPixels : Surface!Offset(p) = Surface!Offset(q) => p = q
<1> DEFINE n == CanvasSide
<1>1. n \in Int /\ n > 0
  BY DEF Surface!ConstantsAssumption
<1>2. Surface!Size = n * n
  BY DEF Surface!Size
<1>3. \A p \in Surface!AllPixels : /\ p = <<p[1], p[2]>> /\ p[1] \in Int /\ p[2] \in Int
                                   /\ 0 <= p[1] /\ p[1] < n /\ 0 <= p[2] /\ p[2] < n
                                   /\ Surface!Offset(p) = p[2] * n + p[1]
  BY <1>1 DEF Surface!AllPixels, Surface!Offset
<1> HIDE DEF n
<1>4. ASSUME NEW x \in Int, NEW y \in Int, 0 <= x, x < n, 0 <= y, y < n
      PROVE  y * n + x \in Int /\ 0 <= y * n + x /\ y * n + x < n * n
  <2>1. 0 <= y * n
    BY <1>1, <1>4
  <2>2. y * n <= (n - 1) * n
    BY <1>1, <1>4
  <2>3. (n - 1) * n = n * n - n
    BY <1>1
  <2>4. n * n \in Int /\ y * n \in Int
    BY <1>1, <1>4
  <2> QED BY <1>1, <1>4, <2>1, <2>2, <2>3, <2>4
<1>5. ASSUME NEW x \in Int, NEW y \in Int, 0 <= x, x < n,
             NEW u \in Int, NEW v \in Int, 0 <= u, u < n, y < v
      PROVE  y * n + x < v * n + u
  <2>1. (y + 1) * n <= v * n
    BY <1>1, <1>5
  <2>2. (y + 1) * n = y * n + n
    BY <1>1, <1>5
  <2>3. v * n \in Int /\ y * n \in Int
    BY <1>1, <1>5
  <2> QED BY <1>1, <1>5, <2>1, <2>2, <2>3
<1>6. n * n \in Int /\ n * n >= 0
  BY <1>1
<1>7. ASSUME NEW p \in Surface!AllPixels, NEW q \in Surface!AllPixels, Surface!Offset(p) = Surface!Offset(q)
      PROVE  p = q
  <2>1. p[2] * n + p[1] = q[2] * n + q[1]
    BY <1>3, <1>7
  <2>2. p[2] * n \in Int /\ q[2] * n \in Int
    BY <1>1, <1>3
  <2>3. ~(p[2] < q[2]) /\ ~(q[2] < p[2])
    BY <1>3, <1>5, <2>1, <2>2
  <2>4. p[2] = q[2]
    BY <1>3, <2>3
  <2>5. p[1] = q[1]
    BY <1>3, <2>1, <2>2, <2>4
  <2> QED BY <1>3, <2>4, <2>5
<1> QED BY <1>2, <1>3, <1>4, <1>6, <1>7 DEF Offsets

(* A place in a byte. *)
LEMMA BitOf ==
    ASSUME NEW n \in Nat
    PROVE  /\ Surface!Bit(n) \in 0 .. 7 /\ n \div 8 \in Nat
           /\ 8 * (n \div 8) + Surface!Bit(Surface!Bit(n)) = n
<1>1. PICK k \in Int, i \in Int : k = n \div 8 /\ i = n % 8 /\ n = 8 * k + i /\ 0 <= i /\ i < 8 /\ 0 <= k
  OBVIOUS
<1>2. Surface!Bit(n) = 7 - i
  BY <1>1 DEF Surface!Bit
<1>3. (7 - i) % 8 = 7 - i
  BY <1>1
<1>4. Surface!Bit(7 - i) = i
  BY <1>1, <1>3 DEF Surface!Bit
<1> QED BY <1>1, <1>2, <1>4

(* What a cell may hold. *)
CellValues ==
    CASE format = "BW"       -> [0 .. 7 -> BOOLEAN]
      [] format = "GRAY8"    -> Surface!Level
      [] format = "RGB565"   -> Packed
      [] format = "RGB888"   -> Surface!Level \X Surface!Level \X Surface!Level
      [] format = "ARGB8888" -> Surface!Colours
Held == format \in Surface!Formats /\ buffer \in [Surface!Cells -> CellValues]

LEMMA CellOf ==
    ASSUME Surface!ConstantsAssumption, NEW n \in Offsets
    PROVE  n \in Nat /\ IF format = "BW" THEN n \div 8 \in Surface!Cells ELSE n \in Surface!Cells
<1>1. Surface!Size \in Nat
  BY PlaceOf
<1> DEFINE k == Surface!Size
<1>2. k \in Nat /\ n \in Int /\ 0 <= n /\ n < k
  BY <1>1 DEF Offsets
<1>3. Surface!Cells = IF format = "BW" THEN 0 .. (k + 7) \div 8 - 1 ELSE 0 .. k - 1
  BY DEF Surface!Cells
<1> HIDE DEF k
<1>4. n \div 8 \in Int /\ 0 <= n \div 8 /\ n \div 8 < (k + 7) \div 8 /\ (k + 7) \div 8 \in Int
  BY <1>2
<1> QED BY <1>2, <1>3, <1>4

LEMMA Encoded ==
    ASSUME NEW c \in Surface!Colours, format \in Surface!Formats, format # "BW"
    PROVE  Surface!Coded(c) \in CellValues
<1>1. c.r \in Surface!Level /\ c.g \in Surface!Level /\ c.b \in Surface!Level
  BY DEF Surface!Colours
<1> QED BY <1>1, GreyLevel, Pack DEF Surface!Coded, CellValues, Surface!Formats

LEMMA ReadsColour ==
    ASSUME Surface!ConstantsAssumption, Held, NEW n \in Offsets
    PROVE  Surface!At(n) \in Surface!Colours
<1>1. \A u, v, w \in Surface!Level : Surface!Rgb(u, v, w) \in Surface!Colours
  BY DEF Surface!Rgb, Surface!Colours, Surface!Level
<1>2. 255 \in Surface!Level /\ 0 \in Surface!Level
  BY DEF Surface!Level
<1>3. Surface!White \in Surface!Colours /\ Surface!Black \in Surface!Colours
  BY <1>1, <1>2 DEF Surface!White, Surface!Black
<1>4. CASE format = "BW"
  BY <1>3, <1>4 DEF Surface!At
<1>5. CASE format = "GRAY8"
  <2>1. buffer[n] \in Surface!Level
    BY <1>5, CellOf DEF Held, CellValues
  <2> QED BY <1>1, <1>5, <2>1 DEF Surface!At
<1>6. CASE format = "RGB565"
  <2>1. buffer[n] \in Packed
    BY <1>6, CellOf DEF Held, CellValues
  <2> QED BY <1>6, <2>1, Unpack DEF Surface!At
<1>7. CASE format = "RGB888"
  <2>1. buffer[n] \in Surface!Level \X Surface!Level \X Surface!Level
    BY <1>7, CellOf DEF Held, CellValues
  <2> QED BY <1>1, <1>7, <2>1 DEF Surface!At
<1>8. CASE format = "ARGB8888"
  BY <1>8, CellOf DEF Held, CellValues, Surface!At
<1> QED BY <1>4, <1>5, <1>6, <1>7, <1>8 DEF Held, Surface!Formats

(* The colour read from a cell is the one kept of what was coded there. *)
LEMMA CodedIsKept ==
    ASSUME NEW c \in Surface!Colours, NEW n, format \in Surface!Formats, format # "BW", buffer'[n] = Surface!Coded(c), format' = format
    PROVE  Surface!At(n)' = Surface!Kept(c)
BY DEF Surface!At, Surface!Kept, Surface!Coded, Surface!Formats

LEMMA Stores ==
    ASSUME Surface!ConstantsAssumption, Held, format' = format, NEW ink, DOMAIN ink \subseteq Offsets,
           \A n \in DOMAIN ink : ink[n] \in Surface!Colours,
           buffer' = Surface!Store(ink)
    PROVE  /\ Held'
           /\ \A n \in Offsets : Surface!At(n)' = IF n \in DOMAIN ink THEN Surface!Kept(ink[n]) ELSE Surface!At(n)
<1>0. Surface!Cells' = Surface!Cells /\ CellValues' = CellValues
  BY DEF Surface!Cells, CellValues
<1>1. CASE format = "BW"
  <2>1. buffer' = [k \in Surface!Cells |-> [i \in 0 .. 7 |->
             IF 8 * k + Surface!Bit(i) \in DOMAIN ink THEN Surface!Gray8(ink[8 * k + Surface!Bit(i)]) >= 128 ELSE buffer[k][i]]]
    BY <1>1 DEF Surface!Store
  <2>2. CellValues = [0 .. 7 -> BOOLEAN] /\ buffer \in [Surface!Cells -> [0 .. 7 -> BOOLEAN]]
    BY <1>1 DEF Held, CellValues
  <2>3. ASSUME NEW k \in Surface!Cells, NEW i \in 0 .. 7
        PROVE  (IF 8 * k + Surface!Bit(i) \in DOMAIN ink THEN Surface!Gray8(ink[8 * k + Surface!Bit(i)]) >= 128 ELSE buffer[k][i]) \in BOOLEAN
    <3>1. buffer[k][i] \in BOOLEAN
      BY <2>2
    <3>2. \A c : (Surface!Gray8(c) >= 128) \in BOOLEAN
      OBVIOUS
    <3> QED BY <3>1, <3>2, Zenon
  <2>4. buffer' \in [Surface!Cells -> [0 .. 7 -> BOOLEAN]]
    BY <2>1, <2>3
  <2>5. ASSUME NEW n \in Offsets
        PROVE  Surface!At(n)' = IF n \in DOMAIN ink THEN Surface!Kept(ink[n]) ELSE Surface!At(n)
    <3> DEFINE k == n \div 8
               i == Surface!Bit(n)
    <3>1. k \in Surface!Cells /\ i \in 0 .. 7 /\ 8 * k + Surface!Bit(i) = n
      BY <1>1, CellOf, BitOf
    <3>2. Surface!At(n)' = IF buffer'[k][i] THEN Surface!White ELSE Surface!Black
      BY <1>1 DEF Surface!At
    <3>3. Surface!At(n) = IF buffer[k][i] THEN Surface!White ELSE Surface!Black
      BY <1>1 DEF Surface!At
    <3> HIDE DEF k, i
    <3>4. buffer'[k][i] = IF n \in DOMAIN ink THEN Surface!Gray8(ink[n]) >= 128 ELSE buffer[k][i]
      BY <2>1, <3>1
    <3>5. CASE n \in DOMAIN ink
      BY <1>1, <3>2, <3>4, <3>5 DEF Surface!Kept
    <3>6. CASE n \notin DOMAIN ink
      BY <3>2, <3>3, <3>4, <3>6
    <3> QED BY <3>5, <3>6
  <2> QED BY <1>0, <2>2, <2>4, <2>5 DEF Held
<1>2. CASE format # "BW"
  <2>1. buffer' = [n \in Surface!Cells |-> IF n \in DOMAIN ink THEN Surface!Coded(ink[n]) ELSE buffer[n]]
    BY <1>2 DEF Surface!Store
  <2>2. Surface!Cells = Offsets
    BY <1>2 DEF Surface!Cells, Offsets
  <2>3. ASSUME NEW n \in Surface!Cells
        PROVE  (IF n \in DOMAIN ink THEN Surface!Coded(ink[n]) ELSE buffer[n]) \in CellValues
    BY <1>2, Encoded DEF Held
  <2>4. buffer' \in [Surface!Cells -> CellValues]
    BY <2>1, <2>3
  <2>5. ASSUME NEW n \in Offsets
        PROVE  Surface!At(n)' = IF n \in DOMAIN ink THEN Surface!Kept(ink[n]) ELSE Surface!At(n)
    <3>1. CASE n \in DOMAIN ink
      <4>1. buffer'[n] = Surface!Coded(ink[n])
        BY <2>1, <2>2, <3>1
      <4> QED BY <1>2, <3>1, <4>1, CodedIsKept DEF Held
    <3>2. CASE n \notin DOMAIN ink
      <4>1. buffer'[n] = buffer[n]
        BY <2>1, <2>2, <3>2
      <4> QED BY <1>2, <3>2, <4>1 DEF Surface!At, Held, Surface!Formats
    <3> QED BY <3>1, <3>2
  <2> QED BY <1>0, <2>4, <2>5 DEF Held
<1> QED BY <1>1, <1>2

(* Every pixel reads as it should, where colours were blended. *)
Shown == \A p \in Surface!AllPixels \ unblended : Surface!At(Surface!Offset(p)) = reference[p]
CanvasInv == Held /\ rotation \in 0 .. 3 /\ (attached => Shown)

(* Colours given to pixels are there, and nowhere else. *)
LEMMA Given ==
    ASSUME Surface!ConstantsAssumption, Held, Shown, format' = format,
           NEW dots \in SUBSET Surface!AllPixels, NEW ink,
           DOMAIN ink = {Surface!Offset(p) : p \in dots},
           \A p \in dots : ink[Surface!Offset(p)] \in Surface!Colours,
           buffer' = Surface!Store(ink),
           \A p \in Surface!AllPixels \ unblended' :
               /\ p \in dots => reference'[p] = Surface!Kept(ink[Surface!Offset(p)])
               /\ p \notin dots => reference'[p] = reference[p] /\ p \notin unblended
    PROVE  Held' /\ Shown'
<1>1. DOMAIN ink \subseteq Offsets /\ \A n \in DOMAIN ink : ink[n] \in Surface!Colours
  BY PlaceOf
<1>2. /\ Held'
      /\ \A n \in Offsets : Surface!At(n)' = IF n \in DOMAIN ink THEN Surface!Kept(ink[n]) ELSE Surface!At(n)
  BY <1>1, Stores
<1>3. ASSUME NEW p \in Surface!AllPixels \ unblended'
      PROVE  Surface!At(Surface!Offset(p))' = reference'[p]
  <2>1. Surface!Offset(p) \in Offsets
    BY PlaceOf
  <2>2. Surface!Offset(p)' = Surface!Offset(p)
    BY DEF Surface!Offset
  <2>3. Surface!Offset(p) \in DOMAIN ink <=> p \in dots
    BY PlaceOf
  <2>4. CASE p \in dots
    BY <1>2, <2>1, <2>2, <2>3, <2>4
  <2>5. CASE p \notin dots
    <3>1. reference'[p] = reference[p] /\ Surface!At(Surface!Offset(p)) = reference[p]
      BY <2>5 DEF Shown
    <3> QED BY <1>2, <2>1, <2>2, <2>3, <2>5, <3>1
  <2> QED BY <2>4, <2>5
<1>4. Surface!AllPixels' = Surface!AllPixels
  BY DEF Surface!AllPixels
<1> QED BY <1>2, <1>3, <1>4 DEF Shown

(* Nothing changes. *)
LEMMA Untouched ==
    ASSUME Held, Shown, UNCHANGED <<format, buffer, reference, unblended>>
    PROVE  Held' /\ Shown'
BY DEF Held, Shown, CellValues, Surface!Cells, Surface!Size, Surface!At, Surface!AllPixels, Surface!Offset

LEMMA LaidOver ==
    ASSUME Surface!ConstantsAssumption, Held, Shown, format' = format,
           NEW dots \in SUBSET Surface!AllPixels, NEW c \in Surface!Colours,
           buffer' = Surface!SetPixelRaw(dots, c), reference' = Surface!Over(dots, c),
           unblended' = Surface!Mended(dots, c)
    PROVE  Held' /\ Shown'
<1>1. CASE c.a = 0
  <2>1. buffer' = buffer /\ unblended' = unblended
    BY <1>1 DEF Surface!SetPixelRaw, Surface!Mended
  <2>2. \A p \in Surface!AllPixels : reference'[p] = reference[p]
    BY <1>1 DEF Surface!Over
  <2>3. Held' /\ \A p \in Surface!AllPixels : Surface!At(Surface!Offset(p))' = Surface!At(Surface!Offset(p))
    BY <2>1 DEF Held, CellValues, Surface!Cells, Surface!Size, Surface!At, Surface!Offset
  <2>4. Surface!AllPixels' = Surface!AllPixels
    BY DEF Surface!AllPixels
  <2> QED BY <2>1, <2>2, <2>3, <2>4 DEF Shown
<1>2. CASE c.a # 0
  <2> DEFINE ink == [n \in {Surface!Offset(p) : p \in dots} |-> Surface!Blend(c, Surface!At(n))]
  <2>1. buffer' = Surface!Store(ink) /\ DOMAIN ink = {Surface!Offset(p) : p \in dots}
    BY <1>2 DEF Surface!SetPixelRaw
  <2>2. \A p \in dots : ink[Surface!Offset(p)] = Surface!Blend(c, Surface!At(Surface!Offset(p)))
    OBVIOUS
  <2>3. \A p \in dots : ink[Surface!Offset(p)] \in Surface!Colours
    BY PlaceOf, ReadsColour, BlendColour
  <2>4. ASSUME NEW p \in Surface!AllPixels \ unblended'
        PROVE  /\ p \in dots => reference'[p] = Surface!Kept(ink[Surface!Offset(p)])
               /\ p \notin dots => reference'[p] = reference[p] /\ p \notin unblended
    <3>1. reference'[p] = IF p \in dots THEN Surface!Kept(Surface!Blend(c, reference[p])) ELSE reference[p]
      BY <1>2 DEF Surface!Over
    <3>2. p \notin unblended \/ (c.a = 255 /\ p \in dots)
      BY DEF Surface!Mended
    <3>3. CASE c.a = 255
      <4>1. \A d : Surface!Blend(c, d) = c
        BY <3>3 DEF Surface!Blend
      <4> QED BY <2>2, <3>1, <3>2, <4>1
    <3>4. CASE p \notin unblended
      BY <2>2, <3>1, <3>4 DEF Shown
    <3> QED BY <3>2, <3>3, <3>4
  <2> HIDE DEF ink
  <2> QED BY <2>1, <2>3, <2>4, Given
<1> QED BY <1>1, <1>2

(* A translucent colour that is not blended leaves nothing to be said of the *)
(* pixels it was given to.                                                   *)
LEMMA PutInstead ==
    ASSUME Surface!ConstantsAssumption, Held, Shown, format' = format,
           NEW dots \in SUBSET Surface!AllPixels, NEW c \in Surface!Colours,
           buffer' = (IF c.a = 0 THEN buffer ELSE Surface!Store([n \in {Surface!Offset(p) : p \in dots} |-> c])),
           reference' = Surface!Over(dots, c), unblended' = Surface!Bared(dots, c)
    PROVE  Held' /\ Shown'
<1>1. CASE c.a = 0
  <2>1. unblended' = unblended
    BY <1>1 DEF Surface!Bared, Surface!Mended
  <2>2. \A p \in Surface!AllPixels : reference'[p] = reference[p]
    BY <1>1 DEF Surface!Over
  <2>3. Held' /\ \A p \in Surface!AllPixels : Surface!At(Surface!Offset(p))' = Surface!At(Surface!Offset(p))
    BY <1>1 DEF Held, CellValues, Surface!Cells, Surface!Size, Surface!At, Surface!Offset
  <2>4. Surface!AllPixels' = Surface!AllPixels
    BY DEF Surface!AllPixels
  <2> QED BY <2>1, <2>2, <2>3, <2>4 DEF Shown
<1>2. CASE c.a # 0
  <2> DEFINE ink == [n \in {Surface!Offset(p) : p \in dots} |-> c]
  <2>1. buffer' = Surface!Store(ink) /\ DOMAIN ink = {Surface!Offset(p) : p \in dots}
    BY <1>2
  <2>2. \A p \in dots : ink[Surface!Offset(p)] = c
    OBVIOUS
  <2>3. \A p \in dots : ink[Surface!Offset(p)] \in Surface!Colours
    BY <2>2
  <2>4. ASSUME NEW p \in Surface!AllPixels \ unblended'
        PROVE  /\ p \in dots => reference'[p] = Surface!Kept(ink[Surface!Offset(p)])
               /\ p \notin dots => reference'[p] = reference[p] /\ p \notin unblended
    <3>1. reference'[p] = IF p \in dots THEN Surface!Kept(Surface!Blend(c, reference[p])) ELSE reference[p]
      BY <1>2 DEF Surface!Over
    <3>2. /\ p \in dots => c.a = 255
          /\ p \notin dots => p \notin unblended
      BY <1>2 DEF Surface!Bared, Surface!Mended
    <3>3. c.a = 255 => \A d : Surface!Blend(c, d) = c
      BY DEF Surface!Blend
    <3> QED BY <2>2, <3>1, <3>2, <3>3
  <2> HIDE DEF ink
  <2> QED BY <2>1, <2>3, <2>4, Given
<1> QED BY <1>1, <1>2

LEMMA Filled ==
    ASSUME Surface!ConstantsAssumption, Held, Shown, format' = format, NEW c \in Surface!Colours, c.a # 0,
           buffer' = [k \in Surface!Cells |->
                         IF format = "BW" THEN [i \in 0 .. 7 |-> Surface!Gray8(c) >= 128] ELSE Surface!Coded(c)],
           reference' = Surface!Over(Surface!AllPixels, c), unblended' = Surface!Bared(Surface!AllPixels, c)
    PROVE  Held' /\ Shown'
<1>1. \A p \in Surface!AllPixels \ unblended' : reference'[p] = Surface!Kept(c)
  <2> SUFFICES ASSUME NEW p \in Surface!AllPixels \ unblended'
               PROVE  reference'[p] = Surface!Kept(c)
    OBVIOUS
  <2>1. c.a = 255
    BY DEF Surface!Bared
  <2>2. reference'[p] = Surface!Kept(Surface!Blend(c, reference[p]))
    BY DEF Surface!Over
  <2> QED BY <2>1, <2>2 DEF Surface!Blend
<1>2. Surface!Cells' = Surface!Cells /\ CellValues' = CellValues /\ Surface!AllPixels' = Surface!AllPixels
  BY DEF Surface!Cells, CellValues, Surface!AllPixels
<1>3. CASE format = "BW"
  <2>1. buffer' = [k \in Surface!Cells |-> [i \in 0 .. 7 |-> Surface!Gray8(c) >= 128]] /\ CellValues = [0 .. 7 -> BOOLEAN]
    BY <1>3 DEF CellValues
  <2>2. (Surface!Gray8(c) >= 128) \in BOOLEAN
    OBVIOUS
  <2>3. buffer' \in [Surface!Cells -> CellValues]
    BY <2>1, <2>2
  <2>4. ASSUME NEW n \in Offsets PROVE Surface!At(n)' = Surface!Kept(c)
    <3>1. n \div 8 \in Surface!Cells /\ Surface!Bit(n) \in 0 .. 7
      BY <1>3, CellOf, BitOf
    <3>2. Surface!At(n)' = IF buffer'[n \div 8][Surface!Bit(n)] THEN Surface!White ELSE Surface!Black
      BY <1>3 DEF Surface!At
    <3>3. buffer'[n \div 8][Surface!Bit(n)] = (Surface!Gray8(c) >= 128)
      BY <2>1, <3>1
    <3> QED BY <1>3, <3>2, <3>3 DEF Surface!Kept
  <2> QED BY <1>1, <1>2, <2>3, <2>4, PlaceOf DEF Held, Shown, Surface!Offset
<1>4. CASE format # "BW"
  <2>1. buffer' = [k \in Surface!Cells |-> Surface!Coded(c)]
    BY <1>4
  <2>2. buffer' \in [Surface!Cells -> CellValues]
    BY <1>4, <2>1, Encoded DEF Held
  <2>3. ASSUME NEW n \in Offsets PROVE Surface!At(n)' = Surface!Kept(c)
    <3>1. buffer'[n] = Surface!Coded(c)
      BY <1>4, <2>1, CellOf
    <3> QED BY <1>4, <3>1, CodedIsKept DEF Held
  <2> QED BY <1>1, <1>2, <2>2, <2>3, PlaceOf DEF Held, Shown, Surface!Offset
<1> QED BY <1>3, <1>4

(* Memory that is clear. *)
LEMMA Cleared ==
    ASSUME Surface!ConstantsAssumption
    PROVE  format \in Surface!Formats /\ buffer = [k \in Surface!Cells |-> Surface!Zero] /\ reference = Surface!Empty
              /\ unblended = {}
           => Held /\ Shown
<1> SUFFICES ASSUME format \in Surface!Formats, buffer = [k \in Surface!Cells |-> Surface!Zero], reference = Surface!Empty,
                      unblended = {}
             PROVE  Held /\ Shown
  OBVIOUS
<1>1. \A p \in Surface!AllPixels : reference[p] = IF format = "ARGB8888" THEN Surface!Clear ELSE Surface!Black
  BY DEF Surface!Empty
<1>2. 0 \in Surface!Level /\ 0 \in Packed
  BY DEF Surface!Level, Packed
<1>3. Surface!Clear \in Surface!Colours
  BY <1>2 DEF Surface!Clear, Surface!Colours
<1>4. Surface!Zero \in CellValues
  BY <1>2, <1>3 DEF Surface!Zero, CellValues, Surface!Formats
<1>5. ASSUME NEW n \in Offsets PROVE Surface!At(n) = IF format = "ARGB8888" THEN Surface!Clear ELSE Surface!Black
  <2>1. CASE format = "BW"
    <3>1. n \div 8 \in Surface!Cells /\ Surface!Bit(n) \in 0 .. 7
      BY <2>1, CellOf, BitOf
    <3>2. Surface!Zero = [i \in 0 .. 7 |-> FALSE]
      BY <2>1 DEF Surface!Zero
    <3>3. ~ buffer[n \div 8][Surface!Bit(n)]
      BY <3>1, <3>2
    <3> QED BY <2>1, <3>3 DEF Surface!At
  <2>2. CASE format # "BW"
    <3>1. buffer[n] = Surface!Zero
      BY <2>2, CellOf
    <3>2. Surface!ArgbFromRGB565(0) = Surface!Black
      BY DEF Surface!ArgbFromRGB565, Surface!Rgb, Surface!Black
    <3> QED BY <2>2, <3>1, <3>2 DEF Surface!At, Surface!Zero, Surface!Formats, Surface!Black
  <2> QED BY <2>1, <2>2
<1> QED BY <1>1, <1>4, <1>5, PlaceOf DEF Held, Shown

LEMMA TurnedFits ==
    ASSUME Surface!ConstantsAssumption, rotation \in 0 .. 3, NEW p \in Surface!AllPixels
    PROVE  Surface!Turned(p) \in Surface!AllPixels
<1> DEFINE n == CanvasSide
<1>1. n \in Int /\ n > 0
  BY DEF Surface!ConstantsAssumption
<1>2. Surface!AllPixels = (0 .. n - 1) \X (0 .. n - 1)
  BY DEF Surface!AllPixels
<1>3. Surface!Turned(p) = CASE rotation = 0 -> p
                            [] rotation = 1 -> <<n - 1 - p[2], p[1]>>
                            [] rotation = 2 -> <<n - 1 - p[1], n - 1 - p[2]>>
                            [] rotation = 3 -> <<p[2], n - 1 - p[1]>>
  BY DEF Surface!Turned
<1> HIDE DEF n
<1>4. rotation = 0 \/ rotation = 1 \/ rotation = 2 \/ rotation = 3
  OBVIOUS
<1>5. p = <<p[1], p[2]>> /\ p[1] \in 0 .. n - 1 /\ p[2] \in 0 .. n - 1
  BY <1>2
<1>6. n - 1 - p[1] \in 0 .. n - 1 /\ n - 1 - p[2] \in 0 .. n - 1
  BY <1>1, <1>5
<1> QED BY <1>2, <1>3, <1>4, <1>5, <1>6

(* A swapped pair of bytes is a pair of bytes. *)
LEMMA SwappedFits ==
    ASSUME NEW n \in Packed
    PROVE  Surface!Swapped(n) \in Packed
<1>1. PICK h \in Int, l \in Int : h = n \div 256 /\ l = n % 256 /\ 0 <= h /\ h < 256 /\ 0 <= l /\ l < 256
  BY DEF Packed
<1>2. l * 256 + h \in Nat /\ l * 256 + h < 65536
  BY <1>1
<1>3. Surface!Swapped(n) = l * 256 + h
  BY <1>1 DEF Surface!Swapped
<1> QED BY <1>2, <1>3 DEF Packed

LEMMA SwapKeeps ==
    ASSUME Surface!ConstantsAssumption, Held, Shown, format' = format, format = "RGB565",
           buffer' = [n \in Surface!Cells |-> Surface!Swapped(buffer[n])],
           reference' = [p \in Surface!AllPixels |->
                            Surface!ArgbFromRGB565(Surface!Swapped(Surface!Rgb565(reference[p])))],
           unblended' = unblended
    PROVE  Held' /\ Shown'
<1>1. Surface!Cells' = Surface!Cells /\ CellValues' = Packed /\ Surface!AllPixels' = Surface!AllPixels /\ CellValues = Packed
  BY DEF Surface!Cells, CellValues, Surface!AllPixels
<1>2. \A n \in Surface!Cells : buffer[n] \in Packed
  BY <1>1 DEF Held
<1>3. buffer' \in [Surface!Cells -> Packed]
  BY <1>2, SwappedFits
<1>4. ASSUME NEW p \in Surface!AllPixels \ unblended
      PROVE  Surface!At(Surface!Offset(p))' = reference'[p]
  <2> DEFINE n == Surface!Offset(p)
  <2>1. n \in Surface!Cells
    BY PlaceOf, CellOf
  <2>2. Surface!At(n) = Surface!ArgbFromRGB565(buffer[n]) /\ Surface!At(n)' = Surface!ArgbFromRGB565(buffer'[n])
    BY DEF Surface!At
  <2>3. Surface!At(n) = reference[p] /\ Surface!Offset(p)' = Surface!Offset(p)
    BY DEF Shown, Surface!Offset
  <2> HIDE DEF n
  <2>4. Surface!Rgb565(reference[p]) = buffer[n]
    BY <1>2, <2>1, <2>2, <2>3, Unpack
  <2> QED BY <2>1, <2>2, <2>3, <2>4 DEF n
<1> QED BY <1>1, <1>3, <1>4 DEF Held, Shown

THEOREM CanvasKeepsColours == ASSUME Surface!ConstantsAssumption PROVE Surface!Spec => []Surface!KeepsColours
<1>1. Surface!Init => CanvasInv
  BY Cleared DEF Surface!Init, CanvasInv
<1>2. ASSUME CanvasInv, [Surface!Next]_(Surface!vars) PROVE CanvasInv'
  <2> USE <1>2
  <2>0. Inks \subseteq Surface!Colours /\ Spots \subseteq Int \X Int /\ Spans \subseteq Int \X Int \X Int
    BY DEF Surface!ConstantsAssumption
  <2>1. ASSUME NEW cells, NEW picture, NEW bare, Surface!Draws(cells, picture, bare),
               attached /\ buffer' = cells /\ reference' = picture /\ unblended' = bare => Held' /\ Shown'
        PROVE  CanvasInv'
    <3>1. format' = format /\ attached' = attached /\ rotation' = rotation
      BY <2>1 DEF Surface!Draws, Surface!Begin
    <3>2. CASE attached
      BY <2>1, <3>1, <3>2 DEF Surface!Draws, CanvasInv
    <3>3. CASE ~attached
      <4>1. UNCHANGED <<format, buffer, attached, rotation>>
        BY <2>1, <3>1, <3>3 DEF Surface!Draws
      <4> QED BY <3>3, <4>1 DEF CanvasInv, Held, CellValues, Surface!Cells, Surface!Size
    <3> QED BY <3>2, <3>3
  <2>2. ASSUME NEW cells, NEW picture, NEW bare, Surface!Draws(cells, picture, bare)
        PROVE  format' = format
    BY <2>2 DEF Surface!Draws, Surface!Begin
  <2>3. ASSUME NEW c \in Inks, NEW p \in Spots, Surface!DrawPixel(p, c) PROVE CanvasInv'
    <3> DEFINE dots == {Surface!Turned(q) : q \in {p} \cap Surface!AllPixels}
    <3>1. dots \in SUBSET Surface!AllPixels
      BY TurnedFits DEF CanvasInv
    <3>2. Surface!Draws(Surface!SetPixelRaw(dots, c), Surface!Over(dots, c), Surface!Mended(dots, c))
      BY <2>3 DEF Surface!DrawPixel
    <3> HIDE DEF dots
    <3>3. attached /\ buffer' = Surface!SetPixelRaw(dots, c) /\ reference' = Surface!Over(dots, c)
          /\ unblended' = Surface!Mended(dots, c) => Held' /\ Shown'
      BY <2>0, <2>2, <3>1, <3>2, LaidOver DEF CanvasInv
    <3> QED BY <2>1, <3>2, <3>3
  <2>4. ASSUME NEW c \in Inks, NEW s \in Spans, Surface!DrawFastVLine(s[1], s[2], s[3], c) PROVE CanvasInv'
    <3> DEFINE dots == ({s[1]} \cap (0 .. CanvasSide - 1)) \X Surface!Clipped(s[2], s[3], CanvasSide)
    <3>1. dots \in SUBSET Surface!AllPixels
      BY DEF Surface!AllPixels, Surface!Clipped
    <3>2. Surface!Draws(Surface!SetPixelRaw(dots, c), Surface!Over(dots, c), Surface!Mended(dots, c))
      BY <2>4 DEF Surface!DrawFastVLine
    <3> HIDE DEF dots
    <3>3. attached /\ buffer' = Surface!SetPixelRaw(dots, c) /\ reference' = Surface!Over(dots, c)
          /\ unblended' = Surface!Mended(dots, c) => Held' /\ Shown'
      BY <2>0, <2>2, <3>1, <3>2, LaidOver DEF CanvasInv
    <3> QED BY <2>1, <3>2, <3>3
  <2>5. ASSUME NEW c \in Inks, NEW s \in Spans, Surface!DrawFastHLine(s[1], s[2], s[3], c) PROVE CanvasInv'
    <3> DEFINE dots == Surface!Clipped(s[1], s[3], CanvasSide) \X ({s[2]} \cap (0 .. CanvasSide - 1))
               cells == IF c.a = 0 THEN buffer ELSE Surface!Store([n \in {s[2] * CanvasSide + p[1] : p \in dots} |-> c])
    <3>1. dots \in SUBSET Surface!AllPixels
      BY DEF Surface!AllPixels, Surface!Clipped
    <3>2. Surface!Draws(cells, Surface!Over(dots, c), Surface!Bared(dots, c))
      BY <2>5 DEF Surface!DrawFastHLine
    <3>3. \A p \in dots : s[2] * CanvasSide + p[1] = Surface!Offset(p)
      BY DEF Surface!Offset
    <3> HIDE DEF dots
    <3>4. {s[2] * CanvasSide + p[1] : p \in dots} = {Surface!Offset(p) : p \in dots}
      BY <3>3
    <3>5. attached /\ buffer' = cells /\ reference' = Surface!Over(dots, c) /\ unblended' = Surface!Bared(dots, c)
          => Held' /\ Shown'
      BY <2>0, <2>2, <3>1, <3>2, <3>4, PutInstead DEF CanvasInv
    <3> QED BY <2>1, <3>2, <3>5
  <2>6. ASSUME NEW c \in Inks, Surface!FillScreen(c) PROVE CanvasInv'
    <3> DEFINE filled == [k \in Surface!Cells |->
                             IF format = "BW" THEN [i \in 0 .. 7 |-> Surface!Gray8(c) >= 128] ELSE Surface!Coded(c)]
               cells == IF c.a = 0 THEN buffer ELSE filled
    <3>1. Surface!Draws(cells, Surface!Over(Surface!AllPixels, c), Surface!Bared(Surface!AllPixels, c))
      BY <2>6 DEF Surface!FillScreen
    <3>2. CASE c.a = 0
      <4>1. attached /\ buffer' = cells /\ reference' = Surface!Over(Surface!AllPixels, c)
            /\ unblended' = Surface!Bared(Surface!AllPixels, c)
            => buffer' = (IF c.a = 0 THEN buffer ELSE Surface!Store([n \in {Surface!Offset(p) : p \in {}} |-> c]))
               /\ reference' = Surface!Over({}, c) /\ unblended' = Surface!Bared({}, c)
        BY <3>2 DEF Surface!Over, Surface!Bared, Surface!Mended
      <4>2. attached /\ buffer' = cells /\ reference' = Surface!Over(Surface!AllPixels, c)
            /\ unblended' = Surface!Bared(Surface!AllPixels, c) => Held' /\ Shown'
        BY <2>0, <2>2, <3>1, <4>1, PutInstead DEF CanvasInv
      <4> QED BY <2>1, <3>1, <4>2
    <3>3. CASE c.a # 0
      <4>1. attached /\ buffer' = cells /\ reference' = Surface!Over(Surface!AllPixels, c)
            /\ unblended' = Surface!Bared(Surface!AllPixels, c) => Held' /\ Shown'
        BY <2>0, <2>2, <3>1, <3>3, Filled DEF CanvasInv
      <4> QED BY <2>1, <3>1, <4>1
    <3> QED BY <3>2, <3>3
  <2>7. CASE Surface!ByteSwap
    <3> DEFINE cells == IF format = "RGB565" THEN [n \in Surface!Cells |-> Surface!Swapped(buffer[n])] ELSE buffer
               picture == IF format = "RGB565"
                          THEN [p \in Surface!AllPixels |->
                                   Surface!ArgbFromRGB565(Surface!Swapped(Surface!Rgb565(reference[p])))]
                          ELSE reference
    <3>1. Surface!Draws(cells, picture, unblended)
      BY <2>7 DEF Surface!ByteSwap
    <3>2. attached /\ buffer' = cells /\ reference' = picture /\ unblended' = unblended => Held' /\ Shown'
      <4>1. CASE format = "RGB565"
        BY <2>2, <3>1, <4>1, SwapKeeps DEF CanvasInv
      <4>2. CASE format # "RGB565"
        BY <2>2, <3>1, <4>2, Untouched DEF CanvasInv
      <4> QED BY <4>1, <4>2
    <3> QED BY <2>1, <3>1, <3>2
  <2>8. ASSUME NEW r \in 0 .. 3, Surface!SetRotation(r) PROVE CanvasInv'
    <3>1. UNCHANGED <<format, buffer, attached, reference, unblended>> /\ rotation' = r
      BY <2>8 DEF Surface!SetRotation, Surface!Begin
    <3>2. Held' /\ (Shown => Shown')
      BY <3>1, Untouched DEF CanvasInv, Held, CellValues, Surface!Cells, Surface!Size
    <3> QED BY <3>1, <3>2 DEF CanvasInv
  <2>9. CASE Surface!DetachBuffer
    <3>1. UNCHANGED <<format, buffer, rotation>> /\ attached' = FALSE
      BY <2>9 DEF Surface!DetachBuffer, Surface!Begin
    <3> QED BY <3>1 DEF CanvasInv, Held, CellValues, Surface!Cells, Surface!Size
  <2>10. CASE Surface!AttachBuffer
    <3>1. /\ UNCHANGED <<format, rotation>>
          /\ buffer' = [k \in Surface!Cells |-> Surface!Zero] /\ reference' = Surface!Empty /\ unblended' = {}
      BY <2>10 DEF Surface!AttachBuffer, Surface!Begin
    <3>2. /\ buffer' = [k \in Surface!Cells' |-> Surface!Zero'] /\ reference' = Surface!Empty' /\ unblended' = {}
          /\ format' \in Surface!Formats'
      BY <3>1 DEF Surface!Cells, Surface!Size, Surface!Zero, Surface!Empty, Surface!AllPixels, CanvasInv, Held, Surface!Formats
    <3>3. (format \in Surface!Formats /\ buffer = [k \in Surface!Cells |-> Surface!Zero] /\ reference = Surface!Empty /\ unblended = {}
             => Held /\ Shown)'
      BY Cleared, PTL
    <3> QED BY <3>1, <3>2, <3>3 DEF CanvasInv
  <2>11. CASE UNCHANGED Surface!vars
    BY <2>11, Untouched DEF CanvasInv, Surface!vars, Held, CellValues, Surface!Cells, Surface!Size
  <2> QED BY <2>3, <2>4, <2>5, <2>6, <2>7, <2>8, <2>9, <2>10, <2>11 DEF Surface!Next
<1>3. CanvasInv => Surface!KeepsColours
  <2> SUFFICES ASSUME CanvasInv PROVE Surface!KeepsColours
    OBVIOUS
  <2>1. Surface!ColoursSettle
    BY Settled DEF CanvasInv, Held
  <2>2. ASSUME attached, NEW p \in Surface!AllPixels \ unblended
        PROVE  /\ Surface!GetPixelRaw(p) = reference[p]
               /\ Surface!CopyToARGB8888(Surface!Offset(p)) = reference[p]
               /\ Surface!CopyToRGB565(Surface!Offset(p)) = Surface!Rgb565(reference[p])
    <3> DEFINE n == Surface!Offset(p)
    <3>1. Surface!At(n) = reference[p] /\ n \in Offsets
      BY <2>2, PlaceOf DEF CanvasInv, Shown
    <3>2. CASE format = "RGB565"
      <4>1. buffer[n] \in Packed /\ Surface!At(n) = Surface!ArgbFromRGB565(buffer[n])
        BY <3>1, <3>2, CellOf DEF CanvasInv, Held, CellValues, Surface!At
      <4>2. Surface!Rgb565(reference[p]) = buffer[n]
        BY <3>1, <4>1, Unpack
      <4>3. Surface!CopyToRGB565(n) = buffer[n]
        BY <3>2 DEF Surface!CopyToRGB565
      <4> QED BY <3>1, <4>2, <4>3 DEF Surface!GetPixelRaw, Surface!CopyToARGB8888
    <3>3. CASE format # "RGB565"
      BY <3>1, <3>3 DEF Surface!GetPixelRaw, Surface!CopyToARGB8888, Surface!CopyToRGB565
    <3> QED BY <3>2, <3>3
  <2> QED BY <2>1, <2>2 DEF Surface!KeepsColours
<1> QED BY <1>1, <1>2, <1>3, PTL DEF Surface!Spec

-----------------------------------------------------------------------------
(* The shapes *)

(* The pixels of a rectangle, as far as they are on the surface. *)
Grid == (0 .. Columns - 1) \X (0 .. Rows - 1)
Block(x, y, w, h) == {q \in Grid : x <= q[1] /\ q[1] < x + w /\ y <= q[2] /\ q[2] < y + h}

LEMMA GridPoints ==
    ASSUME Drawn!ShapesConstants, NEW q \in Grid
    PROVE  q = <<q[1], q[2]>> /\ q[1] \in Int /\ q[2] \in Int
BY DEF Grid, Drawn!ShapesConstants

LEMMA SameGrid ==
    /\ Drawn!Here!Screen = Grid /\ Drawn!OnPanel!Screen = Grid /\ Drawn!Thin!Screen = Grid
    /\ \A s : Drawn!Here!Pixels(s) = s \cap Grid /\ Drawn!OnPanel!Pixels(s) = s \cap Grid /\ Drawn!Thin!Pixels(s) = s \cap Grid
BY DEF Drawn!Here!Screen, Drawn!OnPanel!Screen, Drawn!Thin!Screen,
       Drawn!Here!Pixels, Drawn!OnPanel!Pixels, Drawn!Thin!Pixels, Grid

(* A column and a row are the same pixels on every surface. *)
LEMMA ClippedColumn ==
    ASSUME Drawn!ShapesConstants, NEW x \in Int, NEW y \in Int, NEW h \in Int
    PROVE  /\ ({x} \X (y .. y + h - 1)) \cap Grid = Block(x, y, 1, h)
           /\ (IF x \in 0 .. Columns - 1
               THEN {x} \X ((IF 0 > y THEN 0 ELSE y) .. (IF Rows < y + h THEN Rows ELSE y + h) - 1) ELSE {}) = Block(x, y, 1, h)
<1>0. Columns \in Nat /\ Rows \in Nat
  BY DEF Drawn!ShapesConstants
<1>1. ASSUME NEW q
      PROVE  q \in Block(x, y, 1, h) <=>
                /\ q = <<q[1], q[2]>> /\ q[1] = x /\ q[2] \in Int /\ x \in 0 .. Columns - 1
                /\ 0 <= q[2] /\ q[2] < Rows /\ y <= q[2] /\ q[2] < y + h
  BY <1>0 DEF Block, Grid
<1>2. ASSUME NEW q
      PROVE  q \in ({x} \X (y .. y + h - 1)) \cap Grid <=>
                /\ q = <<q[1], q[2]>> /\ q[1] = x /\ q[2] \in Int /\ x \in 0 .. Columns - 1
                /\ 0 <= q[2] /\ q[2] < Rows /\ y <= q[2] /\ q[2] < y + h
  BY <1>0 DEF Grid
<1> DEFINE a == IF 0 > y THEN 0 ELSE y
           b == IF Rows < y + h THEN Rows ELSE y + h
<1>3. /\ a \in Int /\ b \in Int
      /\ \A i \in Int : i \in a .. b - 1 <=> 0 <= i /\ i < Rows /\ y <= i /\ i < y + h
  BY <1>0
<1> HIDE DEF a, b
<1>4. ASSUME NEW q
      PROVE  q \in (IF x \in 0 .. Columns - 1 THEN {x} \X (a .. b - 1) ELSE {}) <=>
                /\ q = <<q[1], q[2]>> /\ q[1] = x /\ q[2] \in Int /\ x \in 0 .. Columns - 1
                /\ 0 <= q[2] /\ q[2] < Rows /\ y <= q[2] /\ q[2] < y + h
  BY <1>3
<1>5. (IF x \in 0 .. Columns - 1 THEN {x} \X (a .. b - 1) ELSE {}) = Block(x, y, 1, h)
  BY <1>1, <1>4
<1> QED BY <1>1, <1>2, <1>5 DEF a, b

LEMMA ClippedRow ==
    ASSUME Drawn!ShapesConstants, NEW x \in Int, NEW y \in Int, NEW w \in Int
    PROVE  LET span == (IF 0 > x THEN 0 ELSE x) .. (IF Columns < x + w THEN Columns ELSE x + w) - 1
           IN  (IF y \notin 0 .. Rows - 1 THEN {} ELSE span \X {y}) = Block(x, y, w, 1)
               /\ (span \X {y}) \cap Grid = Block(x, y, w, 1)
<1>0. Columns \in Nat /\ Rows \in Nat
  BY DEF Drawn!ShapesConstants
<1> DEFINE a == IF 0 > x THEN 0 ELSE x
           b == IF Columns < x + w THEN Columns ELSE x + w
<1>1. ASSUME NEW q
      PROVE  q \in Block(x, y, w, 1) <=>
                /\ q = <<q[1], q[2]>> /\ q[2] = y /\ q[1] \in Int /\ y \in 0 .. Rows - 1
                /\ 0 <= q[1] /\ q[1] < Columns /\ x <= q[1] /\ q[1] < x + w
  BY <1>0 DEF Block, Grid
<1>3. /\ a \in Int /\ b \in Int
      /\ \A i \in Int : i \in a .. b - 1 <=> 0 <= i /\ i < Columns /\ x <= i /\ i < x + w
  BY <1>0
<1> HIDE DEF a, b
<1>4. ASSUME NEW q
      PROVE  q \in (IF y \notin 0 .. Rows - 1 THEN {} ELSE (a .. b - 1) \X {y}) <=>
                /\ q = <<q[1], q[2]>> /\ q[2] = y /\ q[1] \in Int /\ y \in 0 .. Rows - 1
                /\ 0 <= q[1] /\ q[1] < Columns /\ x <= q[1] /\ q[1] < x + w
  BY <1>3
<1>5. ASSUME NEW q
      PROVE  q \in ((a .. b - 1) \X {y}) \cap Grid <=>
                /\ q = <<q[1], q[2]>> /\ q[2] = y /\ q[1] \in Int /\ y \in 0 .. Rows - 1
                /\ 0 <= q[1] /\ q[1] < Columns /\ x <= q[1] /\ q[1] < x + w
  BY <1>0, <1>3 DEF Grid
<1>6. (IF y \notin 0 .. Rows - 1 THEN {} ELSE (a .. b - 1) \X {y}) = Block(x, y, w, 1)
  BY <1>1, <1>4
<1>7. ((a .. b - 1) \X {y}) \cap Grid = Block(x, y, w, 1)
  BY <1>1, <1>5
<1> QED BY <1>6, <1>7 DEF a, b

LEMMA Columnwise ==
    ASSUME Drawn!ShapesConstants, NEW x \in Int, NEW y \in Int, NEW h \in Int
    PROVE  /\ Drawn!Here!WriteFastVLine(x, y, h) = Block(x, y, 1, h)
           /\ Drawn!OnPanel!WriteFastVLine(x, y, h) = Block(x, y, 1, h)
           /\ Drawn!Thin!WriteFastVLine(x, y, h) = Block(x, y, 1, h)
           /\ Drawn!ThinOnPanel!WriteFastVLine(x, y, h) = Block(x, y, 1, h)
<1> DEFINE clipped == IF x \in 0 .. Columns - 1
                      THEN {x} \X ((IF 0 > y THEN 0 ELSE y) .. (IF Rows < y + h THEN Rows ELSE y + h) - 1) ELSE {}
           plain == ({x} \X (y .. y + h - 1)) \cap Grid
<1>1. clipped = Block(x, y, 1, h) /\ plain = Block(x, y, 1, h)
  BY ClippedColumn
<1>2. Drawn!Here!WriteFastVLine(x, y, h) = IF Drawn!Here!Buffered THEN clipped ELSE plain
  BY SameGrid DEF Drawn!Here!WriteFastVLine, Drawn!Here!Larger, Drawn!Here!Smaller
<1>3. Drawn!OnPanel!WriteFastVLine(x, y, h) = IF Drawn!OnPanel!Buffered THEN clipped ELSE plain
  BY SameGrid DEF Drawn!OnPanel!WriteFastVLine, Drawn!OnPanel!Larger, Drawn!OnPanel!Smaller
<1>4. Drawn!Thin!WriteFastVLine(x, y, h) = IF Drawn!Thin!Buffered THEN clipped ELSE plain
  BY SameGrid DEF Drawn!Thin!WriteFastVLine, Drawn!Thin!Larger, Drawn!Thin!Smaller
<1>5. Drawn!ThinOnPanel!WriteFastVLine(x, y, h) = clipped
  BY DEF Drawn!ThinOnPanel!WriteFastVLine, Drawn!ThinOnPanel!Buffered, Drawn!ThinOnPanel!Larger, Drawn!ThinOnPanel!Smaller
<1> QED BY ONLY <1>1, <1>2, <1>3, <1>4, <1>5

LEMMA Rowwise ==
    ASSUME Drawn!ShapesConstants, NEW x \in Int, NEW y \in Int, NEW w \in Int
    PROVE  /\ Drawn!Here!WriteFastHLine(x, y, w) = Block(x, y, w, 1)
           /\ Drawn!OnPanel!WriteFastHLine(x, y, w) = Block(x, y, w, 1)
           /\ Drawn!Thin!WriteFastHLine(x, y, w) = Block(x, y, w, 1)
           /\ Drawn!ThinOnPanel!WriteFastHLine(x, y, w) = Block(x, y, w, 1)
<1> DEFINE span == (IF 0 > x THEN 0 ELSE x) .. (IF Columns < x + w THEN Columns ELSE x + w) - 1
           plain == (span \X {y}) \cap Grid
<1>1. (IF y \notin 0 .. Rows - 1 THEN {} ELSE span \X {y}) = Block(x, y, w, 1) /\ plain = Block(x, y, w, 1)
  BY ClippedRow
<1>2. Drawn!Here!WriteFastHLine(x, y, w) =
         IF y \notin 0 .. Rows - 1 THEN {} ELSE IF Drawn!Here!Buffered THEN span \X {y} ELSE plain
  BY SameGrid DEF Drawn!Here!WriteFastHLine, Drawn!Here!Larger, Drawn!Here!Smaller
<1>3. Drawn!OnPanel!WriteFastHLine(x, y, w) =
         IF y \notin 0 .. Rows - 1 THEN {} ELSE IF Drawn!OnPanel!Buffered THEN span \X {y} ELSE plain
  BY SameGrid DEF Drawn!OnPanel!WriteFastHLine, Drawn!OnPanel!Larger, Drawn!OnPanel!Smaller
<1>4. Drawn!Thin!WriteFastHLine(x, y, w) =
         IF y \notin 0 .. Rows - 1 THEN {} ELSE IF Drawn!Thin!Buffered THEN span \X {y} ELSE plain
  BY SameGrid DEF Drawn!Thin!WriteFastHLine, Drawn!Thin!Larger, Drawn!Thin!Smaller
<1>5. y \notin 0 .. Rows - 1 => Block(x, y, w, 1) = {}
  BY <1>1
<1>6. Drawn!ThinOnPanel!WriteFastHLine(x, y, w) = IF y \notin 0 .. Rows - 1 THEN {} ELSE span \X {y}
  BY DEF Drawn!ThinOnPanel!WriteFastHLine, Drawn!ThinOnPanel!Buffered, Drawn!ThinOnPanel!Larger, Drawn!ThinOnPanel!Smaller
<1> HIDE DEF span, plain
<1> QED BY ONLY <1>1, <1>2, <1>3, <1>4, <1>5, <1>6

LEMMA Blockwise ==
    ASSUME Drawn!ShapesConstants, NEW x \in Int, NEW y \in Int, NEW w \in Int, NEW h \in Int
    PROVE  /\ Drawn!Here!WriteFillRect(x, y, w, h) = Block(x, y, w, h)
           /\ Drawn!OnPanel!WriteFillRect(x, y, w, h) = Block(x, y, w, h)
<1>1. UNION {Block(x, i, w, 1) : i \in y .. y + h - 1} = Block(x, y, w, h)
  <2>1. ASSUME NEW q \in Block(x, y, w, h) PROVE q \in UNION {Block(x, i, w, 1) : i \in y .. y + h - 1}
    <3>1. q[2] \in y .. y + h - 1 /\ q \in Block(x, q[2], w, 1)
      BY <2>1, GridPoints DEF Block
    <3> QED BY <3>1
  <2>2. ASSUME NEW i \in y .. y + h - 1, NEW q \in Block(x, i, w, 1) PROVE q \in Block(x, y, w, h)
    BY <2>2, GridPoints DEF Block
  <2> QED BY <2>1, <2>2
<1>2. \A i \in y .. y + h - 1 : /\ Drawn!Here!WriteFastHLine(x, i, w) = Block(x, i, w, 1)
                                /\ Drawn!OnPanel!WriteFastHLine(x, i, w) = Block(x, i, w, 1)
  BY Rowwise
<1>3. Drawn!Here!WriteFillRect(x, y, w, h) = UNION {Block(x, i, w, 1) : i \in y .. y + h - 1}
  BY <1>2 DEF Drawn!Here!WriteFillRect
<1>4. Drawn!OnPanel!WriteFillRect(x, y, w, h) = UNION {Block(x, i, w, 1) : i \in y .. y + h - 1}
  BY <1>2 DEF Drawn!OnPanel!WriteFillRect
<1> QED BY <1>1, <1>3, <1>4

(* What a canvas clips a line to. *)
LEMMA SpanIs ==
    ASSUME NEW a \in Int, NEW n \in Int, NEW size \in Nat
    PROVE  LET first == IF 0 > a THEN 0 ELSE a
               length == IF a < 0 THEN n + a ELSE n
               s == IF n <= 0 THEN {} ELSE first .. first + (IF first + length > size THEN size - first ELSE length) - 1
           IN  s \subseteq Int /\ \A i \in Int : i \in s <=> 0 <= i /\ i < size /\ a <= i /\ i < a + n
<1> DEFINE first == IF 0 > a THEN 0 ELSE a
           length == IF a < 0 THEN n + a ELSE n
           last == first + (IF first + length > size THEN size - first ELSE length) - 1
<1>1. first \in Int /\ last \in Int
  OBVIOUS
<1>2. CASE n <= 0
  BY <1>2
<1>3. CASE n > 0
  <2>1. ASSUME NEW i \in Int PROVE first <= i /\ i <= last <=> 0 <= i /\ i < size /\ a <= i /\ i < a + n
    BY <1>3
  <2> HIDE DEF first, last
  <2>2. first .. last \subseteq Int /\ \A i \in Int : i \in first .. last <=> 0 <= i /\ i < size /\ a <= i /\ i < a + n
    BY <1>1, <2>1
  <2> QED BY <1>3, <2>2 DEF first, last
<1> QED BY <1>2, <1>3

Span(a, n, size) ==
    LET first == IF 0 > a THEN 0 ELSE a
        length == IF a < 0 THEN n + a ELSE n
    IN  IF n <= 0 THEN {} ELSE first .. first + (IF first + length > size THEN size - first ELSE length) - 1

LEMMA ClippedSpans ==
    ASSUME Drawn!ShapesConstants, NEW x \in Int, NEW y \in Int, NEW n \in Int
    PROVE  /\ (IF x \in 0 .. Columns - 1 THEN {x} \X Span(y, n, Rows) ELSE {}) = Block(x, y, 1, n)
           /\ (IF y \in 0 .. Rows - 1 THEN Span(x, n, Columns) \X {y} ELSE {}) = Block(x, y, n, 1)
<1>0. Columns \in Nat /\ Rows \in Nat
  BY DEF Drawn!ShapesConstants
<1>1. Span(y, n, Rows) \subseteq Int /\ \A i \in Int : i \in Span(y, n, Rows) <=> 0 <= i /\ i < Rows /\ y <= i /\ i < y + n
  BY <1>0, SpanIs DEF Span
<1>2. Span(x, n, Columns) \subseteq Int /\ \A i \in Int : i \in Span(x, n, Columns) <=> 0 <= i /\ i < Columns /\ x <= i /\ i < x + n
  BY <1>0, SpanIs DEF Span
<1>3. ASSUME NEW q
      PROVE  q \in Block(x, y, 1, n) <=>
                /\ q = <<q[1], q[2]>> /\ q[1] = x /\ q[2] \in Int /\ x \in 0 .. Columns - 1
                /\ 0 <= q[2] /\ q[2] < Rows /\ y <= q[2] /\ q[2] < y + n
  BY <1>0 DEF Block, Grid
<1>4. ASSUME NEW q
      PROVE  q \in Block(x, y, n, 1) <=>
                /\ q = <<q[1], q[2]>> /\ q[2] = y /\ q[1] \in Int /\ y \in 0 .. Rows - 1
                /\ 0 <= q[1] /\ q[1] < Columns /\ x <= q[1] /\ q[1] < x + n
  BY <1>0 DEF Block, Grid
<1>5. ASSUME NEW q
      PROVE  q \in (IF x \in 0 .. Columns - 1 THEN {x} \X Span(y, n, Rows) ELSE {}) <=>
                /\ q = <<q[1], q[2]>> /\ q[1] = x /\ q[2] \in Int /\ x \in 0 .. Columns - 1
                /\ 0 <= q[2] /\ q[2] < Rows /\ y <= q[2] /\ q[2] < y + n
  BY <1>1
<1>6. ASSUME NEW q
      PROVE  q \in (IF y \in 0 .. Rows - 1 THEN Span(x, n, Columns) \X {y} ELSE {}) <=>
                /\ q = <<q[1], q[2]>> /\ q[2] = y /\ q[1] \in Int /\ y \in 0 .. Rows - 1
                /\ 0 <= q[1] /\ q[1] < Columns /\ x <= q[1] /\ q[1] < x + n
  BY <1>2
<1>7. (IF x \in 0 .. Columns - 1 THEN {x} \X Span(y, n, Rows) ELSE {}) = Block(x, y, 1, n)
  BY <1>3, <1>5
<1>8. (IF y \in 0 .. Rows - 1 THEN Span(x, n, Columns) \X {y} ELSE {}) = Block(x, y, n, 1)
  BY <1>4, <1>6
<1> QED BY <1>7, <1>8

LEMMA SameSpan ==
    ASSUME NEW a, NEW n, NEW size
    PROVE  Drawn!Here!CanvasSpan(a, n, size) = Span(a, n, size) /\ Drawn!Thin!CanvasSpan(a, n, size) = Span(a, n, size)
BY DEF Span, Drawn!Here!CanvasSpan, Drawn!Here!Larger, Drawn!Thin!CanvasSpan, Drawn!Thin!Larger

(* Half a stroke. *)
LEMMA HalfStroke ==
    ASSUME stroke \in Nat \ {0}
    PROVE  stroke \div 2 \in Nat /\ stroke \div 2 < stroke /\ (stroke > 1 => stroke \div 2 >= 1)
OBVIOUS

(* The fast lines of the surfaces. *)
LEMMA FastLines ==
    ASSUME Drawn!ShapesConstants, stroke \in Nat \ {0}, NEW x \in Int, NEW y \in Int, NEW n \in Int
    PROVE  /\ Drawn!Thin!DrawFastVLine(x, y, n) = Block(x, y, 1, n)
           /\ Drawn!Thin!DrawFastHLine(x, y, n) = Block(x, y, n, 1)
           /\ surface # "panel" \/ stroke = 1 => /\ Drawn!Here!DrawFastVLine(x, y, n) = Block(x, y, 1, n)
                                                 /\ Drawn!Here!DrawFastHLine(x, y, n) = Block(x, y, n, 1)
           /\ Drawn!ThinOnPanel!DrawFastVLine(x, y, n) = Block(x, y, 1, n)
           /\ Drawn!ThinOnPanel!DrawFastHLine(x, y, n) = Block(x, y, n, 1)
           /\ surface = "panel" => /\ Drawn!OnPanel!DrawFastVLine(x, y, n) = Drawn!Here!DrawFastVLine(x, y, n)
                                   /\ Drawn!OnPanel!DrawFastHLine(x, y, n) = Drawn!Here!DrawFastHLine(x, y, n)
           /\ Block(x, y, 1, n) \subseteq Drawn!Here!DrawFastVLine(x, y, n)
           /\ Block(x, y, n, 1) \subseteq Drawn!Here!DrawFastHLine(x, y, n)
<1>1. /\ (IF x \in 0 .. Columns - 1 THEN {x} \X Span(y, n, Rows) ELSE {}) = Block(x, y, 1, n)
      /\ (IF y \in 0 .. Rows - 1 THEN Span(x, n, Columns) \X {y} ELSE {}) = Block(x, y, n, 1)
  BY ClippedSpans
<1>2. /\ Drawn!Here!WriteFastVLine(x, y, n) = Block(x, y, 1, n) /\ Drawn!Here!WriteFastHLine(x, y, n) = Block(x, y, n, 1)
      /\ Drawn!Thin!WriteFastVLine(x, y, n) = Block(x, y, 1, n) /\ Drawn!Thin!WriteFastHLine(x, y, n) = Block(x, y, n, 1)
      /\ Drawn!OnPanel!WriteFastVLine(x, y, n) = Block(x, y, 1, n) /\ Drawn!OnPanel!WriteFastHLine(x, y, n) = Block(x, y, n, 1)
      /\ Drawn!ThinOnPanel!WriteFastVLine(x, y, n) = Block(x, y, 1, n)
      /\ Drawn!ThinOnPanel!WriteFastHLine(x, y, n) = Block(x, y, n, 1)
  BY Columnwise, Rowwise
<1>3. /\ Drawn!Thin!DrawFastVLine(x, y, n) =
            IF surface # "panel" THEN IF x \in 0 .. Columns - 1 THEN {x} \X Span(y, n, Rows) ELSE {}
            ELSE Drawn!Thin!WriteFastVLine(x, y, n)
      /\ Drawn!Thin!DrawFastHLine(x, y, n) =
            IF surface # "panel" THEN IF y \in 0 .. Rows - 1 THEN Span(x, n, Columns) \X {y} ELSE {}
            ELSE Drawn!Thin!WriteFastHLine(x, y, n)
  BY SameSpan DEF Drawn!Thin!DrawFastVLine, Drawn!Thin!DrawFastHLine
<1>4. Drawn!Here!DrawFastVLine(x, y, n) =
            IF surface # "panel" THEN IF x \in 0 .. Columns - 1 THEN {x} \X Span(y, n, Rows) ELSE {}
            ELSE IF stroke > 1 THEN Drawn!Here!WriteFillRect(x - stroke \div 2, y, stroke, n)
            ELSE Drawn!Here!WriteFastVLine(x, y, n)
  BY SameSpan DEF Drawn!Here!DrawFastVLine
<1>5. Drawn!Here!DrawFastHLine(x, y, n) =
            IF surface # "panel" THEN IF y \in 0 .. Rows - 1 THEN Span(x, n, Columns) \X {y} ELSE {}
            ELSE IF stroke > 1 THEN Drawn!Here!WriteFillRect(x, y - stroke \div 2, n, stroke)
            ELSE Drawn!Here!WriteFastHLine(x, y, n)
  BY SameSpan DEF Drawn!Here!DrawFastHLine
<1>6. /\ Drawn!ThinOnPanel!DrawFastVLine(x, y, n) = Drawn!ThinOnPanel!WriteFastVLine(x, y, n)
      /\ Drawn!ThinOnPanel!DrawFastHLine(x, y, n) = Drawn!ThinOnPanel!WriteFastHLine(x, y, n)
  BY DEF Drawn!ThinOnPanel!DrawFastVLine, Drawn!ThinOnPanel!DrawFastHLine
<1> DEFINE half == stroke \div 2
<1>7. half \in Int /\ 0 <= half /\ half < stroke /\ stroke \in Int
  BY HalfStroke
<1>8. /\ Drawn!Here!WriteFillRect(x - half, y, stroke, n) = Block(x - half, y, stroke, n)
      /\ Drawn!Here!WriteFillRect(x, y - half, n, stroke) = Block(x, y - half, n, stroke)
      /\ Drawn!OnPanel!WriteFillRect(x - half, y, stroke, n) = Block(x - half, y, stroke, n)
      /\ Drawn!OnPanel!WriteFillRect(x, y - half, n, stroke) = Block(x, y - half, n, stroke)
  BY <1>7, Blockwise
<1>11. /\ Drawn!OnPanel!DrawFastVLine(x, y, n) =
             IF stroke > 1 THEN Drawn!OnPanel!WriteFillRect(x - half, y, stroke, n) ELSE Drawn!OnPanel!WriteFastVLine(x, y, n)
       /\ Drawn!OnPanel!DrawFastHLine(x, y, n) =
             IF stroke > 1 THEN Drawn!OnPanel!WriteFillRect(x, y - half, n, stroke) ELSE Drawn!OnPanel!WriteFastHLine(x, y, n)
  BY DEF Drawn!OnPanel!DrawFastVLine, Drawn!OnPanel!DrawFastHLine
<1> HIDE DEF half
<1>9. Block(x, y, 1, n) \subseteq Block(x - half, y, stroke, n) /\ Block(x, y, n, 1) \subseteq Block(x, y - half, n, stroke)
  BY <1>7, GridPoints DEF Block
<1>10. stroke > 1 \/ stroke = 1
  OBVIOUS
<1> QED BY ONLY <1>1, <1>2, <1>3, <1>4, <1>5, <1>6, <1>8, <1>9, <1>10, <1>11 DEF half

(* The midpoint circle: what a step of the loop makes of its variables. *)
CircleStart(r) == [f |-> 1 - r, ddx |-> 1, ddy |-> -2 * r, x |-> 0, y |-> r, seen |-> {}]
CircleStep(s) ==
    LET drop == s.f >= 0
        ddy == IF drop THEN s.ddy + 2 ELSE s.ddy
        y == IF drop THEN s.y - 1 ELSE s.y
        ddx == s.ddx + 2
    IN  IF s.x >= s.y THEN s
        ELSE [f |-> s.f + (IF drop THEN ddy ELSE 0) + ddx, ddx |-> ddx, ddy |-> ddy,
              x |-> s.x + 1, y |-> y, seen |-> s.seen \cup {<<s.x + 1, y>>}]
CircleRun(f, r, n) == f = [i \in 0 .. n |-> IF i = 0 THEN CircleStart(r) ELSE CircleStep(f[i - 1])]

LEMMA OctantIsChosen ==
    ASSUME NEW r
    PROVE  /\ Drawn!Here!Octant(r) = (CHOOSE f : CircleRun(f, r, r))[r].seen
           /\ Drawn!OnPanel!Octant(r) = (CHOOSE f : CircleRun(f, r, r))[r].seen
           /\ Drawn!Thin!Octant(r) = (CHOOSE f : CircleRun(f, r, r))[r].seen
<1>1. Drawn!Here!Octant(r) = (CHOOSE f : CircleRun(f, r, r))[r].seen
  BY DEF Drawn!Here!Octant, CircleRun, CircleStart, CircleStep
<1>2. Drawn!OnPanel!Octant(r) = (CHOOSE f : CircleRun(f, r, r))[r].seen
  BY DEF Drawn!OnPanel!Octant, CircleRun, CircleStart, CircleStep
<1>3. Drawn!Thin!Octant(r) = (CHOOSE f : CircleRun(f, r, r))[r].seen
  BY DEF Drawn!Thin!Octant, CircleRun, CircleStart, CircleStep
<1> QED BY <1>1, <1>2, <1>3

LEMMA CircleRunExists ==
    ASSUME NEW r
    PROVE  \A n \in Nat : \E f : CircleRun(f, r, n)
<1> DEFINE T == {n \in Nat : \E f : CircleRun(f, r, n)}
<1>1. 0 \in T
  <2> DEFINE f == [i \in 0 .. 0 |-> CircleStart(r)]
  <2>1. f = [i \in 0 .. 0 |-> IF i = 0 THEN CircleStart(r) ELSE CircleStep(f[i - 1])]
    OBVIOUS
  <2> QED BY <2>1 DEF CircleRun
<1>2. ASSUME NEW n \in Nat, n \in T PROVE n + 1 \in T
  <2>1. PICK f : CircleRun(f, r, n)
    BY <1>2
  <2> DEFINE g == [i \in 0 .. n + 1 |-> IF i <= n THEN f[i] ELSE CircleStep(f[n])]
  <2>2. ASSUME NEW i \in 0 .. n + 1
        PROVE  g[i] = IF i = 0 THEN CircleStart(r) ELSE CircleStep(g[i - 1])
    <3>1. CASE i <= n
      <4>1. f[i] = IF i = 0 THEN CircleStart(r) ELSE CircleStep(f[i - 1])
        BY <2>1, <3>1 DEF CircleRun
      <4>2. g[i] = f[i] /\ (i # 0 => g[i - 1] = f[i - 1])
        BY <3>1
      <4> QED BY <4>1, <4>2
    <3>2. CASE i = n + 1
      <4>1. g[i] = CircleStep(f[n]) /\ g[i - 1] = f[n] /\ i # 0
        BY <3>2
      <4> QED BY <4>1
    <3> QED BY <3>1, <3>2
  <2>3. g = [i \in 0 .. n + 1 |-> g[i]]
    OBVIOUS
  <2> HIDE DEF g
  <2>4. CircleRun(g, r, n + 1)
    BY <2>2, <2>3 DEF CircleRun
  <2> QED BY <2>4
<1> HIDE DEF T
<1>3. Nat \subseteq T
  BY <1>1, <1>2, Listening!Induction
<1> QED BY <1>3 DEF T

(* How far a point may be from the circle. *)
Near(a, b, r) == -r <= a * a + b * b - r * r /\ a * a + b * b - r * r <= r
OnOctant(p, r) ==
    /\ p = <<p[1], p[2]>> /\ p[1] \in Int /\ p[2] \in Int
    /\ 1 <= p[1] /\ p[1] <= r /\ 0 <= p[2] /\ p[2] <= r /\ (r >= 2 => p[2] >= 1)
    /\ Near(p[1], p[2], r)
FirstPoint(r) == IF r = 1 THEN <<1, 0>> ELSE <<1, r>>

(* What the loop keeps: f is the midpoint's distance, and the point is near. *)
Reached(s, r) ==
    /\ s.x \in Int /\ s.y \in Int
    /\ 0 <= s.x /\ s.x <= r /\ 0 <= s.y /\ s.y <= r
    /\ s.ddx = 2 * s.x + 1 /\ s.ddy = -2 * s.y
    /\ s.f = s.x * s.x + s.y * s.y - r * r + 2 * s.x + 1 - s.y
    /\ Near(s.x, s.y, r)
    /\ s.x = 0 => s.y = r
    /\ s.x >= 1 /\ r >= 2 => s.y >= 1
    /\ s.x >= 1 => FirstPoint(r) \in s.seen
    /\ \A p \in s.seen : OnOctant(p, r)

LEMMA StepReaches ==
    ASSUME NEW r \in Nat, NEW s, Reached(s, r)
    PROVE  Reached(CircleStep(s), r) /\ (r >= 1 => CircleStep(s).x >= 1)
<1>1. CASE s.x >= s.y
  <2>1. CircleStep(s) = s
    BY <1>1 DEF CircleStep
  <2>2. r >= 1 => s.x >= 1
    BY <1>1 DEF Reached
  <2> QED BY <2>1, <2>2
<1>2. CASE ~(s.x >= s.y)
  <2>1. PICK x \in Int, y \in Int : x = s.x /\ y = s.y
    BY DEF Reached
  <2>2. PICK a \in Int, b \in Int, c \in Int : a = x * x /\ b = y * y /\ c = r * r
    OBVIOUS
  <2> DEFINE e == a + b - c
             u == x + 1
             v == IF s.f >= 0 THEN y - 1 ELSE y
             t == CircleStep(s)
  <2>3. /\ 0 <= x /\ x < y /\ y <= r /\ s.ddx = 2 * x + 1 /\ s.ddy = -2 * y
        /\ s.f = e + 2 * x + 1 - y /\ -r <= e /\ e <= r
        /\ (x = 0 => y = r) /\ (x >= 1 => FirstPoint(r) \in s.seen)
        /\ \A p \in s.seen : OnOctant(p, r)
    BY <1>2, <2>1, <2>2 DEF Reached, Near
  <2>4. /\ t.x = u /\ t.y = v /\ t.ddx = s.ddx + 2 /\ t.ddy = (IF s.f >= 0 THEN s.ddy + 2 ELSE s.ddy)
        /\ t.f = s.f + (IF s.f >= 0 THEN s.ddy + 2 ELSE 0) + s.ddx + 2
        /\ t.seen = s.seen \cup {<<u, v>>}
    <3>1. s.f \in Int /\ s.ddx \in Int /\ s.ddy \in Int
      <4>1. e \in Int
        BY <2>2
      <4> HIDE DEF e
      <4> QED BY <2>1, <2>3, <4>1
    <3>2. t = [f |-> s.f + (IF s.f >= 0 THEN s.ddy + 2 ELSE 0) + (s.ddx + 2), ddx |-> s.ddx + 2,
               ddy |-> IF s.f >= 0 THEN s.ddy + 2 ELSE s.ddy, x |-> u, y |-> v,
               seen |-> s.seen \cup {<<u, v>>}]
      <4>1. s.f >= 0 \/ ~(s.f >= 0)
        OBVIOUS
      <4> QED BY <1>2, <2>1, <4>1 DEF CircleStep
    <3> HIDE DEF t, u, v
    <3> QED BY <3>1, <3>2
  <2>5. u \in Int /\ v \in Int /\ 1 <= u /\ u <= r /\ 0 <= v /\ v <= r
    BY <2>3
  <2>6. u * u = a + 2 * x + 1 /\ (y - 1) * (y - 1) = b - 2 * y + 1
    BY <2>2
  <2>7. /\ v * v = IF s.f >= 0 THEN b - 2 * y + 1 ELSE b
        /\ v = IF s.f >= 0 THEN y - 1 ELSE y
    BY <2>2, <2>6
  <2> DEFINE d == u * u + v * v - c
  <2>8. d = IF s.f >= 0 THEN e + 2 * x + 1 - 2 * y + 1 ELSE e + 2 * x + 1
    BY <2>2, <2>6, <2>7
  <2>9. -r <= d /\ d <= r
    BY <2>3, <2>8
  <2>10. Near(u, v, r)
    BY <2>2, <2>9 DEF Near
  <2>11. t.ddx = 2 * u + 1 /\ t.ddy = -2 * v
    BY <2>3, <2>4
  <2>12. t.f = u * u + v * v - r * r + 2 * u + 1 - v
    BY <2>2, <2>3, <2>4, <2>8
  <2>13. r >= 2 => v >= 1
    <3>1. x = 0 /\ r >= 2 => s.f < 0
      <4>1. x = 0 => a = 0 /\ b = c
        BY <2>2, <2>3
      <4> QED BY <2>3, <4>1
    <3> QED BY <2>3, <3>1
  <2>14. FirstPoint(r) \in t.seen
    <3>1. CASE x >= 1
      BY <2>3, <2>4, <3>1
    <3>2. CASE x = 0
      <4>1. a = 0 /\ b = c /\ y = r /\ s.f = 1 - r
        BY <2>2, <2>3, <3>2
      <4>2. u = 1 /\ v = (IF r = 1 THEN 0 ELSE r)
        BY <2>3, <3>2, <4>1
      <4> QED BY <2>4, <4>2 DEF FirstPoint
    <3> QED BY <2>3, <3>1, <3>2
  <2>15. OnOctant(<<u, v>>, r)
    BY <2>5, <2>10, <2>13 DEF OnOctant
  <2> HIDE DEF u, v, t, d, e
  <2>16. \A p \in t.seen : OnOctant(p, r)
    BY <2>3, <2>4, <2>15
  <2>17. u >= 1 /\ u # 0
    BY <2>5
  <2>18. Reached(t, r)
    BY ONLY <2>4, <2>5, <2>10, <2>11, <2>12, <2>13, <2>14, <2>16, <2>17 DEF Reached
  <2>19. t.x >= 1
    BY <2>4, <2>17
  <2> QED BY <2>18, <2>19 DEF t
<1> QED BY <1>1, <1>2

(* The points of an octant. *)
LEMMA OctantPoints ==
    ASSUME NEW r \in Nat
    PROVE  /\ Drawn!OnPanel!Octant(r) = Drawn!Here!Octant(r) /\ Drawn!Thin!Octant(r) = Drawn!Here!Octant(r)
           /\ \A p \in Drawn!Here!Octant(r) : OnOctant(p, r)
           /\ r >= 1 => FirstPoint(r) \in Drawn!Here!Octant(r)
<1> DEFINE f == CHOOSE g : CircleRun(g, r, r)
<1>1. CircleRun(f, r, r)
  BY CircleRunExists
<1> HIDE DEF f
<1>2. f[0] = CircleStart(r) /\ \A i \in 1 .. r : f[i] = CircleStep(f[i - 1])
  BY <1>1 DEF CircleRun
<1> DEFINE T == {n \in Nat : n <= r => Reached(f[n], r) /\ (n >= 1 => f[n].x >= 1)}
<1>3. 0 \in T
  <2>1. Near(0, r, r)
    BY DEF Near
  <2>2. Reached(CircleStart(r), r)
    BY <2>1 DEF Reached, CircleStart
  <2> QED BY <1>2, <2>2
<1>4. ASSUME NEW n \in Nat, n \in T PROVE n + 1 \in T
  <2> SUFFICES ASSUME n + 1 <= r PROVE Reached(f[n + 1], r) /\ f[n + 1].x >= 1
    OBVIOUS
  <2>1. Reached(f[n], r)
    BY <1>4
  <2>2. n + 1 \in 1 .. r /\ (n + 1) - 1 = n /\ r >= 1
    OBVIOUS
  <2>3. f[n + 1] = CircleStep(f[n])
    BY <1>2, <2>2
  <2> QED BY <2>1, <2>2, <2>3, StepReaches
<1> HIDE DEF T
<1>5. Nat \subseteq T
  BY <1>3, <1>4, Listening!Induction
<1>6. Reached(f[r], r) /\ (r >= 1 => f[r].x >= 1)
  BY <1>5 DEF T
<1>7. Drawn!Here!Octant(r) = f[r].seen /\ Drawn!OnPanel!Octant(r) = f[r].seen /\ Drawn!Thin!Octant(r) = f[r].seen
  BY OctantIsChosen DEF f
<1> QED BY <1>6, <1>7 DEF Reached

(* Square roots, rounded down and to the nearest. *)
IsRoot(k, n) == k * k <= n /\ (k + 1) * (k + 1) > n
LEMMA RootExists == \A n \in Nat : \E k \in 0 .. n : IsRoot(k, n)
<1> DEFINE T == {n \in Nat : \E k \in 0 .. n : IsRoot(k, n)}
<1>1. 0 \in T
  BY DEF IsRoot
<1>2. ASSUME NEW n \in Nat, n \in T PROVE n + 1 \in T
  <2>1. PICK k \in 0 .. n : IsRoot(k, n)
    BY <1>2
  <2>2. k \in Nat /\ k <= n /\ k * k <= n /\ (k + 1) * (k + 1) >= n + 1
    BY <2>1 DEF IsRoot
  <2>3. (k + 2) * (k + 2) = (k + 1) * (k + 1) + 2 * k + 3
    BY <2>2
  <2>4. CASE (k + 1) * (k + 1) > n + 1
    BY <2>2, <2>4 DEF IsRoot
  <2>5. CASE (k + 1) * (k + 1) = n + 1
    <3>1. IsRoot(k + 1, n + 1)
      BY <2>2, <2>3, <2>5 DEF IsRoot
    <3> QED BY <2>2, <3>1
  <2> QED BY <2>2, <2>4, <2>5
<1> HIDE DEF T
<1>3. Nat \subseteq T
  BY <1>1, <1>2, Listening!Induction
<1> QED BY <1>3 DEF T

LEMMA SquaresAscend ==
    ASSUME NEW a \in Nat, NEW b \in Nat, a < b
    PROVE  (a + 1) * (a + 1) <= b * b
<1>1. PICK d \in Nat : b = a + 1 + d
  BY b - a - 1 \in Nat, b = a + 1 + (b - a - 1)
<1>2. b * b = (a + 1) * (a + 1) + 2 * ((a + 1) * d) + d * d
  BY <1>1
<1>3. (a + 1) * d \in Nat /\ d * d \in Nat
  OBVIOUS
<1> QED BY <1>2, <1>3

LEMMA RootIs ==
    ASSUME NEW n \in Nat
    PROVE  /\ Drawn!Here!Root(n) \in Nat /\ IsRoot(Drawn!Here!Root(n), n)
           /\ \A a \in Nat : a * a <= n => a <= Drawn!Here!Root(n)
<1> DEFINE k == Drawn!Here!Root(n)
<1>1. k = CHOOSE j \in 0 .. n : IsRoot(j, n)
  BY DEF Drawn!Here!Root, IsRoot
<1>2. k \in 0 .. n /\ IsRoot(k, n)
  BY <1>1, RootExists
<1> HIDE DEF k
<1>3. ASSUME NEW a \in Nat, a * a <= n PROVE a <= k
  <2> SUFFICES ASSUME k < a PROVE FALSE
    BY <1>2
  <2>1. (k + 1) * (k + 1) <= a * a
    BY <1>2, SquaresAscend
  <2>2. a * a \in Int /\ (k + 1) * (k + 1) \in Int
    BY <1>2
  <2> QED BY <1>2, <1>3, <2>1, <2>2 DEF IsRoot
<1> QED BY <1>2, <1>3 DEF k

LEMMA NearestIs ==
    ASSUME NEW n \in Nat
    PROVE  /\ Drawn!Here!Nearest(n) \in Nat
           /\ \A a \in Nat : n <= a * a + a => Drawn!Here!Nearest(n) <= a
<1> DEFINE k == Drawn!Here!Root(n)
<1>1. k \in Nat /\ k * k <= n
  BY RootIs DEF IsRoot
<1>2. Drawn!Here!Nearest(n) = IF n > k * k + k THEN k + 1 ELSE k
  BY DEF Drawn!Here!Nearest
<1> HIDE DEF k
<1>3. ASSUME NEW a \in Nat, n <= a * a + a PROVE Drawn!Here!Nearest(n) <= a
  <2>1. CASE a < k
    <3>1. (a + 1) * (a + 1) <= k * k
      BY <1>1, <2>1, SquaresAscend
    <3>2. (a + 1) * (a + 1) = a * a + 2 * a + 1 /\ a * a \in Int /\ k * k \in Int
      BY <1>1
    <3> QED BY <1>1, <1>3, <3>1, <3>2
  <2>2. CASE a = k
    BY <1>2, <1>3, <2>2
  <2>3. CASE a > k
    BY <1>1, <1>2, <2>3
  <2> QED BY <1>1, <2>1, <2>2, <2>3
<1> QED BY <1>1, <1>2, <1>3

(* The rings of a stroke, here and on the panel. *)
LEMMA SameBands ==
    ASSUME NEW r, NEW dy
    PROVE  /\ Drawn!OnPanel!Outer(r) = Drawn!Here!Outer(r)
           /\ Drawn!OnPanel!Band(r, dy) = Drawn!Here!Band(r, dy)
BY DEF Drawn!OnPanel!Outer, Drawn!Here!Outer, Drawn!OnPanel!Band, Drawn!Here!Band, Drawn!OnPanel!Inner, Drawn!Here!Inner,
       Drawn!OnPanel!Root, Drawn!Here!Root, Drawn!OnPanel!Nearest, Drawn!Here!Nearest, Drawn!OnPanel!Larger, Drawn!Here!Larger

LEMMA RingIs ==
    ASSUME NEW r \in Nat, stroke \in Nat \ {0}
    PROVE  /\ Drawn!Here!Outer(r) \in Nat /\ Drawn!Here!Inner(r) \in Nat
           /\ r <= Drawn!Here!Outer(r) /\ (stroke > 1 => r + 1 <= Drawn!Here!Outer(r))
           /\ Drawn!Here!Inner(r) = 0 \/ Drawn!Here!Inner(r) + 1 <= r
<1>1. stroke \div 2 \in Nat /\ (stroke > 1 => stroke \div 2 >= 1) /\ (stroke + 1) \div 2 \in Nat /\ (stroke + 1) \div 2 >= 1
  OBVIOUS
<1>2. Drawn!Here!Outer(r) = r + stroke \div 2
  BY DEF Drawn!Here!Outer
<1>3. Drawn!Here!Inner(r) = IF 0 > r - (stroke + 1) \div 2 THEN 0 ELSE r - (stroke + 1) \div 2
  BY DEF Drawn!Here!Inner, Drawn!Here!Larger
<1> QED BY <1>1, <1>2, <1>3

(* A row of a ring is an interval that has every column near the circle.     *)
LEMMA BandIs ==
    ASSUME NEW r \in Nat, stroke \in Nat \ {0},
           NEW dy \in -Drawn!Here!Outer(r) .. Drawn!Here!Outer(r)
    PROVE  \E lo, hi \in Nat :
              /\ Drawn!Here!Band(r, dy) = lo .. hi
              /\ \A a \in Nat : stroke > 1 /\ (r = 0 => a = 0) /\ dy \in -r .. r /\ a <= r
                                /\ -r <= a * a + dy * dy - r * r /\ a * a + dy * dy - r * r <= r
                                => a \in lo .. hi
<1> DEFINE o == Drawn!Here!Outer(r)
           i == Drawn!Here!Inner(r)
           n == o * o - dy * dy
           m == i * i - dy * dy
           lo == IF dy * dy < i * i THEN Drawn!Here!Nearest(m) ELSE 0
           hi == Drawn!Here!Root(n)
<1>1. /\ o \in Nat /\ i \in Nat /\ r <= o /\ (stroke > 1 => r + 1 <= o) /\ (i = 0 \/ i + 1 <= r)
      /\ dy \in Int /\ -o <= dy /\ dy <= o
  BY RingIs
<1>2. Drawn!Here!Band(r, dy) = lo .. hi
  BY DEF Drawn!Here!Band
<1> HIDE DEF o, i
<1>3. n \in Nat
  <2>1. PICK b \in Nat : (b = dy \/ b = -dy) /\ b * b = dy * dy
    BY <1>1
  <2>2. b <= o
    BY <1>1, <2>1
  <2>3. PICK d \in Nat : o = b + d
    BY <1>1, <2>2, o - b \in Nat, o = b + (o - b)
  <2>4. o * o = b * b + 2 * (b * d) + d * d /\ b * d \in Nat /\ d * d \in Nat /\ b * b \in Nat
    BY <2>3
  <2> QED BY <2>1, <2>4
<1>4. dy * dy < i * i => m \in Nat
  BY <1>1
<1> HIDE DEF n, m
<1>5. lo \in Nat /\ hi \in Nat
  BY <1>3, <1>4, RootIs, NearestIs
<1>6. ASSUME NEW a \in Nat, stroke > 1, r = 0 => a = 0, dy \in -r .. r, a <= r,
             -r <= a * a + dy * dy - r * r, a * a + dy * dy - r * r <= r
      PROVE  a \in lo .. hi
  <2>1. PICK p \in Int, q \in Int, s \in Int, t \in Int, u \in Int : p = a * a /\ q = dy * dy /\ s = r * r /\ t = o * o /\ u = i * i
    BY <1>1
  <2>2. s + 2 * r + 1 <= t
    <3>1. (r + 1) * (r + 1) <= o * o
      BY <1>1, <1>6, SquaresAscend
    <3>2. (r + 1) * (r + 1) = r * r + 2 * r + 1
      OBVIOUS
    <3> QED BY <2>1, <3>1, <3>2
  <2>3. p <= n
    BY <1>6, <2>1, <2>2 DEF n
  <2>4. a <= hi
    BY <1>3, <2>1, <2>3, RootIs
  <2>5. dy * dy < i * i => m <= a * a + a
    <3> SUFFICES ASSUME dy * dy < i * i PROVE m <= a * a + a
      OBVIOUS
    <3>1. i # 0
      <4>1. dy * dy >= 0
        BY <1>1
      <4> QED BY <4>1
    <3>2. i + 1 <= r
      BY <1>1, <3>1
    <3>3. (i + 1) * (i + 1) <= r * r
      BY <1>1, <3>2, SquaresAscend
    <3>4. (i + 1) * (i + 1) = i * i + 2 * i + 1
      BY <1>1
    <3>5. u + 2 * i + 1 <= s
      BY <2>1, <3>3, <3>4
    <3> QED BY <1>1, <1>6, <2>1, <3>5 DEF m
  <2>6. lo <= a
    BY <1>4, <2>5, NearestIs
  <2> QED BY <1>5, <2>4, <2>6
<1> HIDE DEF lo, hi
<1> QED BY <1>2, <1>5, <1>6

Signs == {-1, 1}
LEMMA SideIs ==
    ASSUME Drawn!ShapesConstants, NEW r \in Nat, stroke \in Nat \ {0},
           NEW dy \in -Drawn!Here!Outer(r) .. Drawn!Here!Outer(r),
           NEW x0 \in Int, NEW y \in Int, NEW sx \in Signs
    PROVE  /\ Drawn!OnPanel!Side(x0, y, r, dy, sx) = Drawn!Here!Side(x0, y, r, dy, sx)
           /\ \A a \in Drawn!Here!Band(r, dy) : Block(x0 + sx * a, y, 1, 1) \subseteq Drawn!Here!Side(x0, y, r, dy, sx)
<1>1. PICK lo \in Nat, hi \in Nat : Drawn!Here!Band(r, dy) = lo .. hi
  BY BandIs
<1>2. CASE lo > hi
  <2>1. Drawn!Here!Band(r, dy) = {} /\ Drawn!OnPanel!Band(r, dy) = {}
    BY <1>1, <1>2, SameBands
  <2> QED BY <2>1 DEF Drawn!OnPanel!Side, Drawn!Here!Side
<1>3. CASE lo <= hi
  <2> DEFINE x == IF sx = 1 THEN x0 + lo ELSE x0 - hi
             w == hi - lo + 1
  <2>1. x \in Int /\ w \in Int
    OBVIOUS
  <2>2. lo .. hi # {}
    <3>1. lo \in lo .. hi
      BY ONLY <1>3, lo \in Nat, hi \in Nat
    <3> QED BY ONLY <3>1
  <2>3. Drawn!Here!Min(lo .. hi) = lo /\ Drawn!Here!Max(lo .. hi) = hi
    BY <1>3 DEF Drawn!Here!Min, Drawn!Here!Max
  <2>4. Drawn!OnPanel!Min(lo .. hi) = lo /\ Drawn!OnPanel!Max(lo .. hi) = hi
    BY <1>3 DEF Drawn!OnPanel!Min, Drawn!OnPanel!Max
  <2>6. Drawn!Here!Side(x0, y, r, dy, sx) = Drawn!Here!WriteFastHLine(x, y, w)
    BY <1>1, <2>2, <2>3 DEF Drawn!Here!Side
  <2>7. Drawn!OnPanel!Side(x0, y, r, dy, sx) = Drawn!OnPanel!WriteFastHLine(x, y, w)
    BY <1>1, <2>2, <2>4, SameBands DEF Drawn!OnPanel!Side
  <2>8. Drawn!Here!Side(x0, y, r, dy, sx) = Block(x, y, w, 1) /\ Drawn!OnPanel!Side(x0, y, r, dy, sx) = Block(x, y, w, 1)
    BY <2>1, <2>6, <2>7, Rowwise
  <2>9. \A a \in lo .. hi : x <= x0 + sx * a /\ x0 + sx * a + 1 <= x + w /\ x0 + sx * a \in Int
    BY DEF Signs
  <2> HIDE DEF x, w
  <2>10. \A u \in Int : x <= u /\ u + 1 <= x + w => Block(u, y, 1, 1) \subseteq Block(x, y, w, 1)
    BY <2>1, GridPoints DEF Block
  <2> QED BY <1>1, <2>8, <2>9, <2>10
<1> QED BY <1>2, <1>3

(* Rings: the same on the panel, and no point near the circle is missing.    *)
LEMMA SameThick ==
    ASSUME Drawn!ShapesConstants, NEW r \in Nat, stroke \in Nat \ {0}, NEW x0 \in Int, NEW y0 \in Int
    PROVE  /\ Drawn!OnPanel!ThickCircle(x0, y0, r) = Drawn!Here!ThickCircle(x0, y0, r)
           /\ \A sx, sy \in Signs : Drawn!OnPanel!ThickArc(x0, y0, r, sx, sy) = Drawn!Here!ThickArc(x0, y0, r, sx, sy)
<1> DEFINE o == Drawn!Here!Outer(r)
<1>1. o \in Nat /\ Drawn!OnPanel!Outer(r) = o
  BY RingIs, SameBands
<1>2. ASSUME NEW y \in Int, NEW dy \in -o .. o, NEW sx \in Signs
      PROVE  Drawn!OnPanel!Side(x0, y, r, dy, sx) = Drawn!Here!Side(x0, y, r, dy, sx)
  BY SideIs
<1>3. Drawn!OnPanel!ThickCircle(x0, y0, r) = Drawn!Here!ThickCircle(x0, y0, r)
  <2>1. \A dy \in -o .. o : /\ Drawn!OnPanel!Side(x0, y0 + dy, r, dy, 1) = Drawn!Here!Side(x0, y0 + dy, r, dy, 1)
                            /\ Drawn!OnPanel!Side(x0, y0 + dy, r, dy, -1) = Drawn!Here!Side(x0, y0 + dy, r, dy, -1)
    BY <1>1, <1>2 DEF Signs
  <2>2. Drawn!OnPanel!ThickCircle(x0, y0, r) =
           UNION {Drawn!OnPanel!Side(x0, y0 + dy, r, dy, 1) \cup Drawn!OnPanel!Side(x0, y0 + dy, r, dy, -1) : dy \in -o .. o}
    BY <1>1 DEF Drawn!OnPanel!ThickCircle
  <2>3. Drawn!Here!ThickCircle(x0, y0, r) =
           UNION {Drawn!Here!Side(x0, y0 + dy, r, dy, 1) \cup Drawn!Here!Side(x0, y0 + dy, r, dy, -1) : dy \in -o .. o}
    BY DEF Drawn!Here!ThickCircle
  <2> HIDE DEF o
  <2> QED BY <2>1, <2>2, <2>3
<1>4. ASSUME NEW sx \in Signs, NEW sy \in Signs
      PROVE  Drawn!OnPanel!ThickArc(x0, y0, r, sx, sy) = Drawn!Here!ThickArc(x0, y0, r, sx, sy)
  <2>1. \A dy \in 0 .. o : Drawn!OnPanel!Side(x0, y0 + sy * dy, r, dy, sx) = Drawn!Here!Side(x0, y0 + sy * dy, r, dy, sx)
    BY <1>1, <1>2 DEF Signs
  <2>2. Drawn!OnPanel!ThickArc(x0, y0, r, sx, sy) = UNION {Drawn!OnPanel!Side(x0, y0 + sy * dy, r, dy, sx) : dy \in 0 .. o}
    BY <1>1 DEF Drawn!OnPanel!ThickArc
  <2>3. Drawn!Here!ThickArc(x0, y0, r, sx, sy) = UNION {Drawn!Here!Side(x0, y0 + sy * dy, r, dy, sx) : dy \in 0 .. o}
    BY DEF Drawn!Here!ThickArc
  <2> HIDE DEF o
  <2> QED BY <2>1, <2>2, <2>3
<1> QED BY <1>3, <1>4

(* A point at a column a and a row b of the circle. *)
OnCircle(a, b, r) == a \in Nat /\ b \in Nat /\ a <= r /\ b <= r /\ Near(a, b, r)

LEMMA RingHas ==
    ASSUME Drawn!ShapesConstants, NEW r \in Nat, stroke \in Nat, stroke > 1, NEW x0 \in Int, NEW y0 \in Int,
           NEW a, NEW b, OnCircle(a, b, r), NEW sx \in Signs, NEW sy \in Signs
    PROVE  /\ Block(x0 + sx * a, y0 + sy * b, 1, 1) \subseteq Drawn!Here!ThickCircle(x0, y0, r)
           /\ Block(x0 + sx * a, y0 + sy * b, 1, 1) \subseteq Drawn!Here!ThickArc(x0, y0, r, sx, sy)
<1> DEFINE o == Drawn!Here!Outer(r)
           dot == Block(x0 + sx * a, y0 + sy * b, 1, 1)
<1>0. stroke \in Nat \ {0}
  OBVIOUS
<1>1. o \in Nat /\ r <= o
  BY <1>0, RingIs
<1>2. a \in Nat /\ b \in Nat /\ a <= r /\ b <= r /\ Near(a, b, r)
  BY DEF OnCircle
<1>3. (sy * b) * (sy * b) = b * b /\ sy * b \in -r .. r /\ sy * b \in Int
  BY <1>2 DEF Signs
<1>4. ASSUME NEW dy \in Int, dy \in -r .. r, dy * dy = b * b, NEW y \in Int
      PROVE  Block(x0 + sx * a, y, 1, 1) \subseteq Drawn!Here!Side(x0, y, r, dy, sx)
  <2>1. dy \in -o .. o
    BY <1>1, <1>4
  <2>2. a \in Drawn!Here!Band(r, dy)
    <3>1. PICK lo, hi \in Nat :
              /\ Drawn!Here!Band(r, dy) = lo .. hi
              /\ \A c \in Nat : stroke > 1 /\ (r = 0 => c = 0) /\ dy \in -r .. r /\ c <= r
                                /\ -r <= c * c + dy * dy - r * r /\ c * c + dy * dy - r * r <= r
                                => c \in lo .. hi
      BY <1>0, <2>1, BandIs
    <3>2. r = 0 => a = 0
      BY <1>2
    <3>3. -r <= a * a + dy * dy - r * r /\ a * a + dy * dy - r * r <= r
      BY ONLY <1>2, <1>4 DEF Near
    <3> QED BY <1>2, <1>4, <3>1, <3>2, <3>3
  <2> QED BY <1>0, <2>1, <2>2, SideIs
<1>5. dot \subseteq Drawn!Here!ThickCircle(x0, y0, r)
  <2>1. dot \subseteq Drawn!Here!Side(x0, y0 + sy * b, r, sy * b, sx)
    BY <1>3, <1>4
  <2>2. sy * b \in -o .. o
    BY <1>1, <1>3
  <2>3. Drawn!Here!ThickCircle(x0, y0, r) =
           UNION {Drawn!Here!Side(x0, y0 + dy, r, dy, 1) \cup Drawn!Here!Side(x0, y0 + dy, r, dy, -1) : dy \in -o .. o}
    BY DEF Drawn!Here!ThickCircle
  <2>4. sx = 1 \/ sx = -1
    BY DEF Signs
  <2> HIDE DEF o, dot
  <2>5. Drawn!Here!Side(x0, y0 + sy * b, r, sy * b, 1) \cup Drawn!Here!Side(x0, y0 + sy * b, r, sy * b, -1)
           \subseteq Drawn!Here!ThickCircle(x0, y0, r)
    BY <2>2, <2>3
  <2> QED BY <2>1, <2>4, <2>5
<1>6. dot \subseteq Drawn!Here!ThickArc(x0, y0, r, sx, sy)
  <2>1. y0 + sy * b \in Int /\ b \in -r .. r /\ b \in 0 .. o
    BY <1>1, <1>2, <1>3
  <2>2. dot \subseteq Drawn!Here!Side(x0, y0 + sy * b, r, b, sx)
    BY <1>2, <1>4, <2>1
  <2>3. Drawn!Here!ThickArc(x0, y0, r, sx, sy) = UNION {Drawn!Here!Side(x0, y0 + sy * dy, r, dy, sx) : dy \in 0 .. o}
    BY DEF Drawn!Here!ThickArc
  <2> HIDE DEF o, dot
  <2> QED BY <2>1, <2>2, <2>3
<1> QED BY <1>5, <1>6

(* The points of a corner. *)
LEMMA CornerIs ==
    ASSUME Drawn!ShapesConstants, NEW r \in Nat, NEW x0 \in Int, NEW y0 \in Int, NEW sx \in Signs, NEW sy \in Signs
    PROVE  /\ Drawn!OnPanel!Corner(x0, y0, r, sx, sy) = Drawn!Here!Corner(x0, y0, r, sx, sy)
           /\ Drawn!Thin!Corner(x0, y0, r, sx, sy) = Drawn!Here!Corner(x0, y0, r, sx, sy)
           /\ \A q \in Drawn!Here!Corner(x0, y0, r, sx, sy) :
                 \E p \in Drawn!Here!Octant(r) :
                    \/ q \in Block(x0 + sx * p[1], y0 + sy * p[2], 1, 1)
                    \/ q \in Block(x0 + sx * p[2], y0 + sy * p[1], 1, 1)
<1> DEFINE dots == UNION {{<<x0 + sx * p[1], y0 + sy * p[2]>>, <<x0 + sx * p[2], y0 + sy * p[1]>>} :
                               p \in Drawn!Here!Octant(r)}
<1>1. /\ Drawn!Here!Corner(x0, y0, r, sx, sy) = dots \cap Grid
      /\ Drawn!OnPanel!Corner(x0, y0, r, sx, sy) = dots \cap Grid
      /\ Drawn!Thin!Corner(x0, y0, r, sx, sy) = dots \cap Grid
  BY OctantPoints, SameGrid DEF Drawn!Here!Corner, Drawn!OnPanel!Corner, Drawn!Thin!Corner
<1>2. ASSUME NEW q \in dots \cap Grid
      PROVE  \E p \in Drawn!Here!Octant(r) :
                    \/ q \in Block(x0 + sx * p[1], y0 + sy * p[2], 1, 1)
                    \/ q \in Block(x0 + sx * p[2], y0 + sy * p[1], 1, 1)
  <2>1. PICK p \in Drawn!Here!Octant(r) : q = <<x0 + sx * p[1], y0 + sy * p[2]>> \/ q = <<x0 + sx * p[2], y0 + sy * p[1]>>
    OBVIOUS
  <2>2. q[1] \in Int /\ q[2] \in Int /\ q \in Grid
    BY GridPoints
  <2> HIDE DEF dots
  <2> QED BY <2>1, <2>2 DEF Block
<1> QED BY <1>1, <1>2

(* Circles: the same on the panel, and the outline is thin where it is. *)
LEMMA OctantOnCircle ==
    ASSUME NEW r \in Nat, NEW p \in Drawn!Here!Octant(r)
    PROVE  /\ r >= 1 /\ p[1] \in Nat /\ p[2] \in Nat /\ p[1] >= 1 /\ p[1] <= r /\ p[2] <= r /\ (r >= 2 => p[2] >= 1)
           /\ OnCircle(p[1], p[2], r) /\ OnCircle(p[2], p[1], r)
<1>1. OnOctant(p, r)
  BY OctantPoints
<1>2. p[1] \in Nat /\ p[2] \in Nat /\ p[1] >= 1 /\ p[1] <= r /\ p[2] <= r /\ (r >= 2 => p[2] >= 1) /\ Near(p[1], p[2], r)
  BY <1>1 DEF OnOctant
<1>3. p[1] * p[1] + p[2] * p[2] = p[2] * p[2] + p[1] * p[1]
  BY <1>2
<1>4. Near(p[2], p[1], r)
  BY <1>2, <1>3 DEF Near
<1> QED BY <1>2, <1>4 DEF OnCircle

ThinCircle(x0, y0, r) ==
    ({<<x0, y0 + r>>, <<x0, y0 - r>>, <<x0 + r, y0>>, <<x0 - r, y0>>} \cap Grid)
    \cup UNION {Drawn!Here!Corner(x0, y0, r, sx, sy) : sx \in Signs, sy \in Signs}

LEMMA CirclesThin ==
    ASSUME Drawn!ShapesConstants, NEW r \in Nat, stroke \in Nat \ {0}, NEW x0 \in Int, NEW y0 \in Int
    PROVE  /\ Drawn!Thin!DrawCircle(x0, y0, r) = ThinCircle(x0, y0, r)
           /\ Drawn!Here!DrawCircle(x0, y0, r) =
                 IF stroke > 1 THEN Drawn!Here!ThickCircle(x0, y0, r) ELSE ThinCircle(x0, y0, r)
           /\ Drawn!OnPanel!DrawCircle(x0, y0, r) = Drawn!Here!DrawCircle(x0, y0, r)
<1>1. \A sx, sy \in Signs : /\ Drawn!OnPanel!Corner(x0, y0, r, sx, sy) = Drawn!Here!Corner(x0, y0, r, sx, sy)
                            /\ Drawn!Thin!Corner(x0, y0, r, sx, sy) = Drawn!Here!Corner(x0, y0, r, sx, sy)
  BY CornerIs
<1> DEFINE ends == {<<x0, y0 + r>>, <<x0, y0 - r>>, <<x0 + r, y0>>, <<x0 - r, y0>>}
           here == UNION {Drawn!Here!Corner(x0, y0, r, sx, sy) : sx \in Signs, sy \in Signs}
           panel == UNION {Drawn!OnPanel!Corner(x0, y0, r, sx, sy) : sx \in Signs, sy \in Signs}
           thin == UNION {Drawn!Thin!Corner(x0, y0, r, sx, sy) : sx \in Signs, sy \in Signs}
<1>2. panel = here /\ thin = here
  BY <1>1
<1>3. ThinCircle(x0, y0, r) = (ends \cap Grid) \cup here
  BY DEF ThinCircle
<1>4. Drawn!Here!DrawCircle(x0, y0, r) =
         IF stroke > 1 THEN Drawn!Here!ThickCircle(x0, y0, r) ELSE Drawn!Here!Pixels(ends) \cup here
  BY DEF Drawn!Here!DrawCircle, Signs
<1>5. Drawn!OnPanel!DrawCircle(x0, y0, r) =
         IF stroke > 1 THEN Drawn!OnPanel!ThickCircle(x0, y0, r) ELSE Drawn!OnPanel!Pixels(ends) \cup panel
  BY DEF Drawn!OnPanel!DrawCircle, Signs
<1>6. Drawn!Thin!DrawCircle(x0, y0, r) = Drawn!Thin!Pixels(ends) \cup thin
  BY DEF Drawn!Thin!DrawCircle, Signs
<1>7. Drawn!OnPanel!ThickCircle(x0, y0, r) = Drawn!Here!ThickCircle(x0, y0, r)
  BY SameThick
<1> HIDE DEF ends, here, panel, thin
<1> QED BY <1>2, <1>3, <1>4, <1>5, <1>6, <1>7, SameGrid

LEMMA CircleWithin ==
    ASSUME Drawn!ShapesConstants, NEW r \in Nat, NEW x0 \in Int, NEW y0 \in Int, NEW picture,
           \A s \in Signs : Block(x0, y0 + s * r, 1, 1) \subseteq picture /\ Block(x0 + s * r, y0, 1, 1) \subseteq picture,
           \A p \in Drawn!Here!Octant(r), sx, sy \in Signs :
              /\ Block(x0 + sx * p[1], y0 + sy * p[2], 1, 1) \subseteq picture
              /\ Block(x0 + sx * p[2], y0 + sy * p[1], 1, 1) \subseteq picture
    PROVE  ThinCircle(x0, y0, r) \subseteq picture
<1>2. ASSUME NEW q \in {<<x0, y0 + r>>, <<x0, y0 - r>>, <<x0 + r, y0>>, <<x0 - r, y0>>} \cap Grid PROVE q \in picture
  <2>1. \A u, v \in Int : q = <<u, v>> => q \in Block(u, v, 1, 1)
    BY <1>2 DEF Block
  <2>2. 1 \in Signs /\ -1 \in Signs /\ 1 * r = r /\ y0 + -1 * r = y0 - r /\ x0 + -1 * r = x0 - r
    BY DEF Signs
  <2>5. /\ Block(x0, y0 + r, 1, 1) \subseteq picture /\ Block(x0, y0 - r, 1, 1) \subseteq picture
        /\ Block(x0 + r, y0, 1, 1) \subseteq picture /\ Block(x0 - r, y0, 1, 1) \subseteq picture
    <3> HIDE DEF Signs
    <3> QED BY <2>2
  <2>6. q = <<x0, y0 + r>> \/ q = <<x0, y0 - r>> \/ q = <<x0 + r, y0>> \/ q = <<x0 - r, y0>>
    OBVIOUS
  <2> QED BY <2>1, <2>5, <2>6
<1>3. ASSUME NEW sx \in Signs, NEW sy \in Signs, NEW q \in Drawn!Here!Corner(x0, y0, r, sx, sy) PROVE q \in picture
  <2>1. PICK p \in Drawn!Here!Octant(r) : \/ q \in Block(x0 + sx * p[1], y0 + sy * p[2], 1, 1)
                                          \/ q \in Block(x0 + sx * p[2], y0 + sy * p[1], 1, 1)
    BY CornerIs
  <2> QED BY <2>1
<1> QED BY <1>2, <1>3 DEF ThinCircle

LEMMA CircleCovered ==
    ASSUME Drawn!ShapesConstants, NEW r \in Nat, stroke \in Nat \ {0}, NEW x0 \in Int, NEW y0 \in Int
    PROVE  Drawn!Thin!DrawCircle(x0, y0, r) \subseteq Drawn!Here!DrawCircle(x0, y0, r)
<1>1. CASE stroke > 1
  <2> DEFINE ring == Drawn!Here!ThickCircle(x0, y0, r)
  <2>0. \A a, b, sx, sy : OnCircle(a, b, r) /\ sx \in Signs /\ sy \in Signs
                             => Block(x0 + sx * a, y0 + sy * b, 1, 1) \subseteq ring
    BY <1>1, RingHas
  <2>a. \A p \in Drawn!Here!Octant(r), sx, sy \in Signs :
              /\ Block(x0 + sx * p[1], y0 + sy * p[2], 1, 1) \subseteq ring
              /\ Block(x0 + sx * p[2], y0 + sy * p[1], 1, 1) \subseteq ring
    BY <2>0, OctantOnCircle
  <2>b. OnCircle(0, r, r) /\ OnCircle(r, 0, r)
    BY DEF OnCircle, Near
  <2>1. ASSUME NEW s \in Signs
        PROVE  Block(x0, y0 + s * r, 1, 1) \subseteq ring /\ Block(x0 + s * r, y0, 1, 1) \subseteq ring
    <3>1. x0 + s * 0 = x0 /\ y0 + s * 0 = y0
      BY DEF Signs
    <3> QED BY <2>0, <2>b, <3>1
  <2>2. ThinCircle(x0, y0, r) \subseteq Drawn!Here!ThickCircle(x0, y0, r)
    BY <2>a, <2>1, CircleWithin
  <2> QED BY <1>1, <2>2, CirclesThin
<1>2. CASE ~(stroke > 1)
  BY <1>2, CirclesThin
<1> QED BY <1>1, <1>2

LEMMA BlockWithin ==
    ASSUME Drawn!ShapesConstants, NEW x \in Int, NEW y \in Int, NEW w \in Int, NEW h \in Int,
           NEW u \in Int, NEW v \in Int, NEW m \in Int, NEW n \in Int,
           u <= x, x + w <= u + m, v <= y, y + h <= v + n
    PROVE  Block(x, y, w, h) \subseteq Block(u, v, m, n)
BY GridPoints DEF Block

(* The columns of a filled circle or corner. *)
LEMMA HelperIs ==
    ASSUME Drawn!ShapesConstants, NEW r \in Nat, NEW x0 \in Int, NEW y0 \in Int, NEW side \in Signs, NEW delta \in Int
    PROVE  /\ Drawn!OnPanel!FillCircleHelper(x0, y0, r, side, delta) = Drawn!Here!FillCircleHelper(x0, y0, r, side, delta)
           /\ \A p \in Drawn!Here!Octant(r) :
                 /\ Block(x0 + side * p[1], y0 - p[2], 1, 2 * p[2] + 1 + delta) \subseteq Drawn!Here!FillCircleHelper(x0, y0, r, side, delta)
                 /\ Block(x0 + side * p[2], y0 - p[1], 1, 2 * p[1] + 1 + delta) \subseteq Drawn!Here!FillCircleHelper(x0, y0, r, side, delta)
           /\ \A q \in Drawn!Here!FillCircleHelper(x0, y0, r, side, delta) :
                 \E p \in Drawn!Here!Octant(r) :
                    \/ q \in Block(x0 + side * p[1], y0 - p[2], 1, 2 * p[2] + 1 + delta)
                    \/ q \in Block(x0 + side * p[2], y0 - p[1], 1, 2 * p[1] + 1 + delta)
<1> DEFINE A(p) == Block(x0 + side * p[1], y0 - p[2], 1, 2 * p[2] + 1 + delta)
           B(p) == Block(x0 + side * p[2], y0 - p[1], 1, 2 * p[1] + 1 + delta)
           octant == Drawn!Here!Octant(r)
<1>1. \A p \in octant :
         /\ x0 + side * p[1] \in Int /\ y0 - p[2] \in Int /\ 2 * p[2] + 1 + delta \in Int
         /\ x0 + side * p[2] \in Int /\ y0 - p[1] \in Int /\ 2 * p[1] + 1 + delta \in Int
  BY OctantOnCircle DEF Signs
<1>2. \A p \in octant :
         /\ Drawn!Here!WriteFastVLine(x0 + side * p[1], y0 - p[2], 2 * p[2] + 1 + delta) = A(p)
         /\ Drawn!Here!WriteFastVLine(x0 + side * p[2], y0 - p[1], 2 * p[1] + 1 + delta) = B(p)
         /\ Drawn!OnPanel!WriteFastVLine(x0 + side * p[1], y0 - p[2], 2 * p[2] + 1 + delta) = A(p)
         /\ Drawn!OnPanel!WriteFastVLine(x0 + side * p[2], y0 - p[1], 2 * p[1] + 1 + delta) = B(p)
  BY <1>1, Columnwise
<1> DEFINE here == Drawn!Here!FillCircleHelper(x0, y0, r, side, delta)
           panel == Drawn!OnPanel!FillCircleHelper(x0, y0, r, side, delta)
<1>3. here = UNION {Drawn!Here!WriteFastVLine(x0 + side * p[1], y0 - p[2], 2 * p[2] + 1 + delta)
                    \cup Drawn!Here!WriteFastVLine(x0 + side * p[2], y0 - p[1], 2 * p[1] + 1 + delta) : p \in octant}
  BY DEF Drawn!Here!FillCircleHelper
<1>4. panel = UNION {Drawn!OnPanel!WriteFastVLine(x0 + side * p[1], y0 - p[2], 2 * p[2] + 1 + delta)
                     \cup Drawn!OnPanel!WriteFastVLine(x0 + side * p[2], y0 - p[1], 2 * p[1] + 1 + delta) : p \in octant}
  BY OctantPoints DEF Drawn!OnPanel!FillCircleHelper
<1> HIDE DEF A, B, octant, here, panel
<1>5. \A q : q \in here <=> \E p \in octant : q \in A(p) \/ q \in B(p)
  BY <1>2, <1>3
<1>6. \A q : q \in panel <=> \E p \in octant : q \in A(p) \/ q \in B(p)
  BY <1>2, <1>4
<1>7. here = panel
  BY <1>5, <1>6
<1>8. \A p \in octant : A(p) \subseteq here /\ B(p) \subseteq here
  BY <1>5
<1> QED BY <1>5, <1>7, <1>8 DEF A, B, octant, here, panel

LEMMA DiskIs ==
    ASSUME Drawn!ShapesConstants, NEW r \in Nat, stroke \in Nat \ {0}, NEW x0 \in Int, NEW y0 \in Int
    PROVE  /\ Drawn!OnPanel!FillCircle(x0, y0, r) = Drawn!Here!FillCircle(x0, y0, r)
           /\ Drawn!Thin!DrawCircle(x0, y0, r) \subseteq Drawn!Here!FillCircle(x0, y0, r)
<1> DEFINE disk == Drawn!Here!FillCircle(x0, y0, r)
           Half(side) == Drawn!Here!FillCircleHelper(x0, y0, r, side, 0)
<1>0. y0 - r \in Int /\ 2 * r + 1 \in Int /\ 1 \in Signs /\ -1 \in Signs /\ \A s \in Signs : s = 1 \/ s = -1
  BY DEF Signs
<1>1. disk = Block(x0, y0 - r, 1, 2 * r + 1) \cup Half(1) \cup Half(-1)
  BY <1>0, Columnwise DEF Drawn!Here!FillCircle
<1>2. Drawn!OnPanel!FillCircle(x0, y0, r) = disk
  BY <1>0, <1>1, Columnwise, HelperIs DEF Drawn!OnPanel!FillCircle
<1>3. \A s \in Signs : Half(s) \subseteq disk
  BY <1>0, <1>1
<1>4. ASSUME NEW s \in Signs, NEW p \in Drawn!Here!Octant(r)
      PROVE  /\ Block(x0 + s * p[1], y0 - p[2], 1, 2 * p[2] + 1) \subseteq disk
             /\ Block(x0 + s * p[2], y0 - p[1], 1, 2 * p[1] + 1) \subseteq disk
  <2>1. 2 * p[1] + 1 + 0 = 2 * p[1] + 1 /\ 2 * p[2] + 1 + 0 = 2 * p[2] + 1
    BY OctantOnCircle
  <2>2. /\ Block(x0 + s * p[1], y0 - p[2], 1, 2 * p[2] + 1 + 0) \subseteq Half(s)
        /\ Block(x0 + s * p[2], y0 - p[1], 1, 2 * p[1] + 1 + 0) \subseteq Half(s)
    BY HelperIs
  <2> HIDE DEF disk, Half
  <2> QED BY <1>3, <2>1, <2>2
<1> HIDE DEF disk, Half
<1>5. ASSUME NEW p \in Drawn!Here!Octant(r), NEW sx \in Signs, NEW sy \in Signs
      PROVE  /\ Block(x0 + sx * p[1], y0 + sy * p[2], 1, 1) \subseteq disk
             /\ Block(x0 + sx * p[2], y0 + sy * p[1], 1, 1) \subseteq disk
  <2>1. PICK a \in Nat, b \in Nat : a = p[1] /\ b = p[2]
    BY OctantOnCircle
  <2>2. Block(x0 + sx * a, y0 - b, 1, 2 * b + 1) \subseteq disk /\ Block(x0 + sx * b, y0 - a, 1, 2 * a + 1) \subseteq disk
    BY <1>4, <2>1
  <2>3. /\ x0 + sx * a \in Int /\ x0 + sx * b \in Int /\ y0 + sy * a \in Int /\ y0 + sy * b \in Int
        /\ y0 - b <= y0 + sy * b /\ y0 + sy * b + 1 <= (y0 - b) + (2 * b + 1)
        /\ y0 - a <= y0 + sy * a /\ y0 + sy * a + 1 <= (y0 - a) + (2 * a + 1)
    BY DEF Signs
  <2>4. /\ Block(x0 + sx * a, y0 + sy * b, 1, 1) \subseteq Block(x0 + sx * a, y0 - b, 1, 2 * b + 1)
        /\ Block(x0 + sx * b, y0 + sy * a, 1, 1) \subseteq Block(x0 + sx * b, y0 - a, 1, 2 * a + 1)
    BY <2>3, BlockWithin
  <2> QED BY <2>1, <2>2, <2>4
<1>6. ASSUME NEW s \in Signs
      PROVE  Block(x0, y0 + s * r, 1, 1) \subseteq disk /\ Block(x0 + s * r, y0, 1, 1) \subseteq disk
  <2>1. y0 + s * r \in Int /\ x0 + s * r \in Int /\ y0 - r <= y0 + s * r /\ y0 + s * r + 1 <= (y0 - r) + (2 * r + 1)
    BY DEF Signs
  <2>2. Block(x0, y0 + s * r, 1, 1) \subseteq Block(x0, y0 - r, 1, 2 * r + 1)
    BY <2>1, BlockWithin
  <2>3. Block(x0 + s * r, y0, 1, 1) \subseteq disk
    <3>1. CASE r = 0
      <4>1. x0 + s * r = x0 /\ y0 + s * r = y0
        BY <3>1 DEF Signs
      <4> QED BY <1>1, <2>2, <4>1
    <3>2. CASE r = 1
      <4>0. FirstPoint(r) \in Drawn!Here!Octant(r)
        BY <3>2, OctantPoints
      <4>1. <<1, 0>> \in Drawn!Here!Octant(r)
        BY <3>2, <4>0 DEF FirstPoint
      <4>2. Block(x0 + s * 1, y0 - 0, 1, 2 * 0 + 1) \subseteq disk
        BY <1>4, <4>1
      <4>3. y0 - 0 = y0 /\ 2 * 0 + 1 = 1
        OBVIOUS
      <4> QED BY <3>2, <4>2, <4>3
    <3>3. CASE r >= 2
      <4>0. FirstPoint(r) \in Drawn!Here!Octant(r)
        BY <3>3, OctantPoints
      <4>1. <<1, r>> \in Drawn!Here!Octant(r)
        BY <3>3, <4>0 DEF FirstPoint
      <4>2. Block(x0 + s * r, y0 - 1, 1, 2 * 1 + 1) \subseteq disk
        BY <1>4, <4>1
      <4>3. Block(x0 + s * r, y0, 1, 1) \subseteq Block(x0 + s * r, y0 - 1, 1, 2 * 1 + 1)
        BY <2>1, BlockWithin
      <4> QED BY <4>2, <4>3
    <3> QED BY <3>1, <3>2, <3>3
  <2> QED BY <1>1, <2>2, <2>3
<1>7. ThinCircle(x0, y0, r) \subseteq disk
  BY <1>5, <1>6, CircleWithin
<1> QED BY <1>2, <1>7, CirclesThin DEF disk

(* A rectangle's outline, and all of it. *)
LEMMA RectIs ==
    ASSUME Drawn!ShapesConstants, stroke \in Nat \ {0}, NEW x \in Int, NEW y \in Int, NEW w \in Int, NEW h \in Int
    PROVE  /\ surface = "panel" => Drawn!OnPanel!DrawRect(x, y, w, h) = Drawn!Here!DrawRect(x, y, w, h)
           /\ surface # "panel" => Drawn!ThinOnPanel!DrawRect(x, y, w, h) = Drawn!Here!DrawRect(x, y, w, h)
           /\ Drawn!Thin!DrawRect(x, y, w, h) \subseteq Drawn!Here!DrawRect(x, y, w, h)
           /\ w > 0 /\ h > 0 => Drawn!Thin!DrawRect(x, y, w, h) \subseteq Block(x, y, w, h)
<1>1. y + h - 1 \in Int /\ x + w - 1 \in Int
  OBVIOUS
<1>2. Drawn!Thin!DrawRect(x, y, w, h) =
         Block(x, y, w, 1) \cup Block(x, y + h - 1, w, 1) \cup Block(x, y, 1, h) \cup Block(x + w - 1, y, 1, h)
  BY <1>1, FastLines DEF Drawn!Thin!DrawRect
<1>3. /\ surface = "panel" => Drawn!OnPanel!DrawRect(x, y, w, h) = Drawn!Here!DrawRect(x, y, w, h)
      /\ surface # "panel" => Drawn!ThinOnPanel!DrawRect(x, y, w, h) = Drawn!Here!DrawRect(x, y, w, h)
  BY <1>1, FastLines DEF Drawn!Here!DrawRect, Drawn!OnPanel!DrawRect, Drawn!ThinOnPanel!DrawRect
<1>4. /\ Block(x, y, w, 1) \subseteq Drawn!Here!DrawFastHLine(x, y, w)
      /\ Block(x, y + h - 1, w, 1) \subseteq Drawn!Here!DrawFastHLine(x, y + h - 1, w)
      /\ Block(x, y, 1, h) \subseteq Drawn!Here!DrawFastVLine(x, y, h)
      /\ Block(x + w - 1, y, 1, h) \subseteq Drawn!Here!DrawFastVLine(x + w - 1, y, h)
  BY <1>1, FastLines
<1>5. Drawn!Thin!DrawRect(x, y, w, h) \subseteq Drawn!Here!DrawRect(x, y, w, h)
  BY <1>2, <1>4 DEF Drawn!Here!DrawRect
<1>6. ASSUME w > 0, h > 0
      PROVE  /\ Block(x, y, w, 1) \subseteq Block(x, y, w, h)
             /\ Block(x, y + h - 1, w, 1) \subseteq Block(x, y, w, h)
             /\ Block(x, y, 1, h) \subseteq Block(x, y, w, h)
             /\ Block(x + w - 1, y, 1, h) \subseteq Block(x, y, w, h)
  BY <1>1, <1>6, BlockWithin
<1> QED BY <1>2, <1>3, <1>5, <1>6

LEMMA InsideIs ==
    ASSUME Drawn!ShapesConstants, NEW x \in Int, NEW y \in Int, NEW w \in Int, NEW h \in Int
    PROVE  Drawn!Here!Pixels((x .. x + w - 1) \X (y .. y + h - 1)) = Block(x, y, w, h)
<1>1. ASSUME NEW q \in Grid
      PROVE  q \in (x .. x + w - 1) \X (y .. y + h - 1) <=> x <= q[1] /\ q[1] < x + w /\ y <= q[2] /\ q[2] < y + h
  BY GridPoints
<1> QED BY <1>1, SameGrid DEF Block

(* The radius of a round corner, no more than half a side. *)
LEMMA ClampedIs ==
    ASSUME NEW w \in Nat, NEW h \in Nat, NEW r0 \in Nat
    PROVE  LET r == Drawn!Here!Clamped(w, h, r0)
           IN  /\ r \in Nat /\ r <= r0 /\ 2 * r <= w /\ 2 * r <= h
               /\ (r0 >= 1 /\ w >= 2 /\ h >= 2) => r >= 1
               /\ Drawn!OnPanel!Clamped(w, h, r0) = r /\ Drawn!Thin!Clamped(w, h, r0) = r
BY DEF Drawn!Here!Clamped, Drawn!Here!Smaller, Drawn!OnPanel!Clamped, Drawn!OnPanel!Smaller, Drawn!Thin!Clamped, Drawn!Thin!Smaller

(* A round rectangle's outline: four sides and four corners. *)
LEMMA CornerOnArc ==
    ASSUME Drawn!ShapesConstants, NEW r \in Nat, stroke \in Nat, stroke > 1, NEW x0 \in Int, NEW y0 \in Int,
           NEW sx \in Signs, NEW sy \in Signs
    PROVE  Drawn!Here!Corner(x0, y0, r, sx, sy) \subseteq Drawn!Here!ThickArc(x0, y0, r, sx, sy)
<1> SUFFICES ASSUME NEW q \in Drawn!Here!Corner(x0, y0, r, sx, sy)
             PROVE  q \in Drawn!Here!ThickArc(x0, y0, r, sx, sy)
  OBVIOUS
<1>1. PICK p \in Drawn!Here!Octant(r) : \/ q \in Block(x0 + sx * p[1], y0 + sy * p[2], 1, 1)
                                        \/ q \in Block(x0 + sx * p[2], y0 + sy * p[1], 1, 1)
  BY CornerIs
<1>2. OnCircle(p[1], p[2], r) /\ OnCircle(p[2], p[1], r)
  BY OctantOnCircle
<1>3. /\ Block(x0 + sx * p[1], y0 + sy * p[2], 1, 1) \subseteq Drawn!Here!ThickArc(x0, y0, r, sx, sy)
      /\ Block(x0 + sx * p[2], y0 + sy * p[1], 1, 1) \subseteq Drawn!Here!ThickArc(x0, y0, r, sx, sy)
  BY <1>2, RingHas
<1> QED BY <1>1, <1>3

Sides(x, y, w, h, r) ==
    Block(x + r, y, w - 2 * r, 1) \cup Block(x + r, y + h - 1, w - 2 * r, 1)
    \cup Block(x, y + r, 1, h - 2 * r) \cup Block(x + w - 1, y + r, 1, h - 2 * r)
ThickSides(x, y, w, h, r) ==
    Block(x + r, y - stroke \div 2, w - 2 * r, stroke) \cup Block(x + r, y + h - 1 - stroke \div 2, w - 2 * r, stroke)
    \cup Block(x - stroke \div 2, y + r, stroke, h - 2 * r) \cup Block(x + w - 1 - stroke \div 2, y + r, stroke, h - 2 * r)

LEMMA RoundIs ==
    ASSUME Drawn!ShapesConstants, stroke \in Nat \ {0}, NEW x \in Int, NEW y \in Int, NEW w \in Nat, NEW h \in Nat, NEW r0 \in Nat
    PROVE  /\ Drawn!OnPanel!DrawRoundRect(x, y, w, h, r0) = Drawn!Here!DrawRoundRect(x, y, w, h, r0)
           /\ Drawn!Thin!DrawRoundRect(x, y, w, h, r0) \subseteq Drawn!Here!DrawRoundRect(x, y, w, h, r0)
           /\ LET r == Drawn!Here!Clamped(w, h, r0)
              IN  Drawn!Thin!DrawRoundRect(x, y, w, h, r0) =
                     Sides(x, y, w, h, r)
                     \cup Drawn!Here!Corner(x + r, y + r, r, -1, -1) \cup Drawn!Here!Corner(x + w - r - 1, y + r, r, 1, -1)
                     \cup Drawn!Here!Corner(x + w - r - 1, y + h - r - 1, r, 1, 1) \cup Drawn!Here!Corner(x + r, y + h - r - 1, r, -1, 1)
<1> DEFINE r == Drawn!Here!Clamped(w, h, r0)
           half == stroke \div 2
<1>1. r \in Nat /\ 2 * r <= w /\ 2 * r <= h /\ Drawn!OnPanel!Clamped(w, h, r0) = r /\ Drawn!Thin!Clamped(w, h, r0) = r
  BY ClampedIs
<1>2. half \in Nat /\ half < stroke /\ -1 \in Signs /\ 1 \in Signs
  BY HalfStroke DEF Signs
<1> HIDE DEF r, half
<1>3. /\ x + r \in Int /\ y + r \in Int /\ x + w - r - 1 \in Int /\ y + h - r - 1 \in Int /\ y + h - 1 \in Int /\ x + w - 1 \in Int
      /\ w - 2 * r \in Int /\ h - 2 * r \in Int /\ y - half \in Int /\ x - half \in Int /\ y + h - 1 - half \in Int /\ x + w - 1 - half \in Int
  BY <1>1, <1>2
<1> DEFINE corners4 ==
             Drawn!Here!Corner(x + r, y + r, r, -1, -1) \cup Drawn!Here!Corner(x + w - r - 1, y + r, r, 1, -1)
             \cup Drawn!Here!Corner(x + w - r - 1, y + h - r - 1, r, 1, 1) \cup Drawn!Here!Corner(x + r, y + h - r - 1, r, -1, 1)
           arcs4 ==
             Drawn!Here!ThickArc(x + r, y + r, r, -1, -1) \cup Drawn!Here!ThickArc(x + w - r - 1, y + r, r, 1, -1)
             \cup Drawn!Here!ThickArc(x + w - r - 1, y + h - r - 1, r, 1, 1) \cup Drawn!Here!ThickArc(x + r, y + h - r - 1, r, -1, 1)
<1>4. Drawn!Thin!DrawRoundRect(x, y, w, h, r0) = Sides(x, y, w, h, r) \cup corners4
  <2>1. /\ Drawn!Thin!Corner(x + r, y + r, r, -1, -1) = Drawn!Here!Corner(x + r, y + r, r, -1, -1)
        /\ Drawn!Thin!Corner(x + w - r - 1, y + r, r, 1, -1) = Drawn!Here!Corner(x + w - r - 1, y + r, r, 1, -1)
        /\ Drawn!Thin!Corner(x + w - r - 1, y + h - r - 1, r, 1, 1) = Drawn!Here!Corner(x + w - r - 1, y + h - r - 1, r, 1, 1)
        /\ Drawn!Thin!Corner(x + r, y + h - r - 1, r, -1, 1) = Drawn!Here!Corner(x + r, y + h - r - 1, r, -1, 1)
    BY <1>1, <1>2, <1>3, CornerIs
  <2>2. /\ Drawn!Thin!WriteFastHLine(x + r, y, w - 2 * r) = Block(x + r, y, w - 2 * r, 1)
        /\ Drawn!Thin!WriteFastHLine(x + r, y + h - 1, w - 2 * r) = Block(x + r, y + h - 1, w - 2 * r, 1)
        /\ Drawn!Thin!WriteFastVLine(x, y + r, h - 2 * r) = Block(x, y + r, 1, h - 2 * r)
        /\ Drawn!Thin!WriteFastVLine(x + w - 1, y + r, h - 2 * r) = Block(x + w - 1, y + r, 1, h - 2 * r)
    BY <1>3, Rowwise, Columnwise
  <2> QED BY <1>1, <2>1, <2>2 DEF Drawn!Thin!DrawRoundRect, Sides
<1>5. CASE stroke = 1
  <2>1. /\ Drawn!OnPanel!Corner(x + r, y + r, r, -1, -1) = Drawn!Here!Corner(x + r, y + r, r, -1, -1)
        /\ Drawn!OnPanel!Corner(x + w - r - 1, y + r, r, 1, -1) = Drawn!Here!Corner(x + w - r - 1, y + r, r, 1, -1)
        /\ Drawn!OnPanel!Corner(x + w - r - 1, y + h - r - 1, r, 1, 1) = Drawn!Here!Corner(x + w - r - 1, y + h - r - 1, r, 1, 1)
        /\ Drawn!OnPanel!Corner(x + r, y + h - r - 1, r, -1, 1) = Drawn!Here!Corner(x + r, y + h - r - 1, r, -1, 1)
    BY <1>1, <1>2, <1>3, CornerIs
  <2>2. /\ Drawn!OnPanel!WriteFastHLine(x + r, y, w - 2 * r) = Block(x + r, y, w - 2 * r, 1)
        /\ Drawn!OnPanel!WriteFastHLine(x + r, y + h - 1, w - 2 * r) = Block(x + r, y + h - 1, w - 2 * r, 1)
        /\ Drawn!OnPanel!WriteFastVLine(x, y + r, h - 2 * r) = Block(x, y + r, 1, h - 2 * r)
        /\ Drawn!OnPanel!WriteFastVLine(x + w - 1, y + r, h - 2 * r) = Block(x + w - 1, y + r, 1, h - 2 * r)
    BY <1>3, Rowwise, Columnwise
  <2>3. /\ Drawn!Here!WriteFastHLine(x + r, y, w - 2 * r) = Block(x + r, y, w - 2 * r, 1)
        /\ Drawn!Here!WriteFastHLine(x + r, y + h - 1, w - 2 * r) = Block(x + r, y + h - 1, w - 2 * r, 1)
        /\ Drawn!Here!WriteFastVLine(x, y + r, h - 2 * r) = Block(x, y + r, 1, h - 2 * r)
        /\ Drawn!Here!WriteFastVLine(x + w - 1, y + r, h - 2 * r) = Block(x + w - 1, y + r, 1, h - 2 * r)
    BY <1>3, Rowwise, Columnwise
  <2>4. ~(stroke > 1)
    BY <1>5
  <2>5. Drawn!Here!DrawRoundRect(x, y, w, h, r0) = Sides(x, y, w, h, r) \cup corners4
    BY <2>3, <2>4 DEF Drawn!Here!DrawRoundRect, Sides, r
  <2>6. Drawn!OnPanel!DrawRoundRect(x, y, w, h, r0) = Sides(x, y, w, h, r) \cup corners4
    BY <1>1, <2>1, <2>2, <2>4 DEF Drawn!OnPanel!DrawRoundRect, Sides
  <2> HIDE DEF corners4
  <2> QED BY <1>4, <2>5, <2>6 DEF corners4, r
<1>6. CASE stroke > 1
  <2>1. /\ Drawn!OnPanel!ThickArc(x + r, y + r, r, -1, -1) = Drawn!Here!ThickArc(x + r, y + r, r, -1, -1)
        /\ Drawn!OnPanel!ThickArc(x + w - r - 1, y + r, r, 1, -1) = Drawn!Here!ThickArc(x + w - r - 1, y + r, r, 1, -1)
        /\ Drawn!OnPanel!ThickArc(x + w - r - 1, y + h - r - 1, r, 1, 1) = Drawn!Here!ThickArc(x + w - r - 1, y + h - r - 1, r, 1, 1)
        /\ Drawn!OnPanel!ThickArc(x + r, y + h - r - 1, r, -1, 1) = Drawn!Here!ThickArc(x + r, y + h - r - 1, r, -1, 1)
    <3>1. \A cx, cy \in Int, sx, sy \in Signs : Drawn!OnPanel!ThickArc(cx, cy, r, sx, sy) = Drawn!Here!ThickArc(cx, cy, r, sx, sy)
      BY <1>1, SameThick
    <3> QED BY ONLY <3>1, <1>2, <1>3
  <2>2. /\ Drawn!OnPanel!WriteFillRect(x + r, y - half, w - 2 * r, stroke) = Block(x + r, y - half, w - 2 * r, stroke)
        /\ Drawn!OnPanel!WriteFillRect(x + r, y + h - 1 - half, w - 2 * r, stroke) = Block(x + r, y + h - 1 - half, w - 2 * r, stroke)
        /\ Drawn!OnPanel!WriteFillRect(x - half, y + r, stroke, h - 2 * r) = Block(x - half, y + r, stroke, h - 2 * r)
        /\ Drawn!OnPanel!WriteFillRect(x + w - 1 - half, y + r, stroke, h - 2 * r) = Block(x + w - 1 - half, y + r, stroke, h - 2 * r)
    BY <1>3, Blockwise
  <2>3. /\ Drawn!Here!WriteFillRect(x + r, y - half, w - 2 * r, stroke) = Block(x + r, y - half, w - 2 * r, stroke)
        /\ Drawn!Here!WriteFillRect(x + r, y + h - 1 - half, w - 2 * r, stroke) = Block(x + r, y + h - 1 - half, w - 2 * r, stroke)
        /\ Drawn!Here!WriteFillRect(x - half, y + r, stroke, h - 2 * r) = Block(x - half, y + r, stroke, h - 2 * r)
        /\ Drawn!Here!WriteFillRect(x + w - 1 - half, y + r, stroke, h - 2 * r) = Block(x + w - 1 - half, y + r, stroke, h - 2 * r)
    BY <1>3, Blockwise
  <2>4. Drawn!Here!DrawRoundRect(x, y, w, h, r0) = ThickSides(x, y, w, h, r) \cup arcs4
    BY <1>6, <2>3 DEF Drawn!Here!DrawRoundRect, ThickSides, r, half
  <2>5. Drawn!OnPanel!DrawRoundRect(x, y, w, h, r0) = ThickSides(x, y, w, h, r) \cup arcs4
    BY <1>1, <1>6, <2>1, <2>2 DEF Drawn!OnPanel!DrawRoundRect, ThickSides, half
  <2>6. corners4 \subseteq arcs4
    <3>1. /\ Drawn!Here!Corner(x + r, y + r, r, -1, -1) \subseteq Drawn!Here!ThickArc(x + r, y + r, r, -1, -1)
          /\ Drawn!Here!Corner(x + w - r - 1, y + r, r, 1, -1) \subseteq Drawn!Here!ThickArc(x + w - r - 1, y + r, r, 1, -1)
          /\ Drawn!Here!Corner(x + w - r - 1, y + h - r - 1, r, 1, 1) \subseteq Drawn!Here!ThickArc(x + w - r - 1, y + h - r - 1, r, 1, 1)
          /\ Drawn!Here!Corner(x + r, y + h - r - 1, r, -1, 1) \subseteq Drawn!Here!ThickArc(x + r, y + h - r - 1, r, -1, 1)
      BY <1>1, <1>2, <1>3, <1>6, CornerOnArc
    <3> QED BY <3>1
  <2> HIDE DEF corners4, arcs4
  <2>7. Sides(x, y, w, h, r) \subseteq ThickSides(x, y, w, h, r)
    <3>1. /\ Block(x + r, y, w - 2 * r, 1) \subseteq Block(x + r, y - half, w - 2 * r, stroke)
          /\ Block(x + r, y + h - 1, w - 2 * r, 1) \subseteq Block(x + r, y + h - 1 - half, w - 2 * r, stroke)
          /\ Block(x, y + r, 1, h - 2 * r) \subseteq Block(x - half, y + r, stroke, h - 2 * r)
          /\ Block(x + w - 1, y + r, 1, h - 2 * r) \subseteq Block(x + w - 1 - half, y + r, stroke, h - 2 * r)
      <4>1. /\ y - half <= y /\ y + 1 <= (y - half) + stroke /\ y + h - 1 - half <= y + h - 1 /\ (y + h - 1) + 1 <= (y + h - 1 - half) + stroke
            /\ x - half <= x /\ x + 1 <= (x - half) + stroke /\ x + w - 1 - half <= x + w - 1 /\ (x + w - 1) + 1 <= (x + w - 1 - half) + stroke
        BY <1>2
      <4>2. Block(x + r, y, w - 2 * r, 1) \subseteq Block(x + r, y - half, w - 2 * r, stroke)
        BY <1>3, <4>1, BlockWithin
      <4>3. Block(x + r, y + h - 1, w - 2 * r, 1) \subseteq Block(x + r, y + h - 1 - half, w - 2 * r, stroke)
        BY <1>3, <4>1, BlockWithin
      <4>4. Block(x, y + r, 1, h - 2 * r) \subseteq Block(x - half, y + r, stroke, h - 2 * r)
        BY <1>3, <4>1, BlockWithin
      <4>5. Block(x + w - 1, y + r, 1, h - 2 * r) \subseteq Block(x + w - 1 - half, y + r, stroke, h - 2 * r)
        BY <1>3, <4>1, BlockWithin
      <4> QED BY <4>2, <4>3, <4>4, <4>5
    <3> QED BY <3>1 DEF Sides, ThickSides, half
  <2> QED BY <1>4, <2>4, <2>5, <2>6, <2>7 DEF corners4, r
<1> QED BY <1>5, <1>6

(* A filled round rectangle is symmetric as well. *)
LEMMA FilledRoundIs ==
    ASSUME Drawn!ShapesConstants, stroke \in Nat \ {0}, NEW x \in Int, NEW y \in Int, NEW w \in Nat, NEW h \in Nat, NEW r0 \in Nat
    PROVE  LET r == Drawn!Here!Clamped(w, h, r0)
           IN  /\ Drawn!Here!FillRoundRect(x, y, w, h, r0) =
                     Block(x + r, y, w - 2 * r, h)
                     \cup Drawn!Here!FillCircleHelper(x + w - r - 1, y + r, r, 1, h - 2 * r - 1)
                     \cup Drawn!Here!FillCircleHelper(x + r, y + r, r, -1, h - 2 * r - 1)
               /\ Drawn!OnPanel!FillRoundRect(x, y, w, h, r0) = Drawn!Here!FillRoundRect(x, y, w, h, r0)
               /\ Drawn!Here!FillRoundRect(x, y, w, h, r0) \subseteq Block(x, y, w, h)
<1> DEFINE r == Drawn!Here!Clamped(w, h, r0)
<1>1. r \in Nat /\ 2 * r <= w /\ 2 * r <= h /\ Drawn!OnPanel!Clamped(w, h, r0) = r
  BY ClampedIs
<1>2. -1 \in Signs /\ 1 \in Signs
  BY DEF Signs
<1> HIDE DEF r
<1>3. x + r \in Int /\ y + r \in Int /\ x + w - r - 1 \in Int /\ w - 2 * r \in Int /\ h - 2 * r - 1 \in Int
  BY <1>1
<1> DEFINE right == Drawn!Here!FillCircleHelper(x + w - r - 1, y + r, r, 1, h - 2 * r - 1)
           left == Drawn!Here!FillCircleHelper(x + r, y + r, r, -1, h - 2 * r - 1)
<1>4. /\ Drawn!OnPanel!FillCircleHelper(x + w - r - 1, y + r, r, 1, h - 2 * r - 1) = right
      /\ Drawn!OnPanel!FillCircleHelper(x + r, y + r, r, -1, h - 2 * r - 1) = left
  BY <1>1, <1>2, <1>3, HelperIs
<1>5. /\ Drawn!Here!WriteFillRect(x + r, y, w - 2 * r, h) = Block(x + r, y, w - 2 * r, h)
      /\ Drawn!OnPanel!WriteFillRect(x + r, y, w - 2 * r, h) = Block(x + r, y, w - 2 * r, h)
  BY <1>3, Blockwise
<1>6. Drawn!Here!FillRoundRect(x, y, w, h, r0) = Block(x + r, y, w - 2 * r, h) \cup right \cup left
  BY <1>5 DEF Drawn!Here!FillRoundRect, r
<1>7. Drawn!OnPanel!FillRoundRect(x, y, w, h, r0) = Block(x + r, y, w - 2 * r, h) \cup right \cup left
  BY <1>1, <1>4, <1>5 DEF Drawn!OnPanel!FillRoundRect
<1>8. Block(x + r, y, w - 2 * r, h) \subseteq Block(x, y, w, h)
  BY <1>1, <1>3, BlockWithin
<1>9. ASSUME NEW side \in Signs, NEW x0 \in Int, NEW q \in Drawn!Here!FillCircleHelper(x0, y + r, r, side, h - 2 * r - 1),
             side = 1 => x0 = x + w - r - 1, side = -1 => x0 = x + r
      PROVE  q \in Block(x, y, w, h)
  <2>1. PICK p \in Drawn!Here!Octant(r) :
               \/ q \in Block(x0 + side * p[1], (y + r) - p[2], 1, 2 * p[2] + 1 + (h - 2 * r - 1))
               \/ q \in Block(x0 + side * p[2], (y + r) - p[1], 1, 2 * p[1] + 1 + (h - 2 * r - 1))
    BY <1>1, <1>3, HelperIs
  <2>2. PICK a \in Nat, b \in Nat : a = p[1] /\ b = p[2] /\ a <= r /\ b <= r /\ r >= 1
    BY <1>1, OctantOnCircle
  <2>3. /\ x0 + side * a \in Int /\ x0 + side * b \in Int
        /\ x <= x0 + side * a /\ x0 + side * a + 1 <= x + w /\ x <= x0 + side * b /\ x0 + side * b + 1 <= x + w
    <3>1. CASE side = 1
      <4>1. x0 = x + w - r - 1 /\ side * a = a /\ side * b = b
        BY <1>9, <3>1
      <4> QED BY ONLY <4>1, <1>1, <2>2, x \in Int, w \in Nat
    <3>2. CASE side = -1
      <4>1. x0 = x + r /\ side * a = -a /\ side * b = -b
        BY <1>9, <3>2
      <4> QED BY ONLY <4>1, <1>1, <2>2, x \in Int, w \in Nat
    <3> QED BY <3>1, <3>2 DEF Signs
  <2>4. Block(x0 + side * a, (y + r) - b, 1, 2 * b + 1 + (h - 2 * r - 1)) \subseteq Block(x, y, w, h)
    BY <1>1, <2>2, <2>3, BlockWithin
  <2>5. Block(x0 + side * b, (y + r) - a, 1, 2 * a + 1 + (h - 2 * r - 1)) \subseteq Block(x, y, w, h)
    BY <1>1, <2>2, <2>3, BlockWithin
  <2> QED BY <2>1, <2>2, <2>4, <2>5
<1>10. right \subseteq Block(x, y, w, h) /\ left \subseteq Block(x, y, w, h)
  <2>1. 1 # -1
    OBVIOUS
  <2> QED BY <1>2, <1>3, <1>9, <2>1
<1> HIDE DEF right, left
<1> QED BY <1>6, <1>7, <1>8, <1>10 DEF right, left, r

(* The columns left unpainted when it is two pixels high. *)
Bare(x, y, w, h, r0) ==
    IF h = 2 /\ r0 > 0 THEN Drawn!Here!Pixels({x, x + w - 1} \X (y .. y + h - 1)) ELSE {}

LEMMA DotIs ==
    ASSUME Drawn!ShapesConstants, NEW u \in Int, NEW v \in Int, NEW q \in Block(u, v, 1, 1)
    PROVE  q \in Grid /\ q[1] \in Int /\ q[2] \in Int /\ q = <<q[1], q[2]>> /\ q[1] = u /\ q[2] = v
<1>1. q \in Grid /\ u <= q[1] /\ q[1] < u + 1 /\ v <= q[2] /\ q[2] < v + 1
  BY DEF Block
<1>2. q[1] \in Int /\ q[2] \in Int /\ q = <<q[1], q[2]>>
  BY <1>1, GridPoints
<1> QED BY <1>1, <1>2

LEMMA FilledCorner ==
    ASSUME Drawn!ShapesConstants, NEW x \in Int, NEW y \in Int, NEW w \in Nat, NEW h \in Nat, NEW r0 \in Nat,
           NEW r \in Nat, r <= r0, 2 * r <= w, 2 * r <= h, NEW side \in Signs, NEW sy \in Signs, NEW x0 \in Int, NEW y0 \in Int,
           side = 1 => x0 = x + w - r - 1, side = -1 => x0 = x + r,
           sy = 1 => y0 = y + h - r - 1, sy = -1 => y0 = y + r
    PROVE  Drawn!Here!Corner(x0, y0, r, side, sy) \ Bare(x, y, w, h, r0)
              \subseteq Drawn!Here!FillCircleHelper(x0, y + r, r, side, h - 2 * r - 1)
<1> DEFINE picture == Drawn!Here!FillCircleHelper(x0, y + r, r, side, h - 2 * r - 1)
<1> SUFFICES ASSUME NEW q \in Drawn!Here!Corner(x0, y0, r, side, sy), q \notin Bare(x, y, w, h, r0)
             PROVE  q \in picture
  OBVIOUS
<1>1. PICK p \in Drawn!Here!Octant(r) : \/ q \in Block(x0 + side * p[1], y0 + sy * p[2], 1, 1)
                                        \/ q \in Block(x0 + side * p[2], y0 + sy * p[1], 1, 1)
  BY CornerIs
<1>2. r >= 1 /\ p[1] \in Nat /\ p[2] \in Nat /\ p[1] >= 1 /\ p[1] <= r /\ p[2] <= r /\ (r >= 2 => p[2] >= 1)
  BY OctantOnCircle
<1>3. h - 2 * r - 1 \in Int /\ y + r \in Int
  OBVIOUS
<1>4. /\ Block(x0 + side * p[1], (y + r) - p[2], 1, 2 * p[2] + 1 + (h - 2 * r - 1)) \subseteq picture
      /\ Block(x0 + side * p[2], (y + r) - p[1], 1, 2 * p[1] + 1 + (h - 2 * r - 1)) \subseteq picture
  BY <1>3, HelperIs
<1> HIDE DEF picture
<1>5. PICK a \in Nat, b \in Nat : a = p[1] /\ b = p[2]
  BY <1>2
<1>6. x0 + side * a \in Int /\ x0 + side * b \in Int /\ y0 + sy * a \in Int /\ y0 + sy * b \in Int
  BY DEF Signs
<1>7. CASE q \in Block(x0 + side * b, y0 + sy * a, 1, 1)
  <2>1. (y + r) - a <= y0 + sy * a /\ y0 + sy * a + 1 <= ((y + r) - a) + (2 * a + 1 + (h - 2 * r - 1))
    BY <1>2, <1>5 DEF Signs
  <2>2. Block(x0 + side * b, y0 + sy * a, 1, 1) \subseteq Block(x0 + side * b, (y + r) - a, 1, 2 * a + 1 + (h - 2 * r - 1))
    BY <1>6, <2>1, BlockWithin
  <2> QED BY <1>4, <1>5, <1>7, <2>2
<1>8. CASE q \in Block(x0 + side * a, y0 + sy * b, 1, 1) /\ 2 * b + h - 2 * r >= 1
  <2>1. (y + r) - b <= y0 + sy * b /\ y0 + sy * b + 1 <= ((y + r) - b) + (2 * b + 1 + (h - 2 * r - 1))
    BY <1>2, <1>5, <1>8 DEF Signs
  <2>2. Block(x0 + side * a, y0 + sy * b, 1, 1) \subseteq Block(x0 + side * a, (y + r) - b, 1, 2 * b + 1 + (h - 2 * r - 1))
    BY <1>6, <2>1, BlockWithin
  <2> QED BY <1>4, <1>5, <1>8, <2>2
<1>9. CASE q \in Block(x0 + side * a, y0 + sy * b, 1, 1) /\ ~(2 * b + h - 2 * r >= 1)
  <2>1. b = 0 /\ h = 2 * r
    BY <1>9
  <2>2. r = 1 /\ a = 1 /\ h = 2 /\ r0 > 0
    BY <1>2, <1>5, <2>1
  <2>3. x0 + side * a \in {x, x + w - 1} /\ y0 + sy * b \in y .. y + h - 1
    BY <2>1, <2>2 DEF Signs
  <2>4. q \in Grid /\ q[1] \in Int /\ q[2] \in Int /\ q = <<q[1], q[2]>> /\ q[1] = x0 + side * a /\ q[2] = y0 + sy * b
    BY <1>6, <1>9, DotIs
  <2>5. q \in {x, x + w - 1} \X (y .. y + h - 1)
    BY <2>3, <2>4
  <2>6. q \in Bare(x, y, w, h, r0)
    BY <2>2, <2>4, <2>5, SameGrid DEF Bare
  <2> QED BY <2>6
<1> QED BY <1>1, <1>5, <1>7, <1>8, <1>9

LEMMA FilledSide ==
    ASSUME Drawn!ShapesConstants, NEW x \in Int, NEW y \in Int, NEW w \in Nat, NEW h \in Nat, w > 0, h > 0,
           NEW r \in Nat, r >= 1, 2 * r <= w, 2 * r <= h, NEW side \in Signs, NEW x0 \in Int
    PROVE  Block(x0 + side * r, y + r, 1, h - 2 * r) \subseteq Drawn!Here!FillCircleHelper(x0, y + r, r, side, h - 2 * r - 1)
<1> DEFINE picture == Drawn!Here!FillCircleHelper(x0, y + r, r, side, h - 2 * r - 1)
<1>1. FirstPoint(r) \in Drawn!Here!Octant(r)
  BY OctantPoints
<1>2. h - 2 * r - 1 \in Int /\ y + r \in Int /\ x0 + side * r \in Int
  BY DEF Signs
<1>3. /\ Block(x0 + side * FirstPoint(r)[1], (y + r) - FirstPoint(r)[2], 1, 2 * FirstPoint(r)[2] + 1 + (h - 2 * r - 1)) \subseteq picture
      /\ Block(x0 + side * FirstPoint(r)[2], (y + r) - FirstPoint(r)[1], 1, 2 * FirstPoint(r)[1] + 1 + (h - 2 * r - 1)) \subseteq picture
  BY <1>1, <1>2, HelperIs
<1> HIDE DEF picture
<1>4. CASE r = 1
  <2>1. FirstPoint(r)[1] = 1 /\ FirstPoint(r)[2] = 0
    BY <1>4 DEF FirstPoint
  <2>2. Block(x0 + side * 1, (y + r) - 0, 1, 2 * 0 + 1 + (h - 2 * r - 1)) \subseteq picture
    BY <1>3, <2>1
  <2>3. (y + r) - 0 = y + r /\ 2 * 0 + 1 + (h - 2 * r - 1) = h - 2 * r
    OBVIOUS
  <2> QED BY <1>4, <2>2, <2>3 DEF picture
<1>5. CASE r >= 2
  <2>1. FirstPoint(r)[1] = 1 /\ FirstPoint(r)[2] = r
    BY <1>5 DEF FirstPoint
  <2>2. Block(x0 + side * r, (y + r) - 1, 1, 2 * 1 + 1 + (h - 2 * r - 1)) \subseteq picture
    BY <1>3, <2>1
  <2>3. Block(x0 + side * r, y + r, 1, h - 2 * r) \subseteq Block(x0 + side * r, (y + r) - 1, 1, 2 * 1 + 1 + (h - 2 * r - 1))
    BY <1>2, BlockWithin
  <2> QED BY <2>2, <2>3 DEF picture
<1> QED BY <1>4, <1>5

LEMMA FilledCovers ==
    ASSUME Drawn!ShapesConstants, stroke \in Nat \ {0}, NEW x \in Int, NEW y \in Int, NEW w \in Nat, NEW h \in Nat, NEW r0 \in Nat,
           w > 0, h > 0
    PROVE  Drawn!Thin!DrawRoundRect(x, y, w, h, r0) \ Bare(x, y, w, h, r0) \subseteq Drawn!Here!FillRoundRect(x, y, w, h, r0)
<1> DEFINE r == Drawn!Here!Clamped(w, h, r0)
           middle == Block(x + r, y, w - 2 * r, h)
           right == Drawn!Here!FillCircleHelper(x + w - r - 1, y + r, r, 1, h - 2 * r - 1)
           left == Drawn!Here!FillCircleHelper(x + r, y + r, r, -1, h - 2 * r - 1)
           bare == Bare(x, y, w, h, r0)
<1>1. r \in Nat /\ r <= r0 /\ 2 * r <= w /\ 2 * r <= h
  BY ClampedIs
<1>2. -1 \in Signs /\ 1 \in Signs /\ 1 # -1
  BY DEF Signs
<1>3. Drawn!Here!FillRoundRect(x, y, w, h, r0) = middle \cup right \cup left
  BY FilledRoundIs
<1>4. Drawn!Thin!DrawRoundRect(x, y, w, h, r0) =
         Sides(x, y, w, h, r)
         \cup Drawn!Here!Corner(x + r, y + r, r, -1, -1) \cup Drawn!Here!Corner(x + w - r - 1, y + r, r, 1, -1)
         \cup Drawn!Here!Corner(x + w - r - 1, y + h - r - 1, r, 1, 1) \cup Drawn!Here!Corner(x + r, y + h - r - 1, r, -1, 1)
  BY RoundIs
<1> HIDE DEF r
<1>5. x + r \in Int /\ y + r \in Int /\ x + w - r - 1 \in Int /\ y + h - r - 1 \in Int /\ w - 2 * r \in Int /\ h - 2 * r \in Int
  BY <1>1
<1>6. /\ Drawn!Here!Corner(x + r, y + r, r, -1, -1) \ bare \subseteq left
      /\ Drawn!Here!Corner(x + r, y + h - r - 1, r, -1, 1) \ bare \subseteq left
  BY <1>1, <1>2, <1>5, FilledCorner
<1>7. /\ Drawn!Here!Corner(x + w - r - 1, y + r, r, 1, -1) \ bare \subseteq right
      /\ Drawn!Here!Corner(x + w - r - 1, y + h - r - 1, r, 1, 1) \ bare \subseteq right
  BY <1>1, <1>2, <1>5, FilledCorner
<1>8. Block(x + r, y, w - 2 * r, 1) \subseteq middle /\ Block(x + r, y + h - 1, w - 2 * r, 1) \subseteq middle
  BY <1>1, <1>5, BlockWithin
<1>9. Block(x, y + r, 1, h - 2 * r) \subseteq middle \cup left
  <2>1. CASE r = 0
    <3>1. Block(x, y + r, 1, h - 2 * r) \subseteq middle
      BY <1>1, <1>5, <2>1, BlockWithin
    <3> QED BY <3>1
  <2>2. CASE r >= 1
    <3>1. Block((x + r) + (-1) * r, y + r, 1, h - 2 * r) \subseteq left
      BY <1>1, <1>2, <1>5, <2>2, FilledSide
    <3>2. (x + r) + (-1) * r = x
      BY <1>1
    <3> QED BY <3>1, <3>2
  <2> QED BY <1>1, <2>1, <2>2
<1>10. Block(x + w - 1, y + r, 1, h - 2 * r) \subseteq middle \cup right
  <2>1. CASE r = 0
    <3>1. Block(x + w - 1, y + r, 1, h - 2 * r) \subseteq middle
      BY <1>1, <1>5, <2>1, BlockWithin
    <3> QED BY <3>1
  <2>2. CASE r >= 1
    <3>1. Block((x + w - r - 1) + 1 * r, y + r, 1, h - 2 * r) \subseteq right
      BY <1>1, <1>2, <1>5, <2>2, FilledSide
    <3>2. (x + w - r - 1) + 1 * r = x + w - 1
      BY <1>1
    <3> QED BY <3>1, <3>2
  <2> QED BY <1>1, <2>1, <2>2
<1> HIDE DEF middle, right, left, bare
<1>11. Sides(x, y, w, h, r) \subseteq middle \cup right \cup left
  BY <1>8, <1>9, <1>10 DEF Sides
<1>12. Drawn!Thin!DrawRoundRect(x, y, w, h, r0) \ bare \subseteq middle \cup right \cup left
  BY <1>4, <1>6, <1>7, <1>11
<1> QED BY <1>3, <1>12 DEF bare

(* Lines do not see the surface. *)
LEMMA LinesAgree ==
    ASSUME NEW t
    PROVE  Drawn!OnPanel!DrawTriangle(t) = Drawn!Here!DrawTriangle(t)
<1>1. \A p, q : Drawn!OnPanel!WriteLine(p, q) = Drawn!Here!WriteLine(p, q)
  BY DEF Drawn!OnPanel!WriteLine, Drawn!Here!WriteLine, Drawn!OnPanel!Pixels, Drawn!Here!Pixels, Drawn!OnPanel!Screen, Drawn!Here!Screen,
         Drawn!OnPanel!Abs, Drawn!Here!Abs, Drawn!OnPanel!Dist, Drawn!Here!Dist,
         Drawn!OnPanel!Larger, Drawn!Here!Larger, Drawn!OnPanel!Smaller, Drawn!Here!Smaller
<1> QED BY <1>1 DEF Drawn!OnPanel!DrawTriangle, Drawn!Here!DrawTriangle

(* A triangle's corners from the highest to the lowest. *)
Triangles == [1 .. 3 -> Int \X Int]
Exchanged(s, i) == IF s[i][2] > s[i + 1][2] THEN [s EXCEPT ![i] = s[i + 1], ![i + 1] = s[i]] ELSE s
SameCorners(s, t) == \A i \in 1 .. 3 : (\E j \in 1 .. 3 : t[i] = s[j]) /\ (\E j \in 1 .. 3 : s[i] = t[j])

LEMMA ExchangedIs ==
    ASSUME NEW s \in Triangles, NEW i \in 1 .. 2
    PROVE  /\ Exchanged(s, i) \in Triangles /\ SameCorners(Exchanged(s, i), s)
           /\ Exchanged(s, i)[i][2] <= Exchanged(s, i)[i + 1][2]
           /\ i = 1 => /\ Exchanged(s, i)[3] = s[3]
                       /\ \A c \in Int : s[1][2] <= c /\ s[2][2] <= c
                                         => Exchanged(s, i)[1][2] <= c /\ Exchanged(s, i)[2][2] <= c
           /\ i = 2 => Exchanged(s, i)[1] = s[1] /\ s[2][2] <= Exchanged(s, i)[3][2] /\ s[3][2] <= Exchanged(s, i)[3][2]
<1>1. s \in [1 .. 3 -> Int \X Int] /\ \A j \in 1 .. 3 : s[j][2] \in Int /\ s[j] \in Int \X Int
  BY DEF Triangles
<1> DEFINE swapped == [s EXCEPT ![i] = s[i + 1], ![i + 1] = s[i]]
<1>2. /\ swapped \in Triangles /\ swapped[i] = s[i + 1] /\ swapped[i + 1] = s[i]
      /\ i = 1 => swapped[3] = s[3]
      /\ i = 2 => swapped[1] = s[1]
  BY <1>1 DEF Triangles
<1> HIDE DEF swapped
<1>3. i = 1 \/ i = 2
  OBVIOUS
<1>4. SameCorners(swapped, s) /\ SameCorners(s, s)
  <2>1. CASE i = 1
    <3>1. swapped[1] = s[2] /\ swapped[2] = s[1] /\ swapped[3] = s[3]
      BY <1>2, <2>1
    <3> QED BY <3>1 DEF SameCorners
  <2>2. CASE i = 2
    <3>1. swapped[2] = s[3] /\ swapped[3] = s[2] /\ swapped[1] = s[1]
      BY <1>2, <2>2
    <3> QED BY <3>1 DEF SameCorners
  <2> QED BY <1>3, <2>1, <2>2
<1>5. Exchanged(s, i) = IF s[i][2] > s[i + 1][2] THEN swapped ELSE s
  BY DEF Exchanged, swapped
<1>6. CASE s[i][2] > s[i + 1][2]
  BY <1>1, <1>2, <1>3, <1>4, <1>5, <1>6
<1>7. CASE ~(s[i][2] > s[i + 1][2])
  BY <1>1, <1>2, <1>3, <1>4, <1>5, <1>7
<1> QED BY <1>6, <1>7

LEMMA SortedIs ==
    ASSUME NEW t \in Triangles
    PROVE  LET s == Drawn!Here!Sorted(t)
           IN  /\ Drawn!OnPanel!Sorted(t) = s /\ Drawn!ThinOnPanel!Sorted(t) = s /\ s \in Triangles /\ SameCorners(s, t)
               /\ s[1][2] <= s[2][2] /\ s[2][2] <= s[3][2]
<1>1. /\ Drawn!Here!Sorted(t) = Exchanged(Exchanged(Exchanged(t, 1), 2), 1)
      /\ Drawn!OnPanel!Sorted(t) = Exchanged(Exchanged(Exchanged(t, 1), 2), 1)
      /\ Drawn!ThinOnPanel!Sorted(t) = Exchanged(Exchanged(Exchanged(t, 1), 2), 1)
  BY DEF Drawn!Here!Sorted, Drawn!OnPanel!Sorted, Drawn!ThinOnPanel!Sorted, Exchanged
<1> DEFINE a == Exchanged(t, 1)
           b == Exchanged(a, 2)
           c == Exchanged(b, 1)
<1>2. a \in Triangles /\ SameCorners(a, t) /\ a[1][2] <= a[2][2]
  BY ExchangedIs
<1> HIDE DEF a
<1>3. b \in Triangles /\ SameCorners(b, a) /\ b[2][2] <= b[3][2] /\ b[1] = a[1] /\ a[2][2] <= b[3][2]
  BY <1>2, ExchangedIs
<1> HIDE DEF b
<1>4. b[3][2] \in Int /\ b[1][2] \in Int /\ a[1][2] \in Int /\ a[2][2] \in Int
  BY <1>2, <1>3 DEF Triangles
<1>5. b[1][2] <= b[3][2]
  BY <1>2, <1>3, <1>4
<1>6. /\ c \in Triangles /\ SameCorners(c, b) /\ c[1][2] <= c[2][2] /\ c[3] = b[3]
      /\ \A n \in Int : b[1][2] <= n /\ b[2][2] <= n => c[1][2] <= n /\ c[2][2] <= n
  BY <1>3, ExchangedIs
<1> HIDE DEF c
<1>7. c[2][2] <= c[3][2]
  BY <1>3, <1>4, <1>5, <1>6
<1>8. SameCorners(c, t)
  BY <1>2, <1>3, <1>6 DEF SameCorners
<1> QED BY <1>1, <1>6, <1>7, <1>8 DEF a, b, c

(* An edge of it begins and ends in its corners. *)
EdgeOf(p, q, y) == p[1] + Drawn!Here!Quot((q[1] - p[1]) * (y - p[2]), q[2] - p[2])

LEMMA QuotIs ==
    ASSUME NEW n \in Int, NEW k \in Int, k > 0
    PROVE  Drawn!Here!Quot(n, k) \in Int /\ Drawn!Here!Quot(n * k, k) = n /\ Drawn!Here!Quot(0, k) = 0
<1>1. ASSUME NEW m \in Int
      PROVE  /\ Drawn!Here!Abs(m) = IF m < 0 THEN -m ELSE m
             /\ Drawn!Here!Quot(m, k) = IF m < 0 THEN -((-m) \div k) ELSE m \div k
  BY DEF Drawn!Here!Quot, Drawn!Here!Abs, Drawn!Here!Dist, Drawn!Here!Larger, Drawn!Here!Smaller
<1>2. ASSUME NEW m \in Nat
      PROVE  (m * k) \div k = m /\ m \div k \in Int
  OBVIOUS
<1>3. Drawn!Here!Quot(n, k) \in Int
  BY <1>1, <1>2
<1>4. Drawn!Here!Quot(n * k, k) = n
  <2>1. CASE n >= 0
    <3>1. n * k >= 0 /\ n * k \in Int
      BY <2>1
    <3> QED BY <1>1, <1>2, <2>1, <3>1
  <2>2. CASE n < 0
    <3>1. n * k < 0 /\ n * k \in Int /\ -(n * k) = (-n) * k
      BY <2>2
    <3> QED BY <1>1, <1>2, <2>2, <3>1
  <2> QED BY <2>1, <2>2
<1>5. Drawn!Here!Quot(0, k) = 0
  BY <1>1, <1>2
<1> QED BY <1>3, <1>4, <1>5

LEMMA EdgeIs ==
    ASSUME NEW p \in Int \X Int, NEW q \in Int \X Int, p[2] < q[2], NEW y \in Int
    PROVE  EdgeOf(p, q, y) \in Int /\ EdgeOf(p, q, p[2]) = p[1] /\ EdgeOf(p, q, q[2]) = q[1]
<1> DEFINE k == q[2] - p[2]
           d == q[1] - p[1]
<1>1. k \in Int /\ k > 0 /\ d \in Int /\ p[1] \in Int /\ q[1] \in Int /\ d * (y - p[2]) \in Int /\ d * (p[2] - p[2]) = 0
  OBVIOUS
<1>2. EdgeOf(p, q, y) = p[1] + Drawn!Here!Quot(d * (y - p[2]), k)
  BY DEF EdgeOf
<1>3. EdgeOf(p, q, p[2]) = p[1] + Drawn!Here!Quot(0, k)
  BY <1>1 DEF EdgeOf
<1>4. EdgeOf(p, q, q[2]) = p[1] + Drawn!Here!Quot(d * k, k)
  BY DEF EdgeOf
<1>5. p[1] + d = q[1]
  OBVIOUS
<1> HIDE DEF k, d
<1>6. /\ Drawn!Here!Quot(d * (y - p[2]), k) \in Int /\ Drawn!Here!Quot(0, k) = 0 /\ Drawn!Here!Quot(d * k, k) = d
  BY <1>1, QuotIs
<1> QED BY <1>1, <1>2, <1>3, <1>4, <1>5, <1>6

(* A row of it, from one column to another. *)
RowOf(a, b, y) == Block(Drawn!Here!Smaller(a, b), y, Drawn!Here!Abs(a - b) + 1, 1)

LEMMA RowIs ==
    ASSUME Drawn!ShapesConstants, NEW a \in Int, NEW b \in Int, NEW y \in Int
    PROVE  /\ Drawn!Here!WriteFastHLine(Drawn!Here!Smaller(a, b), y, Drawn!Here!Abs(a - b) + 1) = RowOf(a, b, y)
           /\ Drawn!OnPanel!WriteFastHLine(Drawn!OnPanel!Smaller(a, b), y, Drawn!OnPanel!Abs(a - b) + 1) = RowOf(a, b, y)
           /\ Block(a, y, 1, 1) \subseteq RowOf(a, b, y) /\ Block(b, y, 1, 1) \subseteq RowOf(a, b, y)
<1>1. /\ Drawn!OnPanel!Smaller(a, b) = Drawn!Here!Smaller(a, b) /\ Drawn!OnPanel!Abs(a - b) = Drawn!Here!Abs(a - b)
  BY DEF Drawn!OnPanel!Smaller, Drawn!OnPanel!Abs, Drawn!OnPanel!Dist, Drawn!OnPanel!Larger,
         Drawn!Here!Smaller, Drawn!Here!Abs, Drawn!Here!Dist, Drawn!Here!Larger
<1> DEFINE x == Drawn!Here!Smaller(a, b)
           w == Drawn!Here!Abs(a - b) + 1
<1>2. x \in Int /\ w \in Int /\ x <= a /\ a + 1 <= x + w /\ x <= b /\ b + 1 <= x + w
  BY DEF Drawn!Here!Smaller, Drawn!Here!Abs, Drawn!Here!Dist, Drawn!Here!Larger
<1> HIDE DEF x, w
<1>3. Drawn!Here!WriteFastHLine(x, y, w) = Block(x, y, w, 1) /\ Drawn!OnPanel!WriteFastHLine(x, y, w) = Block(x, y, w, 1)
  BY <1>2, Rowwise
<1>4. Block(a, y, 1, 1) \subseteq Block(x, y, w, 1) /\ Block(b, y, 1, 1) \subseteq Block(x, y, w, 1)
  BY <1>2, BlockWithin
<1> QED BY <1>1, <1>3, <1>4 DEF RowOf, x, w

(* The columns of a flat one. *)
LEMMA LeftAndRight ==
    ASSUME NEW s \in Triangles
    PROVE  LET columns == {p[1] : p \in Drawn!Here!Range(s)}
           IN  /\ Drawn!Here!Min(columns) \in Int /\ Drawn!Here!Max(columns) \in Int
               /\ \A i \in 1 .. 3 : Drawn!Here!Min(columns) <= s[i][1] /\ s[i][1] <= Drawn!Here!Max(columns)
               /\ Drawn!OnPanel!Min(columns) = Drawn!Here!Min(columns) /\ Drawn!OnPanel!Max(columns) = Drawn!Here!Max(columns)
               /\ Drawn!ThinOnPanel!Min(columns) = Drawn!Here!Min(columns) /\ Drawn!ThinOnPanel!Max(columns) = Drawn!Here!Max(columns)
               /\ Drawn!OnPanel!Range(s) = Drawn!Here!Range(s) /\ Drawn!ThinOnPanel!Range(s) = Drawn!Here!Range(s)
<1> DEFINE columns == {p[1] : p \in Drawn!Here!Range(s)}
<1>1. DOMAIN s = 1 .. 3 /\ \A i \in 1 .. 3 : s[i][1] \in Int
  BY DEF Triangles
<1>2. Drawn!Here!Range(s) = {s[1], s[2], s[3]} /\ Drawn!OnPanel!Range(s) = {s[1], s[2], s[3]}
  <2>1. \A v : v \in Drawn!Here!Range(s) <=> \E i \in 1 .. 3 : v = s[i]
    BY <1>1 DEF Drawn!Here!Range
  <2>2. \A v : v \in Drawn!OnPanel!Range(s) <=> \E i \in 1 .. 3 : v = s[i]
    BY <1>1 DEF Drawn!OnPanel!Range
  <2>3. \A i \in 1 .. 3 : i = 1 \/ i = 2 \/ i = 3
    OBVIOUS
  <2>4. 1 \in 1 .. 3 /\ 2 \in 1 .. 3 /\ 3 \in 1 .. 3
    OBVIOUS
  <2>5. \A v : v \in Drawn!Here!Range(s) <=> v \in {s[1], s[2], s[3]}
    BY <2>1, <2>3, <2>4
  <2>6. \A v : v \in Drawn!OnPanel!Range(s) <=> v \in {s[1], s[2], s[3]}
    BY <2>2, <2>3, <2>4
  <2> QED BY ONLY <2>5, <2>6
<1>3. PICK a \in Int, b \in Int, c \in Int : a = s[1][1] /\ b = s[2][1] /\ c = s[3][1]
  BY <1>1
<1>4. columns = {a, b, c}
  BY <1>2, <1>3
<1>5. \E lo, hi \in {a, b, c} : \A n \in {a, b, c} : lo <= n /\ n <= hi
  <2>1. \E lo \in {a, b, c} : \A n \in {a, b, c} : lo <= n
    OBVIOUS
  <2>2. \E hi \in {a, b, c} : \A n \in {a, b, c} : n <= hi
    OBVIOUS
  <2> QED BY <2>1, <2>2
<1> HIDE DEF columns
<1>6. Drawn!Here!Min(columns) \in columns /\ \A n \in columns : Drawn!Here!Min(columns) <= n
  <2>1. \E lo \in columns : \A n \in columns : lo <= n
    BY <1>4, <1>5
  <2> QED BY <2>1 DEF Drawn!Here!Min
<1>7. Drawn!Here!Max(columns) \in columns /\ \A n \in columns : n <= Drawn!Here!Max(columns)
  <2>1. \E hi \in columns : \A n \in columns : hi >= n
    BY <1>4, <1>5
  <2>2. Drawn!Here!Max(columns) \in columns /\ \A n \in columns : Drawn!Here!Max(columns) >= n
    BY <2>1 DEF Drawn!Here!Max
  <2> QED BY <1>4, <2>2
<1>8. Drawn!OnPanel!Min(columns) = Drawn!Here!Min(columns) /\ Drawn!OnPanel!Max(columns) = Drawn!Here!Max(columns)
  BY DEF Drawn!OnPanel!Min, Drawn!Here!Min, Drawn!OnPanel!Max, Drawn!Here!Max
<1>11. Drawn!ThinOnPanel!Min(columns) = Drawn!Here!Min(columns) /\ Drawn!ThinOnPanel!Max(columns) = Drawn!Here!Max(columns)
  BY DEF Drawn!ThinOnPanel!Min, Drawn!Here!Min, Drawn!ThinOnPanel!Max, Drawn!Here!Max
<1>12. Drawn!ThinOnPanel!Range(s) = Drawn!OnPanel!Range(s)
  BY DEF Drawn!ThinOnPanel!Range, Drawn!OnPanel!Range
<1>9. \A i \in 1 .. 3 : s[i][1] \in columns
  <2>1. \A i \in 1 .. 3 : i = 1 \/ i = 2 \/ i = 3
    OBVIOUS
  <2> QED BY <1>3, <1>4, <2>1
<1>10. columns \subseteq Int
  BY <1>4
<1> QED BY <1>2, <1>6, <1>7, <1>8, <1>9, <1>10, <1>11, <1>12 DEF columns

(* A slanted one, row after row. *)
Upper(s) == s[1][2] .. (IF s[2][2] = s[3][2] THEN s[2][2] ELSE s[2][2] - 1)
Lower(s) == IF s[2][2] = s[3][2] THEN {} ELSE s[2][2] .. s[3][2]
UpperRow(s, y) == RowOf(EdgeOf(s[1], s[2], y), EdgeOf(s[1], s[3], y), y)
LowerRow(s, y) == RowOf(EdgeOf(s[2], s[3], y), EdgeOf(s[1], s[3], y), y)
Slanted(s) == (UNION {UpperRow(s, y) : y \in Upper(s)}) \cup (UNION {LowerRow(s, y) : y \in Lower(s)})

LEMMA SlantedEdges ==
    ASSUME NEW s \in Triangles, s[1][2] <= s[2][2], s[2][2] <= s[3][2], s[1][2] < s[3][2]
    PROVE  /\ \A y \in Upper(s) : /\ y \in Int /\ s[1][2] < s[2][2]
                                  /\ EdgeOf(s[1], s[2], y) \in Int /\ EdgeOf(s[1], s[3], y) \in Int
           /\ \A y \in Lower(s) : /\ y \in Int /\ s[2][2] < s[3][2]
                                  /\ EdgeOf(s[2], s[3], y) \in Int /\ EdgeOf(s[1], s[3], y) \in Int
<1>1. /\ s[1] \in Int \X Int /\ s[2] \in Int \X Int /\ s[3] \in Int \X Int
      /\ s[1][2] \in Int /\ s[2][2] \in Int /\ s[3][2] \in Int
  BY DEF Triangles
<1>2. ASSUME NEW y \in Upper(s)
      PROVE  y \in Int /\ s[1][2] < s[2][2]
  BY <1>1 DEF Upper
<1>3. ASSUME NEW y \in Lower(s)
      PROVE  y \in Int /\ s[2][2] < s[3][2]
  BY <1>1 DEF Lower
<1> QED BY <1>1, <1>2, <1>3, EdgeIs

LEMMA SlantedIs ==
    ASSUME Drawn!ShapesConstants, NEW t \in Triangles, NEW s, s = Drawn!Here!Sorted(t), s[1][2] # s[3][2]
    PROVE  /\ Drawn!Here!FillTriangle(t) = Slanted(s) /\ Drawn!OnPanel!FillTriangle(t) = Slanted(s)
           /\ Drawn!ThinOnPanel!FillTriangle(t) = Slanted(s)
<1>1. /\ s \in Triangles /\ s[1][2] <= s[2][2] /\ s[2][2] <= s[3][2]
      /\ Drawn!OnPanel!Sorted(t) = s /\ Drawn!ThinOnPanel!Sorted(t) = s
  BY SortedIs
<1>2. s[1][2] < s[3][2]
  <2>1. s[1][2] \in Int /\ s[2][2] \in Int /\ s[3][2] \in Int
    BY <1>1 DEF Triangles
  <2> QED BY <1>1, <2>1
<1> DEFINE Row(a, b, y) == Drawn!Here!WriteFastHLine(Drawn!Here!Smaller(a, b), y, Drawn!Here!Abs(a - b) + 1)
           PanelRow(a, b, y) == Drawn!OnPanel!WriteFastHLine(Drawn!OnPanel!Smaller(a, b), y, Drawn!OnPanel!Abs(a - b) + 1)
<1>3. ASSUME NEW y \in Upper(s)
      PROVE  /\ Row(EdgeOf(s[1], s[2], y), EdgeOf(s[1], s[3], y), y) = UpperRow(s, y)
             /\ PanelRow(EdgeOf(s[1], s[2], y), EdgeOf(s[1], s[3], y), y) = UpperRow(s, y)
  <2>1. y \in Int /\ EdgeOf(s[1], s[2], y) \in Int /\ EdgeOf(s[1], s[3], y) \in Int
    BY <1>1, <1>2, SlantedEdges
  <2> QED BY <2>1, RowIs DEF UpperRow
<1>4. ASSUME NEW y \in Lower(s)
      PROVE  /\ Row(EdgeOf(s[2], s[3], y), EdgeOf(s[1], s[3], y), y) = LowerRow(s, y)
             /\ PanelRow(EdgeOf(s[2], s[3], y), EdgeOf(s[1], s[3], y), y) = LowerRow(s, y)
  <2>1. y \in Int /\ EdgeOf(s[2], s[3], y) \in Int /\ EdgeOf(s[1], s[3], y) \in Int
    BY <1>1, <1>2, SlantedEdges
  <2> QED BY <2>1, RowIs DEF LowerRow
<1>5. Drawn!Here!FillTriangle(t) =
         (UNION {Row(EdgeOf(s[1], s[2], y), EdgeOf(s[1], s[3], y), y) : y \in Upper(s)})
         \cup (UNION {Row(EdgeOf(s[2], s[3], y), EdgeOf(s[1], s[3], y), y) : y \in Lower(s)})
  BY DEF Drawn!Here!FillTriangle, EdgeOf, Upper, Lower
<1>6. \A n, k : Drawn!OnPanel!Quot(n, k) = Drawn!Here!Quot(n, k)
  BY DEF Drawn!OnPanel!Quot, Drawn!Here!Quot, Drawn!OnPanel!Abs, Drawn!Here!Abs, Drawn!OnPanel!Dist, Drawn!Here!Dist,
         Drawn!OnPanel!Larger, Drawn!Here!Larger, Drawn!OnPanel!Smaller, Drawn!Here!Smaller
<1>7. Drawn!OnPanel!FillTriangle(t) =
         (UNION {PanelRow(EdgeOf(s[1], s[2], y), EdgeOf(s[1], s[3], y), y) : y \in Upper(s)})
         \cup (UNION {PanelRow(EdgeOf(s[2], s[3], y), EdgeOf(s[1], s[3], y), y) : y \in Lower(s)})
  BY <1>1, <1>6 DEF Drawn!OnPanel!FillTriangle, EdgeOf, Upper, Lower
<1> HIDE DEF Row, PanelRow
<1>8. Drawn!Here!FillTriangle(t) = Slanted(s)
  BY ONLY <1>3, <1>4, <1>5 DEF Slanted
<1>9. Drawn!OnPanel!FillTriangle(t) = Slanted(s)
  BY ONLY <1>3, <1>4, <1>7 DEF Slanted
<1> DEFINE ThinRow(a, b, y) == Drawn!ThinOnPanel!WriteFastHLine(Drawn!ThinOnPanel!Smaller(a, b), y, Drawn!ThinOnPanel!Abs(a - b) + 1)
<1>10. \A a, b, y : ThinRow(a, b, y) = PanelRow(a, b, y)
  BY DEF PanelRow, Drawn!ThinOnPanel!WriteFastHLine, Drawn!OnPanel!WriteFastHLine, Drawn!ThinOnPanel!Buffered, Drawn!OnPanel!Buffered,
         Drawn!ThinOnPanel!Abs, Drawn!OnPanel!Abs, Drawn!ThinOnPanel!Dist, Drawn!OnPanel!Dist,
         Drawn!ThinOnPanel!Larger, Drawn!OnPanel!Larger, Drawn!ThinOnPanel!Smaller, Drawn!OnPanel!Smaller
<1>11. \A n, k : Drawn!ThinOnPanel!Quot(n, k) = Drawn!Here!Quot(n, k)
  BY DEF Drawn!ThinOnPanel!Quot, Drawn!Here!Quot, Drawn!ThinOnPanel!Abs, Drawn!Here!Abs, Drawn!ThinOnPanel!Dist, Drawn!Here!Dist,
         Drawn!ThinOnPanel!Larger, Drawn!Here!Larger, Drawn!ThinOnPanel!Smaller, Drawn!Here!Smaller
<1>12. Drawn!ThinOnPanel!FillTriangle(t) =
         (UNION {ThinRow(EdgeOf(s[1], s[2], y), EdgeOf(s[1], s[3], y), y) : y \in Upper(s)})
         \cup (UNION {ThinRow(EdgeOf(s[2], s[3], y), EdgeOf(s[1], s[3], y), y) : y \in Lower(s)})
  BY <1>1, <1>11 DEF Drawn!ThinOnPanel!FillTriangle, EdgeOf, Upper, Lower
<1> HIDE DEF ThinRow
<1>13. Drawn!ThinOnPanel!FillTriangle(t) = Slanted(s)
  BY ONLY <1>3, <1>4, <1>10, <1>12 DEF Slanted
<1> QED BY <1>8, <1>9, <1>13

LEMMA SlantedHas ==
    ASSUME Drawn!ShapesConstants, NEW s \in Triangles, s[1][2] <= s[2][2], s[2][2] <= s[3][2], s[1][2] < s[3][2],
           NEW i \in 1 .. 3
    PROVE  Block(s[i][1], s[i][2], 1, 1) \subseteq Slanted(s)
<1>1. /\ s[1] \in Int \X Int /\ s[2] \in Int \X Int /\ s[3] \in Int \X Int
      /\ s[1][2] \in Int /\ s[2][2] \in Int /\ s[3][2] \in Int
  BY DEF Triangles
<1>2. ASSUME NEW y \in Upper(s), NEW a, a = EdgeOf(s[1], s[2], y) \/ a = EdgeOf(s[1], s[3], y)
      PROVE  Block(a, y, 1, 1) \subseteq Slanted(s)
  <2>1. y \in Int /\ EdgeOf(s[1], s[2], y) \in Int /\ EdgeOf(s[1], s[3], y) \in Int
    BY SlantedEdges
  <2>2. Block(a, y, 1, 1) \subseteq UpperRow(s, y)
    BY <1>2, <2>1, RowIs DEF UpperRow
  <2>3. UpperRow(s, y) \subseteq Slanted(s)
    BY DEF Slanted
  <2> QED BY <2>2, <2>3
<1>3. ASSUME NEW y \in Lower(s), NEW a, a = EdgeOf(s[2], s[3], y) \/ a = EdgeOf(s[1], s[3], y)
      PROVE  Block(a, y, 1, 1) \subseteq Slanted(s)
  <2>1. y \in Int /\ EdgeOf(s[2], s[3], y) \in Int /\ EdgeOf(s[1], s[3], y) \in Int
    BY SlantedEdges
  <2>2. Block(a, y, 1, 1) \subseteq LowerRow(s, y)
    BY <1>3, <2>1, RowIs DEF LowerRow
  <2>3. LowerRow(s, y) \subseteq Slanted(s)
    BY DEF Slanted
  <2> QED BY <2>2, <2>3
<1>4. /\ EdgeOf(s[1], s[3], s[1][2]) = s[1][1] /\ EdgeOf(s[1], s[3], s[3][2]) = s[3][1]
      /\ s[1][2] < s[2][2] => EdgeOf(s[1], s[2], s[2][2]) = s[2][1]
      /\ s[2][2] < s[3][2] => EdgeOf(s[2], s[3], s[2][2]) = s[2][1]
  BY <1>1, EdgeIs
<1>5. CASE s[2][2] = s[3][2]
  <2>1. s[1][2] \in Upper(s) /\ s[2][2] \in Upper(s) /\ s[3][2] \in Upper(s)
    BY <1>1, <1>5 DEF Upper
  <2>2. s[1][2] < s[2][2]
    BY <1>5
  <2>3. CASE i = 1
    BY <1>2, <1>4, <2>1, <2>3
  <2>4. CASE i = 2
    BY <1>2, <1>4, <2>1, <2>2, <2>4
  <2>5. CASE i = 3
    BY <1>2, <1>4, <2>1, <2>5
  <2> QED BY <2>3, <2>4, <2>5
<1>6. CASE s[2][2] # s[3][2]
  <2>1. s[2][2] < s[3][2] /\ s[2][2] \in Lower(s) /\ s[3][2] \in Lower(s)
    BY <1>1, <1>6 DEF Lower
  <2>2. s[1][2] \in Upper(s) \/ s[1][2] \in Lower(s)
    BY <1>1, <1>6 DEF Upper, Lower
  <2>3. CASE i = 1
    BY <1>2, <1>3, <1>4, <2>2, <2>3
  <2>4. CASE i = 2
    BY <1>3, <1>4, <2>1, <2>4
  <2>5. CASE i = 3
    BY <1>3, <1>4, <2>1, <2>5
  <2> QED BY <2>3, <2>4, <2>5
<1> QED BY <1>5, <1>6

LEMMA TriangleIs ==
    ASSUME Drawn!ShapesConstants, stroke \in Nat \ {0}, NEW t \in Triangles
    PROVE  /\ surface = "panel" => Drawn!OnPanel!FillTriangle(t) = Drawn!Here!FillTriangle(t)
           /\ surface # "panel" => Drawn!ThinOnPanel!FillTriangle(t) = Drawn!Here!FillTriangle(t)
           /\ \A i \in 1 .. 3 : Block(t[i][1], t[i][2], 1, 1) \subseteq Drawn!Here!FillTriangle(t)
<1> DEFINE s == Drawn!Here!Sorted(t)
<1>1. /\ s \in Triangles /\ SameCorners(s, t) /\ s[1][2] <= s[2][2] /\ s[2][2] <= s[3][2]
      /\ Drawn!OnPanel!Sorted(t) = s /\ Drawn!ThinOnPanel!Sorted(t) = s
  BY SortedIs
<1>2. s[1][2] \in Int /\ s[2][2] \in Int /\ s[3][2] \in Int
  BY <1>1 DEF Triangles
<1>3. SUFFICES /\ surface = "panel" => Drawn!OnPanel!FillTriangle(t) = Drawn!Here!FillTriangle(t)
               /\ surface # "panel" => Drawn!ThinOnPanel!FillTriangle(t) = Drawn!Here!FillTriangle(t)
               /\ \A i \in 1 .. 3 : Block(s[i][1], s[i][2], 1, 1) \subseteq Drawn!Here!FillTriangle(t)
  BY <1>1 DEF SameCorners
<1>4. CASE s[1][2] = s[3][2]
  <2> DEFINE columns == {p[1] : p \in Drawn!Here!Range(s)}
             lo == Drawn!Here!Min(columns)
             hi == Drawn!Here!Max(columns)
             y == s[1][2]
  <2>1. /\ lo \in Int /\ hi \in Int /\ \A i \in 1 .. 3 : lo <= s[i][1] /\ s[i][1] <= hi
        /\ Drawn!OnPanel!Min(columns) = lo /\ Drawn!OnPanel!Max(columns) = hi /\ Drawn!OnPanel!Range(s) = Drawn!Here!Range(s)
        /\ Drawn!ThinOnPanel!Min(columns) = lo /\ Drawn!ThinOnPanel!Max(columns) = hi
        /\ Drawn!ThinOnPanel!Range(s) = Drawn!Here!Range(s)
    BY <1>1, LeftAndRight
  <2>2. Drawn!Here!FillTriangle(t) = Drawn!Here!DrawFastHLine(lo, y, hi - lo + 1)
    BY <1>4 DEF Drawn!Here!FillTriangle
  <2>3. Drawn!OnPanel!FillTriangle(t) = Drawn!OnPanel!DrawFastHLine(lo, y, hi - lo + 1)
    BY <1>1, <1>4, <2>1 DEF Drawn!OnPanel!FillTriangle
  <2>8. Drawn!ThinOnPanel!FillTriangle(t) = Drawn!ThinOnPanel!DrawFastHLine(lo, y, hi - lo + 1)
    BY <1>1, <1>4, <2>1 DEF Drawn!ThinOnPanel!FillTriangle
  <2> HIDE DEF s, columns, lo, hi
  <2>4. y \in Int /\ hi - lo + 1 \in Int
    BY <1>2, <2>1
  <2>5. Block(lo, y, hi - lo + 1, 1) \subseteq Drawn!Here!FillTriangle(t)
    <3> DEFINE n == hi - lo + 1
    <3>1. lo \in Int /\ y \in Int /\ n \in Int
      BY <2>1, <2>4
    <3> HIDE DEF n, y
    <3>2. Block(lo, y, n, 1) \subseteq Drawn!Here!DrawFastHLine(lo, y, n)
      BY <3>1, FastLines
    <3> QED BY ONLY <2>2, <3>2 DEF n, y
  <2>6. /\ surface = "panel" => Drawn!OnPanel!FillTriangle(t) = Drawn!Here!FillTriangle(t)
        /\ surface # "panel" => Drawn!ThinOnPanel!FillTriangle(t) = Drawn!Here!FillTriangle(t)
    <3> DEFINE n == hi - lo + 1
    <3>1. lo \in Int /\ y \in Int /\ n \in Int
      BY <2>1, <2>4
    <3> HIDE DEF n, y
    <3>2. /\ surface = "panel" => Drawn!OnPanel!DrawFastHLine(lo, y, n) = Drawn!Here!DrawFastHLine(lo, y, n)
          /\ surface # "panel" => Drawn!ThinOnPanel!DrawFastHLine(lo, y, n) = Drawn!Here!DrawFastHLine(lo, y, n)
      BY <3>1, FastLines
    <3> QED BY ONLY <2>2, <2>3, <2>8, <3>2 DEF n, y
  <2>7. ASSUME NEW i \in 1 .. 3
        PROVE  Block(s[i][1], s[i][2], 1, 1) \subseteq Drawn!Here!FillTriangle(t)
    <3>1. s[i][1] \in Int /\ s[i][2] \in Int
      BY <1>1 DEF Triangles
    <3>2. s[i][2] = y
      <4>1. i = 1 \/ i = 2 \/ i = 3
        OBVIOUS
      <4> QED BY <1>1, <1>2, <1>4, <4>1
    <3>3. Block(s[i][1], s[i][2], 1, 1) \subseteq Block(lo, y, hi - lo + 1, 1)
      <4>1. \A u \in Int : lo <= u /\ u <= hi => Block(u, y, 1, 1) \subseteq Block(lo, y, hi - lo + 1, 1)
        BY <2>1, <2>4, BlockWithin
      <4> QED BY ONLY <2>1, <3>1, <3>2, <4>1, i \in 1 .. 3
    <3> QED BY <2>5, <3>3
  <2> QED BY <2>6, <2>7
<1>5. CASE s[1][2] # s[3][2]
  <2>1. /\ Drawn!Here!FillTriangle(t) = Slanted(s) /\ Drawn!OnPanel!FillTriangle(t) = Slanted(s)
        /\ Drawn!ThinOnPanel!FillTriangle(t) = Slanted(s)
    BY <1>5, SlantedIs
  <2> HIDE DEF s
  <2>2. s[1][2] < s[3][2]
    BY <1>1, <1>2, <1>5
  <2>3. \A i \in 1 .. 3 : Block(s[i][1], s[i][2], 1, 1) \subseteq Slanted(s)
    BY <1>1, <2>2, SlantedHas
  <2> QED BY <2>1, <2>3
<1> QED BY <1>4, <1>5

LEMMA CornersIn ==
    ASSUME Drawn!ShapesConstants, stroke \in Nat \ {0}, NEW t \in Triangles
    PROVE  Drawn!Here!Pixels(Drawn!Range(t)) \subseteq Drawn!Here!FillTriangle(t)
<1> SUFFICES ASSUME NEW q \in Drawn!Here!Pixels(Drawn!Range(t))
             PROVE  q \in Drawn!Here!FillTriangle(t)
  OBVIOUS
<1>1. q \in Grid /\ q \in Drawn!Range(t)
  BY SameGrid
<1>2. DOMAIN t = 1 .. 3 /\ \A i \in 1 .. 3 : t[i][1] \in Int /\ t[i][2] \in Int
  BY DEF Triangles
<1>3. PICK i \in 1 .. 3 : q = t[i]
  BY <1>1, <1>2 DEF Drawn!Range
<1>4. q[1] \in Int /\ q[2] \in Int
  BY <1>2, <1>3
<1>5. q \in Block(q[1], q[2], 1, 1)
  BY <1>1, <1>4 DEF Block
<1> QED BY <1>3, <1>5, TriangleIs

(* The same picture with the surface and the stroke as arguments: what a call *)
(* paints depends on nothing else that changes.                               *)
On(s, k) == INSTANCE Raster WITH Width <- Columns, Height <- Rows, surface <- s, stroke <- k

LEMMA WriteFillRectOn ==
    ASSUME NEW x, NEW y, NEW w, NEW h
    PROVE  Drawn!Here!WriteFillRect(x, y, w, h) = On(surface, stroke)!WriteFillRect(x, y, w, h)
BY DEF Drawn!Here!WriteFillRect, On!WriteFillRect, Drawn!Here!WriteFastHLine, On!WriteFastHLine, Drawn!Here!Larger,
       On!Larger, Drawn!Here!Smaller, On!Smaller, Drawn!Here!Buffered, On!Buffered, Drawn!Here!Pixels, On!Pixels,
       Drawn!Here!Screen, On!Screen

LEMMA WriteFastHLineOn ==
    ASSUME NEW x, NEW y, NEW w
    PROVE  Drawn!Here!WriteFastHLine(x, y, w) = On(surface, stroke)!WriteFastHLine(x, y, w)
BY DEF Drawn!Here!WriteFastHLine, On!WriteFastHLine, Drawn!Here!Larger, On!Larger, Drawn!Here!Smaller, On!Smaller,
       Drawn!Here!Buffered, On!Buffered, Drawn!Here!Pixels, On!Pixels, Drawn!Here!Screen, On!Screen

LEMMA DrawRectOn ==
    ASSUME NEW x, NEW y, NEW w, NEW h
    PROVE  Drawn!Here!DrawRect(x, y, w, h) = On(surface, stroke)!DrawRect(x, y, w, h)
BY DEF Drawn!Here!DrawRect, On!DrawRect, Drawn!Here!DrawFastHLine, On!DrawFastHLine, Drawn!Here!CanvasSpan, On!CanvasSpan,
       Drawn!Here!Larger, On!Larger, Drawn!Here!WriteFillRect, On!WriteFillRect, Drawn!Here!WriteFastHLine,
       On!WriteFastHLine, Drawn!Here!Smaller, On!Smaller, Drawn!Here!Buffered, On!Buffered, Drawn!Here!Pixels, On!Pixels,
       Drawn!Here!Screen, On!Screen, Drawn!Here!DrawFastVLine, On!DrawFastVLine, Drawn!Here!WriteFastVLine, On!WriteFastVLine

LEMMA FillCircleOn ==
    ASSUME NEW x, NEW y, NEW r
    PROVE  Drawn!Here!FillCircle(x, y, r) = On(surface, stroke)!FillCircle(x, y, r)
BY DEF Drawn!Here!FillCircle, On!FillCircle, Drawn!Here!WriteFastVLine, On!WriteFastVLine, Drawn!Here!Buffered, On!Buffered,
       Drawn!Here!Larger, On!Larger, Drawn!Here!Smaller, On!Smaller, Drawn!Here!Pixels, On!Pixels, Drawn!Here!Screen,
       On!Screen, Drawn!Here!FillCircleHelper, On!FillCircleHelper, Drawn!Here!Octant, On!Octant

LEMMA FillRoundRectOn ==
    ASSUME NEW x, NEW y, NEW w, NEW h, NEW r
    PROVE  Drawn!Here!FillRoundRect(x, y, w, h, r) = On(surface, stroke)!FillRoundRect(x, y, w, h, r)
BY DEF Drawn!Here!FillRoundRect, On!FillRoundRect, Drawn!Here!Clamped, On!Clamped, Drawn!Here!Smaller, On!Smaller,
       Drawn!Here!WriteFillRect, On!WriteFillRect, Drawn!Here!WriteFastHLine, On!WriteFastHLine, Drawn!Here!Larger,
       On!Larger, Drawn!Here!Buffered, On!Buffered, Drawn!Here!Pixels, On!Pixels, Drawn!Here!Screen, On!Screen,
       Drawn!Here!FillCircleHelper, On!FillCircleHelper, Drawn!Here!WriteFastVLine, On!WriteFastVLine, Drawn!Here!Octant,
       On!Octant

LEMMA DrawTriangleOn ==
    ASSUME NEW t
    PROVE  Drawn!Here!DrawTriangle(t) = On(surface, stroke)!DrawTriangle(t)
BY DEF Drawn!Here!DrawTriangle, On!DrawTriangle, Drawn!Here!WriteLine, On!WriteLine, Drawn!Here!Abs, On!Abs, Drawn!Here!Dist,
       On!Dist, Drawn!Here!Larger, On!Larger, Drawn!Here!Smaller, On!Smaller, Drawn!Here!Pixels, On!Pixels,
       Drawn!Here!Screen, On!Screen

LEMMA DrawRGB565On ==
    ASSUME NEW x, NEW y, NEW w, NEW h
    PROVE  Drawn!Here!DrawRGB565(x, y, w, h) = On(surface, stroke)!DrawRGB565(x, y, w, h)
BY DEF Drawn!Here!DrawRGB565, On!DrawRGB565, Drawn!Here!Larger, On!Larger, Drawn!Here!Smaller, On!Smaller

LEMMA SideOn ==
    ASSUME NEW x0, NEW y, NEW r, NEW dy, NEW sx
    PROVE  Drawn!Here!Side(x0, y, r, dy, sx) = On(surface, stroke)!Side(x0, y, r, dy, sx)
<1>1. Drawn!Here!Band(r, dy) = On(surface, stroke)!Band(r, dy)
  BY DEF Drawn!Here!Band, On!Band, Drawn!Here!Root, On!Root, Drawn!Here!Nearest, On!Nearest,
         Drawn!Here!Outer, On!Outer, Drawn!Here!Inner, On!Inner, Drawn!Here!Larger, On!Larger
<1>2. \A c : Drawn!Here!Min(c) = On(surface, stroke)!Min(c) /\ Drawn!Here!Max(c) = On(surface, stroke)!Max(c)
  BY DEF Drawn!Here!Min, On!Min, Drawn!Here!Max, On!Max
<1> QED BY <1>1, <1>2, WriteFastHLineOn DEF Drawn!Here!Side, On!Side

LEMMA ThickCircleOn ==
    ASSUME NEW x0, NEW y0, NEW r
    PROVE  Drawn!Here!ThickCircle(x0, y0, r) = On(surface, stroke)!ThickCircle(x0, y0, r)
<1>1. \A y, dy, sx : Drawn!Here!Side(x0, y, r, dy, sx) = On(surface, stroke)!Side(x0, y, r, dy, sx)
  BY SideOn
<1>2. On(surface, stroke)!Outer(r) = Drawn!Here!Outer(r)
  BY DEF Drawn!Here!Outer, On!Outer
<1> QED BY ONLY <1>1, <1>2 DEF Drawn!Here!ThickCircle, On!ThickCircle

LEMMA ThickArcOn ==
    ASSUME NEW x0, NEW y0, NEW r, NEW sx, NEW sy
    PROVE  Drawn!Here!ThickArc(x0, y0, r, sx, sy) = On(surface, stroke)!ThickArc(x0, y0, r, sx, sy)
<1>1. \A y, dy : Drawn!Here!Side(x0, y, r, dy, sx) = On(surface, stroke)!Side(x0, y, r, dy, sx)
  BY SideOn
<1>2. On(surface, stroke)!Outer(r) = Drawn!Here!Outer(r)
  BY DEF Drawn!Here!Outer, On!Outer
<1> QED BY ONLY <1>1, <1>2 DEF Drawn!Here!ThickArc, On!ThickArc

LEMMA CornerOn ==
    ASSUME NEW x, NEW y, NEW r, NEW sx, NEW sy
    PROVE  Drawn!Here!Corner(x, y, r, sx, sy) = On(surface, stroke)!Corner(x, y, r, sx, sy)
BY DEF Drawn!Here!Corner, On!Corner, Drawn!Here!Pixels, On!Pixels, Drawn!Here!Screen, On!Screen, Drawn!Here!Octant, On!Octant

LEMMA DrawFastHLineOn ==
    ASSUME NEW x, NEW y, NEW w
    PROVE  Drawn!Here!DrawFastHLine(x, y, w) = On(surface, stroke)!DrawFastHLine(x, y, w)
BY DEF Drawn!Here!DrawFastHLine, On!DrawFastHLine, Drawn!Here!CanvasSpan, On!CanvasSpan, Drawn!Here!Larger, On!Larger,
       Drawn!Here!WriteFillRect, On!WriteFillRect, Drawn!Here!WriteFastHLine, On!WriteFastHLine, Drawn!Here!Smaller,
       On!Smaller, Drawn!Here!Buffered, On!Buffered, Drawn!Here!Pixels, On!Pixels, Drawn!Here!Screen, On!Screen

LEMMA WriteFastVLineOn ==
    ASSUME NEW x, NEW y, NEW h
    PROVE  Drawn!Here!WriteFastVLine(x, y, h) = On(surface, stroke)!WriteFastVLine(x, y, h)
BY DEF Drawn!Here!WriteFastVLine, On!WriteFastVLine, Drawn!Here!Buffered, On!Buffered, Drawn!Here!Larger, On!Larger,
       Drawn!Here!Smaller, On!Smaller, Drawn!Here!Pixels, On!Pixels, Drawn!Here!Screen, On!Screen

LEMMA DrawCircleOn ==
    ASSUME NEW x, NEW y, NEW r
    PROVE  Drawn!Here!DrawCircle(x, y, r) = On(surface, stroke)!DrawCircle(x, y, r)
<1>1. \A s : Drawn!Here!Pixels(s) = On(surface, stroke)!Pixels(s)
  BY DEF Drawn!Here!Pixels, On!Pixels, Drawn!Here!Screen, On!Screen
<1>2. \A sx, sy : Drawn!Here!Corner(x, y, r, sx, sy) = On(surface, stroke)!Corner(x, y, r, sx, sy)
  BY CornerOn
<1>3. Drawn!Here!ThickCircle(x, y, r) = On(surface, stroke)!ThickCircle(x, y, r)
  BY ThickCircleOn
<1> DEFINE dots == {<<x, y + r>>, <<x, y - r>>, <<x + r, y>>, <<x - r, y>>}
           arcs == UNION {Drawn!Here!Corner(x, y, r, sx, sy) : sx \in {-1, 1}, sy \in {-1, 1}}
           arcsOn == UNION {On(surface, stroke)!Corner(x, y, r, sx, sy) : sx \in {-1, 1}, sy \in {-1, 1}}
<1>4. arcs = arcsOn
  BY ONLY <1>2
<1>5. /\ Drawn!Here!DrawCircle(x, y, r) =
            IF stroke > 1 THEN Drawn!Here!ThickCircle(x, y, r) ELSE Drawn!Here!Pixels(dots) \cup arcs
      /\ On(surface, stroke)!DrawCircle(x, y, r) =
            IF stroke > 1 THEN On(surface, stroke)!ThickCircle(x, y, r) ELSE On(surface, stroke)!Pixels(dots) \cup arcsOn
  BY DEF Drawn!Here!DrawCircle, On!DrawCircle
<1> HIDE DEF dots, arcs, arcsOn
<1> QED BY <1>1, <1>3, <1>4, <1>5

LEMMA DrawRoundRectOn ==
    ASSUME NEW x, NEW y, NEW w, NEW h, NEW r
    PROVE  Drawn!Here!DrawRoundRect(x, y, w, h, r) = On(surface, stroke)!DrawRoundRect(x, y, w, h, r)
BY WriteFillRectOn, WriteFastHLineOn, WriteFastVLineOn, ThickArcOn, CornerOn
   DEF Drawn!Here!DrawRoundRect, On!DrawRoundRect, Drawn!Here!Clamped, On!Clamped, Drawn!Here!Smaller, On!Smaller

LEMMA FillTriangleOn ==
    ASSUME NEW t
    PROVE  Drawn!Here!FillTriangle(t) = On(surface, stroke)!FillTriangle(t)
<1> DEFINE s == Drawn!Here!Sorted(t)
           Row(a, b, y) == Drawn!Here!WriteFastHLine(Drawn!Here!Smaller(a, b), y, Drawn!Here!Abs(a - b) + 1)
           RowOn(a, b, y) == On(surface, stroke)!WriteFastHLine(On(surface, stroke)!Smaller(a, b), y, On(surface, stroke)!Abs(a - b) + 1)
<1>1. On(surface, stroke)!Sorted(t) = s
  BY DEF Drawn!Here!Sorted, On!Sorted
<1>2. \A n, k : On(surface, stroke)!Quot(n, k) = Drawn!Here!Quot(n, k)
  BY DEF Drawn!Here!Quot, On!Quot, Drawn!Here!Abs, On!Abs, Drawn!Here!Dist, On!Dist, Drawn!Here!Larger, On!Larger, Drawn!Here!Smaller, On!Smaller
<1>3. \A a, b, y : RowOn(a, b, y) = Row(a, b, y)
  <2>1. \A a, b : On(surface, stroke)!Smaller(a, b) = Drawn!Here!Smaller(a, b) /\ On(surface, stroke)!Abs(a - b) = Drawn!Here!Abs(a - b)
    BY DEF Drawn!Here!Abs, On!Abs, Drawn!Here!Dist, On!Dist, Drawn!Here!Larger, On!Larger, Drawn!Here!Smaller, On!Smaller
  <2> QED BY <2>1, WriteFastHLineOn
<1>4. CASE s[1][2] = s[3][2]
  <2>1. /\ \A c : On(surface, stroke)!Min(c) = Drawn!Here!Min(c) /\ On(surface, stroke)!Max(c) = Drawn!Here!Max(c)
        /\ On(surface, stroke)!Range(s) = Drawn!Here!Range(s)
    BY DEF Drawn!Here!Min, On!Min, Drawn!Here!Max, On!Max, Drawn!Here!Range, On!Range
  <2> DEFINE columns == {p[1] : p \in Drawn!Here!Range(s)}
             x == Drawn!Here!Min(columns)
             w == Drawn!Here!Max(columns) - Drawn!Here!Min(columns) + 1
  <2>2. Drawn!Here!FillTriangle(t) = Drawn!Here!DrawFastHLine(x, s[1][2], w)
    BY <1>4 DEF Drawn!Here!FillTriangle
  <2>3. On(surface, stroke)!FillTriangle(t) = On(surface, stroke)!DrawFastHLine(x, s[1][2], w)
    BY <1>1, <1>4, <2>1 DEF On!FillTriangle
  <2> HIDE DEF x, w, s
  <2> QED BY <2>2, <2>3, DrawFastHLineOn
<1>5. CASE s[1][2] # s[3][2]
  <2>1. Drawn!Here!FillTriangle(t) =
           (UNION {Row(EdgeOf(s[1], s[2], y), EdgeOf(s[1], s[3], y), y) : y \in Upper(s)})
           \cup (UNION {Row(EdgeOf(s[2], s[3], y), EdgeOf(s[1], s[3], y), y) : y \in Lower(s)})
    BY <1>5 DEF Drawn!Here!FillTriangle, EdgeOf, Upper, Lower
  <2>2. On(surface, stroke)!FillTriangle(t) =
           (UNION {RowOn(EdgeOf(s[1], s[2], y), EdgeOf(s[1], s[3], y), y) : y \in Upper(s)})
           \cup (UNION {RowOn(EdgeOf(s[2], s[3], y), EdgeOf(s[1], s[3], y), y) : y \in Lower(s)})
    BY <1>1, <1>2, <1>5 DEF On!FillTriangle, EdgeOf, Upper, Lower
  <2> HIDE DEF Row, RowOn, s
  <2> QED BY ONLY <1>3, <2>1, <2>2
<1> QED BY <1>4, <1>5

LEMMA PaintOn ==
    ASSUME NEW f, NEW b, NEW r, NEW t
    PROVE  Drawn!Here!Paint(f, b, r, t) = On(surface, stroke)!Paint(f, b, r, t)
BY WriteFillRectOn, DrawRectOn, DrawCircleOn, FillCircleOn, DrawRoundRectOn, FillRoundRectOn,
   DrawTriangleOn, FillTriangleOn, DrawRGB565On DEF Drawn!Here!Paint, On!Paint

(* Which call paints what. *)
LEMMA PaintedHere ==
    ASSUME NEW b, NEW r, NEW t
    PROVE  /\ Drawn!Here!Paint("fillRect", b, r, t) = Drawn!Here!WriteFillRect(b.x, b.y, b.w, b.h)
           /\ Drawn!Here!Paint("drawRect", b, r, t) = Drawn!Here!DrawRect(b.x, b.y, b.w, b.h)
           /\ Drawn!Here!Paint("drawCircle", b, r, t) = Drawn!Here!DrawCircle(b.x, b.y, r)
           /\ Drawn!Here!Paint("fillCircle", b, r, t) = Drawn!Here!FillCircle(b.x, b.y, r)
           /\ Drawn!Here!Paint("drawRoundRect", b, r, t) = Drawn!Here!DrawRoundRect(b.x, b.y, b.w, b.h, r)
           /\ Drawn!Here!Paint("fillRoundRect", b, r, t) = Drawn!Here!FillRoundRect(b.x, b.y, b.w, b.h, r)
           /\ Drawn!Here!Paint("drawTriangle", b, r, t) = Drawn!Here!DrawTriangle(t)
           /\ Drawn!Here!Paint("fillTriangle", b, r, t) = Drawn!Here!FillTriangle(t)
BY DEF Drawn!Here!Paint

LEMMA PaintedOnPanel ==
    ASSUME NEW b, NEW r, NEW t
    PROVE  /\ Drawn!OnPanel!Paint("fillRect", b, r, t) = Drawn!OnPanel!WriteFillRect(b.x, b.y, b.w, b.h)
           /\ Drawn!OnPanel!Paint("drawRect", b, r, t) = Drawn!OnPanel!DrawRect(b.x, b.y, b.w, b.h)
           /\ Drawn!OnPanel!Paint("drawCircle", b, r, t) = Drawn!OnPanel!DrawCircle(b.x, b.y, r)
           /\ Drawn!OnPanel!Paint("fillCircle", b, r, t) = Drawn!OnPanel!FillCircle(b.x, b.y, r)
           /\ Drawn!OnPanel!Paint("drawRoundRect", b, r, t) = Drawn!OnPanel!DrawRoundRect(b.x, b.y, b.w, b.h, r)
           /\ Drawn!OnPanel!Paint("fillRoundRect", b, r, t) = Drawn!OnPanel!FillRoundRect(b.x, b.y, b.w, b.h, r)
           /\ Drawn!OnPanel!Paint("drawTriangle", b, r, t) = Drawn!OnPanel!DrawTriangle(t)
           /\ Drawn!OnPanel!Paint("fillTriangle", b, r, t) = Drawn!OnPanel!FillTriangle(t)
BY DEF Drawn!OnPanel!Paint

LEMMA PaintedThin ==
    ASSUME NEW b, NEW r, NEW t
    PROVE  /\ Drawn!Thin!Paint("drawRect", b, r, t) = Drawn!Thin!DrawRect(b.x, b.y, b.w, b.h)
           /\ Drawn!Thin!Paint("drawCircle", b, r, t) = Drawn!Thin!DrawCircle(b.x, b.y, r)
           /\ Drawn!Thin!Paint("drawRoundRect", b, r, t) = Drawn!Thin!DrawRoundRect(b.x, b.y, b.w, b.h, r)
BY DEF Drawn!Thin!Paint

LEMMA PaintedThinOnPanel ==
    ASSUME NEW b, NEW r, NEW t
    PROVE  /\ Drawn!ThinOnPanel!Paint("drawRect", b, r, t) = Drawn!ThinOnPanel!DrawRect(b.x, b.y, b.w, b.h)
           /\ Drawn!ThinOnPanel!Paint("fillTriangle", b, r, t) = Drawn!ThinOnPanel!FillTriangle(t)
BY DEF Drawn!ThinOnPanel!Paint

(* A call is drawn on a clean surface, and a surface stays what it is. *)
Sizes == [x : Int, y : Int, w : Nat, h : Nat]
ShapesInv ==
    /\ stroke \in Strokes /\ box \in Sizes /\ radius \in Nat
    /\ op \in {"none", "fillRect", "drawRect", "rgb565", "drawCircle", "fillCircle",
               "drawRoundRect", "fillRoundRect", "drawTriangle", "fillTriangle"}
    /\ op \in {"drawTriangle", "fillTriangle"} => corners \in Triangles
    /\ op # "none" => painted = On(surface, stroke)!Paint(op, box, radius, corners)

LEMMA CallAgrees ==
    ASSUME Drawn!ShapesConstants, ShapesInv
    PROVE  Drawn!ShapesAgree
<1>1. /\ stroke \in Nat \ {0} /\ box.x \in Int /\ box.y \in Int /\ box.w \in Nat /\ box.h \in Nat /\ radius \in Nat
      /\ box.w \in Int /\ box.h \in Int
  BY DEF ShapesInv, Drawn!ShapesConstants, Sizes
<1>2. op # "none" => painted = Drawn!Here!Paint(op, box, radius, corners)
  BY PaintOn DEF ShapesInv
<1>3. CASE op \in {"none", "rgb565"}
  BY <1>3 DEF Drawn!ShapesAgree, Drawn!SurfacesAgree, Drawn!Strokeless, Drawn!OutlineCovered
<1>4. CASE op = "fillRect"
  <2>1. painted = Block(box.x, box.y, box.w, box.h)
    BY <1>1, <1>2, <1>4, PaintedHere, Blockwise
  <2>2. Drawn!OnPanel!Paint(op, box, radius, corners) = Block(box.x, box.y, box.w, box.h)
    BY <1>1, <1>4, PaintedOnPanel, Blockwise
  <2>3. box.w > 0 /\ box.h > 0 => Drawn!Thin!DrawRect(box.x, box.y, box.w, box.h) \subseteq painted
    BY <1>1, <2>1, RectIs
  <2>4. Drawn!Here!Pixels((box.x .. box.x + box.w - 1) \X (box.y .. box.y + box.h - 1)) = painted
    BY <1>1, <2>1, InsideIs
  <2>5. Drawn!Thin!Paint("drawRect", box, radius, corners) = Drawn!Thin!DrawRect(box.x, box.y, box.w, box.h)
    BY PaintedThin
  <2> QED BY <1>4, <2>1, <2>2, <2>3, <2>4, <2>5 DEF Drawn!ShapesAgree, Drawn!SurfacesAgree, Drawn!Strokeless, Drawn!OutlineCovered
<1>5. CASE op = "drawRect"
  <2>1. painted = Drawn!Here!DrawRect(box.x, box.y, box.w, box.h)
    BY <1>2, <1>5, PaintedHere
  <2>2. /\ surface = "panel" => Drawn!OnPanel!Paint(op, box, radius, corners) = painted
        /\ surface # "panel" => Drawn!ThinOnPanel!Paint(op, box, radius, corners) = painted
    BY <1>1, <1>5, <2>1, PaintedOnPanel, PaintedThinOnPanel, RectIs
  <2>3. Drawn!Thin!Paint(op, box, radius, corners) \subseteq painted
    BY <1>1, <1>5, <2>1, PaintedThin, RectIs
  <2> QED BY <1>5, <2>2, <2>3 DEF Drawn!ShapesAgree, Drawn!SurfacesAgree, Drawn!Strokeless, Drawn!OutlineCovered
<1>6. CASE op = "drawCircle"
  <2>1. painted = Drawn!Here!DrawCircle(box.x, box.y, radius)
    BY <1>2, <1>6, PaintedHere
  <2>2. Drawn!OnPanel!Paint(op, box, radius, corners) = painted
    <3>1. Drawn!OnPanel!DrawCircle(box.x, box.y, radius) = painted
      BY <1>1, <2>1, CirclesThin
    <3>2. Drawn!OnPanel!Paint(op, box, radius, corners) = Drawn!OnPanel!DrawCircle(box.x, box.y, radius)
      BY <1>6, PaintedOnPanel
    <3> QED BY <3>1, <3>2
  <2>3. Drawn!Thin!Paint(op, box, radius, corners) \subseteq painted
    BY <1>1, <1>6, <2>1, PaintedThin, CircleCovered
  <2> QED BY <1>6, <2>2, <2>3 DEF Drawn!ShapesAgree, Drawn!SurfacesAgree, Drawn!Strokeless, Drawn!OutlineCovered
<1>7. CASE op = "fillCircle"
  <2>1. painted = Drawn!Here!FillCircle(box.x, box.y, radius)
    BY <1>2, <1>7, PaintedHere
  <2>2. Drawn!OnPanel!Paint(op, box, radius, corners) = painted
    BY <1>1, <1>7, <2>1, PaintedOnPanel, DiskIs
  <2>3. Drawn!Thin!Paint("drawCircle", box, radius, corners) \subseteq painted
    BY <1>1, <2>1, PaintedThin, DiskIs
  <2> QED BY <1>7, <2>2, <2>3 DEF Drawn!ShapesAgree, Drawn!SurfacesAgree, Drawn!Strokeless, Drawn!OutlineCovered
<1>8. CASE op = "drawRoundRect"
  <2>1. painted = Drawn!Here!DrawRoundRect(box.x, box.y, box.w, box.h, radius)
    BY <1>2, <1>8, PaintedHere
  <2>2. Drawn!OnPanel!Paint(op, box, radius, corners) = painted
    BY <1>1, <1>8, <2>1, PaintedOnPanel, RoundIs
  <2>3. Drawn!Thin!Paint(op, box, radius, corners) \subseteq painted
    BY <1>1, <1>8, <2>1, PaintedThin, RoundIs
  <2> QED BY <1>8, <2>2, <2>3 DEF Drawn!ShapesAgree, Drawn!SurfacesAgree, Drawn!Strokeless, Drawn!OutlineCovered
<1>9. CASE op = "fillRoundRect"
  <2> DEFINE x == box.x
             y == box.y
             w == box.w
             h == box.h
  <2>1. painted = Drawn!Here!FillRoundRect(x, y, w, h, radius)
    BY <1>2, <1>9, PaintedHere
  <2>2. Drawn!OnPanel!Paint(op, box, radius, corners) = painted
    BY <1>1, <1>9, <2>1, PaintedOnPanel, FilledRoundIs
  <2>3. w > 0 /\ h > 0 => Drawn!Thin!Paint("drawRoundRect", box, radius, corners) \ Bare(x, y, w, h, radius) \subseteq painted
    BY <1>1, <2>1, PaintedThin, FilledCovers
  <2>4. painted \subseteq Drawn!Here!Pixels((x .. x + w - 1) \X (y .. y + h - 1))
    <3>1. painted \subseteq Block(x, y, w, h)
      BY <1>1, <2>1, FilledRoundIs
    <3>2. Drawn!Here!Pixels((x .. x + w - 1) \X (y .. y + h - 1)) = Block(x, y, w, h)
      BY <1>1, InsideIs
    <3> QED BY <3>1, <3>2
  <2> QED BY <1>9, <2>2, <2>3, <2>4 DEF Drawn!ShapesAgree, Drawn!SurfacesAgree, Drawn!Strokeless, Drawn!OutlineCovered, Bare
<1>10. CASE op = "drawTriangle"
  <2>1. Drawn!OnPanel!Paint(op, box, radius, corners) = painted
    BY <1>2, <1>10, PaintedHere, PaintedOnPanel, LinesAgree
  <2> QED BY <1>10, <2>1 DEF Drawn!ShapesAgree, Drawn!SurfacesAgree, Drawn!Strokeless, Drawn!OutlineCovered
<1>11. CASE op = "fillTriangle"
  <2>1. painted = Drawn!Here!FillTriangle(corners) /\ corners \in Triangles
    BY <1>2, <1>11, PaintedHere DEF ShapesInv
  <2>2. /\ surface = "panel" => Drawn!OnPanel!Paint(op, box, radius, corners) = painted
        /\ surface # "panel" => Drawn!ThinOnPanel!Paint(op, box, radius, corners) = painted
    BY <1>1, <1>11, <2>1, PaintedOnPanel, PaintedThinOnPanel, TriangleIs
  <2>3. Drawn!Here!Pixels(Drawn!Range(corners)) \subseteq painted
    BY <1>1, <2>1, CornersIn
  <2> QED BY <1>11, <2>2, <2>3 DEF Drawn!ShapesAgree, Drawn!SurfacesAgree, Drawn!Strokeless, Drawn!OutlineCovered
<1> QED BY <1>3, <1>4, <1>5, <1>6, <1>7, <1>8, <1>9, <1>10, <1>11 DEF ShapesInv

THEOREM CallsAgree == ASSUME Drawn!ShapesConstants PROVE Drawn!Spec => []Drawn!ShapesAgree
<1>1. Drawn!Init => ShapesInv
  BY DEF Drawn!Init, ShapesInv, Drawn!NoBox, Sizes
<1>2. ASSUME ShapesInv, [Drawn!Next]_(Drawn!vars) PROVE ShapesInv'
  <2>1. ASSUME UNCHANGED <<surface, stroke>>, box' \in Sizes, radius' \in Nat,
               op' \in {"fillRect", "drawRect", "rgb565", "drawCircle", "fillCircle",
                       "drawRoundRect", "fillRoundRect", "drawTriangle", "fillTriangle"},
               op' \in {"drawTriangle", "fillTriangle"} => corners' \in Triangles,
               painted' = Drawn!Here!Paint(op', box', radius', corners')
        PROVE  ShapesInv'
    <3>1. painted' = On(surface', stroke')!Paint(op', box', radius', corners')
      BY <2>1, PaintOn
    <3> QED BY <1>2, <2>1, <3>1 DEF ShapesInv
  <2>2. CASE Drawn!Boxed
    BY <1>2, <2>1, <2>2 DEF Drawn!Boxed, ShapesInv, Drawn!ShapesConstants, Sizes
  <2>3. CASE Drawn!Rounded
    BY <1>2, <2>1, <2>3 DEF Drawn!Rounded, ShapesInv, Drawn!ShapesConstants, Sizes
  <2>4. CASE Drawn!Round
    <3>1. PICK p \in Points : box' = [Drawn!NoBox EXCEPT !.x = p[1], !.y = p[2]]
      BY <2>4 DEF Drawn!Round
    <3>2. box' \in Sizes
      BY <3>1 DEF Drawn!NoBox, Sizes, Drawn!ShapesConstants
    <3> QED BY <1>2, <2>1, <2>4, <3>2 DEF Drawn!Round, ShapesInv, Drawn!ShapesConstants
  <2>5. CASE Drawn!Cornered
    <3>1. corners' \in Triangles
      BY <2>5 DEF Drawn!Cornered, Triangles, Drawn!ShapesConstants
    <3> QED BY <1>2, <2>1, <2>5, <3>1 DEF Drawn!Cornered, ShapesInv
  <2>6. CASE UNCHANGED Drawn!vars
    BY <1>2, <2>6 DEF Drawn!vars, ShapesInv
  <2> QED BY <1>2, <2>2, <2>3, <2>4, <2>5, <2>6 DEF Drawn!Next
<1>3. ShapesInv => Drawn!ShapesAgree
  BY CallAgrees
<1> QED BY <1>1, <1>2, <1>3, PTL DEF Drawn!Spec

(* On every surface, with any stroke and for any box, circle or triangle a    *)
(* call paints what it paints on the panel, where the outline of a rectangle  *)
(* and a flat triangle on a canvas have the panel's thin lines, and leaves no *)
(* hole in its outline; and a canvas of any format gives back the colours     *)
(* laid over one another there, but for pixels whose row or screen was filled *)
(* with a translucent one and got no opaque one since (Shapes, Canvas;        *)
(* GFX.cpp).                                                                  *)
THEOREM DrawingAgrees == Drawn!Spec /\ Surface!Spec => []ShapesAgree
<1>1. Drawn!Spec => []Drawn!ShapesAgree
  BY CallsAgree, DrawingConstants
<1>2. Surface!Spec => []Surface!KeepsColours
  BY CanvasKeepsColours, DrawingConstants
<1> QED BY <1>1, <1>2, PTL DEF ShapesAgree
=============================================================================
