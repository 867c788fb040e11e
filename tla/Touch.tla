------------------------------- MODULE Touch --------------------------------
(***************************************************************************)
(* The touch controller's driver (gt911.cpp).                              *)
(*                                                                         *)
(* pollLoop waits for the chip's interrupt, reads the contacts and turns   *)
(* the difference to the last ones into PRESS, MOVE, HOLD and RELEASE      *)
(* events, which a callback puts into the application's touchQueue.  When  *)
(* no interrupt comes it looks at the last contacts again, so that a       *)
(* finger that rests is held.  A contact that comes back too soon is       *)
(* "bounced": its press and its release are not reported.                  *)
(*                                                                         *)
(* A place stands for everything a finger can touch without being moved    *)
(* further than a HOLD allows; another place is further away.  Times are   *)
(* in ticks.                                                               *)
(*                                                                         *)
(* ReleaseAll is a mistake the code could make; Next does not use it.      *)
(***************************************************************************)
EXTENDS Integers, Sequences, SequencesExt

CONSTANTS
    Contacts,     \* how many contacts the chip tells apart
    Places,       \* where a finger may be
    HoldTime,     \* holdMs
    Debounce,     \* debounceMs
    MaxMoves      \* bound: changes of a contact

VARIABLES
    finger, ready,       \* the chip: where its contacts are, and is there news
    points,              \* pollLoop's points and lastCount
    tracked,             \* TrackState, by contact: "no", "down" or "bounced"
    point, start, held,  \* point; startX, startY; holdFired
    age, since,          \* ticks since pressTime and since lastRelease, no more than matter
    polling,             \* running
    queue,               \* touchQueue
    told,                \* history: "down" after a PRESS, "up" after its RELEASE, "wrong" after another
    moves                \* bound

trackVars == <<points, tracked, point, start, held, age, since>>
touchVars == <<finger, ready, trackVars, polling, queue, told, moves>>

Ids == 1..Contacts
Nowhere == "nowhere"
TouchConstants == Contacts \in Nat
Event(kind, id, place) == [kind |-> kind, id |-> id, place |-> place]

Init ==
    /\ finger = [i \in Ids |-> Nowhere] /\ ready = FALSE
    /\ points = finger
    /\ tracked = [i \in Ids |-> "no"] /\ held = [i \in Ids |-> FALSE]
    /\ point = finger /\ start = finger
    /\ age = [i \in Ids |-> 0] /\ since = [i \in Ids |-> Debounce]
    /\ polling = TRUE /\ queue = << >>
    /\ told = [i \in Ids |-> "up"] /\ moves = 0

(* The panel: a contact comes, goes or moves. *)
Contact(i, place) ==
    /\ moves < MaxMoves /\ moves' = moves + 1
    /\ finger[i] # place /\ finger' = [finger EXCEPT ![i] = place]
    /\ ready' = TRUE
    /\ UNCHANGED <<trackVars, polling, queue, told>>

Tick ==
    /\ age' = [i \in Ids |-> IF age[i] < HoldTime /\ tracked[i] # "no" THEN age[i] + 1 ELSE age[i]]
    /\ since' = [i \in Ids |-> IF since[i] < Debounce THEN since[i] + 1 ELSE since[i]]
    /\ UNCHANGED <<finger, ready, points, tracked, point, start, held, polling, queue, told, moves>>

-----------------------------------------------------------------------------
(* processTouches: what becomes of a contact, seen at place p.              *)

Gone(i, p) == tracked[i] # "no" /\ p = Nowhere
Comes(i, p) == tracked[i] = "no" /\ p # Nowhere
Stays(i, p) == tracked[i] # "no" /\ p # Nowhere
Bounces(i, p) == Comes(i, p) /\ since[i] < Debounce
Rests(i, p) == Stays(i, p) /\ ~held[i] /\ age[i] >= HoldTime /\ p = start[i]

ReleaseAll(i, p) == IF Gone(i, p) THEN <<Event("RELEASE", i, point[i])>> ELSE << >>
Releases(i, p) == IF Gone(i, p) /\ tracked[i] = "down" THEN <<Event("RELEASE", i, point[i])>> ELSE << >>

Others(i, p) ==
    (IF Comes(i, p) /\ ~Bounces(i, p) THEN <<Event("PRESS", i, p)>> ELSE << >>)
    \o (IF Stays(i, p) /\ p # point[i] THEN <<Event("MOVE", i, p)>> ELSE << >>)
    \o (IF Rests(i, p) THEN <<Event("HOLD", i, p)>> ELSE << >>)

(* What the listener knows of a contact after an event.                     *)
Heard(known, e) ==
    CASE e.kind = "PRESS" -> [known EXCEPT ![e.id] = IF @ = "up" THEN "down" ELSE "wrong"]
      [] e.kind = "RELEASE" -> [known EXCEPT ![e.id] = IF @ = "down" THEN "up" ELSE "wrong"]
      [] OTHER -> known

Sent(events) == queue' = queue \o events /\ told' = FoldLeft(Heard, told, events)

ProcessTouches(seen) ==
    LET Each(events(_, _)) == FoldLeft(LAMBDA s, t : s \o t, << >>, [i \in Ids |-> events(i, seen[i])])
    IN  /\ Sent(Each(Releases) \o Each(Others))
        /\ tracked' = [i \in Ids |-> CASE seen[i] = Nowhere -> "no"
                                       [] Bounces(i, seen[i]) -> "bounced"
                                       [] Comes(i, seen[i]) /\ ~Bounces(i, seen[i]) -> "down"
                                       [] OTHER -> tracked[i]]
        /\ start' = [i \in Ids |-> IF Stays(i, seen[i]) THEN start[i] ELSE seen[i]]
        /\ point' = seen
        /\ held' = [i \in Ids |-> Stays(i, seen[i]) /\ (held[i] \/ Rests(i, seen[i]))]
        /\ age' = [i \in Ids |-> CASE Bounces(i, seen[i]) -> IF since[i] < HoldTime THEN since[i] ELSE HoldTime
                                   [] Stays(i, seen[i]) -> age[i]
                                   [] OTHER -> 0]
        /\ since' = [i \in Ids |-> IF Gone(i, seen[i]) THEN 0 ELSE since[i]]

(* One pass of pollLoop: the interrupt's contacts, or the last ones again.  *)
Interrupted ==
    /\ polling /\ ready
    /\ ready' = FALSE /\ points' = finger
    /\ ProcessTouches(finger)
    /\ UNCHANGED <<finger, polling, moves>>

(* The chip is not ready or counts too many: nothing is read.                *)
Skipped ==
    /\ polling /\ ready /\ ready' = FALSE
    /\ UNCHANGED <<finger, trackVars, polling, queue, told, moves>>

TimedOut ==
    /\ polling /\ ~ready /\ \E i \in Ids : tracked[i] # "no"
    /\ ProcessTouches(points)
    /\ UNCHANGED <<finger, ready, points, polling, moves>>

(* stopPolling: whatever is tracked is released, the bounced too.           *)
Stop ==
    /\ polling /\ polling' = FALSE
    /\ Sent(FoldLeft(LAMBDA s, i : IF tracked[i] = "no" THEN s ELSE Append(s, Event("RELEASE", i, point[i])),
                     << >>, [i \in Ids |-> i]))
    /\ tracked' = [i \in Ids |-> "no"]
    /\ UNCHANGED <<finger, ready, points, point, start, held, age, since, moves>>

Next == \/ \E i \in Ids, p \in Places \cup {Nowhere} : Contact(i, p)
        \/ Tick \/ Interrupted \/ Skipped \/ TimedOut \/ Stop

Spec == Init /\ [][Next]_touchVars

-----------------------------------------------------------------------------
(* Properties *)

(* While the loop runs the listener hears of each contact's presses and      *)
(* releases in turn and knows which contacts are down, however they come, go *)
(* and bounce (gt911.cpp, processTouches).                                   *)
TouchesPair == polling => told = [i \in Ids |-> IF tracked[i] = "down" THEN "down" ELSE "up"]
=============================================================================
