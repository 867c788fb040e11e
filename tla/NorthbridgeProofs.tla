------------------------- MODULE NorthbridgeProofs --------------------------
(***************************************************************************)
(* The firmware's parts for all constants: the clock chip, the LEDs, the   *)
(* encoder's count, the power switch and its commands, and the audio ring. *)
(***************************************************************************)
EXTENDS MCNorthbridge, TLAPS

-----------------------------------------------------------------------------
(* The clock chip.  What is pushed over the link came from NTP, unless the    *)
(* App goes by a plausible clock NTP does not hold: an unset clock has not    *)
(* run long enough to look plausible, and rtc_task seeds what is past.        *)

ClockInv ==
    /\ now \in Int /\ rtc \in Int /\ sys \in Int
    /\ Build <= now /\ now <= MaxNow
    /\ ntp => sys = now
    /\ sys < SaneYear => sys <= now - Build
    /\ host = "run" /\ ~fromRtc /\ ~ntp /\ ~kept => sys < SaneYear
    /\ sound => ~osf /\ rtc >= SaneYear

(* Every step of the clocks keeps ClockInv: only a sync makes the chip sound, *)
(* and only the App's start, NTP's going and time change what it goes by.     *)
LEMMA ClockStep == ASSUME ClockInv, [TheClock!Next]_(TheClock!vars) PROVE ClockInv'
<1> USE ClockConstants
        DEF ClockInv, TheClock!Unset, TheClock!BadTime, TheClock!chip, TheClock!clock, TheClock!appVars
<1>1. CASE TheClock!Tick
  BY <1>1 DEF TheClock!Tick
<1>2. CASE TheClock!Ntp
  BY <1>2 DEF TheClock!Ntp
<1>11. CASE TheClock!NtpGoes
  <2>1. host = "run" /\ ~fromRtc => kept'
    BY <1>11, Zenon DEF TheClock!NtpGoes
  <2> QED BY <1>11, <2>1 DEF TheClock!NtpGoes
<1>3. CASE TheClock!LosePower \/ TheClock!Reboot
  BY <1>3 DEF TheClock!LosePower, TheClock!Reboot
<1>4. CASE TheClock!InitChip \/ TheClock!InitFails \/ TheClock!SyncFails
  BY <1>4 DEF TheClock!InitChip, TheClock!InitFails, TheClock!SyncFails
<1>5. CASE TheClock!Sync
  <2>1. sound' => ~osf'
    BY <1>5, Zenon DEF TheClock!Sync
  <2> QED BY <1>5, <2>1 DEF TheClock!Sync, TheClock!Seed
<1>6. CASE TheClock!PiBoots
  BY <1>6 DEF TheClock!PiBoots
<1>7. CASE TheClock!AppEnds
  BY <1>7 DEF TheClock!AppEnds
<1>8. CASE TheClock!AppStarts
  <2>1. sys >= SaneYear /\ ~ntp => kept'
    BY <1>8, Zenon DEF TheClock!AppStarts
  <2>2. fromRtc' => rtc >= SaneYear /\ sys < SaneYear
    BY <1>8, Zenon DEF TheClock!AppStarts
  <2> QED BY <1>8, <2>1, <2>2 DEF TheClock!AppStarts
<1>9. CASE TheClock!Service
  BY <1>9 DEF TheClock!Service
<1>10. CASE UNCHANGED TheClock!vars
  BY <1>10 DEF TheClock!vars
<1> QED BY <1>1, <1>2, <1>3, <1>4, <1>5, <1>6, <1>7, <1>8, <1>9, <1>10, <1>11 DEF TheClock!Next

(* No step takes a good chip further from the true time.                      *)
LEMMA ClockKeeps ==
    ASSUME ClockInv, [TheClock!Next]_(TheClock!vars), sound, sound', ~kept
    PROVE  TheClock!Error' <= TheClock!Error
<1> USE ClockConstants
        DEF ClockInv, TheClock!Unset, TheClock!BadTime, TheClock!chip, TheClock!clock, TheClock!appVars,
            TheClock!Error, TheClock!Apart
<1>1. CASE TheClock!Tick
  BY <1>1 DEF TheClock!Tick
<1>2. CASE TheClock!Sync
  BY <1>2 DEF TheClock!Sync, TheClock!Seed
<1>3. CASE TheClock!Service
  BY <1>3 DEF TheClock!Service
<1>4. CASE TheClock!LosePower
  BY <1>4 DEF TheClock!LosePower
<1>5. CASE UNCHANGED <<now, rtc>>
  BY <1>5
<1> QED
  BY <1>1, <1>2, <1>3, <1>4, <1>5
  DEF TheClock!Next, TheClock!vars, TheClock!Ntp, TheClock!NtpGoes, TheClock!Reboot, TheClock!InitChip,
      TheClock!InitFails, TheClock!SyncFails, TheClock!PiBoots, TheClock!AppEnds, TheClock!AppStarts

(* However the Pico, the Pi and the App restart, the App never takes a good   *)
(* chip further from the true time by what came from the chip or from         *)
(* nowhere; a plausible clock NTP does not hold is excepted.                  *)
THEOREM RtcKeeps == TheClock!Spec => RtcKeepsTime
<1>1. TheClock!Init => ClockInv
  BY ClockConstants DEF TheClock!Init, ClockInv, TheClock!Unset, TheClock!BadTime
<1>2. ClockInv /\ [TheClock!Next]_(TheClock!vars)
      => [sound /\ sound' /\ ~kept => TheClock!Error' <= TheClock!Error]_(TheClock!vars)
  BY ClockKeeps
<1> QED BY <1>1, <1>2, ClockStep, PTL DEF TheClock!Spec, RtcKeepsTime, TheClock!RtcKeepsTime

-----------------------------------------------------------------------------
(* The LEDs.  panel_task waits for the test before it reads g_led_state, so   *)
(* that only its own late write and a write that fails can leave them wrong.  *)

LedInv ==
    /\ panel # "test" => test = "done"
    /\ LedsSettle

(* Every step of the panel keeps LedInv: a write that did not reach the       *)
(* expander is noted as such.                                                 *)
LEMMA LedStep == ASSUME LedInv, [Next]_vars PROVE LedInv'
<1> USE DEF LedInv, LedsSettle, Idle, None, port, scanVars, ledVars, appVars
<1>1. CASE \E i \in Inputs : Move(i)
  BY <1>1 DEF Move
<1>2. CASE \E chip \in Chips : Scan(chip)
  BY <1>2 DEF Scan
<1>3. CASE TestOn \/ TestOff \/ TestDone
  BY <1>3 DEF TestOn, TestOff, TestDone
<1>4. CASE PanelRead \/ PanelTake \/ PanelSend
  BY <1>4 DEF PanelRead, PanelTake, PanelSend
<1>5. CASE PanelApply
  BY <1>5 DEF PanelApply, WriteLeds
<1>6. CASE GetPanelRuns \/ SetLedsRuns
  BY <1>6 DEF GetPanelRuns, SetLedsRuns
<1>7. CASE SetLedsWrites
  BY <1>7 DEF SetLedsWrites, WriteLeds
<1>8. CASE Main \/ Arrives \/ FrameLost \/ CommandLost
  BY <1>8 DEF Main, Start, Offline, Unseeded, Seeded, RunAction, Arrives, FrameLost, CommandLost
<1>9. CASE UNCHANGED vars
  BY <1>9 DEF vars
<1>a. SelfTest \/ PanelTask \/ Dispatcher =>
          \/ TestOn \/ TestOff \/ TestDone \/ PanelRead \/ PanelTake \/ PanelSend \/ PanelApply
          \/ GetPanelRuns \/ SetLedsRuns \/ SetLedsWrites
  BY DEF SelfTest, PanelTask, Dispatcher
<1> QED BY <1>1, <1>2, <1>3, <1>4, <1>5, <1>6, <1>7, <1>8, <1>9, <1>a DEF Next

(* When no command is pending the LEDs are what the master last asked for.    *)
THEOREM LedsAreAsAsked == Spec => []LedsSettle
<1>1. Init => LedInv
  BY DEF Init, LedInv, LedsSettle
<1>2. LedInv => LedsSettle
  BY DEF LedInv
<1> QED BY <1>1, <1>2, LedStep, PTL DEF Spec

-----------------------------------------------------------------------------
(* The encoder's count.  As long as the lines were never more than two steps  *)
(* ahead of the interrupt, it counts every step or sees that it missed two.   *)

(* The steps the shaft is ahead of what the interrupt has counted; each of    *)
(* the pending ones went one way or the other.                                *)
Ahead(d) ==
    /\ d \in -pending .. pending /\ (d + pending) % 2 = 0
    /\ state = TheEncoder!Lines(turned - d)
    /\ StepsPerDetent * position + sub = turned - d

CountInv ==
    /\ turned \in Int /\ sub \in Int /\ position \in Int /\ errors \in Int
    /\ pending \in 0 .. MaxBehind /\ state \in 0 .. 3
    /\ errors = 0 => \E d \in Int : Ahead(d)

(* What the table makes of two readings that are up to two steps apart.       *)
LEMMA Decoded ==
    ASSUME NEW n \in Int, NEW d \in -2 .. 2
    PROVE  LET before == TheEncoder!Lines(n - d)
               after == TheEncoder!Lines(n)
           IN  /\ TheEncoder!Dir(before, after) = IF d \in {-1, 1} THEN d ELSE 0
               /\ before = after <=> d = 0
<1>1. n % 4 \in 0 .. 3 /\ (n - d) % 4 = ((n % 4) - d) % 4
  OBVIOUS
<1>2. PICK r \in 0 .. 3 : r = n % 4
  BY <1>1
<1>3. PICK k \in 0 .. 3 : k = (n - d) % 4 /\ k = (r - d) % 4
  BY <1>1, <1>2
<1>4. TheEncoder!Lines(n) = <<0, 2, 3, 1>>[r + 1] /\ TheEncoder!Lines(n - d) = <<0, 2, 3, 1>>[k + 1]
  BY <1>2, <1>3 DEF TheEncoder!Lines
<1>5. \/ d = 0 /\ k = r
      \/ d = 1 /\ <<r, k>> \in {<<0, 3>>, <<1, 0>>, <<2, 1>>, <<3, 2>>}
      \/ d = -1 /\ <<r, k>> \in {<<0, 1>>, <<1, 2>>, <<2, 3>>, <<3, 0>>}
      \/ d \in {-2, 2} /\ <<r, k>> \in {<<0, 2>>, <<1, 3>>, <<2, 0>>, <<3, 1>>}
  BY <1>3
<1> QED BY <1>4, <1>5 DEF TheEncoder!Dir, TheEncoder!QuadTable

(* Where the two lines stand is one of four positions.                        *)
LEMMA LinesInRange ==
    ASSUME NEW n \in Int, NEW before \in 0 .. 3
    PROVE  TheEncoder!Lines(n) \in 0 .. 3 /\ TheEncoder!Dir(before, TheEncoder!Lines(n)) \in {-1, 0, 1}
<1>1. PICK r \in 0 .. 3 : r = n % 4
  OBVIOUS
<1>2. TheEncoder!Lines(n) \in 0 .. 3
  BY <1>1 DEF TheEncoder!Lines
<1>3. PICK cur \in 0 .. 3 : cur = TheEncoder!Lines(n)
  BY <1>2
<1>4. 4 * before + cur + 1 \in 1 .. 16
  OBVIOUS
<1>5. \A k \in 1 .. 16 : TheEncoder!QuadTable[k] \in {-1, 0, 1}
  BY DEF TheEncoder!QuadTable
<1> QED BY <1>2, <1>3, <1>4, <1>5 DEF TheEncoder!Dir

(* Every turn of the shaft and every interrupt keep CountInv.                 *)
LEMMA CountStep == ASSUME CountInv, [TheEncoder!Next]_(TheEncoder!vars) PROVE CountInv'
<1> USE EncoderConstants DEF CountInv
<1>1. CASE \E d \in {-1, 1} : TheEncoder!Turn(d)
  <2>1. PICK e \in {-1, 1} : TheEncoder!Turn(e)
    BY <1>1
  <2>2. /\ turned' = turned + e /\ pending' = pending + 1 /\ pending < MaxBehind
        /\ UNCHANGED <<state, sub, position, errors>>
    BY <2>1 DEF TheEncoder!Turn
  <2>3. ASSUME NEW d \in Int, Ahead(d)
        PROVE  Ahead(d + e)'
    <3>1. turned' - (d + e) = turned - d
      BY <2>2
    <3>2. d + e \in -pending' .. pending' /\ (d + e + pending') % 2 = 0
      BY <2>2, <2>3 DEF Ahead
    <3> QED BY <2>2, <2>3, <3>1, <3>2 DEF Ahead
  <2>4. \A d \in Int : d + e \in Int
    OBVIOUS
  <2> QED BY <2>2, <2>3, <2>4
<1>2. CASE TheEncoder!Isr
  <2> DEFINE dir == TheEncoder!Dir(state, TheEncoder!Lines(turned))
             s == sub + dir
             detent == IF s >= StepsPerDetent THEN 1 ELSE IF s <= -StepsPerDetent THEN -1 ELSE 0
  <2>1. /\ pending > 0 /\ pending' = 0 /\ turned' = turned /\ state' = TheEncoder!Lines(turned)
        /\ sub' = s - detent * StepsPerDetent /\ position' = position + detent
        /\ errors' = IF dir = 0 /\ TheEncoder!Lines(turned) # state /\ errors = 0 THEN 1 ELSE errors
    BY <1>2 DEF TheEncoder!Isr, TheEncoder!Decode, TheEncoder!shaft
  <2>2. state' \in 0 .. 3 /\ dir \in {-1, 0, 1}
    BY <2>1, LinesInRange
  <2>3. /\ sub' \in Int /\ position' \in Int
        /\ StepsPerDetent * position' + sub' = StepsPerDetent * position + sub + dir
    <3>1. detent \in {-1, 0, 1}
      OBVIOUS
    <3> HIDE DEF detent, dir
    <3>2. StepsPerDetent * (position + detent) = StepsPerDetent * position + StepsPerDetent * detent
      BY <3>1
    <3>3. CASE detent = 1
      BY <3>1, <3>2, <3>3, <2>1, <2>2
    <3>4. CASE detent = 0
      BY <3>1, <3>2, <3>4, <2>1, <2>2
    <3>5. CASE detent = -1
      BY <3>1, <3>2, <3>5, <2>1, <2>2
    <3> QED BY <3>1, <3>3, <3>4, <3>5
  <2>4. ASSUME errors' = 0
        PROVE  \E d \in Int : Ahead(d)'
    <3>1. errors = 0
      BY <2>1, <2>4
    <3>2. PICK d \in Int : Ahead(d)
      BY <3>1
    <3>3. d \in -2 .. 2 /\ d \in -pending .. pending /\ (d + pending) % 2 = 0
      BY <3>2 DEF Ahead
    <3>4. /\ dir = IF d \in {-1, 1} THEN d ELSE 0
          /\ state = TheEncoder!Lines(turned) <=> d = 0
      BY <3>2, <3>3, Decoded DEF Ahead
    <3>5. dir = d
      BY <3>1, <3>3, <3>4, <2>1, <2>4
    <3> HIDE DEF dir, detent
    <3>6. StepsPerDetent * position' + sub' = turned
      <4>1. StepsPerDetent * position + sub = turned - d
        BY <3>2 DEF Ahead
      <4>2. StepsPerDetent * position' + sub' = (turned - d) + d
        BY <4>1, <3>5, <2>3
      <4> QED BY <4>2
    <3>7. turned' - 0 = turned /\ 0 \in -pending' .. pending' /\ (0 + pending') % 2 = 0
      BY <2>1
    <3>8. state' = TheEncoder!Lines(turned' - 0)
      BY <3>7, <2>1
    <3> QED BY <3>6, <3>7, <3>8 DEF Ahead
  <2> HIDE DEF dir
  <2>5. errors' \in Int
    BY <2>1
  <2> QED BY <2>1, <2>2, <2>3, <2>4, <2>5
<1>3. CASE UNCHANGED <<turned, state, sub, position, errors, pending>>
  BY <1>3 DEF Ahead
<1>4. TheEncoder!Press \/ TheEncoder!Wake \/ TheEncoder!Settle \/ TheEncoder!Report \/ TheEncoder!Button
      \/ TheEncoder!Forward \/ UNCHANGED TheEncoder!vars
      => UNCHANGED <<turned, state, sub, position, errors, pending>>
  BY DEF TheEncoder!Press, TheEncoder!Wake, TheEncoder!Settle, TheEncoder!Report, TheEncoder!Button,
         TheEncoder!Forward, TheEncoder!vars, TheEncoder!shaft, TheEncoder!isrVars
<1> QED BY <1>1, <1>2, <1>3, <1>4 DEF TheEncoder!Next

(* Once the interrupt has caught up its count is where the shaft is.          *)
THEOREM CountIsExact == TheEncoder!Spec => [](TheEncoder!CountExact)
<1>1. TheEncoder!Init => CountInv
  <2> SUFFICES ASSUME TheEncoder!Init PROVE CountInv
    OBVIOUS
  <2>1. Ahead(0)
    BY EncoderConstants DEF TheEncoder!Init, Ahead
  <2>2. state \in 0 .. 3
    BY LinesInRange DEF TheEncoder!Init
  <2> QED BY <2>1, <2>2, EncoderConstants DEF TheEncoder!Init, CountInv
<1>2. CountInv => TheEncoder!CountExact
  BY DEF CountInv, Ahead, TheEncoder!CountExact
<1> QED BY <1>1, <1>2, CountStep, PTL DEF TheEncoder!Spec

(* The detents on their way.  What the interrupt counts is passed from one    *)
(* place to the next, and nothing is in two places.                           *)

AddEvent(n, event) == TheEncoder!AddDelta(n, event)
Counting == INSTANCE Folding WITH Op <- AddEvent

Turns == [delta : Int, edge : BOOLEAN]

LEMMA QueuedFolds ==
    /\ TheEncoder!Queued = Counting!Fold(0, queue)
    /\ TheEncoder!Queued' = Counting!Fold(0, queue')
BY DEF TheEncoder!Queued, TheEncoder!FoldLeft, TheEncoder!MapThenFoldSet, TheEncoder!Max,
       Counting!Fold, Counting!MapThenFoldSet, Counting!Greatest, AddEvent

LEMMA TurnsHaveDelta == \A e \in Turns : e.delta \in Int
BY DEF Turns

(* What a queue holds, counted from any number on. *)
LEMMA CountedFrom ==
    ASSUME NEW q \in Seq(Turns), NEW n \in Int
    PROVE  Counting!Fold(n, q) \in Int /\ Counting!Fold(n, q) = n + Counting!Fold(0, q)
<1>1. /\ Len(q) \in Nat
      /\ \A k \in 1 .. Len(q) : k - 1 \in Nat /\ k \in Nat /\ q[k].delta \in Int
  <2>1. \A k \in 1 .. Len(q) : q[k] \in Turns
    OBVIOUS
  <2> QED BY <2>1, TurnsHaveDelta
<1>2. ASSUME NEW m \in Int
      PROVE  Counting!Fold(m, q) \in Int
  <2> DEFINE W == [k \in Nat |-> Int]
  <2>1. m \in W[0]
    OBVIOUS
  <2>2. \A k \in 1 .. Len(q) : \A v \in W[k - 1] : AddEvent(v, q[k]) \in W[k]
    BY <1>1 DEF AddEvent, TheEncoder!AddDelta
  <2>3. W[Len(q)] = Int
    BY <1>1
  <2> HIDE DEF W
  <2> QED BY <2>1, <2>2, <2>3, Counting!FoldKeeps
<1>3. PICK f : Counting!Runs(f, 0, q) /\ Counting!Fold(0, q) = f[Len(q)]
  BY Counting!FoldRuns
<1> DEFINE g == [k \in 0 .. Len(q) |-> n + f[k]]
<1>4. f[0] = 0 /\ \A k \in 1 .. Len(q) : f[k] = f[k - 1] + q[k].delta
  BY <1>3 DEF Counting!Runs, AddEvent, TheEncoder!AddDelta
<1>5. \A k \in 0 .. Len(q) : f[k] \in Int
  <2> DEFINE T == {k \in Nat : k <= Len(q) => f[k] \in Int}
  <2>1. 0 \in T
    BY <1>4
  <2>2. ASSUME NEW k \in Nat, k \in T
        PROVE  k + 1 \in T
    <3> SUFFICES ASSUME k + 1 <= Len(q) PROVE f[k + 1] \in Int
      OBVIOUS
    <3>1. k + 1 \in 1 .. Len(q) /\ (k + 1) - 1 = k /\ f[k] \in Int
      BY <1>1, <2>2
    <3> QED BY <1>1, <1>4, <3>1
  <2> HIDE DEF T
  <2>3. Nat \subseteq T
    BY <2>1, <2>2, Counting!Induction
  <2> QED BY <1>1, <2>3 DEF T
<1>6. g[0] = n
  BY <1>4
<1>7. ASSUME NEW k \in 1 .. Len(q)
      PROVE  g[k] = AddEvent(g[k - 1], q[k])
  <2>1. k \in 0 .. Len(q) /\ k - 1 \in 0 .. Len(q)
    BY <1>1
  <2>2. f[k] = f[k - 1] + q[k].delta /\ f[k - 1] \in Int /\ q[k].delta \in Int
    BY <1>1, <1>4, <1>5, <2>1
  <2> QED BY <2>1, <2>2 DEF AddEvent, TheEncoder!AddDelta
<1>8. g[Len(q)] = n + Counting!Fold(0, q)
  BY <1>1, <1>3
<1> HIDE DEF g
<1>9. Counting!Runs(g, n, q)
  BY <1>6, <1>7 DEF Counting!Runs
<1>a. Counting!Fold(n, q) = g[Len(q)]
  BY <1>9, Counting!FoldIsEnd
<1> QED BY <1>2, <1>8, <1>a

(* The task holds detents only between taking and reporting them. *)
DetentInv ==
    /\ sub \in Int /\ position \in Int /\ queueDelta \in Int /\ held \in Int
    /\ forwarded \in Int /\ spilled \in Int
    /\ queue \in Seq(Turns)
    /\ state \in 0 .. 3 /\ turned \in Int
    /\ task # "report" => held = 0
    /\ TheEncoder!NoDetentTwice

(* What the queue holds after an event more, and after an event less. *)
LEMMA QueueStep ==
    ASSUME DetentInv
    PROVE  /\ TheEncoder!Queued \in Int
           /\ \A e \in Turns : queue' = Append(queue, e) =>
                  queue' \in Seq(Turns) /\ TheEncoder!Queued' = TheEncoder!Queued + e.delta
           /\ queue # << >> /\ queue' = Tail(queue) =>
                  queue' \in Seq(Turns) /\ TheEncoder!Queued' = TheEncoder!Queued - Head(queue).delta
           /\ queue' = queue => queue' \in Seq(Turns) /\ TheEncoder!Queued' = TheEncoder!Queued
<1>1. queue \in Seq(Turns)
  BY DEF DetentInv
<1>2. TheEncoder!Queued = Counting!Fold(0, queue) /\ TheEncoder!Queued \in Int
  BY <1>1, QueuedFolds, CountedFrom
<1>3. TheEncoder!Queued' = Counting!Fold(0, queue')
  BY QueuedFolds
<1>4. ASSUME NEW e \in Turns, queue' = Append(queue, e)
      PROVE  queue' \in Seq(Turns) /\ TheEncoder!Queued' = TheEncoder!Queued + e.delta
  <2>1. Counting!Fold(0, Append(queue, e)) = AddEvent(Counting!Fold(0, queue), e)
    BY <1>1, Counting!FoldAppend
  <2> QED BY <1>1, <1>2, <1>3, <1>4, <2>1 DEF AddEvent, TheEncoder!AddDelta
<1>5. ASSUME queue # << >>, queue' = Tail(queue)
      PROVE  queue' \in Seq(Turns) /\ TheEncoder!Queued' = TheEncoder!Queued - Head(queue).delta
  <2>1. Head(queue) \in Turns /\ Tail(queue) \in Seq(Turns) /\ Head(queue).delta \in Int
    <3>1. Head(queue) \in Turns /\ Tail(queue) \in Seq(Turns)
      BY <1>1, <1>5
    <3> QED BY <3>1, TurnsHaveDelta
  <2>2. Counting!Fold(0, queue) = Counting!Fold(AddEvent(0, Head(queue)), Tail(queue))
    BY <1>1, <1>5, Counting!FoldFirst
  <2>3. AddEvent(0, Head(queue)) = Head(queue).delta
    BY <2>1 DEF AddEvent, TheEncoder!AddDelta
  <2>4. /\ Counting!Fold(Head(queue).delta, Tail(queue)) = Head(queue).delta + Counting!Fold(0, Tail(queue))
        /\ Counting!Fold(0, Tail(queue)) \in Int
    <3>1. 0 \in Int
      OBVIOUS
    <3> QED BY ONLY <2>1, <3>1, CountedFrom, Zenon
  <2> QED BY <1>2, <1>3, <1>5, <2>1, <2>2, <2>3, <2>4
<1>6. queue' = queue => queue' \in Seq(Turns) /\ TheEncoder!Queued' = TheEncoder!Queued
  BY <1>1, <1>2, <1>3
<1> QED BY <1>2, <1>4, <1>5, <1>6

(* Every step keeps the sum: a detent that is decoded, taken, queued, dropped *)
(* or forwarded leaves one of its terms for another.                          *)
LEMMA DetentStep == ASSUME DetentInv, [TheEncoder!Next]_(TheEncoder!vars) PROVE DetentInv'
<1>1. TheEncoder!Queued \in Int
  BY QueueStep
<1>2. queue' = queue => queue' \in Seq(Turns) /\ TheEncoder!Queued' = TheEncoder!Queued
  BY QueueStep
<1>3. ASSUME NEW e \in Turns, queue' = Append(queue, e)
      PROVE  queue' \in Seq(Turns) /\ TheEncoder!Queued' = TheEncoder!Queued + e.delta
  BY <1>3, QueueStep
<1> USE DEF DetentInv, TheEncoder!NoDetentTwice
<1>sum. /\ forwarded \in Int /\ held \in Int /\ queueDelta \in Int /\ spilled \in Int /\ position \in Int
      /\ forwarded + TheEncoder!Queued + held + queueDelta + spilled = position
  OBVIOUS
<1>4. CASE \/ TheEncoder!Press \/ TheEncoder!Wake \/ UNCHANGED TheEncoder!vars
           \/ \E d \in {-1, 1} : TheEncoder!Turn(d)
  <2>1. /\ turned' \in Int
        /\ UNCHANGED <<state, sub, position, queueDelta, held, forwarded, spilled, queue>>
        /\ task' = task \/ (task = "block" /\ task' = "settle")
    <3> USE DEF TheEncoder!vars, TheEncoder!shaft, TheEncoder!isrVars, TheEncoder!taskVars
    <3>1. CASE TheEncoder!Press
      BY <3>1 DEF TheEncoder!Press
    <3>2. CASE TheEncoder!Wake
      BY <3>2 DEF TheEncoder!Wake
    <3>3. CASE UNCHANGED TheEncoder!vars
      BY <3>3
    <3>4. CASE \E d \in {-1, 1} : TheEncoder!Turn(d)
      BY <3>4 DEF TheEncoder!Turn
    <3> QED BY <1>4, <3>1, <3>2, <3>3, <3>4
  <2> QED BY <1>1, <1>2, <2>1
<1>5. CASE TheEncoder!Isr
  <2> DEFINE dir == TheEncoder!Dir(state, TheEncoder!Lines(turned))
             s == sub + dir
             detent == IF s >= StepsPerDetent THEN 1 ELSE IF s <= -StepsPerDetent THEN -1 ELSE 0
  <2>1. /\ state' = TheEncoder!Lines(turned)
        /\ sub' = s - detent * StepsPerDetent /\ position' = position + detent
        /\ queueDelta' = queueDelta + detent
        /\ UNCHANGED <<turned, task, held, forwarded, spilled, queue>>
    BY <1>5 DEF TheEncoder!Isr, TheEncoder!Decode, TheEncoder!shaft
  <2>2. dir \in Int /\ TheEncoder!Lines(turned) \in 0 .. 3
    BY LinesInRange
  <2>3. detent \in {-1, 0, 1} /\ s \in Int
    BY <2>2
  <2> HIDE DEF detent, s, dir
  <2>4. detent * StepsPerDetent \in Int
    BY <2>3, EncoderConstants
  <2> QED BY <1>1, <1>2, <2>1, <2>2, <2>3, <2>4
<1>6. CASE TheEncoder!Settle
  BY <1>1, <1>2, <1>6 DEF TheEncoder!Settle, TheEncoder!shaft
<1>7. CASE TheEncoder!Report
  <2>1. TheEncoder!Clamp(held) \in Int
    BY EncoderConstants DEF TheEncoder!Clamp
  <2>2. /\ held' = 0 /\ UNCHANGED <<turned, state, sub, position, queueDelta, forwarded>>
        /\ \/ queue' = Append(queue, [delta |-> TheEncoder!Clamp(held), edge |-> FALSE])
              /\ spilled' = spilled + held - TheEncoder!Clamp(held)
           \/ queue' = queue /\ spilled' = spilled + held
    BY <1>7 DEF TheEncoder!Report, TheEncoder!shaft, TheEncoder!isrVars
  <2>3. CASE queue' = queue /\ spilled' = spilled + held
    BY <1>1, <1>2, <2>2, <2>3
  <2>4. CASE /\ queue' = Append(queue, [delta |-> TheEncoder!Clamp(held), edge |-> FALSE])
             /\ spilled' = spilled + held - TheEncoder!Clamp(held)
    <3>1. [delta |-> TheEncoder!Clamp(held), edge |-> FALSE] \in Turns
      BY <2>1 DEF Turns
    <3>2. queue' \in Seq(Turns) /\ TheEncoder!Queued' = TheEncoder!Queued + TheEncoder!Clamp(held)
      BY <1>3, <2>4, <3>1
    <3>3. PICK c \in Int : c = TheEncoder!Clamp(held)
      BY <2>1
    <3>4. /\ spilled' = spilled + held - c /\ TheEncoder!Queued' = TheEncoder!Queued + c
          /\ held' = 0 /\ UNCHANGED <<turned, state, sub, position, queueDelta, forwarded>>
      BY <2>2, <2>4, <3>2, <3>3
    <3>5. forwarded' + TheEncoder!Queued' + held' + queueDelta' + spilled' = position'
      BY ONLY c \in Int, <1>1, <1>sum, <3>4
    <3> QED BY ONLY <3>2, <3>3, <3>4, <3>5, DetentInv DEF DetentInv, TheEncoder!NoDetentTwice
  <2> QED BY <2>2, <2>3, <2>4
<1>8. CASE TheEncoder!Button
  <2>1. /\ task = "button" /\ UNCHANGED <<turned, state, sub, position, queueDelta, held, forwarded, spilled>>
        /\ queue' = Append(queue, [delta |-> 0, edge |-> TRUE]) \/ queue' = queue
    BY <1>8 DEF TheEncoder!Button, TheEncoder!shaft, TheEncoder!isrVars
  <2>2. [delta |-> 0, edge |-> TRUE] \in Turns
    BY DEF Turns
  <2>3. queue' \in Seq(Turns) /\ TheEncoder!Queued' = TheEncoder!Queued
    BY <1>1, <1>2, <1>3, <2>1, <2>2
  <2> QED BY <1>1, <2>1, <2>3
<1>9. CASE TheEncoder!Forward
  <2>1. /\ queue # << >> /\ queue' = Tail(queue) /\ forwarded' = forwarded + Head(queue).delta
        /\ UNCHANGED <<turned, state, sub, position, queueDelta, task, held, spilled>>
    BY <1>9 DEF TheEncoder!Forward, TheEncoder!shaft, TheEncoder!isrVars
  <2>2. queue' \in Seq(Turns) /\ TheEncoder!Queued' = TheEncoder!Queued - Head(queue).delta
    BY <2>1, QueueStep
  <2>3. Head(queue).delta \in Int
    <3>1. Head(queue) \in Turns
      BY <2>1
    <3> QED BY <3>1, TurnsHaveDelta
  <2>4. PICK d \in Int : d = Head(queue).delta
    BY <2>3
  <2>5. /\ forwarded' = forwarded + d /\ TheEncoder!Queued' = TheEncoder!Queued - d
        /\ UNCHANGED <<turned, state, sub, position, queueDelta, task, held, spilled>>
    BY <2>1, <2>2, <2>4
  <2>6. forwarded' + TheEncoder!Queued' + held' + queueDelta' + spilled' = position'
    BY ONLY d \in Int, <1>1, <1>sum, <2>5
  <2> QED BY ONLY <2>2, <2>4, <2>5, <2>6, DetentInv DEF DetentInv, TheEncoder!NoDetentTwice
<1> QED BY <1>4, <1>5, <1>6, <1>7, <1>8, <1>9 DEF TheEncoder!Next

(* From the lines to the App no detent is lost in silence or counted twice.   *)
THEOREM DetentsAreCounted == TheEncoder!Spec => []EveryDetentCounted
<1>1. TheEncoder!Init => DetentInv
  <2> SUFFICES ASSUME TheEncoder!Init PROVE DetentInv
    OBVIOUS
  <2>1. queue \in Seq(Turns) /\ TheEncoder!Queued = 0
    BY QueuedFolds, Counting!FoldNone DEF TheEncoder!Init
  <2>2. state \in 0 .. 3
    BY LinesInRange DEF TheEncoder!Init
  <2>3. /\ turned = 0 /\ sub = 0 /\ position = 0 /\ queueDelta = 0 /\ held = 0
        /\ forwarded = 0 /\ spilled = 0
    BY DEF TheEncoder!Init
  <2>4. TheEncoder!NoDetentTwice
    BY ONLY <2>1, <2>3 DEF TheEncoder!NoDetentTwice
  <2>5. turned \in Int /\ sub \in Int /\ position \in Int /\ queueDelta \in Int
    BY ONLY <2>3
  <2>6. held \in Int /\ forwarded \in Int /\ spilled \in Int
    BY ONLY <2>3
  <2> QED BY ONLY <2>1, <2>2, <2>3, <2>4, <2>5, <2>6 DEF DetentInv
<1>2. DetentInv => TheEncoder!NoDetentTwice
  BY DEF DetentInv
<1>3. TheEncoder!Spec => []TheEncoder!NoDetentTwice
  BY <1>1, <1>2, DetentStep, PTL DEF TheEncoder!Spec
<1>4. TheEncoder!CountExact /\ TheEncoder!NoDetentTwice => EveryDetentCounted
  BY DEF EveryDetentCounted, TheEncoder!EveryDetentCounted
<1> QED BY <1>3, <1>4, CountIsExact, PTL

-----------------------------------------------------------------------------
(* The calendar.  The count of the days, the weekday and the registers agree  *)
(* on every day the chip can hold.                                            *)

AnyDates == [year : Int, month : 1 .. 12, day : 1 .. 31, hour : 0 .. 23,
             minute : 0 .. 59, second : 0 .. 59]
Dates == [year : 2000 .. 2199, month : 1 .. 12, day : 1 .. 31, hour : 0 .. 23,
          minute : 0 .. 59, second : 0 .. 59]

MarchYears == 1999 .. 2199

(* The days of the years and of the months that begin in March. *)
YearDays(year) ==
    LET y == year + 4800 IN 365 * y + (y \div 4) - (y \div 100) + (y \div 400)
MonthStart == <<306, 337, 0, 31, 61, 92, 122, 153, 184, 214, 245, 275>>
Epoch == 32045
MarchYear(y, m) == IF m < 3 THEN y - 1 ELSE y

LEMMA MonthsFromMarch ==
    ASSUME NEW m \in 1 .. 12
    PROVE  MonthStart[m] \in Int /\ (153 * (IF m < 3 THEN m + 9 ELSE m - 3) + 2) \div 5 = MonthStart[m]
<1> DEFINE n == IF m < 3 THEN m + 9 ELSE m - 3
           Are(k, s) == k = n => MonthStart[m] = s
<1>1. n \in 0 .. 11 /\ (n = 10 <=> m = 1) /\ (n = 11 <=> m = 2) /\ (n <= 9 => m = n + 3)
  OBVIOUS
<1> HIDE DEF n
<1>2. Are(0, 0) /\ Are(1, 31) /\ Are(2, 61) /\ Are(3, 92) /\ Are(4, 122) /\ Are(5, 153)
  BY <1>1 DEF MonthStart
<1>3. Are(6, 184) /\ Are(7, 214) /\ Are(8, 245) /\ Are(9, 275) /\ Are(10, 306) /\ Are(11, 337)
  BY <1>1 DEF MonthStart
<1>4. \/ n = 0 \/ n = 1 \/ n = 2 \/ n = 3 \/ n = 4 \/ n = 5
      \/ n = 6 \/ n = 7 \/ n = 8 \/ n = 9 \/ n = 10 \/ n = 11
  BY <1>1
<1> HIDE DEF Are
<1>5. MonthStart[m] \in Int /\ (153 * n + 2) \div 5 = MonthStart[m]
  BY ONLY <1>2, <1>3, <1>4 DEF Are
<1> QED BY <1>5 DEF n

LEMMA JulianIs ==
    ASSUME NEW t \in Dates
    PROVE  Calendar!JulianDay(t) = t.day + MonthStart[t.month] + YearDays(MarchYear(t.year, t.month)) - Epoch
<1> DEFINE a == (14 - t.month) \div 12
           m == t.month + 12 * a - 3
<1>1. /\ t.month \in 1 .. 12 /\ t.year \in 2000 .. 2199 /\ t.day \in 1 .. 31
  BY DEF Dates
<1>2. a = IF t.month < 3 THEN 1 ELSE 0
  BY <1>1
<1>3. (153 * m + 2) \div 5 = MonthStart[t.month]
  <2>1. m = IF t.month < 3 THEN t.month + 9 ELSE t.month - 3
    BY <1>1, <1>2
  <2> QED BY <1>1, <2>1, MonthsFromMarch
<1>4. t.year + 4800 - a = MarchYear(t.year, t.month) + 4800
  BY <1>1, <1>2 DEF MarchYear
<1>5. Calendar!JulianDay(t) =
        LET y == t.year + 4800 - a
        IN  t.day + ((153 * m + 2) \div 5) + 365 * y + (y \div 4) - (y \div 100) + (y \div 400) - 32045
  BY DEF Calendar!JulianDay
<1> HIDE DEF a, m
<1>6. MonthStart[t.month] \in Int /\ MarchYear(t.year, t.month) \in Int
  BY <1>1, MonthsFromMarch DEF MarchYear
<1> QED BY <1>1, <1>3, <1>4, <1>5, <1>6 DEF YearDays, Epoch

(* Four centuries are a whole number of weeks. *)
LEMMA YearsApart ==
    ASSUME NEW y \in MarchYears
    PROVE  /\ YearDays(y) = 365 * y + (y \div 4) - (y \div 100) + (y \div 400) + 1753164
           /\ YearDays(y + 1) = YearDays(y) + 365 + (IF Calendar!IsLeap(y + 1) THEN 1 ELSE 0)
BY SMT DEF YearDays, Calendar!IsLeap, MarchYears


LEMMA DaysIs ==
    ASSUME NEW y \in Int, NEW m \in 1 .. 12
    PROVE  /\ Calendar!DaysInMonth(y, m) \in 28 .. 31
           /\ m \notin {2, 12} => MonthStart[m + 1] = MonthStart[m] + Calendar!DaysInMonth(y, m)
           /\ m = 12 => MonthStart[1] = MonthStart[12] + Calendar!DaysInMonth(y, m)
           /\ m = 2 => MonthStart[2] = 337 /\ MonthStart[3] = 0
                       /\ Calendar!DaysInMonth(y, m) = IF Calendar!IsLeap(y) THEN 29 ELSE 28
<1> DEFINE Are(k, s, n) == m = k => MonthStart[m] = s /\ MonthStart[m + 1] = n
<1>1. Are(1, 306, 337) /\ Are(3, 0, 31) /\ Are(4, 31, 61) /\ Are(5, 61, 92) /\ Are(6, 92, 122)
  BY DEF MonthStart
<1>2. Are(7, 122, 153) /\ Are(8, 153, 184) /\ Are(9, 184, 214) /\ Are(10, 214, 245) /\ Are(11, 245, 275)
  BY DEF MonthStart
<1>3. MonthStart[1] = 306 /\ MonthStart[2] = 337 /\ MonthStart[3] = 0 /\ MonthStart[12] = 275
  BY DEF MonthStart
<1> DEFINE d == Calendar!DaysInMonth(y, m)
<1>4. /\ m \in {1, 3, 5, 7, 8, 10, 12} => d = 31
      /\ m \in {4, 6, 9, 11} => d = 30
      /\ m = 2 => d = IF Calendar!IsLeap(y) THEN 29 ELSE 28
  BY DEF Calendar!DaysInMonth
<1>5. \/ m = 1 \/ m = 2 \/ m = 3 \/ m = 4 \/ m = 5 \/ m = 6
      \/ m = 7 \/ m = 8 \/ m = 9 \/ m = 10 \/ m = 11 \/ m = 12
  OBVIOUS
<1> HIDE DEF d, Are
<1>6. CASE m \in {1, 3, 4, 5, 6}
  BY ONLY <1>1, <1>4, <1>6 DEF Are, d
<1>7. CASE m \in {7, 8, 9, 10, 11}
  BY ONLY <1>2, <1>4, <1>7 DEF Are, d
<1>8. CASE m \in {2, 12}
  BY ONLY <1>3, <1>4, <1>8 DEF d
<1> QED BY <1>5, <1>6, <1>7, <1>8 DEF d

LEMMA LaterDay ==
    ASSUME NEW y \in Int, NEW m \in 1 .. 12, NEW d \in 1 .. 31,
           NEW y2 \in Int, NEW m2 \in 1 .. 12, NEW d2 \in 1 .. 31,
           \/ y2 = y /\ m2 = m /\ d2 = d + 1
           \/ y2 = y /\ m2 = m + 1 /\ d2 = 1
           \/ y2 = y + 1 /\ m2 = 1 /\ d2 = 1
    PROVE  y * 10000 + m * 100 + d < y2 * 10000 + m2 * 100 + d2
OBVIOUS

LEMMA CompareIs ==
    ASSUME NEW t, NEW n,
           t.year \in Int, t.month \in 1 .. 12, t.day \in 1 .. 31,
           n.year \in Int, n.month \in 1 .. 12, n.day \in 1 .. 31,
           \/ n.year = t.year /\ n.month = t.month /\ n.day = t.day + 1
           \/ n.year = t.year /\ n.month = t.month + 1 /\ n.day = 1
           \/ n.year = t.year + 1 /\ n.month = 1 /\ n.day = 1
    PROVE  Calendar!Compare(t, n) = -1 /\ Calendar!Compare(n, t) = 1
<1> DEFINE A == t.year * 10000 + t.month * 100 + t.day
           B == n.year * 10000 + n.month * 100 + n.day
           P == t.hour * 3600 + t.minute * 60 + t.second
           Q == n.hour * 3600 + n.minute * 60 + n.second
           Order(i, j) == IF i = j THEN 0 ELSE IF i < j THEN -1 ELSE 1
<1>1. /\ Calendar!Compare(t, n) = IF A # B THEN Order(A, B) ELSE Order(P, Q)
      /\ Calendar!Compare(n, t) = IF B # A THEN Order(B, A) ELSE Order(Q, P)
  BY DEF Calendar!Compare
<1>2. PICK y \in Int, m \in 1 .. 12, d \in 1 .. 31 : y = t.year /\ m = t.month /\ d = t.day
  OBVIOUS
<1>3. PICK y2 \in Int, m2 \in 1 .. 12, d2 \in 1 .. 31 : y2 = n.year /\ m2 = n.month /\ d2 = n.day
  OBVIOUS
<1> DEFINE a == y * 10000 + m * 100 + d
           b == y2 * 10000 + m2 * 100 + d2
<1>4. a < b
  BY <1>2, <1>3, LaterDay
<1>5. A = a /\ B = b
  BY <1>2, <1>3
<1>6. a \in Int /\ b \in Int
  OBVIOUS
<1> HIDE DEF a, b, A, B, P, Q
<1>7. a # b /\ Order(a, b) = -1 /\ Order(b, a) = 1
  BY <1>4, <1>6
<1> HIDE DEF Order
<1> QED BY <1>1, <1>5, <1>7

(* The day after is one day later in the count, and compares as later.        *)
LEMMA NextDayCounts ==
    ASSUME NEW t \in Dates, t.day <= Calendar!DaysInMonth(t.year, t.month)
    PROVE  LET n == Calendar!NextDay(t)
           IN  /\ n \in AnyDates
               /\ n.year \in {t.year, t.year + 1}
               /\ n.day <= Calendar!DaysInMonth(n.year, n.month)
               /\ n.year <= 2199 => Calendar!JulianDay(n) = Calendar!JulianDay(t) + 1
               /\ Calendar!Compare(t, n) = -1 /\ Calendar!Compare(n, t) = 1
<1> DEFINE n == Calendar!NextDay(t)
           length == Calendar!DaysInMonth(t.year, t.month)
<1>1. /\ t.month \in 1 .. 12 /\ t.year \in 2000 .. 2199 /\ t.day \in 1 .. 31
      /\ t.hour \in 0 .. 23 /\ t.minute \in 0 .. 59 /\ t.second \in 0 .. 59
  BY DEF Dates
<1> HIDE DEF n
<1>2. length \in 28 .. 31
  BY <1>1, DaysIs
<1>3. /\ n = [year |-> n.year, month |-> n.month, day |-> n.day,
              hour |-> t.hour, minute |-> t.minute, second |-> t.second]
      /\ \/ /\ t.day < length /\ n.day = t.day + 1 /\ n.month = t.month /\ n.year = t.year
         \/ /\ t.day = length /\ n.day = 1 /\ t.month < 12 /\ n.month = t.month + 1 /\ n.year = t.year
         \/ /\ t.day = length /\ n.day = 1 /\ t.month = 12 /\ n.month = 1 /\ n.year = t.year + 1
  <2>1. CASE t.day < length
    <3>1. n = [t EXCEPT !.day = @ + 1]
      BY <2>1 DEF Calendar!NextDay, n
    <3> QED BY ONLY <2>1, <3>1, t \in Dates DEF Dates
  <2>2. CASE t.day = length /\ t.month < 12
    <3>1. n = [[t EXCEPT !.day = 1] EXCEPT !.month = t.month + 1]
      BY <1>1, <1>2, <2>2 DEF Calendar!NextDay, n
    <3>2. PICK a : a = [t EXCEPT !.day = 1]
      OBVIOUS
    <3>3. a = [year |-> t.year, month |-> t.month, day |-> 1, hour |-> t.hour,
               minute |-> t.minute, second |-> t.second]
      BY ONLY <3>2, t \in Dates DEF Dates
    <3>4. n = [a EXCEPT !.month = t.month + 1]
      BY <3>1, <3>2
    <3> QED BY ONLY <2>2, <3>3, <3>4
  <2>3. CASE t.day = length /\ t.month = 12
    <3>1. n = [[[t EXCEPT !.day = 1] EXCEPT !.month = 1] EXCEPT !.year = t.year + 1]
      BY <1>1, <1>2, <2>3 DEF Calendar!NextDay, n
    <3>2. PICK a : a = [t EXCEPT !.day = 1]
      OBVIOUS
    <3>3. a = [year |-> t.year, month |-> t.month, day |-> 1, hour |-> t.hour,
               minute |-> t.minute, second |-> t.second]
      BY ONLY <3>2, t \in Dates DEF Dates
    <3>4. PICK b : b = [a EXCEPT !.month = 1]
      OBVIOUS
    <3>5. b = [year |-> t.year, month |-> 1, day |-> 1, hour |-> t.hour,
               minute |-> t.minute, second |-> t.second]
      BY ONLY <3>3, <3>4
    <3>6. n = [b EXCEPT !.year = t.year + 1]
      BY <3>1, <3>2, <3>4
    <3> QED BY ONLY <2>3, <3>5, <3>6
  <2> QED BY <1>1, <1>2, <2>1, <2>2, <2>3
<1> HIDE DEF n, length
<1>4. n.year \in Int /\ n.month \in 1 .. 12 /\ n.day \in 1 .. 31 /\ n.year \in {t.year, t.year + 1}
  BY <1>1, <1>2, <1>3
<1>5. /\ n \in AnyDates
      /\ n.year <= 2199 => n \in Dates
  BY <1>1, <1>3, <1>4 DEF Dates, AnyDates
<1>6. n.day <= Calendar!DaysInMonth(n.year, n.month)
  <2>1. CASE n.day = 1
    BY <1>4, <2>1, DaysIs
  <2>2. CASE n.day = t.day + 1
    BY <1>1, <1>2, <1>3, <2>2 DEF length
  <2> QED BY <1>3, <2>1, <2>2
<1>8. Calendar!Compare(t, n) = -1 /\ Calendar!Compare(n, t) = 1
  <2>1. \/ n.year = t.year /\ n.month = t.month /\ n.day = t.day + 1
        \/ n.year = t.year /\ n.month = t.month + 1 /\ n.day = 1
        \/ n.year = t.year + 1 /\ n.month = 1 /\ n.day = 1
    BY <1>3
  <2>2. t.year \in Int
    BY <1>1
  <2> QED BY ONLY <1>1, <1>4, <2>1, <2>2, CompareIs, SMT
<1>9. ASSUME n.year <= 2199
      PROVE  Calendar!JulianDay(n) = Calendar!JulianDay(t) + 1
  <2> DEFINE p == YearDays(MarchYear(t.year, t.month))
             q == YearDays(MarchYear(n.year, n.month))
             s == MonthStart[t.month]
             u == MonthStart[n.month]
  <2>1. Calendar!JulianDay(t) = t.day + s + p - Epoch /\ Calendar!JulianDay(n) = n.day + u + q - Epoch
    BY <1>5, <1>9, JulianIs
  <2>2. s \in Int /\ u \in Int /\ p \in Int /\ q \in Int
    BY <1>1, <1>4, MonthsFromMarch DEF YearDays, MarchYear
  <2> SUFFICES n.day + u + q = t.day + s + p + 1
    <3> HIDE DEF p, q, s, u
    <3>1. Epoch \in Int
      BY DEF Epoch
    <3>2. t.day \in Int /\ n.day \in Int
      BY <1>1, <1>4
    <3> QED BY ONLY <2>1, <2>2, <3>1, <3>2, n.day + u + q = t.day + s + p + 1
  <2>3. CASE n.month = t.month
    BY <1>1, <1>2, <1>3, <2>2, <2>3 DEF MarchYear
  <2>4. CASE n.month = t.month + 1 /\ t.month # 2
    <3>1. n.day = 1 /\ t.day = length /\ n.year = t.year /\ t.month \notin {2, 12}
      BY <1>1, <1>3, <2>4
    <3>2. u = s + length
      <4>1. t.year \in Int
        BY <1>1
      <4>2. MonthStart[t.month + 1] = MonthStart[t.month] + length
        BY ONLY <1>1, <3>1, <4>1, DaysIs, SMT DEF length
      <4> QED BY <2>4, <4>2
    <3>3. p = q
      BY <1>1, <2>4, <3>1 DEF MarchYear
    <3> HIDE DEF p, q, s, u
    <3> QED BY <1>2, <2>2, <3>1, <3>2, <3>3
  <2>5. CASE n.month = t.month + 1 /\ t.month = 2
    <3>1. n.day = 1 /\ t.day = length /\ n.year = t.year /\ n.month = 3
      BY <1>1, <1>3, <2>5
    <3>2. s = 337 /\ u = 0 /\ length = IF Calendar!IsLeap(t.year) THEN 29 ELSE 28
      BY <1>1, <2>5, <3>1, DaysIs DEF length
    <3>3. q = p + 365 + (IF Calendar!IsLeap(t.year) THEN 1 ELSE 0)
      <4>1. MarchYear(t.year, t.month) = t.year - 1 /\ MarchYear(n.year, n.month) = t.year
        BY <1>1, <2>5, <3>1 DEF MarchYear
      <4>2. t.year - 1 \in MarchYears /\ (t.year - 1) + 1 = t.year
        BY <1>1, SMT DEF MarchYears
      <4> QED BY <1>1, <4>1, <4>2, YearsApart
    <3> HIDE DEF p, q, s, u
    <3> QED BY <1>2, <2>2, <3>1, <3>2, <3>3
  <2>6. CASE n.month = 1 /\ t.month = 12
    <3>1. n.day = 1 /\ t.day = length /\ n.year = t.year + 1
      BY <1>1, <1>3, <2>6
    <3>2. u = s + length
      BY <1>1, <2>6, DaysIs DEF length
    <3>3. p = q
      BY <1>1, <2>6, <3>1 DEF MarchYear
    <3> HIDE DEF p, q, s, u
    <3> QED BY <1>2, <2>2, <3>1, <3>2, <3>3
  <2> QED BY <1>1, <1>3, <2>3, <2>4, <2>5, <2>6
<1> QED BY <1>4, <1>5, <1>6, <1>8, <1>9 DEF n


(* The weekday, by Sakamoto's method, is the one of the count: the two sums   *)
(* differ by whole weeks.                                                     *)
Sakamoto == <<0, 3, 2, 5, 0, 3, 5, 1, 4, 6, 2, 4>>

WeeksTo == <<44, 48, 0, 4, 9, 13, 17, 22, 26, 30, 35, 39>>

LEMMA MonthsAgree ==
    ASSUME NEW m \in 1 .. 12
    PROVE  /\ Sakamoto[m] \in Int /\ MonthStart[m] \in Int /\ WeeksTo[m] \in Int
           /\ MonthStart[m] = Sakamoto[m] + 7 * WeeksTo[m] - 2
<1> DEFINE Are(k, s, n, w) == m = k => Sakamoto[m] = s /\ MonthStart[m] = n /\ WeeksTo[m] = w
<1>1. Are(1, 0, 306, 44) /\ Are(2, 3, 337, 48) /\ Are(3, 2, 0, 0) /\ Are(4, 5, 31, 4)
  BY DEF MonthStart, Sakamoto, WeeksTo
<1>2. Are(5, 0, 61, 9) /\ Are(6, 3, 92, 13) /\ Are(7, 5, 122, 17) /\ Are(8, 1, 153, 22)
  BY DEF MonthStart, Sakamoto, WeeksTo
<1>3. Are(9, 4, 184, 26) /\ Are(10, 6, 214, 30) /\ Are(11, 2, 245, 35) /\ Are(12, 4, 275, 39)
  BY DEF MonthStart, Sakamoto, WeeksTo
<1>4. \/ m = 1 \/ m = 2 \/ m = 3 \/ m = 4 \/ m = 5 \/ m = 6
      \/ m = 7 \/ m = 8 \/ m = 9 \/ m = 10 \/ m = 11 \/ m = 12
  OBVIOUS
<1> QED BY <1>1, <1>2, <1>3, <1>4

Leaps(y) == y + (y \div 4) - (y \div 100) + (y \div 400)

LEMMA WholeWeeks ==
    ASSUME NEW a \in Int, NEW k \in Int
    PROVE  (a + 7 * k) % 7 = a % 7
BY SMT

LEMMA WeeksBetween ==
    ASSUME NEW y \in MarchYears, NEW s \in Int, NEW w \in Int, NEW d \in Int
    PROVE  (d + (s + 7 * w - 2) + YearDays(y) - Epoch + 1) % 7 = (Leaps(y) + s + d) % 7
<1>1. PICK a \in Int : a = Leaps(y) + s + d
  BY SMT DEF Leaps, MarchYears
<1>2. PICK k \in Int : k = 52 * y + w + 245874
  BY SMT DEF MarchYears
<1>3. YearDays(y) = 364 * y + Leaps(y) + 1753164 /\ Leaps(y) \in Int
  BY YearsApart, SMT DEF Leaps, MarchYears
<1>4. d + (s + 7 * w - 2) + YearDays(y) - Epoch + 1 = a + 7 * k
  BY <1>1, <1>2, <1>3, SMT DEF Epoch, MarchYears
<1>5. (a + 7 * k) % 7 = a % 7
  BY WholeWeeks
<1> QED BY ONLY <1>1, <1>4, <1>5

LEMMA WeekdayAgrees ==
    ASSUME NEW t \in Dates
    PROVE  Calendar!Weekday(t.year, t.month, t.day) = ((Calendar!JulianDay(t) + 1) % 7) + 1
<1>1. t.month \in 1 .. 12 /\ t.year \in 2000 .. 2199 /\ t.day \in 1 .. 31
  BY DEF Dates
<1>2. PICK y \in MarchYears : y = MarchYear(t.year, t.month)
  BY <1>1, SMT DEF MarchYear, MarchYears
<1>3. PICK d \in Int : d = t.day
  BY <1>1
<1>4. /\ Sakamoto[t.month] \in Int /\ MonthStart[t.month] \in Int /\ WeeksTo[t.month] \in Int
      /\ MonthStart[t.month] = Sakamoto[t.month] + 7 * WeeksTo[t.month] - 2
  BY <1>1, MonthsAgree
<1>5. Calendar!Weekday(t.year, t.month, t.day) = ((Leaps(y) + Sakamoto[t.month] + d) % 7) + 1
  BY <1>2, <1>3, SMT DEF Calendar!Weekday, MarchYear, Sakamoto, Leaps, MarchYears
<1>6. Calendar!JulianDay(t) = d + MonthStart[t.month] + YearDays(y) - Epoch
  <2>1. Calendar!JulianDay(t) = t.day + MonthStart[t.month] + YearDays(MarchYear(t.year, t.month)) - Epoch
    BY JulianIs
  <2> QED BY ONLY <1>2, <1>3, <2>1, SMT
<1>7. (d + MonthStart[t.month] + YearDays(y) - Epoch + 1) % 7 = (Leaps(y) + Sakamoto[t.month] + d) % 7
  <2>1. PICK s \in Int, n \in Int, w \in Int :
            s = Sakamoto[t.month] /\ n = MonthStart[t.month] /\ w = WeeksTo[t.month]
    BY <1>4
  <2>2. n = s + 7 * w - 2
    BY ONLY <1>4, <2>1, SMT
  <2>3. (d + (s + 7 * w - 2) + YearDays(y) - Epoch + 1) % 7 = (Leaps(y) + s + d) % 7
    BY WeeksBetween, Zenon
  <2> QED BY ONLY <2>1, <2>2, <2>3, SMT
<1> QED BY ONLY <1>5, <1>6, <1>7, SMT

(* What the registers hold of a number of at most two digits. *)
LEMMA DigitsBack ==
    ASSUME NEW v \in 0 .. 99
    PROVE  /\ Calendar!BcdToBin(Calendar!BinToBcd(v)) = v
           /\ v < 80 => Calendar!BinToBcd(v) \in 0 .. 127
           /\ v < 40 => Calendar!BinToBcd(v) \in 0 .. 63
           /\ v < 20 => Calendar!BinToBcd(v) \in 0 .. 31
           /\ v < 80 => Calendar!BcdToBin(Calendar!BinToBcd(v) % 128) = v
           /\ v < 40 => Calendar!BcdToBin(Calendar!BinToBcd(v) % 64) = v
<1>1. PICK q \in 0 .. 9, r \in 0 .. 9 : v = 10 * q + r /\ q = v \div 10 /\ r = v % 10
  OBVIOUS
<1>2. Calendar!BinToBcd(v) = 16 * q + r
  BY <1>1 DEF Calendar!BinToBcd
<1>3. (16 * q + r) \div 16 = q /\ (16 * q + r) % 16 = r
  OBVIOUS
<1>4. /\ v < 80 => (16 * q + r) % 128 = 16 * q + r
      /\ v < 40 => (16 * q + r) % 64 = 16 * q + r
  BY <1>1, SMT
<1> QED BY <1>1, <1>2, <1>3, <1>4, SMT DEF Calendar!BcdToBin

(* The hour byte is read back in either mode of the chip. *)
LEMMA HoursBack ==
    ASSUME NEW h \in 0 .. 23
    PROVE  /\ Calendar!HourOf(Calendar!BinToBcd(h)) = h
           /\ Calendar!HourOf(Calendar!TwelveHours(h)) = h
<1>1. Calendar!HourOf(Calendar!BinToBcd(h)) = h
  <2>1. Calendar!BinToBcd(h) \in 0 .. 63 /\ Calendar!BcdToBin(Calendar!BinToBcd(h)) = h
    <3>1. h \in 0 .. 99 /\ h < 40
      OBVIOUS
    <3> QED BY ONLY <3>1, DigitsBack
  <2>2. PICK b \in 0 .. 63 : b = Calendar!BinToBcd(h)
    BY <2>1
  <2>3. b % 64 = b /\ b \div 64 = 0
    OBVIOUS
  <2> QED BY <2>1, <2>2, <2>3, SMT DEF Calendar!HourOf, Calendar!Bit
<1> DEFINE c == IF h % 12 = 0 THEN 12 ELSE h % 12
           e == IF h >= 12 THEN 32 ELSE 0
           b == Calendar!BinToBcd(c)
<1>2. c \in 1 .. 12 /\ e \in {0, 32} /\ (c % 12) + (IF e = 32 THEN 12 ELSE 0) = h
  OBVIOUS
<1> HIDE DEF b, c, e
<1>3. b \in 0 .. 31 /\ Calendar!BcdToBin(b) = c
  <2>1. c \in 0 .. 99 /\ c < 20
    BY <1>2
  <2> QED BY ONLY <2>1, DigitsBack DEF b
<1>4. /\ (64 + e + b) % 32 = b /\ ((64 + e + b) \div 64) % 2 = 1
      /\ ((64 + e + b) \div 32) % 2 = 1 <=> e = 32
  BY <1>2, <1>3
<1>5. Calendar!TwelveHours(h) = 64 + e + b
  BY DEF Calendar!TwelveHours, b, c, e
<1>6. Calendar!HourOf(Calendar!TwelveHours(h)) = h
  BY <1>2, <1>3, <1>4, <1>5 DEF Calendar!HourOf, Calendar!Bit
<1> QED BY <1>1, <1>6

(* What ds3231_set_time writes ds3231_get_time reads. *)
LEMMA RegistersBack ==
    ASSUME NEW t \in Dates, t.day <= Calendar!DaysInMonth(t.year, t.month),
           NEW bytes, bytes[1] = Calendar!BinToBcd(t.second), bytes[2] = Calendar!BinToBcd(t.minute),
           Calendar!HourOf(bytes[3]) = t.hour, bytes[5] = Calendar!BinToBcd(t.day),
           bytes[6] = Calendar!BinToBcd(t.month) + (IF t.year >= 2100 THEN 128 ELSE 0),
           bytes[7] = Calendar!BinToBcd(t.year - (IF t.year >= 2100 THEN 2100 ELSE 2000))
    PROVE  Calendar!TimeOf(bytes) = t
<1>1. /\ t.month \in 1 .. 12 /\ t.year \in 2000 .. 2199 /\ t.day \in 1 .. 31
      /\ t.hour \in 0 .. 23 /\ t.minute \in 0 .. 59 /\ t.second \in 0 .. 59
  BY SMT DEF Dates
<1>2. Calendar!BcdToBin(bytes[1] % 128) = t.second
  <2>1. t.second \in 0 .. 99 /\ t.second < 80
    BY <1>1, SMT
  <2> QED BY ONLY <2>1, bytes[1] = Calendar!BinToBcd(t.second), DigitsBack, SMT
<1>3. Calendar!BcdToBin(bytes[2] % 128) = t.minute
  <2>1. t.minute \in 0 .. 99 /\ t.minute < 80
    BY <1>1, SMT
  <2> QED BY ONLY <2>1, bytes[2] = Calendar!BinToBcd(t.minute), DigitsBack, SMT
<1>4. Calendar!BcdToBin(bytes[5] % 64) = t.day
  <2>1. t.day \in 0 .. 99 /\ t.day < 40
    BY <1>1, SMT
  <2> QED BY ONLY <2>1, bytes[5] = Calendar!BinToBcd(t.day), DigitsBack, SMT
<1>5. PICK b \in 0 .. 31 : b = Calendar!BinToBcd(t.month) /\ Calendar!BcdToBin(b) = t.month
  <2>1. t.month \in 0 .. 99 /\ t.month < 20
    BY <1>1, SMT
  <2>2. Calendar!BinToBcd(t.month) \in 0 .. 31 /\ Calendar!BcdToBin(Calendar!BinToBcd(t.month)) = t.month
    BY ONLY <2>1, DigitsBack, SMT
  <2> QED BY <2>2
<1>6. bytes[6] % 32 = b /\ (Calendar!Bit(bytes[6], 128) <=> t.year >= 2100)
  <2>1. /\ b % 32 = b /\ (b + 128) % 32 = b /\ (b \div 128) % 2 = 0 /\ ((b + 128) \div 128) % 2 = 1
    BY SMT
  <2> QED BY <1>1, <1>5, <2>1, SMT DEF Calendar!Bit
<1>7. Calendar!BcdToBin(bytes[6] % 32) = t.month
  BY <1>5, <1>6
<1>8. 2000 + Calendar!BcdToBin(bytes[7]) + (IF Calendar!Bit(bytes[6], 128) THEN 100 ELSE 0) = t.year
  <2>1. PICK v \in 0 .. 99 : v = t.year - (IF t.year >= 2100 THEN 2100 ELSE 2000)
    BY <1>1, SMT
  <2>2. Calendar!BcdToBin(bytes[7]) = v
    BY <2>1, DigitsBack, SMT
  <2> QED BY <1>1, <1>6, <2>1, <2>2, SMT
<1> DEFINE r == [second |-> Calendar!BcdToBin(bytes[1] % 128), minute |-> Calendar!BcdToBin(bytes[2] % 128),
                 hour |-> Calendar!HourOf(bytes[3]), day |-> Calendar!BcdToBin(bytes[5] % 64),
                 month |-> Calendar!BcdToBin(bytes[6] % 32),
                 year |-> 2000 + Calendar!BcdToBin(bytes[7]) + (IF Calendar!Bit(bytes[6], 128) THEN 100 ELSE 0)]
<1>9. r = [second |-> t.second, minute |-> t.minute, hour |-> t.hour, day |-> t.day, month |-> t.month,
           year |-> t.year]
  BY ONLY <1>2, <1>3, <1>4, <1>7, <1>8, Calendar!HourOf(bytes[3]) = t.hour, SMT
<1>a. t = [second |-> t.second, minute |-> t.minute, hour |-> t.hour, day |-> t.day, month |-> t.month,
           year |-> t.year]
  BY ONLY t \in Dates, SMT DEF Dates
<1>b. Calendar!TimeValid(t)
  BY <1>1, SMT DEF Calendar!TimeValid
<1>c. Calendar!TimeOf(bytes) = IF r.month \in 1 .. 12 /\ Calendar!TimeValid(r) THEN r ELSE Calendar!BadTime
  BY SMT DEF Calendar!TimeOf
<1> HIDE DEF r
<1>d. r = t
  BY ONLY <1>9, <1>a, SMT
<1> QED BY ONLY <1>1, <1>b, <1>c, <1>d, SMT

(* The walk is at a date the chip can hold, as many days from the first as it *)
(* has counted.                                                               *)
FirstDay == 2451545

CalendarInv ==
    /\ date \in Dates /\ date.day <= Calendar!DaysInMonth(date.year, date.month)
    /\ date.year <= LastYear
    /\ count \in Nat
    /\ Calendar!JulianDay(date) = FirstDay + count

LEMMA CalendarStep == ASSUME CalendarInv, [Calendar!Next]_(Calendar!vars) PROVE CalendarInv'
<1>1. CASE Calendar!Next
  <2> DEFINE n == Calendar!NextDay(date)
  <2>1. /\ n \in AnyDates
        /\ n.year \in {date.year, date.year + 1} /\ n.day <= Calendar!DaysInMonth(n.year, n.month)
        /\ n.year <= 2199 => Calendar!JulianDay(n) = Calendar!JulianDay(date) + 1
    BY NextDayCounts, SMT DEF CalendarInv
  <2>2. /\ n.year <= LastYear
        /\ date' = [n EXCEPT !.hour = count % 24, !.minute = count % 60, !.second = (7 * count) % 60]
        /\ count' = count + 1
    BY <1>1 DEF Calendar!Next
  <2> HIDE DEF n
  <2>3. n.year \in 2000 .. 2199
    BY <2>1, <2>2, CalendarConstants, SMT DEF CalendarInv, Dates
  <2>4. PICK h \in 0 .. 23, m \in 0 .. 59, s \in 0 .. 59 :
            h = count % 24 /\ m = count % 60 /\ s = (7 * count) % 60
    <3>1. count \in Nat /\ 7 * count \in Nat
      BY SMT DEF CalendarInv
    <3>2. \A k \in Nat : k % 24 \in 0 .. 23 /\ k % 60 \in 0 .. 59
      BY ONLY SMT
    <3> QED BY ONLY <3>1, <3>2, Zenon
  <2>5. date' = [year |-> n.year, month |-> n.month, day |-> n.day, hour |-> h, minute |-> m, second |-> s]
    <3>1. PICK a : a = [n EXCEPT !.hour = h]
      OBVIOUS
    <3>2. a = [year |-> n.year, month |-> n.month, day |-> n.day, hour |-> h, minute |-> n.minute,
               second |-> n.second]
      BY ONLY <2>1, <3>1, SMT DEF AnyDates
    <3>3. PICK b : b = [a EXCEPT !.minute = m]
      OBVIOUS
    <3>4. b = [year |-> n.year, month |-> n.month, day |-> n.day, hour |-> h, minute |-> m, second |-> n.second]
      BY ONLY <3>2, <3>3, SMT
    <3>5. date' = [b EXCEPT !.second = s]
      BY <2>2, <2>4, <3>1, <3>3
    <3> QED BY ONLY <3>4, <3>5, SMT
  <2>6. date' \in Dates /\ n \in Dates
    BY ONLY <2>1, <2>3, <2>4, <2>5, SMT DEF Dates, AnyDates
  <2>7. date'.year = n.year /\ date'.month = n.month /\ date'.day = n.day
    BY ONLY <2>5, SMT
  <2>8. Calendar!JulianDay(date') = Calendar!JulianDay(n)
    BY ONLY <2>7, SMT DEF Calendar!JulianDay
  <2>9. Calendar!JulianDay(date') = Calendar!JulianDay(date) + 1
    BY ONLY <2>1, <2>3, <2>8, SMT
  <2>a. count' \in Nat /\ Calendar!JulianDay(date') = FirstDay + count'
    BY ONLY <2>2, <2>9, CalendarInv, SMT DEF CalendarInv, FirstDay
  <2> QED BY <2>1, <2>2, <2>6, <2>7, <2>a, SMT DEF CalendarInv
<1>2. CASE UNCHANGED Calendar!vars
  BY <1>2 DEF Calendar!vars, CalendarInv
<1> QED BY <1>1, <1>2

LEMMA CalendarFromInv == CalendarInv => CalendarAgrees
<1> SUFFICES ASSUME CalendarInv PROVE CalendarAgrees
  OBVIOUS
<1>1. date \in Dates /\ date.day <= Calendar!DaysInMonth(date.year, date.month)
  BY DEF CalendarInv
<1>2. Calendar!JulianDay(date) = 2451545 + count
  BY DEF CalendarInv, FirstDay
<1>3. Calendar!Weekday(date.year, date.month, date.day) = ((Calendar!JulianDay(date) + 1) % 7) + 1
  BY <1>1, WeekdayAgrees
<1>4. /\ Calendar!Compare(date, Calendar!NextDay(date)) = -1 /\ Calendar!Compare(Calendar!NextDay(date), date) = 1
      /\ Calendar!Compare(date, date) = 0
  <2>1. Calendar!Compare(date, date) = 0
    BY SMT DEF Calendar!Compare
  <2> QED BY <1>1, <2>1, NextDayCounts, SMT
<1> DEFINE bytes == Calendar!Registers(date)
           old == [bytes EXCEPT ![3] = Calendar!TwelveHours(date.hour)]
<1>5. /\ bytes = << bytes[1], bytes[2], bytes[3], bytes[4], bytes[5], bytes[6], bytes[7] >>
      /\ bytes[1] = Calendar!BinToBcd(date.second) /\ bytes[2] = Calendar!BinToBcd(date.minute)
      /\ bytes[3] = Calendar!BinToBcd(date.hour) /\ bytes[5] = Calendar!BinToBcd(date.day)
      /\ bytes[6] = Calendar!BinToBcd(date.month) + (IF date.year >= 2100 THEN 128 ELSE 0)
      /\ bytes[7] = Calendar!BinToBcd(date.year - (IF date.year >= 2100 THEN 2100 ELSE 2000))
  BY SMT DEF Calendar!Registers
<1> HIDE DEF bytes
<1>6. /\ old[1] = bytes[1] /\ old[2] = bytes[2] /\ old[3] = Calendar!TwelveHours(date.hour)
      /\ old[5] = bytes[5] /\ old[6] = bytes[6] /\ old[7] = bytes[7]
  BY ONLY <1>5, SMT
<1> HIDE DEF old
<1>7. Calendar!HourOf(bytes[3]) = date.hour /\ Calendar!HourOf(old[3]) = date.hour
  <2>1. date.hour \in 0 .. 23
    BY <1>1, SMT DEF Dates
  <2> QED BY <1>5, <1>6, <2>1, HoursBack
<1>8. Calendar!TimeOf(bytes) = date
  BY ONLY <1>1, <1>5, <1>7, RegistersBack, SMT
<1>9. Calendar!TimeOf(old) = date
  BY ONLY <1>1, <1>5, <1>6, <1>7, RegistersBack, SMT
<1> QED BY <1>2, <1>3, <1>4, <1>8, <1>9, SMT DEF CalendarAgrees, Calendar!CalendarAgrees, bytes, old

(* Every day the chip can hold is read as it was set, counted as one and on   *)
(* its weekday.                                                               *)
THEOREM CalendarIsRight == Calendar!Spec => []CalendarAgrees
<1>1. Calendar!Init => CalendarInv
  <2> SUFFICES ASSUME Calendar!Init PROVE CalendarInv
    OBVIOUS
  <2>1. /\ date = [year |-> 2000, month |-> 1, day |-> 1, hour |-> 0, minute |-> 0, second |-> 0] /\ count = 0
    BY DEF Calendar!Init
  <2>2. date \in Dates
    BY <2>1, SMT DEF Dates
  <2>3. date.day <= Calendar!DaysInMonth(date.year, date.month)
    BY <2>1, SMT DEF Calendar!DaysInMonth
  <2>4. Calendar!JulianDay(date) = 2451545
    BY <2>1, SMT DEF Calendar!JulianDay
  <2> QED BY <2>1, <2>2, <2>3, <2>4, CalendarConstants, SMT DEF CalendarInv, FirstDay
<1> QED BY <1>1, CalendarStep, CalendarFromInv, PTL DEF Calendar!Spec

-----------------------------------------------------------------------------
(* The power switch and its button.  since counts the ticks of a press the    *)
(* loop has seen, finger those that are left of it; held (here tripped) says  *)
(* that the long press was noticed.                                           *)

Codes == {"loop", "debounce", "starting", "holding", "longPulse", "pulse", "settle", "cutting"}

Switches == [on : BOOLEAN, follow : BOOLEAN, dim : Int, led : Int]

SwitchType ==
    /\ finger \in Nat /\ since \in Nat /\ timer \in Nat /\ pulses \in Nat /\ passed \in Nat
    /\ trg \in BOOLEAN /\ tripped \in BOOLEAN /\ code \in Codes
    /\ switch \in Switches
    /\ press \in [hold : Nat, on : BOOLEAN, short : Int, long : Int, cut : BOOLEAN]

Lit(s) == ~s.follow => s.led = IF s.on THEN s.dim ELSE -1

Verdict ==
    /\ press.short = IF press.on /\ press.hold > 0 /\ press.hold - 1 <= Safe THEN 1 ELSE 0
    /\ press.long = IF press.on /\ press.hold - 1 > Safe THEN 1 ELSE 0
    /\ press.cut = (press.on /\ press.hold - 1 > Cut)

(* What is left of the press and what was seen of it make the whole; when     *)
(* nothing is left it was no longer than what was seen.                       *)
Counted ==
    /\ finger > 0 => since + finger = press.hold
    /\ finger = 0 => press.hold <= since

Untouched == press.short = 0 /\ press.long = 0 /\ ~press.cut
Noticed == press.on /\ press.short = 0 /\ press.long = 1 /\ tripped /\ press.hold - 1 > Safe /\ since > Safe

PressInv ==
    /\ code \in {"loop", "pulse", "settle"} => Verdict
    /\ code = "debounce" => Untouched
    /\ code = "starting" => Untouched /\ ~press.on
    /\ code = "holding" => Counted /\ press.on /\ ~press.cut
    /\ code = "holding" /\ ~tripped => Untouched /\ ~trg /\ finger > 0 /\ since <= Safe
    /\ code = "holding" /\ tripped => Noticed /\ trg /\ since <= Cut
    /\ code = "longPulse" => Counted /\ Noticed /\ ~press.cut /\ trg
    /\ code = "longPulse" => timer < LongPulse /\ since = Safe + 1 + timer
    /\ code = "cutting" => press.on /\ press.short = 0 /\ press.long = 1 /\ press.cut /\ press.hold - 1 > Cut

SwitchInv == SwitchType /\ Lit(switch) /\ PressInv

(* A command leaves the lamp right.                                           *)
LEMMA SteadyKeepsLamp ==
    ASSUME NEW s \in Switches, NEW dim \in Int, NEW on \in BOOLEAN, Lit(s), on = s.on \/ on
    PROVE  LET t == [s EXCEPT !.dim = dim, !.on = on]
           IN  Power!Steady(t) \in Switches /\ Lit(Power!Steady(t))
<1> DEFINE t == [s EXCEPT !.dim = dim, !.on = on]
<1>1. t \in Switches /\ t.on = on /\ t.dim = dim /\ t.follow = s.follow /\ t.led = s.led
  BY DEF Switches
<1> SUFFICES Power!Steady(t) \in Switches /\ Lit(Power!Steady(t))
  OBVIOUS
<1> HIDE DEF t
<1>2. CASE t.on /\ ~t.follow
  <2>1. Power!Steady(t) = [t EXCEPT !.led = t.dim]
    BY <1>2 DEF Power!Steady
  <2> QED BY <1>1, <1>2, <2>1 DEF Switches, Lit
<1>3. CASE ~(t.on /\ ~t.follow)
  <2>1. Power!Steady(t) = t
    BY <1>3 DEF Power!Steady
  <2>2. ~t.follow => ~t.on /\ ~s.on
    BY <1>1, <1>3
  <2>3. ASSUME ~t.follow
        PROVE  t.led = IF t.on THEN t.dim ELSE -1
    <3>1. ~t.on /\ ~s.on /\ ~s.follow
      BY <1>1, <2>2, <2>3
    <3>2. s.led = -1
      BY <3>1 DEF Lit
    <3> QED BY <1>1, <3>1, <3>2
  <2>4. Lit(t)
    BY <2>3 DEF Lit
  <2> QED BY <1>1, <2>1, <2>4
<1> QED BY <1>2, <1>3

(* Switching off leaves the lamp dark.                                        *)
LEMMA OffKeepsLamp ==
    ASSUME NEW s \in Switches
    PROVE  LET t == [s EXCEPT !.on = FALSE, !.follow = FALSE, !.led = -1] IN t \in Switches /\ Lit(t)
<1> DEFINE t == [s EXCEPT !.on = FALSE, !.follow = FALSE, !.led = -1]
<1>1. t \in Switches /\ ~t.on /\ t.led = -1
  BY FALSE \in BOOLEAN, -1 \in Int DEF Switches
<1> HIDE DEF t
<1>2. Lit(t)
  BY <1>1 DEF Lit
<1> QED BY <1>1, <1>2 DEF t

(* So does a command.                                                         *)
LEMMA CommandKeepsLamp ==
    ASSUME NEW s \in Switches, Lit(s), NEW n \in Nat
    PROVE  Power!RunCommand(s, n) \in Switches /\ Lit(Power!RunCommand(s, n))
<1>1. CASE n = 3
  <2>1. Power!RunCommand(s, n) = [s EXCEPT !.follow = TRUE]
    BY <1>1 DEF Power!RunCommand
  <2> QED BY <2>1 DEF Switches, Lit
<1>2. CASE n = 4
  <2>1. Power!RunCommand(s, n) = [s EXCEPT !.follow = FALSE, !.led = IF s.on THEN s.dim ELSE -1]
    BY <1>2 DEF Power!RunCommand, Power!Off
  <2>0. PICK led \in Int : led = IF s.on THEN s.dim ELSE -1
    <3>1. s.dim \in Int /\ -1 \in Int
      BY DEF Switches
    <3> QED BY <3>1
  <2> DEFINE t == [s EXCEPT !.follow = FALSE, !.led = led]
  <2>2. t \in Switches /\ t.on = s.on /\ t.dim = s.dim /\ t.led = led
    BY DEF Switches
  <2>3. Power!RunCommand(s, n) = t
    BY <2>0, <2>1
  <2> HIDE DEF t
  <2>4. Lit(t)
    BY <2>0, <2>2 DEF Lit
  <2> QED BY <2>2, <2>3, <2>4
<1>3. CASE n \in {5, 6, 7}
  <2>1. PICK dim \in Int : Power!RunCommand(s, n) = Power!Steady([s EXCEPT !.dim = dim])
    <3>1. s.dim \in Int /\ s.dim + 1 \in Int /\ s.dim - 1 \in Int /\ Brightest \in Int
      BY SwitchConstants DEF Switches
    <3>2. CASE n = 5
      BY <3>1, <3>2 DEF Power!RunCommand
    <3>3. CASE n = 6
      BY <3>1, <3>3 DEF Power!RunCommand
    <3>4. CASE n = 7
      BY <3>1, <3>4 DEF Power!RunCommand
    <3>5. n = 5 \/ n = 6 \/ n = 7
      BY <1>3
    <3> QED BY ZenonT(40), <3>2, <3>3, <3>4, <3>5
  <2>2. [s EXCEPT !.dim = dim] = [s EXCEPT !.dim = dim, !.on = s.on] /\ s.on \in BOOLEAN
    BY DEF Switches
  <2> QED BY <2>1, <2>2, SteadyKeepsLamp
<1>4. CASE n = 10
  <2>1. Power!RunCommand(s, n) = [s EXCEPT !.on = FALSE, !.follow = FALSE, !.led = -1]
    BY <1>4 DEF Power!RunCommand, Power!PowerOff, Power!Off
  <2> QED BY <2>1, OffKeepsLamp
<1>5. CASE n \notin {3, 4, 5, 6, 7, 10}
  <2>1. Power!RunCommand(s, n) = s
    BY <1>5 DEF Power!RunCommand
  <2> QED BY <2>1
<1> QED BY <1>1, <1>2, <1>3, <1>4, <1>5

(* A tick takes one off what is left of a press.                              *)
LEMMA TickTakesOne ==
    ASSUME SwitchType, Power!Time
    PROVE  finger' \in Nat /\ finger' = IF finger > 0 THEN finger - 1 ELSE 0
BY DEF SwitchType, Power!Time

(* A round of the loop: a command may run, and a press begins.                *)
LEMMA LoopKeeps == ASSUME SwitchInv, Power!Loop PROVE SwitchInv'
<1> DEFINE n == IF ~(~last /\ line'.low) THEN pulses ELSE IF Power!Elapsed >= Restart THEN 1 ELSE pulses + 1
           quiet == IF ~last /\ line'.low THEN 0 ELSE Power!Elapsed
           s == IF Power!Runs(n, quiet) THEN Power!RunCommand(switch, n) ELSE switch
<1>1. /\ code = "loop" /\ Power!Time /\ passed' = quiet
      /\ pulses' = IF Power!Runs(n, quiet) THEN 0 ELSE n
      /\ switch' = IF s.follow THEN [s EXCEPT !.led = IF line'.low THEN Brightest ELSE Power!Off] ELSE s
      /\ code' = IF finger' > 0 THEN "debounce" ELSE "loop"
      /\ timer' = 0
      /\ press' = IF finger' > 0 THEN [Power!NoPress EXCEPT !.hold = finger'] ELSE press
      /\ UNCHANGED <<since, trg, tripped>>
  BY DEF Power!Loop
<1>2. n \in Nat /\ quiet \in Nat
  BY DEF SwitchInv, SwitchType, Power!Elapsed
<1>3. s \in Switches /\ Lit(s)
  BY <1>2, CommandKeepsLamp DEF SwitchInv, SwitchType
<1> HIDE DEF s, n, quiet
<1>4. switch' \in Switches /\ Lit(switch')
  <2>1. CASE s.follow
    <3>1. PICK led \in Int : switch' = [s EXCEPT !.led = led]
      BY <1>1, <2>1, SwitchConstants, -1 \in Int DEF Power!Off
    <3>2. switch' \in Switches /\ switch'.follow
      BY <1>3, <2>1, <3>1 DEF Switches
    <3> QED BY <3>2 DEF Lit
  <2>2. CASE ~s.follow
    <3>1. switch' = s
      BY <1>1, <2>2
    <3> QED BY <1>3, <3>1
  <2> QED BY <2>1, <2>2
<1>5. finger' \in Nat /\ code' \in Codes
  BY <1>1, TickTakesOne DEF SwitchInv, Codes
<1>6. CASE finger' > 0
  <2>1. press' = [hold |-> finger', on |-> FALSE, short |-> 0, long |-> 0, cut |-> FALSE]
    BY <1>1, <1>6 DEF Power!NoPress
  <2>2. press' \in [hold : Nat, on : BOOLEAN, short : Int, long : Int, cut : BOOLEAN]
    BY <1>5, <2>1
  <2>3. SwitchType'
    BY <1>1, <1>2, <1>4, <1>5, <2>2 DEF SwitchInv, SwitchType
  <2>4. code' = "debounce" /\ Untouched'
    BY <1>1, <1>6, <2>1 DEF Untouched
  <2>5. PressInv'
    BY <2>4 DEF PressInv
  <2> QED BY <1>4, <2>3, <2>5 DEF SwitchInv
<1>7. CASE ~(finger' > 0)
  <2>1. code' = "loop" /\ press' = press
    BY <1>1, <1>7
  <2>2. SwitchType'
    BY <1>1, <1>2, <1>4, <1>5, <2>1 DEF SwitchInv, SwitchType
  <2>3. Verdict'
    BY <1>1, <2>1 DEF SwitchInv, PressInv, Verdict
  <2>4. PressInv'
    BY <2>1, <2>3 DEF PressInv
  <2> QED BY <1>4, <2>2, <2>4 DEF SwitchInv
<1> QED BY <1>6, <1>7

(* After the debounce it was a bounce, a press that switches on, or one to be *)
(* measured.                                                                  *)
LEMMA DebouncedKeeps == ASSUME SwitchInv, Power!Debounced PROVE SwitchInv'
<1>1. /\ code = "debounce" /\ timer' = 0 /\ passed' = Power!Elapsed /\ pulses' = pulses
      /\ code' = IF finger' = 0 THEN "loop" ELSE IF switch.on THEN "holding" ELSE "starting"
      /\ switch' = IF finger' > 0 THEN Power!Steady([switch EXCEPT !.on = TRUE]) ELSE switch
      /\ since' = 0 /\ trg' = FALSE /\ tripped' = FALSE
      /\ press' = [press EXCEPT !.hold = finger', !.on = switch.on]
  BY DEF Power!Debounced, Power!Over, Power!Blocked
<1>2. finger' \in Nat /\ passed' \in Nat
  BY <1>1, TickTakesOne DEF SwitchInv, SwitchType, Power!Debounced, Power!Blocked, Power!Elapsed
<1>3. switch' \in Switches /\ Lit(switch')
  <2>1. [switch EXCEPT !.on = TRUE] = [switch EXCEPT !.dim = switch.dim, !.on = TRUE] /\ switch.dim \in Int
    BY DEF SwitchInv, SwitchType, Switches
  <2>2. TRUE \in BOOLEAN /\ TRUE = (switch.on \/ TRUE)
    OBVIOUS
  <2> QED BY <1>1, <2>1, <2>2, SteadyKeepsLamp DEF SwitchInv, SwitchType
<1>4. /\ press' \in [hold : Nat, on : BOOLEAN, short : Int, long : Int, cut : BOOLEAN]
      /\ press'.hold = finger' /\ press'.on = switch.on /\ Untouched'
  BY <1>1, <1>2 DEF SwitchInv, SwitchType, Switches, PressInv, Untouched
<1>5. code' \in Codes
  BY <1>1, <1>2 DEF Codes
<1>6. SwitchType'
  BY <1>1, <1>2, <1>3, <1>4, <1>5 DEF SwitchInv, SwitchType
<1>7. CASE finger' = 0
  <2>1. code' = "loop"
    BY <1>1, <1>7
  <2>2. ~(press'.hold > 0) /\ ~(press'.hold - 1 > Safe) /\ ~(press'.hold - 1 > Cut)
    BY <1>4, <1>7, SwitchConstants
  <2>3. press'.cut = FALSE /\ press'.short = 0 /\ press'.long = 0
    BY <1>4 DEF Untouched
  <2>4. Verdict'
    <3>1. press'.cut = (press'.on /\ press'.hold - 1 > Cut)
      BY <2>2, <2>3, Zenon
    <3> QED BY <2>2, <2>3, <3>1 DEF Verdict
  <2> QED BY <1>3, <1>6, <2>1, <2>4 DEF SwitchInv, PressInv
<1>8. CASE finger' > 0 /\ ~switch.on
  <2>1. code' = "starting" /\ ~press'.on
    BY <1>1, <1>4, <1>8
  <2> QED BY <1>3, <1>4, <1>6, <2>1 DEF SwitchInv, PressInv
<1>9. CASE finger' > 0 /\ switch.on
  <2>1. code' = "holding" /\ press'.on /\ ~press'.cut
    BY <1>1, <1>4, <1>9 DEF Untouched
  <2>2. since' + finger' = press'.hold /\ since' <= Safe
    BY <1>1, <1>2, <1>4, SwitchConstants
  <2> QED BY <1>1, <1>3, <1>4, <1>6, <1>9, <2>1, <2>2 DEF SwitchInv, PressInv, Counted
<1> QED BY <1>2, <1>7, <1>8, <1>9

(* A tick in the measuring loop: the press ends, is cut, is noticed as a long *)
(* one, or goes on.                                                           *)
LEMMA HoldingKeeps == ASSUME SwitchInv, Power!Holding PROVE SwitchInv'
<1> DEFINE time == since + 1
<1>1. /\ code = "holding" /\ since' = time /\ timer' = 0 /\ pulses' = pulses /\ passed' = Power!Elapsed
      /\ finger' \in Nat /\ finger' = IF finger > 0 THEN finger - 1 ELSE 0
  BY TickTakesOne DEF Power!Holding, Power!Blocked, SwitchInv
<1>2. /\ Counted /\ press.on /\ ~press.cut
      /\ ~tripped => Untouched /\ ~trg /\ finger > 0 /\ since <= Safe
      /\ tripped => Noticed /\ trg /\ since <= Cut
  BY <1>1 DEF SwitchInv, PressInv
<1>3. time \in Nat /\ passed' \in Nat /\ press.hold \in Nat /\ since \in Nat
  BY <1>1 DEF SwitchInv, SwitchType, Power!Elapsed
<1>4. /\ finger' > 0 => time + finger' = press.hold /\ finger > 0
      /\ finger' = 0 => press.hold <= time
      /\ finger > 0 /\ finger' = 0 => press.hold = time
  BY <1>1, <1>2, <1>3 DEF Counted, SwitchInv, SwitchType
<1> HIDE DEF time
<1>5. CASE finger' = 0 /\ tripped
  <2>1. code' = "loop" /\ UNCHANGED <<press, switch, trg, tripped>>
    BY <1>5 DEF Power!Holding
  <2>2. press.short = 0 /\ press.long = 1 /\ press.on /\ ~press.cut /\ press.hold > 0
        /\ press.hold - 1 > Safe /\ press.hold - 1 <= Cut
    BY <1>1, <1>2, <1>3, <1>4, <1>5, SwitchConstants DEF Noticed, time, Counted
  <2>3. press.cut = (press.on /\ press.hold - 1 > Cut)
    <3>1. ~(press.hold - 1 > Cut) /\ press.cut = FALSE
      BY <1>3, <2>2, SwitchConstants DEF SwitchInv, SwitchType
    <3> QED BY <3>1, Zenon
  <2>4. Verdict'
    BY <1>3, <2>1, <2>2, <2>3, SwitchConstants DEF Verdict
  <2> QED BY <1>1, <1>3, <2>1, <2>4 DEF SwitchInv, SwitchType, PressInv, Codes
<1>6. CASE finger' = 0 /\ ~tripped
  <2>1. code' = "pulse" /\ press' = [press EXCEPT !.short = @ + 1] /\ UNCHANGED <<switch, trg, tripped>>
    BY <1>6 DEF Power!Holding
  <2>2. press.hold = since + 1 /\ since <= Safe /\ press.short = 0 /\ press.long = 0
    BY <1>2, <1>4, <1>6 DEF Untouched, time
  <2>3. /\ press' \in [hold : Nat, on : BOOLEAN, short : Int, long : Int, cut : BOOLEAN]
        /\ press'.hold = press.hold /\ press'.on /\ ~press'.cut /\ press'.short = 1 /\ press'.long = 0
    BY <1>2, <2>1, <2>2 DEF SwitchInv, SwitchType
  <2>4. press'.hold > 0 /\ press'.hold - 1 <= Safe /\ ~(press'.hold - 1 > Safe) /\ ~(press'.hold - 1 > Cut)
    BY <1>3, <2>2, <2>3, SwitchConstants
  <2>5. press'.cut = (press'.on /\ press'.hold - 1 > Cut)
    <3>1. press'.cut = FALSE
      BY <2>3
    <3> QED BY <2>4, <3>1, Zenon
  <2>6. Verdict'
    BY <2>3, <2>4, <2>5 DEF Verdict
  <2> QED BY <1>1, <1>3, <2>1, <2>3, <2>6 DEF SwitchInv, SwitchType, PressInv, Codes
<1>7. CASE finger' > 0 /\ time > Cut
  <2>1. /\ code' = "cutting" /\ switch' = Power!PowerOff(switch) /\ tripped' = TRUE /\ trg' = trg
        /\ press' = [press EXCEPT !.cut = TRUE]
    BY <1>7 DEF Power!Holding, time
  <2>2. tripped
    BY <1>2, <1>3, <1>7, SwitchConstants DEF time
  <2>3. /\ press' \in [hold : Nat, on : BOOLEAN, short : Int, long : Int, cut : BOOLEAN]
        /\ press'.hold = press.hold /\ press'.on /\ press'.cut /\ press'.short = 0 /\ press'.long = 1
    BY <1>2, <2>1, <2>2 DEF SwitchInv, SwitchType, Noticed
  <2>4. press'.hold - 1 > Cut
    BY <1>1, <1>3, <1>4, <1>7, <2>3, SwitchConstants
  <2>5. switch' \in Switches /\ Lit(switch')
    <3>1. switch' = [switch EXCEPT !.on = FALSE, !.follow = FALSE, !.led = -1]
      BY <2>1 DEF Power!PowerOff, Power!Off
    <3> QED BY <3>1, OffKeepsLamp DEF SwitchInv, SwitchType
  <2>6. PressInv'
    BY <2>1, <2>3, <2>4 DEF PressInv
  <2> QED BY <1>1, <1>3, <2>1, <2>3, <2>5, <2>6 DEF SwitchInv, SwitchType, Codes
<1>8. CASE finger' > 0 /\ ~(time > Cut) /\ time > Safe /\ ~trg
  <2>1. /\ code' = "longPulse" /\ trg' = TRUE /\ tripped' = TRUE /\ switch' = switch
        /\ press' = [press EXCEPT !.long = @ + 1]
    BY <1>8 DEF Power!Holding, time
  <2>2. ~tripped /\ since <= Safe /\ press.short = 0 /\ press.long = 0
    BY <1>2, <1>8 DEF Untouched
  <2>3. /\ press' \in [hold : Nat, on : BOOLEAN, short : Int, long : Int, cut : BOOLEAN]
        /\ press'.hold = press.hold /\ press'.on /\ ~press'.cut /\ press'.short = 0 /\ press'.long = 1
    BY <1>2, <2>1, <2>2 DEF SwitchInv, SwitchType
  <2>4. since' = Safe + 1 + timer' /\ timer' < LongPulse /\ since' > Safe
    BY <1>1, <1>3, <1>8, <2>2, SwitchConstants DEF time
  <2>5. press'.hold - 1 > Safe
    BY <1>1, <1>3, <1>4, <1>8, <2>3, SwitchConstants
  <2>6. Counted' /\ Noticed'
    BY <1>1, <1>4, <1>8, <2>1, <2>3, <2>4, <2>5 DEF Counted, Noticed
  <2>7. PressInv'
    BY <2>1, <2>3, <2>4, <2>6 DEF PressInv
  <2> QED BY <1>1, <1>3, <2>1, <2>3, <2>7 DEF SwitchInv, SwitchType, Codes
<1>9. CASE finger' > 0 /\ ~(time > Cut) /\ ~(time > Safe /\ ~trg)
  <2>1. UNCHANGED <<code, switch, trg, tripped, press>>
    BY <1>9 DEF Power!Holding, time
  <2>2. Counted'
    BY <1>1, <1>4, <1>9, <2>1 DEF Counted
  <2>3. CASE tripped
    <3>1. Noticed' /\ since' <= Cut
      BY <1>1, <1>2, <1>3, <1>9, <2>1, <2>3, SwitchConstants DEF Noticed, time
    <3> QED BY <1>1, <1>2, <1>3, <2>1, <2>2, <2>3, <3>1 DEF SwitchInv, SwitchType, PressInv
  <2>4. CASE ~tripped
    <3>1. Untouched' /\ since' <= Safe
      BY <1>1, <1>2, <1>3, <1>9, <2>1, <2>4, SwitchConstants DEF Untouched, time
    <3> QED BY <1>1, <1>2, <1>3, <1>9, <2>1, <2>2, <2>4, <3>1 DEF SwitchInv, SwitchType, PressInv
  <2> QED BY <2>3, <2>4
<1>a. finger' = 0 \/ finger' > 0
  <2>1. finger' \in Nat
    BY <1>1
  <2>2. \A n \in Nat : n = 0 \/ n > 0
    OBVIOUS
  <2> QED BY <2>1, <2>2
<1>sum. CASE finger' = 0
  BY <1>5, <1>6, <1>sum
<1>c. CASE finger' > 0
  BY <1>7, <1>8, <1>9, <1>c
<1> QED BY <1>a, <1>sum, <1>c

(* Every step of the power switch keeps SwitchInv.                            *)
LEMMA SwitchStep == ASSUME SwitchInv, [Power!Next]_(Power!vars) PROVE SwitchInv'
<1> USE SwitchConstants
<1>1. CASE \E n \in Commands : Power!Send(n)
  BY <1>1 DEF Power!Send, SwitchInv, SwitchType, PressInv, Lit, Verdict, Untouched, Counted, Noticed
<1>2. CASE \E hold \in Holds : Power!Push(hold)
  <2>1. PICK hold \in Holds : Power!Push(hold)
    BY <1>2
  <2>2. /\ finger = 0 /\ finger' = hold /\ hold \in Nat \ {0}
        /\ press' = IF code \in {"longPulse", "holding"} THEN [press EXCEPT !.hold = since + hold] ELSE press
        /\ UNCHANGED <<switch, pulses, passed, code, timer, since, trg, tripped>>
    BY <2>1 DEF Power!Push, Power!wireVars
  <2>3. CASE code \in {"longPulse", "holding"}
    <3>1. Noticed /\ trg /\ tripped /\ ~press.cut
      BY <2>2, <2>3 DEF SwitchInv, PressInv, Noticed
    <3>2. /\ press' \in [hold : Nat, on : BOOLEAN, short : Int, long : Int, cut : BOOLEAN]
          /\ press'.hold = since + hold /\ press'.on /\ ~press'.cut /\ press'.short = 0 /\ press'.long = 1
      BY <2>2, <2>3, <3>1 DEF SwitchInv, SwitchType, Noticed
    <3>3. Noticed' /\ Counted'
      BY <2>2, <3>1, <3>2 DEF SwitchInv, SwitchType, Noticed, Counted
    <3> QED BY <2>2, <2>3, <3>1, <3>2, <3>3 DEF SwitchInv, SwitchType, PressInv, Lit
  <2>4. CASE code \notin {"longPulse", "holding"}
    BY <2>2, <2>4 DEF SwitchInv, SwitchType, PressInv, Lit, Verdict, Untouched
  <2> QED BY <2>3, <2>4
<1>3. CASE Power!Loop \/ Power!Debounced \/ Power!Holding
  BY <1>3, LoopKeeps, DebouncedKeeps, HoldingKeeps
<1>4. CASE Power!Released
  <2>1. /\ code \in {"starting", "cutting"} /\ code' = "settle" /\ timer' = 0 /\ finger' \in Nat
        /\ passed' \in Nat /\ UNCHANGED <<switch, pulses, since, trg, tripped, press>>
    BY <1>4, TickTakesOne DEF Power!Released, Power!Blocked, Power!Elapsed, SwitchInv, SwitchType
  <2>2. Verdict
    <3>1. press.cut \in BOOLEAN /\ press.hold \in Nat
      BY DEF SwitchInv, SwitchType
    <3>2. press.cut = (press.on /\ press.hold - 1 > Cut)
      BY <2>1, <3>1, Zenon DEF SwitchInv, PressInv, Untouched
    <3> QED BY <2>1, <3>1, <3>2 DEF SwitchInv, PressInv, Untouched, Verdict
  <2> QED BY <2>1, <2>2 DEF SwitchInv, SwitchType, PressInv, Lit, Verdict, Codes
<1>5. CASE Power!StillDown
  <2>1. /\ code \in {"starting", "cutting"} /\ finger' \in Nat /\ passed' \in Nat
        /\ UNCHANGED <<switch, code, timer, pulses, since, trg, tripped, press>>
    BY <1>5, TickTakesOne DEF Power!StillDown, Power!Blocked, Power!Elapsed, SwitchInv, SwitchType
  <2> QED BY <2>1 DEF SwitchInv, SwitchType, PressInv, Lit, Untouched
<1>6. CASE Power!Triggered
  <2>1. /\ code = "longPulse" /\ timer + 1 >= LongPulse /\ timer' = 0 /\ code' = "holding" /\ since' = since + 1
        /\ finger' \in Nat /\ finger' = IF finger > 0 THEN finger - 1 ELSE 0
        /\ passed' \in Nat /\ UNCHANGED <<switch, pulses, trg, tripped, press>>
    BY <1>6, TickTakesOne DEF Power!Triggered, Power!Over, Power!Blocked, Power!Elapsed, SwitchInv, SwitchType
  <2>2. Noticed' /\ Counted' /\ since' <= Cut /\ trg' /\ ~press'.cut
    BY <2>1 DEF SwitchInv, SwitchType, PressInv, Noticed, Counted
  <2> QED BY <2>1, <2>2 DEF SwitchInv, SwitchType, PressInv, Lit, Noticed, Codes
<1>7. CASE Power!Settled
  <2>1. /\ code \in {"settle", "pulse"} /\ timer' = 0 /\ code' = "loop" /\ finger' \in Nat
        /\ passed' \in Nat /\ UNCHANGED <<switch, pulses, since, trg, tripped, press>>
    BY <1>7, TickTakesOne DEF Power!Settled, Power!Over, Power!Blocked, Power!Elapsed, SwitchInv, SwitchType
  <2> QED BY <2>1 DEF SwitchInv, SwitchType, PressInv, Lit, Verdict, Codes
<1>8. CASE Power!Waits
  <2>1. /\ finger' \in Nat /\ finger' = IF finger > 0 THEN finger - 1 ELSE 0
        /\ timer' = timer + 1 /\ passed' \in Nat /\ UNCHANGED <<switch, code, pulses, trg, tripped, press>>
        /\ \/ code \in {"debounce", "settle", "pulse"} /\ since' = since
           \/ code = "longPulse" /\ timer + 1 < LongPulse /\ since' = since + 1
    BY <1>8, TickTakesOne DEF Power!Waits, Power!Delay, Power!Blocked, Power!Elapsed, SwitchInv, SwitchType
  <2>2. CASE code \in {"debounce", "settle", "pulse"} /\ since' = since
    BY <2>1, <2>2 DEF SwitchInv, SwitchType, PressInv, Lit, Verdict, Untouched
  <2>3. CASE code = "longPulse" /\ timer + 1 < LongPulse /\ since' = since + 1
    <3>1. Noticed' /\ Counted' /\ trg' /\ ~press'.cut /\ timer' < LongPulse /\ since' = Safe + 1 + timer'
      BY <2>1, <2>3 DEF SwitchInv, SwitchType, PressInv, Noticed, Counted
    <3> QED BY <2>1, <2>3, <3>1 DEF SwitchInv, SwitchType, PressInv, Lit
  <2> QED BY <2>1, <2>2, <2>3
<1>9. CASE UNCHANGED Power!vars
  BY <1>9 DEF Power!vars, Power!wireVars, SwitchInv, SwitchType, PressInv, Lit, Verdict, Untouched, Counted, Noticed
<1> QED BY <1>1, <1>2, <1>3, <1>4, <1>5, <1>6, <1>7, <1>8, <1>9 DEF Power!Next

(* Every press gives the trigger its length calls for, only the longest cuts  *)
(* the power, and the lamp tells whether it is on.                            *)
THEOREM ButtonIsObeyed == Power!Spec => []ButtonObeyed
<1>1. Power!Init => SwitchInv
  <2> SUFFICES ASSUME Power!Init PROVE SwitchInv
    OBVIOUS
  <2>1. PICK on \in BOOLEAN :
            switch = [on |-> on, follow |-> FALSE, dim |-> Brightest, led |-> IF on THEN Brightest ELSE -1]
    BY DEF Power!Init, Power!Off
  <2>2. switch \in Switches
    BY <2>1, SwitchConstants, -1 \in Int DEF Switches
  <2>3. Lit(switch)
    BY <2>1 DEF Lit, Power!Off
  <2>4. press = [hold |-> 0, on |-> FALSE, short |-> 0, long |-> 0, cut |-> FALSE] /\ code = "loop"
    BY DEF Power!Init, Power!NoPress
  <2>5. SwitchType
    <3>1. press \in [hold : Nat, on : BOOLEAN, short : Int, long : Int, cut : BOOLEAN]
      BY <2>4
    <3>2. trg = FALSE /\ tripped = FALSE /\ code \in Codes
      BY <2>4 DEF Power!Init, Codes
    <3>3. finger = 0 /\ since = 0 /\ timer = 0 /\ pulses = 0 /\ passed = 0
      BY DEF Power!Init
    <3> QED BY <2>2, <3>1, <3>2, <3>3 DEF SwitchType
  <2>6. Verdict
    <3>1. press.cut = (press.on /\ press.hold - 1 > Cut)
      <4>1. press.cut = FALSE /\ ~press.on
        BY <2>4
      <4> QED BY <4>1, Zenon
    <3> QED BY <2>4, <3>1 DEF Verdict
  <2> QED BY <2>3, <2>4, <2>5, <2>6 DEF SwitchInv, PressInv
<1>2. SwitchInv => ButtonObeyed
  BY DEF SwitchInv, PressInv, Verdict, Lit, ButtonObeyed, Power!ButtonObeyed, Power!Off
<1> QED BY <1>1, <1>2, SwitchStep, PTL DEF Power!Spec
-----------------------------------------------------------------------------
(* The power switch and its line.  Where the pulse is that the computer sends *)
(* says how many edges the loop has counted and how long ago the last one     *)
(* was; a command is run at the first tick that is Fire after its last edge,  *)
(* and the silence after it, or the blink itself, is longer than that.        *)

Due == asked = Append(heard, Last(asked)) /\ Last(asked) \in Nat \ {0}
Done == heard = asked /\ pulses = 0

Shape(s, l, t) == s \in [left : Int, low : BOOLEAN, timer : Int] /\ s.left = l /\ s.timer = t

Rest == Shape(line, 0, 0) /\ ~line.low /\ ~last /\ Done
Up(l) ==
    /\ Shape(line, l, 1) /\ ~line.low /\ ~last
    /\ Due /\ l \in 1 .. Last(asked) /\ pulses = Last(asked) - l
    /\ pulses > 0 => passed = 1
Down(l) ==
    /\ Shape(line, l, 1) /\ line.low /\ last
    /\ Due /\ Last(asked) # 1 /\ l \in 1 .. Last(asked)
    /\ pulses = Last(asked) - l + 1 /\ passed = 0
Blinking(t) ==
    /\ Shape(line, 1, t) /\ line.low /\ last
    /\ Last(asked) = 1 /\ t \in 1 .. Blink
    /\ \/ Due /\ pulses = 1 /\ passed = Blink - t /\ passed < Fire
       \/ Done
Ending(t) ==
    /\ Shape(line, 0, t) /\ ~line.low /\ ~last
    /\ t \in Nat \ {0}
    /\ \/ Due /\ pulses = Last(asked) /\ t <= Silence /\ passed = 1 + Silence - t /\ passed < Fire
       \/ Done

PulseTypes == pulses \in Nat /\ passed \in Nat /\ heard \in Seq(Nat) /\ asked \in Seq(Nat)
Placed == Rest \/ \E l \in Nat : Up(l) \/ Down(l) \/ Blinking(l) \/ Ending(l)
HeardInv == PulseTypes /\ (clear => Placed)

(* Time goes on when no edge falls.                                           *)
LEMMA NoEdge ==
    ASSUME PulseTypes, Power!Loop, last \/ ~line'.low
    PROVE  /\ last' = line'.low /\ UNCHANGED <<asked, clear>>
           /\ passed' \in Nat /\ passed' = Power!Elapsed
           /\ IF pulses > 0 /\ passed' >= Fire THEN pulses' = 0 /\ heard' = Append(heard, pulses)
              ELSE pulses' = pulses /\ heard' = heard
  BY PulseConstants DEF PulseTypes, Power!Loop, Power!Runs, Power!Elapsed

(* A falling edge is one more pulse, or the first one.                        *)
LEMMA AnEdge ==
    ASSUME PulseTypes, Power!Loop, ~last, line'.low
    PROVE  /\ last' = line'.low /\ UNCHANGED <<asked, clear>>
           /\ passed' = 0 /\ heard' = heard
           /\ pulses' = IF Power!Elapsed >= Restart THEN 1 ELSE pulses + 1
  BY PulseConstants DEF PulseTypes, Power!Loop, Power!Runs, Power!Elapsed
(* What the computer does with the line in a tick.                            *)
LEMMA SentLine ==
    ASSUME NEW l \in Nat, NEW t \in Nat, Shape(line, l, t)
    PROVE  /\ t > 1 => Shape(Power!Sent(line), l, t - 1) /\ (Power!Sent(line).low <=> line.low)
           /\ ~(t > 1) /\ line.low =>
                  /\ Shape(Power!Sent(line), l - 1,
                           IF l > 1 THEN 1 ELSE IF Last(asked) = 1 THEN Blink - 1 ELSE Silence)
                  /\ ~Power!Sent(line).low
           /\ ~(t > 1) /\ ~line.low /\ l > 0 =>
                  Shape(Power!Sent(line), l, IF Last(asked) = 1 THEN Blink ELSE 1) /\ Power!Sent(line).low
           /\ ~(t > 1) /\ ~line.low /\ ~(l > 0) => Shape(Power!Sent(line), 0, 0) /\ ~Power!Sent(line).low
<1> USE PulseConstants DEF Shape
<1>1. CASE t > 1
  <2>1. Power!Sent(line) = [line EXCEPT !.timer = @ - 1]
    BY <1>1 DEF Power!Sent
  <2> QED BY <1>1, <2>1
<1>2. CASE ~(t > 1) /\ line.low
  <2> DEFINE next == IF l > 1 THEN 1 ELSE IF Last(asked) = 1 THEN Blink - 1 ELSE Silence
  <2>1. Power!Sent(line) = [left |-> l - 1, low |-> FALSE, timer |-> next]
    <3>1. line.left = l /\ ~(line.timer > 1)
      BY <1>2
    <3> QED BY <1>2, <3>1 DEF Power!Sent, Power!Last, Last
  <2>2. next \in Int
    OBVIOUS
  <2> HIDE DEF next
  <2>3. Shape(Power!Sent(line), l - 1, next) /\ ~Power!Sent(line).low
    BY <2>1, <2>2
  <2> QED BY <1>2, <2>3 DEF next
<1>3. CASE ~(t > 1) /\ ~line.low /\ l > 0
  <2> DEFINE next == IF Last(asked) = 1 THEN Blink ELSE 1
  <2>1. Power!Sent(line) = [line EXCEPT !.low = TRUE, !.timer = next]
    <3>1. line.left > 0 /\ ~(line.timer > 1)
      BY <1>3
    <3> QED BY <1>3, <3>1 DEF Power!Sent, Power!Last, Last
  <2>2. next \in Int
    OBVIOUS
  <2> HIDE DEF next
  <2>3. Shape(Power!Sent(line), l, next) /\ Power!Sent(line).low
    BY <2>1, <2>2
  <2> QED BY <1>3, <2>3 DEF next
<1>4. CASE ~(t > 1) /\ ~line.low /\ ~(l > 0)
  BY <1>4 DEF Power!Sent, Power!Idle
<1> QED BY <1>1, <1>2, <1>3, <1>4

(* The loop only counts, and appends what it has counted.                     *)
LEMMA TickTypes == ASSUME PulseTypes, Power!Loop PROVE PulseTypes'
<1>1. CASE last \/ ~line'.low
  <2>1. passed' \in Nat /\ asked' \in Seq(Nat)
    BY <1>1, NoEdge DEF PulseTypes
  <2>2. \/ pulses' = 0 /\ heard' = Append(heard, pulses)
        \/ pulses' = pulses /\ heard' = heard
    BY <1>1, NoEdge
  <2>3. pulses' \in Nat /\ heard' \in Seq(Nat)
    <3>1. CASE pulses' = 0 /\ heard' = Append(heard, pulses)
      BY <3>1 DEF PulseTypes
    <3>2. CASE pulses' = pulses /\ heard' = heard
      BY <3>2 DEF PulseTypes
    <3> QED BY <2>2, <3>1, <3>2
  <2> QED BY <2>1, <2>3 DEF PulseTypes
<1>2. CASE ~last /\ line'.low
  BY <1>2, AnEdge DEF PulseTypes
<1> QED BY <1>1, <1>2

(* One tick of the loop, wherever the pulse is.                               *)
LEMMA TickPlaced == ASSUME PulseTypes, Placed, Power!Loop PROVE PulseTypes' /\ Placed'
<1> DEFINE c == Last(asked)
<1>1. line' = Power!Sent(line) /\ asked' = asked /\ c' = c /\ Power!Elapsed \in Nat
  BY PulseConstants DEF Power!Loop, Power!Time, Power!Elapsed, PulseTypes
<1> HIDE DEF c
<1>2. PulseTypes'
  BY TickTypes
<1>3. CASE Rest
  <2>1. Shape(line', 0, 0) /\ ~line'.low
    BY <1>1, <1>3, SentLine, 0 \in Nat DEF Rest
  <2>2. ~last' /\ pulses' = 0 /\ heard' = asked'
    BY <1>3, <2>1, NoEdge DEF Rest, Done
  <2> QED BY <1>2, <2>1, <2>2 DEF Placed, Rest, Done
<1>4. ASSUME NEW l \in Nat, Up(l) PROVE Placed'
  <2>1. Shape(line, l, 1) /\ ~line.low /\ ~last /\ Due /\ l \in 1 .. c /\ pulses = c - l /\ c \in Nat \ {0}
    BY <1>4 DEF Up, Due, c
  <2>2. Shape(line', l, IF c = 1 THEN Blink ELSE 1) /\ line'.low
    BY <1>1, <2>1, SentLine, 1 \in Nat DEF c
  <2>3. last' = TRUE /\ passed' = 0 /\ heard' = heard
        /\ pulses' = IF Power!Elapsed >= Restart THEN 1 ELSE pulses + 1
    BY <2>1, <2>2, AnEdge
  <2>4. pulses' = c - l + 1
    BY <1>4, <2>1, <2>3, PulseConstants DEF Up, Power!Elapsed
  <2>5. Due' /\ l \in 1 .. c'
    BY <1>1, <2>1, <2>3 DEF Due
  <2>6. CASE c = 1
    <3>1. l = 1 /\ Blink \in 1 .. Blink /\ Blink \in Nat
      BY <2>1, <2>6, PulseConstants
    <3>2. Blinking(Blink)'
      BY <1>1, <2>2, <2>3, <2>4, <2>5, <2>6, <3>1, PulseConstants DEF Blinking, c
    <3> QED BY <3>1, <3>2 DEF Placed
  <2>7. CASE c # 1
    <3>1. Down(l)'
      BY <1>1, <2>2, <2>3, <2>4, <2>5, <2>7 DEF Down, c
    <3> QED BY <3>1 DEF Placed
  <2> QED BY <2>6, <2>7
<1>5. ASSUME NEW l \in Nat, Down(l) PROVE Placed'
  <2>1. /\ Shape(line, l, 1) /\ line.low /\ last /\ Due /\ c # 1 /\ l \in 1 .. c
        /\ pulses = c - l + 1 /\ passed = 0 /\ c \in Nat \ {0}
    BY <1>5 DEF Down, Due, c
  <2>2. Shape(line', l - 1, IF l > 1 THEN 1 ELSE Silence) /\ ~line'.low
    BY <1>1, <2>1, SentLine, 1 \in Nat DEF c
  <2>3. ~last' /\ passed' = 1 /\ pulses' = pulses /\ heard' = heard
    BY <2>1, <2>2, NoEdge, PulseConstants DEF Power!Elapsed
  <2>4. Due'
    BY <1>1, <2>1, <2>3 DEF Due
  <2>5. CASE l > 1
    <3>1. Up(l - 1)' /\ l - 1 \in Nat
      BY <1>1, <2>1, <2>2, <2>3, <2>4, <2>5 DEF Up, c
    <3> QED BY <3>1 DEF Placed
  <2>6. CASE l = 1
    <3>1. Ending(Silence)' /\ Silence \in Nat
      BY <1>1, <2>1, <2>2, <2>3, <2>4, <2>6, PulseConstants DEF Ending, c
    <3> QED BY <3>1 DEF Placed
  <2> QED BY <2>1, <2>5, <2>6
<1>6. ASSUME NEW t \in Nat, Blinking(t) PROVE Placed'
  <2>1. /\ Shape(line, 1, t) /\ line.low /\ last /\ c = 1 /\ t \in 1 .. Blink
        /\ (Due /\ pulses = 1 /\ passed = Blink - t /\ passed < Fire) \/ Done
    BY <1>6 DEF Blinking, c
  <2>2. IF t > 1 THEN Shape(line', 1, t - 1) /\ line'.low ELSE Shape(line', 0, Blink - 1) /\ ~line'.low
    BY <1>1, <2>1, SentLine, 1 \in Nat DEF c
  <2>3. /\ last' = line'.low /\ passed' = Power!Elapsed
        /\ IF pulses > 0 /\ passed' >= Fire THEN pulses' = 0 /\ heard' = Append(heard, pulses)
           ELSE pulses' = pulses /\ heard' = heard
    BY <2>1, NoEdge
  <2>4. \/ Due' /\ pulses' = 1 /\ passed' = Blink - t + 1 /\ passed' < Fire
        \/ Done'
    <3>1. CASE Done
      BY <1>1, <2>3, <3>1 DEF Done
    <3>2. CASE Due /\ pulses = 1 /\ passed = Blink - t /\ passed < Fire
      <4>1. passed' = Blink - t + 1
        BY <2>1, <2>3, <3>2, PulseConstants DEF Power!Elapsed
      <4>2. CASE passed' >= Fire
        BY <1>1, <2>1, <2>3, <3>2, <4>2 DEF Due, Done, c
      <4>3. CASE ~(passed' >= Fire)
        <5>1. pulses' = pulses /\ heard' = heard /\ Due'
          BY <1>1, <2>3, <3>2, <4>3 DEF Due
        <5>2. passed' < Fire
          BY <2>1, <4>1, <4>3, PulseConstants
        <5> QED BY <3>2, <4>1, <5>1, <5>2
      <4> QED BY <4>2, <4>3
    <3> QED BY <2>1, <3>1, <3>2
  <2>5. CASE t > 1
    <3>1. Blinking(t - 1)' /\ t - 1 \in Nat
      BY <1>1, <2>1, <2>2, <2>3, <2>4, <2>5, PulseConstants DEF Blinking, c
    <3> QED BY <3>1 DEF Placed
  <2>6. CASE t = 1
    <3>1. Done'
      BY <2>1, <2>4, <2>6, PulseConstants
    <3>2. Shape(line', 0, Blink - 1) /\ ~line'.low /\ ~last' /\ Blink - 1 \in Nat \ {0}
      BY <2>2, <2>3, <2>6, PulseConstants
    <3>3. Ending(Blink - 1)'
      BY <3>1, <3>2 DEF Ending
    <3> QED BY <3>2, <3>3 DEF Placed
  <2> QED BY <2>1, <2>5, <2>6
<1>7. ASSUME NEW t \in Nat, Ending(t) PROVE Placed'
  <2>1. /\ Shape(line, 0, t) /\ ~line.low /\ ~last /\ t \in Nat \ {0}
        /\ \/ Due /\ pulses = c /\ t <= Silence /\ passed = 1 + Silence - t /\ passed < Fire
           \/ Done
    BY <1>7 DEF Ending, c
  <2>2. ~line'.low /\ IF t > 1 THEN Shape(line', 0, t - 1) ELSE Shape(line', 0, 0)
    BY <1>1, <2>1, SentLine, 0 \in Nat
  <2>3. ~last' /\ passed' = Power!Elapsed
        /\ IF pulses > 0 /\ passed' >= Fire THEN pulses' = 0 /\ heard' = Append(heard, pulses)
           ELSE pulses' = pulses /\ heard' = heard
    BY <2>1, <2>2, NoEdge
  <2>4. \/ Due' /\ pulses' = c /\ t <= Silence /\ passed' = 2 + Silence - t /\ passed' < Fire
        \/ Done'
    <3>1. CASE Done
      BY <1>1, <2>3, <3>1 DEF Done
    <3>2. CASE Due /\ pulses = c /\ t <= Silence /\ passed = 1 + Silence - t /\ passed < Fire
      <4>1. passed' = 2 + Silence - t
        BY <2>1, <2>3, <3>2, PulseConstants DEF Power!Elapsed
      <4>2. CASE passed' >= Fire
        BY <1>1, <2>1, <2>3, <3>2, <4>2 DEF Due, Done, c
      <4>3. CASE ~(passed' >= Fire)
        <5>1. pulses' = pulses /\ heard' = heard /\ Due'
          BY <1>1, <2>3, <3>2, <4>3 DEF Due
        <5>2. passed' < Fire
          BY <2>1, <4>1, <4>3, PulseConstants
        <5> QED BY <3>2, <4>1, <5>1, <5>2
      <4> QED BY <4>2, <4>3
    <3> QED BY <2>1, <3>1, <3>2
  <2>5. CASE t > 1
    <3>1. Ending(t - 1)' /\ t - 1 \in Nat
      BY <1>1, <2>1, <2>2, <2>3, <2>4, <2>5, PulseConstants DEF Ending, c
    <3> QED BY <3>1 DEF Placed
  <2>6. CASE t = 1
    <3>1. Done'
      BY <2>1, <2>4, <2>6, PulseConstants
    <3>2. Rest'
      BY <2>2, <2>3, <2>6, <3>1 DEF Rest
    <3> QED BY <3>2 DEF Placed
  <2> QED BY <2>1, <2>5, <2>6
<1> QED BY <1>2, <1>3, <1>4, <1>5, <1>6, <1>7 DEF Placed

(* A command that is sent.                                                    *)
LEMMA SendPlaced == ASSUME HeardInv, NEW n \in Commands, Power!Send(n) PROVE HeardInv'
<1>1. /\ Shape(line, 0, 0) /\ ~line.low
      /\ Shape(line', n, 1) /\ ~line'.low
      /\ clear' = (Power!Quiet \/ (clear /\ code = "loop"))
      /\ asked' = IF Power!Quiet THEN <<n>> ELSE Append(asked, n)
      /\ heard' = IF Power!Quiet THEN << >> ELSE heard
      /\ UNCHANGED <<pulses, passed, last>>
      /\ n \in Nat \ {0}
  BY PulseConstants DEF Power!Send, Power!Idle, Shape
<1>2. PulseTypes'
  BY <1>1 DEF HeardInv, PulseTypes
<1>3. ASSUME clear' PROVE ~last /\ pulses = 0 /\ asked' = Append(heard', n) /\ Last(asked') = n
  <2>1. CASE Power!Quiet
    BY <1>1, <2>1 DEF Power!Quiet, Last
  <2>2. CASE ~Power!Quiet
    <3>1. clear /\ Placed
      BY <1>1, <1>3, <2>2 DEF HeardInv
    <3>2. Rest
      <4>1. ASSUME NEW l \in Nat, Up(l) \/ Down(l) \/ Blinking(l) \/ Ending(l) PROVE FALSE
        BY <1>1, <4>1 DEF Up, Down, Blinking, Ending, Shape
      <4> QED BY <3>1, <4>1 DEF Placed
    <3> QED BY <1>1, <2>2, <3>2 DEF Rest, Done, HeardInv, PulseTypes, Last
  <2> QED BY <2>1, <2>2
<1>4. ASSUME clear' PROVE Placed'
  <2>1. Due' /\ n \in 1 .. Last(asked') /\ pulses' = Last(asked') - n
    BY <1>1, <1>3, <1>4 DEF Due
  <2>2. Up(n)'
    BY <1>1, <1>3, <1>4, <2>1 DEF Up
  <2> QED BY <1>1, <2>2 DEF Placed
<1> QED BY <1>2, <1>4 DEF HeardInv

(* Every step of the power switch keeps HeardInv.                             *)
LEMMA HeardStep == ASSUME HeardInv, [Power!Next]_(Power!vars) PROVE HeardInv'
<1>1. CASE \E n \in Commands : Power!Send(n)
  BY <1>1, SendPlaced
<1>2. CASE Power!Loop
  <2>1. clear' = clear /\ PulseTypes
    BY <1>2 DEF HeardInv, Power!Loop
  <2>2. CASE clear
    BY <1>2, <2>1, <2>2, TickPlaced DEF HeardInv
  <2>3. CASE ~clear
    BY <1>2, <2>1, <2>3, TickTypes DEF HeardInv
  <2> QED BY <2>2, <2>3
<1>3. ASSUME UNCHANGED <<line, pulses, passed, last, asked, heard, clear>> PROVE HeardInv'
  BY <1>3 DEF HeardInv, PulseTypes, Placed, Rest, Up, Down, Blinking, Ending, Due, Done
<1>4. CASE UNCHANGED Power!vars
  BY <1>3, <1>4 DEF Power!vars, Power!wireVars
<1>5. CASE \E hold \in Holds : Power!Push(hold)
  BY <1>3, <1>5 DEF Power!Push, Power!wireVars
<1>6. ASSUME Power!Blocked PROVE HeardInv'
  BY <1>6, PulseConstants DEF Power!Blocked, Power!Elapsed, HeardInv, PulseTypes
<1>7. CASE \/ Power!Debounced \/ Power!Released \/ Power!StillDown \/ Power!Holding \/ Power!Triggered
           \/ Power!Settled \/ Power!Waits
  BY <1>6, <1>7 DEF Power!Debounced, Power!Released, Power!StillDown, Power!Holding, Power!Triggered,
     Power!Settled, Power!Waits
<1> QED BY <1>1, <1>2, <1>4, <1>5, <1>7 DEF Power!Next

(* A command sent while the button holds nothing up is run as it was sent.    *)
THEOREM CommandsAreHeard == Power!Spec => []HeardAsSent
<1>1. Power!Init => HeardInv
  BY DEF Power!Init, Power!Idle, HeardInv, PulseTypes, Placed, Rest, Done, Shape
<1>2. HeardInv => HeardAsSent
  <2> SUFFICES ASSUME HeardInv, clear PROVE Power!IsPrefix(heard, asked) /\ (line = Power!Idle => heard = asked)
    BY Zenon DEF HeardAsSent, Power!HeardAsSent
  <2>1. heard \in Seq(Nat) /\ asked \in Seq(Nat) /\ Placed
    BY DEF HeardInv, PulseTypes
  <2>2. Due \/ Done
    BY <2>1 DEF Placed, Rest, Up, Down, Blinking, Ending
  <2>3. Power!IsPrefix(heard, asked)
    <3>1. CASE Done
      BY <2>1, <3>1 DEF Done, Power!IsPrefix
    <3>2. CASE Due
      <4>1. Last(asked) \in Nat /\ asked = Append(heard, Last(asked))
        BY <3>2 DEF Due
      <4>2. Len(heard) <= Len(asked) /\ \A i \in 1 .. Len(heard) : asked[i] = heard[i]
        BY <2>1, <4>1
      <4>3. SubSeq(heard, 1, Len(heard)) = SubSeq(asked, 1, Len(heard))
        BY <2>1, <4>2
      <4> QED BY <4>2, <4>3 DEF Power!IsPrefix
    <3> QED BY <2>2, <3>1, <3>2
  <2>4. line = Power!Idle => heard = asked
    <3>1. ASSUME NEW l \in Nat, Up(l) \/ Down(l) \/ Blinking(l) \/ Ending(l) PROVE line # Power!Idle
      BY <3>1 DEF Up, Down, Blinking, Ending, Shape, Power!Idle
    <3> QED BY <2>1, <3>1 DEF Placed, Rest, Done
  <2> QED BY <2>3, <2>4
<1> QED BY <1>1, <1>2, HeardStep, PTL DEF Power!Spec
-----------------------------------------------------------------------------
(* The audio ring.  What went over the wire, the frame the transmit thread    *)
(* has taken out, what is in the ring from tail to head and the frame that is *)
(* being put in make one chain.  A step moves the borders in it; send_audio   *)
(* lengthens it by the newest number, and only an overwrite takes a frame out.*)

Places == 0 .. Capacity - 1
Count == IF head >= tail THEN head - tail ELSE head - tail + Capacity
At(p) == IF tail + p < Capacity THEN tail + p ELSE tail + p - Capacity

Gone == Len(sent) + IF tx.at \in {"pack", "transfer"} THEN 1 ELSE 0
Length == Gone + Count + IF caller.at # "idle" THEN 1 ELSE 0
Chain(i) ==
    IF i <= Len(sent) THEN sent[i]
    ELSE IF i <= Gone THEN IF tx.at = "pack" THEN tx.frame ELSE txbuf
    ELSE IF i <= Gone + Count THEN slot[At(i - Gone - 1)]
    ELSE caller.frame

(* Two threads do not move the same index, and nobody uses the wrong side.    *)
Orderly == ~disturbed /\ (~overwrote \/ ~crossed)

RingTypes ==
    /\ slot \in [Places -> Nat] /\ head \in Places /\ tail \in Places
    /\ seq \in Nat \ {0} /\ txbuf \in Nat /\ sent \in Seq(Nat) /\ handed \in Seq(Nat)
    /\ caller \in [at : {"idle", "check", "drop", "write", "publish"}, h : Places, t : Places, frame : Nat,
                   over : BOOLEAN]
    /\ tx \in [at : {"idle", "read", "take", "pack", "transfer"}, h : Places, t : Places, frame : Nat,
               over : BOOLEAN]

(* The caller: it goes on only when there is a place, or makes one.           *)
Pushing ==
    /\ caller.at # "idle" => caller.h = head
    /\ caller.at = "check" => caller.over \/ Count < Threshold
    /\ caller.at = "drop" /\ ~crossed => caller.t = tail /\ Audio!After(head) = tail
    /\ caller.at \in {"write", "publish"} => Audio!After(head) # tail
    /\ caller.at = "publish" => slot[head] = caller.frame

(* The transmit thread: what it copies is the oldest frame.                   *)
Popping ==
    /\ tx.at \in {"read", "take"} => tx.t = tail /\ head # tail
    /\ tx.at = "take" => tx.frame = slot[tail]

Ordered ==
    \A i \in 1 .. Length :
        /\ Chain(i) \in Nat /\ 0 < Chain(i) /\ Chain(i) < seq
        /\ \A j \in 1 .. Length : i < j => Chain(i) < Chain(j)
Whole == Length = Len(handed) /\ \A i \in 1 .. Length : Chain(i) = handed[i]

RingState == RingTypes /\ Pushing /\ Popping /\ Ordered /\ (~overwrote => Whole)
RingInv == Orderly => RingState
(* The index goes round.                                                      *)
LEMMA NextPlace ==
    ASSUME NEW i \in Places
    PROVE  Audio!After(i) = (IF i + 1 = Capacity THEN 0 ELSE i + 1) /\ Audio!After(i) \in Places
<1>1. (i + 1) % Capacity = IF i + 1 = Capacity THEN 0 ELSE i + 1
  <2>1. CASE i + 1 = Capacity
    BY <2>1, RingConstants DEF Places
  <2>2. CASE i + 1 # Capacity
    BY <2>2, RingConstants DEF Places
  <2> QED BY <2>1, <2>2
<1> QED BY <1>1, RingConstants DEF Audio!After, Places

(* How many frames there are between tail and head.                           *)
LEMMA RingSize ==
    ASSUME head \in Places, tail \in Places
    PROVE  /\ Audio!Size = Count /\ Count \in 0 .. Capacity - 1
           /\ Count = 0 <=> head = tail
           /\ Count = Capacity - 1 <=> Audio!After(head) = tail
<1>1. (head - tail) % Capacity = Count
  <2>1. CASE head >= tail
    BY <2>1, RingConstants DEF Places, Count
  <2>2. CASE ~(head >= tail)
    BY <2>2, RingConstants DEF Places, Count
  <2> QED BY <2>1, <2>2
<1> QED BY <1>1, NextPlace, RingConstants DEF Audio!Size, Places, Count

(* The places that are in use are none but those, and not where the next      *)
(* frame goes.                                                                *)
LEMMA InTheRing ==
    ASSUME head \in Places, tail \in Places
    PROVE  /\ \A p \in 0 .. Count - 1 : At(p) \in Places /\ At(p) # head
           /\ At(Count) = head /\ At(0) = tail
  BY RingConstants DEF Places, Count, At

(* A pop or an overwrite moves the places by one ...                          *)
LEMMA TailMoves ==
    ASSUME head \in Places, tail \in Places, head # tail, tail' = Audio!After(tail), head' = head
    PROVE  /\ tail' \in Places /\ Count' = Count - 1
           /\ \A p \in Nat : p < Count' => At(p)' = At(p + 1)
<1>1. tail' = (IF tail + 1 = Capacity THEN 0 ELSE tail + 1) /\ tail' \in Places
  BY NextPlace
<1>2. Count' = Count - 1
  BY <1>1, RingConstants DEF Places, Count
<1>3. ASSUME NEW p \in Nat, p < Count' PROVE At(p)' = At(p + 1)
  BY <1>1, <1>2, <1>3, RingConstants DEF Places, Count, At
<1> QED BY <1>1, <1>2, <1>3

(* ... and a push adds one.                                                   *)
LEMMA HeadMoves ==
    ASSUME head \in Places, tail \in Places, Audio!After(head) # tail, head' = Audio!After(head), tail' = tail
    PROVE  /\ head' \in Places /\ Count' = Count + 1
           /\ \A p \in Nat : At(p)' = At(p)
<1>1. head' = (IF head + 1 = Capacity THEN 0 ELSE head + 1) /\ head' \in Places
  BY NextPlace
<1>2. Count' = Count + 1
  BY <1>1, RingConstants DEF Places, Count
<1> QED BY <1>1, <1>2 DEF At

(* A step that only moves the borders keeps the order.                        *)
LEMMA SameChain ==
    ASSUME Ordered, ~overwrote => Whole, Length \in Nat, seq \in Nat, seq' \in Nat, seq <= seq',
           ~overwrote' => ~overwrote, handed' = handed,
           Length' = Length, \A i \in 1 .. Length : Chain(i)' = Chain(i)
    PROVE  Ordered' /\ (~overwrote' => Whole')
<1>1. Ordered'
  BY DEF Ordered
<1>2. ASSUME ~overwrote' PROVE Whole'
  BY <1>2 DEF Whole
<1> QED BY <1>1, <1>2

(* The chain has a length, and the borders are in it.                         *)
LEMMA Lengths ==
    ASSUME RingTypes
    PROVE  /\ Gone \in Nat /\ Count \in Nat /\ Length \in Nat /\ Len(sent) \in Nat
           /\ Len(sent) <= Gone /\ Gone + Count <= Length
<1>1. Count \in Nat /\ Len(sent) \in Nat
  BY RingSize DEF RingTypes
<1>2. PICK a \in {0, 1} : a = IF tx.at \in {"pack", "transfer"} THEN 1 ELSE 0
  OBVIOUS
<1>3. PICK b \in {0, 1} : b = IF caller.at # "idle" THEN 1 ELSE 0
  OBVIOUS
<1>4. Gone = Len(sent) + a
  BY <1>2 DEF Gone
<1>5. Length = Gone + Count + b
  BY <1>3 DEF Length
<1> QED BY <1>1, <1>4, <1>5

(* send_audio: the newest number comes last.                                  *)
LEMMA SendKeeps == ASSUME RingState, Audio!SendAudio PROVE RingState'
<1>1. /\ caller.at = "idle" /\ seq' = seq + 1 /\ handed' = Append(handed, seq)
      /\ caller' = [at |-> "check", h |-> head, t |-> 0, frame |-> seq, over |-> (Audio!Size >= Threshold)]
      /\ UNCHANGED <<slot, head, tail, tx, txbuf, sent, overwrote, crossed, disturbed>>
  BY DEF Audio!SendAudio, Audio!Idle, Audio!ringVars, Audio!wireVars
<1>2. RingTypes /\ Pushing /\ Popping /\ Ordered /\ (~overwrote => Whole)
  BY DEF RingState
<1>3. /\ caller' \in [at : {"idle", "check", "drop", "write", "publish"}, h : Places, t : Places, frame : Nat,
                      over : BOOLEAN]
      /\ caller'.at = "check" /\ caller'.h = head /\ caller'.frame = seq /\ (caller'.over \/ Count < Threshold)
  <2>1. 0 \in Places /\ head \in Places /\ seq \in Nat /\ Audio!Size = Count /\ Count \in Nat
    BY <1>2, RingSize, RingConstants DEF RingTypes, Places
  <2> DEFINE big == Audio!Size >= Threshold
  <2>2. big \in BOOLEAN
    OBVIOUS
  <2>4. big \/ Count < Threshold
    BY <2>1, RingConstants
  <2> HIDE DEF big
  <2>3. caller' = [at |-> "check", h |-> head, t |-> 0, frame |-> seq, over |-> big]
    BY <1>1 DEF big
  <2> QED BY <2>1, <2>2, <2>3, <2>4
<1>4. RingTypes'
  BY <1>1, <1>2, <1>3 DEF RingTypes
<1>5. Pushing' /\ Popping'
  BY <1>1, <1>2, <1>3 DEF Pushing, Popping, Count
<1>6. Gone' = Gone /\ Count' = Count /\ \A p \in Nat : At(p)' = At(p)
  BY <1>1 DEF Gone, Count, At
<1>7. Length = Gone + Count + 0 /\ Length' = Gone + Count + 1
  BY <1>1, <1>3, <1>6 DEF Length
<1>8. PICK k \in Nat \ {0} : k = Length + 1 /\ k = Length' /\ k = Gone + Count + 1
  BY <1>2, <1>7, Lengths
<1>9. \A i \in 1 .. Length : Chain(i)' = Chain(i)
  <2> SUFFICES ASSUME NEW i \in 1 .. Length PROVE Chain(i)' = Chain(i)
    OBVIOUS
  <2>1. i \in Nat /\ i <= Gone + Count
    BY <1>2, <1>7, <1>8, Lengths
  <2> QED BY <1>1, <1>6, <2>1 DEF Chain, At
<1>a. Chain(k)' = seq
  BY <1>1, <1>2, <1>3, <1>6, <1>8, Lengths DEF Chain
<1>sum. seq \in Nat \ {0} /\ Length \in Nat /\ handed \in Seq(Nat)
      /\ \A i \in 1 .. Length' : i \in 1 .. Length \/ i = k
  <2>1. seq \in Nat \ {0} /\ handed \in Seq(Nat)
    BY <1>2 DEF RingTypes
  <2>2. PICK l \in Nat : l = Length
    BY <1>2, Lengths
  <2>3. \A i \in 1 .. k : i \in 1 .. l \/ i = k
    BY ONLY <1>8, <2>2, k \in Nat \ {0}, l \in Nat
  <2> QED BY <1>8, <2>1, <2>2, <2>3
<1>c. Ordered'
  <2> SUFFICES ASSUME NEW i \in 1 .. Length'
               PROVE  /\ Chain(i)' \in Nat /\ 0 < Chain(i)' /\ Chain(i)' < seq'
                      /\ \A j \in 1 .. Length' : i < j => Chain(i)' < Chain(j)'
    BY DEF Ordered
  <2>1. CASE i \in 1 .. Length
    <3>1. /\ Chain(i)' \in Nat /\ 0 < Chain(i)' /\ Chain(i)' < seq
          /\ \A j \in 1 .. Length : i < j => Chain(i)' < Chain(j)'
      BY <1>2, <1>9, <2>1 DEF Ordered
    <3> QED BY <1>1, <1>a, <1>sum, <3>1
  <2>2. CASE i = k
    <3>1. \A j \in 1 .. Length' : ~(i < j)
      BY <1>8, <2>2
    <3> QED BY <1>1, <1>a, <1>sum, <2>2, <3>1
  <2> QED BY <1>sum, <2>1, <2>2
<1>d. ASSUME ~overwrote' PROVE Whole'
  <2>1. Whole
    BY <1>1, <1>2, <1>d
  <2>2. Len(handed') = k /\ handed'[k] = seq /\ \A i \in 1 .. Length : handed'[i] = handed[i]
    BY <1>1, <1>8, <1>sum, <2>1 DEF Whole
  <2>3. \A i \in 1 .. Length' : Chain(i)' = handed'[i]
    BY <1>9, <1>a, <1>sum, <2>1, <2>2 DEF Whole
  <2> QED BY <1>8, <2>2, <2>3 DEF Whole
<1> QED BY <1>4, <1>5, <1>c, <1>d DEF RingState
Callers == [at : {"idle", "check", "drop", "write", "publish"}, h : Places, t : Places, frame : Nat, over : BOOLEAN]

(* push and push_overwrite, after the check: the frame is written where no    *)
(* other is, and is in the ring when the index has moved.                     *)
LEMMA CheckKeeps ==
    ASSUME RingState, caller.at = "check", caller' = Audio!Checked(caller),
           UNCHANGED <<slot, head, tail, seq, tx, txbuf, sent, handed, overwrote, crossed, disturbed>>
    PROVE  RingState'
<1>1. RingTypes /\ Pushing /\ Popping /\ Ordered /\ (~overwrote => Whole) /\ caller \in Callers
  BY DEF RingState, RingTypes, Callers
<1>2. caller.h = head /\ (caller.over \/ Count < Threshold) /\ head \in Places /\ tail \in Places
  BY <1>1 DEF Pushing, RingTypes
<1>3. Audio!After(head) = tail => caller.over
  BY <1>2, RingSize, RingConstants
<1>4. /\ caller' \in Callers /\ caller'.frame = caller.frame /\ caller'.h = head
      /\ \/ caller'.at = "write" /\ Audio!After(head) # tail
         \/ caller'.at = "drop" /\ Audio!After(head) = tail /\ caller'.t = tail
  <2>1. CASE Audio!After(head) # tail
    <3>1. caller' = [caller EXCEPT !.at = "write"]
      BY <1>2, <2>1 DEF Audio!Checked, Audio!Full
    <3> QED BY <1>1, <1>2, <2>1, <3>1 DEF Callers
  <2>2. CASE Audio!After(head) = tail
    <3>1. caller' = [caller EXCEPT !.at = "drop", !.t = tail]
      BY <1>2, <1>3, <2>2 DEF Audio!Checked, Audio!Full
    <3> QED BY <1>1, <1>2, <2>2, <3>1 DEF Callers
  <2> QED BY <2>1, <2>2
<1>5. RingTypes'
  BY <1>1, <1>4 DEF RingTypes, Callers
<1>6. Pushing' /\ Popping'
  BY <1>1, <1>4 DEF Pushing, Popping, Audio!After
<1>7. Length' = Length /\ \A k \in 1 .. Length : Chain(k)' = Chain(k)
  BY <1>4 DEF Length, Gone, Count, Chain, At
<1>8. Length \in Nat /\ seq \in Nat /\ seq <= seq'
  BY <1>1, Lengths DEF RingTypes
<1>9. Ordered' /\ (~overwrote' => Whole')
  BY <1>1, <1>7, <1>8, SameChain
<1> QED BY <1>5, <1>6, <1>9 DEF RingState

(* The frame is written ...                                                   *)
LEMMA WriteKeeps ==
    ASSUME RingState, caller.at = "write", caller' = [caller EXCEPT !.at = "publish"],
           slot' = [slot EXCEPT ![caller.h] = caller.frame],
           UNCHANGED <<head, tail, seq, tx, txbuf, sent, handed, overwrote, crossed, disturbed>>
    PROVE  RingState'
<1>1. RingTypes /\ Pushing /\ Popping /\ Ordered /\ (~overwrote => Whole) /\ caller \in Callers
  BY DEF RingState, RingTypes, Callers
<1>2. /\ caller.h = head /\ Audio!After(head) # tail /\ head \in Places /\ tail \in Places /\ caller.frame \in Nat
      /\ slot \in [Places -> Nat]
  BY <1>1 DEF Pushing, RingTypes
<1>3. caller' \in Callers /\ caller'.frame = caller.frame /\ caller'.h = head /\ caller'.at = "publish"
  BY <1>1, <1>2 DEF Callers
<1>4. slot' \in [Places -> Nat] /\ slot'[head] = caller.frame /\ \A k \in Places \ {head} : slot'[k] = slot[k]
  BY <1>2
<1>5. RingTypes'
  BY <1>1, <1>3, <1>4 DEF RingTypes, Callers
<1>6. Pushing' /\ Popping'
  BY <1>1, <1>2, <1>3, <1>4 DEF Pushing, Popping, Audio!After
<1>7. Length' = Length /\ Gone' = Gone /\ Count' = Count
  BY <1>3 DEF Length, Gone, Count
<1>8. ASSUME NEW i \in 1 .. Length PROVE Chain(i)' = Chain(i)
  <2>1. i > Gone /\ i <= Gone + Count => i - Gone - 1 \in 0 .. Count - 1
    BY <1>1, Lengths
  <2>2. i > Gone /\ i <= Gone + Count => slot'[At(i - Gone - 1)] = slot[At(i - Gone - 1)]
    BY <1>2, <1>4, <2>1, InTheRing
  <2>3. Gone \in Nat /\ Count \in Nat /\ i \in Nat
    BY <1>1, Lengths
  <2> QED BY <1>3, <1>7, <2>2, <2>3 DEF Chain, At
<1>9. Length \in Nat /\ seq \in Nat /\ seq <= seq'
  BY <1>1, Lengths DEF RingTypes
<1>a. Ordered' /\ (~overwrote' => Whole')
  BY <1>1, <1>7, <1>8, <1>9, SameChain
<1> QED BY <1>5, <1>6, <1>a DEF RingState

(* ... and then it is in the ring.                                            *)
LEMMA PublishKeeps ==
    ASSUME RingState, caller.at = "publish", caller' = Audio!Idle, head' = Audio!After(caller.h),
           UNCHANGED <<slot, tail, seq, tx, txbuf, sent, handed, overwrote, crossed, disturbed>>
    PROVE  RingState'
<1>1. RingTypes /\ Pushing /\ Popping /\ Ordered /\ (~overwrote => Whole)
  BY DEF RingState
<1>2. /\ caller.h = head /\ Audio!After(head) # tail /\ slot[head] = caller.frame
      /\ head \in Places /\ tail \in Places /\ head' = Audio!After(head)
  BY <1>1 DEF Pushing, RingTypes
<1>3. caller' \in Callers /\ caller'.at = "idle"
  BY RingConstants DEF Audio!Idle, Callers, Places
<1>4. head' \in Places /\ Count' = Count + 1 /\ \A p \in Nat : At(p)' = At(p)
  BY <1>2, HeadMoves
<1>5. RingTypes'
  BY <1>1, <1>3, <1>4 DEF RingTypes, Callers
<1>6. Pushing' /\ Popping'
  BY <1>1, <1>2, <1>3 DEF Pushing, Popping
<1>7. Gone' = Gone /\ Length' = Length /\ Length = Gone + Count + 1
  <2>1. Gone' = Gone
    BY DEF Gone
  <2>2. Length = Gone + Count + 1 /\ Length' = Gone + Count' + 0
    BY <1>3, <2>1 DEF Length
  <2> QED BY <1>1, <1>4, <2>1, <2>2, Lengths
<1>8. ASSUME NEW i \in 1 .. Length PROVE Chain(i)' = Chain(i)
  <2>1. Gone \in Nat /\ Count \in Nat /\ Len(sent) \in Nat /\ i \in Nat
    BY <1>1, Lengths
  <2>2. CASE i <= Gone + Count
    BY <1>4, <1>7, <2>1, <2>2 DEF Chain, At
  <2>3. CASE i > Gone + Count
    <3>1. i = Gone + Count + 1 /\ i - Gone - 1 = Count
      BY <1>7, <2>1, <2>3
    <3>2. Chain(i) = caller.frame
      BY <1>1, <2>1, <3>1, Lengths DEF Chain
    <3>3. At(Count) = head
      BY <1>2, InTheRing
    <3>4. i - Gone' - 1 = Count
      BY <1>7, <3>1
    <3>5. Chain(i)' = slot[head]
      <4>1. ~(i <= Len(sent)) /\ ~(i <= Gone') /\ i <= Gone' + Count'
        BY <1>1, <1>4, <1>7, <2>1, <3>1, Lengths
      <4> QED BY <3>3, <3>4, <4>1 DEF Chain, At
    <3> QED BY <1>2, <3>2, <3>5
  <2> QED BY <2>1, <2>2, <2>3
<1>9. Length \in Nat /\ seq \in Nat /\ seq <= seq'
  BY <1>1, Lengths DEF RingTypes
<1>a. Ordered' /\ (~overwrote' => Whole')
  BY <1>1, <1>7, <1>8, <1>9, SameChain
<1> QED BY <1>5, <1>6, <1>a DEF RingState
(* Overwriting takes the oldest frame out of the chain.                       *)
LEMMA DropKeeps ==
    ASSUME RingState, caller.at = "drop", ~crossed, tx.at \notin {"read", "take"},
           caller' = [caller EXCEPT !.at = "write"], tail' = Audio!After(caller.t), overwrote',
           UNCHANGED <<slot, head, seq, tx, txbuf, sent, handed, disturbed>>
    PROVE  RingState'
<1>1. RingTypes /\ Pushing /\ Popping /\ Ordered /\ caller \in Callers
  BY DEF RingState, RingTypes, Callers
<1>2. /\ caller.h = head /\ caller.t = tail /\ Audio!After(head) = tail /\ tail' = Audio!After(tail)
      /\ head \in Places /\ tail \in Places
  BY <1>1 DEF Pushing, RingTypes
<1>3. caller' \in Callers /\ caller'.frame = caller.frame /\ caller'.h = head /\ caller'.at = "write"
  BY <1>1, <1>2 DEF Callers
<1>4. head # tail /\ Audio!After(tail) # tail
  BY <1>2, NextPlace, RingConstants DEF Places
<1>5. tail' \in Places /\ Count' = Count - 1 /\ \A p \in Nat : p < Count' => At(p)' = At(p + 1)
  BY <1>2, <1>4, TailMoves
<1>sum. Count > 0
  <2>1. Count \in 0 .. Capacity - 1 /\ Count # 0
    BY <1>2, <1>4, RingSize
  <2> QED BY <2>1, RingConstants
<1>6. RingTypes'
  BY <1>1, <1>3, <1>5 DEF RingTypes, Callers
<1>7. Pushing' /\ Popping'
  BY <1>1, <1>2, <1>3, <1>4 DEF Pushing, Popping, Audio!After
<1>8. Gone' = Gone /\ Length' = Length - 1 /\ Length = Gone + Count + 1
  <2>1. Gone' = Gone
    BY DEF Gone
  <2>2. Length = Gone + Count + 1 /\ Length' = Gone + Count' + 1
    BY <1>3, <2>1 DEF Length
  <2> QED BY <1>1, <1>5, <2>1, <2>2, Lengths
<1> DEFINE sh(n) == IF n <= Gone THEN n ELSE n + 1
<1>9. ASSUME NEW n \in 1 .. Length' PROVE Chain(n)' = Chain(sh(n)) /\ sh(n) \in 1 .. Length
  <2>1. Gone \in Nat /\ Count \in Nat /\ Len(sent) \in Nat /\ Len(sent) <= Gone /\ n \in Nat \ {0} /\ Length \in Nat
    BY <1>1, Lengths
  <2>2. sh(n) \in 1 .. Length
    BY <1>8, <2>1
  <2>3. CASE n <= Gone
    BY <1>3, <1>8, <2>1, <2>3 DEF Chain
  <2>4. CASE n > Gone /\ n <= Gone + Count'
    <3>1. n - Gone - 1 \in Nat /\ n - Gone - 1 < Count' /\ (n + 1) - Gone - 1 = (n - Gone - 1) + 1
      BY <1>5, <2>1, <2>4
    <3>2. PICK k \in Nat : k = n - Gone - 1
      BY <3>1
    <3>3. At(k)' = At(k + 1)
      BY <1>5, <3>1, <3>2
    <3>4. Chain(n)' = slot[At(k)']
      <4>1. ~(n <= Len(sent)) /\ ~(n <= Gone') /\ n <= Gone' + Count' /\ n - Gone' - 1 = k
        BY <1>8, <2>1, <2>4, <3>2
      <4> QED BY <4>1 DEF Chain, At
    <3>5. Chain(n + 1) = slot[At(k + 1)]
      <4>1. ~(n + 1 <= Len(sent)) /\ ~(n + 1 <= Gone) /\ n + 1 <= Gone + Count /\ (n + 1) - Gone - 1 = k + 1
        BY <1>5, <2>1, <2>4, <3>2
      <4> QED BY <4>1 DEF Chain
    <3> QED BY <2>1, <2>2, <2>4, <3>3, <3>4, <3>5
  <2>5. CASE n > Gone + Count'
    <3>1. n = Gone + Count /\ sh(n) = n + 1
      BY <1>5, <1>8, <1>sum, <2>1, <2>5
    <3>2. Chain(n)' = caller.frame
      <4>1. ~(n <= Len(sent)) /\ ~(n <= Gone') /\ ~(n <= Gone' + Count')
        BY <1>5, <1>8, <1>sum, <2>1, <3>1
      <4> QED BY <1>3, <4>1 DEF Chain
    <3>3. Chain(n + 1) = caller.frame
      BY <1>5, <2>1, <3>1 DEF Chain
    <3> QED BY <2>2, <3>1, <3>2, <3>3
  <2> QED BY <1>5, <2>1, <2>3, <2>4, <2>5
<1>a. Ordered'
  <2> SUFFICES ASSUME NEW n \in 1 .. Length'
               PROVE  /\ Chain(n)' \in Nat /\ 0 < Chain(n)' /\ Chain(n)' < seq'
                      /\ \A m \in 1 .. Length' : n < m => Chain(n)' < Chain(m)'
    BY DEF Ordered
  <2>1. Chain(n)' \in Nat /\ 0 < Chain(n)' /\ Chain(n)' < seq'
    BY <1>1, <1>9 DEF Ordered
  <2>2. ASSUME NEW m \in 1 .. Length', n < m PROVE Chain(n)' < Chain(m)'
    <3>1. sh(n) < sh(m)
      BY <1>1, <2>2, Lengths
    <3> HIDE DEF sh
    <3>2. Chain(sh(n)) < Chain(sh(m))
      BY <1>1, <1>9, <3>1 DEF Ordered
    <3> QED BY <1>9, <3>2
  <2> QED BY <2>1, <2>2
<1> QED BY <1>6, <1>7, <1>a DEF RingState

Takers == [at : {"idle", "read", "take", "pack", "transfer"}, h : Places, t : Places, frame : Nat, over : BOOLEAN]

(* The transmit thread finds a frame, or uses up a number for silence.        *)
LEMMA TakesKeeps == ASSUME RingState, Audio!Takes PROVE RingState'
<1>1. RingTypes /\ Pushing /\ Popping /\ Ordered /\ (~overwrote => Whole) /\ tx \in Takers
  BY DEF RingState, RingTypes, Takers
<1>2. /\ tx.at = "idle"
      /\ UNCHANGED <<slot, head, tail, caller, sent, handed, overwrote, crossed, disturbed>>
      /\ \/ tail # head /\ tx' = [tx EXCEPT !.at = "read", !.t = tail] /\ seq' = seq /\ txbuf' = txbuf
         \/ tx' = tx /\ seq' = seq + 1 /\ txbuf' = 0
  BY DEF Audio!Takes, Audio!ringVars
<1>3. /\ tx' \in Takers /\ tx'.at \in {"idle", "read"} /\ (tx'.at = "read" => tx'.t = tail /\ head # tail)
      /\ seq' \in Nat \ {0} /\ seq <= seq' /\ txbuf' \in Nat /\ seq \in Nat
  <2>1. seq \in Nat \ {0} /\ txbuf \in Nat /\ tail \in Places
    BY <1>1 DEF RingTypes
  <2>2. CASE tail # head /\ tx' = [tx EXCEPT !.at = "read", !.t = tail] /\ seq' = seq /\ txbuf' = txbuf
    <3>1. tx' \in Takers /\ tx'.at = "read" /\ tx'.t = tail
      BY <1>1, <2>1, <2>2 DEF Takers
    <3> QED BY <2>1, <2>2, <3>1
  <2>3. CASE tx' = tx /\ seq' = seq + 1 /\ txbuf' = 0
    BY <1>1, <1>2, <2>1, <2>3
  <2> QED BY <1>2, <2>2, <2>3
<1>4. RingTypes'
  BY <1>1, <1>2, <1>3 DEF RingTypes, Takers
<1>5. Pushing' /\ Popping'
  BY <1>1, <1>2, <1>3 DEF Pushing, Popping, Count, Audio!After
<1>6. Gone = Len(sent) + 0 /\ Gone' = Len(sent) + 0 /\ Count' = Count
  BY <1>2, <1>3 DEF Gone, Count
<1>7. Length' = Length
  BY <1>2, <1>6 DEF Length
<1>8. \A i \in 1 .. Length : Chain(i)' = Chain(i)
  BY <1>1, <1>2, <1>6, Lengths DEF Chain, At
<1> QED BY <1>1, <1>2, <1>3, <1>4, <1>5, <1>7, <1>8, Lengths, SameChain DEF RingState

(* It copies the oldest frame, which nobody is writing ...                    *)
LEMMA ReadKeeps ==
    ASSUME RingState, tx.at = "read", NEW f \in Audio!Copied(tx, caller),
           tx' = [tx EXCEPT !.at = "take", !.frame = f],
           UNCHANGED <<slot, head, tail, seq, caller, txbuf, sent, handed, overwrote, crossed, disturbed>>
    PROVE  RingState'
<1>1. RingTypes /\ Pushing /\ Popping /\ Ordered /\ (~overwrote => Whole) /\ tx \in Takers
  BY DEF RingState, RingTypes, Takers
<1>2. tx.t = tail /\ head # tail /\ (caller.at = "write" => caller.h = head) /\ tail \in Places
      /\ slot[tail] \in Nat
  BY <1>1 DEF Pushing, Popping, RingTypes
<1>3. f = slot[tail]
  BY <1>2 DEF Audio!Copied
<1>4. tx' \in Takers /\ tx'.at = "take" /\ tx'.t = tail /\ tx'.frame = slot[tail]
  BY <1>1, <1>2, <1>3 DEF Takers
<1>5. RingTypes'
  BY <1>1, <1>4 DEF RingTypes, Takers
<1>6. Pushing' /\ Popping'
  BY <1>1, <1>2, <1>4 DEF Pushing, Popping, Count, Audio!After
<1>7. Gone = Len(sent) + 0 /\ Gone' = Len(sent) + 0 /\ Count' = Count
  BY <1>4 DEF Gone, Count
<1>8. Length' = Length
  BY <1>7 DEF Length
<1>9. \A i \in 1 .. Length : Chain(i)' = Chain(i)
  BY <1>1, <1>7, Lengths DEF Chain, At
<1>a. Length \in Nat /\ seq \in Nat /\ seq' = seq
  BY <1>1, Lengths DEF RingTypes
<1> QED BY <1>1, <1>5, <1>6, <1>8, <1>9, <1>a, SameChain DEF RingState
(* ... takes it out of the ring ...                                           *)
LEMMA PopKeeps ==
    ASSUME RingState, tx.at = "take", tx' = [tx EXCEPT !.at = "pack"], tail' = Audio!After(tx.t),
           crossed \/ caller.at # "drop" \/ crossed',
           UNCHANGED <<slot, head, seq, caller, txbuf, sent, handed, overwrote, disturbed>>,
           crossed => crossed'
    PROVE  RingState'
<1>1. RingTypes /\ Pushing /\ Popping /\ Ordered /\ (~overwrote => Whole) /\ tx \in Takers
  BY DEF RingState, RingTypes, Takers
<1>2. /\ tx.t = tail /\ head # tail /\ tx.frame = slot[tail] /\ tail' = Audio!After(tail)
      /\ head \in Places /\ tail \in Places
  BY <1>1 DEF Popping, RingTypes
<1>3. tail' \in Places /\ Count' = Count - 1 /\ \A p \in Nat : p < Count' => At(p)' = At(p + 1)
  BY <1>2, TailMoves
<1>4. tx' \in Takers /\ tx'.at = "pack" /\ tx'.frame = slot[tail]
  BY <1>1, <1>2 DEF Takers
<1>5. RingTypes'
  BY <1>1, <1>3, <1>4 DEF RingTypes, Takers
<1>6. Count > 0 /\ Count \in Nat
  <2>1. Count \in 0 .. Capacity - 1 /\ Count # 0
    BY <1>2, RingSize
  <2> QED BY <2>1, RingConstants
<1>7. Audio!After(head) # tail'
  BY <1>2, NextPlace, RingConstants DEF Places
<1>8. Pushing' /\ Popping'
  BY <1>1, <1>3, <1>4, <1>6, <1>7, RingConstants DEF Pushing, Popping, Audio!After
<1>9. Gone = Len(sent) + 0 /\ Gone' = Len(sent) + 1 /\ Len(sent) \in Nat
  BY <1>1, <1>4, Lengths DEF Gone
<1>a. Length' = Length
  BY <1>3, <1>6, <1>9 DEF Length
<1>sum. ASSUME NEW i \in 1 .. Length PROVE Chain(i)' = Chain(i)
  <2>1. Length \in Nat /\ i \in Nat \ {0}
    BY <1>1, Lengths
  <2>2. CASE i <= Len(sent)
    BY <2>2 DEF Chain
  <2>3. CASE i = Len(sent) + 1
    <3>1. At(0) = tail
      BY <1>2, InTheRing
    <3>2. Chain(i) = slot[At(0)]
      <4>1. ~(i <= Len(sent)) /\ ~(i <= Gone) /\ i <= Gone + Count /\ i - Gone - 1 = 0
        BY <1>6, <1>9, <2>3
      <4> QED BY <4>1 DEF Chain
    <3>3. Chain(i)' = tx'.frame
      <4>1. ~(i <= Len(sent)) /\ i <= Gone'
        BY <1>9, <2>3
      <4> QED BY <1>4, <4>1 DEF Chain
    <3> QED BY <1>4, <3>1, <3>2, <3>3
  <2>4. CASE i > Len(sent) + 1 /\ i <= Gone + Count
    <3>1. PICK k \in Nat : k = i - Gone' - 1 /\ k + 1 = i - Gone - 1 /\ k < Count'
      <4>1. i - Gone' - 1 \in Nat /\ (i - Gone' - 1) + 1 = i - Gone - 1 /\ i - Gone' - 1 < Count'
        BY <1>3, <1>6, <1>9, <2>1, <2>4
      <4> QED BY <4>1
    <3>2. At(k)' = At(k + 1)
      BY <1>3, <3>1
    <3>3. Chain(i) = slot[At(k + 1)]
      <4>1. ~(i <= Len(sent)) /\ ~(i <= Gone)
        BY <1>9, <2>1, <2>4
      <4> QED BY <2>4, <3>1, <4>1 DEF Chain
    <3>4. Chain(i)' = slot[At(k)']
      <4>1. ~(i <= Len(sent)) /\ ~(i <= Gone') /\ i <= Gone' + Count'
        BY <1>3, <1>6, <1>9, <2>1, <2>4
      <4> QED BY <3>1, <4>1 DEF Chain, At
    <3> QED BY <3>2, <3>3, <3>4
  <2>5. CASE i > Gone + Count
    <3>1. ~(i <= Len(sent)) /\ ~(i <= Gone) /\ ~(i <= Gone + Count) /\ ~(i <= Gone') /\ ~(i <= Gone' + Count')
      BY <1>3, <1>6, <1>9, <2>1, <2>5
    <3> QED BY <3>1 DEF Chain
  <2> QED BY <1>6, <1>9, <2>1, <2>2, <2>3, <2>4, <2>5
<1>c. Length \in Nat /\ seq \in Nat /\ seq' = seq
  BY <1>1, Lengths DEF RingTypes
<1> QED BY <1>1, <1>5, <1>8, <1>a, <1>sum, <1>c, SameChain DEF RingState

(* ... packs it ...                                                           *)
LEMMA PackKeeps == ASSUME RingState, Audio!Packs PROVE RingState'
<1>1. RingTypes /\ Pushing /\ Popping /\ Ordered /\ (~overwrote => Whole) /\ tx \in Takers
  BY DEF RingState, RingTypes, Takers
<1>2. /\ tx.at = "pack" /\ tx' = [tx EXCEPT !.at = "transfer", !.t = 0] /\ txbuf' = tx.frame
      /\ UNCHANGED <<slot, head, tail, seq, caller, sent, handed, overwrote, crossed, disturbed>>
  BY DEF Audio!Packs, Audio!ringVars, Audio!pastVars
<1>3. tx' \in Takers /\ tx'.at = "transfer" /\ txbuf' \in Nat
  <2>1. 0 \in Places
    BY RingConstants DEF Places
  <2>2. tx' \in Takers
    BY <1>1, <1>2, <2>1 DEF Takers
  <2>3. tx'.at = "transfer" /\ txbuf' \in Nat
    BY <1>1, <1>2 DEF Takers
  <2> QED BY <2>2, <2>3
<1>4. RingTypes'
  BY <1>1, <1>2, <1>3 DEF RingTypes, Takers
<1>5. Pushing' /\ Popping'
  BY <1>1, <1>2, <1>3 DEF Pushing, Popping, Count, Audio!After
<1>6. Gone = Len(sent) + 1 /\ Gone' = Len(sent) + 1 /\ Count' = Count
  BY <1>2, <1>3 DEF Gone, Count
<1>7. Length' = Length
  BY <1>2, <1>6 DEF Length
<1>8. \A i \in 1 .. Length : Chain(i)' = Chain(i)
  BY <1>1, <1>2, <1>3, <1>6, Lengths DEF Chain, At
<1>9. Length \in Nat /\ seq \in Nat
  BY <1>1, Lengths DEF RingTypes
<1> QED BY <1>1, <1>2, <1>4, <1>5, <1>7, <1>8, <1>9, SameChain DEF RingState

(* ... and sends it.                                                          *)
LEMMA TransferKeeps ==
    ASSUME RingState, tx.at = "transfer", tx' = Audio!Idle, sent' = Append(sent, txbuf),
           UNCHANGED <<slot, head, tail, seq, caller, txbuf, handed, overwrote, crossed, disturbed>>
    PROVE  RingState'
<1>1. RingTypes /\ Pushing /\ Popping /\ Ordered /\ (~overwrote => Whole)
  BY DEF RingState
<1>2. tx' \in Takers /\ tx'.at = "idle"
  BY RingConstants DEF Audio!Idle, Takers, Places
<1>3. /\ sent' \in Seq(Nat) /\ Len(sent') = Len(sent) + 1 /\ Len(sent) \in Nat
      /\ sent'[Len(sent) + 1] = txbuf /\ \A i \in 1 .. Len(sent) : sent'[i] = sent[i]
  BY <1>1 DEF RingTypes
<1>4. RingTypes'
  BY <1>1, <1>2, <1>3 DEF RingTypes, Takers
<1>5. Pushing' /\ Popping'
  BY <1>1, <1>2 DEF Pushing, Popping, Count, Audio!After
<1>6. Gone = Len(sent) + 1 /\ Gone' = Len(sent') + 0 /\ Count' = Count
  BY <1>2 DEF Gone, Count
<1>7. Gone' = Gone
  BY <1>3, <1>6
<1>8. Length' = Length
  BY <1>6, <1>7 DEF Length
<1>9. \A i \in 1 .. Length : Chain(i)' = Chain(i)
  <2> SUFFICES ASSUME NEW i \in 1 .. Length PROVE Chain(i)' = Chain(i)
    OBVIOUS
  <2>1. i \in Nat \ {0}
    BY <1>1, Lengths
  <2>2. CASE i <= Len(sent)
    BY <1>3, <2>1, <2>2 DEF Chain
  <2>3. CASE i = Len(sent) + 1
    BY <1>3, <1>6, <2>3 DEF Chain
  <2>4. CASE i > Len(sent) + 1
    <3>1. ~(i <= Len(sent)) /\ ~(i <= Len(sent')) /\ ~(i <= Gone) /\ ~(i <= Gone')
      BY <1>3, <1>6, <2>1, <2>4
    <3> QED BY <1>6, <1>7, <3>1 DEF Chain, At
  <2> QED BY <1>3, <2>1, <2>2, <2>3, <2>4
<1>a. Length \in Nat /\ seq \in Nat /\ seq' = seq
  BY <1>1, Lengths DEF RingTypes
<1> QED BY <1>1, <1>4, <1>5, <1>8, <1>9, <1>a, SameChain DEF RingState

(* Every step keeps RingInv: those of the wrong side do not concern it.       *)
LEMMA RingStep == ASSUME RingInv, [Audio!Next]_(Audio!audioVars) PROVE RingInv'
<1> SUFFICES ASSUME Orderly' PROVE RingState'
  BY DEF RingInv
<1>1. CASE Audio!SendAudio
  <2>1. Orderly
    BY <1>1 DEF Audio!SendAudio, Orderly
  <2> QED BY <1>1, <2>1, SendKeeps DEF RingInv
<1>2. CASE Audio!AppPushes
  <2>1. Audio!Push(caller, tx) /\ UNCHANGED <<seq, tx, txbuf, sent, handed, disturbed>>
    BY <1>2 DEF Audio!AppPushes, Audio!wireVars
  <2>2. CASE caller.at = "check" /\ caller' = Audio!Checked(caller) /\ UNCHANGED <<slot, head, tail, overwrote, crossed>>
    <3>1. RingState
      BY <2>1, <2>2 DEF Orderly, RingInv
    <3> QED BY <2>1, <2>2, <3>1, CheckKeeps
  <2>3. CASE /\ caller.at = "drop" /\ caller' = [caller EXCEPT !.at = "write"] /\ tail' = Audio!After(caller.t)
             /\ overwrote' = TRUE /\ crossed' = (crossed \/ tx.at \in {"read", "take"}) /\ UNCHANGED <<slot, head>>
    <3>1. ~crossed /\ tx.at \notin {"read", "take"}
      BY <2>3 DEF Orderly
    <3>2. RingState
      BY <2>1, <3>1 DEF Orderly, RingInv
    <3> QED BY <2>1, <2>3, <3>1, <3>2, DropKeeps
  <2>4. CASE /\ caller.at = "write" /\ caller' = [caller EXCEPT !.at = "publish"]
             /\ slot' = [slot EXCEPT ![caller.h] = caller.frame] /\ UNCHANGED <<head, tail, overwrote, crossed>>
    <3>1. RingState
      BY <2>1, <2>4 DEF Orderly, RingInv
    <3> QED BY <2>1, <2>4, <3>1, WriteKeeps
  <2>5. CASE /\ caller.at = "publish" /\ caller' = Audio!Idle /\ head' = Audio!After(caller.h)
             /\ UNCHANGED <<slot, tail, overwrote, crossed>>
    <3>1. RingState
      BY <2>1, <2>5 DEF Orderly, RingInv
    <3> QED BY <2>1, <2>5, <3>1, PublishKeeps
  <2> QED BY <2>1, <2>2, <2>3, <2>4, <2>5 DEF Audio!Push, Audio!ringVars
<1>3. CASE Audio!Reset
  BY <1>3 DEF Audio!Reset, Orderly
<1>4. CASE Audio!Empties \/ Audio!AppPops \/ Audio!FillsReset \/ Audio!SendsReset
  <2>1. /\ caller.at \in {"empty", "read", "take", "reset", "transfer"}
        /\ disturbed' = disturbed /\ overwrote' = overwrote /\ (crossed => crossed')
    <3>1. CASE Audio!Empties
      BY <3>1 DEF Audio!Empties, Audio!pastVars
    <3>2. CASE Audio!AppPops
      <4>1. caller.at \in {"read", "take"} /\ disturbed' = disturbed /\ overwrote' = overwrote
        BY <3>2 DEF Audio!AppPops, Audio!Pop
      <4>2. crossed' = crossed \/ crossed' = (crossed \/ tx.at = "drop")
        BY <3>2 DEF Audio!AppPops, Audio!Pop
      <4>3. crossed => crossed'
        BY <4>2, Zenon
      <4> QED BY <4>1, <4>3
    <3>3. CASE Audio!FillsReset
      BY <3>3 DEF Audio!FillsReset, Audio!pastVars
    <3>4. CASE Audio!SendsReset
      BY <3>4 DEF Audio!SendsReset, Audio!pastVars
    <3> QED BY <1>4, <3>1, <3>2, <3>3, <3>4
  <2>2. RingTypes
    BY <2>1 DEF Orderly, RingInv, RingState
  <2> QED BY <2>1, <2>2 DEF RingTypes
<1>5. CASE Audio!Takes
  <2>1. Orderly
    BY <1>5 DEF Audio!Takes, Orderly
  <2> QED BY <1>5, <2>1, TakesKeeps DEF RingInv
<1>6. CASE Audio!TxPops
  <2>1. Audio!Pop(tx, caller, "pack")
        /\ UNCHANGED <<seq, caller, txbuf, sent, handed, overwrote, disturbed>>
    BY <1>6 DEF Audio!TxPops, Audio!wireVars
  <2>2. CASE tx.at = "read" /\ UNCHANGED <<slot, head, tail, crossed>>
             /\ \E f \in Audio!Copied(tx, caller) : tx' = [tx EXCEPT !.at = "take", !.frame = f]
    <3>1. RingState
      BY <2>1, <2>2 DEF Orderly, RingInv
    <3> QED BY <2>1, <2>2, <3>1, ReadKeeps
  <2>3. CASE /\ tx.at = "take" /\ tx' = [tx EXCEPT !.at = "pack"] /\ tail' = Audio!After(tx.t)
             /\ crossed' = (crossed \/ caller.at = "drop") /\ UNCHANGED <<slot, head>>
    <3>1. RingState
      BY <2>1, <2>3 DEF Orderly, RingInv
    <3> QED BY <2>1, <2>3, <3>1, PopKeeps
  <2> QED BY <2>1, <2>2, <2>3 DEF Audio!Pop, Audio!ringVars
<1>7. CASE Audio!Packs
  <2>1. Orderly
    BY <1>7 DEF Audio!Packs, Audio!pastVars, Orderly
  <2> QED BY <1>7, <2>1, PackKeeps DEF RingInv
<1>8. CASE Audio!Transfers
  <2>1. /\ tx.at = "transfer" /\ sent' = Append(sent, txbuf) /\ tx' = Audio!Idle
        /\ UNCHANGED <<slot, head, tail, seq, caller, txbuf, handed, overwrote, crossed, disturbed>>
    BY <1>8 DEF Audio!Transfers, Audio!ringVars, Orderly
  <2>2. RingState
    BY <2>1 DEF Orderly, RingInv
  <2> QED BY <2>1, <2>2, TransferKeeps
<1>9. CASE Audio!TxPushes
  <2>1. tx.at \in {"check", "drop", "write", "publish"} /\ disturbed' = disturbed
        /\ (overwrote => overwrote') /\ (crossed => crossed')
    <3>1. tx.at \in {"check", "drop", "write", "publish"} /\ disturbed' = disturbed
      BY <1>9 DEF Audio!TxPushes, Audio!Push
    <3>2. overwrote' = overwrote \/ overwrote'
      BY <1>9 DEF Audio!TxPushes, Audio!Push
    <3>3. crossed' = crossed \/ crossed' = (crossed \/ caller.at \in {"read", "take"})
      BY <1>9 DEF Audio!TxPushes, Audio!Push
    <3>4. crossed => crossed'
      BY <3>3, Zenon
    <3> QED BY <3>1, <3>2, <3>4
  <2>2. RingTypes
    BY <2>1 DEF Orderly, RingInv, RingState
  <2> QED BY <2>1, <2>2 DEF RingTypes
<1>a. CASE Audio!Stop \/ UNCHANGED Audio!audioVars
  <2>1. UNCHANGED <<slot, head, tail, seq, caller, tx, txbuf, sent, handed, overwrote, crossed, disturbed>>
    BY <1>a DEF Audio!Stop, Audio!audioVars, Audio!ringVars, Audio!wireVars, Audio!pastVars
  <2>2. RingState
    BY <2>1 DEF Orderly, RingInv
  <2>3. RingTypes' /\ Pushing' /\ Popping'
    BY <2>1, <2>2 DEF RingState, RingTypes, Pushing, Popping, Count, Audio!After
  <2>4. Length' = Length /\ \A i \in 1 .. Length : Chain(i)' = Chain(i)
    BY <2>1 DEF Length, Gone, Count, Chain, At
  <2>5. Ordered' /\ (~overwrote' => Whole')
    BY <2>1, <2>2, <2>4 DEF RingState, Ordered, Whole
  <2> QED BY <2>3, <2>5 DEF RingState
<1> QED BY <1>1, <1>2, <1>3, <1>4, <1>5, <1>6, <1>7, <1>8, <1>9, <1>a DEF Audio!Next

(* What goes over the wire is what was handed in, none missing as long as     *)
(* nothing was overwritten, and in order until an overwrite meets a pop.      *)
THEOREM AudioStaysInOrder == Audio!Spec => []AudioInOrder
<1>1. Audio!Init => RingInv
  <2> SUFFICES ASSUME Audio!Init PROVE RingState
    BY DEF RingInv
  <2>1. caller = Audio!Idle /\ tx = Audio!Idle /\ sent = << >> /\ handed = << >> /\ head = 0 /\ tail = 0
        /\ seq = 1 /\ txbuf = 0 /\ slot = [i \in 0 .. (Capacity - 1) |-> 0]
    BY DEF Audio!Init
  <2>2. RingTypes
    BY <2>1, RingConstants DEF Audio!Idle, RingTypes, Places
  <2>3. Pushing /\ Popping
    BY <2>1 DEF Audio!Idle, Pushing, Popping
  <2>4. Gone = 0 + 0 /\ Count = 0
    BY <2>1 DEF Audio!Idle, Gone, Count
  <2>5. Length = 0 + 0 + 0
    BY <2>1, <2>4 DEF Audio!Idle, Length
  <2> QED BY <2>1, <2>2, <2>3, <2>5 DEF RingState, Ordered, Whole
<1>2. RingInv => AudioInOrder
  <2>1. ASSUME RingState PROVE \A i \in DOMAIN sent : sent[i] > IF i = 1 THEN 0 ELSE sent[i - 1]
    <3>1. Ordered /\ sent \in Seq(Nat) /\ Len(sent) \in Nat /\ Length \in Nat /\ Len(sent) <= Length
      BY <2>1, Lengths DEF RingState, RingTypes
    <3>2. \A i \in 1 .. Len(sent) : Chain(i) = sent[i]
      BY DEF Chain
    <3>3. \A i \in 1 .. Len(sent) : i \in 1 .. Length
      BY <3>1
    <3>4. ASSUME NEW i \in 1 .. Len(sent) PROVE sent[i] > IF i = 1 THEN 0 ELSE sent[i - 1]
      <4>1. CASE i = 1
        BY <3>1, <3>2, <3>3, <4>1 DEF Ordered
      <4>2. CASE i # 1
        <5>1. i - 1 \in 1 .. Len(sent) /\ i - 1 < i
          BY <3>1, <4>2
        <5>2. Chain(i - 1) < Chain(i) /\ Chain(i - 1) \in Nat /\ Chain(i) \in Nat
          BY <3>1, <3>3, <5>1 DEF Ordered
        <5> QED BY <3>2, <4>2, <5>1, <5>2
      <4> QED BY <4>1, <4>2
    <3> QED BY <3>1, <3>4
  <2>2. ASSUME RingState, ~overwrote PROVE Audio!IsPrefix(sent, handed)
    <3>1. Whole /\ sent \in Seq(Nat) /\ handed \in Seq(Nat) /\ Len(sent) \in Nat /\ Length \in Nat /\ Len(sent) <= Length
      BY <2>2, Lengths DEF RingState, RingTypes
    <3>2. Len(sent) <= Len(handed) /\ \A i \in 1 .. Len(sent) : handed[i] = sent[i]
      BY <3>1 DEF Whole, Chain
    <3>3. SubSeq(sent, 1, Len(sent)) = SubSeq(handed, 1, Len(sent))
      BY <3>1, <3>2
    <3> QED BY <3>2, <3>3 DEF Audio!IsPrefix
  <2> QED BY <2>1, <2>2 DEF RingInv, Orderly, AudioInOrder, Audio!AudioInOrder
<1> QED BY <1>1, <1>2, RingStep, PTL DEF Audio!Spec
=============================================================================
