------------------------------- MODULE Clock --------------------------------
(***************************************************************************)
(* Keeping the clocks in step: the DS3231, rtc_task's seeding of it from   *)
(* the build stamp, the Pi's system clock, which has no hardware behind it,*)
(* and the App's policy between the two (nbAdoptRtcTime, nbService).       *)
(*                                                                         *)
(* A time is a number of ticks since an epoch in which clocks are unset;   *)
(* from SaneYear on a clock looks plausible.  Tick n is the true time n.   *)
(*                                                                         *)
(* PushBack is a mistake this code could make; RtcKeepsTime is tried       *)
(* against it.                                                             *)
(***************************************************************************)
EXTENDS Integers

CONSTANTS
    SaneYear,     \* kSaneYear
    Build,        \* the build stamp, not before SaneYear
    Tolerance,    \* kClockSkewToleranceSec
    MaxNow,       \* bound: the last tick
    MaxFaults     \* bound: restarts, power losses, I2C failures

Unset == 0
BadTime == -1         \* registers that hold no date

VARIABLES
    now,                       \* the true time
    rtc, osf,                  \* the chip: its time, its oscillator-stopped flag
    fw, rtcOk,                 \* rtc_task: place; g_rtc_ok
    sys, ntp,                  \* the system clock; NTP holds it
    host, feature, fromRtc,     \* the App: place; NB_FEAT_RTC as it was told; nbClockFromRtc
    faults,                    \* bound
    sound,                     \* history: the chip was seeded or found good, and kept its power
    kept                       \* history: the App goes by a plausible clock that NTP does not hold

chip == <<rtc, osf>>
appVars == <<host, feature, fromRtc>>
clock == <<sys, ntp>>
vars == <<now, chip, fw, rtcOk, clock, appVars, faults, sound, kept>>

Init ==
    /\ now = Build
    /\ \/ rtc \in {BadTime, Unset} /\ osf = TRUE
       \/ rtc = Build /\ osf = FALSE
    /\ fw = "init" /\ rtcOk = FALSE
    /\ sys \in {Unset, SaneYear} /\ ntp = FALSE
    /\ host = "off" /\ feature = FALSE /\ fromRtc = FALSE
    /\ faults = 0 /\ sound = FALSE /\ kept = FALSE

(* Time goes by; a system clock that NTP does not hold drifts. *)
Tick ==
    /\ now < MaxNow /\ now' = now + 1
    /\ rtc' = IF rtc = BadTime THEN BadTime ELSE rtc + 1
    /\ \E d \in {0, 1} : sys' = sys + d /\ (ntp => d = 1)
    /\ UNCHANGED <<osf, fw, rtcOk, ntp, appVars, faults, sound, kept>>

Ntp ==
    /\ sys' = now /\ ntp' = TRUE /\ kept' = FALSE
    /\ UNCHANGED <<now, chip, fw, rtcOk, appVars, faults, sound>>

(* The network is gone. *)
NtpGoes ==
    /\ ntp /\ ntp' = FALSE
    /\ kept' = (host = "run" /\ ~fromRtc)
    /\ UNCHANGED <<now, chip, fw, rtcOk, sys, appVars, faults, sound>>

Fault == faults < MaxFaults /\ faults' = faults + 1

(* The battery was out: the flag is raised, the registers hold anything.     *)
LosePower ==
    /\ Fault
    /\ rtc' \in {BadTime, Unset} /\ osf' = TRUE
    /\ sound' = FALSE
    /\ UNCHANGED <<now, fw, rtcOk, clock, appVars, kept>>

(* The Pico restarts. *)
Reboot ==
    /\ Fault
    /\ fw' = "init" /\ rtcOk' = FALSE
    /\ UNCHANGED <<now, chip, clock, appVars, sound, kept>>

-----------------------------------------------------------------------------
(* rtc_task: ds3231_init, then ds3231_sync_to_build_time.                    *)

InitChip ==
    /\ fw = "init" /\ fw' = "sync" /\ rtcOk' = TRUE
    /\ UNCHANGED <<now, chip, clock, appVars, faults, sound, kept>>

InitFails ==
    /\ fw = "init" /\ fw' = "off" /\ Fault
    /\ UNCHANGED <<now, chip, rtcOk, clock, appVars, sound, kept>>

(* Set the stamp, then clear the flag, whose failure is not looked at.       *)
Seed ==
    /\ rtc' = Build
    /\ \/ osf' = FALSE /\ UNCHANGED faults
       \/ Fault /\ UNCHANGED osf

Sync ==
    /\ fw = "sync" /\ fw' = "run"
    /\ IF osf \/ rtc = BadTime \/ rtc < Build THEN Seed ELSE UNCHANGED <<chip, faults>>
    /\ sound' = ~osf'
    /\ UNCHANGED <<now, rtcOk, clock, appVars, kept>>

(* The flag or the registers cannot be read, or not be written.              *)
SyncFails ==
    /\ fw = "sync" /\ fw' = "run" /\ Fault
    /\ UNCHANGED <<now, chip, rtcOk, clock, appVars, sound, kept>>

-----------------------------------------------------------------------------
(* The Pi boots with what its file system last recorded.                     *)
PiBoots ==
    /\ Fault
    /\ sys' \in {Unset} \cup SaneYear .. sys /\ ntp' = FALSE
    /\ host' = "off" /\ feature' = FALSE /\ fromRtc' = FALSE /\ kept' = FALSE
    /\ UNCHANGED <<now, chip, fw, rtcOk, sound>>

(* Only the App restarts. *)
AppEnds ==
    /\ host = "run" /\ Fault
    /\ host' = "off" /\ feature' = FALSE /\ fromRtc' = FALSE /\ kept' = FALSE
    /\ UNCHANGED <<now, chip, fw, rtcOk, clock, sound>>

(* GET_INFO, then nbAdoptRtcTime: a clock that looks plausible is kept, and  *)
(* an unset one too when the chip cannot be read or settimeofday fails.      *)
AppStarts ==
    /\ host = "off" /\ host' = "run"
    /\ feature' = rtcOk
    /\ kept' = (sys >= SaneYear /\ ~ntp)
    /\ \/ fromRtc' = (rtcOk /\ rtc >= SaneYear /\ sys < SaneYear) /\ UNCHANGED faults
       \/ sys < SaneYear /\ Fault /\ fromRtc' = FALSE
    /\ sys' = IF fromRtc' THEN rtc ELSE sys
    /\ UNCHANGED <<now, chip, fw, rtcOk, ntp, sound>>

Apart(a, b) == IF a > b THEN a - b ELSE b - a

PushBack ==
    /\ host = "run" /\ feature
    /\ rtc # BadTime /\ Apart(sys, rtc) > Tolerance
    /\ sys >= SaneYear
    /\ rtc' = sys
    /\ UNCHANGED <<now, osf, fw, rtcOk, clock, appVars, faults, sound, kept>>

(* nbService's hourly check and nbPushSystemTime: SET_TIME.                  *)
Service ==
    /\ host = "run" /\ feature /\ ~fromRtc
    /\ rtc # BadTime /\ Apart(sys, rtc) > Tolerance
    /\ sys >= SaneYear
    /\ rtc' = sys
    /\ UNCHANGED <<now, osf, fw, rtcOk, clock, appVars, faults, sound, kept>>

Next ==
    \/ Tick \/ Ntp \/ NtpGoes
    \/ LosePower \/ Reboot
    \/ InitChip \/ InitFails \/ Sync \/ SyncFails
    \/ PiBoots \/ AppEnds \/ AppStarts \/ Service

Spec == Init /\ [][Next]_vars

-----------------------------------------------------------------------------
(* Properties *)

(* How far the chip is off.                                                  *)
Error == Apart(rtc, now)

(* No step takes a good chip further from the true time: no restart of the   *)
(* Pico, the Pi or the App, no failed read, no check of nbService pushing    *)
(* what came from the chip, from NTP or from nowhere.  Excepted is an App    *)
(* that goes by a plausible clock NTP does not hold (kept), on which the     *)
(* code and its header disagree: see DriftNeverCorrupts.                     *)
RtcKeepsTime == [][sound /\ sound' /\ ~kept => Error' <= Error]_vars

(* "a drifting system clock can never corrupt the RTC", since it is pushed   *)
(* "ONLY if something else (NTP) moved it" (northbridge_link.cpp:14-15).     *)
DriftNeverCorrupts == [][sound /\ sound' => Error' <= Error]_vars

=============================================================================
