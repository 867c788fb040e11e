------------------------------- MODULE Update -------------------------------
(***************************************************************************)
(* What an update of the device promises.  While a package is accepted the *)
(* device replaces files one at a time, each only with that package's      *)
(* file, and it restarts of its own accord only once every file of the     *)
(* package is in place and would survive the power going.  Power may go at *)
(* any time; it undoes what was not written back and drops the package.    *)
(***************************************************************************)
EXTENDS Integers

CONSTANTS
    Files,       \* files under /mfoes
    Packages,    \* packages the host may build
    FilesOf      \* [Packages -> SUBSET Files]

None == 0
Versions == Packages \cup {None}
Whole(p) == [of |-> p, whole |-> TRUE]

VARIABLES
    target,      \* the accepted package
    disk,        \* what a file reads as
    flash,       \* what it reads as after a power cut
    restarting

vars == <<target, disk, flash, restarting>>

Init ==
    /\ target = None
    /\ disk = [f \in Files |-> Whole(None)]
    /\ flash = disk
    /\ restarting = FALSE

Accept(p) ==
    /\ ~restarting
    /\ target' = p
    /\ UNCHANGED <<disk, flash, restarting>>

Replace(f) ==
    /\ ~restarting
    /\ target # None /\ f \in FilesOf[target]
    /\ disk' = [disk EXCEPT ![f] = Whole(target)]
    /\ UNCHANGED <<target, flash, restarting>>

GiveUp ==
    /\ ~restarting
    /\ target' = None
    /\ UNCHANGED <<disk, flash, restarting>>

WriteBack(f) ==
    /\ flash' = [flash EXCEPT ![f] = disk[f]]
    /\ UNCHANGED <<target, disk, restarting>>

(* All of the package is in place for good. *)
Finish ==
    /\ target # None
    /\ flash' = disk
    /\ \A f \in FilesOf[target] : flash'[f] = Whole(target)
    /\ restarting' = TRUE
    /\ UNCHANGED <<target, disk>>

(* A restart or a power cut. *)
Down ==
    /\ disk' = flash
    /\ target' = None
    /\ restarting' = FALSE
    /\ UNCHANGED flash

Next ==
    \/ \E p \in Packages : Accept(p)
    \/ \E f \in Files : Replace(f) \/ WriteBack(f)
    \/ GiveUp
    \/ Finish
    \/ Down

Spec == Init /\ [][Next]_vars

=============================================================================
