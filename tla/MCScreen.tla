------------------------------ MODULE MCScreen ------------------------------
(* The link to the northbridge, the touch driver, the widgets and the       *)
(* keyboard share no state here: one run checks each of them, and part says *)
(* which.                                                                   *)
EXTENDS NbLink, TouchScreen

VARIABLE part

(* What the proofs need to know of the constants.                            *)
ASSUME ScreenAssumption == Glass!TouchConstants /\ Manager!ScreenConstants /\ Keyboard!TypingConstants

(* A view of the side bar with a question, and one with a button of each    *)
(* kind, a slider and a field.                                              *)
MCKind == [ssui |-> "TOGGLE", sdui |-> "TOGGLE", hideui |-> "TRIGGER",
           boost |-> "HOLD", testbtn1 |-> "HOLD_SWIPE", vol |-> "slider",
           name |-> "field"]
MCGroup == [ssui |-> "side", sdui |-> "side", hideui |-> "ssui",
            boost |-> "sdui", testbtn1 |-> "sdui", vol |-> "sdui",
            name |-> "sdui"]
MCOrder == <<"name">>
MCEdits == <<"name", "port">>
MCSpins == <<"speed", "gain2">>

MCInit ==
    /\ part \in {"link", "touch", "screen", "typing"}
    /\ Init /\ Glass!Init /\ Manager!Init /\ Keyboard!Init

MCNext ==
    /\ UNCHANGED part
    /\ \/ part = "link" /\ Next /\ UNCHANGED <<touchVars, screenVars, typingVars>>
       \/ part = "touch" /\ Glass!Next /\ UNCHANGED <<vars, screenVars, typingVars>>
       \/ part = "screen" /\ Manager!Next /\ UNCHANGED <<vars, touchVars, typingVars>>
       \/ part = "typing" /\ Keyboard!Next /\ UNCHANGED <<vars, touchVars, screenVars>>

(* The fairness of the link, while it is the part that runs. *)
MCFairness ==
    /\ WF_vars(part = "link" /\ Link)
    /\ \A r \in Requesters : WF_vars(part = "link" /\ InRequest(r))
    /\ WF_vars(part = "link" /\ Join)

MCSpec == MCInit /\ [][MCNext]_<<part, vars, touchVars, screenVars, typingVars>> /\ MCFairness
=============================================================================
