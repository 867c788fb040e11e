------------------------------- MODULE MCOta -------------------------------
(* The update and the picture on the panel and the remote viewer, which     *)
(* share the USB channels' library and no state: one run checks each, and   *)
(* scene says which.                                                        *)
EXTENDS Ota, TLC

CONSTANTS Views, Videos, MaxTexts, MaxAttach, MaxLost

VARIABLES
    scene,
    text, raising, sysMsg, sysInfo, force, redraw, view, video, hasFrame, posted, elapsed,
    main, plan, drawn, shown, lastSent, pending, forceResend, sender, gate, frame, inbound,
    viewer, seen, taps, attached, lost, missed

pictureVars == <<text, raising, sysMsg, sysInfo, force, redraw, view, video, hasFrame, posted, elapsed,
                 main, plan, drawn, shown, lastSent, pending, forceResend, sender, gate, frame, inbound,
                 viewer, seen, taps, attached, lost, missed>>

Picture == INSTANCE Remote WITH up <- gate

(* The second package was built without the daemon's own binary. *)
MCFilesOf == <<{"mfoes02w", "otad"}, {"mfoes02w"}>>

MCInit ==
    /\ scene \in {"ota", "picture"}
    /\ Init
    /\ Picture!Init /\ (scene # "picture" => ~video)

MCNext ==
    /\ UNCHANGED scene
    /\ \/ scene = "ota" /\ Next /\ UNCHANGED pictureVars
       \/ scene = "picture" /\ Picture!Next /\ UNCHANGED vars

(* The fairness of the update and of the picture, each while it is the one   *)
(* that runs.                                                                *)
OtaFairness == WF_vars(scene = "ota" /\ (HostAcked \/ HostFails \/ HostClose))

PictureFairness ==
    /\ WF_pictureVars(scene = "picture" /\ Picture!Tell)
    /\ \A t \in {"info", "keyframe"} : WF_pictureVars(scene = "picture" /\ Picture!Elapse(t))
    /\ WF_pictureVars(scene = "picture" /\ Picture!Render)
    /\ WF_pictureVars(scene = "picture" /\ Picture!Sender)
    /\ SF_pictureVars(scene = "picture" /\ Picture!Take)
    /\ WF_pictureVars(scene = "picture" /\ Picture!AskAgain)

MCSpec == MCInit /\ [][MCNext]_<<scene, vars, pictureVars>> /\ OtaFairness /\ PictureFairness

(* The properties of the picture, stated in Remote. *)
PanelFollows == scene = "picture" => Picture!PanelFollows
ViewerFollows == scene = "picture" => Picture!ViewerFollows
=============================================================================
