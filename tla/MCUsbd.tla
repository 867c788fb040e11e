------------------------------- MODULE MCUsbd -------------------------------
(* Instances of Usbd for TLC.                                              *)
EXTENDS Usbd, TLC

(* Once threads of two connections meet nothing is claimed any more of what *)
(* the channel carries.                                                     *)
Uncrowded == "crowded" \notin mishaps

(* Much traffic out, with a replug, or much traffic in.                     *)
OneLoad == hostSent <= 1 \/ (replugs = 0 /\ \A c \in Clients : written[c] <= 1)
=============================================================================
