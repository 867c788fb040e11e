------------------------------- MODULE MCDspi -------------------------------
(* Instances of Dspi for TLC.                                              *)
EXTENDS Dspi, TLC

(* The two frames begin alike. *)
MCHeaderOf == <<1, 1>>

Symmetry == Permutations(Senders)

(* Two frames going out, or one each way. *)
OneLoad == sent <= 1 \/ msent = 0
=============================================================================
