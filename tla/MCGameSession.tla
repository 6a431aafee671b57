---------------------------- MODULE MCGameSession ----------------------------
(* Instances of GameSession for TLC. *)
EXTENDS GameSession

(* which participant each connection asks for *)
TwiceAndOther  == <<1, 1, 2>>
HostAndGuest   == <<1, 0>>
================================================================================
