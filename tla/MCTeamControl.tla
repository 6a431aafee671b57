---------------------------- MODULE MCTeamControl ----------------------------
(* Instances of TeamControl for TLC. *)
EXTENDS TeamControl

(* two allied players with a team each, and a third team for an AI *)
OneEach == <<1, 2>>
AllAllied == <<1, 1, 1>>
FirstLeads == <<1, 2, 1>>
FirstHosts == << <<1, 3>> >>
================================================================================
