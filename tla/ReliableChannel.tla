---------------------------- MODULE ReliableChannel ----------------------------
(***************************************************************************)
(* What a CConnection promises its two users: every message given to       *)
(* SendData at one end comes out of GetData at the other end, once, whole  *)
(* and in the order in which it was given.                                 *)
(***************************************************************************)
EXTENDS Naturals, Sequences

CONSTANTS
  Ends,      \* the two ends
  Peer(_),   \* the other end
  Message    \* what can be sent

VARIABLES
  accepted,  \* accepted[e]: the messages given to SendData at end e
  taken      \* taken[e]: the messages GetData has returned at end e

Init ==
  /\ accepted = [e \in Ends |-> <<>>]
  /\ taken = [e \in Ends |-> <<>>]

Send(e, m) ==
  /\ accepted' = [accepted EXCEPT ![e] = Append(@, m)]
  /\ UNCHANGED taken

Take(e) ==
  /\ Len(taken[e]) < Len(accepted[Peer(e)])
  /\ taken' = [taken EXCEPT ![e] = Append(@, accepted[Peer(e)][Len(@) + 1])]
  /\ UNCHANGED accepted

Next == \E e \in Ends : Take(e) \/ \E m \in Message : Send(e, m)

(* The order and integrity of the messages. *)
Spec == Init /\ [][Next]_<<accepted, taken>>

(* ... and none of them is held back for ever. *)
FairSpec == Spec /\ \A e \in Ends : WF_<<accepted, taken>>(Take(e))
================================================================================
