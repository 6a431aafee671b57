---------------------------- MODULE MCUdpConnection ----------------------------
(* Instances of UdpConnection for TLC. *)
EXTENDS UdpConnection

(* what each end sends: sizes of messages *)
ShortAndLong == (1 :> <<1, 2>>) @@ (2 :> <<2>>)
SharedChunk  == (1 :> <<1, 1>>) @@ (2 :> <<1, 2>>)
OneAndFour   == (1 :> <<1>>) @@ (2 :> <<1, 3>>)

(* datagrams under way to the client and to the server *)
One == [e \in Ends |-> 1]
Two == [e \in Ends |-> 2]
ReorderedAcks == (1 :> 3) @@ (2 :> 2)
================================================================================
