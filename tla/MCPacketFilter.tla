--------------------------- MODULE MCPacketFilter ---------------------------
(* Two containers of one network.  They share a host port, that of the     *)
(* resolver, and a container port that each has under another host port.   *)
EXTENDS PacketFilter, TLC

CONSTANTS c1, c2, n1

TwoContainers == {c1, c2}
OneNetwork == {n1}
SharedNetwork == (c1 :> <<n1>>) @@ (c2 :> <<n1>>)
SharedPorts == (c1 :> <<[host |-> 53, cont |-> 80]>>)
               @@ (c2 :> <<[host |-> 53, cont |-> 81],
                         [host |-> 8082, cont |-> 80]>>)
RoomForThree == (n1 :> 3)
AllFaults == {"pf", "crash"}
=============================================================================
