--------------------------- MODULE MCJailResources ---------------------------
(* A container on two bridges and a network of another driver, before or    *)
(* after them, and one on the host's network that mounts two directories,   *)
(* one of them below /tmp, which every container mounts.                    *)
EXTENDS JailResources, TLC

CONSTANTS c1, c2, c3, n1, n2, n3, n4

ThreeContainers == {c1, c2, c3}
FourNetworks == {n1, n2, n3, n4}
Drivers == (n1 :> "bridge") @@ (n2 :> "bridge") @@ (n3 :> "host")
             @@ (n4 :> "overlay")
Attached == (c1 :> <<n1, n3>>) @@ (c2 :> <<n3, n1>>) @@ (c3 :> <<n4, n1, n2>>)
Mounts == (c1 :> <<>>) @@ (c2 :> <<"sub", "data">>) @@ (c3 :> <<>>)
Below == {<<"sub", "tmp">>}
AllFaults == {"jail", "epair", "bridge", "attach", "mount", "mkdir",
              "register", "notify", "fork", "address", "route", "deattach",
              "jexec", "remove", "dying", "destroy", "unmount", "kill"}

Pairs ==
  \A r, s \in Started :
    r < s /\ Cont(r) # Cont(s) => Cont(r) = c1 /\ Cont(s) = c2
=============================================================================
