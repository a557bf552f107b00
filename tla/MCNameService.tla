---------------------------- MODULE MCNameService ----------------------------
(* Two networks, the subnet of the second within the first, and a container *)
(* whose name lies below that of the host, so that both writers insert in   *)
(* the subtree a query collects.                                            *)
EXTENDS NameService, TLC

CONSTANTS c1, n1, n2

OneContainer == {c1}
TwoNetworks == {n1, n2}
Both == (c1 :> <<n1, n2>>)
Below == (c1 :> <<"host", "db">>)
Internal == <<"host">>
Subnets == (n1 :> <<1>>) @@ (n2 :> <<1, 0>>)
Host(type) == [addr |-> <<1, 0>>, name |-> <<"host">>, type |-> type]
TwoQuestions == <<{Host("A")}, {Host("other")}>>

(* Bound of the instance: the client starts each network once.             *)
StartedOnce == ins["client"].pc # "idle" => ins["client"].path \notin answered
AllFaults == {"post", "send", "parse"}
=============================================================================
