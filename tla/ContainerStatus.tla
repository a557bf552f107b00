-------------------------- MODULE ContainerStatus --------------------------
(***************************************************************************)
(* What a container's row promises to a client of the API, whatever the    *)
(* server and its worker do to keep the promise: the run a start asks for  *)
(* is announced in the row before it begins, there is one run at a time,   *)
(* and the row says 'exited' only after the run is over.                   *)
(***************************************************************************)
CONSTANT Containers

VARIABLES row,    \* containers.status
          phase   \* of the run: "idle", "starting", "up" or "ended"

vars == <<row, phase>>

Init == /\ row = [c \in Containers |-> "created"]
        /\ phase = [c \in Containers |-> "idle"]

Moves(c, from, to) == phase[c] = from /\ phase' = [phase EXCEPT ![c] = to]

Accept(c)   == row[c] # "running" /\ Moves(c, "idle", "starting") /\ UNCHANGED row
Announce(c) == phase[c] = "starting" /\ row[c] # "running"
               /\ row' = [row EXCEPT ![c] = "running"] /\ UNCHANGED phase
Launch(c)   == row[c] = "running" /\ Moves(c, "starting", "up") /\ UNCHANGED row
Abandon(c)  == row[c] = "running" /\ Moves(c, "starting", "ended") /\ UNCHANGED row
End(c)      == Moves(c, "up", "ended") /\ UNCHANGED row
Record(c)   == Moves(c, "ended", "idle") /\ row' = [row EXCEPT ![c] = "exited"]

Next == \E c \in Containers :
  Accept(c) \/ Announce(c) \/ Launch(c) \/ Abandon(c) \/ End(c) \/ Record(c)

Spec == Init /\ [][Next]_vars

(* A run that was accepted is announced, then launched or abandoned; one    *)
(* that is over is recorded.                                                *)
FairSpec == Spec /\ \A c \in Containers :
              /\ WF_vars(Announce(c))
              /\ WF_vars(Launch(c) \/ Abandon(c))
              /\ WF_vars(Record(c))
=============================================================================
