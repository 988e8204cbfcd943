------------------------ MODULE DeploymentLifecycle ------------------------
(***************************************************************************)
(* What the deployment workflow promises of its outside effects, whatever  *)
(* happens to the runs that produce them: a deployment gets one Node, the  *)
(* Node recorded for it is that one and never another, the address is      *)
(* published only for a recorded Node, and the deployment is complete only *)
(* with a recorded Node whose address is published.  Nothing is undone     *)
(* except the verdict "complete", which an operator's retry, recheck or    *)
(* cancellation may withdraw.                                              *)
(***************************************************************************)
CONSTANTS
  Deployments, NodeIds,
  NoId,         \* no Node recorded
  DNSDisabled   \* the panel has no DNS balancing

VARIABLES
  made,       \* made[d]: Nodes the panel has for deployment d
  recorded,   \* recorded[d]: the Node in the row of d, or NoId
  published,  \* deployments whose address is in the zone
  complete    \* deployments that are COMPLETED

vars == <<made, recorded, published, complete>>

Init ==
  /\ made = [d \in Deployments |-> {}]
  /\ recorded = [d \in Deployments |-> NoId]
  /\ published = {}
  /\ complete = {}

\* The panel creates the one Node of d.
Make(d) ==
  /\ made[d] = {}
  /\ \E n \in NodeIds : made' = [made EXCEPT ![d] = {n}]
  /\ UNCHANGED <<recorded, published, complete>>

\* The row of d gets its Node.
Record(d) ==
  /\ recorded[d] = NoId
  /\ \E n \in made[d] : recorded' = [recorded EXCEPT ![d] = n]
  /\ UNCHANGED <<made, published, complete>>

Publish(d) ==
  /\ recorded[d] # NoId
  /\ published' = published \cup {d}
  /\ UNCHANGED <<made, recorded, complete>>

Complete(d) ==
  /\ recorded[d] # NoId
  /\ DNSDisabled \/ d \in published
  /\ complete' = complete \cup {d}
  /\ UNCHANGED <<made, recorded, published>>

Reopen(d) ==
  /\ complete' = complete \ {d}
  /\ UNCHANGED <<made, recorded, published>>

Next ==
  \E d \in Deployments :
    Make(d) \/ Record(d) \/ Publish(d) \/ Complete(d) \/ Reopen(d)

Spec == Init /\ [][Next]_vars
=============================================================================
