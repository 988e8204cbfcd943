------------------------ MODULE MCDeploymentWorkflow ------------------------
(* Instances of DeploymentWorkflow for TLC. *)
EXTENDS DeploymentWorkflow, TLC

CONSTANTS w1, w2

\* Who issues which commands: everybody all or some of them; or a worker that
\* starts and retries, and another that interferes.
Anything == [w \in Workers |-> AllCommands]
Starting == [w \in Workers |-> {"prepare", "deploy"}]
Cancelling == [w \in Workers |-> {"prepare", "deploy", "cancel"}]
Rechecking == [w \in Workers |-> {"prepare", "deploy", "recheck"}]
Retrying == w1 :> {"prepare", "deploy", "retry_step"}
              @@ w2 :> {"deploy", "retry_dns", "recheck", "cancel"}

\* Every deployment has a name and an address of its own.
OwnInput == [d \in Deployments |-> [name |-> d, addr |-> d]]

\* Every deployment asks for the same name, for an address of its own.
ClashingInput == [d \in Deployments |-> [name |-> "node", addr |-> d]]

Symmetry == Permutations(Workers) \cup Permutations(NodeIds)

NodeSymmetry == Permutations(NodeIds)
=============================================================================
