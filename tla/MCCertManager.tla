--------------------------- MODULE MCCertManager ---------------------------
(* Instances of CertManager for TLC. *)
EXTENDS CertManager, TLC

CONSTANTS deployment, operator, renewal

\* Deployments prepare, an operator repairs, the loop of the manager renews.
Callers == deployment :> {"prepare"} @@ operator :> {"bootstrap", "rollback"}
             @@ renewal :> {"renew"}
=============================================================================
