----------------------- MODULE DeploymentTruth_proofs -----------------------
(***************************************************************************)
(* What the tables say is true: a deployment that is COMPLETED has its     *)
(* Node and its address in the zone (CompletedSound), and a step recorded  *)
(* COMPLETED has had its effect (StepTruth).                               *)
(*                                                                         *)
(* Neither is inductive.  A run decides that a stage is over at one label  *)
(* and records it at a later one, a recheck reads the zone at one label    *)
(* and writes its verdict at another, and in between other workers, lost   *)
(* replies and failed writes come.  Claim says what a worker at a label    *)
(* relies on; TruthInv that every worker's claim holds.  Claims stay true  *)
(* because the facts they rest on only grow: a row that was inserted stays *)
(* inserted, a UUID that was recorded stays recorded, the zone and the set *)
(* of provisioned servers never shrink.                                    *)
(*                                                                         *)
(* From TruthInv follow the refinement of DeploymentLifecycle and, each    *)
(* with an invariant of its own and under hypotheses on the commands that  *)
(* overlap, that COMPLETED is final (FinalInv), that the panel has no Node *)
(* of a server that was not provisioned (ProvisionInv), and that no        *)
(* deployment is forgotten (RecordedInv, OrphanInv).                       *)
(***************************************************************************)
EXTENDS DeploymentNodes_proofs

\* What recording the step COMPLETED says of deployment d with row r.
Effect(step, d, r, prov, z) ==
  /\ step = "provisioning" => d \in prov
  /\ step = "create_remnawave_node" => r.uuid # NoId
  /\ step = "add_dns" => r.uuid # NoId /\ Input[d].addr \in z

\* What the status COMPLETED says of it.
Done(d, r, z) == r.uuid # NoId /\ (DNSDisabled \/ Input[d].addr \in z)

\* What a worker of d that is at label l with locals x relies on.
Claim(l, x, d, r, prov, z) ==
  /\ l = "insert" => r.status = "ABSENT"
  /\ l # "insert" => r.status # "ABSENT"
  /\ x.cur.uuid # NoId => r.uuid # NoId
  /\ l \in {"list", "post", "posted", "persist"} => x.stage = "create_remnawave_node"
  /\ l \in {"persist", "adopt"} => x.node # NoId
  /\ l \in {"failRecord", "failState", "retrySet", "verdict"} => x.out.status # "ABSENT"
  /\ l \in {"failRecord", "failState", "retrySet"} => x.out.status # "COMPLETED"
  /\ l = "publish" => x.stage = "add_dns"
  /\ \/ l \in {"publish", "skip", "probe", "lookup", "skipRecord"}
     \/ l = "work" /\ x.stage = "add_dns"
     => x.cur.uuid # NoId
  /\ l \in {"skip", "skipRecord"} => DNSDisabled
  /\ l = "complete" => x.stage \in Stages /\ Effect(x.stage, d, r, prov, z)
  /\ \/ l = "finish"
     \/ l = "verdict" /\ x.out.status = "COMPLETED"
     => Done(d, r, z)

Claims ==
  /\ \A w \in Workers : pc[w] # "idle" =>
       Claim(pc[w], loc[w], dep[w], row[dep[w]], provisioned, zone)
  /\ \A v, w \in Workers :
       pc[v] = "insert" /\ pc[w] = "insert" /\ dep[v] = dep[w] => v = w

\* Deployments that may be started or have to be recovered have a row.
Listed == \A d \in tickets \cup todo : row[d].status # "ABSENT"

RowsTrue ==
  \A d \in Deployments :
    /\ row[d].status = "COMPLETED" => Done(d, row[d], zone)
    /\ row[d].status = "ABSENT" => row[d] = NoRow

StepsTrue ==
  \A d \in Deployments, s \in StepNames :
    steps[d][s] = "COMPLETED" => Effect(s, d, row[d], provisioned, zone)

TruthInv == Claims /\ Listed /\ RowsTrue /\ StepsTrue

-----------------------------------------------------------------------------
(* What a step writes. *)

\* The writes of a worker to the row and the steps of its deployment.
Writes(w) ==
  \/ row' = row /\ steps' = steps
  \/ \E status \in Statuses, step \in StepNames :
       /\ SetRow(dep[w], status, step) /\ steps' = steps
       /\ status # "ABSENT"
       /\ status = "COMPLETED" => Done(dep[w], row[dep[w]], zone)
  \/ \E step \in StepNames, status \in StepStatuses :
       /\ RecordStep(dep[w], step, status)
       /\ status = "COMPLETED" => Effect(step, dep[w], row[dep[w]], provisioned, zone)
  \/ /\ row' = [row EXCEPT ![dep[w]].uuid = loc[w].node] /\ steps' = steps
     /\ loc[w].node \in NodeIds

\* Its effects outside the database.
Reaches(w) ==
  /\ provisioned \subseteq provisioned'
  /\ \/ zone' = zone
     \/ /\ zone' = zone \cup {Input[dep[w]].addr}
        /\ row[dep[w]].uuid # NoId
        /\ row' = row /\ steps' = steps

\* The facts claims rest on only grow.
Grows ==
  /\ \A d \in Deployments :
       /\ row[d].status # "ABSENT" => row'[d].status # "ABSENT"
       /\ row[d].status = "ABSENT" => row'[d] = row[d]
       /\ row[d].uuid # NoId => row'[d].uuid # NoId
  /\ provisioned \subseteq provisioned'
  /\ zone \subseteq zone'

\* A step that writes nothing and changes nothing outside is within both.
LEMMA QuietWrites ==
  ASSUME NEW w \in Workers, row' = row, steps' = steps, zone' = zone,
         provisioned' = provisioned
  PROVE  Writes(w) /\ Reaches(w)
  BY DEF Writes, Reaches

\* Such writes are sound, and what they say is true after them as before.
LEMMA WritesSound ==
  ASSUME TypeInv, RowsTrue, StepsTrue, NEW w \in Workers, dep[w] \in Deployments,
         row[dep[w]].status # "ABSENT", Writes(w), Reaches(w)
  PROVE  Grows /\ RowsTrue' /\ StepsTrue'
<1> DEFINE d == dep[w]
<1>0. /\ row \in [Deployments -> Rows] /\ d \in Deployments
      /\ steps \in [Deployments -> [StepNames -> StepStatuses]]
  BY DEF TypeInv, DbOK
<1>1. zone \subseteq zone' /\ provisioned \subseteq provisioned'
  BY DEF Reaches
<1>2. CASE row' = row /\ steps' = steps
  BY <1>1, <1>2 DEF Grows, RowsTrue, StepsTrue, Done, Effect
<1>3. ASSUME NEW status \in Statuses, NEW step \in StepNames,
             SetRow(d, status, step), steps' = steps, status # "ABSENT",
             status = "COMPLETED" => Done(d, row[d], zone)
      PROVE  Grows /\ RowsTrue' /\ StepsTrue'
  <2>1. /\ row'[d].status = status /\ row'[d].uuid = row[d].uuid
        /\ \A e \in Deployments : e # d => row'[e] = row[e]
    BY <1>0, <1>3 DEF SetRow, Rows
  <2>2. Grows
    BY <1>0, <1>1, <1>3, <2>1 DEF Grows
  <2>3. RowsTrue'
    BY <1>0, <1>1, <1>3, <2>1 DEF RowsTrue, Done
  <2>4. StepsTrue'
    BY <1>0, <1>1, <1>3, <2>1 DEF StepsTrue, Effect
  <2> QED BY <2>2, <2>3, <2>4
<1>4. ASSUME NEW step \in StepNames, NEW status \in StepStatuses,
             RecordStep(d, step, status),
             status = "COMPLETED" => Effect(step, d, row[d], provisioned, zone)
      PROVE  Grows /\ RowsTrue' /\ StepsTrue'
  <2>1. /\ row'[d].status = row[d].status /\ row'[d].uuid = row[d].uuid
        /\ \A e \in Deployments : e # d => row'[e] = row[e]
    BY <1>0, <1>4 DEF RecordStep, Rows
  <2>2. Grows
    BY <1>0, <1>1, <2>1 DEF Grows
  <2>3. RowsTrue'
    BY <1>0, <1>1, <2>1 DEF RowsTrue, Done
  <2>4. StepsTrue'
    <3> SUFFICES ASSUME NEW e \in Deployments, NEW s \in StepNames,
                        steps'[e][s] = "COMPLETED"
                 PROVE  Effect(s, e, row'[e], provisioned', zone')
      BY DEF StepsTrue
    <3>1. CASE e = d /\ s = step
      <4>1. steps'[d][step] = status
        BY <1>0, <1>4 DEF RecordStep
      <4> QED BY <1>1, <1>4, <2>1, <3>1, <4>1 DEF Effect
    <3>2. CASE ~(e = d /\ s = step)
      <4>1. steps'[e][s] = steps[e][s]
        BY <1>0, <1>4, <3>2 DEF RecordStep
      <4>2. Effect(s, e, row[e], provisioned, zone)
        BY <4>1 DEF StepsTrue
      <4> QED BY <1>0, <1>1, <2>1, <4>2 DEF Effect
    <3> QED BY <3>1, <3>2
  <2> QED BY <2>2, <2>3, <2>4
<1>5. CASE /\ row' = [row EXCEPT ![d].uuid = loc[w].node] /\ steps' = steps
           /\ loc[w].node \in NodeIds
  <2>1. /\ row'[d].status = row[d].status /\ row'[d].uuid # NoId
        /\ \A e \in Deployments : e # d => row'[e] = row[e]
    BY <1>0, <1>5, ConstantsAssumption DEF Rows
  <2>2. Grows
    BY <1>0, <1>1, <2>1 DEF Grows
  <2>3. RowsTrue'
    BY <1>0, <1>1, <2>1 DEF RowsTrue, Done
  <2>4. StepsTrue'
    BY <1>0, <1>1, <1>5, <2>1 DEF StepsTrue, Effect
  <2> QED BY <2>2, <2>3, <2>4
<1> QED BY <1>2, <1>3, <1>4, <1>5 DEF Writes

-----------------------------------------------------------------------------
(* What the workers claim. *)

\* A claim stays true while the facts grow.
LEMMA ClaimGrows ==
  ASSUME TypeInv, RowsTrue, Grows, NEW d \in Deployments, NEW l, NEW x,
         Claim(l, x, d, row[d], provisioned, zone)
  PROVE  Claim(l, x, d, row'[d], provisioned', zone')
  BY DEF Claim, Grows, Effect, Done

\* The other workers' claims stay true when w alone moves.
LEMMA OneMoves ==
  ASSUME TypeInv, RowsTrue, Claims, Grows, NEW w \in Workers,
         \A v \in Workers \ {w} : pc'[v] = pc[v] /\ dep'[v] = dep[v] /\ loc'[v] = loc[v],
         pc'[w] # "insert",
         pc'[w] # "idle" =>
           Claim(pc'[w], loc'[w], dep'[w], row'[dep'[w]], provisioned', zone')
  PROVE  Claims'
<1>1. ASSUME NEW v \in Workers, pc'[v] # "idle"
      PROVE  Claim(pc'[v], loc'[v], dep'[v], row'[dep'[v]], provisioned', zone')
  <2>1. CASE v = w
    BY <1>1, <2>1
  <2>2. CASE v # w
    <3>1. pc[v] # "idle" /\ dep[v] \in Deployments
      BY <1>1, <2>2 DEF TypeInv, ProcOK
    <3>2. Claim(pc[v], loc[v], dep[v], row'[dep[v]], provisioned', zone')
      BY <3>1, ClaimGrows DEF Claims
    <3> QED BY <2>2, <3>2
  <2> QED BY <2>1, <2>2
<1>2. ASSUME NEW u \in Workers, NEW v \in Workers,
             pc'[v] = "insert", pc'[u] = "insert", dep'[v] = dep'[u]
      PROVE  u = v
  BY <1>2 DEF Claims
<1> QED BY <1>1, <1>2 DEF Claims

\* A worker that goes on to l needs the claim of l; if its run was cancelled
\* it goes to the deferred release, which claims less.
LEMMA GoesClaims ==
  ASSUME TypeInv, RowsTrue, Claims, Grows, NEW w \in Workers, NEW l, NEW x,
         Goes(w, l, x), l \notin {"insert", "idle"},
         Claim(l, x, dep[w], row'[dep[w]], provisioned', zone')
  PROVE  Claims'
<1>1. /\ \A v \in Workers \ {w} : pc'[v] = pc[v] /\ dep'[v] = dep[v] /\ loc'[v] = loc[v]
      /\ pc'[w] \in {l, "releaseSlot"} /\ dep'[w] = dep[w] /\ loc'[w] = x
  BY DEF Goes, Goto, Set, Keep, TypeInv, ProcOK
<1>2. Claim("releaseSlot", x, dep[w], row'[dep[w]], provisioned', zone')
  BY DEF Claim
<1>3. Claim(pc'[w], loc'[w], dep'[w], row'[dep'[w]], provisioned', zone')
  BY <1>1, <1>2
<1> HIDE DEF Claim
<1> QED BY <1>1, <1>3, OneMoves

\* Returning to the deferred release claims nothing new.
LEMMA StopClaims ==
  ASSUME TypeInv, RowsTrue, Claims, Grows, NEW w \in Workers,
         pc[w] \notin {"insert", "idle"}, Stop(w)
  PROVE  Claims'
<1>1. /\ \A v \in Workers \ {w} : pc'[v] = pc[v] /\ dep'[v] = dep[v] /\ loc'[v] = loc[v]
      /\ pc'[w] = "releaseSlot" /\ dep'[w] = dep[w] /\ loc'[w] = loc[w]
      /\ dep[w] \in Deployments
  BY DEF Stop, TypeInv, ProcOK
<1>2. Claim(pc[w], loc[w], dep[w], row'[dep[w]], provisioned', zone')
  BY <1>1, ClaimGrows DEF Claims
<1>3. Claim("releaseSlot", loc[w], dep[w], row'[dep[w]], provisioned', zone')
  BY <1>2 DEF Claim
<1> QED BY <1>1, <1>3, OneMoves

\* Ending claims nothing.
LEMMA ResetClaims ==
  ASSUME TypeInv, RowsTrue, Claims, Grows, NEW w \in Workers, Reset(w)
  PROVE  Claims'
<1>1. /\ \A v \in Workers \ {w} : pc'[v] = pc[v] /\ dep'[v] = dep[v] /\ loc'[v] = loc[v]
      /\ pc'[w] = "idle"
  BY DEF Reset, TypeInv, ProcOK
<1> QED BY <1>1, OneMoves

-----------------------------------------------------------------------------
(* Every step writes soundly. *)

\* UpdateDeploymentState, RecordDeploymentStep and SetRemnawaveNodeUUID of a
\* run: committed, committed with the reply lost, or failed.
LEMMA SetRowWrites ==
  ASSUME NEW w \in Workers, NEW status \in Statuses, NEW step \in StepNames,
         SetRow(dep[w], status, step) \/ row' = row, steps' = steps,
         status # "ABSENT", status = "COMPLETED" => Done(dep[w], row[dep[w]], zone)
  PROVE  Writes(w)
  BY DEF Writes

\* RecordDeploymentStep likewise.
LEMMA RecordWrites ==
  ASSUME NEW w \in Workers, NEW step \in StepNames, NEW status \in StepStatuses,
         RecordStep(dep[w], step, status) \/ (row' = row /\ steps' = steps),
         status = "COMPLETED" => Effect(step, dep[w], row[dep[w]], provisioned, zone)
  PROVE  Writes(w)
  BY DEF Writes

\* The steps of a run write what they may.
LEMMA RunEffect ==
  ASSUME TypeInv, Claims, NEW w \in Workers, RunStep(w)
  PROVE  Writes(w) /\ Reaches(w)
<1>0. /\ pc[w] # "idle" => Claim(pc[w], loc[w], dep[w], row[dep[w]], provisioned, zone)
      /\ loc[w].out.status \in Statuses /\ loc[w].out.step \in StepNames
      /\ loc[w].stage \in StepNames /\ loc[w].node \in NodeIds \cup {NoId}
      /\ pc[w] \in Beginning => loc[w].stage \in Stages
  BY DEF Claims, TypeInv, ProcOK, Locals, Outs
<1>1. CASE UNCHANGED <<db, zone, provisioned>>
  BY <1>1, QuietWrites DEF db
<1>2. CASE BeginStage(w)
  <2>1. /\ SetRow(dep[w], StatusOf[loc[w].stage], loc[w].stage) \/ row' = row
        /\ steps' = steps /\ pc[w] \in Beginning /\ UNCHANGED ext
    BY <1>2 DEF BeginStage, Persists, db, Beginning
  <2>2. StatusOf[loc[w].stage] \in Statuses \ {"ABSENT", "COMPLETED"}
    BY <1>0, <2>1 DEF Stages, StatusOf, Statuses, Terminal
  <2> QED BY <1>0, <2>1, <2>2, SetRowWrites DEF Reaches, ext
<1>3. CASE RecordRunning(w)
  <2>1. /\ RecordStep(dep[w], loc[w].stage, "RUNNING") \/ (row' = row /\ steps' = steps)
        /\ UNCHANGED ext
    BY <1>3 DEF RecordRunning, Persists, db
  <2> QED BY <1>0, <2>1, RecordWrites DEF Reaches, ext, StepStatuses
<1>4. CASE Provision(w)
  BY <1>4 DEF Provision, Writes, Reaches, db
<1>5. CASE PersistNode(w)
  <2>1. loc[w].node \in NodeIds
    BY <1>0, <1>5 DEF PersistNode, Claim
  <2> QED BY <1>5, <2>1 DEF PersistNode, Persists, Writes, Reaches, db, ext
<1>6. CASE AddIP(w)
  <2>1. row[dep[w]].uuid # NoId
    BY <1>0, <1>6 DEF AddIP, Claim
  <2> QED BY <1>6, <2>1 DEF AddIP, Writes, Reaches, db
<1>7. CASE SkipDNS(w)
  <2>1. /\ RecordStep(dep[w], "add_dns", "SKIPPED") \/ (row' = row /\ steps' = steps)
        /\ UNCHANGED ext
    BY <1>7 DEF SkipDNS, Persists, db
  <2>2. "add_dns" \in StepNames /\ "SKIPPED" \in StepStatuses
    BY DEF StepNames, Stages, StepStatuses
  <2> QED BY <2>1, <2>2, RecordWrites DEF Reaches, ext
<1>8. CASE CompleteStage(w)
  <2>1. /\ RecordStep(dep[w], loc[w].stage, "COMPLETED") \/ (row' = row /\ steps' = steps)
        /\ UNCHANGED ext
    BY <1>8 DEF CompleteStage, Persists, db
  <2>2. Effect(loc[w].stage, dep[w], row[dep[w]], provisioned, zone)
    BY <1>0, <1>8 DEF CompleteStage, Claim
  <2> QED BY <1>0, <2>1, <2>2, RecordWrites DEF Reaches, ext, StepStatuses
<1>9. CASE Finish(w)
  <2>1. /\ SetRow(dep[w], "COMPLETED", "completed") \/ row' = row
        /\ steps' = steps /\ UNCHANGED ext
    BY <1>9 DEF Finish, Persists, db
  <2>2. Done(dep[w], row[dep[w]], zone)
    BY <1>0, <1>9 DEF Finish, Claim
  <2>3. "COMPLETED" \in Statuses /\ "completed" \in StepNames
    BY DEF Statuses, Terminal, StepNames
  <2> QED BY <2>1, <2>2, <2>3, SetRowWrites DEF Reaches, ext
<1>10. CASE FailRecord(w)
  <2>1. /\ RecordStep(dep[w], loc[w].out.step, "FAILED") \/ (row' = row /\ steps' = steps)
        /\ UNCHANGED ext
    BY <1>10 DEF FailRecord, db
  <2> QED BY <1>0, <2>1, RecordWrites DEF Reaches, ext, StepStatuses
<1>11. CASE FailState(w)
  <2>1. /\ SetRow(dep[w], loc[w].out.status, loc[w].out.step) \/ row' = row
        /\ steps' = steps /\ UNCHANGED ext
    BY <1>11 DEF FailState, Persists, db
  <2>2. loc[w].out.status \notin {"ABSENT", "COMPLETED"}
    BY <1>0, <1>11 DEF FailState, Claim
  <2> QED BY <1>0, <2>1, <2>2, SetRowWrites DEF Reaches, ext
<1>12. CASE \/ Acquire(w) \/ Load(w) \/ CheckHost(w) \/ Admit(w)
            \/ Preflight(w) \/ PrepareCertificate(w)
            \/ ListNodes(w) \/ PostNode(w) \/ NodeCreated(w)
            \/ PollNode(w) \/ CheckHealthy(w) \/ Reload(w)
            \/ Abort(w) \/ ReleaseSlot(w) \/ Unregister(w)
  <2>1. UNCHANGED <<db, zone, provisioned>>
    BY <1>12 DEF Acquire, Load, CheckHost, Admit, Preflight, PrepareCertificate,
         ListNodes, PostNode, NodeCreated, PollNode, CheckHealthy, Reload, Abort,
         ReleaseSlot, Unregister, ext
  <2> QED BY <1>1, <2>1
<1> QED BY <1>2, <1>3, <1>4, <1>5, <1>6, <1>7, <1>8, <1>9, <1>10, <1>11, <1>12
        DEF RunStep

\* So do the steps outside a run, the insertion of the row apart.
LEMMA DetachedEffect ==
  ASSUME TypeInv, Claims, NEW w \in Workers, DetachedStep(w), ~CreateDeployment(w)
  PROVE  Writes(w) /\ Reaches(w)
<1>0. /\ pc[w] # "idle" => Claim(pc[w], loc[w], dep[w], row[dep[w]], provisioned, zone)
      /\ loc[w].out.status \in Statuses /\ loc[w].out.step \in StepNames
      /\ loc[w].node \in NodeIds \cup {NoId}
  BY DEF Claims, TypeInv, ProcOK, Locals, Outs
<1>1. CASE RetrySet(w)
  <2>1. loc[w].out.status \notin {"ABSENT", "COMPLETED"}
    BY <1>0, <1>1 DEF RetrySet, Claim
  <2> QED BY <1>0, <1>1, <2>1, SetRowWrites DEF RetrySet, Reaches, ext
<1>2. CASE CancelSet(w)
  <2>1. "CANCELLED" \in Statuses /\ "cancelled" \in StepNames
    BY DEF Statuses, Terminal, StepNames
  <2> QED BY <1>2, <2>1, SetRowWrites DEF CancelSet, Reaches, ext
<1>3. CASE AdoptNode(w)
  <2>1. loc[w].node \in NodeIds
    BY <1>0, <1>3 DEF AdoptNode, Claim
  <2> QED BY <1>3, <2>1 DEF AdoptNode, Rechecks, Writes, Reaches, db, ext
<1>4. CASE SkipRecord(w)
  <2>1. /\ RecordStep(dep[w], "add_dns", "SKIPPED") \/ (row' = row /\ steps' = steps)
        /\ UNCHANGED ext
    BY <1>4 DEF SkipRecord, db
  <2>2. "add_dns" \in StepNames /\ "SKIPPED" \in StepStatuses
    BY DEF StepNames, Stages, StepStatuses
  <2> QED BY <2>1, <2>2, RecordWrites DEF Reaches, ext
<1>5. CASE WriteVerdict(w)
  <2>1. /\ loc[w].out.status # "ABSENT"
        /\ loc[w].out.status = "COMPLETED" => Done(dep[w], row[dep[w]], zone)
    BY <1>0, <1>5 DEF WriteVerdict, Claim
  <2>2. /\ SetRow(dep[w], loc[w].out.status, loc[w].out.step) \/ row' = row
        /\ steps' = steps /\ UNCHANGED ext
    BY <1>5 DEF WriteVerdict
  <2> QED BY <1>0, <2>1, <2>2, SetRowWrites DEF Reaches, ext
<1>6. CASE \/ BeginExecution(w) \/ CancelLoad(w) \/ Inspect(w) \/ Probe(w) \/ Lookup(w)
           \/ \E d \in Deployments : StartRecover(w, d)
  <2>1. UNCHANGED <<db, zone, provisioned>>
    BY <1>6 DEF BeginExecution, CancelLoad, Inspect, Probe, Lookup, StartRecover,
         Classify, ext
  <2> QED BY <2>1, QuietWrites DEF db
<1> QED BY <1>1, <1>2, <1>3, <1>4, <1>5, <1>6 DEF DetachedStep

-----------------------------------------------------------------------------
(* Every step keeps the claims. *)

\* Labels at which a worker relies on no more than its row and its UUID.
Plain == {"load", "host", "admit", "setState", "record", "advance", "advanceRecord",
          "reload", "releaseSlot", "slot", "unregister", "begin", "cancelSet", "inspect"}

\* What a worker knew before the step it knows after it.
LEMMA StillClaims ==
  ASSUME TypeInv, RowsTrue, Claims, Grows, NEW w \in Workers,
         pc[w] \notin {"idle", "insert"}
  PROVE  /\ dep[w] \in Deployments /\ loc[w] \in Locals
         /\ row'[dep[w]].status # "ABSENT"
         /\ loc[w].cur.uuid # NoId => row'[dep[w]].uuid # NoId
         /\ Claim(pc[w], loc[w], dep[w], row'[dep[w]], provisioned', zone')
<1>1. dep[w] \in Deployments /\ loc[w] \in Locals
  BY DEF TypeInv, ProcOK
<1>2. Claim(pc[w], loc[w], dep[w], row'[dep[w]], provisioned', zone')
  BY <1>1, ClaimGrows DEF Claims
<1> QED BY <1>1, <1>2 DEF Claim

\* Going on to a plain label.
LEMMA PlainClaims ==
  ASSUME TypeInv, RowsTrue, Claims, Grows, NEW w \in Workers,
         pc[w] \notin {"idle", "insert"}, NEW l \in Plain, NEW x,
         x.cur.uuid = loc[w].cur.uuid \/ x.cur.uuid = row[dep[w]].uuid,
         Goes(w, l, x)
  PROVE  Claims'
<1>1. row'[dep[w]].status # "ABSENT" /\ (x.cur.uuid # NoId => row'[dep[w]].uuid # NoId)
  BY StillClaims DEF Grows
<1>2. Claim(l, x, dep[w], row'[dep[w]], provisioned', zone')
  BY <1>1 DEF Claim, Plain
<1> QED BY <1>2, GoesClaims DEF Plain

\* Entering failStage: what it will write is neither ABSENT nor COMPLETED.
LEMMA FailsClaims ==
  ASSUME TypeInv, RowsTrue, Claims, Grows, NEW w \in Workers,
         pc[w] \notin {"idle", "insert"}, NEW status \in {"FAILED", "DNS_FAILED"},
         NEW step, Fails(w, status, step)
  PROVE  Claims'
<1> DEFINE x == [loc[w] EXCEPT !.out = [status |-> status, step |-> step]]
<1>1. x.cur = loc[w].cur /\ x.out.status = status
  BY StillClaims DEF Locals
<1>2. Goes(w, "failRecord", x)
  BY DEF Fails
<1> HIDE DEF x
<1>3. Claim("failRecord", x, dep[w], row'[dep[w]], provisioned', zone')
  BY <1>1, StillClaims DEF Claim
<1> QED BY <1>2, <1>3, GoesClaims

\* The first label inside a stage, begun with a row read before.
LEMMA BodyClaims ==
  ASSUME NEW d, NEW r, NEW prov, NEW z, NEW x, NEW stage \in Stages,
         x.stage = stage, r.status # "ABSENT", x.cur.uuid # NoId => r.uuid # NoId
  PROVE  Claim(StageBody(stage, x.cur), x, d, r, prov, z)
  BY DEF StageBody, Claim, Effect, Stages

\* Entering a stage with a row as read before or just now.
LEMMA EnterStageClaims ==
  ASSUME TypeInv, RowsTrue, Claims, Grows, NEW w \in Workers,
         pc[w] \notin {"idle", "insert"}, NEW current, NEW ahead,
         current \in {loc[w].cur, row[dep[w]]}, EnterStage(w, current, ahead)
  PROVE  Claims'
<1> DEFINE stage == NextStage(current, ahead)
           into  == [loc[w] EXCEPT !.stage = stage, !.cur = current]
           fail  == [into EXCEPT !.out = [status |-> "FAILED", step |-> stage]]
           l     == IF current.status = StatusOf[stage]
                      THEN StageBody(stage, current) ELSE "setState"
<1>1. /\ row'[dep[w]].status # "ABSENT"
      /\ current.uuid # NoId => row'[dep[w]].uuid # NoId
  BY StillClaims DEF Grows
<1>2. stage # "none" => stage \in Stages
  BY DEF NextStage, Stages
<1>3. /\ into.stage = stage /\ into.cur = current
      /\ fail.cur = current /\ fail.out.status = "FAILED"
  BY StillClaims DEF Locals
<1>4. \/ Stop(w) \/ Goes(w, "failRecord", fail)
      \/ stage # "none" /\ Goes(w, l, into)
  BY DEF EnterStage
<1> HIDE DEF into, fail, stage
<1>5. Claim("failRecord", fail, dep[w], row'[dep[w]], provisioned', zone')
  BY <1>1, <1>3 DEF Claim
<1>6. stage # "none" => /\ Claim(l, into, dep[w], row'[dep[w]], provisioned', zone')
                        /\ l \notin {"idle", "insert"}
  <2>1. Claim("setState", into, dep[w], row'[dep[w]], provisioned', zone')
    BY <1>1, <1>3 DEF Claim
  <2>2. stage # "none" =>
          Claim(StageBody(stage, current), into, dep[w], row'[dep[w]], provisioned', zone')
    BY <1>1, <1>2, <1>3, BodyClaims
  <2>3. StageBody(stage, current) \notin {"idle", "insert"}
    BY DEF StageBody
  <2> QED BY <2>1, <2>2, <2>3
<1> HIDE DEF l
<1> QED BY <1>4, <1>5, <1>6, GoesClaims, StopClaims

\* The steps of a run keep the claims.
LEMMA RunClaims ==
  ASSUME TypeInv, RowsTrue, Claims, Grows, NEW w \in Workers, RunStep(w)
  PROVE  Claims'
<1> DEFINE C(l, x) == Claim(l, x, dep[w], row'[dep[w]], provisioned', zone')
<1>0. pc[w] \notin {"idle", "insert"}
  BY DEF RunStep, Acquire, Load, CheckHost, Admit, BeginStage, RecordRunning, Preflight,
         PrepareCertificate, Provision, ListNodes, PostNode, NodeCreated, PersistNode,
         PollNode, CheckHealthy, AddIP, SkipDNS, CompleteStage, Reload, Finish,
         FailRecord, FailState, Abort, ReleaseSlot, Unregister, InFlight, Working
<1>a. /\ dep[w] \in Deployments /\ loc[w] \in Locals
      /\ row'[dep[w]].status # "ABSENT"
      /\ loc[w].cur.uuid # NoId => row'[dep[w]].uuid # NoId
      /\ C(pc[w], loc[w])
  BY <1>0, StillClaims
<1>b. /\ loc[w].stage \in StepNames
      /\ pc[w] \in Beginning => loc[w].stage \in Stages
  BY <1>a DEF TypeInv, ProcOK, Locals
<1>c. ASSUME NEW l \in Plain, Goes(w, l, loc[w]) PROVE Claims'
  BY <1>0, <1>c, PlainClaims
<1>d. ASSUME Stop(w) PROVE Claims'
  BY <1>0, <1>d, StopClaims
<1>e. ASSUME NEW status \in {"FAILED", "DNS_FAILED"}, NEW step, Fails(w, status, step)
      PROVE  Claims'
  BY <1>0, <1>e, FailsClaims
<1>f. ASSUME NEW l, NEW x, Goes(w, l, x), l \notin {"insert", "idle"}, C(l, x)
      PROVE  Claims'
  BY <1>f, GoesClaims
<1>1. CASE Acquire(w)
  <2> DEFINE x == [loc[w] EXCEPT !.stage = "preflight"]
  <2>1. x.cur = loc[w].cur
    BY <1>a DEF Locals
  <2>2. Goes(w, "setState", x) \/ Goes(w, "load", loc[w])
    BY <1>1 DEF Acquire, Admitted
  <2> HIDE DEF x
  <2> QED BY <1>0, <1>c, <2>1, <2>2, PlainClaims DEF Plain
<1>2. CASE Load(w)
  <2> DEFINE retry == [loc[w] EXCEPT !.stage = "add_dns",
                         !.cur = [row[dep[w]] EXCEPT !.status = "ADDING_TO_DNS"]]
             go    == [loc[w] EXCEPT !.cur = row[dep[w]]]
  <2>1. retry.cur.uuid = row[dep[w]].uuid /\ go.cur.uuid = row[dep[w]].uuid
    BY <1>a DEF Locals, TypeInv, DbOK, Rows
  <2>2. Goes(w, "host", go) \/ Goes(w, "setState", retry) \/ Stop(w)
    BY <1>2 DEF Load
  <2> HIDE DEF retry, go
  <2> QED BY <1>0, <1>d, <2>1, <2>2, PlainClaims DEF Plain
<1>3. CASE CheckHost(w)
  BY <1>3, <1>c, <1>e DEF CheckHost, Plain
<1>4. CASE Admit(w)
  <2> DEFINE x == [loc[w] EXCEPT !.stage = "prepare_certificate"]
  <2>1. x.cur = loc[w].cur /\ x.stage = "prepare_certificate"
    BY <1>a DEF Locals
  <2>2. \/ \E l \in {"work", "setState"} : Goes(w, l, x)
        \/ Fails(w, "FAILED", loc[w].cur.step)
        \/ EnterStage(w, loc[w].cur, AllAhead)
    BY <1>4 DEF Admit
  <2> HIDE DEF x
  <2>3. C("work", x) /\ C("setState", x)
    BY <1>a, <2>1 DEF Claim
  <2> HIDE DEF C
  <2> QED BY <1>0, <1>e, <1>f, <2>2, <2>3, EnterStageClaims
<1>5. CASE BeginStage(w)
  BY <1>5, <1>c, <1>d DEF BeginStage, Persists, Plain
<1>6. CASE RecordRunning(w)
  <2> DEFINE l == IF pc[w] = "record" THEN StageBody(loc[w].stage, loc[w].cur) ELSE "reload"
  <2>1. loc[w].stage \in Stages /\ pc[w] \in Beginning
    BY <1>6, <1>b DEF RecordRunning, Beginning
  <2>2. C(StageBody(loc[w].stage, loc[w].cur), loc[w])
    BY <1>a, <2>1, BodyClaims
  <2>3. C("reload", loc[w])
    BY <1>a DEF Claim
  <2>4. l \notin {"insert", "idle"}
    BY DEF StageBody
  <2>5. Goes(w, l, loc[w]) \/ Stop(w)
    BY <1>6 DEF RecordRunning, Persists
  <2>6. C(l, loc[w])
    BY <2>2, <2>3
  <2> HIDE DEF l, C
  <2> QED BY <1>d, <1>f, <2>4, <2>5, <2>6
<1>7. CASE Preflight(w) \/ PollNode(w)
  <2>1. C("complete", loc[w])
    BY <1>7, <1>a DEF Preflight, PollNode, Claim, Effect, Stages
  <2>2. Goes(w, "complete", loc[w]) \/ \E step : Fails(w, "FAILED", step)
    BY <1>7 DEF Preflight, PollNode
  <2> HIDE DEF C
  <2> QED BY <1>e, <1>f, <2>1, <2>2
<1>8. CASE PrepareCertificate(w)
  <2> DEFINE x == [loc[w] EXCEPT !.stage = "provisioning"]
  <2>1. x.cur = loc[w].cur
    BY <1>a DEF Locals
  <2>2. C("complete", loc[w])
    BY <1>8, <1>a DEF PrepareCertificate, Claim, Effect, Stages
  <2>3. \/ Goes(w, "complete", loc[w]) \/ Goes(w, "setState", x)
        \/ Fails(w, "FAILED", "prepare_certificate")
    BY <1>8 DEF PrepareCertificate
  <2> HIDE DEF C, x
  <2> QED BY <1>0, <1>e, <1>f, <2>1, <2>2, <2>3, PlainClaims DEF Plain
<1>9. CASE Provision(w)
  <2>1. CASE Goes(w, "complete", loc[w]) /\ provisioned' = provisioned \cup {dep[w]}
    <3>1. C("complete", loc[w])
      BY <1>9, <1>a, <2>1 DEF Provision, Claim, Effect, Stages
    <3> HIDE DEF C
    <3> QED BY <1>f, <2>1, <3>1
  <2> QED BY <1>9, <1>e, <2>1 DEF Provision
<1>10. CASE ListNodes(w)
  <2>1. ASSUME NEW n \in Exact(dep[w]), Goes(w, "persist", [loc[w] EXCEPT !.node = n])
        PROVE  Claims'
    <3> DEFINE x == [loc[w] EXCEPT !.node = n]
    <3>1. x.node = n /\ x.cur = loc[w].cur /\ x.stage = loc[w].stage /\ n # NoId
      BY <1>a, ConstantsAssumption DEF Locals, Exact, Existing
    <3> HIDE DEF x
    <3>2. C("persist", x)
      BY <1>10, <1>a, <3>1 DEF ListNodes, Claim
    <3> HIDE DEF C
    <3> QED BY <1>f, <2>1, <3>2 DEF x
  <2>2. CASE Goes(w, "post", loc[w])
    <3>1. C("post", loc[w])
      BY <1>10, <1>a DEF ListNodes, Claim
    <3> HIDE DEF C
    <3> QED BY <1>f, <2>2, <3>1
  <2>3. CASE Fails(w, "FAILED", "create_remnawave_node")
    BY <1>e, <2>3
  <2> QED BY <1>10, <2>1, <2>2, <2>3 DEF ListNodes
<1>11. CASE PostNode(w)
  <2>1. C("posted", loc[w])
    BY <1>11, <1>a DEF PostNode, Claim
  <2>2. Goes(w, "posted", loc[w]) \/ Fails(w, "FAILED", "create_remnawave_node")
    BY <1>11 DEF PostNode
  <2> HIDE DEF C
  <2> QED BY <1>e, <1>f, <2>1, <2>2
<1>12. CASE NodeCreated(w)
  <2> DEFINE x == [loc[w] EXCEPT !.node = NoId,
               !.out = [status |-> "FAILED", step |-> "create_remnawave_node"]]
  <2>1. x.cur = loc[w].cur /\ x.out.status = "FAILED"
    BY <1>a DEF Locals
  <2>2. \/ loc[w].node # NoId /\ Goes(w, "persist", loc[w])
        \/ Goes(w, "failRecord", x)
    BY <1>12 DEF NodeCreated
  <2> HIDE DEF x
  <2>3. C("failRecord", x)
    BY <1>a, <2>1 DEF Claim
  <2>4. loc[w].node # NoId => C("persist", loc[w])
    BY <1>12, <1>a DEF NodeCreated, Claim
  <2> HIDE DEF C
  <2> QED BY <1>f, <2>2, <2>3, <2>4
<1>13. CASE PersistNode(w)
  <2> DEFINE x == [loc[w] EXCEPT !.cur.uuid = loc[w].node, !.node = NoId]
  <2>1. x.stage = "create_remnawave_node"
    BY <1>13, <1>a DEF PersistNode, Locals, Claim
  <2>2. \/ /\ Goes(w, "complete", x)
           /\ row' = [row EXCEPT ![dep[w]].uuid = loc[w].node]
        \/ Stop(w)
    BY <1>13 DEF PersistNode, Persists
  <2> HIDE DEF x
  <2>3. CASE /\ Goes(w, "complete", x)
             /\ row' = [row EXCEPT ![dep[w]].uuid = loc[w].node]
    <3>1. row'[dep[w]].uuid = loc[w].node /\ loc[w].node # NoId
      BY <1>13, <1>a, <2>3 DEF PersistNode, TypeInv, DbOK, Rows, Claim
    <3>2. C("complete", x)
      BY <1>a, <2>1, <3>1 DEF Claim, Effect, Stages
    <3> HIDE DEF C
    <3> QED BY <1>f, <2>3, <3>2
  <2> QED BY <1>d, <2>2, <2>3
<1>14. CASE CheckHealthy(w)
  <2>1. C("publish", loc[w])
    BY <1>14, <1>a DEF CheckHealthy, Claim
  <2>2. Goes(w, "publish", loc[w]) \/ Fails(w, "FAILED", "add_dns")
    BY <1>14 DEF CheckHealthy
  <2> HIDE DEF C
  <2> QED BY <1>e, <1>f, <2>1, <2>2
<1>15. CASE AddIP(w)
  <2>1. CASE Goes(w, "complete", loc[w]) /\ zone' = zone \cup {Input[dep[w]].addr}
    <3>1. C("complete", loc[w])
      BY <1>15, <1>a, <2>1 DEF AddIP, Claim, Effect, Stages
    <3> HIDE DEF C
    <3> QED BY <1>f, <2>1, <3>1
  <2> QED BY <1>15, <1>e, <2>1 DEF AddIP
<1>16. CASE SkipDNS(w)
  <2>1. C("finish", loc[w])
    BY <1>16, <1>a DEF SkipDNS, Claim, Done
  <2>2. Goes(w, "finish", loc[w]) \/ Stop(w)
    BY <1>16 DEF SkipDNS, Persists
  <2> HIDE DEF C
  <2> QED BY <1>d, <1>f, <2>1, <2>2
<1>17. CASE CompleteStage(w)
  <2> DEFINE next == Following(loc[w].stage)
             x    == [loc[w] EXCEPT !.stage = next[2]]
  <2>1. /\ next[1] \in {"reload", "setState", "advance", "finish"}
        /\ next[1] = "finish" => loc[w].stage = "add_dns"
    BY <1>17, <1>a DEF CompleteStage, Claim, Following, Stages
  <2> HIDE DEF next
  <2>2. x.cur = loc[w].cur
    BY <1>a DEF Locals
  <2>3. Goes(w, next[1], x) \/ Stop(w)
    BY <1>17 DEF CompleteStage, Persists, next
  <2> HIDE DEF x
  <2>4. C(next[1], x)
    BY <1>17, <1>a, <2>1, <2>2 DEF CompleteStage, Claim, Effect, Done
  <2> HIDE DEF C
  <2> QED BY <1>d, <1>f, <2>1, <2>3, <2>4
<1>18. CASE Reload(w)
  <2> DEFINE x == [loc[w] EXCEPT !.op = IF ctx[w] THEN @ ELSE "prepared"]
  <2>1. x.cur = loc[w].cur
    BY <1>a DEF Locals
  <2>2. \/ Goes(w, "releaseSlot", x) \/ Stop(w)
        \/ \E ahead : EnterStage(w, row[dep[w]], ahead)
    BY <1>18 DEF Reload
  <2> HIDE DEF x
  <2> QED BY <1>0, <1>d, <2>1, <2>2, PlainClaims, EnterStageClaims DEF Plain
<1>19. CASE Finish(w) \/ FailState(w)
  BY <1>19, <1>c, <1>d DEF Finish, FailState, Persists, Plain
<1>20. CASE FailRecord(w)
  <2>1. C("failState", loc[w])
    BY <1>20, <1>a DEF FailRecord, Claim
  <2>2. Goes(w, "failState", loc[w])
    BY <1>20 DEF FailRecord
  <2> HIDE DEF C
  <2> QED BY <1>f, <2>1, <2>2
<1>21. CASE Abort(w) \/ ReleaseSlot(w)
  <2>1. /\ \A v \in Workers \ {w} : pc'[v] = pc[v] /\ dep'[v] = dep[v] /\ loc'[v] = loc[v]
        /\ pc'[w] \in {"releaseSlot", "unregister"}
        /\ dep'[w] = dep[w] /\ loc'[w] = loc[w]
    BY <1>21 DEF Abort, ReleaseSlot, TypeInv, ProcOK
  <2>2. C("releaseSlot", loc[w]) /\ C("unregister", loc[w])
    BY <1>a DEF Claim
  <2>3. Claim(pc'[w], loc'[w], dep'[w], row'[dep'[w]], provisioned', zone')
    BY <2>1, <2>2
  <2> HIDE DEF C
  <2> QED BY <2>1, <2>3, OneMoves
<1>22. CASE Unregister(w)
  BY <1>22, ResetClaims DEF Unregister
<1> QED BY <1>1, <1>2, <1>3, <1>4, <1>5, <1>6, <1>7, <1>8, <1>9, <1>10, <1>11, <1>12,
           <1>13, <1>14, <1>15, <1>16, <1>17, <1>18, <1>19, <1>20, <1>21, <1>22
        DEF RunStep

\* Choosing a verdict; COMPLETED only for a deployment that is done.
LEMMA VerdictClaims ==
  ASSUME TypeInv, RowsTrue, Claims, Grows, NEW w \in Workers,
         pc[w] \notin {"idle", "insert"}, NEW status, NEW step, Verdict(w, status, step),
         status # "ABSENT", status = "COMPLETED" => Done(dep[w], row'[dep[w]], zone')
  PROVE  Claims'
<1> DEFINE x == [loc[w] EXCEPT !.out = [status |-> status, step |-> step]]
<1>1. x.cur = loc[w].cur /\ x.out.status = status
  BY StillClaims DEF Locals
<1>2. Goes(w, "verdict", x)
  BY DEF Verdict
<1> HIDE DEF x
<1>3. Claim("verdict", x, dep[w], row'[dep[w]], provisioned', zone')
  BY <1>1, StillClaims DEF Claim
<1> QED BY <1>2, <1>3, GoesClaims

\* The steps outside a run keep the claims, the insertion of the row and the
\* start of a recovery apart.
LEMMA DetachedClaims ==
  ASSUME TypeInv, RowsTrue, Claims, Grows, NEW w \in Workers,
         \/ BeginExecution(w) \/ RetrySet(w) \/ CancelLoad(w) \/ CancelSet(w)
         \/ Inspect(w) \/ AdoptNode(w) \/ Probe(w) \/ SkipRecord(w) \/ Lookup(w)
         \/ WriteVerdict(w)
  PROVE  Claims'
<1> DEFINE C(l, x) == Claim(l, x, dep[w], row'[dep[w]], provisioned', zone')
<1>0. pc[w] \notin {"idle", "insert"}
  BY DEF BeginExecution, RetrySet, CancelLoad, CancelSet, Inspect, AdoptNode, Probe,
         SkipRecord, Lookup, WriteVerdict
<1>a. /\ dep[w] \in Deployments /\ loc[w] \in Locals
      /\ row'[dep[w]].status # "ABSENT"
      /\ loc[w].cur.uuid # NoId => row'[dep[w]].uuid # NoId
      /\ C(pc[w], loc[w])
  BY <1>0, StillClaims
<1>c. ASSUME NEW l \in Plain, Goes(w, l, loc[w]) PROVE Claims'
  BY <1>0, <1>c, PlainClaims
<1>d. ASSUME Reset(w) PROVE Claims'
  BY <1>d, ResetClaims
<1>e. ASSUME NEW status \in {"MANUAL_REVIEW", "WAITING_REMNAWAVE", "DNS_FAILED"},
             NEW step, Verdict(w, status, step)
      PROVE  Claims'
  BY <1>0, <1>e, VerdictClaims
<1>f. ASSUME NEW l, NEW x, Goes(w, l, x), l \notin {"insert", "idle"}, C(l, x)
      PROVE  Claims'
  BY <1>f, GoesClaims
<1>1. CASE BeginExecution(w)
  <2> DEFINE x == [loc[w] EXCEPT !.out = NoOut, !.cur = NoRow]
  <2>1. x.cur.uuid = NoId
    BY <1>a DEF Locals, NoRow
  <2>2. \/ Reset(w)
        \/ pc' = [pc EXCEPT ![w] = "slot"] /\ loc' = [loc EXCEPT ![w] = x] /\ dep' = dep
    BY <1>1 DEF BeginExecution, Set, Keep
  <2> HIDE DEF x
  <2>3. CASE pc' = [pc EXCEPT ![w] = "slot"] /\ loc' = [loc EXCEPT ![w] = x] /\ dep' = dep
    <3>1. C("slot", x)
      BY <1>a, <2>1 DEF Claim
    <3>2. /\ \A v \in Workers \ {w} : pc'[v] = pc[v] /\ dep'[v] = dep[v] /\ loc'[v] = loc[v]
          /\ pc'[w] = "slot" /\ dep'[w] = dep[w] /\ loc'[w] = x
      BY <2>3 DEF TypeInv, ProcOK
    <3> HIDE DEF Claim
    <3> QED BY <3>1, <3>2, OneMoves
  <2> QED BY <1>d, <2>2, <2>3
<1>2. CASE RetrySet(w) \/ CancelLoad(w) \/ CancelSet(w) \/ WriteVerdict(w)
  BY <1>2, <1>c, <1>d DEF RetrySet, CancelLoad, CancelSet, WriteVerdict, EndRecheck, Plain
<1>3. CASE Inspect(w)
  <2>1. ASSUME NEW n \in Exact(dep[w]), Goes(w, "adopt", [loc[w] EXCEPT !.node = n])
        PROVE  Claims'
    <3> DEFINE x == [loc[w] EXCEPT !.node = n]
    <3>1. x.node = n /\ x.cur = loc[w].cur /\ n # NoId
      BY <1>a, ConstantsAssumption DEF Locals, Exact, Existing
    <3> HIDE DEF x
    <3>2. C("adopt", x)
      BY <1>a, <3>1 DEF Claim
    <3> HIDE DEF C
    <3> QED BY <1>f, <2>1, <3>2 DEF x
  <2>2. CASE Verdict(w, "MANUAL_REVIEW", loc[w].cur.step)
    BY <1>e, <2>2
  <2> QED BY <1>3, <2>1, <2>2 DEF Inspect
<1>4. CASE AdoptNode(w)
  <2> DEFINE cur == [row[dep[w]] EXCEPT !.uuid = loc[w].node]
             x   == [loc[w] EXCEPT !.cur = cur, !.node = NoId]
  <2>1. cur.uuid = loc[w].node /\ loc[w].node # NoId
    BY <1>4, <1>a DEF AdoptNode, Claim, TypeInv, DbOK, Rows
  <2>2. x.cur = cur
    BY <1>a DEF Locals
  <2>3. \/ /\ Goes(w, "probe", x)
           /\ row' = [row EXCEPT ![dep[w]].uuid = loc[w].node]
        \/ Reset(w)
    BY <1>4 DEF AdoptNode, Rechecks, EndRecheck
  <2> HIDE DEF x, cur
  <2>4. CASE /\ Goes(w, "probe", x)
             /\ row' = [row EXCEPT ![dep[w]].uuid = loc[w].node]
    <3>1. row'[dep[w]].uuid = loc[w].node
      BY <1>a, <2>4 DEF TypeInv, DbOK, Rows
    <3>2. C("probe", x)
      BY <1>a, <2>1, <2>2, <3>1 DEF Claim
    <3> HIDE DEF C
    <3> QED BY <1>f, <2>4, <3>2
  <2> QED BY <1>d, <2>3, <2>4
<1>5. CASE Probe(w)
  <2>1. /\ DNSDisabled => C("skipRecord", loc[w])
        /\ C("lookup", loc[w])
    BY <1>5, <1>a DEF Probe, Claim
  <2>2. \/ DNSDisabled /\ Goes(w, "skipRecord", loc[w])
        \/ Goes(w, "lookup", loc[w])
        \/ \E status \in {"MANUAL_REVIEW", "WAITING_REMNAWAVE"} :
             \E step : Verdict(w, status, step)
    BY <1>5 DEF Probe
  <2> HIDE DEF C
  <2> QED BY <1>e, <1>f, <2>1, <2>2
<1>6. CASE SkipRecord(w)
  <2>1. Verdict(w, "COMPLETED", "completed")
    BY <1>6 DEF SkipRecord
  <2>2. Done(dep[w], row'[dep[w]], zone')
    BY <1>6, <1>a DEF SkipRecord, Claim, Done
  <2> QED BY <1>0, <2>1, <2>2, VerdictClaims
<1>7. CASE Lookup(w)
  <2>1. CASE Input[dep[w]].addr \in zone /\ Verdict(w, "COMPLETED", "completed")
    <3>1. Done(dep[w], row'[dep[w]], zone')
      BY <1>7, <1>a, <2>1 DEF Lookup, Claim, Done, Grows
    <3> QED BY <1>0, <2>1, <3>1, VerdictClaims
  <2> QED BY <1>7, <1>e, <2>1 DEF Lookup
<1> QED BY <1>1, <1>2, <1>3, <1>4, <1>5, <1>6, <1>7

\* A command starts with what it read of the row.
LEMMA CommandClaims ==
  ASSUME TypeInv, RowsTrue, Claims, Listed, NEW w \in Workers, NEW d \in Deployments,
         \/ StartPrepare(w, d) \/ StartDeploy(w, d) \/ StartRetryDNS(w, d)
         \/ StartRetryStep(w, d) \/ StartCancel(w, d) \/ StartRecheck(w, d)
         \/ StartRecover(w, d)
  PROVE  Claims'
<1>0. /\ UNCHANGED <<db, ext>>
      /\ dep' = [dep EXCEPT ![w] = d]
      /\ \E l : pc' = [pc EXCEPT ![w] = l]
      /\ \E x : loc' = [loc EXCEPT ![w] = x]
  BY DEF StartPrepare, StartDeploy, StartRetryDNS, StartRetryStep, StartCancel,
         StartRecheck, StartRecover, Start, Classify, Set
<1>1. /\ \A v \in Workers \ {w} : pc'[v] = pc[v] /\ dep'[v] = dep[v] /\ loc'[v] = loc[v]
      /\ dep'[w] = d /\ row' = row /\ zone' = zone /\ provisioned' = provisioned
  BY <1>0 DEF TypeInv, ProcOK, db, ext
<1>2. Grows
  BY <1>1 DEF Grows
<1>3. ASSUME pc'[w] # "insert", Claim(pc'[w], loc'[w], d, row[d], provisioned, zone)
      PROVE  Claims'
  BY <1>1, <1>2, <1>3, OneMoves
<1>4. CASE StartPrepare(w, d)
  <2>1. pc'[w] = "insert" /\ loc'[w].cur.uuid = NoId
    BY <1>4 DEF StartPrepare, Start, Set, Blank, NoRow, TypeInv, ProcOK
  <2>2. Claim("insert", loc'[w], d, row[d], provisioned, zone)
    BY <1>4, <2>1 DEF StartPrepare, Claim, NoRow
  <2>3. \A v \in Workers : dep[v] # d
    BY <1>4 DEF StartPrepare
  <2> QED BY <1>1, <2>1, <2>2, <2>3 DEF Claims
<1>5. CASE StartDeploy(w, d) \/ StartRetryDNS(w, d) \/ StartCancel(w, d)
  <2>1. row[d].status # "ABSENT"
    BY <1>5 DEF StartDeploy, StartRetryDNS, StartCancel, Listed, RowsTrue
  <2>2. pc'[w] \in {"begin", "cancelLoad"} /\ loc'[w].cur.uuid = NoId
    BY <1>5 DEF StartDeploy, StartRetryDNS, StartCancel, Start, Set, Blank, NoRow,
         TypeInv, ProcOK
  <2>3. Claim(pc'[w], loc'[w], d, row[d], provisioned, zone)
    BY <2>1, <2>2 DEF Claim
  <2> QED BY <1>3, <2>2, <2>3
<1>6. CASE StartRetryStep(w, d)
  <2> DEFINE x == [Blank EXCEPT
               !.op = IF row[d].step = "add_dns" THEN "retry_dns" ELSE "deploy",
               !.out = [status |-> ResumeOf[row[d].step], step |-> row[d].step]]
  <2>1. x.cur.uuid = NoId /\ x.out.status = ResumeOf[row[d].step]
    BY DEF Blank, NoRow
  <2>2. loc'[w] = x /\ pc'[w] = "retrySet"
    BY <1>6 DEF StartRetryStep, Start, Set, TypeInv, ProcOK
  <2> HIDE DEF x
  <2>3. ResumeOf[row[d].step] \notin {"ABSENT", "COMPLETED"} /\ row[d].status # "ABSENT"
    BY <1>6 DEF StartRetryStep, ResumeOf
  <2>4. Claim(pc'[w], loc'[w], d, row[d], provisioned, zone)
    BY <2>1, <2>2, <2>3 DEF Claim
  <2> QED BY <1>3, <2>2, <2>4
<1>7. CASE StartRecheck(w, d) \/ StartRecover(w, d)
  <2> DEFINE into(op)    == [Blank EXCEPT !.op = op, !.cur = row[d]]
             verdict(op) == [into(op) EXCEPT !.out =
                               [status |-> "MANUAL_REVIEW", step |-> row[d].step]]
  <2>1. row[d].status # "ABSENT"
    BY <1>7 DEF StartRecheck, StartRecover, Listed
  <2>2. PICK op : Classify(w, d, op)
    BY <1>7 DEF StartRecheck, StartRecover
  <2>3. /\ into(op).cur = row[d] /\ verdict(op).cur = row[d]
        /\ verdict(op).out.status = "MANUAL_REVIEW"
    BY DEF Blank
  <2>4. \/ pc'[w] = "verdict" /\ loc'[w] = verdict(op)
        \/ pc'[w] = "inspect" /\ loc'[w] = into(op)
        \/ pc'[w] = "probe" /\ loc'[w] = into(op) /\ row[d].uuid # NoId
    BY <2>2 DEF Classify, Set, TypeInv, ProcOK
  <2> HIDE DEF into, verdict
  <2>5. Claim(pc'[w], loc'[w], d, row[d], provisioned, zone)
    BY <2>1, <2>3, <2>4 DEF Claim
  <2> QED BY <1>3, <2>4, <2>5
<1> QED BY <1>4, <1>5, <1>6, <1>7

-----------------------------------------------------------------------------
(* TruthInv is inductive. *)

\* CreateDeployment inserts a row nobody else has a claim on.
LEMMA InsertTruth ==
  ASSUME TypeInv, TruthInv, NEW w \in Workers, CreateDeployment(w)
  PROVE  TruthInv'
<1> DEFINE d   == dep[w]
           new == [status |-> "CREATED", step |-> "created", uuid |-> NoId]
<1>1. /\ d \in Deployments /\ row[d].status = "ABSENT" /\ row[d] = NoRow
      /\ pc[w] = "insert" /\ loc[w].cur.uuid = NoId
  BY DEF CreateDeployment, TypeInv, ProcOK, TruthInv, Claims, Claim, RowsTrue, NoRow
<1>2. /\ row'[d] \in {new, row[d]}
      /\ \A e \in Deployments : e # d => row'[e] = row[e]
      /\ steps' = steps /\ zone' = zone /\ provisioned' = provisioned
      /\ tickets' = tickets /\ todo' = todo
  BY <1>1 DEF CreateDeployment, InsertRow, ext, ctl, TypeInv, DbOK
<1>3. /\ \A v \in Workers \ {w} : pc'[v] = pc[v] /\ dep'[v] = dep[v] /\ loc'[v] = loc[v]
      /\ pc'[w] \in {"begin", "idle"}
      /\ pc'[w] = "begin" => row'[d] = new /\ dep'[w] = d /\ loc'[w] = loc[w]
  BY <1>1 DEF CreateDeployment, InsertRow, Reset, TypeInv, ProcOK, DbOK
<1>4. Claims'
  <2>1. ASSUME NEW v \in Workers, pc'[v] # "idle"
        PROVE  Claim(pc'[v], loc'[v], dep'[v], row'[dep'[v]], provisioned', zone')
    <3>1. CASE v = w
      <4>1. Claim("begin", loc[w], d, new, provisioned', zone')
        BY <1>1 DEF Claim
      <4> QED BY <1>3, <2>1, <3>1, <4>1
    <3>2. CASE v # w
      <4>1. /\ Claim(pc[v], loc[v], dep[v], row[dep[v]], provisioned, zone)
            /\ dep[v] \in Deployments
        BY <1>3, <2>1, <3>2 DEF TruthInv, Claims, TypeInv, ProcOK
      <4>2. dep[v] # d
        BY <1>1, <3>2, <4>1 DEF Claim, TruthInv, Claims
      <4> QED BY <1>2, <1>3, <3>2, <4>1, <4>2
    <3> QED BY <3>1, <3>2
  <2>2. ASSUME NEW u \in Workers, NEW v \in Workers,
               pc'[v] = "insert", pc'[u] = "insert", dep'[v] = dep'[u]
        PROVE  u = v
    BY <1>3, <2>2 DEF TruthInv, Claims
  <2> QED BY <2>1, <2>2 DEF Claims
<1>5. Listed'
  BY <1>1, <1>2 DEF TruthInv, Listed, TypeInv, CtlOK
<1>6. RowsTrue'
  BY <1>1, <1>2 DEF TruthInv, RowsTrue, Done
<1>7. StepsTrue'
  <2> SUFFICES ASSUME NEW e \in Deployments, NEW s \in StepNames, steps[e][s] = "COMPLETED"
               PROVE  Effect(s, e, row'[e], provisioned, zone)
    BY <1>2 DEF StepsTrue
  <2>1. Effect(s, e, row[e], provisioned, zone)
    BY DEF TruthInv, StepsTrue
  <2> QED BY <1>1, <1>2, <2>1 DEF Effect, NoRow
<1> QED BY <1>4, <1>5, <1>6, <1>7 DEF TruthInv

\* The lists of deployments to start or to recover gain only known ones.
LEMMA ListsGain ==
  ASSUME TypeInv, NEW w \in Workers, RunStep(w) \/ DetachedStep(w)
  PROVE  /\ tickets' \subseteq tickets \/ tickets' = tickets \cup {dep[w]}
         /\ todo' \subseteq todo \/ todo' = Unfinished(row')
<1>1. CASE RunStep(w)
  <2>1. CASE Unregister(w)
    BY <2>1 DEF Unregister
  <2>2. CASE ~Unregister(w)
    <3>1. UNCHANGED ctl
      BY <1>1, <2>2
         DEF RunStep, Acquire, Load, CheckHost, Admit, BeginStage, RecordRunning, Preflight,
             PrepareCertificate, Provision, ListNodes, PostNode, NodeCreated, PersistNode,
             PollNode, CheckHealthy, AddIP, SkipDNS, CompleteStage, Reload, Finish,
             FailRecord, FailState, Abort, ReleaseSlot
    <3> QED BY <3>1 DEF ctl
  <2> QED BY <2>1, <2>2
<1>2. CASE DetachedStep(w)
  <2>1. CASE AdoptNode(w) \/ WriteVerdict(w)
    BY <2>1 DEF AdoptNode, WriteVerdict, Rechecks, EndRecheck, ctl
  <2>2. CASE ~(AdoptNode(w) \/ WriteVerdict(w))
    <3>1. UNCHANGED ctl
      BY <1>2, <2>2
         DEF DetachedStep, CreateDeployment, BeginExecution, RetrySet, CancelLoad, CancelSet,
             Inspect, Probe, SkipRecord, Lookup, Verdict, StartRecover, Classify
    <3> QED BY <3>1 DEF ctl
  <2> QED BY <2>1, <2>2
<1> QED BY <1>1, <1>2

\* What a worker's step does to the invariant, given its writes and claims.
LEMMA WorkerTruth ==
  ASSUME TypeInv, TruthInv, NEW w \in Workers, RunStep(w) \/ DetachedStep(w),
         ~CreateDeployment(w)
  PROVE  TruthInv'
<1>0. Claims /\ Listed /\ RowsTrue /\ StepsTrue
  BY DEF TruthInv
<1>1. CASE \E d \in Deployments : StartRecover(w, d)
  <2>1. Claims'
    BY <1>0, <1>1, CommandClaims
  <2>2. UNCHANGED <<row, steps, zone, provisioned, tickets, todo>>
    BY <1>1 DEF StartRecover, Classify, db, ext, ctl
  <2> QED BY <1>0, <2>1, <2>2 DEF TruthInv, Listed, RowsTrue, StepsTrue
<1>2. CASE ~\E d \in Deployments : StartRecover(w, d)
  <2>1. Writes(w) /\ Reaches(w)
    BY <1>0, RunEffect, DetachedEffect
  <2>2. pc[w] \notin {"idle", "insert"}
    BY <1>2 DEF RunStep, Acquire, Load, CheckHost, Admit, BeginStage, RecordRunning,
         Preflight, PrepareCertificate, Provision, ListNodes, PostNode, NodeCreated,
         PersistNode, PollNode, CheckHealthy, AddIP, SkipDNS, CompleteStage, Reload,
         Finish, FailRecord, FailState, Abort, ReleaseSlot, Unregister, InFlight, Working,
         DetachedStep, BeginExecution, RetrySet, CancelLoad, CancelSet, Inspect,
         AdoptNode, Probe, SkipRecord, Lookup, WriteVerdict
  <2>3. dep[w] \in Deployments /\ row[dep[w]].status # "ABSENT"
    BY <1>0, <2>2 DEF Claims, Claim, TypeInv, ProcOK
  <2>4. Grows /\ RowsTrue' /\ StepsTrue'
    BY <1>0, <2>1, <2>3, WritesSound
  <2>5. Claims'
    BY <1>0, <1>2, <2>4, RunClaims, DetachedClaims DEF DetachedStep
  <2>6. Listed'
    <3>1. /\ tickets' \subseteq tickets \/ tickets' = tickets \cup {dep[w]}
          /\ todo' \subseteq todo \/ todo' = Unfinished(row')
      BY ListsGain
    <3>2. \A d \in tickets \cup todo \cup {dep[w]} : row'[d].status # "ABSENT"
      BY <1>0, <2>3, <2>4 DEF Listed, Grows, TypeInv, CtlOK
    <3>3. \A d \in Unfinished(row') : row'[d].status # "ABSENT"
      BY DEF Unfinished
    <3> QED BY <3>1, <3>2, <3>3 DEF Listed
  <2> QED BY <2>4, <2>5, <2>6 DEF TruthInv
<1> QED BY <1>1, <1>2

\* Every step preserves TruthInv.
LEMMA TruthStep ==
  ASSUME TypeInv, TruthInv, [Next]_vars
  PROVE  TruthInv'
<1>0. Claims /\ Listed /\ RowsTrue /\ StepsTrue
  BY DEF TruthInv
<1>1. CASE UNCHANGED vars
  BY <1>1 DEF vars, TruthInv, Claims, Listed, RowsTrue, StepsTrue
<1>2. ASSUME NEW w \in Workers, Command(w) PROVE TruthInv'
  <2>1. PICK d \in Deployments :
          \/ StartPrepare(w, d) \/ StartDeploy(w, d) \/ StartRetryDNS(w, d)
          \/ StartRetryStep(w, d) \/ StartCancel(w, d) \/ StartRecheck(w, d)
    BY <1>2 DEF Command
  <2>2. Claims'
    BY <1>0, <2>1, CommandClaims
  <2>3. UNCHANGED <<row, steps, zone, provisioned, todo>> /\ tickets' \subseteq tickets
    BY <2>1 DEF StartPrepare, StartDeploy, StartRetryDNS, StartRetryStep, StartCancel,
         StartRecheck, Classify, db, ext, ctl
  <2> QED BY <1>0, <2>2, <2>3 DEF TruthInv, Listed, RowsTrue, StepsTrue
<1>3. ASSUME NEW w \in Workers, RunStep(w) \/ DetachedStep(w) PROVE TruthInv'
  BY <1>3, InsertTruth, WorkerTruth
<1>4. CASE Panel
  <2>1. UNCHANGED <<row, steps, zone, provisioned, tickets, todo, pc, dep>>
    BY <1>4 DEF Panel, PanelCreates, PanelCreatesLate, procs, db, ctl
  <2>2. ASSUME NEW v \in Workers, pc[v] # "idle"
        PROVE  Claim(pc[v], loc'[v], dep[v], row[dep[v]], provisioned, zone)
    <3>1. loc'[v] = loc[v] \/ PanelCreates(v)
      BY <1>4 DEF Panel, PanelCreates, PanelCreatesLate, Set, procs, TypeInv, ProcOK
    <3>2. CASE loc'[v] = loc[v]
      BY <1>0, <2>2, <3>2 DEF Claims
    <3>3. CASE PanelCreates(v)
      <4>1. PICK n : loc' = [loc EXCEPT ![v] = [loc[v] EXCEPT !.node = n]]
        BY <3>3 DEF PanelCreates, Set
      <4>2. pc[v] = "posted" /\ loc[v] \in Locals
        BY <3>3 DEF PanelCreates, InFlight, TypeInv, ProcOK
      <4>3. loc'[v].cur = loc[v].cur /\ loc'[v].stage = loc[v].stage
        BY <4>1, <4>2 DEF TypeInv, ProcOK, Locals
      <4>4. Claim(pc[v], loc[v], dep[v], row[dep[v]], provisioned, zone)
        BY <1>0, <2>2 DEF Claims
      <4> QED BY <4>2, <4>3, <4>4 DEF Claim
    <3> QED BY <3>1, <3>2, <3>3
  <2>3. Claims'
    BY <1>0, <2>1, <2>2 DEF Claims
  <2> QED BY <1>0, <2>1, <2>3 DEF TruthInv, Listed, RowsTrue, StepsTrue
<1>5. CASE Crash
  <2>1. /\ UNCHANGED <<row, steps, zone, provisioned>>
        /\ tickets' = {} /\ todo' = Unfinished(row)
        /\ pc' = [w \in Workers |-> "idle"]
    BY <1>5 DEF Crash, db
  <2>2. Listed'
    BY <2>1 DEF Listed, Unfinished
  <2>3. Claims'
    BY <2>1 DEF Claims
  <2> QED BY <1>0, <2>1, <2>2, <2>3 DEF TruthInv, RowsTrue, StepsTrue
<1> QED BY <1>1, <1>2, <1>3, <1>4, <1>5 DEF Next

\* TruthInv holds initially.
LEMMA TruthInit == Init => TruthInv
  BY DEF Init, TruthInv, Claims, Listed, RowsTrue, StepsTrue, NoRow

\* TruthInv with the invariants it rests on.
LEMMA TruthInvariant == Spec => [](TypeInv /\ NodeInv /\ TruthInv)
<1>1. Init => TypeInv /\ NodeInv /\ TruthInv
  BY TypeInit, NodeInit, TruthInit
<1>2. TypeInv /\ NodeInv /\ TruthInv /\ [Next]_vars => (TypeInv /\ NodeInv /\ TruthInv)'
  BY TypeStep, NodeStep, TruthStep
<1> QED BY <1>1, <1>2, PTL DEF Spec

\* COMPLETED is never a lie: whoever writes it, addDNS or the recheck, after
\* whatever lost replies, failed writes, cancellations and restarts, the Node
\* of the row exists and the address is in the zone (or the panel has no DNS
\* balancing).
THEOREM CompletedIsSound == Spec => []CompletedSound
<1>1. TypeInv /\ NodeInv /\ TruthInv => CompletedSound
  BY DEF TruthInv, RowsTrue, Done, NodeInv, OwnNode, Exact, CompletedSound
<1> QED BY <1>1, TruthInvariant, PTL

\* A step the log shows as COMPLETED has had its effect: completeStage is
\* reached only behind the call whose success it records.
THEOREM StepsAreTrue == Spec => []StepTruth
<1>1. TypeInv /\ NodeInv /\ TruthInv => StepTruth
  BY DEF TruthInv, StepsTrue, Effect, StepTruth, StepNames, Stages
<1> QED BY <1>1, TruthInvariant, PTL

-----------------------------------------------------------------------------
(* DeploymentWorkflow implements DeploymentLifecycle. *)

\* Every deployment has an address of its own.
DistinctAddrs ==
  \A d, e \in Deployments : Input[d].addr = Input[e].addr => d = e

\* Such deployments ask for Nodes of their own.
LEMMA AddrsInputs == DistinctAddrs => DistinctInputs
  BY DEF DistinctAddrs, DistinctInputs

\* A step that changes nothing an operator could see is a stutter.
LEMMA QuietLifecycle ==
  ASSUME nodes' = nodes, zone' = zone,
         \A d \in Deployments : /\ row'[d].uuid = row[d].uuid
                                /\ row'[d].status = "COMPLETED" <=> row[d].status = "COMPLETED"
  PROVE  UNCHANGED Lifecycle!vars
<1>1. [d \in Deployments |-> Exact(d)]' = [d \in Deployments |-> Exact(d)]
  BY DEF Exact, Existing
<1>2. [d \in Deployments |-> row[d].uuid]' = [d \in Deployments |-> row[d].uuid]
  OBVIOUS
<1>3. {d \in Deployments : Input[d].addr \in zone}' = {d \in Deployments : Input[d].addr \in zone}
  OBVIOUS
<1>4. {d \in Deployments : row[d].status = "COMPLETED"}' = {d \in Deployments : row[d].status = "COMPLETED"}
  OBVIOUS
<1> QED BY <1>1, <1>2, <1>3, <1>4 DEF Lifecycle!vars

\* UpdateDeploymentState completes the deployment, reopens it, or is a stutter.
LEMMA SetRowLifecycle ==
  ASSUME TypeInv, nodes' = nodes, zone' = zone, NEW d \in Deployments, NEW status,
         NEW step, SetRow(d, status, step),
         status = "COMPLETED" => Done(d, row[d], zone)
  PROVE  Lifecycle!Next
<1> DEFINE rec  == [e \in Deployments |-> row[e].uuid]
           pub  == {e \in Deployments : Input[e].addr \in zone}
           comp == {e \in Deployments : row[e].status = "COMPLETED"}
<1>1. /\ row'[d].status = status /\ row'[d].uuid = row[d].uuid
      /\ \A e \in Deployments : e # d => row'[e] = row[e]
  BY DEF SetRow, TypeInv, DbOK, Rows
<1>2. /\ [e \in Deployments |-> Exact(e)]' = [e \in Deployments |-> Exact(e)]
      /\ rec' = rec /\ pub' = pub
  BY <1>1 DEF Exact, Existing
<1>3. CASE status = "COMPLETED"
  <2>1. comp' = comp \cup {d}
    BY <1>1, <1>3
  <2>2. rec[d] # NoId /\ (DNSDisabled \/ d \in pub)
    BY <1>3 DEF Done
  <2>3. Lifecycle!Complete(d)
    BY <1>2, <2>1, <2>2 DEF Lifecycle!Complete
  <2> QED BY <2>3 DEF Lifecycle!Next
<1>4. CASE status # "COMPLETED"
  <2>1. comp' = comp \ {d}
    BY <1>1, <1>4
  <2>2. Lifecycle!Reopen(d)
    BY <1>2, <2>1 DEF Lifecycle!Reopen
  <2> QED BY <2>2 DEF Lifecycle!Next
<1> QED BY <1>3, <1>4

\* SetRemnawaveNodeUUID records the one Node of the deployment, or records it
\* once more.
LEMMA SetUUIDLifecycle ==
  ASSUME TypeInv, NodeInv, NodeOnce, nodes' = nodes, zone' = zone,
         NEW d \in Deployments, NEW n \in Exact(d),
         row' = [row EXCEPT ![d].uuid = n]
  PROVE  [Lifecycle!Next]_(Lifecycle!vars)
<1> DEFINE rec  == [e \in Deployments |-> row[e].uuid]
           pub  == {e \in Deployments : Input[e].addr \in zone}
           comp == {e \in Deployments : row[e].status = "COMPLETED"}
           made == [e \in Deployments |-> Exact(e)]
<1>1. /\ row'[d].status = row[d].status /\ row'[d].uuid = n
      /\ \A e \in Deployments : e # d => row'[e] = row[e]
  BY DEF TypeInv, DbOK, Rows
<1>2. CASE row[d].uuid = NoId
  <2>1. rec' = [rec EXCEPT ![d] = n]
    <3>1. rec' = [e \in Deployments |-> row'[e].uuid]
      OBVIOUS
    <3>2. \A e \in Deployments : row'[e].uuid = IF e = d THEN n ELSE row[e].uuid
      BY <1>1
    <3> QED BY <3>1, <3>2
  <2>2. made' = made /\ pub' = pub /\ comp' = comp
    BY <1>1 DEF Exact, Existing
  <2>3. rec[d] = NoId /\ n \in made[d]
    BY <1>2
  <2>4. Lifecycle!Record(d)
    BY <2>1, <2>2, <2>3 DEF Lifecycle!Record
  <2> QED BY <2>4 DEF Lifecycle!Next
<1>3. CASE row[d].uuid # NoId
  <2>1. row[d].uuid = n
    BY <1>3 DEF NodeInv, OwnNode, NodeOnce
  <2> QED BY <1>1, <2>1, QuietLifecycle
<1> QED BY <1>2, <1>3

\* AddIP publishes the address of a deployment whose Node is recorded.
LEMMA AddIPLifecycle ==
  ASSUME DistinctAddrs, nodes' = nodes, row' = row, NEW d \in Deployments,
         row[d].uuid # NoId, zone' = zone \cup {Input[d].addr}
  PROVE  Lifecycle!Next
<1> DEFINE rec  == [e \in Deployments |-> row[e].uuid]
           pub  == {e \in Deployments : Input[e].addr \in zone}
           comp == {e \in Deployments : row[e].status = "COMPLETED"}
           made == [e \in Deployments |-> Exact(e)]
<1>1. made' = made /\ rec' = rec /\ comp' = comp
  BY DEF Exact, Existing
<1>2. pub' = pub \cup {d}
  BY DEF DistinctAddrs
<1>3. rec[d] # NoId
  OBVIOUS
<1>4. Lifecycle!Publish(d)
  BY <1>1, <1>2, <1>3 DEF Lifecycle!Publish
<1> QED BY <1>4 DEF Lifecycle!Next

\* The panel makes the first Node of a deployment.
LEMMA PanelLifecycle ==
  ASSUME DistinctInputs, TypeInv, OnceInv, Panel
  PROVE  Lifecycle!Next
<1> DEFINE rec  == [e \in Deployments |-> row[e].uuid]
           pub  == {e \in Deployments : Input[e].addr \in zone}
           comp == {e \in Deployments : row[e].status = "COMPLETED"}
           made == [e \in Deployments |-> Exact(e)]
<1>1. PICK w \in Workers : PanelCreates(w)
  BY DEF Panel, PanelCreatesLate, OnceInv
<1>2. PICK d \in Deployments, n \in NodeIds :
        /\ nodes[n] = NoNode /\ nodes' = [nodes EXCEPT ![n] = Input[d]]
        /\ Exact(d) = {} /\ row' = row /\ zone' = zone
  BY <1>1 DEF PanelCreates, CreateUnder, Existing, InFlight, TypeInv, ProcOK, OnceInv, db
<1>3. \A e \in Deployments : Input[e] # NoNode
  BY ConstantsAssumption
<1>4. Exact(d)' = {n}
  <2>1. \A m \in NodeIds : nodes'[m] # NoNode /\ nodes'[m] = Input[d] <=> m = n
    BY <1>2, <1>3 DEF Exact, Existing, TypeInv, ExtOK
  <2> QED BY <1>2, <2>1 DEF Exact, Existing
<1>5. \A e \in Deployments : e # d => Exact(e)' = Exact(e)
  BY <1>2, <1>3 DEF DistinctInputs, Exact, Existing, TypeInv, ExtOK
<1>6. made' = [made EXCEPT ![d] = {n}]
  BY <1>4, <1>5
<1>7. rec' = rec /\ pub' = pub /\ comp' = comp /\ made[d] = {}
  BY <1>2
<1>8. Lifecycle!Make(d)
  BY <1>2, <1>6, <1>7 DEF Lifecycle!Make
<1> QED BY <1>8 DEF Lifecycle!Next

\* Every step of the workflow is a step of the lifecycle or changes none of it.
LEMMA LifecycleStep ==
  ASSUME ~LateLanding, DistinctAddrs, TypeInv, NodeInv, OnceInv, TruthInv, [Next]_vars
  PROVE  [Lifecycle!Next]_(Lifecycle!vars)
<1>0. DistinctInputs /\ NodeOnce /\ Claims /\ RowsTrue
  BY AddrsInputs DEF OnceInv, TruthInv
<1>1. CASE Panel
  BY <1>0, <1>1, PanelLifecycle
<1>2. ASSUME NEW w \in Workers, nodes' = nodes, Writes(w), Reaches(w), dep[w] \in Deployments
      PROVE  [Lifecycle!Next]_(Lifecycle!vars)
  <2>1. CASE zone' # zone
    BY <1>2, <2>1, AddIPLifecycle DEF Reaches
  <2>2. CASE zone' = zone /\ row' = row
    BY <1>2, <2>2, QuietLifecycle
  <2>3. ASSUME zone' = zone, NEW status, NEW step, SetRow(dep[w], status, step),
               status = "COMPLETED" => Done(dep[w], row[dep[w]], zone)
        PROVE  [Lifecycle!Next]_(Lifecycle!vars)
    BY <1>2, <2>3, SetRowLifecycle
  <2>4. ASSUME zone' = zone, NEW status, NEW step, RecordStep(dep[w], step, status)
        PROVE  [Lifecycle!Next]_(Lifecycle!vars)
    <3>1. \A d \in Deployments : row'[d].uuid = row[d].uuid /\ row'[d].status = row[d].status
      BY <1>2, <2>4 DEF RecordStep, TypeInv, DbOK, Rows
    <3> QED BY <1>2, <2>4, <3>1, QuietLifecycle
  <2>5. CASE /\ zone' = zone /\ loc[w].node \in NodeIds
             /\ row' = [row EXCEPT ![dep[w]].uuid = loc[w].node]
    <3>1. loc[w].node \in Exact(dep[w])
      BY <2>5, ConstantsAssumption DEF NodeInv
    <3> QED BY <1>0, <1>2, <2>5, <3>1, SetUUIDLifecycle
  <2> QED BY <1>2, <2>1, <2>2, <2>3, <2>4, <2>5 DEF Writes
<1>3. ASSUME UNCHANGED <<row, nodes, zone>> PROVE UNCHANGED Lifecycle!vars
  BY <1>3, QuietLifecycle
<1>4. ASSUME NEW w \in Workers, RunStep(w) \/ DetachedStep(w), ~CreateDeployment(w),
             pc[w] # "idle"
      PROVE  [Lifecycle!Next]_(Lifecycle!vars)
  <2>1. dep[w] \in Deployments /\ Writes(w) /\ Reaches(w)
    BY <1>0, <1>4, RunEffect, DetachedEffect DEF TypeInv, ProcOK
  <2>2. nodes' = nodes
    BY <1>4, RunFrame, DetachedFrame DEF Frame
  <2> QED BY <1>2, <2>1, <2>2
<1>5. ASSUME NEW w \in Workers, CreateDeployment(w) PROVE UNCHANGED Lifecycle!vars
  <2>1. dep[w] \in Deployments /\ row[dep[w]] = NoRow
    BY <1>0, <1>5 DEF CreateDeployment, Claims, Claim, RowsTrue, TypeInv, ProcOK
  <2>2. \A d \in Deployments :
          /\ row'[d].uuid = row[d].uuid
          /\ row'[d].status = "COMPLETED" <=> row[d].status = "COMPLETED"
    BY <1>5, <2>1 DEF CreateDeployment, InsertRow, NoRow, TypeInv, DbOK
  <2>3. nodes' = nodes /\ zone' = zone
    BY <1>5 DEF CreateDeployment, ext
  <2> QED BY <2>2, <2>3, QuietLifecycle
<1>6. ASSUME NEW w \in Workers, DetachedStep(w), pc[w] = "idle"
      PROVE  UNCHANGED <<row, nodes, zone>>
  BY <1>6 DEF DetachedStep, CreateDeployment, BeginExecution, RetrySet, CancelLoad,
       CancelSet, Inspect, AdoptNode, Probe, SkipRecord, Lookup, WriteVerdict,
       StartRecover, Classify, db, ext
<1>7. ASSUME NEW w \in Workers, RunStep(w) PROVE pc[w] # "idle"
  BY <1>7 DEF RunStep, Acquire, Load, CheckHost, Admit, BeginStage, RecordRunning,
       Preflight, PrepareCertificate, Provision, ListNodes, PostNode, NodeCreated,
       PersistNode, PollNode, CheckHealthy, AddIP, SkipDNS, CompleteStage, Reload,
       Finish, FailRecord, FailState, Abort, ReleaseSlot, Unregister, InFlight, Working
<1>8. ASSUME NEW w \in Workers, Command(w) PROVE UNCHANGED <<row, nodes, zone>>
  BY <1>8 DEF Command, StartPrepare, StartDeploy, StartRetryDNS, StartRetryStep,
       StartCancel, StartRecheck, Classify, db, ext
<1>9. Crash \/ UNCHANGED vars => UNCHANGED <<row, nodes, zone>>
  BY DEF Crash, vars, db
<1> QED BY <1>1, <1>3, <1>4, <1>5, <1>6, <1>7, <1>8, <1>9 DEF Next

\* Initially there is nothing to see.
LEMMA LifecycleInit == Init => Lifecycle!Init
  BY DEF Init, Lifecycle!Init, NoRow, Exact, Existing

\* Whatever the runs, rechecks, cancellations and crashes, an outside observer
\* sees one Node made, recorded once, published after it is recorded and the
\* deployment completed after that, provided that the deployments have
\* addresses of their own and no POST lands after its caller gave up.
THEOREM WorkflowRefinesLifecycle ==
  ASSUME ~LateLanding, DistinctAddrs
  PROVE  Spec => ImplementsLifecycle
<1> DEFINE Inv == TypeInv /\ RunInv /\ NodeInv /\ OnceInv /\ TruthInv
<1>1. Init => Inv /\ Lifecycle!Init
  BY TypeInit, RunInit, NodeInit, OnceInit, TruthInit, LifecycleInit
<1>2. Inv /\ [Next]_vars => Inv' /\ [Lifecycle!Next]_(Lifecycle!vars)
  BY AddrsInputs, TypeStep, RunStepInv, NodeStep, OnceStep, TruthStep, LifecycleStep
<1> QED BY <1>1, <1>2, PTL DEF Spec, ImplementsLifecycle, Lifecycle!Spec

-----------------------------------------------------------------------------
(* How a worker moves. *)

\* The worker ends, or goes on with its deployment and its operation.
Moves(w) ==
  /\ \A v \in Workers \ {w} : pc'[v] = pc[v] /\ dep'[v] = dep[v] /\ loc'[v] = loc[v]
  /\ \/ pc'[w] = "idle" /\ dep'[w] = NoDep /\ loc'[w] = Blank
     \/ /\ pc'[w] # "idle" /\ dep'[w] = dep[w]
        /\ \/ loc'[w].op = loc[w].op
           \/ pc[w] = "reload" /\ loc[w].stage = "preflight" /\ loc'[w].op = "prepared"

\* Going on to a label moves.
LEMMA GoesMoves ==
  ASSUME TypeInv, NEW w \in Workers, NEW l, NEW x, Goes(w, l, x), l # "idle",
         \/ x.op = loc[w].op
         \/ pc[w] = "reload" /\ loc[w].stage = "preflight" /\ x.op = "prepared"
  PROVE  Moves(w)
  BY DEF Goes, Goto, Set, Keep, Moves, TypeInv, ProcOK

\* So do returning to the deferred release and ending.
LEMMA StopMoves ==
  ASSUME TypeInv, NEW w \in Workers, Stop(w)
  PROVE  Moves(w)
  BY DEF Stop, Moves, TypeInv, ProcOK

\* Ending moves.
LEMMA ResetMoves ==
  ASSUME TypeInv, NEW w \in Workers, Reset(w)
  PROVE  Moves(w)
  BY DEF Reset, Moves, TypeInv, ProcOK

\* Entering failStage, or a stage, keeps the operation.
LEMMA FailsMoves ==
  ASSUME TypeInv, NEW w \in Workers, NEW status, NEW step, Fails(w, status, step)
  PROVE  Moves(w)
<1>1. [loc[w] EXCEPT !.out = [status |-> status, step |-> step]].op = loc[w].op
  BY DEF TypeInv, ProcOK, Locals
<1> QED BY <1>1, GoesMoves DEF Fails

\* Entering a stage moves.
LEMMA EnterStageMoves ==
  ASSUME TypeInv, NEW w \in Workers, NEW current, NEW ahead,
         EnterStage(w, current, ahead)
  PROVE  Moves(w)
<1> DEFINE stage == NextStage(current, ahead)
           into  == [loc[w] EXCEPT !.stage = stage, !.cur = current]
           fail  == [into EXCEPT !.out = [status |-> "FAILED", step |-> stage]]
           l     == IF current.status = StatusOf[stage]
                      THEN StageBody(stage, current) ELSE "setState"
<1>1. into.op = loc[w].op /\ fail.op = loc[w].op
  BY DEF TypeInv, ProcOK, Locals
<1>2. Stop(w) \/ Goes(w, "failRecord", fail) \/ Goes(w, l, into)
  BY DEF EnterStage
<1>3. l # "idle"
  BY DEF StageBody
<1> HIDE DEF into, fail, l
<1> QED BY <1>1, <1>2, <1>3, GoesMoves, StopMoves

\* Choosing a verdict moves.
LEMMA VerdictMoves ==
  ASSUME TypeInv, NEW w \in Workers, NEW status, NEW step, Verdict(w, status, step)
  PROVE  Moves(w)
<1>1. [loc[w] EXCEPT !.out = [status |-> status, step |-> step]].op = loc[w].op
  BY DEF TypeInv, ProcOK, Locals
<1> QED BY <1>1, GoesMoves DEF Verdict

\* Every step of a run moves.
LEMMA RunMoves ==
  ASSUME TypeInv, NEW w \in Workers, RunStep(w)
  PROVE  Moves(w)
<1>0. loc[w] \in Locals
  BY DEF TypeInv, ProcOK
<1>a. ASSUME NEW l, l # "idle", Goes(w, l, loc[w]) PROVE Moves(w)
  BY <1>a, GoesMoves
<1>1. CASE Acquire(w)
  <2>1. [loc[w] EXCEPT !.stage = "preflight"].op = loc[w].op
    BY <1>0 DEF Locals
  <2> QED BY <1>1, <1>a, <2>1, GoesMoves DEF Acquire, Admitted
<1>2. CASE Load(w)
  <2> DEFINE go    == [loc[w] EXCEPT !.cur = row[dep[w]]]
             retry == [loc[w] EXCEPT !.stage = "add_dns",
                         !.cur = [row[dep[w]] EXCEPT !.status = "ADDING_TO_DNS"]]
  <2>1. go.op = loc[w].op /\ retry.op = loc[w].op
    BY <1>0 DEF Locals
  <2>2. Goes(w, "host", go) \/ Goes(w, "setState", retry) \/ Stop(w)
    BY <1>2 DEF Load
  <2> HIDE DEF go, retry
  <2> QED BY <2>1, <2>2, GoesMoves, StopMoves
<1>3. CASE CheckHost(w) \/ FailRecord(w)
  BY <1>3, <1>a, FailsMoves DEF CheckHost, FailRecord
<1>4. CASE Admit(w)
  <2> DEFINE x == [loc[w] EXCEPT !.stage = "prepare_certificate"]
  <2>1. x.op = loc[w].op
    BY <1>0 DEF Locals
  <2>2. \/ \E l \in {"work", "setState"} : Goes(w, l, x)
        \/ Fails(w, "FAILED", loc[w].cur.step)
        \/ EnterStage(w, loc[w].cur, AllAhead)
    BY <1>4 DEF Admit
  <2> HIDE DEF x
  <2> QED BY <2>1, <2>2, GoesMoves, FailsMoves, EnterStageMoves
<1>5. CASE BeginStage(w) \/ SkipDNS(w) \/ Finish(w) \/ FailState(w)
  BY <1>5, <1>a, StopMoves DEF BeginStage, SkipDNS, Finish, FailState, Persists
<1>6. CASE RecordRunning(w)
  <2> DEFINE l == IF pc[w] = "record" THEN StageBody(loc[w].stage, loc[w].cur) ELSE "reload"
  <2>1. l # "idle"
    BY DEF StageBody
  <2>2. Goes(w, l, loc[w]) \/ Stop(w)
    BY <1>6 DEF RecordRunning, Persists
  <2> HIDE DEF l
  <2> QED BY <1>a, <2>1, <2>2, StopMoves
<1>7. CASE Preflight(w) \/ PollNode(w) \/ Provision(w) \/ PostNode(w) \/ CheckHealthy(w)
           \/ AddIP(w)
  BY <1>7, <1>a, FailsMoves
     DEF Preflight, PollNode, Provision, PostNode, CheckHealthy, AddIP
<1>8. CASE PrepareCertificate(w)
  <2>1. [loc[w] EXCEPT !.stage = "provisioning"].op = loc[w].op
    BY <1>0 DEF Locals
  <2> QED BY <1>8, <1>a, <2>1, GoesMoves, FailsMoves DEF PrepareCertificate
<1>9. CASE ListNodes(w)
  <2>1. ASSUME NEW n, Goes(w, "persist", [loc[w] EXCEPT !.node = n]) PROVE Moves(w)
    <3>1. [loc[w] EXCEPT !.node = n].op = loc[w].op
      BY <1>0 DEF Locals
    <3> QED BY <2>1, <3>1, GoesMoves
  <2> QED BY <1>9, <1>a, <2>1, FailsMoves DEF ListNodes
<1>10. CASE NodeCreated(w)
  <2> DEFINE x == [loc[w] EXCEPT !.node = NoId,
               !.out = [status |-> "FAILED", step |-> "create_remnawave_node"]]
  <2>1. x.op = loc[w].op
    BY <1>0 DEF Locals
  <2>2. Goes(w, "persist", loc[w]) \/ Goes(w, "failRecord", x)
    BY <1>10 DEF NodeCreated
  <2> HIDE DEF x
  <2> QED BY <1>a, <2>1, <2>2, GoesMoves
<1>11. CASE PersistNode(w)
  <2> DEFINE x == [loc[w] EXCEPT !.cur.uuid = loc[w].node, !.node = NoId]
  <2>1. x.op = loc[w].op
    BY <1>0 DEF Locals
  <2>2. Goes(w, "complete", x) \/ Stop(w)
    BY <1>11 DEF PersistNode, Persists
  <2> HIDE DEF x
  <2> QED BY <2>1, <2>2, GoesMoves, StopMoves
<1>12. CASE CompleteStage(w)
  <2> DEFINE next == Following(loc[w].stage)
             x    == [loc[w] EXCEPT !.stage = next[2]]
  <2>1. next[1] # "idle"
    BY DEF Following
  <2> HIDE DEF next
  <2>2. x.op = loc[w].op
    BY <1>0 DEF Locals
  <2>3. Goes(w, next[1], x) \/ Stop(w)
    BY <1>12 DEF CompleteStage, Persists, next
  <2> HIDE DEF x
  <2> QED BY <2>1, <2>2, <2>3, GoesMoves, StopMoves
<1>13. CASE Reload(w)
  <2> DEFINE x == [loc[w] EXCEPT !.op = IF ctx[w] THEN @ ELSE "prepared"]
  <2>1. x.op \in {loc[w].op, "prepared"}
    BY <1>0 DEF Locals
  <2>2. \/ loc[w].stage = "preflight" /\ Goes(w, "releaseSlot", x)
        \/ Stop(w)
        \/ \E ahead : EnterStage(w, row[dep[w]], ahead)
    BY <1>13 DEF Reload
  <2> HIDE DEF x
  <2> QED BY <1>13, <2>1, <2>2, GoesMoves, StopMoves, EnterStageMoves DEF Reload
<1>14. CASE Abort(w) \/ ReleaseSlot(w)
  BY <1>14 DEF Abort, ReleaseSlot, Moves, TypeInv, ProcOK
<1>15. CASE Unregister(w)
  BY <1>15, ResetMoves DEF Unregister
<1> QED BY <1>1, <1>2, <1>3, <1>4, <1>5, <1>6, <1>7, <1>8, <1>9, <1>10, <1>11, <1>12,
           <1>13, <1>14, <1>15 DEF RunStep

\* Every step outside a run that has begun moves.
LEMMA DetachedMoves ==
  ASSUME TypeInv, NEW w \in Workers, DetachedStep(w), pc[w] # "idle"
  PROVE  Moves(w)
<1>0. loc[w] \in Locals
  BY DEF TypeInv, ProcOK
<1>1. CASE CreateDeployment(w)
  BY <1>1, ResetMoves DEF CreateDeployment, Moves, TypeInv, ProcOK
<1>2. CASE BeginExecution(w)
  <2>1. [loc[w] EXCEPT !.out = NoOut, !.cur = NoRow].op = loc[w].op
    BY <1>0 DEF Locals
  <2> QED BY <1>2, <2>1, ResetMoves DEF BeginExecution, Set, Keep, Moves, TypeInv, ProcOK
<1>3. CASE RetrySet(w) \/ CancelLoad(w) \/ CancelSet(w)
  BY <1>3, GoesMoves, ResetMoves DEF RetrySet, CancelLoad, CancelSet
<1>4. CASE Inspect(w)
  <2>1. ASSUME NEW n, Goes(w, "adopt", [loc[w] EXCEPT !.node = n]) PROVE Moves(w)
    <3>1. [loc[w] EXCEPT !.node = n].op = loc[w].op
      BY <1>0 DEF Locals
    <3> QED BY <2>1, <3>1, GoesMoves
  <2> QED BY <1>4, <2>1, VerdictMoves DEF Inspect
<1>5. CASE AdoptNode(w)
  <2> DEFINE x == [loc[w] EXCEPT !.cur = [row[dep[w]] EXCEPT !.uuid = loc[w].node],
                                 !.node = NoId]
  <2>1. x.op = loc[w].op
    BY <1>0 DEF Locals
  <2>2. Goes(w, "probe", x) \/ Reset(w)
    BY <1>5 DEF AdoptNode, Rechecks, EndRecheck
  <2> HIDE DEF x
  <2> QED BY <2>1, <2>2, GoesMoves, ResetMoves
<1>6. CASE Probe(w) \/ SkipRecord(w) \/ Lookup(w)
  BY <1>6, GoesMoves, VerdictMoves DEF Probe, SkipRecord, Lookup
<1>7. CASE WriteVerdict(w)
  BY <1>7, ResetMoves DEF WriteVerdict, EndRecheck
<1> QED BY <1>1, <1>2, <1>3, <1>4, <1>5, <1>6, <1>7 DEF DetachedStep, StartRecover
-----------------------------------------------------------------------------
(* COMPLETED is final. *)

\* Labels of a recheck, of the operations that write a status without being
\* registered, and of everybody who may still write one.
Rechecking  == {"inspect", "adopt", "probe", "lookup", "skipRecord", "verdict"}
Apart       == Rechecking \cup {"retrySet", "cancelLoad", "cancelSet"}
Overwriting == (Working \ {"load"}) \cup (Apart \ {"cancelLoad"})

\* Whose status a step writes, and from where.
LEMMA StatusWritten ==
  ASSUME TypeInv, Claims, NEW w \in Workers, RunStep(w) \/ DetachedStep(w),
         ~CreateDeployment(w), pc[w] # "idle"
  PROVE  /\ \A e \in Deployments : e # dep[w] => row'[e] = row[e]
         /\ \/ row'[dep[w]].status = row[dep[w]].status
            \/ pc[w] \in Overwriting /\ row'[dep[w]].status # "COMPLETED"
            \/ pc[w] = "finish" /\ pc'[w] = "releaseSlot"
            \/ pc[w] = "verdict" /\ EndRecheck(w, TRUE)
            \/ pc[w] = "verdict" /\ EndRecheck(w, FALSE)
<1>0. /\ dep[w] \in Deployments /\ row \in [Deployments -> Rows]
      /\ Claim(pc[w], loc[w], dep[w], row[dep[w]], provisioned, zone)
      /\ pc[w] \in Beginning => loc[w].stage \in Stages
  BY DEF TypeInv, ProcOK, DbOK, Claims
<1>a. ASSUME NEW status, NEW step, SetRow(dep[w], status, step)
      PROVE  /\ \A e \in Deployments : e # dep[w] => row'[e] = row[e]
             /\ row'[dep[w]].status = status
  BY <1>0, <1>a DEF SetRow, Rows
<1>b. ASSUME NEW status, NEW step, RecordStep(dep[w], step, status)
      PROVE  /\ \A e \in Deployments : e # dep[w] => row'[e] = row[e]
             /\ row'[dep[w]].status = row[dep[w]].status
  BY <1>0, <1>b DEF RecordStep, Rows
<1>c. ASSUME NEW n, row' = [row EXCEPT ![dep[w]].uuid = n]
      PROVE  /\ \A e \in Deployments : e # dep[w] => row'[e] = row[e]
             /\ row'[dep[w]].status = row[dep[w]].status
  BY <1>0, <1>c DEF Rows
<1>1. CASE row' = row
  BY <1>1
<1>2. CASE BeginStage(w)
  <2>1. /\ SetRow(dep[w], StatusOf[loc[w].stage], loc[w].stage) \/ row' = row
        /\ pc[w] \in {"setState", "advance"}
    BY <1>2 DEF BeginStage, Persists, db
  <2>2. StatusOf[loc[w].stage] # "COMPLETED" /\ pc[w] \in Overwriting
    BY <1>0, <2>1 DEF Beginning, Stages, StatusOf, Overwriting, Working
  <2> QED BY <1>1, <1>a, <2>1, <2>2
<1>3. CASE RecordRunning(w) \/ SkipDNS(w) \/ CompleteStage(w) \/ FailRecord(w) \/ SkipRecord(w)
  BY <1>3, <1>b, <1>1 DEF RecordRunning, SkipDNS, CompleteStage, FailRecord, SkipRecord,
     Persists, db
<1>4. CASE PersistNode(w) \/ AdoptNode(w)
  BY <1>4, <1>c, <1>1 DEF PersistNode, AdoptNode, Persists, Rechecks, db
<1>5. CASE Finish(w)
  <2>1. \/ SetRow(dep[w], "COMPLETED", "completed") /\ pc'[w] = "releaseSlot"
        \/ row' = row
    BY <1>5 DEF Finish, Persists, Goes, Goto, Stop, db, TypeInv, ProcOK
  <2> QED BY <1>1, <1>5, <1>a, <2>1 DEF Finish
<1>6. CASE FailState(w) \/ RetrySet(w)
  <2>1. SetRow(dep[w], loc[w].out.status, loc[w].out.step) \/ row' = row
    BY <1>6 DEF FailState, RetrySet, Persists, db
  <2>2. loc[w].out.status # "COMPLETED" /\ pc[w] \in Overwriting
    BY <1>0, <1>6 DEF FailState, RetrySet, Claim, Overwriting, Working, Apart
  <2> QED BY <1>1, <1>a, <2>1, <2>2
<1>7. CASE CancelSet(w)
  <2>1. SetRow(dep[w], "CANCELLED", "cancelled") \/ row' = row
    BY <1>7 DEF CancelSet
  <2> QED BY <1>1, <1>7, <1>a, <2>1 DEF CancelSet, Overwriting, Apart
<1>8. CASE WriteVerdict(w)
  BY <1>8, <1>1, <1>a DEF WriteVerdict
<1>9. CASE UNCHANGED db
  BY <1>1, <1>9 DEF db
<1> QED BY <1>1, <1>2, <1>3, <1>4, <1>5, <1>6, <1>7, <1>8, <1>9
        DEF RunStep, DetachedStep, Acquire, Load, CheckHost, Admit, Preflight,
            PrepareCertificate, Provision, ListNodes, PostNode, NodeCreated, PollNode,
            CheckHealthy, AddIP, Reload, Abort, ReleaseSlot, Unregister,
            BeginExecution, CancelLoad, Inspect, Probe, Lookup, StartRecover, Classify

\* A step of a run starts inside the run.
LEMMA RunFrom ==
  ASSUME TypeInv, NEW w \in Workers, RunStep(w)
  PROVE  pc[w] \in Working \cup {"slot", "releaseSlot", "unregister"}
<1>1. CASE Acquire(w) \/ Abort(w) \/ ReleaseSlot(w) \/ Unregister(w)
  BY <1>1 DEF Acquire, Abort, ReleaseSlot, Unregister
<1>2. CASE Stays(w)
  BY <1>2 DEF Stays
<1> QED BY <1>1, <1>2, RunStays DEF RunStep, TypeInv

\* Whoever comes to a place from which it may write a status was at one
\* before, or has just read that the deployment is not completed, or is a
\* Prepare that has registered.
LEMMA Arrivals ==
  ASSUME TypeInv, RunInv, NEW w \in Workers, RunStep(w) \/ DetachedStep(w),
         pc[w] # "idle", pc'[w] \in Overwriting \cup {"cancelLoad"}
  PROVE  /\ \/ pc[w] \in Overwriting
            \/ /\ pc[w] = "load" /\ row' = row
               /\ row[dep[w]].status \notin {"COMPLETED", "CREATED"}
            \/ pc[w] = "slot" /\ loc[w].op = "prepare" /\ row' = row
            \/ pc[w] = "cancelLoad" /\ row' = row /\ row[dep[w]].status # "COMPLETED"
         /\ pc'[w] \in Apart => pc[w] \in Apart
<1>0. /\ "releaseSlot" \notin Overwriting /\ "unregister" \notin Overwriting
      /\ "idle" \notin Overwriting /\ Working \cap Apart = {} /\ "slot" \notin Overwriting
      /\ "releaseSlot" \notin Apart /\ "begin" \notin Overwriting
      /\ "cancelLoad" \in Apart
  BY DEF Overwriting, Apart, Rechecking, Working
<1>1. CASE RunStep(w)
  <2>1. pc[w] \in Working \cup {"slot", "releaseSlot", "unregister"}
    BY <1>1, RunFrom
  <2>2. CASE pc[w] \in Working \ {"load"}
    <3>1. Stays(w) \/ pc'[w] \in {"releaseSlot", "unregister"}
      BY <1>1, <2>2, RunStays DEF RunStep, TypeInv, ProcOK, Abort, Acquire, ReleaseSlot,
         Unregister, Working
    <3>2. pc'[w] \in Holding => pc'[w] \notin Apart
      BY <1>0 DEF Holding
    <3> QED BY <1>0, <2>2, <3>1, <3>2 DEF Stays, Overwriting
  <2>3. CASE pc[w] = "load"
    <3>1. Load(w) \/ Abort(w)
      BY <1>1, <2>3 DEF RunStep, Acquire, CheckHost, Admit, BeginStage, RecordRunning,
         Preflight, PrepareCertificate, Provision, ListNodes, PostNode, NodeCreated,
         PersistNode, PollNode, CheckHealthy, AddIP, SkipDNS, CompleteStage, Reload,
         Finish, FailRecord, FailState, ReleaseSlot, Unregister
    <3>2. CASE Load(w)
      <4>1. /\ row' = row /\ pc'[w] \in {"host", "setState", "releaseSlot"}
            /\ \/ pc'[w] = "releaseSlot"
               \/ row[dep[w]].status \notin {"COMPLETED", "CREATED"}
        BY <3>2 DEF Load, Goes, Goto, Stop, Deployable, db, TypeInv, ProcOK
      <4> QED BY <1>0, <2>3, <4>1 DEF Apart, Rechecking
    <3>3. CASE Abort(w)
      BY <1>0, <2>3, <3>3 DEF Abort, TypeInv, ProcOK
    <3> QED BY <3>1, <3>2, <3>3
  <2>4. CASE pc[w] = "slot"
    <3>1. Acquire(w) \/ Abort(w)
      BY <1>1, <2>4 DEF RunStep, Load, CheckHost, Admit, BeginStage, RecordRunning,
         Preflight, PrepareCertificate, Provision, ListNodes, PostNode, NodeCreated,
         PersistNode, PollNode, CheckHealthy, AddIP, SkipDNS, CompleteStage, Reload,
         Finish, FailRecord, FailState, ReleaseSlot, Unregister
    <3>2. CASE Acquire(w)
      <4>1. /\ row' = row
            /\ \/ pc'[w] \in {"load", "releaseSlot"}
               \/ pc'[w] = "setState" /\ loc[w].op = "prepare"
        BY <3>2 DEF Acquire, Admitted, Goes, Goto, db, TypeInv, ProcOK
      <4> QED BY <1>0, <2>4, <4>1 DEF Apart, Rechecking, Overwriting
    <3>3. CASE Abort(w)
      BY <1>0, <2>4, <3>3 DEF Abort, TypeInv, ProcOK
    <3> QED BY <3>1, <3>2, <3>3
  <2>5. CASE pc[w] \in {"releaseSlot", "unregister"}
    <3>1. ReleaseSlot(w) \/ Unregister(w)
      BY <1>1, <2>5 DEF RunStep, Acquire, Load, CheckHost, Admit, BeginStage, RecordRunning,
         Preflight, PrepareCertificate, Provision, ListNodes, PostNode, NodeCreated,
         PersistNode, PollNode, CheckHealthy, AddIP, SkipDNS, CompleteStage, Reload,
         Finish, FailRecord, FailState, Abort, Working
    <3> QED BY <1>0, <3>1 DEF ReleaseSlot, Unregister, Reset, TypeInv, ProcOK
  <2> QED BY <2>1, <2>2, <2>3, <2>4, <2>5
<1>2. CASE DetachedStep(w)
  <2>1. pc[w] \in {"insert", "begin", "cancelLoad"} \/ pc[w] \in Apart \ {"cancelLoad"}
    BY <1>2 DEF DetachedStep, CreateDeployment, BeginExecution, RetrySet, CancelLoad,
       CancelSet, Inspect, AdoptNode, Probe, SkipRecord, Lookup, WriteVerdict,
       StartRecover, Apart, Rechecking
  <2>2. CASE pc[w] \in {"insert", "begin"}
    <3>1. CreateDeployment(w) \/ BeginExecution(w)
      BY <1>2, <2>2 DEF DetachedStep, RetrySet, CancelLoad,
         CancelSet, Inspect, AdoptNode, Probe, SkipRecord, Lookup, WriteVerdict,
         StartRecover
    <3> QED BY <1>0, <3>1 DEF CreateDeployment, BeginExecution, Reset, TypeInv, ProcOK
  <2>3. CASE pc[w] = "cancelLoad"
    <3>1. CancelLoad(w)
      BY <1>2, <2>3 DEF DetachedStep, CreateDeployment, BeginExecution, RetrySet,
         CancelSet, Inspect, AdoptNode, Probe, SkipRecord, Lookup, WriteVerdict,
         StartRecover
    <3>2. row' = row /\ (row[dep[w]].status # "COMPLETED" \/ pc'[w] = "idle")
      BY <3>1 DEF CancelLoad, Reset, db, TypeInv, ProcOK
    <3> QED BY <1>0, <2>3, <3>2 DEF Apart
  <2>4. CASE pc[w] \in Apart \ {"cancelLoad"}
    BY <2>4 DEF Overwriting
  <2> QED BY <2>1, <2>2, <2>3, <2>4
<1> QED BY <1>1, <1>2

\* A recheck goes on or ends; the list of the startup recovery changes only
\* when its recheck ends.
LEMMA RecheckSteps ==
  ASSUME TypeInv, RunInv, NEW w \in Workers, RunStep(w) \/ DetachedStep(w), pc[w] # "idle"
  PROVE  /\ pc[w] \in Rechecking => pc'[w] \in Rechecking \cup {"idle"}
         /\ \/ todo' = todo
            \/ /\ pc[w] \in Rechecking /\ loc[w].op = "recover" /\ pc'[w] = "idle"
               /\ todo' = todo \ {dep[w]} \/ todo' = Unfinished(row')
<1>1. CASE RunStep(w)
  <2>1. pc[w] \notin Rechecking
    BY <1>1, RunFrom DEF Rechecking, Working
  <2>2. todo' = todo
    BY <1>1 DEF RunStep, Acquire, Load, CheckHost, Admit, BeginStage, RecordRunning,
       Preflight, PrepareCertificate, Provision, ListNodes, PostNode, NodeCreated,
       PersistNode, PollNode, CheckHealthy, AddIP, SkipDNS, CompleteStage, Reload,
       Finish, FailRecord, FailState, Abort, ReleaseSlot, Unregister, ctl
  <2> QED BY <2>1, <2>2
<1>2. CASE DetachedStep(w)
  <2>0. pc[w] \in Rechecking => ~ctx[w]
    BY DEF RunInv, Rechecking, Registered, Holding, Working
  <2>1. CASE CreateDeployment(w) \/ BeginExecution(w) \/ RetrySet(w) \/ CancelLoad(w)
             \/ CancelSet(w)
    BY <2>1 DEF CreateDeployment, BeginExecution, RetrySet, CancelLoad, CancelSet, ctl,
       Rechecking
  <2>2. CASE Inspect(w) \/ Probe(w) \/ SkipRecord(w) \/ Lookup(w)
    <3>1. pc[w] \in Rechecking /\ todo' = todo
      BY <2>2 DEF Inspect, Probe, SkipRecord, Lookup, Verdict, ctl, Rechecking
    <3>2. pc'[w] \in Rechecking
      BY <2>0, <2>2, <3>1 DEF Inspect, Probe, SkipRecord, Lookup, Verdict, Goes, Goto,
         Rechecking, TypeInv, ProcOK
    <3> QED BY <3>1, <3>2
  <2>3. CASE AdoptNode(w)
    BY <2>0, <2>3 DEF AdoptNode, Rechecks, EndRecheck, Reset, Goes, Goto, Rechecking, ctl,
       TypeInv, ProcOK
  <2>4. CASE WriteVerdict(w)
    BY <2>4 DEF WriteVerdict, EndRecheck, Reset, Rechecking, TypeInv, ProcOK
  <2> QED BY <1>2, <2>1, <2>2, <2>3, <2>4 DEF DetachedStep, StartRecover
<1> QED BY <1>1, <1>2

-----------------------------------------------------------------------------

\* One goroutine issues all commands.
SoleWorker == \A v, w \in Workers : v = w

\* No command writes a status without being registered.
RunsOnly ==
  \A w \in Workers : Commands[w] \cap {"retry_step", "cancel", "recheck"} = {}

Alone(w) == \A v \in Workers : v # w => pc[v] = "idle"

\* A Prepare that has not begun its stage.
Preparing(w) == loc[w].op = "prepare" /\ pc[w] \in {"insert", "begin", "slot"}

\* Whoever may write the status of a deployment knows that it is not completed.
NotDone == \A w \in Workers : pc[w] \in Overwriting => row[dep[w]].status # "COMPLETED"

NoneListed == \A d \in todo : row[d].status # "COMPLETED"

\* Nobody else works while an unregistered operation may write.
ApartAlone ==
  \A w \in Workers : pc[w] \in Apart =>
    /\ Alone(w) /\ loc[w].op # "prepare"
    /\ SoleWorker \/ todo # {}

\* While the startup recovery has deployments to classify, nothing else runs.
Recovering ==
  /\ todo # {} => \A w \in Workers : pc[w] # "idle" => loc[w].op = "recover"
  /\ \A w \in Workers : pc[w] # "idle" /\ loc[w].op = "recover" => pc[w] \in Rechecking

\* A Prepare that is about to register has its new row to itself.
PrepareFresh ==
  \A w \in Workers : Preparing(w) =>
    /\ row[dep[w]].status \in {"ABSENT", "CREATED"}
    /\ \A v \in Workers : dep[v] = dep[w] /\ v # w => pc[v] \notin Overwriting /\ ~Preparing(v)

FinalInv == NotDone /\ NoneListed /\ ApartAlone /\ Recovering /\ PrepareFresh

\* The steps of the workers preserve it, the insertion of a row apart.
LEMMA WorkerFinal ==
  ASSUME TypeInv, RunInv, TruthInv, FinalInv, NEW w \in Workers,
         RunStep(w) \/ DetachedStep(w), ~CreateDeployment(w), pc[w] # "idle"
  PROVE  FinalInv'
<1> DEFINE d == dep[w]
<1>0. /\ Claims /\ Moves(w) /\ d \in Deployments
      /\ \A v \in Workers : pc[v] # "idle" => dep[v] \in Deployments
  BY RunMoves, DetachedMoves DEF TruthInv, TypeInv, ProcOK
<1>1. /\ \A e \in Deployments : e # d => row'[e] = row[e]
      /\ \/ row'[d].status = row[d].status
         \/ pc[w] \in Overwriting /\ row'[d].status # "COMPLETED"
         \/ pc[w] = "finish" /\ pc'[w] = "releaseSlot"
         \/ pc[w] = "verdict" /\ EndRecheck(w, TRUE)
         \/ pc[w] = "verdict" /\ EndRecheck(w, FALSE)
  BY <1>0, StatusWritten
<1>2. pc'[w] \in Overwriting \cup {"cancelLoad"} =>
        /\ \/ pc[w] \in Overwriting
           \/ /\ pc[w] = "load" /\ row' = row
              /\ row[d].status \notin {"COMPLETED", "CREATED"}
           \/ pc[w] = "slot" /\ loc[w].op = "prepare" /\ row' = row
           \/ pc[w] = "cancelLoad" /\ row' = row /\ row[d].status # "COMPLETED"
        /\ pc'[w] \in Apart => pc[w] \in Apart
  BY Arrivals
<1>3. /\ pc[w] \in Rechecking => pc'[w] \in Rechecking \cup {"idle"}
      /\ \/ todo' = todo
         \/ /\ pc[w] \in Rechecking /\ loc[w].op = "recover" /\ pc'[w] = "idle"
            /\ todo' = todo \ {d} \/ todo' = Unfinished(row')
  BY RecheckSteps
<1>4. /\ "finish" \in Overwriting /\ "verdict" \in Overwriting /\ "verdict" \in Apart
      /\ "releaseSlot" \notin Overwriting /\ "idle" \notin Overwriting
      /\ Apart \subseteq Overwriting \cup {"cancelLoad"} /\ Rechecking \subseteq Apart
      /\ "idle" \notin Apart /\ "finish" \in Registered /\ "finish" \notin Rechecking
      /\ Overwriting \subseteq Registered \cup Apart /\ "reload" \notin Rechecking
      /\ "cancelLoad" \in Apart /\ "verdict" \in Rechecking
  BY DEF Overwriting, Apart, Rechecking, Working, Registered, Holding
<1>5. ASSUME NEW ok, EndRecheck(w, ok) PROVE pc'[w] = "idle"
  BY <1>5 DEF EndRecheck, Reset, TypeInv, ProcOK
<1>6. \A v \in Workers \ {w} : pc'[v] = pc[v] /\ dep'[v] = dep[v] /\ loc'[v] = loc[v]
  BY <1>0 DEF Moves
<1>7. pc'[w] # "idle" =>
        /\ dep'[w] = d
        /\ loc'[w].op = loc[w].op \/ (pc[w] = "reload" /\ loc'[w].op = "prepared")
  BY <1>0 DEF Moves
<1>8. row'[d].status = "COMPLETED" /\ row[d].status # "COMPLETED" =>
        /\ pc[w] \in {"finish", "verdict"}
        /\ pc'[w] \in {"releaseSlot", "idle"}
  BY <1>1, <1>5
<1>9. NotDone'
  <2> SUFFICES ASSUME NEW v \in Workers, pc'[v] \in Overwriting
               PROVE  row'[dep'[v]].status # "COMPLETED"
    BY DEF NotDone
  <2>1. CASE v = w
    <3>1. dep'[w] = d
      BY <1>4, <1>7, <2>1
    <3>2. row[d].status # "COMPLETED" \/ (pc[w] = "slot" /\ loc[w].op = "prepare")
      BY <1>2, <2>1 DEF FinalInv, NotDone
    <3>3. row[d].status # "COMPLETED"
      BY <3>2 DEF FinalInv, PrepareFresh, Preparing
    <3> QED BY <1>4, <1>8, <2>1, <3>1, <3>3
  <2>2. CASE v # w
    <3>1. /\ pc[v] \in Overwriting /\ dep'[v] = dep[v] /\ row[dep[v]].status # "COMPLETED"
          /\ dep[v] \in Deployments
      BY <1>0, <1>4, <1>6, <2>2 DEF FinalInv, NotDone
    <3>2. CASE dep[v] # d
      BY <1>1, <3>1, <3>2
    <3>3. CASE dep[v] = d
      <4> SUFFICES ASSUME row'[d].status = "COMPLETED" PROVE FALSE
        BY <3>1, <3>3
      <4>1. pc[w] \in {"finish", "verdict"}
        BY <1>8, <3>1, <3>3
      <4>2. pc[w] # "verdict" /\ pc[v] \notin Apart
        BY <1>4, <2>2, <3>1 DEF FinalInv, ApartAlone, Alone
      <4>3. pc[v] \in Registered /\ pc[w] \in Registered
        BY <1>4, <3>1, <4>1, <4>2
      <4> QED BY <2>2, <3>3, <4>3 DEF RunInv
    <3> QED BY <3>2, <3>3
  <2> QED BY <2>1, <2>2
<1>10. NoneListed'
  <2> SUFFICES ASSUME NEW e \in todo', row'[e].status = "COMPLETED" PROVE FALSE
    BY DEF NoneListed
  <2>1. todo' # Unfinished(row')
    BY DEF Unfinished, Terminal
  <2>2. e \in todo /\ e \in Deployments /\ row[e].status # "COMPLETED"
    BY <1>3, <2>1 DEF FinalInv, NoneListed, TypeInv, CtlOK
  <2>3. e = d
    BY <1>1, <2>2
  <2>4. loc[w].op = "recover" /\ pc[w] \in Rechecking
    BY <2>2 DEF FinalInv, Recovering
  <2>5. pc[w] = "verdict"
    BY <1>4, <1>8, <2>2, <2>3, <2>4
  <2>6. EndRecheck(w, TRUE) \/ EndRecheck(w, FALSE)
    BY <1>1, <2>2, <2>3, <2>5, <1>5, <1>8
  <2> QED BY <2>1, <2>3, <2>4, <2>6 DEF EndRecheck
<1>11. ApartAlone'
  <2> SUFFICES ASSUME NEW v \in Workers, pc'[v] \in Apart
               PROVE  Alone(v)' /\ loc'[v].op # "prepare" /\ (SoleWorker \/ todo' # {})
    BY DEF ApartAlone
  <2>1. CASE v = w
    <3>1. pc[w] \in Apart /\ pc'[w] # "idle"
      BY <1>2, <1>4, <2>1
    <3>2. Alone(w) /\ loc[w].op # "prepare" /\ (SoleWorker \/ todo # {})
      BY <3>1 DEF FinalInv, ApartAlone
    <3> QED BY <1>3, <1>6, <1>7, <2>1, <3>1, <3>2 DEF Alone
  <2>2. CASE v # w
    <3>1. pc[v] \in Apart
      BY <1>6, <2>2
    <3> QED BY <2>2, <3>1 DEF FinalInv, ApartAlone, Alone
  <2> QED BY <2>1, <2>2
<1>12. Recovering'
  <2>1. ASSUME NEW v \in Workers, pc'[v] # "idle", loc'[v].op = "recover"
        PROVE  pc'[v] \in Rechecking
    BY <1>3, <1>6, <1>7, <2>1 DEF FinalInv, Recovering
  <2>2. ASSUME todo' # {}, NEW v \in Workers, pc'[v] # "idle"
        PROVE  loc'[v].op = "recover"
    <3>1. CASE v = w
      <4>1. todo # {}
        BY <1>3, <2>2, <3>1
      <4>2. loc[w].op = "recover" /\ pc[w] \in Rechecking
        BY <4>1 DEF FinalInv, Recovering
      <4> QED BY <1>4, <1>7, <2>2, <3>1, <4>2
    <3>2. CASE v # w
      <4>1. pc[v] # "idle"
        BY <1>6, <2>2, <3>2
      <4>2. todo' = todo
        BY <1>3, <1>4, <3>2, <4>1 DEF FinalInv, ApartAlone, Alone
      <4> QED BY <1>6, <2>2, <3>2, <4>1, <4>2 DEF FinalInv, Recovering
    <3> QED BY <3>1, <3>2
  <2> QED BY <2>1, <2>2 DEF Recovering
<1>13. Preparing(w)' => Preparing(w) /\ row' = row
  <2>1. CASE RunStep(w)
    <3>1. pc[w] \in Working \cup {"slot", "releaseSlot", "unregister"}
      BY <2>1, RunFrom
    <3>2. pc'[w] \in Holding \cup {"unregister", "idle"}
      BY <2>1, RunStays DEF RunStep, Stays, Acquire, Admitted, Goes, Goto, Abort,
         ReleaseSlot, Unregister, Reset, Holding, Working, TypeInv, ProcOK
    <3> QED BY <3>2 DEF Preparing, Holding, Working
  <2>2. CASE DetachedStep(w)
    <3>1. CASE BeginExecution(w)
      <4>1. row' = row /\ pc[w] = "begin"
        BY <3>1 DEF BeginExecution, db
      <4> QED BY <1>7, <4>1 DEF Preparing
    <3>2. CASE pc[w] \in Apart
      <4>1. loc[w].op # "prepare"
        BY <3>2 DEF FinalInv, ApartAlone
      <4> QED BY <1>7, <4>1 DEF Preparing
    <3> QED BY <2>2, <3>1, <3>2 DEF DetachedStep, RetrySet, CancelLoad, CancelSet,
          Inspect, AdoptNode, Probe, SkipRecord, Lookup, WriteVerdict, StartRecover,
          Apart, Rechecking
  <2> QED BY <2>1, <2>2
<1>14. PrepareFresh'
  <2> SUFFICES ASSUME NEW v \in Workers, Preparing(v)'
               PROVE  /\ row'[dep'[v]].status \in {"ABSENT", "CREATED"}
                      /\ \A u \in Workers : dep'[u] = dep'[v] /\ u # v =>
                           pc'[u] \notin Overwriting /\ ~Preparing(u)'
    BY DEF PrepareFresh
  <2>1. CASE v = w
    <3>1. Preparing(w) /\ row' = row /\ dep'[w] = d
      BY <1>7, <1>13, <2>1 DEF Preparing
    <3>2. /\ row[d].status \in {"ABSENT", "CREATED"}
          /\ \A u \in Workers : dep[u] = d /\ u # w => pc[u] \notin Overwriting /\ ~Preparing(u)
      BY <3>1 DEF FinalInv, PrepareFresh
    <3> QED BY <1>6, <2>1, <3>1, <3>2 DEF Preparing
  <2>2. CASE v # w
    <3>1. Preparing(v) /\ dep'[v] = dep[v] /\ pc[v] # "idle"
      BY <1>6, <2>2 DEF Preparing
    <3>2. /\ row[dep[v]].status \in {"ABSENT", "CREATED"}
          /\ \A u \in Workers : dep[u] = dep[v] /\ u # v => pc[u] \notin Overwriting /\ ~Preparing(u)
          /\ dep[v] \in Deployments
      BY <1>0, <3>1 DEF FinalInv, PrepareFresh
    <3>3. row'[dep[v]].status = row[dep[v]].status
      BY <1>1, <1>4, <2>2, <3>2
    <3>4. dep[v] = d => pc[w] \notin Overwriting /\ ~Preparing(w) /\ row[d].status = "CREATED"
      <4>1. pc[w] # "insert" => row[d].status # "ABSENT"
        BY <1>0 DEF Claims, Claim
      <4>2. pc[w] # "insert"
        BY DEF RunStep, DetachedStep, Acquire, Load, CheckHost, Admit, BeginStage,
           RecordRunning, Preflight, PrepareCertificate, Provision, ListNodes, PostNode,
           NodeCreated, PersistNode, PollNode, CheckHealthy, AddIP, SkipDNS,
           CompleteStage, Reload, Finish, FailRecord, FailState, Abort, ReleaseSlot,
           Unregister, InFlight, Working, BeginExecution, RetrySet, CancelLoad,
           CancelSet, Inspect, AdoptNode, Probe, SkipRecord, Lookup, WriteVerdict,
           StartRecover
      <4> QED BY <2>2, <3>2, <4>1, <4>2
    <3>5. dep[v] = d => pc'[w] \notin Overwriting /\ ~Preparing(w)'
      <4>1. pc[w] # "cancelLoad"
        BY <1>4, <2>2, <3>1 DEF FinalInv, ApartAlone, Alone
      <4> QED BY <1>2, <1>13, <3>4, <4>1 DEF Preparing
    <3>6. ASSUME NEW u \in Workers, dep'[u] = dep'[v], u # v
          PROVE  pc'[u] \notin Overwriting /\ ~Preparing(u)'
      <4>1. CASE u = w
        <5>1. pc'[w] # "idle" => dep[v] = d
          BY <1>7, <3>1, <3>6, <4>1
        <5> QED BY <1>4, <3>5, <4>1, <5>1 DEF Preparing
      <4>2. CASE u # w
        BY <1>6, <3>1, <3>2, <3>6, <4>2 DEF Preparing
      <4> QED BY <4>1, <4>2
    <3> QED BY <3>1, <3>2, <3>3, <3>6
  <2> QED BY <2>1, <2>2
<1> QED BY <1>9, <1>10, <1>11, <1>12, <1>14 DEF FinalInv

\* So does the insertion of a row, of which nobody else knows.
LEMMA InsertFinal ==
  ASSUME TypeInv, RunInv, TruthInv, FinalInv, NEW w \in Workers, CreateDeployment(w)
  PROVE  FinalInv'
<1> DEFINE d == dep[w]
<1>0. /\ Moves(w) /\ d \in Deployments /\ pc[w] = "insert" /\ row[d].status = "ABSENT"
      /\ \A v \in Workers : pc[v] # "idle" => dep[v] \in Deployments
  <2>1. pc[w] = "insert" /\ DetachedStep(w)
    BY DEF CreateDeployment, DetachedStep
  <2> QED BY <2>1, DetachedMoves DEF TruthInv, Claims, Claim, TypeInv, ProcOK
<1>1. /\ row'[d].status \in {"ABSENT", "CREATED"} /\ todo' = todo
      /\ \A e \in Deployments : e # d => row'[e] = row[e]
      /\ pc'[w] \in {"begin", "idle"}
  BY <1>0 DEF CreateDeployment, InsertRow, Reset, ctl, TypeInv, DbOK, ProcOK
<1>2. \A v \in Workers \ {w} : pc'[v] = pc[v] /\ dep'[v] = dep[v] /\ loc'[v] = loc[v]
  BY <1>0 DEF Moves
<1>3. pc'[w] # "idle" => dep'[w] = d /\ loc'[w].op = loc[w].op
  BY <1>0 DEF Moves
<1>4. {"begin", "idle", "insert"} \cap (Overwriting \cup Apart) = {}
      /\ Rechecking \subseteq Apart /\ "idle" \notin Apart
  BY DEF Overwriting, Apart, Rechecking, Working
<1>5. NotDone'
  <2> SUFFICES ASSUME NEW v \in Workers, pc'[v] \in Overwriting
               PROVE  row'[dep'[v]].status # "COMPLETED"
    BY DEF NotDone
  <2>1. v # w /\ pc[v] \in Overwriting /\ dep'[v] = dep[v] /\ dep[v] \in Deployments
    BY <1>0, <1>1, <1>2, <1>4
  <2> QED BY <1>1, <2>1 DEF FinalInv, NotDone
<1>6. NoneListed'
  BY <1>1 DEF FinalInv, NoneListed, TypeInv, CtlOK
<1>7. ApartAlone'
  BY <1>0, <1>1, <1>2, <1>4 DEF FinalInv, ApartAlone, Alone
<1>8. Recovering'
  BY <1>0, <1>1, <1>2, <1>3, <1>4 DEF FinalInv, Recovering
<1>9. PrepareFresh'
  <2> SUFFICES ASSUME NEW v \in Workers, Preparing(v)'
               PROVE  /\ row'[dep'[v]].status \in {"ABSENT", "CREATED"}
                      /\ \A u \in Workers : dep'[u] = dep'[v] /\ u # v =>
                           pc'[u] \notin Overwriting /\ ~Preparing(u)'
    BY DEF PrepareFresh
  <2>1. ASSUME NEW u \in Workers, Preparing(u)'
        PROVE  Preparing(u) /\ dep'[u] = dep[u] /\ dep[u] \in Deployments
    BY <1>0, <1>1, <1>2, <1>3, <2>1 DEF Preparing
  <2>2. row[dep[v]].status \in {"ABSENT", "CREATED"}
    BY <2>1 DEF FinalInv, PrepareFresh
  <2>3. row'[dep'[v]].status \in {"ABSENT", "CREATED"}
    BY <1>1, <2>1, <2>2
  <2>4. ASSUME NEW u \in Workers, dep'[u] = dep'[v], u # v, pc'[u] \in Overwriting PROVE FALSE
    <3>1. pc[u] \in Overwriting /\ dep[u] = dep[v]
      BY <1>1, <1>2, <1>4, <2>1, <2>4
    <3> QED BY <2>1, <2>4, <3>1 DEF FinalInv, PrepareFresh
  <2>5. ASSUME NEW u \in Workers, dep'[u] = dep'[v], u # v, Preparing(u)' PROVE FALSE
    <3>1. Preparing(u) /\ dep[u] = dep[v]
      BY <2>1, <2>5
    <3> QED BY <2>1, <2>5, <3>1 DEF FinalInv, PrepareFresh
  <2> QED BY <2>3, <2>4, <2>5
<1> QED BY <1>5, <1>6, <1>7, <1>8, <1>9 DEF FinalInv

\* A command that starts, or a recheck of the startup recovery, preserves it.
LEMMA StartFinal ==
  ASSUME SoleWorker \/ RunsOnly, TypeInv, TruthInv, FinalInv,
         NEW w \in Workers, NEW d \in Deployments,
         \/ StartPrepare(w, d) \/ StartDeploy(w, d) \/ StartRetryDNS(w, d)
         \/ StartRetryStep(w, d) \/ StartCancel(w, d) \/ StartRecheck(w, d)
         \/ StartRecover(w, d)
  PROVE  FinalInv'
<1>0. /\ row' = row /\ todo' = todo /\ pc[w] = "idle"
      /\ dep' = [dep EXCEPT ![w] = d]
      /\ \E l : pc' = [pc EXCEPT ![w] = l]
      /\ \E x : loc' = [loc EXCEPT ![w] = x]
  BY DEF StartPrepare, StartDeploy, StartRetryDNS, StartRetryStep, StartCancel,
         StartRecheck, StartRecover, Start, Classify, Set, db, ctl
<1>1. /\ \A v \in Workers \ {w} : pc'[v] = pc[v] /\ dep'[v] = dep[v] /\ loc'[v] = loc[v]
      /\ dep'[w] = d
  BY <1>0 DEF TypeInv, ProcOK
<1>2. {"insert", "begin"} \cap (Overwriting \cup Apart) = {} /\ "cancelLoad" \notin Overwriting
      /\ Rechecking \subseteq Apart
  BY DEF Overwriting, Apart, Rechecking, Working
<1>3. CASE StartPrepare(w, d)
  <2>1. /\ pc'[w] = "insert" /\ loc'[w].op = "prepare" /\ row[d].status = "ABSENT"
        /\ todo = {} /\ \A v \in Workers : dep[v] # d
    BY <1>3 DEF StartPrepare, Start, Set, Blank, NoRow, TypeInv, ProcOK
  <2>2. NotDone' /\ NoneListed'
    BY <1>0, <1>1, <1>2, <2>1 DEF FinalInv, NotDone, NoneListed
  <2>3. ApartAlone'
    <3> SUFFICES ASSUME NEW v \in Workers, pc'[v] \in Apart
                 PROVE  Alone(v)' /\ loc'[v].op # "prepare" /\ (SoleWorker \/ todo' # {})
      BY DEF ApartAlone
    <3>1. v # w /\ pc[v] \in Apart
      BY <1>1, <1>2, <2>1
    <3> QED BY <1>1, <2>1, <3>1 DEF FinalInv, ApartAlone, SoleWorker
  <2>4. Recovering'
    BY <1>0, <1>1, <2>1 DEF FinalInv, Recovering
  <2>5. PrepareFresh'
    BY <1>0, <1>1, <1>2, <2>1 DEF FinalInv, PrepareFresh, Preparing
  <2> QED BY <2>2, <2>3, <2>4, <2>5 DEF FinalInv
<1>4. CASE StartDeploy(w, d) \/ StartRetryDNS(w, d)
  <2>1. pc'[w] = "begin" /\ loc'[w].op \in {"deploy", "retry_dns"} /\ todo = {}
    BY <1>4 DEF StartDeploy, StartRetryDNS, Start, Set, Blank, TypeInv, ProcOK
  <2>2. NotDone' /\ NoneListed'
    BY <1>0, <1>1, <1>2, <2>1 DEF FinalInv, NotDone, NoneListed
  <2>3. ApartAlone'
    <3> SUFFICES ASSUME NEW v \in Workers, pc'[v] \in Apart
                 PROVE  Alone(v)' /\ loc'[v].op # "prepare" /\ (SoleWorker \/ todo' # {})
      BY DEF ApartAlone
    <3>1. v # w /\ pc[v] \in Apart
      BY <1>1, <1>2, <2>1
    <3> QED BY <1>1, <2>1, <3>1 DEF FinalInv, ApartAlone, SoleWorker
  <2>4. Recovering'
    BY <1>0, <1>1, <2>1 DEF FinalInv, Recovering
  <2>5. PrepareFresh'
    <3>1. ~Preparing(w)' /\ pc'[w] \notin Overwriting
      BY <1>2, <2>1 DEF Preparing
    <3>2. \A v \in Workers : v # w => (Preparing(v)' <=> Preparing(v))
      BY <1>1 DEF Preparing
    <3> QED BY <1>0, <1>1, <3>1, <3>2 DEF FinalInv, PrepareFresh
  <2> QED BY <2>2, <2>3, <2>4, <2>5 DEF FinalInv
<1>5. CASE StartRetryStep(w, d) \/ StartCancel(w, d) \/ StartRecheck(w, d) \/ StartRecover(w, d)
  <2>1. /\ pc'[w] \in Apart /\ loc'[w].op # "prepare"
        /\ loc'[w].op = "recover" => pc'[w] \in Rechecking /\ StartRecover(w, d)
        /\ StartRecover(w, d) => loc'[w].op = "recover"
        /\ pc'[w] = "cancelLoad" \/ row[d].status # "COMPLETED"
    <3>1. CASE StartRetryStep(w, d) \/ StartCancel(w, d)
      <4>1. ~StartRecover(w, d) \/ todo # {}
        BY DEF StartRecover
      <4>2. todo = {} /\ pc'[w] \in {"retrySet", "cancelLoad"}
            /\ loc'[w].op \in {"deploy", "retry_dns", "cancel"}
            /\ (pc'[w] = "cancelLoad" \/ row[d].status # "COMPLETED")
        <5>1. CASE StartRetryStep(w, d)
          <6>1. pc' = [pc EXCEPT ![w] = "retrySet"] /\ todo = {} /\ row[d].status = "FAILED"
            BY <5>1 DEF StartRetryStep, Start
          <6>2. loc' = [loc EXCEPT ![w] =
                  [Blank EXCEPT !.op = IF row[d].step = "add_dns" THEN "retry_dns" ELSE "deploy",
                                !.out = [status |-> ResumeOf[row[d].step], step |-> row[d].step]]]
            BY <5>1 DEF StartRetryStep, Start, Set
          <6>3. loc'[w].op = IF row[d].step = "add_dns" THEN "retry_dns" ELSE "deploy"
            BY <6>2 DEF Blank, TypeInv, ProcOK
          <6>4. pc'[w] = "retrySet"
            BY <6>1 DEF TypeInv, ProcOK
          <6> QED BY <6>1, <6>3, <6>4
        <5>2. CASE StartCancel(w, d)
          BY <5>2 DEF StartCancel, Set, Blank, TypeInv, ProcOK
        <5> QED BY <3>1, <5>1, <5>2
      <4> QED BY <4>1, <4>2 DEF Apart
    <3>2. ASSUME NEW op \in {"recheck", "recover"}, Classify(w, d, op)
          PROVE  pc'[w] \in Rechecking /\ loc'[w].op = op
      BY <3>2 DEF Classify, Set, Blank, Rechecking, TypeInv, ProcOK
    <3>3. CASE StartRecheck(w, d)
      <4>1. ~StartRecover(w, d)
        BY <3>3 DEF StartRecheck, StartRecover
      <4> QED BY <1>2, <3>2, <3>3, <4>1 DEF StartRecheck
    <3>4. CASE StartRecover(w, d)
      BY <1>2, <3>2, <3>4 DEF StartRecover, FinalInv, NoneListed
    <3> QED BY <1>5, <3>1, <3>3, <3>4
  <2>2. Alone(w) /\ (SoleWorker \/ todo # {})
    <3>1. CASE StartRecover(w, d)
      BY <3>1 DEF StartRecover, Alone
    <3>2. CASE ~StartRecover(w, d)
      <4>1. SoleWorker
        BY <1>5, <3>2 DEF StartRetryStep, StartCancel, StartRecheck, RunsOnly
      <4> QED BY <4>1 DEF SoleWorker, Alone
    <3> QED BY <3>1, <3>2
  <2>3. NotDone'
    BY <1>0, <1>1, <1>2, <2>1 DEF FinalInv, NotDone
  <2>4. NoneListed'
    BY <1>0 DEF FinalInv, NoneListed
  <2>5. ASSUME NEW v \in Workers, v # w PROVE pc[v] = "idle" /\ pc'[v] = "idle"
    BY <1>1, <2>2, <2>5 DEF Alone
  <2>6. ApartAlone'
    <3>1. "idle" \notin Apart
      BY DEF Apart, Rechecking
    <3> QED BY <1>0, <2>1, <2>2, <2>5, <3>1 DEF ApartAlone, Alone
  <2>7. Recovering'
    <3>1. todo # {} => StartRecover(w, d)
      BY <1>5 DEF StartRetryStep, StartCancel, StartRecheck, Start
    <3> QED BY <1>0, <2>1, <2>5, <3>1 DEF Recovering
  <2>8. PrepareFresh'
    BY <2>1, <2>5 DEF PrepareFresh, Preparing
  <2> QED BY <2>3, <2>4, <2>6, <2>7, <2>8 DEF FinalInv
<1> QED BY <1>3, <1>4, <1>5

\* Every step preserves FinalInv.
LEMMA FinalStep ==
  ASSUME SoleWorker \/ RunsOnly, TypeInv, RunInv, TruthInv, FinalInv, [Next]_vars
  PROVE  FinalInv'
<1>1. ASSUME NEW w \in Workers, Command(w) PROVE FinalInv'
  BY <1>1, StartFinal DEF Command
<1>2. ASSUME NEW w \in Workers, RunStep(w) \/ DetachedStep(w) PROVE FinalInv'
  <2>1. CASE pc[w] = "idle"
    <3>1. PICK d \in Deployments : StartRecover(w, d)
      BY <1>2, <2>1, RunFrom DEF DetachedStep, CreateDeployment, BeginExecution, RetrySet,
         CancelLoad, CancelSet, Inspect, AdoptNode, Probe, SkipRecord, Lookup,
         WriteVerdict, Working
    <3> QED BY <3>1, StartFinal
  <2> QED BY <1>2, <2>1, WorkerFinal, InsertFinal
<1>3. CASE Panel
  <2>1. UNCHANGED <<row, todo, pc, dep>>
    BY <1>3 DEF Panel, PanelCreates, PanelCreatesLate, procs, db, ctl
  <2>2. ASSUME NEW v \in Workers PROVE loc'[v].op = loc[v].op
    <3>1. loc'[v] = loc[v] \/ PanelCreates(v)
      BY <1>3 DEF Panel, PanelCreates, PanelCreatesLate, Set, procs, TypeInv, ProcOK
    <3>2. ASSUME PanelCreates(v) PROVE loc'[v].op = loc[v].op
      BY <3>2 DEF PanelCreates, Set, TypeInv, ProcOK, Locals
    <3> QED BY <3>1, <3>2
  <2> QED BY <2>1, <2>2 DEF FinalInv, NotDone, NoneListed, ApartAlone, Alone, Recovering,
       PrepareFresh, Preparing
<1>4. CASE Crash
  <2>1. row' = row /\ todo' = Unfinished(row) /\ pc' = [w \in Workers |-> "idle"]
    BY <1>4 DEF Crash, db
  <2>2. "idle" \notin Overwriting /\ "idle" \notin Apart
    BY DEF Overwriting, Apart, Rechecking, Working
  <2> QED BY <2>1, <2>2 DEF FinalInv, NotDone, NoneListed, ApartAlone, Recovering,
       PrepareFresh, Preparing, Unfinished, Terminal
<1>5. CASE UNCHANGED vars
  BY <1>5 DEF vars, FinalInv, NotDone, NoneListed, ApartAlone, Alone, Recovering,
     PrepareFresh, Preparing
<1> QED BY <1>1, <1>2, <1>3, <1>4, <1>5 DEF Next

\* FinalInv holds initially.
LEMMA FinalInit == Init => FinalInv
<1>1. "idle" \notin Overwriting /\ "idle" \notin Apart
  BY DEF Overwriting, Apart, Rechecking, Working
<1> QED BY <1>1 DEF Init, FinalInv, NotDone, NoneListed, ApartAlone, Recovering,
     PrepareFresh, Preparing

\* No step takes a row out of COMPLETED.
LEMMA FinalAction ==
  ASSUME TypeInv, TruthInv, FinalInv, [Next]_vars, NEW e \in Deployments,
         row[e].status = "COMPLETED"
  PROVE  row'[e].status = "COMPLETED"
<1>1. ASSUME NEW w \in Workers, RunStep(w) \/ DetachedStep(w), ~CreateDeployment(w),
             pc[w] # "idle"
      PROVE  row'[e].status = "COMPLETED"
  <2>1. e = dep[w] => pc[w] \notin Overwriting
    BY DEF FinalInv, NotDone
  <2>2. "finish" \in Overwriting /\ "verdict" \in Overwriting
    BY DEF Overwriting, Working, Apart, Rechecking
  <2> QED BY <1>1, <2>1, <2>2, StatusWritten DEF TruthInv
<1>2. ASSUME NEW w \in Workers, CreateDeployment(w) PROVE row'[e] = row[e]
  <2>1. row[dep[w]].status = "ABSENT" /\ dep[w] \in Deployments
    BY <1>2 DEF CreateDeployment, TruthInv, Claims, Claim, TypeInv, ProcOK
  <2> QED BY <1>2, <2>1 DEF CreateDeployment, InsertRow, TypeInv, DbOK
<1>3. ASSUME NEW w \in Workers, RunStep(w) \/ DetachedStep(w), pc[w] = "idle"
      PROVE  row' = row
  BY <1>3, RunFrom DEF DetachedStep, CreateDeployment, BeginExecution, RetrySet,
     CancelLoad, CancelSet, Inspect, AdoptNode, Probe, SkipRecord, Lookup,
     WriteVerdict, StartRecover, Classify, db, Working
<1>4. ASSUME NEW w \in Workers, Command(w) PROVE row' = row
  BY <1>4 DEF Command, StartPrepare, StartDeploy, StartRetryDNS, StartRetryStep,
     StartCancel, StartRecheck, Classify, db
<1>5. Panel \/ Crash \/ UNCHANGED vars => row' = row
  BY DEF Panel, PanelCreates, PanelCreatesLate, Crash, vars, db
<1> QED BY <1>1, <1>2, <1>3, <1>4, <1>5 DEF Next

\* Nothing moves a deployment out of COMPLETED, whatever fails and however
\* often the process restarts, as long as no command that writes a status
\* without being registered (RetryFailedStep, Cancel, RecheckRemnawave) can
\* overlap another one: there is one goroutine, or nobody issues them.
THEOREM CompletedStays ==
  ASSUME SoleWorker \/ RunsOnly
  PROVE  Spec => CompletedFinal
<1> DEFINE Inv == TypeInv /\ RunInv /\ TruthInv /\ FinalInv
<1>1. Init => Inv
  BY TypeInit, RunInit, TruthInit, FinalInit
<1>2. Inv /\ [Next]_vars => Inv'
  BY TypeStep, RunStepInv, TruthStep, FinalStep
<1>3. Inv /\ [Next]_vars =>
        [\A d \in Deployments :
           row[d].status = "COMPLETED" => row'[d].status = "COMPLETED"]_vars
  BY FinalAction
<1> QED BY <1>1, <1>2, <1>3, PTL DEF Spec, CompletedFinal

-----------------------------------------------------------------------------
(* The Node comes after the provisioning. *)

\* A row, or a status and a step about to be written, past the provisioning.
Past(r) ==
  \/ r.status \in {"CREATING_REMNAWAVE_NODE", "WAITING_REMNAWAVE", "ADDING_TO_DNS",
                   "DNS_FAILED", "COMPLETED"}
  \/ r.step \in AllAhead

\* The statuses from which Deploy resumes, MANUAL_REVIEW apart.
Resumable == {"PREFLIGHT", "PREPARING_CERTIFICATE", "PROVISIONING",
              "CREATING_REMNAWAVE_NODE", "WAITING_REMNAWAVE", "ADDING_TO_DNS"}

\* What a worker of d that is at label l with locals x owes to the provisioning.
Earned(l, x, d, prov) ==
  /\ \/ Past(x.cur) \/ Past(x.out) \/ x.stage \in AllAhead
     \/ l \in Rechecking \ {"verdict"}
     => d \in prov
  /\ l \in {"host", "admit"} => x.cur.status \in Resumable
  /\ l \notin Rechecking =>
       /\ x.out.status # "MANUAL_REVIEW"
       /\ x.stage = "preflight" => x.op \in {"prepare", "prepared"}

AllEarned == \A w \in Workers : pc[w] # "idle" =>
               Earned(pc[w], loc[w], dep[w], provisioned)

RowsEarned == \A d \in Deployments : Past(row[d]) => d \in provisioned

\* What it leaves w with.
Earns(w) == pc'[w] # "idle" => Earned(pc'[w], loc'[w], dep'[w], provisioned')

\* Going on to a label inside a run; a cancelled run leaves with the same locals.
LEMMA GoesEarns ==
  ASSUME TypeInv, NEW w \in Workers, NEW l, NEW x, Goes(w, l, x),
         Earned(l, x, dep[w], provisioned'), l \notin Rechecking \/ ~ctx[w]
  PROVE  Earns(w)
<1>1. /\ pc'[w] = (IF ctx[w] THEN "releaseSlot" ELSE l)
      /\ dep'[w] = dep[w] /\ loc'[w] = x
  BY DEF Goes, Goto, Set, Keep, TypeInv, ProcOK
<1>2. l \notin Rechecking => Earned("releaseSlot", x, dep[w], provisioned')
  BY DEF Earned, Rechecking
<1> QED BY <1>1, <1>2 DEF Earns

\* What a worker owed it still has.
LEMMA StillEarned ==
  ASSUME AllEarned, provisioned \subseteq provisioned', NEW w \in Workers, pc[w] # "idle"
  PROVE  Earned(pc[w], loc[w], dep[w], provisioned')
  BY DEF AllEarned, Earned

\* Returning to the deferred release of a run.
LEMMA StopEarns ==
  ASSUME TypeInv, AllEarned, provisioned \subseteq provisioned', NEW w \in Workers,
         pc[w] \notin Rechecking \cup {"idle"}, Stop(w)
  PROVE  Earns(w)
<1>1. pc'[w] = "releaseSlot" /\ dep'[w] = dep[w] /\ loc'[w] = loc[w]
  BY DEF Stop, TypeInv, ProcOK
<1>2. Earned(pc[w], loc[w], dep[w], provisioned')
  BY StillEarned
<1> QED BY <1>1, <1>2 DEF Earns, Earned, Rechecking

\* Entering failStage with a step that is not ahead of the provisioning.
LEMMA FailsEarns ==
  ASSUME TypeInv, AllEarned, provisioned \subseteq provisioned', NEW w \in Workers,
         pc[w] \notin Rechecking \cup {"idle"}, NEW status, NEW step, Fails(w, status, step),
         status # "MANUAL_REVIEW",
         status # "FAILED" \/ step \in AllAhead => dep[w] \in provisioned'
  PROVE  Earns(w)
<1> DEFINE x == [loc[w] EXCEPT !.out = [status |-> status, step |-> step]]
<1>1. /\ x.cur = loc[w].cur /\ x.stage = loc[w].stage /\ x.op = loc[w].op
      /\ x.out.status = status /\ x.out.step = step
  BY DEF TypeInv, ProcOK, Locals
<1>2. Goes(w, "failRecord", x)
  BY DEF Fails
<1> HIDE DEF x
<1>3. Earned(pc[w], loc[w], dep[w], provisioned')
  BY StillEarned
<1>4. Past(x.out) => status # "FAILED" \/ step \in AllAhead
  BY <1>1 DEF Past
<1>5. Earned("failRecord", x, dep[w], provisioned')
  BY <1>1, <1>3, <1>4 DEF Earned, Rechecking
<1> QED BY <1>2, <1>5, GoesEarns DEF Rechecking

\* A stage entered from a row lies ahead only if the row is past the
\* provisioning or the run has just got there.
LEMMA EnterStageEarns ==
  ASSUME TypeInv, AllEarned, provisioned \subseteq provisioned', NEW w \in Workers,
         pc[w] \notin Rechecking \cup {"idle"}, NEW current, NEW ahead,
         EnterStage(w, current, ahead),
         Past(current) \/ NextStage(current, ahead) # "none" => dep[w] \in provisioned'
  PROVE  Earns(w)
<1> DEFINE stage == NextStage(current, ahead)
           into  == [loc[w] EXCEPT !.stage = stage, !.cur = current]
           fail  == [into EXCEPT !.out = [status |-> "FAILED", step |-> stage]]
           l     == IF current.status = StatusOf[stage]
                      THEN StageBody(stage, current) ELSE "setState"
<1>1. /\ into.cur = current /\ fail.cur = current
      /\ into.stage = stage /\ fail.stage = stage
      /\ into.out = loc[w].out /\ fail.out = [status |-> "FAILED", step |-> stage]
  BY DEF TypeInv, ProcOK, Locals
<1>2. \/ Stop(w)
      \/ stage # "none" /\ (Goes(w, "failRecord", fail) \/ Goes(w, l, into))
  BY DEF EnterStage
<1>3. l \notin Rechecking \cup {"host", "admit"}
  BY DEF StageBody, Rechecking
<1>4. /\ stage # "none" => dep[w] \in provisioned'
      /\ stage # "preflight"
  BY DEF NextStage
<1> HIDE DEF into, fail, l, stage
<1>5. Earned(pc[w], loc[w], dep[w], provisioned')
  BY StillEarned
<1>6. stage # "none" => /\ Earned("failRecord", fail, dep[w], provisioned')
                        /\ Earned(l, into, dep[w], provisioned')
  BY <1>1, <1>3, <1>4, <1>5 DEF Earned, Rechecking
<1> QED BY <1>2, <1>3, <1>6, GoesEarns, StopEarns DEF Rechecking

\* The steps of a run earn what they go on with.
LEMMA RunEarns ==
  ASSUME TypeInv, Claims, AllEarned, RowsEarned, provisioned \subseteq provisioned',
         \A d \in Deployments : row[d].status = "MANUAL_REVIEW" =>
           \A v \in Workers : pc[v] # "idle" /\ dep[v] = d => loc[v].op # "deploy",
         NEW w \in Workers, RunStep(w)
  PROVE  Earns(w)
<1> DEFINE E(l, x) == Earned(l, x, dep[w], provisioned')
<1>0. pc[w] \notin Rechecking \cup {"idle"}
  BY RunFrom DEF Working, Rechecking
<1>a. /\ dep[w] \in Deployments /\ loc[w] \in Locals /\ row[dep[w]] \in Rows
      /\ Past(row[dep[w]]) => dep[w] \in provisioned'
      /\ E(pc[w], loc[w])
      /\ Claim(pc[w], loc[w], dep[w], row[dep[w]], provisioned, zone)
  BY <1>0, StillEarned DEF TypeInv, ProcOK, DbOK, Claims, RowsEarned
<1>b. loc[w].stage \in AllAhead => dep[w] \in provisioned'
  BY <1>a DEF Earned
<1>c. ASSUME NEW l, l \notin Rechecking \cup {"host", "admit"}, Goes(w, l, loc[w])
      PROVE  Earns(w)
  <2>1. E(l, loc[w])
    BY <1>0, <1>a, <1>c DEF Earned
  <2> HIDE DEF E
  <2> QED BY <1>c, <2>1, GoesEarns DEF E
<1>d. ASSUME Stop(w) PROVE Earns(w)
  BY <1>0, <1>d, StopEarns
<1>e. ASSUME NEW step, Fails(w, "FAILED", step), step \in AllAhead => dep[w] \in provisioned'
      PROVE  Earns(w)
  BY <1>0, <1>e, FailsEarns
<1>f. ASSUME NEW l, NEW x, Goes(w, l, x), l \notin Rechecking, E(l, x)
      PROVE  Earns(w)
  BY <1>f, GoesEarns
<1>g. loc[w].cur.step \in AllAhead => dep[w] \in provisioned'
  BY <1>a DEF Earned, Past
<1>1. CASE Acquire(w)
  <2> DEFINE x == [loc[w] EXCEPT !.stage = "preflight"]
  <2>1. /\ x.cur = loc[w].cur /\ x.out = loc[w].out /\ x.stage = "preflight"
        /\ x.op = loc[w].op
    BY <1>a DEF Locals
  <2>2. \/ Goes(w, "setState", x) /\ loc[w].op = "prepare"
        \/ Goes(w, "load", loc[w])
    BY <1>1 DEF Acquire, Admitted
  <2> HIDE DEF x
  <2>3. loc[w].op = "prepare" => E("setState", x)
    BY <1>0, <1>a, <2>1 DEF Earned, AllAhead, Rechecking
  <2> HIDE DEF E
  <2> QED BY <1>c, <1>f, <2>2, <2>3 DEF Rechecking
<1>2. CASE Load(w)
  <2> DEFINE retry == [loc[w] EXCEPT !.stage = "add_dns",
                         !.cur = [row[dep[w]] EXCEPT !.status = "ADDING_TO_DNS"]]
             go    == [loc[w] EXCEPT !.cur = row[dep[w]]]
  <2>1. /\ retry.stage = "add_dns" /\ retry.out = loc[w].out
        /\ go.cur = row[dep[w]] /\ go.out = loc[w].out /\ go.stage = loc[w].stage
        /\ go.op = loc[w].op
    BY <1>a DEF Locals, Rows
  <2>2. \/ loc[w].op = "deploy" /\ Deployable(row[dep[w]].status) /\ Goes(w, "host", go)
        \/ /\ row[dep[w]].status \in {"DNS_FAILED", "ADDING_TO_DNS"}
           /\ Goes(w, "setState", retry)
        \/ Stop(w)
    BY <1>2 DEF Load
  <2> HIDE DEF retry, go
  <2>3. row[dep[w]].status # "ABSENT"
    BY <1>2, <1>a DEF Load, Claim
  <2>4. loc[w].op = "deploy" /\ Deployable(row[dep[w]].status) => E("host", go)
    <3>1. loc[w].op = "deploy" /\ Deployable(row[dep[w]].status) =>
            row[dep[w]].status \in Resumable
      BY <1>0, <1>a, <2>3 DEF Deployable, Resumable, Rows, Statuses, Terminal
    <3> QED BY <1>0, <1>a, <2>1, <3>1 DEF Earned, Rechecking
  <2>5. row[dep[w]].status \in {"DNS_FAILED", "ADDING_TO_DNS"} => E("setState", retry)
    BY <1>0, <1>a, <2>1 DEF Earned, Past
  <2> HIDE DEF E
  <2> QED BY <1>d, <1>f, <2>2, <2>4, <2>5 DEF Rechecking
<1>3. CASE CheckHost(w)
  <2>1. E("admit", loc[w])
    BY <1>3, <1>0, <1>a DEF CheckHost, Earned, Rechecking
  <2>2. Goes(w, "admit", loc[w]) \/ Fails(w, "FAILED", loc[w].cur.step)
    BY <1>3 DEF CheckHost
  <2> HIDE DEF E
  <2> QED BY <1>e, <1>f, <1>g, <2>1, <2>2 DEF Rechecking
<1>4. CASE Admit(w)
  <2> DEFINE x == [loc[w] EXCEPT !.stage = "prepare_certificate"]
  <2>1. x.cur = loc[w].cur /\ x.out = loc[w].out /\ x.stage = "prepare_certificate"
    BY <1>a DEF Locals
  <2>2. \/ \E l \in {"work", "setState"} : Goes(w, l, x)
        \/ Fails(w, "FAILED", loc[w].cur.step)
        \/ /\ loc[w].cur.status \notin {"PREFLIGHT", "PREPARING_CERTIFICATE", "PROVISIONING"}
           /\ EnterStage(w, loc[w].cur, AllAhead)
    BY <1>4 DEF Admit
  <2> HIDE DEF x
  <2>3. E("work", x) /\ E("setState", x)
    BY <1>0, <1>a, <2>1 DEF Earned, AllAhead, Rechecking
  <2>4. /\ Past(loc[w].cur) => dep[w] \in provisioned'
        /\ loc[w].cur.status \in Resumable
    BY <1>4, <1>a DEF Admit, Earned
  <2>5. loc[w].cur.status \notin {"PREFLIGHT", "PREPARING_CERTIFICATE", "PROVISIONING"} =>
          dep[w] \in provisioned'
    BY <2>4 DEF Past, Resumable
  <2> HIDE DEF E
  <2> QED BY <1>0, <1>e, <1>f, <1>g, <2>2, <2>3, <2>4, <2>5, EnterStageEarns DEF Rechecking
<1>5. CASE BeginStage(w)
  BY <1>5, <1>c, <1>d DEF BeginStage, Persists, Rechecking
<1>6. CASE RecordRunning(w)
  <2> DEFINE l == IF pc[w] = "record" THEN StageBody(loc[w].stage, loc[w].cur) ELSE "reload"
  <2>1. l \notin Rechecking \cup {"host", "admit"}
    BY DEF StageBody, Rechecking
  <2>2. Goes(w, l, loc[w]) \/ Stop(w)
    BY <1>6 DEF RecordRunning, Persists
  <2> HIDE DEF l
  <2> QED BY <1>c, <1>d, <2>1, <2>2
<1>7. CASE Preflight(w) \/ PollNode(w) \/ CheckHealthy(w)
  <2>1. \/ Goes(w, "complete", loc[w]) \/ Goes(w, "publish", loc[w])
        \/ Fails(w, "FAILED", loc[w].stage)
    BY <1>7 DEF Preflight, PollNode, CheckHealthy
  <2> QED BY <1>b, <1>c, <1>e, <2>1 DEF Rechecking
<1>8. CASE PrepareCertificate(w)
  <2> DEFINE x == [loc[w] EXCEPT !.stage = "provisioning"]
  <2>1. x.cur = loc[w].cur /\ x.out = loc[w].out /\ x.stage = "provisioning"
    BY <1>a DEF Locals
  <2>2. \/ Goes(w, "complete", loc[w]) \/ Goes(w, "setState", x)
        \/ Fails(w, "FAILED", "prepare_certificate")
    BY <1>8 DEF PrepareCertificate
  <2> HIDE DEF x
  <2>3. E("setState", x)
    BY <1>0, <1>a, <2>1 DEF Earned, AllAhead, Rechecking
  <2>4. "prepare_certificate" \notin AllAhead
    BY DEF AllAhead
  <2> HIDE DEF E
  <2> QED BY <1>c, <1>e, <1>f, <2>2, <2>3, <2>4 DEF Rechecking
<1>9. CASE Provision(w)
  <2>1. Goes(w, "complete", loc[w]) \/ Fails(w, "FAILED", "provisioning")
    BY <1>9 DEF Provision
  <2>2. "provisioning" \notin AllAhead
    BY DEF AllAhead
  <2> QED BY <1>c, <1>e, <2>1, <2>2 DEF Rechecking
<1>10. CASE ListNodes(w)
  <2>0. loc[w].stage = "create_remnawave_node" /\ dep[w] \in provisioned'
    BY <1>10, <1>a, <1>b DEF ListNodes, Claim, AllAhead
  <2>1. ASSUME NEW n, Goes(w, "persist", [loc[w] EXCEPT !.node = n]) PROVE Earns(w)
    <3> DEFINE x == [loc[w] EXCEPT !.node = n]
    <3>1. /\ x.cur = loc[w].cur /\ x.out = loc[w].out /\ x.stage = loc[w].stage
          /\ x.op = loc[w].op
      BY <1>a DEF Locals
    <3> HIDE DEF x
    <3>2. E("persist", x)
      BY <1>0, <1>a, <3>1 DEF Earned, Rechecking
    <3> HIDE DEF E
    <3> QED BY <1>f, <2>1, <3>2 DEF x, Rechecking
  <2> QED BY <1>10, <1>c, <1>e, <2>0, <2>1 DEF ListNodes, Rechecking
<1>11. CASE PostNode(w)
  <2>0. loc[w].stage = "create_remnawave_node" /\ dep[w] \in provisioned'
    BY <1>11, <1>a, <1>b DEF PostNode, Claim, AllAhead
  <2> QED BY <1>11, <1>c, <1>e, <2>0 DEF PostNode, Rechecking
<1>12. CASE NodeCreated(w)
  <2> DEFINE x == [loc[w] EXCEPT !.node = NoId,
               !.out = [status |-> "FAILED", step |-> "create_remnawave_node"]]
  <2>0. loc[w].stage = "create_remnawave_node" /\ dep[w] \in provisioned'
    BY <1>12, <1>a, <1>b DEF NodeCreated, Claim, AllAhead
  <2>1. x.out.status = "FAILED" /\ x.stage = loc[w].stage
    BY <1>a DEF Locals
  <2>2. Goes(w, "persist", loc[w]) \/ Goes(w, "failRecord", x)
    BY <1>12 DEF NodeCreated
  <2> HIDE DEF x
  <2>3. E("failRecord", x)
    BY <2>0, <2>1 DEF Earned
  <2> HIDE DEF E
  <2> QED BY <1>c, <1>f, <2>2, <2>3 DEF Rechecking
<1>13. CASE PersistNode(w)
  <2> DEFINE x == [loc[w] EXCEPT !.cur.uuid = loc[w].node, !.node = NoId]
  <2>0. loc[w].stage = "create_remnawave_node" /\ dep[w] \in provisioned'
    BY <1>13, <1>a, <1>b DEF PersistNode, Claim, AllAhead
  <2>1. x.out = loc[w].out /\ x.stage = loc[w].stage
    BY <1>a DEF Locals
  <2>2. Goes(w, "complete", x) \/ Stop(w)
    BY <1>13 DEF PersistNode, Persists
  <2> HIDE DEF x
  <2>3. E("complete", x)
    BY <1>0, <1>a, <2>0, <2>1 DEF Earned
  <2> HIDE DEF E
  <2> QED BY <1>d, <1>f, <2>2, <2>3 DEF Rechecking
<1>14. CASE AddIP(w)
  <2>0. loc[w].stage = "add_dns" /\ dep[w] \in provisioned'
    BY <1>14, <1>a, <1>b DEF AddIP, Claim, AllAhead
  <2>1. Goes(w, "complete", loc[w]) \/ Fails(w, "DNS_FAILED", "add_dns")
    BY <1>14 DEF AddIP
  <2> QED BY <1>0, <1>c, <2>0, <2>1, FailsEarns DEF Rechecking
<1>15. CASE SkipDNS(w) \/ Finish(w) \/ FailState(w) \/ FailRecord(w)
  BY <1>15, <1>c, <1>d DEF SkipDNS, Finish, FailState, FailRecord, Persists, Rechecking
<1>16. CASE CompleteStage(w)
  <2> DEFINE next == Following(loc[w].stage)
             x    == [loc[w] EXCEPT !.stage = next[2]]
  <2>1. /\ next[1] \in {"reload", "setState", "advance", "finish"}
        /\ next[2] \in AllAhead => loc[w].stage \in AllAhead \cup {"provisioning"}
        /\ next[2] = "preflight" => loc[w].stage = "preflight"
    BY <1>16, <1>a DEF CompleteStage, Claim, Following, Stages, AllAhead
  <2>2. loc[w].stage = "provisioning" => dep[w] \in provisioned'
    BY <1>16, <1>a DEF CompleteStage, Claim, Effect
  <2> HIDE DEF next
  <2>3. /\ x.cur = loc[w].cur /\ x.out = loc[w].out /\ x.stage = next[2]
        /\ x.op = loc[w].op
    BY <1>a DEF Locals
  <2>4. Goes(w, next[1], x) \/ Stop(w)
    BY <1>16 DEF CompleteStage, Persists, next
  <2> HIDE DEF x
  <2>5. E(next[1], x)
    BY <1>0, <1>a, <1>b, <2>1, <2>2, <2>3 DEF Earned, Rechecking
  <2>6. next[1] \notin Rechecking
    BY <2>1 DEF Rechecking
  <2> HIDE DEF E
  <2> QED BY <1>d, <1>f, <2>4, <2>5, <2>6
<1>17. CASE Reload(w)
  <2> DEFINE x == [loc[w] EXCEPT !.op = IF ctx[w] THEN @ ELSE "prepared"]
             ahead == CASE loc[w].stage = "create_remnawave_node" -> AllAhead
                        [] loc[w].stage = "wait_remnawave" -> {"wait_remnawave", "add_dns"}
                        [] OTHER -> {"add_dns"}
  <2>1. /\ x.cur = loc[w].cur /\ x.out = loc[w].out /\ x.stage = loc[w].stage
        /\ x.op \in {loc[w].op, "prepared"}
    BY <1>a DEF Locals
  <2>2. \/ Goes(w, "releaseSlot", x) \/ Stop(w)
        \/ EnterStage(w, row[dep[w]], ahead)
    BY <1>17 DEF Reload
  <2>3. NextStage(row[dep[w]], ahead) # "none" =>
          Past(row[dep[w]]) \/ loc[w].stage \in AllAhead
    BY DEF NextStage, Past, AllAhead
  <2> HIDE DEF x, ahead
  <2>4. E("releaseSlot", x)
    BY <1>0, <1>a, <2>1 DEF Earned, Rechecking
  <2> HIDE DEF E
  <2> QED BY <1>0, <1>a, <1>b, <1>d, <1>f, <2>2, <2>3, <2>4, EnterStageEarns DEF Rechecking
<1>18. CASE Abort(w) \/ ReleaseSlot(w)
  <2>1. /\ pc'[w] \in {"releaseSlot", "unregister"}
        /\ dep'[w] = dep[w] /\ loc'[w] = loc[w]
    BY <1>18 DEF Abort, ReleaseSlot, TypeInv, ProcOK
  <2>2. E(pc'[w], loc[w])
    BY <1>0, <1>a, <2>1 DEF Earned, Rechecking
  <2> QED BY <2>1, <2>2 DEF Earns
<1>19. CASE Unregister(w)
  BY <1>19 DEF Unregister, Reset, Earns, TypeInv, ProcOK
<1> QED BY <1>1, <1>2, <1>3, <1>4, <1>5, <1>6, <1>7, <1>8, <1>9, <1>10, <1>11, <1>12,
           <1>13, <1>14, <1>15, <1>16, <1>17, <1>18, <1>19
        DEF RunStep

\* The steps outside a run earn what they go on with; a recheck inspects only
\* what is past the provisioning.
LEMMA DetachedEarns ==
  ASSUME TypeInv, RunInv, AllEarned, RowsEarned, provisioned' = provisioned,
         NEW w \in Workers, DetachedStep(w), pc[w] # "idle"
  PROVE  Earns(w)
<1> DEFINE E(l, x) == Earned(l, x, dep[w], provisioned')
<1>a. /\ dep[w] \in Deployments /\ loc[w] \in Locals /\ row[dep[w]] \in Rows
      /\ E(pc[w], loc[w])
      /\ pc[w] \in Rechecking => ~ctx[w]
      /\ pc[w] \in Rechecking \ {"verdict"} => dep[w] \in provisioned'
  BY DEF AllEarned, Earned, TypeInv, ProcOK, DbOK, RunInv, Rechecking, Registered,
         Holding, Working
<1>b. ASSUME Reset(w) PROVE Earns(w)
  BY <1>b DEF Reset, Earns, TypeInv, ProcOK
<1>c. ASSUME NEW l, NEW x, Goes(w, l, x), pc[w] \in Rechecking \ {"verdict"},
             l \in Rechecking
      PROVE  Earns(w)
  <2>1. E(l, x)
    BY <1>a, <1>c DEF Earned, Rechecking
  <2> HIDE DEF E
  <2> QED BY <1>a, <1>c, <2>1, GoesEarns DEF E
<1>d. ASSUME NEW status, NEW step, Verdict(w, status, step), pc[w] \in Rechecking \ {"verdict"}
      PROVE  Earns(w)
  BY <1>c, <1>d DEF Verdict, Rechecking
<1>1. CASE CreateDeployment(w)
  <2>1. CASE pc' = [pc EXCEPT ![w] = "begin"] /\ UNCHANGED <<dep, ctx, loc>>
    <3>1. pc'[w] = "begin" /\ dep'[w] = dep[w] /\ loc'[w] = loc[w]
      BY <2>1 DEF TypeInv, ProcOK
    <3>2. E("begin", loc[w])
      BY <1>1, <1>a DEF CreateDeployment, Earned, Rechecking
    <3> QED BY <3>1, <3>2 DEF Earns
  <2> QED BY <1>1, <1>b, <2>1 DEF CreateDeployment
<1>2. CASE BeginExecution(w)
  <2> DEFINE x == [loc[w] EXCEPT !.out = NoOut, !.cur = NoRow]
  <2>1. x.cur = NoRow /\ x.out = NoOut /\ x.stage = loc[w].stage /\ x.op = loc[w].op
    BY <1>a DEF Locals
  <2>2. \/ Reset(w)
        \/ pc' = [pc EXCEPT ![w] = "slot"] /\ loc' = [loc EXCEPT ![w] = x] /\ dep' = dep
    BY <1>2 DEF BeginExecution, Set, Keep
  <2> HIDE DEF x
  <2>3. E("slot", x)
    BY <1>2, <1>a, <2>1 DEF BeginExecution, Earned, Rechecking, Past, NoRow, NoOut, AllAhead
  <2>4. CASE pc' = [pc EXCEPT ![w] = "slot"] /\ loc' = [loc EXCEPT ![w] = x] /\ dep' = dep
    <3>1. pc'[w] = "slot" /\ dep'[w] = dep[w] /\ loc'[w] = x
      BY <2>4 DEF TypeInv, ProcOK
    <3> QED BY <2>3, <3>1 DEF Earns
  <2> QED BY <1>b, <2>2, <2>4
<1>3. CASE RetrySet(w) \/ CancelLoad(w)
  <2>1. E("begin", loc[w]) /\ E("cancelSet", loc[w])
    BY <1>3, <1>a DEF RetrySet, CancelLoad, Earned, Rechecking
  <2>2. Goes(w, "begin", loc[w]) \/ Goes(w, "cancelSet", loc[w]) \/ Reset(w)
    BY <1>3 DEF RetrySet, CancelLoad
  <2> HIDE DEF E
  <2> QED BY <1>b, <2>1, <2>2, GoesEarns DEF E, Rechecking
<1>4. CASE CancelSet(w) \/ WriteVerdict(w)
  BY <1>4, <1>b DEF CancelSet, WriteVerdict, EndRecheck
<1>5. CASE Inspect(w) \/ Probe(w) \/ SkipRecord(w) \/ Lookup(w)
  BY <1>5, <1>c, <1>d DEF Inspect, Probe, SkipRecord, Lookup, Rechecking
<1>6. CASE AdoptNode(w)
  <2>1. Reset(w) \/ \E x : Goes(w, "probe", x)
    BY <1>6 DEF AdoptNode, Rechecks, EndRecheck
  <2> QED BY <1>6, <1>b, <1>c, <2>1 DEF AdoptNode, Rechecking
<1> QED BY <1>1, <1>2, <1>3, <1>4, <1>5, <1>6 DEF DetachedStep, StartRecover

\* A new command, or the recovery of a deployment, starts with what its row
\* has earned.
LEMMA StartEarns ==
  ASSUME TypeInv, RowsEarned, provisioned' = provisioned, NEW w \in Workers,
         NEW d \in Deployments,
         \/ StartPrepare(w, d) \/ StartDeploy(w, d) \/ StartRetryDNS(w, d)
         \/ StartRetryStep(w, d) \/ StartCancel(w, d) \/ StartRecheck(w, d)
         \/ StartRecover(w, d)
  PROVE  Earns(w)
<1>0. /\ row[d] \in Rows /\ (Past(row[d]) => d \in provisioned')
      /\ Past(Blank.cur) = FALSE /\ Past(Blank.out) = FALSE
      /\ Blank.stage = "none" /\ "none" \notin AllAhead
      /\ Blank.out.status # "MANUAL_REVIEW"
  BY DEF RowsEarned, TypeInv, DbOK, Past, Blank, NoRow, NoOut, AllAhead
<1>1. ASSUME NEW op, NEW l \in {"insert", "begin", "cancelLoad"},
             pc' = [pc EXCEPT ![w] = l], dep' = [dep EXCEPT ![w] = d],
             Set(w, [Blank EXCEPT !.op = op])
      PROVE  Earns(w)
  <2> DEFINE x == [Blank EXCEPT !.op = op]
  <2>1. x.cur = Blank.cur /\ x.out = Blank.out /\ x.stage = Blank.stage
    BY DEF Blank
  <2>2. pc'[w] = l /\ dep'[w] = d /\ loc'[w] = x
    BY <1>1 DEF Set, TypeInv, ProcOK
  <2> HIDE DEF x
  <2>3. Earned(l, x, d, provisioned')
    BY <1>0, <2>1 DEF Earned, Rechecking
  <2> QED BY <2>2, <2>3 DEF Earns
<1>2. CASE StartPrepare(w, d) \/ StartDeploy(w, d) \/ StartRetryDNS(w, d) \/ StartCancel(w, d)
  BY <1>1, <1>2 DEF StartPrepare, StartDeploy, StartRetryDNS, StartCancel, Start
<1>3. CASE StartRetryStep(w, d)
  <2> DEFINE op == IF row[d].step = "add_dns" THEN "retry_dns" ELSE "deploy"
             x == [Blank EXCEPT !.op = op,
                     !.out = [status |-> ResumeOf[row[d].step], step |-> row[d].step]]
  <2>1. x.cur = Blank.cur /\ x.stage = Blank.stage
        /\ x.out.status = ResumeOf[row[d].step] /\ x.out.step = row[d].step
    BY DEF Blank
  <2>2. pc'[w] = "retrySet" /\ dep'[w] = d /\ loc'[w] = x
    BY <1>3 DEF StartRetryStep, Start, Set, TypeInv, ProcOK
  <2> HIDE DEF x
  <2>3. row[d].step \in DOMAIN ResumeOf
    BY <1>3 DEF StartRetryStep
  <2>4. /\ x.out.status # "MANUAL_REVIEW"
        /\ Past(x.out) => Past(row[d])
    BY <2>1, <2>3 DEF ResumeOf, Past, AllAhead
  <2>5. Earned("retrySet", x, d, provisioned')
    BY <1>0, <2>1, <2>4 DEF Earned, Rechecking
  <2> QED BY <2>2, <2>5 DEF Earns
<1>4. ASSUME NEW op, Classify(w, d, op) PROVE Earns(w)
  <2> DEFINE into    == [Blank EXCEPT !.op = op, !.cur = row[d]]
             verdict == [into EXCEPT !.out = [status |-> "MANUAL_REVIEW", step |-> row[d].step]]
  <2>1. /\ into.cur = row[d] /\ into.out = Blank.out /\ into.stage = Blank.stage
        /\ verdict.cur = row[d] /\ verdict.stage = Blank.stage
        /\ verdict.out.status = "MANUAL_REVIEW" /\ verdict.out.step = row[d].step
    BY DEF Blank
  <2>2. /\ dep'[w] = d
        /\ \/ Inspected(row[d]) /\ pc'[w] \in {"inspect", "probe"} /\ loc'[w] = into
           \/ ~Inspected(row[d]) /\ pc'[w] = "verdict" /\ loc'[w] = verdict
    BY <1>4 DEF Classify, Set, TypeInv, ProcOK
  <2> HIDE DEF into, verdict
  <2>3. Inspected(row[d]) => Past(row[d])
    BY DEF Inspected, Past, AllAhead
  <2>4. Past(verdict.out) => Past(row[d])
    BY <2>1 DEF Past
  <2>5. /\ Inspected(row[d]) => Earned("inspect", into, d, provisioned')
                                /\ Earned("probe", into, d, provisioned')
        /\ Earned("verdict", verdict, d, provisioned')
    BY <1>0, <2>1, <2>3, <2>4 DEF Earned, Rechecking
  <2> QED BY <2>2, <2>5 DEF Earns
<1> QED BY <1>2, <1>3, <1>4 DEF StartRecheck, StartRecover

\* The writes of a worker to the row of its deployment: past the provisioning
\* only after it, MANUAL_REVIEW only by a recheck.
EarnedWrite(w) ==
  \/ row' = row
  \/ \E status, step :
       /\ SetRow(dep[w], status, step)
       /\ Past([status |-> status, step |-> step]) => dep[w] \in provisioned
       /\ status = "MANUAL_REVIEW" => pc[w] = "verdict"
  \/ \E step, status :
       /\ RecordStep(dep[w], step, status)
       /\ status = "RUNNING" /\ step \in AllAhead => dep[w] \in provisioned
  \/ \E n : row' = [row EXCEPT ![dep[w]].uuid = n]

\* Such a write keeps what the rows have earned.
LEMMA EarnedWrites ==
  ASSUME TypeInv, RowsEarned, provisioned \subseteq provisioned', NEW w \in Workers,
         dep[w] \in Deployments, EarnedWrite(w)
  PROVE  /\ RowsEarned'
         /\ \A d \in Deployments :
              row'[d].status = "MANUAL_REVIEW" /\ row[d].status # "MANUAL_REVIEW" =>
                d = dep[w] /\ pc[w] = "verdict"
<1>0. row \in [Deployments -> Rows]
  BY DEF TypeInv, DbOK
<1>1. CASE row' = row
  BY <1>1 DEF RowsEarned
<1>2. ASSUME NEW status, NEW step, SetRow(dep[w], status, step),
             Past([status |-> status, step |-> step]) => dep[w] \in provisioned,
             status = "MANUAL_REVIEW" => pc[w] = "verdict"
      PROVE  /\ RowsEarned'
             /\ \A d \in Deployments :
                  row'[d].status = "MANUAL_REVIEW" /\ row[d].status # "MANUAL_REVIEW" =>
                    d = dep[w] /\ pc[w] = "verdict"
  <2>1. /\ row'[dep[w]].status = status /\ row'[dep[w]].step = step
        /\ \A d \in Deployments : d # dep[w] => row'[d] = row[d]
    BY <1>0, <1>2 DEF SetRow, Rows
  <2>2. Past(row'[dep[w]]) => dep[w] \in provisioned
    BY <1>2, <2>1 DEF Past
  <2> QED BY <1>2, <2>1, <2>2 DEF RowsEarned
<1>3. ASSUME NEW step, NEW status, RecordStep(dep[w], step, status),
             status = "RUNNING" /\ step \in AllAhead => dep[w] \in provisioned
      PROVE  /\ RowsEarned'
             /\ \A d \in Deployments : row'[d].status = row[d].status
  <2>1. /\ row'[dep[w]].status = row[dep[w]].status
        /\ row'[dep[w]].step = row[dep[w]].step \/ (row'[dep[w]].step = step /\ status = "RUNNING")
        /\ \A d \in Deployments : d # dep[w] => row'[d] = row[d]
    BY <1>0, <1>3 DEF RecordStep, Rows
  <2>2. Past(row'[dep[w]]) => Past(row[dep[w]]) \/ dep[w] \in provisioned
    BY <1>3, <2>1 DEF Past
  <2> QED BY <2>1, <2>2 DEF RowsEarned
<1>4. ASSUME NEW n, row' = [row EXCEPT ![dep[w]].uuid = n]
      PROVE  /\ RowsEarned'
             /\ \A d \in Deployments : row'[d].status = row[d].status
  <2>1. \A d \in Deployments : row'[d].status = row[d].status /\ row'[d].step = row[d].step
    BY <1>0, <1>4 DEF Rows
  <2> QED BY <2>1 DEF RowsEarned, Past
<1> QED BY <1>1, <1>2, <1>3, <1>4 DEF EarnedWrite

\* A deployment whose Node is recorded has been provisioned.
LEMMA RecordedEarned ==
  ASSUME NodeInv, ProvisionedFirst, NEW d \in Deployments, row[d].uuid # NoId
  PROVE  d \in provisioned
  BY DEF NodeInv, OwnNode, ProvisionedFirst

\* Every worker writes so.
LEMMA WorkerWrites ==
  ASSUME TypeInv, NodeInv, ProvisionedFirst, Claims, AllEarned, NEW w \in Workers,
         RunStep(w) \/ DetachedStep(w), ~CreateDeployment(w), pc[w] # "idle"
  PROVE  EarnedWrite(w)
<1>0. /\ dep[w] \in Deployments /\ loc[w] \in Locals
      /\ Claim(pc[w], loc[w], dep[w], row[dep[w]], provisioned, zone)
      /\ Earned(pc[w], loc[w], dep[w], provisioned)
      /\ pc[w] \in Beginning => loc[w].stage \in Stages
  BY DEF TypeInv, ProcOK, Claims, AllEarned
<1>a. ASSUME NEW status, NEW step, SetRow(dep[w], status, step) \/ row' = row,
             Past([status |-> status, step |-> step]) => dep[w] \in provisioned,
             status = "MANUAL_REVIEW" => pc[w] = "verdict"
      PROVE  EarnedWrite(w)
  BY <1>a DEF EarnedWrite
<1>b. ASSUME NEW step, NEW status, RecordStep(dep[w], step, status) \/ row' = row,
             status = "RUNNING" /\ step \in AllAhead => dep[w] \in provisioned
      PROVE  EarnedWrite(w)
  BY <1>b DEF EarnedWrite
<1>c. ASSUME Past(loc[w].out) => dep[w] \in provisioned
      PROVE  Past([status |-> loc[w].out.status, step |-> loc[w].out.step]) =>
               dep[w] \in provisioned
  BY <1>c DEF Past
<1>1. CASE BeginStage(w)
  <2> DEFINE status == StatusOf[loc[w].stage]
  <2>1. /\ SetRow(dep[w], status, loc[w].stage) \/ row' = row
        /\ loc[w].stage \in Stages
    BY <1>0, <1>1 DEF BeginStage, Persists, db, Beginning
  <2>2. /\ status # "MANUAL_REVIEW"
        /\ Past([status |-> status, step |-> loc[w].stage]) => loc[w].stage \in AllAhead
    BY <2>1 DEF Past, StatusOf, Stages, AllAhead
  <2>3. loc[w].stage \in AllAhead => dep[w] \in provisioned
    BY <1>0 DEF Earned
  <2> HIDE DEF status
  <2> QED BY <1>a, <2>1, <2>2, <2>3
<1>2. CASE RecordRunning(w)
  <2>1. RecordStep(dep[w], loc[w].stage, "RUNNING") \/ row' = row
    BY <1>2 DEF RecordRunning, Persists, db
  <2> QED BY <1>0, <1>b, <2>1 DEF Earned
<1>3. CASE SkipDNS(w) \/ CompleteStage(w) \/ FailRecord(w) \/ SkipRecord(w)
  <2>1. row' = row \/ \E step, status : RecordStep(dep[w], step, status) /\ status # "RUNNING"
    BY <1>3 DEF SkipDNS, CompleteStage, FailRecord, SkipRecord, Persists, db
  <2> QED BY <1>b, <2>1 DEF EarnedWrite
<1>4. CASE PersistNode(w) \/ AdoptNode(w)
  BY <1>4 DEF PersistNode, AdoptNode, Persists, Rechecks, db, EarnedWrite
<1>5. CASE Finish(w)
  <2>1. SetRow(dep[w], "COMPLETED", "completed") \/ row' = row
    BY <1>5 DEF Finish, Persists, db
  <2>2. dep[w] \in provisioned
    BY <1>0, <1>5, RecordedEarned DEF Finish, Claim, Done
  <2>3. "COMPLETED" # "MANUAL_REVIEW"
    OBVIOUS
  <2> QED BY <1>a, <2>1, <2>2, <2>3
<1>6. CASE FailState(w) \/ RetrySet(w) \/ WriteVerdict(w)
  <2>1. /\ SetRow(dep[w], loc[w].out.status, loc[w].out.step) \/ row' = row
        /\ pc[w] = "verdict" \/ pc[w] \notin Rechecking
    BY <1>6 DEF FailState, RetrySet, WriteVerdict, Persists, db, Rechecking
  <2>2. /\ Past(loc[w].out) => dep[w] \in provisioned
        /\ loc[w].out.status = "MANUAL_REVIEW" => pc[w] = "verdict"
    BY <1>0, <2>1 DEF Earned
  <2> QED BY <1>a, <1>c, <2>1, <2>2
<1>7. CASE CancelSet(w)
  <2>1. SetRow(dep[w], "CANCELLED", "cancelled") \/ row' = row
    BY <1>7 DEF CancelSet
  <2>2. ~Past([status |-> "CANCELLED", step |-> "cancelled"])
    BY DEF Past, AllAhead
  <2> QED BY <1>a, <2>1, <2>2
<1>8. CASE UNCHANGED db
  BY <1>8 DEF db, EarnedWrite
<1> QED BY <1>1, <1>2, <1>3, <1>4, <1>5, <1>6, <1>7, <1>8
        DEF RunStep, DetachedStep, Acquire, Load, CheckHost, Admit, Preflight,
            PrepareCertificate, Provision, ListNodes, PostNode, NodeCreated, PollNode,
            CheckHealthy, AddIP, Reload, Abort, ReleaseSlot, Unregister,
            BeginExecution, CancelLoad, Inspect, Probe, Lookup, StartRecover, Classify

-----------------------------------------------------------------------------

\* No operator asks for a recheck while commands run.
NoRecheck == \A w \in Workers : "recheck" \notin Commands[w]

\* A recheck belongs to the startup recovery, which runs by itself.
RecoveryAlone ==
  /\ todo # {} => tickets = {} /\ \A w \in Workers : pc[w] # "idle" => pc[w] \in Rechecking
  /\ \A w \in Workers : pc[w] # "idle" =>
       /\ pc[w] \in Rechecking <=> loc[w].op = "recover"
       /\ pc[w] \in Rechecking => Alone(w) /\ todo # {}

\* Nobody may start, or goes on with, a deployment under manual review.
ReviewHeld ==
  \A d \in Deployments : row[d].status = "MANUAL_REVIEW" =>
    /\ d \notin tickets
    /\ \A w \in Workers : pc[w] # "idle" /\ dep[w] = d =>
         loc[w].op \notin {"prepare", "prepared", "deploy"}

ProvisionInv ==
  /\ AllEarned /\ RowsEarned /\ late \subseteq provisioned /\ ProvisionedFirst
  /\ RecoveryAlone /\ ReviewHeld

\* What the steps do to the lists and to the requests on their way.
LEMMA WorkerLists ==
  ASSUME TypeInv, NEW w \in Workers, RunStep(w) \/ DetachedStep(w), pc[w] # "idle"
  PROVE  /\ \/ tickets' = tickets
            \/ /\ pc[w] = "unregister" /\ loc[w].op = "prepared"
               /\ tickets' = tickets \cup {dep[w]}
         /\ late' \subseteq late \cup {dep[w]}
         /\ late' # late => pc[w] = "posted"
         /\ nodes' = nodes
<1>1. CASE Unregister(w)
  BY <1>1 DEF Unregister, ext
<1>2. CASE Abort(w) \/ NodeCreated(w)
  BY <1>2 DEF Abort, NodeCreated, Abandon, InFlight, ctl
<1>3. CASE \/ Acquire(w) \/ Load(w) \/ CheckHost(w) \/ Admit(w)
           \/ BeginStage(w) \/ RecordRunning(w)
           \/ Preflight(w) \/ PrepareCertificate(w) \/ Provision(w)
           \/ ListNodes(w) \/ PostNode(w) \/ PersistNode(w)
           \/ PollNode(w) \/ CheckHealthy(w) \/ AddIP(w) \/ SkipDNS(w)
           \/ CompleteStage(w) \/ Reload(w) \/ Finish(w)
           \/ FailRecord(w) \/ FailState(w) \/ ReleaseSlot(w)
  BY <1>3 DEF Acquire, Load, CheckHost, Admit, BeginStage, RecordRunning,
     Preflight, PrepareCertificate, Provision, ListNodes, PostNode,
     PersistNode, PollNode, CheckHealthy, AddIP, SkipDNS, CompleteStage, Reload,
     Finish, FailRecord, FailState, ReleaseSlot, ctl, ext
<1>4. CASE DetachedStep(w)
  BY <1>4 DEF DetachedStep, CreateDeployment, BeginExecution, RetrySet, CancelLoad,
     CancelSet, Inspect, AdoptNode, Probe, SkipRecord, Lookup, WriteVerdict, StartRecover,
     Rechecks, Verdict, EndRecheck, ctl, ext
<1> QED BY <1>1, <1>2, <1>3, <1>4 DEF RunStep

\* Only a recheck comes to a label of a recheck.
LEMMA RecheckArrives ==
  ASSUME TypeInv, RunInv, NEW w \in Workers, RunStep(w) \/ DetachedStep(w),
         pc[w] # "idle", pc'[w] \in Rechecking
  PROVE  pc[w] \in Rechecking
<1>0. Apart \subseteq Overwriting \cup {"cancelLoad"} /\ Rechecking \subseteq Apart
  BY DEF Overwriting, Apart
<1>1. pc[w] \in Apart
  BY <1>0, Arrivals
<1>2. ASSUME pc[w] \in {"retrySet", "cancelLoad", "cancelSet"} PROVE FALSE
  <2>1. RetrySet(w) \/ CancelLoad(w) \/ CancelSet(w)
    BY <1>2, RunFrom DEF DetachedStep, CreateDeployment, BeginExecution, Inspect, AdoptNode,
       Probe, SkipRecord, Lookup, WriteVerdict, StartRecover, Working
  <2> QED BY <2>1 DEF RetrySet, CancelLoad, CancelSet, Goes, Goto, Reset, Rechecking,
       TypeInv, ProcOK
<1> QED BY <1>1, <1>2 DEF Apart

\* A step outside a run provisions nothing.
LEMMA DetachedOutside ==
  ASSUME NEW w \in Workers, DetachedStep(w)
  PROVE  provisioned' = provisioned
  BY DEF DetachedStep, CreateDeployment, BeginExecution, RetrySet, CancelLoad,
     CancelSet, Inspect, AdoptNode, Probe, SkipRecord, Lookup, WriteVerdict, StartRecover,
     Classify, ext

\* The steps of the workers preserve ProvisionInv, the insertion of a row apart.
LEMMA WorkerProvision ==
  ASSUME TypeInv, RunInv, NodeInv, TruthInv, ProvisionInv, NEW w \in Workers,
         RunStep(w) \/ DetachedStep(w), ~CreateDeployment(w), pc[w] # "idle"
  PROVE  ProvisionInv'
<1> DEFINE d == dep[w]
<1>0. /\ Claims /\ Moves(w) /\ d \in Deployments
      /\ AllEarned /\ RowsEarned /\ late \subseteq provisioned /\ ProvisionedFirst
      /\ RecoveryAlone /\ ReviewHeld
      /\ \A v \in Workers : pc[v] # "idle" => dep[v] \in Deployments
  BY RunMoves, DetachedMoves DEF TruthInv, ProvisionInv, TypeInv, ProcOK
<1>1. /\ \/ tickets' = tickets
         \/ pc[w] = "unregister" /\ loc[w].op = "prepared" /\ tickets' = tickets \cup {d}
      /\ late' \subseteq late \cup {d}
      /\ late' # late => pc[w] = "posted"
      /\ nodes' = nodes
  BY WorkerLists
<1>2. provisioned \subseteq provisioned'
  BY <1>0, RunEffect, DetachedEffect DEF Reaches
<1>3. /\ pc[w] \in Rechecking => pc'[w] \in Rechecking \cup {"idle"}
      /\ pc'[w] \in Rechecking => pc[w] \in Rechecking
      /\ \/ todo' = todo
         \/ /\ pc[w] \in Rechecking /\ loc[w].op = "recover" /\ pc'[w] = "idle"
            /\ todo' = todo \ {d} \/ todo' = Unfinished(row')
  BY RecheckSteps, RecheckArrives
<1>4. \A v \in Workers \ {w} : pc'[v] = pc[v] /\ dep'[v] = dep[v] /\ loc'[v] = loc[v]
  BY <1>0 DEF Moves
<1>5. pc'[w] # "idle" =>
        /\ dep'[w] = d
        /\ \/ loc'[w].op = loc[w].op
           \/ pc[w] = "reload" /\ loc[w].stage = "preflight" /\ loc'[w].op = "prepared"
  BY <1>0 DEF Moves
<1>6. "reload" \notin Rechecking /\ "unregister" \notin Rechecking /\ "verdict" \in Rechecking
      /\ "posted" \notin Rechecking
  BY DEF Rechecking
<1>7. AllEarned'
  <2>1. Earns(w)
    <3>1. \A e \in Deployments : row[e].status = "MANUAL_REVIEW" =>
            \A v \in Workers : pc[v] # "idle" /\ dep[v] = e => loc[v].op # "deploy"
      BY <1>0 DEF ReviewHeld
    <3> QED BY <1>0, <1>2, <3>1, RunEarns, DetachedEarns, DetachedOutside
  <2>2. ASSUME NEW v \in Workers, v # w, pc'[v] # "idle"
        PROVE  Earned(pc'[v], loc'[v], dep'[v], provisioned')
    <3>1. Earned(pc[v], loc[v], dep[v], provisioned')
      BY <1>0, <1>2, <1>4, <2>2, StillEarned
    <3> QED BY <1>4, <2>2, <3>1
  <2> QED BY <2>1, <2>2 DEF AllEarned, Earns
<1>8. /\ RowsEarned'
      /\ \A e \in Deployments :
           row'[e].status = "MANUAL_REVIEW" /\ row[e].status # "MANUAL_REVIEW" =>
             e = d /\ pc[w] = "verdict"
  <2>1. EarnedWrite(w)
    BY <1>0, WorkerWrites
  <2> QED BY <1>0, <1>2, <2>1, EarnedWrites
<1>9. late' \subseteq provisioned'
  <2>1. pc[w] = "posted" => d \in provisioned
    BY <1>0 DEF Claims, Claim, AllEarned, Earned, AllAhead
  <2> QED BY <1>0, <1>1, <1>2, <2>1
<1>10. ProvisionedFirst'
  BY <1>0, <1>1, <1>2 DEF ProvisionedFirst, Exact, Existing
<1>11. RecoveryAlone'
  <2>1. pc[w] \in Rechecking => todo # {} /\ Alone(w) /\ tickets' = tickets /\ tickets = {}
    BY <1>0, <1>1, <1>6 DEF RecoveryAlone
  <2>2. pc[w] \notin Rechecking => todo' = todo /\ todo = {}
    BY <1>0, <1>3 DEF RecoveryAlone
  <2>3. todo' # {} => tickets' = {} /\ \A v \in Workers : pc'[v] # "idle" => pc'[v] \in Rechecking
    BY <1>3, <1>4, <2>1, <2>2 DEF Alone
  <2>4. pc'[w] # "idle" => (pc'[w] \in Rechecking <=> loc'[w].op = "recover")
    BY <1>0, <1>3, <1>5, <1>6 DEF RecoveryAlone
  <2>5. pc'[w] \in Rechecking => Alone(w)' /\ todo' # {}
    <3>1. "idle" \notin Rechecking
      BY DEF Rechecking
    <3> QED BY <1>3, <1>4, <2>1, <3>1 DEF Alone
  <2>6. ASSUME NEW v \in Workers, v # w, pc'[v] # "idle"
        PROVE  /\ pc'[v] \in Rechecking <=> loc'[v].op = "recover"
               /\ pc'[v] \notin Rechecking
    <3>1. pc[v] # "idle" /\ (pc[v] \in Rechecking <=> loc[v].op = "recover")
      BY <1>0, <1>4, <2>6 DEF RecoveryAlone
    <3>2. pc[v] \notin Rechecking
      BY <1>0, <2>6, <3>1 DEF RecoveryAlone, Alone
    <3> QED BY <1>4, <2>6, <3>1, <3>2
  <2> QED BY <2>3, <2>4, <2>5, <2>6 DEF RecoveryAlone
<1>12. ReviewHeld'
  <2> SUFFICES ASSUME NEW e \in Deployments, row'[e].status = "MANUAL_REVIEW"
               PROVE  /\ e \notin tickets'
                      /\ \A v \in Workers : pc'[v] # "idle" /\ dep'[v] = e =>
                           loc'[v].op \notin {"prepare", "prepared", "deploy"}
    BY DEF ReviewHeld
  <2>1. CASE row[e].status = "MANUAL_REVIEW"
    <3>1. /\ e \notin tickets
          /\ \A v \in Workers : pc[v] # "idle" /\ dep[v] = e =>
               loc[v].op \notin {"prepare", "prepared", "deploy"}
      BY <1>0, <2>1 DEF ReviewHeld
    <3>2. e \notin tickets'
      BY <1>1, <3>1
    <3>3. pc'[w] # "idle" /\ dep'[w] = e => loc'[w].op \notin {"prepare", "prepared", "deploy"}
      <4>1. loc[w].op \in {"prepare", "prepared"} \/ ~(pc[w] = "reload" /\ loc[w].stage = "preflight")
        BY <1>0, <1>6 DEF AllEarned, Earned
      <4> QED BY <1>5, <3>1, <4>1
    <3> QED BY <1>4, <3>1, <3>2, <3>3
  <2>2. CASE row[e].status # "MANUAL_REVIEW"
    <3>1. e = d /\ pc[w] = "verdict"
      BY <1>8, <2>2
    <3>2. tickets' = {} /\ Alone(w) /\ loc[w].op = "recover" /\ tickets = {}
      BY <1>0, <1>1, <1>6, <3>1 DEF RecoveryAlone
    <3>3. ASSUME NEW v \in Workers, pc'[v] # "idle"
          PROVE  v = w /\ loc'[w].op = "recover"
      BY <1>4, <1>5, <3>1, <3>2, <3>3 DEF Alone
    <3> QED BY <3>2, <3>3
  <2> QED BY <2>1, <2>2
<1> QED BY <1>7, <1>8, <1>9, <1>10, <1>11, <1>12 DEF ProvisionInv

\* The insertion of a row preserves it.
LEMMA InsertProvision ==
  ASSUME TypeInv, RunInv, TruthInv, ProvisionInv, NEW w \in Workers, CreateDeployment(w)
  PROVE  ProvisionInv'
<1> DEFINE d == dep[w]
<1>0. /\ AllEarned /\ RowsEarned /\ late \subseteq provisioned /\ ProvisionedFirst
      /\ RecoveryAlone /\ ReviewHeld
      /\ pc[w] = "insert" /\ d \in Deployments
      /\ UNCHANGED <<nodes, late, provisioned, tickets, todo>>
  BY DEF CreateDeployment, ProvisionInv, ext, ctl, TypeInv, ProcOK
<1>1. Moves(w) /\ DetachedStep(w)
  BY <1>0, DetachedMoves DEF DetachedStep
<1>2. /\ \A e \in Deployments : e # d => row'[e] = row[e]
      /\ \/ row'[d] = row[d]
         \/ row'[d] = [status |-> "CREATED", step |-> "created", uuid |-> NoId]
  BY <1>0 DEF CreateDeployment, InsertRow, TypeInv, DbOK
<1>3. \A v \in Workers \ {w} : pc'[v] = pc[v] /\ dep'[v] = dep[v] /\ loc'[v] = loc[v]
  BY <1>1 DEF Moves
<1>4. pc'[w] # "idle" => dep'[w] = d /\ loc'[w].op = loc[w].op
  BY <1>0, <1>1 DEF Moves
<1>5. pc'[w] \in {"begin", "idle"} /\ {"insert", "begin", "idle"} \cap Rechecking = {}
  BY <1>0 DEF CreateDeployment, Reset, Rechecking, TypeInv, ProcOK
<1>6. AllEarned'
  <2>1. Earns(w)
    BY <1>0, <1>1, DetachedEarns
  <2> QED BY <1>0, <1>3, <2>1 DEF AllEarned, Earns
<1>7. RowsEarned'
  <2>1. ~Past([status |-> "CREATED", step |-> "created", uuid |-> NoId])
    BY DEF Past, AllAhead
  <2> QED BY <1>0, <1>2, <2>1 DEF RowsEarned
<1>8. ProvisionedFirst'
  BY <1>0 DEF ProvisionedFirst, Exact, Existing
<1>9. RecoveryAlone'
  <2>1. todo = {} /\ loc[w].op # "recover" /\ \A v \in Workers : pc[v] \notin Rechecking
    BY <1>0, <1>5 DEF RecoveryAlone
  <2> QED BY <1>0, <1>3, <1>4, <1>5, <2>1 DEF RecoveryAlone
<1>10. ReviewHeld'
  BY <1>0, <1>2, <1>3, <1>4 DEF ReviewHeld
<1> QED BY <1>0, <1>6, <1>7, <1>8, <1>9, <1>10 DEF ProvisionInv

\* So does the start of a command or of a recovery.
LEMMA StartProvision ==
  ASSUME NoRecheck, TypeInv, ProvisionInv, NEW w \in Workers, NEW d \in Deployments,
         \/ StartPrepare(w, d) \/ StartDeploy(w, d) \/ StartRetryDNS(w, d)
         \/ StartRetryStep(w, d) \/ StartCancel(w, d) \/ StartRecheck(w, d)
         \/ StartRecover(w, d)
  PROVE  ProvisionInv'
<1>0. /\ AllEarned /\ RowsEarned /\ late \subseteq provisioned /\ ProvisionedFirst
      /\ RecoveryAlone /\ ReviewHeld
  BY DEF ProvisionInv
<1>1. /\ UNCHANGED <<row, nodes, late, provisioned, todo>> /\ tickets' \subseteq tickets
      /\ pc[w] = "idle" /\ dep'[w] = d
      /\ \A v \in Workers \ {w} : pc'[v] = pc[v] /\ dep'[v] = dep[v] /\ loc'[v] = loc[v]
  BY DEF StartPrepare, StartDeploy, StartRetryDNS, StartRetryStep, StartCancel,
         StartRecheck, StartRecover, Start, Classify, Set, db, ext, ctl, TypeInv, ProcOK
<1>2. ~StartRecheck(w, d)
  BY DEF StartRecheck, NoRecheck
<1>3. ASSUME NEW op, NEW l \in {"insert", "begin", "cancelLoad"},
             pc' = [pc EXCEPT ![w] = l], Set(w, [Blank EXCEPT !.op = op])
      PROVE  pc'[w] = l /\ loc'[w].op = op
  BY <1>3 DEF Set, Blank, TypeInv, ProcOK
<1>4. \/ /\ todo = {} /\ pc'[w] \in {"insert", "begin", "cancelLoad", "retrySet"}
         /\ loc'[w].op \in {"prepare", "deploy", "retry_dns", "cancel"}
         /\ loc'[w].op \in {"prepare", "deploy"} => row[d].status # "MANUAL_REVIEW"
      \/ /\ d \in todo /\ \A v \in Workers : pc[v] = "idle"
         /\ pc'[w] \in Rechecking /\ loc'[w].op = "recover"
  <2>1. CASE StartPrepare(w, d)
    <3>1. todo = {} /\ pc'[w] = "insert" /\ loc'[w].op = "prepare" /\ row[d] = NoRow
      BY <1>3, <2>1 DEF StartPrepare, Start
    <3> QED BY <3>1 DEF NoRow
  <2>2. CASE StartDeploy(w, d)
    <3>1. todo = {} /\ pc'[w] = "begin" /\ loc'[w].op = "deploy" /\ d \in tickets
      BY <1>3, <2>2 DEF StartDeploy, Start
    <3> QED BY <1>0, <3>1 DEF ReviewHeld
  <2>3. CASE StartRetryDNS(w, d)
    BY <1>3, <2>3 DEF StartRetryDNS, Start
  <2>4. CASE StartCancel(w, d)
    BY <1>3, <2>4 DEF StartCancel
  <2>5. CASE StartRetryStep(w, d)
    <3>1. /\ pc' = [pc EXCEPT ![w] = "retrySet"] /\ todo = {} /\ row[d].status = "FAILED"
          /\ loc' = [loc EXCEPT ![w] =
               [Blank EXCEPT !.op = IF row[d].step = "add_dns" THEN "retry_dns" ELSE "deploy",
                             !.out = [status |-> ResumeOf[row[d].step], step |-> row[d].step]]]
      BY <2>5 DEF StartRetryStep, Start, Set
    <3>2. loc'[w].op = IF row[d].step = "add_dns" THEN "retry_dns" ELSE "deploy"
      BY <3>1 DEF Blank, TypeInv, ProcOK
    <3>3. pc'[w] = "retrySet"
      BY <3>1 DEF TypeInv, ProcOK
    <3> QED BY <3>1, <3>2, <3>3
  <2>6. CASE StartRecover(w, d)
    <3>1. pc'[w] \in Rechecking /\ loc'[w].op = "recover"
      BY <2>6 DEF StartRecover, Classify, Set, Blank, Rechecking, TypeInv, ProcOK
    <3> QED BY <2>6, <3>1 DEF StartRecover
  <2> QED BY <1>2, <2>1, <2>2, <2>3, <2>4, <2>5, <2>6
<1>5. {"insert", "begin", "cancelLoad", "retrySet", "idle"} \cap Rechecking = {}
  BY DEF Rechecking
<1>6. AllEarned'
  <2>1. Earns(w)
    BY <1>0, <1>1, StartEarns
  <2> QED BY <1>0, <1>1, <2>1 DEF AllEarned, Earns
<1>7. RowsEarned' /\ ProvisionedFirst'
  BY <1>0, <1>1 DEF RowsEarned, ProvisionedFirst, Exact, Existing
<1>8. RecoveryAlone'
  <2>1. CASE todo = {} /\ pc'[w] \in {"insert", "begin", "cancelLoad", "retrySet"}
             /\ loc'[w].op \in {"prepare", "deploy", "retry_dns", "cancel"}
    <3>1. \A v \in Workers : pc[v] # "idle" => pc[v] \notin Rechecking /\ loc[v].op # "recover"
      BY <1>0, <2>1 DEF RecoveryAlone
    <3> QED BY <1>1, <1>5, <2>1, <3>1 DEF RecoveryAlone
  <2>2. CASE /\ d \in todo /\ \A v \in Workers : pc[v] = "idle"
             /\ pc'[w] \in Rechecking /\ loc'[w].op = "recover"
    <3>1. tickets' = {}
      BY <1>0, <1>1, <2>2 DEF RecoveryAlone
    <3> QED BY <1>1, <2>2, <3>1 DEF RecoveryAlone, Alone
  <2> QED BY <1>4, <2>1, <2>2
<1>9. ReviewHeld'
  BY <1>0, <1>1, <1>4 DEF ReviewHeld
<1> QED BY <1>0, <1>1, <1>6, <1>7, <1>8, <1>9 DEF ProvisionInv

\* Every step preserves ProvisionInv.
LEMMA ProvisionStep ==
  ASSUME NoRecheck, DistinctInputs, TypeInv, RunInv, NodeInv, TruthInv, ProvisionInv,
         [Next]_vars
  PROVE  ProvisionInv'
<1>0. /\ AllEarned /\ RowsEarned /\ late \subseteq provisioned /\ ProvisionedFirst
      /\ RecoveryAlone /\ ReviewHeld /\ Claims
  BY DEF ProvisionInv, TruthInv
<1>1. ASSUME NEW w \in Workers, Command(w) PROVE ProvisionInv'
  BY <1>1, StartProvision DEF Command
<1>2. ASSUME NEW w \in Workers, RunStep(w) \/ DetachedStep(w) PROVE ProvisionInv'
  <2>1. CASE pc[w] = "idle"
    <3>1. PICK d \in Deployments : StartRecover(w, d)
      BY <1>2, <2>1, RunFrom DEF DetachedStep, CreateDeployment, BeginExecution, RetrySet,
         CancelLoad, CancelSet, Inspect, AdoptNode, Probe, SkipRecord, Lookup,
         WriteVerdict, Working
    <3> QED BY <3>1, StartProvision
  <2> QED BY <1>2, <2>1, WorkerProvision, InsertProvision
<1>3. CASE Panel
  <2>1. /\ UNCHANGED <<row, todo, tickets, pc, dep, provisioned>> /\ late' \subseteq late
        /\ \A v \in Workers : loc'[v] = loc[v] \/ PanelCreates(v)
    BY <1>3 DEF Panel, PanelCreates, PanelCreatesLate, Set, procs, db, ctl, TypeInv, ProcOK
  <2>2. ASSUME NEW v \in Workers
        PROVE  /\ loc'[v].op = loc[v].op /\ loc'[v].cur = loc[v].cur
               /\ loc'[v].out = loc[v].out /\ loc'[v].stage = loc[v].stage
    <3>1. ASSUME PanelCreates(v)
          PROVE  /\ loc'[v].op = loc[v].op /\ loc'[v].cur = loc[v].cur
                 /\ loc'[v].out = loc[v].out /\ loc'[v].stage = loc[v].stage
      BY <3>1 DEF PanelCreates, Set, TypeInv, ProcOK, Locals
    <3> QED BY <2>1, <3>1
  <2>3. PICK n \in NodeIds, d \in Deployments :
          CreateUnder(n, d) /\ d \in provisioned
    <3>1. ASSUME NEW v \in Workers, PanelCreates(v)
          PROVE  \E n \in NodeIds : CreateUnder(n, dep[v]) /\ dep[v] \in provisioned
                                    /\ dep[v] \in Deployments
      <4>1. pc[v] = "posted" /\ dep[v] \in Deployments
        BY <3>1 DEF PanelCreates, InFlight, TypeInv, ProcOK
      <4>2. dep[v] \in provisioned
        BY <1>0, <4>1 DEF Claims, Claim, AllEarned, Earned, AllAhead
      <4> QED BY <3>1, <4>1, <4>2 DEF PanelCreates
    <3>2. ASSUME NEW d \in Deployments, PanelCreatesLate(d)
          PROVE  \E n \in NodeIds : CreateUnder(n, d) /\ d \in provisioned
      BY <1>0, <3>2 DEF PanelCreatesLate
    <3> QED BY <1>3, <3>1, <3>2 DEF Panel
  <2>4. AllEarned' /\ RowsEarned' /\ RecoveryAlone' /\ ReviewHeld'
    BY <1>0, <2>1, <2>2 DEF AllEarned, Earned, RowsEarned, RecoveryAlone, Alone, ReviewHeld
  <2>5. ProvisionedFirst'
    <3> SUFFICES ASSUME NEW e \in Deployments, NEW m \in NodeIds, nodes'[m] # NoNode,
                        nodes'[m] = Input[e]
                 PROVE  e \in provisioned'
      BY DEF ProvisionedFirst, Exact, Existing
    <3>1. CASE m = n
      <4>1. Input[e] = Input[d]
        BY <2>3, <3>1 DEF CreateUnder, TypeInv, ExtOK
      <4> QED BY <2>1, <2>3, <4>1 DEF DistinctInputs
    <3>2. CASE m # n
      <4>1. nodes[m] = nodes'[m]
        BY <2>3, <3>2 DEF CreateUnder, TypeInv, ExtOK
      <4> QED BY <1>0, <2>1, <4>1 DEF ProvisionedFirst, Exact, Existing
    <3> QED BY <3>1, <3>2
  <2> QED BY <1>0, <2>1, <2>4, <2>5 DEF ProvisionInv
<1>4. CASE Crash
  <2>1. /\ UNCHANGED <<row, nodes, provisioned>> /\ pc' = [w \in Workers |-> "idle"]
        /\ tickets' = {}
        /\ late' \subseteq late \cup {dep[w] : w \in {v \in Workers : InFlight(v)}}
    BY <1>4 DEF Crash, Abandon, db
  <2>2. ASSUME NEW w \in Workers, InFlight(w) PROVE dep[w] \in provisioned
    BY <1>0, <2>2 DEF InFlight, Claims, Claim, AllEarned, Earned, AllAhead
  <2>3. late' \subseteq provisioned'
    BY <1>0, <2>1, <2>2
  <2> QED BY <1>0, <2>1, <2>3 DEF ProvisionInv, AllEarned, RowsEarned, ProvisionedFirst,
       Exact, Existing, RecoveryAlone, ReviewHeld
<1>5. CASE UNCHANGED vars
  BY <1>5 DEF vars, ProvisionInv, AllEarned, RowsEarned, ProvisionedFirst, Exact, Existing,
     RecoveryAlone, Alone, ReviewHeld
<1> QED BY <1>1, <1>2, <1>3, <1>4, <1>5 DEF Next

\* ProvisionInv holds initially.
LEMMA ProvisionInit == Init => ProvisionInv
  BY DEF Init, ProvisionInv, AllEarned, RowsEarned, ProvisionedFirst, Exact, Existing,
     RecoveryAlone, ReviewHeld, Past, NoRow, AllAhead

\* The panel has a Node with the name and address of a deployment only after
\* its VPS was provisioned, through every crash, retry, cancellation and lost
\* reply, provided that deployments ask for different Nodes and that nobody
\* calls RecheckRemnawave: a recheck of a deployment that waits for its
\* session puts it under MANUAL_REVIEW, from which Deploy goes straight to
\* createNode.
THEOREM NodesAfterProvisioning ==
  ASSUME NoRecheck, DistinctInputs
  PROVE  Spec => []ProvisionedFirst
<1> DEFINE Inv == TypeInv /\ RunInv /\ NodeInv /\ TruthInv /\ ProvisionInv
<1>1. Init => Inv
  BY TypeInit, RunInit, NodeInit, TruthInit, ProvisionInit
<1>2. Inv /\ [Next]_vars => Inv'
  BY TypeStep, RunStepInv, NodeStep, TruthStep, ProvisionStep
<1>3. Inv => ProvisionedFirst
  BY DEF ProvisionInv
<1> QED BY <1>1, <1>2, <1>3, PTL DEF Spec

-----------------------------------------------------------------------------
(* The Node is recorded before the address is published. *)

\* A row at addDNS, or about to be, has its Node's UUID.
RowRecorded(r) ==
  r.status \in {"DNS_FAILED", "ADDING_TO_DNS"} \/ r.step = "add_dns" => r.uuid # NoId

\* So has the row r of a worker whose locals x are past createNode.
Recorded(x, r) ==
  \/ x.stage \in {"wait_remnawave", "add_dns"}
  \/ x.cur.step = "add_dns" \/ x.out.step = "add_dns"
  \/ x.out.status \in {"DNS_FAILED", "ADDING_TO_DNS"}
  => r.uuid # NoId

RowsRecorded == \A d \in Deployments : RowRecorded(row[d])

AllRecorded == \A w \in Workers : pc[w] # "idle" => Recorded(loc[w], row[dep[w]])

RecordedInv == RowsRecorded /\ AllRecorded

\* What a step leaves w with.
Records(w) == pc'[w] # "idle" => Recorded(loc'[w], row'[dep'[w]])

\* Going on with locals x.
LEMMA GoesRecords ==
  ASSUME TypeInv, NEW w \in Workers, NEW l, NEW x, Goes(w, l, x),
         Recorded(x, row'[dep[w]])
  PROVE  Records(w)
  BY DEF Goes, Goto, Set, Keep, TypeInv, ProcOK, Records

\* What was recorded stays recorded.
LEMMA StillRecorded ==
  ASSUME TypeInv, AllRecorded, Grows, NEW w \in Workers, pc[w] # "idle"
  PROVE  Recorded(loc[w], row'[dep[w]])
  BY DEF AllRecorded, Recorded, Grows, TypeInv, ProcOK

\* Returning to the deferred release.
LEMMA StopRecords ==
  ASSUME TypeInv, AllRecorded, Grows, NEW w \in Workers, pc[w] # "idle", Stop(w)
  PROVE  Records(w)
<1>1. dep'[w] = dep[w] /\ loc'[w] = loc[w]
  BY DEF Stop, TypeInv, ProcOK
<1> QED BY <1>1, StillRecorded DEF Records

\* Entering failStage.
LEMMA FailsRecords ==
  ASSUME TypeInv, AllRecorded, Grows, NEW w \in Workers, pc[w] # "idle",
         NEW status, NEW step, Fails(w, status, step),
         status # "FAILED" \/ step = "add_dns" => row'[dep[w]].uuid # NoId
  PROVE  Records(w)
<1> DEFINE x == [loc[w] EXCEPT !.out = [status |-> status, step |-> step]]
<1>1. /\ x.cur = loc[w].cur /\ x.stage = loc[w].stage
      /\ x.out.status = status /\ x.out.step = step
  BY DEF TypeInv, ProcOK, Locals
<1>2. Goes(w, "failRecord", x)
  BY DEF Fails
<1> HIDE DEF x
<1>3. Recorded(x, row'[dep[w]])
  BY <1>1, StillRecorded DEF Recorded
<1> QED BY <1>2, <1>3, GoesRecords

\* Entering a stage with a row as read before or just now.
LEMMA EnterStageRecords ==
  ASSUME TypeInv, AllRecorded, Grows, NEW w \in Workers, pc[w] # "idle",
         NEW current, NEW ahead, EnterStage(w, current, ahead),
         current.step = "add_dns" => row'[dep[w]].uuid # NoId,
         current.uuid # NoId => row'[dep[w]].uuid # NoId,
         NextStage(current, ahead) = "wait_remnawave" => row'[dep[w]].uuid # NoId
  PROVE  Records(w)
<1> DEFINE stage == NextStage(current, ahead)
           into  == [loc[w] EXCEPT !.stage = stage, !.cur = current]
           fail  == [into EXCEPT !.out = [status |-> "FAILED", step |-> stage]]
           l     == IF current.status = StatusOf[stage]
                      THEN StageBody(stage, current) ELSE "setState"
<1>1. /\ into.cur = current /\ fail.cur = current
      /\ into.stage = stage /\ fail.stage = stage
      /\ into.out = loc[w].out /\ fail.out = [status |-> "FAILED", step |-> stage]
  BY DEF TypeInv, ProcOK, Locals
<1>2. \/ Stop(w)
      \/ stage = "wait_remnawave" /\ Goes(w, "failRecord", fail)
      \/ /\ stage = "create_remnawave_node" \/ current.uuid # NoId
         /\ Goes(w, l, into)
  BY DEF EnterStage
<1>3. stage = "wait_remnawave" => row'[dep[w]].uuid # NoId
  OBVIOUS
<1> HIDE DEF into, fail, l, stage
<1>4. stage = "wait_remnawave" => Recorded(fail, row'[dep[w]])
  BY <1>3 DEF Recorded
<1>5. stage = "create_remnawave_node" \/ current.uuid # NoId => Recorded(into, row'[dep[w]])
  BY <1>1, StillRecorded DEF Recorded
<1> QED BY <1>2, <1>4, <1>5, GoesRecords, StopRecords

\* The steps of a run keep what is recorded.
LEMMA RunRecords ==
  ASSUME TypeInv, Claims, AllRecorded, RowsRecorded, Grows, NEW w \in Workers, RunStep(w)
  PROVE  Records(w)
<1> DEFINE R(x) == Recorded(x, row'[dep[w]])
           u    == row'[dep[w]].uuid # NoId
<1>0. pc[w] # "idle"
  BY RunFrom DEF Working
<1>a. /\ dep[w] \in Deployments /\ loc[w] \in Locals /\ row[dep[w]] \in Rows
      /\ row[dep[w]].uuid # NoId => u
      /\ RowRecorded(row[dep[w]])
      /\ R(loc[w])
      /\ Claim(pc[w], loc[w], dep[w], row[dep[w]], provisioned, zone)
  BY <1>0, StillRecorded DEF TypeInv, ProcOK, DbOK, Claims, RowsRecorded, Grows
<1>b. /\ loc[w].stage \in {"wait_remnawave", "add_dns"} => u
      /\ loc[w].cur.step = "add_dns" => u
      /\ loc[w].cur.uuid # NoId => u
  BY <1>a DEF Recorded, Claim
<1>c. ASSUME NEW l, Goes(w, l, loc[w]) PROVE Records(w)
  BY <1>a, <1>c, GoesRecords
<1>d. ASSUME Stop(w) PROVE Records(w)
  BY <1>0, <1>d, StopRecords
<1>e. ASSUME NEW step, Fails(w, "FAILED", step), step = "add_dns" => u
      PROVE  Records(w)
  BY <1>0, <1>e, FailsRecords
<1>f. ASSUME NEW l, NEW x, Goes(w, l, x), R(x) PROVE Records(w)
  BY <1>f, GoesRecords
<1>1. CASE Acquire(w)
  <2> DEFINE x == [loc[w] EXCEPT !.stage = "preflight"]
  <2>1. x.cur = loc[w].cur /\ x.out = loc[w].out /\ x.stage = "preflight"
    BY <1>a DEF Locals
  <2>2. Goes(w, "setState", x) \/ Goes(w, "load", loc[w])
    BY <1>1 DEF Acquire, Admitted
  <2> HIDE DEF x
  <2>3. R(x)
    BY <1>a, <2>1 DEF Recorded
  <2> HIDE DEF R
  <2> QED BY <1>c, <1>f, <2>2, <2>3
<1>2. CASE Load(w)
  <2> DEFINE retry == [loc[w] EXCEPT !.stage = "add_dns",
                         !.cur = [row[dep[w]] EXCEPT !.status = "ADDING_TO_DNS"]]
             go    == [loc[w] EXCEPT !.cur = row[dep[w]]]
  <2>1. go.cur = row[dep[w]] /\ go.out = loc[w].out /\ go.stage = loc[w].stage
    BY <1>a DEF Locals
  <2>2. \/ Goes(w, "host", go)
        \/ /\ row[dep[w]].status \in {"DNS_FAILED", "ADDING_TO_DNS"}
           /\ Goes(w, "setState", retry)
        \/ Stop(w)
    BY <1>2 DEF Load
  <2> HIDE DEF retry, go
  <2>3. R(go)
    BY <1>a, <2>1 DEF Recorded, RowRecorded
  <2>4. row[dep[w]].status \in {"DNS_FAILED", "ADDING_TO_DNS"} => R(retry)
    BY <1>a DEF Recorded, RowRecorded
  <2> HIDE DEF R
  <2> QED BY <1>d, <1>f, <2>2, <2>3, <2>4
<1>3. CASE CheckHost(w)
  BY <1>3, <1>b, <1>c, <1>e DEF CheckHost
<1>4. CASE Admit(w)
  <2> DEFINE x == [loc[w] EXCEPT !.stage = "prepare_certificate"]
  <2>1. x.cur = loc[w].cur /\ x.out = loc[w].out /\ x.stage = "prepare_certificate"
    BY <1>a DEF Locals
  <2>2. \/ \E l \in {"work", "setState"} : Goes(w, l, x)
        \/ Fails(w, "FAILED", loc[w].cur.step)
        \/ EnterStage(w, loc[w].cur, AllAhead)
    BY <1>4 DEF Admit
  <2> HIDE DEF x
  <2>3. R(x)
    BY <1>a, <2>1 DEF Recorded
  <2>4. NextStage(loc[w].cur, AllAhead) = "wait_remnawave" => u
    BY <1>b DEF NextStage, AllAhead
  <2> HIDE DEF R
  <2> QED BY <1>0, <1>b, <1>e, <1>f, <2>2, <2>3, <2>4, EnterStageRecords
<1>5. CASE BeginStage(w) \/ SkipDNS(w) \/ Finish(w) \/ FailState(w) \/ FailRecord(w)
           \/ RecordRunning(w)
  BY <1>5, <1>c, <1>d DEF BeginStage, SkipDNS, Finish, FailState, FailRecord, RecordRunning,
     Persists
<1>6. CASE Preflight(w) \/ PollNode(w) \/ CheckHealthy(w) \/ Provision(w) \/ PostNode(w)
  <2>1. \/ \E l : Goes(w, l, loc[w])
        \/ \E step : Fails(w, "FAILED", step) /\ (step = "add_dns" => loc[w].stage = step)
    BY <1>6 DEF Preflight, PollNode, CheckHealthy, Provision, PostNode
  <2> QED BY <1>b, <1>c, <1>e, <2>1
<1>7. CASE PrepareCertificate(w)
  <2> DEFINE x == [loc[w] EXCEPT !.stage = "provisioning"]
  <2>1. x.cur = loc[w].cur /\ x.out = loc[w].out /\ x.stage = "provisioning"
    BY <1>a DEF Locals
  <2>2. \/ Goes(w, "complete", loc[w]) \/ Goes(w, "setState", x)
        \/ Fails(w, "FAILED", "prepare_certificate")
    BY <1>7 DEF PrepareCertificate
  <2> HIDE DEF x
  <2>3. R(x)
    BY <1>a, <2>1 DEF Recorded
  <2>4. "prepare_certificate" # "add_dns"
    OBVIOUS
  <2> HIDE DEF R
  <2> QED BY <1>c, <1>e, <1>f, <2>2, <2>3, <2>4
<1>8. CASE ListNodes(w)
  <2>1. ASSUME NEW n, Goes(w, "persist", [loc[w] EXCEPT !.node = n]) PROVE Records(w)
    <3> DEFINE x == [loc[w] EXCEPT !.node = n]
    <3>1. x.cur = loc[w].cur /\ x.out = loc[w].out /\ x.stage = loc[w].stage
      BY <1>a DEF Locals
    <3> HIDE DEF x
    <3>2. R(x)
      BY <1>a, <3>1 DEF Recorded
    <3> HIDE DEF R
    <3> QED BY <1>f, <2>1, <3>2 DEF x
  <2>2. "create_remnawave_node" # "add_dns"
    OBVIOUS
  <2> QED BY <1>8, <1>c, <1>e, <2>1, <2>2 DEF ListNodes
<1>9. CASE NodeCreated(w)
  <2> DEFINE x == [loc[w] EXCEPT !.node = NoId,
               !.out = [status |-> "FAILED", step |-> "create_remnawave_node"]]
  <2>1. /\ x.out = [status |-> "FAILED", step |-> "create_remnawave_node"]
        /\ x.stage = loc[w].stage /\ x.cur = loc[w].cur
    BY <1>a DEF Locals
  <2>2. Goes(w, "persist", loc[w]) \/ Goes(w, "failRecord", x)
    BY <1>9 DEF NodeCreated
  <2> HIDE DEF x
  <2>3. R(x)
    BY <1>a, <2>1 DEF Recorded
  <2> HIDE DEF R
  <2> QED BY <1>c, <1>f, <2>2, <2>3
<1>10. CASE PersistNode(w)
  <2> DEFINE x == [loc[w] EXCEPT !.cur.uuid = loc[w].node, !.node = NoId]
  <2>1. x.out = loc[w].out /\ x.stage = loc[w].stage /\ x.cur.step = loc[w].cur.step
    BY <1>a DEF Locals, Rows
  <2>2. Goes(w, "complete", x) \/ Stop(w)
    BY <1>10 DEF PersistNode, Persists
  <2> HIDE DEF x
  <2>3. R(x)
    BY <1>a, <2>1 DEF Recorded
  <2> HIDE DEF R
  <2> QED BY <1>d, <1>f, <2>2, <2>3
<1>11. CASE AddIP(w)
  <2>1. Goes(w, "complete", loc[w]) \/ Fails(w, "DNS_FAILED", "add_dns")
    BY <1>11 DEF AddIP
  <2>2. u
    BY <1>11, <1>a, <1>b DEF AddIP, Claim
  <2> QED BY <1>0, <1>c, <2>1, <2>2, FailsRecords
<1>12. CASE CompleteStage(w)
  <2> DEFINE next == Following(loc[w].stage)
             x    == [loc[w] EXCEPT !.stage = next[2]]
  <2>1. next[2] \in {"wait_remnawave", "add_dns"} =>
          loc[w].stage \in {"create_remnawave_node", "wait_remnawave", "add_dns"}
    BY <1>12, <1>a DEF CompleteStage, Claim, Following, Stages
  <2>2. loc[w].stage = "create_remnawave_node" => u
    BY <1>12, <1>a DEF CompleteStage, Claim, Effect
  <2> HIDE DEF next
  <2>3. x.cur = loc[w].cur /\ x.out = loc[w].out /\ x.stage = next[2]
    BY <1>a DEF Locals
  <2>4. Goes(w, next[1], x) \/ Stop(w)
    BY <1>12 DEF CompleteStage, Persists, next
  <2> HIDE DEF x
  <2>5. R(x)
    BY <1>a, <1>b, <2>1, <2>2, <2>3 DEF Recorded
  <2> HIDE DEF R
  <2> QED BY <1>d, <1>f, <2>4, <2>5
<1>13. CASE Reload(w)
  <2> DEFINE x == [loc[w] EXCEPT !.op = IF ctx[w] THEN @ ELSE "prepared"]
             ahead == CASE loc[w].stage = "create_remnawave_node" -> AllAhead
                        [] loc[w].stage = "wait_remnawave" -> {"wait_remnawave", "add_dns"}
                        [] OTHER -> {"add_dns"}
  <2>1. x.cur = loc[w].cur /\ x.out = loc[w].out /\ x.stage = loc[w].stage
    BY <1>a DEF Locals
  <2>2. \/ Goes(w, "releaseSlot", x) \/ Stop(w)
        \/ EnterStage(w, row[dep[w]], ahead)
    BY <1>13 DEF Reload
  <2>3. NextStage(row[dep[w]], ahead) = "wait_remnawave" =>
          loc[w].stage = "wait_remnawave" \/ row[dep[w]].uuid # NoId
    BY DEF NextStage, AllAhead
  <2>4. row[dep[w]].step = "add_dns" => u
    BY <1>a DEF RowRecorded
  <2> HIDE DEF x, ahead
  <2>5. R(x)
    BY <1>a, <2>1 DEF Recorded
  <2>6. NextStage(row[dep[w]], ahead) = "wait_remnawave" => u
    BY <1>a, <1>b, <2>3
  <2> HIDE DEF R
  <2> QED BY <1>0, <1>a, <1>d, <1>f, <2>2, <2>4, <2>5, <2>6, EnterStageRecords
<1>14. CASE Abort(w) \/ ReleaseSlot(w)
  <2>1. dep'[w] = dep[w] /\ loc'[w] = loc[w]
    BY <1>14 DEF Abort, ReleaseSlot
  <2> QED BY <1>a, <2>1 DEF Records
<1>15. CASE Unregister(w)
  BY <1>15 DEF Unregister, Reset, Records, TypeInv, ProcOK
<1> QED BY <1>1, <1>2, <1>3, <1>4, <1>5, <1>6, <1>7, <1>8, <1>9, <1>10, <1>11, <1>12,
           <1>13, <1>14, <1>15
        DEF RunStep

\* So do the steps outside a run.
LEMMA DetachedRecords ==
  ASSUME TypeInv, Claims, AllRecorded, RowsRecorded, Grows, NEW w \in Workers,
         DetachedStep(w), ~CreateDeployment(w), pc[w] # "idle"
  PROVE  Records(w)
<1> DEFINE R(x) == Recorded(x, row'[dep[w]])
           u    == row'[dep[w]].uuid # NoId
<1>a. /\ dep[w] \in Deployments /\ loc[w] \in Locals /\ row[dep[w]] \in Rows
      /\ R(loc[w])
      /\ Claim(pc[w], loc[w], dep[w], row[dep[w]], provisioned, zone)
  BY StillRecorded DEF TypeInv, ProcOK, DbOK, Claims
<1>b. /\ loc[w].cur.step = "add_dns" => u
      /\ loc[w].cur.uuid # NoId => u
  BY <1>a DEF Recorded, Claim, Grows
<1>c. ASSUME NEW l, Goes(w, l, loc[w]) PROVE Records(w)
  BY <1>a, <1>c, GoesRecords
<1>d. ASSUME Reset(w) PROVE Records(w)
  BY <1>d DEF Reset, Records, TypeInv, ProcOK
<1>e. ASSUME NEW status, NEW step, Verdict(w, status, step),
             status = "DNS_FAILED" \/ step = "add_dns" => u, status # "ADDING_TO_DNS"
      PROVE  Records(w)
  <2> DEFINE x == [loc[w] EXCEPT !.out = [status |-> status, step |-> step]]
  <2>1. /\ x.cur = loc[w].cur /\ x.stage = loc[w].stage
        /\ x.out.status = status /\ x.out.step = step
    BY <1>a DEF Locals
  <2>2. Goes(w, "verdict", x)
    BY <1>e DEF Verdict
  <2> HIDE DEF x
  <2>3. R(x)
    BY <1>a, <1>e, <2>1 DEF Recorded
  <2> HIDE DEF R
  <2> QED BY <2>2, <2>3, GoesRecords DEF R
<1>1. CASE BeginExecution(w)
  <2> DEFINE x == [loc[w] EXCEPT !.out = NoOut, !.cur = NoRow]
  <2>1. x.cur = NoRow /\ x.out = NoOut /\ x.stage = loc[w].stage
    BY <1>a DEF Locals
  <2>2. \/ Reset(w)
        \/ loc' = [loc EXCEPT ![w] = x] /\ dep' = dep
    BY <1>1 DEF BeginExecution, Set, Keep
  <2> HIDE DEF x
  <2>3. R(x)
    BY <1>a, <2>1 DEF Recorded, NoRow, NoOut
  <2>4. CASE loc' = [loc EXCEPT ![w] = x] /\ dep' = dep
    <3>1. loc'[w] = x /\ dep'[w] = dep[w]
      BY <2>4 DEF TypeInv, ProcOK
    <3> QED BY <2>3, <3>1 DEF Records
  <2> QED BY <1>d, <2>2, <2>4
<1>2. CASE RetrySet(w) \/ CancelLoad(w) \/ CancelSet(w) \/ WriteVerdict(w)
  BY <1>2, <1>c, <1>d DEF RetrySet, CancelLoad, CancelSet, WriteVerdict, EndRecheck
<1>3. CASE Inspect(w)
  <2>1. ASSUME NEW n, Goes(w, "adopt", [loc[w] EXCEPT !.node = n]) PROVE Records(w)
    <3> DEFINE x == [loc[w] EXCEPT !.node = n]
    <3>1. x.cur = loc[w].cur /\ x.out = loc[w].out /\ x.stage = loc[w].stage
      BY <1>a DEF Locals
    <3> HIDE DEF x
    <3>2. R(x)
      BY <1>a, <3>1 DEF Recorded
    <3> HIDE DEF R
    <3> QED BY <2>1, <3>2, GoesRecords DEF x, R
  <2>2. (\E n : Goes(w, "adopt", [loc[w] EXCEPT !.node = n]))
        \/ Verdict(w, "MANUAL_REVIEW", loc[w].cur.step)
    BY <1>3 DEF Inspect
  <2> QED BY <1>b, <1>e, <2>1, <2>2
<1>4. CASE AdoptNode(w)
  <2>1. \/ Reset(w)
        \/ /\ row' = [row EXCEPT ![dep[w]].uuid = loc[w].node]
           /\ \E x : Goes(w, "probe", x)
    BY <1>4 DEF AdoptNode, Rechecks, EndRecheck
  <2>2. CASE /\ row' = [row EXCEPT ![dep[w]].uuid = loc[w].node]
             /\ \E x : Goes(w, "probe", x)
    <3>1. u
      BY <1>4, <1>a, <2>2 DEF AdoptNode, Claim, TypeInv, DbOK, Rows
    <3> QED BY <2>2, <3>1, GoesRecords DEF Recorded
  <2> QED BY <1>d, <2>1, <2>2
<1>5. CASE Probe(w) \/ SkipRecord(w) \/ Lookup(w)
  <2>1. u
    BY <1>5, <1>a, <1>b DEF Probe, SkipRecord, Lookup, Claim
  <2>2. \/ \E l : Goes(w, l, loc[w])
        \/ \E status, step : Verdict(w, status, step) /\ status # "ADDING_TO_DNS"
    BY <1>5 DEF Probe, SkipRecord, Lookup
  <2> QED BY <1>c, <1>e, <2>1, <2>2
<1> QED BY <1>1, <1>2, <1>3, <1>4, <1>5 DEF DetachedStep, StartRecover

\* A new command starts with what its row has recorded.
LEMMA StartRecords ==
  ASSUME TypeInv, RowsRecorded, row' = row, NEW w \in Workers, NEW d \in Deployments,
         \/ StartPrepare(w, d) \/ StartDeploy(w, d) \/ StartRetryDNS(w, d)
         \/ StartRetryStep(w, d) \/ StartCancel(w, d) \/ StartRecheck(w, d)
         \/ StartRecover(w, d)
  PROVE  Records(w)
<1>0. /\ row[d] \in Rows /\ RowRecorded(row[d])
      /\ \A x : /\ x.stage = "none" /\ x.cur = Blank.cur /\ x.out = Blank.out
                => Recorded(x, row[d])
  BY DEF RowsRecorded, TypeInv, DbOK, Recorded, Blank, NoRow, NoOut
<1>1. ASSUME NEW op, dep' = [dep EXCEPT ![w] = d], Set(w, [Blank EXCEPT !.op = op])
      PROVE  Records(w)
  <2> DEFINE x == [Blank EXCEPT !.op = op]
  <2>1. x.cur = Blank.cur /\ x.out = Blank.out /\ x.stage = "none"
    BY DEF Blank
  <2>2. dep'[w] = d /\ loc'[w] = x
    BY <1>1 DEF Set, TypeInv, ProcOK
  <2> HIDE DEF x
  <2> QED BY <1>0, <2>1, <2>2 DEF Records
<1>2. CASE StartPrepare(w, d) \/ StartDeploy(w, d) \/ StartRetryDNS(w, d) \/ StartCancel(w, d)
  BY <1>1, <1>2 DEF StartPrepare, StartDeploy, StartRetryDNS, StartCancel, Start
<1>3. CASE StartRetryStep(w, d)
  <2> DEFINE op == IF row[d].step = "add_dns" THEN "retry_dns" ELSE "deploy"
             x == [Blank EXCEPT !.op = op,
                     !.out = [status |-> ResumeOf[row[d].step], step |-> row[d].step]]
  <2>1. /\ x.cur = Blank.cur /\ x.stage = "none"
        /\ x.out.status = ResumeOf[row[d].step] /\ x.out.step = row[d].step
    BY DEF Blank
  <2>2. dep'[w] = d /\ loc'[w] = x
    BY <1>3 DEF StartRetryStep, Start, Set, TypeInv, ProcOK
  <2> HIDE DEF x
  <2>3. row[d].step \in DOMAIN ResumeOf
    BY <1>3 DEF StartRetryStep
  <2>4. x.out.status \in {"DNS_FAILED", "ADDING_TO_DNS"} => row[d].step = "add_dns"
    BY <2>1, <2>3 DEF ResumeOf
  <2>5. Recorded(x, row[d])
    BY <1>0, <2>1, <2>4 DEF Recorded, RowRecorded, Blank, NoRow
  <2> QED BY <2>2, <2>5 DEF Records
<1>4. ASSUME NEW op, Classify(w, d, op) PROVE Records(w)
  <2> DEFINE into    == [Blank EXCEPT !.op = op, !.cur = row[d]]
             verdict == [into EXCEPT !.out = [status |-> "MANUAL_REVIEW", step |-> row[d].step]]
  <2>1. /\ into.cur = row[d] /\ into.out = Blank.out /\ into.stage = "none"
        /\ verdict.cur = row[d] /\ verdict.stage = "none"
        /\ verdict.out.status = "MANUAL_REVIEW" /\ verdict.out.step = row[d].step
    BY DEF Blank
  <2>2. dep'[w] = d /\ loc'[w] \in {into, verdict}
    BY <1>4 DEF Classify, Set, TypeInv, ProcOK
  <2> HIDE DEF into, verdict
  <2>3. Recorded(into, row[d]) /\ Recorded(verdict, row[d])
    BY <1>0, <2>1 DEF Recorded, RowRecorded, Blank, NoOut
  <2> QED BY <2>2, <2>3 DEF Records
<1> QED BY <1>2, <1>3, <1>4 DEF StartRecheck, StartRecover

\* What a worker writes to its row keeps the row recorded.
LEMMA WorkerRowRecorded ==
  ASSUME TypeInv, Claims, AllRecorded, RowsRecorded, Grows, NEW w \in Workers,
         RunStep(w) \/ DetachedStep(w), ~CreateDeployment(w), pc[w] # "idle"
  PROVE  RowsRecorded'
<1> DEFINE d == dep[w]
<1>0. /\ d \in Deployments /\ loc[w] \in Locals /\ row \in [Deployments -> Rows]
      /\ Claim(pc[w], loc[w], d, row[d], provisioned, zone)
      /\ Recorded(loc[w], row[d])
      /\ pc[w] \in Beginning => loc[w].stage \in Stages
  BY DEF TypeInv, ProcOK, DbOK, Claims, AllRecorded
<1>a. ASSUME NEW status, NEW step, SetRow(d, status, step) \/ row' = row,
             status \in {"DNS_FAILED", "ADDING_TO_DNS"} \/ step = "add_dns" =>
               row[d].uuid # NoId
      PROVE  RowsRecorded'
  <2>1. CASE row' = row
    BY <2>1 DEF RowsRecorded
  <2>2. CASE SetRow(d, status, step)
    <3>1. /\ row'[d].status = status /\ row'[d].step = step /\ row'[d].uuid = row[d].uuid
          /\ \A e \in Deployments : e # d => row'[e] = row[e]
      BY <1>0, <2>2 DEF SetRow, Rows
    <3> QED BY <1>a, <3>1 DEF RowsRecorded, RowRecorded
  <2> QED BY <1>a, <2>1, <2>2
<1>b. ASSUME NEW step, NEW status, RecordStep(d, step, status) \/ row' = row,
             status = "RUNNING" /\ step = "add_dns" => row[d].uuid # NoId
      PROVE  RowsRecorded'
  <2>1. CASE row' = row
    BY <2>1 DEF RowsRecorded
  <2>2. CASE RecordStep(d, step, status)
    <3>1. /\ row'[d].status = row[d].status /\ row'[d].uuid = row[d].uuid
          /\ row'[d].step = row[d].step \/ (row'[d].step = step /\ status = "RUNNING")
          /\ \A e \in Deployments : e # d => row'[e] = row[e]
      BY <1>0, <2>2 DEF RecordStep, Rows
    <3> QED BY <1>b, <3>1 DEF RowsRecorded, RowRecorded
  <2> QED BY <1>b, <2>1, <2>2
<1>c. ASSUME row' = [row EXCEPT ![d].uuid = loc[w].node] PROVE RowsRecorded'
  <2>1. \A e \in Deployments : row'[e].status = row[e].status /\ row'[e].step = row[e].step
    BY <1>0, <1>c DEF Rows
  <2> QED BY <2>1 DEF RowsRecorded, RowRecorded, Grows
<1>1. CASE BeginStage(w)
  <2> DEFINE status == StatusOf[loc[w].stage]
  <2>1. /\ SetRow(d, status, loc[w].stage) \/ row' = row
        /\ loc[w].stage \in Stages
    BY <1>0, <1>1 DEF BeginStage, Persists, db, Beginning
  <2>2. status \in {"DNS_FAILED", "ADDING_TO_DNS"} => loc[w].stage = "add_dns"
    BY <2>1 DEF StatusOf, Stages
  <2>3. loc[w].stage = "add_dns" => row[d].uuid # NoId
    BY <1>0 DEF Recorded
  <2> HIDE DEF status
  <2> QED BY <1>a, <2>1, <2>2, <2>3
<1>2. CASE RecordRunning(w)
  <2>1. RecordStep(d, loc[w].stage, "RUNNING") \/ row' = row
    BY <1>2 DEF RecordRunning, Persists, db
  <2> QED BY <1>0, <1>b, <2>1 DEF Recorded
<1>3. CASE SkipDNS(w) \/ CompleteStage(w) \/ FailRecord(w) \/ SkipRecord(w)
  <2>1. row' = row \/ \E step, status : RecordStep(d, step, status) /\ status # "RUNNING"
    BY <1>3 DEF SkipDNS, CompleteStage, FailRecord, SkipRecord, Persists, db
  <2>2. ASSUME row' = row PROVE RowsRecorded'
    BY <2>2 DEF RowsRecorded
  <2> QED BY <1>b, <2>1, <2>2
<1>4. CASE PersistNode(w) \/ AdoptNode(w)
  <2>1. row' = row \/ row' = [row EXCEPT ![d].uuid = loc[w].node]
    BY <1>4 DEF PersistNode, AdoptNode, Persists, Rechecks, db
  <2> QED BY <1>c, <2>1 DEF RowsRecorded
<1>5. CASE Finish(w)
  <2>1. SetRow(d, "COMPLETED", "completed") \/ row' = row
    BY <1>5 DEF Finish, Persists, db
  <2> QED BY <1>a, <2>1
<1>6. CASE FailState(w) \/ RetrySet(w) \/ WriteVerdict(w)
  <2>1. SetRow(d, loc[w].out.status, loc[w].out.step) \/ row' = row
    BY <1>6 DEF FailState, RetrySet, WriteVerdict, Persists, db
  <2> QED BY <1>0, <1>a, <2>1 DEF Recorded
<1>7. CASE CancelSet(w)
  <2>1. SetRow(d, "CANCELLED", "cancelled") \/ row' = row
    BY <1>7 DEF CancelSet
  <2> QED BY <1>a, <2>1
<1>8. CASE UNCHANGED db
  BY <1>8 DEF db, RowsRecorded
<1> QED BY <1>1, <1>2, <1>3, <1>4, <1>5, <1>6, <1>7, <1>8
        DEF RunStep, DetachedStep, Acquire, Load, CheckHost, Admit, Preflight,
            PrepareCertificate, Provision, ListNodes, PostNode, NodeCreated, PollNode,
            CheckHealthy, AddIP, Reload, Abort, ReleaseSlot, Unregister,
            BeginExecution, CancelLoad, Inspect, Probe, Lookup, StartRecover, Classify

\* What a worker's step writes lets the facts grow.
LEMMA WorkerGrows ==
  ASSUME TypeInv, TruthInv, NEW w \in Workers, RunStep(w) \/ DetachedStep(w),
         ~CreateDeployment(w), pc[w] # "idle"
  PROVE  Grows
<1>1. Claims /\ RowsTrue /\ StepsTrue
  BY DEF TruthInv
<1>2. Writes(w) /\ Reaches(w)
  BY <1>1, RunEffect, DetachedEffect
<1>3. pc[w] # "insert"
  BY RunFrom DEF Working, DetachedStep, BeginExecution, RetrySet, CancelLoad, CancelSet,
     Inspect, AdoptNode, Probe, SkipRecord, Lookup, WriteVerdict, StartRecover
<1>4. dep[w] \in Deployments /\ row[dep[w]].status # "ABSENT"
  BY <1>1, <1>3 DEF Claims, Claim, TypeInv, ProcOK
<1> QED BY <1>1, <1>2, <1>4, WritesSound

\* A row is inserted where none was.
LEMMA InsertWrites ==
  ASSUME TypeInv, TruthInv, NEW w \in Workers, CreateDeployment(w)
  PROVE  /\ dep[w] \in Deployments /\ pc[w] = "insert" /\ row[dep[w]] = NoRow
         /\ pc'[w] \in {"begin", "idle"}
         /\ \A e \in Deployments : e # dep[w] => row'[e] = row[e]
         /\ \/ row'[dep[w]] = row[dep[w]]
            \/ row'[dep[w]] = [status |-> "CREATED", step |-> "created", uuid |-> NoId]
         /\ \A v \in Workers : pc[v] # "idle" /\ dep[v] = dep[w] => v = w
<1>1. dep[w] \in Deployments /\ pc[w] = "insert"
  BY DEF CreateDeployment, TypeInv, ProcOK
<1>2. row[dep[w]] = NoRow /\ row[dep[w]].status = "ABSENT"
  BY <1>1 DEF TruthInv, Claims, Claim, RowsTrue
<1>3. \A v \in Workers : pc[v] # "idle" /\ dep[v] = dep[w] => v = w
  BY <1>1, <1>2 DEF TruthInv, Claims, Claim
<1>4. /\ \A e \in Deployments : e # dep[w] => row'[e] = row[e]
      /\ \/ row'[dep[w]] = row[dep[w]]
         \/ row'[dep[w]] = [status |-> "CREATED", step |-> "created", uuid |-> NoId]
  BY <1>1 DEF CreateDeployment, InsertRow, TypeInv, DbOK
<1>5. pc'[w] \in {"begin", "idle"}
  BY DEF CreateDeployment, Reset, TypeInv, ProcOK
<1> QED BY <1>1, <1>2, <1>3, <1>4, <1>5

\* Every step preserves RecordedInv.
LEMMA RecordedStep ==
  ASSUME TypeInv, TruthInv, RecordedInv, [Next]_vars
  PROVE  RecordedInv'
<1>0. Claims /\ RowsRecorded /\ AllRecorded
  BY DEF TruthInv, RecordedInv
<1>a. ASSUME NEW w \in Workers, Records(w), RowsRecorded',
             \A v \in Workers \ {w} : pc'[v] = pc[v] /\ dep'[v] = dep[v] /\ loc'[v] = loc[v],
             \A d \in Deployments : row[d].uuid # NoId => row'[d].uuid # NoId
      PROVE  RecordedInv'
  <2>1. ASSUME NEW v \in Workers, v # w, pc'[v] # "idle"
        PROVE  Recorded(loc'[v], row'[dep'[v]])
    <3>1. Recorded(loc[v], row[dep[v]]) /\ dep[v] \in Deployments
      BY <1>0, <1>a, <2>1 DEF AllRecorded, TypeInv, ProcOK
    <3>2. Recorded(loc[v], row'[dep[v]])
      BY <1>a, <3>1 DEF Recorded
    <3> QED BY <1>a, <2>1, <3>2
  <2> QED BY <1>a, <2>1 DEF RecordedInv, AllRecorded, Records
<1>b. ASSUME NEW w \in Workers, NEW d \in Deployments,
             \/ StartPrepare(w, d) \/ StartDeploy(w, d) \/ StartRetryDNS(w, d)
             \/ StartRetryStep(w, d) \/ StartCancel(w, d) \/ StartRecheck(w, d)
             \/ StartRecover(w, d)
      PROVE  RecordedInv'
  <2>1. /\ row' = row
        /\ \A v \in Workers \ {w} : pc'[v] = pc[v] /\ dep'[v] = dep[v] /\ loc'[v] = loc[v]
    BY <1>b DEF StartPrepare, StartDeploy, StartRetryDNS, StartRetryStep, StartCancel,
         StartRecheck, StartRecover, Start, Classify, Set, db, TypeInv, ProcOK
  <2>2. Records(w)
    BY <1>0, <1>b, <2>1, StartRecords
  <2>3. RowsRecorded'
    BY <1>0, <2>1 DEF RowsRecorded
  <2> QED BY <1>a, <2>1, <2>2, <2>3
<1>1. ASSUME NEW w \in Workers, Command(w) PROVE RecordedInv'
  BY <1>1, <1>b DEF Command
<1>2. ASSUME NEW w \in Workers, RunStep(w) \/ DetachedStep(w), ~CreateDeployment(w)
      PROVE  RecordedInv'
  <2>1. CASE pc[w] = "idle"
    <3>1. PICK d \in Deployments : StartRecover(w, d)
      BY <1>2, <2>1, RunFrom DEF DetachedStep, CreateDeployment, BeginExecution, RetrySet,
         CancelLoad, CancelSet, Inspect, AdoptNode, Probe, SkipRecord, Lookup,
         WriteVerdict, Working
    <3> QED BY <1>b, <3>1
  <2>2. CASE pc[w] # "idle"
    <3>1. Grows /\ Moves(w)
      BY <1>2, <2>2, WorkerGrows, RunMoves, DetachedMoves
    <3>2. Records(w) /\ RowsRecorded'
      BY <1>0, <1>2, <2>2, <3>1, RunRecords, DetachedRecords, WorkerRowRecorded
    <3> QED BY <1>a, <3>1, <3>2 DEF Grows, Moves
  <2> QED BY <2>1, <2>2
<1>3. ASSUME NEW w \in Workers, CreateDeployment(w) PROVE RecordedInv'
  <2>1. /\ \A e \in Deployments : row'[e].uuid = row[e].uuid
        /\ RowsRecorded' /\ pc[w] # "idle"
    BY <1>0, <1>3, InsertWrites DEF NoRow, RowsRecorded, RowRecorded
  <2>2. Moves(w)
    BY <1>3, <2>1, DetachedMoves DEF DetachedStep
  <2>3. pc'[w] = "idle" \/ (loc'[w] = loc[w] /\ dep'[w] = dep[w])
    BY <1>3 DEF CreateDeployment, Reset, TypeInv, ProcOK
  <2>4. Records(w)
    BY <1>0, <1>3, <2>1, <2>3, InsertWrites DEF Records, AllRecorded, Recorded
  <2> QED BY <1>a, <2>1, <2>2, <2>4 DEF Moves
<1>4. CASE Panel
  <2>1. UNCHANGED <<row, pc, dep>> /\ \A v \in Workers : loc'[v] = loc[v] \/ PanelCreates(v)
    BY <1>4 DEF Panel, PanelCreates, PanelCreatesLate, Set, procs, db, TypeInv, ProcOK
  <2>2. ASSUME NEW v \in Workers
        PROVE  /\ loc'[v].cur = loc[v].cur /\ loc'[v].out = loc[v].out
               /\ loc'[v].stage = loc[v].stage
    <3>1. ASSUME PanelCreates(v)
          PROVE  /\ loc'[v].cur = loc[v].cur /\ loc'[v].out = loc[v].out
                 /\ loc'[v].stage = loc[v].stage
      BY <3>1 DEF PanelCreates, Set, TypeInv, ProcOK, Locals
    <3> QED BY <2>1, <3>1
  <2> QED BY <1>0, <2>1, <2>2 DEF RecordedInv, RowsRecorded, AllRecorded, Recorded
<1>5. CASE Crash \/ UNCHANGED vars
  BY <1>0, <1>5 DEF Crash, vars, db, RecordedInv, RowsRecorded, AllRecorded
<1> QED BY <1>1, <1>2, <1>3, <1>4, <1>5 DEF Next

\* RecordedInv holds initially.
LEMMA RecordedInit == Init => RecordedInv
  BY DEF Init, RecordedInv, RowsRecorded, RowRecorded, AllRecorded, NoRow

-----------------------------------------------------------------------------
(* No deployment is forgotten. *)

\* One goroutine, or nobody retries or cancels while others work.
Undisturbed ==
  \/ SoleWorker
  \/ \A w \in Workers : Commands[w] \subseteq {"prepare", "deploy", "recheck"}

\* Statuses that need nobody: an operator takes it from there.
Settled(status) == status \in Terminal \cup {"ABSENT", "WAITING_REMNAWAVE"}

Started(status) == status \notin {"ABSENT", "CREATED"}

\* What a worker of d that is at label l with locals x knows of the status of
\* its row, unless that has been settled meanwhile.
Bound(l, x, d, status, tick) ==
  /\ l = "insert" => x.op = "prepare"
  /\ x.op \in {"deploy", "prepared"} => Started(status)
  /\ x.stage = "preflight" /\ l # "setState" => Started(status)
  /\ l \in {"host", "admit"} =>
       /\ Settled(status) \/ status = x.cur.status
       /\ Deployable(x.cur.status) /\ x.cur.status # "ABSENT"
  /\ l \in {"advance", "advanceRecord"} => x.stage \in AllAhead
  /\ l = "reload" => x.stage \in {"preflight"} \cup AllAhead
  /\ l \in {"advanceRecord", "reload"} /\ x.stage # "preflight" =>
       Settled(status) \/ status = StatusOf[x.stage]
  /\ l \in {"failRecord", "failState"} => x.out.status \in {"FAILED", "DNS_FAILED"}
  /\ l = "verdict" =>
       x.out.status \in {"COMPLETED", "DNS_FAILED", "MANUAL_REVIEW", "WAITING_REMNAWAVE"}
  /\ l \in {"setState", "record"} /\ x.stage = "add_dns" => x.cur.uuid # NoId
  /\ l \in {"releaseSlot", "unregister"} =>
       Settled(status) \/ x.op = "prepared" \/ (SoleWorker /\ d \in tick)
  /\ l \in {"begin", "slot", "load"} /\ x.op = "retry_dns" =>
       SoleWorker /\ (Settled(status) \/ d \in tick)
  /\ l = "retrySet" =>
       /\ SoleWorker /\ Started(x.out.status)
       /\ x.op = "retry_dns" => Settled(x.out.status)

AllBound ==
  \A w \in Workers : pc[w] # "idle" =>
    Bound(pc[w], loc[w], dep[w], row[dep[w]].status, tickets)

\* An unsettled deployment is somebody's: NoOrphan, with a worker at work.
Cared ==
  \A d \in Deployments : ~Settled(row[d].status) =>
    d \in tickets \cup todo \/ \E w \in Workers : pc[w] # "idle" /\ dep[w] = d

OrphanInv ==
  /\ AllBound /\ Cared
  /\ \A w \in Workers : ~ctx[w]
  /\ \A d \in tickets : Started(row[d].status)

\* What a step leaves w with.
Binds(w) == pc'[w] # "idle" =>
  Bound(pc'[w], loc'[w], dep'[w], row'[dep'[w]].status, tickets')

\* Going on in a run that nobody cancels.
LEMMA GoesBinds ==
  ASSUME TypeInv, NEW w \in Workers, ~ctx[w], NEW l, NEW x, Goes(w, l, x),
         Bound(l, x, dep[w], row'[dep[w]].status, tickets')
  PROVE  Binds(w)
<1>1. pc'[w] = l /\ dep'[w] = dep[w] /\ loc'[w] = x
  BY DEF Goes, Goto, Set, Keep, TypeInv, ProcOK
<1> QED BY <1>1 DEF Binds

\* Labels at which a run only carries on.
Carrying == {"work", "list", "post", "posted", "persist", "publish", "skip", "complete", "finish"}

\* A run that only carries on knows no more than that it was started.
LEMMA PlainBound ==
  ASSUME NEW l, NEW x, NEW d, NEW status, NEW tick,
         l \in Carrying \cup {"setState", "record"},
         l \in {"setState", "record"} /\ x.stage = "add_dns" => x.cur.uuid # NoId,
         x.op \in {"deploy", "prepared"} => Started(status),
         x.stage = "preflight" /\ l # "setState" => Started(status)
  PROVE  Bound(l, x, d, status, tick)
  BY DEF Bound, Carrying

\* Returning to the deferred releases.
LEMMA StopBinds ==
  ASSUME TypeInv, NEW w \in Workers, Stop(w), pc[w] # "setState",
         tickets' = tickets, row'[dep[w]].status = row[dep[w]].status,
         Bound(pc[w], loc[w], dep[w], row[dep[w]].status, tickets),
         Settled(row[dep[w]].status) \/ (SoleWorker /\ dep[w] \in tickets)
  PROVE  Binds(w)
<1>1. pc'[w] = "releaseSlot" /\ dep'[w] = dep[w] /\ loc'[w] = loc[w]
  BY DEF Stop, TypeInv, ProcOK
<1>2. Bound("releaseSlot", loc[w], dep[w], row[dep[w]].status, tickets)
  BY DEF Bound
<1> QED BY <1>1, <1>2 DEF Binds

\* Entering failStage.
LEMMA FailsBinds ==
  ASSUME TypeInv, NEW w \in Workers, ~ctx[w], pc[w] # "setState",
         NEW status \in {"FAILED", "DNS_FAILED"}, NEW step, Fails(w, status, step),
         row'[dep[w]].status = row[dep[w]].status,
         Bound(pc[w], loc[w], dep[w], row[dep[w]].status, tickets)
  PROVE  Binds(w)
<1> DEFINE x == [loc[w] EXCEPT !.out = [status |-> status, step |-> step]]
<1>1. x.op = loc[w].op /\ x.stage = loc[w].stage /\ x.out.status = status
  BY DEF TypeInv, ProcOK, Locals
<1>2. Goes(w, "failRecord", x)
  BY DEF Fails
<1> HIDE DEF x
<1>3. Bound("failRecord", x, dep[w], row'[dep[w]].status, tickets')
  BY <1>1 DEF Bound
<1> QED BY <1>2, <1>3, GoesBinds

\* Entering a stage, or returning when the row asks for none.
LEMMA EnterStageBinds ==
  ASSUME TypeInv, NEW w \in Workers, ~ctx[w], pc[w] # "setState",
         row' = row, tickets' = tickets,
         Bound(pc[w], loc[w], dep[w], row[dep[w]].status, tickets),
         NEW current, NEW ahead, EnterStage(w, current, ahead),
         \/ NextStage(current, ahead) = "none"
         \/ NextStage(current, ahead) = "add_dns" /\ current.uuid = NoId
         => Settled(row[dep[w]].status)
  PROVE  Binds(w)
<1> DEFINE stage == NextStage(current, ahead)
           into  == [loc[w] EXCEPT !.stage = stage, !.cur = current]
           fail  == [into EXCEPT !.out = [status |-> "FAILED", step |-> stage]]
           l     == IF current.status = StatusOf[stage]
                      THEN StageBody(stage, current) ELSE "setState"
           B(m, x) == Bound(m, x, dep[w], row'[dep[w]].status, tickets')
<1>1. /\ into.op = loc[w].op /\ into.stage = stage /\ into.cur = current
      /\ fail.op = loc[w].op /\ fail.stage = stage /\ fail.out.status = "FAILED"
  BY DEF TypeInv, ProcOK, Locals
<1>2. \/ /\ stage = "none" \/ (stage = "add_dns" /\ current.uuid = NoId)
         /\ Stop(w)
      \/ stage = "wait_remnawave" /\ Goes(w, "failRecord", fail)
      \/ /\ stage = "create_remnawave_node" \/ (stage # "none" /\ current.uuid # NoId)
         /\ Goes(w, l, into)
  BY DEF EnterStage
<1>3. stage \in AllAhead \cup {"none"}
  BY DEF NextStage, AllAhead
<1>4. /\ stage = "create_remnawave_node" \/ (stage # "none" /\ current.uuid # NoId)
      => l \in Carrying \cup {"setState"}
  BY <1>3 DEF StageBody, Carrying, AllAhead
<1>5. loc[w].op \in {"deploy", "prepared"} => Started(row'[dep[w]].status)
  BY DEF Bound
<1>6. (stage = "none" \/ (stage = "add_dns" /\ current.uuid = NoId))
        => Settled(row[dep[w]].status)
  OBVIOUS
<1> HIDE DEF stage, into, fail, l
<1>7. CASE Stop(w) /\ (stage = "none" \/ (stage = "add_dns" /\ current.uuid = NoId))
  BY <1>6, <1>7, StopBinds
<1>8. CASE stage = "wait_remnawave" /\ Goes(w, "failRecord", fail)
  <2>1. B("failRecord", fail)
    BY <1>1, <1>5, <1>8 DEF Bound
  <2> QED BY <1>8, <2>1, GoesBinds
<1>9. CASE /\ stage = "create_remnawave_node" \/ (stage # "none" /\ current.uuid # NoId)
           /\ Goes(w, l, into)
  <2>1. into.stage # "preflight" /\ (into.stage = "add_dns" => into.cur.uuid # NoId)
    BY <1>1, <1>3, <1>9 DEF AllAhead
  <2>2. B(l, into)
    BY <1>1, <1>4, <1>5, <1>9, <2>1, PlainBound
  <2> QED BY <1>9, <2>2, GoesBinds
<1> QED BY <1>2, <1>7, <1>8, <1>9

\* The steps of a run keep what it knows.
LEMMA RunBinds ==
  ASSUME ~DBFaults, TypeInv, TruthInv, RecordedInv, OrphanInv, NEW w \in Workers, RunStep(w)
  PROVE  Binds(w)
<1> DEFINE d == dep[w]
           s == row[d].status
           t == row'[d].status
           B(m, x) == Bound(m, x, d, t, tickets')
<1>0. pc[w] # "idle"
  BY RunFrom DEF Working
<1>a. /\ d \in Deployments /\ loc[w] \in Locals /\ row \in [Deployments -> Rows] /\ ~ctx[w]
      /\ RowRecorded(row[d])
      /\ Claim(pc[w], loc[w], d, row[d], provisioned, zone)
      /\ Bound(pc[w], loc[w], d, s, tickets)
      /\ pc[w] \in Beginning => loc[w].stage \in Stages
  BY <1>0 DEF TypeInv, ProcOK, DbOK, TruthInv, Claims, RecordedInv, RowsRecorded, OrphanInv,
     AllBound
<1>b. /\ loc[w].op \in {"deploy", "prepared"} => Started(s)
      /\ loc[w].stage = "preflight" /\ pc[w] # "setState" => Started(s)
  BY <1>a DEF Bound
<1>c. ASSUME NEW l, NEW x, Goes(w, l, x), B(l, x) PROVE Binds(w)
  BY <1>a, <1>c, GoesBinds
<1>d. ASSUME NEW l \in Carrying \cup {"setState"}, NEW x, Goes(w, l, x), t = s,
             x.op = loc[w].op, x.stage = loc[w].stage \/ x.stage # "preflight",
             l = "setState" => x.stage # "add_dns", pc[w] # "setState"
      PROVE  Binds(w)
  <2>1. B(l, x)
    BY <1>b, <1>d, PlainBound DEF Carrying
  <2> QED BY <1>c, <1>d, <2>1
<1>e. ASSUME NEW l \in Carrying, Goes(w, l, loc[w]), t = s, pc[w] # "setState"
      PROVE  Binds(w)
  BY <1>d, <1>e DEF Carrying
<1>f. ASSUME NEW step, NEW status \in {"FAILED", "DNS_FAILED"}, Fails(w, status, step), t = s,
             pc[w] # "setState"
      PROVE  Binds(w)
  BY <1>a, <1>f, FailsBinds
<1>g. ASSUME NEW step, NEW status, RecordStep(d, step, status) PROVE t = s
  BY <1>a, <1>g DEF RecordStep, Rows
<1>h. ASSUME NEW step, NEW status, SetRow(d, status, step) PROVE t = status
  BY <1>a, <1>h DEF SetRow, Rows
<1>1. CASE Acquire(w)
  <2> DEFINE x == [loc[w] EXCEPT !.stage = "preflight"]
  <2>1. x.op = loc[w].op /\ x.stage = "preflight"
    BY <1>a DEF Locals
  <2>2. /\ pc[w] = "slot" /\ row' = row /\ tickets' = tickets
        /\ \/ loc[w].op = "prepare" /\ Goes(w, "setState", x)
           \/ Goes(w, "load", loc[w])
    BY <1>1 DEF Acquire, Admitted, db, ctl
  <2> HIDE DEF x
  <2>3. loc[w].op = "prepare" => B("setState", x)
    BY <2>1 DEF Bound
  <2>4. B("load", loc[w])
    BY <1>a, <2>2 DEF Bound
  <2> HIDE DEF B
  <2> QED BY <1>c, <2>2, <2>3, <2>4
<1>2. CASE Load(w)
  <2> DEFINE retry == [loc[w] EXCEPT !.stage = "add_dns",
                         !.cur = [row[d] EXCEPT !.status = "ADDING_TO_DNS"]]
             go    == [loc[w] EXCEPT !.cur = row[d]]
  <2>1. /\ go.cur = row[d] /\ go.op = loc[w].op /\ go.stage = loc[w].stage
        /\ retry.cur.uuid = row[d].uuid /\ retry.op = loc[w].op /\ retry.stage = "add_dns"
    BY <1>a DEF Locals, Rows
  <2>2. /\ pc[w] = "load" /\ row' = row /\ tickets' = tickets
        /\ \/ Deployable(s) /\ Goes(w, "host", go)
           \/ /\ s \in {"DNS_FAILED", "ADDING_TO_DNS"} /\ loc[w].op = "retry_dns"
              /\ Goes(w, "setState", retry)
           \/ loc[w].op = "deploy" /\ ~Deployable(s) /\ Stop(w)
           \/ loc[w].op = "retry_dns" /\ Stop(w)
    BY <1>2 DEF Load, db, ctl
  <2>3. s # "ABSENT"
    BY <1>a, <2>2 DEF Claim
  <2> HIDE DEF retry, go
  <2>4. Deployable(s) => B("host", go)
    BY <1>b, <2>1, <2>2, <2>3 DEF Bound
  <2>5. s \in {"DNS_FAILED", "ADDING_TO_DNS"} /\ loc[w].op = "retry_dns" => B("setState", retry)
    BY <1>a, <2>1 DEF RowRecorded, Bound
  <2>6. loc[w].op = "deploy" /\ ~Deployable(s) => Settled(s)
    BY <1>b DEF Started, Deployable, Settled, Terminal
  <2>7. loc[w].op = "retry_dns" => Settled(s) \/ (SoleWorker /\ d \in tickets)
    BY <1>a, <2>2 DEF Bound
  <2>8. ASSUME Stop(w), Settled(s) \/ (SoleWorker /\ d \in tickets) PROVE Binds(w)
    BY <1>a, <2>2, <2>8, StopBinds
  <2> HIDE DEF B
  <2> QED BY <1>c, <2>2, <2>4, <2>5, <2>6, <2>7, <2>8
<1>3. CASE CheckHost(w)
  <2>1. /\ pc[w] = "host" /\ row' = row /\ tickets' = tickets
        /\ Goes(w, "admit", loc[w]) \/ Fails(w, "FAILED", loc[w].cur.step)
    BY <1>3 DEF CheckHost, db, ctl
  <2>2. B("admit", loc[w])
    BY <1>a, <2>1 DEF Bound
  <2> HIDE DEF B
  <2> QED BY <1>c, <1>f, <2>1, <2>2
<1>4. CASE Admit(w)
  <2> DEFINE x   == [loc[w] EXCEPT !.stage = "prepare_certificate"]
             cur == loc[w].cur
  <2>1. x.op = loc[w].op /\ x.stage = "prepare_certificate"
    BY <1>a DEF Locals
  <2>2. /\ pc[w] = "admit" /\ row' = row /\ tickets' = tickets
        /\ \/ \E l \in {"work", "setState"} : Goes(w, l, x)
           \/ Fails(w, "FAILED", cur.step)
           \/ /\ cur.status \notin {"PREFLIGHT", "PREPARING_CERTIFICATE", "PROVISIONING"}
              /\ EnterStage(w, cur, AllAhead)
    BY <1>4 DEF Admit, db, ctl
  <2>3. /\ Settled(s) \/ s = cur.status
        /\ Deployable(cur.status) /\ cur.status # "ABSENT" /\ cur.status \in Statuses
    BY <1>a, <2>2 DEF Bound, Locals, Rows
  <2>4. cur.status \notin {"PREFLIGHT", "PREPARING_CERTIFICATE", "PROVISIONING"} =>
          cur.status \in {"CREATING_REMNAWAVE_NODE", "WAITING_REMNAWAVE", "ADDING_TO_DNS",
                          "MANUAL_REVIEW"}
    BY <2>3 DEF Deployable, Statuses, Terminal
  <2>5. /\ NextStage(cur, AllAhead) = "none" => cur.status \notin
             {"CREATING_REMNAWAVE_NODE", "WAITING_REMNAWAVE", "ADDING_TO_DNS"}
        /\ NextStage(cur, AllAhead) = "add_dns" => cur.uuid # NoId
    BY DEF NextStage, AllAhead
  <2>6. Settled("MANUAL_REVIEW")
    BY DEF Settled, Terminal
  <2>7. ASSUME cur.status \notin {"PREFLIGHT", "PREPARING_CERTIFICATE", "PROVISIONING"},
               EnterStage(w, cur, AllAhead)
        PROVE  Binds(w)
    <3>1. \/ NextStage(cur, AllAhead) = "none"
          \/ NextStage(cur, AllAhead) = "add_dns" /\ cur.uuid = NoId
          => Settled(s)
      BY <2>3, <2>4, <2>5, <2>6, <2>7
    <3> QED BY <1>a, <2>2, <2>7, <3>1, EnterStageBinds
  <2>8. ASSUME NEW l \in {"work", "setState"}, Goes(w, l, x) PROVE Binds(w)
    BY <1>d, <2>1, <2>2, <2>8 DEF Carrying
  <2> HIDE DEF B, x
  <2> QED BY <1>f, <2>2, <2>7, <2>8
<1>5. CASE BeginStage(w)
  <2>1. /\ pc[w] \in {"setState", "advance"} /\ tickets' = tickets
        /\ SetRow(d, StatusOf[loc[w].stage], loc[w].stage)
        /\ Goes(w, IF pc[w] = "setState" THEN "record" ELSE "advanceRecord", loc[w])
    BY <1>5 DEF BeginStage, Persists, ctl
  <2>2. loc[w].stage \in Stages /\ t = StatusOf[loc[w].stage]
    BY <1>a, <1>h, <2>1 DEF Beginning
  <2>3. Started(t)
    BY <2>2 DEF Stages, StatusOf, Started
  <2>4. /\ pc[w] = "setState" => B("record", loc[w])
        /\ pc[w] = "advance" => B("advanceRecord", loc[w])
    BY <1>a, <2>2, <2>3 DEF Bound
  <2> HIDE DEF B
  <2> QED BY <1>c, <2>1, <2>4
<1>6. CASE RecordRunning(w)
  <2>1. /\ pc[w] \in {"record", "advanceRecord"} /\ tickets' = tickets /\ t = s
        /\ Goes(w, IF pc[w] = "record" THEN StageBody(loc[w].stage, loc[w].cur)
                                       ELSE "reload", loc[w])
    BY <1>6, <1>g DEF RecordRunning, Persists, ctl
  <2>2. pc[w] = "record" => StageBody(loc[w].stage, loc[w].cur) \in Carrying
    BY <1>a DEF Bound, StageBody, Carrying
  <2>3. pc[w] = "advanceRecord" => B("reload", loc[w])
    BY <1>a, <2>1 DEF Bound
  <2> HIDE DEF B
  <2> QED BY <1>c, <1>e, <2>1, <2>2, <2>3
<1>7. CASE Preflight(w) \/ PollNode(w) \/ CheckHealthy(w) \/ Provision(w) \/ PostNode(w)
           \/ AddIP(w)
  <2>1. /\ pc[w] # "setState" /\ row' = row
        /\ \/ \E l \in Carrying : Goes(w, l, loc[w])
           \/ \E step : \E status \in {"FAILED", "DNS_FAILED"} : Fails(w, status, step)
    BY <1>7 DEF Preflight, PollNode, CheckHealthy, Provision, PostNode, AddIP, db, Carrying
  <2> QED BY <1>e, <1>f, <2>1
<1>8. CASE PrepareCertificate(w)
  <2> DEFINE x == [loc[w] EXCEPT !.stage = "provisioning"]
  <2>1. x.op = loc[w].op /\ x.stage = "provisioning"
    BY <1>a DEF Locals
  <2>2. /\ pc[w] # "setState" /\ row' = row
        /\ \/ Goes(w, "complete", loc[w]) \/ Goes(w, "setState", x)
           \/ Fails(w, "FAILED", "prepare_certificate")
    BY <1>8 DEF PrepareCertificate, db
  <2>3. ASSUME Goes(w, "setState", x) PROVE Binds(w)
    BY <1>d, <2>1, <2>2, <2>3
  <2> HIDE DEF x
  <2> QED BY <1>e, <1>f, <2>2, <2>3 DEF Carrying
<1>9. CASE ListNodes(w)
  <2>1. /\ pc[w] # "setState" /\ row' = row
        /\ \/ \E n : Goes(w, "persist", [loc[w] EXCEPT !.node = n])
           \/ Goes(w, "post", loc[w])
           \/ Fails(w, "FAILED", "create_remnawave_node")
    BY <1>9 DEF ListNodes, db
  <2>2. ASSUME NEW n, Goes(w, "persist", [loc[w] EXCEPT !.node = n]) PROVE Binds(w)
    <3> DEFINE x == [loc[w] EXCEPT !.node = n]
    <3>1. x.op = loc[w].op /\ x.stage = loc[w].stage
      BY <1>a DEF Locals
    <3> QED BY <1>d, <2>1, <2>2, <3>1 DEF Carrying
  <2> QED BY <1>e, <1>f, <2>1, <2>2 DEF Carrying
<1>10. CASE NodeCreated(w)
  <2> DEFINE x == [loc[w] EXCEPT !.node = NoId,
               !.out = [status |-> "FAILED", step |-> "create_remnawave_node"]]
  <2>1. x.op = loc[w].op /\ x.stage = loc[w].stage /\ x.out.status = "FAILED"
    BY <1>a DEF Locals
  <2>2. /\ pc[w] = "posted" /\ row' = row
        /\ Goes(w, "persist", loc[w]) \/ Goes(w, "failRecord", x)
    BY <1>10 DEF NodeCreated, db
  <2> HIDE DEF x
  <2>3. B("failRecord", x)
    BY <1>b, <2>1, <2>2 DEF Bound
  <2> HIDE DEF B
  <2> QED BY <1>c, <1>e, <2>2, <2>3 DEF Carrying
<1>11. CASE PersistNode(w)
  <2> DEFINE x == [loc[w] EXCEPT !.cur.uuid = loc[w].node, !.node = NoId]
  <2>1. x.op = loc[w].op /\ x.stage = loc[w].stage
    BY <1>a DEF Locals, Rows
  <2>2. /\ pc[w] = "persist" /\ Goes(w, "complete", x)
        /\ row' = [row EXCEPT ![d].uuid = loc[w].node]
    BY <1>11 DEF PersistNode, Persists
  <2>3. t = s
    BY <1>a, <2>2 DEF Rows
  <2> HIDE DEF x
  <2> QED BY <1>d, <2>1, <2>2, <2>3 DEF Carrying
<1>12. CASE SkipDNS(w)
  <2>1. pc[w] = "skip" /\ Goes(w, "finish", loc[w]) /\ t = s
    BY <1>12, <1>g DEF SkipDNS, Persists
  <2> QED BY <1>e, <2>1 DEF Carrying
<1>13. CASE CompleteStage(w)
  <2> DEFINE next == Following(loc[w].stage)
             x    == [loc[w] EXCEPT !.stage = next[2]]
  <2>1. \/ loc[w].stage = "preflight" /\ next = <<"reload", "preflight">>
        \/ next = <<"setState", "provisioning">>
        \/ next[1] = "advance" /\ next[2] \in AllAhead
        \/ next = <<"finish", "add_dns">>
    BY DEF Following, AllAhead
  <2>2. pc[w] = "complete" /\ Goes(w, next[1], x) /\ t = s
    BY <1>13, <1>g DEF CompleteStage, Persists
  <2> HIDE DEF next
  <2>3. x.op = loc[w].op /\ x.stage = next[2]
    BY <1>a DEF Locals
  <2> HIDE DEF x
  <2>4. B(next[1], x)
    BY <1>b, <2>1, <2>2, <2>3 DEF Bound, AllAhead
  <2> HIDE DEF B
  <2> QED BY <1>c, <2>2, <2>4
<1>14. CASE Reload(w)
  <2> DEFINE x == [loc[w] EXCEPT !.op = IF ctx[w] THEN @ ELSE "prepared"]
             ahead == CASE loc[w].stage = "create_remnawave_node" -> AllAhead
                        [] loc[w].stage = "wait_remnawave" -> {"wait_remnawave", "add_dns"}
                        [] OTHER -> {"add_dns"}
  <2>1. x.op = "prepared" /\ x.stage = loc[w].stage
    BY <1>a DEF Locals
  <2>2. /\ pc[w] = "reload" /\ row' = row /\ tickets' = tickets
        /\ \/ loc[w].stage = "preflight" /\ Goes(w, "releaseSlot", x)
           \/ loc[w].stage # "preflight" /\ EnterStage(w, row[d], ahead)
    BY <1>14 DEF Reload, db, ctl
  <2>3. loc[w].stage # "preflight" =>
          loc[w].stage \in AllAhead /\ (Settled(s) \/ s = StatusOf[loc[w].stage])
    BY <1>a, <2>2 DEF Bound
  <2>4. ASSUME loc[w].stage # "preflight",
               \/ NextStage(row[d], ahead) = "none"
               \/ NextStage(row[d], ahead) = "add_dns" /\ row[d].uuid = NoId
        PROVE  Settled(s)
    <3>1. CASE s = "CREATING_REMNAWAVE_NODE" /\ loc[w].stage = "create_remnawave_node"
      BY <2>4, <3>1 DEF NextStage, AllAhead
    <3>2. CASE s = "WAITING_REMNAWAVE"
      BY <3>2 DEF Settled
    <3>3. CASE s = "ADDING_TO_DNS" /\ loc[w].stage = "add_dns"
      BY <1>a, <2>4, <3>3 DEF NextStage, RowRecorded
    <3> QED BY <2>3, <2>4, <3>1, <3>2, <3>3 DEF AllAhead, StatusOf
  <2> HIDE DEF x, ahead
  <2>5. loc[w].stage = "preflight" => B("releaseSlot", x)
    BY <1>b, <2>1, <2>2 DEF Bound
  <2>6. ASSUME loc[w].stage # "preflight", EnterStage(w, row[d], ahead) PROVE Binds(w)
    BY <1>a, <2>2, <2>4, <2>6, EnterStageBinds
  <2> HIDE DEF B
  <2> QED BY <1>c, <2>2, <2>5, <2>6
<1>15. CASE Finish(w) \/ FailState(w)
  <2>1. /\ pc[w] \in {"finish", "failState"} /\ Goes(w, "releaseSlot", loc[w])
        /\ \E step : SetRow(d, IF pc[w] = "finish" THEN "COMPLETED" ELSE loc[w].out.status, step)
    BY <1>15 DEF Finish, FailState, Persists
  <2>2. t \in {"COMPLETED", "FAILED", "DNS_FAILED"}
    BY <1>a, <1>h, <2>1 DEF Bound
  <2>3. Settled(t) /\ Started(t)
    BY <2>2 DEF Settled, Started, Terminal
  <2>4. B("releaseSlot", loc[w])
    BY <2>3 DEF Bound
  <2> HIDE DEF B
  <2> QED BY <1>c, <2>1, <2>4
<1>16. CASE FailRecord(w)
  <2>1. pc[w] = "failRecord" /\ Goes(w, "failState", loc[w]) /\ t = s
    BY <1>16, <1>g DEF FailRecord
  <2>2. B("failState", loc[w])
    BY <1>a, <2>1 DEF Bound
  <2> HIDE DEF B
  <2> QED BY <1>c, <2>1, <2>2
<1>17. CASE ReleaseSlot(w)
  <2>1. /\ pc[w] = "releaseSlot" /\ pc'[w] = "unregister" /\ dep'[w] = d /\ loc'[w] = loc[w]
        /\ row' = row /\ tickets' = tickets
    BY <1>17 DEF ReleaseSlot, db, ctl, TypeInv, ProcOK
  <2>2. B("unregister", loc[w])
    BY <1>a, <2>1 DEF Bound
  <2> QED BY <2>1, <2>2 DEF Binds
<1>18. CASE Unregister(w)
  BY <1>18 DEF Unregister, Reset, Binds, TypeInv, ProcOK
<1>19. ~Abort(w)
  BY <1>a DEF Abort
<1> QED BY <1>1, <1>2, <1>3, <1>4, <1>5, <1>6, <1>7, <1>8, <1>9, <1>10, <1>11, <1>12,
           <1>13, <1>14, <1>15, <1>16, <1>17, <1>18, <1>19
        DEF RunStep

\* The steps outside a run keep what the worker knows.
LEMMA DetachedBinds ==
  ASSUME ~DBFaults, TypeInv, TruthInv, OrphanInv, NEW w \in Workers, DetachedStep(w),
         pc[w] # "idle"
  PROVE  Binds(w)
<1> DEFINE d == dep[w]
           s == row[d].status
           t == row'[d].status
           B(m, x) == Bound(m, x, d, t, tickets')
<1>a. /\ d \in Deployments /\ loc[w] \in Locals /\ row \in [Deployments -> Rows] /\ ~ctx[w]
      /\ Claim(pc[w], loc[w], d, row[d], provisioned, zone)
      /\ Bound(pc[w], loc[w], d, s, tickets)
  BY DEF TypeInv, ProcOK, DbOK, TruthInv, Claims, OrphanInv, AllBound
<1>b. /\ loc[w].op \in {"deploy", "prepared"} => Started(s)
      /\ loc[w].stage = "preflight" /\ pc[w] # "setState" => Started(s)
  BY <1>a DEF Bound
<1>c. ASSUME NEW l, NEW x, Goes(w, l, x), B(l, x) PROVE Binds(w)
  BY <1>a, <1>c, GoesBinds
<1>d. ASSUME NEW l \in {"cancelSet", "adopt", "probe", "skipRecord", "lookup"}, NEW x,
             Goes(w, l, x), t = s, x.op = loc[w].op, x.stage = loc[w].stage, pc[w] # "setState"
      PROVE  Binds(w)
  <2>1. B(l, x)
    BY <1>b, <1>d DEF Bound
  <2> QED BY <1>c, <1>d, <2>1
<1>e. ASSUME NEW status \in {"COMPLETED", "DNS_FAILED", "MANUAL_REVIEW", "WAITING_REMNAWAVE"},
             NEW step, Verdict(w, status, step), t = s, pc[w] # "setState"
      PROVE  Binds(w)
  <2> DEFINE x == [loc[w] EXCEPT !.out = [status |-> status, step |-> step]]
  <2>1. x.op = loc[w].op /\ x.stage = loc[w].stage /\ x.out.status = status
    BY <1>a DEF Locals
  <2>2. Goes(w, "verdict", x)
    BY <1>e DEF Verdict
  <2> HIDE DEF x
  <2>3. B("verdict", x)
    BY <1>b, <1>e, <2>1 DEF Bound
  <2> HIDE DEF B
  <2> QED BY <1>c, <2>2, <2>3
<1>f. ASSUME Reset(w) PROVE Binds(w)
  BY <1>f DEF Reset, Binds, TypeInv, ProcOK
<1>1. CASE CreateDeployment(w)
  <2>1. /\ pc[w] = "insert" /\ pc'[w] = "begin" /\ dep'[w] = d /\ loc'[w] = loc[w]
    BY <1>1 DEF CreateDeployment, TypeInv, ProcOK
  <2>2. loc[w].op = "prepare" /\ loc[w].stage # "preflight"
    BY <1>a, <1>b, <2>1 DEF Bound, Claim, Started
  <2>3. B("begin", loc[w])
    BY <2>2 DEF Bound
  <2> QED BY <2>1, <2>3 DEF Binds
<1>2. CASE BeginExecution(w)
  <2> DEFINE x == [loc[w] EXCEPT !.out = NoOut, !.cur = NoRow]
  <2>1. x.op = loc[w].op /\ x.stage = loc[w].stage
    BY <1>a DEF Locals
  <2>2. /\ pc[w] = "begin" /\ row' = row /\ tickets' = tickets
        /\ \/ Reset(w)
           \/ pc' = [pc EXCEPT ![w] = "slot"] /\ loc' = [loc EXCEPT ![w] = x] /\ dep' = dep
    BY <1>2 DEF BeginExecution, Set, Keep, db, ctl
  <2> HIDE DEF x
  <2>3. B("slot", x)
    BY <1>a, <2>1, <2>2 DEF Bound
  <2>4. CASE pc' = [pc EXCEPT ![w] = "slot"] /\ loc' = [loc EXCEPT ![w] = x] /\ dep' = dep
    BY <2>3, <2>4 DEF Binds, TypeInv, ProcOK
  <2> QED BY <1>f, <2>2, <2>4
<1>3. CASE RetrySet(w)
  <2>1. /\ pc[w] = "retrySet" /\ Goes(w, "begin", loc[w])
        /\ SetRow(d, loc[w].out.status, loc[w].out.step)
    BY <1>3 DEF RetrySet
  <2>2. t = loc[w].out.status
    BY <1>a, <2>1 DEF SetRow, Rows
  <2>3. B("begin", loc[w])
    BY <1>a, <2>1, <2>2 DEF Bound
  <2> HIDE DEF B
  <2> QED BY <1>c, <2>1, <2>3
<1>4. CASE CancelLoad(w) \/ CancelSet(w) \/ WriteVerdict(w)
  <2>1. \/ Reset(w)
        \/ pc[w] = "cancelLoad" /\ row' = row /\ Goes(w, "cancelSet", loc[w])
    BY <1>4 DEF CancelLoad, CancelSet, WriteVerdict, EndRecheck, db
  <2> QED BY <1>d, <1>f, <2>1
<1>5. CASE Inspect(w)
  <2>1. /\ pc[w] = "inspect" /\ row' = row
        /\ \/ \E n : Goes(w, "adopt", [loc[w] EXCEPT !.node = n])
           \/ Verdict(w, "MANUAL_REVIEW", loc[w].cur.step)
    BY <1>5 DEF Inspect, db
  <2>2. ASSUME NEW n, Goes(w, "adopt", [loc[w] EXCEPT !.node = n]) PROVE Binds(w)
    <3> DEFINE x == [loc[w] EXCEPT !.node = n]
    <3>1. x.op = loc[w].op /\ x.stage = loc[w].stage
      BY <1>a DEF Locals
    <3> QED BY <1>d, <2>1, <2>2, <3>1
  <2> QED BY <1>e, <2>1, <2>2
<1>6. CASE AdoptNode(w)
  <2> DEFINE x == [loc[w] EXCEPT !.cur = [row[d] EXCEPT !.uuid = loc[w].node], !.node = NoId]
  <2>1. x.op = loc[w].op /\ x.stage = loc[w].stage
    BY <1>a DEF Locals
  <2>2. /\ pc[w] = "adopt" /\ Goes(w, "probe", x)
        /\ row' = [row EXCEPT ![d].uuid = loc[w].node]
    BY <1>6 DEF AdoptNode, Rechecks
  <2>3. t = s
    BY <1>a, <2>2 DEF Rows
  <2> HIDE DEF x
  <2> QED BY <1>d, <2>1, <2>2, <2>3
<1>7. CASE Probe(w) \/ SkipRecord(w) \/ Lookup(w)
  <2>1. /\ pc[w] # "setState"
        /\ \/ \E l \in {"skipRecord", "lookup"} : Goes(w, l, loc[w])
           \/ \E step : \E status \in
                {"COMPLETED", "DNS_FAILED", "MANUAL_REVIEW", "WAITING_REMNAWAVE"} :
                  Verdict(w, status, step)
    BY <1>7 DEF Probe, SkipRecord, Lookup
  <2>2. row' = row \/ RecordStep(d, "add_dns", "SKIPPED")
    BY <1>7 DEF Probe, SkipRecord, Lookup, db
  <2>3. t = s
    BY <2>2 DEF RecordStep
  <2> QED BY <1>d, <1>e, <2>1, <2>3
<1> QED BY <1>1, <1>2, <1>3, <1>4, <1>5, <1>6, <1>7 DEF DetachedStep, StartRecover

\* What a worker's step does to the status of its deployment.
LEMMA StatusMoves ==
  ASSUME ~DBFaults, TypeInv, RunInv, TruthInv, OrphanInv, NEW w \in Workers,
         RunStep(w) \/ DetachedStep(w), ~CreateDeployment(w), pc[w] # "idle"
  PROVE  /\ \A e \in Deployments : e # dep[w] => row'[e] = row[e]
         /\ \/ row'[dep[w]].status = row[dep[w]].status
            \/ /\ Started(row'[dep[w]].status)
               /\ pc[w] \in Registered \/ SoleWorker \/ Settled(row'[dep[w]].status)
<1> DEFINE d == dep[w]
<1>0. /\ d \in Deployments /\ row \in [Deployments -> Rows] /\ Claims
      /\ Bound(pc[w], loc[w], d, row[d].status, tickets)
      /\ pc[w] \in Beginning => loc[w].stage \in Stages
  BY DEF TypeInv, ProcOK, DbOK, TruthInv, OrphanInv, AllBound
<1>1. \A e \in Deployments : e # d => row'[e] = row[e]
  BY <1>0, StatusWritten
<1>a. ASSUME NEW status, NEW step, SetRow(d, status, step), Started(status),
             pc[w] \in Registered \/ SoleWorker \/ Settled(status)
      PROVE  /\ Started(row'[d].status)
             /\ pc[w] \in Registered \/ SoleWorker \/ Settled(row'[d].status)
  BY <1>0, <1>a DEF SetRow, Rows
<1>2. CASE BeginStage(w) \/ Finish(w) \/ FailState(w)
  <2>1. PICK status, step :
          /\ SetRow(d, status, step)
          /\ \/ pc[w] \in Beginning /\ status = StatusOf[loc[w].stage]
             \/ pc[w] = "finish" /\ status = "COMPLETED"
             \/ pc[w] = "failState" /\ status = loc[w].out.status
    BY <1>2 DEF BeginStage, Finish, FailState, Persists, Beginning
  <2>2. pc[w] \in Registered
    BY <2>1 DEF Beginning, Registered, Holding, Working
  <2>3. pc[w] \in Beginning /\ status = StatusOf[loc[w].stage] => Started(status)
    BY <1>0 DEF Stages, StatusOf, Started
  <2>4. Started(status)
    BY <1>0, <2>1, <2>3 DEF Bound, Started
  <2> QED BY <1>1, <1>a, <2>1, <2>2, <2>4
<1>3. CASE RetrySet(w)
  <2>1. SetRow(d, loc[w].out.status, loc[w].out.step) /\ pc[w] = "retrySet"
    BY <1>3 DEF RetrySet
  <2>2. Started(loc[w].out.status) /\ SoleWorker
    BY <1>0, <2>1 DEF Bound
  <2> QED BY <1>1, <1>a, <2>1, <2>2
<1>4. CASE CancelSet(w) \/ WriteVerdict(w)
  <2>1. PICK status, step :
          /\ SetRow(d, status, step)
          /\ status = "CANCELLED" \/ (pc[w] = "verdict" /\ status = loc[w].out.status)
    BY <1>4 DEF CancelSet, WriteVerdict
  <2>2. Settled(status) /\ Started(status)
    BY <1>0, <2>1 DEF Bound, Settled, Started, Terminal
  <2> QED BY <1>1, <1>a, <2>1, <2>2
<1>5. CASE \/ row' = row \/ row' = [row EXCEPT ![d].uuid = loc[w].node]
           \/ \E step, status : RecordStep(d, step, status)
  <2>1. row'[d].status = row[d].status
    BY <1>0, <1>5 DEF RecordStep, Rows
  <2> QED BY <1>1, <2>1
<1>6. CASE RecordRunning(w) \/ SkipDNS(w) \/ CompleteStage(w) \/ FailRecord(w) \/ SkipRecord(w)
  BY <1>5, <1>6 DEF RecordRunning, SkipDNS, CompleteStage, FailRecord, SkipRecord, Persists
<1>7. CASE PersistNode(w) \/ AdoptNode(w)
  BY <1>5, <1>7 DEF PersistNode, AdoptNode, Persists, Rechecks
<1>8. CASE UNCHANGED db
  BY <1>5, <1>8 DEF db
<1> QED BY <1>2, <1>3, <1>4, <1>6, <1>7, <1>8
        DEF RunStep, DetachedStep, Acquire, Load, CheckHost, Admit, Preflight,
            PrepareCertificate, Provision, ListNodes, PostNode, NodeCreated, PollNode,
            CheckHealthy, AddIP, Reload, Abort, ReleaseSlot, Unregister,
            BeginExecution, CancelLoad, Inspect, Probe, Lookup, StartRecover, Classify

\* What a new command or recovery knows.
LEMMA StartBinds ==
  ASSUME Undisturbed, TypeInv, TruthInv, OrphanInv, NEW w \in Workers, NEW d \in Deployments,
         \/ StartPrepare(w, d) \/ StartDeploy(w, d) \/ StartRetryDNS(w, d)
         \/ StartRetryStep(w, d) \/ StartCancel(w, d) \/ StartRecheck(w, d)
         \/ StartRecover(w, d)
  PROVE  Binds(w)
<1>0. /\ row' = row /\ row[d] \in Rows /\ Cared
      /\ \A e \in tickets : Started(row[e].status)
  BY DEF OrphanInv, TypeInv, DbOK, db, StartPrepare, StartDeploy,
     StartRetryDNS, StartRetryStep, StartCancel, StartRecheck, StartRecover, Start, Classify
<1>a. ASSUME NEW op, NEW l, pc' = [pc EXCEPT ![w] = l], dep' = [dep EXCEPT ![w] = d],
             Set(w, [Blank EXCEPT !.op = op])
      PROVE  /\ pc'[w] = l /\ dep'[w] = d
             /\ loc'[w].op = op /\ loc'[w].stage = "none" /\ loc'[w].out = NoOut
  BY <1>a DEF Set, Blank, TypeInv, ProcOK
<1>b. ASSUME {"retry_dns", "retry_step", "cancel"} \cap Commands[w] # {} PROVE SoleWorker
  BY <1>b DEF Undisturbed
<1>1. CASE StartPrepare(w, d)
  <2>1. pc'[w] = "insert" /\ loc'[w].op = "prepare" /\ loc'[w].stage = "none"
    BY <1>1, <1>a DEF StartPrepare, Start
  <2> QED BY <2>1 DEF Binds, Bound
<1>2. CASE StartDeploy(w, d)
  <2>1. /\ pc'[w] = "begin" /\ loc'[w].op = "deploy" /\ loc'[w].stage = "none" /\ dep'[w] = d
        /\ d \in tickets
    BY <1>2, <1>a DEF StartDeploy, Start
  <2>2. Started(row'[d].status)
    BY <1>0, <2>1
  <2> QED BY <2>1, <2>2 DEF Binds, Bound
<1>3. CASE StartRetryDNS(w, d)
  <2>1. /\ pc'[w] = "begin" /\ loc'[w].op = "retry_dns" /\ loc'[w].stage = "none"
        /\ dep'[w] = d /\ tickets' = tickets /\ todo = {} /\ pc[w] = "idle"
    BY <1>3, <1>a DEF StartRetryDNS, Start, ctl
  <2>2. SoleWorker
    BY <1>3, <1>b DEF StartRetryDNS
  <2>3. Settled(row'[d].status) \/ d \in tickets'
    BY <1>0, <2>1, <2>2 DEF Cared, SoleWorker
  <2> QED BY <2>1, <2>2, <2>3 DEF Binds, Bound
<1>4. CASE StartRetryStep(w, d)
  <2> DEFINE op == IF row[d].step = "add_dns" THEN "retry_dns" ELSE "deploy"
             x == [Blank EXCEPT !.op = op,
                     !.out = [status |-> ResumeOf[row[d].step], step |-> row[d].step]]
  <2>1. x.op = op /\ x.stage = "none" /\ x.out.status = ResumeOf[row[d].step]
    BY DEF Blank
  <2>2. /\ pc'[w] = "retrySet" /\ dep'[w] = d /\ loc'[w] = x
        /\ row[d].status = "FAILED" /\ row[d].step \in DOMAIN ResumeOf
    BY <1>4 DEF StartRetryStep, Start, Set, TypeInv, ProcOK
  <2>3. SoleWorker
    BY <1>4, <1>b DEF StartRetryStep
  <2> HIDE DEF x
  <2>4. /\ Started(x.out.status)
        /\ x.op = "retry_dns" => x.out.status = "DNS_FAILED"
    BY <2>1, <2>2 DEF ResumeOf, Started
  <2>5. Started(row'[d].status) /\ Settled("DNS_FAILED")
    BY <1>0, <2>2 DEF Started, Settled, Terminal
  <2> QED BY <2>1, <2>2, <2>3, <2>4, <2>5 DEF Binds, Bound
<1>5. CASE StartCancel(w, d)
  <2>1. pc'[w] = "cancelLoad" /\ loc'[w].op = "cancel" /\ loc'[w].stage = "none"
    BY <1>5, <1>a DEF StartCancel
  <2> QED BY <2>1 DEF Binds, Bound
<1>6. ASSUME NEW op \in {"recheck", "recover"}, Classify(w, d, op) PROVE Binds(w)
  <2> DEFINE into    == [Blank EXCEPT !.op = op, !.cur = row[d]]
             verdict == [into EXCEPT !.out = [status |-> "MANUAL_REVIEW", step |-> row[d].step]]
  <2>1. /\ into.op = op /\ into.stage = "none"
        /\ verdict.op = op /\ verdict.stage = "none" /\ verdict.out.status = "MANUAL_REVIEW"
    BY DEF Blank
  <2>2. \/ pc'[w] \in {"inspect", "probe"} /\ loc'[w] = into
        \/ pc'[w] = "verdict" /\ loc'[w] = verdict
    BY <1>6 DEF Classify, Set, TypeInv, ProcOK
  <2> HIDE DEF into, verdict
  <2> QED BY <2>1, <2>2 DEF Binds, Bound
<1> QED BY <1>1, <1>2, <1>3, <1>4, <1>5, <1>6 DEF StartRecheck, StartRecover

\* What another worker knew stays true: it is not registered for the same
\* deployment, and whoever writes without being registered settles it.
LEMMA OthersBound ==
  ASSUME TypeInv, RunInv, OrphanInv, NEW w \in Workers, NEW v \in Workers, v # w,
         pc[v] # "idle",
         \/ row'[dep[v]].status = row[dep[v]].status
         \/ /\ dep[v] = dep[w] /\ Started(row'[dep[v]].status)
            /\ pc[w] \in Registered \/ SoleWorker \/ Settled(row'[dep[v]].status)
  PROVE  Bound(pc[v], loc[v], dep[v], row'[dep[v]].status, tickets')
<1> DEFINE t == row'[dep[v]].status
<1>0. Bound(pc[v], loc[v], dep[v], row[dep[v]].status, tickets) /\ ~SoleWorker
  BY DEF OrphanInv, AllBound, SoleWorker
<1>1. CASE t = row[dep[v]].status
  BY <1>0, <1>1 DEF Bound
<1>2. CASE Started(t) /\ Settled(t)
  BY <1>0, <1>2 DEF Bound
<1>3. CASE dep[v] = dep[w] /\ Started(t) /\ pc[w] \in Registered
  <2>1. pc[v] \notin Registered
    BY <1>3 DEF RunInv
  <2>2. pc[v] \notin {"host", "admit", "advance", "advanceRecord", "reload", "releaseSlot",
                      "unregister", "failRecord", "failState", "setState", "record"}
    BY <2>1 DEF Registered, Holding, Working
  <2> QED BY <1>0, <1>3, <2>2 DEF Bound
<1> QED BY <1>0, <1>1, <1>2, <1>3

\* No step of a worker cancels a run.
LEMMA NobodyCancels ==
  ASSUME TypeInv, NEW w \in Workers, RunStep(w) \/ DetachedStep(w), pc[w] # "idle",
         NEW v \in Workers, ctx'[v]
  PROVE  ctx[v]
<1>1. ASSUME Reset(w) PROVE ctx[v]
  BY <1>1 DEF Reset, TypeInv, ProcOK
<1>2. CASE RunStep(w)
  <2>1. Stays(w) \/ Acquire(w) \/ Abort(w) \/ ReleaseSlot(w) \/ Unregister(w)
    BY <1>2, RunStays DEF RunStep, TypeInv
  <2> QED BY <1>1, <2>1 DEF Stays, Acquire, Admitted, Abort, ReleaseSlot, Unregister, Goes,
         Keep
<1>3. CASE DetachedStep(w)
  BY <1>1, <1>3 DEF DetachedStep, CreateDeployment, BeginExecution, RetrySet, CancelLoad,
     CancelSet, Inspect, AdoptNode, Probe, SkipRecord, Lookup, WriteVerdict, StartRecover,
     Rechecks, Verdict, EndRecheck, Goes, Keep
<1> QED BY <1>2, <1>3

\* A worker that ends leaves its deployment settled, to a session, or to the
\* run that kept it from registering.
LEMMA EndsCared ==
  ASSUME ~DBFaults, TypeInv, RunInv, OrphanInv, NEW w \in Workers,
         RunStep(w) \/ DetachedStep(w), pc[w] # "idle", pc'[w] = "idle"
  PROVE  \/ Settled(row'[dep[w]].status)
         \/ dep[w] \in tickets'
         \/ \E v \in Workers \ {w} : pc[v] # "idle" /\ dep[v] = dep[w]
<1> DEFINE d == dep[w]
<1>0. /\ d \in Deployments /\ row \in [Deployments -> Rows] /\ ~ctx[w]
      /\ Bound(pc[w], loc[w], d, row[d].status, tickets)
  BY DEF TypeInv, ProcOK, DbOK, OrphanInv, AllBound
<1>a. ASSUME NEW status, NEW step, SetRow(d, status, step), Settled(status)
      PROVE  Settled(row'[d].status)
  BY <1>0, <1>a DEF SetRow, Rows
<1>1. CASE RunStep(w)
  <2>1. ~Stays(w) /\ ~Acquire(w) /\ ~Abort(w) /\ ~ReleaseSlot(w)
    BY DEF Stays, Acquire, Admitted, Goes, Goto, Abort, ReleaseSlot, Holding, Working,
       TypeInv, ProcOK
  <2>2. Unregister(w)
    BY <1>1, <2>1, RunStays DEF RunStep, TypeInv
  <2>3. /\ pc[w] = "unregister" /\ row' = row
        /\ tickets' = IF loc[w].op = "prepared" THEN tickets \cup {d} ELSE tickets
    BY <2>2 DEF Unregister, db
  <2> QED BY <1>0, <2>3 DEF Bound
<1>2. CASE BeginExecution(w)
  <2>1. pc[w] = "begin" /\ running[d] # NoWorker
    BY <1>2 DEF BeginExecution, TypeInv, ProcOK
  <2>2. /\ running[d] \in Workers /\ pc[running[d]] \in Registered /\ dep[running[d]] = d
    BY <1>0, <2>1 DEF RunInv, TypeInv, SvcOK
  <2>3. running[d] # w /\ pc[running[d]] # "idle"
    BY <2>1, <2>2 DEF Registered, Holding, Working
  <2> QED BY <2>2, <2>3
<1>3. CASE CancelLoad(w)
  <2>1. row' = row /\ row[d].status \in {"COMPLETED", "CANCELLED"}
    BY <1>0, <1>3 DEF CancelLoad, Goes, Goto, db, TypeInv, ProcOK
  <2> QED BY <2>1 DEF Settled, Terminal
<1>4. CASE CancelSet(w)
  <2>1. SetRow(d, "CANCELLED", "cancelled") /\ Settled("CANCELLED")
    BY <1>4 DEF CancelSet, Settled, Terminal
  <2> QED BY <1>a, <2>1
<1>5. CASE WriteVerdict(w)
  <2>1. SetRow(d, loc[w].out.status, loc[w].out.step) /\ pc[w] = "verdict"
    BY <1>5 DEF WriteVerdict
  <2>2. Settled(loc[w].out.status)
    BY <1>0, <2>1 DEF Bound, Settled, Terminal
  <2> QED BY <1>a, <2>1, <2>2
<1>6. CASE \/ CreateDeployment(w) \/ RetrySet(w) \/ Inspect(w) \/ AdoptNode(w) \/ Probe(w)
           \/ SkipRecord(w) \/ Lookup(w)
  <2>1. pc'[w] # "idle"
    BY <1>0, <1>6 DEF CreateDeployment, RetrySet, Inspect, AdoptNode, Probe, SkipRecord,
       Lookup, Verdict, Rechecks, Goes, Goto, TypeInv, ProcOK
  <2> QED BY <2>1
<1> QED BY <1>1, <1>2, <1>3, <1>4, <1>5, <1>6 DEF DetachedStep, StartRecover

\* The steps of the workers preserve OrphanInv.
LEMMA WorkerOrphan ==
  ASSUME ~DBFaults, TypeInv, RunInv, TruthInv, RecordedInv, OrphanInv, NEW w \in Workers,
         RunStep(w) \/ DetachedStep(w), pc[w] # "idle"
  PROVE  OrphanInv'
<1> DEFINE d == dep[w]
<1>0. /\ AllBound /\ Cared /\ Moves(w) /\ d \in Deployments
      /\ \A v \in Workers : ~ctx[v]
      /\ \A e \in tickets : Started(row[e].status)
      /\ \A v \in Workers : pc[v] # "idle" => dep[v] \in Deployments
      /\ tickets \subseteq Deployments
  BY RunMoves, DetachedMoves DEF OrphanInv, TypeInv, ProcOK, CtlOK
<1>1. /\ \A e \in Deployments : e # d => row'[e] = row[e]
      /\ \/ CreateDeployment(w)
         \/ row'[d].status = row[d].status
         \/ /\ Started(row'[d].status)
            /\ pc[w] \in Registered \/ SoleWorker \/ Settled(row'[d].status)
  BY StatusMoves, InsertWrites
<1>2. \/ tickets' = tickets
      \/ pc[w] = "unregister" /\ loc[w].op = "prepared" /\ tickets' = tickets \cup {d}
  BY WorkerLists
<1>3. \A v \in Workers \ {w} : pc'[v] = pc[v] /\ dep'[v] = dep[v] /\ loc'[v] = loc[v]
  BY <1>0 DEF Moves
<1>4. AllBound'
  <2>1. Binds(w)
    BY RunBinds, DetachedBinds
  <2>2. ASSUME NEW v \in Workers, v # w, pc'[v] # "idle"
        PROVE  Bound(pc'[v], loc'[v], dep'[v], row'[dep'[v]].status, tickets')
    <3>1. pc[v] # "idle" /\ dep[v] \in Deployments
      BY <1>0, <1>3, <2>2
    <3>2. CreateDeployment(w) => dep[v] # d
      BY <2>2, <3>1, InsertWrites
    <3>3. Bound(pc[v], loc[v], dep[v], row'[dep[v]].status, tickets')
      BY <1>1, <2>2, <3>1, <3>2, OthersBound
    <3> QED BY <1>3, <2>2, <3>3
  <2> QED BY <2>1, <2>2 DEF AllBound, Binds
<1>5. Cared'
  <2> SUFFICES ASSUME NEW e \in Deployments, ~Settled(row'[e].status)
               PROVE  \/ e \in tickets' \cup todo'
                      \/ \E v \in Workers : pc'[v] # "idle" /\ dep'[v] = e
    BY DEF Cared
  <2>1. CASE e = d
    <3>1. CASE pc'[w] = "idle"
      BY <1>3, <2>1, <3>1, EndsCared
    <3>2. CASE pc'[w] # "idle"
      BY <1>0, <2>1, <3>2 DEF Moves
    <3> QED BY <3>1, <3>2
  <2>2. CASE e # d
    <3>1. ~Settled(row[e].status)
      BY <1>1, <2>2
    <3>2. e \in todo => e \in todo'
      <4>1. todo' = todo \/ todo' = todo \ {d} \/ todo' = Unfinished(row')
        BY RecheckSteps
      <4>2. e \in Unfinished(row')
        BY DEF Unfinished, Settled
      <4> QED BY <2>2, <4>1, <4>2
    <3>3. ASSUME NEW v \in Workers, pc[v] # "idle", dep[v] = e
          PROVE  pc'[v] # "idle" /\ dep'[v] = e
      BY <1>3, <2>2, <3>3
    <3> QED BY <1>0, <1>2, <3>1, <3>2, <3>3 DEF Cared
  <2> QED BY <2>1, <2>2
<1>6. \A e \in tickets' : Started(row'[e].status)
  <2>1. \A e \in tickets : Started(row'[e].status)
    <3>1. CreateDeployment(w) => d \notin tickets
      BY <1>0, InsertWrites DEF Started, NoRow
    <3> QED BY <1>0, <1>1, <3>1
  <2>2. pc[w] = "unregister" /\ loc[w].op = "prepared" => Started(row'[d].status)
    <3>1. CreateDeployment(w) => pc[w] = "insert"
      BY DEF CreateDeployment
    <3> QED BY <1>0, <1>1, <3>1 DEF AllBound, Bound
  <2> QED BY <1>2, <2>1, <2>2
<1>7. \A v \in Workers : ~ctx'[v]
  BY <1>0, NobodyCancels
<1> QED BY <1>4, <1>5, <1>6, <1>7 DEF OrphanInv

\* So does the start of a command or of a recovery.
LEMMA StartOrphan ==
  ASSUME Undisturbed, TypeInv, RunInv, TruthInv, OrphanInv,
         NEW w \in Workers, NEW d \in Deployments,
         \/ StartPrepare(w, d) \/ StartDeploy(w, d) \/ StartRetryDNS(w, d)
         \/ StartRetryStep(w, d) \/ StartCancel(w, d) \/ StartRecheck(w, d)
         \/ StartRecover(w, d)
  PROVE  OrphanInv'
<1>0. /\ AllBound /\ Cared
      /\ \A v \in Workers : ~ctx[v]
      /\ \A e \in tickets : Started(row[e].status)
  BY DEF OrphanInv
<1>1. /\ UNCHANGED <<row, todo>> /\ tickets \ {d} \subseteq tickets' /\ tickets' \subseteq tickets
      /\ pc[w] = "idle" /\ dep'[w] = d
      /\ \A v \in Workers \ {w} : pc'[v] = pc[v] /\ dep'[v] = dep[v] /\ loc'[v] = loc[v]
  BY DEF StartPrepare, StartDeploy, StartRetryDNS, StartRetryStep, StartCancel,
         StartRecheck, StartRecover, Start, Classify, Set, db, ext, ctl, TypeInv, ProcOK
<1>2. pc'[w] # "idle"
  BY DEF StartPrepare, StartDeploy, StartRetryDNS, StartRetryStep, StartCancel,
         StartRecheck, StartRecover, Start, Classify, TypeInv, ProcOK
<1>3. AllBound'
  <2>1. Binds(w)
    BY StartBinds
  <2>2. ASSUME NEW v \in Workers, v # w, pc'[v] # "idle"
        PROVE  Bound(pc'[v], loc'[v], dep'[v], row'[dep'[v]].status, tickets')
    <3>1. Bound(pc[v], loc[v], dep[v], row'[dep[v]].status, tickets')
      BY <1>1, <2>2, OthersBound
    <3> QED BY <1>1, <2>2, <3>1
  <2> QED BY <2>1, <2>2 DEF AllBound, Binds
<1>4. Cared'
  <2> SUFFICES ASSUME NEW e \in Deployments, ~Settled(row'[e].status)
               PROVE  \/ e \in tickets' \cup todo'
                      \/ \E v \in Workers : pc'[v] # "idle" /\ dep'[v] = e
    BY DEF Cared
  <2>1. ASSUME NEW v \in Workers, pc[v] # "idle", dep[v] = e
        PROVE  pc'[v] # "idle" /\ dep'[v] = e
    BY <1>1, <2>1
  <2> QED BY <1>0, <1>1, <1>2, <2>1 DEF Cared
<1>5. \A v \in Workers : ~ctx'[v]
  <2>1. CASE StartCancel(w, d)
    <3>1. SoleWorker
      BY <2>1 DEF StartCancel, Undisturbed
    <3>2. \A v \in Workers : running[d] # v
      BY <1>1, <3>1, ConstantsAssumption
         DEF SoleWorker, RunInv, Registered, Holding, Working
    <3> QED BY <1>0, <2>1, <3>2 DEF StartCancel
  <2>2. CASE ~StartCancel(w, d)
    BY <1>0, <2>2 DEF StartPrepare, StartDeploy, StartRetryDNS, StartRetryStep,
         StartRecheck, StartRecover, Start, Classify
  <2> QED BY <2>1, <2>2
<1> QED BY <1>0, <1>1, <1>3, <1>4, <1>5 DEF OrphanInv

\* Every step preserves OrphanInv.
LEMMA OrphanStep ==
  ASSUME ~DBFaults, Undisturbed, TypeInv, RunInv, TruthInv, RecordedInv, OrphanInv,
         [Next]_vars
  PROVE  OrphanInv'
<1>1. ASSUME NEW w \in Workers, Command(w) PROVE OrphanInv'
  BY <1>1, StartOrphan DEF Command
<1>2. ASSUME NEW w \in Workers, RunStep(w) \/ DetachedStep(w) PROVE OrphanInv'
  <2>1. CASE pc[w] = "idle"
    <3>1. PICK d \in Deployments : StartRecover(w, d)
      BY <1>2, <2>1, RunFrom DEF DetachedStep, CreateDeployment, BeginExecution, RetrySet,
         CancelLoad, CancelSet, Inspect, AdoptNode, Probe, SkipRecord, Lookup,
         WriteVerdict, Working
    <3> QED BY <3>1, StartOrphan
  <2> QED BY <1>2, <2>1, WorkerOrphan
<1>3. CASE Panel
  <2>1. /\ UNCHANGED <<row, todo, tickets, pc, dep, ctx>>
        /\ \A v \in Workers : loc'[v] = loc[v] \/ PanelCreates(v)
    BY <1>3 DEF Panel, PanelCreates, PanelCreatesLate, Set, procs, db, ctl, TypeInv, ProcOK
  <2>2. ASSUME NEW v \in Workers
        PROVE  /\ loc'[v].op = loc[v].op /\ loc'[v].cur = loc[v].cur
               /\ loc'[v].out = loc[v].out /\ loc'[v].stage = loc[v].stage
    <3>1. ASSUME PanelCreates(v)
          PROVE  /\ loc'[v].op = loc[v].op /\ loc'[v].cur = loc[v].cur
                 /\ loc'[v].out = loc[v].out /\ loc'[v].stage = loc[v].stage
      BY <3>1 DEF PanelCreates, Set, TypeInv, ProcOK, Locals
    <3> QED BY <2>1, <3>1
  <2>3. AllBound'
    BY <2>1, <2>2 DEF OrphanInv, AllBound, Bound
  <2> QED BY <2>1, <2>3 DEF OrphanInv, Cared
<1>4. CASE Crash
  <2>1. /\ row' = row /\ pc' = [w \in Workers |-> "idle"] /\ ctx' = [w \in Workers |-> FALSE]
        /\ tickets' = {} /\ todo' = Unfinished(row)
    BY <1>4 DEF Crash, db
  <2>2. Cared'
    BY <2>1 DEF Cared, Unfinished, Settled
  <2> QED BY <2>1, <2>2 DEF OrphanInv, AllBound
<1>5. CASE UNCHANGED vars
  BY <1>5 DEF vars, OrphanInv, AllBound, Cared
<1> QED BY <1>1, <1>2, <1>3, <1>4, <1>5 DEF Next

\* OrphanInv holds initially.
LEMMA OrphanInit == Init => OrphanInv
  BY DEF Init, OrphanInv, AllBound, Cared, Settled, NoRow

\* No deployment is forgotten, through every crash, restart, failed call and
\* duplicate command: an unfinished one has a worker, a session that may start
\* it, or its turn in the startup recovery, or waits for its Node.  It needs
\* writes that do not fail (a failed write ends the run and leaves the row as
\* it is) and either one goroutine at a time or nobody who retries or cancels:
\* a retry that finds the run it follows still registered has already reset
\* the status of the row, a retry of the DNS step can keep a Prepare from
\* registering, and a cancelled run may write its row after Cancel did.
THEOREM NoneForgotten ==
  ASSUME ~DBFaults, Undisturbed
  PROVE  Spec => []NoOrphan
<1> DEFINE Inv == TypeInv /\ RunInv /\ NodeInv /\ TruthInv /\ RecordedInv /\ OrphanInv
<1>1. Init => Inv
  BY TypeInit, RunInit, NodeInit, TruthInit, RecordedInit, OrphanInit
<1>2. Inv /\ [Next]_vars => Inv'
  BY TypeStep, RunStepInv, NodeStep, TruthStep, RecordedStep, OrphanStep
<1>3. Inv => NoOrphan
  BY DEF OrphanInv, Cared, NoOrphan, Unfinished, Settled
<1> QED BY <1>1, <1>2, <1>3, PTL DEF Spec
=============================================================================
