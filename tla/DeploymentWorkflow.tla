------------------------- MODULE DeploymentWorkflow -------------------------
(***************************************************************************)
(* The deployment workflow of the bot: DeploymentService (Prepare, Deploy, *)
(* RetryDNS, RetryFailedStep, Cancel), the recovery service that runs at   *)
(* startup and on /recheck, the deployments and deployment_steps tables,   *)
(* and what they use of the Remnawave panel, the DNS balancer and the VPS. *)
(*                                                                         *)
(* Operators drive the service from goroutines ("workers").  A step of a   *)
(* worker is one repository transaction or one external call: between two  *)
(* of them any other worker may run, the run may be cancelled, and the     *)
(* process may crash.                                                      *)
(***************************************************************************)
EXTENDS Integers, FiniteSets

CONSTANTS
  Deployments,    \* deployment ids
  Workers,        \* goroutines that run operator commands
  NodeIds,        \* UUIDs the Remnawave panel can hand out
  Names, Addrs,   \* Node names, VPS addresses
  Input,          \* Input[d]: the Node name and VPS address of deployment d
  MaxConcurrent,  \* capacity of the semaphore
  DNSDisabled,    \* Config.DNSDisabled of the panel
  Commands,       \* the operator commands each worker issues in this instance
  DBFaults,       \* may a repository call fail (before or after its commit)?
  APIFaults,      \* may an external call fail or time out?
  Crashes,        \* may the process crash and restart?
  LateLanding,    \* may the panel execute a POST after its caller gave up?
  NoDep, NoId, NoNode, NoWorker

AllCommands ==
  {"prepare", "deploy", "retry_step", "retry_dns", "recheck", "cancel"}

ASSUME ConstantsAssumption ==
  /\ NoDep \notin Deployments
  /\ NoId \notin NodeIds
  /\ NoWorker \notin Workers
  /\ Input \in [Deployments -> [name : Names, addr : Addrs]]
  /\ NoNode \notin [name : Names, addr : Addrs]
  /\ Commands \in [Workers -> SUBSET AllCommands]
  /\ {DNSDisabled, DBFaults, APIFaults, Crashes, LateLanding} \subseteq BOOLEAN

ASSUME SemaphoreAssumption ==
  /\ IsFiniteSet(Workers)
  /\ MaxConcurrent \in Nat \ {0}

VARIABLES
  row,          \* deployments table: status, current_step, remnawave_node_uuid
  steps,        \* deployment_steps table: last recorded status of each step
  nodes,        \* Remnawave panel: the Node behind each UUID
  late,         \* POST /api/nodes requests whose callers gave up, still on the way
  zone,         \* DNS balancer: addresses in the zone of the SNI
  provisioned,  \* deployments whose VPS has been provisioned
  running,      \* DeploymentService.running: the worker registered per key
  slots,        \* DeploymentService.semaphore: the workers holding a slot
  tickets,      \* confirmed-or-confirmable Telegram sessions (one Deploy each)
  todo,         \* unfinished deployments the startup recovery has to classify
  pc, dep, ctx, loc  \* workers: label, deployment, ctx.Err() # nil, locals

db    == <<row, steps>>
ext   == <<nodes, late, zone, provisioned>>
svc   == <<running, slots>>
ctl   == <<tickets, todo>>
procs == <<pc, dep, ctx, loc>>
vars  == <<row, steps, nodes, late, zone, provisioned, running, slots,
           tickets, todo, pc, dep, ctx, loc>>

-----------------------------------------------------------------------------
(* Domains. *)

Stages == {"preflight", "prepare_certificate", "provisioning",
           "create_remnawave_node", "wait_remnawave", "add_dns"}

StepNames == Stages \cup {"created", "cancelled", "completed", "none"}

StepStatuses == {"NONE", "RUNNING", "COMPLETED", "FAILED", "SKIPPED"}

Terminal == {"COMPLETED", "FAILED", "CANCELLED", "DNS_FAILED", "MANUAL_REVIEW"}

\* "ABSENT" stands for a row that has not been inserted.
Statuses == Terminal \cup
  {"ABSENT", "CREATED", "PREFLIGHT", "PREPARING_CERTIFICATE", "PROVISIONING",
   "CREATING_REMNAWAVE_NODE", "WAITING_REMNAWAVE", "ADDING_TO_DNS"}

\* The status beginStage writes for each step.
StatusOf ==
  [preflight             |-> "PREFLIGHT",
   prepare_certificate   |-> "PREPARING_CERTIFICATE",
   provisioning          |-> "PROVISIONING",
   create_remnawave_node |-> "CREATING_REMNAWAVE_NODE",
   wait_remnawave        |-> "WAITING_REMNAWAVE",
   add_dns               |-> "ADDING_TO_DNS"]

\* The status from which RetryFailedStep re-enters Deploy (or RetryDNS).
ResumeOf ==
  [prepare_certificate   |-> "PREFLIGHT",
   provisioning          |-> "PROVISIONING",
   create_remnawave_node |-> "CREATING_REMNAWAVE_NODE",
   wait_remnawave        |-> "WAITING_REMNAWAVE",
   add_dns               |-> "DNS_FAILED"]

Rows == [status : Statuses, step : StepNames, uuid : NodeIds \cup {NoId}]

NoRow == [status |-> "ABSENT", step |-> "none", uuid |-> NoId]

\* Labels of a run that holds a semaphore slot, of a registered run
\* (beginExecution), and of the operations that never register.
Working == {"load", "host", "admit", "setState", "record", "advance",
            "advanceRecord", "work", "list", "post", "posted", "persist",
            "publish", "skip", "complete", "reload", "finish", "failRecord",
            "failState"}
Holding    == Working \cup {"releaseSlot"}
Registered == Holding \cup {"slot", "unregister"}
Detached   == {"insert", "begin", "retrySet", "cancelLoad", "cancelSet",
               "inspect", "adopt", "probe", "lookup", "skipRecord", "verdict"}
Labels     == Registered \cup Detached \cup {"idle"}

Ops == {"none", "prepare", "prepared", "deploy", "retry_dns", "retry_step",
        "cancel", "recheck", "recover"}

Outs == [status : Statuses, step : StepNames]

Locals == [op : Ops, stage : StepNames, cur : Rows, out : Outs,
           node : NodeIds \cup {NoId}]

NoOut == [status |-> "ABSENT", step |-> "none"]

Blank == [op |-> "none", stage |-> "none", cur |-> NoRow, out |-> NoOut,
          node |-> NoId]

-----------------------------------------------------------------------------
(* The Remnawave panel, as the code reads it. *)

Existing == {n \in NodeIds : nodes[n] # NoNode}

Exact(d) == {n \in Existing : nodes[n] = Input[d]}

\* Mutant: only a Node with both the name and the address is a duplicate.
ClashingOnBoth(d) == {n \in Existing : nodes[n] = Input[d]}

Clashing(d) == {n \in Existing : \/ nodes[n].name = Input[d].name
                                 \/ nodes[n].addr = Input[d].addr}

\* checkUnique: no other Node has the name or the address; while resuming a
\* run whose UUID was not persisted, an exact match is the run's own Node.
checkUnique(d, own, allowRecovery) ==
  \A n \in Clashing(d) \ {own} : allowRecovery /\ own = NoId /\ n \in Exact(d)

\* recoverableNode: an exact match to adopt, unless anything else clashes.
DuplicateNode(d) == Clashing(d) # Exact(d) \/ Cardinality(Exact(d)) > 1

\* POST /api/nodes: the panel registers the Node under a fresh UUID.
CreateUnder(n, d) == nodes' = [nodes EXCEPT ![n] = Input[d]]

-----------------------------------------------------------------------------
(* Worker bookkeeping. *)

\* A step succeeded: go to label l, or leave the run if its context has been
\* cancelled (every call is followed, or the next one preceded, by ctx.Err()).
Goto(w, l) == pc' = [pc EXCEPT ![w] = IF ctx[w] THEN "releaseSlot" ELSE l]

Set(w, field) == loc' = [loc EXCEPT ![w] = field]

Keep == UNCHANGED <<dep, ctx>>

Goes(w, l, locals) == Goto(w, l) /\ Set(w, locals) /\ Keep

\* Return from a run that holds a slot: the deferred releases come next.
Stop(w) ==
  /\ pc' = [pc EXCEPT ![w] = "releaseSlot"]
  /\ UNCHANGED <<dep, ctx, loc>>

\* The goroutine is done.
Reset(w) ==
  /\ pc' = [pc EXCEPT ![w] = "idle"]
  /\ dep' = [dep EXCEPT ![w] = NoDep]
  /\ ctx' = [ctx EXCEPT ![w] = FALSE]
  /\ loc' = [loc EXCEPT ![w] = Blank]

Start(w, d, l, locals) ==
  /\ pc[w] = "idle"
  /\ todo = {}
  /\ pc' = [pc EXCEPT ![w] = l]
  /\ dep' = [dep EXCEPT ![w] = d]
  /\ Set(w, locals)
  /\ ctx' = ctx

\* failStage has been entered: what it will record and write.
Fails(w, status, step) ==
  Goes(w, "failRecord", [loc[w] EXCEPT !.out = [status |-> status, step |-> step]])

-----------------------------------------------------------------------------
(* The repository. *)

\* UpdateDeploymentState: unconditional (WHERE id = $1).
SetRow(d, status, step) ==
  row' = [row EXCEPT ![d].status = status, ![d].step = step]

\* RecordDeploymentStep: upsert of the step; RUNNING also moves current_step.
RecordStep(d, step, status) ==
  /\ steps' = [steps EXCEPT ![d][step] = status]
  /\ row' = IF status = "RUNNING" THEN [row EXCEPT ![d].step = step] ELSE row

\* Mutant: the error of a failed write is ignored.
PersistsOrNot(w, write, l, locals) ==
  \/ write /\ Goes(w, l, locals)
  \/ DBFaults /\ UNCHANGED db /\ Goes(w, l, locals)

\* A repository write of a registered run: it commits and the run goes on; it
\* commits but the reply is lost; or it fails.  Both errors end the run.
Persists(w, write, l, locals) ==
  \/ write /\ Goes(w, l, locals)
  \/ DBFaults /\ write /\ Stop(w)
  \/ DBFaults /\ UNCHANGED db /\ Stop(w)

-----------------------------------------------------------------------------
(* Prepare. *)

\* selectedHost and checkUnique, then CreateDeployment comes next.  A rejected
\* input leaves no trace.  Deployment ids are fresh random UUIDs.
StartPrepare(w, d) ==
  /\ "prepare" \in Commands[w]
  /\ row[d] = NoRow
  /\ \A v \in Workers : dep[v] # d
  /\ checkUnique(d, NoId, FALSE)
  /\ Start(w, d, "insert", [Blank EXCEPT !.op = "prepare"])
  /\ UNCHANGED <<db, ext, svc, ctl>>

\* Mutant: the column of the UUID is left unset.
InsertRowUnset(d) ==
  row' = [row EXCEPT ![d] = [status |-> "CREATED", step |-> "created", uuid |-> NoNode]]

InsertRow(d) ==
  row' = [row EXCEPT ![d] = [status |-> "CREATED", step |-> "created", uuid |-> NoId]]

CreateDeployment(w) ==
  /\ pc[w] = "insert"
  /\ \/ /\ InsertRow(dep[w])
        /\ pc' = [pc EXCEPT ![w] = "begin"]
        /\ UNCHANGED <<dep, ctx, loc>>
     \/ /\ DBFaults
        /\ InsertRow(dep[w]) \/ row' = row
        /\ Reset(w)
  /\ UNCHANGED <<steps, ext, svc, ctl>>

-----------------------------------------------------------------------------
(* Registration and the semaphore. *)

\* Mutant: a run registers without looking for another one.
BeginExecutionUnchecked(w) ==
  /\ pc[w] = "begin"
  /\ running' = [running EXCEPT ![dep[w]] = w]
  /\ pc' = [pc EXCEPT ![w] = "slot"]
  /\ Set(w, [loc[w] EXCEPT !.out = NoOut, !.cur = NoRow])
  /\ Keep
  /\ UNCHANGED <<db, ext, slots, ctl>>

\* beginExecution: one registered run per deployment key.
BeginExecution(w) ==
  /\ pc[w] = "begin"
  /\ IF running[dep[w]] = NoWorker
       THEN /\ running' = [running EXCEPT ![dep[w]] = w]
            /\ pc' = [pc EXCEPT ![w] = "slot"]
            /\ Set(w, [loc[w] EXCEPT !.out = NoOut, !.cur = NoRow])
            /\ Keep
       ELSE Reset(w) /\ UNCHANGED running
  /\ UNCHANGED <<db, ext, slots, ctl>>

\* Prepare begins its one stage, the others load the row.
Admitted(w) ==
  IF loc[w].op = "prepare"
    THEN Goes(w, "setState", [loc[w] EXCEPT !.stage = "preflight"])
    ELSE Goes(w, "load", loc[w])

\* Mutant: the semaphore has one slot too many.
AcquireOneMore(w) ==
  /\ pc[w] = "slot"
  /\ Cardinality(slots) <= MaxConcurrent
  /\ slots' = slots \cup {w}
  /\ Admitted(w)
  /\ UNCHANGED <<db, ext, running, ctl>>

Acquire(w) ==
  /\ pc[w] = "slot"
  /\ Cardinality(slots) < MaxConcurrent
  /\ slots' = slots \cup {w}
  /\ Admitted(w)
  /\ UNCHANGED <<db, ext, running, ctl>>

\* A request whose caller stopped waiting may still be on its way.
Abandon(abandoned) ==
  IF LateLanding THEN \E some \in SUBSET abandoned : late' = late \cup some
                 ELSE late' = late

InFlight(w) == pc[w] = "posted" /\ loc[w].node = NoId

\* The context of a registered run has been cancelled: it returns ctx.Err()
\* without a write, from the select of acquire or from the step it is at.
Abort(w) ==
  /\ ctx[w]
  /\ pc[w] \in Working \cup {"slot"}
  /\ pc' = [pc EXCEPT ![w] = IF pc[w] = "slot" THEN "unregister" ELSE "releaseSlot"]
  /\ IF InFlight(w) THEN Abandon({dep[w]}) ELSE UNCHANGED late
  /\ UNCHANGED <<db, nodes, zone, provisioned, svc, ctl, dep, ctx, loc>>

\* Mutant: the deferred release does not give the slot back.
ReleaseSlotKept(w) ==
  /\ pc[w] = "releaseSlot"
  /\ pc' = [pc EXCEPT ![w] = "unregister"]
  /\ UNCHANGED <<db, ext, svc, ctl, dep, ctx, loc>>

ReleaseSlot(w) ==
  /\ pc[w] = "releaseSlot"
  /\ slots' = slots \ {w}
  /\ pc' = [pc EXCEPT ![w] = "unregister"]
  /\ UNCHANGED <<db, ext, running, ctl, dep, ctx, loc>>

\* The release closure of beginExecution.  A Prepare that succeeded hands its
\* deployment to the Telegram session, which may start it once.
Unregister(w) ==
  /\ pc[w] = "unregister"
  /\ running' = [running EXCEPT ![dep[w]] = NoWorker]
  /\ tickets' = IF loc[w].op = "prepared" THEN tickets \cup {dep[w]} ELSE tickets
  /\ Reset(w)
  /\ UNCHANGED <<db, ext, slots, todo>>

-----------------------------------------------------------------------------
(* Deploy and RetryDNS: admission. *)

StartDeploy(w, d) ==
  /\ "deploy" \in Commands[w]
  /\ d \in tickets
  /\ Start(w, d, "begin", [Blank EXCEPT !.op = "deploy"])
  /\ tickets' = tickets \ {d}
  /\ UNCHANGED <<db, ext, svc, todo>>

StartRetryDNS(w, d) ==
  /\ "retry_dns" \in Commands[w]
  /\ row[d] # NoRow
  /\ Start(w, d, "begin", [Blank EXCEPT !.op = "retry_dns"])
  /\ UNCHANGED <<db, ext, svc, ctl>>

\* Statuses with which Deploy goes on (every other one is a no-op or an error).
Deployable(status) ==
  status \notin {"COMPLETED", "DNS_FAILED", "FAILED", "CANCELLED", "CREATED"}

Load(w) ==
  /\ pc[w] = "load"
  /\ LET current == row[dep[w]] IN
     \/ /\ loc[w].op = "deploy"
        /\ Deployable(current.status)
        /\ Goes(w, "host", [loc[w] EXCEPT !.cur = current])
     \/ /\ loc[w].op = "retry_dns"
        /\ current.status \in {"DNS_FAILED", "ADDING_TO_DNS"}
        /\ Goes(w, "setState", [loc[w] EXCEPT
                 !.stage = "add_dns",
                 !.cur = [current EXCEPT !.status = "ADDING_TO_DNS"]])
     \/ /\ \/ DBFaults
           \/ loc[w].op = "deploy" /\ ~Deployable(current.status)
           \/ loc[w].op = "retry_dns"
              /\ current.status \notin {"DNS_FAILED", "ADDING_TO_DNS"}
        /\ Stop(w)
  /\ UNCHANGED <<db, ext, svc, ctl>>

\* selectedHost: the Host may be gone, disabled, moved to another SNI, or the
\* panel unreachable.
CheckHost(w) ==
  /\ pc[w] = "host"
  /\ \/ Goes(w, "admit", loc[w])
     \/ APIFaults /\ Fails(w, "FAILED", loc[w].cur.step)
  /\ UNCHANGED <<db, ext, svc, ctl>>

\* Where Deploy continues: the first of createNode, waitForHealthyNode and
\* addDNS whose condition the (re)loaded row meets, among those still ahead.
NextStage(current, ahead) ==
  IF /\ "create_remnawave_node" \in ahead
     /\ current.status = "CREATING_REMNAWAVE_NODE" \/ current.uuid = NoId
    THEN "create_remnawave_node"
  ELSE IF /\ "wait_remnawave" \in ahead
          /\ current.status \in {"WAITING_REMNAWAVE", "CREATING_REMNAWAVE_NODE"}
    THEN "wait_remnawave"
  ELSE IF current.status \in {"ADDING_TO_DNS", "WAITING_REMNAWAVE"}
    THEN "add_dns"
  ELSE "none"

\* The first label inside a stage once it has begun.
StageBody(stage, current) ==
  CASE stage = "create_remnawave_node" ->
         IF current.uuid = NoId THEN "list" ELSE "complete"
    [] stage = "add_dns" ->
         IF current.uuid = NoId THEN "releaseSlot"
         ELSE IF DNSDisabled THEN "skip" ELSE "work"
    [] OTHER -> "work"

\* Enter createNode, waitForHealthyNode or addDNS with the row as loaded.
EnterStage(w, current, ahead) ==
  LET stage == NextStage(current, ahead)
      into  == [loc[w] EXCEPT !.stage = stage, !.cur = current]
  IN \/ /\ stage = "none" \/ (stage = "add_dns" /\ current.uuid = NoId)
        /\ Stop(w)
     \/ /\ stage = "wait_remnawave" /\ current.uuid = NoId
        /\ Goes(w, "failRecord",
             [into EXCEPT !.out = [status |-> "FAILED", step |-> stage]])
     \/ /\ stage # "none"
        /\ stage = "create_remnawave_node" \/ current.uuid # NoId
        /\ Goes(w, IF current.status = StatusOf[stage]
                     THEN StageBody(stage, current) ELSE "setState", into)

AllAhead == {"create_remnawave_node", "wait_remnawave", "add_dns"}

\* checkUnique, then prepareAndProvision or the stage the row has reached.
\* A run resumed in PROVISIONING fetches its certificate without a beginStage.
Admit(w) ==
  /\ pc[w] = "admit"
  /\ LET current == loc[w].cur
         allow   == current.status \in {"CREATING_REMNAWAVE_NODE",
                                        "WAITING_REMNAWAVE", "ADDING_TO_DNS"}
         unique  == checkUnique(dep[w], current.uuid, allow)
     IN \/ ~unique /\ Fails(w, "FAILED", current.step)
        \/ APIFaults /\ unique /\ Fails(w, "FAILED", current.step)
        \/ /\ unique
           /\ current.status \in {"PREFLIGHT", "PREPARING_CERTIFICATE", "PROVISIONING"}
           /\ Goes(w, IF current.status = "PROVISIONING" THEN "work" ELSE "setState",
                   [loc[w] EXCEPT !.stage = "prepare_certificate"])
        \/ /\ unique
           /\ current.status \notin {"PREFLIGHT", "PREPARING_CERTIFICATE", "PROVISIONING"}
           /\ EnterStage(w, current, AllAhead)
  /\ UNCHANGED <<db, ext, svc, ctl>>

-----------------------------------------------------------------------------
(* Stages. *)

\* beginStage, first half: setState.  The label "advance" is the beginStage
\* that ends a stage function; Deploy reloads the row after it.
BeginStage(w) ==
  /\ pc[w] \in {"setState", "advance"}
  /\ Persists(w, SetRow(dep[w], StatusOf[loc[w].stage], loc[w].stage)
                   /\ UNCHANGED steps,
              IF pc[w] = "setState" THEN "record" ELSE "advanceRecord", loc[w])
  /\ UNCHANGED <<ext, svc, ctl>>

\* beginStage, second half: RecordDeploymentStep(RUNNING).
RecordRunning(w) ==
  /\ pc[w] \in {"record", "advanceRecord"}
  /\ Persists(w, RecordStep(dep[w], loc[w].stage, "RUNNING"),
              IF pc[w] = "record" THEN StageBody(loc[w].stage, loc[w].cur)
                                  ELSE "reload", loc[w])
  /\ UNCHANGED <<ext, svc, ctl>>

\* vps.Preflight.
Preflight(w) ==
  /\ pc[w] = "work" /\ loc[w].stage = "preflight"
  /\ \/ Goes(w, "complete", loc[w])
     \/ APIFaults /\ Fails(w, "FAILED", "preflight")
  /\ UNCHANGED <<db, ext, svc, ctl>>

\* certificates.Prepare; its step is completed only when it was begun.
PrepareCertificate(w) ==
  /\ pc[w] = "work" /\ loc[w].stage = "prepare_certificate"
  /\ \/ /\ loc[w].cur.status # "PROVISIONING"
        /\ Goes(w, "complete", loc[w])
     \/ /\ loc[w].cur.status = "PROVISIONING"
        /\ Goes(w, "setState", [loc[w] EXCEPT !.stage = "provisioning"])
     \/ APIFaults /\ Fails(w, "FAILED", "prepare_certificate")
  /\ UNCHANGED <<db, ext, svc, ctl>>

\* Mutant: the error of the provisioning engine is not looked at.
ProvisionIgnoringError(w) ==
  /\ pc[w] = "work" /\ loc[w].stage = "provisioning"
  /\ \/ provisioned' = provisioned \cup {dep[w]}
     \/ APIFaults /\ UNCHANGED provisioned
  /\ Goes(w, "complete", loc[w])
  /\ UNCHANGED <<db, nodes, late, zone, svc, ctl>>

\* GenerateSecretKey and vps.Provision.
Provision(w) ==
  /\ pc[w] = "work" /\ loc[w].stage = "provisioning"
  /\ \/ /\ provisioned' = provisioned \cup {dep[w]}
        /\ Goes(w, "complete", loc[w])
     \/ /\ APIFaults
        /\ Fails(w, "FAILED", "provisioning")
        /\ UNCHANGED provisioned
  /\ UNCHANGED <<db, nodes, late, zone, svc, ctl>>

\* createNode: GetNodes, then adopt the run's own Node, reject a duplicate, or
\* go on to create one.
ListNodes(w) ==
  /\ pc[w] = "list"
  /\ \/ APIFaults /\ Fails(w, "FAILED", "create_remnawave_node")
     \/ DuplicateNode(dep[w]) /\ Fails(w, "FAILED", "create_remnawave_node")
     \/ /\ ~DuplicateNode(dep[w])
        /\ \/ \E n \in Exact(dep[w]) :
                Goes(w, "persist", [loc[w] EXCEPT !.node = n])
           \/ Exact(dep[w]) = {} /\ Goes(w, "post", loc[w])
  /\ UNCHANGED <<db, ext, svc, ctl>>

\* Client.CreateNode: its own GetNodes and duplicate check, then the POST.
PostNode(w) ==
  /\ pc[w] = "post"
  /\ \/ Clashing(dep[w]) = {} /\ Goes(w, "posted", loc[w])
     \/ /\ APIFaults \/ Clashing(dep[w]) # {}
        /\ Fails(w, "FAILED", "create_remnawave_node")
  /\ UNCHANGED <<db, ext, svc, ctl>>

\* The panel executes the request of w.
PanelCreates(w) ==
  /\ InFlight(w)
  /\ \E n \in NodeIds \ Existing :
       CreateUnder(n, dep[w]) /\ Set(w, [loc[w] EXCEPT !.node = n])
  /\ UNCHANGED <<db, late, zone, provisioned, svc, ctl, pc, dep, ctx>>

\* The panel executes a request nobody waits for any more.
PanelCreatesLate(d) ==
  /\ d \in late
  /\ \E n \in NodeIds \ Existing : CreateUnder(n, d)
  /\ late' = late \ {d}
  /\ UNCHANGED <<db, zone, provisioned, svc, ctl, procs>>

\* Mutant: a POST whose reply was lost is sent again.
NodeCreatedRetrying(w) ==
  /\ pc[w] = "posted"
  /\ \/ loc[w].node # NoId /\ Goes(w, "persist", loc[w])
     \/ APIFaults /\ Goes(w, "posted", [loc[w] EXCEPT !.node = NoId])
  /\ UNCHANGED <<db, ext, svc, ctl>>

\* CreateNode returns: with the Node, or with an error (refused, lost reply,
\* timeout) whether or not the panel executed the request.
NodeCreated(w) ==
  /\ pc[w] = "posted"
  /\ \/ loc[w].node # NoId /\ Goes(w, "persist", loc[w]) /\ UNCHANGED late
     \/ /\ APIFaults
        /\ Goes(w, "failRecord", [loc[w] EXCEPT !.node = NoId,
             !.out = [status |-> "FAILED", step |-> "create_remnawave_node"]])
        /\ IF InFlight(w) THEN Abandon({dep[w]}) ELSE UNCHANGED late
  /\ UNCHANGED <<db, nodes, zone, provisioned, svc, ctl>>

\* SetRemnawaveNodeUUID.  An error here does not fail the deployment: the row
\* keeps CREATING_REMNAWAVE_NODE.
PersistNode(w) ==
  /\ pc[w] = "persist"
  /\ Persists(w, row' = [row EXCEPT ![dep[w]].uuid = loc[w].node] /\ UNCHANGED steps,
              "complete", [loc[w] EXCEPT !.cur.uuid = loc[w].node, !.node = NoId])
  /\ UNCHANGED <<ext, svc, ctl>>

\* pollNode: a Node still connecting, or a failed read, is polled again until
\* the timeout; a connected Node ends the poll, a rejected one fails the step.
PollNode(w) ==
  /\ pc[w] = "work" /\ loc[w].stage = "wait_remnawave"
  /\ \/ Goes(w, "complete", loc[w])
     \/ APIFaults /\ Fails(w, "FAILED", "wait_remnawave")
  /\ UNCHANGED <<db, ext, svc, ctl>>

\* addDNS: the Node must be connected right before the zone is changed.
CheckHealthy(w) ==
  /\ pc[w] = "work" /\ loc[w].stage = "add_dns"
  /\ \/ Goes(w, "publish", loc[w])
     \/ APIFaults /\ Fails(w, "FAILED", "add_dns")
  /\ UNCHANGED <<db, ext, svc, ctl>>

\* Mutant: an error of AddIP is taken for success.
AddIPIgnoringError(w) ==
  /\ pc[w] = "publish"
  /\ \/ zone' = zone \cup {Input[dep[w]].addr}
     \/ APIFaults /\ zone' = zone
  /\ Goes(w, "complete", loc[w])
  /\ UNCHANGED <<db, nodes, late, provisioned, svc, ctl>>

\* dns.AddIP; an error may hide an update that was applied.
AddIP(w) ==
  /\ pc[w] = "publish"
  /\ \/ /\ zone' = zone \cup {Input[dep[w]].addr}
        /\ Goes(w, "complete", loc[w])
     \/ /\ APIFaults
        /\ zone' \in {zone, zone \cup {Input[dep[w]].addr}}
        /\ Fails(w, "DNS_FAILED", "add_dns")
  /\ UNCHANGED <<db, nodes, late, provisioned, svc, ctl>>

\* addDNS on a panel without DNS balancing: RecordDeploymentStep(SKIPPED).
SkipDNS(w) ==
  /\ pc[w] = "skip"
  /\ Persists(w, RecordStep(dep[w], "add_dns", "SKIPPED"), "finish", loc[w])
  /\ UNCHANGED <<ext, svc, ctl>>

\* completeStage and what follows it in the stage function.
Following(stage) ==
  CASE stage = "preflight"             -> <<"reload", "preflight">>
    [] stage = "prepare_certificate"   -> <<"setState", "provisioning">>
    [] stage = "provisioning"          -> <<"advance", "create_remnawave_node">>
    [] stage = "create_remnawave_node" -> <<"advance", "wait_remnawave">>
    [] stage = "wait_remnawave"        -> <<"advance", "add_dns">>
    [] OTHER                           -> <<"finish", "add_dns">>

CompleteStage(w) ==
  /\ pc[w] = "complete"
  /\ LET next == Following(loc[w].stage)
     IN Persists(w, RecordStep(dep[w], loc[w].stage, "COMPLETED"),
                 next[1], [loc[w] EXCEPT !.stage = next[2]])
  /\ UNCHANGED <<ext, svc, ctl>>

\* GetDeployment after a stage: Prepare returns the prepared deployment, Deploy
\* dispatches on the row as it now is.
Reload(w) ==
  /\ pc[w] = "reload"
  /\ \/ /\ loc[w].stage = "preflight"
        /\ Goes(w, "releaseSlot", [loc[w] EXCEPT !.op = IF ctx[w] THEN @ ELSE "prepared"])
     \/ /\ loc[w].stage # "preflight"
        /\ EnterStage(w, row[dep[w]],
             CASE loc[w].stage = "create_remnawave_node" -> AllAhead
               [] loc[w].stage = "wait_remnawave" -> {"wait_remnawave", "add_dns"}
               [] OTHER -> {"add_dns"})
     \/ DBFaults /\ Stop(w)
  /\ UNCHANGED <<db, ext, svc, ctl>>

\* addDNS ends: setState(COMPLETED).
Finish(w) ==
  /\ pc[w] = "finish"
  /\ Persists(w, SetRow(dep[w], "COMPLETED", "completed") /\ UNCHANGED steps,
              "releaseSlot", loc[w])
  /\ UNCHANGED <<ext, svc, ctl>>

\* failStage attempts both writes, the second one even if the first failed.
FailRecord(w) ==
  /\ pc[w] = "failRecord"
  /\ \/ RecordStep(dep[w], loc[w].out.step, "FAILED")
     \/ DBFaults /\ UNCHANGED db
  /\ Goes(w, "failState", loc[w])
  /\ UNCHANGED <<ext, svc, ctl>>

FailState(w) ==
  /\ pc[w] = "failState"
  /\ Persists(w, SetRow(dep[w], loc[w].out.status, loc[w].out.step) /\ UNCHANGED steps,
              "releaseSlot", loc[w])
  /\ UNCHANGED <<ext, svc, ctl>>

-----------------------------------------------------------------------------
(* RetryFailedStep: reads the row and resets its status before it registers. *)

StartRetryStep(w, d) ==
  /\ "retry_step" \in Commands[w]
  /\ row[d].status = "FAILED"
  /\ row[d].step \in DOMAIN ResumeOf
  /\ Start(w, d, "retrySet",
       [Blank EXCEPT !.op = IF row[d].step = "add_dns" THEN "retry_dns" ELSE "deploy",
                     !.out = [status |-> ResumeOf[row[d].step], step |-> row[d].step]])
  /\ UNCHANGED <<db, ext, svc, ctl>>

RetrySet(w) ==
  /\ pc[w] = "retrySet"
  /\ \/ /\ SetRow(dep[w], loc[w].out.status, loc[w].out.step)
        /\ Goes(w, "begin", loc[w])
     \/ /\ DBFaults
        /\ SetRow(dep[w], loc[w].out.status, loc[w].out.step) \/ row' = row
        /\ Reset(w)
  /\ UNCHANGED <<steps, ext, svc, ctl>>

-----------------------------------------------------------------------------
(* Cancel: signal the registered run, read the row, write CANCELLED. *)

\* Operator command, or the Telegram session of a prepared deployment that is
\* cancelled, replaced or expires and so gives up its right to start it.
StartCancel(w, d) ==
  /\ "cancel" \in Commands[w]
  /\ row[d] # NoRow
  /\ pc[w] = "idle" /\ todo = {}
  /\ pc' = [pc EXCEPT ![w] = "cancelLoad"]
  /\ dep' = [dep EXCEPT ![w] = d]
  /\ Set(w, [Blank EXCEPT !.op = "cancel"])
  /\ ctx' = [v \in Workers |-> ctx[v] \/ v = running[d]]
  /\ tickets' \in {tickets, tickets \ {d}}
  /\ UNCHANGED <<db, ext, svc, todo>>

CancelLoad(w) ==
  /\ pc[w] = "cancelLoad"
  /\ \/ /\ row[dep[w]].status \notin {"COMPLETED", "CANCELLED"}
        /\ Goes(w, "cancelSet", loc[w])
     \/ /\ DBFaults \/ row[dep[w]].status \in {"COMPLETED", "CANCELLED"}
        /\ Reset(w)
  /\ UNCHANGED <<db, ext, svc, ctl>>

CancelSet(w) ==
  /\ pc[w] = "cancelSet"
  /\ \/ SetRow(dep[w], "CANCELLED", "cancelled")
     \/ DBFaults /\ row' = row
  /\ Reset(w)
  /\ UNCHANGED <<steps, ext, svc, ctl>>

-----------------------------------------------------------------------------
(* Recovery: RecheckRemnawave on request, RecoverUnfinished at startup. *)

Unfinished(table) ==
  {d \in Deployments : table[d].status \notin Terminal \cup {"ABSENT"}}

\* Mutant: recovery takes up a deployment it has classified again.
EndRecheckAgain(w, ok) ==
  /\ Reset(w)
  /\ UNCHANGED <<todo, tickets>>

\* The recheck of w ends; startup recovery goes on with the next deployment,
\* or, after an error, the process exits and is started again.
EndRecheck(w, ok) ==
  /\ Reset(w)
  /\ todo' = IF loc[w].op # "recover" THEN todo
             ELSE IF ok THEN todo \ {dep[w]}
             ELSE Unfinished(row')
  /\ UNCHANGED tickets

\* A repository write of a recheck.
Rechecks(w, write, l, locals) ==
  \/ write /\ Goes(w, l, locals) /\ UNCHANGED ctl
  \/ DBFaults /\ (write \/ UNCHANGED db) /\ EndRecheck(w, FALSE)

Inspected(current) ==
  \/ current.status \in {"CREATING_REMNAWAVE_NODE", "WAITING_REMNAWAVE",
                         "ADDING_TO_DNS", "DNS_FAILED"}
  \/ /\ current.status \in {"FAILED", "MANUAL_REVIEW"}
     /\ current.step \in {"create_remnawave_node", "wait_remnawave", "add_dns"}

\* classify: inspect the external state where a Node may exist, otherwise
\* MANUAL_REVIEW at the step the row is at.
Classify(w, d, op) ==
  LET current == row[d]
      into    == [Blank EXCEPT !.op = op, !.cur = current]
      inspect == IF current.uuid = NoId THEN "inspect" ELSE "probe"
      verdict == [into EXCEPT !.out = [status |-> "MANUAL_REVIEW", step |-> current.step]]
  IN /\ pc' = [pc EXCEPT ![w] = IF Inspected(current) THEN inspect ELSE "verdict"]
     /\ dep' = [dep EXCEPT ![w] = d]
     /\ Set(w, IF Inspected(current) THEN into ELSE verdict)
     /\ ctx' = ctx
     /\ UNCHANGED <<db, ext, svc, ctl>>

\* Mutant: a completed deployment is rechecked like any other.
StartRecheckAny(w, d) ==
  /\ "recheck" \in Commands[w]
  /\ pc[w] = "idle" /\ todo = {}
  /\ row[d] # NoRow
  /\ Classify(w, d, "recheck")

StartRecheck(w, d) ==
  /\ "recheck" \in Commands[w]
  /\ pc[w] = "idle" /\ todo = {}
  /\ row[d].status \notin {"ABSENT", "COMPLETED"}
  /\ Classify(w, d, "recheck")

StartRecover(w, d) ==
  /\ d \in todo
  /\ \A v \in Workers : pc[v] = "idle"
  /\ Classify(w, d, "recover")

Verdict(w, status, step) ==
  /\ Goes(w, "verdict", [loc[w] EXCEPT !.out = [status |-> status, step |-> step]])
  /\ UNCHANGED ctl

\* Mutant: a Node with the name or the address will do.
InspectClashing(w) ==
  /\ pc[w] = "inspect"
  /\ \/ /\ Cardinality(Clashing(dep[w])) = 1
        /\ \E n \in Clashing(dep[w]) :
             Goes(w, "adopt", [loc[w] EXCEPT !.node = n])
        /\ UNCHANGED ctl
     \/ /\ APIFaults \/ Cardinality(Clashing(dep[w])) # 1
        /\ Verdict(w, "MANUAL_REVIEW", loc[w].cur.step)
  /\ UNCHANGED <<db, ext, svc>>

\* inspectExternalState without a UUID: exactly one Node has the name and the
\* address, or nothing can be said.
Inspect(w) ==
  /\ pc[w] = "inspect"
  /\ \/ /\ Cardinality(Exact(dep[w])) = 1
        /\ \E n \in Exact(dep[w]) :
             Goes(w, "adopt", [loc[w] EXCEPT !.node = n])
        /\ UNCHANGED ctl
     \/ /\ APIFaults \/ Cardinality(Exact(dep[w])) # 1
        /\ Verdict(w, "MANUAL_REVIEW", loc[w].cur.step)
  /\ UNCHANGED <<db, ext, svc>>

\* SetRemnawaveNodeUUID; the row it returns replaces the one read before.
AdoptNode(w) ==
  /\ pc[w] = "adopt"
  /\ Rechecks(w, row' = [row EXCEPT ![dep[w]].uuid = loc[w].node] /\ UNCHANGED steps,
              "probe", [loc[w] EXCEPT !.cur = [row[dep[w]] EXCEPT !.uuid = loc[w].node],
                                      !.node = NoId])
  /\ UNCHANGED <<ext, svc>>

\* GetNode: connected, still connecting, neither, or unreadable.
Probe(w) ==
  /\ pc[w] = "probe"
  /\ \/ /\ Goes(w, IF DNSDisabled THEN "skipRecord" ELSE "lookup", loc[w])
        /\ UNCHANGED ctl
     \/ Verdict(w, "WAITING_REMNAWAVE", "wait_remnawave")
     \/ APIFaults /\ Verdict(w, "MANUAL_REVIEW", loc[w].cur.step)
  /\ UNCHANGED <<db, ext, svc>>

\* The error of this RecordDeploymentStep is ignored.
SkipRecord(w) ==
  /\ pc[w] = "skipRecord"
  /\ \/ RecordStep(dep[w], "add_dns", "SKIPPED")
     \/ DBFaults /\ UNCHANGED db
  /\ Verdict(w, "COMPLETED", "completed")
  /\ UNCHANGED <<ext, svc>>

\* Mutant: a connected Node is taken for a published one.
LookupConnected(w) ==
  /\ pc[w] = "lookup"
  /\ Verdict(w, "COMPLETED", "completed")
  /\ UNCHANGED <<db, ext, svc>>

\* dnsContains.
Lookup(w) ==
  /\ pc[w] = "lookup"
  /\ \/ /\ Input[dep[w]].addr \in zone
        /\ Verdict(w, "COMPLETED", "completed")
     \/ /\ Input[dep[w]].addr \notin zone
        /\ Verdict(w, "DNS_FAILED", "add_dns")
     \/ APIFaults /\ Verdict(w, "MANUAL_REVIEW", loc[w].cur.step)
  /\ UNCHANGED <<db, ext, svc>>

WriteVerdict(w) ==
  /\ pc[w] = "verdict"
  /\ UNCHANGED steps
  /\ \/ /\ SetRow(dep[w], loc[w].out.status, loc[w].out.step)
        /\ EndRecheck(w, TRUE)
     \/ /\ DBFaults
        /\ SetRow(dep[w], loc[w].out.status, loc[w].out.step) \/ row' = row
        /\ EndRecheck(w, FALSE)
  /\ UNCHANGED <<ext, svc>>

-----------------------------------------------------------------------------
(* The process crashes; on restart recovery runs before Telegram does. *)

\* Mutant: recovery takes up only the deployments that have a Node.
CrashForgetting ==
  /\ Crashes
  /\ todo' = {d \in Unfinished(row) : row[d].uuid # NoId}
  /\ Abandon({dep[w] : w \in {v \in Workers : InFlight(v)}})
  /\ running' = [d \in Deployments |-> NoWorker]
  /\ slots' = {}
  /\ tickets' = {}
  /\ pc' = [w \in Workers |-> "idle"]
  /\ dep' = [w \in Workers |-> NoDep]
  /\ ctx' = [w \in Workers |-> FALSE]
  /\ loc' = [w \in Workers |-> Blank]
  /\ UNCHANGED <<db, nodes, zone, provisioned>>

Crash ==
  /\ Crashes
  /\ todo' = Unfinished(row)
  /\ Abandon({dep[w] : w \in {v \in Workers : InFlight(v)}})
  /\ running' = [d \in Deployments |-> NoWorker]
  /\ slots' = {}
  /\ tickets' = {}
  /\ pc' = [w \in Workers |-> "idle"]
  /\ dep' = [w \in Workers |-> NoDep]
  /\ ctx' = [w \in Workers |-> FALSE]
  /\ loc' = [w \in Workers |-> Blank]
  /\ UNCHANGED <<db, nodes, zone, provisioned>>

-----------------------------------------------------------------------------

Init ==
  /\ row = [d \in Deployments |-> NoRow]
  /\ steps = [d \in Deployments |-> [s \in StepNames |-> "NONE"]]
  /\ nodes = [n \in NodeIds |-> NoNode]
  /\ late = {} /\ zone = {} /\ provisioned = {}
  /\ running = [d \in Deployments |-> NoWorker]
  /\ slots = {} /\ tickets = {} /\ todo = {}
  /\ pc = [w \in Workers |-> "idle"]
  /\ dep = [w \in Workers |-> NoDep]
  /\ ctx = [w \in Workers |-> FALSE]
  /\ loc = [w \in Workers |-> Blank]

\* A new command of an operator.
Command(w) ==
  \E d \in Deployments :
    \/ StartPrepare(w, d)
    \/ StartDeploy(w, d)
    \/ StartRetryDNS(w, d)
    \/ StartRetryStep(w, d)
    \/ StartCancel(w, d)
    \/ StartRecheck(w, d)

\* A step of a registered run.
RunStep(w) ==
  \/ Acquire(w) \/ Load(w) \/ CheckHost(w) \/ Admit(w)
  \/ BeginStage(w) \/ RecordRunning(w)
  \/ Preflight(w) \/ PrepareCertificate(w) \/ Provision(w)
  \/ ListNodes(w) \/ PostNode(w) \/ NodeCreated(w) \/ PersistNode(w)
  \/ PollNode(w) \/ CheckHealthy(w) \/ AddIP(w) \/ SkipDNS(w)
  \/ CompleteStage(w) \/ Reload(w) \/ Finish(w)
  \/ FailRecord(w) \/ FailState(w)
  \/ Abort(w) \/ ReleaseSlot(w) \/ Unregister(w)

\* A step of an operation that is not (yet) registered.
DetachedStep(w) ==
  \/ CreateDeployment(w) \/ BeginExecution(w) \/ RetrySet(w)
  \/ CancelLoad(w) \/ CancelSet(w)
  \/ Inspect(w) \/ AdoptNode(w) \/ Probe(w) \/ SkipRecord(w) \/ Lookup(w)
  \/ WriteVerdict(w)
  \/ \E d \in Deployments : StartRecover(w, d)

Panel ==
  \/ \E w \in Workers : PanelCreates(w)
  \/ \E d \in Deployments : PanelCreatesLate(d)

Next ==
  \/ \E w \in Workers : Command(w) \/ RunStep(w) \/ DetachedStep(w)
  \/ Panel
  \/ Crash

Spec == Init /\ [][Next]_vars

\* The Go scheduler runs every goroutine, every call returns or times out, the
\* panel answers; waiters of the semaphore channel are served in FIFO order.
Fairness ==
  \A w \in Workers :
    /\ WF_vars(RunStep(w))
    /\ WF_vars(DetachedStep(w))
    /\ WF_vars(PanelCreates(w))
    /\ SF_vars(Acquire(w))

FairSpec == Spec /\ Fairness

-----------------------------------------------------------------------------
(* Properties. *)

\* Type invariant of the tables, the external systems and the goroutines that
\* service.go, recovery/service.go and postgres.go read and write.
TypeOK ==
  /\ row \in [Deployments -> Rows]
  /\ steps \in [Deployments -> [StepNames -> StepStatuses]]
  /\ nodes \in [NodeIds -> [name : Names, addr : Addrs] \cup {NoNode}]
  /\ late \subseteq Deployments
  /\ zone \subseteq Addrs
  /\ provisioned \subseteq Deployments
  /\ running \in [Deployments -> Workers \cup {NoWorker}]
  /\ slots \subseteq Workers
  /\ tickets \subseteq Deployments
  /\ todo \subseteq Deployments
  /\ pc \in [Workers -> Labels]
  /\ dep \in [Workers -> Deployments \cup {NoDep}]
  /\ ctx \in [Workers -> BOOLEAN]
  /\ loc \in [Workers -> Locals]

\* beginExecution keeps the runs of one deployment apart, whatever mix of
\* Deploy, RetryDNS, RetryFailedStep, Cancel and restarts leads to them.
ExclusiveRuns ==
  \A v, w \in Workers :
    pc[v] \in Registered /\ pc[w] \in Registered /\ dep[v] = dep[w] => v = w

\* The semaphore counts exactly the runs between acquire and releaseSlot (no
\* early return, cancellation or crash leaks a slot) and its capacity holds.
SlotAccounting ==
  /\ slots = {w \in Workers : pc[w] \in Holding}
  /\ Cardinality(slots) <= MaxConcurrent

\* However often CreateNode's reply is lost, the run is cancelled, the process
\* restarts or the step is retried, the panel has at most one Node with the
\* name and address of a deployment (recoverableNode, inspectExternalState).
NodeOnce ==
  \A d \in Deployments : \A m, n \in Exact(d) : m = n

\* The UUID in a row names a Node of the panel with the deployment's own name
\* and address, whoever wrote it: createNode or the recovery service.
OwnNode ==
  \A d \in Deployments : row[d].uuid # NoId => row[d].uuid \in Exact(d)

\* COMPLETED is written only when the work is done, by whichever of the runner
\* and the recheck writes it: the Node exists and is recorded, and the address
\* is in the zone unless the panel has no DNS balancing.
CompletedSound ==
  \A d \in Deployments :
    row[d].status = "COMPLETED" =>
      /\ row[d].uuid # NoId
      /\ row[d].uuid \in Existing
      /\ DNSDisabled \/ Input[d].addr \in zone

\* The safe log never claims an effect that did not happen: a step recorded
\* COMPLETED has provisioned the VPS, recorded the Node, published the address.
StepTruth ==
  \A d \in Deployments :
    /\ steps[d]["provisioning"] = "COMPLETED" => d \in provisioned
    /\ steps[d]["create_remnawave_node"] = "COMPLETED" => row[d].uuid # NoId
    /\ steps[d]["add_dns"] = "COMPLETED" => Input[d].addr \in zone

\* README: "Remnawave Node creation is gated on successful provisioning".
ProvisionedFirst ==
  \A d \in Deployments : Exact(d) # {} => d \in provisioned

\* No deployment is forgotten: an unfinished one has a worker, a Telegram
\* session that may start it, or its turn in the startup recovery; only
\* WAITING_REMNAWAVE is left to an operator's recheck.
NoOrphan ==
  \A d \in Unfinished(row) :
    \/ row[d].status = "WAITING_REMNAWAVE"
    \/ d \in tickets \cup todo
    \/ \E w \in Workers : dep[w] = d

\* HANDOFF: "Duplicate Node name/IP protection": no two Nodes of the panel
\* share a name or an address.
NoDuplicateNodes ==
  \A m, n \in Existing :
    nodes[m].name = nodes[n].name \/ nodes[m].addr = nodes[n].addr => m = n

\* Completed deployments are a no-op: nothing moves a row out of COMPLETED.
CompletedFinal ==
  [][\A d \in Deployments :
       row[d].status = "COMPLETED" => row'[d].status = "COMPLETED"]_vars

\* Cancel marks the deployment cancelled: without a retry or a recheck no run
\* takes it up again.
CancelledFinal ==
  [][\A d \in Deployments :
       row[d].status = "CANCELLED" => row'[d].status = "CANCELLED"]_vars

\* Every operation ends, with its slot and its registration released: a poll
\* times out, a cancelled run leaves, a run waiting for a slot gets one.
RunsEnd ==
  \A w \in Workers : pc[w] # "idle" ~> pc[w] = "idle"

\* After a restart the recovery classifies every unfinished deployment and
\* the bot takes commands again, unless the process crashes again and again.
RecoveryEnds == []<>(todo = {}) \/ []<><<Crash>>_vars

\* The outside effects of every behaviour are those DeploymentLifecycle allows.
Lifecycle ==
  INSTANCE DeploymentLifecycle WITH
    made      <- [d \in Deployments |-> Exact(d)],
    recorded  <- [d \in Deployments |-> row[d].uuid],
    published <- {d \in Deployments : Input[d].addr \in zone},
    complete  <- {d \in Deployments : row[d].status = "COMPLETED"}

\* DeploymentWorkflow implements DeploymentLifecycle: one Node per deployment,
\* recorded once, published after it is recorded, complete after it is
\* published, under every interleaving of runs, rechecks, cancels and crashes.
ImplementsLifecycle == Lifecycle!Spec
=============================================================================
