------------------------ MODULE DeploymentRuns_proofs ------------------------
(***************************************************************************)
(* Type correctness of DeploymentWorkflow, and the runs of a deployment:   *)
(* they exclude each other and the semaphore is accounted for.             *)
(*                                                                         *)
(* TypeOK is not inductive: the writes go to the row of dep[w] and         *)
(* beginStage looks its status up by loc[w].stage, so TypeInv adds that a  *)
(* worker that is not idle has a deployment and that a stage about to      *)
(* begin is one of Stages.                                                 *)
(*                                                                         *)
(* ExclusiveRuns is not inductive either: nothing in it keeps a second run *)
(* from registering.  RunInv ties it to the map beginExecution tests, in   *)
(* both directions (every registered run is the one running[] has for its  *)
(* deployment), and says that only registered runs are cancelled, without  *)
(* which an unregistered worker could release a slot.  All other actions   *)
(* are reduced to two shapes, a run that stays between acquire and         *)
(* releaseSlot and a worker that stays unregistered.                       *)
(***************************************************************************)
EXTENDS DeploymentWorkflow, FiniteSetTheorems, TLAPS

(***************************************************************************)
(* Types.                                                                  *)
(***************************************************************************)

\* Labels from which beginStage writes.
Beginning == {"setState", "advance", "record", "advanceRecord"}

DbOK ==
  /\ row \in [Deployments -> Rows]
  /\ steps \in [Deployments -> [StepNames -> StepStatuses]]

ExtOK ==
  /\ nodes \in [NodeIds -> [name : Names, addr : Addrs] \cup {NoNode}]
  /\ late \subseteq Deployments
  /\ zone \subseteq Addrs
  /\ provisioned \subseteq Deployments

SvcOK ==
  /\ running \in [Deployments -> Workers \cup {NoWorker}]
  /\ slots \subseteq Workers

CtlOK ==
  /\ tickets \subseteq Deployments
  /\ todo \subseteq Deployments

\* A worker that is not idle has a deployment, and a stage to begin names one.
ProcOK ==
  /\ pc \in [Workers -> Labels]
  /\ dep \in [Workers -> Deployments \cup {NoDep}]
  /\ ctx \in [Workers -> BOOLEAN]
  /\ loc \in [Workers -> Locals]
  /\ \A w \in Workers : pc[w] # "idle" => dep[w] \in Deployments
  /\ \A w \in Workers : pc[w] \in Beginning => loc[w].stage \in Stages

TypeInv == DbOK /\ ExtOK /\ SvcOK /\ CtlOK /\ ProcOK

-----------------------------------------------------------------------------

\* Moving on to a label (Goes) keeps the goroutines well typed.
LEMMA GoesOK ==
  ASSUME ProcOK, NEW w \in Workers, NEW l \in Labels, NEW locals \in Locals,
         pc[w] # "idle", l # "idle", l \in Beginning => locals.stage \in Stages,
         Goes(w, l, locals)
  PROVE  ProcOK'
  BY DEF ProcOK, Goes, Goto, Set, Keep, Labels, Registered, Holding, Beginning

\* So does returning from a run.
LEMMA StopOK ==
  ASSUME ProcOK, NEW w \in Workers, pc[w] # "idle", Stop(w)
  PROVE  ProcOK'
  BY DEF ProcOK, Stop, Labels, Registered, Holding, Beginning

\* The empty locals, row and outcome are well typed.
LEMMA BlankOK == Blank \in Locals /\ NoRow \in Rows /\ NoOut \in Outs
  BY DEF Blank, Locals, Ops, StepNames, NoRow, Rows, Statuses, NoOut, Outs

\* A goroutine that ends stays well typed.
LEMMA ResetOK ==
  ASSUME ProcOK, NEW w \in Workers, Reset(w)
  PROVE  ProcOK'
  BY BlankOK DEF ProcOK, Reset, Labels, Beginning

\* UpdateDeploymentState keeps the tables well typed.
LEMMA SetRowOK ==
  ASSUME DbOK, NEW d \in Deployments, NEW status \in Statuses, NEW step \in StepNames,
         SetRow(d, status, step), steps' = steps
  PROVE  DbOK'
  BY DEF DbOK, SetRow, Rows

\* So does RecordDeploymentStep.
LEMMA RecordStepOK ==
  ASSUME DbOK, NEW d \in Deployments, NEW step \in StepNames, NEW status \in StepStatuses,
         RecordStep(d, step, status)
  PROVE  DbOK'
  BY DEF DbOK, RecordStep, Rows

\* A command that starts is well typed.
LEMMA StartOK ==
  ASSUME ProcOK, NEW w \in Workers, NEW d \in Deployments, NEW l \in Labels,
         NEW locals \in Locals, l \notin Beginning, Start(w, d, l, locals)
  PROVE  ProcOK'
  BY DEF ProcOK, Start, Set

\* A stage that has begun continues at a label that does not begin one.
LEMMA StageBodyOK ==
  ASSUME NEW stage, NEW current
  PROVE  StageBody(stage, current) \in Labels \ (Beginning \cup {"idle"})
  BY DEF StageBody, Labels, Registered, Holding, Working, Beginning

\* Deploy enters createNode, waitForHealthyNode or addDNS well typed.
LEMMA EnterStageOK ==
  ASSUME ProcOK, NEW w \in Workers, NEW current \in Rows, NEW ahead,
         pc[w] # "idle", EnterStage(w, current, ahead)
  PROVE  ProcOK'
<1> DEFINE stage == NextStage(current, ahead)
           into  == [loc[w] EXCEPT !.stage = stage, !.cur = current]
<1>1. stage \in StepNames /\ (stage # "none" => stage \in Stages)
  BY DEF NextStage, StepNames, Stages
<1>2. loc[w] \in Locals
  BY DEF ProcOK
<1>3. into \in Locals /\ into.stage = stage
  BY <1>1, <1>2 DEF Locals
<1> HIDE DEF stage
<1>4. CASE Stop(w)
  BY <1>4, StopOK
<1>5. CASE /\ stage = "wait_remnawave"
           /\ Goes(w, "failRecord",
                [into EXCEPT !.out = [status |-> "FAILED", step |-> stage]])
  <2>1. [into EXCEPT !.out = [status |-> "FAILED", step |-> stage]] \in Locals
    BY <1>1, <1>3 DEF Locals, Outs, Statuses, Terminal
  <2>2. "failRecord" \in Labels /\ "failRecord" \notin Beginning
    BY DEF Labels, Registered, Holding, Working, Beginning
  <2> QED BY <1>5, <2>1, <2>2, GoesOK
<1>6. CASE /\ stage # "none"
           /\ Goes(w, IF current.status = StatusOf[stage]
                        THEN StageBody(stage, current) ELSE "setState", into)
  <2> DEFINE l == IF current.status = StatusOf[stage]
                    THEN StageBody(stage, current) ELSE "setState"
  <2>1. l \in Labels /\ l # "idle"
    BY StageBodyOK DEF Labels, Registered, Holding, Working
  <2>2. l \in Beginning => into.stage \in Stages
    BY <1>1, <1>3, <1>6
  <2> QED BY <1>3, <1>6, <2>1, <2>2, GoesOK
<1> QED BY <1>4, <1>5, <1>6 DEF EnterStage, stage

-----------------------------------------------------------------------------
(* Typing of the commands. *)

\* Every command and the startup recovery preserve TypeInv.
LEMMA CommandType ==
  ASSUME TypeInv, NEW w \in Workers, NEW d \in Deployments,
         \/ StartPrepare(w, d) \/ StartDeploy(w, d) \/ StartRetryDNS(w, d)
         \/ StartRetryStep(w, d) \/ StartCancel(w, d) \/ StartRecheck(w, d)
         \/ StartRecover(w, d)
  PROVE  TypeInv'
<1> USE DEF TypeInv
<1>1. ASSUME StartPrepare(w, d) PROVE TypeInv'
  <2>1. [Blank EXCEPT !.op = "prepare"] \in Locals
    BY BlankOK DEF Locals, Ops
  <2>2. "insert" \in Labels \ Beginning
    BY DEF Labels, Detached, Beginning
  <2>3. ProcOK'
    BY <1>1, <2>1, <2>2, StartOK DEF StartPrepare
  <2> QED BY <1>1, <2>3 DEF StartPrepare, DbOK, ExtOK, SvcOK, CtlOK, db, ext, svc, ctl
<1>2. ASSUME StartDeploy(w, d) PROVE TypeInv'
  <2>1. [Blank EXCEPT !.op = "deploy"] \in Locals
    BY BlankOK DEF Locals, Ops
  <2>2. "begin" \in Labels \ Beginning
    BY DEF Labels, Detached, Beginning
  <2>3. ProcOK'
    BY <1>2, <2>1, <2>2, StartOK DEF StartDeploy
  <2> QED BY <1>2, <2>3 DEF StartDeploy, DbOK, ExtOK, SvcOK, CtlOK, db, ext, svc
<1>3. ASSUME StartRetryDNS(w, d) PROVE TypeInv'
  <2>1. [Blank EXCEPT !.op = "retry_dns"] \in Locals
    BY BlankOK DEF Locals, Ops
  <2>2. "begin" \in Labels \ Beginning
    BY DEF Labels, Detached, Beginning
  <2>3. ProcOK'
    BY <1>3, <2>1, <2>2, StartOK DEF StartRetryDNS
  <2> QED BY <1>3, <2>3 DEF StartRetryDNS, DbOK, ExtOK, SvcOK, CtlOK, db, ext, svc, ctl
<1>4. ASSUME StartRetryStep(w, d) PROVE TypeInv'
  <2> DEFINE op  == IF row[d].step = "add_dns" THEN "retry_dns" ELSE "deploy"
             out == [status |-> ResumeOf[row[d].step], step |-> row[d].step]
  <2>1. out \in Outs
    BY <1>4 DEF StartRetryStep, DbOK, Rows, Outs, ResumeOf, Statuses, Terminal
  <2>2. op \in Ops
    BY DEF Ops
  <2>3. [Blank EXCEPT !.op = op, !.out = out] \in Locals
    BY <2>1, <2>2, BlankOK DEF Locals
  <2>4. "retrySet" \in Labels \ Beginning
    BY DEF Labels, Detached, Beginning
  <2>5. ProcOK'
    BY <1>4, <2>3, <2>4, StartOK DEF StartRetryStep
  <2> QED BY <1>4, <2>5 DEF StartRetryStep, DbOK, ExtOK, SvcOK, CtlOK, db, ext, svc, ctl
<1>5. ASSUME StartCancel(w, d) PROVE TypeInv'
  <2>1. [Blank EXCEPT !.op = "cancel"] \in Locals
    BY BlankOK DEF Locals, Ops
  <2>2. "cancelLoad" \in Labels \ Beginning
    BY DEF Labels, Detached, Beginning
  <2>3. ProcOK'
    BY <1>5, <2>1, <2>2 DEF StartCancel, ProcOK, Set
  <2> QED BY <1>5, <2>3 DEF StartCancel, DbOK, ExtOK, SvcOK, CtlOK, db, ext, svc
<1>6. ASSUME NEW op \in Ops, Classify(w, d, op) PROVE TypeInv'
  <2> DEFINE current == row[d]
             into    == [Blank EXCEPT !.op = op, !.cur = current]
             verdict == [into EXCEPT !.out =
                           [status |-> "MANUAL_REVIEW", step |-> current.step]]
  <2>1. current \in Rows
    BY DEF DbOK
  <2>2. into \in Locals
    BY <2>1, BlankOK DEF Locals
  <2>3. [status |-> "MANUAL_REVIEW", step |-> current.step] \in Outs
    BY <2>1 DEF Outs, Rows, Statuses, Terminal
  <2>4. verdict \in Locals
    BY <2>2, <2>3 DEF Locals
  <2> HIDE DEF verdict, into
  <2>5. loc' = [loc EXCEPT ![w] = IF Inspected(current) THEN into ELSE verdict]
    BY <1>6 DEF Classify, Set, into, verdict
  <2>6. /\ pc' = [pc EXCEPT ![w] = pc'[w]]
        /\ pc'[w] \in {"inspect", "probe", "verdict"}
    BY <1>6 DEF Classify, ProcOK
  <2>7. ProcOK'
    BY <1>6, <2>2, <2>4, <2>5, <2>6 DEF Classify, ProcOK, Labels, Detached, Beginning
  <2> QED BY <1>6, <2>7 DEF Classify, DbOK, ExtOK, SvcOK, CtlOK, db, ext, svc, ctl
<1> QED BY <1>1, <1>2, <1>3, <1>4, <1>5, <1>6 DEF StartRecheck, StartRecover, Ops

-----------------------------------------------------------------------------
(* Typing of the operations that are not registered. *)

\* The end of a recheck is well typed.
LEMMA EndRecheckOK ==
  ASSUME ProcOK, CtlOK, NEW w \in Workers, NEW ok, EndRecheck(w, ok)
  PROVE  ProcOK' /\ CtlOK'
  BY ResetOK DEF EndRecheck, CtlOK, Unfinished

\* So is the choice of its verdict.
LEMMA VerdictOK ==
  ASSUME ProcOK, CtlOK, NEW w \in Workers, pc[w] # "idle",
         NEW status \in Statuses, NEW step \in StepNames, Verdict(w, status, step)
  PROVE  ProcOK' /\ CtlOK'
<1>1. [loc[w] EXCEPT !.out = [status |-> status, step |-> step]] \in Locals
  BY DEF ProcOK, Locals, Outs
<1>2. "verdict" \in Labels \ (Beginning \cup {"idle"})
  BY DEF Labels, Detached, Beginning
<1> QED BY <1>1, <1>2, GoesOK DEF Verdict, CtlOK, ctl

\* The steps of Prepare, RetryFailedStep, Cancel and the recheck before or
\* without a registration preserve TypeInv.
LEMMA DetachedType ==
  ASSUME TypeInv, NEW w \in Workers, DetachedStep(w)
  PROVE  TypeInv'
<1> USE DEF TypeInv
<1>0. /\ loc[w] \in Locals
      /\ loc[w].cur.step \in StepNames /\ loc[w].node \in NodeIds \cup {NoId}
      /\ loc[w].out.status \in Statuses /\ loc[w].out.step \in StepNames
  BY DEF ProcOK, Locals, Rows, Outs
<1>1. ASSUME CreateDeployment(w) PROVE TypeInv'
  <2>1. dep[w] \in Deployments
    BY <1>1 DEF CreateDeployment, ProcOK
  <2>2. DbOK'
    <3>1. [status |-> "CREATED", step |-> "created", uuid |-> NoId] \in Rows
      BY DEF Rows, Statuses, StepNames
    <3>2. CASE InsertRow(dep[w]) /\ steps' = steps
      BY <2>1, <3>1, <3>2 DEF InsertRow, DbOK
    <3>3. CASE row' = row /\ steps' = steps
      BY <3>3 DEF DbOK
    <3> QED BY <1>1, <3>2, <3>3 DEF CreateDeployment
  <2>3. ProcOK'
    <3>1. CASE Reset(w)
      BY <3>1, ResetOK
    <3>2. CASE pc' = [pc EXCEPT ![w] = "begin"] /\ UNCHANGED <<dep, ctx, loc>>
      BY <2>1, <3>2 DEF ProcOK, Labels, Detached, Beginning
    <3> QED BY <1>1, <3>1, <3>2 DEF CreateDeployment
  <2> QED BY <1>1, <2>2, <2>3 DEF CreateDeployment, ExtOK, SvcOK, CtlOK, ext, svc, ctl
<1>2. ASSUME BeginExecution(w) PROVE TypeInv'
  <2>1. dep[w] \in Deployments
    BY <1>2 DEF BeginExecution, ProcOK
  <2>2. [loc[w] EXCEPT !.out = NoOut, !.cur = NoRow] \in Locals
    BY <1>0, BlankOK DEF Locals
  <2>3. SvcOK'
    BY <1>2, <2>1 DEF BeginExecution, SvcOK
  <2>4. ProcOK'
    <3>1. CASE Reset(w)
      BY <3>1, ResetOK
    <3>2. CASE /\ pc' = [pc EXCEPT ![w] = "slot"]
               /\ Set(w, [loc[w] EXCEPT !.out = NoOut, !.cur = NoRow])
               /\ Keep
      BY <2>1, <2>2, <3>2 DEF ProcOK, Set, Keep, Labels, Registered, Beginning
    <3> QED BY <1>2, <3>1, <3>2 DEF BeginExecution
  <2> QED BY <1>2, <2>3, <2>4 DEF BeginExecution, DbOK, ExtOK, CtlOK, db, ext, ctl
<1>3. ASSUME RetrySet(w) PROVE TypeInv'
  <2>1. dep[w] \in Deployments /\ pc[w] # "idle"
    BY <1>3 DEF RetrySet, ProcOK
  <2>2. DbOK'
    BY <1>0, <1>3, <2>1, SetRowOK DEF RetrySet, DbOK
  <2>3. "begin" \in Labels \ (Beginning \cup {"idle"})
    BY DEF Labels, Detached, Beginning
  <2>4. ProcOK'
    BY <1>0, <1>3, <2>1, <2>3, GoesOK, ResetOK DEF RetrySet
  <2> QED BY <1>3, <2>2, <2>4 DEF RetrySet, ExtOK, SvcOK, CtlOK, ext, svc, ctl
<1>4. ASSUME CancelLoad(w) PROVE TypeInv'
  <2>1. pc[w] # "idle"
    BY <1>4 DEF CancelLoad
  <2>2. "cancelSet" \in Labels \ (Beginning \cup {"idle"})
    BY DEF Labels, Detached, Beginning
  <2>3. ProcOK'
    BY <1>0, <1>4, <2>1, <2>2, GoesOK, ResetOK DEF CancelLoad
  <2> QED BY <1>4, <2>3 DEF CancelLoad, DbOK, ExtOK, SvcOK, CtlOK, db, ext, svc, ctl
<1>5. ASSUME CancelSet(w) PROVE TypeInv'
  <2>1. dep[w] \in Deployments
    BY <1>5 DEF CancelSet, ProcOK
  <2>2. "CANCELLED" \in Statuses /\ "cancelled" \in StepNames
    BY DEF Statuses, Terminal, StepNames
  <2>3. DbOK'
    BY <1>5, <2>1, <2>2, SetRowOK DEF CancelSet, DbOK
  <2>4. ProcOK'
    BY <1>5, ResetOK DEF CancelSet
  <2> QED BY <1>5, <2>3, <2>4 DEF CancelSet, ExtOK, SvcOK, CtlOK, ext, svc, ctl
<1>6. ASSUME Inspect(w) PROVE TypeInv'
  <2>1. pc[w] # "idle" /\ "MANUAL_REVIEW" \in Statuses
    BY <1>6 DEF Inspect, Statuses, Terminal
  <2>2. ASSUME NEW n \in NodeIds, Goes(w, "adopt", [loc[w] EXCEPT !.node = n])
        PROVE  ProcOK'
    <3>1. [loc[w] EXCEPT !.node = n] \in Locals
      BY <1>0 DEF Locals
    <3>2. "adopt" \in Labels \ (Beginning \cup {"idle"})
      BY DEF Labels, Detached, Beginning
    <3> QED BY <2>1, <2>2, <3>1, <3>2, GoesOK
  <2>3. ProcOK' /\ CtlOK'
    BY <1>0, <1>6, <2>1, <2>2, VerdictOK DEF Inspect, Exact, Existing, CtlOK, ctl
  <2> QED BY <1>6, <2>3 DEF Inspect, DbOK, ExtOK, SvcOK, db, ext, svc
<1>7. ASSUME AdoptNode(w) PROVE TypeInv'
  <2> DEFINE current == [row[dep[w]] EXCEPT !.uuid = loc[w].node]
             locals  == [loc[w] EXCEPT !.cur = current, !.node = NoId]
             write   == row' = [row EXCEPT ![dep[w]].uuid = loc[w].node] /\ UNCHANGED steps
  <2>1. dep[w] \in Deployments /\ pc[w] # "idle"
    BY <1>7 DEF AdoptNode, ProcOK
  <2>2. current \in Rows
    BY <1>0, <2>1 DEF DbOK, Rows
  <2>3. locals \in Locals
    BY <1>0, <2>2 DEF Locals
  <2>4. "probe" \in Labels \ (Beginning \cup {"idle"})
    BY DEF Labels, Detached, Beginning
  <2>5. DbOK'
    <3>1. CASE write
      BY <1>0, <2>1, <3>1 DEF DbOK, Rows
    <3>2. CASE UNCHANGED db
      BY <3>2 DEF DbOK, db
    <3> QED BY <1>7, <3>1, <3>2 DEF AdoptNode, Rechecks
  <2> HIDE DEF locals
  <2>6. ProcOK' /\ CtlOK'
    <3>1. CASE Goes(w, "probe", locals) /\ UNCHANGED ctl
      BY <2>1, <2>3, <2>4, <3>1, GoesOK DEF CtlOK, ctl
    <3>2. CASE EndRecheck(w, FALSE)
      BY <3>2, EndRecheckOK
    <3> QED BY <1>7, <3>1, <3>2 DEF AdoptNode, Rechecks, locals
  <2> QED BY <1>7, <2>5, <2>6 DEF AdoptNode, ExtOK, SvcOK, ext, svc
<1>8. ASSUME Probe(w) PROVE TypeInv'
  <2>1. /\ pc[w] # "idle"
        /\ {"MANUAL_REVIEW", "WAITING_REMNAWAVE"} \subseteq Statuses
        /\ "wait_remnawave" \in StepNames
    BY <1>8 DEF Probe, Statuses, Terminal, StepNames, Stages
  <2>2. {"skipRecord", "lookup"} \subseteq Labels \ (Beginning \cup {"idle"})
    BY DEF Labels, Detached, Beginning
  <2>3. CASE Goes(w, IF DNSDisabled THEN "skipRecord" ELSE "lookup", loc[w]) /\ UNCHANGED ctl
    <3>1. PICK l \in {"skipRecord", "lookup"} : Goes(w, l, loc[w])
      BY <2>3
    <3>2. ProcOK'
      BY <1>0, <2>1, <2>2, <3>1, GoesOK
    <3> QED BY <1>8, <2>3, <3>2 DEF Probe, DbOK, ExtOK, SvcOK, CtlOK, db, ext, svc, ctl
  <2>4. CASE \/ Verdict(w, "WAITING_REMNAWAVE", "wait_remnawave")
             \/ Verdict(w, "MANUAL_REVIEW", loc[w].cur.step)
    <3>1. ProcOK' /\ CtlOK'
      BY <1>0, <2>1, <2>4, VerdictOK
    <3> QED BY <1>8, <3>1 DEF Probe, DbOK, ExtOK, SvcOK, db, ext, svc
  <2> QED BY <1>8, <2>3, <2>4 DEF Probe
<1>9. ASSUME SkipRecord(w) PROVE TypeInv'
  <2>1. /\ dep[w] \in Deployments /\ pc[w] # "idle"
        /\ "COMPLETED" \in Statuses /\ {"add_dns", "completed"} \subseteq StepNames
        /\ "SKIPPED" \in StepStatuses
    BY <1>9 DEF SkipRecord, ProcOK, Statuses, Terminal, StepNames, Stages, StepStatuses
  <2>2. DbOK'
    BY <1>9, <2>1, RecordStepOK DEF SkipRecord, DbOK, db
  <2>3. ProcOK' /\ CtlOK'
    BY <1>9, <2>1, VerdictOK DEF SkipRecord
  <2> QED BY <1>9, <2>2, <2>3 DEF SkipRecord, ExtOK, SvcOK, ext, svc
<1>10. ASSUME Lookup(w) PROVE TypeInv'
  <2>1. /\ pc[w] # "idle"
        /\ {"MANUAL_REVIEW", "COMPLETED", "DNS_FAILED"} \subseteq Statuses
        /\ {"completed", "add_dns"} \subseteq StepNames
    BY <1>10 DEF Lookup, Statuses, Terminal, StepNames, Stages
  <2>2. ProcOK' /\ CtlOK'
    BY <1>0, <1>10, <2>1, VerdictOK DEF Lookup
  <2> QED BY <1>10, <2>2 DEF Lookup, DbOK, ExtOK, SvcOK, db, ext, svc
<1>11. ASSUME WriteVerdict(w) PROVE TypeInv'
  <2>1. dep[w] \in Deployments
    BY <1>11 DEF WriteVerdict, ProcOK
  <2>2. DbOK'
    BY <1>0, <1>11, <2>1, SetRowOK DEF WriteVerdict, DbOK
  <2>3. ProcOK' /\ CtlOK'
    BY <1>11, EndRecheckOK DEF WriteVerdict
  <2> QED BY <1>11, <2>2, <2>3 DEF WriteVerdict, ExtOK, SvcOK, ext, svc
<1> QED BY <1>1, <1>2, <1>3, <1>4, <1>5, <1>6, <1>7, <1>8, <1>9, <1>10, <1>11,
           CommandType DEF DetachedStep

-----------------------------------------------------------------------------
(* Typing of the registered runs. *)

\* Entering failStage is well typed.
LEMMA FailsOK ==
  ASSUME ProcOK, NEW w \in Workers, pc[w] # "idle",
         NEW status \in Statuses, NEW step \in StepNames, Fails(w, status, step)
  PROVE  ProcOK'
<1>1. [loc[w] EXCEPT !.out = [status |-> status, step |-> step]] \in Locals
  BY DEF ProcOK, Locals, Outs
<1>2. "failRecord" \in Labels \ (Beginning \cup {"idle"})
  BY DEF Labels, Registered, Holding, Working, Beginning
<1> QED BY <1>1, <1>2, GoesOK DEF Fails

\* Abandoned requests belong to deployments.
LEMMA AbandonOK ==
  ASSUME ExtOK, NEW abandoned \in SUBSET Deployments, Abandon(abandoned)
  PROVE  late' \subseteq Deployments
  BY DEF ExtOK, Abandon

\* Labels a run may go to, apart from those that begin a stage.
LEMMA RunLabels ==
  /\ {"host", "admit", "work", "list", "post", "posted", "persist", "publish",
      "skip", "complete", "reload", "finish", "failRecord", "failState",
      "releaseSlot", "load", "unregister", "slot"} \subseteq Labels \ (Beginning \cup {"idle"})
  /\ Beginning \subseteq Labels \ {"idle"}
  BY DEF Labels, Registered, Holding, Working, Beginning

\* Members of the sets of names the actions use.
LEMMA NamesOK ==
  /\ Stages \subseteq StepNames
  /\ {"created", "cancelled", "completed", "none"} \subseteq StepNames
  /\ {"FAILED", "DNS_FAILED", "COMPLETED", "ADDING_TO_DNS"} \subseteq Statuses
  /\ {"RUNNING", "COMPLETED", "FAILED", "SKIPPED"} \subseteq StepStatuses
  /\ {"preflight", "prepare_certificate", "provisioning", "create_remnawave_node",
      "wait_remnawave", "add_dns"} \subseteq Stages
  BY DEF StepNames, Stages, Statuses, Terminal, StepStatuses

\* acquire, the load of the row, selectedHost and checkUnique preserve TypeInv.
LEMMA AdmissionType ==
  ASSUME TypeInv, NEW w \in Workers,
         Acquire(w) \/ Load(w) \/ CheckHost(w) \/ Admit(w)
  PROVE  TypeInv'
<1> USE DEF TypeInv
<1>0. /\ loc[w] \in Locals
      /\ loc[w].cur \in Rows /\ loc[w].cur.step \in StepNames
  BY DEF ProcOK, Locals, Rows
<1>1. ASSUME Acquire(w) PROVE TypeInv'
  <2>1. SvcOK'
    BY <1>1 DEF Acquire, SvcOK, svc
  <2>2. [loc[w] EXCEPT !.stage = "preflight"] \in Locals
    BY <1>0, NamesOK DEF Locals
  <2>3. ProcOK'
    BY <1>0, <1>1, <2>2, GoesOK, RunLabels, NamesOK DEF Acquire, Admitted, Locals, Beginning
  <2> QED BY <1>1, <2>1, <2>3 DEF Acquire, DbOK, ExtOK, CtlOK, db, ext, ctl
<1>2. ASSUME Load(w) PROVE TypeInv'
  <2>1. pc[w] # "idle" /\ dep[w] \in Deployments /\ row[dep[w]] \in Rows
    BY <1>2 DEF Load, ProcOK, DbOK
  <2>2. [loc[w] EXCEPT !.cur = row[dep[w]]] \in Locals
    BY <1>0, <2>1 DEF Locals
  <2> DEFINE retry == [loc[w] EXCEPT !.stage = "add_dns",
                         !.cur = [row[dep[w]] EXCEPT !.status = "ADDING_TO_DNS"]]
  <2>3. [row[dep[w]] EXCEPT !.status = "ADDING_TO_DNS"] \in Rows
    BY <2>1, NamesOK DEF Rows
  <2>4. retry \in Locals /\ retry.stage \in Stages
    BY <1>0, <2>3, NamesOK DEF Locals
  <2> HIDE DEF retry
  <2>5. ProcOK'
    <3>1. CASE Goes(w, "host", [loc[w] EXCEPT !.cur = row[dep[w]]])
      BY <2>1, <2>2, <3>1, RunLabels, GoesOK
    <3>2. CASE Goes(w, "setState", retry)
      BY <2>1, <2>4, <3>2, RunLabels, GoesOK DEF Beginning
    <3>3. CASE Stop(w)
      BY <2>1, <3>3, StopOK
    <3> QED BY <1>2, <3>1, <3>2, <3>3 DEF Load, retry
  <2> QED BY <1>2, <2>5 DEF Load, DbOK, ExtOK, SvcOK, CtlOK, db, ext, svc, ctl
<1>3. ASSUME CheckHost(w) PROVE TypeInv'
  <2>1. ProcOK'
    BY <1>0, <1>3, GoesOK, FailsOK, RunLabels, NamesOK DEF CheckHost
  <2> QED BY <1>3, <2>1 DEF CheckHost, DbOK, ExtOK, SvcOK, CtlOK, db, ext, svc, ctl
<1>4. ASSUME Admit(w) PROVE TypeInv'
  <2> DEFINE locals == [loc[w] EXCEPT !.stage = "prepare_certificate"]
  <2>1. pc[w] # "idle"
    BY <1>4 DEF Admit
  <2>2. locals \in Locals /\ locals.stage \in Stages
    BY <1>0, NamesOK DEF Locals
  <2> HIDE DEF locals
  <2>3. ProcOK'
    <3>1. CASE Fails(w, "FAILED", loc[w].cur.step)
      BY <1>0, <2>1, <3>1, FailsOK, NamesOK
    <3>2. CASE \E l \in {"work", "setState"} : Goes(w, l, locals)
      BY <2>1, <2>2, <3>2, GoesOK, RunLabels DEF Beginning
    <3>3. CASE EnterStage(w, loc[w].cur, AllAhead)
      BY <1>0, <2>1, <3>3, EnterStageOK
    <3> QED BY <1>4, <3>1, <3>2, <3>3 DEF Admit, locals
  <2> QED BY <1>4, <2>3 DEF Admit, DbOK, ExtOK, SvcOK, CtlOK, db, ext, svc, ctl
<1> QED BY <1>1, <1>2, <1>3, <1>4

\* The repository writes of a run preserve TypeInv.
LEMMA StageType ==
  ASSUME TypeInv, NEW w \in Workers,
         \/ BeginStage(w) \/ RecordRunning(w) \/ CompleteStage(w) \/ Reload(w)
         \/ Finish(w) \/ FailRecord(w) \/ FailState(w) \/ SkipDNS(w) \/ PersistNode(w)
  PROVE  TypeInv'
<1> USE DEF TypeInv
<1>0. /\ loc[w] \in Locals
      /\ loc[w].cur \in Rows /\ loc[w].node \in NodeIds \cup {NoId}
      /\ loc[w].out.status \in Statuses /\ loc[w].out.step \in StepNames
      /\ loc[w].stage \in StepNames
  BY DEF ProcOK, Locals, Outs
<1>1. ASSUME BeginStage(w) PROVE TypeInv'
  <2>1. /\ dep[w] \in Deployments /\ pc[w] # "idle"
        /\ loc[w].stage \in Stages /\ loc[w].stage \in StepNames
    BY <1>1, NamesOK DEF BeginStage, ProcOK, Beginning
  <2>2. StatusOf[loc[w].stage] \in Statuses
    BY <2>1 DEF StatusOf, Stages, Statuses
  <2>3. DbOK'
    BY <1>1, <2>1, <2>2, SetRowOK DEF BeginStage, Persists, DbOK, db
  <2>4. ProcOK'
    BY <1>0, <1>1, <2>1, GoesOK, StopOK, RunLabels DEF BeginStage, Persists, Beginning
  <2> QED BY <1>1, <2>3, <2>4 DEF BeginStage, ExtOK, SvcOK, CtlOK, ext, svc, ctl
<1>2. ASSUME RecordRunning(w) PROVE TypeInv'
  <2>1. dep[w] \in Deployments /\ pc[w] # "idle" /\ loc[w].stage \in StepNames
    BY <1>2, NamesOK DEF RecordRunning, ProcOK, Beginning
  <2>2. DbOK'
    BY <1>2, <2>1, RecordStepOK, NamesOK DEF RecordRunning, Persists, DbOK, db
  <2> DEFINE l == IF pc[w] = "record" THEN StageBody(loc[w].stage, loc[w].cur) ELSE "reload"
  <2>3. l \in Labels \ (Beginning \cup {"idle"})
    BY StageBodyOK, RunLabels
  <2> HIDE DEF l
  <2>4. Goes(w, l, loc[w]) \/ Stop(w)
    BY <1>2 DEF RecordRunning, Persists, l
  <2>5. ProcOK'
    BY <1>0, <2>1, <2>3, <2>4, GoesOK, StopOK
  <2> QED BY <1>2, <2>2, <2>5 DEF RecordRunning, ExtOK, SvcOK, CtlOK, ext, svc, ctl
<1>3. ASSUME CompleteStage(w) PROVE TypeInv'
  <2> DEFINE next   == Following(loc[w].stage)
             locals == [loc[w] EXCEPT !.stage = next[2]]
  <2>1. dep[w] \in Deployments /\ pc[w] # "idle"
    BY <1>3 DEF CompleteStage, ProcOK
  <2>2. DbOK'
    BY <1>0, <1>3, <2>1, RecordStepOK, NamesOK DEF CompleteStage, Persists, DbOK, db
  <2>3. next[1] \in {"reload", "setState", "advance", "finish"} /\ next[2] \in Stages
    BY NamesOK DEF Following
  <2> HIDE DEF next
  <2>4. locals \in Locals /\ locals.stage \in Stages
    BY <1>0, <2>3, NamesOK DEF Locals
  <2> HIDE DEF locals
  <2>5. Goes(w, next[1], locals) \/ Stop(w)
    BY <1>3 DEF CompleteStage, Persists, next, locals
  <2>6. ProcOK'
    BY <2>1, <2>3, <2>4, <2>5, GoesOK, StopOK, RunLabels DEF Beginning
  <2> QED BY <1>3, <2>2, <2>6 DEF CompleteStage, ExtOK, SvcOK, CtlOK, ext, svc, ctl
<1>4. ASSUME Reload(w) PROVE TypeInv'
  <2>1. dep[w] \in Deployments /\ pc[w] # "idle" /\ row[dep[w]] \in Rows
    BY <1>4 DEF Reload, ProcOK, DbOK
  <2>2. [loc[w] EXCEPT !.op = IF ctx[w] THEN @ ELSE "prepared"] \in Locals
    BY <1>0 DEF Locals, Ops
  <2>3. ProcOK'
    <3>1. CASE Goes(w, "releaseSlot", [loc[w] EXCEPT !.op = IF ctx[w] THEN @ ELSE "prepared"])
      BY <2>1, <2>2, <3>1, GoesOK, RunLabels
    <3>2. CASE \E ahead : EnterStage(w, row[dep[w]], ahead)
      BY <2>1, <3>2, EnterStageOK
    <3>3. CASE Stop(w)
      BY <2>1, <3>3, StopOK
    <3> QED BY <1>4, <3>1, <3>2, <3>3 DEF Reload
  <2> QED BY <1>4, <2>3 DEF Reload, DbOK, ExtOK, SvcOK, CtlOK, db, ext, svc, ctl
<1>5. ASSUME Finish(w) PROVE TypeInv'
  <2>1. dep[w] \in Deployments /\ pc[w] # "idle"
    BY <1>5 DEF Finish, ProcOK
  <2>2. DbOK'
    BY <1>5, <2>1, SetRowOK, NamesOK DEF Finish, Persists, DbOK, db
  <2>3. ProcOK'
    BY <1>0, <1>5, <2>1, GoesOK, StopOK, RunLabels DEF Finish, Persists
  <2> QED BY <1>5, <2>2, <2>3 DEF Finish, ExtOK, SvcOK, CtlOK, ext, svc, ctl
<1>6. ASSUME FailRecord(w) PROVE TypeInv'
  <2>1. dep[w] \in Deployments /\ pc[w] # "idle"
    BY <1>6 DEF FailRecord, ProcOK
  <2>2. DbOK'
    BY <1>0, <1>6, <2>1, RecordStepOK, NamesOK DEF FailRecord, DbOK, db
  <2>3. ProcOK'
    BY <1>0, <1>6, <2>1, GoesOK, RunLabels DEF FailRecord
  <2> QED BY <1>6, <2>2, <2>3 DEF FailRecord, ExtOK, SvcOK, CtlOK, ext, svc, ctl
<1>7. ASSUME FailState(w) PROVE TypeInv'
  <2>1. dep[w] \in Deployments /\ pc[w] # "idle"
    BY <1>7 DEF FailState, ProcOK
  <2>2. DbOK'
    BY <1>0, <1>7, <2>1, SetRowOK DEF FailState, Persists, DbOK, db
  <2>3. ProcOK'
    BY <1>0, <1>7, <2>1, GoesOK, StopOK, RunLabels DEF FailState, Persists
  <2> QED BY <1>7, <2>2, <2>3 DEF FailState, ExtOK, SvcOK, CtlOK, ext, svc, ctl
<1>8. ASSUME SkipDNS(w) PROVE TypeInv'
  <2>1. dep[w] \in Deployments /\ pc[w] # "idle"
    BY <1>8 DEF SkipDNS, ProcOK
  <2>2. DbOK'
    BY <1>8, <2>1, RecordStepOK, NamesOK DEF SkipDNS, Persists, DbOK, db
  <2>3. ProcOK'
    BY <1>0, <1>8, <2>1, GoesOK, StopOK, RunLabels DEF SkipDNS, Persists
  <2> QED BY <1>8, <2>2, <2>3 DEF SkipDNS, ExtOK, SvcOK, CtlOK, ext, svc, ctl
<1>9. ASSUME PersistNode(w) PROVE TypeInv'
  <2> DEFINE locals == [loc[w] EXCEPT !.cur.uuid = loc[w].node, !.node = NoId]
  <2>1. dep[w] \in Deployments /\ pc[w] # "idle"
    BY <1>9 DEF PersistNode, ProcOK
  <2>2. [loc[w].cur EXCEPT !.uuid = loc[w].node] \in Rows
    BY <1>0 DEF Rows
  <2>3. locals \in Locals
    BY <1>0, <2>2 DEF Locals
  <2> HIDE DEF locals
  <2>4. DbOK'
    <3>1. CASE row' = [row EXCEPT ![dep[w]].uuid = loc[w].node] /\ steps' = steps
      BY <1>0, <2>1, <3>1 DEF DbOK, Rows
    <3>2. CASE UNCHANGED db
      BY <3>2 DEF DbOK, db
    <3> QED BY <1>9, <3>1, <3>2 DEF PersistNode, Persists
  <2>5. Goes(w, "complete", locals) \/ Stop(w)
    BY <1>9 DEF PersistNode, Persists, locals
  <2>6. ProcOK'
    BY <2>1, <2>3, <2>5, GoesOK, StopOK, RunLabels
  <2> QED BY <1>9, <2>4, <2>6 DEF PersistNode, ExtOK, SvcOK, CtlOK, ext, svc, ctl
<1> QED BY <1>1, <1>2, <1>3, <1>4, <1>5, <1>6, <1>7, <1>8, <1>9

\* The external calls and the deferred releases of a run preserve TypeInv.
LEMMA WorkType ==
  ASSUME TypeInv, NEW w \in Workers,
         \/ Preflight(w) \/ PrepareCertificate(w) \/ Provision(w) \/ ListNodes(w)
         \/ PostNode(w) \/ NodeCreated(w) \/ PollNode(w) \/ CheckHealthy(w) \/ AddIP(w)
         \/ Abort(w) \/ ReleaseSlot(w) \/ Unregister(w)
         \/ PanelCreates(w)
  PROVE  TypeInv'
<1> USE DEF TypeInv
<1>0. /\ loc[w] \in Locals
      /\ pc[w] # "idle" => dep[w] \in Deployments
  BY DEF ProcOK
<1>1. ASSUME Preflight(w) PROVE TypeInv'
  <2>1. ProcOK'
    BY <1>0, <1>1, GoesOK, FailsOK, RunLabels, NamesOK DEF Preflight
  <2> QED BY <1>1, <2>1 DEF Preflight, DbOK, ExtOK, SvcOK, CtlOK, db, ext, svc, ctl
<1>2. ASSUME PollNode(w) PROVE TypeInv'
  <2>1. ProcOK'
    BY <1>0, <1>2, GoesOK, FailsOK, RunLabels, NamesOK DEF PollNode
  <2> QED BY <1>2, <2>1 DEF PollNode, DbOK, ExtOK, SvcOK, CtlOK, db, ext, svc, ctl
<1>3. ASSUME CheckHealthy(w) PROVE TypeInv'
  <2>1. ProcOK'
    BY <1>0, <1>3, GoesOK, FailsOK, RunLabels, NamesOK DEF CheckHealthy
  <2> QED BY <1>3, <2>1 DEF CheckHealthy, DbOK, ExtOK, SvcOK, CtlOK, db, ext, svc, ctl
<1>4. ASSUME PostNode(w) PROVE TypeInv'
  <2>1. ProcOK'
    BY <1>0, <1>4, GoesOK, FailsOK, RunLabels, NamesOK DEF PostNode
  <2> QED BY <1>4, <2>1 DEF PostNode, DbOK, ExtOK, SvcOK, CtlOK, db, ext, svc, ctl
<1>5. ASSUME PrepareCertificate(w) PROVE TypeInv'
  <2>1. /\ [loc[w] EXCEPT !.stage = "provisioning"] \in Locals
        /\ [loc[w] EXCEPT !.stage = "provisioning"].stage \in Stages
    BY <1>0, NamesOK DEF Locals
  <2>2. ProcOK'
    BY <1>0, <1>5, <2>1, GoesOK, FailsOK, RunLabels, NamesOK
       DEF PrepareCertificate, Beginning
  <2> QED BY <1>5, <2>2 DEF PrepareCertificate, DbOK, ExtOK, SvcOK, CtlOK, db, ext, svc, ctl
<1>6. ASSUME Provision(w) PROVE TypeInv'
  <2>1. ProcOK'
    BY <1>0, <1>6, GoesOK, FailsOK, RunLabels, NamesOK DEF Provision
  <2> QED BY <1>0, <1>6, <2>1 DEF Provision, DbOK, ExtOK, SvcOK, CtlOK, db, svc, ctl
<1>7. ASSUME ListNodes(w) PROVE TypeInv'
  <2>1. ASSUME NEW n \in NodeIds PROVE [loc[w] EXCEPT !.node = n] \in Locals
    BY <1>0 DEF Locals
  <2>2. Exact(dep[w]) \subseteq NodeIds
    BY DEF Exact, Existing
  <2>3. ProcOK'
    BY <1>0, <1>7, <2>1, <2>2, GoesOK, FailsOK, RunLabels, NamesOK DEF ListNodes
  <2> QED BY <1>7, <2>3 DEF ListNodes, DbOK, ExtOK, SvcOK, CtlOK, db, ext, svc, ctl
<1>8. ASSUME NodeCreated(w) PROVE TypeInv'
  <2> DEFINE locals == [loc[w] EXCEPT !.node = NoId,
               !.out = [status |-> "FAILED", step |-> "create_remnawave_node"]]
  <2>1. [status |-> "FAILED", step |-> "create_remnawave_node"] \in Outs
    BY NamesOK DEF Outs
  <2>2. locals \in Locals
    BY <1>0, <2>1 DEF Locals
  <2> HIDE DEF locals
  <2>3. pc[w] # "idle" /\ dep[w] \in Deployments
    BY <1>0, <1>8 DEF NodeCreated
  <2>4. Goes(w, "persist", loc[w]) \/ Goes(w, "failRecord", locals)
    BY <1>8 DEF NodeCreated, locals
  <2>5. ProcOK'
    BY <1>0, <2>2, <2>3, <2>4, GoesOK, RunLabels
  <2>6. late' \subseteq Deployments
    BY <1>8, <2>3, AbandonOK DEF NodeCreated, ExtOK
  <2> QED BY <1>8, <2>5, <2>6 DEF NodeCreated, DbOK, ExtOK, SvcOK, CtlOK, db, svc, ctl
<1>9. ASSUME AddIP(w) PROVE TypeInv'
  <2>1. ProcOK'
    BY <1>0, <1>9, GoesOK, FailsOK, RunLabels, NamesOK DEF AddIP
  <2>2. Input[dep[w]].addr \in Addrs
    BY <1>0, <1>9, ConstantsAssumption DEF AddIP
  <2> QED BY <1>9, <2>1, <2>2 DEF AddIP, DbOK, ExtOK, SvcOK, CtlOK, db, svc, ctl
<1>10. ASSUME Abort(w) PROVE TypeInv'
  <2>1. pc[w] # "idle" /\ dep[w] \in Deployments
    BY <1>0, <1>10 DEF Abort, Working
  <2>2. /\ pc' = [pc EXCEPT ![w] = pc'[w]]
        /\ pc'[w] \in {"unregister", "releaseSlot"}
    BY <1>10 DEF Abort, ProcOK
  <2>3. ProcOK'
    BY <1>10, <2>1, <2>2, RunLabels DEF Abort, ProcOK
  <2>4. late' \subseteq Deployments
    BY <1>10, <2>1, AbandonOK DEF Abort, ExtOK
  <2> QED BY <1>10, <2>3, <2>4 DEF Abort, DbOK, ExtOK, SvcOK, CtlOK, db, svc, ctl
<1>11. ASSUME ReleaseSlot(w) PROVE TypeInv'
  <2>1. ProcOK'
    BY <1>0, <1>11, RunLabels DEF ReleaseSlot, ProcOK
  <2> QED BY <1>11, <2>1 DEF ReleaseSlot, DbOK, ExtOK, SvcOK, CtlOK, db, ext, ctl
<1>12. ASSUME Unregister(w) PROVE TypeInv'
  <2>1. ProcOK'
    BY <1>12, ResetOK DEF Unregister
  <2> QED BY <1>0, <1>12, <2>1 DEF Unregister, DbOK, ExtOK, SvcOK, CtlOK, db, ext
<1>13. ASSUME PanelCreates(w) PROVE TypeInv'
  <2>1. dep[w] \in Deployments
    BY <1>0, <1>13 DEF PanelCreates, InFlight
  <2>2. PICK n \in NodeIds : CreateUnder(n, dep[w]) /\ Set(w, [loc[w] EXCEPT !.node = n])
    BY <1>13 DEF PanelCreates
  <2>3. [loc[w] EXCEPT !.node = n] \in Locals
        /\ [loc[w] EXCEPT !.node = n].stage = loc[w].stage
    BY <1>0 DEF Locals
  <2>4. ProcOK'
    BY <1>13, <2>2, <2>3 DEF PanelCreates, Set, ProcOK
  <2>5. nodes' \in [NodeIds -> [name : Names, addr : Addrs] \cup {NoNode}]
    BY <2>1, <2>2, ConstantsAssumption DEF CreateUnder, ExtOK
  <2> QED BY <1>13, <2>4, <2>5 DEF PanelCreates, DbOK, ExtOK, SvcOK, CtlOK, db, svc, ctl
<1> QED BY <1>1, <1>2, <1>3, <1>4, <1>5, <1>6, <1>7, <1>8, <1>9, <1>10, <1>11, <1>12, <1>13

-----------------------------------------------------------------------------

\* TypeInv is inductive.
LEMMA TypeStep ==
  ASSUME TypeInv, [Next]_vars
  PROVE  TypeInv'
<1> USE DEF TypeInv
<1>1. ASSUME NEW w \in Workers, Command(w) PROVE TypeInv'
  BY <1>1, CommandType DEF Command
<1>2. ASSUME NEW w \in Workers, RunStep(w) PROVE TypeInv'
  BY <1>2, AdmissionType, StageType, WorkType DEF RunStep
<1>3. ASSUME NEW w \in Workers, DetachedStep(w) PROVE TypeInv'
  BY <1>3, DetachedType
<1>4. ASSUME NEW w \in Workers, PanelCreates(w) PROVE TypeInv'
  BY <1>4, WorkType
<1>5. ASSUME NEW d \in Deployments, PanelCreatesLate(d) PROVE TypeInv'
  <2>1. nodes' \in [NodeIds -> [name : Names, addr : Addrs] \cup {NoNode}]
    BY <1>5, ConstantsAssumption DEF PanelCreatesLate, CreateUnder, ExtOK
  <2> QED BY <1>5, <2>1
          DEF PanelCreatesLate, DbOK, ExtOK, SvcOK, CtlOK, ProcOK, db, svc, ctl, procs
<1>6. ASSUME Crash PROVE TypeInv'
  <2>1. {dep[w] : w \in {v \in Workers : InFlight(v)}} \in SUBSET Deployments
    BY DEF InFlight, ProcOK
  <2>2. late' \subseteq Deployments
    BY <1>6, <2>1, AbandonOK DEF Crash
  <2>3. ProcOK'
    BY <1>6, BlankOK DEF Crash, ProcOK, Labels, Beginning
  <2> QED BY <1>6, <2>2, <2>3 DEF Crash, Unfinished, DbOK, ExtOK, SvcOK, CtlOK, db
<1>7. CASE UNCHANGED vars
  BY <1>7 DEF vars, DbOK, ExtOK, SvcOK, CtlOK, ProcOK
<1> QED BY <1>1, <1>2, <1>3, <1>4, <1>5, <1>6, <1>7 DEF Next, Panel

\* TypeInv holds initially.
LEMMA TypeInit == Init => TypeInv
  BY BlankOK DEF Init, TypeInv, DbOK, ExtOK, SvcOK, CtlOK, ProcOK, StepStatuses,
     Labels, Beginning

\* TypeInv is an invariant of the specification.
LEMMA TypeInvariant == Spec => []TypeInv
  BY TypeInit, TypeStep, PTL DEF Spec

\* Type correctness of DeploymentWorkflow: the tables, the panel, the service's
\* maps and the locals of every goroutine keep their types under all commands,
\* faults, crashes and late requests, for every set of deployments and workers.
THEOREM TypeCorrect == Spec => []TypeOK
<1>1. TypeInv => TypeOK
  BY DEF TypeInv, TypeOK, DbOK, ExtOK, SvcOK, CtlOK, ProcOK
<1> QED BY <1>1, TypeInvariant, PTL

(***************************************************************************)
(* Runs and slots.                                                         *)
(***************************************************************************)

RunInv ==
  /\ \A w \in Workers : pc[w] \in Registered => running[dep[w]] = w
  /\ \A d \in Deployments : running[d] # NoWorker =>
       pc[running[d]] \in Registered /\ dep[running[d]] = d
  /\ \A w \in Workers : ctx[w] => pc[w] \in Registered
  /\ SlotAccounting

Unregistered == Detached \cup {"idle"}

\* A run holds its slot before and after the step.
Stays(w) ==
  /\ pc[w] \in Working
  /\ pc' = [pc EXCEPT ![w] = pc'[w]]
  /\ pc'[w] \in Holding
  /\ dep' = dep /\ ctx' = ctx /\ running' = running /\ slots' = slots

\* A worker is unregistered before and after the step.
Roams(w) ==
  /\ pc[w] \in Unregistered
  /\ pc'[w] \in Unregistered
  /\ \A v \in Workers \ {w} : pc'[v] = pc[v] /\ dep'[v] = dep[v]
  /\ \A v \in Workers : ctx'[v] => ctx[v] \/ \E d \in Deployments : running[d] = v
  /\ running' = running /\ slots' = slots

\* The three kinds of labels are disjoint.
LEMMA LabelKinds ==
  /\ Working \subseteq Holding /\ Holding \subseteq Registered
  /\ Registered \cap Unregistered = {}
  /\ Labels = Registered \cup Unregistered
  BY DEF Working, Holding, Registered, Unregistered, Detached, Labels

\* Going on to a label inside the slot is staying.
LEMMA GoesStays ==
  ASSUME ProcOK, NEW w \in Workers, NEW l \in Holding, NEW locals,
         pc[w] \in Working, Goes(w, l, locals), UNCHANGED svc
  PROVE  Stays(w)
  BY DEF ProcOK, Goes, Goto, Keep, Stays, svc, Holding

\* So is returning to the deferred release.
LEMMA StopStays ==
  ASSUME ProcOK, NEW w \in Workers, pc[w] \in Working, Stop(w), UNCHANGED svc
  PROVE  Stays(w)
  BY DEF ProcOK, Stop, Stays, svc, Holding

\* The first label inside a stage is one of a run that holds its slot.
LEMMA StageBodyHolds ==
  ASSUME NEW stage, NEW current
  PROVE  StageBody(stage, current) \in Holding
  BY DEF StageBody, Holding, Working

\* Entering a stage stays inside the slot.
LEMMA EnterStageStays ==
  ASSUME ProcOK, NEW w \in Workers, NEW current, NEW ahead,
         pc[w] \in Working, EnterStage(w, current, ahead), UNCHANGED svc
  PROVE  Stays(w)
  BY GoesStays, StopStays, StageBodyHolds DEF EnterStage, Holding, Working

\* Every step between acquire and the deferred release stays.
LEMMA RunStays ==
  ASSUME ProcOK, NEW w \in Workers,
         \/ Load(w) \/ CheckHost(w) \/ Admit(w) \/ BeginStage(w) \/ RecordRunning(w)
         \/ Preflight(w) \/ PrepareCertificate(w) \/ Provision(w)
         \/ ListNodes(w) \/ PostNode(w) \/ NodeCreated(w) \/ PersistNode(w)
         \/ PollNode(w) \/ CheckHealthy(w) \/ AddIP(w) \/ SkipDNS(w)
         \/ CompleteStage(w) \/ Reload(w) \/ Finish(w)
         \/ FailRecord(w) \/ FailState(w)
  PROVE  Stays(w)
<1>1. CASE Load(w)
  BY <1>1, GoesStays, StopStays DEF Load, Holding, Working
<1>2. CASE CheckHost(w)
  BY <1>2, GoesStays DEF CheckHost, Fails, Holding, Working
<1>3. CASE Admit(w)
  BY <1>3, GoesStays, EnterStageStays DEF Admit, Fails, Holding, Working
<1>4. CASE BeginStage(w)
  BY <1>4, GoesStays, StopStays DEF BeginStage, Persists, Holding, Working
<1>5. CASE RecordRunning(w)
  <2> DEFINE l == IF pc[w] = "record" THEN StageBody(loc[w].stage, loc[w].cur) ELSE "reload"
  <2>1. l \in Holding /\ pc[w] \in Working
    BY <1>5, StageBodyHolds DEF RecordRunning, Holding, Working
  <2> HIDE DEF l
  <2>2. (Goes(w, l, loc[w]) \/ Stop(w)) /\ UNCHANGED svc
    BY <1>5 DEF RecordRunning, Persists, l
  <2>3. CASE Goes(w, l, loc[w])
    BY <2>1, <2>2, <2>3, GoesStays
  <2>4. CASE Stop(w)
    BY <2>1, <2>2, <2>4, StopStays
  <2> QED BY <2>2, <2>3, <2>4
<1>6. CASE Preflight(w)
  BY <1>6, GoesStays DEF Preflight, Fails, Holding, Working
<1>7. CASE PrepareCertificate(w)
  BY <1>7, GoesStays DEF PrepareCertificate, Fails, Holding, Working
<1>8. CASE Provision(w)
  BY <1>8, GoesStays DEF Provision, Fails, Holding, Working
<1>9. CASE ListNodes(w)
  <2>1. pc[w] \in Working /\ UNCHANGED svc /\ {"persist", "post", "failRecord"} \subseteq Holding
    BY <1>9 DEF ListNodes, Holding, Working
  <2>2. CASE \E n \in Exact(dep[w]) : Goes(w, "persist", [loc[w] EXCEPT !.node = n])
    <3>1. PICK n \in Exact(dep[w]) : Goes(w, "persist", [loc[w] EXCEPT !.node = n])
      BY <2>2
    <3> QED BY <2>1, <3>1, GoesStays
  <2>3. CASE Goes(w, "post", loc[w])
    BY <2>1, <2>3, GoesStays
  <2>4. CASE Fails(w, "FAILED", "create_remnawave_node")
    BY <2>1, <2>4, GoesStays DEF Fails
  <2> QED BY <1>9, <2>2, <2>3, <2>4 DEF ListNodes
<1>10. CASE PostNode(w)
  BY <1>10, GoesStays DEF PostNode, Fails, Holding, Working
<1>11. CASE NodeCreated(w)
  BY <1>11, GoesStays DEF NodeCreated, Holding, Working
<1>12. CASE PersistNode(w)
  BY <1>12, GoesStays, StopStays DEF PersistNode, Persists, Holding, Working
<1>13. CASE PollNode(w)
  BY <1>13, GoesStays DEF PollNode, Fails, Holding, Working
<1>14. CASE CheckHealthy(w)
  BY <1>14, GoesStays DEF CheckHealthy, Fails, Holding, Working
<1>15. CASE AddIP(w)
  BY <1>15, GoesStays DEF AddIP, Fails, Holding, Working
<1>16. CASE SkipDNS(w)
  BY <1>16, GoesStays, StopStays DEF SkipDNS, Persists, Holding, Working
<1>17. CASE CompleteStage(w)
  <2>1. Following(loc[w].stage)[1] \in {"reload", "setState", "advance", "finish"}
    BY DEF Following
  <2> QED BY <1>17, <2>1, GoesStays, StopStays DEF CompleteStage, Persists, Holding, Working
<1>18. CASE Reload(w)
  BY <1>18, GoesStays, StopStays, EnterStageStays DEF Reload, Holding, Working
<1>19. CASE Finish(w)
  BY <1>19, GoesStays, StopStays DEF Finish, Persists, Holding, Working
<1>20. CASE FailRecord(w)
  BY <1>20, GoesStays DEF FailRecord, Holding, Working
<1>21. CASE FailState(w)
  BY <1>21, GoesStays, StopStays DEF FailState, Persists, Holding, Working
<1> QED BY <1>1, <1>2, <1>3, <1>4, <1>5, <1>6, <1>7, <1>8, <1>9, <1>10, <1>11, <1>12,
           <1>13, <1>14, <1>15, <1>16, <1>17, <1>18, <1>19, <1>20, <1>21

\* A worker that ends, or goes on outside any run, roams.
LEMMA ResetRoams ==
  ASSUME ProcOK, NEW w \in Workers, pc[w] \in Unregistered, Reset(w), UNCHANGED svc
  PROVE  Roams(w)
  BY DEF ProcOK, Reset, Roams, svc, Unregistered

\* Going on to a label outside any run roams.
LEMMA GoesRoams ==
  ASSUME ProcOK, NEW w \in Workers, NEW l \in Unregistered, NEW locals,
         pc[w] \in Unregistered, ~ctx[w], Goes(w, l, locals), UNCHANGED svc
  PROVE  Roams(w)
  BY DEF ProcOK, Goes, Goto, Keep, Roams, svc

\* So does starting a command.
LEMMA StartRoams ==
  ASSUME ProcOK, NEW w \in Workers, NEW d, NEW l \in Unregistered, NEW locals,
         Start(w, d, l, locals), UNCHANGED svc
  PROVE  Roams(w)
  BY DEF ProcOK, Start, Roams, svc, Unregistered

\* Commands and the startup recovery register nobody.
LEMMA CommandRoams ==
  ASSUME ProcOK, NEW w \in Workers, NEW d \in Deployments,
         \/ StartPrepare(w, d) \/ StartDeploy(w, d) \/ StartRetryDNS(w, d)
         \/ StartRetryStep(w, d) \/ StartCancel(w, d) \/ StartRecheck(w, d)
         \/ StartRecover(w, d)
  PROVE  Roams(w)
<1> USE DEF Unregistered, Detached
<1>1. CASE StartPrepare(w, d)
  BY <1>1, StartRoams DEF StartPrepare
<1>2. CASE StartDeploy(w, d)
  BY <1>2, StartRoams DEF StartDeploy
<1>3. CASE StartRetryDNS(w, d)
  BY <1>3, StartRoams DEF StartRetryDNS
<1>4. CASE StartRetryStep(w, d)
  BY <1>4, StartRoams DEF StartRetryStep
<1>5. CASE StartCancel(w, d)
  BY <1>5 DEF StartCancel, ProcOK, Roams, svc
<1>6. CASE StartRecheck(w, d)
  BY <1>6 DEF StartRecheck, Classify, ProcOK, Roams, svc
<1>7. CASE StartRecover(w, d)
  BY <1>7 DEF StartRecover, Classify, ProcOK, Roams, svc
<1> QED BY <1>1, <1>2, <1>3, <1>4, <1>5, <1>6, <1>7

\* Outside a run, every step but beginExecution roams.
LEMMA DetachedRoams ==
  ASSUME ProcOK, RunInv, NEW w \in Workers,
         \/ CreateDeployment(w) \/ RetrySet(w) \/ CancelLoad(w) \/ CancelSet(w)
         \/ Inspect(w) \/ AdoptNode(w) \/ Probe(w) \/ SkipRecord(w) \/ Lookup(w)
         \/ WriteVerdict(w)
  PROVE  Roams(w)
<1>0. pc[w] \in Unregistered => ~ctx[w]
  BY LabelKinds DEF RunInv
<1> USE DEF Unregistered, Detached
<1>1. CASE CreateDeployment(w)
  BY <1>1, ResetRoams DEF CreateDeployment, ProcOK, Roams, svc
<1>2. CASE RetrySet(w)
  BY <1>0, <1>2, ResetRoams, GoesRoams DEF RetrySet
<1>3. CASE CancelLoad(w)
  BY <1>0, <1>3, ResetRoams, GoesRoams DEF CancelLoad
<1>4. CASE CancelSet(w)
  BY <1>4, ResetRoams DEF CancelSet
<1>5. CASE Inspect(w)
  <2>1. CASE \E n \in Exact(dep[w]) : Goes(w, "adopt", [loc[w] EXCEPT !.node = n])
    <3>1. PICK n \in Exact(dep[w]) : Goes(w, "adopt", [loc[w] EXCEPT !.node = n])
      BY <2>1
    <3> QED BY <1>0, <1>5, <3>1, GoesRoams DEF Inspect
  <2>2. CASE Verdict(w, "MANUAL_REVIEW", loc[w].cur.step)
    BY <1>0, <1>5, <2>2, GoesRoams DEF Inspect, Verdict
  <2> QED BY <1>5, <2>1, <2>2 DEF Inspect
<1>6. CASE AdoptNode(w)
  BY <1>0, <1>6, ResetRoams, GoesRoams DEF AdoptNode, Rechecks, EndRecheck
<1>7. CASE Probe(w)
  BY <1>0, <1>7, GoesRoams DEF Probe, Verdict
<1>8. CASE SkipRecord(w)
  BY <1>0, <1>8, GoesRoams DEF SkipRecord, Verdict
<1>9. CASE Lookup(w)
  BY <1>0, <1>9, GoesRoams DEF Lookup, Verdict
<1>10. CASE WriteVerdict(w)
  BY <1>10, ResetRoams DEF WriteVerdict, EndRecheck
<1> QED BY <1>1, <1>2, <1>3, <1>4, <1>5, <1>6, <1>7, <1>8, <1>9, <1>10

-----------------------------------------------------------------------------
(* RunInv is inductive. *)

\* Both shapes preserve it.
LEMMA StaysRunInv ==
  ASSUME TypeInv, RunInv, NEW w \in Workers, Stays(w)
  PROVE  RunInv'
<1>1. ASSUME NEW v \in Workers
      PROVE  /\ pc'[v] \in Registered <=> pc[v] \in Registered
             /\ pc'[v] \in Holding <=> pc[v] \in Holding
  BY LabelKinds DEF Stays, TypeInv, ProcOK
<1> QED BY <1>1 DEF Stays, RunInv, SlotAccounting, TypeInv, SvcOK

\* A worker that roams disturbs no registration and no slot.
LEMMA RoamsRunInv ==
  ASSUME TypeInv, RunInv, NEW w \in Workers, Roams(w)
  PROVE  RunInv'
<1>1. ASSUME NEW v \in Workers
      PROVE  /\ pc'[v] \in Registered <=> pc[v] \in Registered
             /\ pc'[v] \in Holding <=> pc[v] \in Holding
             /\ pc[v] \in Registered => dep'[v] = dep[v] /\ v # w
  BY LabelKinds DEF Roams
<1>2. \A v \in Workers : pc'[v] \in Registered => running'[dep'[v]] = v
  BY <1>1 DEF Roams, RunInv
<1>3. \A d \in Deployments : running'[d] # NoWorker =>
        pc'[running'[d]] \in Registered /\ dep'[running'[d]] = d
  BY <1>1 DEF Roams, RunInv, TypeInv, SvcOK
<1>4. \A v \in Workers : ctx'[v] => pc'[v] \in Registered
  <2> SUFFICES ASSUME NEW v \in Workers, ctx'[v] PROVE pc[v] \in Registered
    BY <1>1
  <2>1. CASE ctx[v]
    BY <2>1 DEF RunInv
  <2>2. CASE \E d \in Deployments : running[d] = v
    BY <2>2, ConstantsAssumption DEF RunInv
  <2> QED BY <2>1, <2>2 DEF Roams
<1>5. SlotAccounting'
  BY <1>1 DEF Roams, RunInv, SlotAccounting
<1> QED BY <1>2, <1>3, <1>4, <1>5 DEF RunInv

\* beginExecution registers only a deployment nobody runs.
LEMMA BeginRunInv ==
  ASSUME TypeInv, RunInv, NEW w \in Workers, BeginExecution(w)
  PROVE  RunInv'
<1>0. pc[w] = "begin" /\ pc[w] \in Unregistered /\ dep[w] \in Deployments
  BY DEF BeginExecution, TypeInv, ProcOK, Unregistered, Detached
<1>1. CASE Reset(w) /\ UNCHANGED svc
  BY <1>0, <1>1, ResetRoams, RoamsRunInv DEF TypeInv
<1>2. CASE /\ running[dep[w]] = NoWorker
           /\ running' = [running EXCEPT ![dep[w]] = w]
           /\ pc' = [pc EXCEPT ![w] = "slot"]
           /\ UNCHANGED <<dep, ctx, slots>>
  <2>1. "slot" \in Registered /\ "slot" \notin Holding
    BY DEF Registered, Holding, Working
  <2>2. pc[w] \notin Registered
    BY <1>0, LabelKinds
  <2>3. ASSUME NEW v \in Workers, v # w
        PROVE  /\ pc'[v] = pc[v] /\ dep'[v] = dep[v]
               /\ pc[v] \in Registered => dep[v] \in Deployments /\ dep[v] # dep[w]
    BY <1>2, <2>3, ConstantsAssumption, LabelKinds
       DEF RunInv, TypeInv, ProcOK, Unregistered
  <2>4. pc'[w] = "slot" /\ dep'[w] = dep[w]
    BY <1>2 DEF TypeInv, ProcOK
  <2>5. \A v \in Workers : pc'[v] \in Registered => running'[dep'[v]] = v
    BY <1>0, <1>2, <2>3, <2>4 DEF RunInv, TypeInv, SvcOK
  <2>6. \A d \in Deployments : running'[d] # NoWorker =>
          pc'[running'[d]] \in Registered /\ dep'[running'[d]] = d
    <3> SUFFICES ASSUME NEW d \in Deployments, running'[d] # NoWorker
                 PROVE  pc'[running'[d]] \in Registered /\ dep'[running'[d]] = d
      OBVIOUS
    <3>1. CASE d = dep[w]
      BY <1>0, <1>2, <2>1, <2>4, <3>1 DEF TypeInv, SvcOK
    <3>2. CASE d # dep[w]
      <4>1. running'[d] = running[d] /\ running[d] \in Workers
        BY <1>2, <3>2 DEF TypeInv, SvcOK
      <4>2. pc[running[d]] \in Registered /\ dep[running[d]] = d
        BY <4>1, ConstantsAssumption DEF RunInv
      <4> QED BY <2>2, <2>3, <4>1, <4>2
    <3> QED BY <3>1, <3>2
  <2>7. \A v \in Workers : ctx'[v] => pc'[v] \in Registered
    BY <1>2, <2>1, <2>3, <2>4 DEF RunInv
  <2>8. SlotAccounting'
    <3>1. pc[w] \notin Holding
      BY <2>2, LabelKinds
    <3> QED BY <1>2, <2>1, <2>3, <2>4, <3>1 DEF RunInv, SlotAccounting
  <2> QED BY <2>5, <2>6, <2>7, <2>8 DEF RunInv
<1> QED BY <1>1, <1>2 DEF BeginExecution, Keep, svc

\* acquire takes a slot only while one is free.
LEMMA AcquireRunInv ==
  ASSUME TypeInv, RunInv, NEW w \in Workers, Acquire(w)
  PROVE  RunInv'
<1>1. /\ pc[w] = "slot" /\ pc[w] \in Registered /\ pc[w] \notin Holding
      /\ dep' = dep /\ ctx' = ctx /\ running' = running
      /\ Cardinality(slots) < MaxConcurrent /\ slots' = slots \cup {w}
  BY DEF Acquire, Admitted, Goes, Keep, Registered, Holding, Working
<1>2. pc' = [pc EXCEPT ![w] = pc'[w]] /\ pc'[w] \in Holding
  BY DEF Acquire, Admitted, Goes, Goto, TypeInv, ProcOK, Holding, Working
<1>3. ASSUME NEW v \in Workers
      PROVE  /\ pc'[v] \in Registered <=> pc[v] \in Registered
             /\ pc'[v] \in Holding <=> pc[v] \in Holding \/ v = w
  BY <1>1, <1>2, LabelKinds DEF TypeInv, ProcOK
<1>4. SlotAccounting'
  <2>1. slots' = {v \in Workers : pc'[v] \in Holding}
    BY <1>1, <1>3 DEF RunInv, SlotAccounting
  <2>2. IsFiniteSet(slots) /\ w \notin slots
    BY <1>1, SemaphoreAssumption, FS_Subset DEF RunInv, SlotAccounting, TypeInv, SvcOK
  <2>3. Cardinality(slots') <= MaxConcurrent
    <3>1. Cardinality(slots') = Cardinality(slots) + 1
      BY <1>1, <2>2, FS_AddElement
    <3>2. Cardinality(slots) \in Nat
      BY <2>2, FS_CardinalityType
    <3> QED BY <1>1, <3>1, <3>2, SemaphoreAssumption
  <2> QED BY <2>1, <2>3 DEF SlotAccounting
<1> QED BY <1>1, <1>3, <1>4 DEF RunInv, TypeInv, SvcOK

\* A cancelled run keeps its slot until the deferred release; one that waits
\* for a slot has none to release.
LEMMA AbortRunInv ==
  ASSUME TypeInv, RunInv, NEW w \in Workers, Abort(w)
  PROVE  RunInv'
<1>1. dep' = dep /\ ctx' = ctx /\ running' = running /\ slots' = slots
  BY DEF Abort, svc
<1>2. /\ pc' = [pc EXCEPT ![w] = pc'[w]]
      /\ \/ pc[w] = "slot" /\ pc'[w] = "unregister"
         \/ pc[w] \in Working /\ pc'[w] = "releaseSlot"
  BY DEF Abort, TypeInv, ProcOK, Working
<1>3. /\ "slot" \in Registered \ Holding /\ "unregister" \in Registered \ Holding
      /\ "releaseSlot" \in Holding
  BY DEF Registered, Holding, Working
<1>4. ASSUME NEW v \in Workers
      PROVE  /\ pc'[v] \in Registered <=> pc[v] \in Registered
             /\ pc'[v] \in Holding <=> pc[v] \in Holding
  BY <1>2, <1>3, LabelKinds DEF TypeInv, ProcOK
<1> QED BY <1>1, <1>4 DEF RunInv, SlotAccounting, TypeInv, SvcOK

\* The deferred releaseSlot gives back the slot of the run itself.
LEMMA ReleaseRunInv ==
  ASSUME TypeInv, RunInv, NEW w \in Workers, ReleaseSlot(w)
  PROVE  RunInv'
<1>1. /\ pc[w] = "releaseSlot" /\ pc' = [pc EXCEPT ![w] = "unregister"]
      /\ dep' = dep /\ ctx' = ctx /\ running' = running /\ slots' = slots \ {w}
  BY DEF ReleaseSlot
<1>2. "releaseSlot" \in Registered /\ "unregister" \in Registered \ Holding
  BY DEF Registered, Holding, Working
<1>3. ASSUME NEW v \in Workers
      PROVE  /\ pc'[v] \in Registered <=> pc[v] \in Registered
             /\ pc'[v] \in Holding <=> pc[v] \in Holding /\ v # w
  BY <1>1, <1>2 DEF TypeInv, ProcOK
<1>4. SlotAccounting'
  <2>1. slots' = {v \in Workers : pc'[v] \in Holding}
    BY <1>1, <1>3 DEF RunInv, SlotAccounting
  <2>2. IsFiniteSet(slots)
    BY SemaphoreAssumption, FS_Subset DEF TypeInv, SvcOK
  <2>3. Cardinality(slots') <= Cardinality(slots) /\ IsFiniteSet(slots')
    BY <1>1, <2>2, FS_Subset
  <2>4. Cardinality(slots') \in Nat /\ Cardinality(slots) \in Nat
    BY <2>2, <2>3, FS_CardinalityType
  <2> QED BY <2>1, <2>3, <2>4, SemaphoreAssumption DEF RunInv, SlotAccounting
<1> QED BY <1>1, <1>3, <1>4 DEF RunInv, TypeInv, SvcOK

\* The release closure removes the registration of the run itself.
LEMMA UnregisterRunInv ==
  ASSUME TypeInv, RunInv, NEW w \in Workers, Unregister(w)
  PROVE  RunInv'
<1>1. /\ pc[w] = "unregister" /\ Reset(w) /\ slots' = slots
      /\ running' = [running EXCEPT ![dep[w]] = NoWorker]
  BY DEF Unregister
<1>2. /\ "unregister" \in Registered \ Holding
      /\ "idle" \notin Registered /\ "idle" \notin Holding
  BY DEF Registered, Holding, Working
<1>3. dep[w] \in Deployments /\ running[dep[w]] = w
  BY <1>1, <1>2 DEF TypeInv, ProcOK, RunInv
<1>4. pc'[w] = "idle" /\ ctx'[w] = FALSE
  BY <1>1 DEF Reset, TypeInv, ProcOK
<1>5. ASSUME NEW v \in Workers, v # w
      PROVE  /\ pc'[v] = pc[v] /\ dep'[v] = dep[v] /\ ctx'[v] = ctx[v]
             /\ pc[v] \in Registered => dep[v] \in Deployments /\ dep[v] # dep[w]
  BY <1>1, <1>2, <1>3, <1>5 DEF Reset, TypeInv, ProcOK, RunInv
<1>6. \A v \in Workers : pc'[v] \in Registered => running'[dep'[v]] = v
  BY <1>1, <1>2, <1>4, <1>5 DEF RunInv, TypeInv, SvcOK
<1>7. \A d \in Deployments : running'[d] # NoWorker =>
        pc'[running'[d]] \in Registered /\ dep'[running'[d]] = d
  <2> SUFFICES ASSUME NEW d \in Deployments, running'[d] # NoWorker
               PROVE  pc'[running'[d]] \in Registered /\ dep'[running'[d]] = d
    OBVIOUS
  <2>1. d # dep[w] /\ running'[d] = running[d] /\ running[d] \in Workers
    BY <1>1, <1>3 DEF TypeInv, SvcOK
  <2>2. pc[running[d]] \in Registered /\ dep[running[d]] = d
    BY <2>1, ConstantsAssumption DEF RunInv
  <2> QED BY <1>5, <2>1, <2>2
<1>8. \A v \in Workers : ctx'[v] => pc'[v] \in Registered
  BY <1>4, <1>5 DEF RunInv
<1>9. SlotAccounting'
  BY <1>1, <1>2, <1>4, <1>5 DEF RunInv, SlotAccounting
<1> QED BY <1>6, <1>7, <1>8, <1>9 DEF RunInv

\* RunInv is inductive.
LEMMA RunStepInv ==
  ASSUME TypeInv, RunInv, [Next]_vars
  PROVE  RunInv'
<1>1. ASSUME NEW w \in Workers, Command(w) PROVE RunInv'
  BY <1>1, CommandRoams, RoamsRunInv DEF Command, TypeInv
<1>2. ASSUME NEW w \in Workers, RunStep(w) PROVE RunInv'
  BY <1>2, RunStays, StaysRunInv, AcquireRunInv, AbortRunInv, ReleaseRunInv,
     UnregisterRunInv DEF RunStep, TypeInv
<1>3. ASSUME NEW w \in Workers, DetachedStep(w) PROVE RunInv'
  BY <1>3, DetachedRoams, CommandRoams, RoamsRunInv, BeginRunInv DEF DetachedStep, TypeInv
<1>4. ASSUME Panel PROVE RunInv'
  BY <1>4 DEF Panel, PanelCreates, PanelCreatesLate, procs, svc, RunInv, SlotAccounting
<1>5. ASSUME Crash PROVE RunInv'
  <2>1. "idle" \notin Registered /\ "idle" \notin Holding
    BY DEF Registered, Holding, Working
  <2>2. Cardinality({}) = 0
    BY FS_EmptySet
  <2> QED BY <1>5, <2>1, <2>2, SemaphoreAssumption DEF Crash, RunInv, SlotAccounting
<1>6. CASE UNCHANGED vars
  BY <1>6 DEF vars, RunInv, SlotAccounting
<1> QED BY <1>1, <1>2, <1>3, <1>4, <1>5, <1>6 DEF Next

\* RunInv holds initially.
LEMMA RunInit == Init => RunInv
<1>1. "idle" \notin Registered /\ "idle" \notin Holding
  BY DEF Registered, Holding, Working
<1>2. Cardinality({}) = 0
  BY FS_EmptySet
<1> QED BY <1>1, <1>2, SemaphoreAssumption DEF Init, RunInv, SlotAccounting

\* TypeInv and RunInv are invariants of the specification.
LEMMA RunInvariant == Spec => [](TypeInv /\ RunInv)
<1>1. Init => TypeInv /\ RunInv
  BY TypeInit, RunInit
<1>2. TypeInv /\ RunInv /\ [Next]_vars => (TypeInv /\ RunInv)'
  BY TypeStep, RunStepInv
<1> QED BY <1>1, <1>2, PTL DEF Spec

\* beginExecution keeps the runs of a deployment apart, for any number of
\* workers, deployments, cancellations, retries and crashes.
THEOREM RunsExclusive == Spec => []ExclusiveRuns
<1>1. TypeInv /\ RunInv => ExclusiveRuns
  BY DEF RunInv, ExclusiveRuns
<1> QED BY <1>1, RunInvariant, PTL

\* No path through a run (early return, failure, cancellation while waiting or
\* working, crash) leaks a slot of the semaphore or exceeds its capacity.
THEOREM SlotsAccounted == Spec => []SlotAccounting
<1>1. TypeInv /\ RunInv => SlotAccounting
  BY DEF RunInv
<1> QED BY <1>1, RunInvariant, PTL
=============================================================================
