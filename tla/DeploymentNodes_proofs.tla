----------------------- MODULE DeploymentNodes_proofs -----------------------
(***************************************************************************)
(* The Remnawave Node of a deployment: the UUID a row records is that of   *)
(* the deployment's own Node (OwnNode), and the panel has one Node per     *)
(* deployment (NodeOnce) when every deployment has its own name and        *)
(* address and the panel executes no request its caller gave up.           *)
(*                                                                         *)
(* Frame says what a step of the bot may change of the Nodes, the UUIDs in *)
(* the rows and the UUIDs the workers hold; every action but the two of    *)
(* the panel is shown to keep within it.                                   *)
(***************************************************************************)
EXTENDS DeploymentRuns_proofs

\* A worker holds the Node it held, none, or the Node of its deployment.
HeldFrame(v) ==
  \/ loc'[v].node = NoId
  \/ dep'[v] = dep[v] /\ loc'[v].node = loc[v].node
  \/ dep'[v] = dep[v] /\ loc'[v].node \in Exact(dep[v])

\* A worker sends a POST only when the list it just read shows no clash.
FlightFrame(v) ==
  pc'[v] = "posted" /\ loc'[v].node = NoId =>
    dep'[v] = dep[v] /\ (InFlight(v) \/ Clashing(dep[v]) = {})

\* A row keeps its UUID, is inserted without one, or gets the one held by a
\* worker of its deployment.
RowFrame(d) ==
  \/ row'[d].uuid \in {row[d].uuid, NoId}
  \/ \E w \in Workers : dep[w] = d /\ row'[d].uuid = loc[w].node

WorkersFrame == \A v \in Workers : HeldFrame(v) /\ FlightFrame(v)
RowsFrame    == \A d \in Deployments : RowFrame(d)

Frame ==
  /\ WorkersFrame
  /\ RowsFrame
  /\ nodes' = nodes
  /\ ~LateLanding => late' = late

-----------------------------------------------------------------------------

\* Moving on to another label stays within the frame if the locals do.
LEMMA GoesFrame ==
  ASSUME ProcOK, NEW w \in Workers, NEW l, NEW locals, Goes(w, l, locals),
         l # "posted" \/ Clashing(dep[w]) = {},
         locals.node \in {NoId, loc[w].node} \cup Exact(dep[w])
  PROVE  WorkersFrame
<1> SUFFICES ASSUME NEW v \in Workers PROVE HeldFrame(v) /\ FlightFrame(v)
  BY DEF WorkersFrame
<1>1. CASE v = w
  BY <1>1 DEF ProcOK, Goes, Goto, Set, Keep, HeldFrame, FlightFrame
<1>2. CASE v # w
  BY <1>2 DEF ProcOK, Goes, Goto, Set, Keep, HeldFrame, FlightFrame, InFlight
<1> QED BY <1>1, <1>2

\* Returning to the deferred release stays within the frame.
LEMMA StopFrame ==
  ASSUME ProcOK, NEW w \in Workers, Stop(w)
  PROVE  WorkersFrame
  BY DEF ProcOK, Stop, WorkersFrame, HeldFrame, FlightFrame, InFlight

\* A goroutine that ends stays within the frame.
LEMMA ResetFrame ==
  ASSUME ProcOK, NEW w \in Workers, Reset(w)
  PROVE  WorkersFrame
<1> SUFFICES ASSUME NEW v \in Workers PROVE HeldFrame(v) /\ FlightFrame(v)
  BY DEF WorkersFrame
<1>1. CASE v = w
  BY <1>1 DEF ProcOK, Reset, HeldFrame, FlightFrame, Blank
<1>2. CASE v # w
  BY <1>2 DEF ProcOK, Reset, HeldFrame, FlightFrame, InFlight
<1> QED BY <1>1, <1>2

\* A command that starts without a Node stays within the frame.
LEMMA StartFrame ==
  ASSUME ProcOK, NEW w \in Workers, NEW d, NEW l, NEW locals, l # "posted",
         locals.node = NoId,
         pc' = [pc EXCEPT ![w] = l], dep' = [dep EXCEPT ![w] = d],
         loc' = [loc EXCEPT ![w] = locals]
  PROVE  WorkersFrame
<1> SUFFICES ASSUME NEW v \in Workers PROVE HeldFrame(v) /\ FlightFrame(v)
  BY DEF WorkersFrame
<1>1. CASE v = w
  BY <1>1 DEF ProcOK, HeldFrame, FlightFrame
<1>2. CASE v # w
  BY <1>2 DEF ProcOK, HeldFrame, FlightFrame, InFlight
<1> QED BY <1>1, <1>2

\* UpdateDeploymentState leaves the UUIDs alone.
LEMMA SetRowFrame ==
  ASSUME DbOK, NEW d \in Deployments, NEW status, NEW step, SetRow(d, status, step)
  PROVE  RowsFrame
  BY DEF DbOK, Rows, SetRow, RowsFrame, RowFrame

\* So does RecordDeploymentStep.
LEMMA RecordStepFrame ==
  ASSUME DbOK, NEW d \in Deployments, NEW step, NEW status, RecordStep(d, step, status)
  PROVE  RowsFrame
  BY DEF DbOK, Rows, RecordStep, RowsFrame, RowFrame

\* So does a write that failed.
LEMMA SameRowFrame ==
  ASSUME row' = row PROVE RowsFrame
  BY DEF RowsFrame, RowFrame

\* SetRemnawaveNodeUUID writes the Node the goroutine carries.
LEMMA SetUUIDFrame ==
  ASSUME DbOK, NEW w \in Workers, dep[w] \in Deployments,
         row' = [row EXCEPT ![dep[w]].uuid = loc[w].node]
  PROVE  RowsFrame
<1> SUFFICES ASSUME NEW d \in Deployments PROVE RowFrame(d)
  BY DEF RowsFrame
<1>1. CASE d = dep[w]
  BY <1>1 DEF DbOK, Rows, RowFrame
<1>2. CASE d # dep[w]
  BY <1>2 DEF DbOK, RowFrame
<1> QED BY <1>1, <1>2

\* Entering a stage brings no Node into the goroutine.
LEMMA EnterStageFrame ==
  ASSUME ProcOK, NEW w \in Workers, NEW current, NEW ahead, EnterStage(w, current, ahead)
  PROVE  WorkersFrame
<1> DEFINE stage == NextStage(current, ahead)
           into  == [loc[w] EXCEPT !.stage = stage, !.cur = current]
           fail  == [into EXCEPT !.out = [status |-> "FAILED", step |-> stage]]
           l     == IF current.status = StatusOf[stage]
                      THEN StageBody(stage, current) ELSE "setState"
<1>1. into.node = loc[w].node /\ fail.node = loc[w].node
  BY DEF ProcOK, Locals
<1>2. l # "posted"
  BY DEF StageBody
<1>3. Stop(w) \/ Goes(w, "failRecord", fail) \/ Goes(w, l, into)
  BY DEF EnterStage
<1> HIDE DEF into, fail, l
<1>4. CASE Stop(w)
  BY <1>4, StopFrame
<1>5. CASE Goes(w, "failRecord", fail)
  BY <1>1, <1>5, GoesFrame
<1>6. CASE Goes(w, l, into)
  BY <1>1, <1>2, <1>6, GoesFrame
<1> QED BY <1>3, <1>4, <1>5, <1>6

\* Neither does entering failStage.
LEMMA FailsFrame ==
  ASSUME ProcOK, NEW w \in Workers, NEW status, NEW step, Fails(w, status, step)
  PROVE  WorkersFrame
<1> DEFINE locals == [loc[w] EXCEPT !.out = [status |-> status, step |-> step]]
<1>1. locals.node = loc[w].node
  BY DEF ProcOK, Locals
<1>2. Goes(w, "failRecord", locals)
  BY DEF Fails
<1> HIDE DEF locals
<1> QED BY <1>1, <1>2, GoesFrame

\* Neither does choosing the verdict of a recheck.
LEMMA VerdictFrame ==
  ASSUME ProcOK, NEW w \in Workers, NEW status, NEW step, Verdict(w, status, step)
  PROVE  WorkersFrame
<1> DEFINE locals == [loc[w] EXCEPT !.out = [status |-> status, step |-> step]]
<1>1. locals.node = loc[w].node
  BY DEF ProcOK, Locals
<1>2. Goes(w, "verdict", locals)
  BY DEF Verdict
<1> HIDE DEF locals
<1> QED BY <1>1, <1>2, GoesFrame

\* The commands and the startup recovery start without a Node.
LEMMA CommandFrame ==
  ASSUME TypeInv, NEW w \in Workers, NEW d \in Deployments,
         \/ StartPrepare(w, d) \/ StartDeploy(w, d) \/ StartRetryDNS(w, d)
         \/ StartRetryStep(w, d) \/ StartCancel(w, d) \/ StartRecheck(w, d)
         \/ StartRecover(w, d)
  PROVE  Frame
<1> USE DEF TypeInv
<1>0. /\ UNCHANGED <<db, ext>>
      /\ dep' = [dep EXCEPT ![w] = d]
      /\ \E l : l # "posted" /\ pc' = [pc EXCEPT ![w] = l]
  BY DEF StartPrepare, StartDeploy, StartRetryDNS, StartRetryStep, StartCancel,
         StartRecheck, StartRecover, Start, Classify
<1>1. \E locals : locals.node = NoId /\ loc' = [loc EXCEPT ![w] = locals]
  <2>1. CASE StartPrepare(w, d)
    BY <2>1 DEF StartPrepare, Start, Set, Blank
  <2>2. CASE StartDeploy(w, d)
    BY <2>2 DEF StartDeploy, Start, Set, Blank
  <2>3. CASE StartRetryDNS(w, d)
    BY <2>3 DEF StartRetryDNS, Start, Set, Blank
  <2>4. CASE StartRetryStep(w, d)
    <3> DEFINE locals == [Blank EXCEPT
                 !.op = IF row[d].step = "add_dns" THEN "retry_dns" ELSE "deploy",
                 !.out = [status |-> ResumeOf[row[d].step], step |-> row[d].step]]
    <3>1. locals.node = NoId
      BY DEF Blank
    <3>2. loc' = [loc EXCEPT ![w] = locals]
      BY <2>4 DEF StartRetryStep, Start, Set
    <3> HIDE DEF locals
    <3> QED BY <3>1, <3>2
  <2>5. CASE StartCancel(w, d)
    BY <2>5 DEF StartCancel, Set, Blank
  <2>6. CASE StartRecheck(w, d) \/ StartRecover(w, d)
    <3> DEFINE current == row[d]
               into(op)    == [Blank EXCEPT !.op = op, !.cur = current]
               verdict(op) == [into(op) EXCEPT !.out =
                                 [status |-> "MANUAL_REVIEW", step |-> current.step]]
    <3>1. PICK op : Classify(w, d, op)
      BY <2>6 DEF StartRecheck, StartRecover
    <3>2. into(op).node = NoId /\ verdict(op).node = NoId
      BY DEF Blank
    <3>3. loc' = [loc EXCEPT ![w] = IF Inspected(current) THEN into(op) ELSE verdict(op)]
      BY <3>1 DEF Classify, Set
    <3> HIDE DEF into, verdict
    <3>4. CASE Inspected(current)
      BY <3>2, <3>3, <3>4
    <3>5. CASE ~Inspected(current)
      BY <3>2, <3>3, <3>5
    <3> QED BY <3>4, <3>5
  <2> QED BY <2>1, <2>2, <2>3, <2>4, <2>5, <2>6
<1>2. WorkersFrame
  BY <1>0, <1>1, StartFrame
<1> QED BY <1>0, <1>2, SameRowFrame DEF Frame, db, ext

\* The steps outside a run: only SetRemnawaveNodeUUID touches a UUID.
LEMMA DetachedFrame ==
  ASSUME TypeInv, NEW w \in Workers, DetachedStep(w)
  PROVE  Frame
<1> USE DEF TypeInv
<1>0. loc[w].node \in {NoId, loc[w].node} /\ loc[w] \in Locals
  BY DEF ProcOK
<1>1. CASE CreateDeployment(w)
  <2>1. dep[w] \in Deployments
    BY <1>1 DEF CreateDeployment, ProcOK
  <2>2. RowsFrame
    <3>1. CASE InsertRow(dep[w])
      BY <2>1, <3>1 DEF InsertRow, DbOK, RowsFrame, RowFrame
    <3> QED BY <1>1, <3>1, SameRowFrame DEF CreateDeployment
  <2>3. WorkersFrame
    <3>1. CASE Reset(w)
      BY <3>1, ResetFrame
    <3>2. CASE pc' = [pc EXCEPT ![w] = "begin"] /\ UNCHANGED <<dep, ctx, loc>>
      BY <3>2 DEF ProcOK, WorkersFrame, HeldFrame, FlightFrame, InFlight
    <3> QED BY <1>1, <3>1, <3>2 DEF CreateDeployment
  <2> QED BY <1>1, <2>2, <2>3 DEF CreateDeployment, Frame, ext
<1>2. CASE BeginExecution(w)
  <2>1. [loc[w] EXCEPT !.out = NoOut, !.cur = NoRow].node = loc[w].node
    BY <1>0 DEF Locals
  <2>2. WorkersFrame
    <3>1. CASE Reset(w)
      BY <3>1, ResetFrame
    <3>2. CASE /\ pc' = [pc EXCEPT ![w] = "slot"]
               /\ Set(w, [loc[w] EXCEPT !.out = NoOut, !.cur = NoRow])
               /\ Keep
      BY <2>1, <3>2 DEF ProcOK, Set, Keep, WorkersFrame, HeldFrame, FlightFrame, InFlight
    <3> QED BY <1>2, <3>1, <3>2 DEF BeginExecution
  <2> QED BY <1>2, <2>2, SameRowFrame DEF BeginExecution, Frame, db, ext
<1>3. CASE RetrySet(w)
  <2>1. dep[w] \in Deployments
    BY <1>3 DEF RetrySet, ProcOK
  <2>2. RowsFrame
    BY <1>3, <2>1, SetRowFrame, SameRowFrame DEF RetrySet
  <2>3. WorkersFrame
    BY <1>0, <1>3, GoesFrame, ResetFrame DEF RetrySet
  <2> QED BY <1>3, <2>2, <2>3 DEF RetrySet, Frame, ext
<1>4. CASE CancelLoad(w)
  <2>1. WorkersFrame
    BY <1>0, <1>4, GoesFrame, ResetFrame DEF CancelLoad
  <2> QED BY <1>4, <2>1, SameRowFrame DEF CancelLoad, Frame, db, ext
<1>5. CASE CancelSet(w)
  <2>1. dep[w] \in Deployments
    BY <1>5 DEF CancelSet, ProcOK
  <2>2. RowsFrame
    BY <1>5, <2>1, SetRowFrame, SameRowFrame DEF CancelSet
  <2>3. WorkersFrame
    BY <1>5, ResetFrame DEF CancelSet
  <2> QED BY <1>5, <2>2, <2>3 DEF CancelSet, Frame, ext
<1>6. CASE Inspect(w)
  <2>1. ASSUME NEW n \in Exact(dep[w]), Goes(w, "adopt", [loc[w] EXCEPT !.node = n])
        PROVE  WorkersFrame
    <3>1. [loc[w] EXCEPT !.node = n].node = n
      BY <1>0 DEF Locals
    <3> QED BY <2>1, <3>1, GoesFrame
  <2>2. WorkersFrame
    BY <1>6, <2>1, VerdictFrame DEF Inspect
  <2> QED BY <1>6, <2>2, SameRowFrame DEF Inspect, Frame, db, ext
<1>7. CASE AdoptNode(w)
  <2> DEFINE locals == [loc[w] EXCEPT !.cur = [row[dep[w]] EXCEPT !.uuid = loc[w].node],
                                      !.node = NoId]
  <2>1. dep[w] \in Deployments
    BY <1>7 DEF AdoptNode, ProcOK
  <2>2. RowsFrame
    BY <1>7, <2>1, SetUUIDFrame, SameRowFrame DEF AdoptNode, Rechecks, db
  <2>3. locals.node = NoId
    BY <1>0 DEF Locals
  <2> HIDE DEF locals
  <2>4. Goes(w, "probe", locals) \/ Reset(w)
    BY <1>7 DEF AdoptNode, Rechecks, EndRecheck, locals
  <2>5. WorkersFrame
    BY <2>3, <2>4, GoesFrame, ResetFrame
  <2> QED BY <1>7, <2>2, <2>5 DEF AdoptNode, Frame, ext
<1>8. CASE Probe(w)
  <2>1. CASE Goes(w, IF DNSDisabled THEN "skipRecord" ELSE "lookup", loc[w])
    <3>1. PICK l \in {"skipRecord", "lookup"} : Goes(w, l, loc[w])
      BY <2>1
    <3>2. WorkersFrame
      BY <1>0, <3>1, GoesFrame
    <3> QED BY <1>8, <3>2, SameRowFrame DEF Probe, Frame, db, ext
  <2>2. CASE \E status, step : Verdict(w, status, step)
    BY <1>8, <2>2, VerdictFrame, SameRowFrame DEF Probe, Frame, db, ext
  <2> QED BY <1>8, <2>1, <2>2 DEF Probe
<1>9. CASE SkipRecord(w)
  <2>1. dep[w] \in Deployments
    BY <1>9 DEF SkipRecord, ProcOK
  <2>2. RowsFrame
    BY <1>9, <2>1, RecordStepFrame, SameRowFrame DEF SkipRecord, db
  <2> QED BY <1>9, <2>2, VerdictFrame DEF SkipRecord, Frame, ext
<1>10. CASE Lookup(w)
  BY <1>10, VerdictFrame, SameRowFrame DEF Lookup, Frame, db, ext
<1>11. CASE WriteVerdict(w)
  <2>1. dep[w] \in Deployments
    BY <1>11 DEF WriteVerdict, ProcOK
  <2>2. RowsFrame
    BY <1>11, <2>1, SetRowFrame, SameRowFrame DEF WriteVerdict
  <2> QED BY <1>11, <2>2, ResetFrame DEF WriteVerdict, EndRecheck, Frame, ext
<1> QED BY <1>1, <1>2, <1>3, <1>4, <1>5, <1>6, <1>7, <1>8, <1>9, <1>10, <1>11,
           CommandFrame DEF DetachedStep

\* The steps of a run: createNode adopts or records only the Node of its
\* deployment, and posts only after its list showed no clash.
LEMMA RunFrame ==
  ASSUME TypeInv, NEW w \in Workers, RunStep(w)
  PROVE  Frame
<1> USE DEF TypeInv
<1>0. /\ loc[w].node \in {NoId, loc[w].node} /\ loc[w] \in Locals
      /\ pc[w] # "idle" => dep[w] \in Deployments
  BY DEF ProcOK
<1>1. CASE Acquire(w)
  <2>1. [loc[w] EXCEPT !.stage = "preflight"].node = loc[w].node
    BY <1>0 DEF Locals
  <2>2. WorkersFrame
    BY <1>0, <1>1, <2>1, GoesFrame DEF Acquire, Admitted
  <2> QED BY <1>1, <2>2, SameRowFrame DEF Acquire, Frame, db, ext
<1>2. CASE Load(w)
  <2> DEFINE retry == [loc[w] EXCEPT !.stage = "add_dns",
                         !.cur = [row[dep[w]] EXCEPT !.status = "ADDING_TO_DNS"]]
             go    == [loc[w] EXCEPT !.cur = row[dep[w]]]
  <2>1. retry.node = loc[w].node /\ go.node = loc[w].node
    BY <1>0 DEF Locals
  <2>2. Goes(w, "host", go) \/ Goes(w, "setState", retry) \/ Stop(w)
    BY <1>2 DEF Load
  <2> HIDE DEF retry, go
  <2>3. WorkersFrame
    BY <2>1, <2>2, GoesFrame, StopFrame
  <2> QED BY <1>2, <2>3, SameRowFrame DEF Load, Frame, db, ext
<1>3. CASE CheckHost(w)
  BY <1>0, <1>3, GoesFrame, FailsFrame, SameRowFrame DEF CheckHost, Frame, db, ext
<1>4. CASE Admit(w)
  <2> DEFINE locals == [loc[w] EXCEPT !.stage = "prepare_certificate"]
  <2>1. locals.node = loc[w].node
    BY <1>0 DEF Locals
  <2>2. \/ \E l \in {"work", "setState"} : Goes(w, l, locals)
        \/ Fails(w, "FAILED", loc[w].cur.step)
        \/ EnterStage(w, loc[w].cur, AllAhead)
    BY <1>4 DEF Admit
  <2> HIDE DEF locals
  <2>3. WorkersFrame
    BY <2>1, <2>2, GoesFrame, FailsFrame, EnterStageFrame
  <2> QED BY <1>4, <2>3, SameRowFrame DEF Admit, Frame, db, ext
<1>5. CASE BeginStage(w)
  <2>1. RowsFrame
    BY <1>0, <1>5, SetRowFrame, SameRowFrame DEF BeginStage, Persists, db
  <2>2. WorkersFrame
    BY <1>0, <1>5, GoesFrame, StopFrame DEF BeginStage, Persists
  <2> QED BY <1>5, <2>1, <2>2 DEF BeginStage, Frame, ext
<1>6. CASE RecordRunning(w)
  <2> DEFINE l == IF pc[w] = "record" THEN StageBody(loc[w].stage, loc[w].cur) ELSE "reload"
  <2>1. RowsFrame
    BY <1>0, <1>6, RecordStepFrame, SameRowFrame DEF RecordRunning, Persists, db
  <2>2. l # "posted"
    BY DEF StageBody
  <2>3. Goes(w, l, loc[w]) \/ Stop(w)
    BY <1>6 DEF RecordRunning, Persists
  <2> HIDE DEF l
  <2>4. CASE Goes(w, l, loc[w])
    BY <1>0, <1>6, <2>1, <2>2, <2>4, GoesFrame DEF RecordRunning, Frame, ext
  <2>5. CASE Stop(w)
    BY <1>6, <2>1, <2>5, StopFrame DEF RecordRunning, Frame, ext
  <2> QED BY <2>3, <2>4, <2>5
<1>7. CASE Preflight(w)
  BY <1>0, <1>7, GoesFrame, FailsFrame, SameRowFrame DEF Preflight, Frame, db, ext
<1>8. CASE PrepareCertificate(w)
  <2>1. [loc[w] EXCEPT !.stage = "provisioning"].node = loc[w].node
    BY <1>0 DEF Locals
  <2>2. WorkersFrame
    BY <1>0, <1>8, <2>1, GoesFrame, FailsFrame DEF PrepareCertificate
  <2> QED BY <1>8, <2>2, SameRowFrame DEF PrepareCertificate, Frame, db, ext
<1>9. CASE Provision(w)
  BY <1>0, <1>9, GoesFrame, FailsFrame, SameRowFrame DEF Provision, Frame, db
<1>10. CASE ListNodes(w)
  <2>1. ASSUME NEW n \in Exact(dep[w]), Goes(w, "persist", [loc[w] EXCEPT !.node = n])
        PROVE  WorkersFrame
    <3>1. [loc[w] EXCEPT !.node = n].node = n
      BY <1>0 DEF Locals
    <3> QED BY <2>1, <3>1, GoesFrame
  <2>2. CASE Goes(w, "post", loc[w])
    BY <1>0, <1>10, <2>2, GoesFrame, SameRowFrame DEF ListNodes, Frame, db, ext
  <2>3. CASE Fails(w, "FAILED", "create_remnawave_node")
    BY <1>10, <2>3, FailsFrame, SameRowFrame DEF ListNodes, Frame, db, ext
  <2> QED BY <1>10, <2>1, <2>2, <2>3, SameRowFrame DEF ListNodes, Frame, db, ext
<1>11. CASE PostNode(w)
  BY <1>0, <1>11, GoesFrame, FailsFrame, SameRowFrame DEF PostNode, Frame, db, ext
<1>12. CASE NodeCreated(w)
  <2> DEFINE locals == [loc[w] EXCEPT !.node = NoId,
               !.out = [status |-> "FAILED", step |-> "create_remnawave_node"]]
  <2>1. locals.node = NoId
    BY <1>0 DEF Locals
  <2>2. Goes(w, "persist", loc[w]) \/ Goes(w, "failRecord", locals)
    BY <1>12 DEF NodeCreated
  <2> HIDE DEF locals
  <2>3. WorkersFrame
    BY <1>0, <2>1, <2>2, GoesFrame
  <2>4. ~LateLanding => late' = late
    BY <1>12 DEF NodeCreated, Abandon
  <2> QED BY <1>12, <2>3, <2>4, SameRowFrame DEF NodeCreated, Frame, db
<1>13. CASE PersistNode(w)
  <2> DEFINE locals == [loc[w] EXCEPT !.cur.uuid = loc[w].node, !.node = NoId]
  <2>1. RowsFrame
    BY <1>0, <1>13, SetUUIDFrame, SameRowFrame DEF PersistNode, Persists, db
  <2>2. locals.node = NoId
    BY <1>0 DEF Locals
  <2>3. Goes(w, "complete", locals) \/ Stop(w)
    BY <1>13 DEF PersistNode, Persists
  <2> HIDE DEF locals
  <2>4. WorkersFrame
    BY <2>2, <2>3, GoesFrame, StopFrame
  <2> QED BY <1>13, <2>1, <2>4 DEF PersistNode, Frame, ext
<1>14. CASE PollNode(w)
  BY <1>0, <1>14, GoesFrame, FailsFrame, SameRowFrame DEF PollNode, Frame, db, ext
<1>15. CASE CheckHealthy(w)
  BY <1>0, <1>15, GoesFrame, FailsFrame, SameRowFrame DEF CheckHealthy, Frame, db, ext
<1>16. CASE AddIP(w)
  BY <1>0, <1>16, GoesFrame, FailsFrame, SameRowFrame DEF AddIP, Frame, db
<1>17. CASE SkipDNS(w)
  <2>1. RowsFrame
    BY <1>0, <1>17, RecordStepFrame, SameRowFrame DEF SkipDNS, Persists, db
  <2>2. WorkersFrame
    BY <1>0, <1>17, GoesFrame, StopFrame DEF SkipDNS, Persists
  <2> QED BY <1>17, <2>1, <2>2 DEF SkipDNS, Frame, ext
<1>18. CASE CompleteStage(w)
  <2> DEFINE next   == Following(loc[w].stage)
             locals == [loc[w] EXCEPT !.stage = next[2]]
  <2>1. RowsFrame
    BY <1>0, <1>18, RecordStepFrame, SameRowFrame DEF CompleteStage, Persists, db
  <2>2. next[1] # "posted"
    BY DEF Following
  <2> HIDE DEF next
  <2>3. locals.node = loc[w].node
    BY <1>0 DEF Locals
  <2>4. Goes(w, next[1], locals) \/ Stop(w)
    BY <1>18 DEF CompleteStage, Persists, next
  <2> HIDE DEF locals
  <2>5. WorkersFrame
    BY <2>2, <2>3, <2>4, GoesFrame, StopFrame
  <2> QED BY <1>18, <2>1, <2>5 DEF CompleteStage, Frame, ext
<1>19. CASE Reload(w)
  <2> DEFINE locals == [loc[w] EXCEPT !.op = IF ctx[w] THEN @ ELSE "prepared"]
  <2>1. locals.node = loc[w].node
    BY <1>0 DEF Locals
  <2>2. \/ Goes(w, "releaseSlot", locals) \/ Stop(w)
        \/ \E ahead : EnterStage(w, row[dep[w]], ahead)
    BY <1>19 DEF Reload
  <2> HIDE DEF locals
  <2>3. WorkersFrame
    BY <2>1, <2>2, GoesFrame, StopFrame, EnterStageFrame
  <2> QED BY <1>19, <2>3, SameRowFrame DEF Reload, Frame, db, ext
<1>20. CASE Finish(w)
  <2>1. RowsFrame
    BY <1>0, <1>20, SetRowFrame, SameRowFrame DEF Finish, Persists, db
  <2>2. WorkersFrame
    BY <1>0, <1>20, GoesFrame, StopFrame DEF Finish, Persists
  <2> QED BY <1>20, <2>1, <2>2 DEF Finish, Frame, ext
<1>21. CASE FailRecord(w)
  <2>1. RowsFrame
    BY <1>0, <1>21, RecordStepFrame, SameRowFrame DEF FailRecord, db
  <2>2. WorkersFrame
    BY <1>0, <1>21, GoesFrame DEF FailRecord
  <2> QED BY <1>21, <2>1, <2>2 DEF FailRecord, Frame, ext
<1>22. CASE FailState(w)
  <2>1. RowsFrame
    BY <1>0, <1>22, SetRowFrame, SameRowFrame DEF FailState, Persists, db
  <2>2. WorkersFrame
    BY <1>0, <1>22, GoesFrame, StopFrame DEF FailState, Persists
  <2> QED BY <1>22, <2>1, <2>2 DEF FailState, Frame, ext
<1>23. CASE Abort(w)
  <2>1. WorkersFrame
    <3>1. pc' = [pc EXCEPT ![w] = pc'[w]] /\ pc'[w] # "posted" /\ dep' = dep /\ loc' = loc
      BY <1>23 DEF Abort, ProcOK
    <3> QED BY <3>1 DEF ProcOK, WorkersFrame, HeldFrame, FlightFrame, InFlight
  <2>2. ~LateLanding => late' = late
    BY <1>23 DEF Abort, Abandon
  <2> QED BY <1>23, <2>1, <2>2, SameRowFrame DEF Abort, Frame, db
<1>24. CASE ReleaseSlot(w)
  BY <1>24, SameRowFrame
     DEF ReleaseSlot, ProcOK, WorkersFrame, HeldFrame, FlightFrame, InFlight, Frame, db, ext
<1>25. CASE Unregister(w)
  BY <1>25, ResetFrame, SameRowFrame DEF Unregister, Frame, db, ext
<1> QED BY <1>1, <1>2, <1>3, <1>4, <1>5, <1>6, <1>7, <1>8, <1>9, <1>10, <1>11, <1>12,
           <1>13, <1>14, <1>15, <1>16, <1>17, <1>18, <1>19, <1>20, <1>21, <1>22, <1>23,
           <1>24, <1>25 DEF RunStep

\* A crash forgets the goroutines and keeps the tables and the panel.
LEMMA CrashFrame ==
  ASSUME TypeInv, Crash
  PROVE  Frame
<1>1. WorkersFrame
  BY DEF Crash, WorkersFrame, HeldFrame, FlightFrame, Blank
<1>2. ~LateLanding => late' = late
  BY DEF Crash, Abandon
<1> QED BY <1>1, <1>2, SameRowFrame DEF Crash, Frame, db

\* Every step keeps within the frame, is a stutter, or is the panel's.
LEMMA StepFrame ==
  ASSUME TypeInv, [Next]_vars
  PROVE  Frame \/ Panel
<1>1. CASE UNCHANGED vars
  BY <1>1, SameRowFrame
     DEF vars, WorkersFrame, HeldFrame, FlightFrame, InFlight, Frame
<1>2. ASSUME NEW w \in Workers, Command(w) PROVE Frame
  BY <1>2, CommandFrame DEF Command
<1> QED BY <1>1, <1>2, RunFrame, DetachedFrame, CrashFrame DEF Next

-----------------------------------------------------------------------------
(* The recorded Node is the deployment's own. *)

\* OwnNode and what makes it inductive: a worker never holds the UUID of
\* anything but its deployment's Node.
NodeInv ==
  /\ \A w \in Workers : loc[w].node # NoId => loc[w].node \in Exact(dep[w])
  /\ OwnNode

\* The panel gives a new Node a UUID no Node has.
LEMMA PanelAdds ==
  ASSUME TypeInv, Panel
  PROVE  \E n \in NodeIds, d \in Deployments :
           /\ nodes[n] = NoNode /\ Input[d] # NoNode
           /\ nodes' = [nodes EXCEPT ![n] = Input[d]]
<1>1. \A d \in Deployments : Input[d] # NoNode
  BY ConstantsAssumption
<1>2. CASE \E w \in Workers : PanelCreates(w)
  BY <1>1, <1>2 DEF PanelCreates, InFlight, CreateUnder, Existing, TypeInv, ProcOK
<1>3. CASE \E d \in Deployments : PanelCreatesLate(d)
  BY <1>1, <1>3 DEF PanelCreatesLate, CreateUnder, Existing
<1> QED BY <1>2, <1>3 DEF Panel

\* Every step preserves NodeInv.
LEMMA NodeStep ==
  ASSUME TypeInv, NodeInv, [Next]_vars
  PROVE  NodeInv'
<1>1. CASE Frame
  <2>1. ASSUME NEW v \in Workers, loc'[v].node # NoId
        PROVE  loc'[v].node \in Exact(dep[v]) /\ dep'[v] = dep[v]
    BY <1>1, <2>1 DEF Frame, WorkersFrame, HeldFrame, NodeInv
  <2>2. ASSUME NEW d \in Deployments, row'[d].uuid # NoId
        PROVE  row'[d].uuid \in Exact(d)
    BY <1>1, <2>2 DEF Frame, RowsFrame, RowFrame, NodeInv, OwnNode
  <2> QED BY <1>1, <2>1, <2>2 DEF Frame, NodeInv, OwnNode, Exact, Existing
<1>2. CASE Panel
  <2>1. PICK m \in NodeIds, e \in Deployments :
           /\ nodes[m] = NoNode /\ Input[e] # NoNode
           /\ nodes' = [nodes EXCEPT ![m] = Input[e]]
    BY <1>2, PanelAdds
  <2>2. \A n \in NodeIds : nodes[n] # NoNode => nodes'[n] = nodes[n]
    BY <2>1 DEF TypeInv, ExtOK
  <2>3. dep' = dep /\ row' = row
    BY <1>2 DEF Panel, PanelCreates, PanelCreatesLate, procs, db
  <2>4. ASSUME NEW v \in Workers, loc'[v].node # NoId
        PROVE  loc'[v].node \in NodeIds /\ nodes'[loc'[v].node] = Input[dep[v]]
                 /\ nodes'[loc'[v].node] # NoNode
    <3>1. CASE loc'[v] = loc[v]
      BY <2>2, <2>4, <3>1 DEF NodeInv, Exact, Existing
    <3>2. CASE PanelCreates(v)
      <4>1. PICK n \in NodeIds : /\ nodes' = [nodes EXCEPT ![n] = Input[dep[v]]]
                                 /\ loc' = [loc EXCEPT ![v] = [loc[v] EXCEPT !.node = n]]
        BY <3>2 DEF PanelCreates, CreateUnder, Set
      <4>2. loc'[v].node = n
        BY <4>1 DEF TypeInv, ProcOK, Locals
      <4>3. dep[v] \in Deployments /\ nodes'[n] = Input[dep[v]]
        BY <3>2, <4>1 DEF PanelCreates, InFlight, TypeInv, ProcOK, ExtOK
      <4> QED BY <4>2, <4>3, ConstantsAssumption
    <3>3. loc'[v] = loc[v] \/ PanelCreates(v)
      BY <1>2 DEF Panel, PanelCreates, PanelCreatesLate, Set, procs, TypeInv, ProcOK
    <3> QED BY <3>1, <3>2, <3>3
  <2>5. OwnNode'
    BY <2>2, <2>3 DEF NodeInv, OwnNode, Exact, Existing
  <2> QED BY <2>3, <2>4, <2>5 DEF NodeInv, Exact, Existing
<1> QED BY <1>1, <1>2, StepFrame

\* NodeInv holds initially.
LEMMA NodeInit == Init => NodeInv
  BY DEF Init, NodeInv, OwnNode, Blank, NoRow

\* The UUID of a row is that of a Node with the deployment's name and address,
\* under every interleaving of createNode, recovery, lost replies, late
\* requests, failed writes and crashes.
THEOREM RecordsOwnNode == Spec => []OwnNode
<1>1. Init => TypeInv /\ NodeInv
  BY TypeInit, NodeInit
<1>2. TypeInv /\ NodeInv /\ [Next]_vars => (TypeInv /\ NodeInv)'
  BY TypeStep, NodeStep
<1>3. TypeInv /\ NodeInv => OwnNode
  BY DEF NodeInv
<1> QED BY <1>1, <1>2, <1>3, PTL DEF Spec

-----------------------------------------------------------------------------
(* One Node per deployment. *)

\* Every deployment asks for a Node of its own.
DistinctInputs == \A d, e \in Deployments : Input[d] = Input[e] => d = e

\* NodeOnce and what makes it inductive: nothing is on its way to the panel
\* but the requests of runs, and those were sent for deployments without Node.
OnceInv ==
  /\ late = {}
  /\ \A w \in Workers : InFlight(w) => Exact(dep[w]) = {}
  /\ NodeOnce

\* Every step preserves OnceInv when no request lands late and inputs are distinct.
LEMMA OnceStep ==
  ASSUME ~LateLanding, DistinctInputs, TypeInv, RunInv, OnceInv, [Next]_vars
  PROVE  OnceInv'
<1>1. CASE Frame
  <2>1. late' = {} /\ nodes' = nodes
    BY <1>1 DEF Frame, OnceInv
  <2>2. ASSUME NEW v \in Workers, InFlight(v)'
        PROVE  dep'[v] = dep[v] /\ Exact(dep[v]) = {}
    <3>1. dep'[v] = dep[v] /\ (InFlight(v) \/ Clashing(dep[v]) = {})
      BY <1>1, <2>2 DEF Frame, WorkersFrame, FlightFrame, InFlight
    <3>2. Exact(dep[v]) \subseteq Clashing(dep[v])
      BY DEF Exact, Clashing
    <3> QED BY <3>1, <3>2 DEF OnceInv
  <2> QED BY <2>1, <2>2 DEF OnceInv, NodeOnce, Exact, Existing
<1>2. CASE Panel
  <2>1. PICK w \in Workers : PanelCreates(w)
    BY <1>2 DEF Panel, PanelCreatesLate, OnceInv
  <2>2. PICK n \in NodeIds :
           /\ nodes[n] = NoNode
           /\ nodes' = [nodes EXCEPT ![n] = Input[dep[w]]]
           /\ loc' = [loc EXCEPT ![w] = [loc[w] EXCEPT !.node = n]]
    BY <2>1 DEF PanelCreates, CreateUnder, Set, Existing
  <2>3. /\ InFlight(w) /\ dep[w] \in Deployments /\ Exact(dep[w]) = {}
        /\ dep' = dep /\ pc' = pc /\ late' = late
    BY <2>1 DEF PanelCreates, InFlight, TypeInv, ProcOK, OnceInv
  <2>4. ASSUME NEW d \in Deployments, d # dep[w], NEW m \in NodeIds,
               nodes'[m] = Input[d]
        PROVE  nodes[m] = Input[d]
    BY <2>2, <2>3, <2>4 DEF DistinctInputs, TypeInv, ExtOK
  <2>5. ASSUME NEW m \in NodeIds, nodes'[m] = Input[dep[w]]
        PROVE  m = n
    <3>1. Input[dep[w]] # NoNode
      BY <2>3, ConstantsAssumption
    <3> QED BY <2>2, <2>3, <2>5, <3>1 DEF Exact, Existing, TypeInv, ExtOK
  <2>6. ASSUME NEW v \in Workers, InFlight(v)'
        PROVE  Exact(dep[v])' = {}
    <3>1. v # w
      <4>1. loc'[w].node = n
        BY <2>2 DEF TypeInv, ProcOK, Locals
      <4> QED BY <2>6, <4>1, ConstantsAssumption DEF InFlight
    <3>2. InFlight(v)
      BY <2>2, <2>3, <2>6, <3>1 DEF InFlight, TypeInv, ProcOK
    <3>3. dep[v] \in Deployments /\ dep[v] # dep[w] /\ Exact(dep[v]) = {}
      <4>1. "posted" \in Registered
        BY DEF Registered, Holding, Working
      <4>2. running[dep[v]] = v /\ running[dep[w]] = w
        BY <2>3, <3>2, <4>1 DEF InFlight, RunInv
      <4> QED BY <3>1, <3>2, <4>2 DEF InFlight, TypeInv, ProcOK, OnceInv
    <3>4. Input[dep[v]] # NoNode
      BY <3>3, ConstantsAssumption
    <3> QED BY <2>3, <2>4, <3>3, <3>4 DEF Exact, Existing
  <2>7. NodeOnce'
    <3> SUFFICES ASSUME NEW d \in Deployments, NEW k \in NodeIds, NEW m \in NodeIds,
                        nodes'[k] = Input[d], nodes'[m] = Input[d]
                 PROVE  k = m
      BY DEF NodeOnce, Exact, Existing
    <3>1. CASE d = dep[w]
      BY <2>5, <3>1
    <3>2. CASE d # dep[w]
      BY <2>4, <3>2, ConstantsAssumption DEF OnceInv, NodeOnce, Exact, Existing
    <3> QED BY <3>1, <3>2
  <2> QED BY <2>3, <2>6, <2>7 DEF OnceInv
<1> QED BY <1>1, <1>2, StepFrame

\* OnceInv holds initially.
LEMMA OnceInit == Init => OnceInv
  BY DEF Init, OnceInv, InFlight, NodeOnce, Exact, Existing

\* However the runs of a deployment fail, are cancelled, retried, rechecked or
\* cut short by a crash, the panel has at most one Node for it, provided that
\* deployments do not share their name and address and that the panel executes
\* no POST after its caller has given up.  Neither condition can be dropped: two
\* runs that both saw an empty list both post, and so does the retry of a run
\* whose abandoned POST the panel executes later.
THEOREM OneNodePerDeployment ==
  ASSUME ~LateLanding, DistinctInputs
  PROVE  Spec => []NodeOnce
<1>1. Init => TypeInv /\ RunInv /\ OnceInv
  BY TypeInit, RunInit, OnceInit
<1>2. TypeInv /\ RunInv /\ OnceInv /\ [Next]_vars => (TypeInv /\ RunInv /\ OnceInv)'
  BY TypeStep, RunStepInv, OnceStep
<1>3. TypeInv /\ RunInv /\ OnceInv => NodeOnce
  BY DEF OnceInv
<1> QED BY <1>1, <1>2, <1>3, PTL DEF Spec

-----------------------------------------------------------------------------
(* No two Nodes share a name or an address while one run works at a time. *)

\* NoDuplicateNodes and what makes it inductive: a request on its way to the
\* panel was sent for a deployment that clashes with no Node.
SerialInv ==
  /\ late = {}
  /\ \A w \in Workers : InFlight(w) => Clashing(dep[w]) = {}
  /\ NoDuplicateNodes

\* A semaphore of one slot keeps two requests from being on their way at once.
LEMMA OneInFlight ==
  ASSUME MaxConcurrent = 1, TypeInv, RunInv, NEW v \in Workers, NEW w \in Workers,
         InFlight(v), InFlight(w)
  PROVE  v = w
<1>1. "posted" \in Holding
  BY DEF Holding, Working
<1>2. v \in slots /\ w \in slots /\ Cardinality(slots) <= 1
  BY <1>1 DEF RunInv, SlotAccounting, InFlight
<1>3. IsFiniteSet(slots)
  BY FS_Subset, SemaphoreAssumption DEF TypeInv, SvcOK
<1>4. IsFiniteSet({v}) /\ Cardinality({v}) = 1 /\ {v} \in SUBSET slots
  BY <1>2, FS_Singleton
<1>5. Cardinality({v}) <= Cardinality(slots) /\ Cardinality(slots) \in Nat
  BY <1>3, <1>4, FS_Subset, FS_CardinalityType
<1>6. Cardinality(slots) = Cardinality({v})
  BY <1>2, <1>4, <1>5
<1>7. slots = {v}
  BY <1>3, <1>4, <1>6, FS_Subset
<1> QED BY <1>2, <1>7

\* Every step preserves SerialInv when the semaphore has one slot.
LEMMA SerialStep ==
  ASSUME ~LateLanding, MaxConcurrent = 1, TypeInv, RunInv, SerialInv, [Next]_vars
  PROVE  SerialInv'
<1>1. CASE Frame
  <2>1. late' = {} /\ nodes' = nodes
    BY <1>1 DEF Frame, SerialInv
  <2>2. ASSUME NEW v \in Workers, InFlight(v)'
        PROVE  dep'[v] = dep[v] /\ Clashing(dep[v]) = {}
    BY <1>1, <2>2 DEF Frame, WorkersFrame, FlightFrame, InFlight, SerialInv
  <2>3. \A v \in Workers : InFlight(v)' => Clashing(dep[v])' = {}
    BY <2>1, <2>2 DEF Clashing, Existing
  <2> QED BY <2>1, <2>3 DEF SerialInv, NoDuplicateNodes, Existing
<1>2. CASE Panel
  <2>1. PICK w \in Workers : PanelCreates(w)
    BY <1>2 DEF Panel, PanelCreatesLate, SerialInv
  <2>2. PICK n \in NodeIds :
           /\ nodes[n] = NoNode
           /\ nodes' = [nodes EXCEPT ![n] = Input[dep[w]]]
           /\ loc' = [loc EXCEPT ![w] = [loc[w] EXCEPT !.node = n]]
    BY <2>1 DEF PanelCreates, CreateUnder, Set, Existing
  <2>3. /\ InFlight(w) /\ dep[w] \in Deployments /\ Clashing(dep[w]) = {}
        /\ dep' = dep /\ pc' = pc /\ late' = late
    BY <2>1 DEF PanelCreates, InFlight, TypeInv, ProcOK, SerialInv
  <2>4. ASSUME NEW v \in Workers, InFlight(v)' PROVE FALSE
    <3>1. loc'[w].node = n /\ n # NoId
      BY <2>2, ConstantsAssumption DEF TypeInv, ProcOK, Locals
    <3>2. v # w
      BY <2>4, <3>1 DEF InFlight
    <3>3. InFlight(v)
      BY <2>2, <2>3, <2>4, <3>2 DEF InFlight, TypeInv, ProcOK
    <3> QED BY <2>3, <3>2, <3>3, OneInFlight
  <2>5. ASSUME NEW m \in NodeIds, m # n, nodes'[m] # NoNode
        PROVE  /\ nodes'[m] = nodes[m] /\ nodes[m] # NoNode
               /\ nodes[m].name # Input[dep[w]].name /\ nodes[m].addr # Input[dep[w]].addr
    BY <2>2, <2>3, <2>5 DEF Clashing, Existing, TypeInv, ExtOK
  <2>6. nodes'[n] = Input[dep[w]]
    BY <2>2 DEF TypeInv, ExtOK
  <2>7. NoDuplicateNodes'
    <3> SUFFICES ASSUME NEW k \in NodeIds, NEW m \in NodeIds,
                        nodes'[k] # NoNode, nodes'[m] # NoNode, k # m,
                        \/ nodes'[k].name = nodes'[m].name
                        \/ nodes'[k].addr = nodes'[m].addr
                 PROVE  FALSE
      BY DEF NoDuplicateNodes, Existing
    <3>1. CASE k = n \/ m = n
      BY <2>5, <2>6, <3>1
    <3>2. CASE k # n /\ m # n
      BY <2>5, <3>2 DEF SerialInv, NoDuplicateNodes, Existing
    <3> QED BY <3>1, <3>2
  <2> QED BY <2>3, <2>4, <2>7 DEF SerialInv
<1> QED BY <1>1, <1>2, StepFrame

\* SerialInv holds initially.
LEMMA SerialInit == Init => SerialInv
  BY DEF Init, SerialInv, InFlight, NoDuplicateNodes, Existing

\* The check of CreateNode before its POST protects names and addresses as long
\* as one run works at a time (MAX_CONCURRENT_DEPLOYMENTS = 1) and no POST lands
\* late, whatever the deployments ask for and however many workers there are.
\* With two slots, two runs may both read the list before either posts.
THEOREM SerialRunsNeverClash ==
  ASSUME ~LateLanding, MaxConcurrent = 1
  PROVE  Spec => []NoDuplicateNodes
<1>1. Init => TypeInv /\ RunInv /\ SerialInv
  BY TypeInit, RunInit, SerialInit
<1>2. TypeInv /\ RunInv /\ SerialInv /\ [Next]_vars => (TypeInv /\ RunInv /\ SerialInv)'
  BY TypeStep, RunStepInv, SerialStep
<1>3. TypeInv /\ RunInv /\ SerialInv => NoDuplicateNodes
  BY DEF SerialInv
<1> QED BY <1>1, <1>2, <1>3, PTL DEF Spec
=============================================================================
