# Verification of remnanode-setup-bot

The bot deploys VPN nodes: an operator gives a Telegram wizard a Remnawave Host,
a VPS and a name; the bot prepares the VPS over SSH, registers a Node in the
Remnawave panel, waits until it is connected, and publishes the address in a
DNS balancer zone. All progress is kept in PostgreSQL so that a restart, a failed
step or an operator can pick a deployment up where it stopped.

The project models what the bot keeps (rows, steps, registrations, semaphore,
locks) and what it changes outside (panel, DNS zones, VPS), with one action per
repository transaction or external call. TLC checks the modules on small instances;
TLAPS proves the central invariants for every value of the constants.

## Inventory

| Component | State | Operations | Interacts with |
|---|---|---|---|
| Deployment service (`internal/orchestrator/service.go`) | `running` map, `semaphore` channel | Prepare, Deploy, RetryDNS, RetryFailedStep, Cancel | tables, panel, DNS, VPS, certificates |
| Recovery service (`internal/recovery/service.go`) | none | RecoverUnfinished, RecheckRemnawave | tables, panel, DNS |
| Deployment tables (`internal/repository/postgres/postgres.go`) | `deployments`, `deployment_steps` | create, update state, record step, set UUID / address / Host | written by both services without a version check |
| Remnawave client (`internal/remnawave`) | none (the panel's Nodes are external) | GetNodes, GetNode, CreateNode, UpdateNodeAddress, UpdateNodeProfile | |
| DNS balancer client (`internal/dnsbalancer/client.go`) | none (zones are external) | AddIP, ReplaceIP, MoveIP: complete-list replacement under a lock per FQDN | keyed lock |
| Keyed lock (`internal/dnsbalancer/lock.go`, same in `internal/certmanager/lock.go`) | map of reference-counted entries with a token channel | Lock, unlock | its callers' contexts |
| Node operations (`orchestrator/ip_change.go`, `dns_sync.go`, `node_host_move.go`, `node_sni.go`) | share `running` and `semaphore` | ReplaceNodeIP, SyncNodeDNS, MoveNodeToHost, with compensation | panel, zones, row, VPS |
| Certificate manager (`internal/certmanager`) | certificate rows, files, active marker, reviews of unknown targets | Prepare, RenewDue, Bootstrap, Rollback | ACME, Nodes, advisory lock on a pooled connection |
| Provisioning (`internal/provisioner`) | step rows; files, containers and certificate pair on the VPS | preflight, run the stages not yet COMPLETED, renew the pair, switch the SNI | VPS |
| Telegram sessions (`internal/telegram/session.go`, `controller.go`) | wizard per user, nonce, expiry | confirm, cancel, replace, expire; starts the runs as goroutines | deployment service |
| Node monitor (`internal/telegram/node_monitor.go`) | consecutive samples and last notification per Node | sample, alert, recover | panel, Telegram |
| SSH host keys, IP services, ACME / Cloudflare, rendering, configuration, health, metrics, logging | see `PROJECT.json` | | |

What is hard, and what correctness means, per component:

* **Deployment service.** Operators click twice, cancel while a run waits for a
  slot, retry while the failed run is still returning. A run is a sequence of
  transactions and calls, each of which may fail with or without its effect;
  between any two of them another goroutine may run or the process die. Correct
  means: one run per deployment, no slot leaked, one Node per deployment, nothing
  recorded that did not happen, nothing forgotten.
* **Recovery service.** It decides from what it reads of the panel and the zone,
  and writes without registering, so a live run and a recheck write one row in
  turn. Correct means: its verdict never claims more than what exists, it adopts
  only the deployment's own Node, and it terminates.
* **DNS balancer client and keyed lock.** A PATCH replaces a list; two cycles that
  interleave lose an address. Correct means: mutual exclusion per zone whatever
  the cancellations, no deadlock between moves, no address of another Node
  touched, no lock entry leaked.
* **Node operations.** Three or four external systems change one after another
  and a failure has to be compensated with calls that fail too.
* **Certificate manager.** Nodes, files, marker and rows move separately and are
  compensated by calls that fail too; its callers hold a connection each while they
  wait for one another. Correct means: one active version that the Nodes serve, no
  acknowledgement lost, nobody stuck.
* **Provisioning.** A retry meets a VPS in whatever state the failed attempt left.
  Correct means: what is recorded COMPLETED has happened, a renewal or a switch never
  leaves a container that cannot start, and a retry can succeed.
* **Sessions.** Updates, timers, goroutines and the shutdown compete for one wizard.
  Correct means: a prepared deployment is started once or cancelled, and never dropped;
  a root password is overwritten in the end and not earlier.
* **Node monitor.** No alert without its confirmations, none repeated too soon, none
  withheld, despite lost messages and gaps in the telemetry.

`PROJECT.json` lists the hazards at their lines with the properties that cover them.

## Modules

| Module | Content |
|---|---|
| `DeploymentWorkflow` | the deployment and recovery services with tables, panel, zone, VPS and crashes |
| `DeploymentLifecycle` | what the workflow promises of its outside effects (abstract specification) |
| `MCDeploymentWorkflow` | instances for TLC |
| `DeploymentRuns_proofs`, `DeploymentNodes_proofs`, `DeploymentTruth_proofs` | theorems: types, runs and slots; Nodes; what is recorded, and the refinement |
| `KeyedLock` | the lock per key of the DNS client and of the certificate manager |
| `DNSZones` | `KeyedLock` composed with AddIP, ReplaceIP and MoveIP over the balancer's zones |
| `MCDNSZones` | instance for TLC |
| `DNSZones_proofs` | theorems about the lock and the zones |
| `NodeOps` | ReplaceNodeIP, SyncNodeDNS and MoveNodeToHost over panel, zones, VPS and row |
| `MCNodeOps`, `NodeOps_proofs` | instances for TLC, theorems |
| `CertManager`, `MCCertManager`, `CertManager_proofs` | the certificate manager for one panel and SNI; its callers for TLC; theorems |
| `VPS`, `MCVPS`, `VPS_proofs` | preflight, provisioning, renewal and SNI switch on one VPS; instance for TLC; theorems |
| `TelegramSessions` | wizards, handlers, timers, goroutines and shutdown of `internal/telegram` |
| `NodeMonitor` | the monitor of the Nodes' online counts |
| `MCTelegram`, `Telegram_proofs` | both of them for TLC; theorems about both |

### DeploymentWorkflow

| Variable | Code |
|---|---|
| `row`, `steps` | tables `deployments` (status, current_step, remnawave_node_uuid) and `deployment_steps` |
| `nodes`, `late` | the panel's Nodes by UUID; POST requests still on their way after the caller gave up |
| `zone`, `provisioned` | addresses in the balancer zone; VPSs that went through `vps.Provision` |
| `running`, `slots` | `DeploymentService.running` and `semaphore` |
| `tickets` | the Telegram session's one-time right to start a prepared deployment |
| `todo` | what `RecoverUnfinished` still has to classify after a restart |
| `pc`, `dep`, `ctx`, `loc` | the goroutines: position, deployment, `ctx.Err() != nil`, locals |

A *worker* is a goroutine running an operator's command. A step is one repository
transaction or one external call together with the control flow up to the next
one, which touches only the goroutine's locals. `Persists` is a repository write
of a run: committed, committed with the reply lost, or failed; both errors end the
run, as in the code. `Goto` leaves the run as soon as its context is cancelled;
`Abort` is the cancellation seen by a pending call or by the `select` of
`acquire`. `failStage` makes both of its writes even when the first one fails.
`RetryFailedStep` writes the row *before* it registers, `Cancel` signals, reads
and writes in three steps, and a recheck never registers: the model keeps these
windows.

External calls that only succeed or fail (preflight, certificate, provisioning,
polling) are a choice between both; the panel executes a POST in a step of its own
(`PanelCreates`), so that it may succeed with the reply lost. `LateLanding` also
lets the panel execute it after the client gave up. The panel's Nodes are not
deleted or edited by others in this module. `Crash` wipes what the process holds
in memory and starts recovery, which runs before Telegram is served.

Abstracted: message texts, timestamps and durations, the Host and SNI fields
(`CheckHost` succeeds or fails), the content of certificates and secrets. The
status `DNS_FAILED` with which `addDNS` leaves a deployment, the `SKIPPED` step of
a panel without DNS balancing and the ignored error of its recording are kept.

### KeyedLock and DNSZones

| Variable | Code |
|---|---|
| `entries`, `token`, `refs` | `MemoryZoneLocker.entries`; of every `lockEntry`, whether its channel holds the token and how many callers count on it |
| `at`, `ent` | per goroutine and key: idle, waiting in the `select`, holding, token returned; the entry it got from the map |
| `zone` | the balancer's zones: `ips`, `nodes` and whether there is a `nodes` list at all (`adv`) |
| `pc`, `op`, `ctx`, `seen` | per goroutine: position, its call, `ctx.Err() != nil`, the zones its GET returned |

Every section of `lock.go` that runs under the mutex is one step; receiving and
returning the token are steps of their own, so an unlock has two halves and a
waiter may take the token between them. Go's allocator is a choice among the
entries nobody refers to. `certmanager.MemoryLocker` is the same code.

AddIP, ReplaceIP and MoveIP are the lock, the GET, up to three PATCH requests and
the deferred unlocks. The balancer itself is external: a GET returns all zones, a
PATCH replaces the list it names and keeps the other one. A request fails without
an effect, succeeds, or, for the labels in `LostReplies`, takes effect although its
caller gets an error. A cancelled context lets nothing more succeed, the restoring
PATCH of a move included, as in the code. Keys are numbered in the order in which
Go compares the FQDNs, since a move locks the smaller one first.
`zoneSnapshotRequest` keeps the code's handling of an empty `nodes` list, which it
sends as an empty `ips` list.

Abstracted: weights and other fields of an advanced node, the
order of a list, TTLs.

### NodeOps

| Variable | Code |
|---|---|
| `panel` | the panel's address and profile of every Node (each Host of the model has a profile and an SNI of its own) |
| `zones`, `sni` | the addresses in the zone of each Host's SNI; the SNI the VPS of a Node serves |
| `rec` | `target_vps_ip` and `sni_domain` of the Node's deployment row, if it has one (`Managed`) |
| `running`, `slots` | `DeploymentService.running` with the keys `node-ip:`, `node-dns:`, `node-host:` and the UUID; the semaphore |
| `stopping` | SIGTERM was received: all contexts are cancelled, and the process waits for the goroutines |
| `pc`, `job`, `loc` | the goroutines: position, the confirmed request, locals |
| `spoiled`, `dirty` | history only: Nodes with a lost reply, a failed compensation or a killed operation; Nodes edited in the panel since their last synchronization |

Every call to the panel, the balancer, the VPS or the database is a step that fails,
succeeds, or takes effect and returns an error (`Call`). A zone update is
one step: `DNSZones` shows that the client's locks make it so. What a failed MoveIP
leaves behind (`MoveIPHalf`) is what that module has: the address in both zones or in
neither. Under a cancelled context nothing succeeds, the compensation of a
replacement included, but not that of a move, which uses `context.WithoutCancel`.
A killed operation is not taken up again by anything (`Kill`). `PanelEdit` is the
operator who changes an address in the panel itself.

Abstracted: the previews, whose results are the request's confirmed values; Hosts
that share a profile or an SNI, for which the code refuses to choose; certificates
and shell commands (a call that succeeds or fails); the check of the profile the
panel returns (a failed update).

### CertManager

| Variable | Code |
|---|---|
| `active`, `vstatus` | `certificate_records.active_version`, the status in `certificate_versions` |
| `issued`, `old`, `marker` | version directories; those of the legacy store (`FallbackStore`); the file `current` |
| `due`, `expired` | the clock: which versions are within `RenewBefore` of their end, which are past it |
| `zone`, `identified`, `review` | published addresses; those with deployment, Node and host key; `certificate_target_reviews` |
| `serving` | the version each Node serves |
| `lock`, `free` | the advisory lock; connections left in the pool |
| `op` | per goroutine: the call, its position and locals |
| `stray` | history only: Nodes left behind by a failed compensation, a crash or a late installation |

`Prepare`, `RenewDue`, `Bootstrap` and `Rollback` share the actions of
`issueAndActivate`, `distribute` and `restoreDistributedVersion`; every query, file
operation and Node update is a step. A query needs a free connection beside the one the
lock was taken on, which is what `NobodyStuck` is about. Versions are numbered in the
order they were issued, so that "newest" and "expired" are comparisons. A Node's update
succeeds, fails, or fails in its own rollback too; what happens inside is `VPS`.

### VPS

| Variable | Code |
|---|---|
| `passed`, `steps`, `sni` | the deployment's preflight, its `deployment_steps`, the SNI of its row |
| `host.key`, `.written`, `.live` | `authorized_keys`; stages whose files are there; stages whose service runs |
| `host.repo`, `.built`, `.env`, `.files`, `.backup`, `.left` | checkout, build stamp, `.env`, pair, `.certificate-previous`, `.sni-switch-previous` |
| `host.up`, `.served`, `.loaded` | the container: running, SNI it was started with, pair it has loaded |
| `job` | per goroutine: preflight, provisioning, renewal or switch, and the commands still to run |
| `faults` | failures so far |

A job is a list of commands. `Can` is when a command exits with 0, `After` what it
does, `AfterFault` what it may have done when it is reported as failed. `Satisfied`,
`ApplyPlan` and `StageCheck` are a stage's Inspect, Apply and Validate; the plan of the
installer (`InstallPlan`) depends on what `inspectState` finds. A script is one step:
each of them checks, stages and renames, or rolls back by its own `trap`, which is
assumed to be able to start the container again.

### TelegramSessions

| Variable | Code |
|---|---|
| `sessions`, `wiz` | `Controller.sessions`; the wizard objects: state, deadline passed, password held, deployment prepared, card sent |
| `handler` | `Controller.Handle`: position, and the snapshot that `loadSession` returned |
| `worker` | goroutines counted by `Controller.workers` |
| `cancelling` | `CancelDeployment` calls under way, by the context they were made with |
| `deps`, `uses` | the prepared deployment's fate: handed over, cancelled, refused (the application answered a call whose context lives with an error), lost (the last call was made with the cancelled context of the process, or cut off by its end); operations executed per confirmation |
| `phase` | running, context cancelled, `Close` called, exited |

Every critical section under `Controller.mu` is one step and every message or
application call lies between two, so a session may expire, or the process stop,
between the snapshot a handler works with and its use. The moves of the wizard that only
collect data are relations named after the functions that make them (`acceptNodeName`,
`beginDNSSync`, ...), all executed by `Advance`. A deadline that has passed is noticed by
the timer or by whichever access comes first, as in the code.

`PreparedSettles` does not count `lost` as settled. It has two parts. While the process
runs, every prepared deployment is handed over, cancelled or refused in the end; and a
deployment that a session still holds when `Close` runs is cancelled or refused before the
process exits. Between the two, from the cancellation of the context to `Close`, the code
gives no such guarantee: the handlers of updates already received (the error paths of
`acceptPassword` and `startDeployment`, `cancelExisting`, `cancelFromMessage`) and the
goroutine of a confirmed deployment call with the cancelled context, and `Exit` does not wait for
the call of a timer. Those rows stay unfinished until the startup recovery of the next
process, so the property claims nothing about them.

### NodeMonitor and MCTelegram

`states` is `NodeMonitor.states` with ages in place of times, `tick` the ticker's channel,
`facts` what the panels say of a Node; `sent`, `seen` and `heard` are history only, computed
from what was delivered and not from `states`. `MCTelegram` checks sessions and monitor in
one run: they share nothing but the chats, so each behaviour has one of them running and the
other stopped from its start, which explores the sum of the two state spaces.

## Runs

| Run | Instance | Shows |
|---|---|---|
| `workflow_retry` | 1 deployment, 1 slot; a worker that prepares, deploys and retries, and one that deploys, retries DNS, rechecks and cancels; failing calls, crashes | type correctness; runs exclusive; `CompletedSound`, `StepTruth` with two services writing one row |
| `workflow_faults` | 1 deployment, 1 worker, all commands, failed and unacknowledged commits, late requests, crashes | `CompletedSound`, `StepTruth` under every fault |
| `workflow_clash` | 2 deployments that want one name, all commands, crashes | `OwnNode`, `NoDuplicateNodes`, `NodeOnce`, `NoOrphan`, `CompletedFinal`; implements `DeploymentLifecycle` |
| `workflow_live` | 2 deployments, 2 workers, 1 slot, 2 Node ids, no DNS balancing, crashes, fairness | `RunsEnd`, `RecoveryEnds`, `SlotAccounting`, `ProvisionedFirst` |
| `dns_zones` | 2 goroutines, 2 zones, 2 lock entries, 3 addresses; moves both ways, add, replace; simple, advanced and mixed zones; cancellations, failures, lost replies; deadlock checked; fairness | `Mutex`, `EntriesExact`, `OwnAddressesOnly`, `NeverUnpublished`, `OpsEnd` |
| `node_ops` | 2 goroutines, 2 Nodes, 2 Hosts, 4 addresses; both goroutines replace the address of the first Node, one also synchronizes and moves the second, which operators edit; failures, one Node with lost replies or compensations, shutdown, kill | `Agreement`, `NoStaleReplace` |
| `certs` | a deployment, an operator and the renewal loop; 2 versions, one of them possibly of the legacy store; a managed and a foreign address; all faults but a lost reply of the activation | `OneActive`, `NodesServeActive`, `AcknowledgementKept`, `NobodyStuck` |
| `vps` | all 12 stages, 2 certificates of the VPS's SNI and 1 of another, 5 faults | `StagesTrue`, `RestartSafe`, `RetrySucceeds` |
| `telegram` | 2 operators, 2 conversations, one handler, shutdown; 1 Node, 2 confirmations, an interval of 4 | `NeverForgotten`, `SettledOnce`, `PasswordKept`, `PreparedSettles`; `AlertsJustified`, `CriticalReported` |
| `finding_provision` | 1 worker: prepare, recheck, deploy | violates `ProvisionedFirst` |
| `finding_cancel` | 2 workers: prepare, deploy, cancel | violates `CancelledFinal` |
| `finding_sync` | 2 goroutines, SyncNodeDNS and ReplaceNodeIP of one Node | violates `SyncFollowsPanel` |

**Bounds.** Two workers give the pairs of operations on one deployment (`Commands` says
who issues which); a third adds only another waiter, and the exclusion and accounting properties are proved
for any number. The same holds for the two goroutines of `dns_zones`; two zones are
what a move and a lock cycle need, and one entry per zone is all that two
goroutines can reach. Two Node ids are what a duplicate needs. Two deployments with one
slot give contention for the slot and the clash of names. In `node_ops` two addresses per
Node let an operation be confirmed, overtaken and repeated, and `MaxSpoiled` = 1 lets
one Node at a time be left inconsistent, so that `Agreement` still has another to judge. In `certs` two versions are an active and a new one, the
legacy store included, and one managed address of two is enough for a distribution that
succeeds and a target that is unknown. `MaxFaults` of `vps` lets an attempt, its rollback and two
retries fail; more only repeats them. In `telegram` a conversation can be replaced by a second
one or meet that of another operator, and an interval of 4 is longer than the confirmations. Nothing else is
bounded: retries, rechecks, cancellations and
crashes repeat without limit and the state space is finite by itself. Symmetry is used over Node ids, and over
workers with the same commands, in runs without liveness. Deadlock is checked except in `workflow_live`,
`finding_provision` and `finding_cancel`, where a bot whose deployments are all complete or cancelled
really rests, and in `telegram`, where the process may have stopped. Since a crash or a cancellation is nearly always
possible it says little: that nobody waits for ever is what `RunsEnd` and `OpsEnd` say.

**Where a property is checked with one worker.** `NoDuplicateNodes`, `NoOrphan` and
`CompletedFinal` hold when commands come one after the other and fail when two
commands on the same row or name overlap (the list-then-POST of the panel client,
the read-then-write of `RetryFailedStep`). The hazards in `PROJECT.json` name the
lines.

**What `dns_zones` leaves out.** `LostReplies` has every PATCH but that of the source
zone. With that one in, `NeverUnpublished` fails: the source has been changed, the
client believes it has not, and the restoring PATCH takes the address out of the
target too. Nothing in the repository promises otherwise, so this is listed as a
hazard and not as a finding. The advanced zones keep another Node throughout, so
that the empty snapshot of `zoneSnapshotRequest` is not sent.

**What `certs`, `vps` and `telegram` leave out**, each a constant of the module and a hazard
in `PROJECT.json`. With as many callers as connections (`Pool` = 3 in `certs`)
`NobodyStuck` is violated: all connections are held by callers that wait for the lock, and
its holder waits for a connection. With a lost reply of ActivateVersion (`LostActivation`)
`OneActive` is violated. With a renewal during a switch (`Overlap`) `StagesTrue`, and with
another certificate in a later attempt (`Prepared` = {a1, a2}) `RetrySucceeds` is violated.
sysctl and limits, whose inspection reads their files alone, are not covered by `StagesTrue`.
With two handlers, which a comment of the controller allows and `BotAPI.Run` does not use,
`NeverForgotten` is violated.

**Fairness.** `WF` of every goroutine's steps: the Go scheduler runs each goroutine
and every call has a timeout. `SF` of `Acquire`: a buffered channel serves its
waiting senders in FIFO order. The panel answers or the request times out. Crashes
are not restricted; `RecoveryEnds` excepts a process that crashes again and again,
which finishes nothing. Operators owe nothing: no command is assumed to be issued. In
`DNSZones`, `WF` of every goroutine's steps and `SF` of taking a token, for the same
reasons; no call is assumed to be made and no context to be cancelled. In
`TelegramSessions`, `WF` of the steps of handlers, goroutines, calls and timers, whose clients have
timeouts; updates need not come. In `NodeMonitor`, the ticker ticks, and `SF` of a sample that
finds panels, metrics and Telegram working: a monitor that never reaches Telegram reports nothing. In
`VPS`, jobs go on and an operator retries a provisioning that failed, which the bot does not do
by itself; `RetrySucceeds` says that the retries cannot all be in vain.

**What `node_ops` leaves out.** Two *kinds* of operation on one Node at the same
time: they register under different keys and can contradict each other, which
`finding_sync` shows for one pair and the hazards list for the others. Edits of the
Node whose address the bot replaces, and two Nodes that compete for one new address,
are hazards too.

## Findings

* `finding_provision`. `/recheck` of a prepared deployment turns `PREFLIGHT` into
  `MANUAL_REVIEW`; `Deploy` does not reject that status, skips provisioning because
  the status is none of the provisioning ones, and creates the Node because no UUID
  is recorded. README and HANDOFF say that Node creation is gated on provisioning.
  Without recheck the property holds (`workflow_live`).
* `finding_cancel`. `Cancel` looks for a registered run, reads the row and writes
  `CANCELLED`. A run that registers in between is not signalled and overwrites it.
* `finding_sync`. README says of the synchronization that "a fresh Remnawave read at
  confirmation prevents stale previews from modifying DNS". Between that read and the
  update of the zone a replacement of the Node's address may run from start to end,
  since the two register under different keys; the synchronization then writes the
  address the panel has given up back to DNS and to the row. No call needs to fail.

## Proofs

**Workflow.** These theorems are about `Spec` of `DeploymentWorkflow`, with all faults allowed, for
every set of deployments, names, addresses and Node ids, from `ConstantsAssumption`
(the null values are no members of the sets, inputs are well typed) and, for the
semaphore, `SemaphoreAssumption` (finitely many workers, a positive capacity).

* `TypeCorrect`: `Spec => []TypeOK`. `TypeInv` adds that a worker that is not idle
  has a deployment, and that a stage about to begin is one of `Stages`; without the
  first, a write could go to the row of no deployment.
* `RunsExclusive`, `SlotsAccounted`: from `RunInv`, which ties the labels of the
  workers to the `running` map in both directions, keeps cancelled contexts to
  registered runs, and contains the slot accounting. Every action is shown to have
  one of two shapes (a run that stays between `acquire` and `releaseSlot`, a worker
  that stays unregistered) or is one of the five that register, acquire, abort,
  release and unregister, or the crash.
* `RecordsOwnNode`: from `NodeInv`, which extends `OwnNode` to the UUIDs the workers
  hold. `Frame` bounds what a step of the bot may do to Nodes, UUIDs and workers.
* `OneNodePerDeployment`: from `OnceInv`: a request in flight means that no Node
  clashes with its deployment. It assumes `DistinctInputs` (every deployment has
  its own name and address) and `~LateLanding`: with a request that outlives its
  client the code does create a second Node, since neither side has an idempotency
  key.
* `SerialRunsNeverClash`: `Spec => []NoDuplicateNodes` with one slot and `~LateLanding`,
  for deployments that want one name or address as well. `SerialInv` says that no
  Node clashes with a request on its way; one slot means one request (`OneInFlight`). With two slots the list-then-POST of the client does clash.
* `CompletedIsSound`, `StepsAreTrue`: `Spec => []CompletedSound` and `[]StepTruth`, under
  every fault. Neither is inductive: a goroutine writes COMPLETED some calls after the fact.
  `TruthInv` has what a goroutine may claim at each label of the row it is about to write
  (`Claims`), that a deployment with a ticket or in the list read at startup has a row
  (`Listed`), and that rows and steps are true (`RowsTrue`, `StepsTrue`). That Nodes and published addresses
  only grow in this module (`Grows`) is why another goroutine cannot make a claim false.
* `WorkflowRefinesLifecycle`: `Spec => ImplementsLifecycle`, step by step, from `NodeInv`,
  `OnceInv` and `TruthInv`, when no request outlives its client and the deployments have addresses of
  their own.
* `CompletedStays`: `Spec => CompletedFinal`, under every fault, if there is one goroutine
  (`SoleWorker`) or nobody issues the commands that write a status without being registered
  (`RunsOnly`: no RetryFailedStep, Cancel, RecheckRemnawave). `FinalInv` says that a goroutine at a
  label that overwrites the status of a deployment knows that it is not COMPLETED, and that the
  list read at startup has no such deployment. Without the hypothesis a cancel or retry that
  read the row before the run completed writes it afterwards.
* `NodesAfterProvisioning`: `Spec => []ProvisionedFirst`, for any number of goroutines, all faults,
  crashes, retries and cancellations, if nobody calls RecheckRemnawave (`NoRecheck`) and the
  deployments ask for different Nodes (`DistinctInputs`). `finding_provision` is why the
  first is needed. `ProvisionInv` says for each label, and for each status
  and step a row can have, whether it implies a provisioned server (`AllEarned`, `RowsEarned`); that a request
  on its way does; that the rechecks of the startup recovery run by themselves
  (`RecoveryAlone`); and that nobody can start a deployment under manual review (`ReviewHeld`).
* `NoneForgotten`: `Spec => []NoOrphan`, with crashes and panel and balancer failures at any
  point, if writes to the tables do not fail (`~DBFaults`) and there is one goroutine or nobody retries or
  cancels (`Undisturbed`). `RecordedInv` says that a deployment past createNode has its UUID
  recorded; `OrphanInv` that an unsettled deployment has a goroutine, a session or its turn in the
  recovery (`Cared`) and what a goroutine knows of the status of its row at each label
  (`Bound`), so that one that stops leaves a settled status. TLC has checked both on two
  goroutines that prepare, deploy and recheck, and on one with all commands. Each hypothesis is needed,
  as TLC shows: a failed write ends the run and leaves the row; a cancelled run writes its row
  after Cancel did; a retry resets the status while the run it follows is still registered,
  and is then refused; a retry of the DNS step keeps a Prepare from registering.

**Locks and zones.** For every finite set of goroutines and every set of keys, entries,
addresses and calls (`LockAssumption`, `ZonesAssumption`).

* `LockExcludes`, `LockTableExact`: `LockSpec => []Mutex` and `[]EntriesExact`, from
  `LockInv`. `Mutex` is not inductive: `EntriesExact` says that all users of a key use
  the entry in the map, `Separate` that two keys never share an entry, and `TokenExact`
  that an entry in use has its token exactly when nobody holds it.
* `ClientsOfLock`: every step of `DNSZones` is a step of `LockNext` or leaves the lock
  alone; `ZonesExclusive` and `ZoneLocksExact` carry both results over.
* `ZonesTyped`: `Spec => []ZonesTypeOK`.
* `ZonesSerialized`: `Spec => OwnAddressesOnly`, for zones of both formats and mixed
  configurations, if every advanced zone has a node that no call is about (`KeptZones`, which the
  instance of `dns_zones` satisfies). `SerialInv` adds to `LockInv` that a call that has read holds all
  its locks, and that what it read differs from the zone now at most by its own
  address (`SeenNear`), which is what a complete-list PATCH needs. `KeptZones` is needed because
  the restoring PATCH of an empty "nodes" list is sent as an empty "ips" list.
* `AddressesStayPublished`: `Spec => NeverUnpublished`, from `KeptZones` and if the reply to the PATCH
  of a move's source is not lost (see "What `dns_zones` leaves out"). `MoveInv` says that
  a move that is patching still has its address in the source, and before it patches the source
  in the target too; the locks keep other calls away from both zones meanwhile.

**Node operations.** For every set of Nodes, Hosts, addresses, requests and goroutines and
every capacity, under all faults (`NodeOpsAssumption`).

* `NodeOpsTyped`: `Spec => []NodeOpsTypeOK`. `TypeInv` adds `HasRead`: at the labels
  behind a read the locals it sets are no null values, and a goroutine that is not idle
  has a request.
* `ReplaceFreshness`: `Spec => []NoStaleReplace`. The comparison is made two calls before
  the update; `FreshInv` carries it over (`Compared`), which needs that at most one
  goroutine has a given key (`Registered`), that only a replacement reaches these labels
  (`Kinds`), and that every step that sets an address is one of a replacement of that
  Node (`OpStep`). Edits in the panel itself are outside the key; the theorem is about the
  Nodes without any.
* `OperationsAgree`: `Spec => []Agreement`, with any calls failing and any shutdown or kill,
  under two hypotheses about what operators ask for: Nodes have addresses of their own
  (`OwnAddresses`), and the operations different goroutines are asked for on one Node are of one
  kind (`OneKind`), so that the registration serializes them; two kinds do break it
  (`finding_sync`). Agreement is broken in the middle of every operation, so `AgreeInv` states
  for each label (`ReplaceFact`, `SyncFact`, `MoveFact`) what of panel, VPS, zones and row
  has already changed and what a rollback has taken back, and for a Node nothing works on the
  agreement itself; `OwnInv` adds that addresses stay with their Node and locals with their
  kind of operation. A step on one Node leaves the facts of every other alone (`Apart`). An edit
  in the panel excuses the address until a synchronization has succeeded; `SyncFact` says that a
  synchronization changes only Nodes that were edited. A Node with a lost reply, a failed
  compensation or a killed operation is excused for good. The instance of `node_ops` satisfies
  both hypotheses; TLC has checked `AgreeInv` on it completely with `MaxSpoiled` = 0.

**Certificate manager.** For every set of callers, addresses and versions and every pool.

* `CertTypes`: `Spec => []CertTypeOK`. `TypeInv` adds that a caller behind the lock is its
  holder and that the connections held and those free make up the pool.
* `AcknowledgementsAreKept`: `Spec => AcknowledgementKept`. A renewal marks targets for
  review that it resolved some steps earlier; `ReviewInv` says that none of them has been
  acknowledged since, because the acknowledgement takes the same advisory lock.
* `RowAndStatusesAgree`, `NodesServeTheActiveVersion`: `Spec => []OneActive` and
  `[]NodesServeActive`, from `CertInv`: outside the lock every Node that was not left behind
  serves the active version (`Served`); behind it, `Claims` says at each label which Nodes
  have the new version, which still have the previous one, and which a compensation has
  already taken back. Both assume `~LostActivation`: when ActivateVersion commits and its
  reply is lost, the code rolls the Nodes back from a version the row now names.
* `HolderNeverWaits`: with fewer callers than connections a connection is always free. That
  is the reason why `NobodyStuck` holds in `certs` and fails with `Pool` = 3.

**VPS.** For every set of stages, certificates, domains and goroutines and any number of faults,
as long as a renewal does not overlap a switch (`~Overlap`; the run without that bound
violates `StagesTrue`).

* `VPSTypes`, `RecordedStagesAreTrue`, `RestartsAreSafe`: `Spec => []VPSTypeOK`,
  `[]StagesTrue`, `[]RestartSafe`, from `VPSInv`. Until xray-sni is recorded every pair and
  backup on the VPS is of the row's SNI (`OnlyHome`), whatever the failed attempts left;
  afterwards pair, backup, container and `.env` are of one domain (`Serves`). `JobOK` says
  what a job may count on at its position in its list of commands: that the backup it will
  restore exists and is of the domain it is going back to. Each command has a lemma about
  its effect, with and without a fault.

**Telegram sessions.** For every set of operators and conversations, with one handler (`Handlers = {h}`):
`BotAPI.Run` handles one update at a time, and two handlers do violate `NeverForgotten`.

* `PreparedNeverForgotten`, `ConfirmationSettledOnce`, `PasswordsAreKept`: from
  `SessionsInv`. It says for each wizard who has it: the map, a handler that took it out,
  a goroutine, or a cancel call; that its flags (prepared, password held) are
  those of its state; and that a handler that works with a snapshot finds the wizard in the
  state it saw, unless it has expired meanwhile. The last part is what the three properties
  need: a handler decides by its snapshot after messages were sent without the mutex.

**Node monitor.** For every set of Nodes and operators, every number of confirmations and every
interval (`MonitorAssumption`); the theorems are in `Telegram_proofs`.

* `MonitorInvariant`: `MonitorSpec => []MonitorInv`: types, and `Remembers`, that a Node's
  entry (count and age of each operator's alert) equals the history variables.
* `AlertsAreJustified`: `MonitorSpec => AlertsJustified`. The property speaks of the history
  and the code decides by its entry, so `Remembers` is what it needs; a gap in the telemetry,
  a lost message and a failed sample keep both.

**Only model-checked.**

* Liveness under fairness (`RunsEnd`, `RecoveryEnds`, `OpsEnd`, `PreparedSettles`,
  `CriticalReported`, `RetrySucceeds`) and `NobodyStuck`, which is about `ENABLED`: out of
  the prover's reach.

Every other property of a passing run is stated by a theorem. Some theorems have
hypotheses; what each excludes is said with the theorem, and the instances of the runs satisfy them.

## Plan

1. Done: `DeploymentWorkflow`, `DeploymentLifecycle` and the proofs above.
2. Done: `KeyedLock` and `DNSZones` (which composes it with AddIP, ReplaceIP and
   MoveIP), mutual exclusion and serialization proved.
3. Done: `NodeOps`, with type correctness and the freshness of replacements proved.
4. Done: `CertManager`, `VPS`, `TelegramSessions` and `NodeMonitor`, the last with its
   safety proved.
5. Done: the theorems about records, certificates, sessions and the VPS, and the
   refinement of `DeploymentLifecycle`.
6. Done: the agreement of panel, VPS, row and zones after Node operations proved.
7. Done: `CompletedFinal`, `ProvisionedFirst` and `NoOrphan` proved from hypotheses on the
   commands that overlap, `OwnAddressesOnly` for zones of both formats, and `NeverUnpublished`.

## Not modelled

* ACME and Cloudflare: protocols of external services; an order succeeds or fails.
* What a shell script does between its first and its last line; `xray_sni_legacy.go`, the
  layout of servers set up before this bot.
* The IP services of two hosting providers and SSH host keys: one linear script and one
  insert-if-absent transaction, without state that another component reads back.
* HTTP polling, offsets and rate limits of the Telegram client, message rendering,
  configuration, health, metrics and logging: I/O or formatting without state of their own.
* More than 100 unfinished deployments of one panel, of which startup recovery takes up
  the first 100 (`cmd/deployer/main.go`), and two Nodes whose addresses are replaced by the
  same new one at the same time (the check and the update of `ip_change.go` are two calls
  under different keys): both are limits of the code that no instance reaches.
