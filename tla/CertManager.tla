---------------------------- MODULE CertManager ----------------------------
(***************************************************************************)
(* The certificate manager of internal/certmanager for one panel and SNI:   *)
(* the row, the versions on disk, the marker file, the Nodes that serve a   *)
(* version, the advisory lock and the connection pool it is taken from.     *)
(* Every key of the code (row, directory, lock) holds the panel and the     *)
(* SNI, so different pairs share nothing but the pool.                      *)
(*                                                                         *)
(* Versions are numbered in the order they were staged and live equally    *)
(* long, so time is two counters: the versions up to due are within         *)
(* RenewBefore of their end, those up to expired are past it.               *)
(*                                                                         *)
(* Left out: what nothing reads again (the status of the record, the rows   *)
(* of certificate_distributions), file permissions, the pruning of lists,   *)
(* and how ACME obtains a certificate (an order succeeds or fails).         *)
(***************************************************************************)
EXTENDS Naturals, FiniteSets

CONSTANTS
  Workers,         \* goroutines that call the manager
  Targets,         \* addresses that may be in the zone of the SNI
  Foreign,         \* those of them no deployment of the bot will have
  MaxVersion,      \* bound on the versions staged
  Pool,            \* connections of the pgx pool
  Kinds,           \* the operations each goroutine issues
  Upgraded,        \* TRUE: also start from the store of a release without panels
  RepoFaults,      \* repository calls fail, before or after their commit
  LostActivation,  \* the commit of ActivateVersion may be reported as an error
  NodeFaults,      \* a Node's update fails; its rollback may fail too
  StoreFaults,     \* the marker file cannot be replaced
  Crashes,         \* the process dies and restarts
  NoWorker         \* nobody holds the lock

ASSUME CertAssumption ==
  /\ Foreign \subseteq Targets
  /\ MaxVersion \in Nat \ {0}
  /\ Pool \in Nat \ {0}
  /\ NoWorker \notin Workers
  /\ {Upgraded, RepoFaults, LostActivation, NodeFaults, StoreFaults, Crashes}
       \subseteq BOOLEAN
  /\ Kinds \in [Workers -> SUBSET {"prepare", "renew", "bootstrap", "rollback"}]

VARIABLES
  active,      \* certificate_records.active_version (0: NULL)
  vstatus,     \* certificate_versions: the status of each version
  issued,      \* versions staged so far
  old,         \* versions of the legacy store: 1..old
  marker,      \* the file "current" of the primary store (0: none)
  due,         \* versions 1..due are to be renewed
  expired,     \* versions 1..expired are no longer valid
  zone,        \* addresses the DNS balancer publishes for the SNI
  identified,  \* addresses with a deployment, a Node and an SSH host key
  review,      \* certificate_target_reviews
  serving,     \* the version the xray-sni of each address serves
  stray,       \* history: Nodes a lost compensation or a race left behind
  lock,        \* holder of the advisory lock of the SNI
  free,        \* connections left in the pool
  op           \* the call each goroutine executes

data == <<active, vstatus, issued, old, marker>>
nodes == <<zone, identified, review, serving, stray>>
clock == <<due, expired>>
vars == <<data, nodes, clock, lock, free, op>>

None == 0
Versions == 1..MaxVersion
VersionStatus == {"none", "PENDING", "ACTIVE", "SUPERSEDED", "DISTRIBUTION_FAILED"}
TargetReviewState == {"none", "MANUAL_REVIEW", "LEGACY_ACKNOWLEDGED"}
Steps == {"idle", "connect", "lock", "load", "list", "candidate", "acknowledge",
          "issue", "save", "resolve", "review", "spread", "mark", "commit",
          "unmark", "undo", "settle", "install"}

\* A call: its version, the record it would go back to, the marker it would
\* go back to, the targets resolved and those still to be updated, whether an
\* update failed, and whether it is compensating.
Idle == [kind |-> "none", pc |-> "idle", ver |-> None, prev |-> None,
         back |-> None, seen |-> {}, unknown |-> {}, todo |-> {},
         bad |-> FALSE, undoing |-> FALSE]

(***************************************************************************)
(* The stores, the clock and the targets.                                   *)
(***************************************************************************)
\* FileStore and FallbackStore: new versions are staged in the primary store,
\* which alone can be marked; the legacy store is read only.
Staged == (old + 1)..issued
ActiveVersion == IF marker # None THEN marker ELSE old
CanActivate(v) == v \in Staged

\* certificates.Validate: directories are immutable, so only time invalidates.
Validate(v) == v # None /\ v > expired

\* DNSDeploymentResolver.Resolve
Managed == zone \cap identified
LegacyAcknowledged == {n \in zone \ identified : review[n] = "LEGACY_ACKNOWLEDGED"}
Unmanaged == zone \ (identified \cup LegacyAcknowledged)

\* What a write to the repository may do: take effect and say so, fail, or take
\* effect and fail.
Writes == {"ok"} \cup (IF RepoFaults THEN {"error", "lost"} ELSE {})

At(w, pc) == op[w].pc = pc
Go(w, pc) == op' = [op EXCEPT ![w].pc = pc]

\* The version a distribution sends: the new one, or the previous one.
Sent(w) == IF op[w].undoing THEN op[w].prev ELSE op[w].ver

\* Nodes that do not serve what the row says.
Behind == {n \in Managed : serving[n] # active}

\* Mutant: the connection is released twice.
ReturnTwice(w, v) ==
  /\ op' = [op EXCEPT ![w] =
       IF op[w].kind = "prepare" /\ v # None
         THEN [Idle EXCEPT !.kind = "prepare", !.pc = "install", !.ver = v]
         ELSE Idle]
  /\ lock' = NoWorker
  /\ free' = free + 2

\* Mutant: the connection is not released.
ReturnLeaking(w, v) ==
  /\ op' = [op EXCEPT ![w] =
       IF op[w].kind = "prepare" /\ v # None
         THEN [Idle EXCEPT !.kind = "prepare", !.pc = "install", !.ver = v]
         ELSE Idle]
  /\ lock' = NoWorker
  /\ UNCHANGED free

\* The deferred unlock, with the connection it was taken on; a deployment goes
\* on to install the material Prepare returned.
Return(w, v) ==
  /\ op' = [op EXCEPT ![w] =
       IF op[w].kind = "prepare" /\ v # None
         THEN [Idle EXCEPT !.kind = "prepare", !.pc = "install", !.ver = v]
         ELSE Idle]
  /\ lock' = NoWorker
  /\ free' = free + 1

\* A repository call takes a connection for its duration.
Connected(w, pc) == At(w, pc) /\ free > 0

(***************************************************************************)
(* Starting a call: pool.Acquire, pg_advisory_lock.                         *)
(***************************************************************************)
\* RenewDue lists the row when it is due; the others come from deployments and
\* operators.
Request(w, kind) ==
  /\ At(w, "idle")
  /\ kind = "renew" => active # None /\ active <= due
  /\ op' = [op EXCEPT ![w] = [Idle EXCEPT !.kind = kind, !.pc = "connect"]]
  /\ UNCHANGED <<data, nodes, clock, lock, free>>

Acquire(w) ==
  /\ Connected(w, "connect")
  /\ free' = free - 1
  /\ Go(w, "lock")
  /\ UNCHANGED <<data, nodes, clock, lock>>

\* Mutant: every caller has a lock of its own.
LockAlways(w) ==
  /\ At(w, "lock")
  /\ lock' = w
  /\ Go(w, IF op[w].kind = "rollback" THEN "list" ELSE "load")
  /\ UNCHANGED <<data, nodes, clock, free>>

Lock(w) ==
  /\ At(w, "lock")
  /\ lock = NoWorker
  /\ lock' = w
  /\ Go(w, IF op[w].kind = "rollback" THEN "list" ELSE "load")
  /\ UNCHANGED <<data, nodes, clock, free>>

\* The lock query fails: the connection goes back, nothing else happened.
LockFails(w) ==
  /\ RepoFaults
  /\ At(w, "lock")
  /\ op' = [op EXCEPT ![w] = Idle]
  /\ free' = free + 1
  /\ UNCHANGED <<data, nodes, clock, lock>>

(***************************************************************************)
(* loadActive: the row decides, the marker is repaired to match it.          *)
(***************************************************************************)
\* A valid active version: Prepare is done unless it is due, Bootstrap only
\* acknowledges, otherwise it is what a failed renewal goes back to.
ActiveFound(w) ==
  LET r == active IN
  \/ /\ op[w].kind = "prepare" /\ r > due
     /\ Return(w, r)
  \/ /\ op[w].kind = "bootstrap"
     /\ op' = [op EXCEPT ![w].pc = "acknowledge"]
     /\ UNCHANGED <<lock, free>>
  \/ /\ op[w].kind = "renew" \/ (op[w].kind = "prepare" /\ r <= due)
     /\ op' = [op EXCEPT ![w].pc = "issue", ![w].prev = r]
     /\ UNCHANGED <<lock, free>>

\* ErrNotFound and ErrInvalidMaterial: there is nothing to go back to.
ActiveMissing(w) ==
  /\ Go(w, IF op[w].kind = "bootstrap" THEN "candidate" ELSE "issue")
  /\ UNCHANGED <<lock, free>>

LoadActive(w) ==
  /\ Connected(w, "load")
  /\ \/ /\ RepoFaults
        /\ Return(w, None)
        /\ UNCHANGED marker
     \/ /\ active = None
        /\ ActiveMissing(w)
        /\ UNCHANGED marker
     \/ /\ active # None
        /\ ActiveVersion # active
        /\ StoreFaults \/ ~CanActivate(active)
        /\ Return(w, None)
        /\ UNCHANGED marker
     \/ /\ active # None
        /\ ActiveVersion # active => CanActivate(active)
        /\ marker' = IF ActiveVersion = active THEN marker ELSE active
        /\ IF Validate(active) THEN ActiveFound(w) ELSE ActiveMissing(w)
  /\ UNCHANGED <<active, vstatus, issued, old, nodes, clock>>

(***************************************************************************)
(* issueAndActivate: Issue, Validate, Stage, SaveVersion.                    *)
(***************************************************************************)
\* Prepare falls back on the version it loaded while that is valid.
Fallback(w) ==
  Return(w, IF op[w].kind = "prepare" /\ Validate(op[w].prev) THEN op[w].prev ELSE None)

Issue(w) ==
  /\ At(w, "issue")
  /\ issued < MaxVersion
  /\ issued' = issued + 1
  /\ op' = [op EXCEPT ![w].pc = "save", ![w].ver = issued + 1]
  /\ UNCHANGED <<active, vstatus, old, marker, nodes, clock, lock, free>>

\* The order or the staging failed, or the material did not validate.
IssueFails(w) ==
  /\ At(w, "issue")
  /\ Fallback(w)
  /\ UNCHANGED <<data, nodes, clock>>

SaveVersion(w) ==
  /\ Connected(w, "save")
  /\ \E e \in Writes :
       /\ vstatus' = IF e = "error" THEN vstatus
                     ELSE [vstatus EXCEPT ![op[w].ver] = "PENDING"]
       /\ IF e = "ok" THEN Go(w, "resolve") /\ UNCHANGED <<lock, free>>
                      ELSE Fallback(w)
  /\ UNCHANGED <<active, issued, old, marker, nodes, clock>>

(***************************************************************************)
(* Bootstrap and Rollback choose a version that is stored already.           *)
(***************************************************************************)
Candidates == {v \in Versions : /\ vstatus[v] \in {"PENDING", "DISTRIBUTION_FAILED"}
                                /\ Validate(v)}

\* Bootstrap: the newest staged version that never became active.
Candidate(w) ==
  /\ Connected(w, "candidate")
  /\ \/ /\ RepoFaults \/ Candidates = {}
        /\ Return(w, None)
     \/ \E v \in Candidates :
          /\ \A u \in Candidates : u <= v
          /\ op' = [op EXCEPT ![w].pc = "resolve", ![w].ver = v]
          /\ UNCHANGED <<lock, free>>
  /\ UNCHANGED <<data, nodes, clock>>

\* Bootstrap with a valid active version acknowledges the unknown targets, none
\* of them when they cannot be resolved.
Acknowledge(w) ==
  /\ Connected(w, "acknowledge")
  /\ \E S \in SUBSET Unmanaged :
       /\ RepoFaults \/ S \in {{}, Unmanaged}
       /\ review' = [n \in Targets |-> IF n \in S THEN "LEGACY_ACKNOWLEDGED" ELSE review[n]]
  /\ Return(w, None)
  /\ UNCHANGED <<data, zone, identified, serving, stray, clock>>

\* Rollback: any listed version that is still valid; GetActive may fail, which
\* leaves nothing to go back to.
ChooseVersion(w) ==
  /\ Connected(w, "list")
  /\ \/ Return(w, None)
     \/ \E v \in Versions, p \in {active} \cup (IF RepoFaults THEN {None} ELSE {}) :
          /\ vstatus[v] # "none"
          /\ Validate(v)
          /\ op' = [op EXCEPT ![w].pc = "resolve", ![w].ver = v, ![w].prev = p]
          /\ UNCHANGED <<lock, free>>
  /\ UNCHANGED <<data, nodes, clock>>

(***************************************************************************)
(* distribute, distributeTargets and SSHDistributor.Distribute.              *)
(***************************************************************************)
\* The distribution is over; what it resolved is forgotten.
Stop(w, pc) ==
  op' = [op EXCEPT ![w].pc = pc, ![w].seen = {}, ![w].unknown = {}, ![w].bad = FALSE]

\* A distribution that failed: the compensation itself is given up, Bootstrap
\* has nothing to compensate, the others restore the previous version.
DistributeFails(w) ==
  \/ /\ op[w].undoing
     /\ Stop(w, "settle")
     /\ stray' = stray \cup Behind
     /\ UNCHANGED <<lock, free>>
  \/ /\ ~op[w].undoing /\ op[w].kind = "bootstrap"
     /\ Return(w, None)
     /\ UNCHANGED stray
  \/ /\ ~op[w].undoing /\ op[w].kind # "bootstrap"
     /\ Stop(w, "undo")
     /\ UNCHANGED <<stray, lock, free>>

Resolve(w) ==
  /\ Connected(w, "resolve")
  /\ \/ DistributeFails(w)
     \/ /\ op' = [op EXCEPT ![w].pc = IF Unmanaged = {} THEN "spread" ELSE "review",
                            ![w].seen = Managed, ![w].todo = Managed,
                            ![w].unknown = Unmanaged]
        /\ UNCHANGED <<stray, lock, free>>
  /\ UNCHANGED <<data, zone, identified, review, serving, clock>>

\* RecordTargetReview for every unknown target: Bootstrap acknowledges them and
\* goes on, the others ask for a review and give up.
Review(w) ==
  /\ Connected(w, "review")
  /\ LET bootstrap == op[w].kind = "bootstrap" /\ ~op[w].undoing
         state == IF bootstrap THEN "LEGACY_ACKNOWLEDGED" ELSE "MANUAL_REVIEW" IN
     \E S \in SUBSET op[w].unknown :
       /\ S # op[w].unknown => RepoFaults
       /\ review' = [n \in Targets |-> IF n \in S THEN state ELSE review[n]]
       /\ IF bootstrap /\ S = op[w].unknown
            THEN /\ op' = [op EXCEPT ![w].pc = "spread", ![w].unknown = {}]
                 /\ UNCHANGED <<stray, lock, free>>
            ELSE DistributeFails(w)
  /\ UNCHANGED <<data, zone, identified, serving, clock>>

\* UpdateCertificate on one Node succeeds, or fails with the Node back on its
\* version or, when the rollback failed too, on the new one.
UpdateNode(w, n) ==
  /\ At(w, "spread")
  /\ n \in op[w].todo
  /\ op' = [op EXCEPT ![w].todo = @ \ {n}]
  /\ serving' = [serving EXCEPT ![n] = Sent(w)]
  /\ stray' = stray \ {n}
  /\ UNCHANGED <<data, zone, identified, review, clock, lock, free>>

UpdateFails(w, n) ==
  /\ NodeFaults
  /\ At(w, "spread")
  /\ n \in op[w].todo
  /\ op' = [op EXCEPT ![w].todo = @ \ {n}, ![w].bad = TRUE]
  /\ serving' \in {serving, [serving EXCEPT ![n] = Sent(w)]}
  /\ stray' = IF op[w].undoing /\ serving'[n] # active THEN stray \cup {n} ELSE stray
  /\ UNCHANGED <<data, zone, identified, review, clock, lock, free>>

\* RecordDistribution for every result; one that cannot be recorded, or one
\* that failed, fails the distribution.
RecordDistribution(w) ==
  /\ Connected(w, "spread")
  /\ op[w].todo = {}
  /\ \/ /\ op[w].bad \/ RepoFaults
        /\ DistributeFails(w)
     \/ /\ ~op[w].bad
        /\ IF op[w].undoing THEN Stop(w, "settle") ELSE Go(w, "mark")
        /\ UNCHANGED <<stray, lock, free>>
  /\ UNCHANGED <<data, zone, identified, review, serving, clock>>

(***************************************************************************)
(* Activation: the marker on disk, then the row; and the way back.           *)
(***************************************************************************)
Activate(w) ==
  /\ At(w, "mark")
  /\ CanActivate(op[w].ver)
  /\ marker' = op[w].ver
  /\ op' = [op EXCEPT ![w].pc = "commit",
                      ![w].back = IF op[w].kind \in {"bootstrap", "rollback"}
                                    THEN ActiveVersion ELSE op[w].prev]
  /\ UNCHANGED <<active, vstatus, issued, old, nodes, clock, lock, free>>

ActivateFails(w) ==
  /\ At(w, "mark")
  /\ StoreFaults \/ ~CanActivate(op[w].ver)
  /\ DistributeFails(w)
  /\ UNCHANGED <<data, zone, identified, review, serving, clock>>

\* Mutant: the version that was active stays ACTIVE.
ActivatedAlso(v) ==
  /\ active' = v
  /\ vstatus' = [vstatus EXCEPT ![v] = "ACTIVE"]

\* The transaction of ActivateVersion.
Activated(v) ==
  /\ active' = v
  /\ vstatus' = [u \in Versions |->
       IF u = v THEN "ACTIVE"
       ELSE IF vstatus[u] = "ACTIVE" THEN "SUPERSEDED" ELSE vstatus[u]]

\* Nodes that joined after the targets were resolved keep what they serve.
ActivateVersion(w) ==
  /\ Connected(w, "commit")
  /\ Activated(op[w].ver)
  /\ Return(w, op[w].ver)
  /\ stray' = stray \cup {n \in Managed \ op[w].seen : serving[n] # op[w].ver}
  /\ UNCHANGED <<issued, old, marker, zone, identified, review, serving, clock>>

ActivateVersionFails(w) ==
  /\ Connected(w, "commit")
  /\ \/ RepoFaults /\ UNCHANGED <<active, vstatus>>
     \/ LostActivation /\ Activated(op[w].ver)
  /\ Go(w, "unmark")
  /\ UNCHANGED <<issued, old, marker, nodes, clock, lock, free>>

\* The marker goes back, when there was one and it can be written.
RestoreMarker(w) ==
  /\ At(w, "unmark")
  /\ \/ marker' = IF CanActivate(op[w].back) THEN op[w].back ELSE marker
     \/ StoreFaults /\ UNCHANGED marker
  /\ IF op[w].kind = "bootstrap"
       THEN Return(w, None)
       ELSE /\ op' = [op EXCEPT ![w].pc = "undo", ![w].seen = {}, ![w].back = None]
            /\ UNCHANGED <<lock, free>>
  /\ UNCHANGED <<active, vstatus, issued, old, nodes, clock>>

\* Mutant: nothing is sent to the Nodes again.
RestoreSkipped(w) ==
  /\ At(w, "undo")
  /\ Go(w, "settle")
  /\ UNCHANGED <<data, nodes, clock, lock, free>>

\* restoreDistributedVersion: the version loaded before, while it is valid.
RestoreDistributed(w) ==
  /\ At(w, "undo")
  /\ IF Validate(op[w].prev)
       THEN /\ op' = [op EXCEPT ![w].pc = "resolve", ![w].undoing = TRUE]
            /\ UNCHANGED stray
       ELSE /\ Go(w, "settle")
            /\ stray' = IF op[w].kind = "rollback" THEN stray \cup Behind ELSE stray
  /\ UNCHANGED <<data, zone, identified, review, serving, clock, lock, free>>

\* SetVersionStatus as far as it succeeds, then the return.
Settle(w) ==
  /\ Connected(w, "settle")
  /\ IF op[w].kind = "rollback"
       THEN UNCHANGED vstatus /\ Return(w, None)
       ELSE /\ \/ vstatus' = [vstatus EXCEPT ![op[w].ver] = "DISTRIBUTION_FAILED"]
               \/ RepoFaults /\ UNCHANGED vstatus
            /\ Fallback(w)
  /\ UNCHANGED <<active, issued, old, marker, nodes, clock>>

(***************************************************************************)
(* Around the manager.                                                      *)
(***************************************************************************)
\* The deployment that called Prepare installs the material on a new VPS and
\* publishes it, or fails. A renewal may have passed by in between.
Install(w) ==
  /\ At(w, "install")
  /\ op' = [op EXCEPT ![w] = Idle]
  /\ \/ UNCHANGED nodes
     \/ \E n \in Targets \ (identified \cup Foreign) :
          /\ zone' = zone \cup {n}
          /\ identified' = identified \cup {n}
          /\ serving' = [serving EXCEPT ![n] = op[w].ver]
          /\ stray' = IF op[w].ver # active THEN stray \cup {n} ELSE stray
          /\ UNCHANGED review
  /\ UNCHANGED <<data, clock, lock, free>>

\* An operator publishes an address no deployment knows.
Publish(n) ==
  /\ n \notin zone
  /\ zone' = zone \cup {n}
  /\ UNCHANGED <<data, identified, review, serving, stray, clock, lock, free, op>>

Tick ==
  /\ \/ due < issued /\ due' = due + 1 /\ UNCHANGED expired
     \/ expired < due /\ expired' = expired + 1 /\ UNCHANGED due
  /\ UNCHANGED <<data, nodes, lock, free, op>>

\* A restart drops the connections and with them the lock; the Nodes a call
\* had updated stay as they are.
Crash ==
  /\ Crashes
  /\ op # [w \in Workers |-> Idle]
  /\ op' = [w \in Workers |-> Idle]
  /\ lock' = NoWorker
  /\ free' = Pool
  /\ stray' = stray \cup Behind
  /\ UNCHANGED <<data, zone, identified, review, serving, clock>>

Init ==
  /\ old \in IF Upgraded THEN {0, 1} ELSE {0}
  /\ issued = old
  /\ active = old
  /\ vstatus = [v \in Versions |-> IF v <= old THEN "ACTIVE" ELSE "none"]
  /\ marker = None
  /\ due = 0 /\ expired = 0
  /\ identified \in {{}} \cup {{n} : n \in IF old = 0 THEN {} ELSE Targets \ Foreign}
  /\ zone = identified
  /\ review = [n \in Targets |-> "none"]
  /\ serving = [n \in Targets |-> IF n \in identified THEN old ELSE None]
  /\ stray = {}
  /\ lock = NoWorker
  /\ free = Pool
  /\ op = [w \in Workers |-> Idle]

Step(w) ==
  \/ Acquire(w) \/ Lock(w) \/ LoadActive(w)
  \/ Issue(w) \/ IssueFails(w) \/ SaveVersion(w)
  \/ Candidate(w) \/ Acknowledge(w) \/ ChooseVersion(w)
  \/ Resolve(w) \/ Review(w)
  \/ \E n \in Targets : UpdateNode(w, n) \/ UpdateFails(w, n)
  \/ RecordDistribution(w)
  \/ Activate(w) \/ ActivateFails(w) \/ ActivateVersion(w) \/ ActivateVersionFails(w)
  \/ RestoreMarker(w) \/ RestoreDistributed(w) \/ Settle(w) \/ Install(w)

Next ==
  \/ \E w \in Workers : (\E kind \in Kinds[w] : Request(w, kind)) \/ LockFails(w) \/ Step(w)
  \/ \E n \in Foreign : Publish(n)
  \/ Tick
  \/ Crash

Spec == Init /\ [][Next]_vars

(***************************************************************************)
(* Properties.                                                              *)
(***************************************************************************)
\* The values of the manager's state; the pool never has more connections free
\* than it has.
CertTypeOK ==
  /\ active \in 0..MaxVersion
  /\ vstatus \in [Versions -> VersionStatus]
  /\ issued \in 0..MaxVersion /\ old \in 0..1 /\ marker \in 0..MaxVersion
  /\ due \in 0..issued /\ expired \in 0..due
  /\ zone \subseteq Targets /\ identified \subseteq Targets /\ stray \subseteq Targets
  /\ review \in [Targets -> TargetReviewState]
  /\ serving \in [Targets -> 0..MaxVersion]
  /\ lock \in Workers \cup {NoWorker} /\ free \in 0..Pool
  /\ op \in [Workers -> [kind : {"none", "prepare", "renew", "bootstrap", "rollback"}, pc : Steps,
                         ver : 0..MaxVersion, prev : 0..MaxVersion, back : 0..MaxVersion,
                         seen : SUBSET Targets, unknown : SUBSET Targets,
                         todo : SUBSET Targets, bad : BOOLEAN, undoing : BOOLEAN]]

\* certificate_records.active_version and the statuses of the versions agree, and
\* at most one version is ACTIVE, whatever call of whichever step failed, a lost
\* reply of ActivateVersion apart where LostActivation excludes it.
OneActive ==
  \A v \in Versions : vstatus[v] = "ACTIVE" <=> v = active

\* Between two calls every managed Node serves the active version while that is
\* valid: a distribution that fails half way, or whose activation fails, sends
\* the previous version to the Nodes again (restoreDistributedVersion). What is
\* excused is in stray: a Node whose own rollback failed, one that was installed
\* or left behind by a call that died or whose compensation failed.
NodesServeActive ==
  lock = NoWorker /\ Validate(active) => Behind \subseteq stray

\* An operator's acknowledgement of a legacy target is not undone by a renewal
\* that resolved the targets before it: the lock of the SNI covers both.
AcknowledgementKept ==
  [][\A n \in Targets : review[n] = "LEGACY_ACKNOWLEDGED" => review'[n] = review[n]]_vars

\* Whoever has called the manager, somebody can go on: no set of callers waits for
\* connections and for the lock of one another.
NobodyStuck ==
  (\E w \in Workers : ~At(w, "idle")) => \E w \in Workers : ENABLED Step(w)
=============================================================================
