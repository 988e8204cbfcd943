----------------------------- MODULE VPS_proofs -----------------------------
(***************************************************************************)
(* Proofs about VPS: types, and that what is recorded as COMPLETED holds    *)
(* and stays true through renewals and switches, for every list of stages,  *)
(* every set of certificates and domains and any number of faults, when the *)
(* jobs on the VPS come one after the other (~Overlap).                     *)
(***************************************************************************)
EXTENDS VPS, TLAPS

Kinds == {"none", "preflight", "provision", "update", "switch"}
Phases == {"idle", "run", "next", "inspect", "apply", "validate", "done", "failed",
           "rollback", "check", "switch"}
Statuses == {"none", "RUNNING", "FAILED", "COMPLETED"}
MaybeCert == Certs \cup {NoCert}
MaybeDomain == Domains \cup {NoDomain}
MaybeStage == Stage \cup {"none"}

Commands == {"inspect", "key", "write", "apply", "check", "repo", "env", "cert", "config",
             "build", "commit", "up", "reload", "match", "health", "cleanup", "rollback",
             "settled", "stage", "switch"}

Jobs == [kind : Kinds, phase : Phases, cert : MaybeCert, next : MaybeCert,
         stage : MaybeStage, skip : SUBSET Stage, todo : Seq(Commands)]

Hosts == [key : BOOLEAN, written : SUBSET MaybeStage, live : SUBSET MaybeStage,
          repo : BOOLEAN, built : BOOLEAN, env : MaybeDomain, files : MaybeCert,
          backup : MaybeCert \cup {Absent}, up : BOOLEAN, loaded : MaybeCert,
          served : MaybeDomain, left : BOOLEAN]

\* Stages whose COMPLETED says that a service runs.
Services == Stage \ (FilesOnly \cup {"healthcheck", "xray_sni"})

(***************************************************************************)
(* The inductive invariant. Before xray-sni is completed every pair on the  *)
(* VPS, the backup included, is one of the deployment's own SNI; afterwards *)
(* pair, backup, container and .env are all of one domain.                  *)
(***************************************************************************)
OnlyHome(h) ==
  /\ h.files \in Certs => Domain[h.files] = Home
  /\ h.backup \in Certs => Domain[h.backup] = Home

Serves(h) ==
  /\ h.built /\ h.up /\ h.served = h.env
  /\ h.files \in Certs /\ Domain[h.files] = h.env
  /\ h.loaded \in Certs /\ Domain[h.loaded] = h.env
  /\ h.backup \in Certs => Domain[h.backup] = h.env

HostOK(h, st) ==
  /\ h \in Hosts
  /\ IF st["xray_sni"] = "COMPLETED" THEN Serves(h) ELSE OnlyHome(h)
  /\ \A s \in Services : st[s] = "COMPLETED" => s \in h.live

\* What inspectState and the healthcheck found of pair c, as of host h.
InPlace(h, c) == h.built /\ h.up /\ h.env = Domain[c] /\ h.files = c
Sound(h, c) == h.loaded \in Certs /\ Domain[h.loaded] = Domain[c] /\ h.served = Domain[c]

\* What a job may count on at its position, and which commands it still has.
PreflightOK(j, h) ==
  /\ j.phase = "run"
  /\ ToSet(j.todo) \subseteq {"inspect", "key"}
  /\ "key" \in ToSet(j.todo) \/ h.key

Installs == {"repo", "env", "cert", "config", "build", "commit", "up", "reload"}
Validates == {"match", "health", "cleanup"}

StageOK(j, h) ==
  CASE j.phase = "apply" ->
         ToSet(j.todo) \subseteq (IF j.stage = "xray_sni" THEN Installs ELSE {"write", "apply"})
    [] j.phase = "validate" /\ j.stage = "xray_sni" ->
         /\ ToSet(j.todo) \subseteq Validates
         /\ "match" \in ToSet(j.todo) \/ InPlace(h, j.cert)
         /\ "health" \in ToSet(j.todo) \/ Sound(h, j.cert)
    [] j.phase = "validate" /\ j.stage # "xray_sni" ->
         /\ ToSet(j.todo) \subseteq {"check"}
         /\ j.stage \in Services => "check" \in ToSet(j.todo) \/ j.stage \in h.live
    [] j.phase = "done" ->
         /\ j.todo = <<>>
         /\ j.stage = "xray_sni" => InPlace(h, j.cert) /\ Sound(h, j.cert)
         /\ j.stage \in Services => j.stage \in h.live
    [] OTHER -> j.todo = <<>>

ProvisionOK(j, h, st) ==
  /\ j.phase \in {"next", "inspect", "apply", "validate", "done", "failed"}
  /\ j.cert \in Certs /\ Domain[j.cert] = Home
  /\ \A s \in Stage : st[s] = "COMPLETED" => s \in j.skip
  /\ j.phase # "next" => j.stage \in Stage /\ st[j.stage] = "RUNNING"
  /\ StageOK(j, h)

UpdateOK(j, h, st) ==
  /\ st["xray_sni"] = "COMPLETED"
  /\ j.cert \in Certs
  /\ j.phase \in {"inspect", "run", "rollback"}
  /\ j.phase = "inspect" => j.todo = <<>>
  /\ j.phase # "inspect" => h.env = Domain[j.cert]
  /\ ToSet(j.todo) \subseteq {"cert", "reload", "health", "cleanup", "rollback"}

SwitchOK(j, h, st) ==
  /\ st["xray_sni"] = "COMPLETED"
  /\ j.cert \in Certs /\ j.next \in Certs
  /\ \/ /\ j.phase = "check"
        /\ ToSet(j.todo) \subseteq Validates
        /\ "cleanup" \in ToSet(j.todo) \/ h.backup = Absent
     \/ /\ j.phase = "switch"
        /\ ToSet(j.todo) \subseteq {"settled", "stage", "switch"} \cup Validates
        /\ h.backup = Absent

JobOK(j, h, st) ==
  CASE j.kind = "preflight" -> PreflightOK(j, h)
    [] j.kind = "provision" -> ProvisionOK(j, h, st)
    [] j.kind = "update"    -> UpdateOK(j, h, st)
    [] j.kind = "switch"    -> SwitchOK(j, h, st)
    [] OTHER                -> j.phase = "idle" /\ j.todo = <<>>

Alone == \A v, w \in Workers : ~Free(v) /\ ~Free(w) => v = w

RowOK ==
  /\ passed \in BOOLEAN /\ (passed => host.key)
  /\ steps \in [Stage -> Statuses]
  /\ sni \in Domains
  /\ faults \in 0..MaxFaults

VPSInv ==
  /\ RowOK
  /\ HostOK(host, steps)
  /\ job \in [Workers -> Jobs]
  /\ Alone
  /\ \A w \in Workers : JobOK(job[w], host, steps)

-----------------------------------------------------------------------------
(* Lists of commands. *)

\* A list is its first command and the rest.
LEMMA HeadAndTail ==
  ASSUME NEW q \in Seq(Commands), q # <<>>
  PROVE  /\ Tail(q) \in Seq(Commands)
         /\ Head(q) \in ToSet(q) /\ Head(q) \in Commands
         /\ ToSet(q) = {Head(q)} \cup ToSet(Tail(q))
<1>1. Len(q) \in Nat /\ Len(q) > 0 /\ DOMAIN q = 1..Len(q) /\ Head(q) = q[1]
  OBVIOUS
<1>2. Tail(q) \in Seq(Commands) /\ DOMAIN Tail(q) = 1..(Len(q) - 1)
      /\ \A i \in 1..(Len(q) - 1) : Tail(q)[i] = q[i + 1]
  BY <1>1
<1>3. Head(q) \in ToSet(q)
  BY <1>1 DEF ToSet
<1>4. ToSet(Tail(q)) \subseteq ToSet(q)
  BY <1>1, <1>2 DEF ToSet
<1>5. ASSUME NEW x \in ToSet(q), x # Head(q) PROVE x \in ToSet(Tail(q))
  <2>1. PICK i \in 1..Len(q) : q[i] = x
    BY <1>1 DEF ToSet
  <2>2. i - 1 \in 1..(Len(q) - 1) /\ Tail(q)[i - 1] = x
    BY <1>1, <1>2, <1>5, <2>1
  <2> QED
    BY <1>2, <2>2 DEF ToSet
<1> QED
  BY <1>2, <1>3, <1>4, <1>5

\* The commands of two lists one after the other.
LEMMA SetOfBoth ==
  ASSUME NEW q \in Seq(Commands), NEW r \in Seq(Commands)
  PROVE  q \o r \in Seq(Commands) /\ ToSet(q \o r) = ToSet(q) \cup ToSet(r)
<1>1. /\ Len(q) \in Nat /\ Len(r) \in Nat
      /\ DOMAIN q = 1..Len(q) /\ DOMAIN r = 1..Len(r)
      /\ q \o r \in Seq(Commands) /\ DOMAIN (q \o r) = 1..(Len(q) + Len(r))
      /\ \A i \in 1..(Len(q) + Len(r)) :
           (q \o r)[i] = IF i <= Len(q) THEN q[i] ELSE r[i - Len(q)]
  OBVIOUS
<1>2. ASSUME NEW x \in ToSet(q \o r) PROVE x \in ToSet(q) \cup ToSet(r)
  BY <1>1, <1>2 DEF ToSet
<1>3. ASSUME NEW x \in ToSet(q) PROVE x \in ToSet(q \o r)
  BY <1>1, <1>3 DEF ToSet
<1>4. ASSUME NEW x \in ToSet(r) PROVE x \in ToSet(q \o r)
  <2>1. PICK i \in 1..Len(r) : r[i] = x
    BY <1>1, <1>4 DEF ToSet
  <2>2. i + Len(q) \in 1..(Len(q) + Len(r)) /\ (q \o r)[i + Len(q)] = x
    BY <1>1, <2>1
  <2> QED
    BY <1>1, <2>2 DEF ToSet
<1> QED
  BY <1>1, <1>2, <1>3, <1>4

\* The empty list and lists of up to three commands.
LEMMA ShortLists ==
  /\ <<>> \in Seq(Commands) /\ ToSet(<<>>) = {}
  /\ \A a \in Commands : <<a>> \in Seq(Commands) /\ ToSet(<<a>>) = {a}
  /\ \A a, b \in Commands : <<a, b>> \in Seq(Commands) /\ ToSet(<<a, b>>) = {a, b}
  /\ \A a, b, c \in Commands :
       <<a, b, c>> \in Seq(Commands) /\ ToSet(<<a, b, c>>) = {a, b, c}
<1>1. <<>> \in Seq(Commands) /\ ToSet(<<>>) = {}
  BY DEF ToSet
<1>2. ASSUME NEW a \in Commands PROVE <<a>> \in Seq(Commands) /\ ToSet(<<a>>) = {a}
  BY DEF ToSet
<1>3. ASSUME NEW a \in Commands, NEW b \in Commands
      PROVE  <<a, b>> \in Seq(Commands) /\ ToSet(<<a, b>>) = {a, b}
  <2> DEFINE q == <<a, b>>
  <2>1. q \in Seq(Commands) /\ DOMAIN q = 1..2 /\ q[1] = a /\ q[2] = b
    OBVIOUS
  <2> HIDE DEF q
  <2>2. ToSet(q) = {a, b}
    BY <2>1 DEF ToSet
  <2> QED
    BY <2>1, <2>2 DEF q
<1>4. ASSUME NEW a \in Commands, NEW b \in Commands, NEW c \in Commands
      PROVE  <<a, b, c>> \in Seq(Commands) /\ ToSet(<<a, b, c>>) = {a, b, c}
  <2> DEFINE q == <<a, b, c>>
  <2>1. q \in Seq(Commands) /\ DOMAIN q = 1..3 /\ q[1] = a /\ q[2] = b /\ q[3] = c
    OBVIOUS
  <2> HIDE DEF q
  <2>2. ToSet(q) = {a, b, c}
    BY <2>1 DEF ToSet
  <2> QED
    BY <2>1, <2>2 DEF q
<1> QED
  BY <1>1, <1>2, <1>3, <1>4

\* The plans of the jobs are lists of the commands they may use.
LEMMA PlanLists ==
  ASSUME NEW c
  PROVE  /\ InstallPlan(c) \in Seq(Commands) /\ ToSet(InstallPlan(c)) \subseteq Installs
         /\ ValidatePlan \in Seq(Commands) /\ ToSet(ValidatePlan) = Validates
         /\ UpdatePlan(c) \in Seq(Commands)
         /\ ToSet(UpdatePlan(c)) \subseteq {"cert", "reload", "health", "cleanup"}
<1>1. /\ {"repo", "env", "cert", "config", "build", "commit", "up", "reload"} \subseteq Commands
      /\ {"match", "health", "cleanup"} \subseteq Commands
  BY DEF Commands
<1>2. InstallPlan(c) \in Seq(Commands) /\ ToSet(InstallPlan(c)) \subseteq Installs
  <2> DEFINE d == Differs(c)
             Needed(p) == IF p \in d THEN <<p>> ELSE <<>>
             a1 == Needed("repo")
             a2 == Needed("env")
             a3 == Needed("cert")
             a4 == <<"config">>
             a5 == IF "build" \in d THEN <<"build", "commit">>
                   ELSE IF d \cap {"env", "start"} # {} THEN <<"up">> ELSE <<"reload">>
  <2>1. InstallPlan(c) = a1 \o a2 \o a3 \o a4 \o a5
    BY DEF InstallPlan
  <2>2. \A p \in Commands : Needed(p) \in Seq(Commands) /\ ToSet(Needed(p)) \subseteq {p}
    BY ShortLists
  <2>3. /\ a1 \in Seq(Commands) /\ ToSet(a1) \subseteq {"repo"}
        /\ a2 \in Seq(Commands) /\ ToSet(a2) \subseteq {"env"}
        /\ a3 \in Seq(Commands) /\ ToSet(a3) \subseteq {"cert"}
    <3> HIDE DEF Needed
    <3> QED
      BY <1>1, <2>2
  <2>4. a4 \in Seq(Commands) /\ ToSet(a4) = {"config"}
    BY <1>1, ShortLists
  <2>5. a5 \in Seq(Commands) /\ ToSet(a5) \subseteq {"build", "commit", "up", "reload"}
    BY <1>1, ShortLists
  <2> HIDE DEF a1, a2, a3, a4, a5
  <2>6. a1 \o a2 \in Seq(Commands) /\ ToSet(a1 \o a2) = ToSet(a1) \cup ToSet(a2)
    BY <2>3, SetOfBoth
  <2>7. /\ a1 \o a2 \o a3 \in Seq(Commands)
        /\ ToSet(a1 \o a2 \o a3) = ToSet(a1 \o a2) \cup ToSet(a3)
    BY <2>3, <2>6, SetOfBoth
  <2>8. /\ a1 \o a2 \o a3 \o a4 \in Seq(Commands)
        /\ ToSet(a1 \o a2 \o a3 \o a4) = ToSet(a1 \o a2 \o a3) \cup ToSet(a4)
    BY <2>4, <2>7, SetOfBoth
  <2>9. /\ a1 \o a2 \o a3 \o a4 \o a5 \in Seq(Commands)
        /\ ToSet(a1 \o a2 \o a3 \o a4 \o a5) = ToSet(a1 \o a2 \o a3 \o a4) \cup ToSet(a5)
    BY <2>5, <2>8, SetOfBoth
  <2> QED
    BY <2>1, <2>3, <2>4, <2>5, <2>6, <2>7, <2>8, <2>9 DEF Installs
<1>3. ValidatePlan \in Seq(Commands) /\ ToSet(ValidatePlan) = Validates
  BY <1>1, ShortLists DEF ValidatePlan, Validates
<1>4. /\ UpdatePlan(c) \in Seq(Commands)
      /\ ToSet(UpdatePlan(c)) \subseteq {"cert", "reload", "health", "cleanup"}
  <2> DEFINE first == IF host.files = c THEN <<>> ELSE <<"cert">>
             rest == <<"reload", "health", "cleanup">>
  <2>1. first \in Seq(Commands) /\ ToSet(first) \subseteq {"cert"}
    BY <1>1, ShortLists
  <2>2. rest \in Seq(Commands) /\ ToSet(rest) = {"reload", "health", "cleanup"}
    BY <1>1, ShortLists
  <2>3. UpdatePlan(c) = first \o rest
    BY DEF UpdatePlan
  <2> HIDE DEF first, rest
  <2>4. first \o rest \in Seq(Commands) /\ ToSet(first \o rest) = ToSet(first) \cup ToSet(rest)
    BY <2>1, <2>2, SetOfBoth
  <2> QED
    BY <2>1, <2>2, <2>3, <2>4
<1> QED
  BY <1>2, <1>3, <1>4

\* The lists that a stage's Apply and Validate, a preflight, a rollback and a
\* switch start with.
LEMMA OtherLists ==
  ASSUME NEW c, NEW s \in Stage
  PROVE  /\ ApplyPlan(s, c) \in Seq(Commands)
         /\ ToSet(ApplyPlan(s, c)) \subseteq
              (IF s = "xray_sni" THEN Installs ELSE {"write", "apply"})
         /\ StageCheck(s) \in Seq(Commands)
         /\ ToSet(StageCheck(s)) = (IF s = "xray_sni" THEN Validates ELSE {"check"})
<1>1. {"write", "apply", "check"} \subseteq Commands
  BY DEF Commands
<1>2. CASE s = "xray_sni"
  BY <1>2, PlanLists DEF ApplyPlan, StageCheck
<1>3. CASE s # "xray_sni"
  BY <1>1, <1>3, ShortLists DEF ApplyPlan, StageCheck
<1> QED
  BY <1>2, <1>3

\* The command lists the jobs are made of, with their members.
LEMMA JobLists ==
  /\ <<"inspect", "key">> \in Seq(Commands)
  /\ ToSet(<<"inspect", "key">>) = {"inspect", "key"}
  /\ <<"rollback", "reload", "health">> \in Seq(Commands)
  /\ ToSet(<<"rollback", "reload", "health">>) = {"rollback", "reload", "health"}
  /\ <<"settled", "stage", "switch">> \o ValidatePlan \in Seq(Commands)
  /\ ToSet(<<"settled", "stage", "switch">> \o ValidatePlan) =
       {"settled", "stage", "switch"} \cup Validates
<1>1. {"inspect", "key", "rollback", "reload", "health", "settled", "stage", "switch"}
        \subseteq Commands
  BY DEF Commands
<1>2. /\ <<"settled", "stage", "switch">> \in Seq(Commands)
      /\ ToSet(<<"settled", "stage", "switch">>) = {"settled", "stage", "switch"}
  BY <1>1, ShortLists
<1>3. /\ <<"settled", "stage", "switch">> \o ValidatePlan \in Seq(Commands)
      /\ ToSet(<<"settled", "stage", "switch">> \o ValidatePlan) =
           {"settled", "stage", "switch"} \cup Validates
  BY <1>2, PlanLists, SetOfBoth
<1> QED
  BY <1>1, <1>3, ShortLists

-----------------------------------------------------------------------------
(* Jobs. *)

\* What the assumptions say of the constants.
LEMMA ConstantFacts ==
  /\ "xray_sni" \in Stage /\ "xray_sni" \notin Services
  /\ NoCert \notin Certs /\ Absent \notin Certs
  /\ Prepared \subseteq Certs /\ \A c \in Prepared : Domain[c] = Home
  /\ Home \in Domains
  /\ \A c \in Certs : Domain[c] \in Domains
  /\ MaxFaults \in Nat
BY VPSAssumption DEF Stage, Domains, Services

\* A goroutine without a job.
LEMMA NoJobOK ==
  NoJob \in Jobs /\ NoJob.kind = "none" /\ \A h, st : JobOK(NoJob, h, st)
BY ShortLists DEF NoJob, Jobs, JobOK, Kinds, Phases, MaybeCert, MaybeStage

\* A step of the only goroutine with a job, or of one that gets it.
LEMMA Frame ==
  ASSUME VPSInv, NEW w \in Workers, \A v \in Workers \ {w} : Free(v),
         RowOK', HostOK(host, steps)',
         job' \in [Workers -> Jobs], \A v \in Workers \ {w} : job'[v] = job[v],
         JobOK(job'[w], host', steps')
  PROVE  VPSInv'
<1>1. \A v \in Workers \ {w} : JobOK(job'[v], host', steps')
  BY DEF VPSInv, Free, JobOK
<1>2. Alone'
  BY DEF Alone, Free
<1> QED
  BY <1>1, <1>2 DEF VPSInv

\* The other goroutines have no job while one has.
LEMMA OthersFree ==
  ASSUME VPSInv, NEW w \in Workers, ~Free(w)
  PROVE  \A v \in Workers \ {w} : Free(v)
BY DEF VPSInv, Alone

\* A job ends.
LEMMA EndInv ==
  ASSUME VPSInv, NEW w \in Workers, ~Free(w), End(w), RowOK', HostOK(host, steps)'
  PROVE  VPSInv'
<1>1. job' \in [Workers -> Jobs] /\ job'[w] = NoJob
      /\ \A v \in Workers \ {w} : job'[v] = job[v]
  BY NoJobOK DEF VPSInv, End
<1> QED
  BY <1>1, Frame, OthersFree, NoJobOK

\* A job begins while nobody has one.
LEMMA BeginInv ==
  ASSUME VPSInv, Quiet, NEW w \in Workers, NEW j \in Jobs, Begin(w, j),
         JobOK(j, host, steps), UNCHANGED <<passed, steps, sni, host, faults>>
  PROVE  VPSInv'
<1>1. job' \in [Workers -> Jobs] /\ job'[w] = j
      /\ \A v \in Workers \ {w} : job'[v] = job[v]
  BY DEF VPSInv, Begin
<1>2. RowOK' /\ HostOK(host, steps)'
  BY DEF VPSInv, RowOK, HostOK
<1> QED
  BY <1>1, <1>2, Frame DEF Quiet

\* The four ways in which a job begins.
LEMMA StartInv ==
  ASSUME VPSInv, ~Overlap, NEW w \in Workers,
         \/ Attempt(w)
         \/ \E c \in Certs : StartUpdate(w, c)
         \/ \E from, to \in Certs : StartSwitch(w, from, to)
  PROVE  VPSInv'
<1>0. /\ NoJob = [kind |-> "none", phase |-> "idle", cert |-> NoCert, next |-> NoCert,
                   stage |-> "none", skip |-> {}, todo |-> <<>>]
      /\ "none" \in MaybeStage /\ NoCert \in MaybeCert /\ Certs \subseteq MaybeCert
  BY DEF NoJob, MaybeStage, MaybeCert
<1>1. CASE StartPreflight(w)
  <2> DEFINE j == [NoJob EXCEPT !.kind = "preflight", !.phase = "run",
                                !.todo = <<"inspect", "key">>]
  <2>1. j \in Jobs
    BY <1>0, JobLists DEF Jobs, Kinds, Phases
  <2>2. JobOK(j, host, steps)
    BY <1>0, JobLists DEF JobOK, PreflightOK
  <2> QED
    BY <1>1, <2>1, <2>2, BeginInv DEF StartPreflight
<1>2. ASSUME NEW c \in Prepared, StartProvision(w, c) PROVE VPSInv'
  <2> DEFINE skip == {s \in Stage : steps[s] = "COMPLETED"}
             j == [NoJob EXCEPT !.kind = "provision", !.phase = "next", !.cert = c,
                                !.skip = skip]
  <2>1. j \in Jobs
    BY <1>0, ShortLists, ConstantFacts DEF Jobs, Kinds, Phases
  <2>2. JobOK(j, host, steps)
    BY <1>0, ConstantFacts DEF JobOK, ProvisionOK, StageOK
  <2> QED
    BY <1>2, <2>1, <2>2, BeginInv DEF StartProvision
<1>3. ASSUME NEW c \in Certs, StartUpdate(w, c) PROVE VPSInv'
  <2> DEFINE j == [NoJob EXCEPT !.kind = "update", !.phase = "inspect", !.cert = c]
  <2>1. j \in Jobs
    BY <1>0, ShortLists DEF Jobs, Kinds, Phases
  <2>2. JobOK(j, host, steps)
    BY <1>0, <1>3, ShortLists, ConstantFacts DEF JobOK, UpdateOK, StartUpdate, Provisioned
  <2> QED
    BY <1>3, <2>1, <2>2, BeginInv DEF StartUpdate
<1>4. ASSUME NEW from \in Certs, NEW to \in Certs, StartSwitch(w, from, to) PROVE VPSInv'
  <2> DEFINE j == [NoJob EXCEPT !.kind = "switch", !.phase = "check", !.cert = from,
                                !.next = to, !.todo = ValidatePlan]
  <2>1. j \in Jobs
    BY <1>0, PlanLists DEF Jobs, Kinds, Phases
  <2>2. JobOK(j, host, steps)
    BY <1>0, <1>4, PlanLists, ConstantFacts
    DEF JobOK, SwitchOK, StartSwitch, Provisioned, Validates
  <2> QED
    BY <1>4, <2>1, <2>2, BeginInv DEF StartSwitch
<1> QED
  BY <1>1, <1>2, <1>3, <1>4 DEF Attempt

-----------------------------------------------------------------------------
(* Effects of commands. *)

\* What a command leaves behind, whether it is reported as done or as failed.
Outcome(cmd, c, s, h) ==
  \/ h = host
  \/ Can(cmd, c, s) /\ h \in After(cmd, c, s)
  \/ /\ cmd = "switch" /\ Can(cmd, c, s)
     /\ h \in {Started(host), [Started(host) EXCEPT !.left = TRUE]}

\* A faulty command leaves what one of its outcomes leaves.
LEMMA FaultOutcome ==
  ASSUME NEW cmd, NEW c, NEW s, NEW h \in AfterFault(cmd, c, s)
  PROVE  Outcome(cmd, c, s, h)
BY DEF Outcome, AfterFault

\* The commands of the other stages leave xray-sni alone and stop no service.
LEMMA StageEffect ==
  ASSUME host \in Hosts, NEW c, NEW s \in MaybeStage,
         NEW cmd \in {"write", "apply", "check"}, NEW h, Outcome(cmd, c, s, h)
  PROVE  /\ h \in Hosts /\ host.live \subseteq h.live /\ h.key = host.key
         /\ Serves(host) => Serves(h)
         /\ OnlyHome(host) => OnlyHome(h)
<1>1. \/ h = host
      \/ h = [host EXCEPT !.written = @ \cup {s}]
      \/ h = [host EXCEPT !.live = @ \cup {s}]
  BY DEF Outcome, After
<1> QED
  BY <1>1 DEF Hosts, Serves, OnlyHome

\* Commands that only look.
LEMMA QuietEffect ==
  ASSUME NEW c, NEW s, NEW h,
         NEW cmd \in {"inspect", "check", "config", "match", "health", "settled", "stage"},
         Outcome(cmd, c, s, h)
  PROVE  h = host
BY DEF Outcome, After

\* A cleanup removes the backup, or nothing.
LEMMA CleanupEffect ==
  ASSUME NEW c, NEW s, NEW h, Outcome("cleanup", c, s, h)
  PROVE  h = host \/ h = [host EXCEPT !.backup = Absent]
BY DEF Outcome, After

\* Started keeps everything but the container.
LEMMA StartedFacts ==
  ASSUME NEW h \in Hosts
  PROVE  /\ Started(h) \in Hosts
         /\ Started(h).up /\ Started(h).served = h.env /\ Started(h).loaded = h.files
         /\ Started(h).files = h.files /\ Started(h).backup = h.backup /\ Started(h).env = h.env
         /\ Started(h).built = h.built /\ Started(h).live = h.live /\ Started(h).key = h.key
BY DEF Started, Hosts

\* The installation of a pair of the deployment's SNI.
LEMMA InstallEffect ==
  ASSUME host \in Hosts, OnlyHome(host), NEW c \in Certs, Domain[c] = Home, NEW s,
         NEW cmd \in Installs \cup Validates, NEW h, Outcome(cmd, c, s, h)
  PROVE  h \in Hosts /\ OnlyHome(h) /\ h.live = host.live /\ h.key = host.key
<1>1. CASE cmd \in {"config", "match", "health"}
  BY <1>1, QuietEffect
<1>2. CASE cmd = "cleanup"
  <2>1. h = host \/ h = [host EXCEPT !.backup = Absent]
    BY <1>2, CleanupEffect
  <2> QED
    BY <2>1, ConstantFacts DEF Hosts, OnlyHome
<1>3. CASE cmd \in {"repo", "commit", "env", "reload"}
  <2>1. \/ h = host
        \/ h = [host EXCEPT !.repo = TRUE]
        \/ h = [host EXCEPT !.built = TRUE]
        \/ h = [host EXCEPT !.env = Domain[c]]
        \/ h = [host EXCEPT !.loaded = host.files]
    BY <1>3 DEF Outcome, After
  <2> QED
    BY <2>1, ConstantFacts DEF Hosts, OnlyHome, MaybeDomain
<1>4. CASE cmd = "cert"
  <2>1. h = host \/ h = [host EXCEPT !.backup = host.files, !.files = c]
    BY <1>4 DEF Outcome, After
  <2> QED
    BY <2>1, ConstantFacts DEF Hosts, OnlyHome, MaybeCert
<1>5. CASE cmd \in {"build", "up"}
  <2>1. h = host \/ h = Started(host)
    BY <1>5 DEF Outcome, After
  <2> QED
    BY <2>1, StartedFacts DEF OnlyHome
<1> QED
  BY <1>1, <1>2, <1>3, <1>4, <1>5 DEF Installs, Validates

\* A renewal with a pair of the domain in .env, and its rollback.
LEMMA RenewEffect ==
  ASSUME host \in Hosts, Serves(host), NEW c \in Certs, host.env = Domain[c], NEW s,
         NEW cmd \in {"cert", "reload", "health", "cleanup", "rollback"},
         NEW h, Outcome(cmd, c, s, h)
  PROVE  /\ h \in Hosts /\ Serves(h)
         /\ h.live = host.live /\ h.key = host.key /\ h.env = host.env
<1>1. CASE cmd = "health"
  BY <1>1, QuietEffect
<1>2. CASE cmd = "cleanup"
  <2>1. h = host \/ h = [host EXCEPT !.backup = Absent]
    BY <1>2, CleanupEffect
  <2> QED
    BY <2>1, ConstantFacts DEF Hosts, Serves
<1>3. CASE cmd = "cert"
  <2>1. h = host \/ h = [host EXCEPT !.backup = host.files, !.files = c]
    BY <1>3 DEF Outcome, After
  <2> QED
    BY <2>1 DEF Hosts, Serves, MaybeCert
<1>4. CASE cmd = "reload"
  <2>1. h = host \/ h = [host EXCEPT !.loaded = host.files]
    BY <1>4 DEF Outcome, After
  <2> QED
    BY <2>1 DEF Hosts, Serves
<1>5. CASE cmd = "rollback"
  <2>1. \/ h = host
        \/ host.backup \in Certs /\ h = [host EXCEPT !.files = host.backup, !.backup = Absent]
    BY <1>5 DEF Outcome, After, Can
  <2> QED
    BY <2>1, ConstantFacts DEF Hosts, Serves, MaybeCert
<1> QED
  BY <1>1, <1>2, <1>3, <1>4, <1>5

\* The switch to another SNI, which starts without a backup of the old one's pair.
LEMMA SwitchEffect ==
  ASSUME host \in Hosts, Serves(host), NEW c \in Certs, NEW s,
         NEW cmd \in {"settled", "stage", "switch"} \cup Validates,
         cmd = "switch" => host.backup = Absent,
         NEW h, Outcome(cmd, c, s, h)
  PROVE  /\ h \in Hosts /\ Serves(h)
         /\ h.live = host.live /\ h.key = host.key
         /\ h.backup \in {host.backup, Absent}
<1>1. CASE cmd \in {"settled", "stage", "match", "health"}
  BY <1>1, QuietEffect
<1>2. CASE cmd = "cleanup"
  <2>1. h = host \/ h = [host EXCEPT !.backup = Absent]
    BY <1>2, CleanupEffect
  <2> QED
    BY <2>1, ConstantFacts DEF Hosts, Serves
<1>3. CASE cmd = "switch"
  <2> DEFINE new == [host EXCEPT !.env = Domain[c], !.files = c]
  <2>1. \/ h = host \/ h = Started(new)
        \/ h = Started(host) \/ h = [Started(host) EXCEPT !.left = TRUE]
    BY <1>3 DEF Outcome, After
  <2>2. new \in Hosts /\ new.env = Domain[c] /\ new.files = c /\ new.built = host.built
        /\ new.backup = host.backup /\ new.live = host.live /\ new.key = host.key
    BY ConstantFacts DEF Hosts, MaybeCert, MaybeDomain
  <2> HIDE DEF new
  <2>3. CASE h = Started(new)
    BY <1>3, <2>2, <2>3, StartedFacts, ConstantFacts DEF Serves
  <2>4. CASE h = Started(host)
    BY <1>3, <2>4, StartedFacts, ConstantFacts DEF Serves
  <2>5. CASE h = [Started(host) EXCEPT !.left = TRUE]
    <3>1. /\ h \in Hosts /\ h.built = Started(host).built /\ h.up = Started(host).up
          /\ h.served = Started(host).served /\ h.env = Started(host).env
          /\ h.files = Started(host).files /\ h.loaded = Started(host).loaded
          /\ h.backup = Started(host).backup /\ h.live = Started(host).live
          /\ h.key = Started(host).key
      BY <2>5, StartedFacts DEF Hosts
    <3> QED
      BY <1>3, <3>1, StartedFacts, ConstantFacts DEF Serves
  <2> QED
    BY <2>1, <2>3, <2>4, <2>5
<1> QED
  BY <1>1, <1>2, <1>3 DEF Validates

-----------------------------------------------------------------------------
(* Commands of a job. *)

\* A command is one of a running job, has one of its outcomes, and the job goes
\* on with the rest of its list or fails.
LEMMA CommandSplit ==
  ASSUME VPSInv, NEW w \in Workers, Command(w)
  PROVE  LET j == job[w]  cmd == Head(job[w].todo) IN
         /\ j \in Jobs /\ ~Free(w) /\ JobOK(j, host, steps) /\ j.todo # <<>>
         /\ cmd \in ToSet(j.todo) /\ ToSet(j.todo) = {cmd} \cup ToSet(Tail(j.todo))
         /\ Tail(j.todo) \in Seq(Commands)
         /\ UNCHANGED <<passed, steps, sni>> /\ faults' \in 0..MaxFaults
         /\ Outcome(cmd, j.cert, j.stage, host')
         /\ \/ Can(cmd, j.cert, j.stage) /\ host' \in After(cmd, j.cert, j.stage)
               /\ job' = [job EXCEPT ![w].todo = Tail(@)]
            \/ Failed(w)
<1> DEFINE j == job[w]
           cmd == Head(job[w].todo)
<1>1. j \in Jobs /\ JobOK(j, host, steps) /\ j.todo # <<>>
  BY DEF VPSInv, Command
<1>2. j.kind \in Kinds /\ j.todo \in Seq(Commands)
  BY <1>1 DEF Jobs
<1>3. ~Free(w)
  BY <1>1, <1>2 DEF Free, JobOK
<1>4. /\ cmd \in ToSet(j.todo) /\ ToSet(j.todo) = {cmd} \cup ToSet(Tail(j.todo))
      /\ Tail(j.todo) \in Seq(Commands)
  BY <1>1, <1>2, HeadAndTail
<1>5. UNCHANGED <<passed, steps, sni>>
  BY DEF Command
<1>6. faults' \in 0..MaxFaults
  BY ConstantFacts DEF Command, Faulty, VPSInv, RowOK
<1>7. \/ /\ Can(cmd, j.cert, j.stage) /\ host' \in After(cmd, j.cert, j.stage)
         /\ job' = [job EXCEPT ![w].todo = Tail(@)]
      \/ host' = host /\ Failed(w)
      \/ host' \in AfterFault(cmd, j.cert, j.stage) /\ Failed(w)
  BY DEF Command
<1>8. Outcome(cmd, j.cert, j.stage, host')
  BY <1>7, FaultOutcome DEF Outcome
<1> QED
  BY <1>1, <1>3, <1>4, <1>5, <1>6, <1>7, <1>8

\* The row is as it was.
LEMMA SameRow ==
  ASSUME VPSInv, UNCHANGED <<passed, steps, sni>>, faults' \in 0..MaxFaults,
         host'.key \/ host'.key = host.key
  PROVE  RowOK'
BY DEF VPSInv, RowOK

\* A job goes on with the rest of its list.
LEMMA AdvanceInv ==
  ASSUME VPSInv, NEW w \in Workers, ~Free(w), RowOK', HostOK(host, steps)',
         Tail(job[w].todo) \in Seq(Commands),
         job' = [job EXCEPT ![w].todo = Tail(@)],
         JobOK([job[w] EXCEPT !.todo = Tail(@)], host', steps')
  PROVE  VPSInv'
<1> DEFINE j == [job[w] EXCEPT !.todo = Tail(@)]
<1>1. job[w] \in Jobs /\ job \in [Workers -> Jobs]
  BY DEF VPSInv
<1>2. j \in Jobs
  BY <1>1 DEF Jobs
<1>3. job' \in [Workers -> Jobs] /\ job'[w] = j
      /\ \A v \in Workers \ {w} : job'[v] = job[v]
  BY <1>1, <1>2
<1> QED
  BY <1>3, Frame, OthersFree

\* A job whose command failed ends, is recorded as failed, or rolls back.
LEMMA FailedInv ==
  ASSUME VPSInv, NEW w \in Workers, ~Free(w), Failed(w), steps' = steps,
         RowOK', HostOK(host, steps)',
         job[w].kind = "provision" => job[w].phase # "next",
         job[w].kind = "update" => host'.env = host.env
  PROVE  VPSInv'
<1>1. job[w] \in Jobs /\ job \in [Workers -> Jobs] /\ JobOK(job[w], host, steps)
  BY DEF VPSInv
<1>2. CASE job[w].kind = "provision"
  <2> DEFINE j == [job[w] EXCEPT !.phase = "failed", !.todo = <<>>]
  <2>1. job' = [job EXCEPT ![w] = j]
    BY <1>2 DEF Failed
  <2>2. j \in Jobs
    BY <1>1, ShortLists DEF Jobs, Phases
  <2>3. /\ j.kind = "provision" /\ j.phase = "failed" /\ j.todo = <<>>
        /\ j.cert = job[w].cert /\ j.stage = job[w].stage /\ j.skip = job[w].skip
    BY <1>1, <1>2 DEF Jobs
  <2>4. ProvisionOK(job[w], host, steps)
    BY <1>1, <1>2 DEF JobOK
  <2> HIDE DEF j
  <2>5. JobOK(j, host', steps')
    BY <1>2, <2>3, <2>4 DEF JobOK, ProvisionOK, StageOK
  <2>6. job' \in [Workers -> Jobs] /\ job'[w] = j
        /\ \A v \in Workers \ {w} : job'[v] = job[v]
    BY <1>1, <2>1, <2>2
  <2> QED
    BY <2>5, <2>6, Frame, OthersFree
<1>3. CASE /\ job[w].kind = "update" /\ job[w].phase = "run"
           /\ Head(job[w].todo) \in {"reload", "health"}
  <2> DEFINE j == [job[w] EXCEPT !.phase = "rollback",
                                 !.todo = <<"rollback", "reload", "health">>]
  <2>1. job' = [job EXCEPT ![w] = j]
    BY <1>3 DEF Failed
  <2>2. j \in Jobs
    BY <1>1, JobLists DEF Jobs, Phases
  <2>3. /\ j.kind = "update" /\ j.phase = "rollback" /\ j.cert = job[w].cert
        /\ j.todo = <<"rollback", "reload", "health">>
    BY <1>1, <1>3 DEF Jobs
  <2>4. UpdateOK(job[w], host, steps)
    BY <1>1, <1>3 DEF JobOK
  <2> HIDE DEF j
  <2>5. JobOK(j, host', steps')
    BY <1>3, <2>3, <2>4, JobLists DEF JobOK, UpdateOK
  <2>6. job' \in [Workers -> Jobs] /\ job'[w] = j
        /\ \A v \in Workers \ {w} : job'[v] = job[v]
    BY <1>1, <2>1, <2>2
  <2> QED
    BY <2>5, <2>6, Frame, OthersFree
<1>4. CASE /\ job[w].kind # "provision"
           /\ ~(/\ job[w].kind = "update" /\ job[w].phase = "run"
                /\ Head(job[w].todo) \in {"reload", "health"})
  <2>1. End(w)
    BY <1>4 DEF Failed
  <2> QED
    BY <2>1, EndInv
<1> QED
  BY <1>2, <1>3, <1>4

\* The key of the preflight changes nothing else.
LEMMA KeyEffect ==
  ASSUME NEW h, NEW st, HostOK(h, st), NEW g, g = [h EXCEPT !.key = TRUE]
  PROVE  HostOK(g, st) /\ g.key
<1>1. h \in Hosts
  BY DEF HostOK
<1>2. /\ g \in Hosts /\ g.key /\ g.live = h.live /\ g.built = h.built /\ g.up = h.up
      /\ g.env = h.env /\ g.files = h.files /\ g.backup = h.backup
      /\ g.loaded = h.loaded /\ g.served = h.served
  BY <1>1 DEF Hosts
<1> QED
  BY <1>2 DEF HostOK, Serves, OnlyHome

\* The preflight.
LEMMA PreflightCommand ==
  ASSUME VPSInv, NEW w \in Workers, Command(w), job[w].kind = "preflight"
  PROVE  VPSInv'
<1> DEFINE j == job[w]
           cmd == Head(job[w].todo)
           k == [job[w] EXCEPT !.todo = Tail(@)]
<1>1. /\ j \in Jobs /\ ~Free(w) /\ PreflightOK(j, host)
      /\ cmd \in ToSet(j.todo) /\ ToSet(j.todo) = {cmd} \cup ToSet(Tail(j.todo))
      /\ Tail(j.todo) \in Seq(Commands)
      /\ UNCHANGED <<passed, steps, sni>> /\ faults' \in 0..MaxFaults
      /\ Outcome(cmd, j.cert, j.stage, host')
  BY CommandSplit DEF JobOK
<1>2. cmd \in {"inspect", "key"}
  BY <1>1 DEF PreflightOK
<1>3. host' = host \/ host' = [host EXCEPT !.key = TRUE]
  BY <1>1, <1>2 DEF Outcome, After
<1>4. HostOK(host, steps)' /\ (host'.key \/ host'.key = host.key)
  <2>1. HostOK(host, steps)
    BY DEF VPSInv
  <2> QED
    BY <1>1, <1>3, <2>1, KeyEffect
<1>5. RowOK'
  BY <1>1, <1>4, SameRow
<1>6. CASE Can(cmd, j.cert, j.stage) /\ host' \in After(cmd, j.cert, j.stage)
           /\ job' = [job EXCEPT ![w].todo = Tail(@)]
  <2>1. cmd = "key" => host'.key
    BY <1>6 DEF After, VPSInv, HostOK, Hosts
  <2>2. k.kind = "preflight" /\ k.phase = j.phase /\ k.todo = Tail(j.todo)
    BY <1>1 DEF Jobs
  <2> HIDE DEF k
  <2>3. JobOK(k, host', steps')
    BY <1>1, <1>2, <1>3, <1>4, <2>1, <2>2 DEF JobOK, PreflightOK
  <2> QED
    BY <1>1, <1>4, <1>5, <1>6, <2>3, AdvanceInv DEF k
<1>7. CASE Failed(w)
  BY <1>1, <1>4, <1>5, <1>7, FailedInv
<1> QED
  BY <1>6, <1>7, CommandSplit

\* A renewal or its rollback.
LEMMA UpdateCommand ==
  ASSUME VPSInv, NEW w \in Workers, Command(w), job[w].kind = "update"
  PROVE  VPSInv'
<1> DEFINE j == job[w]
           cmd == Head(job[w].todo)
           k == [job[w] EXCEPT !.todo = Tail(@)]
<1>1. /\ j \in Jobs /\ ~Free(w) /\ UpdateOK(j, host, steps) /\ j.todo # <<>>
      /\ cmd \in ToSet(j.todo) /\ ToSet(j.todo) = {cmd} \cup ToSet(Tail(j.todo))
      /\ Tail(j.todo) \in Seq(Commands)
      /\ UNCHANGED <<passed, steps, sni>> /\ faults' \in 0..MaxFaults
      /\ Outcome(cmd, j.cert, j.stage, host')
  BY CommandSplit DEF JobOK
<1>2. /\ cmd \in {"cert", "reload", "health", "cleanup", "rollback"}
      /\ j.cert \in Certs /\ host.env = Domain[j.cert] /\ steps["xray_sni"] = "COMPLETED"
  BY <1>1 DEF UpdateOK
<1>3. host \in Hosts /\ Serves(host)
  BY <1>2 DEF VPSInv, HostOK
<1>4. /\ host' \in Hosts /\ Serves(host')
      /\ host'.live = host.live /\ host'.key = host.key /\ host'.env = host.env
  <2>1. Outcome(cmd, j.cert, j.stage, host')
    BY <1>1
  <2> HIDE DEF cmd, j
  <2> QED
    BY <1>2, <1>3, <2>1, RenewEffect
<1>5. HostOK(host, steps)'
  BY <1>1, <1>2, <1>4 DEF VPSInv, HostOK
<1>6. RowOK'
  BY <1>1, <1>4, SameRow
<1>7. CASE job' = [job EXCEPT ![w].todo = Tail(@)]
  <2>1. k.kind = "update" /\ k.phase = j.phase /\ k.todo = Tail(j.todo) /\ k.cert = j.cert
    BY <1>1 DEF Jobs
  <2> HIDE DEF k
  <2>2. JobOK(k, host', steps')
    BY <1>1, <1>4, <2>1 DEF JobOK, UpdateOK
  <2> QED
    BY <1>1, <1>5, <1>6, <1>7, <2>2, AdvanceInv DEF k
<1>8. CASE Failed(w)
  BY <1>1, <1>4, <1>5, <1>6, <1>8, FailedInv
<1> QED
  BY <1>7, <1>8, CommandSplit

\* The check before a switch, and the switch.
LEMMA SwitchCommand ==
  ASSUME VPSInv, NEW w \in Workers, Command(w), job[w].kind = "switch"
  PROVE  VPSInv'
<1> DEFINE j == job[w]
           cmd == Head(job[w].todo)
           k == [job[w] EXCEPT !.todo = Tail(@)]
<1>1. /\ j \in Jobs /\ ~Free(w) /\ SwitchOK(j, host, steps)
      /\ cmd \in ToSet(j.todo) /\ ToSet(j.todo) = {cmd} \cup ToSet(Tail(j.todo))
      /\ Tail(j.todo) \in Seq(Commands)
      /\ UNCHANGED <<passed, steps, sni>> /\ faults' \in 0..MaxFaults
      /\ Outcome(cmd, j.cert, j.stage, host')
  BY CommandSplit DEF JobOK
<1>2. /\ cmd \in {"settled", "stage", "switch"} \cup Validates
      /\ cmd = "switch" => host.backup = Absent
      /\ j.cert \in Certs /\ steps["xray_sni"] = "COMPLETED"
  BY <1>1 DEF SwitchOK, Validates
<1>3. host \in Hosts /\ Serves(host)
  BY <1>2 DEF VPSInv, HostOK
<1>4. /\ host' \in Hosts /\ Serves(host')
      /\ host'.live = host.live /\ host'.key = host.key
      /\ host'.backup \in {host.backup, Absent}
  BY <1>1, <1>2, <1>3, SwitchEffect
<1>5. HostOK(host, steps)'
  BY <1>1, <1>2, <1>4 DEF VPSInv, HostOK
<1>6. RowOK'
  BY <1>1, <1>4, SameRow
<1>7. CASE Can(cmd, j.cert, j.stage) /\ host' \in After(cmd, j.cert, j.stage)
           /\ job' = [job EXCEPT ![w].todo = Tail(@)]
  <2>1. cmd = "cleanup" => host'.backup = Absent
    BY <1>3, <1>7 DEF After, Hosts
  <2>2. /\ k.kind = "switch" /\ k.phase = j.phase /\ k.todo = Tail(j.todo)
        /\ k.cert = j.cert /\ k.next = j.next
    BY <1>1 DEF Jobs
  <2> HIDE DEF k
  <2>3. JobOK(k, host', steps')
    BY <1>1, <1>2, <1>4, <2>1, <2>2 DEF JobOK, SwitchOK
  <2> QED
    BY <1>1, <1>5, <1>6, <1>7, <2>3, AdvanceInv DEF k
<1>8. CASE Failed(w)
  BY <1>1, <1>5, <1>6, <1>8, FailedInv
<1> QED
  BY <1>7, <1>8, CommandSplit

\* A stage's Apply or Validate.
LEMMA ProvisionCommand ==
  ASSUME VPSInv, NEW w \in Workers, Command(w), job[w].kind = "provision"
  PROVE  VPSInv'
<1> DEFINE j == job[w]
           cmd == Head(job[w].todo)
           k == [job[w] EXCEPT !.todo = Tail(@)]
<1>1. /\ j \in Jobs /\ ~Free(w) /\ ProvisionOK(j, host, steps) /\ j.todo # <<>>
      /\ cmd \in ToSet(j.todo) /\ ToSet(j.todo) = {cmd} \cup ToSet(Tail(j.todo))
      /\ Tail(j.todo) \in Seq(Commands)
      /\ UNCHANGED <<passed, steps, sni>> /\ faults' \in 0..MaxFaults
      /\ Outcome(cmd, j.cert, j.stage, host')
  BY CommandSplit DEF JobOK
<1>2. /\ j.phase \in {"apply", "validate"}
      /\ j.stage = "xray_sni" => cmd \in Installs \cup Validates
      /\ j.stage # "xray_sni" => cmd \in {"write", "apply", "check"}
      /\ j.phase = "validate" => cmd \in Validates \cup {"check"}
  BY <1>1 DEF ProvisionOK, StageOK
<1>3. /\ j.cert \in Certs /\ Domain[j.cert] = Home
      /\ j.stage \in Stage /\ j.stage \in MaybeStage /\ steps[j.stage] = "RUNNING"
  BY <1>1, <1>2 DEF ProvisionOK, MaybeStage
<1>4. host \in Hosts
  BY DEF VPSInv, HostOK
<1>5. /\ host' \in Hosts /\ host.live \subseteq host'.live /\ host'.key = host.key
      /\ IF steps["xray_sni"] = "COMPLETED" THEN Serves(host') ELSE OnlyHome(host')
  <2>1. Outcome(cmd, j.cert, j.stage, host')
    BY <1>1
  <2>2. IF steps["xray_sni"] = "COMPLETED" THEN Serves(host) ELSE OnlyHome(host)
    BY DEF VPSInv, HostOK
  <2> HIDE DEF cmd, j
  <2>3. CASE j.stage = "xray_sni"
    BY <1>2, <1>3, <1>4, <2>1, <2>2, <2>3, InstallEffect
  <2>4. CASE j.stage # "xray_sni"
    <3>1. cmd \in {"write", "apply", "check"} /\ j.stage \in MaybeStage
      BY <1>2, <1>3, <2>4
    <3>2. /\ host' \in Hosts /\ host.live \subseteq host'.live /\ host'.key = host.key
          /\ Serves(host) => Serves(host')
          /\ OnlyHome(host) => OnlyHome(host')
      BY <1>4, <2>1, <3>1, StageEffect
    <3> QED
      BY <2>2, <3>2
  <2> QED
    BY <2>3, <2>4
<1>6. HostOK(host, steps)'
  BY <1>1, <1>5 DEF VPSInv, HostOK
<1>7. RowOK'
  BY <1>1, <1>5, SameRow
<1>8. CASE Can(cmd, j.cert, j.stage) /\ host' \in After(cmd, j.cert, j.stage)
           /\ job' = [job EXCEPT ![w].todo = Tail(@)]
  <2>1. /\ k.kind = "provision" /\ k.phase = j.phase /\ k.todo = Tail(j.todo)
        /\ k.cert = j.cert /\ k.stage = j.stage /\ k.skip = j.skip
    BY <1>1 DEF Jobs
  <2>2. StageOK(j, host) /\ ToSet(k.todo) \subseteq ToSet(j.todo)
        /\ ToSet(j.todo) = {cmd} \cup ToSet(k.todo)
    BY <1>1, <2>1 DEF ProvisionOK
  <2>3. StageOK(k, host')
    <3>1. CASE j.phase = "apply"
      BY <2>1, <2>2, <3>1 DEF StageOK
    <3>2. CASE j.phase = "validate" /\ j.stage = "xray_sni"
      <4>1. /\ ToSet(j.todo) \subseteq Validates
            /\ "match" \in ToSet(j.todo) \/ InPlace(host, j.cert)
            /\ "health" \in ToSet(j.todo) \/ Sound(host, j.cert)
        BY <2>2, <3>2 DEF StageOK
      <4>2. cmd \in Validates
        BY <2>2, <4>1
      <4>3. host' = host \/ host' = [host EXCEPT !.backup = Absent]
        BY <1>8, <4>2 DEF After, Validates
      <4>4. /\ InPlace(host, j.cert) => InPlace(host', j.cert)
            /\ Sound(host, j.cert) => Sound(host', j.cert)
        BY <1>4, <4>3 DEF InPlace, Sound, Hosts
      <4>5. cmd = "match" => InPlace(host, j.cert)
        BY <1>8, Differs(j.cert) = {} => InPlace(host, j.cert) DEF Can, Differs, InPlace
      <4>6. cmd = "health" => Sound(host, j.cert)
        BY <1>4, <1>8 DEF Can, Healthy, Sound, Hosts, MaybeCert
      <4> QED
        BY <2>1, <2>2, <3>2, <4>1, <4>4, <4>5, <4>6 DEF StageOK
    <3>3. CASE j.phase = "validate" /\ j.stage # "xray_sni"
      <4>1. cmd = "check" /\ host' = host
        BY <1>8, <2>2, <3>3 DEF StageOK, After
      <4>2. j.stage \in Services => j.stage \in host'.live
        BY <1>8, <4>1 DEF Can, Services
      <4> QED
        BY <2>1, <2>2, <3>3, <4>1, <4>2 DEF StageOK
    <3> QED
      BY <1>2, <3>1, <3>2, <3>3
  <2> HIDE DEF k
  <2>4. JobOK(k, host', steps')
    BY <1>1, <2>1, <2>3 DEF JobOK, ProvisionOK
  <2> QED
    BY <1>1, <1>6, <1>7, <1>8, <2>4, AdvanceInv DEF k
<1>9. CASE Failed(w)
  BY <1>1, <1>2, <1>6, <1>7, <1>9, FailedInv
<1> QED
  BY <1>8, <1>9, CommandSplit

\* One SSH command of whatever job.
LEMMA CommandInv ==
  ASSUME VPSInv, NEW w \in Workers, Command(w)
  PROVE  VPSInv'
<1>1. job[w].kind \in Kinds /\ job[w].kind # "none"
  BY CommandSplit DEF Jobs, Free
<1> QED
  BY <1>1, PreflightCommand, ProvisionCommand, UpdateCommand, SwitchCommand DEF Kinds

-----------------------------------------------------------------------------
(* The other steps of a job. *)

\* The engine takes the next stage, which is not completed.
LEMMA NextStageInv ==
  ASSUME VPSInv, NEW w \in Workers, NextStage(w)
  PROVE  VPSInv'
<1>1. /\ job[w] \in Jobs /\ job \in [Workers -> Jobs] /\ ~Free(w)
      /\ ProvisionOK(job[w], host, steps) /\ job[w].phase = "next" /\ job[w].todo = <<>>
  BY DEF NextStage, VPSInv, Free, JobOK, ProvisionOK, StageOK
<1>2. CASE End(w) /\ UNCHANGED <<steps, faults>>
  <2>1. RowOK' /\ HostOK(host, steps)'
    BY <1>2 DEF NextStage, VPSInv, RowOK, HostOK
  <2> QED
    BY <1>1, <1>2, <2>1, EndInv
<1>3. ASSUME NEW s \in Stage, FirstOpen(s, job[w].skip),
             \/ /\ steps' = [steps EXCEPT ![s] = "RUNNING"]
                /\ job' = [job EXCEPT ![w].phase = "inspect", ![w].stage = s]
                /\ UNCHANGED faults
             \/ /\ Faulty
                /\ steps' \in {steps, [steps EXCEPT ![s] = "RUNNING"]}
                /\ End(w)
      PROVE  VPSInv'
  <2>1. s \notin job[w].skip /\ steps[s] # "COMPLETED" /\ steps \in [Stage -> Statuses]
    BY <1>1, <1>3 DEF FirstOpen, ProvisionOK, VPSInv, RowOK
  <2>2. /\ steps' \in [Stage -> Statuses]
        /\ \A t \in Stage : steps'[t] = "COMPLETED" <=> steps[t] = "COMPLETED"
    BY <1>3, <2>1 DEF Statuses
  <2>3. faults' \in 0..MaxFaults /\ UNCHANGED <<passed, sni, host>>
    BY <1>3, ConstantFacts DEF Faulty, VPSInv, RowOK, NextStage
  <2>4. RowOK' /\ HostOK(host, steps)'
    BY <2>2, <2>3, ConstantFacts DEF VPSInv, RowOK, HostOK, Services
  <2>5. CASE End(w)
    BY <1>1, <2>4, <2>5, EndInv
  <2>6. CASE /\ steps' = [steps EXCEPT ![s] = "RUNNING"]
             /\ job' = [job EXCEPT ![w].phase = "inspect", ![w].stage = s]
    <3> DEFINE k == [job[w] EXCEPT !.phase = "inspect", !.stage = s]
    <3>1. /\ k \in Jobs /\ k.kind = job[w].kind /\ k.phase = "inspect" /\ k.stage = s
          /\ k.cert = job[w].cert /\ k.skip = job[w].skip /\ k.todo = <<>>
      BY <1>1 DEF Jobs, Phases, MaybeStage
    <3>2. job' \in [Workers -> Jobs] /\ job'[w] = k
          /\ \A v \in Workers \ {w} : job'[v] = job[v]
      BY <1>1, <2>6, <3>1
    <3> HIDE DEF k
    <3>3. k.kind = "provision" /\ ProvisionOK(k, host', steps')
      BY <1>1, <2>1, <2>2, <2>6, <3>1 DEF ProvisionOK, StageOK, NextStage
    <3> QED
      BY <1>1, <2>4, <3>2, <3>3, Frame, OthersFree DEF JobOK
  <2> QED
    BY <1>3, <2>5, <2>6
<1> QED
  BY <1>2, <1>3 DEF NextStage

\* Differs and Healthy as facts about the host.
LEMMA InspectedFacts ==
  ASSUME host \in Hosts, NEW c
  PROVE  /\ Differs(c) = {} => InPlace(host, c)
         /\ Healthy(Domain[c]) => Sound(host, c)
         /\ Differs(c) \subseteq {"cert"} => host.env = Domain[c]
<1>1. Differs(c) = {} => InPlace(host, c)
  BY DEF Differs, InPlace
<1>2. Healthy(Domain[c]) => Sound(host, c)
  BY DEF Healthy, Sound, Hosts, MaybeCert
<1>3. Differs(c) \subseteq {"cert"} => host.env = Domain[c]
  <2> SUFFICES ASSUME host.env # Domain[c] PROVE "env" \in Differs(c)
    OBVIOUS
  <2> QED
    BY DEF Differs
<1> QED
  BY <1>1, <1>2, <1>3

\* A stage is inspected: satisfied, to be applied, or the inspection fails.
LEMMA InspectStageInv ==
  ASSUME VPSInv, NEW w \in Workers, InspectStage(w)
  PROVE  VPSInv'
<1> DEFINE j == job[w]
           sat == Satisfied(job[w].stage, job[w].cert)
<1>1. /\ j \in Jobs /\ job \in [Workers -> Jobs] /\ ~Free(w)
      /\ ProvisionOK(j, host, steps) /\ j.kind = "provision"
      /\ j.phase = "inspect" /\ j.todo = <<>> /\ j.stage \in Stage
  BY DEF InspectStage, VPSInv, Free, JobOK, ProvisionOK, StageOK
<1>2. UNCHANGED <<passed, steps, sni, host>> /\ faults' \in 0..MaxFaults /\ host \in Hosts
  BY ConstantFacts DEF InspectStage, Faulty, VPSInv, RowOK, HostOK
<1>3. RowOK' /\ HostOK(host, steps)'
  BY <1>2 DEF VPSInv, RowOK, HostOK
<1>4. ASSUME NEW k, k \in Jobs, k.kind = "provision", k.cert = j.cert, k.skip = j.skip,
             k.stage = j.stage, k.phase \in {"done", "apply", "failed"}, StageOK(k, host),
             job' = [job EXCEPT ![w] = k]
      PROVE  VPSInv'
  <2>1. job' \in [Workers -> Jobs] /\ job'[w] = k
        /\ \A v \in Workers \ {w} : job'[v] = job[v]
    BY <1>1, <1>4
  <2>2. JobOK(k, host', steps')
    BY <1>1, <1>2, <1>4 DEF JobOK, ProvisionOK
  <2> QED
    BY <1>1, <1>3, <2>1, <2>2, Frame, OthersFree
<1>5. CASE job' = [job EXCEPT ![w].phase = "failed"]
  <2> DEFINE k == [j EXCEPT !.phase = "failed"]
  <2>1. /\ k \in Jobs /\ k.kind = "provision" /\ k.cert = j.cert /\ k.skip = j.skip
        /\ k.stage = j.stage /\ k.phase = "failed" /\ k.todo = <<>>
        /\ job' = [job EXCEPT ![w] = k]
    BY <1>1, <1>5 DEF Jobs, Phases
  <2> HIDE DEF k
  <2> QED
    BY <1>4, <2>1 DEF StageOK
<1>6. CASE sat /\ job' = [job EXCEPT ![w].phase = "done", ![w].todo = <<>>]
  <2> DEFINE k == [j EXCEPT !.phase = "done", !.todo = <<>>]
  <2>1. /\ k \in Jobs /\ k.kind = "provision" /\ k.cert = j.cert /\ k.skip = j.skip
        /\ k.stage = j.stage /\ k.phase = "done" /\ k.todo = <<>>
        /\ job' = [job EXCEPT ![w] = k]
    BY <1>1, <1>6 DEF Jobs, Phases
  <2>2. j.stage = "xray_sni" => InPlace(host, j.cert) /\ Sound(host, j.cert)
    BY <1>2, <1>6, InspectedFacts DEF Satisfied
  <2>3. j.stage \in Services => j.stage \in host.live
    BY <1>6 DEF Satisfied, Services
  <2> HIDE DEF k
  <2> QED
    BY <1>4, <2>1, <2>2, <2>3 DEF StageOK
<1>7. CASE job' = [job EXCEPT ![w].phase = "apply",
                              ![w].todo = ApplyPlan(job[w].stage, job[w].cert)]
  <2> DEFINE k == [j EXCEPT !.phase = "apply", !.todo = ApplyPlan(job[w].stage, job[w].cert)]
  <2>1. /\ k \in Jobs /\ k.kind = "provision" /\ k.cert = j.cert /\ k.skip = j.skip
        /\ k.stage = j.stage /\ k.phase = "apply"
        /\ k.todo = ApplyPlan(job[w].stage, job[w].cert)
        /\ job' = [job EXCEPT ![w] = k]
    BY <1>1, <1>7, OtherLists DEF Jobs, Phases
  <2> HIDE DEF k
  <2> QED
    BY <1>1, <1>4, <2>1, OtherLists DEF StageOK
<1> QED
  BY <1>5, <1>6, <1>7 DEF InspectStage

\* A renewal is refused or goes on with a pair of the domain in .env.
LEMMA InspectUpdateInv ==
  ASSUME VPSInv, NEW w \in Workers, InspectUpdate(w)
  PROVE  VPSInv'
<1> DEFINE j == job[w]
<1>1. /\ j \in Jobs /\ job \in [Workers -> Jobs] /\ ~Free(w)
      /\ UpdateOK(j, host, steps) /\ j.kind = "update"
  BY DEF InspectUpdate, VPSInv, Free, JobOK
<1>2. UNCHANGED <<passed, steps, sni, host>> /\ faults' \in 0..MaxFaults /\ host \in Hosts
  BY ConstantFacts DEF InspectUpdate, Faulty, VPSInv, RowOK, HostOK
<1>3. RowOK' /\ HostOK(host, steps)'
  BY <1>2 DEF VPSInv, RowOK, HostOK
<1>4. CASE End(w)
  BY <1>1, <1>3, <1>4, EndInv
<1>5. CASE /\ Differs(j.cert) \subseteq {"cert"}
           /\ job' = [job EXCEPT ![w].phase = "run", ![w].todo = UpdatePlan(job[w].cert)]
  <2> DEFINE k == [j EXCEPT !.phase = "run", !.todo = UpdatePlan(job[w].cert)]
  <2>1. /\ k \in Jobs /\ k.kind = "update" /\ k.cert = j.cert /\ k.phase = "run"
        /\ k.todo = UpdatePlan(job[w].cert) /\ job' = [job EXCEPT ![w] = k]
    BY <1>1, <1>5, PlanLists DEF Jobs, Phases
  <2>2. host.env = Domain[j.cert]
    BY <1>2, <1>5, InspectedFacts
  <2> HIDE DEF k
  <2>3. JobOK(k, host', steps')
    BY <1>1, <1>2, <2>1, <2>2, PlanLists DEF JobOK, UpdateOK
  <2>4. job' \in [Workers -> Jobs] /\ job'[w] = k
        /\ \A v \in Workers \ {w} : job'[v] = job[v]
    BY <1>1, <2>1
  <2> QED
    BY <1>1, <1>3, <2>3, <2>4, Frame, OthersFree
<1> QED
  BY <1>4, <1>5 DEF InspectUpdate

\* The end of a phase.
LEMMA FinishInv ==
  ASSUME VPSInv, NEW w \in Workers, Finish(w)
  PROVE  VPSInv'
<1> DEFINE j == job[w]
<1>1. /\ j \in Jobs /\ job \in [Workers -> Jobs] /\ JobOK(j, host, steps)
      /\ j.todo = <<>> /\ j.phase \in {"run", "rollback", "apply", "validate", "check", "switch"}
  BY DEF Finish, VPSInv
<1>2. ~Free(w) /\ j.kind \in Kinds
  BY <1>1 DEF Free, JobOK, Jobs
<1>3. UNCHANGED <<steps, host, faults>> /\ sni' \in Domains
      /\ passed' = (passed \/ j.kind = "preflight")
  <2>1. j.phase = "switch" => j.cert \in Certs
    BY <1>1, <1>2
    DEF JobOK, Kinds, PreflightOK, ProvisionOK, UpdateOK, SwitchOK
  <2> QED
    BY <2>1, ConstantFacts DEF Finish, VPSInv, RowOK
<1>4. ToSet(j.todo) = {}
  BY <1>1, ShortLists
<1>5. RowOK' /\ HostOK(host, steps)'
  <2>1. j.kind = "preflight" => host.key
    BY <1>1, <1>4 DEF JobOK, PreflightOK
  <2> QED
    BY <1>3, <2>1 DEF VPSInv, RowOK, HostOK
<1>6. ASSUME NEW k, k \in Jobs, job' = [job EXCEPT ![w] = k], JobOK(k, host, steps)
      PROVE  VPSInv'
  <2>1. job' \in [Workers -> Jobs] /\ job'[w] = k
        /\ \A v \in Workers \ {w} : job'[v] = job[v]
    BY <1>1, <1>6
  <2> QED
    BY <1>2, <1>3, <1>5, <1>6, <2>1, Frame, OthersFree
<1>7. CASE j.phase = "apply"
  <2> DEFINE k == [j EXCEPT !.phase = "validate", !.todo = StageCheck(job[w].stage)]
  <2>1. j.kind = "provision" /\ ProvisionOK(j, host, steps) /\ j.stage \in Stage
    BY <1>1, <1>2, <1>7
    DEF JobOK, Kinds, PreflightOK, ProvisionOK, UpdateOK, SwitchOK
  <2>2. /\ k \in Jobs /\ k.kind = j.kind /\ k.cert = j.cert /\ k.skip = j.skip
        /\ k.stage = j.stage /\ k.phase = "validate" /\ k.todo = StageCheck(j.stage)
        /\ job' = [job EXCEPT ![w] = k]
    BY <1>1, <1>7, <2>1, OtherLists DEF Jobs, Phases, Finish
  <2> HIDE DEF k
  <2>3. StageOK(k, host)
    <3>1. ToSet(k.todo) = IF k.stage = "xray_sni" THEN Validates ELSE {"check"}
      BY <2>1, <2>2, OtherLists
    <3>2. CASE k.stage = "xray_sni"
      BY <2>2, <3>1, <3>2 DEF StageOK, Validates
    <3>3. CASE k.stage # "xray_sni"
      BY <2>2, <3>1, <3>3 DEF StageOK
    <3> QED
      BY <3>2, <3>3
  <2>4. JobOK(k, host, steps)
    BY <1>7, <2>1, <2>2, <2>3 DEF JobOK, ProvisionOK
  <2> QED
    BY <1>6, <2>2, <2>4
<1>8. CASE j.phase = "validate"
  <2> DEFINE k == [j EXCEPT !.phase = "done"]
  <2>1. j.kind = "provision" /\ ProvisionOK(j, host, steps) /\ j.stage \in Stage
    BY <1>1, <1>2, <1>8
    DEF JobOK, Kinds, PreflightOK, ProvisionOK, UpdateOK, SwitchOK
  <2>2. /\ k \in Jobs /\ k.kind = j.kind /\ k.cert = j.cert /\ k.skip = j.skip
        /\ k.stage = j.stage /\ k.phase = "done" /\ k.todo = <<>>
        /\ job' = [job EXCEPT ![w] = k]
    BY <1>1, <1>8 DEF Jobs, Phases, Finish
  <2> HIDE DEF k
  <2>3. StageOK(k, host)
    <3>1. CASE j.stage = "xray_sni"
      BY <1>4, <1>8, <2>1, <2>2, <3>1, ConstantFacts DEF StageOK, ProvisionOK
    <3>2. CASE j.stage # "xray_sni"
      BY <1>4, <1>8, <2>1, <2>2, <3>2 DEF StageOK, ProvisionOK
    <3> QED
      BY <3>1, <3>2
  <2>4. JobOK(k, host, steps)
    BY <1>8, <2>1, <2>2, <2>3 DEF JobOK, ProvisionOK
  <2> QED
    BY <1>6, <2>2, <2>4
<1>9. CASE j.phase = "check"
  <2> DEFINE k == [j EXCEPT !.phase = "switch", !.cert = job[w].next,
                            !.todo = <<"settled", "stage", "switch">> \o ValidatePlan]
  <2>1. j.kind = "switch" /\ SwitchOK(j, host, steps) /\ j.next \in Certs
    BY <1>1, <1>2, <1>9
    DEF JobOK, Kinds, PreflightOK, ProvisionOK, UpdateOK, SwitchOK
  <2>2. /\ k \in Jobs /\ k.kind = j.kind /\ k.cert = j.next /\ k.next = j.next
        /\ k.phase = "switch" /\ k.todo = <<"settled", "stage", "switch">> \o ValidatePlan
        /\ job' = [job EXCEPT ![w] = k]
    BY <1>1, <1>9, <2>1, JobLists DEF Jobs, Phases, Finish
  <2>3. host.backup = Absent
    BY <1>4, <1>9, <2>1 DEF SwitchOK
  <2> HIDE DEF k
  <2>4. JobOK(k, host, steps)
    BY <2>1, <2>2, <2>3, JobLists DEF JobOK, SwitchOK
  <2> QED
    BY <1>6, <2>2, <2>4
<1>10. CASE j.phase \in {"run", "rollback", "switch"}
  <2>1. End(w)
    BY <1>10 DEF Finish
  <2> QED
    BY <1>2, <1>5, <2>1, EndInv
<1> QED
  BY <1>1, <1>7, <1>8, <1>9, <1>10

\* A stage is recorded.
LEMMA RecordStageInv ==
  ASSUME VPSInv, NEW w \in Workers, RecordStage(w)
  PROVE  VPSInv'
<1> DEFINE j == job[w]
           done == job[w].phase = "done"
           recorded == [steps EXCEPT ![job[w].stage] = IF done THEN "COMPLETED" ELSE "FAILED"]
<1>1. /\ j \in Jobs /\ job \in [Workers -> Jobs] /\ ~Free(w)
      /\ ProvisionOK(j, host, steps) /\ j.kind = "provision" /\ j.phase \in {"done", "failed"}
      /\ j.stage \in Stage /\ steps[j.stage] = "RUNNING" /\ j.todo = <<>>
      /\ StageOK(j, host)
  BY DEF RecordStage, VPSInv, Free, JobOK, ProvisionOK, StageOK
<1>2. /\ UNCHANGED <<passed, sni, host>> /\ faults' \in 0..MaxFaults
      /\ steps' \in {steps, recorded}
  BY ConstantFacts DEF RecordStage, Faulty, VPSInv, RowOK
<1>3. steps \in [Stage -> Statuses] /\ recorded \in [Stage -> Statuses]
      /\ recorded[j.stage] = (IF done THEN "COMPLETED" ELSE "FAILED")
      /\ \A s \in Stage \ {j.stage} : recorded[s] = steps[s]
  BY <1>1 DEF VPSInv, RowOK, Statuses
<1>4. HostOK(host, recorded)
  <2>1. HostOK(host, steps)
    BY DEF VPSInv
  <2>2. CASE j.stage = "xray_sni"
    <3>1. OnlyHome(host) /\ host \in Hosts
      BY <1>1, <2>1, <2>2 DEF HostOK
    <3>2. done => Serves(host)
      <4> SUFFICES ASSUME done PROVE Serves(host)
        OBVIOUS
      <4>1. InPlace(host, j.cert) /\ Sound(host, j.cert)
        BY <1>1, <2>2 DEF StageOK
      <4>2. j.cert \in Certs /\ Domain[j.cert] = Home
        BY <1>1 DEF ProvisionOK
      <4> QED
        BY <3>1, <4>1, <4>2 DEF InPlace, Sound, Serves, OnlyHome
    <3>3. \A s \in Services : recorded[s] = steps[s]
      BY <1>3, <2>2, ConstantFacts DEF Services
    <3> HIDE DEF recorded
    <3> QED
      BY <1>3, <2>1, <2>2, <3>1, <3>2, <3>3 DEF HostOK
  <2>3. CASE j.stage # "xray_sni"
    <3>1. recorded["xray_sni"] = steps["xray_sni"]
      BY <1>3, <2>3, ConstantFacts
    <3>2. done /\ j.stage \in Services => j.stage \in host.live
      BY <1>1 DEF StageOK
    <3> HIDE DEF recorded
    <3>3. \A s \in Services : recorded[s] = "COMPLETED" => s \in host.live
      BY <1>3, <2>1, <3>2 DEF HostOK, Services
    <3> QED
      BY <2>1, <3>1, <3>3 DEF HostOK
  <2> QED
    BY <2>2, <2>3
<1>5. RowOK' /\ HostOK(host, steps)'
  BY <1>2, <1>3, <1>4 DEF VPSInv, RowOK, HostOK
<1>6. CASE End(w)
  BY <1>1, <1>5, <1>6, EndInv
<1>7. CASE /\ done /\ steps' = recorded
           /\ job' = [job EXCEPT ![w].phase = "next", ![w].stage = "none",
                                 ![w].skip = @ \cup {job[w].stage}]
  <2> DEFINE k == [j EXCEPT !.phase = "next", !.stage = "none", !.skip = @ \cup {job[w].stage}]
  <2>1. /\ k \in Jobs /\ k.kind = "provision" /\ k.cert = j.cert /\ k.phase = "next"
        /\ k.skip = j.skip \cup {j.stage} /\ k.todo = <<>>
        /\ job' = [job EXCEPT ![w] = k]
    BY <1>1, <1>7 DEF Jobs, Phases, MaybeStage
  <2>2. job' \in [Workers -> Jobs] /\ job'[w] = k
        /\ \A v \in Workers \ {w} : job'[v] = job[v]
    BY <1>1, <2>1
  <2> HIDE DEF k, recorded
  <2>3. JobOK(k, host', steps')
    BY <1>1, <1>3, <1>7, <2>1 DEF JobOK, ProvisionOK, StageOK
  <2> QED
    BY <1>1, <1>5, <2>2, <2>3, Frame, OthersFree
<1> QED
  BY <1>6, <1>7 DEF RecordStage

\* The process dies: rows and VPS stay as they are.
LEMMA CrashInv ==
  ASSUME VPSInv, Crash
  PROVE  VPSInv'
<1>1. RowOK' /\ HostOK(host, steps)'
  BY ConstantFacts DEF Crash, Faulty, VPSInv, RowOK, HostOK
<1>2. job' \in [Workers -> Jobs] /\ \A w \in Workers : job'[w] = NoJob
  BY NoJobOK DEF Crash
<1> QED
  BY <1>1, <1>2, NoJobOK DEF VPSInv, Alone, Free

-----------------------------------------------------------------------------
(* The theorems. *)

\* The initial state satisfies the invariant.
LEMMA InitInv == Init => VPSInv
<1> SUFFICES ASSUME Init PROVE VPSInv
  OBVIOUS
<1>1. RowOK
  <2>1. passed \in BOOLEAN /\ ~passed
    BY DEF Init
  <2>2. steps \in [Stage -> Statuses] /\ sni \in Domains /\ faults \in 0..MaxFaults
    BY ConstantFacts DEF Init, Statuses
  <2> QED
    BY <2>1, <2>2 DEF RowOK
<1>2. host \in Hosts /\ host.files = NoCert /\ host.backup = Absent
  BY DEF Init, Hosts, MaybeCert, MaybeDomain, MaybeStage
<1>3. HostOK(host, steps)
  <2>1. \A s \in Stage : steps[s] = "none"
    BY DEF Init
  <2>2. OnlyHome(host)
    BY <1>2, ConstantFacts DEF OnlyHome
  <2> QED
    BY <1>2, <2>1, <2>2, ConstantFacts DEF HostOK, Services
<1>4. job \in [Workers -> Jobs] /\ \A w \in Workers : job[w] = NoJob
  BY NoJobOK DEF Init
<1> QED
  BY <1>1, <1>3, <1>4, NoJobOK DEF VPSInv, Alone, Free

\* The invariant is kept by every step, when no job begins during another.
LEMMA NextInv ==
  ASSUME ~Overlap, VPSInv, [Next]_vars
  PROVE  VPSInv'
<1>1. CASE UNCHANGED vars
  <2>1. job' = job /\ host' = host /\ steps' = steps
    BY <1>1 DEF vars
  <2>2. RowOK' /\ Alone'
    BY <1>1 DEF vars, VPSInv, RowOK, Alone, Free
  <2> QED
    BY <2>1, <2>2 DEF VPSInv
<1>2. CASE Crash
  BY <1>2, CrashInv
<1>3. ASSUME NEW w \in Workers,
             \/ Attempt(w)
             \/ \E c \in Certs : StartUpdate(w, c)
             \/ \E from, to \in Certs : StartSwitch(w, from, to)
      PROVE  VPSInv'
  BY <1>3, StartInv
<1>4. ASSUME NEW w \in Workers, Progress(w) PROVE VPSInv'
  BY <1>4, NextStageInv, InspectStageInv, InspectUpdateInv, CommandInv, FinishInv, RecordStageInv
  DEF Progress
<1> QED
  BY <1>1, <1>2, <1>3, <1>4 DEF Next

\* The invariant holds of every execution without overlapping jobs.
LEMMA VPSInvariant ==
  ASSUME ~Overlap
  PROVE  Spec => []VPSInv
BY InitInv, NextInv, PTL DEF Spec

\* The rows and the VPS are well typed; a preflight that passed has left the
\* deployment key behind, and rollbackCertificates restores a pair that exists.
THEOREM VPSTypes ==
  ASSUME ~Overlap
  PROVE  Spec => []VPSTypeOK
<1>1. VPSInv => VPSTypeOK
  BY DEF VPSInv, RowOK, HostOK, Hosts, VPSTypeOK, Statuses, MaybeCert, MaybeDomain
<1> QED
  BY <1>1, VPSInvariant, PTL

\* Engine.RunWithProgress: a stage recorded COMPLETED has had its effect, and
\* xray-sni answers from then on with a certificate of the domain it was started
\* for, through renewals, rollbacks, switches, faults and crashes.
THEOREM RecordedStagesAreTrue ==
  ASSUME ~Overlap
  PROVE  Spec => []StagesTrue
<1>1. VPSInv => StagesTrue
  <2> SUFFICES ASSUME VPSInv, NEW s \in Stage \ (FilesOnly \cup {"healthcheck"}),
                      steps[s] = "COMPLETED"
               PROVE  IF s = "xray_sni" THEN host.built /\ Answers ELSE s \in host.live
    BY DEF StagesTrue
  <2>1. CASE s = "xray_sni"
    BY <2>1, ConstantFacts DEF VPSInv, HostOK, Serves, Answers
  <2>2. CASE s # "xray_sni"
    BY <2>2 DEF VPSInv, HostOK, Services
  <2> QED
    BY <2>1, <2>2
<1> QED
  BY <1>1, VPSInvariant, PTL

\* UpdateCertificate and SwitchSNI: the pair on disk is at every moment one of
\* the domain in .env, so that a container which restarts can answer.
THEOREM RestartsAreSafe ==
  ASSUME ~Overlap
  PROVE  Spec => []RestartSafe
<1>1. VPSInv => RestartSafe
  BY ConstantFacts DEF VPSInv, HostOK, Serves, RestartSafe, Provisioned
<1> QED
  BY <1>1, VPSInvariant, PTL
=============================================================================
