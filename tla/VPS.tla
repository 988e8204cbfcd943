-------------------------------- MODULE VPS --------------------------------
(***************************************************************************)
(* One VPS as the bot changes it over SSH: the preflight, the provisioning  *)
(* engine with its stages (internal/provisioner), the xray-sni installer    *)
(* with the renewal of its certificate, and the switch to another SNI.      *)
(*                                                                         *)
(* A job is a list of remote commands, each one SSH call that succeeds,     *)
(* fails without effect, or takes effect and is reported as failed. The     *)
(* scripts are atomic; the process may die between any two of them.         *)
(***************************************************************************)
EXTENDS Naturals, Sequences, SequencesExt

CONSTANTS
  Workers,     \* goroutines with a job on this VPS
  Stages,      \* the stages of the instance, in the order of StageNames
  Certs,       \* certificates
  Domain,      \* the SNI a certificate is for
  Home,        \* the SNI the VPS is provisioned for
  Prepared,    \* what Prepare hands to the attempts to provision it
  Overlap,     \* TRUE: a renewal may run during a switch of the SNI
  MaxFaults,   \* bound on failed commands, failed writes and crashes
  NoCert       \* no file; an empty backup directory

StageNames == <<"system", "docker", "sysctl", "limits", "firewall", "fail2ban",
                "remnanode", "node_exporter", "speedtest_exporter", "logrotate",
                "xray_sni", "healthcheck">>

Absent == "absent"  \* no backup directory

ASSUME VPSAssumption ==
  /\ IsInjective(Stages) /\ ToSet(Stages) \subseteq ToSet(StageNames)
  /\ "xray_sni" \in ToSet(Stages)
  /\ {NoCert, Absent} \cap Certs = {}
  /\ Prepared # {} /\ Prepared \subseteq {c \in Certs : Domain[c] = Home}
  /\ Overlap \in BOOLEAN /\ MaxFaults \in Nat

VARIABLES
  passed,  \* the deployment's preflight has succeeded
  steps,   \* deployment_steps: the recorded status of each stage
  sni,     \* the SNI of the deployment's row, which renewals follow
  host,    \* the VPS
  job,     \* what each goroutine is doing
  faults   \* failures so far

vars == <<passed, steps, sni, host, job, faults>>

Stage == ToSet(Stages)
NoDomain == "none"
Domains == {Domain[c] : c \in Certs}

\* remoteStage: which stages have managed files, and which inspect the service.
WithFiles == {"sysctl", "limits", "fail2ban", "remnanode", "node_exporter",
              "speedtest_exporter", "logrotate"}
FilesOnly == {"sysctl", "limits"}

NoJob == [kind |-> "none", phase |-> "idle", cert |-> NoCert, next |-> NoCert,
          stage |-> "none", skip |-> {}, todo |-> <<>>]

(***************************************************************************)
(* What the commands see and do.                                            *)
(***************************************************************************)
\* inspectState: the parts that differ from what the installer wants.
Differs(c) ==
  {p \in {"repo", "build", "env", "cert", "start"} :
     CASE p = "repo"  -> ~host.repo
       [] p = "build" -> ~host.repo \/ ~host.built
       [] p = "env"   -> host.env # Domain[c]
       [] p = "cert"  -> host.files # c
       [] p = "start" -> ~host.up}

\* xraySNIHealthcheckCommand: TLS for the domain, verified against the issuer of
\* the pair on disk, so an older certificate of the domain passes as well.
Healthy(d) ==
  /\ host.up /\ host.files # NoCert /\ host.loaded # NoCert
  /\ Domain[host.loaded] = d /\ host.served = d

\* healthcheckCommand looks at four services only.
Watched == {"docker", "remnanode", "node_exporter", "speedtest_exporter"}
ServicesUp == Stage \cap Watched \subseteq host.live

\* validate: a required port must be free; system, CPU, RAM and disk that do not
\* suffice are among the failures of the command.
PortsFree == ~host.up /\ host.live \cap {"remnanode", "node_exporter", "speedtest_exporter"} = {}

\* What clients get: a certificate of the domain the container was started for.
Answers ==
  host.up /\ host.loaded # NoCert /\ Domain[host.loaded] = host.served

\* docker compose starts or recreates the container from .env and the files.
Started(h) == [h EXCEPT !.up = TRUE, !.served = h.env, !.loaded = h.files]

\* Mutant: the rollback script does not test that there is a backup.
CanRollBackBlindly(cmd, c, s) ==
  CASE cmd = "inspect" -> PortsFree
    [] cmd = "check"   -> IF s = "healthcheck" THEN ServicesUp ELSE s \in host.live
    [] cmd = "cert"    -> host.backup = Absent
    [] cmd = "reload"  -> host.up
    [] cmd = "health"  -> Healthy(Domain[c])
    [] cmd = "match"   -> Differs(c) = {}
    [] cmd = "settled" -> Differs(c) \subseteq {"env", "cert"}
    [] cmd = "switch"  -> ~host.left /\ host.env # NoDomain /\ host.files # NoCert
    [] OTHER           -> TRUE

\* The conditions under which a command exits with 0.
Can(cmd, c, s) ==
  CASE cmd = "inspect"  -> PortsFree
    [] cmd = "check"    -> IF s = "healthcheck" THEN ServicesUp ELSE s \in host.live
    [] cmd = "cert"     -> host.backup = Absent
    [] cmd = "rollback" -> host.backup \in Certs
    [] cmd = "reload"   -> host.up
    [] cmd = "health"   -> Healthy(Domain[c])
    [] cmd = "match"    -> Differs(c) = {}
    [] cmd = "settled"  -> Differs(c) \subseteq {"env", "cert"}
    [] cmd = "switch"   -> ~host.left /\ host.env # NoDomain /\ host.files # NoCert
    [] OTHER            -> TRUE

\* The states of the VPS a command may lead to. An image that did not change
\* is not restarted by a build.
After(cmd, c, s) ==
  CASE cmd = "key"      -> {[host EXCEPT !.key = TRUE]}
    [] cmd = "write"    -> {[host EXCEPT !.written = @ \cup {s}]}
    [] cmd = "apply"    -> {[host EXCEPT !.live = @ \cup {s}]}
    [] cmd = "repo"     -> {[host EXCEPT !.repo = TRUE]}
    [] cmd = "env"      -> {[host EXCEPT !.env = Domain[c]]}
    [] cmd = "cert"     -> {[host EXCEPT !.backup = host.files, !.files = c]}
    [] cmd = "build"    -> {Started(host)} \cup (IF host.up THEN {host} ELSE {})
    [] cmd = "commit"   -> {[host EXCEPT !.built = TRUE]}
    [] cmd = "up"       -> {IF host.up /\ host.served = host.env THEN host ELSE Started(host)}
    [] cmd = "reload"   -> {[host EXCEPT !.loaded = host.files]}
    [] cmd = "rollback" -> {[host EXCEPT !.files = host.backup, !.backup = Absent]}
    [] cmd = "cleanup"  -> {[host EXCEPT !.backup = Absent]}
    [] cmd = "switch"   -> {Started([host EXCEPT !.env = Domain[c], !.files = c])}
    [] OTHER            -> {host}

\* A command that fails although it could have succeeded: no effect, or the
\* effect without the reply. A failed switch has put the old pair back itself;
\* its backup directory may remain. That the rollback in the script can start
\* the container is taken for granted.
AfterFault(cmd, c, s) ==
  IF cmd = "switch"
    THEN IF Can(cmd, c, s)
           THEN After(cmd, c, s) \cup {host, Started(host), [Started(host) EXCEPT !.left = TRUE]}
           ELSE {host}
    ELSE {host} \cup (IF Can(cmd, c, s) THEN After(cmd, c, s) ELSE {})

(***************************************************************************)
(* The scripts.                                                             *)
(***************************************************************************)
\* Mutant: the pair is staged and activated whether or not it differs.
InstallAlways(c) ==
  SelectSeq(<<"repo", "env", "cert", "config", "build", "commit", "up", "reload">>,
            LAMBDA p : p \in {"cert", "config", "reload"} \cup Differs(c))

\* Install: only what differs, then a build, a start or a reload.
InstallPlan(c) ==
  LET d == Differs(c)
      Needed(p) == IF p \in d THEN <<p>> ELSE <<>> IN
  Needed("repo") \o Needed("env") \o Needed("cert") \o <<"config">> \o
  (IF "build" \in d THEN <<"build", "commit">>
   ELSE IF d \cap {"env", "start"} # {} THEN <<"up">> ELSE <<"reload">>)

ValidatePlan == <<"match", "health", "cleanup">>

\* Mutant: no stage inspects its service once its files match.
SatisfiedByFiles(s, c) ==
  IF s = "xray_sni" THEN Differs(c) = {} /\ Healthy(Domain[c])
  ELSE IF s \in WithFiles THEN s \in host.written ELSE s \in host.live

\* A stage's Inspect, Apply and Validate.
Satisfied(s, c) ==
  IF s = "xray_sni" THEN Differs(c) = {} /\ Healthy(Domain[c])
  ELSE IF s = "healthcheck" THEN ServicesUp
  ELSE /\ s \in WithFiles => s \in host.written
       /\ s \notin FilesOnly => s \in host.live

ApplyPlan(s, c) ==
  IF s = "xray_sni" THEN InstallPlan(c)
  ELSE IF s = "healthcheck" THEN <<>>
  ELSE IF s \in WithFiles THEN <<"write", "apply">> ELSE <<"apply">>

StageCheck(s) ==
  IF s = "xray_sni" THEN ValidatePlan ELSE <<"check">>

\* UpdateCertificate: a pair that is in place already is only reloaded.
UpdatePlan(c) ==
  (IF host.files = c THEN <<>> ELSE <<"cert">>) \o <<"reload", "health", "cleanup">>

(***************************************************************************)
(* Starting a job.                                                          *)
(***************************************************************************)
Free(w) == job[w].kind = "none"
Quiet == \A w \in Workers : Free(w)
Provisioned == \A s \in Stage : steps[s] = "COMPLETED"

Begin(w, j) == job' = [job EXCEPT ![w] = j]
End(w) == job' = [job EXCEPT ![w] = NoJob]

\* Preflight: connect with the password, check the VPS, install the key.
StartPreflight(w) ==
  /\ Free(w) /\ Quiet
  /\ ~passed
  /\ Begin(w, [NoJob EXCEPT !.kind = "preflight", !.phase = "run", !.todo = <<"inspect", "key">>])
  /\ UNCHANGED <<passed, steps, sni, host, faults>>

\* Provision: the stages recorded as completed are skipped.
StartProvision(w, c) ==
  /\ Free(w) /\ Quiet
  /\ passed /\ ~Provisioned
  /\ Begin(w, [NoJob EXCEPT !.kind = "provision", !.phase = "next", !.cert = c,
                            !.skip = {s \in Stage : steps[s] = "COMPLETED"}])
  /\ UNCHANGED <<passed, steps, sni, host, faults>>

\* SSHDistributor: a renewal of the SNI the row names.
StartUpdate(w, c) ==
  /\ Free(w) /\ (Overlap \/ Quiet)
  /\ Provisioned
  /\ Domain[c] = sni
  /\ Begin(w, [NoJob EXCEPT !.kind = "update", !.phase = "inspect", !.cert = c])
  /\ UNCHANGED <<passed, steps, sni, host, faults>>

\* PasswordNodeSNISwitcher: validate what is there, then switch.
StartSwitch(w, from, to) ==
  /\ Free(w) /\ (Overlap \/ Quiet)
  /\ Provisioned
  /\ Domain[from] = sni /\ Domain[to] # sni
  /\ Begin(w, [NoJob EXCEPT !.kind = "switch", !.phase = "check", !.cert = from, !.next = to,
                            !.todo = ValidatePlan])
  /\ UNCHANGED <<passed, steps, sni, host, faults>>

(***************************************************************************)
(* Running it.                                                              *)
(***************************************************************************)
Faulty == faults < MaxFaults /\ faults' = faults + 1

\* The first stage, in the engine's order, that is not skipped.
FirstOpen(s, skip) ==
  \E i \in DOMAIN Stages :
    Stages[i] = s /\ s \notin skip /\ \A j \in 1..(i - 1) : Stages[j] \in skip

\* RunWithProgress: the next stage that is not skipped is recorded RUNNING; a
\* write that fails ends the run.
NextStage(w) ==
  /\ job[w].kind = "provision" /\ job[w].phase = "next"
  /\ \/ /\ Stage \subseteq job[w].skip
        /\ End(w)
        /\ UNCHANGED <<steps, faults>>
     \/ \E s \in Stage :
          /\ FirstOpen(s, job[w].skip)
          /\ \/ /\ steps' = [steps EXCEPT ![s] = "RUNNING"]
                /\ job' = [job EXCEPT ![w].phase = "inspect", ![w].stage = s]
                /\ UNCHANGED faults
             \/ /\ Faulty
                /\ steps' \in {steps, [steps EXCEPT ![s] = "RUNNING"]}
                /\ End(w)
  /\ UNCHANGED <<passed, sni, host>>

\* runStage: a satisfied stage is done without Apply and Validate.
InspectStage(w) ==
  /\ job[w].kind = "provision" /\ job[w].phase = "inspect"
  /\ LET s == job[w].stage  c == job[w].cert IN
     \/ /\ job' = [job EXCEPT ![w].phase = IF Satisfied(s, c) THEN "done" ELSE "apply",
                              ![w].todo = IF Satisfied(s, c) THEN <<>> ELSE ApplyPlan(s, c)]
        /\ UNCHANGED faults
     \/ /\ Faulty
        /\ job' = [job EXCEPT ![w].phase = "failed"]
  /\ UNCHANGED <<passed, steps, sni, host>>

\* Mutant: a renewal does not look at what the VPS is configured for.
InspectUpdateAnyDomain(w) ==
  /\ job[w].kind = "update" /\ job[w].phase = "inspect"
  /\ job' = [job EXCEPT ![w].phase = "run", ![w].todo = UpdatePlan(job[w].cert)]
  /\ UNCHANGED <<passed, steps, sni, host, faults>>

\* UpdateCertificate refuses a VPS that differs in more than the pair.
InspectUpdate(w) ==
  /\ job[w].kind = "update" /\ job[w].phase = "inspect"
  /\ \/ /\ IF Differs(job[w].cert) \subseteq {"cert"}
             THEN job' = [job EXCEPT ![w].phase = "run", ![w].todo = UpdatePlan(job[w].cert)]
             ELSE End(w)
        /\ UNCHANGED faults
     \/ Faulty /\ End(w)
  /\ UNCHANGED <<passed, steps, sni, host>>

\* The pair is rolled back when reload or validation failed; that attempt and
\* every other job ends with its first failed command.
Failed(w) ==
  CASE job[w].kind = "provision" -> job' = [job EXCEPT ![w].phase = "failed", ![w].todo = <<>>]
    [] job[w].kind = "update" /\ job[w].phase = "run" /\ Head(job[w].todo) \in {"reload", "health"} ->
         job' = [job EXCEPT ![w].phase = "rollback", ![w].todo = <<"rollback", "reload", "health">>]
    [] OTHER -> End(w)

Command(w) ==
  /\ job[w].todo # <<>>
  /\ LET cmd == Head(job[w].todo)  c == job[w].cert  s == job[w].stage IN
     \/ /\ Can(cmd, c, s)
        /\ host' \in After(cmd, c, s)
        /\ job' = [job EXCEPT ![w].todo = Tail(@)]
        /\ UNCHANGED faults
     \/ /\ ~Can(cmd, c, s)
        /\ Failed(w)
        /\ UNCHANGED <<host, faults>>
     \/ /\ Faulty
        /\ host' \in AfterFault(cmd, c, s)
        /\ Failed(w)
  /\ UNCHANGED <<passed, steps, sni>>

\* All commands of a phase succeeded.
Finish(w) ==
  /\ job[w].phase \in {"run", "rollback", "apply", "validate", "check", "switch"}
  /\ job[w].todo = <<>>
  /\ CASE job[w].phase = "apply" ->
            job' = [job EXCEPT ![w].phase = "validate", ![w].todo = StageCheck(job[w].stage)]
       [] job[w].phase = "validate" -> job' = [job EXCEPT ![w].phase = "done"]
       [] job[w].phase = "check" ->
            job' = [job EXCEPT ![w].phase = "switch", ![w].cert = job[w].next,
                               ![w].todo = <<"settled", "stage", "switch">> \o ValidatePlan]
       [] OTHER -> End(w)
  /\ sni' = IF job[w].phase = "switch" THEN Domain[job[w].cert] ELSE sni
  /\ passed' = (passed \/ job[w].kind = "preflight")
  /\ UNCHANGED <<steps, host, faults>>

\* record(COMPLETED) and record(FAILED); the write may fail with or without
\* effect, which ends the run.
RecordStage(w) ==
  /\ job[w].kind = "provision" /\ job[w].phase \in {"done", "failed"}
  /\ LET done == job[w].phase = "done"
         recorded == [steps EXCEPT ![job[w].stage] = IF done THEN "COMPLETED" ELSE "FAILED"] IN
     \/ /\ steps' = recorded
        /\ IF done THEN job' = [job EXCEPT ![w].phase = "next", ![w].stage = "none",
                                           ![w].skip = @ \cup {job[w].stage}]
                   ELSE End(w)
        /\ UNCHANGED faults
     \/ /\ Faulty
        /\ steps' \in {steps, recorded}
        /\ End(w)
  /\ UNCHANGED <<passed, sni, host>>

\* The process dies with all its jobs.
Crash ==
  /\ ~Quiet
  /\ Faulty
  /\ job' = [w \in Workers |-> NoJob]
  /\ UNCHANGED <<passed, steps, sni, host>>

Init ==
  /\ passed = FALSE
  /\ steps = [s \in Stage |-> "none"]
  /\ sni = Home
  /\ host = [key |-> FALSE, written |-> {}, live |-> {}, repo |-> FALSE, built |-> FALSE,
             env |-> NoDomain, files |-> NoCert, backup |-> Absent, up |-> FALSE,
             loaded |-> NoCert, served |-> NoDomain, left |-> FALSE]
  /\ job = [w \in Workers |-> NoJob]
  /\ faults = 0

Progress(w) ==
  NextStage(w) \/ InspectStage(w) \/ InspectUpdate(w) \/ Command(w) \/ Finish(w) \/ RecordStage(w)

Attempt(w) == StartPreflight(w) \/ \E c \in Prepared : StartProvision(w, c)

Next ==
  \/ \E w \in Workers :
       \/ Attempt(w)
       \/ \E c \in Certs : StartUpdate(w, c)
       \/ \E from, to \in Certs : StartSwitch(w, from, to)
       \/ Progress(w)
  \/ Crash

Spec == Init /\ [][Next]_vars

\* A job is a goroutine whose commands have timeouts; an operator retries a
\* provisioning that failed.
FairSpec == Spec /\ \A w \in Workers : WF_vars(Progress(w)) /\ WF_vars(Attempt(w))

(***************************************************************************)
(* Properties.                                                              *)
(***************************************************************************)
\* The values a VPS and its rows can have. A preflight that passed has left the
\* deployment key behind (authorized_keys), and a rollback never restores a
\* backup that is not there.
VPSTypeOK ==
  /\ passed => host.key
  /\ steps \in [Stage -> {"none", "RUNNING", "FAILED", "COMPLETED"}]
  /\ sni \in Domains
  /\ faults \in 0..MaxFaults
  /\ host.env \in Domains \cup {NoDomain}
  /\ host.files \in Certs \cup {NoCert} /\ host.loaded \in Certs \cup {NoCert}
  /\ host.backup \in Certs \cup {NoCert, Absent}

\* engine.go: "A failed/running stage is safely retried from its inspection
\* phase." A stage recorded as COMPLETED has had its effect, however often it
\* failed, was recorded in vain or died on the way; and from then on xray-sni
\* answers with a certificate of the domain it was started for. sysctl and
\* limits inspect their files alone and are left out.
StagesTrue ==
  \A s \in Stage \ (FilesOnly \cup {"healthcheck"}) :
    steps[s] = "COMPLETED" => IF s = "xray_sni" THEN host.built /\ Answers ELSE s \in host.live

\* The pair on disk is always of the domain in .env, in the middle of a renewal
\* or of a switch as well: whenever the container restarts, it can answer.
RestartSafe == Provisioned => host.files # NoCert /\ Domain[host.files] = host.env

\* An operator who retries gets there: nothing that a failed or interrupted
\* attempt leaves on the VPS (files, containers, ports in use, a backup of the
\* certificate) makes every later attempt fail.
RetrySucceeds == <>Provisioned
=============================================================================
