------------------------- MODULE CertManager_proofs -------------------------
(***************************************************************************)
(* The certificate manager: types and the accounting of the pool, the      *)
(* agreement of the row with the statuses of the versions (OneActive), the *)
(* acknowledgements that are kept, and the Nodes that serve the active     *)
(* version between two calls (NodesServeActive).                           *)
(*                                                                         *)
(* All of it rests on the advisory lock of the SNI: a call that is behind  *)
(* the lock (Guarded) is alone there, so what it read of the row, of the   *)
(* reviews and of the Nodes is still true when it writes.                  *)
(***************************************************************************)
EXTENDS CertManager, FiniteSetTheorems, TLAPS

Calls == [kind : {"none", "prepare", "renew", "bootstrap", "rollback"}, pc : Steps,
          ver : 0..MaxVersion, prev : 0..MaxVersion, back : 0..MaxVersion,
          seen : SUBSET Targets, unknown : SUBSET Targets,
          todo : SUBSET Targets, bad : BOOLEAN, undoing : BOOLEAN]

\* Steps behind the advisory lock, and the calls that hold a connection for it.
Guarded == {"load", "list", "candidate", "acknowledge", "issue", "save", "resolve",
            "review", "spread", "mark", "commit", "unmark", "undo", "settle"}

Held == {w \in Workers : op[w].pc \in Guarded \cup {"lock"}}

DataOK ==
  /\ active \in 0..MaxVersion
  /\ vstatus \in [Versions -> VersionStatus]
  /\ issued \in 0..MaxVersion /\ old \in 0..1 /\ marker \in 0..MaxVersion

ClockOK == due \in 0..issued /\ expired \in 0..due

NodesOK ==
  /\ zone \subseteq Targets /\ identified \subseteq Targets /\ stray \subseteq Targets
  /\ review \in [Targets -> TargetReviewState]
  /\ serving \in [Targets -> 0..MaxVersion]

CallsOK == op \in [Workers -> Calls]

\* The connections of the pool are free or held by a call that has, or waits
\* for, the lock; only a call behind the lock holds it.
PoolOK ==
  /\ lock \in Workers \cup {NoWorker} /\ free \in Nat
  /\ IsFiniteSet(Held) /\ Cardinality(Held) + free = Pool
  /\ \A w \in Workers : op[w].pc \in Guarded => lock = w

TypeInv == DataOK /\ ClockOK /\ NodesOK /\ CallsOK /\ PoolOK

-----------------------------------------------------------------------------
(* How a call moves, and what that does to the lock and the pool. *)

\* Only the call of w changes.
Only(w) == CallsOK' /\ \A v \in Workers \ {w} : op'[v] = op[v]

\* A call behind the lock goes on there.
Stays(w) ==
  /\ op[w].pc \in Guarded /\ Only(w)
  /\ op'[w].pc \in Guarded /\ lock' = lock /\ free' = free

\* A call behind the lock ends: the lock and its connection are given back.
Ends(w) ==
  /\ op[w].pc \in Guarded /\ Only(w)
  /\ op'[w].pc \in {"idle", "install"} /\ ~op'[w].undoing /\ op'[w].prev = None
  /\ lock' = NoWorker /\ free' = free + 1

\* An empty call is a call, whatever its kind, its step and its version.
LEMMA IdleOK ==
  /\ Idle \in Calls
  /\ \A k \in {"prepare", "renew", "bootstrap", "rollback"} :
       [Idle EXCEPT !.kind = k, !.pc = "connect"] \in Calls
  /\ \A v \in 0..MaxVersion :
       [Idle EXCEPT !.kind = "prepare", !.pc = "install", !.ver = v] \in Calls
<1>1. 0 \in 0..MaxVersion /\ {} \in SUBSET Targets
  BY CertAssumption
<1>2. Idle \in Calls
  BY <1>1 DEF Idle, Calls, Steps, None
<1>3. ASSUME NEW k \in {"prepare", "renew", "bootstrap", "rollback"}
      PROVE  [Idle EXCEPT !.kind = k, !.pc = "connect"] \in Calls
  BY <1>1 DEF Idle, Calls, Steps, None
<1>4. ASSUME NEW v \in 0..MaxVersion
      PROVE  [Idle EXCEPT !.kind = "prepare", !.pc = "install", !.ver = v] \in Calls
  BY <1>1 DEF Idle, Calls, Steps, None
<1> QED BY <1>2, <1>3, <1>4

\* A call that keeps its connection, or that never had one, leaves the pool alone.
LEMMA SamePool ==
  ASSUME TypeInv, NEW w \in Workers, Only(w), lock' = lock, free' = free,
         op'[w].pc \in Guarded \cup {"lock"} <=> op[w].pc \in Guarded \cup {"lock"},
         op'[w].pc \in Guarded => lock = w
  PROVE  PoolOK'
<1>2. Held' = Held
  BY DEF Held, Only
<1> QED BY <1>2 DEF PoolOK, TypeInv, Only

\* A call that ends or goes on without the lock gives its connection back.
LEMMA PoolGains ==
  ASSUME TypeInv, NEW w \in Workers, Only(w), free' = free + 1,
         op[w].pc \in Guarded \cup {"lock"}, op'[w].pc \notin Guarded \cup {"lock"},
         lock' \in {lock, NoWorker}, op[w].pc \in Guarded \/ lock' = lock
  PROVE  PoolOK'
<1>2. Held' = Held \ {w} /\ w \in Held
  BY DEF Held, Only
<1>3. IsFiniteSet(Held') /\ Cardinality(Held') = Cardinality(Held) - 1
  BY <1>2, FS_RemoveElement DEF TypeInv, PoolOK
<1>4. Cardinality(Held) \in Nat
  BY FS_CardinalityType DEF TypeInv, PoolOK
<1>5. Cardinality(Held') + free' = Pool /\ free' \in Nat
  BY <1>3, <1>4 DEF TypeInv, PoolOK
<1>6. \A v \in Workers : op'[v].pc \in Guarded => lock' = v
  BY CertAssumption DEF TypeInv, PoolOK, Only
<1>7. lock' \in Workers \cup {NoWorker}
  BY DEF TypeInv, PoolOK
<1> QED BY <1>3, <1>5, <1>6, <1>7 DEF PoolOK

\* A call that asks for the lock takes a connection.
LEMMA PoolLoses ==
  ASSUME TypeInv, NEW w \in Workers, Only(w), free > 0, free' = free - 1, lock' = lock,
         op[w].pc \notin Guarded \cup {"lock"}, op'[w].pc = "lock"
  PROVE  PoolOK'
<1>2. Held' = Held \cup {w} /\ w \notin Held
  BY DEF Held, Only
<1>3. IsFiniteSet(Held') /\ Cardinality(Held') = Cardinality(Held) + 1
  BY <1>2, FS_AddElement DEF TypeInv, PoolOK
<1>4. Cardinality(Held) \in Nat
  BY FS_CardinalityType DEF TypeInv, PoolOK
<1>5. Cardinality(Held') + free' = Pool /\ free' \in Nat
  BY <1>3, <1>4 DEF TypeInv, PoolOK
<1>6. \A v \in Workers : op'[v].pc \in Guarded => lock' = v
  BY DEF TypeInv, PoolOK, Only, Guarded
<1> QED BY <1>3, <1>5, <1>6 DEF PoolOK, TypeInv

\* Either way of a call behind the lock keeps the accounts.
LEMMA TurnPool ==
  ASSUME TypeInv, NEW w \in Workers, Stays(w) \/ Ends(w)
  PROVE  CallsOK' /\ PoolOK'
<1>1. CASE Stays(w)
  BY <1>1, SamePool DEF Stays, Only, TypeInv, PoolOK
<1>2. CASE Ends(w)
  BY <1>2, PoolGains DEF Ends, Only, Guarded
<1> QED BY <1>1, <1>2

\* The return of a call.
LEMMA ReturnEnds ==
  ASSUME TypeInv, NEW w \in Workers, op[w].pc \in Guarded, NEW v \in 0..MaxVersion,
         Return(w, v)
  PROVE  Ends(w)
<1>1. CallsOK
  BY DEF TypeInv
<1>2. PICK c \in Calls : /\ op' = [op EXCEPT ![w] = c]
                         /\ c.pc \in {"idle", "install"} /\ ~c.undoing /\ c.prev = None
  <2>1. CASE op[w].kind = "prepare" /\ v # None
    BY <2>1, IdleOK DEF Return, Idle
  <2>2. CASE ~(op[w].kind = "prepare" /\ v # None)
    BY <2>2, IdleOK DEF Return, Idle
  <2> QED BY <2>1, <2>2
<1> QED BY <1>1, <1>2 DEF Ends, Only, CallsOK, Return

\* So does the return that falls back on the version loaded before.
LEMMA FallbackEnds ==
  ASSUME TypeInv, NEW w \in Workers, op[w].pc \in Guarded, Fallback(w)
  PROVE  Ends(w)
<1>1. op[w].prev \in 0..MaxVersion /\ None \in 0..MaxVersion
  BY CertAssumption DEF TypeInv, CallsOK, Calls, None
<1> QED BY <1>1, ReturnEnds DEF Fallback

\* The end of a distribution that did not succeed.
LEMMA DistributeFailsTurns ==
  ASSUME TypeInv, NEW w \in Workers, op[w].pc \in Guarded, DistributeFails(w)
  PROVE  (Stays(w) \/ Ends(w)) /\ stray' \subseteq Targets
<1>1. None \in 0..MaxVersion
  BY CertAssumption DEF None
<1>2. ASSUME NEW pc \in {"settle", "undo"}, Stop(w, pc), UNCHANGED <<lock, free>>
      PROVE  Stays(w)
  <2>0. pc \in Steps
    BY DEF Steps
  <2>1. [op[w] EXCEPT !.pc = pc, !.seen = {}, !.unknown = {}, !.bad = FALSE] \in Calls
    BY <2>0 DEF TypeInv, CallsOK, Calls
  <2>2. op' = [op EXCEPT ![w] = [op[w] EXCEPT !.pc = pc, !.seen = {}, !.unknown = {}, !.bad = FALSE]]
    BY <1>2 DEF Stop, TypeInv, CallsOK, Calls
  <2> QED BY <1>2, <2>1, <2>2 DEF TypeInv, CallsOK, Stays, Only, Guarded, Calls
<1>3. stray' \subseteq Targets
  BY DEF DistributeFails, TypeInv, NodesOK, Behind, Managed
<1> QED BY <1>1, <1>2, <1>3, ReturnEnds DEF DistributeFails

\* A step of a call behind the lock that keeps the lock.
LEMMA StaysBy ==
  ASSUME TypeInv, NEW w \in Workers, op[w].pc \in Guarded, NEW c \in Calls,
         c.pc \in Guarded, op' = [op EXCEPT ![w] = c], UNCHANGED <<lock, free>>
  PROVE  Stays(w) /\ op'[w] = c
  BY DEF TypeInv, CallsOK, Stays, Only

\* The steps behind the lock are steps, the fields of a call have their types.
LEMMA Fields ==
  ASSUME TypeInv, NEW w \in Workers
  PROVE  /\ op[w] \in Calls /\ Guarded \subseteq Steps /\ None \in 0..MaxVersion
         /\ op[w].ver \in 0..MaxVersion /\ op[w].prev \in 0..MaxVersion
         /\ op[w].back \in 0..MaxVersion
         /\ op[w].seen \subseteq Targets /\ op[w].unknown \subseteq Targets
         /\ op[w].todo \subseteq Targets
<1>1. op[w] \in Calls
  BY DEF TypeInv, CallsOK
<1>2. Guarded \subseteq Steps
  BY DEF Guarded, Steps
<1>3. None \in 0..MaxVersion
  BY CertAssumption DEF None
<1> QED BY <1>1, <1>2, <1>3 DEF Calls

-----------------------------------------------------------------------------
(* Types, one lemma per step behind the lock. *)

\* What every step behind the lock has to show.
Turned(w) == (Stays(w) \/ Ends(w)) /\ DataOK' /\ ClockOK' /\ NodesOK'

\* A change of the step alone.
LEMMA GoStays ==
  ASSUME TypeInv, NEW w \in Workers, op[w].pc \in Guarded, NEW p \in Guarded, Go(w, p),
         UNCHANGED <<lock, free>>
  PROVE  Stays(w) /\ op'[w] = [op[w] EXCEPT !.pc = p]
<1>1. [op[w] EXCEPT !.pc = p] \in Calls /\ [op[w] EXCEPT !.pc = p].pc = p
  BY Fields DEF Calls
<1>2. op' = [op EXCEPT ![w] = [op[w] EXCEPT !.pc = p]]
  BY DEF Go
<1> QED BY <1>1, <1>2, StaysBy

\* The row is loaded and the marker repaired.
LEMMA LoadActiveTypes ==
  ASSUME TypeInv, NEW w \in Workers, LoadActive(w)
  PROVE  Turned(w)
<1>1. op[w].pc \in Guarded
  BY DEF LoadActive, Connected, At, Guarded
<1>2. DataOK' /\ ClockOK' /\ NodesOK'
  BY DEF LoadActive, TypeInv, DataOK, ClockOK, NodesOK, nodes, clock
<1>3. ASSUME ActiveMissing(w) PROVE Stays(w)
  BY <1>1, <1>3, GoStays DEF ActiveMissing, Guarded
<1>4. ASSUME ActiveFound(w) PROVE Stays(w) \/ Ends(w)
  <2>1. active \in 0..MaxVersion
    BY DEF TypeInv, DataOK
  <2>2. ASSUME Return(w, active) PROVE Ends(w)
    BY <1>1, <2>1, <2>2, ReturnEnds
  <2>3. ASSUME op' = [op EXCEPT ![w].pc = "acknowledge"], UNCHANGED <<lock, free>>
        PROVE  Stays(w)
    BY <1>1, <2>3, GoStays DEF Go, Guarded
  <2>4. ASSUME op' = [op EXCEPT ![w].pc = "issue", ![w].prev = active], UNCHANGED <<lock, free>>
        PROVE  Stays(w)
    <3>1. [op[w] EXCEPT !.pc = "issue", !.prev = active] \in Calls
      <4>1. "issue" \in Steps
        BY DEF Steps
      <4> QED BY <2>1, <4>1, Fields DEF Calls
    <3>2. [op[w] EXCEPT !.pc = "issue", !.prev = active].pc = "issue"
      BY Fields DEF Calls
    <3>3. op' = [op EXCEPT ![w] = [op[w] EXCEPT !.pc = "issue", !.prev = active]]
      BY <2>4
    <3> QED BY <1>1, <2>4, <3>1, <3>2, <3>3, StaysBy DEF Guarded
  <2> QED BY <1>4, <2>2, <2>3, <2>4 DEF ActiveFound
<1>5. Stays(w) \/ Ends(w)
  BY <1>1, <1>3, <1>4, ReturnEnds, Fields DEF LoadActive
<1> QED BY <1>2, <1>5 DEF Turned

\* A version is issued and staged: the number of versions stays within its bound.
LEMMA IssueTypes ==
  ASSUME TypeInv, NEW w \in Workers, Issue(w)
  PROVE  Turned(w)
<1>1. op[w].pc \in Guarded
  BY DEF Issue, At, Guarded
<1>2. issued + 1 \in 0..MaxVersion /\ "save" \in Steps /\ "save" \in Guarded
  BY CertAssumption DEF Issue, TypeInv, DataOK, Steps, Guarded
<1>3. DataOK' /\ ClockOK' /\ NodesOK'
  BY <1>2 DEF Issue, TypeInv, DataOK, ClockOK, NodesOK, nodes, clock
<1>4. [op[w] EXCEPT !.pc = "save", !.ver = issued + 1] \in Calls
  BY <1>2, Fields DEF Calls
<1>5. [op[w] EXCEPT !.pc = "save", !.ver = issued + 1].pc = "save"
  BY Fields DEF Calls
<1>6. op' = [op EXCEPT ![w] = [op[w] EXCEPT !.pc = "save", !.ver = issued + 1]]
  BY DEF Issue
<1>7. Stays(w)
  BY <1>1, <1>2, <1>4, <1>5, <1>6, StaysBy DEF Issue
<1> QED BY <1>3, <1>7 DEF Turned

\* The order fails and the call returns.
LEMMA IssueFailsTypes ==
  ASSUME TypeInv, NEW w \in Workers, IssueFails(w)
  PROVE  Turned(w)
<1>1. op[w].pc \in Guarded
  BY DEF IssueFails, At, Guarded
<1>2. DataOK' /\ ClockOK' /\ NodesOK'
  BY DEF IssueFails, TypeInv, DataOK, ClockOK, NodesOK, data, nodes, clock
<1> QED BY <1>1, <1>2, FallbackEnds DEF IssueFails, Turned

\* The new version becomes PENDING, or the call returns.
LEMMA SaveVersionTypes ==
  ASSUME TypeInv, NEW w \in Workers, SaveVersion(w)
  PROVE  Turned(w)
<1>1. op[w].pc \in Guarded /\ "resolve" \in Guarded
  BY DEF SaveVersion, Connected, At, Guarded
<1>2. DataOK' /\ ClockOK' /\ NodesOK'
  <2>1. vstatus' \in [Versions -> VersionStatus]
    BY DEF SaveVersion, TypeInv, DataOK, VersionStatus
  <2> QED BY <2>1 DEF SaveVersion, TypeInv, DataOK, ClockOK, NodesOK, nodes, clock
<1>3. Stays(w) \/ Ends(w)
  BY <1>1, GoStays, FallbackEnds DEF SaveVersion
<1> QED BY <1>2, <1>3 DEF Turned

\* Bootstrap chooses a version that is stored already.
LEMMA CandidateTypes ==
  ASSUME TypeInv, NEW w \in Workers, Candidate(w)
  PROVE  Turned(w)
<1>1. op[w].pc \in Guarded
  BY DEF Candidate, Connected, At, Guarded
<1>2. DataOK' /\ ClockOK' /\ NodesOK'
  BY DEF Candidate, TypeInv, DataOK, ClockOK, NodesOK, data, nodes, clock
<1>3. ASSUME NEW v \in Candidates, op' = [op EXCEPT ![w].pc = "resolve", ![w].ver = v],
             UNCHANGED <<lock, free>>
      PROVE  Stays(w)
  <2>1. v \in 0..MaxVersion /\ "resolve" \in Steps /\ "resolve" \in Guarded
    BY DEF Candidates, Versions, Steps, Guarded
  <2>2. [op[w] EXCEPT !.pc = "resolve", !.ver = v] \in Calls
    BY <2>1, Fields DEF Calls
  <2>3. [op[w] EXCEPT !.pc = "resolve", !.ver = v].pc = "resolve"
    BY Fields DEF Calls
  <2>4. op' = [op EXCEPT ![w] = [op[w] EXCEPT !.pc = "resolve", !.ver = v]]
    BY <1>3
  <2> QED BY <1>1, <1>3, <2>1, <2>2, <2>3, <2>4, StaysBy
<1>4. Stays(w) \/ Ends(w)
  BY <1>1, <1>3, ReturnEnds, Fields DEF Candidate
<1> QED BY <1>2, <1>4 DEF Turned

\* Bootstrap acknowledges the unknown targets and returns.
LEMMA AcknowledgeTypes ==
  ASSUME TypeInv, NEW w \in Workers, Acknowledge(w)
  PROVE  Turned(w)
<1>1. op[w].pc \in Guarded
  BY DEF Acknowledge, Connected, At, Guarded
<1>2. DataOK' /\ ClockOK'
  BY DEF Acknowledge, TypeInv, DataOK, ClockOK, data, clock
<1>3. review' \in [Targets -> TargetReviewState]
  BY DEF Acknowledge, TypeInv, NodesOK, TargetReviewState
<1>4. NodesOK'
  BY <1>3 DEF Acknowledge, TypeInv, NodesOK
<1> QED BY <1>1, <1>2, <1>4, ReturnEnds, Fields DEF Acknowledge, Turned

\* Rollback chooses the version to go to and the one to come back to.
LEMMA ChooseVersionTypes ==
  ASSUME TypeInv, NEW w \in Workers, ChooseVersion(w)
  PROVE  Turned(w)
<1>1. op[w].pc \in Guarded
  BY DEF ChooseVersion, Connected, At, Guarded
<1>2. DataOK' /\ ClockOK' /\ NodesOK'
  BY DEF ChooseVersion, TypeInv, DataOK, ClockOK, NodesOK, data, nodes, clock
<1>3. ASSUME NEW v \in Versions, NEW q \in {active} \cup (IF RepoFaults THEN {None} ELSE {}),
             op' = [op EXCEPT ![w].pc = "resolve", ![w].ver = v, ![w].prev = q],
             UNCHANGED <<lock, free>>
      PROVE  Stays(w)
  <2>1. v \in 0..MaxVersion /\ q \in 0..MaxVersion /\ "resolve" \in Steps /\ "resolve" \in Guarded
    BY Fields DEF Versions, Steps, Guarded, TypeInv, DataOK
  <2>2. [op[w] EXCEPT !.pc = "resolve", !.ver = v, !.prev = q] \in Calls
    BY <2>1, Fields DEF Calls
  <2>3. [op[w] EXCEPT !.pc = "resolve", !.ver = v, !.prev = q].pc = "resolve"
    BY Fields DEF Calls
  <2>4. op' = [op EXCEPT ![w] = [op[w] EXCEPT !.pc = "resolve", !.ver = v, !.prev = q]]
    BY <1>3
  <2> QED BY <1>1, <1>3, <2>1, <2>2, <2>3, <2>4, StaysBy
<1>4. Stays(w) \/ Ends(w)
  BY <1>1, <1>3, ReturnEnds, Fields DEF ChooseVersion
<1> QED BY <1>2, <1>4 DEF Turned

\* Resolving the targets.
LEMMA ResolveTypes ==
  ASSUME TypeInv, NEW w \in Workers, Resolve(w)
  PROVE  Turned(w)
<1> DEFINE p == IF Unmanaged = {} THEN "spread" ELSE "review"
           c == [op[w] EXCEPT !.pc = p, !.seen = Managed, !.todo = Managed,
                              !.unknown = Unmanaged]
<1>1. op[w].pc \in Guarded
  BY DEF Resolve, Connected, At, Guarded
<1>2. DataOK' /\ ClockOK'
  BY DEF Resolve, TypeInv, DataOK, ClockOK, data, clock
<1>3. ASSUME op' = [op EXCEPT ![w].pc = p, ![w].seen = Managed, ![w].todo = Managed,
                              ![w].unknown = Unmanaged], UNCHANGED <<lock, free>>
      PROVE  Stays(w)
  <2>1. p \in Guarded /\ p \in Steps /\ Managed \in SUBSET Targets /\ Unmanaged \in SUBSET Targets
    BY DEF Guarded, Steps, Managed, Unmanaged, TypeInv, NodesOK
  <2> HIDE DEF p
  <2>2. c \in Calls
    BY <2>1, Fields DEF Calls
  <2>3. c.pc = p
    BY Fields DEF Calls
  <2>4. op' = [op EXCEPT ![w] = c]
    BY <1>3
  <2> QED BY <1>1, <1>3, <2>1, <2>2, <2>3, <2>4, StaysBy
<1>4. (Stays(w) \/ Ends(w)) /\ stray' \subseteq Targets
  BY <1>1, <1>3, DistributeFailsTurns DEF Resolve, TypeInv, NodesOK
<1>5. NodesOK'
  BY <1>4 DEF Resolve, TypeInv, NodesOK
<1> QED BY <1>2, <1>4, <1>5 DEF Turned

\* Recording the reviews.
LEMMA ReviewTypes ==
  ASSUME TypeInv, NEW w \in Workers, Review(w)
  PROVE  Turned(w)
<1> DEFINE c == [op[w] EXCEPT !.pc = "spread", !.unknown = {}]
<1>1. op[w].pc \in Guarded
  BY DEF Review, Connected, At, Guarded
<1>2. DataOK' /\ ClockOK'
  BY DEF Review, TypeInv, DataOK, ClockOK, data, clock
<1>3. ASSUME op' = [op EXCEPT ![w].pc = "spread", ![w].unknown = {}], UNCHANGED <<lock, free>>
      PROVE  Stays(w)
  <2>1. "spread" \in Steps /\ "spread" \in Guarded
    BY DEF Guarded, Steps
  <2>2. c \in Calls
    BY <2>1, Fields DEF Calls
  <2>3. c.pc = "spread"
    BY Fields DEF Calls
  <2>4. op' = [op EXCEPT ![w] = c]
    BY <1>3
  <2> QED BY <1>1, <1>3, <2>1, <2>2, <2>3, <2>4, StaysBy
<1>4. (Stays(w) \/ Ends(w)) /\ stray' \subseteq Targets
  BY <1>1, <1>3, DistributeFailsTurns DEF Review, TypeInv, NodesOK
<1>5. review' \in [Targets -> TargetReviewState]
  BY DEF Review, TypeInv, NodesOK, TargetReviewState
<1>6. NodesOK'
  BY <1>4, <1>5 DEF Review, TypeInv, NodesOK
<1> QED BY <1>2, <1>4, <1>6 DEF Turned

\* What a distribution sends is a version.
LEMMA SentType ==
  ASSUME TypeInv, NEW w \in Workers
  PROVE  Sent(w) \in 0..MaxVersion
  BY Fields DEF Sent

\* Updating one Node.
LEMMA UpdateNodeTypes ==
  ASSUME TypeInv, NEW w \in Workers, NEW n \in Targets, UpdateNode(w, n)
  PROVE  Turned(w) /\ op'[w] = [op[w] EXCEPT !.todo = op[w].todo \ {n}]
<1> DEFINE c == [op[w] EXCEPT !.todo = op[w].todo \ {n}]
<1>1. op[w].pc \in Guarded
  BY DEF UpdateNode, At, Guarded
<1>2. DataOK' /\ ClockOK'
  BY DEF UpdateNode, TypeInv, DataOK, ClockOK, data, clock
<1>3. op[w].todo \ {n} \in SUBSET Targets
  BY Fields
<1>4. c \in Calls
  BY <1>3, Fields DEF Calls
<1>5. c.pc = op[w].pc
  BY Fields DEF Calls
<1>6. op' = [op EXCEPT ![w] = c]
  BY DEF UpdateNode
<1>7. Stays(w) /\ op'[w] = c
  BY <1>1, <1>4, <1>5, <1>6, StaysBy DEF UpdateNode
<1>8. NodesOK'
  BY SentType DEF UpdateNode, TypeInv, NodesOK
<1> QED BY <1>2, <1>7, <1>8 DEF Turned

\* The update of one Node fails.
LEMMA UpdateFailsTypes ==
  ASSUME TypeInv, NEW w \in Workers, NEW n \in Targets, UpdateFails(w, n)
  PROVE  Turned(w) /\ op'[w] = [op[w] EXCEPT !.todo = op[w].todo \ {n}, !.bad = TRUE]
<1> DEFINE c == [op[w] EXCEPT !.todo = op[w].todo \ {n}, !.bad = TRUE]
<1>1. op[w].pc \in Guarded
  BY DEF UpdateFails, At, Guarded
<1>2. DataOK' /\ ClockOK'
  BY DEF UpdateFails, TypeInv, DataOK, ClockOK, data, clock
<1>3. op[w].todo \ {n} \in SUBSET Targets
  BY Fields
<1>4. c \in Calls
  BY <1>3, Fields DEF Calls
<1>5. c.pc = op[w].pc
  BY Fields DEF Calls
<1>6. op' = [op EXCEPT ![w] = c]
  BY DEF UpdateFails
<1>7. Stays(w) /\ op'[w] = c
  BY <1>1, <1>4, <1>5, <1>6, StaysBy DEF UpdateFails
<1>8. NodesOK'
  BY SentType DEF UpdateFails, TypeInv, NodesOK
<1> QED BY <1>2, <1>7, <1>8 DEF Turned

\* The end of a distribution that went well.
LEMMA StopStays ==
  ASSUME TypeInv, NEW w \in Workers, op[w].pc \in Guarded, NEW p \in Guarded, Stop(w, p),
         UNCHANGED <<lock, free>>
  PROVE  /\ Stays(w)
         /\ op'[w] = [op[w] EXCEPT !.pc = p, !.seen = {}, !.unknown = {}, !.bad = FALSE]
<1> DEFINE c == [op[w] EXCEPT !.pc = p, !.seen = {}, !.unknown = {}, !.bad = FALSE]
<1>1. p \in Steps
  BY Fields
<1>2. c \in Calls
  BY <1>1, Fields DEF Calls
<1>3. c.pc = p
  BY Fields DEF Calls
<1>4. op' = [op EXCEPT ![w] = c]
  BY Fields DEF Stop, Calls
<1> QED BY <1>2, <1>3, <1>4, StaysBy

\* The results are recorded.
LEMMA RecordDistributionTypes ==
  ASSUME TypeInv, NEW w \in Workers, RecordDistribution(w)
  PROVE  Turned(w)
<1>1. op[w].pc \in Guarded /\ "settle" \in Guarded /\ "mark" \in Guarded
  BY DEF RecordDistribution, Connected, At, Guarded
<1>2. DataOK' /\ ClockOK'
  BY DEF RecordDistribution, TypeInv, DataOK, ClockOK, data, clock
<1>3. (Stays(w) \/ Ends(w)) /\ stray' \subseteq Targets
  BY <1>1, StopStays, GoStays, DistributeFailsTurns DEF RecordDistribution, TypeInv, NodesOK
<1>4. NodesOK'
  BY <1>3 DEF RecordDistribution, TypeInv, NodesOK
<1> QED BY <1>2, <1>3, <1>4 DEF Turned

\* The marker.
LEMMA ActivateTypes ==
  ASSUME TypeInv, NEW w \in Workers, Activate(w)
  PROVE  /\ Turned(w)
         /\ \E b \in 0..MaxVersion : op'[w] = [op[w] EXCEPT !.pc = "commit", !.back = b]
<1> DEFINE b == IF op[w].kind \in {"bootstrap", "rollback"} THEN ActiveVersion ELSE op[w].prev
           c == [op[w] EXCEPT !.pc = "commit", !.back = b]
<1>1. op[w].pc \in Guarded
  BY DEF Activate, At, Guarded
<1>2. DataOK' /\ ClockOK' /\ NodesOK'
  BY Fields DEF Activate, TypeInv, DataOK, ClockOK, NodesOK, nodes, clock
<1>3. b \in 0..MaxVersion /\ "commit" \in Steps /\ "commit" \in Guarded
  BY Fields, CertAssumption DEF ActiveVersion, TypeInv, DataOK, Steps, Guarded
<1>4. op' = [op EXCEPT ![w] = c]
  BY DEF Activate
<1> HIDE DEF b
<1>5. c \in Calls
  BY <1>3, Fields DEF Calls
<1>6. c.pc = "commit"
  BY Fields DEF Calls
<1>7. Stays(w) /\ op'[w] = c
  BY <1>1, <1>3, <1>4, <1>5, <1>6, StaysBy DEF Activate
<1> QED BY <1>2, <1>3, <1>7 DEF Turned

\* The marker cannot be replaced.
LEMMA ActivateFailsTypes ==
  ASSUME TypeInv, NEW w \in Workers, ActivateFails(w)
  PROVE  Turned(w)
<1>1. op[w].pc \in Guarded
  BY DEF ActivateFails, At, Guarded
<1>2. DataOK' /\ ClockOK'
  BY DEF ActivateFails, TypeInv, DataOK, ClockOK, data, clock
<1>3. (Stays(w) \/ Ends(w)) /\ stray' \subseteq Targets
  BY <1>1, DistributeFailsTurns DEF ActivateFails
<1>4. NodesOK'
  BY <1>3 DEF ActivateFails, TypeInv, NodesOK
<1> QED BY <1>2, <1>3, <1>4 DEF Turned

\* The transaction of ActivateVersion keeps the types of the row and the statuses.
LEMMA ActivatedTypes ==
  ASSUME TypeInv, NEW v \in 0..MaxVersion, Activated(v)
  PROVE  active' \in 0..MaxVersion /\ vstatus' \in [Versions -> VersionStatus]
  BY DEF Activated, TypeInv, DataOK, VersionStatus

\* The row names the new version and the call returns.
LEMMA ActivateVersionTypes ==
  ASSUME TypeInv, NEW w \in Workers, ActivateVersion(w)
  PROVE  Turned(w) /\ Ends(w)
<1>1. op[w].pc \in Guarded
  BY DEF ActivateVersion, Connected, At, Guarded
<1>2. DataOK' /\ ClockOK'
  BY ActivatedTypes, Fields DEF ActivateVersion, TypeInv, DataOK, ClockOK, clock
<1>3. NodesOK'
  BY DEF ActivateVersion, TypeInv, NodesOK, Managed
<1>4. Ends(w)
  BY <1>1, Fields, ReturnEnds DEF ActivateVersion
<1> QED BY <1>2, <1>3, <1>4 DEF Turned

\* The activation of the row is reported as an error.
LEMMA ActivateVersionFailsTypes ==
  ASSUME TypeInv, NEW w \in Workers, ActivateVersionFails(w)
  PROVE  Turned(w)
<1>1. op[w].pc \in Guarded /\ "unmark" \in Guarded
  BY DEF ActivateVersionFails, Connected, At, Guarded
<1>2. DataOK' /\ ClockOK' /\ NodesOK'
  BY ActivatedTypes, Fields
  DEF ActivateVersionFails, TypeInv, DataOK, ClockOK, NodesOK, nodes, clock
<1> QED BY <1>1, <1>2, GoStays DEF ActivateVersionFails, Turned

\* The marker goes back.
LEMMA RestoreMarkerTypes ==
  ASSUME TypeInv, NEW w \in Workers, RestoreMarker(w)
  PROVE  Turned(w)
<1> DEFINE c == [op[w] EXCEPT !.pc = "undo", !.seen = {}, !.back = None]
<1>1. op[w].pc \in Guarded
  BY DEF RestoreMarker, At, Guarded
<1>2. DataOK' /\ ClockOK' /\ NodesOK'
  BY Fields DEF RestoreMarker, TypeInv, DataOK, ClockOK, NodesOK, nodes, clock
<1>3. ASSUME op' = [op EXCEPT ![w].pc = "undo", ![w].seen = {}, ![w].back = None],
             UNCHANGED <<lock, free>>
      PROVE  Stays(w)
  <2>1. "undo" \in Steps /\ "undo" \in Guarded
    BY DEF Guarded, Steps
  <2>2. c \in Calls
    BY <2>1, Fields DEF Calls
  <2>3. c.pc = "undo"
    BY Fields DEF Calls
  <2>4. op' = [op EXCEPT ![w] = c]
    BY <1>3, Fields DEF Calls
  <2> QED BY <1>1, <1>3, <2>1, <2>2, <2>3, <2>4, StaysBy
<1> QED BY <1>1, <1>2, <1>3, ReturnEnds, Fields DEF RestoreMarker, Turned

\* The compensation starts, or there is nothing to send.
LEMMA RestoreDistributedTypes ==
  ASSUME TypeInv, NEW w \in Workers, RestoreDistributed(w)
  PROVE  Turned(w)
<1> DEFINE c == [op[w] EXCEPT !.pc = "resolve", !.undoing = TRUE]
<1>1. op[w].pc \in Guarded /\ "settle" \in Guarded
  BY DEF RestoreDistributed, At, Guarded
<1>2. DataOK' /\ ClockOK' /\ NodesOK'
  BY DEF RestoreDistributed, TypeInv, DataOK, ClockOK, NodesOK, data, clock, Behind, Managed
<1>3. ASSUME op' = [op EXCEPT ![w].pc = "resolve", ![w].undoing = TRUE], UNCHANGED <<lock, free>>
      PROVE  Stays(w)
  <2>1. "resolve" \in Steps /\ "resolve" \in Guarded
    BY DEF Guarded, Steps
  <2>2. c \in Calls
    BY <2>1, Fields DEF Calls
  <2>3. c.pc = "resolve"
    BY Fields DEF Calls
  <2>4. op' = [op EXCEPT ![w] = c]
    BY <1>3
  <2> QED BY <1>1, <1>3, <2>1, <2>2, <2>3, <2>4, StaysBy
<1> QED BY <1>1, <1>2, <1>3, GoStays DEF RestoreDistributed, Turned

\* The status of the failed version is written and the call returns.
LEMMA SettleTypes ==
  ASSUME TypeInv, NEW w \in Workers, Settle(w)
  PROVE  Turned(w) /\ Ends(w)
<1>1. op[w].pc \in Guarded
  BY DEF Settle, Connected, At, Guarded
<1>2. vstatus' \in [Versions -> VersionStatus]
  BY DEF Settle, TypeInv, DataOK, VersionStatus
<1>3. DataOK' /\ ClockOK' /\ NodesOK'
  BY <1>2 DEF Settle, TypeInv, DataOK, ClockOK, NodesOK, nodes, clock
<1> QED BY <1>1, <1>3, ReturnEnds, FallbackEnds, Fields DEF Settle, Turned

-----------------------------------------------------------------------------
(* Types, the steps outside the lock. *)

\* The steps of a call behind the lock.
Inside(w) ==
  \/ LoadActive(w) \/ Issue(w) \/ IssueFails(w) \/ SaveVersion(w)
  \/ Candidate(w) \/ Acknowledge(w) \/ ChooseVersion(w)
  \/ Resolve(w) \/ Review(w)
  \/ \E n \in Targets : UpdateNode(w, n) \/ UpdateFails(w, n)
  \/ RecordDistribution(w)
  \/ Activate(w) \/ ActivateFails(w) \/ ActivateVersion(w) \/ ActivateVersionFails(w)
  \/ RestoreMarker(w) \/ RestoreDistributed(w) \/ Settle(w)

\* Every one of them keeps or ends its call and the types.
LEMMA InsideTypes ==
  ASSUME TypeInv, NEW w \in Workers, Inside(w)
  PROVE  Turned(w)
  BY LoadActiveTypes, IssueTypes, IssueFailsTypes, SaveVersionTypes, CandidateTypes,
     AcknowledgeTypes, ChooseVersionTypes, ResolveTypes, ReviewTypes, UpdateNodeTypes,
     UpdateFailsTypes, RecordDistributionTypes, ActivateTypes, ActivateFailsTypes,
     ActivateVersionTypes, ActivateVersionFailsTypes, RestoreMarkerTypes,
     RestoreDistributedTypes, SettleTypes
  DEF Inside

\* The call starts, asks for a connection, and for the lock.
LEMMA RequestTypes ==
  ASSUME TypeInv, NEW w \in Workers, NEW kind \in Kinds[w], Request(w, kind)
  PROVE  /\ TypeInv' /\ Only(w)
         /\ op'[w] = [Idle EXCEPT !.kind = kind, !.pc = "connect"]
<1>1. kind \in {"prepare", "renew", "bootstrap", "rollback"}
  BY CertAssumption
<1>2. Only(w) /\ op'[w] = [Idle EXCEPT !.kind = kind, !.pc = "connect"]
  BY <1>1, IdleOK DEF Request, TypeInv, CallsOK, Only
<1>3. op'[w].pc = "connect"
  BY <1>2 DEF Idle
<1>4. PoolOK'
  BY <1>2, <1>3, SamePool DEF Request, At, Guarded
<1> QED BY <1>2, <1>4 DEF Request, TypeInv, DataOK, ClockOK, NodesOK, data, clock, nodes, Only

\* The call takes a connection.
LEMMA AcquireTypes ==
  ASSUME TypeInv, NEW w \in Workers, Acquire(w)
  PROVE  TypeInv' /\ Only(w) /\ op'[w] = [op[w] EXCEPT !.pc = "lock"]
<1>1. "lock" \in Steps
  BY DEF Steps
<1>2. [op[w] EXCEPT !.pc = "lock"] \in Calls /\ [op[w] EXCEPT !.pc = "lock"].pc = "lock"
  BY <1>1, Fields DEF Calls
<1>3. Only(w) /\ op'[w] = [op[w] EXCEPT !.pc = "lock"]
  BY <1>2 DEF Acquire, Go, TypeInv, CallsOK, Only
<1>4. PoolOK'
  BY <1>2, <1>3, PoolLoses DEF Acquire, Connected, At, Guarded
<1> QED BY <1>3, <1>4 DEF Acquire, TypeInv, DataOK, ClockOK, NodesOK, data, clock, nodes, Only

\* The call takes the lock: it is free, so nobody else is behind it.
LEMMA LockTypes ==
  ASSUME TypeInv, NEW w \in Workers, Lock(w)
  PROVE  /\ TypeInv' /\ Only(w)
         /\ op'[w] = [op[w] EXCEPT !.pc = IF op[w].kind = "rollback" THEN "list" ELSE "load"]
<1> DEFINE p == IF op[w].kind = "rollback" THEN "list" ELSE "load"
<1>1. p \in Steps /\ p \in Guarded
  BY DEF Steps, Guarded
<1>2. op' = [op EXCEPT ![w].pc = p]
  BY DEF Lock, Go
<1> HIDE DEF p
<1>3. [op[w] EXCEPT !.pc = p] \in Calls /\ [op[w] EXCEPT !.pc = p].pc = p
  BY <1>1, Fields DEF Calls
<1>4. Only(w) /\ op'[w] = [op[w] EXCEPT !.pc = p]
  BY <1>2, <1>3 DEF TypeInv, CallsOK, Only
<1>5. Held' = Held
  BY <1>1, <1>3, <1>4 DEF Held, Only, Lock, At
<1>6. \A v \in Workers : op'[v].pc \in Guarded => lock' = v
  BY <1>4, CertAssumption DEF Lock, Only, TypeInv, PoolOK
<1>7. PoolOK'
  BY <1>5, <1>6 DEF PoolOK, TypeInv, Lock
<1>8. TypeInv'
  BY <1>4, <1>7 DEF Lock, TypeInv, DataOK, ClockOK, NodesOK, data, clock, nodes, Only
<1> QED BY <1>4, <1>8 DEF p

\* The lock query fails: the connection goes back.
LEMMA LockFailsTypes ==
  ASSUME TypeInv, NEW w \in Workers, LockFails(w)
  PROVE  TypeInv' /\ Only(w) /\ op'[w] = Idle
<1>1. Only(w) /\ op'[w] = Idle
  BY IdleOK DEF LockFails, TypeInv, CallsOK, Only
<1>2. Idle.pc = "idle"
  BY DEF Idle
<1>3. PoolOK'
  BY <1>1, <1>2, PoolGains DEF LockFails, At, Guarded
<1> QED BY <1>1, <1>3 DEF LockFails, TypeInv, DataOK, ClockOK, NodesOK, data, clock, nodes, Only

\* A deployment installs the material on a new VPS.
LEMMA InstallTypes ==
  ASSUME TypeInv, NEW w \in Workers, Install(w)
  PROVE  TypeInv' /\ Only(w) /\ op'[w] = Idle
<1>1. Only(w) /\ op'[w] = Idle
  BY IdleOK DEF Install, TypeInv, CallsOK, Only
<1>2. Idle.pc = "idle"
  BY DEF Idle
<1>3. PoolOK'
  BY <1>1, <1>2, SamePool DEF Install, At, Guarded
<1>4. NodesOK'
  BY Fields DEF Install, nodes, TypeInv, NodesOK
<1> QED BY <1>1, <1>3, <1>4 DEF Install, TypeInv, DataOK, ClockOK, data, clock, Only

\* What happens around the calls.
LEMMA AroundTypes ==
  ASSUME TypeInv, Tick \/ (\E n \in Foreign : Publish(n))
  PROVE  TypeInv' /\ op' = op /\ lock' = lock
<1>1. op' = op /\ lock' = lock /\ free' = free /\ UNCHANGED data
  BY DEF Tick, Publish
<1>2. CallsOK' /\ PoolOK' /\ DataOK'
  BY <1>1 DEF TypeInv, CallsOK, PoolOK, Held, DataOK, data
<1>3. ClockOK'
  BY CertAssumption DEF Tick, Publish, data, clock, TypeInv, ClockOK, DataOK
<1>4. NodesOK'
  BY CertAssumption DEF Tick, Publish, nodes, TypeInv, NodesOK
<1> QED BY <1>1, <1>2, <1>3, <1>4 DEF TypeInv

\* The calls, the lock and the pool after a restart.
LEMMA CrashTypes ==
  ASSUME TypeInv, Crash
  PROVE  TypeInv' /\ \A w \in Workers : op'[w] = Idle
<1>1. CallsOK' /\ PoolOK' /\ \A w \in Workers : op'[w] = Idle
  <2>1. \A w \in Workers : op'[w] = Idle /\ op'[w].pc = "idle"
    BY DEF Crash, Idle
  <2>2. CallsOK'
    BY IdleOK DEF CallsOK, Crash
  <2>3. Held' = {}
    BY <2>1 DEF Held, Guarded
  <2>4. IsFiniteSet(Held') /\ Cardinality(Held') + free' = Pool
    BY <2>3, FS_EmptySet, CertAssumption DEF Crash
  <2>5. \A w \in Workers : op'[w].pc \notin Guarded
    BY <2>1 DEF Guarded
  <2> QED BY <2>1, <2>2, <2>4, <2>5, CertAssumption DEF PoolOK, Crash
<1>2. DataOK' /\ ClockOK' /\ NodesOK'
  BY DEF Crash, TypeInv, DataOK, ClockOK, NodesOK, data, clock, Behind, Managed
<1> QED BY <1>1, <1>2 DEF TypeInv

\* The state the process starts in.
LEMMA InitTypes ==
  ASSUME Init
  PROVE  TypeInv
<1>1. CallsOK /\ PoolOK
  <2>1. \A w \in Workers : op[w] = Idle /\ op[w].pc = "idle"
    BY DEF Init, Idle
  <2>2. CallsOK
    BY IdleOK DEF CallsOK, Init
  <2>3. Held = {}
    BY <2>1 DEF Held, Guarded
  <2>4. IsFiniteSet(Held) /\ Cardinality(Held) + free = Pool
    BY <2>3, FS_EmptySet, CertAssumption DEF Init
  <2>5. \A w \in Workers : op[w].pc \notin Guarded
    BY <2>1 DEF Guarded
  <2> QED BY <2>2, <2>4, <2>5, CertAssumption DEF PoolOK, Init
<1>2. old \in 0..1 /\ old \in 0..MaxVersion
  BY CertAssumption DEF Init
<1>3. vstatus \in [Versions -> VersionStatus]
  BY DEF Init, VersionStatus
<1>6. DataOK /\ ClockOK
  BY <1>2, <1>3, CertAssumption DEF Init, DataOK, ClockOK, None
<1>4. identified \subseteq Targets
  BY DEF Init
<1>5. NodesOK
  BY <1>2, <1>4, CertAssumption DEF Init, NodesOK, TargetReviewState, None
<1> QED BY <1>1, <1>6, <1>5 DEF TypeInv

\* The ways a step can go: outside the lock, behind it, or around the calls.
LEMMA NextCases ==
  ASSUME Next
  PROVE  \/ \E w \in Workers : \/ \E kind \in Kinds[w] : Request(w, kind)
                               \/ Acquire(w) \/ Lock(w) \/ LockFails(w) \/ Install(w)
                               \/ Inside(w)
         \/ Tick \/ (\E n \in Foreign : Publish(n))
         \/ Crash
  BY DEF Next, Step, Inside

\* TypeInv is inductive.
LEMMA StepTypes ==
  ASSUME TypeInv, [Next]_vars
  PROVE  TypeInv'
<1>1. CASE UNCHANGED vars
  BY <1>1 DEF vars, data, nodes, clock, TypeInv, DataOK, ClockOK, NodesOK, CallsOK, PoolOK, Held
<1>2. ASSUME NEW w \in Workers, Inside(w)
      PROVE  TypeInv'
  BY <1>2, InsideTypes, TurnPool DEF Turned, TypeInv
<1> QED BY <1>1, <1>2, NextCases, RequestTypes, AcquireTypes, LockTypes, LockFailsTypes,
           InstallTypes, AroundTypes, CrashTypes

\* TypeInv always holds.
LEMMA TypesInv == Spec => []TypeInv
<1>1. Init => TypeInv
  BY InitTypes
<1>2. TypeInv /\ [Next]_vars => TypeInv'
  BY StepTypes
<1> QED BY <1>1, <1>2, PTL DEF Spec

\* TypeInv is stronger than the type invariant of the runs.
LEMMA TypeInvImplies ==
  ASSUME TypeInv
  PROVE  CertTypeOK
<1>1. Cardinality(Held) \in Nat
  BY FS_CardinalityType DEF TypeInv, PoolOK
<1>2. free \in 0..Pool
  BY <1>1, CertAssumption DEF TypeInv, PoolOK
<1> QED BY <1>2 DEF TypeInv, DataOK, ClockOK, NodesOK, CallsOK, Calls, PoolOK, CertTypeOK

\* CertTypeOK: the state of the manager keeps its types and the pool never has
\* more connections free than it has, for every number of callers.
THEOREM CertTypes == Spec => []CertTypeOK
  BY TypesInv, TypeInvImplies, PTL

-----------------------------------------------------------------------------
(* Acknowledgements. *)

\* A call behind the lock is alone there.
LEMMA Alone ==
  ASSUME TypeInv, NEW w \in Workers, op[w].pc \in Guarded
  PROVE  lock = w /\ \A v \in Workers \ {w} : op[v].pc \notin Guarded
  BY DEF TypeInv, PoolOK

\* No target a call is about to send to review has been acknowledged since the
\* call resolved the zone.
ReviewInv ==
  \A w \in Workers : op[w].pc = "review" =>
    \A n \in op[w].unknown : review[n] # "LEGACY_ACKNOWLEDGED"

\* Outside the lock the reviews do not change.
LEMMA OutsideReview ==
  ASSUME NEW w \in Workers,
         \/ \E kind \in Kinds[w] : Request(w, kind)
         \/ Acquire(w) \/ Lock(w) \/ LockFails(w) \/ Install(w)
  PROVE  review' = review
  BY DEF Request, Acquire, Lock, LockFails, Install, nodes

\* Only Resolve goes to the review, with targets that are not acknowledged.
LEMMA InsideReview ==
  ASSUME TypeInv, NEW w \in Workers, Inside(w), op'[w].pc = "review"
  PROVE  \A n \in op'[w].unknown : review'[n] # "LEGACY_ACKNOWLEDGED"
<1>1. op[w] \in Calls /\ op \in [Workers -> Calls]
  BY DEF TypeInv, CallsOK
<1>2. ASSUME NEW v \in 0..MaxVersion, Return(w, v) PROVE FALSE
  BY <1>1, <1>2 DEF Return, Idle
<1>3. ASSUME NEW q, q # "review", Stop(w, q) PROVE FALSE
  BY <1>1, <1>3 DEF Stop, Calls
<1>4. ASSUME NEW q, q # "review", Go(w, q) PROVE FALSE
  BY <1>1, <1>4 DEF Go, Calls
<1>5. ~Fallback(w)
  BY <1>2, Fields DEF Fallback
<1>6. ~DistributeFails(w)
  BY <1>2, <1>3, Fields DEF DistributeFails
<1>7. ~LoadActive(w)
  <2>1. ~ActiveMissing(w)
    BY <1>4 DEF ActiveMissing
  <2>2. ~ActiveFound(w)
    BY <1>1, <1>2 DEF ActiveFound, TypeInv, DataOK, Calls
  <2> QED BY <2>1, <2>2, <1>2, Fields DEF LoadActive
<1>8. ~Issue(w) /\ ~IssueFails(w) /\ ~SaveVersion(w)
  BY <1>1, <1>4, <1>5 DEF Issue, IssueFails, SaveVersion, Calls
<1>9. ~Candidate(w) /\ ~Acknowledge(w) /\ ~ChooseVersion(w)
  <2>1. ASSUME NEW v, op' = [op EXCEPT ![w].pc = "resolve", ![w].ver = v] PROVE FALSE
    BY <1>1, <2>1 DEF Calls
  <2>2. ASSUME NEW v, NEW q, op' = [op EXCEPT ![w].pc = "resolve", ![w].ver = v, ![w].prev = q]
        PROVE  FALSE
    BY <1>1, <2>2 DEF Calls
  <2>3. ~Return(w, None)
    BY <1>2, Fields
  <2> QED BY <2>1, <2>2, <2>3 DEF Candidate, Acknowledge, ChooseVersion
<1>10. ~Review(w)
  BY <1>1, <1>6 DEF Review, Calls
<1>11. ASSUME NEW n \in Targets PROVE ~UpdateNode(w, n) /\ ~UpdateFails(w, n)
  BY <1>1 DEF UpdateNode, UpdateFails, Calls, At
<1>12. ~RecordDistribution(w)
  BY <1>3, <1>4, <1>6 DEF RecordDistribution
<1>13. ~Activate(w) /\ ~ActivateFails(w) /\ ~ActivateVersionFails(w)
  BY <1>1, <1>4, <1>6 DEF Activate, ActivateFails, ActivateVersionFails, Calls
<1>14. ~ActivateVersion(w) /\ ~Settle(w)
  BY <1>2, <1>5, Fields DEF ActivateVersion, Settle
<1>15. ~RestoreMarker(w) /\ ~RestoreDistributed(w)
  BY <1>1, <1>2, <1>4, Fields DEF RestoreMarker, RestoreDistributed, Calls
<1>16. Resolve(w)
  BY <1>7, <1>8, <1>9, <1>10, <1>11, <1>12, <1>13, <1>14, <1>15 DEF Inside
<1>17. op'[w].unknown = Unmanaged /\ review' = review
  <2>1. op' = [op EXCEPT ![w].pc = IF Unmanaged = {} THEN "spread" ELSE "review",
                         ![w].seen = Managed, ![w].todo = Managed, ![w].unknown = Unmanaged]
    BY <1>6, <1>16 DEF Resolve
  <2>2. op'[w].unknown = Unmanaged
    BY <1>1, <2>1 DEF Calls
  <2> QED BY <1>16, <2>2 DEF Resolve
<1> QED BY <1>17 DEF Unmanaged, LegacyAcknowledged

\* ReviewInv is inductive: who is at the review is alone behind the lock.
LEMMA ReviewStep ==
  ASSUME TypeInv, ReviewInv, [Next]_vars
  PROVE  ReviewInv'
<1>1. CASE UNCHANGED vars
  BY <1>1 DEF vars, nodes, ReviewInv
<1>2. ASSUME NEW w \in Workers, Only(w), op'[w].pc # "review", review' = review
      PROVE  ReviewInv'
  BY <1>2 DEF ReviewInv, Only
<1>3. ASSUME NEW w \in Workers, NEW kind \in Kinds[w], Request(w, kind)
      PROVE  ReviewInv'
  BY <1>2, <1>3, RequestTypes, OutsideReview DEF Idle
<1>4. ASSUME NEW w \in Workers, Acquire(w) \/ Lock(w)
      PROVE  ReviewInv'
  <2>1. op'[w].pc # "review"
    BY <1>4, AcquireTypes, LockTypes, Fields DEF Calls
  <2> QED BY <1>2, <1>4, <2>1, AcquireTypes, LockTypes, OutsideReview
<1>5. ASSUME NEW w \in Workers, LockFails(w) \/ Install(w)
      PROVE  ReviewInv'
  BY <1>2, <1>5, LockFailsTypes, InstallTypes, OutsideReview DEF Idle
<1>6. ASSUME NEW w \in Workers, Inside(w)
      PROVE  ReviewInv'
  <2>1. Only(w) /\ op[w].pc \in Guarded
    BY <1>6, InsideTypes DEF Turned, Stays, Ends
  <2>2. \A v \in Workers \ {w} : op'[v].pc # "review"
    BY <2>1, Alone DEF Only, Guarded
  <2> QED BY <1>6, <2>2, InsideReview DEF ReviewInv
<1>7. CASE Tick \/ (\E n \in Foreign : Publish(n))
  BY <1>7 DEF Tick, Publish, nodes, ReviewInv
<1>8. CASE Crash
  BY <1>8, CrashTypes DEF ReviewInv, Idle
<1> QED BY <1>1, <1>3, <1>4, <1>5, <1>6, <1>7, <1>8, NextCases

\* One step.
LEMMA AcknowledgedStep ==
  ASSUME TypeInv, ReviewInv, [Next]_vars, NEW n \in Targets, review[n] = "LEGACY_ACKNOWLEDGED"
  PROVE  review'[n] = review[n]
<1>1. CASE review' = review
  BY <1>1
<1>2. ASSUME NEW w \in Workers, Acknowledge(w) PROVE review'[n] = review[n]
  BY <1>2 DEF Acknowledge
<1>3. ASSUME NEW w \in Workers, Review(w) PROVE review'[n] = review[n]
  <2>1. n \notin op[w].unknown
    BY <1>3 DEF Review, Connected, At, ReviewInv
  <2> QED BY <1>3, <2>1 DEF Review
<1>4. ASSUME NEW w \in Workers, Inside(w), ~Acknowledge(w), ~Review(w)
      PROVE  review' = review
  BY <1>4 DEF Inside, nodes, LoadActive, Issue, IssueFails, SaveVersion, Candidate, ChooseVersion,
     Resolve, UpdateNode, UpdateFails, RecordDistribution, Activate, ActivateFails,
     ActivateVersion, ActivateVersionFails, RestoreMarker, RestoreDistributed, Settle
<1>5. CASE UNCHANGED vars \/ Tick \/ (\E m \in Foreign : Publish(m)) \/ Crash
  BY <1>5 DEF vars, nodes, Tick, Publish, Crash
<1> QED BY <1>1, <1>2, <1>3, <1>4, <1>5, NextCases, OutsideReview

\* AcknowledgementKept: an acknowledgement of an operator is never undone, for
\* every number of callers and targets and whatever fails; the advisory lock of
\* the SNI covers the resolution of the zone and the review of what it found.
THEOREM AcknowledgementsAreKept == Spec => AcknowledgementKept
<1>1. Init => ReviewInv
  BY DEF Init, ReviewInv, Idle
<1>2. TypeInv /\ ReviewInv /\ [Next]_vars => ReviewInv'
  BY ReviewStep
<1>3. TypeInv /\ ReviewInv /\ [Next]_vars =>
        [\A n \in Targets : review[n] = "LEGACY_ACKNOWLEDGED" => review'[n] = review[n]]_vars
  BY AcknowledgedStep
<1> QED BY <1>1, <1>2, <1>3, TypesInv, PTL DEF Spec, AcknowledgementKept

-----------------------------------------------------------------------------
(* The row and the Nodes: the inductive invariant. *)

\* Every managed Node serves the active version while that is valid, or is excused.
Served == Validate(active) => Behind \subseteq stray

\* Which steps the calls of each kind take, and when they compensate.
Shape(w) ==
  /\ op[w].pc \in Guarded \cup {"connect", "lock"} => op[w].kind # "none"
  /\ op[w].kind = "bootstrap" =>
       ~op[w].undoing /\ op[w].pc \notin {"issue", "save", "undo", "settle"}
  /\ op[w].kind = "rollback" => op[w].pc \notin {"load", "issue", "save"}
  /\ op[w].pc \in {"candidate", "acknowledge"} => op[w].kind = "bootstrap"
  /\ op[w].pc = "list" => op[w].kind = "rollback"
  /\ op[w].pc \notin {"resolve", "review", "spread", "settle"} => ~op[w].undoing
  /\ op[w].pc \in {"connect", "lock", "load", "list", "candidate"} => op[w].prev = None

\* The version of a call is staged when the row is to name it, and a version a
\* call has issued is not the active one.
RowClaim(w) ==
  /\ op[w].pc = "commit" => op[w].ver \in 1..issued
  /\ /\ op[w].kind \in {"prepare", "renew"}
     /\ op[w].pc \in {"save", "resolve", "review", "spread", "mark", "commit", "unmark",
                      "undo", "settle"}
     => op[w].ver \in Versions /\ op[w].ver # active

\* What a call would go back to is the active version; it has nothing to go back
\* to only when no valid version is active, or for a rollback.
PrevClaim(w) ==
  /\ op[w].prev \in {active, None}
  /\ op[w].undoing => op[w].prev = active
  /\ /\ op[w].pc \in {"candidate", "resolve", "review", "spread", "mark", "commit", "unmark"}
     /\ op[w].kind = "bootstrap"
     => ~Validate(active)
  /\ /\ op[w].pc \in {"issue", "save", "resolve", "review", "spread", "mark", "commit",
                      "unmark", "undo"}
     /\ op[w].kind \in {"prepare", "renew"} /\ op[w].prev = None
     => ~Validate(active)

\* How far a call has got with the Nodes: before a distribution they serve the
\* active version; while it lasts only those it has sent the new version to, or,
\* when it compensates, those it has not reached again, do not; and a version
\* is marked when every Node that was resolved serves it.
NodeClaim(w) ==
  /\ op[w].pc \in {"load", "list", "candidate", "acknowledge", "issue", "save", "settle"} => Served
  /\ op[w].pc \in {"resolve", "review"} /\ ~op[w].undoing => Served
  /\ op[w].pc \in {"review", "spread"} => op[w].todo \subseteq op[w].seen
  /\ op[w].pc = "review" => op[w].seen \subseteq op[w].todo
  /\ op[w].pc \in {"review", "spread", "mark", "commit"} => op[w].seen \subseteq identified
  /\ op[w].pc = "spread" /\ ~op[w].undoing =>
       /\ Validate(active) => Behind \subseteq stray \cup (op[w].seen \ op[w].todo)
       /\ ~op[w].bad => \A n \in op[w].seen \ op[w].todo : serving[n] = op[w].ver
  /\ op[w].pc = "spread" /\ op[w].undoing =>
       (Validate(active) => Behind \subseteq stray \cup op[w].todo)
  /\ op[w].pc \in {"mark", "commit"} => \A n \in op[w].seen : serving[n] = op[w].ver

Claims(w) == RowClaim(w) /\ PrevClaim(w) /\ NodeClaim(w)

\* Addresses with a Node are published, and none of them is foreign.
ZoneInv == identified \subseteq zone /\ identified \cap Foreign = {}

CertInv ==
  /\ OneActive /\ active <= issued
  /\ ZoneInv
  /\ lock = NoWorker => Served
  /\ \A w \in Workers : Shape(w)
  /\ \A w \in Workers : op[w].pc \in Guarded => Claims(w)

\* What a step of the call of w behind the lock has to show.
Kept(w) ==
  /\ OneActive' /\ (active <= issued)'
  /\ Shape(w)'
  /\ op'[w].pc \in Guarded => Claims(w)'
  /\ op'[w].pc \notin Guarded => Served'

\* It is enough: the others are not behind the lock, and the zone stays.
LEMMA KeptEnough ==
  ASSUME TypeInv, CertInv, NEW w \in Workers, Turned(w), Kept(w),
         UNCHANGED <<zone, identified>>
  PROVE  CertInv'
<1>1. Only(w) /\ op[w].pc \in Guarded
  BY DEF Turned, Stays, Ends
<1>2. \A v \in Workers \ {w} : op'[v] = op[v] /\ op'[v].pc \notin Guarded
  BY <1>1, Alone DEF Only
<1>3. \A v \in Workers \ {w} : Shape(v)'
  BY <1>2 DEF CertInv, Shape
<1>4. lock' = NoWorker => op'[w].pc \notin Guarded
  BY <1>1, Alone, CertAssumption DEF Turned, Stays, Ends, Guarded
<1>5. ZoneInv'
  BY DEF CertInv, ZoneInv
<1>6. \A v \in Workers : Shape(v)'
  BY <1>3 DEF Kept
<1>7. \A v \in Workers : op'[v].pc \in Guarded => Claims(v)'
  BY <1>2 DEF Kept
<1> QED BY <1>4, <1>5, <1>6, <1>7 DEF Kept, CertInv

\* What the Nodes serve is the same, and so is the row.
LEMMA SameNodes ==
  ASSUME UNCHANGED <<active, expired, zone, identified, serving>>
  PROVE  /\ Behind' = Behind
         /\ Validate(active)' <=> Validate(active)
         /\ Served /\ stray \subseteq stray' => Served'
<1>1. Behind' = Behind
  BY DEF Behind, Managed
<1>2. Validate(active)' <=> Validate(active)
  BY DEF Validate
<1> QED BY <1>1, <1>2 DEF Served

\* The row is the same.
LEMMA SameRow ==
  ASSUME CertInv, UNCHANGED <<active, vstatus, issued>>
  PROVE  OneActive' /\ (active <= issued)'
  BY DEF CertInv, OneActive

\* A call that ends with the Nodes served.
LEMMA EndsKept ==
  ASSUME NEW w \in Workers, Ends(w), OneActive', (active <= issued)', Served'
  PROVE  Kept(w)
<1>1. op'[w].pc \notin Guarded
  BY DEF Ends, Guarded
<1>2. Shape(w)'
  BY <1>1 DEF Ends, Shape
<1> QED BY <1>1, <1>2 DEF Kept

\* A distribution fails: a compensation is given up with what it could not reach
\* excused, a bootstrap has no valid version to compensate for.
LEMMA DistributeFailsKept ==
  ASSUME TypeInv, CertInv, NEW w \in Workers, op[w].pc \in {"resolve", "review", "spread", "mark"},
         DistributeFails(w), UNCHANGED <<data, zone, identified, serving, clock>>
  PROVE  Kept(w)
<1>1. op[w].pc \in Guarded /\ Claims(w) /\ Shape(w) /\ op[w] \in Calls /\ op[w].kind # "none"
  BY Fields DEF Guarded, CertInv, Shape
<1>2. OneActive' /\ (active <= issued)'
  BY SameRow DEF data
<1>3. UNCHANGED <<active, expired, issued>> /\ Behind' = Behind /\ (Validate(active)' <=> Validate(active))
  BY SameNodes DEF data, clock
<1>4. CASE op[w].undoing
  <2>1. Stop(w, "settle") /\ stray' = stray \cup Behind
    BY <1>4 DEF DistributeFails
  <2>2. op'[w] = [op[w] EXCEPT !.pc = "settle", !.seen = {}, !.unknown = {}, !.bad = FALSE]
    BY <1>1, <1>4, <2>1, StopStays DEF DistributeFails, Guarded
  <2>3. /\ op'[w].pc = "settle" /\ op'[w].kind = op[w].kind /\ op'[w].ver = op[w].ver
        /\ op'[w].prev = op[w].prev /\ op'[w].undoing = op[w].undoing
    BY <1>1, <2>2 DEF Calls
  <2>4. Served'
    BY <1>3, <2>1 DEF Served
  <2>5. Shape(w)'
    BY <1>1, <1>4, <2>3 DEF Shape, Guarded
  <2>6. RowClaim(w)' /\ PrevClaim(w)' /\ NodeClaim(w)'
    BY <1>1, <1>3, <1>4, <2>3, <2>4 DEF Claims, RowClaim, PrevClaim, NodeClaim
  <2> QED BY <1>2, <2>3, <2>5, <2>6 DEF Kept, Claims, Guarded
<1>5. CASE ~op[w].undoing /\ op[w].kind = "bootstrap"
  <2>1. Ends(w)
    BY <1>1, <1>5, Fields, ReturnEnds DEF DistributeFails
  <2>2. ~Validate(active)
    BY <1>1, <1>5 DEF Claims, PrevClaim
  <2> QED BY <1>2, <1>3, <2>1, <2>2, EndsKept DEF Served
<1>6. CASE ~op[w].undoing /\ op[w].kind # "bootstrap"
  <2>1. Stop(w, "undo")
    BY <1>6 DEF DistributeFails
  <2>2. op'[w] = [op[w] EXCEPT !.pc = "undo", !.seen = {}, !.unknown = {}, !.bad = FALSE]
    BY <1>1, <1>6, <2>1, StopStays DEF DistributeFails, Guarded
  <2>3. /\ op'[w].pc = "undo" /\ op'[w].kind = op[w].kind /\ op'[w].ver = op[w].ver
        /\ op'[w].prev = op[w].prev /\ op'[w].undoing = op[w].undoing
    BY <1>1, <2>2 DEF Calls
  <2>5. Shape(w)'
    BY <1>1, <1>6, <2>3 DEF Shape, Guarded
  <2>6. RowClaim(w)' /\ PrevClaim(w)' /\ NodeClaim(w)'
    BY <1>1, <1>3, <1>6, <2>3 DEF Claims, RowClaim, PrevClaim, NodeClaim
  <2> QED BY <1>2, <2>3, <2>5, <2>6 DEF Kept, Claims, Guarded
<1> QED BY <1>4, <1>5, <1>6

\* The invariant at a call behind the lock.
LEMMA AtCall ==
  ASSUME TypeInv, CertInv, NEW w \in Workers, op[w].pc \in Guarded
  PROVE  /\ Shape(w) /\ RowClaim(w) /\ PrevClaim(w) /\ NodeClaim(w)
         /\ op[w] \in Calls /\ op[w].kind # "none" /\ op \in [Workers -> Calls]
  BY Fields DEF CertInv, Claims, Shape, TypeInv, CallsOK

\* The version loaded as the one to go back to is the active one.
LEMMA LoadActiveKept ==
  ASSUME TypeInv, CertInv, NEW w \in Workers, LoadActive(w)
  PROVE  Kept(w)
<1>1. op[w].pc = "load" /\ op[w].pc \in Guarded
  BY DEF LoadActive, Connected, At, Guarded
<1>2. OneActive' /\ (active <= issued)'
  BY SameRow DEF LoadActive
<1>3. /\ UNCHANGED <<active, expired, issued>>
      /\ (Validate(active)' <=> Validate(active)) /\ Served'
  <2>1. Served
    BY <1>1, AtCall DEF NodeClaim
  <2> QED BY <2>1, SameNodes DEF LoadActive, nodes, clock
<1>4. ASSUME NEW v \in 0..MaxVersion, Return(w, v) PROVE Kept(w)
  BY <1>1, <1>2, <1>3, <1>4, ReturnEnds, EndsKept
<1>5. ASSUME ActiveMissing(w), active = None \/ ~Validate(active) PROVE Kept(w)
  <2> DEFINE p == IF op[w].kind = "bootstrap" THEN "candidate" ELSE "issue"
  <2>1. op'[w] = [op[w] EXCEPT !.pc = p]
    BY <1>1, <1>5, GoStays DEF ActiveMissing, Guarded
  <2>2. op'[w].pc = p /\ op'[w].kind = op[w].kind /\ op'[w].prev = op[w].prev
        /\ op'[w].undoing = op[w].undoing
    BY <1>1, <2>1, AtCall DEF Calls
  <2>3. ~Validate(active)
    BY <1>5 DEF Validate
  <2>4. Shape(w)'
    BY <1>1, <2>2, AtCall DEF Shape, Guarded
  <2>5. RowClaim(w)' /\ PrevClaim(w)' /\ NodeClaim(w)'
    BY <1>1, <1>3, <2>2, <2>3, AtCall DEF RowClaim, PrevClaim, NodeClaim, Shape
  <2> QED BY <1>2, <2>2, <2>4, <2>5 DEF Kept, Claims, Guarded
<1>6. ASSUME ActiveFound(w), Validate(active) PROVE Kept(w)
  <2>1. active \in 0..MaxVersion /\ active # None
    BY <1>6 DEF TypeInv, DataOK, Validate
  <2>2. ASSUME op' = [op EXCEPT ![w].pc = "acknowledge"], UNCHANGED <<lock, free>>,
               op[w].kind = "bootstrap"
        PROVE  Kept(w)
    <3>1. op'[w].pc = "acknowledge" /\ op'[w].kind = op[w].kind /\ op'[w].prev = op[w].prev
          /\ op'[w].undoing = op[w].undoing
      BY <1>1, <2>2, AtCall DEF Calls
    <3>2. Shape(w)'
      BY <1>1, <2>2, <3>1, AtCall DEF Shape, Guarded
    <3>3. RowClaim(w)' /\ PrevClaim(w)' /\ NodeClaim(w)'
      BY <1>1, <1>3, <2>2, <3>1, AtCall DEF RowClaim, PrevClaim, NodeClaim, Shape
    <3> QED BY <1>2, <3>1, <3>2, <3>3 DEF Kept, Claims, Guarded
  <2>3. ASSUME op' = [op EXCEPT ![w].pc = "issue", ![w].prev = active], UNCHANGED <<lock, free>>,
               op[w].kind \in {"prepare", "renew"}
        PROVE  Kept(w)
    <3>1. op'[w].pc = "issue" /\ op'[w].kind = op[w].kind /\ op'[w].prev = active
          /\ op'[w].undoing = op[w].undoing
      BY <1>1, <2>3, AtCall DEF Calls
    <3>2. Shape(w)'
      BY <1>1, <2>3, <3>1, AtCall DEF Shape, Guarded
    <3>3. RowClaim(w)' /\ PrevClaim(w)' /\ NodeClaim(w)'
      BY <1>1, <1>3, <2>1, <2>3, <3>1, AtCall DEF RowClaim, PrevClaim, NodeClaim, Shape
    <3> QED BY <1>2, <3>1, <3>2, <3>3 DEF Kept, Claims, Guarded
  <2> QED BY <1>4, <1>6, <2>1, <2>2, <2>3 DEF ActiveFound
<1> QED BY <1>4, <1>5, <1>6, Fields DEF LoadActive

\* The version issued is newer than every version staged, the active one among them.
LEMMA IssueKept ==
  ASSUME TypeInv, CertInv, NEW w \in Workers, Issue(w)
  PROVE  Kept(w)
<1>1. op[w].pc = "issue" /\ op[w].pc \in Guarded
  BY DEF Issue, At, Guarded
<1>2. OneActive' /\ (active <= issued)'
  BY DEF Issue, CertInv, OneActive, TypeInv, DataOK
<1>3. /\ UNCHANGED <<active, expired>>
      /\ (Validate(active)' <=> Validate(active)) /\ Served'
  <2>1. Served
    BY <1>1, AtCall DEF NodeClaim
  <2> QED BY <2>1, SameNodes DEF Issue, nodes, clock
<1>4. issued + 1 \in Versions /\ issued + 1 # active
  BY CertAssumption DEF CertInv, TypeInv, DataOK, Versions, Issue
<1>5. op'[w].pc = "save" /\ op'[w].kind = op[w].kind /\ op'[w].prev = op[w].prev
      /\ op'[w].undoing = op[w].undoing /\ op'[w].ver = issued + 1
  BY <1>1, AtCall DEF Calls, Issue
<1>6. Shape(w)'
  BY <1>1, <1>5, AtCall DEF Shape, Guarded
<1>7. RowClaim(w)' /\ PrevClaim(w)' /\ NodeClaim(w)'
  BY <1>1, <1>3, <1>4, <1>5, AtCall DEF RowClaim, PrevClaim, NodeClaim, Shape
<1> QED BY <1>2, <1>5, <1>6, <1>7 DEF Kept, Claims, Guarded

\* Nothing was sent yet.
LEMMA IssueFailsKept ==
  ASSUME TypeInv, CertInv, NEW w \in Workers, IssueFails(w)
  PROVE  Kept(w)
<1>1. op[w].pc = "issue" /\ op[w].pc \in Guarded
  BY DEF IssueFails, At, Guarded
<1>2. OneActive' /\ (active <= issued)'
  BY SameRow DEF IssueFails, data
<1>3. Served'
  <2>1. Served
    BY <1>1, AtCall DEF NodeClaim
  <2> QED BY <2>1, SameNodes DEF IssueFails, data, nodes, clock
<1> QED BY <1>1, <1>2, <1>3, FallbackEnds, EndsKept DEF IssueFails

\* The status of a version that is not the active one.
LEMMA SetStatus ==
  ASSUME TypeInv, CertInv, NEW v \in Versions, v # active, NEW st, st # "ACTIVE",
         vstatus' \in {vstatus, [vstatus EXCEPT ![v] = st]}, UNCHANGED <<active, issued>>
  PROVE  OneActive' /\ (active <= issued)'
  BY DEF TypeInv, DataOK, CertInv, OneActive

\* The version that becomes PENDING is not the active one.
LEMMA SaveVersionKept ==
  ASSUME TypeInv, CertInv, NEW w \in Workers, SaveVersion(w)
  PROVE  Kept(w)
<1>1. op[w].pc = "save" /\ op[w].pc \in Guarded
  BY DEF SaveVersion, Connected, At, Guarded
<1>2. op[w].kind \in {"prepare", "renew"}
  BY <1>1, AtCall DEF Shape, Calls
<1>3. op[w].ver \in Versions /\ op[w].ver # active
  BY <1>1, <1>2, AtCall DEF RowClaim
<1>4. OneActive' /\ (active <= issued)'
  BY <1>3, SetStatus DEF SaveVersion
<1>5. /\ UNCHANGED <<active, expired, issued>>
      /\ (Validate(active)' <=> Validate(active)) /\ Served'
  <2>1. Served
    BY <1>1, AtCall DEF NodeClaim
  <2> QED BY <2>1, SameNodes DEF SaveVersion, nodes, clock
<1>6. CASE Fallback(w)
  BY <1>1, <1>4, <1>5, <1>6, FallbackEnds, EndsKept
<1>7. CASE Go(w, "resolve")
  <2>1. op'[w].pc = "resolve" /\ op'[w].kind = op[w].kind /\ op'[w].prev = op[w].prev
        /\ op'[w].undoing = op[w].undoing /\ op'[w].ver = op[w].ver
    BY <1>1, <1>7, AtCall DEF Go, Calls
  <2>2. Shape(w)'
    BY <1>1, <2>1, AtCall DEF Shape, Guarded
  <2>3. RowClaim(w)' /\ PrevClaim(w)' /\ NodeClaim(w)'
    BY <1>1, <1>2, <1>3, <1>5, <2>1, AtCall DEF RowClaim, PrevClaim, NodeClaim, Shape
  <2> QED BY <1>4, <2>1, <2>2, <2>3 DEF Kept, Claims, Guarded
<1> QED BY <1>6, <1>7 DEF SaveVersion

\* Bootstrap goes on only when no valid version is active.
LEMMA CandidateKept ==
  ASSUME TypeInv, CertInv, NEW w \in Workers, Candidate(w)
  PROVE  Kept(w)
<1>1. op[w].pc = "candidate" /\ op[w].pc \in Guarded
  BY DEF Candidate, Connected, At, Guarded
<1>2. OneActive' /\ (active <= issued)'
  BY SameRow DEF Candidate, data
<1>3. /\ UNCHANGED <<active, expired, issued>>
      /\ (Validate(active)' <=> Validate(active)) /\ Served'
  <2>1. Served
    BY <1>1, AtCall DEF NodeClaim
  <2> QED BY <2>1, SameNodes DEF Candidate, data, nodes, clock
<1>4. CASE Return(w, None)
  BY <1>1, <1>2, <1>3, <1>4, ReturnEnds, EndsKept, Fields
<1>5. ASSUME NEW v, op' = [op EXCEPT ![w].pc = "resolve", ![w].ver = v]
      PROVE  Kept(w)
  <2>1. op'[w].pc = "resolve" /\ op'[w].kind = op[w].kind /\ op'[w].prev = op[w].prev
        /\ op'[w].undoing = op[w].undoing
    BY <1>1, <1>5, AtCall DEF Calls
  <2>2. Shape(w)'
    BY <1>1, <2>1, AtCall DEF Shape, Guarded
  <2>3. RowClaim(w)' /\ PrevClaim(w)' /\ NodeClaim(w)'
    BY <1>1, <1>3, <2>1, AtCall DEF RowClaim, PrevClaim, NodeClaim, Shape
  <2> QED BY <1>2, <2>1, <2>2, <2>3 DEF Kept, Claims, Guarded
<1> QED BY <1>4, <1>5 DEF Candidate

\* Acknowledging changes no Node.
LEMMA AcknowledgeKept ==
  ASSUME TypeInv, CertInv, NEW w \in Workers, Acknowledge(w)
  PROVE  Kept(w)
<1>1. op[w].pc = "acknowledge" /\ op[w].pc \in Guarded
  BY DEF Acknowledge, Connected, At, Guarded
<1>2. OneActive' /\ (active <= issued)'
  BY SameRow DEF Acknowledge, data
<1>3. Served'
  <2>1. Served
    BY <1>1, AtCall DEF NodeClaim
  <2> QED BY <2>1, SameNodes DEF Acknowledge, data, clock
<1> QED BY <1>1, <1>2, <1>3, ReturnEnds, EndsKept, Fields DEF Acknowledge

\* Rollback would come back to the active version.
LEMMA ChooseVersionKept ==
  ASSUME TypeInv, CertInv, NEW w \in Workers, ChooseVersion(w)
  PROVE  Kept(w)
<1>1. op[w].pc = "list" /\ op[w].pc \in Guarded
  BY DEF ChooseVersion, Connected, At, Guarded
<1>2. OneActive' /\ (active <= issued)'
  BY SameRow DEF ChooseVersion, data
<1>3. /\ UNCHANGED <<active, expired, issued>>
      /\ (Validate(active)' <=> Validate(active)) /\ Served'
  <2>1. Served
    BY <1>1, AtCall DEF NodeClaim
  <2> QED BY <2>1, SameNodes DEF ChooseVersion, data, nodes, clock
<1>4. CASE Return(w, None)
  BY <1>1, <1>2, <1>3, <1>4, ReturnEnds, EndsKept, Fields
<1>5. ASSUME NEW v, NEW q \in {active, None},
             op' = [op EXCEPT ![w].pc = "resolve", ![w].ver = v, ![w].prev = q]
      PROVE  Kept(w)
  <2>1. op'[w].pc = "resolve" /\ op'[w].kind = op[w].kind /\ op'[w].prev = q
        /\ op'[w].undoing = op[w].undoing
    BY <1>1, <1>5, AtCall DEF Calls
  <2>2. Shape(w)'
    BY <1>1, <2>1, AtCall DEF Shape, Guarded
  <2>3. RowClaim(w)' /\ PrevClaim(w)' /\ NodeClaim(w)'
    BY <1>1, <1>3, <2>1, AtCall DEF RowClaim, PrevClaim, NodeClaim, Shape
  <2> QED BY <1>2, <2>1, <2>2, <2>3 DEF Kept, Claims, Guarded
<1> QED BY <1>4, <1>5 DEF ChooseVersion

\* The targets are the managed Nodes; a compensation has all of them to reach again.
LEMMA ResolveKept ==
  ASSUME TypeInv, CertInv, NEW w \in Workers, Resolve(w)
  PROVE  Kept(w)
<1>1. op[w].pc = "resolve" /\ op[w].pc \in Guarded
  BY DEF Resolve, Connected, At, Guarded
<1>2. CASE DistributeFails(w)
  BY <1>1, <1>2, DistributeFailsKept DEF Resolve
<1>3. CASE ~DistributeFails(w)
  <2> DEFINE p == IF Unmanaged = {} THEN "spread" ELSE "review"
  <2>1. /\ op' = [op EXCEPT ![w].pc = p, ![w].seen = Managed, ![w].todo = Managed,
                            ![w].unknown = Unmanaged]
        /\ stray' = stray
    BY <1>3 DEF Resolve
  <2>2. p \in {"spread", "review"}
    OBVIOUS
  <2> HIDE DEF p
  <2>3. /\ op'[w].pc = p /\ op'[w].kind = op[w].kind /\ op'[w].prev = op[w].prev
        /\ op'[w].undoing = op[w].undoing /\ op'[w].ver = op[w].ver
        /\ op'[w].seen = Managed /\ op'[w].todo = Managed
    BY <1>1, <2>1, AtCall DEF Calls
  <2>4. OneActive' /\ (active <= issued)'
    BY SameRow DEF Resolve, data
  <2>5. /\ UNCHANGED <<active, expired, issued, identified>> /\ Behind' = Behind
        /\ (Validate(active)' <=> Validate(active)) /\ (Served => Served')
    BY <2>1, SameNodes DEF Resolve, data, clock
  <2>6. Behind \subseteq Managed /\ Managed \subseteq identified
    BY DEF Behind, Managed
  <2>7. Shape(w)'
    BY <1>1, <2>2, <2>3, AtCall DEF Shape, Guarded
  <2>8. RowClaim(w)' /\ PrevClaim(w)'
    BY <1>1, <2>2, <2>3, <2>5, AtCall DEF RowClaim, PrevClaim
  <2>9. NodeClaim(w)'
    BY <1>1, <2>1, <2>2, <2>3, <2>5, <2>6, AtCall DEF NodeClaim, Served
  <2> QED BY <2>2, <2>3, <2>4, <2>7, <2>8, <2>9 DEF Kept, Claims, Guarded
<1> QED BY <1>2, <1>3

\* Only a bootstrap goes on to the Nodes from here, with all of them to do.
LEMMA ReviewKept ==
  ASSUME TypeInv, CertInv, NEW w \in Workers, Review(w)
  PROVE  Kept(w)
<1>1. op[w].pc = "review" /\ op[w].pc \in Guarded
  BY DEF Review, Connected, At, Guarded
<1>2. CASE DistributeFails(w)
  BY <1>1, <1>2, DistributeFailsKept DEF Review
<1>3. CASE ~DistributeFails(w)
  <2>1. /\ op' = [op EXCEPT ![w].pc = "spread", ![w].unknown = {}]
        /\ stray' = stray /\ op[w].kind = "bootstrap" /\ ~op[w].undoing
    BY <1>3 DEF Review
  <2>2. /\ op'[w].pc = "spread" /\ op'[w].kind = op[w].kind /\ op'[w].prev = op[w].prev
        /\ op'[w].undoing = op[w].undoing /\ op'[w].ver = op[w].ver
        /\ op'[w].seen = op[w].seen /\ op'[w].todo = op[w].todo
    BY <1>1, <2>1, AtCall DEF Calls
  <2>3. OneActive' /\ (active <= issued)'
    BY SameRow DEF Review, data
  <2>4. /\ UNCHANGED <<active, expired, issued, identified>> /\ Behind' = Behind
        /\ (Validate(active)' <=> Validate(active))
    BY SameNodes DEF Review, data, clock
  <2>5. Shape(w)'
    BY <1>1, <2>1, <2>2, AtCall DEF Shape, Guarded
  <2>6. RowClaim(w)' /\ PrevClaim(w)'
    BY <1>1, <2>1, <2>2, <2>4, AtCall DEF RowClaim, PrevClaim
  <2>7. NodeClaim(w)'
    BY <1>1, <2>1, <2>2, <2>4, AtCall DEF NodeClaim, Served
  <2> QED BY <2>2, <2>3, <2>5, <2>6, <2>7 DEF Kept, Claims, Guarded
<1> QED BY <1>2, <1>3

\* The Node serves what was sent: the new version, or the active one again.
LEMMA UpdateNodeKept ==
  ASSUME TypeInv, CertInv, NEW w \in Workers, NEW n \in Targets, UpdateNode(w, n)
  PROVE  Kept(w)
<1>1. op[w].pc = "spread" /\ op[w].pc \in Guarded /\ n \in op[w].todo /\ n \in op[w].seen
  BY AtCall DEF UpdateNode, At, Guarded, NodeClaim
<1>2. /\ op'[w].pc = "spread" /\ op'[w].kind = op[w].kind /\ op'[w].prev = op[w].prev
      /\ op'[w].undoing = op[w].undoing /\ op'[w].ver = op[w].ver /\ op'[w].bad = op[w].bad
      /\ op'[w].seen = op[w].seen /\ op'[w].todo = op[w].todo \ {n}
  <2>1. op'[w] = [op[w] EXCEPT !.todo = op[w].todo \ {n}] /\ op[w] \in Calls
    BY UpdateNodeTypes, Fields
  <2> QED BY <1>1, <2>1 DEF Calls
<1>3. OneActive' /\ (active <= issued)'
  BY SameRow DEF UpdateNode, data
<1>4. /\ UNCHANGED <<active, expired, issued, zone, identified>>
      /\ (Validate(active)' <=> Validate(active))
  BY DEF UpdateNode, data, clock, Validate
<1>5. Shape(w)'
  BY <1>1, <1>2, AtCall DEF Shape, Guarded
<1>6. RowClaim(w)' /\ PrevClaim(w)'
  BY <1>1, <1>2, <1>4, AtCall DEF RowClaim, PrevClaim
<1>7. /\ serving'[n] = Sent(w) /\ stray' = stray \ {n}
      /\ \A m \in Targets \ {n} : serving'[m] = serving[m]
  BY DEF UpdateNode, TypeInv, NodesOK
<1>8. Behind' \subseteq Behind \cup {n} /\ (Sent(w) = active => n \notin Behind')
  BY <1>4, <1>7 DEF Behind, Managed, TypeInv, NodesOK
<1>9. NodeClaim(w)'
  <2>1. CASE op[w].undoing
    <3>1. Sent(w) = active
      BY <1>1, <2>1, AtCall DEF Sent, PrevClaim
    <3> QED BY <1>1, <1>2, <1>4, <1>7, <1>8, <2>1, <3>1, AtCall DEF NodeClaim
  <2>2. CASE ~op[w].undoing
    <3>1. Sent(w) = op[w].ver
      BY <2>2 DEF Sent
    <3>2. op'[w].seen \ op'[w].todo = (op[w].seen \ op[w].todo) \cup {n}
      BY <1>1, <1>2
    <3>3. op[w].seen \subseteq Targets
      BY Fields
    <3>4. Validate(active)' => Behind' \subseteq stray' \cup (op'[w].seen \ op'[w].todo)
      BY <1>1, <1>4, <1>7, <1>8, <2>2, <3>2, AtCall DEF NodeClaim
    <3>5. ~op'[w].bad => \A m \in op'[w].seen \ op'[w].todo : serving'[m] = op'[w].ver
      BY <1>1, <1>2, <1>7, <2>2, <3>1, <3>2, <3>3, AtCall DEF NodeClaim
    <3> QED BY <1>1, <1>2, <1>4, <2>2, <3>4, <3>5, AtCall DEF NodeClaim
  <2> QED BY <2>1, <2>2
<1> QED BY <1>2, <1>3, <1>5, <1>6, <1>9 DEF Kept, Claims, Guarded

\* The Node may serve either version: the distribution will fail, a failed
\* compensation excuses the Node.
LEMMA UpdateFailsKept ==
  ASSUME TypeInv, CertInv, NEW w \in Workers, NEW n \in Targets, UpdateFails(w, n)
  PROVE  Kept(w)
<1>1. op[w].pc = "spread" /\ op[w].pc \in Guarded /\ n \in op[w].todo /\ n \in op[w].seen
  BY AtCall DEF UpdateFails, At, Guarded, NodeClaim
<1>2. /\ op'[w].pc = "spread" /\ op'[w].kind = op[w].kind /\ op'[w].prev = op[w].prev
      /\ op'[w].undoing = op[w].undoing /\ op'[w].ver = op[w].ver /\ op'[w].bad
      /\ op'[w].seen = op[w].seen /\ op'[w].todo = op[w].todo \ {n}
  <2>1. op'[w] = [op[w] EXCEPT !.todo = op[w].todo \ {n}, !.bad = TRUE] /\ op[w] \in Calls
    BY UpdateFailsTypes, Fields
  <2> QED BY <1>1, <2>1 DEF Calls
<1>3. OneActive' /\ (active <= issued)'
  BY SameRow DEF UpdateFails, data
<1>4. /\ UNCHANGED <<active, expired, issued, zone, identified>>
      /\ (Validate(active)' <=> Validate(active))
  BY DEF UpdateFails, data, clock, Validate
<1>5. Shape(w)'
  BY <1>1, <1>2, AtCall DEF Shape, Guarded
<1>6. RowClaim(w)' /\ PrevClaim(w)'
  BY <1>1, <1>2, <1>4, AtCall DEF RowClaim, PrevClaim
<1>7. /\ stray' = IF op[w].undoing /\ serving'[n] # active THEN stray \cup {n} ELSE stray
      /\ \A m \in Targets \ {n} : serving'[m] = serving[m]
  BY DEF UpdateFails, TypeInv, NodesOK
<1>8. Behind' \subseteq Behind \cup {n} /\ (serving'[n] = active => n \notin Behind')
  BY <1>4, <1>7 DEF Behind, Managed, TypeInv, NodesOK
<1>9. NodeClaim(w)'
  <2>1. CASE op[w].undoing
    BY <1>1, <1>2, <1>4, <1>7, <1>8, <2>1, AtCall DEF NodeClaim
  <2>2. CASE ~op[w].undoing
    <3>2. op'[w].seen \ op'[w].todo = (op[w].seen \ op[w].todo) \cup {n}
      BY <1>1, <1>2
    <3>4. Validate(active)' => Behind' \subseteq stray' \cup (op'[w].seen \ op'[w].todo)
      BY <1>1, <1>4, <1>7, <1>8, <2>2, <3>2, AtCall DEF NodeClaim
    <3> QED BY <1>1, <1>2, <1>4, <2>2, <3>4, AtCall DEF NodeClaim
  <2> QED BY <2>1, <2>2
<1> QED BY <1>2, <1>3, <1>5, <1>6, <1>9 DEF Kept, Claims, Guarded

\* Every Node that was resolved serves the version sent.
LEMMA RecordDistributionKept ==
  ASSUME TypeInv, CertInv, NEW w \in Workers, RecordDistribution(w)
  PROVE  Kept(w)
<1>1. op[w].pc = "spread" /\ op[w].pc \in Guarded /\ op[w].todo = {}
  BY DEF RecordDistribution, Connected, At, Guarded
<1>2. CASE DistributeFails(w)
  BY <1>1, <1>2, DistributeFailsKept DEF RecordDistribution
<1>3. CASE ~DistributeFails(w)
  <2>1. OneActive' /\ (active <= issued)'
    BY SameRow DEF RecordDistribution, data
  <2>2. /\ ~op[w].bad /\ UNCHANGED <<stray, lock, free>>
        /\ IF op[w].undoing THEN Stop(w, "settle") ELSE Go(w, "mark")
    BY <1>3 DEF RecordDistribution
  <2>3. /\ UNCHANGED <<active, expired, issued, identified, serving>> /\ Behind' = Behind
        /\ (Validate(active)' <=> Validate(active))
    BY SameNodes DEF RecordDistribution, data, clock
  <2>4. CASE op[w].undoing
    <3>1. op'[w] = [op[w] EXCEPT !.pc = "settle", !.seen = {}, !.unknown = {}, !.bad = FALSE]
      BY <1>1, <2>2, <2>4, StopStays DEF Guarded
    <3>2. /\ op'[w].pc = "settle" /\ op'[w].kind = op[w].kind /\ op'[w].ver = op[w].ver
          /\ op'[w].prev = op[w].prev /\ op'[w].undoing = op[w].undoing
      BY <1>1, <3>1, AtCall DEF Calls
    <3>3. Served'
      BY <1>1, <2>2, <2>3, <2>4, AtCall DEF NodeClaim, Served
    <3>4. Shape(w)'
      BY <1>1, <2>4, <3>2, AtCall DEF Shape, Guarded
    <3>5. RowClaim(w)' /\ PrevClaim(w)' /\ NodeClaim(w)'
      BY <1>1, <2>3, <2>4, <3>2, <3>3, AtCall DEF RowClaim, PrevClaim, NodeClaim
    <3> QED BY <2>1, <3>2, <3>4, <3>5 DEF Kept, Claims, Guarded
  <2>5. CASE ~op[w].undoing
    <3>1. op'[w] = [op[w] EXCEPT !.pc = "mark"]
      BY <1>1, <2>2, <2>5, GoStays DEF Guarded
    <3>2. /\ op'[w].pc = "mark" /\ op'[w].kind = op[w].kind /\ op'[w].ver = op[w].ver
          /\ op'[w].prev = op[w].prev /\ op'[w].undoing = op[w].undoing
          /\ op'[w].seen = op[w].seen
      BY <1>1, <3>1, AtCall DEF Calls
    <3>3. Shape(w)'
      BY <1>1, <2>5, <3>2, AtCall DEF Shape, Guarded
    <3>4. RowClaim(w)' /\ PrevClaim(w)' /\ NodeClaim(w)'
      BY <1>1, <2>2, <2>3, <2>5, <3>2, AtCall DEF RowClaim, PrevClaim, NodeClaim
    <3> QED BY <2>1, <3>2, <3>3, <3>4 DEF Kept, Claims, Guarded
  <2> QED BY <2>4, <2>5
<1> QED BY <1>2, <1>3

\* The marker is written only for a staged version.
LEMMA ActivateKept ==
  ASSUME TypeInv, CertInv, NEW w \in Workers, Activate(w)
  PROVE  Kept(w)
<1>1. op[w].pc = "mark" /\ op[w].pc \in Guarded
  BY DEF Activate, At, Guarded
<1>2. PICK b \in 0..MaxVersion : op'[w] = [op[w] EXCEPT !.pc = "commit", !.back = b]
  BY ActivateTypes
<1>3. /\ op'[w].pc = "commit" /\ op'[w].kind = op[w].kind /\ op'[w].ver = op[w].ver
      /\ op'[w].prev = op[w].prev /\ op'[w].undoing = op[w].undoing
      /\ op'[w].seen = op[w].seen
  BY <1>1, <1>2, AtCall DEF Calls
<1>4. OneActive' /\ (active <= issued)'
  BY SameRow DEF Activate
<1>5. /\ UNCHANGED <<active, expired, issued, identified, serving>>
      /\ (Validate(active)' <=> Validate(active))
  BY SameNodes DEF Activate, nodes, clock
<1>6. op[w].ver \in 1..issued
  BY DEF Activate, CanActivate, Staged, TypeInv, DataOK
<1>7. Shape(w)'
  BY <1>1, <1>3, AtCall DEF Shape, Guarded
<1>8. RowClaim(w)' /\ PrevClaim(w)' /\ NodeClaim(w)'
  BY <1>1, <1>3, <1>5, <1>6, AtCall DEF RowClaim, PrevClaim, NodeClaim
<1> QED BY <1>3, <1>4, <1>7, <1>8 DEF Kept, Claims, Guarded

\* The marker cannot be replaced: the distribution has failed.
LEMMA ActivateFailsKept ==
  ASSUME TypeInv, CertInv, NEW w \in Workers, ActivateFails(w)
  PROVE  Kept(w)
<1>1. op[w].pc = "mark"
  BY DEF ActivateFails, At
<1> QED BY <1>1, DistributeFailsKept DEF ActivateFails

\* The transaction names one version, in the row and in the statuses.
LEMMA ActivateVersionKept ==
  ASSUME TypeInv, CertInv, NEW w \in Workers, ActivateVersion(w)
  PROVE  Kept(w)
<1>1. op[w].pc = "commit" /\ op[w].pc \in Guarded
  BY DEF ActivateVersion, Connected, At, Guarded
<1>2. op[w].ver \in 1..issued /\ op[w].ver \in Versions
  BY <1>1, AtCall, CertAssumption DEF RowClaim, TypeInv, DataOK, Versions
<1>3. OneActive'
  <2>1. active' = op[w].ver
    BY DEF ActivateVersion, Activated
  <2>2. ASSUME NEW v \in Versions PROVE vstatus'[v] = "ACTIVE" <=> v = op[w].ver
    BY DEF ActivateVersion, Activated
  <2> QED BY <2>1, <2>2 DEF OneActive
<1>4. (active <= issued)'
  BY <1>2 DEF ActivateVersion, Activated, TypeInv, DataOK
<1>5. Served'
  <2>1. /\ active' = op[w].ver /\ UNCHANGED <<zone, identified, serving>>
        /\ stray' = stray \cup {n \in Managed \ op[w].seen : serving[n] # op[w].ver}
    BY DEF ActivateVersion, Activated
  <2>2. \A n \in op[w].seen : serving[n] = op[w].ver
    BY <1>1, AtCall DEF NodeClaim
  <2>3. Behind' = {n \in Managed : serving[n] # op[w].ver}
    BY <2>1 DEF Behind, Managed
  <2> QED BY <2>1, <2>2, <2>3 DEF Served
<1> QED BY <1>3, <1>4, <1>5, ActivateVersionTypes, EndsKept

\* Without LostActivation the row is what it was.
LEMMA ActivateVersionFailsKept ==
  ASSUME TypeInv, CertInv, ~LostActivation, NEW w \in Workers, ActivateVersionFails(w)
  PROVE  Kept(w)
<1>1. op[w].pc = "commit" /\ op[w].pc \in Guarded
  BY DEF ActivateVersionFails, Connected, At, Guarded
<1>2. UNCHANGED <<active, vstatus, issued, expired>> /\ (Validate(active)' <=> Validate(active))
  BY DEF ActivateVersionFails, clock, Validate
<1>3. OneActive' /\ (active <= issued)'
  BY <1>2, SameRow
<1>4. /\ op'[w].pc = "unmark" /\ op'[w].kind = op[w].kind /\ op'[w].ver = op[w].ver
      /\ op'[w].prev = op[w].prev /\ op'[w].undoing = op[w].undoing
  BY <1>1, AtCall DEF Calls, ActivateVersionFails, Go
<1>5. Shape(w)'
  BY <1>1, <1>4, AtCall DEF Shape, Guarded
<1>6. RowClaim(w)' /\ PrevClaim(w)' /\ NodeClaim(w)'
  BY <1>1, <1>2, <1>4, AtCall DEF RowClaim, PrevClaim, NodeClaim
<1> QED BY <1>3, <1>4, <1>5, <1>6 DEF Kept, Claims, Guarded

\* The compensation is still to come, but for a bootstrap.
LEMMA RestoreMarkerKept ==
  ASSUME TypeInv, CertInv, NEW w \in Workers, RestoreMarker(w)
  PROVE  Kept(w)
<1>1. op[w].pc = "unmark" /\ op[w].pc \in Guarded
  BY DEF RestoreMarker, At, Guarded
<1>2. OneActive' /\ (active <= issued)'
  BY SameRow DEF RestoreMarker
<1>3. UNCHANGED <<active, expired, issued>> /\ (Validate(active)' <=> Validate(active))
  BY DEF RestoreMarker, clock, Validate
<1>4. CASE op[w].kind = "bootstrap"
  <2>1. Ends(w)
    BY <1>1, <1>4, ReturnEnds, Fields DEF RestoreMarker
  <2>2. Served'
    BY <1>1, <1>3, <1>4, AtCall DEF PrevClaim, Served
  <2> QED BY <1>2, <2>1, <2>2, EndsKept
<1>5. CASE op[w].kind # "bootstrap"
  <2>1. op' = [op EXCEPT ![w].pc = "undo", ![w].seen = {}, ![w].back = None]
    BY <1>5 DEF RestoreMarker
  <2>2. /\ op'[w].pc = "undo" /\ op'[w].kind = op[w].kind /\ op'[w].ver = op[w].ver
        /\ op'[w].prev = op[w].prev /\ op'[w].undoing = op[w].undoing
    BY <1>1, <2>1, AtCall DEF Calls
  <2>3. Shape(w)'
    BY <1>1, <1>5, <2>2, AtCall DEF Shape, Guarded
  <2>4. RowClaim(w)' /\ PrevClaim(w)' /\ NodeClaim(w)'
    BY <1>1, <1>3, <2>2, AtCall DEF RowClaim, PrevClaim, NodeClaim
  <2> QED BY <1>2, <2>2, <2>3, <2>4 DEF Kept, Claims, Guarded
<1> QED BY <1>4, <1>5

\* The version to go back to is sent again, or there is none that is valid.
LEMMA RestoreDistributedKept ==
  ASSUME TypeInv, CertInv, NEW w \in Workers, RestoreDistributed(w)
  PROVE  Kept(w)
<1>1. op[w].pc = "undo" /\ op[w].pc \in Guarded
  BY DEF RestoreDistributed, At, Guarded
<1>2. OneActive' /\ (active <= issued)'
  BY SameRow DEF RestoreDistributed, data
<1>3. /\ UNCHANGED <<active, expired, issued>> /\ Behind' = Behind
      /\ (Validate(active)' <=> Validate(active))
  BY SameNodes DEF RestoreDistributed, data, clock
<1>4. CASE Validate(op[w].prev)
  <2>1. op' = [op EXCEPT ![w].pc = "resolve", ![w].undoing = TRUE]
    BY <1>4 DEF RestoreDistributed
  <2>2. /\ op'[w].pc = "resolve" /\ op'[w].kind = op[w].kind /\ op'[w].ver = op[w].ver
        /\ op'[w].prev = op[w].prev /\ op'[w].undoing
    BY <1>1, <2>1, AtCall DEF Calls
  <2>3. op[w].prev = active
    BY <1>1, <1>4, AtCall DEF PrevClaim, Validate
  <2>4. Shape(w)'
    BY <1>1, <2>2, AtCall DEF Shape, Guarded
  <2>5. op[w].kind # "bootstrap"
    BY <1>1, AtCall DEF Shape
  <2>6. RowClaim(w)' /\ PrevClaim(w)' /\ NodeClaim(w)'
    BY <1>1, <1>3, <2>2, <2>3, <2>5, AtCall DEF RowClaim, PrevClaim, NodeClaim
  <2> QED BY <1>2, <2>2, <2>4, <2>6 DEF Kept, Claims, Guarded
<1>5. CASE ~Validate(op[w].prev)
  <2>1. /\ Go(w, "settle")
        /\ stray' = IF op[w].kind = "rollback" THEN stray \cup Behind ELSE stray
    BY <1>5 DEF RestoreDistributed
  <2>2. /\ op'[w].pc = "settle" /\ op'[w].kind = op[w].kind /\ op'[w].ver = op[w].ver
        /\ op'[w].prev = op[w].prev /\ op'[w].undoing = op[w].undoing
    BY <1>1, <2>1, AtCall DEF Calls, Go
  <2>3. Served'
    <3>1. CASE op[w].kind = "rollback"
      BY <1>3, <2>1, <3>1 DEF Served
    <3>2. CASE op[w].kind # "rollback"
      <4>1. op[w].kind \in {"prepare", "renew"}
        BY <1>1, <3>2, AtCall DEF Shape, Calls
      <4>2. ~Validate(active)
        BY <1>1, <1>5, <4>1, AtCall DEF PrevClaim
      <4> QED BY <1>3, <4>2 DEF Served
    <3> QED BY <3>1, <3>2
  <2>4. Shape(w)'
    BY <1>1, <2>2, AtCall DEF Shape, Guarded
  <2>5. RowClaim(w)' /\ PrevClaim(w)' /\ NodeClaim(w)'
    BY <1>1, <1>3, <2>2, <2>3, AtCall DEF RowClaim, PrevClaim, NodeClaim
  <2> QED BY <1>2, <2>2, <2>4, <2>5 DEF Kept, Claims, Guarded
<1> QED BY <1>4, <1>5

\* The version that becomes DISTRIBUTION_FAILED is not the active one.
LEMMA SettleKept ==
  ASSUME TypeInv, CertInv, NEW w \in Workers, Settle(w)
  PROVE  Kept(w)
<1>1. op[w].pc = "settle" /\ op[w].pc \in Guarded
  BY DEF Settle, Connected, At, Guarded
<1>2. OneActive' /\ (active <= issued)'
  <2>1. CASE op[w].kind = "rollback"
    BY <2>1, SameRow DEF Settle
  <2>2. CASE op[w].kind # "rollback"
    <3>1. op[w].kind \in {"prepare", "renew"}
      BY <1>1, <2>2, AtCall DEF Shape, Calls
    <3>2. op[w].ver \in Versions /\ op[w].ver # active
      BY <1>1, <3>1, AtCall DEF RowClaim
    <3> QED BY <2>2, <3>2, SetStatus DEF Settle
  <2> QED BY <2>1, <2>2
<1>3. Served'
  <2>1. Served
    BY <1>1, AtCall DEF NodeClaim
  <2> QED BY <2>1, SameNodes DEF Settle, nodes, clock
<1> QED BY <1>2, <1>3, SettleTypes, EndsKept

\* Every step behind the lock.
LEMMA InsideKept ==
  ASSUME TypeInv, CertInv, ~LostActivation, NEW w \in Workers, Inside(w)
  PROVE  CertInv'
<1>1. Kept(w)
  BY LoadActiveKept, IssueKept, IssueFailsKept, SaveVersionKept, CandidateKept, AcknowledgeKept,
     ChooseVersionKept, ResolveKept, ReviewKept, UpdateNodeKept, UpdateFailsKept,
     RecordDistributionKept, ActivateKept, ActivateFailsKept, ActivateVersionKept,
     ActivateVersionFailsKept, RestoreMarkerKept, RestoreDistributedKept, SettleKept
  DEF Inside
<1>2. UNCHANGED <<zone, identified>>
  BY DEF Inside, nodes, LoadActive, Issue, IssueFails, SaveVersion, Candidate, ChooseVersion,
     Acknowledge, Resolve, Review, UpdateNode, UpdateFails, RecordDistribution, Activate,
     ActivateFails, ActivateVersion, ActivateVersionFails, RestoreMarker, RestoreDistributed, Settle
<1> QED BY <1>1, <1>2, InsideTypes, KeptEnough

-----------------------------------------------------------------------------
(* The row and the Nodes: the steps outside the lock. *)

\* A call outside the lock moves, nothing else does.
LEMMA OutsideKept ==
  ASSUME TypeInv, CertInv, NEW w \in Workers, Only(w), op[w].pc \notin Guarded,
         op'[w].pc \notin Guarded, Shape(w)', lock' = lock, UNCHANGED <<data, nodes, clock>>
  PROVE  CertInv'
<1>1. UNCHANGED <<active, vstatus, issued, expired, zone, identified, review, serving, stray>>
  BY DEF data, nodes, clock
<1>2. OneActive' /\ (active <= issued)' /\ ZoneInv'
  BY <1>1, SameRow DEF CertInv, ZoneInv
<1>3. Behind' = Behind /\ (Validate(active)' <=> Validate(active)) /\ (Served => Served')
  BY <1>1, SameNodes
<1>4. \A v \in Workers : Shape(v)'
  BY DEF Only, CertInv, Shape
<1>5. ASSUME NEW v \in Workers, op'[v].pc \in Guarded PROVE Claims(v)'
  <2>1. op'[v] = op[v] /\ Claims(v)
    BY <1>5 DEF Only, CertInv
  <2>2. RowClaim(v)' /\ PrevClaim(v)'
    BY <1>1, <1>3, <2>1 DEF Claims, RowClaim, PrevClaim
  <2>3. NodeClaim(v)'
    BY <1>1, <1>3, <2>1 DEF Claims, NodeClaim
  <2> QED BY <2>2, <2>3 DEF Claims
<1> QED BY <1>2, <1>3, <1>4, <1>5 DEF CertInv

\* A new call has nothing to go back to yet.
LEMMA RequestKept ==
  ASSUME TypeInv, CertInv, NEW w \in Workers, NEW kind \in Kinds[w], Request(w, kind)
  PROVE  CertInv'
<1>1. kind \in {"prepare", "renew", "bootstrap", "rollback"}
  BY CertAssumption
<1>2. op'[w].pc = "connect" /\ op'[w].kind = kind /\ op'[w].prev = None /\ ~op'[w].undoing
  <2>1. op'[w] = [Idle EXCEPT !.kind = kind, !.pc = "connect"]
    BY RequestTypes
  <2> QED BY <2>1 DEF Idle
<1>3. Shape(w)'
  BY <1>1, <1>2 DEF Shape, Guarded
<1> QED BY <1>2, <1>3, RequestTypes, OutsideKept DEF Request, At, Guarded

\* Taking a connection.
LEMMA AcquireKept ==
  ASSUME TypeInv, CertInv, NEW w \in Workers, Acquire(w)
  PROVE  CertInv'
<1>1. op[w].pc = "connect" /\ Shape(w)
  BY DEF Acquire, Connected, At, CertInv
<1>2. op'[w].pc = "lock" /\ op'[w].kind = op[w].kind /\ op'[w].prev = op[w].prev
      /\ op'[w].undoing = op[w].undoing
  BY AcquireTypes, Fields DEF Calls
<1>3. Shape(w)'
  BY <1>1, <1>2 DEF Shape, Guarded
<1> QED BY <1>1, <1>2, <1>3, AcquireTypes, OutsideKept DEF Acquire, Guarded

\* Giving it back without the lock.
LEMMA LockFailsKept ==
  ASSUME TypeInv, CertInv, NEW w \in Workers, LockFails(w)
  PROVE  CertInv'
<1>1. op'[w].pc = "idle" /\ op'[w].kind = "none" /\ ~op'[w].undoing
  BY LockFailsTypes DEF Idle
<1>2. Shape(w)'
  BY <1>1 DEF Shape, Guarded
<1> QED BY <1>1, <1>2, LockFailsTypes, OutsideKept DEF LockFails, At, Guarded

\* The call that takes the lock finds the Nodes served.
LEMMA LockKept ==
  ASSUME TypeInv, CertInv, NEW w \in Workers, Lock(w)
  PROVE  CertInv'
<1> DEFINE p == IF op[w].kind = "rollback" THEN "list" ELSE "load"
<1>1. op[w].pc = "lock" /\ Shape(w) /\ Served
  BY DEF Lock, At, CertInv
<1>2. op'[w].pc = p /\ op'[w].kind = op[w].kind /\ op'[w].prev = op[w].prev
      /\ op'[w].undoing = op[w].undoing
  BY LockTypes, Fields DEF Calls
<1>3. UNCHANGED <<active, vstatus, issued, expired, zone, identified, serving, stray>>
  BY DEF Lock, data, nodes, clock
<1>4. OneActive' /\ (active <= issued)' /\ ZoneInv'
  BY <1>3, SameRow DEF CertInv, ZoneInv
<1>5. Served' /\ (Validate(active)' <=> Validate(active))
  BY <1>1, <1>3, SameNodes
<1>6. \A v \in Workers \ {w} : op'[v] = op[v] /\ op[v].pc \notin Guarded
  BY LockTypes, CertAssumption DEF Only, Lock, TypeInv, PoolOK
<1>7. Shape(w)'
  BY <1>1, <1>2 DEF Shape, Guarded
<1>8. \A v \in Workers : Shape(v)'
  BY <1>6, <1>7 DEF CertInv, Shape
<1>9. Claims(w)'
  BY <1>1, <1>2, <1>3, <1>5 DEF Claims, RowClaim, PrevClaim, NodeClaim, Shape
<1>10. \A v \in Workers : op'[v].pc \in Guarded => Claims(v)'
  BY <1>6, <1>9
<1> QED BY <1>4, <1>5, <1>8, <1>10 DEF CertInv

\* A new Node does not disturb a call: it was in nobody's targets, and is excused
\* when it serves another version than the active one.
LEMMA InstallKept ==
  ASSUME TypeInv, CertInv, NEW w \in Workers, Install(w)
  PROVE  CertInv'
<1>1. op[w].pc = "install"
  BY DEF Install, At
<1>2. op'[w].pc = "idle" /\ op'[w].kind = "none" /\ ~op'[w].undoing /\ Only(w)
  BY InstallTypes DEF Idle
<1>3. Shape(w)'
  BY <1>2 DEF Shape, Guarded
<1>4. CASE UNCHANGED nodes
  BY <1>1, <1>2, <1>3, <1>4, OutsideKept DEF Install, Guarded
<1>5. CASE ~UNCHANGED nodes
  <2>1. PICK n \in Targets \ (identified \cup Foreign) :
          /\ zone' = zone \cup {n}
          /\ identified' = identified \cup {n}
          /\ serving' = [serving EXCEPT ![n] = op[w].ver]
          /\ stray' = IF op[w].ver # active THEN stray \cup {n} ELSE stray
    BY <1>5 DEF Install
  <2>2. UNCHANGED <<active, vstatus, issued, expired>>
    BY DEF Install, data, clock
  <2>3. OneActive' /\ (active <= issued)' /\ ZoneInv'
    BY <2>1, <2>2, SameRow DEF CertInv, ZoneInv
  <2>4. Validate(active)' <=> Validate(active)
    BY <2>2 DEF Validate
  <2>5. /\ serving'[n] = op[w].ver
        /\ \A m \in Targets \ {n} : serving'[m] = serving[m]
    BY <2>1 DEF TypeInv, NodesOK
  <2>6. Behind' \subseteq Behind \cup {n} /\ (op[w].ver = active => n \notin Behind')
    BY <2>1, <2>2, <2>5 DEF Behind, Managed, TypeInv, NodesOK
  <2>7. \A S : Behind \subseteq stray \cup S => Behind' \subseteq stray' \cup S
    BY <2>1, <2>6
  <2>8. Served => Served'
    BY <2>1, <2>4, <2>6 DEF Served
  <2>9. \A v \in Workers : Shape(v)'
    BY <1>2, <1>3 DEF Only, CertInv, Shape
  <2>10. ASSUME NEW v \in Workers, op'[v].pc \in Guarded PROVE Claims(v)'
    <3>1. op'[v] = op[v] /\ op[v].pc \in Guarded /\ Claims(v)
      BY <1>2, <2>10 DEF Only, CertInv, Guarded
    <3>2. RowClaim(v)' /\ PrevClaim(v)'
      BY <2>2, <2>4, <3>1 DEF Claims, RowClaim, PrevClaim
    <3>3. op[v].seen \subseteq identified => \A m \in op[v].seen : serving'[m] = serving[m]
      BY <2>1, <2>5, Fields
    <3>4. NodeClaim(v)'
      BY <2>1, <2>4, <2>7, <2>8, <3>1, <3>3 DEF Claims, NodeClaim
    <3> QED BY <3>2, <3>4 DEF Claims
  <2>11. lock' = lock
    BY DEF Install
  <2> QED BY <2>3, <2>8, <2>9, <2>10, <2>11 DEF CertInv
<1> QED BY <1>4, <1>5

\* Time passes, or an operator publishes a foreign address: no managed Node changes,
\* and a version that is no longer valid stays so.
LEMMA AroundKept ==
  ASSUME TypeInv, CertInv, Tick \/ (\E n \in Foreign : Publish(n))
  PROVE  CertInv'
<1>1. /\ op' = op /\ lock' = lock
      /\ UNCHANGED <<active, vstatus, issued, identified, serving, stray>>
  BY DEF Tick, Publish, data, nodes
<1>2. zone \subseteq zone' /\ Managed' = Managed
  BY DEF Tick, Publish, nodes, Managed, CertInv, ZoneInv
<1>3. OneActive' /\ (active <= issued)' /\ ZoneInv'
  BY <1>1, <1>2, SameRow DEF CertInv, ZoneInv
<1>4. Validate(active)' => Validate(active)
  BY <1>1 DEF Validate, Tick, Publish, clock, TypeInv, DataOK, ClockOK
<1>5. Behind' = Behind
  BY <1>1, <1>2 DEF Behind
<1>6. Served => Served'
  BY <1>1, <1>4, <1>5 DEF Served
<1>7. \A v \in Workers : Shape(v)'
  BY <1>1 DEF CertInv, Shape
<1>8. ASSUME NEW v \in Workers, op'[v].pc \in Guarded PROVE Claims(v)'
  <2>1. Claims(v)
    BY <1>1, <1>8 DEF CertInv
  <2>2. RowClaim(v)' /\ PrevClaim(v)'
    BY <1>1, <1>4, <2>1 DEF Claims, RowClaim, PrevClaim
  <2>3. NodeClaim(v)'
    BY <1>1, <1>4, <1>5, <1>6, <2>1 DEF Claims, NodeClaim
  <2> QED BY <2>2, <2>3 DEF Claims
<1> QED BY <1>1, <1>3, <1>6, <1>7, <1>8 DEF CertInv

\* After a restart the Nodes that are behind are excused.
LEMMA CrashKept ==
  ASSUME TypeInv, CertInv, Crash
  PROVE  CertInv'
<1>1. \A w \in Workers : op'[w].pc = "idle" /\ op'[w].kind = "none" /\ ~op'[w].undoing
  BY CrashTypes DEF Idle
<1>2. OneActive' /\ (active <= issued)' /\ ZoneInv'
  BY SameRow DEF Crash, data, CertInv, ZoneInv
<1>3. Behind' = Behind /\ stray' = stray \cup Behind
  BY SameNodes DEF Crash, data, clock
<1>4. Served'
  BY <1>3 DEF Served
<1>5. \A w \in Workers : Shape(w)' /\ op'[w].pc \notin Guarded
  BY <1>1 DEF Shape, Guarded
<1> QED BY <1>2, <1>4, <1>5 DEF CertInv

\* CertInv holds when the process starts.
LEMMA CertInvInit ==
  ASSUME Init
  PROVE  CertInv
<1>1. \A w \in Workers : op[w].pc = "idle" /\ op[w].kind = "none" /\ ~op[w].undoing
  BY DEF Init, Idle
<1>2. old \in 0..1 /\ old <= MaxVersion
  BY CertAssumption DEF Init
<1>3. OneActive /\ active <= issued
  BY <1>2 DEF Init, OneActive, Versions
<1>4. ZoneInv
  BY DEF Init, ZoneInv
<1>5. Behind = {}
  BY DEF Init, Behind, Managed
<1>6. Served
  BY <1>5 DEF Served
<1>7. \A w \in Workers : Shape(w) /\ op[w].pc \notin Guarded
  BY <1>1 DEF Shape, Guarded
<1> QED BY <1>3, <1>4, <1>6, <1>7 DEF CertInv

\* CertInv is inductive.
LEMMA CertInvStep ==
  ASSUME TypeInv, CertInv, ~LostActivation, [Next]_vars
  PROVE  CertInv'
<1>1. CASE UNCHANGED vars
  <2>1. /\ UNCHANGED <<active, vstatus, issued, expired, zone, identified, serving, stray>>
        /\ op' = op /\ lock' = lock
    BY <1>1 DEF vars, data, nodes, clock
  <2>2. Behind' = Behind /\ (Validate(active)' <=> Validate(active)) /\ (Served => Served')
    BY <2>1, SameNodes
  <2>3. OneActive' /\ (active <= issued)' /\ ZoneInv' /\ \A v \in Workers : Shape(v)'
    BY <2>1, SameRow DEF CertInv, ZoneInv, Shape
  <2>4. ASSUME NEW v \in Workers, op'[v].pc \in Guarded PROVE Claims(v)'
    BY <2>1, <2>2, <2>4 DEF CertInv, Claims, RowClaim, PrevClaim, NodeClaim
  <2> QED BY <2>1, <2>2, <2>3, <2>4 DEF CertInv
<1> QED BY <1>1, NextCases, RequestKept, AcquireKept, LockKept, LockFailsKept, InstallKept,
           InsideKept, AroundKept, CrashKept

\* CertInv always holds.
LEMMA CertInvariant ==
  ASSUME ~LostActivation
  PROVE  Spec => []CertInv
<1>1. Init => CertInv
  BY CertInvInit
<1>2. TypeInv /\ CertInv /\ [Next]_vars => CertInv'
  BY CertInvStep
<1> QED BY <1>1, <1>2, TypesInv, PTL DEF Spec

\* OneActive: the row and the statuses of the versions agree and one version at
\* most is ACTIVE, whichever calls overlap and whichever of their steps fail, for
\* every number of callers, versions and targets. The commit of ActivateVersion
\* must not be reported as an error (LostActivation).
THEOREM RowAndStatusesAgree ==
  ASSUME ~LostActivation
  PROVE  Spec => []OneActive
<1>1. CertInv => OneActive
  BY DEF CertInv
<1> QED BY <1>1, CertInvariant, PTL

\* NodesServeActive: between two calls every managed Node serves the active
\* version while that is valid, apart from the Nodes that are excused, under the
\* same assumption.
THEOREM NodesServeTheActiveVersion ==
  ASSUME ~LostActivation
  PROVE  Spec => []NodesServeActive
<1>1. CertInv => NodesServeActive
  BY DEF CertInv, Served, NodesServeActive
<1> QED BY <1>1, CertInvariant, PTL

-----------------------------------------------------------------------------
(* Connections and the lock. *)

\* Who holds the lock is behind it, not waiting for anything in front of it.
HolderInside == lock # NoWorker => op[lock].pc \in Guarded

\* HolderInside is inductive.
LEMMA HolderStep ==
  ASSUME TypeInv, HolderInside, [Next]_vars
  PROVE  HolderInside'
<1>1. lock \in Workers \cup {NoWorker} /\ NoWorker \notin Workers
  BY CertAssumption DEF TypeInv, PoolOK
<1>2. ASSUME NEW w \in Workers, Only(w), op[w].pc \notin Guarded, lock' = lock
      PROVE  HolderInside'
  BY <1>1, <1>2 DEF HolderInside, Only
<1>3. CASE UNCHANGED vars
  BY <1>3 DEF vars, HolderInside
<1>4. ASSUME NEW w \in Workers, NEW kind \in Kinds[w], Request(w, kind)
      PROVE  HolderInside'
  BY <1>2, <1>4, RequestTypes DEF Request, At, Guarded
<1>5. ASSUME NEW w \in Workers, Acquire(w) PROVE HolderInside'
  BY <1>2, <1>5, AcquireTypes DEF Acquire, Connected, At, Guarded
<1>6. ASSUME NEW w \in Workers, Lock(w) PROVE HolderInside'
  <2>1. op'[w].pc \in {"list", "load"}
    BY <1>6, LockTypes, Fields DEF Calls
  <2> QED BY <1>6, <2>1 DEF Lock, HolderInside, Guarded
<1>7. ASSUME NEW w \in Workers, LockFails(w) PROVE HolderInside'
  BY <1>2, <1>7, LockFailsTypes DEF LockFails, At, Guarded
<1>8. ASSUME NEW w \in Workers, Install(w) PROVE HolderInside'
  BY <1>2, <1>8, InstallTypes DEF Install, At, Guarded
<1>9. ASSUME NEW w \in Workers, Inside(w) PROVE HolderInside'
  BY <1>9, InsideTypes, Alone DEF Turned, Stays, Ends, HolderInside
<1>10. CASE Tick \/ (\E n \in Foreign : Publish(n))
  BY <1>10, AroundTypes DEF HolderInside
<1>11. CASE Crash
  BY <1>11 DEF Crash, HolderInside
<1> QED BY <1>3, <1>4, <1>5, <1>6, <1>7, <1>8, <1>9, <1>10, <1>11, NextCases

\* With more connections than callers no call ever finds the pool empty, and the
\* holder of the lock is behind it: nobody waits, in a circle, for a connection or
\* for the lock. This is why NobodyStuck holds; without a connection to spare
\* the holder could wait for one that the callers in front of the lock hold.
THEOREM HolderNeverWaits ==
  ASSUME IsFiniteSet(Workers), Cardinality(Workers) < Pool
  PROVE  Spec => [](free > 0 /\ HolderInside)
<1>1. Init => HolderInside
  BY DEF Init, HolderInside
<1>2. TypeInv /\ HolderInside /\ [Next]_vars => HolderInside'
  BY HolderStep
<1>3. TypeInv => free > 0
  <2> SUFFICES ASSUME TypeInv PROVE free > 0
    OBVIOUS
  <2>1. Held \subseteq Workers
    BY DEF Held
  <2>2. Cardinality(Held) <= Cardinality(Workers)
    BY <2>1, FS_Subset
  <2>3. Cardinality(Held) \in Nat /\ Cardinality(Workers) \in Nat
    BY FS_CardinalityType DEF TypeInv, PoolOK
  <2> QED BY <2>2, <2>3, CertAssumption DEF TypeInv, PoolOK
<1> QED BY <1>1, <1>2, <1>3, TypesInv, PTL DEF Spec
=============================================================================
