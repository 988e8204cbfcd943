------------------------------ MODULE DNSZones ------------------------------
(***************************************************************************)
(* The DNS balancer client: AddIP, ReplaceIP and MoveIP as goroutines run  *)
(* them, with the keyed lock they take.  The balancer offers a GET of all  *)
(* zones and a PATCH that replaces one complete list of one zone, so every *)
(* change is a read-modify-write cycle under the lock of the zone, and a   *)
(* move two of them under both locks.  Any request may fail, a PATCH may   *)
(* be applied although its caller sees an error, and the context of a call *)
(* may be cancelled at any time: then it sends nothing more.               *)
(***************************************************************************)
EXTENDS KeyedLock

CONSTANTS
  Addrs,         \* addresses
  Operations,    \* the calls made
  InitialZones,  \* configurations of the balancer to start from
  LostReplies,   \* requests that may be applied although they return an error
  NoOp

\* The zones of a call, the address it is about and, for ReplaceIP, the new
\* one.  AddIP and ReplaceIP have one zone (zone = target, new = ip for AddIP).
CallRecords == [kind : {"add", "replace", "move"}, zone : Keys, target : Keys,
                ip : Addrs, new : Addrs]

\* adv: the zone has a "nodes" list (Nodes # nil).
ZoneRecords == [adv : BOOLEAN, ips : SUBSET Addrs, nodes : SUBSET Addrs]

Patches == {"patch", "patchTarget", "patchSource", "restore"}

\* Keys are numbered in the order in which Go compares the FQDNs.
ASSUME ZonesAssumption ==
  /\ Keys \subseteq Nat
  /\ Operations \subseteq CallRecords
  /\ \A o \in Operations : o.kind = "move" <=> o.zone # o.target
  /\ NoOp \notin CallRecords
  /\ InitialZones \subseteq [Keys -> ZoneRecords]
  /\ LostReplies \subseteq Patches

VARIABLES
  zone,  \* the balancer's configuration
  pc,    \* pc[p]: label of goroutine p
  op,    \* op[p]: its call, NoOp if none
  ctx,   \* ctx[p]: its context is cancelled
  seen   \* seen[p]: the configuration its GET returned

zoneVars == <<zone, seen>>
vars == <<lockVars, zone, pc, op, ctx, seen>>

Nothing == [k \in Keys |-> [adv |-> FALSE, ips |-> {}, nodes |-> {}]]

Init ==
  /\ LockInit
  /\ zone \in InitialZones
  /\ pc = [p \in Procs |-> "idle"]
  /\ op = [p \in Procs |-> NoOp]
  /\ ctx = [p \in Procs |-> FALSE]
  /\ seen = [p \in Procs |-> Nothing]

Goto(p, l) == pc' = [pc EXCEPT ![p] = l]

-----------------------------------------------------------------------------
(* What a call does with the lists it has read. *)

\* The list a PATCH replaces and its new content.
Patched(z, body) == IF body.list = "ips" THEN [z EXCEPT !.ips = body.value]
                    ELSE [z EXCEPT !.nodes = body.value, !.adv = TRUE]

\* AddIP appends to the simple list; an address in either list is a no-op.
AddNeeded(o, z) == o.ip \notin z.ips \cup z.nodes
AddBody(o, z) == [list |-> "ips", value |-> z.ips \cup {o.ip}]

\* ReplaceIP works on the nodes if there are any; the new address may already
\* be there, and without the old one there is nothing to do.
ReplaceList(z) == IF z.nodes # {} THEN "nodes" ELSE "ips"
ReplaceNeeded(o, z) == o.ip \in z[ReplaceList(z)]
ReplaceBody(o, z) == [list |-> ReplaceList(z),
                      value |-> (z[ReplaceList(z)] \ {o.ip}) \cup {o.new}]

\* MoveIP works on zones of one format.
MoveList(z) == IF z.adv THEN "nodes" ELSE "ips"
Movable(o, zs) == /\ zs[o.zone].adv = zs[o.target].adv
                  /\ o.ip \in zs[o.zone][MoveList(zs[o.zone])]
zoneWithoutIP(o, z) == [list |-> MoveList(z), value |-> z[MoveList(z)] \ {o.ip}]
zoneWithIP(o, z) == [list |-> MoveList(z), value |-> z[MoveList(z)] \cup {o.ip}]
TargetFound(o, zs) == o.ip \in zs[o.target][MoveList(zs[o.target])]

\* zoneSnapshotRequest: the copy of an empty "nodes" list is nil, which is sent
\* as an empty "ips" list.
zoneSnapshotRequest(z) ==
  IF z.nodes # {} THEN [list |-> "nodes", value |-> z.nodes]
  ELSE [list |-> "ips", value |-> IF z.adv THEN {} ELSE z.ips]

\* Mutant: MoveIP patches the source right away.
FirstPatchSource(o, zs) ==
  CASE o.kind = "add"     -> IF AddNeeded(o, zs[o.zone]) THEN "patch" ELSE "unlock"
    [] o.kind = "replace" -> IF ReplaceNeeded(o, zs[o.zone]) THEN "patch" ELSE "unlock"
    [] OTHER              -> IF Movable(o, zs) THEN "patchSource" ELSE "unlock"

\* The first PATCH of a call that has read zs; "unlock" if it sends none.
FirstPatch(o, zs) ==
  CASE o.kind = "add"     -> IF AddNeeded(o, zs[o.zone]) THEN "patch" ELSE "unlock"
    [] o.kind = "replace" -> IF ReplaceNeeded(o, zs[o.zone]) THEN "patch" ELSE "unlock"
    [] OTHER              -> IF ~Movable(o, zs) THEN "unlock"
                             ELSE IF TargetFound(o, zs) THEN "patchSource"
                             ELSE "patchTarget"

-----------------------------------------------------------------------------
(* Calls and their contexts. *)

Start(p) ==
  /\ pc[p] = "idle"
  /\ \E o \in Operations : op' = [op EXCEPT ![p] = o]
  /\ Goto(p, "lock")
  /\ UNCHANGED <<lockVars, ctx, zoneVars>>

Cancel(p) ==
  /\ pc[p] # "idle" /\ ~ctx[p]
  /\ ctx' = [ctx EXCEPT ![p] = TRUE]
  /\ UNCHANGED <<lockVars, pc, op, zoneVars>>

-----------------------------------------------------------------------------
(* Locks: one, or both in the order of their keys. *)

\* Mutant: MoveIP locks the source zone only.
SourceLock(o) == {o.zone}

LockSet(o) == {o.zone, o.target}

\* Mutant: MoveIP locks the source first, whatever the order of the keys.
SourceFirst(p, k) ==
  /\ k \in LockSet(op[p]) /\ at[p][k] # "held"
  /\ k = op[p].zone \/ at[p][op[p].zone] = "held"

\* The lock p takes next.
InTurn(p, k) ==
  /\ k \in LockSet(op[p]) /\ at[p][k] # "held"
  /\ \A l \in LockSet(op[p]) : l < k => at[p][l] = "held"

EnterLock(p, k) ==
  /\ pc[p] = "lock" /\ InTurn(p, k) /\ ~ctx[p]
  /\ Enter(p, k)
  /\ UNCHANGED <<pc, op, ctx, zoneVars>>

\* The select may take the token of a cancelled caller too.
TakeLock(p, k) ==
  /\ pc[p] = "lock" /\ InTurn(p, k)
  /\ Take(p, k)
  /\ Goto(p, IF \A l \in LockSet(op[p]) \ {k} : at[p][l] = "held"
               THEN "read" ELSE "lock")
  /\ UNCHANGED <<op, ctx, zoneVars>>

\* Lock returns ctx.Err(), before it has an entry or from the select.
LockCancelled(p, k) ==
  /\ pc[p] = "lock" /\ InTurn(p, k) /\ ctx[p]
  /\ GiveUp(p, k) \/ (at[p][k] = "idle" /\ UNCHANGED lockVars)
  /\ Goto(p, "unlock")
  /\ UNCHANGED <<op, ctx, zoneVars>>

\* The deferred unlocks, the lock taken last first.
Unlock(p, k) ==
  /\ pc[p] = "unlock"
  /\ \A l \in LockSet(op[p]) : l > k => at[p][l] = "idle"
  /\ ReturnToken(p, k) \/ Leave(p, k)
  /\ UNCHANGED <<pc, op, ctx, zoneVars>>

\* Mutant: the call returns but its goroutine keeps it.
ReturnKeeping(p) ==
  /\ pc[p] = "unlock"
  /\ \A k \in LockSet(op[p]) : at[p][k] = "idle"
  /\ Goto(p, "idle")
  /\ UNCHANGED <<lockVars, op, ctx, zoneVars>>

Return(p) ==
  /\ pc[p] = "unlock"
  /\ \A k \in LockSet(op[p]) : at[p][k] = "idle"
  /\ Goto(p, "idle")
  /\ op' = [op EXCEPT ![p] = NoOp]
  /\ ctx' = [ctx EXCEPT ![p] = FALSE]
  /\ UNCHANGED <<lockVars, zoneVars>>

-----------------------------------------------------------------------------
(* The read-modify-write cycle. *)

\* GetDomains and LocateZone: the whole configuration, or an error.
Read(p) ==
  /\ pc[p] = "read"
  /\ \/ /\ ~ctx[p]
        /\ Goto(p, FirstPatch(op[p], zone))
        /\ seen' = [seen EXCEPT ![p] =
             IF FirstPatch(op[p], zone) = "unlock" THEN Nothing ELSE zone]
     \/ Goto(p, "unlock") /\ seen' = seen
  /\ UNCHANGED <<lockVars, op, ctx, zone>>

\* A PATCH of zone k at label l: applied and acknowledged, not applied, or
\* applied with an error.  A call with a cancelled context gets an error.
Request(p, k, body, ok, err) ==
  /\ \/ /\ ~ctx[p]
        /\ zone' = [zone EXCEPT ![k] = Patched(@, body)]
        /\ Goto(p, ok)
     \/ zone' = zone /\ Goto(p, err)
     \/ /\ pc[p] \in LostReplies
        /\ zone' = [zone EXCEPT ![k] = Patched(@, body)]
        /\ Goto(p, err)
  /\ seen' = [seen EXCEPT ![p] = IF pc'[p] = "unlock" THEN Nothing ELSE @]
  /\ UNCHANGED <<lockVars, op, ctx>>

PatchOne(p) ==
  /\ pc[p] = "patch"
  /\ LET o == op[p]
         z == seen[p][o.zone]
     IN Request(p, o.zone, IF o.kind = "add" THEN AddBody(o, z) ELSE ReplaceBody(o, z),
                "unlock", "unlock")

PatchTarget(p) ==
  /\ pc[p] = "patchTarget"
  /\ LET o == op[p]
     IN Request(p, o.target, zoneWithIP(o, seen[p][o.target]), "patchSource", "unlock")

\* A failed PATCH of the source restores the target, if this call changed it.
PatchSource(p) ==
  /\ pc[p] = "patchSource"
  /\ LET o == op[p]
     IN Request(p, o.zone, zoneWithoutIP(o, seen[p][o.zone]), "unlock",
                IF TargetFound(o, seen[p]) THEN "unlock" ELSE "restore")

\* The error of the restoring PATCH is ignored.
Restore(p) ==
  /\ pc[p] = "restore"
  /\ LET o == op[p]
     IN Request(p, o.target, zoneSnapshotRequest(seen[p][o.target]), "unlock", "unlock")

-----------------------------------------------------------------------------

Step(p) ==
  \/ \E k \in Keys : EnterLock(p, k) \/ TakeLock(p, k) \/ LockCancelled(p, k)
                       \/ Unlock(p, k)
  \/ Read(p) \/ PatchOne(p) \/ PatchTarget(p) \/ PatchSource(p) \/ Restore(p)
  \/ Return(p)

Next == \E p \in Procs : Start(p) \/ Cancel(p) \/ Step(p)

Spec == Init /\ [][Next]_vars

\* Goroutines are scheduled, requests return or time out, and the waiters of
\* a token channel are served in the order in which they came.
Fairness ==
  \A p \in Procs : /\ WF_vars(Step(p))
                   /\ SF_vars(\E k \in Keys : TakeLock(p, k))

FairSpec == Spec /\ Fairness

-----------------------------------------------------------------------------
(* Properties. *)

\* Type invariant of the calls; a goroutine has a call exactly while it is in one.
ZonesTypeOK ==
  /\ LockTypeOK
  /\ zone \in [Keys -> ZoneRecords]
  /\ pc \in [Procs -> {"idle", "lock", "read", "unlock"} \cup Patches]
  /\ op \in [Procs -> Operations \cup {NoOp}]
  /\ ctx \in [Procs -> BOOLEAN]
  /\ seen \in [Procs -> [Keys -> ZoneRecords]]
  /\ \A p \in Procs : pc[p] = "idle" <=> op[p] = NoOp

SymmetricDifference(S, T) == (S \ T) \cup (T \ S)

\* HANDOFF: "DNS zone updates are complete-list replacements and therefore
\* require a serialized read-modify-write operation": a PATCH of AddIP, ReplaceIP
\* or MoveIP, or of its compensation, changes a zone only while its call holds
\* the lock of that zone, and no address but the call's own.
OwnAddressesOnly ==
  [][\A k \in Keys : zone'[k] # zone[k] =>
       \E p \in Procs :
         /\ at[p][k] = "held"
         /\ SymmetricDifference(zone[k].ips, zone'[k].ips)
              \cup SymmetricDifference(zone[k].nodes, zone'[k].nodes)
              \subseteq {op[p].ip, op[p].new}]_vars

Published(a) == \E k \in Keys : a \in zone[k].ips \cup zone[k].nodes

\* Only ReplaceIP takes an address out of the last zone that has it: a move that
\* fails or is cancelled half way leaves it in one of its zones or in both.
NeverUnpublished ==
  [][\A a \in Addrs :
       Published(a) => \/ Published(a)'
                       \/ \E p \in Procs : /\ pc[p] = "patch"
                                           /\ op[p].kind = "replace"
                                           /\ op[p].ip = a]_vars

\* Every call returns: two moves in opposite directions do not wait for each
\* other, and a waiter gets its token or sees its context cancelled.
OpsEnd == \A p \in Procs : pc[p] # "idle" ~> pc[p] = "idle"
=============================================================================
