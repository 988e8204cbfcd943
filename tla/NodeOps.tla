------------------------------ MODULE NodeOps ------------------------------
(***************************************************************************)
(* The operations on a Node that is already deployed: ReplaceNodeIP gives  *)
(* it another address, SyncNodeDNS makes DNS follow the panel, and         *)
(* MoveNodeToHost binds it to another Host.  Each changes the panel, the   *)
(* DNS zones, the VPS and the deployment's row one after the other, and    *)
(* undoes on an error what it has done, ignoring the errors of that.       *)
(* Executions are registered per kind of operation and Node, so that two   *)
(* kinds on one Node may overlap.  A call fails, takes effect, or takes    *)
(* effect and returns an error.  Updates of a zone are atomic (DNSZones).  *)
(***************************************************************************)
EXTENDS Naturals, FiniteSets

CONSTANTS
  Nodes, Addrs,
  Hosts,          \* Hosts; each has a profile and an SNI, hence a zone, of its own
  Managed,        \* Nodes with a deployment row
  Advanced,       \* Hosts whose zone has advanced "nodes" entries
  DNSDisabled,    \* Config.DNSDisabled
  Workers,        \* goroutines
  Offers,         \* Offers[w]: the operations w may be asked for
  MaxConcurrent,  \* capacity of the semaphore
  Edits,          \* Edits[n]: addresses operators give n in the panel itself
  MaxSpoiled,     \* bound on the Nodes that are left inconsistent
  InitialHost, InitialAddr,
  NoAddr, NoJob

\* An operation as the operator confirmed it: the address or, for a move, the
\* Host he saw, and the new address or Host.
JobRecords ==
  [kind : {"replace", "sync", "move"}, node : Nodes, old : Addrs, new : Addrs,
   from : Hosts, host : Hosts]

ASSUME NodeOpsAssumption ==
  /\ Managed \subseteq Nodes /\ Advanced \subseteq Hosts
  /\ Edits \in [Nodes -> SUBSET Addrs] /\ DNSDisabled \in BOOLEAN
  /\ IsFiniteSet(Workers) /\ MaxConcurrent \in Nat \ {0} /\ MaxSpoiled \in Nat
  /\ Offers \in [Workers -> SUBSET JobRecords]
  /\ InitialHost \in [Nodes -> Hosts] /\ InitialAddr \in [Nodes -> Addrs]
  /\ NoAddr \notin Addrs /\ NoJob \notin JobRecords

VARIABLES
  panel,     \* panel[n]: address and Host (profile) of n in Remnawave
  zones,     \* zones[h]: the addresses in the zone of h
  sni,       \* sni[n]: the Host whose SNI the VPS of n serves
  rec,       \* rec[n]: target_vps_ip and sni_domain of a managed n
  running,   \* the keys of DeploymentService.running
  slots,     \* the workers that hold a slot of the semaphore
  stopping,  \* the process shuts down: every context is cancelled
  pc, job,   \* per goroutine: label, operation
  loc,       \* per goroutine: its locals
  spoiled,   \* Nodes with a lost reply, a failed compensation or a killed run
  dirty      \* Nodes edited in the panel and not synchronized since

ext == <<panel, zones, sni, rec>>
svc == <<running, slots, stopping>>
vars == <<ext, svc, pc, job, loc, spoiled, dirty>>

\* addr, host, prev: what the operation read; todo, changed: zones it has to
\* update and has updated; moved: MoveIP changed the zones.
Locals == [addr : Addrs \cup {NoAddr}, host : Hosts \cup {NoAddr},
           prev : Addrs \cup {NoAddr}, todo : SUBSET Hosts,
           changed : SUBSET Hosts, moved : BOOLEAN]

Blank == [addr |-> NoAddr, host |-> NoAddr, prev |-> NoAddr, todo |-> {},
          changed |-> {}, moved |-> FALSE]

Init ==
  /\ panel = [n \in Nodes |-> [addr |-> InitialAddr[n], host |-> InitialHost[n]]]
  /\ zones = [h \in Hosts |-> IF DNSDisabled THEN {}
                              ELSE {InitialAddr[n] : n \in {m \in Nodes : InitialHost[m] = h}}]
  /\ sni = InitialHost
  /\ rec = [n \in Nodes |-> [ip |-> InitialAddr[n], host |-> InitialHost[n]]]
  /\ running = {} /\ slots = {} /\ stopping = FALSE
  /\ pc = [w \in Workers |-> "idle"]
  /\ job = [w \in Workers |-> NoJob]
  /\ loc = [w \in Workers |-> Blank]
  /\ spoiled = {} /\ dirty = {}

\* Where a goroutine goes on: a label and its locals.
Goes(w, to) ==
  /\ pc' = [pc EXCEPT ![w] = to[1]]
  /\ loc' = [loc EXCEPT ![w] = to[2]]

To(w, l) == <<l, loc[w]>>
Goto(w, l) == Goes(w, To(w, l))

\* Labels of the compensations, and of those with a context of their own.
UndoIP == {"undoZones", "undoAddr"}
UndoMove == {"undoProfile", "undoDNS", "undoSNI"}

Spoil(S) == /\ Cardinality(spoiled \cup S) <= MaxSpoiled
            /\ spoiled' = spoiled \cup S

\* A call with an effect that goes on at ok or err.  Under a cancelled context
\* it does not succeed; rollbackNodeHostMove uses context.WithoutCancel.
Call(w, Effect, ok, err) ==
  /\ \/ /\ ~stopping \/ pc[w] \in UndoMove
        /\ Effect
        /\ Goes(w, ok)
        /\ UNCHANGED spoiled
     \/ /\ UNCHANGED ext
        /\ Goes(w, err)
        /\ IF pc[w] \in UndoIP \cup UndoMove THEN Spoil({job[w].node}) ELSE UNCHANGED spoiled
     \/ /\ Effect
        /\ Goes(w, err)
        /\ Spoil({job[w].node})
  /\ UNCHANGED <<svc, job, dirty>>

\* A call that changes nothing: it goes on, or fails and the operation ends.
Reads(w, to) ==
  /\ (~stopping /\ Goes(w, to)) \/ Goto(w, "finish")
  /\ UNCHANGED <<ext, svc, job, spoiled, dirty>>

\* A call that finds its effect in place.
Finds(w, to) ==
  /\ ~stopping
  /\ Goes(w, to)
  /\ UNCHANGED <<ext, svc, job, spoiled, dirty>>

-----------------------------------------------------------------------------
(* Effects on the panel, the VPS, the row and the zones. *)

UpdateNodeAddress(n, a) ==
  /\ panel' = [panel EXCEPT ![n].addr = a]
  /\ UNCHANGED <<zones, sni, rec>>

UpdateNodeProfile(n, h) ==
  /\ panel' = [panel EXCEPT ![n].host = h]
  /\ UNCHANGED <<zones, sni, rec>>

\* The switch first validates that the VPS serves the previous SNI.
SwitchNodeSNI(n, h) ==
  /\ sni' = [sni EXCEPT ![n] = h]
  /\ UNCHANGED <<panel, zones, rec>>

SetTargetVPSIP(n, a) ==
  /\ rec' = [rec EXCEPT ![n].ip = a]
  /\ UNCHANGED <<panel, zones, sni>>

SetNodeHostBinding(n, h) ==
  /\ rec' = [rec EXCEPT ![n].host = h]
  /\ UNCHANGED <<panel, zones, sni>>

SetZones(z) == zones' = z /\ UNCHANGED <<panel, sni, rec>>

ReplaceIP(h, a, b) ==
  a \in zones[h] /\ SetZones([zones EXCEPT ![h] = (@ \ {a}) \cup {b}])

AddIP(h, a) == SetZones([zones EXCEPT ![h] = @ \cup {a}])

\* MoveIP on zones of one format.
MoveIP(g, h, a) ==
  /\ (g \in Advanced) = (h \in Advanced)
  /\ a \in zones[g]
  /\ SetZones([zones EXCEPT ![g] = @ \ {a}, ![h] = @ \cup {a}])

\* MoveIP fails and what it left behind: the address in both zones, or in none.
MoveIPHalf(g, h, a) ==
  /\ a \in zones[g]
  /\ \/ SetZones([zones EXCEPT ![h] = @ \cup {a}])
     \/ SetZones([zones EXCEPT ![g] = @ \ {a}, ![h] = @ \ {a}])

-----------------------------------------------------------------------------
(* Registration, semaphore and shutdown. *)

Key(j) == <<j.kind, j.node>>

\* Mutant: an operation starts although one of its kind runs on the Node.
StartUnregistered(w) ==
  /\ pc[w] = "idle" /\ ~stopping
  /\ \E j \in Offers[w] :
       /\ j.kind = "replace" => j.old # j.new
       /\ j.kind = "sync" => ~DNSDisabled
       /\ running' = running \cup {Key(j)}
       /\ job' = [job EXCEPT ![w] = j]
  /\ Goto(w, "acquire")
  /\ UNCHANGED <<ext, slots, stopping, spoiled, dirty>>

\* beginExecution; a registered key is refused.
Start(w) ==
  /\ pc[w] = "idle" /\ ~stopping
  /\ \E j \in Offers[w] :
       /\ Key(j) \notin running
       /\ j.kind = "replace" => j.old # j.new
       /\ j.kind = "sync" => ~DNSDisabled
       /\ running' = running \cup {Key(j)}
       /\ job' = [job EXCEPT ![w] = j]
  /\ Goto(w, "acquire")
  /\ UNCHANGED <<ext, slots, stopping, spoiled, dirty>>

\* acquire: a slot, or ctx.Done.
Acquire(w) ==
  /\ pc[w] = "acquire"
  /\ \/ /\ Cardinality(slots) < MaxConcurrent
        /\ slots' = slots \cup {w}
        /\ Goto(w, "read")
     \/ stopping /\ Goto(w, "finish") /\ UNCHANGED slots
  /\ UNCHANGED <<ext, running, stopping, job, spoiled, dirty>>

\* The deferred releaseSlot and release; "done" is the success of SyncNodeDNS.
Finish(w) ==
  /\ pc[w] \in {"finish", "done"}
  /\ slots' = slots \ {w}
  /\ running' = running \ {Key(job[w])}
  /\ job' = [job EXCEPT ![w] = NoJob]
  /\ Goes(w, <<"idle", Blank>>)
  /\ dirty' = IF pc[w] = "done" /\ panel[job[w].node].addr = loc[w].addr
                THEN dirty \ {job[w].node} ELSE dirty
  /\ UNCHANGED <<ext, stopping, spoiled>>

Active == {w \in Workers : pc[w] # "idle"}

\* SIGTERM cancels the context of every operation; the process waits for them.
Shutdown ==
  /\ ~stopping
  /\ stopping' = TRUE
  /\ UNCHANGED <<ext, running, slots, pc, job, loc, spoiled, dirty>>

Restart ==
  /\ stopping /\ Active = {}
  /\ stopping' = FALSE
  /\ UNCHANGED <<ext, running, slots, pc, job, loc, spoiled, dirty>>

\* The process is killed; nothing takes these operations up again.
Kill ==
  /\ Spoil({job[w].node : w \in Active})
  /\ running' = {} /\ slots' = {} /\ stopping' = FALSE
  /\ pc' = [w \in Workers |-> "idle"]
  /\ job' = [w \in Workers |-> NoJob]
  /\ loc' = [w \in Workers |-> Blank]
  /\ UNCHANGED <<ext, dirty>>

\* An operator gives n an address in the panel itself.
PanelEdit(n, a) ==
  /\ \A m \in Nodes : panel[m].addr # a
  /\ UpdateNodeAddress(n, a)
  /\ dirty' = dirty \cup {n}
  /\ UNCHANGED <<svc, pc, job, loc, spoiled>>

At(w, l, kind) == pc[w] = l /\ job[w].kind = kind

-----------------------------------------------------------------------------
(* ReplaceNodeIP. *)

\* The new address is free and the operator saw the panel's.
ReplaceFresh(j) ==
  /\ \A m \in Nodes \ {j.node} : panel[m].addr # j.new
  /\ panel[j.node].addr = j.old

ReplaceRead(w) ==
  /\ At(w, "read", "replace")
  /\ Reads(w, To(w, IF ReplaceFresh(job[w]) THEN "find" ELSE "finish"))

\* FindZonesByIP and FindDeploymentByPanelNodeUUID.
ReplaceFind(w) ==
  /\ At(w, "find", "replace")
  /\ Reads(w, <<"update", [loc[w] EXCEPT !.todo =
       {h \in Hosts : ~DNSDisabled /\ job[w].old \in zones[h]}]>>)

\* What follows the zones that are left in r.
AfterZones(w, r) ==
  <<IF r.todo # {} THEN "zones"
    ELSE IF job[w].node \in Managed THEN "persist" ELSE "finish", r>>

\* Mutant: rollbackNodeIP restores the panel only.
RollbackPanelOnly(w) == To(w, "undoAddr")

\* rollbackNodeIP: the changed zones, then the panel.
RollbackNodeIP(w) == To(w, IF loc[w].changed # {} THEN "undoZones" ELSE "undoAddr")

ReplaceUpdate(w) ==
  /\ At(w, "update", "replace")
  /\ Call(w, UpdateNodeAddress(job[w].node, job[w].new),
          AfterZones(w, loc[w]), To(w, "finish"))

ReplaceZone(w) ==
  /\ At(w, "zones", "replace")
  /\ \E h \in loc[w].todo :
       LET j == job[w]
           left == [loc[w] EXCEPT !.todo = @ \ {h}]
       IN \/ Call(w, ReplaceIP(h, j.old, j.new),
                  AfterZones(w, [left EXCEPT !.changed = @ \cup {h}]), RollbackNodeIP(w))
          \/ /\ j.old \notin zones[h] /\ j.new \in zones[h]
             /\ Finds(w, AfterZones(w, left))

ReplacePersist(w) ==
  /\ At(w, "persist", "replace")
  /\ Call(w, SetTargetVPSIP(job[w].node, job[w].new), To(w, "finish"), RollbackNodeIP(w))

UndoZone(w) ==
  /\ pc[w] = "undoZones"
  /\ \E h \in loc[w].changed :
       LET left == [loc[w] EXCEPT !.changed = @ \ {h}]
           to == <<IF left.changed = {} THEN "undoAddr" ELSE "undoZones", left>>
       IN Call(w, ReplaceIP(h, job[w].new, job[w].old), to, to)

UndoAddr(w) ==
  /\ pc[w] = "undoAddr"
  /\ Call(w, UpdateNodeAddress(job[w].node, job[w].old), To(w, "finish"), To(w, "finish"))

Replace(w) ==
  \/ ReplaceRead(w) \/ ReplaceFind(w) \/ ReplaceUpdate(w) \/ ReplaceZone(w)
  \/ ReplacePersist(w) \/ UndoZone(w) \/ UndoAddr(w)

-----------------------------------------------------------------------------
(* SyncNodeDNS. *)

\* Mutant: the address that was read is not kept.
SyncReadUnkept(w) ==
  /\ At(w, "read", "sync")
  /\ LET now == panel[job[w].node]
     IN Reads(w, <<IF now.addr = job[w].old THEN "lookup" ELSE "finish",
                   [loc[w] EXCEPT !.host = now.host]>>)

SyncRead(w) ==
  /\ At(w, "read", "sync")
  /\ LET now == panel[job[w].node]
     IN Reads(w, <<IF now.addr = job[w].old THEN "lookup" ELSE "finish",
                   [loc[w] EXCEPT !.addr = now.addr, !.host = now.host]>>)

\* The row of a managed Node; inferLegacyDNSZone otherwise.
SyncLookup(w) ==
  /\ At(w, "lookup", "sync")
  /\ LET n == job[w].node
     IN Reads(w, <<"zone", IF n \notin Managed THEN loc[w]
                           ELSE [loc[w] EXCEPT !.prev = rec[n].ip, !.host = rec[n].host]>>)

SyncSettled(w) ==
  To(w, IF job[w].node \in Managed /\ loc[w].prev # loc[w].addr
          THEN "syncPersist" ELSE "done")

\* FindZone, and the choice between ReplaceIP, AddIP and nothing.
SyncZone(w) ==
  /\ At(w, "zone", "sync")
  /\ LET r == loc[w]
         z == zones[r.host]
     IN Reads(w, IF r.prev # r.addr /\ r.prev \in z THEN To(w, "syncReplace")
                 ELSE IF r.addr \in z THEN SyncSettled(w)
                 ELSE IF r.host \in Advanced /\ z # {} THEN To(w, "finish")
                 ELSE To(w, "syncAdd"))

SyncReplace(w) ==
  /\ At(w, "syncReplace", "sync")
  /\ LET r == loc[w]
     IN \/ Call(w, ReplaceIP(r.host, r.prev, r.addr), SyncSettled(w), To(w, "finish"))
        \/ /\ r.prev \notin zones[r.host] /\ r.addr \in zones[r.host]
           /\ Finds(w, SyncSettled(w))

SyncAdd(w) ==
  /\ At(w, "syncAdd", "sync")
  /\ Call(w, AddIP(loc[w].host, loc[w].addr), SyncSettled(w), To(w, "finish"))

\* DNS is not rolled back.
SyncPersist(w) ==
  /\ At(w, "syncPersist", "sync")
  /\ Call(w, SetTargetVPSIP(job[w].node, loc[w].addr), To(w, "done"), To(w, "finish"))

Sync(w) ==
  \/ SyncRead(w) \/ SyncLookup(w) \/ SyncZone(w) \/ SyncReplace(w) \/ SyncAdd(w)
  \/ SyncPersist(w)

-----------------------------------------------------------------------------
(* MoveNodeToHost. *)

\* The Node, the Hosts, the row and both certificates.
MoveRead(w) ==
  /\ At(w, "read", "move")
  /\ LET now == panel[job[w].node]
     IN Reads(w, <<IF now.host = job[w].from /\ job[w].from # job[w].host
                     THEN "switch" ELSE "finish",
                   [loc[w] EXCEPT !.addr = now.addr]>>)

MoveSwitch(w) ==
  /\ At(w, "switch", "move")
  /\ LET j == job[w]
     IN Call(w, sni[j.node] = j.from /\ SwitchNodeSNI(j.node, j.host),
             To(w, "profile"), To(w, "finish"))

AfterMove(w, r) == <<IF job[w].node \in Managed THEN "bind" ELSE "finish", r>>

MoveProfile(w) ==
  /\ At(w, "profile", "move")
  /\ Call(w, UpdateNodeProfile(job[w].node, job[w].host),
          IF DNSDisabled THEN AfterMove(w, loc[w]) ELSE To(w, "moveDNS"),
          To(w, "undoProfile"))

MoveDNS(w) ==
  /\ At(w, "moveDNS", "move")
  /\ LET j == job[w]
         a == loc[w].addr
     IN \/ Call(w, MoveIP(j.from, j.host, a),
                AfterMove(w, [loc[w] EXCEPT !.moved = TRUE]), To(w, "undoProfile"))
        \/ /\ (j.from \in Advanced) = (j.host \in Advanced)
           /\ a \notin zones[j.from] /\ a \in zones[j.host]
           /\ Finds(w, AfterMove(w, loc[w]))
        \/ /\ MoveIPHalf(j.from, j.host, a)
           /\ Goto(w, "undoProfile") /\ Spoil({job[w].node})
           /\ UNCHANGED <<svc, job, dirty>>

MoveBind(w) ==
  /\ At(w, "bind", "move")
  /\ Call(w, SetNodeHostBinding(job[w].node, job[w].host),
          To(w, "finish"), To(w, "undoProfile"))

\* rollbackNodeHostMove: panel, zones if they were changed, VPS.
UndoProfile(w) ==
  /\ pc[w] = "undoProfile"
  /\ LET to == To(w, IF loc[w].moved THEN "undoDNS" ELSE "undoSNI")
     IN Call(w, UpdateNodeProfile(job[w].node, job[w].from), to, to)

UndoDNS(w) ==
  /\ pc[w] = "undoDNS"
  /\ LET j == job[w]
     IN \/ Call(w, MoveIP(j.host, j.from, loc[w].addr), To(w, "undoSNI"), To(w, "undoSNI"))
        \/ /\ MoveIPHalf(j.host, j.from, loc[w].addr)
           /\ Goto(w, "undoSNI") /\ Spoil({job[w].node})
           /\ UNCHANGED <<svc, job, dirty>>

UndoSNI(w) ==
  /\ pc[w] = "undoSNI"
  /\ LET j == job[w]
     IN Call(w, sni[j.node] = j.host /\ SwitchNodeSNI(j.node, j.from),
             To(w, "finish"), To(w, "finish"))

Move(w) ==
  \/ MoveRead(w) \/ MoveSwitch(w) \/ MoveProfile(w) \/ MoveDNS(w) \/ MoveBind(w)
  \/ UndoProfile(w) \/ UndoDNS(w) \/ UndoSNI(w)

-----------------------------------------------------------------------------

Step(w) == Acquire(w) \/ Replace(w) \/ Sync(w) \/ Move(w) \/ Finish(w)

Next ==
  \/ \E w \in Workers : Start(w) \/ Step(w)
  \/ Shutdown \/ Restart \/ Kill
  \/ \E n \in Nodes : \E a \in Edits[n] : PanelEdit(n, a)

Spec == Init /\ [][Next]_vars

-----------------------------------------------------------------------------
(* Properties. *)

Labels ==
  {"idle", "acquire", "finish", "done", "read", "find", "update", "zones", "persist",
   "lookup", "zone", "syncReplace", "syncAdd", "syncPersist",
   "switch", "profile", "moveDNS", "bind"} \cup UndoIP \cup UndoMove

\* Type invariant of the external systems, the row and the operations of
\* ip_change.go, dns_sync.go and node_host_move.go.
NodeOpsTypeOK ==
  /\ panel \in [Nodes -> [addr : Addrs, host : Hosts]]
  /\ zones \in [Hosts -> SUBSET Addrs]
  /\ sni \in [Nodes -> Hosts]
  /\ rec \in [Nodes -> [ip : Addrs, host : Hosts]]
  /\ running \subseteq {"replace", "sync", "move"} \X Nodes
  /\ slots \subseteq Workers
  /\ stopping \in BOOLEAN
  /\ pc \in [Workers -> Labels]
  /\ job \in [Workers -> JobRecords \cup {NoJob}]
  /\ loc \in [Workers -> Locals]
  /\ spoiled \subseteq Nodes /\ dirty \subseteq Nodes

Settled(n) == \A w \in Active : job[w].node # n

\* OPERATIONS.md: "API changes are compensated when a later update fails".
\* When no operation on a Node is under way, the panel, the VPS, the row and
\* the zones agree on it, whatever failed, unless a reply or a compensation was
\* lost; after an edit in the panel, once SyncNodeDNS has succeeded.
Agreement ==
  \A n \in Nodes \ spoiled : Settled(n) =>
    LET p == panel[n]
    IN /\ sni[n] = p.host
       /\ n \in Managed => rec[n].host = p.host
       /\ n \notin dirty =>
            /\ n \in Managed => rec[n].ip = p.addr
            /\ ~DNSDisabled => p.addr \in zones[p.host]
            /\ Edits[n] = {} => \A h \in Hosts \ {p.host} : p.addr \notin zones[h]

\* OPERATIONS.md: "A stale confirmation or duplicate new address is rejected".
\* When ReplaceNodeIP updates the panel it overwrites the address the operator
\* saw and no newer one that another operation has set, although it has compared
\* them some calls earlier.
NoStaleReplace ==
  \A w \in Workers :
    At(w, "update", "replace") /\ Edits[job[w].node] = {} =>
      panel[job[w].node].addr = job[w].old

\* README.md: "A fresh Remnawave read at confirmation prevents stale previews from
\* modifying DNS".  An address SyncNodeDNS adds to a zone is the panel's.
SyncFollowsPanel ==
  [][\A w \in Workers :
       /\ pc[w] \in {"syncReplace", "syncAdd"} /\ pc'[w] # pc[w]
       /\ zones' # zones
       => panel[job[w].node].addr = loc[w].addr]_vars
=============================================================================
