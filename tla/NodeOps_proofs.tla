--------------------------- MODULE NodeOps_proofs ---------------------------
(***************************************************************************)
(* Type correctness of NodeOps, the freshness of ReplaceNodeIP, and the    *)
(* agreement of panel, VPS, row and zones, for every set of Nodes, Hosts,  *)
(* goroutines and operations, under all faults.                            *)
(***************************************************************************)
EXTENDS NodeOps, TLAPS

SyncLabels == {"lookup", "zone", "syncReplace", "syncAdd", "syncPersist", "done"}
MoveLabels == {"switch", "profile", "moveDNS", "bind"} \cup UndoMove

\* What a goroutine at label l with locals r has read.
HasRead(l, r) ==
  /\ l \in SyncLabels => r.addr \in Addrs /\ r.host \in Hosts
  /\ l \in MoveLabels => r.addr \in Addrs

ExtOK ==
  /\ panel \in [Nodes -> [addr : Addrs, host : Hosts]]
  /\ zones \in [Hosts -> SUBSET Addrs]
  /\ sni \in [Nodes -> Hosts]
  /\ rec \in [Nodes -> [ip : Addrs, host : Hosts]]

WorkersOK ==
  /\ pc \in [Workers -> Labels]
  /\ loc \in [Workers -> Locals]
  /\ job \in [Workers -> JobRecords \cup {NoJob}]
  /\ \A w \in Workers : /\ pc[w] # "idle" => job[w] \in JobRecords
                        /\ HasRead(pc[w], loc[w])

ServiceOK ==
  /\ running \subseteq {"replace", "sync", "move"} \X Nodes
  /\ slots \subseteq Workers
  /\ stopping \in BOOLEAN
  /\ spoiled \subseteq Nodes /\ dirty \subseteq Nodes

TypeInv == ExtOK /\ WorkersOK /\ ServiceOK

\* The type invariant the run checks is part of the inductive one.
LEMMA TypeInvType == TypeInv => NodeOpsTypeOK
BY DEF TypeInv, ExtOK, WorkersOK, ServiceOK, NodeOpsTypeOK

\* A goroutine goes on at label l with locals r.
LEMMA GoesTyped ==
  ASSUME WorkersOK, NEW w \in Workers, NEW l \in Labels, NEW r \in Locals,
         pc[w] # "idle", HasRead(l, r), Goes(w, <<l, r>>), job' = job
  PROVE  WorkersOK'
BY DEF WorkersOK, Goes, HasRead, SyncLabels, MoveLabels, UndoMove

\* The outcomes of a call keep the types if its effect does.
Typed(to) == to[1] \in Labels /\ to[2] \in Locals /\ HasRead(to[1], to[2])

\* The same for a place given as a pair.
LEMMA GoesTo ==
  ASSUME WorkersOK, NEW w \in Workers, NEW to, to = <<to[1], to[2]>>,
         pc[w] # "idle", Typed(to), Goes(w, to), job' = job
  PROVE  WorkersOK'
BY GoesTyped DEF Typed

\* A spoiled Node is a Node.
LEMMA SpoilTyped ==
  ASSUME TypeInv, NEW S \in SUBSET Nodes, Spoil(S)
  PROVE  spoiled' \subseteq Nodes
BY DEF TypeInv, ServiceOK, Spoil

\* A call keeps the types if its effect and both its continuations are typed.
LEMMA CallTyped ==
  ASSUME TypeInv, NEW w \in Workers, NEW ACTION Effect, NEW ok, NEW err,
         pc[w] # "idle", Call(w, Effect, ok, err), Effect => ExtOK',
         ok = <<ok[1], ok[2]>>, err = <<err[1], err[2]>>, Typed(ok), Typed(err)
  PROVE  TypeInv'
<1>1. job[w].node \in Nodes
  BY DEF TypeInv, WorkersOK, JobRecords
<1>2. job' = job /\ (Goes(w, ok) \/ Goes(w, err))
  BY DEF Call
<1>3. WorkersOK'
  BY <1>2, GoesTo DEF TypeInv
<1>4. ExtOK'
  BY DEF Call, ext, TypeInv, ExtOK
<1>5. spoiled' \subseteq Nodes
  BY <1>1, SpoilTyped DEF Call, TypeInv, ServiceOK
<1> QED BY <1>3, <1>4, <1>5 DEF Call, TypeInv, ServiceOK, svc

\* Calls that change nothing.
LEMMA ReadsTyped ==
  ASSUME TypeInv, NEW w \in Workers, NEW to, pc[w] # "idle",
         Reads(w, to) \/ Finds(w, to), to = <<to[1], to[2]>>, Typed(to)
  PROVE  TypeInv'
<1> DEFINE end == To(w, "finish")
<1>1. end = <<end[1], end[2]>> /\ Typed(end)
  BY DEF To, Typed, TypeInv, WorkersOK, Labels, HasRead, SyncLabels, MoveLabels, UndoMove
<1>2. job' = job /\ (Goes(w, to) \/ Goes(w, end))
  BY DEF Reads, Finds, Goto
<1> HIDE DEF end
<1>3. WorkersOK'
  BY <1>1, <1>2, GoesTo DEF TypeInv
<1> QED BY <1>3 DEF Reads, Finds, TypeInv, ServiceOK, svc, ext, ExtOK

\* The effects keep the types of the external systems and the row.
LEMMA PanelTyped ==
  ASSUME ExtOK, NEW n \in Nodes, NEW a \in Addrs, NEW h \in Hosts,
         UpdateNodeAddress(n, a) \/ UpdateNodeProfile(n, h)
  PROVE  ExtOK'
BY DEF ExtOK, UpdateNodeAddress, UpdateNodeProfile

\* The switch of the VPS keeps the types.
LEMMA SwitchTyped ==
  ASSUME ExtOK, NEW n \in Nodes, NEW h \in Hosts, SwitchNodeSNI(n, h)
  PROVE  ExtOK'
BY DEF ExtOK, SwitchNodeSNI

\* The updates of the row keep the types.
LEMMA RowTyped ==
  ASSUME ExtOK, NEW n \in Nodes, NEW a \in Addrs, NEW h \in Hosts,
         SetTargetVPSIP(n, a) \/ SetNodeHostBinding(n, h)
  PROVE  ExtOK'
BY DEF ExtOK, SetTargetVPSIP, SetNodeHostBinding

\* The updates of the zones keep the types.
LEMMA ZoneTyped ==
  ASSUME ExtOK, NEW g \in Hosts, NEW h \in Hosts, NEW b \in Addrs, NEW a,
         \/ ReplaceIP(h, a, b) \/ AddIP(h, b)
         \/ MoveIP(g, h, b) \/ MoveIPHalf(g, h, b)
  PROVE  ExtOK'
BY DEF ExtOK, ReplaceIP, AddIP, MoveIP, MoveIPHalf, SetZones

\* A goroutine that is not idle has an operation, and its fields are typed.
LEMMA JobTyped ==
  ASSUME TypeInv, NEW w \in Workers, pc[w] # "idle"
  PROVE  /\ job[w] \in JobRecords /\ job[w].node \in Nodes
         /\ job[w].old \in Addrs /\ job[w].new \in Addrs
         /\ job[w].from \in Hosts /\ job[w].host \in Hosts
BY DEF TypeInv, WorkersOK, JobRecords

\* Labels at which a goroutine needs nothing it has read.
LEMMA PlainTyped ==
  ASSUME TypeInv, NEW w \in Workers, NEW l \in Labels, NEW r \in Locals,
         l \notin SyncLabels \cup MoveLabels
  PROVE  Typed(<<l, r>>) /\ Typed(To(w, l)) /\ To(w, l) = <<To(w, l)[1], To(w, l)[2]>>
BY DEF Typed, To, HasRead, TypeInv, WorkersOK

-----------------------------------------------------------------------------
(* ReplaceNodeIP. *)

ReplaceLabels == {"find", "update", "zones", "persist", "undoZones", "undoAddr"}

\* The labels of the three operations are apart from each other.
LEMMA LabelSorts ==
  /\ ReplaceLabels \cup {"finish", "acquire", "read"} \subseteq Labels \ {"idle"}
  /\ (ReplaceLabels \cup {"finish", "acquire", "read"})
       \cap (SyncLabels \cup MoveLabels) = {}
  /\ SyncLabels \cup MoveLabels \subseteq Labels \ {"idle"}
  /\ SyncLabels \cap MoveLabels = {}
BY DEF Labels, ReplaceLabels, SyncLabels, MoveLabels, UndoIP, UndoMove

\* Where ReplaceNodeIP goes on after a zone is typed.
LEMMA AfterZonesTyped ==
  ASSUME TypeInv, NEW w \in Workers, NEW r \in Locals
  PROVE  Typed(AfterZones(w, r)) /\ AfterZones(w, r) = <<AfterZones(w, r)[1], AfterZones(w, r)[2]>>
BY PlainTyped, LabelSorts DEF AfterZones, ReplaceLabels

\* Where rollbackNodeIP starts is typed.
LEMMA RollbackTyped ==
  ASSUME TypeInv, NEW w \in Workers
  PROVE  Typed(RollbackNodeIP(w)) /\ RollbackNodeIP(w) = <<RollbackNodeIP(w)[1], RollbackNodeIP(w)[2]>>
<1>1. loc[w] \in Locals
  BY DEF TypeInv, WorkersOK
<1> QED BY <1>1, PlainTyped, LabelSorts DEF RollbackNodeIP, To, ReplaceLabels

\* The steps of ReplaceNodeIP keep the types.
LEMMA ReplaceTyped ==
  ASSUME TypeInv, NEW w \in Workers, Replace(w)
  PROVE  TypeInv'
<1> DEFINE j == job[w]
           end == To(w, "finish")
<1>0. loc[w] \in Locals /\ ExtOK
  BY DEF TypeInv, WorkersOK
<1>e. Typed(end) /\ end = <<end[1], end[2]>>
  BY <1>0, PlainTyped, LabelSorts DEF ReplaceLabels
<1>1. ASSUME ReplaceRead(w) PROVE TypeInv'
  <2> DEFINE to == To(w, IF ReplaceFresh(j) THEN "find" ELSE "finish")
  <2>1. Typed(to) /\ to = <<to[1], to[2]>>
    BY <1>0, PlainTyped, LabelSorts DEF ReplaceLabels
  <2>2. pc[w] # "idle" /\ Reads(w, to)
    BY <1>1 DEF ReplaceRead, At
  <2> HIDE DEF to
  <2> QED BY <2>1, <2>2, ReadsTyped
<1>2. ASSUME ReplaceFind(w) PROVE TypeInv'
  <2> DEFINE r == [loc[w] EXCEPT !.todo = {h \in Hosts : ~DNSDisabled /\ j.old \in zones[h]}]
             to == <<"update", r>>
  <2>1. r \in Locals
    BY <1>0 DEF Locals
  <2>2. Typed(to) /\ to = <<to[1], to[2]>>
    BY <2>1, PlainTyped, LabelSorts DEF ReplaceLabels
  <2>3. pc[w] # "idle" /\ Reads(w, to)
    BY <1>2 DEF ReplaceFind, At
  <2> HIDE DEF to
  <2> QED BY <2>2, <2>3, ReadsTyped
<1>3. ASSUME ReplaceUpdate(w) PROVE TypeInv'
  <2> DEFINE E == UpdateNodeAddress(j.node, j.new)
             ok == AfterZones(w, loc[w])
  <2>1. pc[w] # "idle" /\ Call(w, E, ok, end)
    BY <1>3 DEF ReplaceUpdate, At
  <2>2. E => ExtOK'
    BY <1>0, <2>1, JobTyped, PanelTyped
  <2>3. Typed(ok) /\ ok = <<ok[1], ok[2]>>
    BY <1>0, AfterZonesTyped
  <2> HIDE DEF E, ok, end
  <2> QED BY <1>e, <2>1, <2>2, <2>3, CallTyped
<1>4. ASSUME ReplaceZone(w) PROVE TypeInv'
  <2>0. pc[w] # "idle"
    BY <1>4 DEF ReplaceZone, At
  <2>1. PICK h \in loc[w].todo :
          LET left == [loc[w] EXCEPT !.todo = @ \ {h}]
          IN \/ Call(w, ReplaceIP(h, j.old, j.new),
                     AfterZones(w, [left EXCEPT !.changed = @ \cup {h}]), RollbackNodeIP(w))
             \/ Finds(w, AfterZones(w, left))
    BY <1>4 DEF ReplaceZone
  <2> DEFINE left == [loc[w] EXCEPT !.todo = @ \ {h}]
             more == [left EXCEPT !.changed = @ \cup {h}]
             E == ReplaceIP(h, j.old, j.new)
             ok == AfterZones(w, more)
             same == AfterZones(w, left)
             err == RollbackNodeIP(w)
  <2>2. h \in Hosts /\ left \in Locals /\ more \in Locals
    BY <1>0 DEF Locals
  <2>3. E => ExtOK'
    BY <1>0, <2>0, <2>2, JobTyped, ZoneTyped
  <2>4. /\ Typed(ok) /\ ok = <<ok[1], ok[2]>>
        /\ Typed(same) /\ same = <<same[1], same[2]>>
        /\ Typed(err) /\ err = <<err[1], err[2]>>
    BY <2>2, AfterZonesTyped, RollbackTyped
  <2>5. Call(w, E, ok, err) \/ Finds(w, same)
    BY <2>1
  <2> HIDE DEF E, ok, same, err
  <2> QED BY <2>0, <2>3, <2>4, <2>5, CallTyped, ReadsTyped
<1>5. ASSUME ReplacePersist(w) PROVE TypeInv'
  <2> DEFINE E == SetTargetVPSIP(j.node, j.new)
             err == RollbackNodeIP(w)
  <2>1. pc[w] # "idle" /\ Call(w, E, end, err)
    BY <1>5 DEF ReplacePersist, At
  <2>2. E => ExtOK'
    BY <1>0, <2>1, JobTyped, RowTyped
  <2>3. Typed(err) /\ err = <<err[1], err[2]>>
    BY RollbackTyped
  <2> HIDE DEF E, err, end
  <2> QED BY <1>e, <2>1, <2>2, <2>3, CallTyped
<1>6. ASSUME UndoZone(w) PROVE TypeInv'
  <2>0. pc[w] # "idle"
    BY <1>6 DEF UndoZone
  <2>1. PICK h \in loc[w].changed :
          LET left == [loc[w] EXCEPT !.changed = @ \ {h}]
              to == <<IF left.changed = {} THEN "undoAddr" ELSE "undoZones", left>>
          IN Call(w, ReplaceIP(h, j.new, j.old), to, to)
    BY <1>6 DEF UndoZone
  <2> DEFINE left == [loc[w] EXCEPT !.changed = @ \ {h}]
             to == <<IF left.changed = {} THEN "undoAddr" ELSE "undoZones", left>>
             E == ReplaceIP(h, j.new, j.old)
  <2>2. h \in Hosts /\ left \in Locals
    BY <1>0 DEF Locals
  <2>3. E => ExtOK'
    BY <1>0, <2>0, <2>2, JobTyped, ZoneTyped
  <2>4. Typed(to) /\ to = <<to[1], to[2]>>
    BY <2>2, PlainTyped, LabelSorts DEF ReplaceLabels
  <2>5. Call(w, E, to, to)
    BY <2>1
  <2> HIDE DEF E, to
  <2> QED BY <2>0, <2>3, <2>4, <2>5, CallTyped
<1>7. ASSUME UndoAddr(w) PROVE TypeInv'
  <2> DEFINE E == UpdateNodeAddress(j.node, j.old)
  <2>1. pc[w] # "idle" /\ Call(w, E, end, end)
    BY <1>7 DEF UndoAddr
  <2>2. E => ExtOK'
    BY <1>0, <2>1, JobTyped, PanelTyped
  <2> HIDE DEF E, end
  <2> QED BY <1>e, <2>1, <2>2, CallTyped
<1> QED BY <1>1, <1>2, <1>3, <1>4, <1>5, <1>6, <1>7 DEF Replace

-----------------------------------------------------------------------------
(* SyncNodeDNS. *)

\* After the read of SyncRead, every label of the operation is typed.
LEMMA SyncTo ==
  ASSUME TypeInv, NEW w \in Workers, NEW l \in SyncLabels, NEW r \in Locals,
         r.addr \in Addrs, r.host \in Hosts
  PROVE  Typed(<<l, r>>)
BY LabelSorts DEF Typed, HasRead

\* The steps of SyncNodeDNS keep the types.
LEMMA SyncTyped ==
  ASSUME TypeInv, NEW w \in Workers, Sync(w)
  PROVE  TypeInv'
<1> DEFINE n == job[w].node
           end == To(w, "finish")
           settled == SyncSettled(w)
<1>0. loc[w] \in Locals /\ ExtOK
  BY DEF TypeInv, WorkersOK
<1>e. Typed(end) /\ end = <<end[1], end[2]>>
  BY <1>0, PlainTyped, LabelSorts DEF ReplaceLabels
<1>s. ASSUME pc[w] \in SyncLabels
      PROVE  /\ loc[w].addr \in Addrs /\ loc[w].host \in Hosts
             /\ \A l \in SyncLabels : Typed(To(w, l)) /\ To(w, l) = <<To(w, l)[1], To(w, l)[2]>>
             /\ Typed(settled) /\ settled = <<settled[1], settled[2]>>
  <2>1. loc[w].addr \in Addrs /\ loc[w].host \in Hosts
    BY <1>s DEF TypeInv, WorkersOK, HasRead
  <2>2. \A l \in SyncLabels : Typed(To(w, l)) /\ To(w, l) = <<To(w, l)[1], To(w, l)[2]>>
    BY <1>0, <2>1, SyncTo DEF To
  <2>3. Typed(settled) /\ settled = <<settled[1], settled[2]>>
    BY <2>2 DEF SyncSettled, SyncLabels
  <2> QED BY <2>1, <2>2, <2>3
<1>1. ASSUME SyncRead(w) PROVE TypeInv'
  <2> DEFINE now == panel[n]
             r == [loc[w] EXCEPT !.addr = now.addr, !.host = now.host]
             to == <<IF now.addr = job[w].old THEN "lookup" ELSE "finish", r>>
  <2>1. pc[w] # "idle" /\ Reads(w, to)
    BY <1>1 DEF SyncRead, At
  <2>2. now.addr \in Addrs /\ now.host \in Hosts
    BY <1>0, <2>1, JobTyped DEF ExtOK
  <2>3. r \in Locals /\ r.addr \in Addrs /\ r.host \in Hosts
    BY <1>0, <2>2 DEF Locals
  <2>4. Typed(<<"lookup", r>>) /\ Typed(<<"finish", r>>)
    BY <2>3, SyncTo, PlainTyped, LabelSorts DEF SyncLabels, ReplaceLabels
  <2>5. Typed(to) /\ to = <<to[1], to[2]>>
    BY <2>4
  <2> HIDE DEF to
  <2> QED BY <2>1, <2>5, ReadsTyped
<1>2. ASSUME SyncLookup(w) PROVE TypeInv'
  <2> DEFINE r == IF n \notin Managed THEN loc[w]
                  ELSE [loc[w] EXCEPT !.prev = rec[n].ip, !.host = rec[n].host]
             to == <<"zone", r>>
  <2>1. pc[w] = "lookup" /\ Reads(w, to)
    BY <1>2 DEF SyncLookup, At
  <2>2. rec[n].ip \in Addrs /\ rec[n].host \in Hosts
    BY <1>0, <2>1, JobTyped DEF ExtOK
  <2>3. loc[w].addr \in Addrs /\ loc[w].host \in Hosts
    BY <2>1, <1>s DEF SyncLabels
  <2>4. r \in Locals /\ r.addr \in Addrs /\ r.host \in Hosts
    BY <1>0, <2>2, <2>3 DEF Locals
  <2>5. Typed(to) /\ to = <<to[1], to[2]>>
    BY <2>4, SyncTo DEF SyncLabels
  <2> HIDE DEF to
  <2> QED BY <2>1, <2>5, ReadsTyped
<1>3. ASSUME SyncZone(w) PROVE TypeInv'
  <2> DEFINE r == loc[w]
             z == zones[r.host]
             to == IF r.prev # r.addr /\ r.prev \in z THEN To(w, "syncReplace")
                   ELSE IF r.addr \in z THEN settled
                   ELSE IF r.host \in Advanced /\ z # {} THEN end
                   ELSE To(w, "syncAdd")
  <2>1. pc[w] = "zone" /\ Reads(w, to)
    BY <1>3 DEF SyncZone, At
  <2>2. Typed(to) /\ to = <<to[1], to[2]>>
    BY <2>1, <1>s, <1>e DEF SyncLabels
  <2> HIDE DEF to
  <2> QED BY <2>1, <2>2, ReadsTyped
<1>4. ASSUME SyncReplace(w) PROVE TypeInv'
  <2> DEFINE E == ReplaceIP(loc[w].host, loc[w].prev, loc[w].addr)
  <2>1. pc[w] = "syncReplace" /\ (Call(w, E, settled, end) \/ Finds(w, settled))
    BY <1>4 DEF SyncReplace, At
  <2>2. E => ExtOK'
    BY <1>0, <1>s, <2>1, ZoneTyped DEF SyncLabels
  <2>3. Typed(settled) /\ settled = <<settled[1], settled[2]>>
    BY <1>s, <2>1 DEF SyncLabels
  <2> HIDE DEF E, settled, end
  <2> QED BY <1>e, <2>1, <2>2, <2>3, CallTyped, ReadsTyped
<1>5. ASSUME SyncAdd(w) PROVE TypeInv'
  <2> DEFINE E == AddIP(loc[w].host, loc[w].addr)
  <2>1. pc[w] = "syncAdd" /\ Call(w, E, settled, end)
    BY <1>5 DEF SyncAdd, At
  <2>2. E => ExtOK'
    BY <1>0, <1>s, <2>1, ZoneTyped DEF SyncLabels
  <2>3. Typed(settled) /\ settled = <<settled[1], settled[2]>>
    BY <1>s, <2>1 DEF SyncLabels
  <2> HIDE DEF E, settled, end
  <2> QED BY <1>e, <2>1, <2>2, <2>3, CallTyped
<1>6. ASSUME SyncPersist(w) PROVE TypeInv'
  <2> DEFINE E == SetTargetVPSIP(n, loc[w].addr)
             ok == To(w, "done")
  <2>1. pc[w] = "syncPersist" /\ Call(w, E, ok, end)
    BY <1>6 DEF SyncPersist, At
  <2>2. E => ExtOK'
    BY <1>0, <1>s, <2>1, JobTyped, RowTyped DEF SyncLabels
  <2>3. Typed(ok) /\ ok = <<ok[1], ok[2]>>
    BY <1>s, <2>1 DEF SyncLabels
  <2> HIDE DEF E, ok, end
  <2> QED BY <1>e, <2>1, <2>2, <2>3, CallTyped
<1> QED BY <1>1, <1>2, <1>3, <1>4, <1>5, <1>6 DEF Sync

-----------------------------------------------------------------------------
(* MoveNodeToHost. *)

\* The steps of MoveNodeToHost keep the types.
LEMMA MoveTyped ==
  ASSUME TypeInv, NEW w \in Workers, Move(w)
  PROVE  TypeInv'
<1> DEFINE j == job[w]
           a == loc[w].addr
           end == To(w, "finish")
           undo == To(w, "undoProfile")
<1>0. loc[w] \in Locals /\ ExtOK
  BY DEF TypeInv, WorkersOK
<1>e. Typed(end) /\ end = <<end[1], end[2]>>
  BY <1>0, PlainTyped, LabelSorts DEF ReplaceLabels
<1>m. ASSUME NEW l \in MoveLabels, NEW r \in Locals, r.addr \in Addrs
      PROVE  Typed(<<l, r>>)
  BY <1>m, LabelSorts DEF Typed, HasRead
<1>s. ASSUME pc[w] \in MoveLabels
      PROVE  /\ a \in Addrs
             /\ \A l \in MoveLabels : Typed(To(w, l)) /\ To(w, l) = <<To(w, l)[1], To(w, l)[2]>>
             /\ \A r \in Locals : r.addr = a =>
                  /\ Typed(AfterMove(w, r))
                  /\ AfterMove(w, r) = <<AfterMove(w, r)[1], AfterMove(w, r)[2]>>
  <2>1. a \in Addrs
    BY <1>s DEF TypeInv, WorkersOK, HasRead
  <2>2. \A l \in MoveLabels : Typed(To(w, l)) /\ To(w, l) = <<To(w, l)[1], To(w, l)[2]>>
    BY <1>0, <1>m, <2>1 DEF To
  <2>3. ASSUME NEW r \in Locals, r.addr = a
        PROVE  Typed(<<"bind", r>>) /\ Typed(<<"finish", r>>)
    BY <1>m, <2>1, <2>3, PlainTyped, LabelSorts DEF MoveLabels, ReplaceLabels
  <2> QED BY <2>1, <2>2, <2>3 DEF AfterMove
<1>1. ASSUME MoveRead(w) PROVE TypeInv'
  <2> DEFINE now == panel[j.node]
             r == [loc[w] EXCEPT !.addr = now.addr]
             to == <<IF now.host = j.from /\ j.from # j.host THEN "switch" ELSE "finish", r>>
  <2>1. pc[w] # "idle" /\ Reads(w, to)
    BY <1>1 DEF MoveRead, At
  <2>2. now.addr \in Addrs
    BY <1>0, <2>1, JobTyped DEF ExtOK
  <2>3. r \in Locals /\ r.addr \in Addrs
    BY <1>0, <2>2 DEF Locals
  <2>4. Typed(<<"switch", r>>) /\ Typed(<<"finish", r>>)
    BY <1>m, <2>3, PlainTyped, LabelSorts DEF MoveLabels, ReplaceLabels
  <2>5. Typed(to) /\ to = <<to[1], to[2]>>
    BY <2>4
  <2> HIDE DEF to
  <2> QED BY <2>1, <2>5, ReadsTyped
<1>2. ASSUME MoveSwitch(w) PROVE TypeInv'
  <2> DEFINE E == sni[j.node] = j.from /\ SwitchNodeSNI(j.node, j.host)
             ok == To(w, "profile")
  <2>1. pc[w] = "switch" /\ Call(w, E, ok, end)
    BY <1>2 DEF MoveSwitch, At
  <2>2. E => ExtOK'
    BY <1>0, <2>1, JobTyped, SwitchTyped
  <2>3. Typed(ok) /\ ok = <<ok[1], ok[2]>>
    BY <1>s, <2>1 DEF MoveLabels
  <2> HIDE DEF E, ok, end
  <2> QED BY <1>e, <2>1, <2>2, <2>3, CallTyped
<1>3. ASSUME MoveProfile(w) PROVE TypeInv'
  <2> DEFINE E == UpdateNodeProfile(j.node, j.host)
             ok == IF DNSDisabled THEN AfterMove(w, loc[w]) ELSE To(w, "moveDNS")
  <2>1. pc[w] = "profile" /\ Call(w, E, ok, undo)
    BY <1>3 DEF MoveProfile, At
  <2>2. E => ExtOK'
    BY <1>0, <2>1, JobTyped, PanelTyped
  <2>3. /\ Typed(ok) /\ ok = <<ok[1], ok[2]>>
        /\ Typed(undo) /\ undo = <<undo[1], undo[2]>>
    BY <1>0, <1>s, <2>1 DEF MoveLabels, UndoMove
  <2> HIDE DEF E, ok, undo
  <2> QED BY <2>1, <2>2, <2>3, CallTyped
<1>4. ASSUME MoveDNS(w) PROVE TypeInv'
  <2> DEFINE E == MoveIP(j.from, j.host, a)
             r == [loc[w] EXCEPT !.moved = TRUE]
             ok == AfterMove(w, r)
             same == AfterMove(w, loc[w])
  <2>0. r \in Locals /\ r.addr = a
    BY <1>0 DEF Locals
  <2>1. pc[w] = "moveDNS" /\ pc[w] \in MoveLabels
    BY <1>4 DEF MoveDNS, At, MoveLabels
  <2>2. /\ Typed(ok) /\ ok = <<ok[1], ok[2]>>
        /\ Typed(same) /\ same = <<same[1], same[2]>>
        /\ Typed(undo) /\ undo = <<undo[1], undo[2]>>
    BY <1>0, <1>s, <2>0, <2>1 DEF MoveLabels, UndoMove
  <2>3. E \/ MoveIPHalf(j.from, j.host, a) => ExtOK'
    BY <1>0, <1>s, <2>1, JobTyped, ZoneTyped
  <2>4. \/ Call(w, E, ok, undo) \/ Finds(w, same)
        \/ /\ MoveIPHalf(j.from, j.host, a) /\ Goes(w, undo) /\ Spoil({j.node})
           /\ UNCHANGED <<svc, job, dirty>>
    BY <1>4 DEF MoveDNS, Goto
  <2> HIDE DEF E, ok, same, undo
  <2>5. CASE Call(w, E, ok, undo) \/ Finds(w, same)
    BY <2>1, <2>2, <2>3, <2>5, CallTyped, ReadsTyped
  <2>6. CASE /\ MoveIPHalf(j.from, j.host, a) /\ Goes(w, undo) /\ Spoil({j.node})
             /\ UNCHANGED <<svc, job, dirty>>
    <3>1. WorkersOK'
      BY <2>1, <2>2, <2>6, GoesTo DEF TypeInv
    <3>2. spoiled' \subseteq Nodes
      BY <2>1, <2>6, JobTyped, SpoilTyped
    <3> QED BY <2>3, <2>6, <3>1, <3>2 DEF TypeInv, ServiceOK, svc
  <2> QED BY <2>4, <2>5, <2>6
<1>5. ASSUME MoveBind(w) PROVE TypeInv'
  <2> DEFINE E == SetNodeHostBinding(j.node, j.host)
  <2>1. pc[w] = "bind" /\ Call(w, E, end, undo)
    BY <1>5 DEF MoveBind, At
  <2>2. E => ExtOK'
    BY <1>0, <2>1, JobTyped, RowTyped
  <2>3. Typed(undo) /\ undo = <<undo[1], undo[2]>>
    BY <1>s, <2>1 DEF MoveLabels, UndoMove
  <2> HIDE DEF E, end, undo
  <2> QED BY <1>e, <2>1, <2>2, <2>3, CallTyped
<1>6. ASSUME UndoProfile(w) PROVE TypeInv'
  <2> DEFINE E == UpdateNodeProfile(j.node, j.from)
             to == To(w, IF loc[w].moved THEN "undoDNS" ELSE "undoSNI")
  <2>1. pc[w] = "undoProfile" /\ Call(w, E, to, to)
    BY <1>6 DEF UndoProfile
  <2>2. E => ExtOK'
    BY <1>0, <2>1, JobTyped, PanelTyped
  <2>3. Typed(to) /\ to = <<to[1], to[2]>>
    BY <1>s, <2>1 DEF MoveLabels, UndoMove
  <2> HIDE DEF E, to
  <2> QED BY <2>1, <2>2, <2>3, CallTyped
<1>7. ASSUME UndoDNS(w) PROVE TypeInv'
  <2> DEFINE E == MoveIP(j.host, j.from, a)
             to == To(w, "undoSNI")
  <2>1. pc[w] = "undoDNS" /\ pc[w] \in MoveLabels
    BY <1>7 DEF UndoDNS, MoveLabels, UndoMove
  <2>2. Typed(to) /\ to = <<to[1], to[2]>>
    BY <1>s, <2>1 DEF MoveLabels, UndoMove
  <2>3. E \/ MoveIPHalf(j.host, j.from, a) => ExtOK'
    BY <1>0, <1>s, <2>1, JobTyped, ZoneTyped
  <2>4. \/ Call(w, E, to, to)
        \/ /\ MoveIPHalf(j.host, j.from, a) /\ Goes(w, to) /\ Spoil({j.node})
           /\ UNCHANGED <<svc, job, dirty>>
    BY <1>7 DEF UndoDNS, Goto
  <2> HIDE DEF E, to
  <2>5. CASE Call(w, E, to, to)
    BY <2>1, <2>2, <2>3, <2>5, CallTyped
  <2>6. CASE /\ MoveIPHalf(j.host, j.from, a) /\ Goes(w, to) /\ Spoil({j.node})
             /\ UNCHANGED <<svc, job, dirty>>
    <3>1. WorkersOK'
      BY <2>1, <2>2, <2>6, GoesTo DEF TypeInv
    <3>2. spoiled' \subseteq Nodes
      BY <2>1, <2>6, JobTyped, SpoilTyped
    <3> QED BY <2>3, <2>6, <3>1, <3>2 DEF TypeInv, ServiceOK, svc
  <2> QED BY <2>4, <2>5, <2>6
<1>8. ASSUME UndoSNI(w) PROVE TypeInv'
  <2> DEFINE E == sni[j.node] = j.host /\ SwitchNodeSNI(j.node, j.from)
  <2>1. pc[w] # "idle" /\ Call(w, E, end, end)
    BY <1>8 DEF UndoSNI
  <2>2. E => ExtOK'
    BY <1>0, <2>1, JobTyped, SwitchTyped
  <2> HIDE DEF E, end
  <2> QED BY <1>e, <2>1, <2>2, CallTyped
<1> QED BY <1>1, <1>2, <1>3, <1>4, <1>5, <1>6, <1>7, <1>8 DEF Move

-----------------------------------------------------------------------------
(* Registration, shutdown and edits of the panel. *)

\* beginExecution keeps the types.
LEMMA StartTyped ==
  ASSUME TypeInv, NodeOpsAssumption, NEW w \in Workers, Start(w)
  PROVE  TypeInv'
<1>1. PICK j \in Offers[w] : /\ running' = running \cup {Key(j)}
                            /\ job' = [job EXCEPT ![w] = j]
  BY DEF Start
<1>2. j \in JobRecords /\ Key(j) \in {"replace", "sync", "move"} \X Nodes
  BY DEF NodeOpsAssumption, JobRecords, Key
<1>3. /\ pc' = [pc EXCEPT ![w] = "acquire"] /\ loc' = [loc EXCEPT ![w] = loc[w]]
  BY DEF Start, Goto, Goes, To
<1>4. WorkersOK'
  BY <1>1, <1>2, <1>3, LabelSorts DEF TypeInv, WorkersOK, HasRead
<1> QED BY <1>1, <1>2, <1>4 DEF Start, TypeInv, ExtOK, ServiceOK, ext

\* The acquisition of a slot keeps the types.
LEMMA AcquireTyped ==
  ASSUME TypeInv, NEW w \in Workers, Acquire(w)
  PROVE  TypeInv'
<1>1. pc[w] # "idle" /\ job' = job
      /\ (Goes(w, <<"read", loc[w]>>) \/ Goes(w, <<"finish", loc[w]>>))
  BY DEF Acquire, Goto, To
<1>2. loc[w] \in Locals /\ HasRead("read", loc[w]) /\ HasRead("finish", loc[w])
  BY LabelSorts DEF TypeInv, WorkersOK, HasRead
<1>3. WorkersOK'
  BY <1>1, <1>2, GoesTyped, LabelSorts DEF TypeInv
<1> QED BY <1>3 DEF Acquire, TypeInv, ExtOK, ServiceOK, ext

\* The locals of an idle goroutine are typed.
LEMMA BlankTyped == Blank \in Locals /\ HasRead("idle", Blank)
BY DEF Blank, Locals, HasRead, SyncLabels, MoveLabels, UndoMove

\* The end of an operation keeps the types.
LEMMA FinishTyped ==
  ASSUME TypeInv, NEW w \in Workers, Finish(w)
  PROVE  TypeInv'
<1>1. /\ job' = [job EXCEPT ![w] = NoJob] /\ pc' = [pc EXCEPT ![w] = "idle"]
      /\ loc' = [loc EXCEPT ![w] = Blank]
  BY DEF Finish, Goes
<1>2. WorkersOK'
  BY <1>1, BlankTyped DEF TypeInv, WorkersOK, Labels
<1>3. dirty' \subseteq dirty
  BY DEF Finish
<1> QED BY <1>2, <1>3 DEF Finish, TypeInv, ExtOK, ServiceOK, ext

\* A kill keeps the types.
LEMMA KillTyped ==
  ASSUME TypeInv, Kill
  PROVE  TypeInv'
<1>1. {job[w].node : w \in Active} \in SUBSET Nodes
  BY JobTyped DEF Active
<1>2. spoiled' \subseteq Nodes
  BY <1>1, SpoilTyped DEF Kill
<1>3. WorkersOK'
  BY BlankTyped DEF Kill, WorkersOK, Labels
<1> QED BY <1>2, <1>3 DEF Kill, TypeInv, ExtOK, ServiceOK, ext

\* An edit in the panel keeps the types.
LEMMA PanelEditTyped ==
  ASSUME TypeInv, NodeOpsAssumption, NEW n \in Nodes, NEW a \in Edits[n], PanelEdit(n, a)
  PROVE  TypeInv'
<1>1. a \in Addrs
  BY DEF NodeOpsAssumption
<1>2. ExtOK'
  <2> DEFINE h == panel[n].host
  <2>1. h \in Hosts
    BY DEF TypeInv, ExtOK
  <2> QED BY <1>1, <2>1, PanelTyped DEF PanelEdit, TypeInv
<1> QED BY <1>2 DEF PanelEdit, TypeInv, WorkersOK, ServiceOK, svc

\* The initial state is typed.
LEMMA InitTyped == NodeOpsAssumption /\ Init => TypeInv
<1> SUFFICES ASSUME NodeOpsAssumption, Init PROVE TypeInv
  OBVIOUS
<1>1. ExtOK
  BY DEF NodeOpsAssumption, Init, ExtOK
<1>2. WorkersOK
  BY BlankTyped DEF Init, WorkersOK, Labels
<1> QED BY <1>1, <1>2 DEF Init, TypeInv, ServiceOK

\* Every step keeps the types.
LEMMA NextTyped == NodeOpsAssumption /\ TypeInv /\ [Next]_vars => TypeInv'
<1> SUFFICES ASSUME NodeOpsAssumption, TypeInv, [Next]_vars PROVE TypeInv'
  OBVIOUS
<1>1. ASSUME NEW w \in Workers, Start(w) \/ Step(w) PROVE TypeInv'
  BY <1>1, StartTyped, AcquireTyped, ReplaceTyped, SyncTyped, MoveTyped, FinishTyped
     DEF Step
<1>2. CASE Shutdown \/ Restart
  BY <1>2 DEF Shutdown, Restart, TypeInv, ExtOK, WorkersOK, ServiceOK, ext
<1>3. CASE Kill
  BY <1>3, KillTyped
<1>4. ASSUME NEW n \in Nodes, NEW a \in Edits[n], PanelEdit(n, a) PROVE TypeInv'
  BY <1>4, PanelEditTyped
<1>5. CASE UNCHANGED vars
  BY <1>5 DEF vars, ext, svc, TypeInv, ExtOK, WorkersOK, ServiceOK
<1> QED BY <1>1, <1>2, <1>3, <1>4, <1>5 DEF Next

\* The operations of ip_change.go, dns_sync.go and node_host_move.go keep every
\* value in its type: in particular SyncNodeDNS and MoveNodeToHost never use an
\* address or a Host before the read that sets it, on any path.
THEOREM NodeOpsTyped == Spec => []NodeOpsTypeOK
<1>1. Init => TypeInv
  BY InitTyped, NodeOpsAssumption
<1>2. TypeInv /\ [Next]_vars => TypeInv'
  BY NextTyped, NodeOpsAssumption
<1> QED BY <1>1, <1>2, TypeInvType, PTL DEF Spec

-----------------------------------------------------------------------------
(* Freshness of ReplaceNodeIP.  The comparison of the panel's address with  *)
(* the confirmed one stays true until the update because every operation    *)
(* that sets the address is a ReplaceNodeIP of the Node, and the key of the *)
(* registration admits one at a time.                                       *)

Kinds == \A w \in Workers : pc[w] \in ReplaceLabels => job[w].kind = "replace"

Registered ==
  /\ \A w \in Workers : pc[w] # "idle" => Key(job[w]) \in running
  /\ \A v, w \in Workers :
       pc[v] # "idle" /\ pc[w] # "idle" /\ Key(job[v]) = Key(job[w]) => v = w

Compared ==
  \A w \in Workers :
    pc[w] \in {"find", "update"} /\ Edits[job[w].node] = {} =>
      panel[job[w].node].addr = job[w].old

FreshInv == TypeInv /\ Kinds /\ Registered /\ Compared

\* Worker v goes on at label l and keeps its operation.
Moves(v, l) == job' = job /\ running' = running /\ pc' = [pc EXCEPT ![v] = l]

SameAddrs == \A n \in Nodes : panel'[n].addr = panel[n].addr

\* What a step of an operation of worker v does, as far as freshness goes.
OpStep(v, l) ==
  /\ Moves(v, l) /\ l # "idle"
  /\ l \in ReplaceLabels => job[v].kind = "replace"
  /\ l = "find" => panel[job[v].node].addr = job[v].old
  /\ l = "update" => pc[v] = "find"
  /\ \/ SameAddrs
     \/ /\ job[v].kind = "replace" /\ l \notin {"find", "update"}
        /\ \A n \in Nodes \ {job[v].node} : panel'[n].addr = panel[n].addr

\* A call goes on at one of its two continuations.
LEMMA CallMoves ==
  ASSUME NEW w \in Workers, NEW ACTION Effect, NEW ok, NEW err, Call(w, Effect, ok, err)
  PROVE  /\ Moves(w, ok[1]) \/ Moves(w, err[1])
         /\ Effect \/ UNCHANGED panel
BY DEF Call, Moves, Goes, svc, ext

\* A read goes on or ends the operation, and leaves the panel alone.
LEMMA ReadsMoves ==
  ASSUME NEW w \in Workers, NEW to, Reads(w, to) \/ Finds(w, to)
  PROVE  (Moves(w, to[1]) \/ Moves(w, "finish")) /\ UNCHANGED panel
BY DEF Reads, Finds, Goto, Goes, To, Moves, svc, ext

\* Every effect but UpdateNodeAddress leaves the addresses alone.
LEMMA AddrsKept ==
  ASSUME TypeInv, NEW n \in Nodes, NEW g, NEW h, NEW a, NEW b,
         \/ UNCHANGED panel \/ UpdateNodeProfile(n, h) \/ SwitchNodeSNI(n, h)
         \/ SetTargetVPSIP(n, a) \/ SetNodeHostBinding(n, h) \/ ReplaceIP(h, a, b)
         \/ AddIP(h, a) \/ MoveIP(g, h, a) \/ MoveIPHalf(g, h, a)
  PROVE  SameAddrs
BY DEF SameAddrs, TypeInv, ExtOK, UpdateNodeProfile, SwitchNodeSNI, SetTargetVPSIP,
       SetNodeHostBinding, ReplaceIP, AddIP, MoveIP, MoveIPHalf, SetZones

\* An update of an address touches one Node.
LEMMA AddrSet ==
  ASSUME TypeInv, NEW n \in Nodes, NEW a, UpdateNodeAddress(n, a)
  PROVE  \A m \in Nodes \ {n} : panel'[m].addr = panel[m].addr
BY DEF TypeInv, ExtOK, UpdateNodeAddress

\* A step that leaves the addresses alone and ends at a later label.
LEMMA QuietStep ==
  ASSUME NEW w \in Workers, NEW l, Moves(w, l), l # "idle", SameAddrs,
         l \notin {"find", "update"}, l \in ReplaceLabels => job[w].kind = "replace"
  PROVE  OpStep(w, l)
BY DEF OpStep

\* What the steps of ReplaceNodeIP do to the addresses of the panel.
LEMMA ReplaceSteps ==
  ASSUME FreshInv, NEW w \in Workers, Replace(w)
  PROVE  \E l \in Labels : OpStep(w, l)
<1> DEFINE j == job[w]
<1>0. pc[w] # "idle" /\ j.node \in Nodes /\ j.kind = "replace" /\ TypeInv
  <2>1. pc[w] # "idle"
    BY DEF Replace, ReplaceRead, ReplaceFind, ReplaceUpdate, ReplaceZone,
           ReplacePersist, UndoZone, UndoAddr, At
  <2>2. j.kind = "replace"
    BY DEF Replace, ReplaceRead, ReplaceFind, ReplaceUpdate, ReplaceZone,
           ReplacePersist, UndoZone, UndoAddr, At, FreshInv, Kinds, ReplaceLabels
  <2> QED BY <2>1, <2>2, JobTyped DEF FreshInv
<1>q. ASSUME NEW l, Moves(w, l), SameAddrs,
             l \in {"zones", "persist", "undoZones", "undoAddr", "finish"}
      PROVE  \E k \in Labels : OpStep(w, k)
  BY <1>0, <1>q, QuietStep, LabelSorts DEF ReplaceLabels
<1>1. ASSUME ReplaceRead(w) PROVE \E l \in Labels : OpStep(w, l)
  <2> DEFINE to == To(w, IF ReplaceFresh(j) THEN "find" ELSE "finish")
  <2>1. Reads(w, to) /\ to[1] = IF ReplaceFresh(j) THEN "find" ELSE "finish"
    BY <1>1 DEF ReplaceRead, To
  <2> HIDE DEF to
  <2>2. (Moves(w, to[1]) \/ Moves(w, "finish")) /\ UNCHANGED panel
    BY <2>1, ReadsMoves
  <2>3. SameAddrs
    BY <2>2 DEF SameAddrs
  <2>4. CASE Moves(w, "find") /\ ReplaceFresh(j)
    <3>1. OpStep(w, "find")
      BY <1>0, <2>3, <2>4 DEF OpStep, ReplaceFresh
    <3> QED BY <3>1, LabelSorts DEF ReplaceLabels
  <2> QED BY <2>1, <2>2, <2>3, <2>4, <1>q
<1>2. ASSUME ReplaceFind(w) PROVE \E l \in Labels : OpStep(w, l)
  <2>1. pc[w] = "find" /\ (Moves(w, "update") \/ Moves(w, "finish")) /\ UNCHANGED panel
    BY <1>2 DEF ReplaceFind, At, Reads, Goto, Goes, To, Moves, svc, ext
  <2>2. SameAddrs
    BY <2>1 DEF SameAddrs
  <2>3. CASE Moves(w, "update")
    <3>1. OpStep(w, "update")
      BY <1>0, <2>1, <2>2, <2>3 DEF OpStep
    <3> QED BY <3>1, LabelSorts DEF ReplaceLabels
  <2> QED BY <2>1, <2>2, <2>3, <1>q
<1>u. ASSUME NEW a, NEW l, Moves(w, l), l \in {"zones", "persist", "finish"},
             UpdateNodeAddress(j.node, a) \/ UNCHANGED panel
      PROVE  \E k \in Labels : OpStep(w, k)
  <2>1. \A m \in Nodes \ {j.node} : panel'[m].addr = panel[m].addr
    BY <1>u, <1>0, AddrSet
  <2>2. OpStep(w, l)
    BY <1>u, <1>0, <2>1 DEF OpStep
  <2> QED BY <2>2, <1>u, LabelSorts DEF ReplaceLabels
<1>3. ASSUME ReplaceUpdate(w) PROVE \E l \in Labels : OpStep(w, l)
  <2> DEFINE E == UpdateNodeAddress(j.node, j.new)
             ok == AfterZones(w, loc[w])
             err == To(w, "finish")
  <2>1. Call(w, E, ok, err)
    BY <1>3 DEF ReplaceUpdate
  <2>2. ok[1] \in {"zones", "persist", "finish"} /\ err[1] = "finish"
    BY DEF AfterZones, To
  <2> HIDE DEF ok, err
  <2>3. (Moves(w, ok[1]) \/ Moves(w, err[1])) /\ (E \/ UNCHANGED panel)
    BY <2>1, CallMoves
  <2> QED BY <2>2, <2>3, <1>u
<1>4. ASSUME ReplaceZone(w) PROVE \E l \in Labels : OpStep(w, l)
  <2>1. PICK h \in loc[w].todo :
          LET left == [loc[w] EXCEPT !.todo = @ \ {h}]
          IN \/ Call(w, ReplaceIP(h, j.old, j.new),
                     AfterZones(w, [left EXCEPT !.changed = @ \cup {h}]), RollbackNodeIP(w))
             \/ Finds(w, AfterZones(w, left))
    BY <1>4 DEF ReplaceZone
  <2> DEFINE left == [loc[w] EXCEPT !.todo = @ \ {h}]
             E == ReplaceIP(h, j.old, j.new)
             ok == AfterZones(w, [left EXCEPT !.changed = @ \cup {h}])
             same == AfterZones(w, left)
             err == RollbackNodeIP(w)
  <2>2. /\ ok[1] \in {"zones", "persist", "finish"} /\ same[1] \in {"zones", "persist", "finish"}
        /\ err[1] \in {"undoZones", "undoAddr"}
    BY DEF AfterZones, RollbackNodeIP, To
  <2>3. Call(w, E, ok, err) \/ Finds(w, same)
    BY <2>1
  <2> HIDE DEF ok, err, same, E
  <2>4. /\ Moves(w, ok[1]) \/ Moves(w, err[1]) \/ Moves(w, same[1]) \/ Moves(w, "finish")
        /\ E \/ UNCHANGED panel
    BY <2>3, CallMoves, ReadsMoves
  <2>5. SameAddrs
    BY <1>0, <2>4, AddrsKept DEF E
  <2> QED BY <2>2, <2>4, <2>5, <1>q
<1>5. ASSUME ReplacePersist(w) PROVE \E l \in Labels : OpStep(w, l)
  <2> DEFINE E == SetTargetVPSIP(j.node, j.new)
             ok == To(w, "finish")
             err == RollbackNodeIP(w)
  <2>1. Call(w, E, ok, err)
    BY <1>5 DEF ReplacePersist
  <2>2. ok[1] = "finish" /\ err[1] \in {"undoZones", "undoAddr"}
    BY DEF RollbackNodeIP, To
  <2> HIDE DEF ok, err, E
  <2>3. (Moves(w, ok[1]) \/ Moves(w, err[1])) /\ (E \/ UNCHANGED panel)
    BY <2>1, CallMoves
  <2>4. SameAddrs
    BY <1>0, <2>3, AddrsKept DEF E
  <2> QED BY <2>2, <2>3, <2>4, <1>q
<1>6. ASSUME UndoZone(w) PROVE \E l \in Labels : OpStep(w, l)
  <2>1. PICK h \in loc[w].changed :
          LET left == [loc[w] EXCEPT !.changed = @ \ {h}]
              to == <<IF left.changed = {} THEN "undoAddr" ELSE "undoZones", left>>
          IN Call(w, ReplaceIP(h, j.new, j.old), to, to)
    BY <1>6 DEF UndoZone
  <2> DEFINE left == [loc[w] EXCEPT !.changed = @ \ {h}]
             to == <<IF left.changed = {} THEN "undoAddr" ELSE "undoZones", left>>
             E == ReplaceIP(h, j.new, j.old)
  <2>2. to[1] \in {"undoZones", "undoAddr"} /\ Call(w, E, to, to)
    BY <2>1
  <2> HIDE DEF to, E
  <2>3. Moves(w, to[1]) /\ (E \/ UNCHANGED panel)
    BY <2>2, CallMoves
  <2>4. SameAddrs
    BY <1>0, <2>3, AddrsKept DEF E
  <2> QED BY <2>2, <2>3, <2>4, <1>q
<1>7. ASSUME UndoAddr(w) PROVE \E l \in Labels : OpStep(w, l)
  <2> DEFINE E == UpdateNodeAddress(j.node, j.old)
             to == To(w, "finish")
  <2>1. to[1] = "finish" /\ Call(w, E, to, to)
    BY <1>7 DEF UndoAddr, To
  <2> HIDE DEF to
  <2>2. Moves(w, to[1]) /\ (E \/ UNCHANGED panel)
    BY <2>1, CallMoves
  <2> QED BY <2>1, <2>2, <1>u
<1> QED BY <1>1, <1>2, <1>3, <1>4, <1>5, <1>6, <1>7 DEF Replace

\* A step of another kind of operation.
LEMMA OtherStep ==
  ASSUME NEW w \in Workers, NEW l, Moves(w, l), SameAddrs,
         l \in SyncLabels \cup MoveLabels \cup {"finish"}
  PROVE  \E k \in Labels : OpStep(w, k)
<1>1. l \in Labels /\ l # "idle" /\ l \notin ReplaceLabels
  BY LabelSorts DEF ReplaceLabels
<1>2. OpStep(w, l)
  BY <1>1, QuietStep DEF ReplaceLabels
<1> QED BY <1>1, <1>2

\* What the steps of SyncNodeDNS do to the addresses of the panel: nothing.
LEMMA SyncSteps ==
  ASSUME FreshInv, NEW w \in Workers, Sync(w)
  PROVE  \E l \in Labels : OpStep(w, l)
<1> DEFINE n == job[w].node
           end == To(w, "finish")
           settled == SyncSettled(w)
           Ends == SyncLabels \cup MoveLabels \cup {"finish"}
<1>0. n \in Nodes /\ TypeInv
  <2>1. pc[w] # "idle"
    BY DEF Sync, SyncRead, SyncLookup, SyncZone, SyncReplace, SyncAdd, SyncPersist, At
  <2> QED BY <2>1, JobTyped DEF FreshInv
<1>e. end[1] \in Ends /\ settled[1] \in Ends
  BY DEF To, SyncSettled, SyncLabels
<1>r. ASSUME NEW to, Reads(w, to) \/ Finds(w, to), to[1] \in Ends
      PROVE  \E l \in Labels : OpStep(w, l)
  <2>1. (Moves(w, to[1]) \/ Moves(w, "finish")) /\ UNCHANGED panel
    BY <1>r, ReadsMoves
  <2>2. SameAddrs
    BY <2>1 DEF SameAddrs
  <2> QED BY <1>r, <2>1, <2>2, OtherStep
<1>c. ASSUME NEW ACTION E, NEW ok, Call(w, E, ok, end), E => SameAddrs, ok[1] \in Ends
      PROVE  \E l \in Labels : OpStep(w, l)
  <2> HIDE DEF end
  <2>1. (Moves(w, ok[1]) \/ Moves(w, end[1])) /\ (E \/ UNCHANGED panel)
    BY <1>c, CallMoves
  <2>2. SameAddrs
    BY <1>c, <2>1 DEF SameAddrs
  <2> QED BY <1>c, <1>e, <2>1, <2>2, OtherStep
<1> HIDE DEF end, settled
<1>1. ASSUME SyncRead(w) PROVE \E l \in Labels : OpStep(w, l)
  <2> DEFINE now == panel[n]
             to == <<IF now.addr = job[w].old THEN "lookup" ELSE "finish",
                     [loc[w] EXCEPT !.addr = now.addr, !.host = now.host]>>
  <2>1. Reads(w, to) /\ to[1] \in Ends
    BY <1>1 DEF SyncRead, SyncLabels
  <2> HIDE DEF to
  <2> QED BY <2>1, <1>r
<1>2. ASSUME SyncLookup(w) PROVE \E l \in Labels : OpStep(w, l)
  <2> DEFINE to == <<"zone", IF n \notin Managed THEN loc[w]
                             ELSE [loc[w] EXCEPT !.prev = rec[n].ip, !.host = rec[n].host]>>
  <2>1. Reads(w, to) /\ to[1] \in Ends
    BY <1>2 DEF SyncLookup, SyncLabels
  <2> HIDE DEF to
  <2> QED BY <2>1, <1>r
<1>3. ASSUME SyncZone(w) PROVE \E l \in Labels : OpStep(w, l)
  <2> DEFINE r == loc[w]
             z == zones[r.host]
             to == IF r.prev # r.addr /\ r.prev \in z THEN To(w, "syncReplace")
                   ELSE IF r.addr \in z THEN settled
                   ELSE IF r.host \in Advanced /\ z # {} THEN end
                   ELSE To(w, "syncAdd")
  <2>1. Reads(w, to)
    BY <1>3 DEF SyncZone, settled, end
  <2>2. To(w, "syncReplace")[1] \in Ends /\ To(w, "syncAdd")[1] \in Ends
    BY DEF To, SyncLabels
  <2>3. to[1] \in Ends
    BY <2>2, <1>e
  <2> HIDE DEF to
  <2> QED BY <2>1, <2>3, <1>r
<1>4. ASSUME SyncReplace(w) PROVE \E l \in Labels : OpStep(w, l)
  <2> DEFINE E == ReplaceIP(loc[w].host, loc[w].prev, loc[w].addr)
  <2>1. Call(w, E, settled, end) \/ Finds(w, settled)
    BY <1>4 DEF SyncReplace, settled, end
  <2>2. E => SameAddrs
    BY <1>0, AddrsKept
  <2> HIDE DEF E
  <2> QED BY <2>1, <2>2, <1>c, <1>r, <1>e
<1>5. ASSUME SyncAdd(w) PROVE \E l \in Labels : OpStep(w, l)
  <2> DEFINE E == AddIP(loc[w].host, loc[w].addr)
  <2>1. Call(w, E, settled, end)
    BY <1>5 DEF SyncAdd, settled, end
  <2>2. E => SameAddrs
    BY <1>0, AddrsKept
  <2> HIDE DEF E
  <2> QED BY <2>1, <2>2, <1>c, <1>e
<1>6. ASSUME SyncPersist(w) PROVE \E l \in Labels : OpStep(w, l)
  <2> DEFINE E == SetTargetVPSIP(n, loc[w].addr)
             ok == To(w, "done")
  <2>1. Call(w, E, ok, end) /\ ok[1] \in Ends
    BY <1>6 DEF SyncPersist, To, SyncLabels, end
  <2>2. E => SameAddrs
    BY <1>0, AddrsKept
  <2> HIDE DEF E, ok
  <2> QED BY <2>1, <2>2, <1>c
<1> QED BY <1>1, <1>2, <1>3, <1>4, <1>5, <1>6 DEF Sync

\* What the steps of MoveNodeToHost do to the addresses of the panel: nothing.
LEMMA MoveSteps ==
  ASSUME FreshInv, NEW w \in Workers, Move(w)
  PROVE  \E l \in Labels : OpStep(w, l)
<1> DEFINE j == job[w]
           a == loc[w].addr
           Ends == SyncLabels \cup MoveLabels \cup {"finish"}
<1>0. j.node \in Nodes /\ TypeInv
  <2>1. pc[w] # "idle"
    BY DEF Move, MoveRead, MoveSwitch, MoveProfile, MoveDNS, MoveBind, UndoProfile,
           UndoDNS, UndoSNI, At
  <2> QED BY <2>1, JobTyped DEF FreshInv
<1>l. ASSUME NEW l \in MoveLabels \cup {"finish"} PROVE To(w, l)[1] \in Ends
  BY DEF To
<1>k. MoveLabels = {"switch", "profile", "moveDNS", "bind", "undoProfile", "undoDNS", "undoSNI"}
  BY DEF MoveLabels, UndoMove
<1>a. ASSUME NEW r PROVE AfterMove(w, r)[1] \in Ends
  BY <1>k DEF AfterMove
<1>r. ASSUME NEW to, Reads(w, to) \/ Finds(w, to), to[1] \in Ends
      PROVE  \E l \in Labels : OpStep(w, l)
  <2>1. (Moves(w, to[1]) \/ Moves(w, "finish")) /\ UNCHANGED panel
    BY <1>r, ReadsMoves
  <2>2. SameAddrs
    BY <2>1 DEF SameAddrs
  <2> QED BY <1>r, <2>1, <2>2, OtherStep
<1>c. ASSUME NEW ACTION E, NEW ok, NEW err, Call(w, E, ok, err), E => SameAddrs,
             ok[1] \in Ends, err[1] \in Ends
      PROVE  \E l \in Labels : OpStep(w, l)
  <2>1. (Moves(w, ok[1]) \/ Moves(w, err[1])) /\ (E \/ UNCHANGED panel)
    BY <1>c, CallMoves
  <2>2. SameAddrs
    BY <1>c, <2>1 DEF SameAddrs
  <2> QED BY <1>c, <2>1, <2>2, OtherStep
<1>h. ASSUME NEW g, NEW h, NEW l \in MoveLabels, MoveIPHalf(g, h, a), Goto(w, l),
             UNCHANGED <<svc, job, dirty>>
      PROVE  \E k \in Labels : OpStep(w, k)
  <2>1. Moves(w, l)
    BY <1>h DEF Goto, Goes, To, Moves, svc
  <2>2. SameAddrs
    BY <1>h, <1>0, AddrsKept
  <2> QED BY <2>1, <2>2, OtherStep
<1> DEFINE end == To(w, "finish")
           undo == To(w, "undoProfile")
<1>e. end[1] \in Ends /\ undo[1] \in Ends
  BY <1>l, <1>k
<1> HIDE DEF end, undo
<1>1. ASSUME MoveRead(w) PROVE \E l \in Labels : OpStep(w, l)
  <2> DEFINE now == panel[j.node]
             to == <<IF now.host = j.from /\ j.from # j.host THEN "switch" ELSE "finish",
                     [loc[w] EXCEPT !.addr = now.addr]>>
  <2>1. Reads(w, to) /\ to[1] \in Ends
    BY <1>1, <1>k DEF MoveRead
  <2> HIDE DEF to
  <2> QED BY <2>1, <1>r
<1>2. ASSUME MoveSwitch(w) PROVE \E l \in Labels : OpStep(w, l)
  <2> DEFINE E == sni[j.node] = j.from /\ SwitchNodeSNI(j.node, j.host)
             ok == To(w, "profile")
  <2>1. Call(w, E, ok, end) /\ ok[1] \in Ends
    BY <1>2, <1>l, <1>k DEF MoveSwitch, end
  <2>2. E => SameAddrs
    BY <1>0, AddrsKept
  <2> HIDE DEF E, ok
  <2> QED BY <2>1, <2>2, <1>c, <1>e
<1>3. ASSUME MoveProfile(w) PROVE \E l \in Labels : OpStep(w, l)
  <2> DEFINE E == UpdateNodeProfile(j.node, j.host)
             ok == IF DNSDisabled THEN AfterMove(w, loc[w]) ELSE To(w, "moveDNS")
  <2>1. Call(w, E, ok, undo) /\ ok[1] \in Ends
    BY <1>3, <1>a, <1>l, <1>k DEF MoveProfile, undo
  <2>2. E => SameAddrs
    BY <1>0, AddrsKept
  <2> HIDE DEF E, ok
  <2> QED BY <2>1, <2>2, <1>c, <1>e
<1>4. ASSUME MoveDNS(w) PROVE \E l \in Labels : OpStep(w, l)
  <2> DEFINE E == MoveIP(j.from, j.host, a)
             ok == AfterMove(w, [loc[w] EXCEPT !.moved = TRUE])
             same == AfterMove(w, loc[w])
  <2>1. \/ Call(w, E, ok, undo) \/ Finds(w, same)
        \/ /\ MoveIPHalf(j.from, j.host, a) /\ Goto(w, "undoProfile")
           /\ UNCHANGED <<svc, job, dirty>>
    BY <1>4 DEF MoveDNS, undo
  <2>2. ok[1] \in Ends /\ same[1] \in Ends
    BY <1>a
  <2>3. E => SameAddrs
    BY <1>0, AddrsKept
  <2>4. CASE MoveIPHalf(j.from, j.host, a) /\ Goto(w, "undoProfile") /\ UNCHANGED <<svc, job, dirty>>
    BY <2>4, <1>h, <1>k
  <2> HIDE DEF E, ok, same
  <2> QED BY <2>1, <2>2, <2>3, <2>4, <1>c, <1>r, <1>e
<1>5. ASSUME MoveBind(w) PROVE \E l \in Labels : OpStep(w, l)
  <2> DEFINE E == SetNodeHostBinding(j.node, j.host)
  <2>1. Call(w, E, end, undo)
    BY <1>5 DEF MoveBind, end, undo
  <2>2. E => SameAddrs
    BY <1>0, AddrsKept
  <2> HIDE DEF E
  <2> QED BY <2>1, <2>2, <1>c, <1>e
<1>6. ASSUME UndoProfile(w) PROVE \E l \in Labels : OpStep(w, l)
  <2> DEFINE E == UpdateNodeProfile(j.node, j.from)
             to == To(w, IF loc[w].moved THEN "undoDNS" ELSE "undoSNI")
  <2>1. Call(w, E, to, to) /\ to[1] \in Ends
    BY <1>6, <1>l, <1>k DEF UndoProfile
  <2>2. E => SameAddrs
    BY <1>0, AddrsKept
  <2> HIDE DEF E, to
  <2> QED BY <2>1, <2>2, <1>c
<1>7. ASSUME UndoDNS(w) PROVE \E l \in Labels : OpStep(w, l)
  <2> DEFINE E == MoveIP(j.host, j.from, a)
             to == To(w, "undoSNI")
  <2>1. \/ Call(w, E, to, to)
        \/ /\ MoveIPHalf(j.host, j.from, a) /\ Goto(w, "undoSNI")
           /\ UNCHANGED <<svc, job, dirty>>
    BY <1>7 DEF UndoDNS
  <2>2. to[1] \in Ends
    BY <1>l, <1>k
  <2>3. E => SameAddrs
    BY <1>0, AddrsKept
  <2>4. CASE MoveIPHalf(j.host, j.from, a) /\ Goto(w, "undoSNI") /\ UNCHANGED <<svc, job, dirty>>
    BY <2>4, <1>h, <1>k
  <2> HIDE DEF E, to
  <2> QED BY <2>1, <2>2, <2>3, <2>4, <1>c
<1>8. ASSUME UndoSNI(w) PROVE \E l \in Labels : OpStep(w, l)
  <2> DEFINE E == sni[j.node] = j.host /\ SwitchNodeSNI(j.node, j.from)
  <2>1. Call(w, E, end, end)
    BY <1>8 DEF UndoSNI, end
  <2>2. E => SameAddrs
    BY <1>0, AddrsKept
  <2> HIDE DEF E
  <2> QED BY <2>1, <2>2, <1>c, <1>e
<1> QED BY <1>1, <1>2, <1>3, <1>4, <1>5, <1>6, <1>7, <1>8 DEF Move

-----------------------------------------------------------------------------
(* The inductive step, for the parts of FreshInv. *)

\* A step of an operation keeps what every other operation has compared.
LEMMA OpFresh ==
  ASSUME FreshInv, TypeInv', NEW v \in Workers, NEW l \in Labels, OpStep(v, l), pc[v] # "idle"
  PROVE  FreshInv'
<1>1. /\ job' = job /\ running' = running /\ pc'[v] = l
      /\ \A w \in Workers \ {v} : pc'[w] = pc[w]
      /\ \A w \in Workers : pc'[w] # "idle" => pc[w] # "idle"
  BY DEF OpStep, Moves, FreshInv, TypeInv, WorkersOK
<1>2. Kinds'
  BY <1>1 DEF Kinds, OpStep, FreshInv
<1>3. Registered'
  BY <1>1 DEF Registered, FreshInv, Key
<1>4. Compared'
  <2> SUFFICES ASSUME NEW w \in Workers, pc'[w] \in {"find", "update"},
                      Edits[job[w].node] = {}
               PROVE  panel'[job[w].node].addr = job[w].old
    BY <1>1 DEF Compared
  <2>0. pc[w] # "idle" /\ job[w].node \in Nodes
    BY <1>1, JobTyped DEF FreshInv
  <2>1. CASE w = v
    <3>1. SameAddrs
      BY <1>1, <2>1 DEF OpStep
    <3>2. panel[job[w].node].addr = job[w].old
      BY <1>1, <2>1 DEF OpStep, FreshInv, Compared
    <3> QED BY <2>0, <3>1, <3>2 DEF SameAddrs
  <2>2. CASE w # v
    <3>1. panel[job[w].node].addr = job[w].old
      BY <1>1, <2>2 DEF FreshInv, Compared
    <3>2. job[w].kind = "replace"
      BY <1>1, <2>2 DEF FreshInv, Kinds, ReplaceLabels
    <3>3. job[v].kind = "replace" => job[v].node # job[w].node
      BY <2>0, <2>2, <3>2 DEF FreshInv, Registered, Key
    <3> QED BY <2>0, <3>1, <3>3 DEF OpStep, SameAddrs
  <2> QED BY <2>1, <2>2
<1> QED BY <1>2, <1>3, <1>4 DEF FreshInv

\* beginExecution refuses a key that is registered.
LEMMA StartFresh ==
  ASSUME FreshInv, TypeInv', NEW v \in Workers, Start(v)
  PROVE  FreshInv'
<1>1. PICK j \in Offers[v] : /\ Key(j) \notin running
                             /\ running' = running \cup {Key(j)}
                             /\ job' = [job EXCEPT ![v] = j]
  BY DEF Start
<1>2. /\ pc' = [pc EXCEPT ![v] = "acquire"] /\ panel' = panel
  BY DEF Start, Goto, Goes, To, ext
<1>3. /\ pc'[v] = "acquire" /\ job'[v] = j
      /\ \A w \in Workers \ {v} : pc'[w] = pc[w] /\ job'[w] = job[w]
  BY <1>1, <1>2 DEF FreshInv, TypeInv, WorkersOK
<1>4. Kinds'
  BY <1>3 DEF Kinds, ReplaceLabels, FreshInv
<1>5. Registered'
  BY <1>1, <1>3 DEF Registered, FreshInv, Key
<1>6. Compared'
  BY <1>2, <1>3 DEF Compared, FreshInv
<1> QED BY <1>4, <1>5, <1>6 DEF FreshInv

\* The end of an operation releases its own key only.
LEMMA FinishFresh ==
  ASSUME FreshInv, TypeInv', NEW v \in Workers, Finish(v)
  PROVE  FreshInv'
<1>1. /\ pc[v] # "idle" /\ running' = running \ {Key(job[v])} /\ panel' = panel
      /\ pc' = [pc EXCEPT ![v] = "idle"] /\ job' = [job EXCEPT ![v] = NoJob]
  BY DEF Finish, Goes, ext
<1>2. /\ pc'[v] = "idle"
      /\ \A w \in Workers \ {v} : pc'[w] = pc[w] /\ job'[w] = job[w]
  BY <1>1 DEF FreshInv, TypeInv, WorkersOK
<1>3. Kinds'
  BY <1>2 DEF Kinds, ReplaceLabels, FreshInv
<1>4. Registered'
  BY <1>1, <1>2 DEF Registered, FreshInv, Key
<1>5. Compared'
  BY <1>1, <1>2 DEF Compared, FreshInv
<1> QED BY <1>3, <1>4, <1>5 DEF FreshInv

\* Edits of the panel itself: only of Nodes the property leaves out.
LEMMA EditFresh ==
  ASSUME FreshInv, TypeInv', NEW n \in Nodes, NEW a \in Edits[n], PanelEdit(n, a)
  PROVE  FreshInv'
<1>1. pc' = pc /\ job' = job /\ running' = running /\ UpdateNodeAddress(n, a)
  BY DEF PanelEdit, svc
<1>2. \A m \in Nodes \ {n} : panel'[m].addr = panel[m].addr
  BY <1>1, AddrSet DEF FreshInv
<1>3. Compared'
  <2> SUFFICES ASSUME NEW w \in Workers, pc[w] \in {"find", "update"},
                      Edits[job[w].node] = {}
               PROVE  panel'[job[w].node].addr = job[w].old
    BY <1>1 DEF Compared
  <2>1. job[w].node \in Nodes \ {n}
    BY JobTyped DEF FreshInv
  <2> QED BY <1>2, <2>1 DEF FreshInv, Compared
<1> QED BY <1>1, <1>3 DEF FreshInv, Kinds, Registered, Key

\* FreshInv is inductive.
LEMMA NextFresh == FreshInv /\ [Next]_vars => FreshInv'
<1> SUFFICES ASSUME FreshInv, [Next]_vars PROVE FreshInv'
  OBVIOUS
<1>t. TypeInv'
  BY NextTyped, NodeOpsAssumption DEF FreshInv
<1>1. ASSUME NEW w \in Workers, Replace(w) \/ Sync(w) \/ Move(w) PROVE FreshInv'
  <2>1. pc[w] # "idle"
    BY <1>1 DEF Replace, Sync, Move, ReplaceRead, ReplaceFind, ReplaceUpdate,
         ReplaceZone, ReplacePersist, UndoZone, UndoAddr, SyncRead, SyncLookup, SyncZone,
         SyncReplace, SyncAdd, SyncPersist, MoveRead, MoveSwitch, MoveProfile, MoveDNS,
         MoveBind, UndoProfile, UndoDNS, UndoSNI, At
  <2>2. \E l \in Labels : OpStep(w, l)
    BY <1>1, ReplaceSteps, SyncSteps, MoveSteps
  <2> QED BY <1>t, <2>1, <2>2, OpFresh
<1>2. ASSUME NEW w \in Workers, Acquire(w) PROVE FreshInv'
  <2>1. /\ pc[w] # "idle" /\ UNCHANGED panel
        /\ Moves(w, "read") \/ Moves(w, "finish")
    BY <1>2 DEF Acquire, Goto, Goes, To, Moves, ext
  <2>2. SameAddrs
    BY <2>1 DEF SameAddrs
  <2>3. OpStep(w, "read") \/ OpStep(w, "finish")
    BY <2>1, <2>2, QuietStep, LabelSorts DEF ReplaceLabels
  <2> QED BY <1>t, <2>1, <2>3, OpFresh, LabelSorts
<1>3. ASSUME NEW w \in Workers, Start(w) PROVE FreshInv'
  BY <1>3, <1>t, StartFresh
<1>4. ASSUME NEW w \in Workers, Finish(w) PROVE FreshInv'
  BY <1>4, <1>t, FinishFresh
<1>5. CASE Shutdown \/ Restart \/ UNCHANGED vars
  BY <1>5, <1>t DEF Shutdown, Restart, vars, ext, svc, FreshInv, Kinds, Registered,
                    Compared, Key
<1>6. CASE Kill
  BY <1>6, <1>t DEF Kill, FreshInv, Kinds, Registered, Compared, ReplaceLabels
<1>7. ASSUME NEW n \in Nodes, NEW a \in Edits[n], PanelEdit(n, a) PROVE FreshInv'
  BY <1>7, <1>t, EditFresh
<1> QED BY <1>1, <1>2, <1>3, <1>4, <1>5, <1>6, <1>7 DEF Next, Step

\* OPERATIONS.md: "A stale confirmation ... is rejected".  When ReplaceNodeIP
\* (ip_change.go) updates the panel, the Node still has the address the operator
\* confirmed, unless operators edit that Node in the panel itself: whatever
\* other operations run, fail, are cancelled or are killed meanwhile.
THEOREM ReplaceFreshness == Spec => []NoStaleReplace
<1>1. Init => FreshInv
  <2> SUFFICES ASSUME Init PROVE FreshInv
    OBVIOUS
  <2>1. TypeInv
    BY InitTyped, NodeOpsAssumption
  <2>2. \A w \in Workers : pc[w] = "idle"
    BY DEF Init
  <2> QED BY <2>1, <2>2 DEF FreshInv, Kinds, Registered, Compared, ReplaceLabels
<1>2. FreshInv => NoStaleReplace
  BY DEF FreshInv, Compared, NoStaleReplace, At
<1> QED BY <1>1, <1>2, NextFresh, PTL DEF Spec

-----------------------------------------------------------------------------
(***************************************************************************)
(* Agreement of panel, VPS, row and zones, whatever fails.  It needs that  *)
(* the operations asked for on one Node are of one kind, which the         *)
(* registration then serializes, and that Nodes have addresses of their    *)
(* own: without either the code does leave them in disagreement            *)
(* (finding_sync and the hazards).                                         *)
(***************************************************************************)
\* The addresses n may ever have.
Mine(n) ==
  {InitialAddr[n]} \cup Edits[n] \cup
  {a \in Addrs : \E w \in Workers : \E j \in Offers[w] :
                   j.kind = "replace" /\ j.node = n /\ a \in {j.old, j.new}}

OwnAddresses == \A m, n \in Nodes : m # n => Mine(m) \cap Mine(n) = {}

\* Two goroutines are only asked for the same kind of operation on a Node.
OneKind ==
  \A v, w \in Workers : v # w =>
    \A i \in Offers[v], j \in Offers[w] : i.node = j.node => i.kind = j.kind

\* Zones z have address a of n in the zone of h: for a Node without edits it is
\* the only entry of n in any zone.
PubIn(z, n, a, h) ==
  /\ n \notin dirty /\ ~DNSDisabled => a \in z[h]
  /\ Edits[n] = {} =>
       \A g \in Hosts : \A b \in Mine(n) : b \in z[g] <=> ~DNSDisabled /\ g = h /\ b = a

Pub(n, a, h) == PubIn(zones, n, a, h)

HostAgrees(n) ==
  sni[n] = panel[n].host /\ (n \in Managed => rec[n].host = panel[n].host)

RowHas(n, a) == n \notin dirty /\ n \in Managed => rec[n].ip = a

Agrees(n) ==
  HostAgrees(n) /\ RowHas(n, panel[n].addr) /\ Pub(n, panel[n].addr, panel[n].host)

\* What holds of its Node when a replacement j is at label l with locals r.
ReplaceFact(j, l, r) ==
  LET n == j.node  p == panel[j.node] IN
  /\ HostAgrees(n)
  /\ l \in {"find", "update"} =>
       Agrees(n) /\ (n \notin dirty => p.addr = j.old) /\ r.changed = {}
  /\ l = "update" /\ n \notin dirty /\ ~DNSDisabled => p.host \in r.todo
  /\ l \in {"update", "zones"} =>
       /\ Edits[n] = {} => r.todo \subseteq {p.host}
       /\ DNSDisabled => r.todo = {}
       /\ r.todo \cap r.changed = {}
  /\ l \in {"zones", "persist", "undoZones", "undoAddr"} => RowHas(n, j.old)
  /\ l \in {"zones", "persist"} =>
       (n \notin dirty /\ ~DNSDisabled => p.host \in r.todo \cup r.changed)
  /\ l = "persist" => r.todo = {} /\ n \in Managed
  /\ l \in {"zones", "persist", "undoZones"} =>
       /\ n \notin dirty => p.addr = j.new
       /\ Edits[n] = {} => r.changed \subseteq {p.host}
       /\ Pub(n, IF p.host \in r.changed THEN j.new ELSE j.old, p.host)
  /\ l = "undoAddr" => Pub(n, j.old, p.host)

\* Of a synchronization: only a Node that was edited has anything to change.
SyncFact(j, l, r) ==
  LET n == j.node  p == panel[j.node] IN
  /\ Agrees(n) /\ r.host = p.host /\ ~DNSDisabled
  /\ l # "done" => (n \notin dirty => r.addr = p.addr)
  /\ l = "lookup" => r.prev = NoAddr
  /\ l \notin {"lookup", "done"} => r.prev = IF n \in Managed THEN rec[n].ip ELSE NoAddr
  /\ l \in {"syncReplace", "syncAdd", "syncPersist"} => n \in dirty
  /\ l \in {"syncPersist", "done"} => r.addr \in zones[p.host]
  /\ l = "syncPersist" => n \in Managed
  /\ l = "done" => (n \in Managed => rec[n].ip = r.addr)

\* Of a move: the VPS, the panel, the zones and the row follow in this order,
\* and a rollback goes back through the first three.
MoveFact(j, l, r) ==
  LET n == j.node  p == panel[j.node] IN
  /\ j.from # j.host
  /\ n \notin dirty => r.addr = p.addr
  /\ RowHas(n, p.addr)
  /\ sni[n] = (IF l = "switch" THEN j.from ELSE j.host)
  /\ n \in Managed => rec[n].host = j.from
  /\ l \in {"switch", "profile", "undoDNS", "undoSNI"} => p.host = j.from
  /\ l \in {"moveDNS", "bind"} => p.host = j.host
  /\ l \in {"switch", "profile", "moveDNS"} => ~r.moved
  /\ l = "moveDNS" => ~DNSDisabled
  /\ l = "bind" => n \in Managed /\ (n \notin dirty => r.moved \/ DNSDisabled)
  /\ l = "undoDNS" => r.moved
  /\ Pub(n, p.addr, IF r.moved /\ l # "undoSNI" THEN j.host ELSE j.from)

FactAt(j, l, r) ==
  /\ l \in {"acquire", "read", "finish"} => Agrees(j.node)
  /\ l \in ReplaceLabels => ReplaceFact(j, l, r)
  /\ l \in SyncLabels => SyncFact(j, l, r)
  /\ l \in MoveLabels => MoveFact(j, l, r)

\* The locals of an operation are of its kind, and their addresses the Node's own.
Own(j, l, r) ==
  /\ l \in ReplaceLabels => j.kind = "replace"
  /\ l \in SyncLabels => j.kind = "sync" /\ r.prev \in Mine(j.node) \cup {NoAddr}
  /\ l \in MoveLabels => j.kind = "move"
  /\ l \in {"acquire", "read"} => r = Blank
  /\ l \in SyncLabels \cup MoveLabels => r.addr \in Mine(j.node)

OwnAddrs(n) == panel[n].addr \in Mine(n) /\ rec[n].ip \in Mine(n)

OwnInv ==
  /\ \A w \in Workers : pc[w] # "idle" =>
       /\ job[w] \in Offers[w] /\ Own(job[w], pc[w], loc[w])
       /\ job[w].kind = "sync" => ~DNSDisabled
  /\ \A w \in Workers : pc[w] = "idle" => loc[w] = Blank
  /\ \A n \in Nodes : OwnAddrs(n)
  /\ \A n \in dirty : Edits[n] # {}

NodeFact(n) ==
  /\ Settled(n) => Agrees(n)
  /\ \A w \in Active : job[w].node = n => FactAt(job[w], pc[w], loc[w])

AgreeInv == OwnInv /\ \A n \in Nodes \ spoiled : NodeFact(n)

-----------------------------------------------------------------------------
(* How operations move, and what they leave alone. *)

\* A step leaves the Node m alone.
Apart(m) ==
  /\ panel'[m] = panel[m] /\ sni'[m] = sni[m] /\ rec'[m] = rec[m]
  /\ m \in dirty' <=> m \in dirty
  /\ \A g \in Hosts : \A b \in Mine(m) : b \in zones'[g] <=> b \in zones[g]

\* The operation of w goes on at label l with locals r.
Out(w, l, r) ==
  /\ pc' = [pc EXCEPT ![w] = l] /\ loc' = [loc EXCEPT ![w] = r]
  /\ job' = job /\ dirty' = dirty /\ spoiled \subseteq spoiled'

\* A call takes effect and succeeds, fails without an effect outside the
\* compensations, or spoils the Node.
LEMMA CallOut ==
  ASSUME NEW w \in Workers, NEW ACTION Effect, NEW ok, NEW err, Call(w, Effect, ok, err)
  PROVE  \/ Out(w, ok[1], ok[2]) /\ Effect
         \/ /\ Out(w, err[1], err[2]) /\ UNCHANGED ext
            /\ pc[w] \notin UndoIP \cup UndoMove
         \/ Out(w, err[1], err[2]) /\ (Effect \/ UNCHANGED ext) /\ job[w].node \in spoiled'
BY DEF Call, Out, Goes, Spoil

\* A read goes on or ends the operation.
LEMMA ReadsOut ==
  ASSUME NEW w \in Workers, NEW to, Reads(w, to) \/ Finds(w, to)
  PROVE  /\ Out(w, to[1], to[2]) \/ Out(w, "finish", loc[w])
         /\ UNCHANGED ext
BY DEF Reads, Finds, Out, Goes, Goto, To

\* Addresses of two Nodes are apart, and none of them is the null value.
LEMMA MineApart ==
  ASSUME OwnAddresses, NEW m \in Nodes, NEW n \in Nodes, m # n
  PROVE  \A a \in Mine(m) : a \notin Mine(n) \cup {NoAddr}
<1>1. Mine(m) \subseteq Addrs
  BY NodeOpsAssumption DEF Mine
<1> QED BY <1>1, NodeOpsAssumption DEF OwnAddresses

\* The addresses of a replacement are its Node's own.
LEMMA JobMine ==
  ASSUME NEW w \in Workers, NEW j \in Offers[w], j.kind = "replace"
  PROVE  j.old \in Mine(j.node) /\ j.new \in Mine(j.node)
<1>1. j \in JobRecords
  BY NodeOpsAssumption
<1>2. j.old \in Addrs /\ j.new \in Addrs
  BY <1>1 DEF JobRecords
<1> QED BY <1>2 DEF Mine

\* A step that changes nothing outside leaves every Node alone.
LEMMA QuietApart ==
  ASSUME UNCHANGED ext, dirty' = dirty
  PROVE  \A m \in Nodes : Apart(m)
BY DEF Apart, ext

\* An effect of an operation on n leaves the other Nodes alone.
LEMMA PanelApart ==
  ASSUME TypeInv, NEW n \in Nodes, dirty' = dirty
  PROVE  /\ \A a : UpdateNodeAddress(n, a) \/ SetTargetVPSIP(n, a)
                   => \A m \in Nodes \ {n} : Apart(m)
         /\ \A h : \/ UpdateNodeProfile(n, h) \/ SwitchNodeSNI(n, h)
                   \/ SetNodeHostBinding(n, h)
                   => \A m \in Nodes \ {n} : Apart(m)
BY DEF Apart, UpdateNodeAddress, UpdateNodeProfile, SwitchNodeSNI, SetTargetVPSIP,
       SetNodeHostBinding, TypeInv, ExtOK

\* An update of a zone with addresses of n leaves the other Nodes alone.
LEMMA ZonesApart ==
  ASSUME TypeInv, OwnAddresses, NEW n \in Nodes, NEW b \in Mine(n), NEW h \in Hosts,
         dirty' = dirty,
         \/ \E a \in Mine(n) \cup {NoAddr} : ReplaceIP(h, a, b)
         \/ AddIP(h, b)
         \/ \E g \in Hosts : MoveIP(g, h, b) \/ MoveIPHalf(g, h, b)
  PROVE  \A m \in Nodes \ {n} : Apart(m)
<1> SUFFICES ASSUME NEW m \in Nodes, m # n PROVE Apart(m)
  OBVIOUS
<1>1. \A c \in Mine(m) : c # b /\ c \notin Mine(n) \cup {NoAddr}
  BY MineApart
<1>2. zones \in [Hosts -> SUBSET Addrs]
  BY DEF TypeInv, ExtOK
<1>3. ASSUME NEW a \in Mine(n) \cup {NoAddr}, ReplaceIP(h, a, b) PROVE Apart(m)
  BY <1>1, <1>2, <1>3 DEF Apart, ReplaceIP, SetZones
<1>4. ASSUME NEW g \in Hosts, MoveIP(g, h, b) \/ MoveIPHalf(g, h, b) PROVE Apart(m)
  BY <1>1, <1>2, <1>4 DEF Apart, MoveIP, MoveIPHalf, SetZones
<1>5. CASE AddIP(h, b)
  BY <1>1, <1>2, <1>5 DEF Apart, AddIP, SetZones
<1> QED BY <1>3, <1>4, <1>5

\* Facts about a Node a step leaves alone stay.
LEMMA ApartFacts ==
  ASSUME NEW m \in Nodes, Apart(m), NEW a \in Mine(m), NEW h \in Hosts
  PROVE  /\ Pub(m, a, h)' <=> Pub(m, a, h)
         /\ a \in zones'[h] <=> a \in zones[h]
         /\ RowHas(m, a)' <=> RowHas(m, a)
         /\ HostAgrees(m)' <=> HostAgrees(m)
BY DEF Apart, Pub, PubIn, RowHas, HostAgrees

\* A Node that is left alone agrees after the step if it did before.
LEMMA ApartAgrees ==
  ASSUME TypeInv, NEW m \in Nodes, OwnAddrs(m), Apart(m)
  PROVE  Agrees(m)' <=> Agrees(m)
<1>1. panel[m].addr \in Mine(m) /\ panel[m].host \in Hosts /\ panel'[m] = panel[m]
  BY DEF OwnAddrs, TypeInv, ExtOK, Apart
<1> QED BY <1>1, ApartFacts DEF Agrees

\* What an operation on m relies on stays, too.
LEMMA ApartFact ==
  ASSUME TypeInv, NEW w \in Workers, NEW j \in Offers[w], NEW m \in Nodes, j.node = m,
         NEW l \in Labels, NEW r \in Locals, Own(j, l, r), HasRead(l, r),
         OwnAddrs(m), Apart(m), FactAt(j, l, r)
  PROVE  FactAt(j, l, r)'
<1>1. /\ panel[m].addr \in Mine(m) /\ panel[m].host \in Hosts /\ panel'[m] = panel[m]
      /\ rec'[m] = rec[m] /\ sni'[m] = sni[m] /\ (m \in dirty' <=> m \in dirty)
  BY DEF OwnAddrs, TypeInv, ExtOK, Apart
<1>2. Agrees(m)' <=> Agrees(m)
  BY ApartAgrees
<1>3. HostAgrees(m)' <=> HostAgrees(m)
  BY <1>1, ApartFacts
<1>4. \A a \in Mine(m) : \A h \in Hosts :
        /\ Pub(m, a, h)' <=> Pub(m, a, h)
        /\ a \in zones'[h] <=> a \in zones[h]
        /\ RowHas(m, a)' <=> RowHas(m, a)
  BY ApartFacts
<1>5. j \in JobRecords
  BY NodeOpsAssumption
<1>6. j.from \in Hosts /\ j.host \in Hosts
  BY <1>5 DEF JobRecords
<1>7. ASSUME l \in ReplaceLabels PROVE ReplaceFact(j, l, r)'
  <2>1. j.old \in Mine(m) /\ j.new \in Mine(m)
    BY <1>7, JobMine DEF Own
  <2>2. ReplaceFact(j, l, r)
    BY <1>7 DEF FactAt
  <2> QED BY <1>1, <1>2, <1>3, <1>4, <2>1, <2>2 DEF ReplaceFact
<1>8. ASSUME l \in SyncLabels PROVE SyncFact(j, l, r)'
  <2>1. r.addr \in Mine(m)
    BY <1>8 DEF Own
  <2>2. SyncFact(j, l, r)
    BY <1>8 DEF FactAt
  <2> QED BY <1>1, <1>2, <1>4, <2>1, <2>2 DEF SyncFact
<1>9. ASSUME l \in MoveLabels PROVE MoveFact(j, l, r)'
  <2>1. MoveFact(j, l, r)
    BY <1>9 DEF FactAt
  <2> QED BY <1>1, <1>4, <1>6, <2>1 DEF MoveFact
<1> QED BY <1>2, <1>7, <1>8, <1>9 DEF FactAt

\* Operations under way on one Node are one.
LEMMA Alone ==
  ASSUME OneKind, FreshInv, OwnInv, NEW v \in Active, NEW w \in Active,
         job[v].node = job[w].node
  PROVE  v = w
<1> SUFFICES ASSUME v # w PROVE FALSE
  OBVIOUS
<1>1. v \in Workers /\ w \in Workers /\ pc[v] # "idle" /\ pc[w] # "idle"
  BY DEF Active
<1>2. job[v] \in Offers[v] /\ job[w] \in Offers[w]
  BY <1>1 DEF OwnInv
<1>3. Key(job[v]) = Key(job[w])
  BY <1>1, <1>2 DEF OneKind, Key
<1> QED BY <1>1, <1>3 DEF FreshInv, Registered

\* An operation that makes no step, on a Node that is left alone.
LEMMA KeptFact ==
  ASSUME FreshInv, AgreeInv, NEW v \in Workers, pc[v] # "idle", NEW m \in Nodes \ spoiled,
         job[v].node = m, Apart(m),
         job'[v] = job[v], pc'[v] = pc[v], loc'[v] = loc[v]
  PROVE  FactAt(job[v], pc[v], loc[v])'
<1>1. TypeInv /\ OwnAddrs(m) /\ v \in Active
  BY DEF FreshInv, AgreeInv, OwnInv, Active
<1>2. job[v] \in Offers[v] /\ Own(job[v], pc[v], loc[v])
  BY DEF AgreeInv, OwnInv
<1>3. pc[v] \in Labels /\ loc[v] \in Locals /\ HasRead(pc[v], loc[v])
  BY <1>1 DEF TypeInv, WorkersOK
<1>4. FactAt(job[v], pc[v], loc[v])
  BY <1>1 DEF AgreeInv, NodeFact
<1>5. \A i \in Offers[v], k \in Labels, x \in Locals :
        /\ i.node = m /\ Own(i, k, x) /\ HasRead(k, x) /\ FactAt(i, k, x)
        => FactAt(i, k, x)'
  BY <1>1, ApartFact
<1> QED BY <1>2, <1>3, <1>4, <1>5

\* The invariant after a step of the operation of w.
LEMMA OutAgrees ==
  ASSUME OneKind, FreshInv, TypeInv', AgreeInv, NEW w \in Workers, pc[w] # "idle",
         NEW l \in Labels, l # "idle", NEW r \in Locals, Out(w, l, r),
         NEW j, j = job[w], \A m \in Nodes \ {j.node} : Apart(m),
         OwnAddrs(j.node)', Own(j, l, r), j.node \notin spoiled' => FactAt(j, l, r)'
  PROVE  AgreeInv'
<1> DEFINE n == j.node
<1>1. /\ pc'[w] = l /\ loc'[w] = r /\ job' = job /\ dirty' = dirty
      /\ \A v \in Workers \ {w} : pc'[v] = pc[v] /\ loc'[v] = loc[v]
      /\ pc \in [Workers -> Labels] /\ loc \in [Workers -> Locals]
  BY DEF Out, FreshInv, TypeInv, WorkersOK
<1>2. n \in Nodes
  BY JobTyped DEF FreshInv
<1>3. \A m \in Nodes \ {n} : OwnAddrs(m)'
  BY DEF AgreeInv, OwnInv, OwnAddrs, Apart
<1>4. OwnInv'
  BY <1>1, <1>3 DEF AgreeInv, OwnInv
<1>5. Active' = Active /\ w \in Active
  BY <1>1 DEF Active
<1>6. ASSUME NEW m \in Nodes \ spoiled' PROVE NodeFact(m)'
  <2>1. m \in Nodes \ spoiled
    BY DEF Out
  <2>2. CASE m = n
    <3>1. ~Settled(m)'
      BY <1>1, <1>5, <2>2 DEF Settled
    <3>2. ASSUME NEW v \in Active, job[v].node = m PROVE FactAt(job[v], pc[v], loc[v])'
      <4>1. v = w
        BY <1>5, <2>2, <3>2, Alone DEF AgreeInv
      <4>2. job'[v] = j /\ pc'[v] = l /\ loc'[v] = r
        BY <1>1, <4>1
      <4>3. FactAt(j, l, r)'
        BY <2>2
      <4> QED BY <4>2, <4>3
    <3> QED BY <1>1, <1>5, <3>1, <3>2 DEF NodeFact
  <2>3. CASE m # n
    <3>1. Apart(m) /\ OwnAddrs(m) /\ TypeInv /\ NodeFact(m)
      BY <1>2, <2>1, <2>3 DEF AgreeInv, OwnInv, FreshInv
    <3>2. Settled(m)' => Agrees(m)'
      BY <1>1, <1>5, <3>1, ApartAgrees DEF Settled, NodeFact
    <3>3. ASSUME NEW v \in Active, job[v].node = m PROVE FactAt(job[v], pc[v], loc[v])'
      <4>1. v \in Workers /\ v # w /\ pc[v] # "idle"
        BY <2>3, <3>3 DEF Active
      <4> QED BY <1>1, <2>1, <3>1, <3>3, <4>1, KeptFact
    <3> QED BY <1>1, <1>5, <3>2, <3>3 DEF NodeFact
  <2> QED BY <2>2, <2>3
<1> QED BY <1>4, <1>6 DEF AgreeInv

-----------------------------------------------------------------------------
(* What zones say of a Node. *)

\* Of a Node that was edited, or without DNS balancing, they say nothing.
LEMMA PubFree ==
  ASSUME NEW n, NEW z, NEW a, NEW h, NEW b, NEW g,
         \/ n \in dirty /\ Edits[n] # {}
         \/ DNSDisabled /\ PubIn(z, n, a, h)
  PROVE  PubIn(z, n, b, g)
BY DEF PubIn

\* A replacement in the zone of the Node's Host.
LEMMA PubReplace ==
  ASSUME NEW n, NEW z \in [Hosts -> SUBSET Addrs], NEW a \in Mine(n), NEW b \in Mine(n),
         NEW h \in Hosts, a \in z[h], PubIn(z, n, a, h)
  PROVE  PubIn([z EXCEPT ![h] = (@ \ {a}) \cup {b}], n, b, h)
BY DEF PubIn

\* A replacement in another zone.
LEMMA PubElsewhere ==
  ASSUME NEW n, NEW z \in [Hosts -> SUBSET Addrs], NEW a, NEW b, NEW c,
         NEW g \in Hosts, NEW h \in Hosts, g # h, Edits[n] # {}, PubIn(z, n, c, h)
  PROVE  PubIn([z EXCEPT ![g] = (@ \ {a}) \cup {b}], n, c, h)
BY DEF PubIn

\* A move between two zones.
LEMMA PubMove ==
  ASSUME NEW n, NEW z \in [Hosts -> SUBSET Addrs], NEW a \in Mine(n),
         NEW g \in Hosts, NEW h \in Hosts, g # h, a \in z[g], PubIn(z, n, a, g)
  PROVE  PubIn([z EXCEPT ![g] = @ \ {a}, ![h] = @ \cup {a}], n, a, h)
BY DEF PubIn

\* A step that keeps the edits keeps what zones y say.
LEMMA PubSame ==
  ASSUME NEW n, NEW y, NEW a, NEW h, dirty' = dirty, zones' = y, PubIn(y, n, a, h)
  PROVE  Pub(n, a, h)'
BY DEF Pub, PubIn

-----------------------------------------------------------------------------
(* The steps of ReplaceNodeIP, for a Node that is not spoiled. *)

\* The states an operation j starts its step in.
Ready(j) ==
  /\ TypeInv /\ j \in JobRecords /\ OwnAddrs(j.node)
  /\ j.node \in dirty => Edits[j.node] # {}
  /\ j.kind = "replace" => j.old \in Mine(j.node) /\ j.new \in Mine(j.node)

\* The types an effect of the operation j needs.
LEMMA ReadyTyped ==
  ASSUME NEW j, Ready(j)
  PROVE  /\ j.node \in Nodes /\ j.from \in Hosts /\ j.host \in Hosts
         /\ panel[j.node].host \in Hosts /\ panel[j.node].addr \in Addrs
         /\ panel \in [Nodes -> [addr : Addrs, host : Hosts]]
         /\ zones \in [Hosts -> SUBSET Addrs]
         /\ sni \in [Nodes -> Hosts] /\ rec \in [Nodes -> [ip : Addrs, host : Hosts]]
BY DEF Ready, TypeInv, ExtOK, JobRecords

\* A step that changes nothing keeps the facts.
LEMMA QuietFact ==
  ASSUME UNCHANGED ext, dirty' = dirty, NEW j, NEW l, NEW r, FactAt(j, l, r)
  PROVE  FactAt(j, l, r)'
BY DEF ext, FactAt, ReplaceFact, SyncFact, MoveFact, Agrees, HostAgrees, RowHas, Pub, PubIn

\* The panel is updated: every zone with the old address is still to be changed.
LEMMA UpdateFact ==
  ASSUME NEW j, Ready(j), j.kind = "replace", NEW r \in Locals,
         ReplaceFact(j, "update", r), UpdateNodeAddress(j.node, j.new), dirty' = dirty
  PROVE  /\ r.todo # {} => ReplaceFact(j, "zones", r)'
         /\ r.todo = {} /\ j.node \in Managed => ReplaceFact(j, "persist", r)'
         /\ r.todo = {} /\ j.node \notin Managed => Agrees(j.node)'
<1> DEFINE n == j.node
           p == panel[j.node]
<1>1. /\ panel'[n].addr = j.new /\ panel'[n].host = p.host
      /\ zones' = zones /\ sni' = sni /\ rec' = rec
  BY ReadyTyped DEF UpdateNodeAddress
<1>2. /\ HostAgrees(n) /\ RowHas(n, p.addr) /\ Pub(n, p.addr, p.host)
      /\ n \notin dirty => p.addr = j.old
      /\ n \notin dirty /\ ~DNSDisabled => p.host \in r.todo
      /\ Edits[n] = {} => r.todo \subseteq {p.host}
      /\ DNSDisabled => r.todo = {}
      /\ r.todo \cap r.changed = {} /\ r.changed = {}
  BY DEF ReplaceFact, Agrees
<1>3. HostAgrees(n)' /\ RowHas(n, j.old)'
  BY <1>1, <1>2 DEF HostAgrees, RowHas
<1>4. Pub(n, j.old, p.host)'
  BY <1>1, <1>2, PubFree, PubSame DEF Pub, Ready
<1>5. r.todo = {} => Pub(n, j.new, p.host)'
  BY <1>1, <1>2, PubFree, PubSame DEF Pub, Ready
<1>6. r.todo = {} /\ n \notin Managed => Agrees(n)'
  BY <1>1, <1>3, <1>5 DEF Agrees, RowHas
<1>7. p.host \notin r.changed
  BY <1>2
<1> QED BY <1>1, <1>2, <1>3, <1>4, <1>6, <1>7 DEF ReplaceFact

\* One of the zones is changed.
LEMMA ZoneFact ==
  ASSUME NEW j, Ready(j), j.kind = "replace", NEW r \in Locals, NEW h \in r.todo,
         ReplaceFact(j, "zones", r), ReplaceIP(h, j.old, j.new), dirty' = dirty,
         NEW q \in Locals, q.todo = r.todo \ {h}, q.changed = r.changed \cup {h}
  PROVE  /\ q.todo # {} => ReplaceFact(j, "zones", q)'
         /\ q.todo = {} /\ j.node \in Managed => ReplaceFact(j, "persist", q)'
         /\ q.todo = {} /\ j.node \notin Managed => Agrees(j.node)'
<1> DEFINE n == j.node
<1>p. PICK p : p = panel[j.node]
  OBVIOUS
<1>a. PICK a : a = IF p.host \in r.changed THEN j.new ELSE j.old
  OBVIOUS
<1>b. PICK b : b = IF p.host \in q.changed THEN j.new ELSE j.old
  OBVIOUS
<1>y. PICK y : y = [zones EXCEPT ![h] = (@ \ {j.old}) \cup {j.new}]
  OBVIOUS
<1>1. /\ panel' = panel /\ zones' = y /\ sni' = sni /\ rec' = rec /\ j.old \in zones[h]
  BY <1>y DEF ReplaceIP, SetZones
<1>2. /\ HostAgrees(n) /\ RowHas(n, j.old) /\ Pub(n, a, p.host)
      /\ n \notin dirty => p.addr = j.new
      /\ n \notin dirty /\ ~DNSDisabled => p.host \in r.todo \cup r.changed
      /\ Edits[n] = {} => r.todo \subseteq {p.host} /\ r.changed \subseteq {p.host}
      /\ DNSDisabled => r.todo = {}
      /\ r.todo \cap r.changed = {}
  BY <1>p, <1>a DEF ReplaceFact
<1>3. HostAgrees(n)' /\ RowHas(n, j.old)'
  BY <1>1, <1>2, <1>p DEF HostAgrees, RowHas
<1>4. /\ h \in Hosts /\ p.host \in Hosts /\ zones \in [Hosts -> SUBSET Addrs]
      /\ j.old \in Mine(n) /\ j.new \in Mine(n)
      /\ n \in dirty => Edits[n] # {}
  BY <1>p, ReadyTyped DEF Locals, Ready
<1>5. PubIn(y, n, b, p.host)
  <2>1. CASE h = p.host
    <3>1. a = j.old /\ b = j.new
      BY <1>2, <2>1, <1>a, <1>b
    <3> QED BY <1>1, <1>2, <1>4, <2>1, <3>1, <1>y, PubReplace DEF Pub
  <2>2. CASE h # p.host
    <3>1. a = b /\ Edits[n] # {}
      BY <1>2, <2>2, <1>a, <1>b
    <3> QED BY <1>2, <1>4, <2>2, <3>1, <1>y, PubElsewhere DEF Pub
  <2> QED BY <2>1, <2>2
<1>6. Pub(n, b, p.host)'
  <2> QED BY <1>1, <1>5, PubSame
<1>7. q.todo = {} => Pub(n, p.addr, p.host)'
  <2>1. CASE n \in dirty
    BY <1>1, <1>4, <2>1, PubFree, PubSame
  <2>2. CASE n \notin dirty /\ q.todo = {}
    BY <1>2, <1>6, <2>2, <1>b
  <2> QED BY <2>1, <2>2
<1>8. q.todo = {} /\ n \notin Managed => Agrees(n)'
  BY <1>1, <1>3, <1>7, <1>p DEF Agrees, RowHas
<1>9. /\ n \notin dirty /\ ~DNSDisabled => p.host \in q.todo \cup q.changed
      /\ Edits[n] = {} => q.todo \subseteq {p.host} /\ q.changed \subseteq {p.host}
      /\ DNSDisabled => q.todo = {}
      /\ q.todo \cap q.changed = {}
  BY <1>2
<1> QED BY <1>1, <1>2, <1>3, <1>6, <1>8, <1>9, <1>p, <1>a, <1>b DEF ReplaceFact

\* A zone is found changed: that of the Node's Host never is, without edits.
LEMMA FoundFact ==
  ASSUME NEW j, Ready(j), j.kind = "replace", NEW r \in Locals, NEW h \in r.todo,
         ReplaceFact(j, "zones", r), j.old \notin zones[h],
         NEW q \in Locals, q.todo = r.todo \ {h}, q.changed = r.changed
  PROVE  /\ q.todo # {} => ReplaceFact(j, "zones", q)
         /\ q.todo = {} /\ j.node \in Managed => ReplaceFact(j, "persist", q)
         /\ q.todo = {} /\ j.node \notin Managed => Agrees(j.node)
<1> DEFINE n == j.node
<1>p. PICK p : p = panel[j.node]
  OBVIOUS
<1>a. PICK a : a = IF p.host \in r.changed THEN j.new ELSE j.old
  OBVIOUS
<1>2. /\ HostAgrees(n) /\ RowHas(n, j.old) /\ Pub(n, a, p.host)
      /\ n \notin dirty => p.addr = j.new
      /\ n \notin dirty /\ ~DNSDisabled => p.host \in r.todo \cup r.changed
      /\ Edits[n] = {} => r.todo \subseteq {p.host} /\ r.changed \subseteq {p.host}
      /\ DNSDisabled => r.todo = {}
      /\ r.todo \cap r.changed = {}
  BY <1>p, <1>a DEF ReplaceFact
<1>3. n \in dirty \/ h # p.host
  BY <1>2, <1>a DEF Pub, PubIn
<1>4. n \notin dirty => p.host \in q.todo \cup q.changed
  BY <1>2, <1>3
<1>5. q.todo = {} => Pub(n, p.addr, p.host)
  <2>1. CASE n \in dirty
    BY <2>1, PubFree DEF Pub, Ready
  <2>2. CASE n \notin dirty /\ q.todo = {}
    BY <1>2, <1>4, <2>2, <1>a
  <2> QED BY <2>1, <2>2
<1>6. q.todo = {} /\ n \notin Managed => Agrees(n)
  BY <1>2, <1>5, <1>p DEF Agrees, RowHas
<1> QED BY <1>2, <1>4, <1>6, <1>p, <1>a DEF ReplaceFact

\* The row follows, and the operation is over.
LEMMA PersistFact ==
  ASSUME NEW j, Ready(j), j.kind = "replace", NEW r \in Locals,
         ReplaceFact(j, "persist", r), SetTargetVPSIP(j.node, j.new), dirty' = dirty
  PROVE  Agrees(j.node)'
<1> DEFINE n == j.node
           p == panel[j.node]
<1>1. /\ panel' = panel /\ zones' = zones /\ sni' = sni
      /\ rec'[n].ip = j.new /\ rec'[n].host = rec[n].host
  BY ReadyTyped DEF SetTargetVPSIP
<1>2. /\ HostAgrees(n) /\ Pub(n, IF p.host \in r.changed THEN j.new ELSE j.old, p.host)
      /\ n \notin dirty => p.addr = j.new
      /\ n \notin dirty /\ ~DNSDisabled => p.host \in r.todo \cup r.changed
      /\ r.todo = {}
  BY DEF ReplaceFact
<1>3. HostAgrees(n)' /\ RowHas(n, p.addr)'
  BY <1>1, <1>2 DEF HostAgrees, RowHas
<1>4. PubIn(zones, n, p.addr, p.host)
  <2>1. CASE n \in dirty \/ DNSDisabled
    BY <1>2, <2>1, PubFree DEF Pub, Ready
  <2>2. CASE n \notin dirty /\ ~DNSDisabled
    BY <1>2, <2>2 DEF Pub
  <2> QED BY <2>1, <2>2
<1> QED BY <1>1, <1>3, <1>4, PubSame DEF Agrees

\* What a rollback starts with.
LEMMA RollbackFact ==
  ASSUME NEW j, NEW r, NEW l \in {"zones", "persist"}, ReplaceFact(j, l, r)
  PROVE  /\ r.changed # {} => ReplaceFact(j, "undoZones", r)
         /\ r.changed = {} => ReplaceFact(j, "undoAddr", r)
BY DEF ReplaceFact

\* A zone is changed back.
LEMMA UndoZoneFact ==
  ASSUME NEW j, Ready(j), j.kind = "replace", NEW r \in Locals, NEW h \in r.changed,
         ReplaceFact(j, "undoZones", r), ReplaceIP(h, j.new, j.old), dirty' = dirty,
         NEW q \in Locals, q.changed = r.changed \ {h}
  PROVE  /\ q.changed # {} => ReplaceFact(j, "undoZones", q)'
         /\ q.changed = {} => ReplaceFact(j, "undoAddr", q)'
<1> DEFINE n == j.node
<1>p. PICK p : p = panel[j.node]
  OBVIOUS
<1>a. PICK a : a = IF p.host \in r.changed THEN j.new ELSE j.old
  OBVIOUS
<1>b. PICK b : b = IF p.host \in q.changed THEN j.new ELSE j.old
  OBVIOUS
<1>y. PICK y : y = [zones EXCEPT ![h] = (@ \ {j.new}) \cup {j.old}]
  OBVIOUS
<1>1. /\ panel' = panel /\ zones' = y /\ sni' = sni /\ rec' = rec /\ j.new \in zones[h]
  BY <1>y DEF ReplaceIP, SetZones
<1>2. /\ HostAgrees(n) /\ RowHas(n, j.old) /\ Pub(n, a, p.host)
      /\ n \notin dirty => p.addr = j.new
      /\ Edits[n] = {} => r.changed \subseteq {p.host}
  BY <1>p, <1>a DEF ReplaceFact
<1>3. HostAgrees(n)' /\ RowHas(n, j.old)'
  BY <1>1, <1>2, <1>p DEF HostAgrees, RowHas
<1>4. /\ h \in Hosts /\ p.host \in Hosts /\ zones \in [Hosts -> SUBSET Addrs]
      /\ j.old \in Mine(n) /\ j.new \in Mine(n)
  BY <1>p, ReadyTyped DEF Locals, Ready
<1>5. PubIn(y, n, b, p.host)
  <2>1. CASE h = p.host
    <3>1. a = j.new /\ b = j.old
      BY <2>1, <1>a, <1>b
    <3> QED BY <1>1, <1>2, <1>4, <2>1, <3>1, <1>y, PubReplace DEF Pub
  <2>2. CASE h # p.host
    <3>1. a = b /\ Edits[n] # {}
      BY <1>2, <2>2, <1>a, <1>b
    <3> QED BY <1>2, <1>4, <2>2, <3>1, <1>y, PubElsewhere DEF Pub
  <2> QED BY <2>1, <2>2
<1>6. Pub(n, b, p.host)'
  <2> QED BY <1>1, <1>5, PubSame
<1> QED BY <1>1, <1>2, <1>3, <1>6, <1>p, <1>a, <1>b DEF ReplaceFact

\* The panel has the old address again, and the operation is over.
LEMMA UndoAddrFact ==
  ASSUME NEW j, Ready(j), NEW r, ReplaceFact(j, "undoAddr", r),
         UpdateNodeAddress(j.node, j.old), dirty' = dirty
  PROVE  Agrees(j.node)'
<1> DEFINE n == j.node
           p == panel[j.node]
<1>1. /\ panel'[n].addr = j.old /\ panel'[n].host = p.host
      /\ zones' = zones /\ sni' = sni /\ rec' = rec
  BY ReadyTyped DEF UpdateNodeAddress
<1>2. HostAgrees(n) /\ RowHas(n, j.old) /\ Pub(n, j.old, p.host)
  BY DEF ReplaceFact
<1> QED BY <1>1, <1>2, PubSame DEF Agrees, HostAgrees, RowHas, Pub

-----------------------------------------------------------------------------
(* From the facts to the invariant. *)

\* Where an operation may go on: label, locals and the facts that hold there.
Place(j, to) ==
  /\ to = <<to[1], to[2]>> /\ to[1] \in Labels \ {"idle"} /\ to[2] \in Locals
  /\ Own(j, to[1], to[2])

\* What is known of the operation of w before its step.
LEMMA ReadyJob ==
  ASSUME FreshInv, AgreeInv, NEW w \in Workers, pc[w] # "idle"
  PROVE  /\ Ready(job[w]) /\ job[w] \in Offers[w] /\ job[w].node \in Nodes
         /\ Own(job[w], pc[w], loc[w])
         /\ loc[w] \in Locals /\ HasRead(pc[w], loc[w])
         /\ job[w].kind = "sync" => ~DNSDisabled
         /\ job[w].node \notin spoiled => FactAt(job[w], pc[w], loc[w])
<1>1. TypeInv /\ job[w] \in JobRecords /\ job[w].node \in Nodes /\ w \in Active
  BY JobTyped DEF FreshInv, Active
<1>2. /\ job[w] \in Offers[w] /\ Own(job[w], pc[w], loc[w]) /\ OwnAddrs(job[w].node)
      /\ job[w].node \in dirty => Edits[job[w].node] # {}
      /\ job[w].kind = "sync" => ~DNSDisabled
  BY <1>1 DEF AgreeInv, OwnInv
<1>3. job[w].kind = "replace" => job[w].old \in Mine(job[w].node) /\ job[w].new \in Mine(job[w].node)
  BY <1>2, JobMine
<1>4. loc[w] \in Locals /\ HasRead(pc[w], loc[w])
  BY <1>1 DEF TypeInv, WorkersOK
<1>5. job[w].node \notin spoiled => FactAt(job[w], pc[w], loc[w])
  BY <1>1 DEF AgreeInv, NodeFact
<1> QED BY <1>1, <1>2, <1>3, <1>4, <1>5 DEF Ready

\* A call keeps the invariant if its effect brings about what the next label
\* relies on, and what the error path relies on already holds.
LEMMA CallAgrees ==
  ASSUME OneKind, FreshInv, TypeInv', AgreeInv, NEW w \in Workers, pc[w] # "idle",
         NEW ACTION Effect, NEW ok, NEW err, Call(w, Effect, ok, err),
         NEW j, j = job[w], Place(j, ok), Place(j, err),
         Effect /\ dirty' = dirty =>
           OwnAddrs(j.node)' /\ \A m \in Nodes \ {j.node} : Apart(m),
         Effect /\ dirty' = dirty /\ j.node \notin spoiled => FactAt(j, ok[1], ok[2])',
         pc[w] \notin UndoIP \cup UndoMove /\ j.node \notin spoiled => FactAt(j, err[1], err[2])
  PROVE  AgreeInv'
<1>1. OwnAddrs(j.node) /\ j.node \in Nodes
  BY ReadyJob DEF Ready
<1>2. ASSUME UNCHANGED ext, dirty' = dirty
      PROVE  OwnAddrs(j.node)' /\ \A m \in Nodes \ {j.node} : Apart(m)
  BY <1>1, <1>2, QuietApart DEF OwnAddrs, ext
<1>3. ok[1] \in Labels /\ ok[1] # "idle" /\ ok[2] \in Locals /\ Own(j, ok[1], ok[2])
  BY DEF Place
<1>4. err[1] \in Labels /\ err[1] # "idle" /\ err[2] \in Locals /\ Own(j, err[1], err[2])
  BY DEF Place
<1>5. CASE Out(w, ok[1], ok[2]) /\ Effect
  <2>1. dirty' = dirty /\ (j.node \notin spoiled' => j.node \notin spoiled)
    BY <1>5 DEF Out
  <2> QED BY <1>3, <1>5, <2>1, OutAgrees
<1>6. CASE /\ Out(w, err[1], err[2]) /\ UNCHANGED ext
           /\ pc[w] \notin UndoIP \cup UndoMove
  <2>1. dirty' = dirty /\ (j.node \notin spoiled' => j.node \notin spoiled)
    BY <1>6 DEF Out
  <2>2. j.node \notin spoiled' => FactAt(j, err[1], err[2])'
    BY <1>6, <2>1, QuietFact
  <2> QED BY <1>2, <1>4, <1>6, <2>1, <2>2, OutAgrees
<1>7. CASE Out(w, err[1], err[2]) /\ (Effect \/ UNCHANGED ext) /\ j.node \in spoiled'
  <2>1. dirty' = dirty
    BY <1>7 DEF Out
  <2> QED BY <1>2, <1>4, <1>7, <2>1, OutAgrees
<1> QED BY <1>5, <1>6, <1>7, CallOut

\* A call that changes nothing keeps it if the next label's facts already hold.
LEMMA ReadsAgrees ==
  ASSUME OneKind, FreshInv, TypeInv', AgreeInv, NEW w \in Workers, pc[w] # "idle",
         NEW to, NEW j, j = job[w],
         \/ Reads(w, to) /\ (j.node \notin spoiled => Agrees(j.node))
         \/ Finds(w, to),
         Place(j, to), j.node \notin spoiled => FactAt(j, to[1], to[2])
  PROVE  AgreeInv'
<1>1. OwnAddrs(j.node) /\ j.node \in Nodes /\ loc[w] \in Locals
  BY ReadyJob DEF Ready
<1>2. to[1] \in Labels /\ to[1] # "idle" /\ to[2] \in Locals /\ Own(j, to[1], to[2])
  BY DEF Place
<1>3. "finish" \in Labels /\ "finish" # "idle" /\ Own(j, "finish", loc[w])
  BY LabelSorts DEF Own, ReplaceLabels
<1>4. UNCHANGED ext
  BY ReadsOut
<1>5. ASSUME NEW l \in Labels, l # "idle", NEW r \in Locals, Out(w, l, r), Own(j, l, r),
             j.node \notin spoiled => FactAt(j, l, r)
      PROVE  AgreeInv'
  <2>1. dirty' = dirty /\ (j.node \notin spoiled' => j.node \notin spoiled)
    BY <1>5 DEF Out
  <2>2. OwnAddrs(j.node)' /\ \A m \in Nodes \ {j.node} : Apart(m)
    BY <1>1, <1>4, <2>1, QuietApart DEF OwnAddrs, ext
  <2>3. j.node \notin spoiled' => FactAt(j, l, r)'
    BY <1>4, <1>5, <2>1, QuietFact
  <2> QED BY <1>5, <2>2, <2>3, OutAgrees
<1>6. CASE Finds(w, to)
  <2>1. Out(w, to[1], to[2])
    BY <1>6 DEF Finds, Out, Goes
  <2> QED BY <1>2, <1>5, <2>1
<1>7. CASE Reads(w, to) /\ (j.node \notin spoiled => Agrees(j.node))
  <2>1. j.node \notin spoiled => FactAt(j, "finish", loc[w])
    BY <1>7, LabelSorts DEF FactAt, ReplaceLabels
  <2> QED BY <1>1, <1>2, <1>3, <1>5, <1>7, <2>1, ReadsOut
<1> QED BY <1>6, <1>7

\* The facts and the places of each sort of labels.
LEMMA FactSorts ==
  ASSUME NEW j, NEW l, NEW r
  PROVE  /\ l \in ReplaceLabels => /\ FactAt(j, l, r) <=> ReplaceFact(j, l, r)
                                   /\ FactAt(j, l, r)' <=> ReplaceFact(j, l, r)'
         /\ l \in SyncLabels => /\ FactAt(j, l, r) <=> SyncFact(j, l, r)
                                /\ FactAt(j, l, r)' <=> SyncFact(j, l, r)'
         /\ l \in MoveLabels => /\ FactAt(j, l, r) <=> MoveFact(j, l, r)
                                /\ FactAt(j, l, r)' <=> MoveFact(j, l, r)'
         /\ l \in {"acquire", "read", "finish"} => /\ FactAt(j, l, r) <=> Agrees(j.node)
                                                   /\ FactAt(j, l, r)' <=> Agrees(j.node)'
BY LabelSorts DEF FactAt, ReplaceLabels

\* The locals that fit the labels of each kind of operation.
LEMMA Places ==
  ASSUME NEW j, NEW l, NEW r \in Locals
  PROVE  /\ l \in ReplaceLabels /\ j.kind = "replace" => Place(j, <<l, r>>)
         /\ l \in SyncLabels /\ j.kind = "sync" /\ r.addr \in Mine(j.node)
            /\ r.prev \in Mine(j.node) \cup {NoAddr} => Place(j, <<l, r>>)
         /\ l \in MoveLabels /\ j.kind = "move" /\ r.addr \in Mine(j.node)
            => Place(j, <<l, r>>)
         /\ l = "finish" => Place(j, <<l, r>>)
BY LabelSorts DEF Place, Own, ReplaceLabels

\* What ReplaceNodeIP relies on after a zone, and when it starts to roll back.
LEMMA AfterZonesAt ==
  ASSUME NEW w \in Workers, NEW j, j = job[w], j.kind = "replace", NEW x \in Locals,
         NEW to, to = AfterZones(w, x)
  PROVE  /\ Place(j, to)
         /\ /\ x.todo # {} => ReplaceFact(j, "zones", x)
            /\ x.todo = {} /\ j.node \in Managed => ReplaceFact(j, "persist", x)
            /\ x.todo = {} /\ j.node \notin Managed => Agrees(j.node)
            => FactAt(j, to[1], to[2])
         /\ /\ x.todo # {} => ReplaceFact(j, "zones", x)'
            /\ x.todo = {} /\ j.node \in Managed => ReplaceFact(j, "persist", x)'
            /\ x.todo = {} /\ j.node \notin Managed => Agrees(j.node)'
            => FactAt(j, to[1], to[2])'
<1>1. CASE x.todo # {}
  <2>1. to = <<"zones", x>> /\ to[1] = "zones" /\ to[2] = x /\ "zones" \in ReplaceLabels
    BY <1>1 DEF AfterZones, ReplaceLabels
  <2> QED BY <1>1, <2>1, Places, FactSorts
<1>2. CASE x.todo = {} /\ j.node \in Managed
  <2>1. to = <<"persist", x>> /\ to[1] = "persist" /\ to[2] = x /\ "persist" \in ReplaceLabels
    BY <1>2 DEF AfterZones, ReplaceLabels
  <2> QED BY <1>2, <2>1, Places, FactSorts
<1>3. CASE x.todo = {} /\ j.node \notin Managed
  <2>1. to = <<"finish", x>> /\ to[1] = "finish" /\ to[2] = x
    BY <1>3 DEF AfterZones
  <2> QED BY <1>3, <2>1, Places, FactSorts
<1> QED BY <1>1, <1>2, <1>3

\* What rollbackNodeIP relies on holds wherever it is called.
LEMMA RollbackAt ==
  ASSUME NEW w \in Workers, NEW j, j = job[w], j.kind = "replace", NEW r \in Locals,
         r = loc[w], NEW to, to = RollbackNodeIP(w)
  PROVE  /\ Place(j, to)
         /\ \A l \in {"zones", "persist"} : ReplaceFact(j, l, r) => FactAt(j, to[1], to[2])
<1>1. CASE r.changed # {}
  <2>1. to = <<"undoZones", r>> /\ to[1] = "undoZones" /\ to[2] = r /\ "undoZones" \in ReplaceLabels
    BY <1>1 DEF RollbackNodeIP, To, ReplaceLabels
  <2> QED BY <1>1, <2>1, Places, FactSorts, RollbackFact
<1>2. CASE r.changed = {}
  <2>1. to = <<"undoAddr", r>> /\ to[1] = "undoAddr" /\ to[2] = r /\ "undoAddr" \in ReplaceLabels
    BY <1>2 DEF RollbackNodeIP, To, ReplaceLabels
  <2> QED BY <1>2, <2>1, Places, FactSorts, RollbackFact
<1> QED BY <1>1, <1>2

\* What the effects do to the Node's own addresses in the panel and the row.
LEMMA OwnEffects ==
  ASSUME NEW j, Ready(j)
  PROVE  /\ \A a \in Mine(j.node) :
              UpdateNodeAddress(j.node, a) \/ SetTargetVPSIP(j.node, a) => OwnAddrs(j.node)'
         /\ \A h : \/ UpdateNodeProfile(j.node, h) \/ SwitchNodeSNI(j.node, h)
                   \/ SetNodeHostBinding(j.node, h)
                   => OwnAddrs(j.node)'
         /\ panel' = panel /\ rec' = rec => OwnAddrs(j.node)'
<1>1. /\ OwnAddrs(j.node) /\ j.node \in Nodes
      /\ panel \in [Nodes -> [addr : Addrs, host : Hosts]]
      /\ rec \in [Nodes -> [ip : Addrs, host : Hosts]]
  BY ReadyTyped DEF Ready
<1> QED BY <1>1 DEF OwnAddrs, UpdateNodeAddress, SetTargetVPSIP, UpdateNodeProfile,
                   SwitchNodeSNI, SetNodeHostBinding

\* The steps of ReplaceNodeIP keep the invariant.
LEMMA ReplaceAgrees ==
  ASSUME OwnAddresses, OneKind, FreshInv, TypeInv', AgreeInv, NEW w \in Workers, Replace(w)
  PROVE  AgreeInv'
<1>j. PICK j : j = job[w]
  OBVIOUS
<1>r. PICK r : r = loc[w]
  OBVIOUS
<1>0. pc[w] # "idle" /\ pc[w] \in ReplaceLabels \cup {"read"}
  BY DEF Replace, ReplaceRead, ReplaceFind, ReplaceUpdate, ReplaceZone, ReplacePersist,
         UndoZone, UndoAddr, At, ReplaceLabels
<1>1. /\ Ready(j) /\ j \in Offers[w] /\ j.node \in Nodes /\ Own(j, pc[w], r) /\ r \in Locals
      /\ j.node \notin spoiled => FactAt(j, pc[w], r)
  BY <1>0, <1>j, <1>r, ReadyJob
<1>2. j.kind = "replace"
  BY <1>0, <1>1, <1>j DEF Own, Replace, ReplaceRead, ReplaceFind, ReplaceUpdate,
     ReplaceZone, ReplacePersist, UndoZone, UndoAddr, At, ReplaceLabels
<1>3. j.old \in Mine(j.node) /\ j.new \in Mine(j.node) /\ OwnAddrs(j.node) /\ TypeInv
  BY <1>1, <1>2 DEF Ready
<1>4. PICK end : end = <<"finish", r>>
  OBVIOUS
<1>5. Place(j, end) /\ end = To(w, "finish") /\ end[1] = "finish" /\ end[2] = r
  BY <1>1, <1>4, <1>r, Places DEF To
<1>6. \A x : /\ FactAt(j, "finish", x) <=> Agrees(j.node)
             /\ FactAt(j, "finish", x)' <=> Agrees(j.node)'
  BY FactSorts
<1>l. /\ "find" \in ReplaceLabels /\ "update" \in ReplaceLabels /\ "zones" \in ReplaceLabels
      /\ "persist" \in ReplaceLabels /\ "undoZones" \in ReplaceLabels
      /\ "undoAddr" \in ReplaceLabels
  BY DEF ReplaceLabels
<1>8. \A l \in ReplaceLabels : \A x \in Locals : Place(j, <<l, x>>)
  BY <1>2, Places
<1>9. \A x \in Locals : Place(j, <<"finish", x>>)
  BY Places
<1>10. ASSUME ReplaceRead(w) PROVE AgreeInv'
  <2>1. PICK to : to = To(w, IF ReplaceFresh(job[w]) THEN "find" ELSE "finish")
    OBVIOUS
  <2>2. Reads(w, to) /\ pc[w] = "read"
    BY <1>10, <2>1 DEF ReplaceRead, At
  <2>3. /\ j.node \notin spoiled => Agrees(j.node)
        /\ r = Blank
    BY <1>1, <2>2, FactSorts DEF Own
  <2>4. CASE to = <<"find", r>> /\ panel[j.node].addr = j.old
    <3>1. j.node \notin spoiled => ReplaceFact(j, "find", r)
      BY <2>3, <2>4 DEF ReplaceFact, Agrees, Blank
    <3>2. Place(j, to) /\ to[1] = "find" /\ to[2] = r
      BY <1>1, <1>8, <2>4, <1>l
    <3>3. j.node \notin spoiled => FactAt(j, to[1], to[2])
      BY FactSorts, <3>1, <3>2, <1>l
    <3> QED BY <1>0, <1>j, <2>2, <2>3, <3>2, <3>3, ReadsAgrees
  <2>5. CASE to = end
    <3>1. j.node \notin spoiled => FactAt(j, to[1], to[2])
      BY <1>5, <1>6, <2>3, <2>5
    <3> QED BY <1>0, <1>5, <1>j, <2>2, <2>3, <2>5, <3>1, ReadsAgrees
  <2> QED BY <1>4, <1>j, <1>r, <2>1, <2>4, <2>5 DEF To, ReplaceFresh
<1>11. ASSUME ReplaceFind(w) PROVE AgreeInv'
  <2>1. PICK q : q = [r EXCEPT !.todo = {h \in Hosts : ~DNSDisabled /\ j.old \in zones[h]}]
    OBVIOUS
  <2>2. PICK to : to = <<"update", q>>
    OBVIOUS
  <2>3. Reads(w, to) /\ pc[w] = "find"
    BY <1>11, <1>j, <1>r, <2>1, <2>2 DEF ReplaceFind, At
  <2>4. /\ q \in Locals /\ q.changed = r.changed
        /\ q.todo = {h \in Hosts : ~DNSDisabled /\ j.old \in zones[h]}
    BY <1>1, <2>1 DEF Locals
  <2>5. j.node \notin spoiled => ReplaceFact(j, "find", r)
    BY <1>1, FactSorts, <2>3, <1>l
  <2>6. j.node \notin spoiled => Agrees(j.node)
    BY <2>5 DEF ReplaceFact
  <2>7. j.node \notin spoiled => ReplaceFact(j, "update", q)
    <3> SUFFICES ASSUME j.node \notin spoiled PROVE ReplaceFact(j, "update", q)
      OBVIOUS
    <3> DEFINE n == j.node
               p == panel[j.node]
    <3>1. /\ HostAgrees(n) /\ Agrees(n) /\ Pub(n, p.addr, p.host) /\ r.changed = {}
          /\ n \notin dirty => p.addr = j.old
      BY <2>5 DEF ReplaceFact, Agrees
    <3>2. p.host \in Hosts
      BY <1>1, ReadyTyped
    <3>3. n \notin dirty /\ ~DNSDisabled => p.host \in q.todo
      BY <2>4, <3>1, <3>2 DEF Pub, PubIn
    <3>4. Edits[n] = {} => q.todo \subseteq {p.host}
      BY <1>3, <2>4, <3>1 DEF Pub, PubIn
    <3> QED BY <2>4, <3>1, <3>3, <3>4 DEF ReplaceFact
  <2>8. Place(j, to) /\ to[1] = "update" /\ to[2] = q
    BY <1>8, <2>2, <2>4, <1>l
  <2>9. j.node \notin spoiled => FactAt(j, to[1], to[2])
    BY FactSorts, <2>7, <2>8, <1>l
  <2> QED BY <1>0, <1>j, <2>3, <2>6, <2>8, <2>9, ReadsAgrees
<1>12. ASSUME ReplaceUpdate(w) PROVE AgreeInv'
  <2>1. PICK ok : ok = AfterZones(w, r)
    OBVIOUS
  <2> DEFINE E == UpdateNodeAddress(j.node, j.new)
  <2>2. Call(w, E, ok, end) /\ pc[w] = "update"
    BY <1>12, <1>5, <1>j, <1>r, <2>1 DEF ReplaceUpdate, At
  <2>3. E /\ dirty' = dirty => OwnAddrs(j.node)' /\ \A m \in Nodes \ {j.node} : Apart(m)
    BY <1>1, <1>3, OwnEffects, PanelApart
  <2>4. j.node \notin spoiled => ReplaceFact(j, "update", r)
    BY <1>1, FactSorts, <2>2, <1>l
  <2>5. Place(j, ok) /\ (E /\ dirty' = dirty /\ j.node \notin spoiled => FactAt(j, ok[1], ok[2])')
    BY <1>1, <1>2, <1>j, <2>1, <2>4, UpdateFact, AfterZonesAt
  <2>6. j.node \notin spoiled => FactAt(j, end[1], end[2])
    BY <1>5, <1>6, <2>4 DEF ReplaceFact
  <2> HIDE DEF E
  <2> QED BY <1>0, <1>5, <1>j, <2>2, <2>3, <2>5, <2>6, CallAgrees
<1>13. ASSUME ReplaceZone(w) PROVE AgreeInv'
  <2>1. PICK h \in r.todo :
          LET left == [r EXCEPT !.todo = @ \ {h}]
          IN \/ Call(w, ReplaceIP(h, j.old, j.new),
                     AfterZones(w, [left EXCEPT !.changed = @ \cup {h}]), RollbackNodeIP(w))
             \/ j.old \notin zones[h] /\ Finds(w, AfterZones(w, left))
    BY <1>13, <1>j, <1>r DEF ReplaceZone
  <2>2. PICK q : q = [r EXCEPT !.todo = @ \ {h}]
    OBVIOUS
  <2>3. PICK x : x = [q EXCEPT !.changed = @ \cup {h}]
    OBVIOUS
  <2>4. /\ h \in Hosts /\ q \in Locals /\ x \in Locals
        /\ q.todo = r.todo \ {h} /\ q.changed = r.changed
        /\ x.todo = r.todo \ {h} /\ x.changed = r.changed \cup {h}
    BY <1>1, <2>2, <2>3 DEF Locals
  <2>5. j.node \notin spoiled => ReplaceFact(j, "zones", r)
    BY <1>1, FactSorts, <1>13, <1>l DEF ReplaceZone, At
  <2>6. PICK ok : ok = AfterZones(w, x)
    OBVIOUS
  <2>7. PICK same : same = AfterZones(w, q)
    OBVIOUS
  <2>8. PICK err : err = RollbackNodeIP(w)
    OBVIOUS
  <2> DEFINE E == ReplaceIP(h, j.old, j.new)
  <2>9. Call(w, E, ok, err) \/ (j.old \notin zones[h] /\ Finds(w, same))
    BY <2>1, <2>2, <2>3, <2>6, <2>7, <2>8
  <2>10. E /\ dirty' = dirty => OwnAddrs(j.node)' /\ \A m \in Nodes \ {j.node} : Apart(m)
    <3>1. E => panel' = panel /\ rec' = rec
      BY DEF ReplaceIP, SetZones
    <3> QED BY <1>1, <1>3, <2>4, <3>1, OwnEffects, ZonesApart
  <2>11. Place(j, ok) /\ (E /\ dirty' = dirty /\ j.node \notin spoiled => FactAt(j, ok[1], ok[2])')
    BY <1>1, <1>2, <1>j, <2>4, <2>5, <2>6, ZoneFact, AfterZonesAt
  <2>12. Place(j, same) /\ (j.old \notin zones[h] /\ j.node \notin spoiled => FactAt(j, same[1], same[2]))
    BY <1>1, <1>2, <1>j, <2>4, <2>5, <2>7, FoundFact, AfterZonesAt
  <2>13. Place(j, err) /\ (j.node \notin spoiled => FactAt(j, err[1], err[2]))
    BY <1>1, <1>2, <1>j, <1>r, <2>5, <2>8, RollbackAt
  <2> HIDE DEF E
  <2>14. CASE Call(w, E, ok, err)
    BY <1>0, <1>j, <2>10, <2>11, <2>13, <2>14, CallAgrees
  <2>15. CASE j.old \notin zones[h] /\ Finds(w, same)
    BY <1>0, <1>j, <2>12, <2>15, ReadsAgrees
  <2> QED BY <2>9, <2>14, <2>15
<1>14. ASSUME ReplacePersist(w) PROVE AgreeInv'
  <2>1. PICK err : err = RollbackNodeIP(w)
    OBVIOUS
  <2> DEFINE E == SetTargetVPSIP(j.node, j.new)
  <2>2. Call(w, E, end, err) /\ pc[w] = "persist"
    BY <1>14, <1>5, <1>j, <1>r, <2>1 DEF ReplacePersist, At
  <2>3. E /\ dirty' = dirty => OwnAddrs(j.node)' /\ \A m \in Nodes \ {j.node} : Apart(m)
    BY <1>1, <1>3, OwnEffects, PanelApart
  <2>4. j.node \notin spoiled => ReplaceFact(j, "persist", r)
    BY <1>1, FactSorts, <2>2, <1>l
  <2>5. E /\ dirty' = dirty /\ j.node \notin spoiled => FactAt(j, end[1], end[2])'
    BY <1>1, <1>2, <1>5, <1>6, <2>4, PersistFact
  <2>6. Place(j, err) /\ (j.node \notin spoiled => FactAt(j, err[1], err[2]))
    BY <1>1, <1>2, <1>j, <1>r, <2>1, <2>4, RollbackAt
  <2> HIDE DEF E
  <2> QED BY <1>0, <1>5, <1>j, <2>2, <2>3, <2>5, <2>6, CallAgrees
<1>15. ASSUME UndoZone(w) PROVE AgreeInv'
  <2>1. PICK h \in r.changed :
          LET left == [r EXCEPT !.changed = @ \ {h}]
              to == <<IF left.changed = {} THEN "undoAddr" ELSE "undoZones", left>>
          IN Call(w, ReplaceIP(h, j.new, j.old), to, to)
    BY <1>15, <1>j, <1>r DEF UndoZone
  <2>2. PICK q : q = [r EXCEPT !.changed = @ \ {h}]
    OBVIOUS
  <2>3. h \in Hosts /\ q \in Locals /\ q.changed = r.changed \ {h}
    BY <1>1, <2>2 DEF Locals
  <2>4. PICK to : to = <<IF q.changed = {} THEN "undoAddr" ELSE "undoZones", q>>
    OBVIOUS
  <2> DEFINE E == ReplaceIP(h, j.new, j.old)
  <2>5. Call(w, E, to, to) /\ pc[w] = "undoZones"
    BY <1>15, <2>1, <2>2, <2>4 DEF UndoZone
  <2>6. j.node \notin spoiled => ReplaceFact(j, "undoZones", r)
    BY <1>1, FactSorts, <2>5, <1>l
  <2>7. E /\ dirty' = dirty => OwnAddrs(j.node)' /\ \A m \in Nodes \ {j.node} : Apart(m)
    <3>1. E => panel' = panel /\ rec' = rec
      BY DEF ReplaceIP, SetZones
    <3> QED BY <1>1, <1>3, <2>3, <3>1, OwnEffects, ZonesApart
  <2>8. Place(j, to)
    BY <1>8, <2>3, <2>4, <1>l
  <2>9. E /\ dirty' = dirty /\ j.node \notin spoiled => FactAt(j, to[1], to[2])'
    <3>1. E /\ dirty' = dirty /\ j.node \notin spoiled =>
            /\ q.changed # {} => ReplaceFact(j, "undoZones", q)'
            /\ q.changed = {} => ReplaceFact(j, "undoAddr", q)'
      BY <1>1, <1>2, <2>3, <2>6, UndoZoneFact
    <3>2. /\ to[2] = q
          /\ to[1] = IF q.changed = {} THEN "undoAddr" ELSE "undoZones"
      BY <2>4
    <3> QED BY FactSorts, <3>1, <3>2, <1>l
  <2>10. pc[w] \in UndoIP
    BY <2>5 DEF UndoIP
  <2> HIDE DEF E
  <2> QED BY <1>0, <1>j, <2>5, <2>7, <2>8, <2>9, <2>10, CallAgrees
<1>16. ASSUME UndoAddr(w) PROVE AgreeInv'
  <2> DEFINE E == UpdateNodeAddress(j.node, j.old)
  <2>1. Call(w, E, end, end) /\ pc[w] = "undoAddr"
    BY <1>16, <1>5, <1>j DEF UndoAddr
  <2>2. E /\ dirty' = dirty => OwnAddrs(j.node)' /\ \A m \in Nodes \ {j.node} : Apart(m)
    BY <1>1, <1>3, OwnEffects, PanelApart
  <2>3. j.node \notin spoiled => ReplaceFact(j, "undoAddr", r)
    BY <1>1, FactSorts, <2>1, <1>l
  <2>4. E /\ dirty' = dirty /\ j.node \notin spoiled => FactAt(j, end[1], end[2])'
    BY <1>1, <1>5, <1>6, <2>3, UndoAddrFact
  <2>5. pc[w] \in UndoIP
    BY <2>1 DEF UndoIP
  <2> HIDE DEF E
  <2> QED BY <1>0, <1>5, <1>j, <2>1, <2>2, <2>4, <2>5, CallAgrees
<1> QED BY <1>10, <1>11, <1>12, <1>13, <1>14, <1>15, <1>16 DEF Replace

-----------------------------------------------------------------------------
(* The steps of SyncNodeDNS. *)

\* What a synchronization knows once it has looked up the row.
SyncBase(j, r) ==
  LET n == j.node  p == panel[j.node] IN
  /\ Agrees(n) /\ r.host = p.host /\ ~DNSDisabled
  /\ n \notin dirty => r.addr = p.addr
  /\ r.prev = IF n \in Managed THEN rec[n].ip ELSE NoAddr

\* What every label of a synchronization after the lookup shares.
LEMMA SyncBased ==
  ASSUME NEW j, NEW r, NEW l \in SyncLabels \ {"lookup", "done"}, SyncFact(j, l, r)
  PROVE  SyncBase(j, r)
BY DEF SyncFact, SyncBase

\* The zone has the address: the row follows if it does not have it.
LEMMA SettledFact ==
  ASSUME NEW j, NEW r, SyncBase(j, r), r.addr \in zones[panel[j.node].host],
         NEW l, l = IF j.node \in Managed /\ r.prev # r.addr THEN "syncPersist" ELSE "done"
  PROVE  SyncFact(j, l, r)
<1> DEFINE n == j.node
<1>1. l = "syncPersist" => n \in dirty /\ n \in Managed
  BY DEF SyncBase, Agrees, RowHas
<1>2. l = "done" /\ n \in Managed => rec[n].ip = r.addr
  BY DEF SyncBase
<1>3. l \in {"syncPersist", "done"}
  OBVIOUS
<1> HIDE DEF n
<1> QED BY <1>1, <1>2, <1>3 DEF SyncBase, SyncFact, n

\* A zone of an edited Node changes.
LEMMA SyncZoneFact ==
  ASSUME NEW j, Ready(j), NEW r \in Locals, r.host \in Hosts, SyncBase(j, r), j.node \in dirty,
         ReplaceIP(r.host, r.prev, r.addr) \/ AddIP(r.host, r.addr), dirty' = dirty
  PROVE  SyncBase(j, r)' /\ r.addr \in zones'[panel'[j.node].host]
<1> DEFINE n == j.node
<1>1. panel' = panel /\ sni' = sni /\ rec' = rec /\ r.addr \in zones'[r.host]
  BY ReadyTyped DEF ReplaceIP, AddIP, SetZones
<1>2. HostAgrees(n)' /\ RowHas(n, panel[n].addr)'
  BY <1>1 DEF SyncBase, Agrees, HostAgrees, RowHas
<1>3. Edits[n] # {}
  BY DEF Ready
<1>4. Pub(n, panel[n].addr, panel[n].host)'
  BY <1>3 DEF Pub, PubIn
<1> QED BY <1>1, <1>2, <1>4 DEF SyncBase, Agrees

\* The same after a step that put the address into the zone.
LEMMA SettledFactNext ==
  ASSUME NEW j, NEW r, SyncBase(j, r)', r.addr \in zones'[panel'[j.node].host],
         NEW l, l = IF j.node \in Managed /\ r.prev # r.addr THEN "syncPersist" ELSE "done"
  PROVE  SyncFact(j, l, r)'
<1> DEFINE n == j.node
<1>1. l = "syncPersist" => n \in dirty' /\ n \in Managed
  BY DEF SyncBase, Agrees, RowHas
<1>2. l = "done" /\ n \in Managed => rec'[n].ip = r.addr
  BY DEF SyncBase
<1>3. l \in {"syncPersist", "done"}
  OBVIOUS
<1> HIDE DEF n
<1> QED BY <1>1, <1>2, <1>3 DEF SyncBase, SyncFact, n

\* The row of an edited Node gets its address.
LEMMA SyncPersistFact ==
  ASSUME NEW j, Ready(j), NEW r, SyncFact(j, "syncPersist", r), j.node \in Managed,
         SetTargetVPSIP(j.node, r.addr), dirty' = dirty
  PROVE  SyncFact(j, "done", r)'
<1> DEFINE n == j.node
<1>1. /\ panel' = panel /\ sni' = sni /\ zones' = zones
      /\ rec'[n].ip = r.addr /\ rec'[n].host = rec[n].host
  BY ReadyTyped DEF SetTargetVPSIP
<1>2. n \in dirty /\ Agrees(n) /\ r.host = panel[n].host /\ ~DNSDisabled
      /\ r.addr \in zones[panel[n].host]
  BY DEF SyncFact
<1>3. Agrees(n)'
  BY <1>1, <1>2 DEF Agrees, HostAgrees, RowHas, Pub, PubIn
<1> QED BY <1>1, <1>2, <1>3 DEF SyncFact

\* The steps of SyncNodeDNS keep the invariant.
LEMMA SyncAgrees ==
  ASSUME OwnAddresses, OneKind, FreshInv, TypeInv', AgreeInv, NEW w \in Workers, Sync(w)
  PROVE  AgreeInv'
<1>j. PICK j : j = job[w]
  OBVIOUS
<1>r. PICK r : r = loc[w]
  OBVIOUS
<1>l. /\ "lookup" \in SyncLabels /\ "zone" \in SyncLabels /\ "syncReplace" \in SyncLabels
      /\ "syncAdd" \in SyncLabels /\ "syncPersist" \in SyncLabels /\ "done" \in SyncLabels
  BY DEF SyncLabels
<1>0. pc[w] # "idle" /\ pc[w] \in SyncLabels \cup {"read"} /\ j.kind = "sync"
  BY <1>j, <1>l DEF Sync, SyncRead, SyncLookup, SyncZone, SyncReplace, SyncAdd, SyncPersist, At
<1>1. /\ Ready(j) /\ j \in Offers[w] /\ j.node \in Nodes /\ Own(j, pc[w], r) /\ r \in Locals
      /\ j.node \notin spoiled => FactAt(j, pc[w], r)
      /\ HasRead(pc[w], r) /\ ~DNSDisabled
  BY <1>0, <1>j, <1>r, ReadyJob
<1>2. OwnAddrs(j.node) /\ TypeInv
  BY <1>1 DEF Ready
<1>3. ASSUME pc[w] \in SyncLabels
      PROVE  /\ r.addr \in Mine(j.node) /\ r.prev \in Mine(j.node) \cup {NoAddr}
             /\ r.host \in Hosts
             /\ j.node \notin spoiled => SyncFact(j, pc[w], r)
             /\ \A l \in SyncLabels : Place(j, <<l, r>>)
  BY <1>0, <1>1, <1>3, FactSorts, Places DEF Own, HasRead
<1>4. PICK end : end = <<"finish", r>>
  OBVIOUS
<1>5. Place(j, end) /\ end = To(w, "finish") /\ end[1] = "finish" /\ end[2] = r
  BY <1>1, <1>4, <1>r, Places DEF To
<1>6. PICK settle : settle = SyncSettled(w)
  OBVIOUS
<1>7. /\ settle = <<settle[1], r>> /\ settle[2] = r
      /\ settle[1] = IF j.node \in Managed /\ r.prev # r.addr THEN "syncPersist" ELSE "done"
  BY <1>6, <1>j, <1>r DEF SyncSettled, To
<1>8. settle[1] \in SyncLabels /\ (pc[w] \in SyncLabels => Place(j, settle))
  BY <1>3, <1>7, <1>l
<1>10. ASSUME SyncRead(w) PROVE AgreeInv'
  <2>1. PICK q : q = [r EXCEPT !.addr = panel[j.node].addr, !.host = panel[j.node].host]
    OBVIOUS
  <2>2. PICK to : to = <<IF panel[j.node].addr = j.old THEN "lookup" ELSE "finish", q>>
    OBVIOUS
  <2>3. Reads(w, to) /\ pc[w] = "read"
    BY <1>10, <1>j, <1>r, <2>1, <2>2 DEF SyncRead, At
  <2>4. (j.node \notin spoiled => Agrees(j.node)) /\ r = Blank
    BY <1>1, <2>3, FactSorts DEF Own
  <2>5. panel[j.node].addr \in Mine(j.node) /\ panel[j.node].addr \in Addrs /\ panel[j.node].host \in Hosts
    BY <1>1, <1>2, ReadyTyped DEF OwnAddrs
  <2>6. q \in Locals /\ q.addr = panel[j.node].addr /\ q.host = panel[j.node].host /\ q.prev = NoAddr
    BY <1>1, <2>1, <2>4, <2>5 DEF Locals, Blank
  <2>7. Place(j, to) /\ to[2] = q /\ to[1] \in {"lookup", "finish"}
    BY <1>0, <1>l, <2>2, <2>5, <2>6, Places
  <2>8. j.node \notin spoiled => SyncFact(j, "lookup", q)
    BY <1>1, <2>4, <2>6 DEF SyncFact
  <2>9. j.node \notin spoiled => FactAt(j, to[1], to[2])
    BY <1>l, <2>4, <2>7, <2>8, FactSorts
  <2> QED BY <1>0, <1>j, <2>3, <2>4, <2>7, <2>9, ReadsAgrees
<1>11. ASSUME SyncLookup(w) PROVE AgreeInv'
  <2>1. PICK q : q = IF j.node \notin Managed THEN r
                     ELSE [r EXCEPT !.prev = rec[j.node].ip, !.host = rec[j.node].host]
    OBVIOUS
  <2>2. PICK to : to = <<"zone", q>>
    OBVIOUS
  <2>3. Reads(w, to) /\ pc[w] = "lookup"
    BY <1>11, <1>j, <1>r, <2>1, <2>2 DEF SyncLookup, At
  <2>4. rec[j.node].ip \in Mine(j.node) /\ rec[j.node].ip \in Addrs /\ rec[j.node].host \in Hosts
    BY <1>1, <1>2, ReadyTyped DEF OwnAddrs
  <2>5. /\ q \in Locals /\ q.addr = r.addr
        /\ j.node \in Managed => q.prev = rec[j.node].ip /\ q.host = rec[j.node].host
        /\ j.node \notin Managed => q.prev = r.prev /\ q.host = r.host
    BY <1>1, <2>1, <2>4 DEF Locals
  <2>6. Place(j, to) /\ to[1] = "zone" /\ to[2] = q
    BY <1>0, <1>3, <1>l, <2>2, <2>3, <2>4, <2>5, Places
  <2>7. j.node \notin spoiled => SyncFact(j, "lookup", r)
    BY <1>3, <1>l, <2>3
  <2>8. j.node \notin spoiled => Agrees(j.node) /\ SyncFact(j, "zone", q)
    BY <2>5, <2>7 DEF SyncFact, Agrees, HostAgrees
  <2>9. j.node \notin spoiled => FactAt(j, to[1], to[2])
    BY <1>l, <2>6, <2>8, FactSorts
  <2> QED BY <1>0, <1>j, <2>3, <2>6, <2>8, <2>9, ReadsAgrees
<1>12. ASSUME SyncZone(w) PROVE AgreeInv'
  <2>1. PICK to : to = IF r.prev # r.addr /\ r.prev \in zones[r.host] THEN <<"syncReplace", r>>
                       ELSE IF r.addr \in zones[r.host] THEN settle
                       ELSE IF r.host \in Advanced /\ zones[r.host] # {} THEN end
                       ELSE <<"syncAdd", r>>
    OBVIOUS
  <2>2. Reads(w, to) /\ pc[w] = "zone"
    BY <1>12, <1>4, <1>6, <1>j, <1>r, <2>1 DEF SyncZone, At, To
  <2>3. j.node \notin spoiled => SyncBase(j, r)
    BY <1>3, <1>l, <2>2, SyncBased
  <2>4. j.node \notin spoiled => Agrees(j.node)
    BY <2>3 DEF SyncBase
  <2>5. NoAddr \notin zones[r.host]
    BY <1>1, <1>3, <1>l, <2>2, ReadyTyped, NodeOpsAssumption
  <2>6. CASE to = <<"syncReplace", r>> /\ r.prev # r.addr /\ r.prev \in zones[r.host]
    <3>1. j.node \notin spoiled => SyncFact(j, "syncReplace", r)
      BY <2>3, <2>5, <2>6 DEF SyncBase, SyncFact, Agrees, RowHas
    <3>2. Place(j, to) /\ to[1] = "syncReplace" /\ to[2] = r
      BY <1>3, <1>l, <2>2, <2>6
    <3>3. j.node \notin spoiled => FactAt(j, to[1], to[2])
      BY <1>l, <3>1, <3>2, FactSorts
    <3> QED BY <1>0, <1>j, <2>2, <2>4, <3>2, <3>3, ReadsAgrees
  <2>7. CASE to = settle /\ r.addr \in zones[r.host]
    <3>1. j.node \notin spoiled => SyncFact(j, settle[1], r)
      <4>1. j.node \notin spoiled => r.host = panel[j.node].host
        BY <2>3 DEF SyncBase
      <4> QED BY <1>7, <2>3, <2>7, <4>1, SettledFact
    <3>2. j.node \notin spoiled => FactAt(j, to[1], to[2])
      BY <1>7, <1>8, <2>7, <3>1, FactSorts
    <3> QED BY <1>0, <1>8, <1>j, <1>l, <2>2, <2>4, <2>7, <3>2, ReadsAgrees
  <2>8. CASE to = end
    <3>1. j.node \notin spoiled => FactAt(j, to[1], to[2])
      BY <1>5, <2>4, <2>8, FactSorts
    <3> QED BY <1>0, <1>5, <1>j, <2>2, <2>4, <2>8, <3>1, ReadsAgrees
  <2>9. CASE to = <<"syncAdd", r>> /\ r.addr \notin zones[r.host]
    <3>1. j.node \notin spoiled => SyncFact(j, "syncAdd", r)
      BY <2>3, <2>9 DEF SyncBase, SyncFact, Agrees, Pub, PubIn
    <3>2. Place(j, to) /\ to[1] = "syncAdd" /\ to[2] = r
      BY <1>3, <1>l, <2>2, <2>9
    <3>3. j.node \notin spoiled => FactAt(j, to[1], to[2])
      BY <1>l, <3>1, <3>2, FactSorts
    <3> QED BY <1>0, <1>j, <2>2, <2>4, <3>2, <3>3, ReadsAgrees
  <2> QED BY <2>1, <2>6, <2>7, <2>8, <2>9
<1>13. ASSUME SyncReplace(w) \/ SyncAdd(w) PROVE AgreeInv'
  <2> DEFINE E == ReplaceIP(r.host, r.prev, r.addr)
             F == AddIP(r.host, r.addr)
  <2>1. /\ \/ Call(w, E, settle, end) \/ Call(w, F, settle, end)
           \/ r.addr \in zones[r.host] /\ Finds(w, settle)
        /\ pc[w] \in {"syncReplace", "syncAdd"}
    BY <1>13, <1>5, <1>6, <1>r DEF SyncReplace, SyncAdd, At
  <2>2. pc[w] \in SyncLabels \ {"lookup", "done"}
    BY <2>1 DEF SyncLabels
  <2>3. /\ j.node \notin spoiled => SyncBase(j, r) /\ j.node \in dirty
        /\ j.node \notin spoiled => Agrees(j.node)
    <3>1. j.node \notin spoiled => SyncFact(j, pc[w], r)
      BY <1>3, <2>2
    <3> QED BY <2>1, <2>2, <3>1, SyncBased DEF SyncFact
  <2>4. j.node \notin spoiled => r.host = panel[j.node].host
    BY <2>3 DEF SyncBase
  <2>5. (E \/ F) /\ dirty' = dirty => OwnAddrs(j.node)' /\ \A m \in Nodes \ {j.node} : Apart(m)
    <3>1. E \/ F => panel' = panel /\ rec' = rec
      BY DEF ReplaceIP, AddIP, SetZones
    <3>2. r.addr \in Mine(j.node) /\ r.prev \in Mine(j.node) \cup {NoAddr} /\ r.host \in Hosts
      BY <1>3, <2>2
    <3> QED BY <1>1, <1>2, <3>1, <3>2, OwnEffects, ZonesApart
  <2>6. (E \/ F) /\ dirty' = dirty /\ j.node \notin spoiled => FactAt(j, settle[1], settle[2])'
    <3> SUFFICES ASSUME E \/ F, dirty' = dirty, j.node \notin spoiled
                 PROVE  FactAt(j, settle[1], settle[2])'
      OBVIOUS
    <3>1. SyncBase(j, r)' /\ r.addr \in zones'[panel'[j.node].host]
      BY <1>1, <1>3, <2>2, <2>3, SyncZoneFact
    <3>2. SyncFact(j, settle[1], r)'
      BY <1>7, <3>1, SettledFactNext
    <3> QED BY <1>7, <1>8, <3>2, FactSorts
  <2>7. j.node \notin spoiled => FactAt(j, end[1], end[2])
    BY <1>5, <2>3, FactSorts
  <2>8. r.addr \in zones[r.host] /\ j.node \notin spoiled => FactAt(j, settle[1], settle[2])
    BY <1>7, <1>8, <2>3, <2>4, SettledFact, FactSorts
  <2>9. Place(j, settle)
    BY <1>8, <2>2
  <2> HIDE DEF E, F
  <2>10. CASE Call(w, E, settle, end)
    BY <1>0, <1>5, <1>j, <2>5, <2>6, <2>7, <2>9, <2>10, CallAgrees
  <2>11. CASE Call(w, F, settle, end)
    BY <1>0, <1>5, <1>j, <2>5, <2>6, <2>7, <2>9, <2>11, CallAgrees
  <2>12. CASE r.addr \in zones[r.host] /\ Finds(w, settle)
    BY <1>0, <1>j, <2>8, <2>9, <2>12, ReadsAgrees
  <2> QED BY <2>1, <2>10, <2>11, <2>12
<1>14. ASSUME SyncPersist(w) PROVE AgreeInv'
  <2>1. PICK ok : ok = <<"done", r>>
    OBVIOUS
  <2> DEFINE E == SetTargetVPSIP(j.node, r.addr)
  <2>2. Call(w, E, ok, end) /\ pc[w] = "syncPersist"
    BY <1>14, <1>5, <1>j, <1>r, <2>1 DEF SyncPersist, At, To
  <2>3. j.node \notin spoiled => SyncFact(j, "syncPersist", r)
    BY <1>3, <1>l, <2>2
  <2>4. E /\ dirty' = dirty => OwnAddrs(j.node)' /\ \A m \in Nodes \ {j.node} : Apart(m)
    BY <1>1, <1>2, <1>3, <1>l, <2>2, OwnEffects, PanelApart
  <2>5. j.node \notin spoiled => Agrees(j.node) /\ j.node \in Managed
    BY <2>3 DEF SyncFact
  <2>6. Place(j, ok) /\ ok[1] = "done" /\ ok[2] = r
    BY <1>3, <1>l, <2>1, <2>2
  <2>7. E /\ dirty' = dirty /\ j.node \notin spoiled => FactAt(j, ok[1], ok[2])'
    BY <1>1, <1>l, <2>3, <2>5, <2>6, SyncPersistFact, FactSorts
  <2>8. j.node \notin spoiled => FactAt(j, end[1], end[2])
    BY <1>5, <2>5, FactSorts
  <2> HIDE DEF E
  <2> QED BY <1>0, <1>5, <1>j, <2>2, <2>4, <2>6, <2>7, <2>8, CallAgrees
<1> QED BY <1>10, <1>11, <1>12, <1>13, <1>14 DEF Sync

-----------------------------------------------------------------------------
(* The steps of MoveNodeToHost. *)

\* The VPS, the panel and the row are switched, or switched back.
LEMMA SwitchFact ==
  ASSUME NEW j, Ready(j), NEW r, MoveFact(j, "switch", r), SwitchNodeSNI(j.node, j.host),
         dirty' = dirty
  PROVE  MoveFact(j, "profile", r)'
<1>1. panel' = panel /\ zones' = zones /\ rec' = rec /\ sni'[j.node] = j.host
  BY ReadyTyped DEF SwitchNodeSNI
<1> QED BY <1>1 DEF MoveFact, RowHas, Pub, PubIn

\* After the panel's profile the zones follow, or without DNS the row.
LEMMA ProfileFact ==
  ASSUME NEW j, Ready(j), NEW r, MoveFact(j, "profile", r),
         UpdateNodeProfile(j.node, j.host), dirty' = dirty
  PROVE  /\ ~DNSDisabled => MoveFact(j, "moveDNS", r)'
         /\ DNSDisabled /\ j.node \in Managed => MoveFact(j, "bind", r)'
         /\ DNSDisabled /\ j.node \notin Managed => Agrees(j.node)'
<1> DEFINE n == j.node
<1>1. /\ zones' = zones /\ rec' = rec /\ sni' = sni
      /\ panel'[n].host = j.host /\ panel'[n].addr = panel[n].addr
  BY ReadyTyped DEF UpdateNodeProfile
<1>2. /\ j.from # j.host /\ (n \notin dirty => r.addr = panel[n].addr)
      /\ RowHas(n, panel[n].addr) /\ sni[n] = j.host /\ (n \in Managed => rec[n].host = j.from)
      /\ ~r.moved /\ Pub(n, panel[n].addr, j.from)
  BY DEF MoveFact
<1>3. RowHas(n, panel[n].addr)' /\ Pub(n, panel[n].addr, j.from)'
  BY <1>1, <1>2 DEF RowHas, Pub, PubIn
<1>4. DNSDisabled => Pub(n, panel[n].addr, j.host)'
  BY <1>1, <1>2 DEF Pub, PubIn
<1>5. DNSDisabled /\ n \notin Managed => Agrees(n)'
  BY <1>1, <1>2, <1>3, <1>4 DEF Agrees, HostAgrees
<1> QED BY <1>1, <1>2, <1>3, <1>5 DEF MoveFact

\* The row's binding completes a move.
LEMMA BindFact ==
  ASSUME NEW j, Ready(j), NEW r, MoveFact(j, "bind", r),
         SetNodeHostBinding(j.node, j.host), dirty' = dirty
  PROVE  Agrees(j.node)'
<1>p. PICK p : p = panel[j.node]
  OBVIOUS
<1> DEFINE n == j.node
<1>1. /\ zones' = zones /\ panel' = panel /\ sni' = sni
      /\ rec'[n].host = j.host /\ rec'[n].ip = rec[n].ip
  BY ReadyTyped DEF SetNodeHostBinding
<1>2. /\ RowHas(n, p.addr) /\ sni[n] = j.host /\ p.host = j.host
      /\ n \notin dirty => r.moved \/ DNSDisabled
      /\ Pub(n, p.addr, IF r.moved THEN j.host ELSE j.from)
  BY <1>p DEF MoveFact
<1>3. PubIn(zones, n, p.addr, p.host)
  <2>1. CASE n \in dirty \/ DNSDisabled
    BY <1>2, <2>1, PubFree DEF Pub, Ready
  <2>2. CASE n \notin dirty /\ ~DNSDisabled
    BY <1>2, <2>2 DEF Pub
  <2> QED BY <2>1, <2>2
<1>4. Pub(n, p.addr, p.host)'
  BY <1>1, <1>3, PubSame
<1> QED BY <1>1, <1>2, <1>4, <1>p DEF Agrees, HostAgrees, RowHas

\* The panel goes back first, then the zones if they were moved.
LEMMA UndoProfileFact ==
  ASSUME NEW j, Ready(j), NEW r, MoveFact(j, "undoProfile", r),
         UpdateNodeProfile(j.node, j.from), dirty' = dirty
  PROVE  /\ r.moved => MoveFact(j, "undoDNS", r)'
         /\ ~r.moved => MoveFact(j, "undoSNI", r)'
<1> DEFINE n == j.node
<1>1. /\ zones' = zones /\ rec' = rec /\ sni' = sni
      /\ panel'[n].host = j.from /\ panel'[n].addr = panel[n].addr
  BY ReadyTyped DEF UpdateNodeProfile
<1>2. /\ j.from # j.host /\ (n \notin dirty => r.addr = panel[n].addr)
      /\ RowHas(n, panel[n].addr) /\ sni[n] = j.host /\ (n \in Managed => rec[n].host = j.from)
      /\ Pub(n, panel[n].addr, IF r.moved THEN j.host ELSE j.from)
  BY DEF MoveFact
<1>3. /\ RowHas(n, panel[n].addr)'
      /\ Pub(n, panel[n].addr, IF r.moved THEN j.host ELSE j.from)'
  BY <1>1, <1>2 DEF RowHas, Pub, PubIn
<1> QED BY <1>1, <1>2, <1>3 DEF MoveFact

\* The VPS is the last to go back.
LEMMA UndoSNIFact ==
  ASSUME NEW j, Ready(j), NEW r, MoveFact(j, "undoSNI", r), SwitchNodeSNI(j.node, j.from),
         dirty' = dirty
  PROVE  Agrees(j.node)'
<1>1. panel' = panel /\ zones' = zones /\ rec' = rec /\ sni'[j.node] = j.from
  BY ReadyTyped DEF SwitchNodeSNI
<1> QED BY <1>1 DEF MoveFact, RowHas, Pub, PubIn, Agrees, HostAgrees

\* The address moves from the zone of one Host to that of the other.
LEMMA MoveIPFact ==
  ASSUME NEW j, Ready(j), NEW r, r.addr \in Mine(j.node), NEW g \in Hosts, NEW h \in Hosts,
         g # h, MoveIP(g, h, r.addr), dirty' = dirty, NEW p, p = panel[j.node],
         j.node \notin dirty => r.addr = p.addr, Pub(j.node, p.addr, g)
  PROVE  /\ panel' = panel /\ sni' = sni /\ rec' = rec
         /\ Pub(j.node, p.addr, h)'
<1> DEFINE n == j.node
<1>y. PICK y : y = [zones EXCEPT ![g] = @ \ {r.addr}, ![h] = @ \cup {r.addr}]
  OBVIOUS
<1>1. /\ panel' = panel /\ sni' = sni /\ rec' = rec /\ zones' = y /\ r.addr \in zones[g]
  BY <1>y DEF MoveIP, SetZones
<1>2. PubIn(y, n, p.addr, h)
  <2>1. CASE n \in dirty
    BY <2>1, PubFree DEF Ready
  <2>2. CASE n \notin dirty
    BY <1>1, <1>y, <2>2, PubMove, ReadyTyped DEF Pub
  <2> QED BY <2>1, <2>2
<1> QED BY <1>1, <1>2, PubSame

\* After the zones the row follows; a Node without a row is done.
LEMMA MoveDNSFact ==
  ASSUME NEW j, Ready(j), NEW r, r.addr \in Mine(j.node), MoveFact(j, "moveDNS", r),
         MoveIP(j.from, j.host, r.addr), dirty' = dirty,
         NEW q, q.addr = r.addr, q.moved = TRUE
  PROVE  /\ j.node \in Managed => MoveFact(j, "bind", q)'
         /\ j.node \notin Managed => Agrees(j.node)'
<1>p. PICK p : p = panel[j.node]
  OBVIOUS
<1> DEFINE n == j.node
<1>1. /\ j.from # j.host /\ (n \notin dirty => r.addr = p.addr)
      /\ RowHas(n, p.addr) /\ sni[n] = j.host /\ (n \in Managed => rec[n].host = j.from)
      /\ Pub(n, p.addr, j.from) /\ p.host = j.host
  BY <1>p DEF MoveFact
<1>2. panel' = panel /\ sni' = sni /\ rec' = rec /\ Pub(n, p.addr, j.host)'
  BY <1>1, <1>p, MoveIPFact, ReadyTyped
<1>3. RowHas(n, p.addr)'
  BY <1>1, <1>2 DEF RowHas
<1>4. n \notin Managed => Agrees(n)'
  BY <1>1, <1>2, <1>3, <1>p DEF Agrees, HostAgrees
<1> QED BY <1>1, <1>2, <1>3, <1>4, <1>p DEF MoveFact

\* The address goes back to the zone of the previous Host.
LEMMA UndoDNSFact ==
  ASSUME NEW j, Ready(j), NEW r, r.addr \in Mine(j.node), MoveFact(j, "undoDNS", r),
         MoveIP(j.host, j.from, r.addr), dirty' = dirty
  PROVE  MoveFact(j, "undoSNI", r)'
<1>p. PICK p : p = panel[j.node]
  OBVIOUS
<1> DEFINE n == j.node
<1>1. /\ j.from # j.host /\ (n \notin dirty => r.addr = p.addr)
      /\ RowHas(n, p.addr) /\ sni[n] = j.host /\ (n \in Managed => rec[n].host = j.from)
      /\ Pub(n, p.addr, j.host) /\ p.host = j.from
  BY <1>p DEF MoveFact
<1>2. panel' = panel /\ sni' = sni /\ rec' = rec /\ Pub(n, p.addr, j.from)'
  BY <1>1, <1>p, MoveIPFact, ReadyTyped
<1>3. RowHas(n, p.addr)'
  BY <1>1, <1>2 DEF RowHas
<1> QED BY <1>1, <1>2, <1>3, <1>p DEF MoveFact

\* The zones are found changed: only those of an edited Node are.
LEMMA FoundMoved ==
  ASSUME NEW j, Ready(j), NEW r, MoveFact(j, "moveDNS", r), r.addr \notin zones[j.from]
  PROVE  /\ j.node \in Managed => MoveFact(j, "bind", r)
         /\ j.node \notin Managed => Agrees(j.node)
<1> DEFINE n == j.node
<1>1. n \in dirty /\ Edits[n] # {}
  BY DEF MoveFact, Pub, PubIn, Ready
<1>2. n \notin Managed => Agrees(n)
  BY <1>1 DEF MoveFact, Agrees, HostAgrees, RowHas, Pub, PubIn
<1> QED BY <1>1, <1>2 DEF MoveFact

\* A call of a move fails: nothing is to be undone before the switch, and the
\* rollback starts with what has been done.
LEMMA MoveFails ==
  ASSUME NEW j, NEW r
  PROVE  /\ MoveFact(j, "switch", r) => Agrees(j.node)
         /\ \A l \in {"profile", "moveDNS", "bind"} :
              MoveFact(j, l, r) => MoveFact(j, "undoProfile", r)
BY DEF MoveFact, Agrees, HostAgrees

\* A move goes on after the zones at the row, if there is one.
LEMMA AfterMoveAt ==
  ASSUME NEW w \in Workers, NEW j, j = job[w], j.kind = "move", NEW x \in Locals,
         x.addr \in Mine(j.node), NEW to, to = AfterMove(w, x)
  PROVE  /\ Place(j, to)
         /\ /\ j.node \in Managed => MoveFact(j, "bind", x)
            /\ j.node \notin Managed => Agrees(j.node)
            => FactAt(j, to[1], to[2])
         /\ /\ j.node \in Managed => MoveFact(j, "bind", x)'
            /\ j.node \notin Managed => Agrees(j.node)'
            => FactAt(j, to[1], to[2])'
<1>1. CASE j.node \in Managed
  <2>1. to = <<"bind", x>> /\ to[1] = "bind" /\ to[2] = x /\ "bind" \in MoveLabels
    BY <1>1 DEF AfterMove, MoveLabels
  <2> QED BY <1>1, <2>1, Places, FactSorts
<1>2. CASE j.node \notin Managed
  <2>1. to = <<"finish", x>> /\ to[1] = "finish" /\ to[2] = x
    BY <1>2 DEF AfterMove
  <2> QED BY <1>2, <2>1, Places, FactSorts
<1> QED BY <1>1, <1>2

\* A MoveIP that leaves the address in both zones or in neither spoils the Node.
LEMMA HalfAgrees ==
  ASSUME OwnAddresses, OneKind, FreshInv, TypeInv', AgreeInv, NEW w \in Workers,
         pc[w] # "idle", NEW j, j = job[w], NEW r \in Locals, r = loc[w],
         r.addr \in Mine(j.node), NEW g \in Hosts, NEW h \in Hosts,
         MoveIPHalf(g, h, r.addr), NEW l \in MoveLabels, j.kind = "move",
         Goto(w, l), Spoil({job[w].node}), UNCHANGED <<svc, job, dirty>>
  PROVE  AgreeInv'
<1>1. Ready(j) /\ j.node \in Nodes /\ TypeInv
  BY ReadyJob DEF FreshInv
<1>2. Out(w, l, r) /\ j.node \in spoiled' /\ dirty' = dirty
  BY DEF Out, Goto, Goes, To, Spoil
<1>3. panel' = panel /\ rec' = rec
  BY DEF MoveIPHalf, SetZones
<1>4. OwnAddrs(j.node)'
  BY <1>1, <1>3, OwnEffects
<1>5. \A m \in Nodes \ {j.node} : Apart(m)
  BY <1>1, <1>2, ZonesApart
<1>6. Place(j, <<l, r>>)
  BY Places
<1>7. l \in Labels /\ l # "idle" /\ Own(j, l, r)
  BY <1>6 DEF Place
<1> QED BY <1>2, <1>4, <1>5, <1>7, OutAgrees

\* The steps of MoveNodeToHost keep the invariant.
LEMMA MoveAgrees ==
  ASSUME OwnAddresses, OneKind, FreshInv, TypeInv', AgreeInv, NEW w \in Workers, Move(w)
  PROVE  AgreeInv'
<1>j. PICK j : j = job[w]
  OBVIOUS
<1>r. PICK r : r = loc[w]
  OBVIOUS
<1>l. /\ "switch" \in MoveLabels /\ "profile" \in MoveLabels /\ "moveDNS" \in MoveLabels
      /\ "bind" \in MoveLabels /\ "undoProfile" \in MoveLabels /\ "undoDNS" \in MoveLabels
      /\ "undoSNI" \in MoveLabels
  BY DEF MoveLabels, UndoMove
<1>u. {"undoProfile", "undoDNS", "undoSNI"} \subseteq UndoIP \cup UndoMove
  BY DEF UndoMove
<1>0. pc[w] # "idle" /\ pc[w] \in MoveLabels \cup {"read"}
  BY <1>l DEF Move, MoveRead, MoveSwitch, MoveProfile, MoveDNS, MoveBind, UndoProfile,
              UndoDNS, UndoSNI, At
<1>1. /\ Ready(j) /\ j \in Offers[w] /\ j.node \in Nodes /\ Own(j, pc[w], r) /\ r \in Locals
      /\ j.node \notin spoiled => FactAt(j, pc[w], r)
      /\ j.from \in Hosts /\ j.host \in Hosts
  BY <1>0, <1>j, <1>r, ReadyJob, ReadyTyped
<1>2. OwnAddrs(j.node) /\ TypeInv
  BY <1>1 DEF Ready
<1>3. ASSUME pc[w] \in MoveLabels
      PROVE  /\ r.addr \in Mine(j.node) /\ j.kind = "move"
             /\ j.node \notin spoiled => MoveFact(j, pc[w], r)
             /\ \A l \in MoveLabels : Place(j, <<l, r>>)
  <2>1. r.addr \in Mine(j.node) /\ j.kind = "move"
    BY <1>1, <1>3 DEF Own
  <2>2. j.node \notin spoiled => MoveFact(j, pc[w], r)
    BY <1>1, <1>3, FactSorts
  <2>3. \A l \in MoveLabels : Place(j, <<l, r>>)
    BY <1>1, <2>1, Places
  <2> QED BY <2>1, <2>2, <2>3
<1>4. PICK end : end = <<"finish", r>>
  OBVIOUS
<1>5. Place(j, end) /\ end = To(w, "finish") /\ end[1] = "finish" /\ end[2] = r
  BY <1>1, <1>4, <1>r, Places DEF To
<1>6. PICK undo : undo = <<"undoProfile", r>>
  OBVIOUS
<1>7. /\ undo = To(w, "undoProfile") /\ undo[1] = "undoProfile" /\ undo[2] = r
      /\ pc[w] \in MoveLabels => Place(j, undo)
  BY <1>3, <1>6, <1>l, <1>r DEF To
<1>8. ASSUME pc[w] \in {"profile", "moveDNS", "bind"}, j.node \notin spoiled
      PROVE  FactAt(j, undo[1], undo[2])
  BY <1>3, <1>7, <1>8, <1>l, MoveFails, FactSorts
<1>10. ASSUME MoveRead(w) PROVE AgreeInv'
  <2>1. PICK q : q = [r EXCEPT !.addr = panel[j.node].addr]
    OBVIOUS
  <2>2. PICK to : to = <<IF panel[j.node].host = j.from /\ j.from # j.host
                           THEN "switch" ELSE "finish", q>>
    OBVIOUS
  <2>3. Reads(w, to) /\ pc[w] = "read" /\ j.kind = "move"
    BY <1>10, <1>j, <1>r, <2>1, <2>2 DEF MoveRead, At
  <2>4. (j.node \notin spoiled => Agrees(j.node)) /\ r = Blank
    BY <1>1, <2>3, FactSorts DEF Own
  <2>5. panel[j.node].addr \in Mine(j.node) /\ panel[j.node].addr \in Addrs
    BY <1>1, <1>2, ReadyTyped DEF OwnAddrs
  <2>6. q \in Locals /\ q.addr = panel[j.node].addr /\ ~q.moved
    BY <1>1, <2>1, <2>4, <2>5 DEF Locals, Blank
  <2>7. /\ Place(j, to) /\ to[2] = q /\ to[1] \in {"switch", "finish"}
        /\ to[1] = "switch" => panel[j.node].host = j.from /\ j.from # j.host
    BY <1>l, <2>2, <2>3, <2>5, <2>6, Places
  <2>8. j.node \notin spoiled /\ to[1] = "switch" => MoveFact(j, "switch", q)
    BY <2>4, <2>6, <2>7 DEF MoveFact, Agrees, HostAgrees
  <2>9. j.node \notin spoiled => FactAt(j, to[1], to[2])
    BY <1>l, <2>4, <2>7, <2>8, FactSorts
  <2> QED BY <1>0, <1>j, <2>3, <2>4, <2>7, <2>9, ReadsAgrees
<1>11. ASSUME MoveSwitch(w) PROVE AgreeInv'
  <2>1. PICK ok : ok = <<"profile", r>>
    OBVIOUS
  <2> DEFINE E == sni[j.node] = j.from /\ SwitchNodeSNI(j.node, j.host)
  <2>2. Call(w, E, ok, end) /\ pc[w] = "switch"
    BY <1>11, <1>5, <1>j, <1>r, <2>1 DEF MoveSwitch, At, To
  <2>3. j.node \notin spoiled => MoveFact(j, "switch", r)
    BY <1>3, <1>l, <2>2
  <2>4. E /\ dirty' = dirty => OwnAddrs(j.node)' /\ \A m \in Nodes \ {j.node} : Apart(m)
    BY <1>1, <1>2, OwnEffects, PanelApart
  <2>5. Place(j, ok) /\ ok[1] = "profile" /\ ok[2] = r
    BY <1>3, <1>l, <2>1, <2>2
  <2>6. E /\ dirty' = dirty /\ j.node \notin spoiled => FactAt(j, ok[1], ok[2])'
    BY <1>1, <1>l, <2>3, <2>5, SwitchFact, FactSorts
  <2>7. j.node \notin spoiled => FactAt(j, end[1], end[2])
    BY <1>5, <2>3, MoveFails, FactSorts
  <2> HIDE DEF E
  <2> QED BY <1>0, <1>5, <1>j, <2>2, <2>4, <2>5, <2>6, <2>7, CallAgrees
<1>12. ASSUME MoveProfile(w) PROVE AgreeInv'
  <2>0. PICK after : after = AfterMove(w, r)
    OBVIOUS
  <2>1. PICK ok : ok = IF DNSDisabled THEN after ELSE <<"moveDNS", r>>
    OBVIOUS
  <2> DEFINE E == UpdateNodeProfile(j.node, j.host)
  <2>2. Call(w, E, ok, undo) /\ pc[w] = "profile"
    BY <1>12, <1>7, <1>j, <1>r, <2>0, <2>1 DEF MoveProfile, At, To
  <2>3. j.node \notin spoiled => MoveFact(j, "profile", r)
    BY <1>3, <1>l, <2>2
  <2>4. E /\ dirty' = dirty => OwnAddrs(j.node)' /\ \A m \in Nodes \ {j.node} : Apart(m)
    BY <1>1, <1>2, OwnEffects, PanelApart
  <2>5. r.addr \in Mine(j.node) /\ j.kind = "move" /\ Place(j, undo)
    BY <1>3, <1>7, <1>l, <2>2
  <2>6. CASE DNSDisabled
    <3>1. ok = after
      BY <2>1, <2>6
    <3>2. Place(j, ok)
      BY <1>1, <1>j, <2>0, <2>5, <3>1, AfterMoveAt
    <3>3. E /\ dirty' = dirty /\ j.node \notin spoiled => FactAt(j, ok[1], ok[2])'
      BY <1>1, <1>j, <2>0, <2>3, <2>5, <2>6, <3>1, AfterMoveAt, ProfileFact
    <3> HIDE DEF E
    <3> QED BY <1>0, <1>8, <1>j, <2>2, <2>4, <2>5, <3>2, <3>3, CallAgrees
  <2>7. CASE ~DNSDisabled
    <3>1. Place(j, ok) /\ ok[1] = "moveDNS" /\ ok[2] = r
      BY <1>3, <1>l, <2>1, <2>2, <2>7
    <3>3. E /\ dirty' = dirty /\ j.node \notin spoiled => FactAt(j, ok[1], ok[2])'
      BY <1>1, <1>l, <2>3, <2>7, <3>1, ProfileFact, FactSorts
    <3> HIDE DEF E
    <3> QED BY <1>0, <1>8, <1>j, <2>2, <2>4, <2>5, <3>1, <3>3, CallAgrees
  <2> QED BY <2>6, <2>7
<1>13. ASSUME MoveDNS(w) PROVE AgreeInv'
  <2>1. PICK q : q = [r EXCEPT !.moved = TRUE]
    OBVIOUS
  <2>2. PICK ok : ok = AfterMove(w, q)
    OBVIOUS
  <2>3. PICK same : same = AfterMove(w, r)
    OBVIOUS
  <2> DEFINE E == MoveIP(j.from, j.host, r.addr)
  <2>4. /\ pc[w] = "moveDNS"
        /\ \/ Call(w, E, ok, undo)
           \/ r.addr \notin zones[j.from] /\ Finds(w, same)
           \/ /\ MoveIPHalf(j.from, j.host, r.addr) /\ Goto(w, "undoProfile")
              /\ Spoil({job[w].node}) /\ UNCHANGED <<svc, job, dirty>>
    BY <1>13, <1>7, <1>j, <1>r, <2>1, <2>2, <2>3 DEF MoveDNS, At
  <2>5. /\ r.addr \in Mine(j.node) /\ j.kind = "move" /\ Place(j, undo)
        /\ j.node \notin spoiled => MoveFact(j, "moveDNS", r)
    BY <1>3, <1>7, <1>l, <2>4
  <2>6. q \in Locals /\ q.addr = r.addr /\ q.moved = TRUE
    BY <1>1, <2>1 DEF Locals
  <2>7. E /\ dirty' = dirty => OwnAddrs(j.node)' /\ \A m \in Nodes \ {j.node} : Apart(m)
    <3>1. E => panel' = panel /\ rec' = rec
      BY DEF MoveIP, SetZones
    <3> QED BY <1>1, <1>2, <2>5, <3>1, OwnEffects, ZonesApart
  <2>8. Place(j, ok) /\ Place(j, same)
    BY <1>1, <1>j, <2>2, <2>3, <2>5, <2>6, AfterMoveAt
  <2>9. E /\ dirty' = dirty /\ j.node \notin spoiled => FactAt(j, ok[1], ok[2])'
    BY <1>1, <1>j, <2>2, <2>5, <2>6, AfterMoveAt, MoveDNSFact
  <2>10. r.addr \notin zones[j.from] /\ j.node \notin spoiled => FactAt(j, same[1], same[2])
    BY <1>1, <1>j, <2>3, <2>5, AfterMoveAt, FoundMoved
  <2> HIDE DEF E
  <2>11. CASE Call(w, E, ok, undo)
    BY <1>0, <1>8, <1>j, <2>4, <2>5, <2>7, <2>8, <2>9, <2>11, CallAgrees
  <2>12. CASE r.addr \notin zones[j.from] /\ Finds(w, same)
    BY <1>0, <1>j, <2>8, <2>10, <2>12, ReadsAgrees
  <2>13. CASE /\ MoveIPHalf(j.from, j.host, r.addr) /\ Goto(w, "undoProfile")
              /\ Spoil({job[w].node}) /\ UNCHANGED <<svc, job, dirty>>
    BY <1>0, <1>1, <1>j, <1>l, <1>r, <2>5, <2>13, HalfAgrees
  <2> QED BY <2>4, <2>11, <2>12, <2>13
<1>14. ASSUME MoveBind(w) PROVE AgreeInv'
  <2> DEFINE E == SetNodeHostBinding(j.node, j.host)
  <2>1. Call(w, E, end, undo) /\ pc[w] = "bind"
    BY <1>14, <1>5, <1>7, <1>j DEF MoveBind, At
  <2>2. (j.node \notin spoiled => MoveFact(j, "bind", r)) /\ Place(j, undo)
    BY <1>3, <1>7, <1>l, <2>1
  <2>3. E /\ dirty' = dirty => OwnAddrs(j.node)' /\ \A m \in Nodes \ {j.node} : Apart(m)
    BY <1>1, <1>2, OwnEffects, PanelApart
  <2>4. E /\ dirty' = dirty /\ j.node \notin spoiled => FactAt(j, end[1], end[2])'
    BY <1>1, <1>5, <2>2, BindFact, FactSorts
  <2> HIDE DEF E
  <2> QED BY <1>0, <1>5, <1>8, <1>j, <2>1, <2>2, <2>3, <2>4, CallAgrees
<1>15. ASSUME UndoProfile(w) PROVE AgreeInv'
  <2>1. PICK to : to = <<IF r.moved THEN "undoDNS" ELSE "undoSNI", r>>
    OBVIOUS
  <2> DEFINE E == UpdateNodeProfile(j.node, j.from)
  <2>2. Call(w, E, to, to) /\ pc[w] = "undoProfile"
    BY <1>15, <1>j, <1>r, <2>1 DEF UndoProfile, To
  <2>3. j.node \notin spoiled => MoveFact(j, "undoProfile", r)
    BY <1>3, <1>l, <2>2
  <2>4. E /\ dirty' = dirty => OwnAddrs(j.node)' /\ \A m \in Nodes \ {j.node} : Apart(m)
    BY <1>1, <1>2, OwnEffects, PanelApart
  <2>5. /\ Place(j, to) /\ to[2] = r /\ to[1] = (IF r.moved THEN "undoDNS" ELSE "undoSNI")
    BY <1>3, <1>l, <2>1, <2>2
  <2>6. E /\ dirty' = dirty /\ j.node \notin spoiled => FactAt(j, to[1], to[2])'
    BY <1>1, <1>l, <2>3, <2>5, UndoProfileFact, FactSorts
  <2> HIDE DEF E
  <2> QED BY <1>0, <1>j, <1>u, <2>2, <2>4, <2>5, <2>6, CallAgrees
<1>16. ASSUME UndoDNS(w) PROVE AgreeInv'
  <2>1. PICK to : to = <<"undoSNI", r>>
    OBVIOUS
  <2> DEFINE E == MoveIP(j.host, j.from, r.addr)
  <2>2. /\ pc[w] = "undoDNS"
        /\ \/ Call(w, E, to, to)
           \/ /\ MoveIPHalf(j.host, j.from, r.addr) /\ Goto(w, "undoSNI")
              /\ Spoil({job[w].node}) /\ UNCHANGED <<svc, job, dirty>>
    BY <1>16, <1>j, <1>r, <2>1 DEF UndoDNS, To
  <2>3. /\ r.addr \in Mine(j.node) /\ j.kind = "move"
        /\ j.node \notin spoiled => MoveFact(j, "undoDNS", r)
        /\ Place(j, to) /\ to[1] = "undoSNI" /\ to[2] = r
    BY <1>3, <1>l, <2>1, <2>2
  <2>4. E /\ dirty' = dirty => OwnAddrs(j.node)' /\ \A m \in Nodes \ {j.node} : Apart(m)
    <3>1. E => panel' = panel /\ rec' = rec
      BY DEF MoveIP, SetZones
    <3> QED BY <1>1, <1>2, <2>3, <3>1, OwnEffects, ZonesApart
  <2>5. E /\ dirty' = dirty /\ j.node \notin spoiled => FactAt(j, to[1], to[2])'
    BY <1>1, <1>l, <2>3, UndoDNSFact, FactSorts
  <2> HIDE DEF E
  <2>6. CASE Call(w, E, to, to)
    BY <1>0, <1>j, <1>u, <2>2, <2>3, <2>4, <2>5, <2>6, CallAgrees
  <2>7. CASE /\ MoveIPHalf(j.host, j.from, r.addr) /\ Goto(w, "undoSNI")
             /\ Spoil({job[w].node}) /\ UNCHANGED <<svc, job, dirty>>
    BY <1>0, <1>1, <1>j, <1>l, <1>r, <2>3, <2>7, HalfAgrees
  <2> QED BY <2>2, <2>6, <2>7
<1>17. ASSUME UndoSNI(w) PROVE AgreeInv'
  <2> DEFINE E == sni[j.node] = j.host /\ SwitchNodeSNI(j.node, j.from)
  <2>1. Call(w, E, end, end) /\ pc[w] = "undoSNI"
    BY <1>17, <1>5, <1>j DEF UndoSNI
  <2>2. j.node \notin spoiled => MoveFact(j, "undoSNI", r)
    BY <1>3, <1>l, <2>1
  <2>3. E /\ dirty' = dirty => OwnAddrs(j.node)' /\ \A m \in Nodes \ {j.node} : Apart(m)
    BY <1>1, <1>2, OwnEffects, PanelApart
  <2>4. E /\ dirty' = dirty /\ j.node \notin spoiled => FactAt(j, end[1], end[2])'
    BY <1>1, <1>5, <2>2, UndoSNIFact, FactSorts
  <2> HIDE DEF E
  <2> QED BY <1>0, <1>5, <1>j, <1>u, <2>1, <2>3, <2>4, CallAgrees
<1> QED BY <1>10, <1>11, <1>12, <1>13, <1>14, <1>15, <1>16, <1>17 DEF Move

-----------------------------------------------------------------------------
(* Start and end of an operation, shutdown, kill and edits. *)

\* acquire keeps the invariant.
LEMMA AcquireAgrees ==
  ASSUME OneKind, FreshInv, TypeInv', AgreeInv, NEW w \in Workers, Acquire(w)
  PROVE  AgreeInv'
<1>j. PICK j : j = job[w]
  OBVIOUS
<1>r. PICK r : r = loc[w]
  OBVIOUS
<1>0. pc[w] = "acquire" /\ UNCHANGED ext /\ dirty' = dirty /\ spoiled' = spoiled
  BY DEF Acquire
<1>1. /\ Ready(j) /\ j.node \in Nodes /\ Own(j, pc[w], r) /\ r \in Locals
      /\ j.node \notin spoiled => FactAt(j, pc[w], r)
  BY <1>0, <1>j, <1>r, ReadyJob
<1>2. Out(w, "read", r) \/ Out(w, "finish", r)
  BY <1>r DEF Acquire, Goto, Goes, To, Out
<1>3. j.node \notin spoiled => Agrees(j.node)
  BY <1>0, <1>1, FactSorts
<1>4. ASSUME NEW l \in {"read", "finish"}, Out(w, l, r) PROVE AgreeInv'
  <2>1. l \in Labels /\ l # "idle" /\ Own(j, l, r)
    BY <1>0, <1>1, LabelSorts DEF Own, ReplaceLabels
  <2>2. j.node \notin spoiled' => FactAt(j, l, r)'
    BY <1>0, <1>3, QuietFact, FactSorts
  <2>3. OwnAddrs(j.node)' /\ \A m \in Nodes \ {j.node} : Apart(m)
    BY <1>0, <1>1, QuietApart DEF OwnAddrs, ext, Ready
  <2> QED BY <1>0, <1>1, <1>4, <1>j, <2>1, <2>2, <2>3, OutAgrees
<1> QED BY <1>2, <1>4

\* beginExecution starts on a Node nothing else works on.
LEMMA StartAgrees ==
  ASSUME OneKind, FreshInv, TypeInv', AgreeInv, NEW w \in Workers, Start(w)
  PROVE  AgreeInv'
<1>1. PICK j \in Offers[w] : /\ Key(j) \notin running
                             /\ j.kind = "sync" => ~DNSDisabled
                             /\ job' = [job EXCEPT ![w] = j]
  BY DEF Start
<1>2. /\ pc[w] = "idle" /\ pc' = [pc EXCEPT ![w] = "acquire"] /\ loc' = [loc EXCEPT ![w] = loc[w]]
      /\ UNCHANGED ext /\ dirty' = dirty /\ spoiled' = spoiled
  BY DEF Start, Goto, Goes, To
<1>3. /\ pc'[w] = "acquire" /\ job'[w] = j /\ loc'[w] = Blank
      /\ \A v \in Workers \ {w} : pc'[v] = pc[v] /\ job'[v] = job[v] /\ loc'[v] = loc[v]
  BY <1>1, <1>2 DEF FreshInv, TypeInv, WorkersOK, AgreeInv, OwnInv
<1>4. j \in JobRecords /\ j.node \in Nodes
  BY NodeOpsAssumption DEF JobRecords
<1>5. Settled(j.node)
  <2> SUFFICES ASSUME NEW v \in Active, job[v].node = j.node PROVE FALSE
    BY DEF Settled
  <2>1. v \in Workers /\ v # w /\ pc[v] # "idle"
    BY <1>2 DEF Active
  <2>2. job[v] \in Offers[v] /\ Key(job[v]) \in running
    BY <2>1 DEF AgreeInv, OwnInv, FreshInv, Registered
  <2>3. job[v].kind = j.kind
    BY <2>1, <2>2 DEF OneKind
  <2> QED BY <1>1, <2>2, <2>3 DEF Key
<1>6. \A m \in Nodes : Apart(m)
  BY <1>2, QuietApart
<1>7. OwnInv'
  <2>1. Own(j, "acquire", Blank)
    BY LabelSorts DEF Own, ReplaceLabels
  <2>2. \A n \in Nodes : OwnAddrs(n)'
    BY <1>2 DEF AgreeInv, OwnInv, OwnAddrs, ext
  <2> QED BY <1>1, <1>2, <1>3, <2>1, <2>2 DEF AgreeInv, OwnInv
<1>8. Active' = Active \cup {w} /\ w \notin Active
  BY <1>2, <1>3 DEF Active
<1>9. ASSUME NEW m \in Nodes \ spoiled PROVE NodeFact(m)'
  <2>1. OwnAddrs(m) /\ TypeInv /\ NodeFact(m)
    BY DEF AgreeInv, OwnInv, FreshInv
  <2>2. Settled(m)' => Settled(m)
    BY <1>3, <1>8 DEF Settled, Active
  <2>3. Settled(m)' => Agrees(m)'
    BY <1>6, <2>1, <2>2, ApartAgrees DEF NodeFact
  <2>4. ASSUME NEW v \in Active, job[v].node = m PROVE FactAt(job[v], pc[v], loc[v])'
    <3>1. v \in Workers /\ v # w /\ pc[v] # "idle"
      BY <1>8 DEF Active
    <3> QED BY <1>3, <1>6, <2>4, <3>1, KeptFact
  <2>5. j.node = m => FactAt(job[w], pc[w], loc[w])'
    <3>1. j.node = m => Agrees(m)'
      BY <1>5, <1>6, <2>1, ApartAgrees DEF NodeFact
    <3>2. j.node = m => FactAt(j, "acquire", Blank)'
      BY <3>1, FactSorts
    <3> QED BY <1>3, <3>2
  <2> QED BY <1>3, <1>8, <2>3, <2>4, <2>5 DEF NodeFact, Active
<1> QED BY <1>2, <1>7, <1>9 DEF AgreeInv

\* The end of an operation leaves its Node in agreement; that of a successful
\* synchronization makes up for an edit.
LEMMA FinishAgrees ==
  ASSUME OneKind, FreshInv, TypeInv', AgreeInv, NEW w \in Workers, Finish(w)
  PROVE  AgreeInv'
<1>j. PICK j : j = job[w]
  OBVIOUS
<1>r. PICK r : r = loc[w]
  OBVIOUS
<1>0. /\ pc[w] \in {"finish", "done"} /\ UNCHANGED ext /\ spoiled' = spoiled
      /\ pc' = [pc EXCEPT ![w] = "idle"] /\ job' = [job EXCEPT ![w] = NoJob]
      /\ loc' = [loc EXCEPT ![w] = Blank]
      /\ dirty' = IF pc[w] = "done" /\ panel[j.node].addr = r.addr
                    THEN dirty \ {j.node} ELSE dirty
  BY <1>j, <1>r DEF Finish, Goes
<1>1. /\ Ready(j) /\ j.node \in Nodes /\ w \in Active
      /\ j.node \notin spoiled => FactAt(j, pc[w], r)
  BY <1>0, <1>j, <1>r, ReadyJob DEF Active
<1>2. /\ pc'[w] = "idle" /\ loc'[w] = Blank
      /\ \A v \in Workers \ {w} : pc'[v] = pc[v] /\ job'[v] = job[v] /\ loc'[v] = loc[v]
  BY <1>0 DEF FreshInv, TypeInv, WorkersOK
<1>3. Active' = Active \ {w}
  BY <1>2 DEF Active
<1>4. \A m \in Nodes \ {j.node} : Apart(m)
  BY <1>0 DEF Apart, ext
<1>5. OwnInv'
  <2>1. \A n \in Nodes : OwnAddrs(n)'
    BY <1>0 DEF AgreeInv, OwnInv, OwnAddrs, ext
  <2> QED BY <1>0, <1>2, <2>1 DEF AgreeInv, OwnInv
<1>6. ASSUME NEW m \in Nodes \ spoiled, m # j.node PROVE NodeFact(m)'
  <2>1. OwnAddrs(m) /\ TypeInv /\ NodeFact(m) /\ Apart(m)
    BY <1>4, <1>6 DEF AgreeInv, OwnInv, FreshInv
  <2>2. Settled(m)' => Settled(m)
    BY <1>2, <1>3, <1>6, <1>j DEF Settled, Active
  <2>3. Settled(m)' => Agrees(m)'
    BY <2>1, <2>2, ApartAgrees DEF NodeFact
  <2>4. ASSUME NEW v \in Active \ {w}, job[v].node = m PROVE FactAt(job[v], pc[v], loc[v])'
    <3>1. v \in Workers /\ v # w /\ pc[v] # "idle"
      BY DEF Active
    <3> QED BY <1>2, <2>1, <2>4, <3>1, KeptFact
  <2> QED BY <1>2, <1>3, <2>3, <2>4 DEF NodeFact, Active
<1>7. ASSUME j.node \notin spoiled PROVE NodeFact(j.node)'
  <2>1. \A v \in Active' : job'[v].node # j.node
    BY <1>1, <1>2, <1>3, <1>j, Alone DEF AgreeInv, Active
  <2>2. CASE pc[w] = "finish"
    <3>1. Agrees(j.node) /\ dirty' = dirty
      BY <1>0, <1>1, <1>7, <2>2, FactSorts
    <3>2. Agrees(j.node)'
      BY <1>0, <3>1 DEF Agrees, HostAgrees, RowHas, Pub, PubIn, ext
    <3> QED BY <2>1, <3>2 DEF NodeFact
  <2>3. CASE pc[w] = "done"
    <3>1. SyncFact(j, "done", r)
      BY <1>1, <1>7, <2>3, FactSorts DEF SyncLabels
    <3>2. Agrees(j.node)'
      <4>1. CASE panel[j.node].addr = r.addr
        BY <1>0, <2>3, <3>1, <4>1 DEF SyncFact, Agrees, HostAgrees, RowHas, Pub, PubIn, ext
      <4>2. CASE panel[j.node].addr # r.addr
        BY <1>0, <2>3, <3>1, <4>2 DEF SyncFact, Agrees, HostAgrees, RowHas, Pub, PubIn, ext
      <4> QED BY <4>1, <4>2
    <3> QED BY <2>1, <3>2 DEF NodeFact
  <2> QED BY <1>0, <2>2, <2>3
<1> QED BY <1>0, <1>5, <1>6, <1>7 DEF AgreeInv

\* After an edit the Node's address is excused, and its Host is as it was.
LEMMA EditHost ==
  ASSUME TypeInv, NEW n \in Nodes, NEW a \in Edits[n], PanelEdit(n, a)
  PROVE  /\ panel'[n].host = panel[n].host /\ n \in dirty' /\ Edits[n] # {}
         /\ UNCHANGED <<zones, sni, rec>>
         /\ \A b, h : RowHas(n, b)' /\ Pub(n, b, h)'
         /\ HostAgrees(n) => HostAgrees(n)'
         /\ Agrees(n) => Agrees(n)'
<1>1. /\ panel'[n].host = panel[n].host /\ n \in dirty' /\ Edits[n] # {}
      /\ UNCHANGED <<zones, sni, rec>>
  BY DEF PanelEdit, UpdateNodeAddress, TypeInv, ExtOK
<1>2. \A b, h : RowHas(n, b)' /\ Pub(n, b, h)'
  BY <1>1 DEF RowHas, Pub, PubIn
<1>3. HostAgrees(n) => HostAgrees(n)'
  BY <1>1 DEF HostAgrees
<1> QED BY <1>1, <1>2, <1>3 DEF Agrees

\* What an operation on the edited Node relies on stays.
LEMMA EditFact ==
  ASSUME TypeInv, NEW n \in Nodes, NEW a \in Edits[n], PanelEdit(n, a),
         NEW j, j.node = n, NEW l, NEW r, FactAt(j, l, r)
  PROVE  FactAt(j, l, r)'
<1>1. ReplaceFact(j, l, r) => ReplaceFact(j, l, r)'
  BY EditHost DEF ReplaceFact
<1>2. SyncFact(j, l, r) => SyncFact(j, l, r)'
  BY EditHost DEF SyncFact
<1>3. MoveFact(j, l, r) => MoveFact(j, l, r)'
  BY EditHost DEF MoveFact
<1> QED BY <1>1, <1>2, <1>3, EditHost DEF FactAt

\* An edit in the panel itself excuses the Node until it is synchronized.
LEMMA EditAgrees ==
  ASSUME FreshInv, TypeInv', AgreeInv, NEW n \in Nodes, NEW a \in Edits[n], PanelEdit(n, a)
  PROVE  AgreeInv'
<1>1. /\ pc' = pc /\ job' = job /\ loc' = loc /\ spoiled' = spoiled /\ dirty' = dirty \cup {n}
      /\ UpdateNodeAddress(n, a) /\ TypeInv /\ Edits[n] # {}
  BY DEF PanelEdit, FreshInv
<1>2. \A m \in Nodes \ {n} : Apart(m)
  BY <1>1 DEF Apart, UpdateNodeAddress, TypeInv, ExtOK
<1>3. OwnInv'
  <2>1. a \in Mine(n) /\ panel'[n].addr = a /\ rec' = rec
    BY <1>1 DEF Mine, UpdateNodeAddress, TypeInv, ExtOK
  <2>2. \A m \in Nodes : OwnAddrs(m)'
    BY <1>2, <2>1 DEF AgreeInv, OwnInv, OwnAddrs, Apart
  <2> QED BY <1>1, <2>2 DEF AgreeInv, OwnInv
<1>4. Active' = Active /\ \A m \in Nodes : Settled(m)' <=> Settled(m)
  BY <1>1 DEF Active, Settled
<1>5. ASSUME NEW m \in Nodes \ spoiled PROVE NodeFact(m)'
  <2>1. NodeFact(m) /\ OwnAddrs(m)
    BY DEF AgreeInv, OwnInv
  <2>2. Agrees(m) => Agrees(m)'
    BY <1>1, <1>2, <2>1, ApartAgrees, EditHost
  <2>3. ASSUME NEW v \in Active, job[v].node = m PROVE FactAt(job[v], pc[v], loc[v])'
    <3>1. v \in Workers /\ pc[v] # "idle"
      BY DEF Active
    <3>2. CASE m = n
      <4>1. PICK i : i = job[v]
        OBVIOUS
      <4>2. PICK k : k = pc[v]
        OBVIOUS
      <4>3. PICK x : x = loc[v]
        OBVIOUS
      <4>4. FactAt(i, k, x)
        BY <2>1, <2>3, <4>1, <4>2, <4>3 DEF NodeFact
      <4>5. FactAt(i, k, x)'
        BY <1>1, <2>3, <3>2, <4>1, <4>4, EditFact
      <4> QED BY <1>1, <4>1, <4>2, <4>3, <4>5
    <3>3. CASE m # n
      BY <1>1, <1>2, <2>3, <3>1, <3>3, KeptFact
    <3> QED BY <3>2, <3>3
  <2> QED BY <1>1, <1>4, <2>1, <2>2, <2>3 DEF NodeFact
<1> QED BY <1>1, <1>3, <1>5 DEF AgreeInv

\* A kill excuses the Nodes that were worked on; the others were in agreement.
LEMMA KillAgrees ==
  ASSUME FreshInv, AgreeInv, Kill
  PROVE  AgreeInv'
<1>1. /\ spoiled' = spoiled \cup {job[w].node : w \in Active} /\ UNCHANGED ext /\ dirty' = dirty
      /\ \A w \in Workers : pc'[w] = "idle" /\ loc'[w] = Blank
  BY DEF Kill, Spoil
<1>2. Active' = {} /\ TypeInv
  BY <1>1 DEF Active, FreshInv
<1>3. OwnInv'
  <2>1. \A n \in Nodes : OwnAddrs(n)'
    BY <1>1 DEF AgreeInv, OwnInv, OwnAddrs, ext
  <2> QED BY <1>1, <2>1 DEF AgreeInv, OwnInv
<1>4. ASSUME NEW m \in Nodes \ spoiled' PROVE NodeFact(m)'
  <2>1. m \in Nodes \ spoiled /\ Settled(m)
    BY <1>1 DEF Settled
  <2>2. Agrees(m) /\ OwnAddrs(m) /\ Apart(m)
    BY <1>1, <2>1, QuietApart DEF AgreeInv, OwnInv, NodeFact
  <2>3. Agrees(m)'
    BY <1>2, <2>2, ApartAgrees
  <2> QED BY <1>2, <2>3 DEF NodeFact
<1> QED BY <1>3, <1>4 DEF AgreeInv

\* Shutdown, Restart and stuttering change nothing the invariant speaks of.
LEMMA QuietAgrees ==
  ASSUME FreshInv, AgreeInv, Shutdown \/ Restart \/ UNCHANGED vars
  PROVE  AgreeInv'
<1>1. UNCHANGED <<panel, zones, sni, rec, pc, job, loc, spoiled, dirty>>
  BY DEF Shutdown, Restart, vars, ext
<1>2. OwnInv'
  BY <1>1 DEF AgreeInv, OwnInv, OwnAddrs
<1>3. Active' = Active /\ \A m \in Nodes : (Settled(m)' <=> Settled(m)) /\ Apart(m)
  BY <1>1 DEF Active, Settled, Apart
<1>4. ASSUME NEW m \in Nodes \ spoiled PROVE NodeFact(m)'
  <2>1. NodeFact(m) /\ OwnAddrs(m) /\ TypeInv
    BY DEF AgreeInv, OwnInv, FreshInv
  <2>2. Agrees(m)' <=> Agrees(m)
    BY <1>3, <2>1, ApartAgrees
  <2>3. ASSUME NEW v \in Active, job[v].node = m PROVE FactAt(job[v], pc[v], loc[v])'
    <3>1. v \in Workers /\ pc[v] # "idle"
      BY DEF Active
    <3> QED BY <1>1, <1>3, <2>3, <3>1, KeptFact
  <2> QED BY <1>1, <1>3, <2>1, <2>2, <2>3 DEF NodeFact
<1> QED BY <1>1, <1>2, <1>4 DEF AgreeInv

\* The invariant holds before the first operation.
LEMMA InitAgrees ==
  ASSUME OwnAddresses, Init
  PROVE  AgreeInv
<1>1. TypeInv
  BY InitTyped, NodeOpsAssumption
<1>2. \A w \in Workers : pc[w] = "idle" /\ loc[w] = Blank
  BY DEF Init
<1>3. Active = {}
  BY <1>2 DEF Active
<1>4. \A n \in Nodes : /\ panel[n].addr = InitialAddr[n] /\ panel[n].host = InitialHost[n]
                       /\ rec[n].ip = InitialAddr[n] /\ rec[n].host = InitialHost[n]
                       /\ sni[n] = InitialHost[n] /\ InitialHost[n] \in Hosts
  BY NodeOpsAssumption DEF Init
<1>5. \A n \in Nodes : InitialAddr[n] \in Mine(n)
  BY DEF Mine
<1>6. OwnInv
  BY <1>2, <1>4, <1>5 DEF OwnInv, OwnAddrs, Init
<1>7. ASSUME NEW n \in Nodes PROVE Agrees(n)
  <2>1. HostAgrees(n) /\ RowHas(n, panel[n].addr)
    BY <1>4 DEF HostAgrees, RowHas
  <2>2. \A h \in Hosts : \A b : b \in zones[h] <=>
          ~DNSDisabled /\ \E m \in Nodes : InitialHost[m] = h /\ b = InitialAddr[m]
    BY DEF Init
  <2>3. \A m \in Nodes : InitialAddr[m] \in Mine(n) => m = n
    BY <1>5 DEF OwnAddresses
  <2>4. Pub(n, InitialAddr[n], InitialHost[n])
    <3>1. ~DNSDisabled => InitialAddr[n] \in zones[InitialHost[n]]
      BY <1>4, <2>2
    <3>2. ASSUME NEW g \in Hosts, NEW b \in Mine(n)
          PROVE  b \in zones[g] <=> ~DNSDisabled /\ g = InitialHost[n] /\ b = InitialAddr[n]
      BY <2>2, <2>3, <3>1
    <3> QED BY <3>1, <3>2 DEF Pub, PubIn
  <2> QED BY <1>4, <2>1, <2>4 DEF Agrees
<1> QED BY <1>3, <1>6, <1>7 DEF AgreeInv, NodeFact

\* AgreeInv is inductive on top of FreshInv.
LEMMA NextAgrees ==
  ASSUME OwnAddresses, OneKind, FreshInv, AgreeInv, [Next]_vars
  PROVE  AgreeInv'
<1>t. TypeInv'
  BY NextTyped, NodeOpsAssumption DEF FreshInv
<1>1. ASSUME NEW w \in Workers, Start(w) \/ Step(w) PROVE AgreeInv'
  BY <1>1, <1>t, StartAgrees, AcquireAgrees, ReplaceAgrees, SyncAgrees, MoveAgrees,
     FinishAgrees DEF Step
<1>2. ASSUME NEW n \in Nodes, NEW a \in Edits[n], PanelEdit(n, a) PROVE AgreeInv'
  BY <1>2, <1>t, EditAgrees
<1> QED BY <1>1, <1>2, KillAgrees, QuietAgrees DEF Next

\* OPERATIONS.md: "API changes are compensated when a later update fails".
\* Whenever no ReplaceNodeIP, SyncNodeDNS or MoveNodeToHost is under way on a
\* Node, panel, VPS, row and zones agree on it, whatever calls failed and
\* whenever the process was stopped, unless a reply or a compensation of the
\* Node was lost; if Nodes have addresses of their own and the operations that
\* different goroutines are asked for on one Node are of one kind.
THEOREM OperationsAgree ==
  ASSUME OwnAddresses, OneKind
  PROVE  Spec => []Agreement
<1> DEFINE Inv == FreshInv /\ AgreeInv
<1>1. Init => Inv
  <2> SUFFICES ASSUME Init PROVE Inv
    OBVIOUS
  <2>1. TypeInv
    BY InitTyped, NodeOpsAssumption
  <2>2. \A w \in Workers : pc[w] = "idle"
    BY DEF Init
  <2>3. FreshInv
    BY <2>1, <2>2 DEF FreshInv, Kinds, Registered, Compared, ReplaceLabels
  <2> QED BY <2>3, InitAgrees
<1>2. Inv /\ [Next]_vars => Inv'
  BY NextFresh, NextAgrees
<1>3. Inv => Agreement
  <2> SUFFICES ASSUME Inv, NEW n \in Nodes \ spoiled, Settled(n)
               PROVE  LET p == panel[n]
                      IN /\ sni[n] = p.host
                         /\ n \in Managed => rec[n].host = p.host
                         /\ n \notin dirty =>
                              /\ n \in Managed => rec[n].ip = p.addr
                              /\ ~DNSDisabled => p.addr \in zones[p.host]
                              /\ Edits[n] = {} => \A h \in Hosts \ {p.host} : p.addr \notin zones[h]
    BY DEF Agreement
  <2>1. Agrees(n) /\ panel[n].addr \in Mine(n)
    BY DEF AgreeInv, NodeFact, OwnInv, OwnAddrs
  <2> QED BY <2>1 DEF Agrees, HostAgrees, RowHas, Pub, PubIn
<1> HIDE DEF Inv
<1> QED BY <1>1, <1>2, <1>3, PTL DEF Spec
=============================================================================
