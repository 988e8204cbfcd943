-------------------------- MODULE DNSZones_proofs --------------------------
(***************************************************************************)
(* Mutual exclusion of the keyed lock, for any number of goroutines and    *)
(* keys.  Mutex alone is not inductive: a second entry for a key would     *)
(* bring a second token.  LockInv says that all users of a key share the   *)
(* entry in the map (so it is removed by the last of them only, and refs   *)
(* counts them), that keys do not share entries, and that the token is in  *)
(* the channel exactly when nobody holds the lock.                         *)
(*                                                                         *)
(* The calls of the DNS balancer client use the lock as its specification  *)
(* says, so its theorems hold of them; and they are serialized: a PATCH    *)
(* changes no address but its own call's, for zones of both formats as     *)
(* long as an advanced zone keeps a node (KeptZones).  The invariant       *)
(* behind it is that a zone differs from what the call holding its lock    *)
(* has read in the call's own address at most (SeenNear).                  *)
(*                                                                         *)
(* From it follows that only ReplaceIP unpublishes an address: MoveInv     *)
(* says in which of its two zones a move that is under way has it.         *)
(***************************************************************************)
EXTENDS DNSZones, FiniteSetTheorems, TLAPS

(***************************************************************************)
(* The keyed lock.                                                         *)
(***************************************************************************)

Separate ==
  \A k, l \in Keys : entries[k] # NoEntry /\ entries[k] = entries[l] => k = l

TokenExact ==
  \A k \in Keys : entries[k] # NoEntry =>
    (token[entries[k]] <=> \A p \in Procs : at[p][k] # "held")

LockInv == LockTypeOK /\ Mutex /\ EntriesExact /\ Separate /\ TokenExact

\* What a step of p at k leaves alone: the users and the entries of other keys,
\* and the position of other goroutines.
OthersAt(p, k) ==
  \A q \in Procs, l \in Keys :
    q # p \/ l # k => at'[q][l] = at[q][l] /\ ent'[q][l] = ent[q][l]

\* Users(k) gains, loses or keeps p; the users of other keys stay.
LEMMA UsersChange ==
  ASSUME LockTypeOK, NEW p \in Procs, NEW k \in Keys, OthersAt(p, k)
  PROVE  /\ \A l \in Keys \ {k} : Users(l)' = Users(l)
         /\ at[p][k] = "idle" /\ at'[p][k] # "idle" =>
              Users(k)' = Users(k) \cup {p} /\ p \notin Users(k)
         /\ at[p][k] # "idle" /\ at'[p][k] = "idle" =>
              Users(k)' = Users(k) \ {p} /\ p \in Users(k)
         /\ (at[p][k] = "idle" <=> at'[p][k] = "idle") => Users(k)' = Users(k)
  BY DEF OthersAt, Users

\* Only goroutines use the lock, so the users of a key are finitely many.
LEMMA UsersFinite ==
  ASSUME NEW k \in Keys
  PROVE  IsFiniteSet(Users(k)) /\ IsFiniteSet(Users(k)')
<1>1. Users(k) \subseteq Procs /\ Users(k)' \subseteq Procs
  BY DEF Users
<1> QED BY <1>1, FS_Subset, LockAssumption

\* Lock's first section finds the shared entry or makes a fresh one.
LEMMA EnterInv ==
  ASSUME LockInv, NEW p \in Procs, NEW k \in Keys, Enter(p, k)
  PROVE  LockInv'
<1> USE LockAssumption
<1>1. PICK e \in Lookup(k) :
        /\ entries' = [entries EXCEPT ![k] = e]
        /\ token' = [token EXCEPT ![e] = @ \/ entries[k] = NoEntry]
        /\ refs' = [refs EXCEPT ![e] = IF entries[k] = NoEntry THEN 1 ELSE @ + 1]
        /\ ent' = [ent EXCEPT ![p][k] = e]
  BY DEF Enter
<1>2. /\ at[p][k] = "idle"
      /\ at' = [at EXCEPT ![p][k] = "waiting"]
  BY DEF Enter
<1>3. e \in Entries /\ e # NoEntry
  BY DEF Lookup, Free, LockInv, LockTypeOK
<1>4. LockTypeOK'
  <2>1. entries' \in [Keys -> Entries \cup {NoEntry}]
    BY <1>1, <1>3 DEF LockInv, LockTypeOK
  <2>2. token' \in [Entries -> BOOLEAN]
    BY <1>1, <1>3 DEF LockInv, LockTypeOK
  <2>3. refs' \in [Entries -> Nat]
    BY <1>1, <1>3 DEF LockInv, LockTypeOK
  <2>4. at' \in [Procs -> [Keys -> LockLabels]]
    BY <1>2 DEF LockInv, LockTypeOK, LockLabels
  <2>5. ent' \in [Procs -> [Keys -> Entries \cup {NoEntry}]]
    BY <1>1, <1>3 DEF LockInv, LockTypeOK
  <2> QED BY <2>1, <2>2, <2>3, <2>4, <2>5 DEF LockTypeOK
<1>5. /\ at'[p][k] = "waiting" /\ ent'[p][k] = e
      /\ OthersAt(p, k)
  BY <1>1, <1>2 DEF LockInv, LockTypeOK, OthersAt
<1>6. /\ entries'[k] = e
      /\ \A l \in Keys \ {k} : entries'[l] = entries[l]
      /\ \A f \in Entries \ {e} : token'[f] = token[f] /\ refs'[f] = refs[f]
  BY <1>1, <1>3 DEF LockInv, LockTypeOK
<1>7. \A l \in Keys \ {k} : entries[l] # e
  BY DEF Lookup, Free, LockInv, Separate
<1>8. /\ Users(k)' = Users(k) \cup {p} /\ p \notin Users(k)
      /\ \A l \in Keys \ {k} : Users(l)' = Users(l)
  BY <1>2, <1>5, UsersChange DEF LockInv
<1>9. Mutex'
  BY <1>5 DEF LockInv, Mutex, OthersAt
<1>10. Separate'
  BY <1>6, <1>7 DEF LockInv, Separate
<1>11. EntriesExact'
  <2> SUFFICES ASSUME NEW l \in Keys
               PROVE  /\ entries'[l] = NoEntry <=> Users(l)' = {}
                      /\ \A q \in Users(l)' : ent'[q][l] = entries'[l]
                      /\ entries'[l] # NoEntry =>
                           refs'[entries'[l]] = Cardinality(Users(l)')
    BY DEF EntriesExact
  <2>1. CASE l # k
    <3>1. /\ entries[l] = NoEntry <=> Users(l) = {}
          /\ \A q \in Users(l) : ent[q][l] = entries[l]
          /\ entries[l] # NoEntry => refs[entries[l]] = Cardinality(Users(l))
      BY DEF LockInv, EntriesExact
    <3>2. \A q \in Users(l) : q \in Procs /\ ent'[q][l] = ent[q][l]
      BY <1>5, <2>1 DEF OthersAt, Users
    <3>3. entries[l] \in Entries \cup {NoEntry} /\ entries[l] # e
      BY <1>7, <2>1 DEF LockInv, LockTypeOK
    <3> QED BY <1>6, <1>8, <2>1, <3>1, <3>2, <3>3
  <2>2. CASE l = k
    <3>1. /\ entries[k] = NoEntry <=> Users(k) = {}
          /\ \A q \in Users(k) : ent[q][k] = entries[k]
          /\ entries[k] # NoEntry => refs[entries[k]] = Cardinality(Users(k))
      BY DEF LockInv, EntriesExact
    <3>2. entries[k] # NoEntry => e = entries[k]
      BY DEF Lookup
    <3>3. \A q \in Users(k) : ent'[q][k] = e
      BY <1>5, <1>8, <3>1, <3>2 DEF OthersAt, Users
    <3>4. Cardinality(Users(k)') = Cardinality(Users(k)) + 1
      BY <1>8, UsersFinite, FS_AddElement
    <3>5. refs'[e] = Cardinality(Users(k)')
      <4>1. CASE entries[k] = NoEntry
        <5>1. Cardinality(Users(k)) = 0
          BY <3>1, <4>1, FS_EmptySet
        <5> QED BY <1>1, <1>3, <3>4, <4>1, <5>1 DEF LockInv, LockTypeOK
      <4>2. CASE entries[k] # NoEntry
        BY <1>1, <1>3, <3>1, <3>2, <3>4, <4>2 DEF LockInv, LockTypeOK
      <4> QED BY <4>1, <4>2
    <3> QED BY <1>3, <1>5, <1>6, <1>8, <2>2, <3>3, <3>5
  <2> QED BY <2>1, <2>2
<1>12. TokenExact'
  <2> SUFFICES ASSUME NEW l \in Keys, entries'[l] # NoEntry
               PROVE  token'[entries'[l]] <=> \A q \in Procs : at'[q][l] # "held"
    BY DEF TokenExact
  <2>1. (\A q \in Procs : at'[q][l] # "held") <=> (\A q \in Procs : at[q][l] # "held")
    BY <1>2, <1>5 DEF OthersAt
  <2>2. CASE l # k
    BY <1>6, <1>7, <2>1, <2>2 DEF LockInv, TokenExact, LockTypeOK
  <2>3. CASE l = k /\ entries[k] = NoEntry
    <3>1. token'[e]
      BY <1>1, <1>3, <2>3 DEF LockInv, LockTypeOK
    <3>2. \A q \in Procs : at[q][k] # "held"
      BY <2>3 DEF LockInv, EntriesExact, Users
    <3> QED BY <1>6, <2>1, <2>3, <3>1, <3>2
  <2>4. CASE l = k /\ entries[k] # NoEntry
    <3>1. e = entries[k]
      BY <2>4 DEF Lookup
    <3>2. token'[e] <=> token[e]
      BY <1>1, <1>3, <2>4 DEF LockInv, LockTypeOK
    <3> QED BY <1>6, <2>1, <2>4, <3>1, <3>2 DEF LockInv, TokenExact
  <2> QED BY <2>2, <2>3, <2>4
<1> QED BY <1>4, <1>9, <1>10, <1>11, <1>12 DEF LockInv

\* A user of a key holds the entry of the map.
LEMMA UserEntry ==
  ASSUME LockInv, NEW p \in Procs, NEW k \in Keys, at[p][k] # "idle"
  PROVE  ent[p][k] = entries[k] /\ entries[k] \in Entries /\ entries[k] # NoEntry
<1>1. p \in Users(k)
  BY DEF Users
<1>2. ent[p][k] = entries[k] /\ entries[k] # NoEntry
  BY <1>1 DEF LockInv, EntriesExact
<1> QED BY <1>2 DEF LockInv, LockTypeOK

\* A step that only moves the token of k and the position of p, without p
\* becoming a user or leaving, keeps the accounting of the entries.
LEMMA TokenStep ==
  ASSUME LockInv, NEW p \in Procs, NEW k \in Keys, NEW b \in BOOLEAN,
         NEW l \in LockLabels \ {"idle"}, at[p][k] # "idle",
         token' = [token EXCEPT ![ent[p][k]] = b],
         at' = [at EXCEPT ![p][k] = l],
         entries' = entries, refs' = refs, ent' = ent
  PROVE  /\ LockTypeOK' /\ EntriesExact' /\ Separate'
         /\ at'[p][k] = l /\ OthersAt(p, k)
         /\ token'[entries[k]] = b
         /\ \A m \in Keys \ {k} : entries[m] # NoEntry =>
              token'[entries[m]] = token[entries[m]]
<1>1. ent[p][k] = entries[k] /\ entries[k] \in Entries /\ entries[k] # NoEntry
  BY UserEntry
<1>2. LockTypeOK'
  <2>1. at' \in [Procs -> [Keys -> LockLabels]]
    BY DEF LockInv, LockTypeOK
  <2>2. token' \in [Entries -> BOOLEAN]
    BY <1>1 DEF LockInv, LockTypeOK
  <2> QED BY <2>1, <2>2 DEF LockInv, LockTypeOK
<1>3. at'[p][k] = l /\ OthersAt(p, k)
  BY DEF LockInv, LockTypeOK, OthersAt
<1>4. \A m \in Keys : Users(m)' = Users(m)
  BY <1>3, UsersChange DEF LockInv
<1>5. EntriesExact'
  BY <1>4 DEF LockInv, EntriesExact
<1>6. Separate'
  BY DEF LockInv, Separate
<1>7. token'[entries[k]] = b
  BY <1>1 DEF LockInv, LockTypeOK
<1>8. \A m \in Keys \ {k} : entries[m] # NoEntry =>
        token'[entries[m]] = token[entries[m]]
  BY <1>1 DEF LockInv, LockTypeOK, Separate
<1> QED BY <1>2, <1>3, <1>5, <1>6, <1>7, <1>8

\* Whoever receives the token finds the lock free.
LEMMA TakeInv ==
  ASSUME LockInv, NEW p \in Procs, NEW k \in Keys, Take(p, k)
  PROVE  LockInv'
<1>1. /\ at[p][k] = "waiting" /\ token[ent[p][k]]
      /\ token' = [token EXCEPT ![ent[p][k]] = FALSE]
      /\ at' = [at EXCEPT ![p][k] = "held"]
      /\ entries' = entries /\ refs' = refs /\ ent' = ent
  BY DEF Take
<1>2. ent[p][k] = entries[k] /\ entries[k] \in Entries /\ entries[k] # NoEntry
  BY <1>1, UserEntry
<1>3. "held" \in LockLabels \ {"idle"}
  BY DEF LockLabels
<1>4. /\ LockTypeOK' /\ EntriesExact' /\ Separate'
      /\ at'[p][k] = "held" /\ OthersAt(p, k)
      /\ token'[entries[k]] = FALSE
      /\ \A m \in Keys \ {k} : entries[m] # NoEntry =>
           token'[entries[m]] = token[entries[m]]
  BY <1>1, <1>3, TokenStep
<1>5. \A q \in Procs : at[q][k] # "held"
  BY <1>1, <1>2 DEF LockInv, TokenExact
<1>6. Mutex'
  BY <1>4, <1>5 DEF LockInv, Mutex, OthersAt
<1>7. TokenExact'
  <2> SUFFICES ASSUME NEW m \in Keys, entries[m] # NoEntry
               PROVE  token'[entries[m]] <=> \A q \in Procs : at'[q][m] # "held"
    BY <1>1 DEF TokenExact
  <2>1. CASE m = k
    BY <1>4, <2>1 DEF OthersAt
  <2>2. CASE m # k
    <3>1. (\A q \in Procs : at'[q][m] # "held") <=> (\A q \in Procs : at[q][m] # "held")
      BY <1>4, <2>2 DEF OthersAt
    <3>2. token[entries[m]] <=> \A q \in Procs : at[q][m] # "held"
      BY DEF LockInv, TokenExact
    <3> QED BY <1>4, <2>2, <3>1, <3>2
  <2> QED BY <2>1, <2>2
<1> QED BY <1>4, <1>6, <1>7 DEF LockInv

\* Unlock returns the token of the lock it holds.
LEMMA ReturnTokenInv ==
  ASSUME LockInv, NEW p \in Procs, NEW k \in Keys, ReturnToken(p, k)
  PROVE  LockInv'
<1>1. /\ at[p][k] = "held"
      /\ token' = [token EXCEPT ![ent[p][k]] = TRUE]
      /\ at' = [at EXCEPT ![p][k] = "returned"]
      /\ entries' = entries /\ refs' = refs /\ ent' = ent
  BY DEF ReturnToken
<1>2. "returned" \in LockLabels \ {"idle"}
  BY DEF LockLabels
<1>3. /\ LockTypeOK' /\ EntriesExact' /\ Separate'
      /\ at'[p][k] = "returned" /\ OthersAt(p, k)
      /\ token'[entries[k]] = TRUE
      /\ \A m \in Keys \ {k} : entries[m] # NoEntry =>
           token'[entries[m]] = token[entries[m]]
  BY <1>1, <1>2, TokenStep
<1>4. \A q \in Procs \ {p} : at[q][k] # "held"
  BY <1>1 DEF LockInv, Mutex
<1>5. Mutex'
  BY <1>3 DEF LockInv, Mutex, OthersAt
<1>6. TokenExact'
  <2> SUFFICES ASSUME NEW m \in Keys, entries[m] # NoEntry
               PROVE  token'[entries[m]] <=> \A q \in Procs : at'[q][m] # "held"
    BY <1>1 DEF TokenExact
  <2>1. CASE m = k
    BY <1>3, <1>4, <2>1 DEF OthersAt
  <2>2. CASE m # k
    <3>1. (\A q \in Procs : at'[q][m] # "held") <=> (\A q \in Procs : at[q][m] # "held")
      BY <1>3, <2>2 DEF OthersAt
    <3>2. token[entries[m]] <=> \A q \in Procs : at[q][m] # "held"
      BY DEF LockInv, TokenExact
    <3> QED BY <1>3, <2>2, <3>1, <3>2
  <2> QED BY <2>1, <2>2
<1> QED BY <1>3, <1>5, <1>6 DEF LockInv

\* release removes the entry only when its last user leaves.
LEMMA ReleaseInv ==
  ASSUME LockInv, NEW p \in Procs, NEW k \in Keys, Release(p, k),
         at[p][k] \in {"waiting", "returned"}
  PROVE  LockInv'
<1> USE LockAssumption
<1> DEFINE e == entries[k]
<1>1. ent[p][k] = e /\ e \in Entries /\ e # NoEntry
  BY UserEntry
<1>2. /\ refs' = [refs EXCEPT ![e] = @ - 1]
      /\ entries' = [entries EXCEPT ![k] = IF refs[e] = 1 THEN NoEntry ELSE @]
      /\ at' = [at EXCEPT ![p][k] = "idle"]
      /\ ent' = [ent EXCEPT ![p][k] = NoEntry]
      /\ token' = token
  BY <1>1 DEF Release, LockInv, LockTypeOK
<1>3. at'[p][k] = "idle" /\ OthersAt(p, k)
  BY <1>2 DEF LockInv, LockTypeOK, OthersAt
<1>4. /\ Users(k)' = Users(k) \ {p} /\ p \in Users(k)
      /\ \A l \in Keys \ {k} : Users(l)' = Users(l)
  BY <1>3, UsersChange DEF LockInv
<1>5. /\ refs[e] = Cardinality(Users(k))
      /\ \A q \in Users(k) : ent[q][k] = e
  BY <1>1 DEF LockInv, EntriesExact
<1>6. /\ Cardinality(Users(k)') = refs[e] - 1
      /\ Cardinality(Users(k)') \in Nat
      /\ Cardinality(Users(k)') = 0 <=> Users(k)' = {}
  BY <1>4, <1>5, UsersFinite, FS_RemoveElement, FS_CardinalityType, FS_EmptySet
<1>7. refs'[e] = refs[e] - 1 /\ \A f \in Entries \ {e} : refs'[f] = refs[f]
  BY <1>1, <1>2 DEF LockInv, LockTypeOK
<1>8. /\ entries'[k] = IF refs[e] = 1 THEN NoEntry ELSE e
      /\ \A l \in Keys \ {k} : entries'[l] = entries[l]
  BY <1>2 DEF LockInv, LockTypeOK
<1>9. LockTypeOK'
  <2>1. refs' \in [Entries -> Nat]
    BY <1>1, <1>2, <1>6 DEF LockInv, LockTypeOK
  <2>2. entries' \in [Keys -> Entries \cup {NoEntry}]
    BY <1>1, <1>2 DEF LockInv, LockTypeOK
  <2>3. at' \in [Procs -> [Keys -> LockLabels]]
    BY <1>2 DEF LockInv, LockTypeOK, LockLabels
  <2>4. ent' \in [Procs -> [Keys -> Entries \cup {NoEntry}]]
    BY <1>2 DEF LockInv, LockTypeOK
  <2> QED BY <1>2, <2>1, <2>2, <2>3, <2>4 DEF LockInv, LockTypeOK
<1>10. Mutex'
  BY <1>3 DEF LockInv, Mutex, OthersAt
<1>11. Separate'
  BY <1>8 DEF LockInv, Separate
<1>12. EntriesExact'
  <2> SUFFICES ASSUME NEW l \in Keys
               PROVE  /\ entries'[l] = NoEntry <=> Users(l)' = {}
                      /\ \A q \in Users(l)' : ent'[q][l] = entries'[l]
                      /\ entries'[l] # NoEntry =>
                           refs'[entries'[l]] = Cardinality(Users(l)')
    BY DEF EntriesExact
  <2>1. CASE l # k
    <3>1. /\ entries[l] = NoEntry <=> Users(l) = {}
          /\ \A q \in Users(l) : ent[q][l] = entries[l]
          /\ entries[l] # NoEntry => refs[entries[l]] = Cardinality(Users(l))
      BY DEF LockInv, EntriesExact
    <3>2. \A q \in Users(l) : q \in Procs /\ ent'[q][l] = ent[q][l]
      BY <1>3, <2>1 DEF OthersAt, Users
    <3>3. entries[l] \in Entries \cup {NoEntry} /\ entries[l] # e
      BY <1>1, <2>1 DEF LockInv, LockTypeOK, Separate
    <3> QED BY <1>4, <1>7, <1>8, <2>1, <3>1, <3>2, <3>3
  <2>2. CASE l = k
    <3>1. refs[e] \in Nat
      BY <1>1 DEF LockInv, LockTypeOK
    <3>2. entries'[k] = NoEntry <=> Users(k)' = {}
      BY <1>1, <1>6, <1>8, <3>1
    <3>3. \A q \in Users(k)' : ent'[q][k] = e
      BY <1>3, <1>4, <1>5 DEF OthersAt, Users
    <3>4. entries'[k] # NoEntry => entries'[k] = e
      BY <1>8
    <3> QED BY <1>6, <1>7, <2>2, <3>2, <3>3, <3>4
  <2> QED BY <2>1, <2>2
<1>13. TokenExact'
  <2>1. \A l \in Keys : entries'[l] # NoEntry => entries'[l] = entries[l]
    BY <1>8
  <2>2. \A l \in Keys : (\A q \in Procs : at'[q][l] # "held")
                          <=> (\A q \in Procs : at[q][l] # "held")
    BY <1>3 DEF OthersAt
  <2> QED BY <1>2, <2>1, <2>2 DEF LockInv, TokenExact
<1> QED BY <1>9, <1>10, <1>11, <1>12, <1>13 DEF LockInv

\* The empty map.
LEMMA LockInitInv == LockInit => LockInv
<1> SUFFICES ASSUME LockInit PROVE LockInv
  OBVIOUS
<1>1. LockTypeOK /\ Mutex /\ Separate /\ TokenExact
  BY LockAssumption DEF LockInit, LockTypeOK, LockLabels, Mutex, Separate, TokenExact
<1>2. \A k \in Keys : Users(k) = {} /\ entries[k] = NoEntry
  BY DEF LockInit, Users
<1>3. EntriesExact
  BY <1>2 DEF EntriesExact
<1> QED BY <1>1, <1>3 DEF LockInv

\* Every section of Lock and unlock keeps the invariant, in any order.
LEMMA LockStepInv == LockInv /\ [LockNext]_lockVars => LockInv'
<1> SUFFICES ASSUME LockInv, [LockNext]_lockVars PROVE LockInv'
  OBVIOUS
<1>1. CASE UNCHANGED lockVars
  BY <1>1 DEF lockVars, LockInv, LockTypeOK, Mutex, EntriesExact, Separate,
              TokenExact, Users
<1>2. ASSUME NEW p \in Procs, NEW k \in Keys,
             Enter(p, k) \/ Take(p, k) \/ GiveUp(p, k) \/ ReturnToken(p, k) \/ Leave(p, k)
      PROVE  LockInv'
  <2>1. CASE Enter(p, k)
    BY <2>1, EnterInv
  <2>2. CASE Take(p, k)
    BY <2>2, TakeInv
  <2>3. CASE GiveUp(p, k) \/ Leave(p, k)
    BY <2>3, ReleaseInv DEF GiveUp, Leave
  <2>4. CASE ReturnToken(p, k)
    BY <2>4, ReturnTokenInv
  <2> QED BY <1>2, <2>1, <2>2, <2>3, <2>4
<1> QED BY <1>1, <1>2 DEF LockNext

\* The lock excludes, whoever comes, waits, gives up and leaves in whatever order.
THEOREM LockExcludes == LockSpec => []Mutex
<1>1. LockInv => Mutex
  BY DEF LockInv
<1> QED BY <1>1, LockInitInv, LockStepInv, PTL DEF LockSpec

\* Its map holds exactly the entries in use, with exact reference counts.
THEOREM LockTableExact == LockSpec => []EntriesExact
<1>1. LockInv => EntriesExact
  BY DEF LockInv
<1> QED BY <1>1, LockInitInv, LockStepInv, PTL DEF LockSpec

(***************************************************************************)
(* The calls of the client.                                                *)
(***************************************************************************)

\* A step of a call makes one step of the lock, or none.
LEMMA StepOfLock == [Next]_vars => [LockNext]_lockVars
<1> SUFFICES ASSUME [Next]_vars PROVE [LockNext]_lockVars
  OBVIOUS
<1>1. CASE UNCHANGED vars
  BY <1>1 DEF vars, lockVars
<1>2. ASSUME NEW p \in Procs, Start(p) \/ Cancel(p) \/ Step(p)
      PROVE  [LockNext]_lockVars
  <2>1. CASE Start(p) \/ Cancel(p)
    BY <2>1 DEF Start, Cancel
  <2>2. CASE \E k \in Keys : EnterLock(p, k) \/ TakeLock(p, k)
                               \/ LockCancelled(p, k) \/ Unlock(p, k)
    BY <2>2 DEF EnterLock, TakeLock, LockCancelled, Unlock, LockNext
  <2>3. CASE Read(p) \/ Return(p)
    BY <2>3 DEF Read, Return
  <2>4. CASE PatchOne(p) \/ PatchTarget(p) \/ PatchSource(p) \/ Restore(p)
    BY <2>4 DEF PatchOne, PatchTarget, PatchSource, Restore, Request
  <2> QED BY <1>2, <2>1, <2>2, <2>3, <2>4 DEF Step
<1> QED BY <1>1, <1>2 DEF Next

\* AddIP, ReplaceIP and MoveIP are clients of the lock.
THEOREM ClientsOfLock == Spec => LockSpec
<1>1. Init => LockInit
  BY DEF Init
<1> QED BY <1>1, StepOfLock, PTL DEF Spec, LockSpec

\* No two calls hold the lock of a zone at the same time.
THEOREM ZonesExclusive == Spec => []Mutex
BY ClientsOfLock, LockExcludes, PTL

\* The locker keeps no entry of a zone nobody uses and loses none in use.
THEOREM ZoneLocksExact == Spec => []EntriesExact
BY ClientsOfLock, LockTableExact, PTL

-----------------------------------------------------------------------------
(* Types. *)

CallsOK ==
  /\ zone \in [Keys -> ZoneRecords]
  /\ pc \in [Procs -> {"idle", "lock", "read", "unlock"} \cup Patches]
  /\ op \in [Procs -> Operations \cup {NoOp}]
  /\ ctx \in [Procs -> BOOLEAN]
  /\ seen \in [Procs -> [Keys -> ZoneRecords]]
  /\ \A p \in Procs : pc[p] = "idle" <=> op[p] = NoOp

\* A call that is under way has its parameters.
LEMMA OpOK ==
  ASSUME CallsOK, NEW p \in Procs, pc[p] # "idle"
  PROVE  /\ op[p] \in Operations
         /\ op[p].kind \in {"add", "replace", "move"}
         /\ op[p].zone \in Keys /\ op[p].target \in Keys
         /\ op[p].ip \in Addrs /\ op[p].new \in Addrs
<1>1. op[p] \in Operations
  BY DEF CallsOK
<1>2. op[p] \in CallRecords
  BY <1>1, ZonesAssumption
<1> QED BY <1>1, <1>2 DEF CallRecords

Bodies == [list : {"ips", "nodes"}, value : SUBSET Addrs]

\* The balancer keeps a zone a zone.
LEMMA PatchedOK ==
  ASSUME NEW z \in ZoneRecords, NEW body \in Bodies
  PROVE  Patched(z, body) \in ZoneRecords
BY DEF Patched, ZoneRecords, Bodies

\* The lists a call works on.
LEMMA ListsOK ==
  ASSUME NEW z \in ZoneRecords
  PROVE  /\ ReplaceList(z) \in {"ips", "nodes"} /\ z[ReplaceList(z)] \in SUBSET Addrs
         /\ MoveList(z) \in {"ips", "nodes"} /\ z[MoveList(z)] \in SUBSET Addrs
         /\ z.ips \in SUBSET Addrs /\ z.nodes \in SUBSET Addrs
BY DEF ReplaceList, MoveList, ZoneRecords

\* What the calls send is a list of addresses.
LEMMA BodiesOK ==
  ASSUME CallsOK, NEW p \in Procs, pc[p] # "idle", NEW z \in ZoneRecords
  PROVE  /\ AddBody(op[p], z) \in Bodies
         /\ ReplaceBody(op[p], z) \in Bodies
         /\ zoneWithIP(op[p], z) \in Bodies
         /\ zoneWithoutIP(op[p], z) \in Bodies
         /\ zoneSnapshotRequest(z) \in Bodies
<1>1. op[p].ip \in Addrs /\ op[p].new \in Addrs
  BY OpOK
<1>2. AddBody(op[p], z) \in Bodies
  BY <1>1, ListsOK DEF AddBody, Bodies
<1>3. ReplaceBody(op[p], z) \in Bodies
  BY <1>1, ListsOK DEF ReplaceBody, Bodies
<1>4. zoneWithIP(op[p], z) \in Bodies
  BY <1>1, ListsOK DEF zoneWithIP, Bodies
<1>5. zoneWithoutIP(op[p], z) \in Bodies
  BY <1>1, ListsOK DEF zoneWithoutIP, Bodies
<1>6. zoneSnapshotRequest(z) \in Bodies
  BY ListsOK DEF zoneSnapshotRequest, Bodies
<1> QED BY <1>2, <1>3, <1>4, <1>5, <1>6

\* A PATCH, whatever becomes of it.
LEMMA RequestOK ==
  ASSUME CallsOK, NEW p \in Procs, pc[p] # "idle", NEW k \in Keys, NEW body \in Bodies,
         NEW ok \in {"unlock"} \cup Patches, NEW err \in {"unlock"} \cup Patches,
         Request(p, k, body, ok, err)
  PROVE  CallsOK'
<1>1. Patched(zone[k], body) \in ZoneRecords
  BY PatchedOK DEF CallsOK
<1>2. zone' \in [Keys -> ZoneRecords]
  BY <1>1 DEF Request, CallsOK
<1>3. /\ pc' \in [Procs -> {"idle", "lock", "read", "unlock"} \cup Patches]
      /\ \A q \in Procs : pc'[q] = "idle" <=> pc[q] = "idle"
  BY DEF Request, Goto, CallsOK, Patches
<1>4. Nothing \in [Keys -> ZoneRecords]
  BY DEF Nothing, ZoneRecords
<1>5. seen' \in [Procs -> [Keys -> ZoneRecords]]
  BY <1>4 DEF Request, CallsOK
<1>6. op' = op /\ ctx' = ctx
  BY DEF Request
<1> QED BY <1>2, <1>3, <1>5, <1>6 DEF CallsOK

\* The zone a call patches at its label, and what it sends.
PatchKey(p) == IF pc[p] \in {"patch", "patchSource"} THEN op[p].zone ELSE op[p].target

PatchBody(p) ==
  LET z == seen[p][PatchKey(p)]
  IN CASE pc[p] = "patch" -> IF op[p].kind = "add" THEN AddBody(op[p], z)
                             ELSE ReplaceBody(op[p], z)
       [] pc[p] = "patchTarget" -> zoneWithIP(op[p], z)
       [] pc[p] = "patchSource" -> zoneWithoutIP(op[p], z)
       [] OTHER -> zoneSnapshotRequest(z)

\* The four requests have one shape.
LEMMA RequestShape ==
  ASSUME CallsOK, NEW p \in Procs,
         PatchOne(p) \/ PatchTarget(p) \/ PatchSource(p) \/ Restore(p)
  PROVE  /\ pc[p] \in Patches
         /\ PatchKey(p) \in LockSet(op[p]) /\ PatchKey(p) \in Keys
         /\ PatchBody(p) \in Bodies
         /\ \E ok, err \in {"unlock"} \cup Patches :
              /\ pc[p] = "patch" => ok = "unlock" /\ err = "unlock"
              /\ Request(p, PatchKey(p), PatchBody(p), ok, err)
<1>1. pc[p] \in Patches /\ pc[p] # "idle"
  BY DEF PatchOne, PatchTarget, PatchSource, Restore, Patches
<1>2. PatchKey(p) \in LockSet(op[p]) /\ PatchKey(p) \in Keys
  BY <1>1, OpOK DEF PatchKey, LockSet
<1>3. seen[p][PatchKey(p)] \in ZoneRecords
  BY <1>2 DEF CallsOK
<1>4. PatchBody(p) \in Bodies
  BY <1>1, <1>3, BodiesOK DEF PatchBody
<1>5. CASE PatchOne(p)
  <2>1. Request(p, PatchKey(p), PatchBody(p), "unlock", "unlock")
    BY <1>5 DEF PatchOne, PatchKey, PatchBody
  <2> QED BY <1>1, <1>2, <1>4, <2>1
<1>6. CASE PatchTarget(p)
  <2>1. pc[p] = "patchTarget"
        /\ Request(p, PatchKey(p), PatchBody(p), "patchSource", "unlock")
    BY <1>6 DEF PatchTarget, PatchKey, PatchBody
  <2> QED BY <1>1, <1>2, <1>4, <2>1 DEF Patches
<1>7. CASE PatchSource(p)
  <2>1. pc[p] = "patchSource"
        /\ Request(p, PatchKey(p), PatchBody(p), "unlock",
                   IF TargetFound(op[p], seen[p]) THEN "unlock" ELSE "restore")
    BY <1>7 DEF PatchSource, PatchKey, PatchBody
  <2> QED BY <1>1, <1>2, <1>4, <2>1 DEF Patches
<1>8. CASE Restore(p)
  <2>1. pc[p] = "restore" /\ Request(p, PatchKey(p), PatchBody(p), "unlock", "unlock")
    BY <1>8 DEF Restore, PatchKey, PatchBody
  <2> QED BY <1>1, <1>2, <1>4, <2>1
<1> QED BY <1>5, <1>6, <1>7, <1>8

\* Every step of a call keeps the types.
LEMMA CallsStep == CallsOK /\ [Next]_vars => CallsOK'
<1> SUFFICES ASSUME CallsOK, [Next]_vars PROVE CallsOK'
  OBVIOUS
<1>1. CASE UNCHANGED vars
  BY <1>1 DEF vars, CallsOK
<1>2. ASSUME NEW p \in Procs, Start(p) \/ Cancel(p) \/ Step(p)
      PROVE  CallsOK'
  <2>1. CASE Start(p)
    <3>1. NoOp \notin Operations
      BY ZonesAssumption
    <3> QED BY <2>1, <3>1 DEF Start, Goto, zoneVars, CallsOK
  <2>2. CASE Cancel(p)
    BY <2>2 DEF Cancel, zoneVars, CallsOK
  <2>3. ASSUME NEW k \in Keys, EnterLock(p, k) \/ TakeLock(p, k)
                                 \/ LockCancelled(p, k) \/ Unlock(p, k)
        PROVE  CallsOK'
    <3>1. CASE EnterLock(p, k) \/ Unlock(p, k)
      BY <3>1 DEF EnterLock, Unlock, zoneVars, CallsOK
    <3>2. CASE TakeLock(p, k)
      BY <3>2 DEF TakeLock, Goto, zoneVars, CallsOK
    <3>3. CASE LockCancelled(p, k)
      BY <3>3 DEF LockCancelled, Goto, zoneVars, CallsOK
    <3> QED BY <2>3, <3>1, <3>2, <3>3
  <2>4. CASE Read(p)
    <3>1. FirstPatch(op[p], zone) \in {"unlock"} \cup Patches
      BY DEF FirstPatch, Patches
    <3>2. Nothing \in [Keys -> ZoneRecords]
      BY DEF Nothing, ZoneRecords
    <3>3. /\ pc' \in [Procs -> {"idle", "lock", "read", "unlock"} \cup Patches]
          /\ \A q \in Procs : pc'[q] = "idle" <=> pc[q] = "idle"
      BY <2>4, <3>1 DEF Read, Goto, CallsOK, Patches
    <3>4. seen' \in [Procs -> [Keys -> ZoneRecords]]
      BY <2>4, <3>2 DEF Read, CallsOK
    <3> QED BY <2>4, <3>3, <3>4 DEF Read, CallsOK
  <2>5. CASE PatchOne(p) \/ PatchTarget(p) \/ PatchSource(p) \/ Restore(p)
    <3>1. PICK ok, err \in {"unlock"} \cup Patches :
            Request(p, PatchKey(p), PatchBody(p), ok, err)
      BY <2>5, RequestShape
    <3>2. pc[p] # "idle" /\ PatchKey(p) \in Keys /\ PatchBody(p) \in Bodies
      BY <2>5, RequestShape DEF Patches
    <3> QED BY <3>1, <3>2, RequestOK
  <2>6. CASE Return(p)
    BY <2>6 DEF Return, Goto, zoneVars, CallsOK
  <2> QED BY <1>2, <2>1, <2>2, <2>3, <2>4, <2>5, <2>6 DEF Step
<1> QED BY <1>1, <1>2 DEF Next

\* The calls start with a configuration of the balancer and nothing under way.
LEMMA CallsInit == Init => CallsOK
<1> SUFFICES ASSUME Init PROVE CallsOK
  OBVIOUS
<1>1. Nothing \in [Keys -> ZoneRecords]
  BY DEF Nothing, ZoneRecords
<1> QED BY <1>1, ZonesAssumption DEF Init, CallsOK

\* Both invariants hold of every call.
LEMMA CallsInvariant == Spec => [](LockInv /\ CallsOK)
<1>1. Init => LockInv /\ CallsOK
  BY LockInitInv, CallsInit DEF Init
<1>2. LockInv /\ CallsOK /\ [Next]_vars => (LockInv /\ CallsOK)'
  BY StepOfLock, LockStepInv, CallsStep
<1> QED BY <1>1, <1>2, PTL DEF Spec

\* Every reachable state of the calls and their locks is well typed.
THEOREM ZonesTyped == Spec => []ZonesTypeOK
<1>1. LockInv /\ CallsOK => ZonesTypeOK
  BY DEF LockInv, CallsOK, ZonesTypeOK
<1> QED BY <1>1, CallsInvariant, PTL

-----------------------------------------------------------------------------
(* Serialized read-modify-write. *)

\* The addresses that calls move or replace.
Targets == {o.ip : o \in Operations}

\* A zone without a "nodes" list has no nodes, a zone with one has a node that
\* no call takes away.
Kept(z) == IF z.adv THEN \E a \in z.nodes : a \notin Targets ELSE z.nodes = {}

\* The configured zones are like that.
KeptZones == \A zs \in InitialZones : \A k \in Keys : Kept(zs[k])

StillKept ==
  /\ \A k \in Keys : Kept(zone[k])
  /\ \A p \in Procs, k \in Keys : Kept(seen[p][k])

\* A call that reads or writes holds its locks.
HoldsLocks ==
  \A p \in Procs : pc[p] \in {"read"} \cup Patches =>
    \A k \in LockSet(op[p]) : at[p][k] = "held"

\* Two zones of one format that differ in the addresses of S at most.
Near(y, z, S) ==
  /\ y.adv = z.adv
  /\ SymmetricDifference(y.ips, z.ips) \subseteq S
  /\ SymmetricDifference(y.nodes, z.nodes) \subseteq S

\* A zone differs from what the call has read in the call's own address at most.
SeenNear ==
  \A p \in Procs : pc[p] \in Patches =>
    \A k \in LockSet(op[p]) : Near(zone[k], seen[p][k], {op[p].ip})

SerialInv == LockInv /\ CallsOK /\ StillKept /\ HoldsLocks /\ SeenNear

\* The addresses a request of p may add or take away.
Own(p) == IF pc[p] = "patch" THEN {op[p].ip, op[p].new} ELSE {op[p].ip}

\* The list a call works on is the "nodes" list where there is one.
LEMMA KeptLists ==
  ASSUME NEW z \in ZoneRecords, Kept(z)
  PROVE  /\ z.adv => /\ ReplaceList(z) = "nodes" /\ z[ReplaceList(z)] = z.nodes
                     /\ MoveList(z) = "nodes" /\ z[MoveList(z)] = z.nodes
                     /\ zoneSnapshotRequest(z) = [list |-> "nodes", value |-> z.nodes]
         /\ ~z.adv => /\ ReplaceList(z) = "ips" /\ z[ReplaceList(z)] = z.ips
                      /\ MoveList(z) = "ips" /\ z[MoveList(z)] = z.ips
                      /\ zoneSnapshotRequest(z) = [list |-> "ips", value |-> z.ips]
  BY DEF Kept, ReplaceList, MoveList, zoneSnapshotRequest, ZoneRecords

\* What a request sends: one of the lists the call has read, with its own
\* addresses added or removed.
LEMMA BodyNear ==
  ASSUME SerialInv, NEW p \in Procs, pc[p] \in Patches
  PROVE  LET z == seen[p][PatchKey(p)]
             body == PatchBody(p)
         IN \/ /\ body.list = "ips"
               /\ SymmetricDifference(body.value, z.ips) \subseteq Own(p)
               /\ z.ips \ {op[p].ip} \subseteq body.value
            \/ /\ body.list = "nodes" /\ z.adv
               /\ SymmetricDifference(body.value, z.nodes) \subseteq Own(p)
               /\ z.nodes \ {op[p].ip} \subseteq body.value
<1> DEFINE z == seen[p][PatchKey(p)]
<1>1. PatchKey(p) \in Keys
  BY OpOK DEF PatchKey, SerialInv, Patches
<1>2. z \in ZoneRecords /\ Kept(z)
  BY <1>1 DEF SerialInv, CallsOK, StillKept
<1>3. z.adv \in BOOLEAN
  BY <1>2 DEF ZoneRecords
<1> HIDE DEF z
<1>4. CASE pc[p] = "patch" /\ op[p].kind = "add"
  BY <1>4 DEF PatchBody, AddBody, SymmetricDifference, Own, z
<1>5. CASE pc[p] = "patch" /\ op[p].kind # "add"
  <2>1. PatchBody(p) = [list |-> ReplaceList(z),
                        value |-> (z[ReplaceList(z)] \ {op[p].ip}) \cup {op[p].new}]
    BY <1>5 DEF PatchBody, ReplaceBody, z
  <2> QED BY <1>2, <1>3, <1>5, <2>1, KeptLists DEF SymmetricDifference, Own, z
<1>6. CASE pc[p] = "patchTarget"
  <2>1. PatchBody(p) = [list |-> MoveList(z), value |-> z[MoveList(z)] \cup {op[p].ip}]
    BY <1>6 DEF PatchBody, zoneWithIP, z
  <2> QED BY <1>2, <1>3, <1>6, <2>1, KeptLists DEF SymmetricDifference, Own, z
<1>7. CASE pc[p] = "patchSource"
  <2>1. PatchBody(p) = [list |-> MoveList(z), value |-> z[MoveList(z)] \ {op[p].ip}]
    BY <1>7 DEF PatchBody, zoneWithoutIP, z
  <2> QED BY <1>2, <1>3, <1>7, <2>1, KeptLists DEF SymmetricDifference, Own, z
<1>8. CASE pc[p] = "restore"
  <2>1. PatchBody(p) = zoneSnapshotRequest(z)
    BY <1>8 DEF PatchBody, z
  <2> QED BY <1>2, <1>3, <1>8, <2>1, KeptLists DEF SymmetricDifference, Own, z
<1> QED BY <1>4, <1>5, <1>6, <1>7, <1>8 DEF Patches

\* What the request of p makes of its zone y: one list is replaced.
LEMMA PatchedNear ==
  ASSUME SerialInv, NEW p \in Procs, pc[p] \in Patches
  PROVE  LET k == PatchKey(p)
             y == Patched(zone[k], PatchBody(p))
         IN /\ Kept(y)
            /\ Near(zone[k], y, Own(p)) /\ Near(y, seen[p][k], Own(p))
            /\ zone[k].ips \ {op[p].ip} \subseteq y.ips
            /\ zone[k].nodes \ {op[p].ip} \subseteq y.nodes
            /\ PatchBody(p).value \subseteq y.ips \cup y.nodes
<1> DEFINE k == PatchKey(p)
           z == seen[p][k]
           y == Patched(zone[k], PatchBody(p))
           a == op[p].ip
<1>1. k \in Keys /\ k \in LockSet(op[p]) /\ op[p] \in Operations
  BY OpOK DEF PatchKey, LockSet, SerialInv, CallsOK, Patches
<1>2. /\ zone[k] \in ZoneRecords /\ z \in ZoneRecords
      /\ Kept(zone[k]) /\ Kept(z) /\ Near(zone[k], z, {a})
  BY <1>1 DEF SerialInv, CallsOK, StillKept, SeenNear
<1>3. a \in Targets
  BY <1>1 DEF Targets
<1>4. a \in Own(p)
  BY DEF Own
<1>5. \/ /\ PatchBody(p).list = "ips"
         /\ SymmetricDifference(PatchBody(p).value, z.ips) \subseteq Own(p)
         /\ z.ips \ {a} \subseteq PatchBody(p).value
      \/ /\ PatchBody(p).list = "nodes" /\ z.adv
         /\ SymmetricDifference(PatchBody(p).value, z.nodes) \subseteq Own(p)
         /\ z.nodes \ {a} \subseteq PatchBody(p).value
  BY BodyNear
<1> DEFINE v == PatchBody(p).value
<1> HIDE DEF k, z, v
<1>6. CASE /\ PatchBody(p).list = "ips"
           /\ SymmetricDifference(v, z.ips) \subseteq Own(p)
           /\ z.ips \ {a} \subseteq v
  <2>1. y.adv = zone[k].adv /\ y.ips = v /\ y.nodes = zone[k].nodes
    BY <1>2, <1>6 DEF Patched, ZoneRecords, v
  <2> HIDE DEF y
  <2>2. Kept(y)
    BY <1>2, <2>1 DEF Kept
  <2>3. Near(zone[k], y, Own(p)) /\ Near(y, z, Own(p))
    BY <1>2, <1>4, <1>6, <2>1 DEF Near, SymmetricDifference
  <2>4. zone[k].ips \ {a} \subseteq y.ips /\ zone[k].nodes \ {a} \subseteq y.nodes
    BY <1>2, <1>6, <2>1 DEF Near, SymmetricDifference
  <2> QED BY <2>1, <2>2, <2>3, <2>4 DEF y, k, z, v
<1>7. CASE /\ PatchBody(p).list = "nodes" /\ z.adv
           /\ SymmetricDifference(v, z.nodes) \subseteq Own(p)
           /\ z.nodes \ {a} \subseteq v
  <2>1. y.adv = TRUE /\ y.ips = zone[k].ips /\ y.nodes = v /\ zone[k].adv = TRUE
    BY <1>2, <1>7 DEF Patched, ZoneRecords, Near, v
  <2> HIDE DEF y
  <2>2. Kept(y)
    BY <1>2, <1>3, <1>7, <2>1 DEF Kept
  <2>3. Near(zone[k], y, Own(p)) /\ Near(y, z, Own(p))
    BY <1>2, <1>4, <1>7, <2>1 DEF Near, SymmetricDifference
  <2>4. zone[k].ips \ {a} \subseteq y.ips /\ zone[k].nodes \ {a} \subseteq y.nodes
    BY <1>2, <1>7, <2>1 DEF Near, SymmetricDifference
  <2> QED BY <2>1, <2>2, <2>3, <2>4 DEF y, k, z, v
<1> QED BY <1>5, <1>6, <1>7 DEF v, z, k

\* A request changes its own zone only, which its call has locked, and there no
\* address but the call's.
LEMMA RequestNear ==
  ASSUME SerialInv, NEW p \in Procs,
         PatchOne(p) \/ PatchTarget(p) \/ PatchSource(p) \/ Restore(p)
  PROVE  LET k == PatchKey(p) IN
         /\ k \in Keys /\ k \in LockSet(op[p]) /\ at[p][k] = "held"
         /\ pc[p] \in Patches
         /\ \A l \in Keys \ {k} : zone'[l] = zone[l]
         /\ zone'[k] = zone[k] \/ zone'[k] = Patched(zone[k], PatchBody(p))
         /\ Kept(zone'[k])
         /\ Near(zone[k], zone'[k], Own(p)) /\ Near(zone'[k], seen[p][k], Own(p))
         /\ zone[k].ips \ {op[p].ip} \subseteq zone'[k].ips
         /\ zone[k].nodes \ {op[p].ip} \subseteq zone'[k].nodes
         /\ pc[p] = "patch" => pc'[p] = "unlock"
         /\ pc'[p] \in {"unlock"} \cup Patches
         /\ \A q \in Procs \ {p} : pc'[q] = pc[q] /\ seen'[q] = seen[q]
         /\ seen'[p] \in {seen[p], Nothing}
         /\ pc'[p] # "unlock" => seen'[p] = seen[p]
         /\ op' = op /\ UNCHANGED lockVars
<1> DEFINE k == PatchKey(p)
<1>1. /\ pc[p] \in Patches /\ k \in LockSet(op[p]) /\ k \in Keys
  BY RequestShape DEF SerialInv
<1>2. PICK ok, err \in {"unlock"} \cup Patches :
        /\ pc[p] = "patch" => ok = "unlock" /\ err = "unlock"
        /\ Request(p, k, PatchBody(p), ok, err)
  BY RequestShape DEF SerialInv
<1>3. at[p][k] = "held"
  BY <1>1 DEF SerialInv, HoldsLocks
<1>4. zone' = zone \/ zone' = [zone EXCEPT ![k] = Patched(zone[k], PatchBody(p))]
  BY <1>2 DEF Request
<1>5. /\ Kept(zone[k]) /\ Near(zone[k], seen[p][k], {op[p].ip}) /\ op[p].ip \in Own(p)
  BY <1>1 DEF SerialInv, StillKept, SeenNear, Own
<1>6. Near(zone[k], zone[k], Own(p)) /\ Near(zone[k], seen[p][k], Own(p))
  BY <1>5 DEF Near, SymmetricDifference
<1>7. /\ \A l \in Keys \ {k} : zone'[l] = zone[l]
      /\ zone'[k] = zone[k] \/ zone'[k] = Patched(zone[k], PatchBody(p))
  BY <1>1, <1>4 DEF SerialInv, CallsOK
<1>8. /\ Kept(zone'[k])
      /\ Near(zone[k], zone'[k], Own(p)) /\ Near(zone'[k], seen[p][k], Own(p))
      /\ zone[k].ips \ {op[p].ip} \subseteq zone'[k].ips
      /\ zone[k].nodes \ {op[p].ip} \subseteq zone'[k].nodes
  <2>1. CASE zone'[k] = zone[k]
    BY <1>5, <1>6, <2>1
  <2>2. CASE zone'[k] = Patched(zone[k], PatchBody(p))
    BY <1>1, <2>2, PatchedNear
  <2> QED BY <1>7, <2>1, <2>2
<1>9. /\ pc[p] = "patch" => pc'[p] = "unlock"
      /\ pc'[p] \in {"unlock"} \cup Patches
      /\ \A q \in Procs \ {p} : pc'[q] = pc[q]
  BY <1>2 DEF Request, Goto, SerialInv, CallsOK
<1>10. /\ \A q \in Procs \ {p} : seen'[q] = seen[q]
       /\ seen'[p] \in {seen[p], Nothing}
       /\ pc'[p] # "unlock" => seen'[p] = seen[p]
  BY <1>2 DEF Request, SerialInv, CallsOK
<1>11. op' = op /\ UNCHANGED lockVars
  BY <1>2 DEF Request
<1> QED BY <1>1, <1>3, <1>7, <1>8, <1>9, <1>10, <1>11

\* Other calls do not hold the lock of the zone that a request of p changes.
LEMMA OthersZones ==
  ASSUME SerialInv, NEW p \in Procs, NEW q \in Procs, q # p, pc[q] \in Patches,
         PatchOne(p) \/ PatchTarget(p) \/ PatchSource(p) \/ Restore(p),
         NEW l \in LockSet(op[q])
  PROVE  l \in Keys /\ zone'[l] = zone[l]
<1>1. l \in Keys
  BY OpOK DEF SerialInv, LockSet, Patches
<1>2. at[q][l] = "held"
  BY DEF SerialInv, HoldsLocks
<1>3. l # PatchKey(p)
  BY <1>1, <1>2, RequestNear DEF SerialInv, LockInv, Mutex
<1> QED BY <1>1, <1>3, RequestNear

\* Requests keep the invariant.
LEMMA RequestSerial ==
  ASSUME SerialInv, NEW p \in Procs,
         PatchOne(p) \/ PatchTarget(p) \/ PatchSource(p) \/ Restore(p)
  PROVE  StillKept' /\ HoldsLocks' /\ SeenNear'
<1> DEFINE k == PatchKey(p)
<1>1. /\ k \in Keys /\ k \in LockSet(op[p]) /\ pc[p] \in Patches
      /\ \A l \in Keys \ {k} : zone'[l] = zone[l]
      /\ Kept(zone'[k]) /\ Near(zone'[k], seen[p][k], Own(p))
      /\ pc[p] = "patch" => pc'[p] = "unlock"
      /\ pc'[p] \in {"unlock"} \cup Patches
      /\ \A q \in Procs \ {p} : pc'[q] = pc[q] /\ seen'[q] = seen[q]
      /\ seen'[p] \in {seen[p], Nothing}
      /\ pc'[p] # "unlock" => seen'[p] = seen[p]
      /\ op' = op /\ at' = at
  BY RequestNear DEF lockVars
<1>2. StillKept'
  <2>1. \A l \in Keys : Kept(Nothing[l])
    BY DEF Nothing, Kept
  <2> QED BY <1>1, <2>1 DEF SerialInv, StillKept
<1>3. HoldsLocks'
  <2> SUFFICES ASSUME NEW q \in Procs, pc'[q] \in {"read"} \cup Patches,
                      NEW l \in LockSet(op[q])
               PROVE  at[q][l] = "held"
    BY <1>1 DEF HoldsLocks, LockSet
  <2>1. pc[q] \in {"read"} \cup Patches
    BY <1>1
  <2> QED BY <2>1 DEF SerialInv, HoldsLocks
<1>4. SeenNear'
  <2> SUFFICES ASSUME NEW q \in Procs, pc'[q] \in Patches, NEW l \in LockSet(op[q])
               PROVE  Near(zone'[l], seen'[q][l], {op[q].ip})
    BY <1>1 DEF SeenNear, LockSet, Near
  <2>1. pc[q] \in Patches /\ seen'[q] = seen[q] /\ (q = p => pc[p] # "patch")
    BY <1>1 DEF Patches
  <2>2. Near(zone[l], seen[q][l], {op[q].ip}) /\ l \in Keys
    BY <2>1, OpOK DEF SerialInv, SeenNear, LockSet, Patches
  <2>3. CASE q # p
    BY <2>1, <2>2, <2>3, OthersZones
  <2>4. CASE q = p
    BY <1>1, <2>1, <2>2, <2>4 DEF Own
  <2> QED BY <2>3, <2>4
<1> QED BY <1>2, <1>3, <1>4

\* A call that is taking or giving back its locks leaves the others alone.
LEMMA LockingSerial ==
  ASSUME SerialInv, NEW p \in Procs, NEW k \in Keys,
         EnterLock(p, k) \/ TakeLock(p, k) \/ LockCancelled(p, k) \/ Unlock(p, k)
  PROVE  StillKept' /\ HoldsLocks' /\ SeenNear'
<1>1. /\ zone' = zone /\ seen' = seen /\ op' = op
      /\ \A q \in Procs \ {p} : pc'[q] = pc[q] /\ at'[q] = at[q]
      /\ pc'[p] \in {"lock", "read", "unlock"}
      /\ pc'[p] = "read" => TakeLock(p, k)
  <2>1. CASE EnterLock(p, k)
    BY <2>1 DEF EnterLock, Enter, zoneVars, SerialInv, LockInv, LockTypeOK
  <2>2. CASE TakeLock(p, k)
    BY <2>2 DEF TakeLock, Take, Goto, zoneVars, SerialInv, CallsOK, LockInv, LockTypeOK
  <2>3. CASE LockCancelled(p, k)
    BY <2>3 DEF LockCancelled, GiveUp, Release, Goto, zoneVars, lockVars,
                SerialInv, CallsOK, LockInv, LockTypeOK
  <2>4. CASE Unlock(p, k)
    BY <2>4 DEF Unlock, ReturnToken, Leave, Release, zoneVars, SerialInv,
                LockInv, LockTypeOK
  <2> QED BY <2>1, <2>2, <2>3, <2>4
<1>2. StillKept'
  BY <1>1 DEF SerialInv, StillKept
<1>3. SeenNear'
  BY <1>1 DEF SerialInv, SeenNear, LockSet, Near, Patches
<1>4. HoldsLocks'
  <2> SUFFICES ASSUME NEW q \in Procs, pc'[q] \in {"read"} \cup Patches,
                      NEW l \in LockSet(op[q])
               PROVE  at'[q][l] = "held"
    BY <1>1 DEF HoldsLocks, LockSet
  <2>1. CASE q # p
    BY <1>1, <2>1 DEF SerialInv, HoldsLocks
  <2>2. CASE q = p
    <3>1. TakeLock(p, k) /\ pc'[p] = "read"
      BY <1>1, <2>2 DEF Patches
    <3>2. \A m \in LockSet(op[p]) \ {k} : at[p][m] = "held"
      BY <3>1 DEF TakeLock, Goto, SerialInv, CallsOK
    <3>3. l \in Keys
      BY <2>2, <3>1, OpOK DEF TakeLock, SerialInv, LockSet
    <3>4. at' = [at EXCEPT ![p][k] = "held"]
      BY <3>1 DEF TakeLock, Take
    <3> QED BY <2>2, <3>2, <3>3, <3>4 DEF SerialInv, LockInv, LockTypeOK
  <2> QED BY <2>1, <2>2
<1> QED BY <1>2, <1>3, <1>4

\* A call reads the zones it has locked.
LEMMA ReadSerial ==
  ASSUME SerialInv, NEW p \in Procs, Read(p)
  PROVE  StillKept' /\ HoldsLocks' /\ SeenNear'
<1>1. /\ zone' = zone /\ op' = op /\ at' = at /\ pc[p] = "read"
      /\ \A q \in Procs \ {p} : pc'[q] = pc[q] /\ seen'[q] = seen[q]
      /\ seen'[p] \in {seen[p], zone, Nothing}
      /\ pc'[p] \in {"unlock"} \cup Patches
      /\ pc'[p] # "unlock" => seen'[p] = zone
  BY DEF Read, Goto, FirstPatch, lockVars, SerialInv, CallsOK, Patches
<1>2. StillKept'
  <2>1. \A l \in Keys : Kept(Nothing[l])
    BY DEF Nothing, Kept
  <2> QED BY <1>1, <2>1 DEF SerialInv, StillKept
<1>3. HoldsLocks'
  BY <1>1 DEF SerialInv, HoldsLocks, LockSet
<1>4. SeenNear'
  <2> SUFFICES ASSUME NEW q \in Procs, pc'[q] \in Patches, NEW l \in LockSet(op[q])
               PROVE  Near(zone[l], seen'[q][l], {op[q].ip})
    BY <1>1 DEF SeenNear, LockSet, Near
  <2>1. CASE q = p
    BY <1>1, <2>1 DEF Near, SymmetricDifference, Patches
  <2>2. CASE q # p
    BY <1>1, <2>2 DEF SerialInv, SeenNear
  <2> QED BY <2>1, <2>2
<1> QED BY <1>2, <1>3, <1>4

\* Calls that begin, end or are cancelled touch neither zones nor locks.
LEMMA CallSerial ==
  ASSUME SerialInv, NEW p \in Procs, Start(p) \/ Cancel(p) \/ Return(p)
  PROVE  StillKept' /\ HoldsLocks' /\ SeenNear'
<1>1. /\ zone' = zone /\ seen' = seen /\ at' = at
      /\ \A q \in Procs : pc'[q] \in {"read"} \cup Patches =>
           pc[q] = pc'[q] /\ op'[q] = op[q]
  <2>1. CASE Start(p)
    BY <2>1 DEF Start, Goto, zoneVars, lockVars, SerialInv, CallsOK, Patches
  <2>2. CASE Cancel(p)
    BY <2>2 DEF Cancel, zoneVars, lockVars
  <2>3. CASE Return(p)
    BY <2>3 DEF Return, Goto, zoneVars, lockVars, SerialInv, CallsOK, Patches
  <2> QED BY <2>1, <2>2, <2>3
<1>2. StillKept'
  BY <1>1 DEF SerialInv, StillKept
<1>3. HoldsLocks'
  BY <1>1 DEF SerialInv, HoldsLocks, LockSet
<1>4. SeenNear'
  <2> SUFFICES ASSUME NEW q \in Procs, pc'[q] \in Patches, NEW l \in LockSet(op[q])
               PROVE  Near(zone[l], seen[q][l], {op[q].ip})
    BY <1>1 DEF SeenNear, LockSet, Near
  <2> QED BY <1>1 DEF SerialInv, SeenNear
<1> QED BY <1>2, <1>3, <1>4

\* One step per action.
LEMMA SerialStep == SerialInv /\ [Next]_vars => SerialInv'
<1> SUFFICES ASSUME SerialInv, [Next]_vars PROVE SerialInv'
  OBVIOUS
<1>1. LockInv' /\ CallsOK'
  BY StepOfLock, LockStepInv, CallsStep DEF SerialInv
<1>2. StillKept' /\ HoldsLocks' /\ SeenNear'
  <2>1. CASE UNCHANGED vars
    BY <2>1 DEF vars, lockVars, SerialInv, StillKept, HoldsLocks, SeenNear, LockSet, Near
  <2>2. ASSUME NEW p \in Procs, Start(p) \/ Cancel(p) \/ Step(p)
        PROVE  StillKept' /\ HoldsLocks' /\ SeenNear'
    BY <2>2, CallSerial, LockingSerial, ReadSerial, RequestSerial DEF Step
  <2> QED BY <2>1, <2>2 DEF Next
<1> QED BY <1>1, <1>2 DEF SerialInv

\* No call has read anything yet.
LEMMA SerialInit ==
  ASSUME KeptZones
  PROVE  Init => SerialInv
<1> SUFFICES ASSUME Init PROVE SerialInv
  OBVIOUS
<1>1. LockInv /\ CallsOK
  BY LockInitInv, CallsInit DEF Init
<1>2. StillKept
  BY DEF Init, StillKept, KeptZones, Kept, Nothing
<1>3. HoldsLocks /\ SeenNear
  BY DEF Init, HoldsLocks, SeenNear, Patches
<1> QED BY <1>1, <1>2, <1>3 DEF SerialInv

\* A zone changes by a request of the call that holds its lock.
LEMMA OwnStep ==
  ASSUME SerialInv, [Next]_vars, NEW k \in Keys, zone'[k] # zone[k]
  PROVE  \E p \in Procs :
           /\ at[p][k] = "held"
           /\ SymmetricDifference(zone[k].ips, zone'[k].ips)
                \cup SymmetricDifference(zone[k].nodes, zone'[k].nodes)
                \subseteq {op[p].ip, op[p].new}
<1>1. PICK p \in Procs : PatchOne(p) \/ PatchTarget(p) \/ PatchSource(p) \/ Restore(p)
  BY DEF Next, vars, Step, Start, Cancel, EnterLock, TakeLock, LockCancelled, Unlock,
         Read, Return, zoneVars
<1> DEFINE l == PatchKey(p)
<1>2. /\ at[p][l] = "held"
      /\ \A m \in Keys \ {l} : zone'[m] = zone[m]
      /\ Near(zone[l], zone'[l], Own(p))
  BY <1>1, RequestNear
<1>3. k = l
  BY <1>2
<1> QED BY <1>2, <1>3 DEF Near, Own

\* Read-modify-write cycles are serialized: whatever fails, is lost or is
\* cancelled, a PATCH touches no address but its own call's.  KeptZones is needed:
\* the PATCH that restores a zone whose "nodes" list was empty is sent as an empty
\* "ips" list, and takes every address of that list away.
THEOREM ZonesSerialized ==
  ASSUME KeptZones
  PROVE  Spec => OwnAddressesOnly
<1>1. Init => SerialInv
  BY SerialInit
<1>2. SerialInv /\ [Next]_vars =>
        [\A k \in Keys : zone'[k] # zone[k] =>
           \E p \in Procs :
             /\ at[p][k] = "held"
             /\ SymmetricDifference(zone[k].ips, zone'[k].ips)
                  \cup SymmetricDifference(zone[k].nodes, zone'[k].nodes)
                  \subseteq {op[p].ip, op[p].new}]_vars
  BY OwnStep
<1> QED BY <1>1, <1>2, SerialStep, PTL DEF Spec, OwnAddressesOnly

-----------------------------------------------------------------------------
(* Addresses stay published. *)

Listed(z) == z.ips \cup z.nodes

\* A move that is patching has its address in the source zone, and before it
\* patches the source also in the target.
MoveInv ==
  \A p \in Procs :
    /\ pc[p] = "patch" => op[p].kind # "move"
    /\ pc[p] \in Patches \ {"patch"} =>
         op[p].kind = "move" /\ op[p].ip \in Listed(zone[op[p].zone])
    /\ pc[p] = "patchSource" => op[p].ip \in Listed(zone[op[p].target])

\* The zones of a call, which are two exactly for a move.
LEMMA MoveZones ==
  ASSUME CallsOK, NEW p \in Procs, pc[p] # "idle"
  PROVE  /\ op[p].zone \in LockSet(op[p]) /\ op[p].target \in LockSet(op[p])
         /\ op[p].zone \in Keys /\ op[p].target \in Keys
         /\ op[p].kind = "move" <=> op[p].zone # op[p].target
         /\ op[p].kind \in {"add", "replace", "move"}
<1>1. op[p] \in Operations
  BY ZonesAssumption DEF CallsOK
<1>2. op[p] \in CallRecords
  BY <1>1, ZonesAssumption
<1> QED BY <1>1, <1>2, ZonesAssumption DEF LockSet, CallRecords

\* A request that is applied without an error, or whose reply is lost, leaves
\* the addresses it sent in its zone.
LEMMA SentListed ==
  ASSUME SerialInv, NEW p \in Procs,
         PatchOne(p) \/ PatchTarget(p) \/ PatchSource(p) \/ Restore(p)
  PROVE  LET k == PatchKey(p) IN
         zone'[k] = zone[k] \/ PatchBody(p).value \subseteq Listed(zone'[k])
  BY RequestNear, PatchedNear DEF Listed

\* The read finds the address in the source, and goes on to patch the source
\* only if the target has it too.
LEMMA ReadMove ==
  ASSUME SerialInv, MoveInv, NEW p \in Procs, Read(p)
  PROVE  MoveInv'
<1>1. /\ zone' = zone /\ op' = op /\ pc[p] = "read"
      /\ \A q \in Procs \ {p} : pc'[q] = pc[q]
      /\ pc'[p] \in {"unlock", FirstPatch(op[p], zone)}
  BY DEF Read, Goto, SerialInv, CallsOK
<1>2. /\ op[p].zone \in Keys /\ op[p].target \in Keys
      /\ op[p].kind \in {"add", "replace", "move"}
  BY <1>1, MoveZones DEF SerialInv
<1>3. \A k \in Keys : zone[k][MoveList(zone[k])] \subseteq Listed(zone[k])
  BY DEF MoveList, Listed
<1>4. CASE op[p].kind = "move"
  <2>1. /\ FirstPatch(op[p], zone) \in {"unlock", "patchSource", "patchTarget"}
        /\ FirstPatch(op[p], zone) # "unlock" => Movable(op[p], zone)
        /\ FirstPatch(op[p], zone) = "patchSource" => TargetFound(op[p], zone)
    BY <1>4 DEF FirstPatch
  <2>2. Movable(op[p], zone) => op[p].ip \in Listed(zone[op[p].zone])
    BY <1>2, <1>3 DEF Movable
  <2>3. TargetFound(op[p], zone) => op[p].ip \in Listed(zone[op[p].target])
    BY <1>2, <1>3 DEF TargetFound
  <2> QED BY <1>1, <1>4, <2>1, <2>2, <2>3 DEF MoveInv, Listed, Patches
<1>5. CASE op[p].kind # "move"
  <2>1. FirstPatch(op[p], zone) \in {"unlock", "patch"}
    BY <1>2, <1>5 DEF FirstPatch
  <2> QED BY <1>1, <1>5, <2>1 DEF MoveInv, Listed, Patches
<1> QED BY <1>4, <1>5

\* Where a request of p goes on, and what it has done then.
LEMMA RequestOutcome ==
  ASSUME SerialInv, MoveInv, "patchSource" \notin LostReplies, NEW p \in Procs,
         PatchOne(p) \/ PatchTarget(p) \/ PatchSource(p) \/ Restore(p)
  PROVE  \/ pc'[p] = "unlock"
         \/ /\ pc[p] = "patchTarget" /\ pc'[p] = "patchSource"
            /\ op[p].ip \in Listed(zone'[op[p].target])
         \/ pc[p] = "patchSource" /\ pc'[p] = "restore" /\ zone' = zone
<1>0. pc \in [Procs -> {"idle", "lock", "read", "unlock"} \cup Patches]
  BY DEF SerialInv, CallsOK
<1>1. CASE PatchOne(p)
  BY <1>0, <1>1 DEF PatchOne, Request, Goto
<1>2. CASE Restore(p)
  BY <1>0, <1>2 DEF Restore, Request, Goto
<1>3. CASE PatchTarget(p)
  <2> DEFINE k == op[p].target
             body == zoneWithIP(op[p], seen[p][k])
  <2>1. pc[p] = "patchTarget" /\ Request(p, k, body, "patchSource", "unlock")
    BY <1>3 DEF PatchTarget
  <2>2. PatchKey(p) = k /\ PatchBody(p) = body
    BY <2>1 DEF PatchKey, PatchBody
  <2>3. op[p].ip \in body.value
    BY DEF zoneWithIP
  <2>4. Patched(zone[k], body).ips \cup Patched(zone[k], body).nodes = Listed(Patched(zone[k], body))
    BY DEF Listed
  <2>5. op[p].ip \in Listed(Patched(zone[k], body))
    BY <2>1, <2>2, <2>3, <2>4, PatchedNear DEF Patches
  <2>6. k \in Keys /\ zone \in [Keys -> ZoneRecords]
    BY <2>1, MoveZones DEF SerialInv, CallsOK
  <2> HIDE DEF k, body
  <2>7. \/ pc'[p] = "unlock"
        \/ pc'[p] = "patchSource" /\ zone' = [zone EXCEPT ![k] = Patched(zone[k], body)]
    BY <1>0, <2>1 DEF Request, Goto
  <2> QED BY <2>1, <2>5, <2>6, <2>7 DEF k
<1>4. CASE PatchSource(p)
  <2>1. pc[p] = "patchSource" /\
        Request(p, op[p].zone, zoneWithoutIP(op[p], seen[p][op[p].zone]), "unlock",
                IF TargetFound(op[p], seen[p]) THEN "unlock" ELSE "restore")
    BY <1>4 DEF PatchSource
  <2> QED BY <1>0, <2>1 DEF Request, Goto
<1> QED BY <1>1, <1>2, <1>3, <1>4

\* Requests keep the address of a move where it has to be.
LEMMA RequestMove ==
  ASSUME SerialInv, MoveInv, "patchSource" \notin LostReplies, NEW p \in Procs,
         PatchOne(p) \/ PatchTarget(p) \/ PatchSource(p) \/ Restore(p)
  PROVE  MoveInv'
<1>1. /\ pc[p] \in Patches /\ op' = op
      /\ \A q \in Procs \ {p} : pc'[q] = pc[q]
      /\ \A l \in Keys \ {PatchKey(p)} : zone'[l] = zone[l]
  BY RequestNear
<1> SUFFICES ASSUME NEW q \in Procs
             PROVE  /\ pc'[q] = "patch" => op[q].kind # "move"
                    /\ pc'[q] \in Patches \ {"patch"} =>
                         op[q].kind = "move" /\ op[q].ip \in Listed(zone'[op[q].zone])
                    /\ pc'[q] = "patchSource" => op[q].ip \in Listed(zone'[op[q].target])
  BY <1>1 DEF MoveInv, Listed
<1>2. CASE q # p
  <2>1. pc'[q] = pc[q]
    BY <1>1, <1>2
  <2>2. pc[q] \in Patches => /\ zone'[op[q].zone] = zone[op[q].zone]
                             /\ zone'[op[q].target] = zone[op[q].target]
    BY <1>2, OthersZones, MoveZones DEF SerialInv, Patches
  <2> QED BY <2>1, <2>2 DEF MoveInv, Patches
<1>3. CASE q = p
  <2>1. CASE pc'[p] = "unlock"
    BY <1>3, <2>1 DEF Patches
  <2>2. CASE /\ pc[p] = "patchTarget" /\ pc'[p] = "patchSource"
             /\ op[p].ip \in Listed(zone'[op[p].target])
    <3>1. op[p].kind = "move" /\ op[p].ip \in Listed(zone[op[p].zone])
      BY <2>2 DEF MoveInv, Patches
    <3>2. op[p].zone \in Keys /\ op[p].zone # op[p].target
      BY <2>2, <3>1, MoveZones DEF SerialInv
    <3>3. zone'[op[p].zone] = zone[op[p].zone]
      BY <1>1, <2>2, <3>2 DEF PatchKey
    <3> QED BY <1>3, <2>2, <3>1, <3>3
  <2>3. CASE pc[p] = "patchSource" /\ pc'[p] = "restore" /\ zone' = zone
    BY <1>3, <2>3 DEF MoveInv, Patches
  <2> QED BY <2>1, <2>2, <2>3, RequestOutcome
<1> QED BY <1>2, <1>3

\* No other step touches a zone, or a call that is patching.
LEMMA OtherMove ==
  ASSUME SerialInv, MoveInv, NEW p \in Procs,
         \/ Start(p) \/ Cancel(p) \/ Return(p)
         \/ \E k \in Keys : EnterLock(p, k) \/ TakeLock(p, k) \/ LockCancelled(p, k)
                              \/ Unlock(p, k)
  PROVE  MoveInv'
<1>1. /\ zone' = zone
      /\ \A q \in Procs : pc'[q] \in Patches => pc'[q] = pc[q] /\ op'[q] = op[q]
  <2>1. CASE Start(p)
    BY <2>1 DEF Start, Goto, zoneVars, SerialInv, CallsOK, Patches
  <2>2. CASE Cancel(p)
    BY <2>2 DEF Cancel, zoneVars
  <2>3. CASE Return(p)
    BY <2>3 DEF Return, Goto, zoneVars, SerialInv, CallsOK, Patches
  <2>4. ASSUME NEW k \in Keys,
               EnterLock(p, k) \/ TakeLock(p, k) \/ LockCancelled(p, k) \/ Unlock(p, k)
        PROVE  /\ zone' = zone /\ op' = op
               /\ \A q \in Procs : pc'[q] \in Patches => pc'[q] = pc[q]
    BY <2>4 DEF EnterLock, TakeLock, LockCancelled, Unlock, Goto, zoneVars,
                SerialInv, CallsOK, Patches
  <2> QED BY <2>1, <2>2, <2>3, <2>4
<1> SUFFICES ASSUME NEW q \in Procs, pc'[q] \in Patches
             PROVE  /\ pc'[q] = "patch" => op'[q].kind # "move"
                    /\ pc'[q] # "patch" =>
                         op'[q].kind = "move" /\ op'[q].ip \in Listed(zone[op'[q].zone])
                    /\ pc'[q] = "patchSource" => op'[q].ip \in Listed(zone[op'[q].target])
  BY <1>1 DEF MoveInv, Listed, Patches
<1> QED BY <1>1 DEF MoveInv

\* One step per action.
LEMMA MoveStep ==
  ASSUME "patchSource" \notin LostReplies
  PROVE  SerialInv /\ MoveInv /\ [Next]_vars => MoveInv'
<1> SUFFICES ASSUME SerialInv, MoveInv, [Next]_vars PROVE MoveInv'
  OBVIOUS
<1>1. CASE UNCHANGED vars
  BY <1>1 DEF vars, MoveInv, Listed
<1>2. ASSUME NEW p \in Procs, Start(p) \/ Cancel(p) \/ Step(p)
      PROVE  MoveInv'
  BY <1>2, OtherMove, ReadMove, RequestMove DEF Step
<1> QED BY <1>1, <1>2 DEF Next

\* An address leaves a zone by the request of its own call.  That of AddIP and
\* the first of MoveIP send it, the others of MoveIP leave it in the other zone.
LEMMA PublishedStep ==
  ASSUME SerialInv, MoveInv, [Next]_vars, NEW a \in Addrs, Published(a), ~Published(a)'
  PROVE  \E p \in Procs : pc[p] = "patch" /\ op[p].kind = "replace" /\ op[p].ip = a
<1>1. PICK k \in Keys : a \in Listed(zone[k])
  BY DEF Published, Listed
<1>2. \A l \in Keys : a \notin Listed(zone'[l])
  BY DEF Published, Listed
<1>3. PICK p \in Procs : PatchOne(p) \/ PatchTarget(p) \/ PatchSource(p) \/ Restore(p)
  BY <1>1, <1>2 DEF Next, vars, Step, Start, Cancel, EnterLock, TakeLock, LockCancelled,
                    Unlock, Read, Return, zoneVars
<1> DEFINE l == PatchKey(p)
<1>4. /\ l \in Keys /\ pc[p] \in Patches
      /\ \A m \in Keys \ {l} : zone'[m] = zone[m]
      /\ zone[l].ips \ {op[p].ip} \subseteq zone'[l].ips
      /\ zone[l].nodes \ {op[p].ip} \subseteq zone'[l].nodes
  BY <1>3, RequestNear
<1>5. k = l /\ a = op[p].ip /\ zone'[l] # zone[l]
  BY <1>1, <1>2, <1>4 DEF Listed
<1>6. a \notin PatchBody(p).value
  BY <1>2, <1>3, <1>4, <1>5, SentListed
<1>7. /\ op[p].zone \in Keys /\ op[p].target \in Keys
      /\ op[p].kind = "move" <=> op[p].zone # op[p].target
      /\ op[p].kind \in {"add", "replace", "move"}
  BY <1>4, MoveZones DEF SerialInv, Patches
<1>8. pc[p] # "patchTarget"
  BY <1>5, <1>6 DEF PatchBody, zoneWithIP
<1>9. pc[p] # "patchSource"
  <2> SUFFICES ASSUME pc[p] = "patchSource" PROVE FALSE
    OBVIOUS
  <2>1. op[p].kind = "move" /\ a \in Listed(zone[op[p].target])
    BY <1>5 DEF MoveInv, Patches
  <2>2. l = op[p].zone
    BY DEF PatchKey
  <2> QED BY <1>2, <1>4, <1>7, <2>1, <2>2
<1>10. pc[p] # "restore"
  <2> SUFFICES ASSUME pc[p] = "restore" PROVE FALSE
    OBVIOUS
  <2>1. op[p].kind = "move" /\ a \in Listed(zone[op[p].zone])
    BY <1>5 DEF MoveInv, Patches
  <2>2. l = op[p].target
    BY DEF PatchKey
  <2> QED BY <1>2, <1>4, <1>7, <2>1, <2>2
<1>11. pc[p] = "patch"
  BY <1>4, <1>8, <1>9, <1>10 DEF Patches
<1>12. op[p].kind # "add"
  BY <1>5, <1>6, <1>11 DEF PatchBody, AddBody
<1>13. op[p].kind # "move"
  BY <1>11 DEF MoveInv
<1> QED BY <1>5, <1>7, <1>11, <1>12, <1>13

\* Only ReplaceIP unpublishes an address: a move that fails, is cancelled or is
\* compensated leaves it in one of its zones.  The exception is the PATCH of the
\* source: when it is applied and its reply is lost, the restoring PATCH takes the
\* address out of the target as well.
THEOREM AddressesStayPublished ==
  ASSUME KeptZones, "patchSource" \notin LostReplies
  PROVE  Spec => NeverUnpublished
<1>1. Init => SerialInv /\ MoveInv
  <2>1. Init => MoveInv
    BY DEF Init, MoveInv, Patches
  <2> QED BY <2>1, SerialInit
<1>2. SerialInv /\ MoveInv /\ [Next]_vars => (SerialInv /\ MoveInv)'
  BY SerialStep, MoveStep
<1>3. SerialInv /\ MoveInv /\ [Next]_vars =>
        [\A a \in Addrs :
           Published(a) => \/ Published(a)'
                           \/ \E p \in Procs : /\ pc[p] = "patch"
                                               /\ op[p].kind = "replace"
                                               /\ op[p].ip = a]_vars
  BY PublishedStep
<1> QED BY <1>1, <1>2, <1>3, PTL DEF Spec, NeverUnpublished
=============================================================================
