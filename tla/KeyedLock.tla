----------------------------- MODULE KeyedLock -----------------------------
(***************************************************************************)
(* MemoryZoneLocker: a lock per key whose waiting can be cancelled.  The   *)
(* map holds an entry for a key only while somebody uses it: an entry has  *)
(* a channel with one token and a count of its users, and the last user    *)
(* removes it.  The map and the counts are changed under a mutex, so each  *)
(* of these sections is one step; taking and returning the token is not    *)
(* under it.  certmanager.MemoryLocker is the same code.                   *)
(***************************************************************************)
EXTENDS Naturals, FiniteSets

CONSTANTS
  Procs,    \* goroutines
  Keys,     \* normalized FQDNs
  Entries,  \* addresses of lockEntry objects
  NoEntry   \* nil

ASSUME LockAssumption == IsFiniteSet(Procs) /\ NoEntry \notin Entries

VARIABLES
  entries,  \* MemoryZoneLocker.entries
  token,    \* token[e]: the channel of e holds its token
  refs,     \* refs[e]: lockEntry.refs
  at,       \* at[p][k]: how far p is with the lock of k
  ent       \* ent[p][k]: the entry p got from the map

lockVars == <<entries, token, refs, at, ent>>

\* "returned": the token is back in the channel, release has not run yet.
LockLabels == {"idle", "waiting", "held", "returned"}

LockInit ==
  /\ entries = [k \in Keys |-> NoEntry]
  /\ token = [e \in Entries |-> FALSE]
  /\ refs = [e \in Entries |-> 0]
  /\ at = [p \in Procs |-> [k \in Keys |-> "idle"]]
  /\ ent = [p \in Procs |-> [k \in Keys |-> NoEntry]]

Users(k) == {p \in Procs : at[p][k] # "idle"}

\* Entries nothing points to: a new lockEntry can be allocated there.
Free == {e \in Entries : /\ \A k \in Keys : entries[k] # e
                         /\ \A p \in Procs, k \in Keys :
                              at[p][k] # "idle" => ent[p][k] # e}

Lookup(k) == IF entries[k] = NoEntry THEN Free ELSE {entries[k]}

\* Lock, up to the select: find or create the entry and count this user.
Enter(p, k) ==
  /\ at[p][k] = "idle"
  /\ \E e \in Lookup(k) :
       /\ entries' = [entries EXCEPT ![k] = e]
       /\ token' = [token EXCEPT ![e] = @ \/ entries[k] = NoEntry]
       /\ refs' = [refs EXCEPT ![e] = IF entries[k] = NoEntry THEN 1 ELSE @ + 1]
       /\ ent' = [ent EXCEPT ![p][k] = e]
  /\ at' = [at EXCEPT ![p][k] = "waiting"]

\* The select receives the token.
Take(p, k) ==
  /\ at[p][k] = "waiting"
  /\ token[ent[p][k]]
  /\ token' = [token EXCEPT ![ent[p][k]] = FALSE]
  /\ at' = [at EXCEPT ![p][k] = "held"]
  /\ UNCHANGED <<entries, refs, ent>>

\* Mutant: every user that leaves removes the entry.
ReleaseAlways(p, k) ==
  /\ refs' = [refs EXCEPT ![ent[p][k]] = @ - 1]
  /\ entries' = [entries EXCEPT ![k] = IF @ = ent[p][k] THEN NoEntry ELSE @]
  /\ at' = [at EXCEPT ![p][k] = "idle"]
  /\ ent' = [ent EXCEPT ![p][k] = NoEntry]
  /\ UNCHANGED token

\* release: the last user removes the entry from the map.
Release(p, k) ==
  /\ refs' = [refs EXCEPT ![ent[p][k]] = @ - 1]
  /\ entries' = [entries EXCEPT ![k] =
       IF refs[ent[p][k]] = 1 /\ @ = ent[p][k] THEN NoEntry ELSE @]
  /\ at' = [at EXCEPT ![p][k] = "idle"]
  /\ ent' = [ent EXCEPT ![p][k] = NoEntry]
  /\ UNCHANGED token

\* Mutant: a waiter that gives up leaves its reference behind.
GiveUpUncounted(p, k) ==
  /\ at[p][k] = "waiting"
  /\ at' = [at EXCEPT ![p][k] = "idle"]
  /\ ent' = [ent EXCEPT ![p][k] = NoEntry]
  /\ UNCHANGED <<entries, token, refs>>

\* The select sees ctx.Done.
GiveUp(p, k) == at[p][k] = "waiting" /\ Release(p, k)

\* unlock, first half: the token goes back.
ReturnToken(p, k) ==
  /\ at[p][k] = "held"
  /\ token' = [token EXCEPT ![ent[p][k]] = TRUE]
  /\ at' = [at EXCEPT ![p][k] = "returned"]
  /\ UNCHANGED <<entries, refs, ent>>

\* unlock, second half.
Leave(p, k) == at[p][k] = "returned" /\ Release(p, k)

LockNext ==
  \E p \in Procs, k \in Keys :
    Enter(p, k) \/ Take(p, k) \/ GiveUp(p, k) \/ ReturnToken(p, k) \/ Leave(p, k)

LockSpec == LockInit /\ [][LockNext]_lockVars

-----------------------------------------------------------------------------

LockTypeOK ==
  /\ entries \in [Keys -> Entries \cup {NoEntry}]
  /\ token \in [Entries -> BOOLEAN]
  /\ refs \in [Entries -> Nat]
  /\ at \in [Procs -> [Keys -> LockLabels]]
  /\ ent \in [Procs -> [Keys -> Entries \cup {NoEntry}]]

\* Lock gives a key to one caller at a time, although entries are removed and
\* created again while callers come, wait, give up and leave.
Mutex ==
  \A k \in Keys : \A p, q \in Procs :
    at[p][k] = "held" /\ at[q][k] = "held" => p = q

\* The map holds an entry for exactly the keys in use, refs counts the users of
\* that entry, and all of them use it: no cancelled waiter or unlock leaks an
\* entry or removes one that is still used.
EntriesExact ==
  \A k \in Keys :
    /\ entries[k] = NoEntry <=> Users(k) = {}
    /\ \A p \in Users(k) : ent[p][k] = entries[k]
    /\ entries[k] # NoEntry => refs[entries[k]] = Cardinality(Users(k))
=============================================================================
