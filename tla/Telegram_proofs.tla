--------------------------- MODULE Telegram_proofs ---------------------------
(***************************************************************************)
(* Proofs about TelegramSessions and NodeMonitor.                           *)
(*                                                                         *)
(* The sessions, for a bot that handles one update at a time, as BotAPI.Run *)
(* does, and any number of operators and conversations. The inductive       *)
(* invariant says of every wizard who is to settle it: the map, the handler *)
(* that took it, or the goroutine it was handed to, never two of them; and  *)
(* of the handler what it may rely on although timers run beside it.        *)
(*                                                                         *)
(* The monitor, for any number of Nodes and operators, any number of        *)
(* confirmations and any interval between two alerts.                       *)
(***************************************************************************)
EXTENDS TelegramSessions, NodeMonitor, TLAPS

(***************************************************************************)
(* The sessions.                                                            *)
(***************************************************************************)
\* Steps of a handler that has taken a session out of the map, and of one that
\* works with a session it has found there.
Taken == {"progress", "status", "replace"}
Found == {"begun", "loaded", "card", "preflight", "prepared", "show", "sync"}

\* The state of its wizard a handler relies on, unless the session has expired.
Expected(h) ==
  CASE handler[h].pc \in {"preflight", "prepared"} -> "Preflighting"
    [] handler[h].pc = "show" -> "AwaitingConfirmation"
    [] handler[h].pc = "sync" -> "DNSSyncRunning"
    [] OTHER -> handler[h].state

\* The map: a wizard is in it once, and none that was cleared or never begun.
MapInv ==
  /\ \A u, v \in Users : sessions[u] # NoNonce /\ sessions[u] = sessions[v] => u = v
  /\ \A u \in Users : sessions[u] # NoNonce => wiz[sessions[u]].state \notin {"none", "cleared"}
  /\ phase \in {"closed", "exited"} =>
       /\ \A u \in Users : sessions[u] = NoNonce
       /\ \A h \in Handlers : handler[h].pc = "idle"

\* A wizard, its flags, and who is to settle it.
WizardInv(n) ==
  /\ wiz[n].state = "none" => uses[n] = 0
  /\ wiz[n].prepared <=> wiz[n].state = "AwaitingConfirmation"
  /\ wiz[n].secret <=> \/ wiz[n].state \in {"Preflighting", "AwaitingConfirmation"}
                       \/ wiz[n].state \in PasswordStates /\ ~InMap(n)
  /\ ~InMap(n) /\ wiz[n].state \notin {"none", "cleared"} =>
       worker[n] # "none" \/ InHand(n, Taken)
  /\ worker[n] # "none" =>
       ~InMap(n) /\ wiz[n].state \in {"AwaitingConfirmation"} \cup PasswordStates
  /\ worker[n] = "deploy" => wiz[n].state = "AwaitingConfirmation"
  /\ worker[n] = "server" => wiz[n].state \in PasswordStates
  /\ uses[n] <= 1
  /\ uses[n] = 1 => \/ wiz[n].state \in {"cleared", "DNSSyncRunning", "DNSSyncCompleted"}
                    \/ worker[n] = "running"
                    \/ InHand(n, {"replace"})
  /\ cancelling[n] # {} => wiz[n].state = "cleared" /\ deps[n] # "handed"
  /\ deps[n] # "none" => wiz[n].state \in {"Preflighting", "AwaitingConfirmation", "cleared"}
  /\ deps[n] = "handed" => worker[n] = "running" \/ wiz[n].state = "cleared"

\* What a handler knows of the session it works with.
HandlerInv(h) ==
  LET n == handler[h].nonce  u == handler[h].user  pc == handler[h].pc IN
  /\ pc = "begin" => u \in Users /\ sessions[u] = NoNonce
  /\ pc \in Found \cup Taken =>
       /\ u \in Users /\ n \in Nonces
       /\ worker[n] = "none" /\ wiz[n].state # "none"
       /\ \A v \in Users \ {u} : sessions[v] # n
  /\ pc \in Found => \/ wiz[n].state = "cleared" /\ sessions[u] = NoNonce
                     \/ wiz[n].state = Expected(h) /\ sessions[u] = n
  /\ pc \in Taken => sessions[u] = NoNonce
  /\ pc = "progress" => wiz[n].state = "AwaitingConfirmation"
  /\ pc = "status" => wiz[n].state \in PasswordStates
  /\ pc = "replace" => wiz[n].state = "AwaitingNewIP"
  /\ pc \in {"prepared", "show"} => deps[n] # "handed"
  /\ pc = "loaded" /\ handler[h].state = "SelectingPanel" =>
       cancelling[n] = {} /\ deps[n] = "none" /\ uses[n] = 0

\* NeverForgotten, of one deployment.
Remembered(n) ==
  deps[n] = "prepared" =>
    \/ InMap(n) /\ wiz[n].prepared
    \/ InHand(n, {"prepared", "show", "progress"})
    \/ worker[n] = "deploy"
    \/ cancelling[n] # {}

SessionsInv ==
  /\ SessionsTypeOK
  /\ MapInv
  /\ \A n \in Nonces : WizardInv(n) /\ Remembered(n)
  /\ \A h \in Handlers : HandlerInv(h)

Wizards ==
  [state : WizardStates, due : BOOLEAN, secret : BOOLEAN, prepared : BOOLEAN, shown : BOOLEAN]
HandlerPCs ==
  {"idle", "cancel", "begin", "begun", "loaded", "card", "preflight",
   "prepared", "show", "progress", "status", "replace", "sync"}
HandlerRecords ==
  [pc : HandlerPCs, user : Users \cup {NoUser}, nonce : Nonces \cup {NoNonce},
   state : WizardStates \cup {"run", "timer"}]

\* A step that has nothing to do with the wizard n.
Untouched(n) ==
  /\ wiz'[n] = wiz[n] /\ worker'[n] = worker[n] /\ cancelling'[n] = cancelling[n]
  /\ deps'[n] = deps[n] /\ uses'[n] = uses[n]
  /\ InMap(n)' <=> InMap(n)
  /\ InHand(n, Taken)' <=> InHand(n, Taken)
  /\ InHand(n, {"replace"})' <=> InHand(n, {"replace"})
  /\ InHand(n, {"prepared", "show", "progress"})' <=> InHand(n, {"prepared", "show", "progress"})

\* The handler has returned, or waits for a CancelDeployment of its own.
AtRest(h) == handler[h].pc \in {"idle", "cancel"}

(***************************************************************************)
(* Facts about the states of a wizard.                                      *)
(***************************************************************************)
\* The special states are states, and so is what a begin* sets.
LEMMA SpecialStates ==
  /\ {"none", "cleared", "Preflighting", "AwaitingConfirmation", "DNSSyncRunning",
      "DNSSyncCompleted", "SelectingHost"} \subseteq WizardStates
  /\ FirstStates \subseteq WizardStates
  /\ FirstStates \cap ({"none", "cleared", "Preflighting", "AwaitingConfirmation",
                        "DNSSyncRunning"} \cup PasswordStates) = {}
<1>1. {"none", "cleared", "Preflighting", "AwaitingConfirmation", "DNSSyncRunning",
       "DNSSyncCompleted"} \subseteq WizardStates
  BY DEF WizardStates
<1>2. FirstStates \subseteq WizardStates
  BY DEF WizardStates
<1>3. "SelectingHost" \in FirstStates
  BY DEF FirstStates, beginAddNode
<1>4. FirstStates = {"SelectingPanel", "SelectingHost", "SelectingIPMode", "AwaitingNodeSearch",
                     "SelectingNodeMoveHost", "AwaitingIPChangeConfirmation", "AwaitingServerNewIP"}
  BY DEF FirstStates, beginAddNode, beginIPChange, beginNodeSearch, beginNodeHostMove,
         beginNodeCardPanelIPChange, beginNodeCardServerIPChange
<1> QED
  BY <1>1, <1>2, <1>3, <1>4 DEF PasswordStates

\* The simple moves stay away from the states that own something.
LEMMA MoveFacts ==
  ASSUME NEW m \in Moves
  PROVE  /\ m[2] \in WizardStates
         /\ m[1] \notin {"none", "cleared", "Preflighting", "AwaitingConfirmation",
                         "DNSSyncRunning", "DNSSyncCompleted"} \cup PasswordStates
         /\ m[2] \notin {"none", "cleared", "Preflighting", "AwaitingConfirmation", "SelectingPanel",
                         "DNSSyncRunning", "DNSSyncCompleted"}
<1>1. m[2] \in WizardStates
  BY DEF WizardStates
<1> DEFINE Apart(p) ==
      /\ p[1] \notin {"none", "cleared", "Preflighting", "AwaitingConfirmation",
                      "DNSSyncRunning", "DNSSyncCompleted"} \cup PasswordStates
      /\ p[2] \notin {"none", "cleared", "Preflighting", "AwaitingConfirmation", "SelectingPanel",
                      "DNSSyncRunning", "DNSSyncCompleted"}
<1>2. \A p \in handleCallback : Apart(p)
  BY DEF handleCallback, PasswordStates
<1>3. \A p \in beginPanelIPChange \cup beginServerIPScope : Apart(p)
  BY DEF beginPanelIPChange, beginServerIPScope, PasswordStates
<1>4. \A p \in beginDNSSync \cup beginServerNodeIPChange : Apart(p)
  BY DEF beginDNSSync, beginServerNodeIPChange, PasswordStates
<1>5. \A p \in acceptNodeName \cup acceptVPSIP \cup acceptIPChangeQuery \cup acceptDNSSyncQuery : Apart(p)
  BY DEF acceptNodeName, acceptVPSIP, acceptIPChangeQuery, acceptDNSSyncQuery, PasswordStates
<1>6. \A p \in acceptServerCurrentIP \cup acceptServerIPNodeQuery \cup acceptServerNewIP : Apart(p)
  BY DEF acceptServerCurrentIP, acceptServerIPNodeQuery, acceptServerNewIP, PasswordStates
<1> HIDE DEF Apart
<1>7. Apart(m)
  BY <1>2, <1>3, <1>4, <1>5, <1>6 DEF Moves
<1> QED
  BY <1>1, <1>7 DEF Apart

(***************************************************************************)
(* What the critical sections do to the map, the wizards and the calls.     *)
(***************************************************************************)
\* The types, in the names used here.
LEMMA TypeFacts ==
  ASSUME SessionsInv
  PROVE  /\ sessions \in [Users -> Nonces \cup {NoNonce}]
         /\ wiz \in [Nonces -> Wizards]
         /\ handler \in [Handlers -> HandlerRecords]
         /\ worker \in [Nonces -> {"none", "deploy", "server", "running"}]
         /\ cancelling \in [Nonces -> SUBSET {"run", "timer", "close"}]
         /\ deps \in [Nonces -> {"none", "prepared", "handed", "cancelled", "refused", "lost"}]
         /\ uses \in [Nonces -> Nat]
         /\ phase \in {"run", "stopping", "closed", "exited"}
BY DEF SessionsInv, SessionsTypeOK, Wizards, HandlerRecords, HandlerPCs

\* A wizard that is cleared.
LEMMA ClearedFacts ==
  ASSUME SessionsInv, NEW n \in Nonces, wiz' = Cleared(n)
  PROVE  /\ wiz' \in [Nonces -> Wizards]
         /\ wiz'[n].state = "cleared" /\ wiz'[n].prepared = FALSE /\ wiz'[n].secret = FALSE
         /\ \A k \in Nonces \ {n} : wiz'[k] = wiz[k]
<1> DEFINE new == [Unused EXCEPT !.state = "cleared"]
<1>1. wiz \in [Nonces -> Wizards]
  BY TypeFacts
<1>2. "cleared" \in WizardStates
  BY SpecialStates
<1>3. /\ new \in Wizards /\ new.state = "cleared" /\ new.prepared = FALSE /\ new.secret = FALSE
  BY <1>2 DEF Unused, Wizards
<1>4. wiz' = [wiz EXCEPT ![n] = new]
  BY DEF Cleared
<1> HIDE DEF new
<1> QED
  BY <1>1, <1>3, <1>4

\* A session that leaves the map: nobody else has its wizard.
LEMMA GoneFacts ==
  ASSUME SessionsInv, NEW u \in Users, NEW n \in Nonces, sessions[u] = n, sessions' = Gone(u)
  PROVE  /\ sessions' \in [Users -> Nonces \cup {NoNonce}]
         /\ sessions'[u] = NoNonce
         /\ \A v \in Users \ {u} : sessions'[v] = sessions[v] /\ sessions[v] # n
         /\ InMap(n) /\ ~InMap(n)'
         /\ \A k \in Nonces \ {n} : InMap(k)' <=> InMap(k)
<1>1. sessions \in [Users -> Nonces \cup {NoNonce}] /\ NoNonce \notin Nonces
  BY TypeFacts, SessionsAssumption
<1>2. \A v \in Users \ {u} : sessions[v] # n
  BY <1>1 DEF SessionsInv, MapInv
<1>3. /\ sessions' \in [Users -> Nonces \cup {NoNonce}]
      /\ sessions'[u] = NoNonce
      /\ \A v \in Users \ {u} : sessions'[v] = sessions[v]
  BY <1>1 DEF Gone
<1>4. InMap(n) /\ ~InMap(n)'
  BY <1>1, <1>2, <1>3 DEF InMap
<1>5. ASSUME NEW k \in Nonces \ {n} PROVE InMap(k)' <=> InMap(k)
  BY <1>1, <1>2, <1>3 DEF InMap
<1> QED
  BY <1>2, <1>3, <1>4, <1>5

\* A call of CancelDeployment, made where there is something to cancel.
LEMMA CallingFacts ==
  ASSUME SessionsInv, NEW n \in Nonces, NEW c \in {"run", "timer"}, cancelling' = Calling(n, c)
  PROVE  /\ cancelling' \in [Nonces -> SUBSET {"run", "timer", "close"}]
         /\ wiz[n].prepared => cancelling'[n] # {}
         /\ ~wiz[n].prepared => cancelling'[n] = cancelling[n]
         /\ \A k \in Nonces \ {n} : cancelling'[k] = cancelling[k]
<1>1. cancelling \in [Nonces -> SUBSET {"run", "timer", "close"}]
  BY TypeFacts
<1> QED
  BY <1>1 DEF Calling

(***************************************************************************)
(* How the parts of the invariant are put together.                         *)
(***************************************************************************)
\* The single handler is the only one that can have a wizard in hand.
LEMMA HandFacts ==
  ASSUME NEW h, Handlers = {h}, NEW n, NEW S
  PROVE  /\ InHand(n, S) <=> handler[h].nonce = n /\ handler[h].pc \in S
         /\ InHand(n, S)' <=> handler'[h].nonce = n /\ handler'[h].pc \in S
BY DEF InHand

\* A wizard a step has nothing to do with stays settled.
LEMMA UntouchedInv ==
  ASSUME NEW n \in Nonces, WizardInv(n), Remembered(n), Untouched(n)
  PROVE  WizardInv(n)' /\ Remembered(n)'
BY DEF WizardInv, Remembered, Untouched

\* The invariant holds after a step that touches at most the wizard m.
LEMMA FromParts ==
  ASSUME SessionsInv, NEW h, Handlers = {h}, NEW m,
         sessions' \in [Users -> Nonces \cup {NoNonce}],
         wiz' \in [Nonces -> Wizards],
         handler' \in [Handlers -> HandlerRecords],
         worker' \in [Nonces -> {"none", "deploy", "server", "running"}],
         cancelling' \in [Nonces -> SUBSET {"run", "timer", "close"}],
         deps' \in [Nonces -> {"none", "prepared", "handed", "cancelled", "refused", "lost"}],
         uses' \in [Nonces -> Nat],
         phase' \in {"run", "stopping", "closed", "exited"},
         MapInv', HandlerInv(h)',
         \A n \in Nonces \ {m} : Untouched(n),
         m \in Nonces => WizardInv(m)' /\ Remembered(m)'
  PROVE  SessionsInv'
<1>1. SessionsTypeOK'
  BY DEF SessionsTypeOK, Wizards, HandlerRecords, HandlerPCs
<1>2. ASSUME NEW n \in Nonces PROVE WizardInv(n)' /\ Remembered(n)'
  <2>1. CASE n = m
    BY <2>1
  <2>2. CASE n # m
    <3>1. WizardInv(n) /\ Remembered(n)
      BY DEF SessionsInv
    <3> QED
      BY <2>2, <3>1, UntouchedInv
  <2> QED
    BY <2>1, <2>2
<1>3. \A g \in Handlers : HandlerInv(g)'
  OBVIOUS
<1> QED
  BY <1>1, <1>2, <1>3 DEF SessionsInv

\* What a step of the handler leaves alone: only its own wizard can change.
LEMMA StepUntouched ==
  ASSUME SessionsInv, NEW h, Handlers = {h}, NEW m, NEW n \in Nonces, n # m,
         handler[h].nonce = m \/ handler[h].pc \notin Taken \cup {"prepared", "show"},
         handler'[h].nonce = m \/ handler'[h].pc \notin Taken \cup {"prepared", "show"},
         wiz'[n] = wiz[n], worker'[n] = worker[n], cancelling'[n] = cancelling[n],
         deps'[n] = deps[n], uses'[n] = uses[n], InMap(n)' <=> InMap(n)
  PROVE  Untouched(n)
<1>1. /\ ~InHand(n, Taken) /\ ~InHand(n, Taken)'
      /\ ~InHand(n, {"replace"}) /\ ~InHand(n, {"replace"})'
      /\ ~InHand(n, {"prepared", "show", "progress"}) /\ ~InHand(n, {"prepared", "show", "progress"})'
  BY HandFacts DEF Taken
<1> QED
  BY <1>1 DEF Untouched

(***************************************************************************)
(* The kinds of step.                                                       *)
(***************************************************************************)
\* A session is dropped from the map and its wizard cleared, by the handler
\* that works with it, by one that begins another, or by its timer. What was
\* prepared for it is being cancelled afterwards.
LEMMA DropInv ==
  ASSUME SessionsInv, NEW h, Handlers = {h}, NEW u \in Users, NEW n \in Nonces,
         sessions[u] = n, sessions' = Gone(u), wiz' = Cleared(n),
         cancelling' \in [Nonces -> SUBSET {"run", "timer", "close"}],
         \A k \in Nonces \ {n} : cancelling'[k] = cancelling[k],
         wiz[n].prepared => cancelling'[n] # {},
         handler' \in [Handlers -> HandlerRecords],
         \/ handler'[h] = handler[h] /\ (~wiz[n].prepared => cancelling'[n] = cancelling[n])
         \/ /\ handler[h].nonce = n \/ handler[h].pc = "idle"
            /\ handler[h].pc = "prepared" => cancelling'[n] # {}
            /\ AtRest(h)' \/ (handler'[h].pc = "begin" /\ handler'[h].user = u),
         UNCHANGED <<worker, deps, uses, phase>>
  PROVE  SessionsInv'
<1>1. /\ sessions \in [Users -> Nonces \cup {NoNonce}] /\ NoNonce \notin Nonces
      /\ wiz \in [Nonces -> Wizards] /\ handler \in [Handlers -> HandlerRecords]
      /\ worker \in [Nonces -> {"none", "deploy", "server", "running"}]
      /\ deps \in [Nonces -> {"none", "prepared", "handed", "cancelled", "refused", "lost"}]
      /\ uses \in [Nonces -> Nat]
      /\ phase \in {"run", "stopping", "closed", "exited"}
  BY TypeFacts, SessionsAssumption
<1>2. /\ wiz' \in [Nonces -> Wizards]
      /\ wiz'[n].state = "cleared" /\ wiz'[n].prepared = FALSE /\ wiz'[n].secret = FALSE
      /\ \A k \in Nonces \ {n} : wiz'[k] = wiz[k]
  BY ClearedFacts
<1>3. /\ sessions' \in [Users -> Nonces \cup {NoNonce}]
      /\ sessions'[u] = NoNonce
      /\ \A v \in Users \ {u} : sessions'[v] = sessions[v] /\ sessions[v] # n
      /\ InMap(n) /\ ~InMap(n)'
      /\ \A k \in Nonces \ {n} : InMap(k)' <=> InMap(k)
  BY GoneFacts
<1>4. /\ wiz[n].state \notin {"none", "cleared"} /\ phase \in {"run", "stopping"}
      /\ \A v, w \in Users : sessions[v] # NoNonce /\ sessions[v] = sessions[w] => v = w
      /\ \A v \in Users : sessions[v] # NoNonce => wiz[sessions[v]].state \notin {"none", "cleared"}
  BY <1>1 DEF SessionsInv, MapInv
<1>5. WizardInv(n) /\ Remembered(n) /\ HandlerInv(h)
  BY DEF SessionsInv
<1>6. worker[n] = "none" /\ deps[n] # "handed"
  BY <1>3, <1>4, <1>5 DEF WizardInv
<1>7. ASSUME handler[h].nonce = n, handler[h].pc \in Found \cup Taken
      PROVE  /\ handler[h].user = u /\ handler[h].pc \in Found
             /\ wiz[n].state = Expected(h)
  <2>1. handler[h].user = u
    BY <1>7, <1>5, <1>3 DEF HandlerInv
  <2>2. handler[h].pc \in Found
    BY <1>7, <1>5, <1>1, <2>1 DEF HandlerInv
  <2> QED
    BY <1>7, <1>5, <2>1, <2>2, <1>4 DEF HandlerInv
<1>8. MapInv'
  <2>1. \A v, w \in Users : sessions'[v] # NoNonce /\ sessions'[v] = sessions'[w] => v = w
    BY <1>3, <1>4
  <2>2. \A v \in Users : sessions'[v] # NoNonce => wiz'[sessions'[v]].state \notin {"none", "cleared"}
    BY <1>1, <1>2, <1>3, <1>4
  <2>3. phase' \in {"run", "stopping"}
    BY <1>4
  <2> QED
    BY <2>1, <2>2, <2>3 DEF MapInv
<1>9. WizardInv(n)'
  BY <1>2, <1>3, <1>5, <1>6 DEF WizardInv, PasswordStates
<1>10. Remembered(n)'
  <2>1. SUFFICES ASSUME deps[n] = "prepared", cancelling'[n] = {}
                 PROVE  InHand(n, {"prepared", "show", "progress"})'
    BY DEF Remembered
  <2>2. ~wiz[n].prepared /\ cancelling[n] = {}
    BY <2>1, <1>5, <1>4 DEF WizardInv
  <2>3. InHand(n, {"prepared", "show", "progress"})
    BY <2>1, <2>2, <1>5, <1>6 DEF Remembered
  <2>4. handler[h].nonce = n /\ handler[h].pc \in {"prepared", "show", "progress"}
    BY <2>3, HandFacts
  <2>5. handler[h].pc \in Found /\ wiz[n].state = Expected(h)
    BY <2>4, <1>7 DEF Found, Taken
  <2>6. handler[h].pc = "prepared"
    <3>1. handler[h].pc # "progress"
      BY <2>5 DEF Found
    <3>2. ASSUME handler[h].pc = "show" PROVE FALSE
      <4>1. wiz[n].state = "AwaitingConfirmation"
        BY <3>2, <2>5 DEF Expected
      <4> QED
        BY <4>1, <2>2, <1>5 DEF WizardInv
    <3> QED
      BY <3>1, <3>2, <2>4
  <2>7. handler'[h] = handler[h]
    BY <2>6, <2>1
  <2> QED
    BY <2>4, <2>7, HandFacts
<1>11. HandlerInv(h)'
  <2>1. CASE AtRest(h)'
    BY <2>1 DEF AtRest, HandlerInv, Found, Taken
  <2>2. CASE handler'[h].pc = "begin" /\ handler'[h].user = u
    BY <2>2, <1>3 DEF HandlerInv, Found, Taken
  <2>3. CASE handler'[h] = handler[h] /\ (~wiz[n].prepared => cancelling'[n] = cancelling[n])
    <3> DEFINE k == handler[h].nonce  w == handler[h].user  pc == handler[h].pc
    <3>1. Expected(h)' = Expected(h)
      BY <2>3 DEF Expected
    <3>2. pc = "begin" => w \in Users /\ sessions'[w] = NoNonce
      BY <1>5, <1>3 DEF HandlerInv
    <3>3. pc \in Found \cup Taken => w \in Users /\ k \in Nonces /\ worker[k] = "none" /\ wiz[k].state # "none"
                                       /\ \A v \in Users \ {w} : sessions[v] # k
      BY <1>5 DEF HandlerInv
    <3>4. pc \in Found \cup Taken => /\ wiz'[k].state # "none"
                                     /\ \A v \in Users \ {w} : sessions'[v] # k
      BY <3>3, <1>1, <1>2, <1>3
    <3>5. pc \in Found => \/ wiz'[k].state = "cleared" /\ sessions'[w] = NoNonce
                          \/ wiz'[k].state = Expected(h) /\ sessions'[w] = k
      <4>1. CASE k = n
        BY <4>1, <1>7, <1>2, <1>3
      <4>2. CASE k # n
        BY <4>2, <3>3, <1>5, <1>2, <1>3, <1>1 DEF HandlerInv
      <4> QED
        BY <4>1, <4>2
    <3>6. pc \in Taken => k # n
      BY <1>7, <3>3 DEF Found, Taken
    <3>7. pc \in Taken => sessions'[w] = NoNonce /\ wiz'[k] = wiz[k]
      BY <3>3, <3>6, <1>5, <1>2, <1>3 DEF HandlerInv
    <3>8. pc = "loaded" /\ handler[h].state = "SelectingPanel" => cancelling'[k] = cancelling[k]
      <4>1. SUFFICES ASSUME pc = "loaded", handler[h].state = "SelectingPanel", k = n
                     PROVE  ~wiz[n].prepared
        BY <3>3, <2>3 DEF Found
      <4>2. wiz[n].state = "SelectingPanel"
        BY <4>1, <1>7 DEF Found, Expected
      <4> QED
        BY <4>2, <1>5 DEF WizardInv
    <3>9. /\ pc = "progress" => wiz[k].state = "AwaitingConfirmation"
          /\ pc = "status" => wiz[k].state \in PasswordStates
          /\ pc = "replace" => wiz[k].state = "AwaitingNewIP"
          /\ pc \in {"prepared", "show"} => deps[k] # "handed"
          /\ pc = "loaded" /\ handler[h].state = "SelectingPanel" =>
               cancelling[k] = {} /\ deps[k] = "none" /\ uses[k] = 0
      BY <1>5 DEF HandlerInv
    <3> HIDE DEF k, w, pc
    <3>10. k = handler'[h].nonce /\ w = handler'[h].user /\ pc = handler'[h].pc
      BY <2>3 DEF k, w, pc
    <3> QED
      BY <2>3, <3>1, <3>2, <3>3, <3>4, <3>5, <3>7, <3>8, <3>9, <3>10 DEF HandlerInv, Found, Taken
  <2> QED
    BY <2>1, <2>2, <2>3
<1>12. ASSUME NEW k \in Nonces \ {n} PROVE Untouched(k)
  <2>1. CASE handler'[h] = handler[h]
    <3>1. /\ InHand(k, Taken)' <=> InHand(k, Taken)
          /\ InHand(k, {"replace"})' <=> InHand(k, {"replace"})
          /\ InHand(k, {"prepared", "show", "progress"})' <=> InHand(k, {"prepared", "show", "progress"})
      BY <2>1, HandFacts
    <3> QED
      BY <3>1, <1>2, <1>3 DEF Untouched
  <2>2. CASE handler'[h] # handler[h]
    <3>1. /\ handler[h].nonce = n \/ handler[h].pc \notin Taken \cup {"prepared", "show"}
          /\ handler'[h].pc \notin Taken \cup {"prepared", "show"}
      BY <2>2 DEF AtRest, Taken
    <3>2. /\ wiz'[k] = wiz[k] /\ worker'[k] = worker[k] /\ cancelling'[k] = cancelling[k]
          /\ deps'[k] = deps[k] /\ uses'[k] = uses[k] /\ (InMap(k)' <=> InMap(k))
      BY <1>2, <1>3
    <3> QED
      BY <3>1, <3>2, StepUntouched
  <2> QED
    BY <2>1, <2>2
<1> HIDE DEF Untouched
<1>13. /\ worker' \in [Nonces -> {"none", "deploy", "server", "running"}]
       /\ deps' \in [Nonces -> {"none", "prepared", "handed", "cancelled", "refused", "lost"}]
       /\ uses' \in [Nonces -> Nat]
       /\ phase' \in {"run", "stopping", "closed", "exited"}
  BY <1>1
<1> QED
  BY <1>2, <1>3, <1>8, <1>9, <1>10, <1>11, <1>12, <1>13, FromParts


\* The handler returns and leaves the map and the wizards as they are. It has
\* nothing in hand, or makes sure that what it has prepared is being cancelled.
LEMMA RestInv ==
  ASSUME SessionsInv, NEW h, Handlers = {h}, NEW m, m = handler[h].nonce,
         handler[h].pc \notin Taken \cup {"idle"},
         cancelling' \in [Nonces -> SUBSET {"run", "timer", "close"}],
         \A k \in Nonces \ {m} : cancelling'[k] = cancelling[k],
         m \in Nonces => \/ /\ cancelling'[m] = cancelling[m]
                            /\ handler[h].pc \notin {"prepared", "show"}
                         \/ /\ wiz[m].state = "cleared" /\ deps[m] # "handed"
                            /\ cancelling'[m] # {},
         handler' \in [Handlers -> HandlerRecords], AtRest(h)',
         UNCHANGED <<sessions, wiz, worker, deps, uses, phase>>
  PROVE  SessionsInv'
<1>1. /\ sessions' \in [Users -> Nonces \cup {NoNonce}] /\ wiz' \in [Nonces -> Wizards]
      /\ worker' \in [Nonces -> {"none", "deploy", "server", "running"}]
      /\ deps' \in [Nonces -> {"none", "prepared", "handed", "cancelled", "refused", "lost"}]
      /\ uses' \in [Nonces -> Nat]
      /\ phase' \in {"run", "stopping", "closed", "exited"}
  BY TypeFacts
<1>2. MapInv'
  BY DEF SessionsInv, MapInv
<1>3. HandlerInv(h)'
  BY DEF AtRest, HandlerInv, Found, Taken
<1>4. \A k \in Nonces : InMap(k)' <=> InMap(k)
  BY DEF InMap
<1>5. ASSUME NEW k \in Nonces \ {m} PROVE Untouched(k)
  BY <1>4, StepUntouched DEF AtRest, Taken
<1>6. ASSUME m \in Nonces PROVE WizardInv(m)' /\ Remembered(m)'
  <2>1. WizardInv(m) /\ Remembered(m)
    BY <1>6 DEF SessionsInv
  <2>2. /\ ~InHand(m, Taken) /\ ~InHand(m, Taken)'
        /\ ~InHand(m, {"replace"}) /\ ~InHand(m, {"replace"})'
    BY HandFacts DEF Taken, AtRest
  <2>3. WizardInv(m)'
    BY <1>6, <2>1, <2>2, <1>4 DEF WizardInv
  <2>4. cancelling'[m] = {} => ~InHand(m, {"prepared", "show", "progress"})
    BY <1>6, HandFacts DEF Taken
  <2>5. cancelling'[m] = {} => cancelling[m] = {}
    BY <1>6
  <2>6. Remembered(m)'
    BY <1>6, <2>1, <2>4, <2>5, <1>4 DEF Remembered
  <2> QED
    BY <2>3, <2>6
<1> HIDE DEF Untouched
<1> QED
  BY <1>1, <1>2, <1>3, <1>5, <1>6, FromParts

(***************************************************************************)
(* The pieces the handlers are made of.                                     *)
(***************************************************************************)
\* A handler that returns, at once or when its call does.
LEMMA ReturnFacts ==
  ASSUME SessionsInv, NEW h \in Handlers,
         \/ Return(h)
         \/ \E n \in Nonces, c \in {"run", "timer"} : ReturnAfter(h, n, c)
  PROVE  handler' \in [Handlers -> HandlerRecords] /\ AtRest(h)'
<1>1. handler \in [Handlers -> HandlerRecords]
  BY TypeFacts
<1>2. "none" \in WizardStates
  BY SpecialStates
<1>3. Idle \in HandlerRecords /\ Idle.pc = "idle"
  BY <1>2 DEF Idle, HandlerRecords, HandlerPCs
<1>4. CASE Return(h)
  BY <1>1, <1>3, <1>4 DEF Return, AtRest
<1>5. ASSUME NEW n \in Nonces, NEW c \in {"run", "timer"}, ReturnAfter(h, n, c)
      PROVE  handler' \in [Handlers -> HandlerRecords] /\ AtRest(h)'
  <2> DEFINE waits == [handler[h] EXCEPT !.pc = "cancel", !.nonce = n, !.state = c]
  <2>1. handler[h] \in HandlerRecords
    BY <1>1
  <2>2. waits \in HandlerRecords /\ waits.pc = "cancel"
    BY <2>1 DEF HandlerRecords, HandlerPCs
  <2>3. \/ handler' = [handler EXCEPT ![h] = Idle]
        \/ handler' = [handler EXCEPT ![h] = waits]
    BY <1>1, <1>5 DEF ReturnAfter
  <2> HIDE DEF waits
  <2> QED
    BY <1>1, <1>3, <2>2, <2>3 DEF AtRest
<1> QED
  BY <1>4, <1>5

\* A handler that goes on to another call.
LEMMA NowFacts ==
  ASSUME SessionsInv, NEW h \in Handlers, NEW pc \in HandlerPCs, Now(h, pc)
  PROVE  /\ handler' \in [Handlers -> HandlerRecords]
         /\ handler'[h].pc = pc /\ handler'[h].nonce = handler[h].nonce
         /\ handler'[h].user = handler[h].user /\ handler'[h].state = handler[h].state
<1> DEFINE new == [handler[h] EXCEPT !.pc = pc]
<1>1. handler \in [Handlers -> HandlerRecords]
  BY TypeFacts
<1>2. handler[h] \in HandlerRecords
  BY <1>1
<1>3. /\ new \in HandlerRecords
      /\ new.pc = pc /\ new.nonce = handler[h].nonce /\ new.user = handler[h].user
      /\ new.state = handler[h].state
  BY <1>2 DEF HandlerRecords
<1>4. handler' = [handler EXCEPT ![h] = new]
  BY <1>1 DEF Now
<1> HIDE DEF new
<1> QED
  BY <1>1, <1>3, <1>4

\* The session a handler works with is its operator's, or is gone.
LEMMA FoundFacts ==
  ASSUME SessionsInv, NEW h \in Handlers, handler[h].pc \in Found
  PROVE  /\ handler[h].nonce \in Nonces /\ handler[h].user \in Users
         /\ sessions[handler[h].user] \in {handler[h].nonce, NoNonce}
         /\ worker[handler[h].nonce] = "none"
         /\ \/ wiz[handler[h].nonce].state = "cleared"
            \/ wiz[handler[h].nonce].state = Expected(h) /\ sessions[handler[h].user] = handler[h].nonce
         /\ NoNonce \notin Nonces
BY SessionsAssumption DEF SessionsInv, HandlerInv

\* A guarded access that misses, and the handler returns.
LEMMA MissedInv ==
  ASSUME SessionsInv, NEW h, Handlers = {h},
         handler[h].pc \in {"begun", "loaded", "card", "preflight", "sync"},
         Missed(handler[h].user),
         handler' \in [Handlers -> HandlerRecords], AtRest(h)',
         UNCHANGED <<worker, deps, uses, phase>>
  PROVE  SessionsInv'
<1> DEFINE u == handler[h].user
           n == handler[h].nonce
<1>1. handler[h].pc \in Found /\ handler[h].pc \notin Taken
  BY DEF Found, Taken
<1>2. n \in Nonces /\ u \in Users /\ sessions[u] \in {n, NoNonce}
  BY <1>1, FoundFacts
<1>3. CASE Due(u)
  <2>1. sessions[u] = n
    BY <1>2, <1>3 DEF Due
  <2>2. sessions' = Gone(u) /\ wiz' = Cleared(n) /\ cancelling' = Calling(n, "timer")
    BY <1>3, <2>1 DEF Missed, Expire
  <2>3. /\ cancelling' \in [Nonces -> SUBSET {"run", "timer", "close"}]
        /\ wiz[n].prepared => cancelling'[n] # {}
        /\ \A k \in Nonces \ {n} : cancelling'[k] = cancelling[k]
    BY <1>2, <2>2, CallingFacts
  <2> HIDE DEF u, n
  <2>4. handler[h].nonce = n /\ handler[h].pc # "prepared"
    BY DEF n
  <2> QED
    BY <1>2, <2>1, <2>2, <2>3, <2>4, DropInv
<1>4. CASE ~Due(u)
  <2>1. UNCHANGED <<sessions, wiz, cancelling>>
    BY <1>4 DEF Missed
  <2>2. cancelling' \in [Nonces -> SUBSET {"run", "timer", "close"}]
    BY <2>1, TypeFacts
  <2> QED
    BY <1>1, <1>2, <2>1, <2>2, RestInv
<1> QED
  BY <1>3, <1>4

\* One that misses, and the handler cancels what it has prepared.
LEMMA MissedCancellingInv ==
  ASSUME SessionsInv, NEW h, Handlers = {h},
         handler[h].pc \in {"prepared", "show"},
         ~Live(handler[h].user, handler[h].nonce, Expected(h)),
         MissedCancelling(h, handler[h].user, handler[h].nonce),
         UNCHANGED <<worker, deps, uses, phase>>
  PROVE  SessionsInv'
<1> DEFINE u == handler[h].user
           n == handler[h].nonce
<1>1. handler[h].pc \in Found /\ handler[h].pc \notin Taken
  BY DEF Found, Taken
<1>2. /\ n \in Nonces /\ u \in Users /\ sessions[u] \in {n, NoNonce} /\ NoNonce \notin Nonces
      /\ wiz[n].state = "cleared" \/ (wiz[n].state = Expected(h) /\ sessions[u] = n)
  BY <1>1, FoundFacts
<1>3. deps[n] # "handed"
  BY DEF SessionsInv, HandlerInv
<1>4. handler' \in [Handlers -> HandlerRecords] /\ AtRest(h)'
  BY <1>2, ReturnFacts DEF MissedCancelling
<1>5. cancelling \in [Nonces -> SUBSET {"run", "timer", "close"}]
  BY TypeFacts
<1>6. CASE Due(u)
  <2>1. sessions[u] = n
    BY <1>2, <1>6 DEF Due
  <2>2. sessions' = Gone(u) /\ wiz' = Cleared(n)
        /\ cancelling' = [Calling(n, "timer") EXCEPT ![n] = @ \cup {"run"}]
    BY <1>6, <2>1 DEF MissedCancelling
  <2>3. Calling(n, "timer") \in [Nonces -> SUBSET {"run", "timer", "close"}]
        /\ \A k \in Nonces \ {n} : Calling(n, "timer")[k] = cancelling[k]
    BY <1>2, <1>5 DEF Calling
  <2>4. /\ cancelling' \in [Nonces -> SUBSET {"run", "timer", "close"}]
        /\ cancelling'[n] # {}
        /\ \A k \in Nonces \ {n} : cancelling'[k] = cancelling[k]
    BY <1>2, <2>2, <2>3
  <2> HIDE DEF u, n
  <2>5. handler[h].nonce = n
    BY DEF n
  <2> QED
    BY <1>2, <1>4, <2>1, <2>2, <2>4, <2>5, DropInv
<1>7. CASE ~Due(u)
  <2>1. UNCHANGED <<sessions, wiz>> /\ cancelling' = [cancelling EXCEPT ![n] = @ \cup {"run"}]
    BY <1>7 DEF MissedCancelling
  <2>2. /\ cancelling' \in [Nonces -> SUBSET {"run", "timer", "close"}]
        /\ cancelling'[n] # {}
        /\ \A k \in Nonces \ {n} : cancelling'[k] = cancelling[k]
    BY <1>2, <1>5, <2>1
  <2>3. wiz[n].state = "cleared"
    BY <1>2, <1>7 DEF Due, Live
  <2> QED
    BY <1>1, <1>2, <1>3, <1>4, <2>1, <2>2, <2>3, RestInv
<1> QED
  BY <1>6, <1>7

\* The handler takes the session, clears the wizard and returns.
LEMMA TakeClearedInv ==
  ASSUME SessionsInv, NEW h, Handlers = {h},
         handler[h].pc \in Found \ {"prepared"}, NEW s,
         Take(handler[h].user, handler[h].nonce, s), wiz' = Cleared(handler[h].nonce),
         \/ cancelling' = Calling(handler[h].nonce, "run")
         \/ UNCHANGED cancelling /\ s # "AwaitingConfirmation",
         handler' \in [Handlers -> HandlerRecords], AtRest(h)',
         UNCHANGED <<worker, deps, uses, phase>>
  PROVE  SessionsInv'
<1> DEFINE u == handler[h].user
           n == handler[h].nonce
<1>1. n \in Nonces /\ u \in Users
  BY FoundFacts
<1>2. sessions[u] = n /\ sessions' = Gone(u) /\ wiz[n].state = s
  BY DEF Take, Live
<1>3. wiz[n].prepared => s = "AwaitingConfirmation"
  BY <1>1, <1>2 DEF SessionsInv, WizardInv
<1>4. /\ cancelling' \in [Nonces -> SUBSET {"run", "timer", "close"}]
      /\ wiz[n].prepared => cancelling'[n] # {}
      /\ \A k \in Nonces \ {n} : cancelling'[k] = cancelling[k]
  <2>1. CASE cancelling' = Calling(n, "run")
    BY <1>1, <2>1, CallingFacts
  <2>2. CASE UNCHANGED cancelling /\ s # "AwaitingConfirmation"
    BY <1>1, <1>3, <2>2, TypeFacts
  <2> QED
    BY <2>1, <2>2
<1> HIDE DEF u, n
<1>5. handler[h].nonce = n /\ wiz' = Cleared(n) /\ handler[h].pc # "prepared"
  BY DEF n
<1> QED
  BY <1>1, <1>2, <1>4, <1>5, DropInv

(***************************************************************************)
(* The steps of a handler.                                                  *)
(***************************************************************************)
\* The handler returns without having touched anything.
LEMMA PlainReturnInv ==
  ASSUME SessionsInv, NEW h, Handlers = {h},
         handler[h].pc \in {"cancel", "begin", "begun", "loaded", "card"}, Return(h),
         UNCHANGED <<sessions, wiz, worker, cancelling, deps, uses, phase>>
  PROVE  SessionsInv'
<1>1. handler' \in [Handlers -> HandlerRecords] /\ AtRest(h)'
  BY ReturnFacts
<1>2. cancelling' \in [Nonces -> SUBSET {"run", "timer", "close"}]
  BY TypeFacts
<1>3. handler[h].pc \notin Taken \cup {"idle", "prepared", "show"}
  BY DEF Taken
<1> QED
  BY <1>1, <1>2, <1>3, RestInv

\* Begin: the session the operator had is dropped first.
LEMMA BeginInv ==
  ASSUME SessionsInv, NEW h, Handlers = {h}, NEW u \in Users, Begin(h, u)
  PROVE  SessionsInv'
<1> DEFINE new == [Idle EXCEPT !.pc = "begin", !.user = u, !.nonce = sessions[u]]
<1>1. /\ handler \in [Handlers -> HandlerRecords] /\ sessions \in [Users -> Nonces \cup {NoNonce}]
      /\ sessions' = sessions => sessions' \in [Users -> Nonces \cup {NoNonce}]
      /\ wiz' = wiz => wiz' \in [Nonces -> Wizards]
      /\ cancelling' = cancelling => cancelling' \in [Nonces -> SUBSET {"run", "timer", "close"}]
      /\ worker' \in [Nonces -> {"none", "deploy", "server", "running"}]
      /\ deps' \in [Nonces -> {"none", "prepared", "handed", "cancelled", "refused", "lost"}]
      /\ uses' \in [Nonces -> Nat]
      /\ phase' \in {"run", "stopping", "closed", "exited"}
  BY TypeFacts DEF Begin
<1>2. "none" \in WizardStates /\ NoNonce \notin Nonces
  BY SpecialStates, SessionsAssumption
<1>3. new \in HandlerRecords /\ new.pc = "begin" /\ new.user = u
  BY <1>1, <1>2 DEF Idle, HandlerRecords, HandlerPCs
<1>4. handler' = [handler EXCEPT ![h] = new]
  BY DEF Begin
<1> HIDE DEF new
<1>5. /\ handler' \in [Handlers -> HandlerRecords]
      /\ handler'[h].pc = "begin" /\ handler'[h].user = u
  BY <1>1, <1>3, <1>4
<1>6. handler[h].pc = "idle" /\ phase \in {"run", "stopping"}
  BY DEF Begin, At
<1>7. CASE sessions[u] # NoNonce
  <2>1. sessions[u] \in Nonces
    BY <1>1, <1>7
  <2>2. /\ sessions' = Gone(u) /\ wiz' = Cleared(sessions[u])
        /\ cancelling' = Calling(sessions[u], "run")
        /\ UNCHANGED <<worker, deps, uses, phase>>
    BY <1>7 DEF Begin
  <2>3. /\ cancelling' \in [Nonces -> SUBSET {"run", "timer", "close"}]
        /\ wiz[sessions[u]].prepared => cancelling'[sessions[u]] # {}
        /\ \A k \in Nonces \ {sessions[u]} : cancelling'[k] = cancelling[k]
    BY <2>1, <2>2, CallingFacts
  <2> QED
    BY <1>5, <1>6, <2>1, <2>2, <2>3, DropInv
<1>8. CASE sessions[u] = NoNonce
  <2>1. UNCHANGED <<sessions, wiz, cancelling, worker, deps, uses, phase>>
    BY <1>8 DEF Begin
  <2>2. MapInv'
    BY <2>1, <1>6 DEF SessionsInv, MapInv
  <2>3. HandlerInv(h)'
    BY <1>5, <1>8, <2>1 DEF HandlerInv, Found, Taken
  <2>4. ASSUME NEW k \in Nonces PROVE Untouched(k)
    <3>1. InMap(k)' <=> InMap(k)
      BY <2>1 DEF InMap
    <3> QED
      BY <1>2, <1>5, <1>6, <2>1, <3>1, StepUntouched DEF Taken
  <2> QED
    BY <1>1, <1>2, <1>5, <2>1, <2>2, <2>3, <2>4, FromParts
<1> QED
  BY <1>7, <1>8

\* BeginSession: a nonce that was never used enters the map.
LEMMA BeginSessionInv ==
  ASSUME SessionsInv, NEW h, Handlers = {h}, BeginSession(h)
  PROVE  SessionsInv'
<1> DEFINE u == handler[h].user
<1>1. PICK n \in {m \in Nonces : wiz[m] = Unused}, s \in FirstStates :
       /\ PutSession(u, n, [Unused EXCEPT !.state = s,
            !.shown = s \in beginNodeSearch \cup beginNodeHostMove \cup beginNodeCardPanelIPChange])
       /\ handler' = [handler EXCEPT ![h] = [@ EXCEPT !.pc = "begun", !.nonce = n, !.state = s]]
  BY DEF BeginSession
<1> DEFINE shows == s \in beginNodeSearch \cup beginNodeHostMove \cup beginNodeCardPanelIPChange
           new == [Unused EXCEPT !.state = s, !.shown = shows]
           hand == [handler[h] EXCEPT !.pc = "begun", !.nonce = n, !.state = s]
<1>2. /\ handler \in [Handlers -> HandlerRecords] /\ sessions \in [Users -> Nonces \cup {NoNonce}]
      /\ wiz \in [Nonces -> Wizards] /\ uses \in [Nonces -> Nat] /\ NoNonce \notin Nonces
      /\ worker' \in [Nonces -> {"none", "deploy", "server", "running"}]
      /\ cancelling' \in [Nonces -> SUBSET {"run", "timer", "close"}]
      /\ deps' \in [Nonces -> {"none", "prepared", "handed", "cancelled", "refused", "lost"}]
      /\ uses' \in [Nonces -> Nat]
      /\ phase' \in {"run", "stopping", "closed", "exited"}
  BY TypeFacts, SessionsAssumption DEF BeginSession
<1>3. /\ s \in WizardStates
      /\ s \notin ({"none", "cleared", "Preflighting", "AwaitingConfirmation",
                    "DNSSyncRunning"} \cup PasswordStates)
  BY SpecialStates
<1>4. handler[h].pc = "begin" /\ UNCHANGED <<worker, cancelling, deps, uses, phase>>
  BY DEF BeginSession, At
<1>5. u \in Users /\ sessions[u] = NoNonce
  BY <1>4 DEF SessionsInv, HandlerInv
<1>6. /\ new \in Wizards /\ new.state = s /\ new.prepared = FALSE /\ new.secret = FALSE
  <2>1. shows \in BOOLEAN
    OBVIOUS
  <2> HIDE DEF shows
  <2> QED
    BY <1>3, <2>1 DEF Unused, Wizards
<1>7. /\ sessions' = [sessions EXCEPT ![u] = n]
      /\ wiz' = [wiz EXCEPT ![n] = new]
  BY <1>1, <1>5 DEF PutSession
<1>8. hand \in HandlerRecords /\ hand.pc = "begun" /\ hand.nonce = n /\ hand.state = s /\ hand.user = u
  <2>1. handler[h] \in HandlerRecords
    BY <1>2
  <2> QED
    BY <1>3, <2>1 DEF HandlerRecords, HandlerPCs
<1>9. handler' = [handler EXCEPT ![h] = hand]
  BY <1>1
<1> HIDE DEF new, hand, u
<1>10. /\ handler' \in [Handlers -> HandlerRecords] /\ handler'[h] = hand
       /\ sessions' \in [Users -> Nonces \cup {NoNonce}] /\ sessions'[u] = n
       /\ \A v \in Users \ {u} : sessions'[v] = sessions[v]
       /\ wiz' \in [Nonces -> Wizards] /\ wiz'[n] = new
       /\ \A k \in Nonces \ {n} : wiz'[k] = wiz[k]
  BY <1>2, <1>5, <1>6, <1>7, <1>8, <1>9
<1>11. wiz[n].state = "none" /\ WizardInv(n)
  BY DEF Unused, SessionsInv
<1>12. /\ \A v, w \in Users : sessions[v] # NoNonce /\ sessions[v] = sessions[w] => v = w
       /\ \A v \in Users : sessions[v] # NoNonce => wiz[sessions[v]].state \notin {"none", "cleared"}
       /\ phase \notin {"closed", "exited"}
  BY <1>4 DEF SessionsInv, MapInv
<1>13. ~InMap(n) /\ \A v \in Users : sessions[v] # n
  BY <1>2, <1>11, <1>12 DEF InMap
<1>14. /\ InMap(n)'
       /\ \A k \in Nonces \ {n} : InMap(k)' <=> InMap(k)
  BY <1>2, <1>5, <1>10, <1>13 DEF InMap
<1>15. MapInv'
  <2>1. \A v, w \in Users : sessions'[v] # NoNonce /\ sessions'[v] = sessions'[w] => v = w
    BY <1>10, <1>12, <1>13
  <2>2. \A v \in Users : sessions'[v] # NoNonce => wiz'[sessions'[v]].state \notin {"none", "cleared"}
    BY <1>2, <1>3, <1>5, <1>6, <1>10, <1>12
  <2> QED
    BY <2>1, <2>2, <1>4, <1>12 DEF MapInv
<1>16. /\ worker[n] = "none" /\ uses[n] = 0 /\ cancelling[n] = {} /\ deps[n] = "none"
  BY <1>11 DEF WizardInv, PasswordStates
<1>17. WizardInv(n)' /\ Remembered(n)'
  BY <1>3, <1>4, <1>6, <1>10, <1>14, <1>16 DEF WizardInv, Remembered
<1>18. HandlerInv(h)'
  <2>1. Expected(h)' = s
    BY <1>8, <1>10 DEF Expected
  <2> QED
    BY <1>3, <1>4, <1>5, <1>6, <1>8, <1>10, <1>13, <1>16, <2>1 DEF HandlerInv, Found, Taken
<1>19. ASSUME NEW k \in Nonces \ {n} PROVE Untouched(k)
  BY <1>4, <1>8, <1>10, <1>14, StepUntouched DEF Taken
<1> HIDE DEF Untouched
<1> QED
  BY <1>2, <1>10, <1>15, <1>17, <1>18, <1>19, FromParts

\* Begun: the session stays, or the handler takes it back.
LEMMA BegunInv ==
  ASSUME SessionsInv, NEW h, Handlers = {h}, Begun(h)
  PROVE  SessionsInv'
<1> DEFINE u == handler[h].user
           n == handler[h].nonce
           s == handler[h].state
<1>1. handler[h].pc = "begun" /\ Return(h) /\ UNCHANGED <<worker, deps, uses, phase>>
  BY DEF Begun, At
<1>2. handler' \in [Handlers -> HandlerRecords] /\ AtRest(h)'
  BY <1>1, ReturnFacts
<1>3. CASE UNCHANGED <<sessions, wiz, cancelling>>
  BY <1>1, <1>3, PlainReturnInv
<1>4. CASE /\ s \in beginNodeCardPanelIPChange \cup beginNodeCardServerIPChange
           /\ Take(u, n, s) /\ wiz' = Cleared(n) /\ UNCHANGED cancelling
  <2>1. s # "AwaitingConfirmation" /\ handler[h].pc \in Found \ {"prepared"}
    BY <1>1, <1>4 DEF beginNodeCardPanelIPChange, beginNodeCardServerIPChange, Found
  <2> QED
    BY <1>1, <1>2, <1>4, <2>1, TakeClearedInv
<1>5. CASE Missed(u)
  BY <1>1, <1>2, <1>5, MissedInv
<1> QED
  BY <1>3, <1>4, <1>5 DEF Begun

\* loadSession: the handler knows the session and its state.
LEMMA LoadInv ==
  ASSUME SessionsInv, NEW h, Handlers = {h}, NEW u \in Users, Load(h, u)
  PROVE  SessionsInv'
<1> DEFINE n == sessions[u]
           new == [pc |-> "loaded", user |-> u, nonce |-> n, state |-> wiz[n].state]
<1>1. /\ handler \in [Handlers -> HandlerRecords] /\ sessions \in [Users -> Nonces \cup {NoNonce}]
      /\ wiz \in [Nonces -> Wizards] /\ uses \in [Nonces -> Nat] /\ NoNonce \notin Nonces
      /\ wiz' = wiz => wiz' \in [Nonces -> Wizards]
      /\ sessions' = sessions => sessions' \in [Users -> Nonces \cup {NoNonce}]
      /\ cancelling' = cancelling => cancelling' \in [Nonces -> SUBSET {"run", "timer", "close"}]
      /\ worker' \in [Nonces -> {"none", "deploy", "server", "running"}]
      /\ deps' \in [Nonces -> {"none", "prepared", "handed", "cancelled", "refused", "lost"}]
      /\ uses' \in [Nonces -> Nat]
      /\ phase' \in {"run", "stopping", "closed", "exited"}
  BY TypeFacts, SessionsAssumption DEF Load
<1>2. /\ handler[h].pc = "idle" /\ phase \in {"run", "stopping"} /\ n \in Nonces
      /\ UNCHANGED <<worker, deps, uses, phase>>
  BY <1>1 DEF Load, At
<1>3. CASE Due(u)
  <2>1. /\ sessions' = Gone(u) /\ wiz' = Cleared(n) /\ cancelling' = Calling(n, "timer")
        /\ ReturnAfter(h, n, "timer")
    BY <1>3 DEF Load, Expire
  <2>2. /\ cancelling' \in [Nonces -> SUBSET {"run", "timer", "close"}]
        /\ wiz[n].prepared => cancelling'[n] # {}
        /\ \A k \in Nonces \ {n} : cancelling'[k] = cancelling[k]
    BY <1>2, <2>1, CallingFacts
  <2>3. handler' \in [Handlers -> HandlerRecords] /\ AtRest(h)'
    BY <1>2, <2>1, ReturnFacts
  <2> HIDE DEF n
  <2>4. sessions[u] = n
    BY DEF n
  <2> QED
    BY <1>2, <2>1, <2>2, <2>3, <2>4, DropInv
<1>4. CASE ~Due(u)
  <2>1. handler' = [handler EXCEPT ![h] = new] /\ UNCHANGED <<sessions, wiz, cancelling>>
    BY <1>4 DEF Load
  <2>2. wiz[n].state \in WizardStates
    BY <1>1, <1>2 DEF Wizards
  <2>3. /\ new \in HandlerRecords /\ new.pc = "loaded" /\ new.user = u /\ new.nonce = n
        /\ new.state = wiz[n].state
    BY <1>2, <2>2 DEF HandlerRecords, HandlerPCs
  <2> HIDE DEF new
  <2>4. handler' \in [Handlers -> HandlerRecords] /\ handler'[h] = new
    BY <1>1, <2>1, <2>3
  <2>5. MapInv'
    BY <1>2, <2>1 DEF SessionsInv, MapInv
  <2>6. InMap(n) /\ WizardInv(n)
    BY <1>2 DEF InMap, SessionsInv
  <2>7. wiz[n].state \notin {"none", "cleared"} /\ \A v \in Users \ {u} : sessions[v] # n
    BY <1>1, <1>2 DEF SessionsInv, MapInv
  <2>8. worker[n] = "none" /\ ~InHand(n, {"replace"})
    BY <2>6, <1>2, HandFacts DEF WizardInv
  <2>9. wiz[n].state = "SelectingPanel" => cancelling[n] = {} /\ deps[n] = "none" /\ uses[n] = 0
    <3>1. wiz[n].state = "SelectingPanel" => cancelling[n] = {} /\ deps[n] = "none" /\ uses[n] # 1
      BY <2>6, <2>8 DEF WizardInv
    <3>2. uses[n] \in Nat /\ uses[n] <= 1
      BY <1>1, <1>2, <2>6 DEF WizardInv
    <3> QED
      BY <3>1, <3>2
  <2>10. HandlerInv(h)'
    <3>1. Expected(h)' = wiz[n].state
      BY <2>3, <2>4 DEF Expected
    <3> HIDE DEF n
    <3>2. sessions[u] = n
      BY DEF n
    <3> QED
      BY <1>2, <2>1, <2>3, <2>4, <2>7, <2>8, <2>9, <3>1, <3>2 DEF HandlerInv, Found, Taken
  <2>11. ASSUME NEW k \in Nonces PROVE Untouched(k)
    <3>1. InMap(k)' <=> InMap(k)
      BY <2>1 DEF InMap
    <3>2. k # NoNonce /\ handler[h].pc \notin Taken \cup {"prepared", "show"}
          /\ handler'[h].pc \notin Taken \cup {"prepared", "show"}
      BY <1>1, <1>2, <2>3, <2>4 DEF Taken
    <3> QED
      BY <1>2, <2>1, <3>1, <3>2, StepUntouched
  <2> QED
    BY <1>1, <2>1, <2>4, <2>5, <2>10, <2>11, FromParts
<1> QED
  BY <1>3, <1>4

\* A session that is found again, as it was left.
LEMMA LiveFacts ==
  ASSUME SessionsInv, NEW h, Handlers = {h}, handler[h].pc \in Found, NEW s,
         Live(handler[h].user, handler[h].nonce, s)
  PROVE  LET n == handler[h].nonce  u == handler[h].user IN
         /\ n \in Nonces /\ u \in Users /\ sessions[u] = n /\ InMap(n)
         /\ wiz[n] \in Wizards /\ wiz[n].state = s /\ s \notin {"none", "cleared"}
         /\ worker[n] = "none" /\ cancelling[n] = {} /\ deps[n] # "handed"
         /\ s \notin {"DNSSyncRunning", "DNSSyncCompleted"} => uses[n] = 0
         /\ s \notin {"Preflighting", "AwaitingConfirmation"} => deps[n] = "none"
         /\ ~InHand(n, Taken)
<1> DEFINE u == handler[h].user
           n == handler[h].nonce
<1>1. n \in Nonces /\ u \in Users /\ worker[n] = "none" /\ NoNonce \notin Nonces
  BY FoundFacts
<1>2. sessions[u] = n /\ wiz[n].state = s /\ InMap(n)
  BY <1>1 DEF Live, InMap
<1>3. s \notin {"none", "cleared"}
  BY <1>1, <1>2 DEF SessionsInv, MapInv
<1>4. WizardInv(n) /\ wiz[n] \in Wizards /\ uses[n] \in Nat
  BY <1>1, TypeFacts DEF SessionsInv
<1>5. ~InHand(n, Taken) /\ ~InHand(n, {"replace"})
  BY HandFacts DEF Found, Taken
<1>6. cancelling[n] = {} /\ deps[n] # "handed"
  BY <1>1, <1>2, <1>3, <1>4 DEF WizardInv
<1>7. s \notin {"DNSSyncRunning", "DNSSyncCompleted"} => uses[n] # 1
  BY <1>1, <1>2, <1>3, <1>4, <1>5 DEF WizardInv
<1>8. uses[n] <= 1
  BY <1>4 DEF WizardInv
<1>9. s \notin {"DNSSyncRunning", "DNSSyncCompleted"} => uses[n] = 0
  BY <1>4, <1>7, <1>8
<1>10. s \notin {"Preflighting", "AwaitingConfirmation"} => deps[n] = "none"
  BY <1>2, <1>3, <1>4 DEF WizardInv
<1> QED
  BY <1>1, <1>2, <1>3, <1>4, <1>5, <1>6, <1>9, <1>10

\* updateSession: the changed wizard owns what its state says it owns.
LEMMA LiveUpdateInv ==
  ASSUME SessionsInv, NEW h, Handlers = {h}, NEW n \in Nonces, NEW u \in Users,
         n = handler[h].nonce, u = handler[h].user, handler[h].pc \in Found,
         NEW s, Live(u, n, s), NEW changed \in Wizards, Update(n, changed),
         changed.state \notin {"none", "cleared"},
         changed.prepared <=> changed.state = "AwaitingConfirmation",
         changed.secret <=> changed.state \in {"Preflighting", "AwaitingConfirmation"},
         deps[n] # "none" => changed.state \in {"Preflighting", "AwaitingConfirmation"},
         deps[n] = "prepared" => changed.prepared,
         uses' \in [Nonces -> Nat], \A k \in Nonces \ {n} : uses'[k] = uses[k],
         uses'[n] <= 1,
         uses'[n] = 1 => changed.state \in {"DNSSyncRunning", "DNSSyncCompleted"},
         handler' \in [Handlers -> HandlerRecords],
         \/ AtRest(h)'
         \/ /\ handler'[h].pc \in Found \ {"prepared", "loaded"} /\ Expected(h)' = changed.state
            /\ handler'[h].nonce = n /\ handler'[h].user = u,
         UNCHANGED <<worker, deps, phase>>
  PROVE  SessionsInv'
<1> DEFINE new == [changed EXCEPT !.due = FALSE]
<1>1. /\ sessions[u] = n /\ InMap(n) /\ worker[n] = "none" /\ cancelling[n] = {}
      /\ deps[n] # "handed"
  BY LiveFacts
<1>2. /\ new \in Wizards /\ new.state = changed.state
      /\ new.prepared = changed.prepared /\ new.secret = changed.secret
  BY DEF Wizards
<1>3. wiz' = [wiz EXCEPT ![n] = new] /\ UNCHANGED <<sessions, cancelling>>
  BY DEF Update
<1> HIDE DEF new
<1>4. wiz'[n] = new
  BY <1>3, TypeFacts
<1>5. InMap(n)'
  BY <1>1, <1>3 DEF InMap
<1>6. WizardInv(n)'
  <2>1. /\ wiz'[n].state = changed.state
        /\ wiz'[n].prepared <=> wiz'[n].state = "AwaitingConfirmation"
        /\ wiz'[n].secret <=> wiz'[n].state \in {"Preflighting", "AwaitingConfirmation"}
    BY <1>2, <1>4
  <2>2. worker'[n] = "none" /\ cancelling'[n] = {} /\ deps'[n] = deps[n]
    BY <1>1, <1>3
  <2> QED
    BY <1>1, <1>5, <2>1, <2>2 DEF WizardInv
<1>7. Remembered(n)'
  BY <1>2, <1>4, <1>5 DEF Remembered
<1>8. /\ sessions \in [Users -> Nonces \cup {NoNonce}] /\ NoNonce \notin Nonces
      /\ wiz \in [Nonces -> Wizards]
      /\ sessions' \in [Users -> Nonces \cup {NoNonce}]
      /\ worker' \in [Nonces -> {"none", "deploy", "server", "running"}]
      /\ cancelling' \in [Nonces -> SUBSET {"run", "timer", "close"}]
      /\ deps' \in [Nonces -> {"none", "prepared", "handed", "cancelled", "refused", "lost"}]
      /\ phase' \in {"run", "stopping", "closed", "exited"}
  BY <1>3, TypeFacts, SessionsAssumption
<1>9. /\ wiz' \in [Nonces -> Wizards] /\ \A k \in Nonces \ {n} : wiz'[k] = wiz[k]
  BY <1>2, <1>3, <1>8
<1>10. \A k \in Nonces : InMap(k)' <=> InMap(k)
  BY <1>3 DEF InMap
<1>11. MapInv'
  <2>1. /\ \A v, w \in Users : sessions[v] # NoNonce /\ sessions[v] = sessions[w] => v = w
        /\ \A v \in Users : sessions[v] # NoNonce => wiz[sessions[v]].state \notin {"none", "cleared"}
        /\ phase \notin {"closed", "exited"}
    BY <1>1, <1>8 DEF SessionsInv, MapInv
  <2>2. \A v \in Users : sessions[v] # NoNonce => wiz'[sessions[v]].state \notin {"none", "cleared"}
    BY <1>2, <1>4, <1>8, <1>9, <2>1
  <2> QED
    BY <1>3, <2>1, <2>2 DEF MapInv
<1>12. HandlerInv(h)'
  <2>1. CASE AtRest(h)'
    BY <2>1 DEF AtRest, HandlerInv, Found, Taken
  <2>2. CASE ~AtRest(h)'
    <3>1. \A v \in Users \ {u} : sessions[v] # n
      BY DEF SessionsInv, HandlerInv
    <3> QED
      BY <2>2, <1>1, <1>2, <1>3, <1>4, <3>1 DEF HandlerInv, Found, Taken
  <2> QED
    BY <2>1, <2>2
<1>13. ASSUME NEW k \in Nonces \ {n} PROVE Untouched(k)
  <2>1. /\ wiz'[k] = wiz[k] /\ worker'[k] = worker[k] /\ cancelling'[k] = cancelling[k]
        /\ deps'[k] = deps[k] /\ uses'[k] = uses[k] /\ (InMap(k)' <=> InMap(k))
    BY <1>3, <1>9, <1>10
  <2>2. handler'[h].nonce = n \/ handler'[h].pc \notin Taken \cup {"prepared", "show"}
    BY DEF AtRest, Taken
  <2> QED
    BY <2>1, <2>2, StepUntouched
<1> HIDE DEF Untouched
<1> QED
  BY <1>6, <1>7, <1>8, <1>9, <1>11, <1>12, <1>13, FromParts

\* Advance: a move that updateSession makes, or a session that is gone.
LEMMA AdvanceInv ==
  ASSUME SessionsInv, NEW h, Handlers = {h}, Advance(h)
  PROVE  SessionsInv'
<1>0. PICK n \in Nonces, u \in Users : n = handler[h].nonce /\ u = handler[h].user
  BY FoundFacts DEF Advance, At, Found
<1> DEFINE s == handler[h].state
<1>1. PICK m \in Moves :
       /\ m[1] = s
       /\ \/ /\ Live(u, n, s)
             /\ Update(n, [wiz[n] EXCEPT !.state = m[2]])
             /\ IF m[2] \in Carded
                  THEN handler' = [handler EXCEPT ![h] = [@ EXCEPT !.pc = "card", !.state = m[2]]]
                  ELSE Return(h)
          \/ ~Live(u, n, s) /\ Missed(u) /\ ReturnAfter(h, n, "timer")
  BY <1>0 DEF Advance
<1>2. /\ handler[h].pc = "loaded" /\ UNCHANGED <<worker, deps, uses, phase>>
      /\ handler[h].pc \in Found
  BY DEF Advance, At, Found
<1>3. /\ m[2] \in WizardStates
      /\ m[1] \notin {"none", "cleared", "Preflighting", "AwaitingConfirmation",
                      "DNSSyncRunning", "DNSSyncCompleted"} \cup PasswordStates
      /\ m[2] \notin {"none", "cleared", "Preflighting", "AwaitingConfirmation", "SelectingPanel",
                      "DNSSyncRunning", "DNSSyncCompleted"}
  BY MoveFacts
<1>4. CASE Missed(u) /\ ReturnAfter(h, n, "timer")
  <2>1. handler' \in [Handlers -> HandlerRecords] /\ AtRest(h)'
    BY <1>4, ReturnFacts
  <2> QED
    BY <1>0, <1>2, <1>4, <2>1, MissedInv
<1>5. CASE /\ Live(u, n, s)
           /\ Update(n, [wiz[n] EXCEPT !.state = m[2]])
           /\ IF m[2] \in Carded
                THEN handler' = [handler EXCEPT ![h] = [@ EXCEPT !.pc = "card", !.state = m[2]]]
                ELSE Return(h)
  <2> DEFINE changed == [wiz[n] EXCEPT !.state = m[2]]
             hand == [handler[h] EXCEPT !.pc = "card", !.state = m[2]]
  <2>1. /\ wiz[n] \in Wizards /\ wiz[n].state = s
        /\ worker[n] = "none" /\ cancelling[n] = {} /\ deps[n] = "none" /\ uses[n] = 0
        /\ InMap(n)
    BY <1>0, <1>1, <1>2, <1>3, <1>5, LiveFacts
  <2>2. /\ changed \in Wizards /\ changed.state = m[2]
        /\ changed.prepared = wiz[n].prepared /\ changed.secret = wiz[n].secret
    BY <1>3, <2>1 DEF Wizards
  <2>3. ~wiz[n].prepared /\ ~wiz[n].secret
    BY <1>1, <1>3, <2>1 DEF SessionsInv, WizardInv
  <2>4. handler \in [Handlers -> HandlerRecords] /\ uses \in [Nonces -> Nat]
    BY TypeFacts
  <2>5. hand \in HandlerRecords /\ hand.pc = "card" /\ hand.nonce = n /\ hand.user = u /\ hand.state = m[2]
    <3>1. handler[h] \in HandlerRecords
      BY <2>4
    <3> QED
      BY <3>1, <1>0, <1>3 DEF HandlerRecords, HandlerPCs
  <2> HIDE DEF changed, hand
  <2>6. /\ handler' \in [Handlers -> HandlerRecords]
        /\ AtRest(h)' \/ handler'[h] = hand
    <3>1. CASE Return(h)
      BY <3>1, ReturnFacts
    <3>2. CASE handler' = [handler EXCEPT ![h] = hand]
      BY <3>2, <2>4, <2>5
    <3> QED
      BY <3>1, <3>2, <1>5 DEF hand
  <2>7. handler'[h] = hand => Expected(h)' = m[2]
    BY <2>5 DEF Expected
  <2>8. \/ AtRest(h)'
        \/ /\ handler'[h].pc \in Found \ {"prepared", "loaded"} /\ Expected(h)' = changed.state
           /\ handler'[h].nonce = n /\ handler'[h].user = u
    BY <2>2, <2>5, <2>6, <2>7 DEF Found
  <2>9. Update(n, changed)
    BY <1>5 DEF changed
  <2> QED
    BY <1>0, <1>2, <1>3, <1>5, <2>1, <2>2, <2>3, <2>4, <2>6, <2>8, <2>9, LiveUpdateInv
<1> QED
  BY <1>1, <1>4, <1>5

\* A wizard that keeps its state keeps what it owns.
LEMMA SameStateInv ==
  ASSUME SessionsInv, NEW h, Handlers = {h}, NEW n \in Nonces, NEW u \in Users,
         n = handler[h].nonce, u = handler[h].user, handler[h].pc \in Found \ {"prepared"},
         NEW s, Live(u, n, s), Update(n, [wiz[n] EXCEPT !.shown = TRUE]),
         handler' \in [Handlers -> HandlerRecords], AtRest(h)',
         UNCHANGED <<worker, deps, uses, phase>>
  PROVE  SessionsInv'
<1> DEFINE changed == [wiz[n] EXCEPT !.shown = TRUE]
<1>1. /\ InMap(n) /\ wiz[n] \in Wizards /\ wiz[n].state = s /\ s \notin {"none", "cleared"}
      /\ worker[n] = "none" /\ cancelling[n] = {} /\ ~InHand(n, Taken)
  BY LiveFacts
<1>2. /\ changed \in Wizards /\ changed.state = s
      /\ changed.prepared = wiz[n].prepared /\ changed.secret = wiz[n].secret
  BY <1>1 DEF Wizards
<1>3. WizardInv(n) /\ Remembered(n) /\ HandlerInv(h)
  BY DEF SessionsInv
<1>4. /\ wiz[n].prepared <=> s = "AwaitingConfirmation"
      /\ wiz[n].secret <=> s \in {"Preflighting", "AwaitingConfirmation"}
      /\ deps[n] # "none" => s \in {"Preflighting", "AwaitingConfirmation"}
      /\ uses[n] <= 1
  BY <1>1, <1>3 DEF WizardInv
<1>5. uses[n] = 1 => s \in {"DNSSyncRunning", "DNSSyncCompleted"}
  <2>1. ~InHand(n, {"replace"})
    BY <1>1, HandFacts DEF Taken
  <2> QED
    BY <1>1, <1>3, <2>1 DEF WizardInv
<1>6. deps[n] = "prepared" => wiz[n].prepared
  <2>1. SUFFICES ASSUME deps[n] = "prepared", ~wiz[n].prepared PROVE FALSE
    OBVIOUS
  <2>2. InHand(n, {"prepared", "show", "progress"})
    BY <2>1, <1>1, <1>3 DEF Remembered
  <2>3. handler[h].pc = "show"
    BY <2>2, HandFacts DEF Found
  <2>4. wiz[n].state = "AwaitingConfirmation"
    BY <2>3, <1>1, <1>3 DEF HandlerInv, Found, Expected
  <2> QED
    BY <2>1, <2>4, <1>1, <1>4
<1> HIDE DEF changed
<1>7. Update(n, changed)
  BY DEF changed
<1>8. uses' \in [Nonces -> Nat] /\ uses' = uses
  BY TypeFacts
<1>9. /\ changed.prepared <=> changed.state = "AwaitingConfirmation"
      /\ changed.secret <=> changed.state \in {"Preflighting", "AwaitingConfirmation"}
      /\ deps[n] = "prepared" => changed.prepared
  BY <1>2, <1>4, <1>6
<1> QED
  BY <1>1, <1>2, <1>4, <1>5, <1>7, <1>8, <1>9, LiveUpdateInv

\* The message number of a card.
LEMMA CardSentInv ==
  ASSUME SessionsInv, NEW h, Handlers = {h}, CardSent(h)
  PROVE  SessionsInv'
<1>1. /\ handler[h].pc = "card" /\ Return(h) /\ UNCHANGED <<worker, deps, uses, phase>>
      /\ handler[h].pc \in Found \ {"prepared"}
  BY DEF CardSent, At, Found
<1>2. PICK n \in Nonces, u \in Users : n = handler[h].nonce /\ u = handler[h].user
  BY <1>1, FoundFacts
<1>3. handler' \in [Handlers -> HandlerRecords] /\ AtRest(h)'
  BY <1>1, ReturnFacts
<1>4. CASE Live(u, n, handler[h].state) /\ Update(n, [wiz[n] EXCEPT !.shown = TRUE])
  BY <1>1, <1>2, <1>3, <1>4, SameStateInv
<1>5. CASE Missed(u)
  BY <1>1, <1>2, <1>3, <1>5, MissedInv
<1>6. CASE UNCHANGED <<sessions, wiz, cancelling>>
  BY <1>1, <1>6, PlainReturnInv
<1> QED
  BY <1>2, <1>4, <1>5, <1>6 DEF CardSent

\* PickPanel: the nonce may even have left the map, and enters it again.
LEMMA PickPanelInv ==
  ASSUME SessionsInv, NEW h, Handlers = {h}, PickPanel(h)
  PROVE  SessionsInv'
<1>1. /\ handler[h].pc = "loaded" /\ handler[h].state = "SelectingPanel" /\ Return(h)
      /\ UNCHANGED <<worker, cancelling, deps, uses, phase>>
      /\ handler[h].pc \in Found
  BY DEF PickPanel, Loaded, At, Found
<1>2. PICK n \in Nonces, u \in Users : n = handler[h].nonce /\ u = handler[h].user
  BY <1>1, FoundFacts
<1> DEFINE new == [Unused EXCEPT !.state = "SelectingHost"]
<1>3. /\ sessions \in [Users -> Nonces \cup {NoNonce}] /\ wiz \in [Nonces -> Wizards]
      /\ NoNonce \notin Nonces
      /\ worker' \in [Nonces -> {"none", "deploy", "server", "running"}]
      /\ cancelling' \in [Nonces -> SUBSET {"run", "timer", "close"}]
      /\ deps' \in [Nonces -> {"none", "prepared", "handed", "cancelled", "refused", "lost"}]
      /\ uses' \in [Nonces -> Nat]
      /\ phase' \in {"run", "stopping", "closed", "exited"}
  BY <1>1, TypeFacts, SessionsAssumption
<1>4. /\ new \in Wizards /\ new.state = "SelectingHost" /\ new.prepared = FALSE /\ new.secret = FALSE
  <2>1. "SelectingHost" \in WizardStates
    BY SpecialStates
  <2> QED
    BY <2>1 DEF Unused, Wizards
<1>5. /\ sessions[u] \in {n, NoNonce} /\ worker[n] = "none" /\ cancelling[n] = {}
      /\ deps[n] = "none" /\ uses[n] = 0 /\ \A v \in Users \ {u} : sessions[v] # n
  BY <1>1, <1>2, FoundFacts DEF SessionsInv, HandlerInv
<1>6. sessions' = [sessions EXCEPT ![u] = n] /\ wiz' = [wiz EXCEPT ![n] = new]
  <2>1. sessions[u] # NoNonce => Cleared(sessions[u]) = [wiz EXCEPT ![n] = [Unused EXCEPT !.state = "cleared"]]
    BY <1>5 DEF Cleared
  <2>2. /\ sessions' = [sessions EXCEPT ![u] = n]
        /\ wiz' = [IF sessions[u] = NoNonce THEN wiz ELSE Cleared(sessions[u]) EXCEPT ![n] = new]
    BY <1>2 DEF PickPanel, PutSession
  <2> HIDE DEF new
  <2> QED
    BY <1>3, <2>1, <2>2
<1> HIDE DEF new
<1>7. /\ sessions' \in [Users -> Nonces \cup {NoNonce}] /\ sessions'[u] = n
      /\ \A v \in Users \ {u} : sessions'[v] = sessions[v]
      /\ wiz' \in [Nonces -> Wizards] /\ wiz'[n] = new
      /\ \A k \in Nonces \ {n} : wiz'[k] = wiz[k]
  BY <1>3, <1>4, <1>6
<1>8. /\ InMap(n)'
      /\ \A k \in Nonces \ {n} : InMap(k)' <=> InMap(k)
  BY <1>3, <1>5, <1>7 DEF InMap
<1>9. MapInv'
  <2>1. /\ \A v, w \in Users : sessions[v] # NoNonce /\ sessions[v] = sessions[w] => v = w
        /\ \A v \in Users : sessions[v] # NoNonce => wiz[sessions[v]].state \notin {"none", "cleared"}
        /\ phase \notin {"closed", "exited"}
    BY <1>1 DEF SessionsInv, MapInv
  <2>2. \A v, w \in Users : sessions'[v] # NoNonce /\ sessions'[v] = sessions'[w] => v = w
    BY <1>5, <1>7, <2>1
  <2>3. \A v \in Users : sessions'[v] # NoNonce => wiz'[sessions'[v]].state \notin {"none", "cleared"}
    BY <1>3, <1>4, <1>5, <1>7, <2>1
  <2> QED
    BY <1>1, <2>1, <2>2, <2>3 DEF MapInv
<1>10. handler' \in [Handlers -> HandlerRecords] /\ AtRest(h)'
  BY <1>1, ReturnFacts
<1>11. HandlerInv(h)'
  BY <1>10 DEF AtRest, HandlerInv, Found, Taken
<1>12. WizardInv(n)' /\ Remembered(n)'
  BY <1>1, <1>4, <1>5, <1>7, <1>8 DEF WizardInv, Remembered, PasswordStates
<1>13. ASSUME NEW k \in Nonces \ {n} PROVE Untouched(k)
  BY <1>1, <1>2, <1>7, <1>8, <1>10, StepUntouched DEF AtRest, Taken
<1> HIDE DEF Untouched
<1> QED
  BY <1>3, <1>7, <1>9, <1>10, <1>11, <1>12, <1>13, FromParts

\* /cancel, the cancel buttons, the end of a search.
LEMMA LeaveInv ==
  ASSUME SessionsInv, NEW h, Handlers = {h}, Leave(h)
  PROVE  SessionsInv'
<1>1. /\ handler[h].pc = "loaded" /\ UNCHANGED <<worker, deps, uses, phase>>
      /\ handler[h].pc \in Found \ {"prepared"}
  BY DEF Leave, At, Found
<1>2. handler[h].nonce \in Nonces
  BY <1>1, FoundFacts
<1>3. handler' \in [Handlers -> HandlerRecords] /\ AtRest(h)'
  BY <1>2, ReturnFacts DEF Leave
<1>4. CASE /\ Take(handler[h].user, handler[h].nonce, handler[h].state)
           /\ wiz' = Cleared(handler[h].nonce)
           /\ cancelling' = Calling(handler[h].nonce, "run")
  BY <1>1, <1>3, <1>4, TakeClearedInv
<1>5. CASE Missed(handler[h].user)
  BY <1>1, <1>3, <1>5, MissedInv
<1> QED
  BY <1>4, <1>5 DEF Leave

\* The password is stored for the preflight.
LEMMA AcceptPasswordInv ==
  ASSUME SessionsInv, NEW h, Handlers = {h}, AcceptPassword(h)
  PROVE  SessionsInv'
<1>1. /\ handler[h].pc = "loaded" /\ UNCHANGED <<worker, deps, uses, phase>>
      /\ handler[h].pc \in Found
  BY DEF AcceptPassword, Loaded, At, Found
<1>2. PICK n \in Nonces, u \in Users : n = handler[h].nonce /\ u = handler[h].user
  BY <1>1, FoundFacts
<1>3. CASE Missed(u) /\ ReturnAfter(h, n, "timer")
  <2>1. handler' \in [Handlers -> HandlerRecords] /\ AtRest(h)'
    BY <1>3, ReturnFacts
  <2> QED
    BY <1>1, <1>2, <1>3, <2>1, MissedInv
<1>4. CASE /\ Live(u, n, "AwaitingPassword")
           /\ Update(n, [wiz[n] EXCEPT !.state = "Preflighting", !.secret = TRUE])
           /\ Now(h, "preflight")
  <2> DEFINE changed == [wiz[n] EXCEPT !.state = "Preflighting", !.secret = TRUE]
  <2>1. /\ wiz[n] \in Wizards /\ wiz[n].state = "AwaitingPassword" /\ deps[n] = "none" /\ uses[n] = 0
    BY <1>1, <1>2, <1>4, LiveFacts
  <2>2. "Preflighting" \in WizardStates
    BY SpecialStates
  <2>3. /\ changed \in Wizards /\ changed.state = "Preflighting" /\ changed.secret = TRUE
        /\ changed.prepared = wiz[n].prepared
    BY <2>1, <2>2 DEF Wizards
  <2>4. ~wiz[n].prepared
    BY <2>1 DEF SessionsInv, WizardInv
  <2> HIDE DEF changed
  <2>5. Update(n, changed)
    BY <1>4 DEF changed
  <2>6. uses' \in [Nonces -> Nat] /\ uses' = uses
    BY <1>1, TypeFacts
  <2>7. /\ handler' \in [Handlers -> HandlerRecords]
        /\ handler'[h].pc = "preflight" /\ handler'[h].nonce = n /\ handler'[h].user = u
    BY <1>2, <1>4, NowFacts DEF HandlerPCs
  <2>8. /\ handler'[h].pc \in Found \ {"prepared", "loaded"}
        /\ Expected(h)' = changed.state
    BY <2>3, <2>7 DEF Found, Expected
  <2>9. /\ changed.state \notin {"none", "cleared"}
        /\ changed.prepared <=> changed.state = "AwaitingConfirmation"
        /\ changed.secret <=> changed.state \in {"Preflighting", "AwaitingConfirmation"}
        /\ deps[n] # "none" => changed.state \in {"Preflighting", "AwaitingConfirmation"}
        /\ deps[n] = "prepared" => changed.prepared
        /\ uses'[n] = 1 => changed.state \in {"DNSSyncRunning", "DNSSyncCompleted"}
        /\ uses'[n] <= 1 /\ \A k \in Nonces \ {n} : uses'[k] = uses[k]
    BY <2>1, <2>3, <2>4, <2>6
  <2> QED
    BY <1>1, <1>2, <1>4, <2>3, <2>5, <2>6, <2>7, <2>8, <2>9, LiveUpdateInv
<1> QED
  BY <1>2, <1>3, <1>4 DEF AcceptPassword

\* Preflight has prepared a deployment, whatever became of the session.
LEMMA PreflightPassesInv ==
  ASSUME SessionsInv, NEW h, Handlers = {h}, PreflightPasses(h)
  PROVE  SessionsInv'
<1>1. /\ handler[h].pc = "preflight" /\ handler[h].pc \in Found /\ Now(h, "prepared")
      /\ UNCHANGED <<sessions, wiz, worker, cancelling, uses, phase>>
  BY DEF PreflightPasses, At, Found
<1>2. PICK n \in Nonces, u \in Users : n = handler[h].nonce /\ u = handler[h].user
  BY <1>1, FoundFacts
<1>3. /\ deps \in [Nonces -> {"none", "prepared", "handed", "cancelled", "refused", "lost"}]
      /\ sessions' \in [Users -> Nonces \cup {NoNonce}] /\ wiz' \in [Nonces -> Wizards]
      /\ worker' \in [Nonces -> {"none", "deploy", "server", "running"}]
      /\ cancelling' \in [Nonces -> SUBSET {"run", "timer", "close"}]
      /\ uses' \in [Nonces -> Nat]
      /\ phase' \in {"run", "stopping", "closed", "exited"}
  BY <1>1, TypeFacts
<1>4. deps' = [deps EXCEPT ![n] = "prepared"]
  BY <1>2 DEF PreflightPasses
<1>5. /\ deps' \in [Nonces -> {"none", "prepared", "handed", "cancelled", "refused", "lost"}]
      /\ deps'[n] = "prepared" /\ \A k \in Nonces \ {n} : deps'[k] = deps[k]
  BY <1>3, <1>4
<1>6. /\ handler' \in [Handlers -> HandlerRecords]
      /\ handler'[h].pc = "prepared" /\ handler'[h].nonce = n /\ handler'[h].user = u
  BY <1>1, <1>2, NowFacts DEF HandlerPCs
<1>7. \A k \in Nonces : InMap(k)' <=> InMap(k)
  BY <1>1 DEF InMap
<1>8. WizardInv(n) /\ HandlerInv(h)
  BY DEF SessionsInv
<1>9. /\ worker[n] = "none" /\ wiz[n].state # "none" /\ \A v \in Users \ {u} : sessions[v] # n
      /\ \/ wiz[n].state = "cleared" /\ sessions[u] = NoNonce
         \/ wiz[n].state = "Preflighting" /\ sessions[u] = n
  BY <1>1, <1>2, <1>8 DEF HandlerInv, Expected
<1>10. MapInv'
  BY <1>1 DEF SessionsInv, MapInv
<1>11. HandlerInv(h)'
  <2>1. Expected(h)' = "Preflighting"
    BY <1>6 DEF Expected
  <2> QED
    BY <1>1, <1>5, <1>6, <1>9, <2>1 DEF HandlerInv, Found, Taken
<1>12. /\ ~InHand(n, Taken) /\ ~InHand(n, {"replace"})
       /\ ~InHand(n, Taken)' /\ ~InHand(n, {"replace"})'
       /\ InHand(n, {"prepared", "show", "progress"})'
  BY <1>1, <1>6, HandFacts DEF Taken
<1>13. WizardInv(n)'
  BY <1>1, <1>5, <1>7, <1>8, <1>9, <1>12 DEF WizardInv
<1>14. Remembered(n)'
  BY <1>12 DEF Remembered
<1>15. ASSUME NEW k \in Nonces \ {n} PROVE Untouched(k)
  BY <1>1, <1>2, <1>5, <1>6, <1>7, StepUntouched
<1> HIDE DEF Untouched
<1> QED
  BY <1>3, <1>5, <1>6, <1>10, <1>11, <1>13, <1>14, <1>15, FromParts

\* The preflight has failed: there is nothing to cancel.
LEMMA PreflightFailsInv ==
  ASSUME SessionsInv, NEW h, Handlers = {h}, PreflightFails(h)
  PROVE  SessionsInv'
<1>1. /\ handler[h].pc = "preflight" /\ Return(h) /\ UNCHANGED <<worker, deps, uses, phase>>
      /\ handler[h].pc \in Found \ {"prepared"}
  BY DEF PreflightFails, At, Found
<1>2. handler' \in [Handlers -> HandlerRecords] /\ AtRest(h)'
  BY <1>1, ReturnFacts
<1>3. CASE /\ Take(handler[h].user, handler[h].nonce, "Preflighting")
           /\ wiz' = Cleared(handler[h].nonce) /\ UNCHANGED cancelling
  BY <1>1, <1>2, <1>3, TakeClearedInv
<1>4. CASE Missed(handler[h].user)
  BY <1>1, <1>2, <1>4, MissedInv
<1> QED
  BY <1>3, <1>4 DEF PreflightFails

\* The wizard keeps the result, or the handler cancels it.
LEMMA PreparedInv ==
  ASSUME SessionsInv, NEW h, Handlers = {h}, Prepared(h)
  PROVE  SessionsInv'
<1>1. /\ handler[h].pc = "prepared" /\ UNCHANGED <<worker, deps, uses, phase>>
      /\ handler[h].pc \in Found /\ Expected(h) = "Preflighting"
  BY DEF Prepared, At, Found, Expected
<1>2. PICK n \in Nonces, u \in Users : n = handler[h].nonce /\ u = handler[h].user
  BY <1>1, FoundFacts
<1>3. CASE ~Live(u, n, "Preflighting") /\ MissedCancelling(h, u, n)
  BY <1>1, <1>2, <1>3, MissedCancellingInv
<1>4. CASE /\ Live(u, n, "Preflighting")
           /\ Update(n, [wiz[n] EXCEPT !.state = "AwaitingConfirmation", !.prepared = TRUE])
           /\ Now(h, "show")
  <2> DEFINE changed == [wiz[n] EXCEPT !.state = "AwaitingConfirmation", !.prepared = TRUE]
  <2>1. /\ wiz[n] \in Wizards /\ wiz[n].state = "Preflighting" /\ uses[n] = 0
    BY <1>1, <1>2, <1>4, LiveFacts
  <2>2. "AwaitingConfirmation" \in WizardStates
    BY SpecialStates
  <2>3. /\ changed \in Wizards /\ changed.state = "AwaitingConfirmation" /\ changed.prepared = TRUE
        /\ changed.secret = wiz[n].secret
    BY <2>1, <2>2 DEF Wizards
  <2>4. wiz[n].secret
    BY <2>1 DEF SessionsInv, WizardInv
  <2> HIDE DEF changed
  <2>5. Update(n, changed)
    BY <1>4 DEF changed
  <2>6. uses' \in [Nonces -> Nat] /\ uses' = uses
    BY <1>1, TypeFacts
  <2>7. /\ handler' \in [Handlers -> HandlerRecords]
        /\ handler'[h].pc = "show" /\ handler'[h].nonce = n /\ handler'[h].user = u
    BY <1>2, <1>4, NowFacts DEF HandlerPCs
  <2>8. /\ handler'[h].pc \in Found \ {"prepared", "loaded"}
        /\ Expected(h)' = changed.state
    BY <2>3, <2>7 DEF Found, Expected
  <2>9. /\ changed.state \notin {"none", "cleared"}
        /\ changed.prepared <=> changed.state = "AwaitingConfirmation"
        /\ changed.secret <=> changed.state \in {"Preflighting", "AwaitingConfirmation"}
        /\ uses'[n] = 0
    BY <2>1, <2>3, <2>4, <2>6
  <2> QED
    BY <1>1, <1>2, <1>4, <2>3, <2>5, <2>6, <2>7, <2>8, <2>9, LiveUpdateInv
<1> QED
  BY <1>2, <1>3, <1>4 DEF Prepared

\* The confirmation card was sent, or not.
LEMMA ConfirmationSentInv ==
  ASSUME SessionsInv, NEW h, Handlers = {h}, ConfirmationSent(h)
  PROVE  SessionsInv'
<1>1. /\ handler[h].pc = "show" /\ UNCHANGED <<worker, deps, uses, phase>>
      /\ handler[h].pc \in Found \ {"prepared"} /\ Expected(h) = "AwaitingConfirmation"
  BY DEF ConfirmationSent, At, Found, Expected
<1>2. PICK n \in Nonces, u \in Users : n = handler[h].nonce /\ u = handler[h].user
  BY <1>1, FoundFacts
<1>3. CASE ~Live(u, n, "AwaitingConfirmation") /\ MissedCancelling(h, u, n)
  BY <1>1, <1>2, <1>3, MissedCancellingInv
<1>4. CASE /\ Live(u, n, "AwaitingConfirmation")
           /\ Update(n, [wiz[n] EXCEPT !.shown = TRUE])
           /\ Return(h)
  <2>1. handler' \in [Handlers -> HandlerRecords] /\ AtRest(h)'
    BY <1>4, ReturnFacts
  <2> QED
    BY <1>1, <1>2, <1>4, <2>1, SameStateInv
<1> QED
  BY <1>2, <1>3, <1>4 DEF ConfirmationSent

\* It could not be sent: the handler takes the session back if it can.
LEMMA ConfirmationLostInv ==
  ASSUME SessionsInv, NEW h, Handlers = {h}, ConfirmationLost(h)
  PROVE  SessionsInv'
<1>1. /\ handler[h].pc = "show" /\ UNCHANGED <<worker, deps, uses, phase>>
      /\ handler[h].pc \in Found \ {"prepared"} /\ Expected(h) = "AwaitingConfirmation"
  BY DEF ConfirmationLost, At, Found, Expected
<1>2. PICK n \in Nonces, u \in Users : n = handler[h].nonce /\ u = handler[h].user
  BY <1>1, FoundFacts
<1>3. CASE ~Live(u, n, "AwaitingConfirmation") /\ MissedCancelling(h, u, n)
  BY <1>1, <1>2, <1>3, MissedCancellingInv
<1>4. CASE /\ Take(u, n, "AwaitingConfirmation") /\ wiz' = Cleared(n)
           /\ cancelling' = Calling(n, "run") /\ ReturnAfter(h, n, "run")
  <2>1. handler' \in [Handlers -> HandlerRecords] /\ AtRest(h)'
    BY <1>4, ReturnFacts
  <2> QED
    BY <1>1, <1>2, <1>4, <2>1, TakeClearedInv
<1> QED
  BY <1>2, <1>3, <1>4 DEF ConfirmationLost

\* The DNS synchronisation is called once for its confirmation.
LEMMA SyncDNSInv ==
  ASSUME SessionsInv, NEW h, Handlers = {h}, SyncDNS(h)
  PROVE  SessionsInv'
<1>1. /\ handler[h].pc = "loaded" /\ UNCHANGED <<worker, deps, phase>>
      /\ handler[h].pc \in Found
  BY DEF SyncDNS, Loaded, At, Found
<1>2. PICK n \in Nonces, u \in Users : n = handler[h].nonce /\ u = handler[h].user
  BY <1>1, FoundFacts
<1>3. CASE Missed(u) /\ ReturnAfter(h, n, "timer") /\ UNCHANGED uses
  <2>1. handler' \in [Handlers -> HandlerRecords] /\ AtRest(h)'
    BY <1>3, ReturnFacts
  <2> QED
    BY <1>1, <1>2, <1>3, <2>1, MissedInv
<1>4. CASE /\ Live(u, n, "AwaitingDNSSyncConfirmation")
           /\ Update(n, [wiz[n] EXCEPT !.state = "DNSSyncRunning"])
           /\ uses' = [uses EXCEPT ![n] = @ + 1]
           /\ Now(h, "sync")
  <2> DEFINE changed == [wiz[n] EXCEPT !.state = "DNSSyncRunning"]
  <2>1. /\ wiz[n] \in Wizards /\ wiz[n].state = "AwaitingDNSSyncConfirmation" /\ uses[n] = 0
        /\ deps[n] = "none" /\ InMap(n)
    BY <1>1, <1>2, <1>4, LiveFacts
  <2>2. "DNSSyncRunning" \in WizardStates
    BY SpecialStates
  <2>3. /\ changed \in Wizards /\ changed.state = "DNSSyncRunning"
        /\ changed.prepared = wiz[n].prepared /\ changed.secret = wiz[n].secret
    BY <2>1, <2>2 DEF Wizards
  <2>4. ~wiz[n].secret /\ ~wiz[n].prepared
    BY <2>1 DEF SessionsInv, WizardInv
  <2> HIDE DEF changed
  <2>5. Update(n, changed)
    BY <1>4 DEF changed
  <2>6. uses' \in [Nonces -> Nat] /\ uses'[n] = 1 /\ \A k \in Nonces \ {n} : uses'[k] = uses[k]
    <3>1. uses \in [Nonces -> Nat]
      BY TypeFacts
    <3> QED
      BY <1>4, <2>1, <3>1
  <2>7. /\ handler' \in [Handlers -> HandlerRecords]
        /\ handler'[h].pc = "sync" /\ handler'[h].nonce = n /\ handler'[h].user = u
    BY <1>2, <1>4, NowFacts DEF HandlerPCs
  <2>8. /\ handler'[h].pc \in Found \ {"prepared", "loaded"}
        /\ Expected(h)' = changed.state
    BY <2>3, <2>7 DEF Found, Expected
  <2>9. /\ changed.state \notin {"none", "cleared"}
        /\ changed.prepared <=> changed.state = "AwaitingConfirmation"
        /\ changed.secret <=> changed.state \in {"Preflighting", "AwaitingConfirmation"}
        /\ deps[n] # "none" => changed.state \in {"Preflighting", "AwaitingConfirmation"}
        /\ deps[n] = "prepared" => changed.prepared
        /\ uses'[n] = 1 => changed.state \in {"DNSSyncRunning", "DNSSyncCompleted"}
        /\ uses'[n] <= 1 /\ \A k \in Nonces \ {n} : uses'[k] = uses[k]
    BY <2>1, <2>3, <2>4, <2>6
  <2>10. Live(u, n, "AwaitingDNSSyncConfirmation")
    BY <1>4
  <2> QED
    BY <1>1, <1>2, <2>3, <2>5, <2>6, <2>7, <2>8, <2>9, <2>10, LiveUpdateInv
<1> QED
  BY <1>2, <1>3, <1>4 DEF SyncDNS

\* The DNS synchronisation is over.
LEMMA DNSSyncedInv ==
  ASSUME SessionsInv, NEW h, Handlers = {h}, DNSSynced(h)
  PROVE  SessionsInv'
<1>1. /\ handler[h].pc = "sync" /\ UNCHANGED <<worker, deps, uses, phase>> /\ Return(h)
      /\ handler[h].pc \in Found
  BY DEF DNSSynced, At, Found
<1>2. PICK n \in Nonces, u \in Users : n = handler[h].nonce /\ u = handler[h].user
  BY <1>1, FoundFacts
<1>3. handler' \in [Handlers -> HandlerRecords] /\ AtRest(h)'
  BY <1>1, ReturnFacts
<1>4. CASE Missed(u)
  BY <1>1, <1>2, <1>3, <1>4, MissedInv
<1>5. CASE /\ Live(u, n, "DNSSyncRunning")
           /\ Update(n, [wiz[n] EXCEPT !.state = "DNSSyncCompleted"])
  <2> DEFINE changed == [wiz[n] EXCEPT !.state = "DNSSyncCompleted"]
  <2>1. /\ wiz[n] \in Wizards /\ wiz[n].state = "DNSSyncRunning"
        /\ deps[n] = "none" /\ InMap(n)
    <3>1. Live(handler[h].user, handler[h].nonce, "DNSSyncRunning")
      BY <1>2, <1>5
    <3> QED
      BY <1>1, <1>2, <3>1, LiveFacts
  <2>2. "DNSSyncCompleted" \in WizardStates
    BY SpecialStates
  <2>3. /\ changed \in Wizards /\ changed.state = "DNSSyncCompleted"
        /\ changed.prepared = wiz[n].prepared /\ changed.secret = wiz[n].secret
    BY <2>1, <2>2 DEF Wizards
  <2>4. ~wiz[n].secret /\ ~wiz[n].prepared /\ uses[n] <= 1
    BY <2>1 DEF SessionsInv, WizardInv, PasswordStates
  <2> HIDE DEF changed
  <2>5. Update(n, changed)
    BY <1>5 DEF changed
  <2>6. uses' \in [Nonces -> Nat] /\ uses' = uses
    BY <1>1, TypeFacts
  <2>7. /\ changed.state \notin {"none", "cleared"}
        /\ changed.prepared <=> changed.state = "AwaitingConfirmation"
        /\ changed.secret <=> changed.state \in {"Preflighting", "AwaitingConfirmation"}
        /\ deps[n] # "none" => changed.state \in {"Preflighting", "AwaitingConfirmation"}
        /\ deps[n] = "prepared" => changed.prepared
        /\ uses'[n] = 1 => changed.state \in {"DNSSyncRunning", "DNSSyncCompleted"}
        /\ uses'[n] <= 1 /\ \A k \in Nonces \ {n} : uses'[k] = uses[k]
    BY <2>1, <2>3, <2>4, <2>6
  <2> QED
    BY <1>1, <1>2, <1>3, <1>5, <2>3, <2>5, <2>6, <2>7, LiveUpdateInv
<1> QED
  BY <1>2, <1>4, <1>5 DEF DNSSynced

\* takeSession for an operation: the wizard is in the handler's hands alone.
LEMMA TakeKeptInv ==
  ASSUME SessionsInv, NEW h, Handlers = {h}, NEW n \in Nonces, NEW u \in Users,
         n = handler[h].nonce, u = handler[h].user, handler[h].pc \in Found,
         NEW s, Take(u, n, s), NEW new \in Wizards, wiz' = [wiz EXCEPT ![n] = new],
         new.state = s, new.prepared = wiz[n].prepared,
         new.secret <=> s \in {"AwaitingConfirmation"} \cup PasswordStates,
         NEW t, handler' \in [Handlers -> HandlerRecords],
         handler'[h].pc = t, handler'[h].nonce = n, handler'[h].user = u,
         \/ t = "progress" /\ s = "AwaitingConfirmation"
         \/ t = "status" /\ s \in PasswordStates
         \/ t = "replace" /\ s = "AwaitingNewIP",
         uses' = IF t = "replace" THEN [uses EXCEPT ![n] = @ + 1] ELSE uses,
         UNCHANGED <<worker, cancelling, deps, phase>>
  PROVE  SessionsInv'
<1>1. /\ sessions \in [Users -> Nonces \cup {NoNonce}] /\ wiz \in [Nonces -> Wizards]
      /\ uses \in [Nonces -> Nat]
      /\ worker' \in [Nonces -> {"none", "deploy", "server", "running"}]
      /\ cancelling' \in [Nonces -> SUBSET {"run", "timer", "close"}]
      /\ deps' \in [Nonces -> {"none", "prepared", "handed", "cancelled", "refused", "lost"}]
      /\ phase' \in {"run", "stopping", "closed", "exited"}
      /\ NoNonce \notin Nonces
  BY TypeFacts, SessionsAssumption
<1>2. Live(handler[h].user, handler[h].nonce, s) /\ sessions' = Gone(u)
  BY DEF Take
<1>3. /\ sessions[u] = n /\ wiz[n].state = s /\ worker[n] = "none" /\ cancelling[n] = {}
      /\ deps[n] # "handed"
      /\ s \notin {"DNSSyncRunning", "DNSSyncCompleted"} => uses[n] = 0
      /\ s \notin {"Preflighting", "AwaitingConfirmation"} => deps[n] = "none"
  <2>1. /\ sessions[handler[h].user] = handler[h].nonce /\ wiz[handler[h].nonce].state = s
        /\ worker[handler[h].nonce] = "none" /\ cancelling[handler[h].nonce] = {}
        /\ deps[handler[h].nonce] # "handed"
        /\ s \notin {"DNSSyncRunning", "DNSSyncCompleted"} => uses[handler[h].nonce] = 0
        /\ s \notin {"Preflighting", "AwaitingConfirmation"} => deps[handler[h].nonce] = "none"
    BY ONLY <1>2, LiveFacts, SessionsInv, Handlers = {h}, handler[h].pc \in Found
  <2> QED
    BY <2>1
<1>4. uses[n] = 0
  BY <1>3 DEF PasswordStates
<1>5. /\ sessions' \in [Users -> Nonces \cup {NoNonce}]
      /\ sessions'[u] = NoNonce
      /\ \A v \in Users \ {u} : sessions'[v] = sessions[v] /\ sessions[v] # n
      /\ ~InMap(n)'
      /\ \A k \in Nonces \ {n} : InMap(k)' <=> InMap(k)
  BY <1>2, <1>3, GoneFacts
<1>6. /\ wiz' \in [Nonces -> Wizards] /\ wiz'[n] = new
      /\ \A k \in Nonces \ {n} : wiz'[k] = wiz[k]
  BY <1>1
<1>7. /\ uses' \in [Nonces -> Nat] /\ uses'[n] <= 1 /\ (uses'[n] = 1 => t = "replace")
      /\ \A k \in Nonces \ {n} : uses'[k] = uses[k]
  <2>1. CASE t = "replace"
    BY <1>1, <1>4, <2>1
  <2>2. CASE t # "replace"
    BY <1>1, <1>4, <2>2
  <2> QED
    BY <2>1, <2>2
<1>8. MapInv'
  <2>1. /\ \A v, w \in Users : sessions[v] # NoNonce /\ sessions[v] = sessions[w] => v = w
        /\ \A v \in Users : sessions[v] # NoNonce => wiz[sessions[v]].state \notin {"none", "cleared"}
        /\ phase \notin {"closed", "exited"}
    BY <1>1, <1>3 DEF SessionsInv, MapInv
  <2>2. \A v, w \in Users : sessions'[v] # NoNonce /\ sessions'[v] = sessions'[w] => v = w
    BY <1>5, <2>1
  <2>3. \A v \in Users : sessions'[v] # NoNonce => wiz'[sessions'[v]].state \notin {"none", "cleared"}
    BY <1>1, <1>5, <1>6, <2>1
  <2> QED
    BY <2>1, <2>2, <2>3 DEF MapInv
<1>9. WizardInv(n) /\ (wiz[n].prepared <=> s = "AwaitingConfirmation")
  BY <1>3 DEF SessionsInv, WizardInv
<1>10. InHand(n, Taken)' /\ (InHand(n, {"replace"})' <=> t = "replace")
       /\ (t = "progress" => InHand(n, {"prepared", "show", "progress"})')
  BY HandFacts DEF Taken
<1>11. /\ wiz'[n].state = s /\ s \notin {"none", "cleared", "Preflighting"}
       /\ wiz'[n].prepared <=> s = "AwaitingConfirmation"
       /\ wiz'[n].secret <=> s \in {"AwaitingConfirmation"} \cup PasswordStates
       /\ worker'[n] = "none" /\ cancelling'[n] = {} /\ deps'[n] = deps[n]
  <2>1. s \notin {"none", "cleared", "Preflighting"}
    BY DEF PasswordStates
  <2> QED
    BY <1>3, <1>6, <1>9, <2>1
<1>12. WizardInv(n)'
  BY <1>3, <1>5, <1>7, <1>10, <1>11 DEF WizardInv
<1>13. Remembered(n)'
  BY <1>3, <1>10, <1>11 DEF Remembered, PasswordStates
<1>14. HandlerInv(h)'
  BY <1>3, <1>5, <1>11 DEF HandlerInv, Found, Taken
<1>15. ASSUME NEW k \in Nonces \ {n} PROVE Untouched(k)
  BY <1>5, <1>6, <1>7, StepUntouched
<1> HIDE DEF Untouched
<1> QED
  BY <1>1, <1>5, <1>6, <1>7, <1>8, <1>12, <1>13, <1>14, <1>15, FromParts

\* startDeployment takes the confirmed session.
LEMMA StartDeploymentInv ==
  ASSUME SessionsInv, NEW h, Handlers = {h}, StartDeployment(h)
  PROVE  SessionsInv'
<1>1. /\ handler[h].pc = "loaded" /\ UNCHANGED <<worker, deps, uses, phase>>
      /\ handler[h].pc \in Found
  BY DEF StartDeployment, Loaded, At, Found
<1>2. PICK n \in Nonces, u \in Users : n = handler[h].nonce /\ u = handler[h].user
  BY <1>1, FoundFacts
<1>3. CASE Missed(u) /\ ReturnAfter(h, n, "timer")
  <2>1. handler' \in [Handlers -> HandlerRecords] /\ AtRest(h)'
    BY <1>3, ReturnFacts
  <2> QED
    BY <1>1, <1>2, <1>3, <2>1, MissedInv
<1>4. CASE /\ Take(u, n, "AwaitingConfirmation") /\ Now(h, "progress") /\ UNCHANGED <<wiz, cancelling>>
  <2> DEFINE new == wiz[n]
  <2>1. wiz \in [Nonces -> Wizards] /\ new \in Wizards /\ new.state = "AwaitingConfirmation"
    BY <1>4, TypeFacts DEF Take, Live
  <2>2. wiz' = [wiz EXCEPT ![n] = new]
    BY <1>4, <2>1
  <2>3. wiz[n].secret
    BY <2>1 DEF SessionsInv, WizardInv
  <2>4. /\ handler' \in [Handlers -> HandlerRecords]
        /\ handler'[h].pc = "progress" /\ handler'[h].nonce = n /\ handler'[h].user = u
    BY <1>2, <1>4, NowFacts DEF HandlerPCs
  <2>5. /\ new.secret <=> "AwaitingConfirmation" \in {"AwaitingConfirmation"} \cup PasswordStates
        /\ uses' = IF "progress" = "replace" THEN [uses EXCEPT ![n] = @ + 1] ELSE uses
        /\ UNCHANGED <<worker, cancelling, deps, phase>> /\ Take(u, n, "AwaitingConfirmation")
        /\ new.prepared = wiz[n].prepared
    BY <1>1, <1>4, <2>3
  <2> HIDE DEF new
  <2> QED
    BY <1>1, <1>2, <2>1, <2>2, <2>4, <2>5, TakeKeptInv
<1> QED
  BY <1>2, <1>3, <1>4 DEF StartDeployment

\* acceptServerIPPassword and acceptNodeMovePassword take it with the password.
LEMMA AcceptServerPasswordInv ==
  ASSUME SessionsInv, NEW h, Handlers = {h}, AcceptServerPassword(h)
  PROVE  SessionsInv'
<1>0. PICK s : s = handler[h].state
  OBVIOUS
<1>1. /\ handler[h].pc = "loaded" /\ UNCHANGED <<worker, deps, uses, phase>>
      /\ handler[h].pc \in Found /\ s \in PasswordStates
  BY <1>0 DEF AcceptServerPassword, Loaded, At, Found
<1>2. PICK n \in Nonces, u \in Users : n = handler[h].nonce /\ u = handler[h].user
  BY <1>1, FoundFacts
<1>3. CASE Missed(u) /\ ReturnAfter(h, n, "timer")
  <2>1. handler' \in [Handlers -> HandlerRecords] /\ AtRest(h)'
    BY <1>3, ReturnFacts
  <2> QED
    BY <1>1, <1>2, <1>3, <2>1, MissedInv
<1>4. CASE /\ Take(u, n, s) /\ wiz' = [wiz EXCEPT ![n].secret = TRUE]
           /\ Now(h, "status") /\ UNCHANGED cancelling
  <2> DEFINE new == [wiz[n] EXCEPT !.secret = TRUE]
  <2>1. wiz \in [Nonces -> Wizards] /\ wiz[n] \in Wizards /\ wiz[n].state = s
    BY <1>4, TypeFacts DEF Take, Live
  <2>2. /\ new \in Wizards /\ new.state = s /\ new.prepared = wiz[n].prepared /\ new.secret = TRUE
    BY <2>1 DEF Wizards
  <2>3. wiz' = [wiz EXCEPT ![n] = new]
    BY <1>4, <2>1
  <2>4. /\ handler' \in [Handlers -> HandlerRecords]
        /\ handler'[h].pc = "status" /\ handler'[h].nonce = n /\ handler'[h].user = u
    BY <1>2, <1>4, NowFacts DEF HandlerPCs
  <2>5. /\ new.secret <=> s \in {"AwaitingConfirmation"} \cup PasswordStates
        /\ uses' = IF "status" = "replace" THEN [uses EXCEPT ![n] = @ + 1] ELSE uses
        /\ UNCHANGED <<worker, cancelling, deps, phase>> /\ Take(u, n, s)
        /\ \/ "status" = "progress" /\ s = "AwaitingConfirmation"
           \/ "status" = "status" /\ s \in PasswordStates
           \/ "status" = "replace" /\ s = "AwaitingNewIP"
    BY <1>1, <1>4, <2>2
  <2> HIDE DEF new
  <2> QED
    BY <1>1, <1>2, <2>2, <2>3, <2>4, <2>5, TakeKeptInv
<1> QED
  BY <1>0, <1>2, <1>3, <1>4 DEF AcceptServerPassword

\* acceptNewNodeIP takes it and calls ReplaceNodeIP.
LEMMA AcceptNewNodeIPInv ==
  ASSUME SessionsInv, NEW h, Handlers = {h}, AcceptNewNodeIP(h)
  PROVE  SessionsInv'
<1>1. /\ handler[h].pc = "loaded" /\ UNCHANGED <<worker, deps, phase>>
      /\ handler[h].pc \in Found
  BY DEF AcceptNewNodeIP, Loaded, At, Found
<1>2. PICK n \in Nonces, u \in Users : n = handler[h].nonce /\ u = handler[h].user
  BY <1>1, FoundFacts
<1>3. CASE Missed(u) /\ ReturnAfter(h, n, "timer") /\ UNCHANGED uses
  <2>1. handler' \in [Handlers -> HandlerRecords] /\ AtRest(h)'
    BY <1>3, ReturnFacts
  <2> QED
    BY <1>1, <1>2, <1>3, <2>1, MissedInv
<1>4. CASE /\ Take(u, n, "AwaitingNewIP") /\ uses' = [uses EXCEPT ![n] = @ + 1]
           /\ Now(h, "replace") /\ UNCHANGED <<wiz, cancelling>>
  <2> DEFINE new == wiz[n]
  <2>1. /\ wiz \in [Nonces -> Wizards] /\ new \in Wizards /\ new.state = "AwaitingNewIP"
        /\ sessions[u] = n
    BY <1>4, TypeFacts DEF Take, Live
  <2>2. wiz' = [wiz EXCEPT ![n] = new]
    BY <1>4, <2>1
  <2>3. ~wiz[n].secret
    BY <2>1 DEF SessionsInv, WizardInv, PasswordStates
  <2>4. /\ handler' \in [Handlers -> HandlerRecords]
        /\ handler'[h].pc = "replace" /\ handler'[h].nonce = n /\ handler'[h].user = u
    BY <1>2, <1>4, NowFacts DEF HandlerPCs
  <2>5. /\ new.secret <=> "AwaitingNewIP" \in {"AwaitingConfirmation"} \cup PasswordStates
        /\ uses' = IF "replace" = "replace" THEN [uses EXCEPT ![n] = @ + 1] ELSE uses
        /\ UNCHANGED <<worker, cancelling, deps, phase>> /\ Take(u, n, "AwaitingNewIP")
        /\ new.prepared = wiz[n].prepared
    BY <1>1, <1>4, <2>3 DEF PasswordStates
  <2> HIDE DEF new
  <2> QED
    BY <1>1, <1>2, <2>1, <2>2, <2>4, <2>5, TakeKeptInv
<1> QED
  BY <1>2, <1>3, <1>4 DEF AcceptNewNodeIP

\* What a handler that has taken a session knows of it.
LEMMA TakenFacts ==
  ASSUME SessionsInv, NEW h, Handlers = {h}, handler[h].pc \in Taken
  PROVE  LET n == handler[h].nonce IN
         /\ n \in Nonces /\ worker[n] = "none" /\ ~InMap(n)
         /\ wiz[n] \in Wizards /\ wiz[n].state \notin {"none", "cleared"}
         /\ cancelling[n] = {} /\ deps[n] # "handed" /\ phase \notin {"closed", "exited"}
         /\ uses[n] = 1 => handler[h].pc = "replace" \/ wiz[n].state \in {"DNSSyncRunning", "DNSSyncCompleted"}
         /\ uses[n] <= 1
         /\ handler[h].pc = "progress" => wiz[n].state = "AwaitingConfirmation"
         /\ handler[h].pc = "status" => wiz[n].state \in PasswordStates
         /\ handler[h].pc = "replace" => wiz[n].state = "AwaitingNewIP"
<1> DEFINE u == handler[h].user
           n == handler[h].nonce
<1>1. HandlerInv(h) /\ NoNonce \notin Nonces
  BY SessionsAssumption DEF SessionsInv
<1>2. /\ n \in Nonces /\ u \in Users /\ worker[n] = "none" /\ sessions[u] = NoNonce
      /\ \A v \in Users \ {u} : sessions[v] # n
      /\ handler[h].pc = "progress" => wiz[n].state = "AwaitingConfirmation"
      /\ handler[h].pc = "status" => wiz[n].state \in PasswordStates
      /\ handler[h].pc = "replace" => wiz[n].state = "AwaitingNewIP"
  BY <1>1 DEF HandlerInv
<1>3. ~InMap(n)
  BY <1>1, <1>2 DEF InMap
<1>4. wiz[n].state \notin {"none", "cleared"}
  BY <1>2 DEF Taken, PasswordStates
<1>5. WizardInv(n) /\ wiz[n] \in Wizards
  BY <1>2, TypeFacts DEF SessionsInv
<1>6. cancelling[n] = {} /\ deps[n] # "handed" /\ uses[n] <= 1
  BY <1>2, <1>4, <1>5 DEF WizardInv
<1>7. uses[n] = 1 => handler[h].pc = "replace" \/ wiz[n].state \in {"DNSSyncRunning", "DNSSyncCompleted"}
  BY <1>2, <1>4, <1>5, HandFacts DEF WizardInv
<1>8. phase \notin {"closed", "exited"}
  BY DEF SessionsInv, MapInv, Taken
<1> QED
  BY <1>2, <1>3, <1>4, <1>5, <1>6, <1>7, <1>8

\* A handler hands the wizard it has taken to a goroutine, or clears it.
LEMMA ReleaseInv ==
  ASSUME SessionsInv, NEW h, Handlers = {h}, handler[h].pc \in Taken,
         NEW n \in Nonces, n = handler[h].nonce,
         wiz' \in [Nonces -> Wizards],
         worker' \in [Nonces -> {"none", "deploy", "server", "running"}],
         cancelling' \in [Nonces -> SUBSET {"run", "timer", "close"}],
         \A k \in Nonces \ {n} : /\ wiz'[k] = wiz[k] /\ worker'[k] = worker[k]
                                 /\ cancelling'[k] = cancelling[k],
         \/ /\ wiz'[n] = wiz[n] /\ cancelling'[n] = cancelling[n]
            /\ \/ handler[h].pc = "progress" /\ worker'[n] = "deploy"
               \/ handler[h].pc = "status" /\ worker'[n] = "server"
         \/ /\ wiz'[n].state = "cleared" /\ wiz'[n].prepared = FALSE /\ wiz'[n].secret = FALSE
            /\ worker'[n] = worker[n]
            /\ wiz[n].prepared => cancelling'[n] # {},
         handler' \in [Handlers -> HandlerRecords], AtRest(h)',
         UNCHANGED <<sessions, deps, uses, phase>>
  PROVE  SessionsInv'
<1>1. /\ sessions \in [Users -> Nonces \cup {NoNonce}] /\ NoNonce \notin Nonces
      /\ sessions' \in [Users -> Nonces \cup {NoNonce}]
      /\ deps' \in [Nonces -> {"none", "prepared", "handed", "cancelled", "refused", "lost"}]
      /\ uses' \in [Nonces -> Nat]
      /\ phase' \in {"run", "stopping", "closed", "exited"}
  BY TypeFacts, SessionsAssumption
<1>2. /\ worker[n] = "none" /\ ~InMap(n) /\ wiz[n].state \notin {"none", "cleared"}
      /\ cancelling[n] = {} /\ deps[n] # "handed" /\ phase \notin {"closed", "exited"}
      /\ uses[n] <= 1
      /\ handler[h].pc = "progress" => wiz[n].state = "AwaitingConfirmation"
      /\ handler[h].pc = "status" => wiz[n].state \in PasswordStates
      /\ uses[n] = 1 => handler[h].pc = "replace" \/ wiz[n].state \in {"DNSSyncRunning", "DNSSyncCompleted"}
  BY TakenFacts
<1>3. \A k \in Nonces : InMap(k)' <=> InMap(k)
  BY DEF InMap
<1>4. \A v \in Users : sessions[v] # n
  BY <1>2 DEF InMap
<1>5. MapInv'
  <2>1. /\ \A v, w \in Users : sessions[v] # NoNonce /\ sessions[v] = sessions[w] => v = w
        /\ \A v \in Users : sessions[v] # NoNonce => wiz[sessions[v]].state \notin {"none", "cleared"}
    BY DEF SessionsInv, MapInv
  <2>2. \A v \in Users : sessions[v] # NoNonce => wiz'[sessions[v]].state \notin {"none", "cleared"}
    BY <1>1, <1>4, <2>1
  <2> QED
    BY <1>2, <2>1, <2>2 DEF MapInv
<1>6. HandlerInv(h)'
  BY DEF AtRest, HandlerInv, Found, Taken
<1>7. WizardInv(n) /\ Remembered(n)
  BY DEF SessionsInv
<1>8. ~InMap(n)'
  BY <1>2, <1>3
<1>9. CASE /\ wiz'[n] = wiz[n] /\ cancelling'[n] = cancelling[n]
           /\ \/ handler[h].pc = "progress" /\ worker'[n] = "deploy"
              \/ handler[h].pc = "status" /\ worker'[n] = "server"
  <2>1. WizardInv(n)'
    BY <1>2, <1>7, <1>8, <1>9 DEF WizardInv, PasswordStates
  <2>2. handler[h].pc = "status" => deps[n] # "prepared"
    BY <1>2, <1>7 DEF WizardInv, PasswordStates
  <2>3. Remembered(n)'
    BY <1>9, <2>2 DEF Remembered
  <2>4. ASSUME NEW k \in Nonces \ {n} PROVE Untouched(k)
    BY <1>3, StepUntouched DEF AtRest, Taken
  <2> HIDE DEF Untouched
  <2> QED
    BY <1>1, <1>5, <1>6, <2>1, <2>3, <2>4, FromParts
<1>10. CASE /\ wiz'[n].state = "cleared" /\ wiz'[n].prepared = FALSE /\ wiz'[n].secret = FALSE
            /\ worker'[n] = worker[n]
            /\ wiz[n].prepared => cancelling'[n] # {}
  <2>1. WizardInv(n)'
    BY <1>2, <1>7, <1>8, <1>10 DEF WizardInv, PasswordStates
  <2>2. deps[n] = "prepared" => wiz[n].prepared
    <3>1. SUFFICES ASSUME deps[n] = "prepared", ~wiz[n].prepared PROVE FALSE
      OBVIOUS
    <3>2. InHand(n, {"prepared", "show", "progress"})
      BY <3>1, <1>2, <1>7 DEF Remembered
    <3>3. handler[h].pc = "progress"
      BY <3>2, HandFacts DEF Taken
    <3> QED
      BY <3>1, <3>3, <1>2, <1>7 DEF WizardInv
  <2>3. Remembered(n)'
    BY <1>10, <2>2 DEF Remembered
  <2>4. ASSUME NEW k \in Nonces \ {n} PROVE Untouched(k)
    BY <1>3, StepUntouched DEF AtRest, Taken
  <2> HIDE DEF Untouched
  <2> QED
    BY <1>1, <1>5, <1>6, <2>1, <2>3, <2>4, FromParts
<1> QED
  BY <1>9, <1>10

\* The goroutine of the operation starts with the wizard.
LEMMA SentInv ==
  ASSUME SessionsInv, NEW h, Handlers = {h}, ProgressSent(h) \/ StatusSent(h)
  PROVE  SessionsInv'
<1>1. /\ handler[h].pc \in {"progress", "status"} /\ handler[h].pc \in Taken /\ Return(h)
      /\ UNCHANGED <<sessions, wiz, cancelling, deps, uses, phase>>
  BY DEF ProgressSent, StatusSent, At, Taken
<1>2. PICK n \in Nonces : n = handler[h].nonce
  BY <1>1, TakenFacts
<1>3. handler' \in [Handlers -> HandlerRecords] /\ AtRest(h)'
  BY <1>1, ReturnFacts
<1>4. /\ worker \in [Nonces -> {"none", "deploy", "server", "running"}]
      /\ wiz' \in [Nonces -> Wizards] /\ cancelling' \in [Nonces -> SUBSET {"run", "timer", "close"}]
  BY <1>1, TypeFacts
<1>5. \/ handler[h].pc = "progress" /\ worker' = [worker EXCEPT ![n] = "deploy"]
      \/ handler[h].pc = "status" /\ worker' = [worker EXCEPT ![n] = "server"]
  BY <1>2 DEF ProgressSent, StatusSent, At
<1>6. /\ worker' \in [Nonces -> {"none", "deploy", "server", "running"}]
      /\ \A k \in Nonces \ {n} : worker'[k] = worker[k]
      /\ \/ handler[h].pc = "progress" /\ worker'[n] = "deploy"
         \/ handler[h].pc = "status" /\ worker'[n] = "server"
  BY <1>4, <1>5
<1> QED
  BY <1>1, <1>2, <1>3, <1>4, <1>6, ReleaseInv

\* The handler could not tell the operator, or has done the work itself.
LEMMA TakenClearedInv ==
  ASSUME SessionsInv, NEW h, Handlers = {h}, StatusLost(h) \/ NodeIPReplaced(h) \/ ProgressLost(h)
  PROVE  SessionsInv'
<1>1. /\ handler[h].pc \in Taken
      /\ UNCHANGED <<sessions, worker, deps, uses, phase>>
  BY DEF StatusLost, NodeIPReplaced, ProgressLost, At, Taken
<1>2. PICK n \in Nonces : n = handler[h].nonce
  BY <1>1, TakenFacts
<1>3. handler' \in [Handlers -> HandlerRecords] /\ AtRest(h)'
  BY <1>2, ReturnFacts DEF StatusLost, NodeIPReplaced, ProgressLost
<1>4. wiz' = Cleared(n)
  BY <1>2 DEF StatusLost, NodeIPReplaced, ProgressLost
<1>5. /\ wiz' \in [Nonces -> Wizards]
      /\ wiz'[n].state = "cleared" /\ wiz'[n].prepared = FALSE /\ wiz'[n].secret = FALSE
      /\ \A k \in Nonces \ {n} : wiz'[k] = wiz[k]
  BY <1>4, ClearedFacts
<1>6. /\ cancelling' \in [Nonces -> SUBSET {"run", "timer", "close"}]
      /\ wiz[n].prepared => cancelling'[n] # {}
      /\ \A k \in Nonces \ {n} : cancelling'[k] = cancelling[k]
  <2>1. CASE ProgressLost(h)
    <3>1. cancelling' = Calling(n, "run")
      BY <1>2, <2>1 DEF ProgressLost
    <3> QED
      BY <3>1, CallingFacts
  <2>2. CASE StatusLost(h) \/ NodeIPReplaced(h)
    <3>1. UNCHANGED cancelling /\ handler[h].pc \in {"status", "replace"}
      BY <2>2 DEF StatusLost, NodeIPReplaced, At
    <3>2. wiz[n].state # "AwaitingConfirmation"
      BY <1>1, <1>2, <3>1, TakenFacts DEF PasswordStates
    <3>3. ~wiz[n].prepared
      BY <3>2 DEF SessionsInv, WizardInv
    <3> QED
      BY <3>1, <3>3, TypeFacts
  <2> QED
    BY <2>1, <2>2
<1>7. worker' \in [Nonces -> {"none", "deploy", "server", "running"}]
  BY <1>1, TypeFacts
<1> QED
  BY <1>1, <1>2, <1>3, <1>5, <1>6, <1>7, ReleaseInv

(***************************************************************************)
(* Goroutines, timers and the shutdown.                                     *)
(***************************************************************************)
\* A step outside the handler, on the wizard n, of which the handler can only
\* see what it does not rely on.
LEMMA OutsideInv ==
  ASSUME SessionsInv, NEW h, Handlers = {h}, NEW n \in Nonces,
         wiz' \in [Nonces -> Wizards],
         worker' \in [Nonces -> {"none", "deploy", "server", "running"}],
         cancelling' \in [Nonces -> SUBSET {"run", "timer", "close"}],
         deps' \in [Nonces -> {"none", "prepared", "handed", "cancelled", "refused", "lost"}],
         uses' \in [Nonces -> Nat],
         \A k \in Nonces \ {n} : /\ wiz'[k] = wiz[k] /\ worker'[k] = worker[k]
                                 /\ cancelling'[k] = cancelling[k] /\ deps'[k] = deps[k]
                                 /\ uses'[k] = uses[k],
         InMap(n) => wiz'[n].state = wiz[n].state,
         worker[n] = "none" => /\ wiz'[n].state = wiz[n].state /\ worker'[n] = "none"
                               /\ cancelling[n] = {} => cancelling'[n] = {}
                               /\ deps'[n] = "handed" => deps[n] = "handed"
                               /\ deps[n] = "none" => deps'[n] = "none"
                               /\ uses'[n] = uses[n],
         UNCHANGED <<sessions, handler, phase>>,
         WizardInv(n)', Remembered(n)'
  PROVE  SessionsInv'
<1>1. /\ sessions \in [Users -> Nonces \cup {NoNonce}] /\ NoNonce \notin Nonces
      /\ sessions' \in [Users -> Nonces \cup {NoNonce}]
      /\ handler' \in [Handlers -> HandlerRecords]
      /\ phase' \in {"run", "stopping", "closed", "exited"}
  BY TypeFacts, SessionsAssumption
<1>2. \A k \in Nonces : InMap(k)' <=> InMap(k)
  BY DEF InMap
<1>3. MapInv'
  <2>1. /\ \A v, w \in Users : sessions[v] # NoNonce /\ sessions[v] = sessions[w] => v = w
        /\ \A v \in Users : sessions[v] # NoNonce => wiz[sessions[v]].state \notin {"none", "cleared"}
        /\ phase \in {"closed", "exited"} =>
             /\ \A u \in Users : sessions[u] = NoNonce
             /\ \A g \in Handlers : handler[g].pc = "idle"
    BY DEF SessionsInv, MapInv
  <2>2. \A v \in Users : sessions[v] # NoNonce => wiz'[sessions[v]].state \notin {"none", "cleared"}
    BY <1>1, <2>1 DEF InMap
  <2> QED
    BY <2>1, <2>2 DEF MapInv
<1>4. HandlerInv(h)'
  <2> DEFINE k == handler[h].nonce  w == handler[h].user  pc == handler[h].pc
  <2>1. HandlerInv(h) /\ Expected(h)' = Expected(h)
    BY DEF SessionsInv, Expected
  <2>2. pc \in Found \cup Taken => k \in Nonces /\ worker[k] = "none"
    BY <2>1 DEF HandlerInv
  <2>3. pc \in Found \cup Taken =>
          /\ wiz'[k].state = wiz[k].state /\ worker'[k] = "none"
          /\ cancelling[k] = {} => cancelling'[k] = {}
          /\ deps'[k] = "handed" => deps[k] = "handed"
          /\ deps[k] = "none" => deps'[k] = "none"
          /\ uses'[k] = uses[k]
    BY <2>2
  <2>4. k = handler'[h].nonce /\ w = handler'[h].user /\ pc = handler'[h].pc
    OBVIOUS
  <2> QED
    BY <2>1, <2>2, <2>3, <2>4 DEF HandlerInv, Found, Taken
<1>5. ASSUME NEW k \in Nonces \ {n} PROVE Untouched(k)
  <2>1. /\ InHand(k, Taken)' <=> InHand(k, Taken)
        /\ InHand(k, {"replace"})' <=> InHand(k, {"replace"})
        /\ InHand(k, {"prepared", "show", "progress"})' <=> InHand(k, {"prepared", "show", "progress"})
    BY HandFacts
  <2> QED
    BY <1>2, <2>1 DEF Untouched
<1> HIDE DEF Untouched
<1> QED
  BY <1>1, <1>3, <1>4, <1>5, FromParts

\* The operator cancels a deployment by its name.
LEMMA OperatorCancelsInv ==
  ASSUME SessionsInv, NEW h, Handlers = {h}, NEW n \in Nonces, OperatorCancels(n)
  PROVE  SessionsInv'
<1>1. /\ deps[n] \in {"prepared", "refused", "lost"} /\ deps' = [deps EXCEPT ![n] = "cancelled"]
      /\ UNCHANGED <<sessions, wiz, handler, worker, cancelling, uses, phase>>
  BY DEF OperatorCancels
<1>2. /\ deps \in [Nonces -> {"none", "prepared", "handed", "cancelled", "refused", "lost"}]
      /\ wiz' \in [Nonces -> Wizards]
      /\ worker' \in [Nonces -> {"none", "deploy", "server", "running"}]
      /\ cancelling' \in [Nonces -> SUBSET {"run", "timer", "close"}]
      /\ uses' \in [Nonces -> Nat]
  BY <1>1, TypeFacts
<1>3. /\ deps' \in [Nonces -> {"none", "prepared", "handed", "cancelled", "refused", "lost"}]
      /\ deps'[n] = "cancelled" /\ \A k \in Nonces \ {n} : deps'[k] = deps[k]
  BY <1>1, <1>2
<1>4. WizardInv(n) /\ (InMap(n)' <=> InMap(n))
      /\ (InHand(n, Taken)' <=> InHand(n, Taken)) /\ (InHand(n, {"replace"})' <=> InHand(n, {"replace"}))
  BY <1>1, HandFacts DEF SessionsInv, InMap
<1>5. WizardInv(n)' /\ Remembered(n)'
  BY <1>1, <1>3, <1>4 DEF WizardInv, Remembered
<1>6. \A k \in Nonces \ {n} : /\ wiz'[k] = wiz[k] /\ worker'[k] = worker[k]
                              /\ cancelling'[k] = cancelling[k] /\ deps'[k] = deps[k]
                              /\ uses'[k] = uses[k]
  BY <1>1, <1>3
<1>7. worker[n] = "none" => /\ wiz'[n].state = wiz[n].state /\ worker'[n] = "none"
                            /\ cancelling[n] = {} => cancelling'[n] = {}
                            /\ deps'[n] = "handed" => deps[n] = "handed"
                            /\ deps[n] = "none" => deps'[n] = "none"
                            /\ uses'[n] = uses[n]
  BY <1>1, <1>3
<1> QED
  BY <1>1, <1>2, <1>3, <1>5, <1>6, <1>7, OutsideInv

\* The goroutine executes the operation.
LEMMA WorkerCallsInv ==
  ASSUME SessionsInv, NEW h, Handlers = {h}, NEW n \in Nonces, WorkerCalls(n)
  PROVE  SessionsInv'
<1>1. /\ worker[n] \in {"deploy", "server"} /\ worker' = [worker EXCEPT ![n] = "running"]
      /\ uses' = [uses EXCEPT ![n] = @ + 1]
      /\ UNCHANGED <<sessions, wiz, handler, cancelling, phase>>
  BY DEF WorkerCalls
<1>2. /\ deps \in [Nonces -> {"none", "prepared", "handed", "cancelled", "refused", "lost"}]
      /\ worker \in [Nonces -> {"none", "deploy", "server", "running"}]
      /\ uses \in [Nonces -> Nat]
      /\ wiz' \in [Nonces -> Wizards]
      /\ cancelling' \in [Nonces -> SUBSET {"run", "timer", "close"}]
  BY <1>1, TypeFacts
<1>3. /\ deps' \in [Nonces -> {"none", "prepared", "handed", "cancelled", "refused", "lost"}]
      /\ \A k \in Nonces \ {n} : deps'[k] = deps[k]
      /\ deps'[n] = deps[n] \/ (deps[n] = "prepared" /\ deps'[n] \in {"handed", "refused", "lost"})
      /\ worker[n] = "deploy" => deps'[n] # "prepared"
      /\ worker[n] = "server" => deps'[n] = deps[n]
  BY <1>1, <1>2 DEF WorkerCalls
<1>4. WizardInv(n) /\ Remembered(n) /\ HandlerInv(h)
  BY DEF SessionsInv
<1>5. /\ (InMap(n)' <=> InMap(n))
      /\ (InHand(n, Taken)' <=> InHand(n, Taken)) /\ (InHand(n, {"replace"})' <=> InHand(n, {"replace"}))
  BY <1>1, HandFacts DEF InMap
<1>6. /\ ~InMap(n) /\ wiz[n].state \in {"AwaitingConfirmation"} \cup PasswordStates
      /\ worker[n] = "server" => wiz[n].state \in PasswordStates
      /\ cancelling[n] = {}
  BY <1>1, <1>4 DEF WizardInv, PasswordStates
<1>7. ~(handler[h].nonce = n /\ handler[h].pc \in Found \cup Taken)
  BY <1>1, <1>4 DEF HandlerInv
<1>8. uses[n] = 0
  <2>1. ~InHand(n, {"replace"})
    BY <1>7, HandFacts DEF Taken
  <2>2. uses[n] # 1 /\ uses[n] <= 1
    BY <1>1, <1>4, <1>6, <2>1 DEF WizardInv, PasswordStates
  <2> QED
    BY <1>2, <2>2
<1>9. /\ worker' \in [Nonces -> {"none", "deploy", "server", "running"}] /\ worker'[n] = "running"
      /\ uses' \in [Nonces -> Nat] /\ uses'[n] = 1
      /\ \A k \in Nonces \ {n} : worker'[k] = worker[k] /\ uses'[k] = uses[k]
  BY <1>1, <1>2, <1>8
<1>10. WizardInv(n)'
  <2>1. wiz'[n] = wiz[n] /\ cancelling'[n] = {} /\ ~InMap(n)'
    BY <1>1, <1>5, <1>6
  <2>2. deps'[n] # "none" => deps[n] # "none"
    BY <1>3
  <2> QED
    BY <1>4, <1>6, <1>9, <2>1, <2>2 DEF WizardInv, PasswordStates
<1>11. Remembered(n)'
  <2>1. worker[n] = "server" => deps[n] # "prepared"
    BY <1>4, <1>6 DEF WizardInv, PasswordStates
  <2> QED
    BY <1>1, <1>3, <2>1 DEF Remembered
<1>12. \A k \in Nonces \ {n} : /\ wiz'[k] = wiz[k] /\ worker'[k] = worker[k]
                               /\ cancelling'[k] = cancelling[k] /\ deps'[k] = deps[k]
                               /\ uses'[k] = uses[k]
  BY <1>1, <1>3, <1>9
<1> QED
  BY <1>1, <1>2, <1>3, <1>6, <1>9, <1>10, <1>11, <1>12, OutsideInv

\* The goroutine ends and clears its wizard: its deployment is no longer prepared.
LEMMA WorkerEndsInv ==
  ASSUME SessionsInv, NEW h, Handlers = {h}, NEW n \in Nonces, WorkerEnds(n)
  PROVE  SessionsInv'
<1>1. /\ worker[n] = "running" /\ worker' = [worker EXCEPT ![n] = "none"] /\ wiz' = Cleared(n)
      /\ UNCHANGED <<sessions, handler, cancelling, deps, uses, phase>>
  BY DEF WorkerEnds
<1>2. /\ worker \in [Nonces -> {"none", "deploy", "server", "running"}]
      /\ deps' \in [Nonces -> {"none", "prepared", "handed", "cancelled", "refused", "lost"}]
      /\ cancelling' \in [Nonces -> SUBSET {"run", "timer", "close"}]
      /\ uses' \in [Nonces -> Nat]
  BY <1>1, TypeFacts
<1>3. /\ worker' \in [Nonces -> {"none", "deploy", "server", "running"}]
      /\ worker'[n] = "none" /\ \A k \in Nonces \ {n} : worker'[k] = worker[k]
  BY <1>1, <1>2
<1>4. /\ wiz' \in [Nonces -> Wizards]
      /\ wiz'[n].state = "cleared" /\ wiz'[n].prepared = FALSE /\ wiz'[n].secret = FALSE
      /\ \A k \in Nonces \ {n} : wiz'[k] = wiz[k]
  BY <1>1, ClearedFacts
<1>5. WizardInv(n) /\ Remembered(n) /\ HandlerInv(h)
  BY DEF SessionsInv
<1>6. ~InMap(n) /\ ~InMap(n)' /\ cancelling[n] = {}
  BY <1>1, <1>5 DEF WizardInv, InMap, PasswordStates
<1>7. deps[n] # "prepared"
  <2>1. ~InHand(n, {"prepared", "show", "progress"})
    BY <1>1, <1>5, HandFacts DEF HandlerInv, Found, Taken
  <2> QED
    BY <1>1, <1>5, <1>6, <2>1 DEF Remembered
<1>8. WizardInv(n)' /\ Remembered(n)'
  BY <1>1, <1>3, <1>4, <1>5, <1>6, <1>7 DEF WizardInv, Remembered, PasswordStates
<1>9. \A k \in Nonces \ {n} : /\ wiz'[k] = wiz[k] /\ worker'[k] = worker[k]
                              /\ cancelling'[k] = cancelling[k] /\ deps'[k] = deps[k]
                              /\ uses'[k] = uses[k]
  BY <1>1, <1>3, <1>4
<1> QED
  BY <1>1, <1>2, <1>3, <1>4, <1>6, <1>8, <1>9, OutsideInv

\* A CancelDeployment returns.
LEMMA CancelCallInv ==
  ASSUME SessionsInv, NEW h, Handlers = {h}, NEW n \in Nonces, NEW c, CancelCall(n, c)
  PROVE  SessionsInv'
<1>1. /\ c \in cancelling[n] /\ cancelling' = [cancelling EXCEPT ![n] = @ \ {c}]
      /\ UNCHANGED <<sessions, wiz, handler, worker, uses, phase>>
  BY DEF CancelCall
<1>2. /\ deps \in [Nonces -> {"none", "prepared", "handed", "cancelled", "refused", "lost"}]
      /\ cancelling \in [Nonces -> SUBSET {"run", "timer", "close"}]
      /\ wiz' \in [Nonces -> Wizards]
      /\ worker' \in [Nonces -> {"none", "deploy", "server", "running"}]
      /\ uses' \in [Nonces -> Nat]
  BY <1>1, TypeFacts
<1>3. /\ cancelling' \in [Nonces -> SUBSET {"run", "timer", "close"}]
      /\ cancelling'[n] = cancelling[n] \ {c}
      /\ \A k \in Nonces \ {n} : cancelling'[k] = cancelling[k]
  BY <1>1, <1>2
<1>4. /\ deps' \in [Nonces -> {"none", "prepared", "handed", "cancelled", "refused", "lost"}]
      /\ \A k \in Nonces \ {n} : deps'[k] = deps[k]
      /\ deps'[n] = deps[n] \/ (deps[n] = "prepared" /\ deps'[n] \in {"cancelled", "refused", "lost"})
      /\ deps'[n] = "prepared" => cancelling[n] # {c}
  BY <1>2 DEF CancelCall
<1>5. WizardInv(n) /\ (InMap(n)' <=> InMap(n))
      /\ (InHand(n, Taken)' <=> InHand(n, Taken)) /\ (InHand(n, {"replace"})' <=> InHand(n, {"replace"}))
  BY <1>1, HandFacts DEF SessionsInv, InMap
<1>6. WizardInv(n)'
  BY <1>1, <1>3, <1>4, <1>5 DEF WizardInv
<1>7. Remembered(n)'
  <2>1. deps'[n] = "prepared" => cancelling'[n] # {}
    BY <1>1, <1>3, <1>4
  <2> QED
    BY <2>1 DEF Remembered
<1>8. \A k \in Nonces \ {n} : /\ wiz'[k] = wiz[k] /\ worker'[k] = worker[k]
                              /\ cancelling'[k] = cancelling[k] /\ deps'[k] = deps[k]
                              /\ uses'[k] = uses[k]
  BY <1>1, <1>3, <1>4
<1>9. /\ wiz'[n].state = wiz[n].state /\ (worker[n] = "none" => worker'[n] = "none")
      /\ cancelling[n] = {} => cancelling'[n] = {}
      /\ deps'[n] = "handed" => deps[n] = "handed"
      /\ deps[n] = "none" => deps'[n] = "none"
      /\ uses'[n] = uses[n]
  BY <1>1, <1>3, <1>4
<1> QED
  BY <1>1, <1>2, <1>3, <1>4, <1>6, <1>7, <1>8, <1>9, OutsideInv

\* The deadline of a session passes.
LEMMA TTLPassesInv ==
  ASSUME SessionsInv, NEW h, Handlers = {h}, NEW u \in Users, TTLPasses(u)
  PROVE  SessionsInv'
<1>1. /\ sessions[u] # NoNonce /\ wiz' = [wiz EXCEPT ![sessions[u]].due = TRUE]
      /\ UNCHANGED <<sessions, handler, worker, cancelling, deps, uses, phase>>
  BY DEF TTLPasses
<1>2. /\ sessions \in [Users -> Nonces \cup {NoNonce}] /\ wiz \in [Nonces -> Wizards]
      /\ worker' \in [Nonces -> {"none", "deploy", "server", "running"}]
      /\ deps' \in [Nonces -> {"none", "prepared", "handed", "cancelled", "refused", "lost"}]
      /\ cancelling' \in [Nonces -> SUBSET {"run", "timer", "close"}]
      /\ uses' \in [Nonces -> Nat]
  BY <1>1, TypeFacts
<1>3. PICK n \in Nonces : sessions[u] = n
  BY <1>1, <1>2
<1> DEFINE new == [wiz[n] EXCEPT !.due = TRUE]
<1>4. /\ new \in Wizards /\ new.state = wiz[n].state /\ new.prepared = wiz[n].prepared
      /\ new.secret = wiz[n].secret
  <2>1. wiz[n] \in Wizards
    BY <1>2
  <2> QED
    BY <2>1 DEF Wizards
<1>5. wiz' = [wiz EXCEPT ![n] = new]
  BY <1>1, <1>2, <1>3
<1> HIDE DEF new
<1>6. /\ wiz' \in [Nonces -> Wizards] /\ wiz'[n] = new
      /\ \A k \in Nonces \ {n} : wiz'[k] = wiz[k]
  BY <1>2, <1>4, <1>5
<1>7. WizardInv(n) /\ Remembered(n) /\ (InMap(n)' <=> InMap(n))
      /\ (InHand(n, Taken)' <=> InHand(n, Taken)) /\ (InHand(n, {"replace"})' <=> InHand(n, {"replace"}))
      /\ (InHand(n, {"prepared", "show", "progress"})' <=> InHand(n, {"prepared", "show", "progress"}))
  BY <1>1, HandFacts DEF SessionsInv, InMap
<1>8. WizardInv(n)'
  BY <1>1, <1>4, <1>6, <1>7 DEF WizardInv
<1>9. Remembered(n)'
  BY <1>1, <1>4, <1>6, <1>7 DEF Remembered
<1>10. \A k \in Nonces \ {n} : /\ wiz'[k] = wiz[k] /\ worker'[k] = worker[k]
                               /\ cancelling'[k] = cancelling[k] /\ deps'[k] = deps[k]
                               /\ uses'[k] = uses[k]
  BY <1>1, <1>6
<1> QED
  BY <1>1, <1>2, <1>4, <1>6, <1>8, <1>9, <1>10, OutsideInv

\* The timer of a session fires.
LEMMA TimerFiresInv ==
  ASSUME SessionsInv, NEW h, Handlers = {h}, NEW u \in Users, TimerFires(u)
  PROVE  SessionsInv'
<1>1. /\ sessions[u] # NoNonce /\ sessions' = Gone(u) /\ wiz' = Cleared(sessions[u])
      /\ cancelling' = Calling(sessions[u], "timer")
      /\ UNCHANGED <<handler, worker, deps, uses, phase>>
  BY DEF TimerFires, Due, Expire
<1>2. sessions \in [Users -> Nonces \cup {NoNonce}] /\ handler' \in [Handlers -> HandlerRecords]
  BY <1>1, TypeFacts
<1>3. PICK n \in Nonces : sessions[u] = n
  BY <1>1, <1>2
<1>4. /\ cancelling' \in [Nonces -> SUBSET {"run", "timer", "close"}]
      /\ wiz[n].prepared => cancelling'[n] # {}
      /\ ~wiz[n].prepared => cancelling'[n] = cancelling[n]
      /\ \A k \in Nonces \ {n} : cancelling'[k] = cancelling[k]
  BY <1>1, <1>3, CallingFacts
<1> QED
  BY <1>1, <1>2, <1>3, <1>4, DropInv

\* The shutdown begins.
LEMMA StopInv ==
  ASSUME SessionsInv, NEW h, Handlers = {h}, Stop
  PROVE  SessionsInv'
<1>1. /\ phase' = "stopping" /\ UNCHANGED <<sessions, wiz, handler, worker, cancelling, deps, uses>>
  BY DEF Stop
<1>2. /\ sessions' \in [Users -> Nonces \cup {NoNonce}] /\ wiz' \in [Nonces -> Wizards]
      /\ handler' \in [Handlers -> HandlerRecords]
      /\ worker' \in [Nonces -> {"none", "deploy", "server", "running"}]
      /\ cancelling' \in [Nonces -> SUBSET {"run", "timer", "close"}]
      /\ deps' \in [Nonces -> {"none", "prepared", "handed", "cancelled", "refused", "lost"}]
      /\ uses' \in [Nonces -> Nat] /\ NoNonce \notin Nonces
  BY <1>1, TypeFacts, SessionsAssumption
<1>3. MapInv'
  BY <1>1 DEF SessionsInv, MapInv
<1>4. HandlerInv(h)'
  <2>1. HandlerInv(h) /\ Expected(h)' = Expected(h)
    BY <1>1 DEF SessionsInv, Expected
  <2> QED
    BY <1>1, <2>1 DEF HandlerInv
<1>5. ASSUME NEW k \in Nonces PROVE Untouched(k)
  BY <1>1, HandFacts DEF Untouched, InMap
<1> HIDE DEF Untouched
<1> QED
  BY <1>1, <1>2, <1>3, <1>4, <1>5, FromParts

\* Close empties the map, and cancels what was prepared for the sessions in it.
LEMMA CloseInv ==
  ASSUME SessionsInv, NEW h, Handlers = {h}, Close
  PROVE  SessionsInv'
<1> DEFINE held == {n \in Nonces : \E u \in Users : sessions[u] = n}
           gone == [Unused EXCEPT !.state = "cleared"]
<1>1. /\ handler[h].pc = "idle" /\ phase' = "closed" /\ sessions' = [u \in Users |-> NoNonce]
      /\ wiz' = [n \in Nonces |-> IF n \in held THEN gone ELSE wiz[n]]
      /\ cancelling' = [n \in Nonces |-> IF n \in held /\ wiz[n].prepared
                                           THEN cancelling[n] \cup {"close"} ELSE cancelling[n]]
      /\ UNCHANGED <<handler, worker, deps, uses>>
  BY DEF Close, At
<1>2. /\ wiz \in [Nonces -> Wizards] /\ cancelling \in [Nonces -> SUBSET {"run", "timer", "close"}]
      /\ handler' \in [Handlers -> HandlerRecords]
      /\ worker' \in [Nonces -> {"none", "deploy", "server", "running"}]
      /\ deps' \in [Nonces -> {"none", "prepared", "handed", "cancelled", "refused", "lost"}]
      /\ uses' \in [Nonces -> Nat] /\ NoNonce \notin Nonces
  BY <1>1, TypeFacts, SessionsAssumption
<1>3. /\ gone \in Wizards /\ gone.state = "cleared" /\ gone.prepared = FALSE /\ gone.secret = FALSE
  <2>1. "cleared" \in WizardStates
    BY SpecialStates
  <2> QED
    BY <2>1 DEF Unused, Wizards
<1>4. \A n \in Nonces : n \in held <=> InMap(n)
  BY DEF InMap
<1> HIDE DEF held, gone
<1>5. /\ sessions' \in [Users -> Nonces \cup {NoNonce}]
      /\ wiz' \in [Nonces -> Wizards]
      /\ cancelling' \in [Nonces -> SUBSET {"run", "timer", "close"}]
      /\ phase' \in {"run", "stopping", "closed", "exited"}
  BY <1>1, <1>2, <1>3
<1>6. SessionsTypeOK'
  BY <1>2, <1>5 DEF SessionsTypeOK, Wizards, HandlerRecords, HandlerPCs
<1>7. MapInv'
  BY <1>1 DEF MapInv
<1>8. \A g \in Handlers : HandlerInv(g)'
  BY <1>1 DEF HandlerInv, Found, Taken
<1>9. ASSUME NEW n \in Nonces PROVE WizardInv(n)' /\ Remembered(n)'
  <2>1. WizardInv(n) /\ Remembered(n)
    BY DEF SessionsInv
  <2>2. /\ ~InMap(n)'
        /\ ~InHand(n, Taken) /\ ~InHand(n, {"replace"}) /\ ~InHand(n, {"prepared", "show", "progress"})
        /\ ~InHand(n, Taken)' /\ ~InHand(n, {"replace"})'
        /\ ~InHand(n, {"prepared", "show", "progress"})'
    BY <1>1, <1>2, HandFacts DEF InMap, Taken
  <2>3. CASE ~InMap(n)
    <3>1. wiz'[n] = wiz[n] /\ cancelling'[n] = cancelling[n]
      BY <1>1, <1>4, <2>3
    <3> QED
      BY <1>1, <2>1, <2>2, <2>3, <3>1 DEF WizardInv, Remembered
  <2>4. CASE InMap(n)
    <3>1. wiz'[n] = gone /\ (wiz[n].prepared => cancelling'[n] # {})
          /\ (~wiz[n].prepared => cancelling'[n] = cancelling[n])
      BY <1>1, <1>2, <1>4, <2>4
    <3>2. wiz[n].state \notin {"none", "cleared"}
      BY <1>2, <2>4 DEF InMap, SessionsInv, MapInv
    <3>3. worker[n] = "none" /\ cancelling[n] = {} /\ deps[n] # "handed"
      BY <2>1, <2>4, <3>2 DEF WizardInv
    <3>4. WizardInv(n)'
      BY <1>1, <1>3, <2>1, <2>2, <3>1, <3>3 DEF WizardInv, PasswordStates
    <3>5. Remembered(n)'
      BY <1>1, <2>1, <2>2, <3>1, <3>3 DEF Remembered
    <3> QED
      BY <3>4, <3>5
  <2> QED
    BY <2>3, <2>4
<1> QED
  BY <1>6, <1>7, <1>8, <1>9 DEF SessionsInv

\* The process ends: a call that was under way counts as lost.
LEMMA ExitInv ==
  ASSUME SessionsInv, NEW h, Handlers = {h}, Exit
  PROVE  SessionsInv'
<1>1. /\ phase = "closed" /\ phase' = "exited" /\ \A n \in Nonces : worker[n] = "none"
      /\ deps' = [n \in Nonces |-> IF deps[n] = "prepared" /\ cancelling[n] # {} THEN "lost" ELSE deps[n]]
      /\ cancelling' = [n \in Nonces |-> {}]
      /\ UNCHANGED <<sessions, wiz, handler, worker, uses>>
  BY DEF Exit
<1>2. /\ deps \in [Nonces -> {"none", "prepared", "handed", "cancelled", "refused", "lost"}]
      /\ sessions' \in [Users -> Nonces \cup {NoNonce}] /\ wiz' \in [Nonces -> Wizards]
      /\ handler' \in [Handlers -> HandlerRecords]
      /\ worker' \in [Nonces -> {"none", "deploy", "server", "running"}]
      /\ uses' \in [Nonces -> Nat] /\ NoNonce \notin Nonces
  BY <1>1, TypeFacts, SessionsAssumption
<1>3. /\ deps' \in [Nonces -> {"none", "prepared", "handed", "cancelled", "refused", "lost"}]
      /\ cancelling' \in [Nonces -> SUBSET {"run", "timer", "close"}]
      /\ phase' \in {"run", "stopping", "closed", "exited"}
  BY <1>1, <1>2
<1>4. SessionsTypeOK'
  BY <1>2, <1>3 DEF SessionsTypeOK, Wizards, HandlerRecords, HandlerPCs
<1>5. /\ \A u \in Users : sessions[u] = NoNonce
      /\ \A g \in Handlers : handler[g].pc = "idle"
  BY <1>1 DEF SessionsInv, MapInv
<1>6. MapInv'
  BY <1>1, <1>5 DEF MapInv
<1>7. \A g \in Handlers : HandlerInv(g)'
  BY <1>1, <1>5 DEF HandlerInv, Found, Taken
<1>8. ASSUME NEW n \in Nonces PROVE WizardInv(n)' /\ Remembered(n)'
  <2>1. WizardInv(n) /\ Remembered(n)
    BY DEF SessionsInv
  <2>2. /\ ~InMap(n) /\ ~InMap(n)'
        /\ ~InHand(n, Taken) /\ ~InHand(n, {"replace"}) /\ ~InHand(n, {"prepared", "show", "progress"})
        /\ ~InHand(n, Taken)' /\ ~InHand(n, {"replace"})'
    BY <1>1, <1>2, <1>5, HandFacts DEF InMap, Taken
  <2>3. deps[n] = "prepared" => cancelling[n] # {}
    BY <1>1, <2>1, <2>2 DEF Remembered
  <2>4. deps'[n] # "prepared" /\ (deps'[n] = deps[n] \/ (deps[n] = "prepared" /\ deps'[n] = "lost"))
        /\ cancelling'[n] = {}
    BY <1>1, <2>3
  <2> QED
    BY <1>1, <2>1, <2>2, <2>4 DEF WizardInv, Remembered
<1> QED
  BY <1>4, <1>6, <1>7, <1>8 DEF SessionsInv

(***************************************************************************)
(* The theorems: a bot that handles one update at a time, for any number of *)
(* operators and of conversations.                                          *)
(***************************************************************************)
\* No session, and an idle handler.
LEMMA SessionsInitInv ==
  ASSUME NEW h, Handlers = {h}, SessionsInit
  PROVE  SessionsInv
<1>1. "none" \in WizardStates
  BY SpecialStates
<1>2. /\ Unused \in Wizards /\ Unused.state = "none" /\ Unused.prepared = FALSE
      /\ Unused.secret = FALSE
  BY <1>1 DEF Unused, Wizards
<1>3. Idle \in HandlerRecords /\ Idle.pc = "idle"
  BY <1>1 DEF Idle, HandlerRecords, HandlerPCs
<1>4. SessionsTypeOK
  <2>1. wiz \in [Nonces -> Wizards] /\ handler \in [Handlers -> HandlerRecords]
    BY <1>2, <1>3 DEF SessionsInit
  <2> QED
    BY <2>1 DEF SessionsInit, SessionsTypeOK, Wizards, HandlerRecords, HandlerPCs
<1>5. MapInv
  BY DEF SessionsInit, MapInv
<1>6. \A g \in Handlers : HandlerInv(g)
  BY <1>3 DEF SessionsInit, HandlerInv, Found, Taken
<1>7. \A n \in Nonces : WizardInv(n) /\ Remembered(n)
  BY <1>2, SessionsAssumption DEF SessionsInit, WizardInv, Remembered, InMap, PasswordStates
<1> QED
  BY <1>4, <1>5, <1>6, <1>7 DEF SessionsInv

\* Every step of a handler.
LEMMA HandlerStepInv ==
  ASSUME SessionsInv, NEW h, Handlers = {h}, HandlerStep(h)
  PROVE  SessionsInv'
<1>1. CASE Handled(h) \/ BeginNothing(h) \/ Refuse(h)
  <2>1. /\ handler[h].pc \in {"cancel", "begin", "begun", "loaded", "card"} /\ Return(h)
        /\ UNCHANGED <<sessions, wiz, worker, cancelling, deps, uses, phase>>
    BY <1>1 DEF Handled, BeginNothing, Refuse, At
  <2> QED
    BY <2>1, PlainReturnInv
<1>2. CASE BeginSession(h) \/ Begun(h) \/ Advance(h) \/ CardSent(h) \/ PickPanel(h) \/ Leave(h)
  BY <1>2, BeginSessionInv, BegunInv, AdvanceInv, CardSentInv, PickPanelInv, LeaveInv
<1>3. CASE AcceptPassword(h) \/ PreflightPasses(h) \/ PreflightFails(h) \/ Prepared(h)
  BY <1>3, AcceptPasswordInv, PreflightPassesInv, PreflightFailsInv, PreparedInv
<1>4. CASE ConfirmationSent(h) \/ ConfirmationLost(h) \/ StartDeployment(h)
  BY <1>4, ConfirmationSentInv, ConfirmationLostInv, StartDeploymentInv
<1>5. CASE ProgressSent(h) \/ ProgressLost(h) \/ StatusSent(h) \/ StatusLost(h) \/ NodeIPReplaced(h)
  BY <1>5, SentInv, TakenClearedInv
<1>6. CASE AcceptServerPassword(h) \/ AcceptNewNodeIP(h) \/ SyncDNS(h) \/ DNSSynced(h)
  BY <1>6, AcceptServerPasswordInv, AcceptNewNodeIPInv, SyncDNSInv, DNSSyncedInv
<1> QED
  BY <1>1, <1>2, <1>3, <1>4, <1>5, <1>6 DEF HandlerStep

\* The invariant is inductive.
LEMMA SessionsNextInv ==
  ASSUME NEW h, Handlers = {h}, SessionsInv, [SessionsNext]_sessionVars
  PROVE  SessionsInv'
<1>1. CASE UNCHANGED sessionVars
  <2>1. UNCHANGED <<sessions, wiz, handler, worker, cancelling, deps, uses, phase>>
    BY <1>1 DEF sessionVars
  <2>2. /\ sessions' \in [Users -> Nonces \cup {NoNonce}] /\ wiz' \in [Nonces -> Wizards]
        /\ handler' \in [Handlers -> HandlerRecords]
        /\ worker' \in [Nonces -> {"none", "deploy", "server", "running"}]
        /\ cancelling' \in [Nonces -> SUBSET {"run", "timer", "close"}]
        /\ deps' \in [Nonces -> {"none", "prepared", "handed", "cancelled", "refused", "lost"}]
        /\ uses' \in [Nonces -> Nat] /\ NoNonce \notin Nonces
        /\ phase' \in {"run", "stopping", "closed", "exited"}
    BY <2>1, TypeFacts, SessionsAssumption
  <2>3. MapInv'
    BY <2>1 DEF SessionsInv, MapInv
  <2>4. HandlerInv(h)'
    <3>1. HandlerInv(h) /\ Expected(h)' = Expected(h)
      BY <2>1 DEF SessionsInv, Expected
    <3> QED
      BY <2>1, <3>1 DEF HandlerInv
  <2>5. ASSUME NEW k \in Nonces PROVE Untouched(k)
    BY <2>1, HandFacts DEF Untouched, InMap
  <2> HIDE DEF Untouched
  <2> QED
    BY <2>2, <2>3, <2>4, <2>5, FromParts
<1>2. ASSUME NEW u \in Users, Begin(h, u) \/ Load(h, u) PROVE SessionsInv'
  BY <1>2, BeginInv, LoadInv
<1>3. CASE HandlerStep(h)
  BY <1>3, HandlerStepInv
<1>4. ASSUME NEW n \in Nonces, OperatorCancels(n) \/ WorkerCalls(n) \/ WorkerEnds(n)
      PROVE  SessionsInv'
  BY <1>4, OperatorCancelsInv, WorkerCallsInv, WorkerEndsInv
<1>5. ASSUME NEW n \in Nonces, NEW c \in cancelling[n], CancelCall(n, c) PROVE SessionsInv'
  BY <1>5, CancelCallInv
<1>6. ASSUME NEW u \in Users, TTLPasses(u) \/ TimerFires(u) PROVE SessionsInv'
  BY <1>6, TTLPassesInv, TimerFiresInv
<1>7. CASE Stop \/ Close \/ Exit
  BY <1>7, StopInv, CloseInv, ExitInv
<1> QED
  BY <1>1, <1>2, <1>3, <1>4, <1>5, <1>6, <1>7 DEF SessionsNext

\* The invariant holds throughout.
LEMMA SessionsInvariant ==
  ASSUME NEW h, Handlers = {h}
  PROVE  SessionsSpec => []SessionsInv
<1>1. SessionsInit => SessionsInv
  BY SessionsInitInv
<1>2. SessionsInv /\ [SessionsNext]_sessionVars => SessionsInv'
  BY SessionsNextInv
<1> QED
  BY <1>1, <1>2, PTL DEF SessionsSpec

\* acceptPassword, the timers, /cancel, new commands and Close together never
\* forget a prepared deployment: somebody who will settle it still has it.
THEOREM PreparedNeverForgotten ==
  ASSUME NEW h, Handlers = {h}
  PROVE  SessionsSpec => []NeverForgotten
<1>1. SessionsInv => NeverForgotten
  BY DEF SessionsInv, Remembered, NeverForgotten
<1> QED
  BY <1>1, SessionsInvariant, PTL

\* takeSession settles every confirmation once: no operation is executed twice
\* for it, and nothing cancels a deployment that was confirmed.
THEOREM ConfirmationSettledOnce ==
  ASSUME NEW h, Handlers = {h}
  PROVE  SessionsSpec => []SettledOnce
<1>1. ASSUME SessionsInv, NEW n \in Nonces
      PROVE  /\ uses[n] <= 1
             /\ worker[n] # "none" \/ InHand(n, Taken) => cancelling[n] = {} /\ ~InMap(n)
             /\ deps[n] = "handed" => cancelling[n] = {}
  <2>1. WizardInv(n)
    BY <1>1 DEF SessionsInv
  <2>2. uses[n] <= 1 /\ (deps[n] = "handed" => cancelling[n] = {})
    BY <2>1 DEF WizardInv
  <2>3. worker[n] # "none" => cancelling[n] = {} /\ ~InMap(n)
    BY <2>1 DEF WizardInv, PasswordStates
  <2>4. InHand(n, Taken) => cancelling[n] = {} /\ ~InMap(n)
    BY <1>1, HandFacts, TakenFacts
  <2> QED
    BY <2>2, <2>3, <2>4
<1>2. SessionsInv => SettledOnce
  BY <1>1 DEF SettledOnce, Taken
<1> QED
  BY <1>2, SessionsInvariant, PTL

\* A root password is in memory only while somebody is going to clear it, and
\* is never cleared under the operation that uses it.
THEOREM PasswordsAreKept ==
  ASSUME NEW h, Handlers = {h}
  PROVE  SessionsSpec => []PasswordKept
<1>1. ASSUME SessionsInv, NEW n \in Nonces
      PROVE  /\ wiz[n].secret => InMap(n) \/ InHand(n, {"progress", "status"}) \/ worker[n] # "none"
             /\ InHand(n, {"progress", "status"}) \/ worker[n] # "none" => wiz[n].secret
  <2>1. WizardInv(n)
    BY <1>1 DEF SessionsInv
  <2>2. worker[n] # "none" => wiz[n].secret
    BY <2>1 DEF WizardInv
  <2>3. InHand(n, {"progress", "status"}) => wiz[n].secret
    <3>1. SUFFICES ASSUME InHand(n, {"progress", "status"}) PROVE wiz[n].secret
      OBVIOUS
    <3>2. handler[h].nonce = n /\ handler[h].pc \in {"progress", "status"}
      BY <3>1, HandFacts
    <3>3. ~InMap(n) /\ wiz[n].state \in {"AwaitingConfirmation"} \cup PasswordStates
      BY <1>1, <3>2, TakenFacts DEF Taken
    <3> QED
      BY <2>1, <3>3 DEF WizardInv
  <2>4. wiz[n].secret => InMap(n) \/ InHand(n, {"progress", "status"}) \/ worker[n] # "none"
    <3>1. SUFFICES ASSUME wiz[n].secret, ~InMap(n), worker[n] = "none"
                   PROVE  InHand(n, {"progress", "status"})
      OBVIOUS
    <3>2. wiz[n].state \in {"Preflighting", "AwaitingConfirmation"} \cup PasswordStates
      BY <2>1, <3>1 DEF WizardInv
    <3>3. InHand(n, Taken)
      BY <2>1, <3>1, <3>2 DEF WizardInv, PasswordStates
    <3>4. handler[h].nonce = n /\ handler[h].pc \in Taken
      BY <3>3, HandFacts
    <3>5. handler[h].pc # "replace"
      BY <1>1, <3>2, <3>4, TakenFacts DEF PasswordStates
    <3> QED
      BY <3>4, <3>5, HandFacts DEF Taken
  <2> QED
    BY <2>2, <2>3, <2>4
<1>2. SessionsInv => PasswordKept
  BY <1>1 DEF PasswordKept
<1> QED
  BY <1>2, SessionsInvariant, PTL

(***************************************************************************)
(* The monitor.                                                             *)
(***************************************************************************)
States == [consecutive : 0..Confirmations + 1, last : [Operators -> Ages]]

\* What the monitor remembers of a Node is what has happened to it.
Remembers ==
  \A n \in Nodes :
    /\ states[n].consecutive = seen[n]
    /\ states[n].last = heard[n]

MonitorInv == MonitorTypeOK /\ Remembers

\* The count of critical samples and the age of a message stay in their ranges,
\* and so does the entry of a Node that has none.
LEMMA CountedType ==
  ASSUME NEW k \in 0..Confirmations + 1 PROVE Counted(k) \in 0..Confirmations + 1
BY MonitorAssumption DEF Counted

\* Ages are capped.
LEMMA OlderType ==
  ASSUME NEW a \in Ages PROVE Older(a) \in Ages
BY MonitorAssumption DEF Older, Ages

\* The zero entry is an entry.
LEMMA NoStateType == NoState \in States
BY MonitorAssumption DEF NoState, States, Ages

\* What a sample makes of an entry, by the group of the Node.
LEMMA NextStateFacts ==
  ASSUME NEW state \in States, NEW group, NEW alerted
  PROVE  /\ NextState(state, group, alerted) \in States
         /\ group = "critical" =>
              /\ NextState(state, group, alerted).consecutive = Counted(state.consecutive)
              /\ NextState(state, group, alerted).last
                   = [u \in Operators |-> IF u \in alerted THEN 0 ELSE state.last[u]]
         /\ group = "ignored" => NextState(state, group, alerted) = state
         /\ group \notin {"critical", "ignored"} => NextState(state, group, alerted) = NoState
<1>1. 0 \in Ages
  BY MonitorAssumption DEF Ages
<1>2. Counted(state.consecutive) \in 0..Confirmations + 1
  BY CountedType DEF States
<1>3. [u \in Operators |-> IF u \in alerted THEN 0 ELSE state.last[u]] \in [Operators -> Ages]
  BY <1>1 DEF States
<1>4. CASE group = "critical"
  BY <1>2, <1>3, <1>4 DEF NextState, States
<1>5. CASE group = "ignored"
  BY <1>5 DEF NextState
<1>6. CASE group \notin {"critical", "ignored"}
  BY <1>6, NoStateType DEF NextState
<1> QED
  BY <1>4, <1>5, <1>6

\* The history follows the entries through a sample.
LEMMA SampleInv ==
  ASSUME MonitorInv, NEW metrics \in BOOLEAN, NEW told, Sample(metrics, told)
  PROVE  /\ MonitorInv'
         /\ \A n \in Nodes, u \in Operators :
              /\ u \in sent'[n].alert =>
                   seen'[n] >= Confirmations /\ heard[n][u] \in {Never, Repeat}
              /\ u \in sent'[n].recovery => heard[n][u] # Never
<1> DEFINE group(n) == classifyNodePanels(facts[n], metrics)
           alerted(n) == {u \in Operators :
             group(n) = "critical" /\ AlertDue(states[n], u) /\ <<n, u>> \in told}
           recovered(n) == {u \in Operators :
             group(n) = "active" /\ states[n].last[u] # Never /\ <<n, u>> \in told}
<1>1. /\ tick' = FALSE /\ UNCHANGED <<facts, up>>
      /\ states' = [n \in Nodes |-> NextState(states[n], group(n), alerted(n))]
      /\ sent' = [n \in Nodes |-> [alert |-> alerted(n), recovery |-> recovered(n)]]
      /\ seen' = [n \in Nodes |-> IF group(n) = "critical" THEN Counted(seen[n])
                                  ELSE IF group(n) = "ignored" THEN seen[n] ELSE 0]
      /\ heard' = [n \in Nodes |-> [u \in Operators |->
           IF u \in alerted(n) THEN 0
           ELSE IF group(n) \in {"critical", "ignored"} THEN heard[n][u] ELSE Never]]
  BY DEF Sample
<1> HIDE DEF group, alerted, recovered
<1>2. ASSUME NEW n \in Nodes
      PROVE  /\ states'[n] \in States
             /\ states'[n].consecutive = seen'[n]
             /\ states'[n].last = heard'[n]
  <2>1. states[n] \in States /\ states[n].consecutive = seen[n] /\ states[n].last = heard[n]
    BY DEF MonitorInv, MonitorTypeOK, Remembers, States
  <2>2. states'[n] = NextState(states[n], group(n), alerted(n))
    BY <1>1
  <2>6. /\ states'[n] \in States
        /\ group(n) = "critical" =>
             /\ states'[n].consecutive = Counted(states[n].consecutive)
             /\ states'[n].last
                  = [u \in Operators |-> IF u \in alerted(n) THEN 0 ELSE states[n].last[u]]
        /\ group(n) = "ignored" => states'[n] = states[n]
        /\ group(n) \notin {"critical", "ignored"} => states'[n] = NoState
    BY <2>1, <2>2, NextStateFacts
  <2>3. CASE group(n) = "critical"
    <3>1. heard'[n] = [u \in Operators |-> IF u \in alerted(n) THEN 0 ELSE heard[n][u]]
      BY <1>1, <2>3
    <3>2. seen'[n] = Counted(seen[n])
      BY <1>1, <2>3
    <3> QED
      BY <2>1, <2>3, <2>6, <3>1, <3>2
  <2>4. CASE group(n) = "ignored"
    <3>1. alerted(n) = {}
      BY <2>4 DEF alerted
    <3>2. heard[n] \in [Operators -> Ages]
      BY DEF MonitorInv, MonitorTypeOK
    <3>3. heard'[n] = [u \in Operators |-> heard[n][u]]
      BY <1>1, <2>4, <3>1
    <3>4. heard'[n] = heard[n]
      BY <3>2, <3>3
    <3>5. seen'[n] = seen[n]
      BY <1>1, <2>4
    <3> QED
      BY <2>1, <2>4, <2>6, <3>4, <3>5
  <2>5. CASE group(n) \notin {"critical", "ignored"}
    <3>1. alerted(n) = {}
      BY <2>5 DEF alerted
    <3>2. heard'[n] = [u \in Operators |-> Never] /\ seen'[n] = 0
      BY <1>1, <2>5, <3>1
    <3> QED
      BY <2>5, <2>6, <3>2 DEF NoState
  <2> QED
    BY <2>3, <2>4, <2>5
<1>3. MonitorTypeOK'
  <2>1. states' \in [Nodes -> States]
    BY <1>1, <1>2
  <2>2. seen' \in [Nodes -> 0..Confirmations + 1] /\ heard' \in [Nodes -> [Operators -> Ages]]
    <3>1. seen' = [n \in Nodes |-> seen'[n]] /\ heard' = [n \in Nodes |-> heard'[n]]
      BY <1>1
    <3>2. \A n \in Nodes : seen'[n] \in 0..Confirmations + 1 /\ heard'[n] \in [Operators -> Ages]
      BY <1>2 DEF States
    <3> QED
      BY <3>1, <3>2
  <2>3. sent' \in [Nodes -> [alert : SUBSET Operators, recovery : SUBSET Operators]]
    BY <1>1 DEF alerted, recovered
  <2>4. facts' \in [Nodes -> Facts] /\ tick' \in BOOLEAN /\ up' \in BOOLEAN
    BY <1>1 DEF MonitorInv, MonitorTypeOK
  <2> QED
    BY <2>1, <2>2, <2>3, <2>4 DEF MonitorTypeOK, States
<1>4. Remembers'
  BY <1>2 DEF Remembers
<1>5. ASSUME NEW n \in Nodes, NEW u \in Operators
      PROVE  /\ u \in sent'[n].alert =>
                  seen'[n] >= Confirmations /\ heard[n][u] \in {Never, Repeat}
             /\ u \in sent'[n].recovery => heard[n][u] # Never
  <2>1. states[n].consecutive = seen[n] /\ states[n].last = heard[n]
    BY DEF MonitorInv, Remembers
  <2>2. sent'[n].alert = alerted(n) /\ sent'[n].recovery = recovered(n)
    BY <1>1
  <2>3. ASSUME u \in alerted(n)
        PROVE  seen'[n] >= Confirmations /\ heard[n][u] \in {Never, Repeat}
    <3>1. group(n) = "critical" /\ AlertDue(states[n], u)
      BY <2>3 DEF alerted
    <3>2. seen'[n] = Counted(states[n].consecutive)
      BY <1>1, <2>1, <3>1
    <3> QED
      BY <2>1, <3>1, <3>2 DEF AlertDue
  <2> QED
    BY <2>1, <2>2, <2>3 DEF recovered
<1> QED
  BY <1>3, <1>4, <1>5 DEF MonitorInv

\* An interval makes the entries and the history older together.
LEMMA IntervalInv ==
  ASSUME MonitorInv, IntervalPasses
  PROVE  MonitorInv'
<1>1. ASSUME NEW n \in Nodes
      PROVE  /\ states'[n] = [states[n] EXCEPT !.last = [u \in Operators |-> Older(@[u])]]
             /\ heard'[n] = [u \in Operators |-> Older(heard[n][u])]
             /\ seen'[n] = seen[n]
  BY DEF IntervalPasses
<1>2. ASSUME NEW n \in Nodes
      PROVE  /\ states'[n] \in States
             /\ heard'[n] \in [Operators -> Ages]
             /\ states'[n].consecutive = seen'[n]
             /\ states'[n].last = heard'[n]
  <2>1. /\ states[n] \in States
        /\ states[n].consecutive = seen[n] /\ states[n].last = heard[n]
    BY DEF MonitorInv, MonitorTypeOK, Remembers, States
  <2>2. \A u \in Operators : Older(heard[n][u]) \in Ages
    BY OlderType, <2>1 DEF States
  <2>3. heard'[n] \in [Operators -> Ages]
    BY <1>1, <2>2
  <2>4. /\ states'[n].last = [u \in Operators |-> Older(states[n].last[u])]
        /\ states'[n].consecutive = states[n].consecutive
        /\ states'[n] = [consecutive |-> states[n].consecutive, last |-> states'[n].last]
    BY <1>1, <2>1 DEF States
  <2>5. states'[n].last = heard'[n]
    BY <1>1, <2>1, <2>4
  <2>6. states'[n] \in States
    BY <2>1, <2>3, <2>4, <2>5 DEF States
  <2> QED
    BY <1>1, <2>1, <2>3, <2>4, <2>5, <2>6
<1>3. MonitorTypeOK'
  <2>1. states' = [n \in Nodes |-> states'[n]] /\ heard' = [n \in Nodes |-> heard'[n]]
    BY DEF IntervalPasses
  <2>2. states' \in [Nodes -> States] /\ heard' \in [Nodes -> [Operators -> Ages]]
    BY <1>2, <2>1
  <2>3. sent' \in [Nodes -> [alert : SUBSET Operators, recovery : SUBSET Operators]]
    BY DEF IntervalPasses, Silent
  <2> QED
    BY <2>2, <2>3 DEF IntervalPasses, MonitorInv, MonitorTypeOK, States
<1> QED
  BY <1>2, <1>3 DEF MonitorInv, Remembers

\* Nothing else touches the entries or the history, and nothing else sends.
LEMMA OthersInv ==
  ASSUME MonitorInv,
         \/ SampleFails \/ MonitorStops
         \/ \E n \in Nodes, fact \in Facts : PanelChanges(n, fact)
  PROVE  MonitorInv' /\ sent' = Silent
<1>1. /\ UNCHANGED <<states, seen, heard>> /\ sent' = Silent
      /\ facts' \in [Nodes -> Facts] /\ tick' \in BOOLEAN /\ up' \in BOOLEAN
  <2>1. CASE SampleFails
    BY <2>1 DEF SampleFails, MonitorInv, MonitorTypeOK
  <2>2. CASE MonitorStops
    BY <2>2 DEF MonitorStops, MonitorInv, MonitorTypeOK
  <2>3. ASSUME NEW n \in Nodes, NEW fact \in Facts, PanelChanges(n, fact)
        PROVE  /\ UNCHANGED <<states, seen, heard>> /\ sent' = Silent
               /\ facts' \in [Nodes -> Facts] /\ tick' \in BOOLEAN /\ up' \in BOOLEAN
    BY <2>3 DEF PanelChanges, MonitorInv, MonitorTypeOK
  <2> QED
    BY <2>1, <2>2, <2>3
<1>2. sent' \in [Nodes -> [alert : SUBSET Operators, recovery : SUBSET Operators]]
  BY <1>1 DEF Silent
<1>3. MonitorTypeOK'
  BY <1>1, <1>2 DEF MonitorInv, MonitorTypeOK
<1>4. Remembers'
  BY <1>1 DEF MonitorInv, Remembers
<1> QED
  BY <1>1, <1>3, <1>4 DEF MonitorInv

\* NewNodeMonitor starts with no incident and no history.
LEMMA MonitorInvInit == MonitorInit => MonitorInv
<1> SUFFICES ASSUME MonitorInit PROVE MonitorInv
  OBVIOUS
<1>1. states \in [Nodes -> States]
  BY NoStateType DEF MonitorInit
<1>2. seen \in [Nodes -> 0..Confirmations + 1]
  BY MonitorAssumption DEF MonitorInit
<1>3. heard \in [Nodes -> [Operators -> Ages]]
  BY DEF MonitorInit, Ages
<1>4. sent \in [Nodes -> [alert : SUBSET Operators, recovery : SUBSET Operators]]
  BY DEF MonitorInit, Silent
<1>5. Remembers
  BY DEF MonitorInit, NoState, Remembers
<1> QED
  BY <1>1, <1>2, <1>3, <1>4, <1>5 DEF MonitorInit, MonitorInv, MonitorTypeOK, States

\* Every step of the monitor and its surroundings keeps the invariant.
LEMMA MonitorInvStep == MonitorInv /\ [MonitorNext]_monitorVars => MonitorInv'
<1> SUFFICES ASSUME MonitorInv, [MonitorNext]_monitorVars PROVE MonitorInv'
  OBVIOUS
<1>1. CASE UNCHANGED monitorVars
  BY <1>1 DEF monitorVars, MonitorInv, MonitorTypeOK, Remembers
<1>2. CASE MonitorNext
  BY <1>2, SampleInv, IntervalInv, OthersInv DEF MonitorNext
<1> QED
  BY <1>1, <1>2

\* The monitor's state has its type, and what it remembers of a Node is the
\* history of the samples and the delivered alerts since it was last seen well.
THEOREM MonitorInvariant == MonitorSpec => []MonitorInv
BY MonitorInvInit, MonitorInvStep, PTL DEF MonitorSpec

\* NodeMonitor.sample sends no alert early, none too soon after another one and
\* no recovery that was not preceded by an alert, for any Nodes and operators.
THEOREM AlertsAreJustified == MonitorSpec => AlertsJustified
<1> DEFINE Justified ==
      \A n \in Nodes, u \in Operators :
        /\ u \in sent'[n].alert =>
             seen'[n] >= Confirmations /\ heard[n][u] \in {Never, Repeat}
        /\ u \in sent'[n].recovery => heard[n][u] # Never
<1>1. MonitorInv /\ [MonitorNext]_monitorVars => [Justified]_monitorVars
  <2> SUFFICES ASSUME MonitorInv, MonitorNext PROVE Justified
    OBVIOUS
  <2>1. ASSUME NEW metrics \in BOOLEAN, NEW told, Sample(metrics, told) PROVE Justified
    BY <2>1, SampleInv
  <2>2. ASSUME sent' = Silent PROVE Justified
    BY <2>2 DEF Silent
  <2>3. CASE IntervalPasses
    BY <2>2, <2>3 DEF IntervalPasses
  <2>4. CASE \/ SampleFails \/ MonitorStops
             \/ \E n \in Nodes, fact \in Facts : PanelChanges(n, fact)
    BY <2>2, <2>4, OthersInv
  <2> QED
    BY <2>1, <2>3, <2>4 DEF MonitorNext
<1> QED
  BY <1>1, MonitorInvariant, PTL DEF MonitorSpec, AlertsJustified
=============================================================================
