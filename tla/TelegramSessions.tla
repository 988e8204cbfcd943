-------------------------- MODULE TelegramSessions --------------------------
(***************************************************************************)
(* The conversations of internal/telegram: wizard objects, the map of       *)
(* sessions, the handlers of updates, the goroutines they start, the expiry *)
(* timers, and the shutdown of cmd/deployer.                                *)
(*                                                                         *)
(* A wizard is named by its nonce, and so is the deployment it prepares.    *)
(* Texts, keyboards, panels, Hosts and addresses are left out, and a query  *)
(* to the application shows only as a move that may be refused. Every       *)
(* critical section under Controller.mu is one step, and a call that may    *)
(* take long (a message, an application call) separates two steps.          *)
(***************************************************************************)
EXTENDS Naturals, FiniteSets

CONSTANTS
  Users,     \* allowed operators, one private chat each
  Nonces,    \* conversations; bounds how many are begun
  Handlers,  \* updates handled at the same time: BotAPI.Run handles one
  NoNonce,
  NoUser

ASSUME SessionsAssumption ==
  /\ NoNonce \notin Nonces /\ NoUser \notin Users
  /\ IsFiniteSet(Users) /\ IsFiniteSet(Nonces) /\ IsFiniteSet(Handlers)

VARIABLES
  sessions,    \* Controller.sessions
  wiz,         \* the wizard objects, in the map or not
  handler,     \* the handlers, with what they know of the session they loaded
  worker,      \* goroutines started by handlers, by the wizard they took
  cancelling,  \* CancelDeployment calls under way, by where they were made
  deps,        \* the prepared deployments, as their rows tell; an unfinished row
               \* that nobody has any more was refused by the application, or lost
  uses,        \* operations executed for a confirmation
  phase        \* of the process: run, stopping (context cancelled), closed, exited

sessionVars == <<sessions, wiz, handler, worker, cancelling, deps, uses, phase>>

(***************************************************************************)
(* wizardState and the moves made by updateSession alone: one relation per  *)
(* function, from the state it requires to those it may set.                *)
(***************************************************************************)
beginAddNode == {"SelectingPanel", "SelectingHost"}
beginIPChange == {"SelectingIPMode"}
beginNodeSearch == {"AwaitingNodeSearch"}
beginNodeHostMove == {"SelectingNodeMoveHost"}
beginNodeCardPanelIPChange == {"AwaitingIPChangeConfirmation"}
beginNodeCardServerIPChange == {"AwaitingServerNewIP"}

FirstStates ==
  UNION {beginAddNode, beginIPChange, beginNodeSearch, beginNodeHostMove,
         beginNodeCardPanelIPChange, beginNodeCardServerIPChange}

beginPanelIPChange == {"SelectingIPMode"} \X {"AwaitingIPChangeQuery", "SelectingIPPanel"}
beginServerIPScope == {<<"SelectingIPMode", "SelectingServerIPScope">>}
beginDNSSync == {"SelectingIPMode"} \X {"AwaitingDNSSyncQuery", "SelectingDNSSyncPanel"}
beginServerNodeIPChange ==
  {"SelectingServerIPScope"} \X {"AwaitingServerIPNodeQuery", "SelectingServerIPPanel"}
acceptNodeName == {<<"AwaitingName", "AwaitingIP">>}
acceptVPSIP == {<<"AwaitingIP", "AwaitingPassword">>}
acceptIPChangeQuery == {<<"AwaitingIPChangeQuery", "AwaitingIPChangeConfirmation">>}
acceptDNSSyncQuery == {<<"AwaitingDNSSyncQuery", "AwaitingDNSSyncConfirmation">>}
acceptServerCurrentIP == {<<"AwaitingServerCurrentIP", "AwaitingServerNewIP">>}
acceptServerIPNodeQuery == {<<"AwaitingServerIPNodeQuery", "AwaitingServerNewIP">>}
acceptServerNewIP == {<<"AwaitingServerNewIP", "AwaitingServerIPPassword">>}

\* The buttons that handleCallback serves itself.
handleCallback ==
  {<<"SelectingServerIPScope", "AwaitingServerCurrentIP">>,
   <<"SelectingServerIPPanel", "AwaitingServerIPNodeQuery">>,
   <<"SelectingDNSSyncPanel", "AwaitingDNSSyncQuery">>,
   <<"SelectingIPPanel", "AwaitingIPChangeQuery">>,
   <<"SelectingHost", "AwaitingName">>,
   <<"SelectingNodeMoveHost", "AwaitingNodeMoveConfirmation">>,
   <<"AwaitingNodeMoveConfirmation", "AwaitingNodeMovePassword">>,
   <<"AwaitingIPChangeConfirmation", "AwaitingNewIP">>}

Moves ==
  UNION {handleCallback, beginPanelIPChange, beginServerIPScope, beginDNSSync,
         beginServerNodeIPChange, acceptNodeName, acceptVPSIP, acceptIPChangeQuery,
         acceptDNSSyncQuery, acceptServerCurrentIP, acceptServerIPNodeQuery, acceptServerNewIP}

\* Sending the card again sets statusMsgID in a second critical section, and
\* the buttons of the card count only once it is set.
Carded == {"AwaitingIPChangeConfirmation", "AwaitingDNSSyncConfirmation"}

WizardStates ==
  FirstStates \cup {m[2] : m \in Moves}
    \cup {"none", "Preflighting", "AwaitingConfirmation", "DNSSyncRunning", "DNSSyncCompleted", "cleared"}

Unused == [state |-> "none", due |-> FALSE, secret |-> FALSE, prepared |-> FALSE, shown |-> FALSE]
Idle == [pc |-> "idle", user |-> NoUser, nonce |-> NoNonce, state |-> "none"]

(***************************************************************************)
(* The critical sections.                                                   *)
(***************************************************************************)
Due(u) == sessions[u] # NoNonce /\ wiz[sessions[u]].due
Live(u, n, s) == sessions[u] = n /\ wiz[n].state = s /\ ~wiz[n].due

\* clear: the password is overwritten and the timer stopped. Nobody reads the
\* wizard again, so the rest of it is dropped as well.
Cleared(n) == [wiz EXCEPT ![n] = [Unused EXCEPT !.state = "cleared"]]
Gone(u) == [sessions EXCEPT ![u] = NoNonce]

\* CancelDeployment is called if the wizard has prepared a deployment.
Calling(n, c) == [cancelling EXCEPT ![n] = IF wiz[n].prepared THEN @ \cup {c} ELSE @]

\* What loadSession, updateSession, takeSession, copyPassword and the timer do
\* with a session past its deadline. cancelPrepared has a context of its own.
Expire(u) ==
  /\ sessions' = Gone(u)
  /\ wiz' = Cleared(sessions[u])
  /\ cancelling' = Calling(sessions[u], "timer")

\* A guarded access that finds another nonce, another state or nothing.
Missed(u) ==
  IF Due(u) THEN Expire(u) ELSE UNCHANGED <<sessions, wiz, cancelling>>

\* updateSession: the changed wizard gets a new deadline.
Update(n, changed) ==
  /\ wiz' = [wiz EXCEPT ![n] = [changed EXCEPT !.due = FALSE]]
  /\ UNCHANGED <<sessions, cancelling>>

\* takeSession takes the wizard out of the map and leaves it to the caller.
\* Mutant: it is left in the map.
TakeLeaving(u, n, s) == Live(u, n, s) /\ UNCHANGED sessions

Take(u, n, s) == Live(u, n, s) /\ sessions' = Gone(u)

(***************************************************************************)
(* Handlers.                                                                *)
(***************************************************************************)
At(h, pc) == handler[h].pc = pc
Loaded(h, s) == At(h, "loaded") /\ handler[h].state = s
Now(h, pc) == handler' = [handler EXCEPT ![h].pc = pc]
Return(h) == handler' = [handler EXCEPT ![h] = Idle]

\* The handler returns when the CancelDeployment it has just made returns.
ReturnAfter(h, n, c) ==
  handler' = [handler EXCEPT ![h] =
    IF cancelling' = cancelling THEN Idle
    ELSE [@ EXCEPT !.pc = "cancel", !.nonce = n, !.state = c]]

Handled(h) ==
  /\ At(h, "cancel")
  /\ handler[h].state \notin cancelling[handler[h].nonce]
  /\ Return(h)
  /\ UNCHANGED <<sessions, wiz, worker, cancelling, deps, uses, phase>>

\* cancelExisting, with which every command of the menu and every begin* starts.
Begin(h, u) ==
  /\ phase \in {"run", "stopping"} /\ At(h, "idle")
  /\ handler' = [handler EXCEPT ![h] =
       [Idle EXCEPT !.pc = "begin", !.user = u, !.nonce = sessions[u]]]
  /\ IF sessions[u] = NoNonce THEN UNCHANGED <<sessions, wiz, cancelling>>
     ELSE /\ sessions' = Gone(u)
          /\ wiz' = Cleared(sessions[u])
          /\ cancelling' = Calling(sessions[u], "run")
  /\ UNCHANGED <<worker, deps, uses, phase>>

\* putSession clears a wizard it replaces and knows nothing of its deployment.
PutSession(u, n, new) ==
  /\ sessions' = [sessions EXCEPT ![u] = n]
  /\ wiz' = [IF sessions[u] = NoNonce THEN wiz ELSE Cleared(sessions[u]) EXCEPT ![n] = new]

\* The command only shows something, or a query before the new session failed.
BeginNothing(h) ==
  /\ At(h, "begin")
  /\ handler[h].nonce # NoNonce => "run" \notin cancelling[handler[h].nonce]
  /\ Return(h)
  /\ UNCHANGED <<sessions, wiz, worker, cancelling, deps, uses, phase>>

BeginSession(h) ==
  /\ At(h, "begin")
  /\ handler[h].nonce # NoNonce => "run" \notin cancelling[handler[h].nonce]
  /\ \E n \in {m \in Nonces : wiz[m] = Unused}, s \in FirstStates :
       /\ PutSession(handler[h].user, n, [Unused EXCEPT !.state = s,
            !.shown = s \in beginNodeSearch \cup beginNodeHostMove \cup beginNodeCardPanelIPChange])
       /\ handler' = [handler EXCEPT ![h] = [@ EXCEPT !.pc = "begun", !.nonce = n, !.state = s]]
  /\ UNCHANGED <<worker, cancelling, deps, uses, phase>>

\* The first message of the conversation. A card of a Node that cannot be
\* edited takes the session back; the others leave it.
Begun(h) ==
  /\ At(h, "begun")
  /\ LET u == handler[h].user  n == handler[h].nonce  s == handler[h].state IN
     \/ UNCHANGED <<sessions, wiz, cancelling>>
     \/ /\ s \in beginNodeCardPanelIPChange \cup beginNodeCardServerIPChange
        /\ \/ Take(u, n, s) /\ wiz' = Cleared(n) /\ UNCHANGED cancelling
           \/ ~Live(u, n, s) /\ Missed(u)
  /\ Return(h)
  /\ UNCHANGED <<worker, deps, uses, phase>>

\* Any other update starts with loadSession.
Load(h, u) ==
  /\ phase \in {"run", "stopping"} /\ At(h, "idle")
  /\ sessions[u] # NoNonce
  /\ LET n == sessions[u] IN
     IF Due(u) THEN Expire(u) /\ ReturnAfter(h, n, "timer")
     ELSE /\ handler' = [handler EXCEPT ![h] =
               [pc |-> "loaded", user |-> u, nonce |-> n, state |-> wiz[n].state]]
          /\ UNCHANGED <<sessions, wiz, cancelling>>
  /\ UNCHANGED <<worker, deps, uses, phase>>

\* The input is invalid, a query fails, the button is of another card or state,
\* or the message only repeats what the state waits for.
Refuse(h) ==
  /\ At(h, "loaded")
  /\ Return(h)
  /\ UNCHANGED <<sessions, wiz, worker, cancelling, deps, uses, phase>>

Advance(h) ==
  /\ At(h, "loaded")
  /\ LET u == handler[h].user  n == handler[h].nonce  s == handler[h].state IN
     \E m \in {move \in Moves : move[1] = s} :
       /\ s \in Carded => wiz[n].shown
       /\ \/ /\ Live(u, n, s)
             /\ Update(n, [wiz[n] EXCEPT !.state = m[2]])
             /\ IF m[2] \in Carded
                  THEN handler' = [handler EXCEPT ![h] = [@ EXCEPT !.pc = "card", !.state = m[2]]]
                  ELSE Return(h)
          \/ ~Live(u, n, s) /\ Missed(u) /\ ReturnAfter(h, n, "timer")
  /\ UNCHANGED <<worker, deps, uses, phase>>

\* The card was sent and its message number is kept, or it could not be sent.
CardSent(h) ==
  /\ At(h, "card")
  /\ LET u == handler[h].user  n == handler[h].nonce  s == handler[h].state IN
     \/ phase = "run" /\ Live(u, n, s) /\ Update(n, [wiz[n] EXCEPT !.shown = TRUE])
     \/ phase = "run" /\ ~Live(u, n, s) /\ Missed(u)
     \/ UNCHANGED <<sessions, wiz, cancelling>>
  /\ Return(h)
  /\ UNCHANGED <<worker, deps, uses, phase>>

\* The button of a panel: showHostPicker puts a new wizard under the old nonce.
PickPanel(h) ==
  /\ Loaded(h, "SelectingPanel")
  /\ PutSession(handler[h].user, handler[h].nonce, [Unused EXCEPT !.state = "SelectingHost"])
  /\ Return(h)
  /\ UNCHANGED <<worker, cancelling, deps, uses, phase>>

\* /cancel in any state, the cancel buttons, and the end of a search.
Leave(h) ==
  /\ At(h, "loaded")
  /\ LET u == handler[h].user  n == handler[h].nonce  s == handler[h].state IN
     \/ /\ Take(u, n, s)
        /\ wiz' = Cleared(n)
        /\ cancelling' = Calling(n, "run")
        /\ ReturnAfter(h, n, "run")
     \/ ~Live(u, n, s) /\ Missed(u) /\ ReturnAfter(h, n, "timer")
  /\ UNCHANGED <<worker, deps, uses, phase>>

(***************************************************************************)
(* acceptPassword: the preflight and its confirmation card.                 *)
(***************************************************************************)
\* The password is stored, read back and copied for the preflight.
AcceptPassword(h) ==
  /\ Loaded(h, "AwaitingPassword")
  /\ LET u == handler[h].user  n == handler[h].nonce IN
     \/ /\ Live(u, n, "AwaitingPassword")
        /\ Update(n, [wiz[n] EXCEPT !.state = "Preflighting", !.secret = TRUE])
        /\ Now(h, "preflight")
     \/ ~Live(u, n, "AwaitingPassword") /\ Missed(u) /\ ReturnAfter(h, n, "timer")
  /\ UNCHANGED <<worker, deps, uses, phase>>

\* Preflight returns a prepared deployment; its last query precedes the
\* cancellation of the context.
PreflightPasses(h) ==
  /\ At(h, "preflight") /\ phase = "run"
  /\ deps' = [deps EXCEPT ![handler[h].nonce] = "prepared"]
  /\ Now(h, "prepared")
  /\ UNCHANGED <<sessions, wiz, worker, cancelling, uses, phase>>

PreflightFails(h) ==
  /\ At(h, "preflight")
  /\ LET u == handler[h].user  n == handler[h].nonce IN
     \/ Take(u, n, "Preflighting") /\ wiz' = Cleared(n) /\ UNCHANGED cancelling
     \/ ~Live(u, n, "Preflighting") /\ Missed(u)
  /\ Return(h)
  /\ UNCHANGED <<worker, deps, uses, phase>>

\* Missed, and the handler cancels what it has prepared.
MissedCancelling(h, u, n) ==
  /\ IF Due(u) THEN sessions' = Gone(u) /\ wiz' = Cleared(sessions[u])
     ELSE UNCHANGED <<sessions, wiz>>
  /\ cancelling' = [IF Due(u) THEN Calling(sessions[u], "timer") ELSE cancelling
                      EXCEPT ![n] = @ \cup {"run"}]
  /\ ReturnAfter(h, n, "run")

\* Mutant: the session is gone and so is what was prepared for it.
PreparedUnwatched(h) ==
  /\ At(h, "prepared")
  /\ LET u == handler[h].user  n == handler[h].nonce IN
     \/ /\ Live(u, n, "Preflighting")
        /\ Update(n, [wiz[n] EXCEPT !.state = "AwaitingConfirmation", !.prepared = TRUE])
        /\ Now(h, "show")
     \/ ~Live(u, n, "Preflighting") /\ Missed(u) /\ Return(h)
  /\ UNCHANGED <<worker, deps, uses, phase>>

\* The wizard keeps the result, or the handler cancels what it has prepared: a
\* session that expired in the meantime knew nothing of it.
Prepared(h) ==
  /\ At(h, "prepared")
  /\ LET u == handler[h].user  n == handler[h].nonce IN
     \/ /\ Live(u, n, "Preflighting")
        /\ Update(n, [wiz[n] EXCEPT !.state = "AwaitingConfirmation", !.prepared = TRUE])
        /\ Now(h, "show")
     \/ ~Live(u, n, "Preflighting") /\ MissedCancelling(h, u, n)
  /\ UNCHANGED <<worker, deps, uses, phase>>

\* The confirmation card was sent: statusMsgID arms its buttons, unless the
\* session has expired.
ConfirmationSent(h) ==
  /\ At(h, "show") /\ phase = "run"
  /\ LET u == handler[h].user  n == handler[h].nonce IN
     \/ /\ Live(u, n, "AwaitingConfirmation")
        /\ Update(n, [wiz[n] EXCEPT !.shown = TRUE])
        /\ Return(h)
     \/ ~Live(u, n, "AwaitingConfirmation") /\ MissedCancelling(h, u, n)
  /\ UNCHANGED <<worker, deps, uses, phase>>

\* It could not be sent: the handler takes the session, if it still can, and
\* cancels either way.
ConfirmationLost(h) ==
  /\ At(h, "show")
  /\ LET u == handler[h].user  n == handler[h].nonce IN
     \/ /\ Take(u, n, "AwaitingConfirmation")
        /\ wiz' = Cleared(n)
        /\ cancelling' = Calling(n, "run")
        /\ ReturnAfter(h, n, "run")
     \/ ~Live(u, n, "AwaitingConfirmation") /\ MissedCancelling(h, u, n)
  /\ UNCHANGED <<worker, deps, uses, phase>>

(***************************************************************************)
(* The operations that a confirmation or a password starts.                 *)
(***************************************************************************)
\* startDeployment takes the session; the first progress message follows.
StartDeployment(h) ==
  /\ Loaded(h, "AwaitingConfirmation")
  /\ LET u == handler[h].user  n == handler[h].nonce IN
     /\ wiz[n].shown
     /\ \/ /\ Take(u, n, "AwaitingConfirmation")
           /\ Now(h, "progress")
           /\ UNCHANGED <<wiz, cancelling>>
        \/ ~Live(u, n, "AwaitingConfirmation") /\ Missed(u) /\ ReturnAfter(h, n, "timer")
  /\ UNCHANGED <<worker, deps, uses, phase>>

ProgressSent(h) ==
  /\ At(h, "progress") /\ phase = "run"
  /\ worker' = [worker EXCEPT ![handler[h].nonce] = "deploy"]
  /\ Return(h)
  /\ UNCHANGED <<sessions, wiz, cancelling, deps, uses, phase>>

ProgressLost(h) ==
  /\ At(h, "progress")
  /\ LET n == handler[h].nonce IN
     /\ wiz' = Cleared(n)
     /\ cancelling' = Calling(n, "run")
     /\ ReturnAfter(h, n, "run")
  /\ UNCHANGED <<sessions, worker, deps, uses, phase>>

\* acceptServerIPPassword and acceptNodeMovePassword: the password goes into
\* the wizard they have taken.
PasswordStates == {"AwaitingServerIPPassword", "AwaitingNodeMovePassword"}

AcceptServerPassword(h) ==
  /\ At(h, "loaded") /\ handler[h].state \in PasswordStates
  /\ LET u == handler[h].user  n == handler[h].nonce  s == handler[h].state IN
     \/ /\ Take(u, n, s)
        /\ wiz' = [wiz EXCEPT ![n].secret = TRUE]
        /\ Now(h, "status")
        /\ UNCHANGED cancelling
     \/ ~Live(u, n, s) /\ Missed(u) /\ ReturnAfter(h, n, "timer")
  /\ UNCHANGED <<worker, deps, uses, phase>>

StatusSent(h) ==
  /\ At(h, "status") /\ phase = "run"
  /\ worker' = [worker EXCEPT ![handler[h].nonce] = "server"]
  /\ Return(h)
  /\ UNCHANGED <<sessions, wiz, cancelling, deps, uses, phase>>

\* Mutant: the handler gives up without clear.
StatusLostUncleared(h) ==
  /\ At(h, "status")
  /\ Return(h)
  /\ UNCHANGED <<sessions, wiz, worker, cancelling, deps, uses, phase>>

StatusLost(h) ==
  /\ At(h, "status")
  /\ wiz' = Cleared(handler[h].nonce)
  /\ Return(h)
  /\ UNCHANGED <<sessions, worker, cancelling, deps, uses, phase>>

\* acceptNewNodeIP takes the session and calls ReplaceNodeIP itself.
AcceptNewNodeIP(h) ==
  /\ Loaded(h, "AwaitingNewIP")
  /\ LET u == handler[h].user  n == handler[h].nonce IN
     \/ /\ Take(u, n, "AwaitingNewIP")
        /\ uses' = [uses EXCEPT ![n] = @ + 1]
        /\ Now(h, "replace")
        /\ UNCHANGED <<wiz, cancelling>>
     \/ ~Live(u, n, "AwaitingNewIP") /\ Missed(u) /\ ReturnAfter(h, n, "timer") /\ UNCHANGED uses
  /\ UNCHANGED <<worker, deps, phase>>

NodeIPReplaced(h) ==
  /\ At(h, "replace")
  /\ wiz' = Cleared(handler[h].nonce)
  /\ Return(h)
  /\ UNCHANGED <<sessions, worker, cancelling, deps, uses, phase>>

\* The confirmation of a DNS synchronisation: the session stays and its state
\* tells that the call is under way, then that it is over.
SyncDNS(h) ==
  /\ Loaded(h, "AwaitingDNSSyncConfirmation")
  /\ LET u == handler[h].user  n == handler[h].nonce IN
     /\ wiz[n].shown
     /\ \/ /\ Live(u, n, "AwaitingDNSSyncConfirmation")
           /\ Update(n, [wiz[n] EXCEPT !.state = "DNSSyncRunning"])
           /\ uses' = [uses EXCEPT ![n] = @ + 1]
           /\ Now(h, "sync")
        \/ /\ ~Live(u, n, "AwaitingDNSSyncConfirmation")
           /\ Missed(u) /\ ReturnAfter(h, n, "timer") /\ UNCHANGED uses
  /\ UNCHANGED <<worker, deps, phase>>

DNSSynced(h) ==
  /\ At(h, "sync")
  /\ LET u == handler[h].user  n == handler[h].nonce IN
     \/ Live(u, n, "DNSSyncRunning") /\ Update(n, [wiz[n] EXCEPT !.state = "DNSSyncCompleted"])
     \/ ~Live(u, n, "DNSSyncRunning") /\ Missed(u)
  /\ Return(h)
  /\ UNCHANGED <<worker, deps, uses, phase>>

\* /cancel_deployment and, in a goroutine of its own, the button of the
\* deployment's card name any deployment, one that a session holds as well.
OperatorCancels(n) ==
  /\ phase = "run"
  /\ deps[n] \in {"prepared", "refused", "lost"}
  /\ deps' = [deps EXCEPT ![n] = "cancelled"]
  /\ UNCHANGED <<sessions, wiz, handler, worker, cancelling, uses, phase>>

(***************************************************************************)
(* Goroutines, timers and the shutdown.                                     *)
(***************************************************************************)
\* The call of StartDeployment, ConfigureRoyalIP, ConfigureCherryIP or
\* MoveNodeToHost. Deploy may refuse, and does once the context is cancelled:
\* the row is lost then, in that no call with a context that lives was made.
WorkerCalls(n) ==
  /\ worker[n] \in {"deploy", "server"}
  /\ worker' = [worker EXCEPT ![n] = "running"]
  /\ uses' = [uses EXCEPT ![n] = @ + 1]
  /\ \/ worker[n] = "server" /\ UNCHANGED deps
     \/ /\ worker[n] = "deploy"
        /\ \E end \in IF phase = "run" THEN {"handed", "refused"} ELSE {"lost"} :
             deps' = [deps EXCEPT ![n] = IF @ = "prepared" THEN end ELSE @]
  /\ UNCHANGED <<sessions, wiz, handler, cancelling, phase>>

WorkerEnds(n) ==
  /\ worker[n] = "running"
  /\ worker' = [worker EXCEPT ![n] = "none"]
  /\ wiz' = Cleared(n)
  /\ UNCHANGED <<sessions, handler, cancelling, deps, uses, phase>>

\* The context of a call: that of the process, or cancelPrepared's own.
Alive(c) == c = "run" => phase = "run"

\* A CancelDeployment returns, and its error is dropped: the application may
\* refuse, and can do nothing else when the context is dead.
CancelCall(n, c) ==
  /\ c \in cancelling[n]
  /\ cancelling' = [cancelling EXCEPT ![n] = @ \ {c}]
  /\ \/ /\ Alive(c)
        /\ deps' = [deps EXCEPT ![n] = IF @ = "prepared" THEN "cancelled" ELSE @]
     \/ deps' = [deps EXCEPT ![n] =
          IF @ # "prepared" \/ cancelling[n] # {c} THEN @
          ELSE IF Alive(c) THEN "refused" ELSE "lost"]
  /\ UNCHANGED <<sessions, wiz, handler, worker, uses, phase>>

TTLPasses(u) ==
  /\ sessions[u] # NoNonce /\ ~Due(u)
  /\ wiz' = [wiz EXCEPT ![sessions[u]].due = TRUE]
  /\ UNCHANGED <<sessions, handler, worker, cancelling, deps, uses, phase>>

\* scheduleExpiryLocked's function runs, finds the session and finds it due.
TimerFires(u) ==
  /\ Due(u)
  /\ Expire(u)
  /\ UNCHANGED <<handler, worker, deps, uses, phase>>

\* The context of the process is cancelled. BotAPI.Run still handles the
\* updates it has already received.
Stop ==
  /\ phase = "run"
  /\ phase' = "stopping"
  /\ UNCHANGED <<sessions, wiz, handler, worker, cancelling, deps, uses>>

\* Mutant: Close cancels with the context of the process, which is dead.
CloseWithContext ==
  /\ phase = "stopping" /\ \A h \in Handlers : At(h, "idle")
  /\ phase' = "closed"
  /\ sessions' = [u \in Users |-> NoNonce]
  /\ LET held == {n \in Nonces : \E u \in Users : sessions[u] = n} IN
     /\ wiz' = [n \in Nonces |-> IF n \in held THEN [Unused EXCEPT !.state = "cleared"] ELSE wiz[n]]
     /\ cancelling' = [n \in Nonces |-> IF n \in held /\ wiz[n].prepared
                                          THEN cancelling[n] \cup {"run"} ELSE cancelling[n]]
  /\ UNCHANGED <<handler, worker, deps, uses>>

\* Close, when BotAPI.Run has returned.
Close ==
  /\ phase = "stopping" /\ \A h \in Handlers : At(h, "idle")
  /\ phase' = "closed"
  /\ sessions' = [u \in Users |-> NoNonce]
  /\ LET held == {n \in Nonces : \E u \in Users : sessions[u] = n} IN
     /\ wiz' = [n \in Nonces |-> IF n \in held THEN [Unused EXCEPT !.state = "cleared"] ELSE wiz[n]]
     /\ cancelling' = [n \in Nonces |-> IF n \in held /\ wiz[n].prepared
                                          THEN cancelling[n] \cup {"close"} ELSE cancelling[n]]
  /\ UNCHANGED <<handler, worker, deps, uses>>

\* Wait has returned and so has Close: the process ends, and with it the calls
\* of timers that nobody waits for.
Exit ==
  /\ phase = "closed"
  /\ \A n \in Nonces : worker[n] = "none" /\ "close" \notin cancelling[n]
  /\ phase' = "exited"
  /\ deps' = [n \in Nonces |-> IF deps[n] = "prepared" /\ cancelling[n] # {} THEN "lost" ELSE deps[n]]
  /\ cancelling' = [n \in Nonces |-> {}]
  /\ UNCHANGED <<sessions, wiz, handler, worker, uses>>

-----------------------------------------------------------------------------
SessionsInit ==
  /\ sessions = [u \in Users |-> NoNonce]
  /\ wiz = [n \in Nonces |-> Unused]
  /\ handler = [h \in Handlers |-> Idle]
  /\ worker = [n \in Nonces |-> "none"]
  /\ cancelling = [n \in Nonces |-> {}]
  /\ deps = [n \in Nonces |-> "none"]
  /\ uses = [n \in Nonces |-> 0]
  /\ phase = "run"

\* The steps of a handler that has an update in hand.
HandlerStep(h) ==
  \/ Handled(h) \/ BeginNothing(h) \/ BeginSession(h) \/ Begun(h)
  \/ Refuse(h) \/ Advance(h) \/ CardSent(h) \/ PickPanel(h) \/ Leave(h)
  \/ AcceptPassword(h) \/ PreflightPasses(h) \/ PreflightFails(h) \/ Prepared(h)
  \/ ConfirmationSent(h) \/ ConfirmationLost(h)
  \/ StartDeployment(h) \/ ProgressSent(h) \/ ProgressLost(h)
  \/ AcceptServerPassword(h) \/ StatusSent(h) \/ StatusLost(h)
  \/ AcceptNewNodeIP(h) \/ NodeIPReplaced(h) \/ SyncDNS(h) \/ DNSSynced(h)

SessionsNext ==
  \/ \E h \in Handlers :
       \/ \E u \in Users : Begin(h, u) \/ Load(h, u)
       \/ HandlerStep(h)
  \/ \E n \in Nonces :
       OperatorCancels(n) \/ WorkerCalls(n) \/ WorkerEnds(n) \/ \E c \in cancelling[n] : CancelCall(n, c)
  \/ \E u \in Users : TTLPasses(u) \/ TimerFires(u)
  \/ Stop \/ Close \/ Exit

\* Application calls and messages return (their clients have timeouts), time
\* passes and the runtime schedules goroutines and timers. Updates need not come.
SessionsFairness ==
  /\ \A h \in Handlers : WF_sessionVars(HandlerStep(h))
  /\ \A n \in Nonces : WF_sessionVars(WorkerCalls(n)) /\ WF_sessionVars(WorkerEnds(n))
  /\ \A n \in Nonces, c \in {"run", "timer", "close"} : WF_sessionVars(CancelCall(n, c))
  /\ \A u \in Users : WF_sessionVars(TTLPasses(u)) /\ WF_sessionVars(TimerFires(u))

SessionsSpec == SessionsInit /\ [][SessionsNext]_sessionVars /\ SessionsFairness

-----------------------------------------------------------------------------
\* The values the sessions, the wizards and those who work with them can have.
SessionsTypeOK ==
  /\ sessions \in [Users -> Nonces \cup {NoNonce}]
  /\ wiz \in [Nonces -> [state : WizardStates, due : BOOLEAN, secret : BOOLEAN,
                         prepared : BOOLEAN, shown : BOOLEAN]]
  /\ handler \in [Handlers -> [pc : {"idle", "cancel", "begin", "begun", "loaded", "card", "preflight",
                                     "prepared", "show", "progress", "status", "replace", "sync"},
                               user : Users \cup {NoUser}, nonce : Nonces \cup {NoNonce},
                               state : WizardStates \cup {"run", "timer"}]]
  /\ worker \in [Nonces -> {"none", "deploy", "server", "running"}]
  /\ cancelling \in [Nonces -> SUBSET {"run", "timer", "close"}]
  /\ deps \in [Nonces -> {"none", "prepared", "handed", "cancelled", "refused", "lost"}]
  /\ uses \in [Nonces -> Nat]
  /\ phase \in {"run", "stopping", "closed", "exited"}

InMap(n) == \E u \in Users : sessions[u] = n
InHand(n, pcs) == \E h \in Handlers : handler[h].nonce = n /\ handler[h].pc \in pcs

\* A deployment that acceptPassword has prepared is never forgotten: a session
\* that can be found again, the handler or the worker that took it, or a call of
\* CancelDeployment has it, whatever expires, is replaced or is shut down.
NeverForgotten ==
  \A n \in Nonces : deps[n] = "prepared" =>
    \/ InMap(n) /\ wiz[n].prepared
    \/ InHand(n, {"prepared", "show", "progress"})
    \/ worker[n] = "deploy"
    \/ cancelling[n] # {}

\* A confirmation is used once and by one: no operation is executed twice for
\* it, and nothing cancels a deployment that was confirmed (takeSession against
\* expiry, /cancel, a new command, a repeated button and Close).
SettledOnce ==
  \A n \in Nonces :
    /\ uses[n] <= 1
    /\ worker[n] # "none" \/ InHand(n, {"progress", "status", "replace"})
         => cancelling[n] = {} /\ ~InMap(n)
    /\ deps[n] = "handed" => cancelling[n] = {}

\* A root password is in memory only as long as somebody is going to clear it,
\* and not cleared under an operation that uses it.
PasswordKept ==
  \A n \in Nonces :
    /\ wiz[n].secret => InMap(n) \/ InHand(n, {"progress", "status"}) \/ worker[n] # "none"
    /\ InHand(n, {"progress", "status"}) \/ worker[n] # "none" => wiz[n].secret

\* Handed over or cancelled, if the application does not answer a call whose
\* context lives with an error, which the code drops. "lost" is not settled.
Settled(n) == deps[n] \in {"handed", "cancelled", "refused"}

\* Every prepared deployment is settled in the end. While the process runs, its
\* operator or else the timer (cancelPrepared) sees to it, and the error paths of
\* acceptPassword call with a context that lives. Once BotAPI.Run has returned,
\* Close does for every session it finds, before the process exits. In between
\* the code promises nothing: a handler or a goroutine that has the deployment
\* when the context of the process is cancelled calls with that dead context,
\* and Exit may cut off the call of a timer. Such a row is lost to this process
\* and left to the startup recovery of the next one.
PreparedSettles ==
  \A n \in Nonces :
    /\ deps[n] = "prepared" ~> Settled(n) \/ phase # "run"
    /\ phase = "closed" /\ deps[n] = "prepared"
         /\ worker[n] # "deploy" /\ "timer" \notin cancelling[n] ~> Settled(n)
=============================================================================
