----------------------------- MODULE NodeMonitor -----------------------------
(***************************************************************************)
(* internal/telegram/node_monitor.go: the samples of the Nodes' online      *)
(* counts and the messages they cause. What a panel says of a Node is one   *)
(* of five facts, time is counted in intervals of the ticker, and texts and *)
(* keyboards are left out.                                                  *)
(***************************************************************************)
EXTENDS Naturals

CONSTANTS
  Nodes,
  Operators,      \* allowed users
  Confirmations,  \* NODE_MONITOR_CONFIRMATIONS
  Repeat,         \* NODE_CRITICAL_ALERT_INTERVAL, in intervals
  Never           \* the zero time

ASSUME MonitorAssumption ==
  /\ Confirmations \in Nat \ {0} /\ Repeat \in Nat \ {0} /\ Never \notin Nat

VARIABLES
  facts,   \* what the panels say of the Nodes
  states,  \* NodeMonitor.states; the time of a message as its age
  tick,    \* the ticker's channel holds a tick
  up,      \* the context is not cancelled
  \* History: the messages of the last sample, the critical samples since a
  \* Node was last seen well, and the age of the last alert since then.
  sent, seen, heard

monitorVars == <<facts, states, tick, up, sent, seen, heard>>

Facts == {"gone", "disabled", "disconnected", "low", "high"}
NoState == [consecutive |-> 0, last |-> [u \in Operators |-> Never]]
Ages == 0..Repeat \cup {Never}

\* A count is compared with Confirmations alone: past it, it may stand still.
Counted(k) == IF k > Confirmations THEN k ELSE k + 1
Older(a) == IF a = Never \/ a = Repeat THEN a ELSE a + 1

\* The group of a Node. A metrics outage leaves every online count unknown.
classifyNodePanels(fact, metrics) ==
  IF fact \in {"gone", "disabled"} THEN fact
  ELSE IF fact = "disconnected" \/ ~metrics THEN "ignored"
  ELSE IF fact = "low" THEN "critical" ELSE "active"

\* Mutant: an alert is tried only when the confirmations are complete.
AlertDueOnce(state, u) ==
  /\ Counted(state.consecutive) = Confirmations
  /\ state.last[u] = Never \/ state.last[u] = Repeat

AlertDue(state, u) ==
  /\ Counted(state.consecutive) >= Confirmations
  /\ state.last[u] = Never \/ state.last[u] = Repeat

\* The entry of a Node after a sample. A gap in the telemetry keeps the incident.
\* Mutant: it ends the incident.
NextStateForgetting(state, group, alerted) ==
  IF group = "critical"
    THEN [consecutive |-> Counted(state.consecutive),
          last |-> [u \in Operators |-> IF u \in alerted THEN 0 ELSE state.last[u]]]
    ELSE NoState

NextState(state, group, alerted) ==
  IF group = "critical"
    THEN [consecutive |-> Counted(state.consecutive),
          last |-> [u \in Operators |-> IF u \in alerted THEN 0 ELSE state.last[u]]]
  ELSE IF group = "ignored" THEN state ELSE NoState

\* sample: who has to be told, and whom Telegram lets the monitor tell.
Sample(metrics, told) ==
  LET group == [n \in Nodes |-> classifyNodePanels(facts[n], metrics)]
      alerted == [n \in Nodes |-> {u \in Operators :
        group[n] = "critical" /\ AlertDue(states[n], u) /\ <<n, u>> \in told}]
      recovered == [n \in Nodes |-> {u \in Operators :
        group[n] = "active" /\ states[n].last[u] # Never /\ <<n, u>> \in told}]
  IN
  /\ up /\ tick
  /\ tick' = FALSE
  /\ states' = [n \in Nodes |-> NextState(states[n], group[n], alerted[n])]
  /\ sent' = [n \in Nodes |-> [alert |-> alerted[n], recovery |-> recovered[n]]]
  /\ seen' = [n \in Nodes |->
       IF group[n] = "critical" THEN Counted(seen[n])
       ELSE IF group[n] = "ignored" THEN seen[n] ELSE 0]
  /\ heard' = [n \in Nodes |-> [u \in Operators |->
       IF u \in alerted[n] THEN 0
       ELSE IF group[n] \in {"critical", "ignored"} THEN heard[n][u] ELSE Never]]
  /\ UNCHANGED <<facts, up>>

Silent == [n \in Nodes |-> [alert |-> {}, recovery |-> {}]]

\* ListPanels or ListNodes failed.
SampleFails ==
  /\ up /\ tick
  /\ tick' = FALSE
  /\ sent' = Silent
  /\ UNCHANGED <<facts, states, up, seen, heard>>

\* An interval passes; a tick nobody has taken yet is not doubled.
IntervalPasses ==
  /\ up
  /\ tick' = TRUE
  /\ states' = [n \in Nodes |-> [states[n] EXCEPT !.last = [u \in Operators |-> Older(@[u])]]]
  /\ sent' = Silent
  /\ heard' = [n \in Nodes |-> [u \in Operators |-> Older(heard[n][u])]]
  /\ UNCHANGED <<facts, up, seen>>

PanelChanges(n, fact) ==
  /\ up /\ facts[n] # fact
  /\ facts' = [facts EXCEPT ![n] = fact]
  /\ sent' = Silent
  /\ UNCHANGED <<states, tick, up, seen, heard>>

MonitorStops ==
  /\ up /\ up' = FALSE
  /\ sent' = Silent
  /\ UNCHANGED <<facts, states, tick, seen, heard>>

-----------------------------------------------------------------------------
\* Run samples at once when it starts.
MonitorInit ==
  /\ facts \in [Nodes -> Facts]
  /\ states = [n \in Nodes |-> NoState]
  /\ tick = TRUE /\ up = TRUE
  /\ sent = Silent
  /\ seen = [n \in Nodes |-> 0]
  /\ heard = [n \in Nodes |-> [u \in Operators |-> Never]]

MonitorNext ==
  \/ \E metrics \in BOOLEAN, told \in SUBSET (Nodes \X Operators) : Sample(metrics, told)
  \/ SampleFails \/ IntervalPasses \/ MonitorStops
  \/ \E n \in Nodes, fact \in Facts : PanelChanges(n, fact)

\* The ticker ticks, and of the samples taken again and again some find the
\* panels, their metrics and Telegram working.
MonitorFairness ==
  /\ WF_monitorVars(IntervalPasses)
  /\ SF_monitorVars(Sample(TRUE, Nodes \X Operators))

MonitorSpec == MonitorInit /\ [][MonitorNext]_monitorVars /\ MonitorFairness

-----------------------------------------------------------------------------
\* The values of the monitor and of the history.
MonitorTypeOK ==
  /\ facts \in [Nodes -> Facts]
  /\ states \in [Nodes -> [consecutive : 0..Confirmations + 1, last : [Operators -> Ages]]]
  /\ tick \in BOOLEAN /\ up \in BOOLEAN
  /\ sent \in [Nodes -> [alert : SUBSET Operators, recovery : SUBSET Operators]]
  /\ seen \in [Nodes -> 0..Confirmations + 1]
  /\ heard \in [Nodes -> [Operators -> Ages]]

\* An operator hears of a low Node only after Confirmations critical samples
\* since the Node was last seen well, not again before Repeat intervals have
\* passed, and of its recovery only if it has been told of the incident: a gap
\* in the telemetry, a failed message or a failed sample repeats nothing.
AlertsJustified ==
  [][\A n \in Nodes, u \in Operators :
       /\ u \in sent'[n].alert =>
            seen'[n] >= Confirmations /\ heard[n][u] \in {Never, Repeat}
       /\ u \in sent'[n].recovery => heard[n][u] # Never]_monitorVars

\* A Node that stays low is reported to every operator in the end: a message
\* that could not be sent is tried again with the next sample.
CriticalReported ==
  \A n \in Nodes, u \in Operators :
    (up /\ facts[n] = "low") ~> (~up \/ facts[n] # "low" \/ heard[n][u] # Never)
=============================================================================
