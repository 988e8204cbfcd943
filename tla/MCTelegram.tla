----------------------------- MODULE MCTelegram -----------------------------
(***************************************************************************)
(* The conversations and the monitor. They share the operators' chats and   *)
(* nothing else, so a behaviour of both together is one of each, stretched  *)
(* by the other's steps: a behaviour here has one of them running and the   *)
(* other stopped from the start, which explores the sum of the two state    *)
(* spaces in place of their product.                                        *)
(***************************************************************************)
EXTENDS TelegramSessions, NodeMonitor

telegramVars == <<sessionVars, monitorVars>>

SessionsStopped ==
  /\ sessions = [u \in Users |-> NoNonce]
  /\ wiz = [n \in Nonces |-> Unused]
  /\ handler = [h \in Handlers |-> Idle]
  /\ worker = [n \in Nonces |-> "none"]
  /\ cancelling = [n \in Nonces |-> {}]
  /\ deps = [n \in Nonces |-> "none"]
  /\ uses = [n \in Nonces |-> 0]
  /\ phase = "exited"

MonitorStopped ==
  /\ facts = [n \in Nodes |-> "high"]
  /\ states = [n \in Nodes |-> NoState]
  /\ tick = FALSE /\ up = FALSE
  /\ sent = Silent
  /\ seen = [n \in Nodes |-> 0]
  /\ heard = [n \in Nodes |-> [u \in Operators |-> Never]]

TelegramInit ==
  \/ SessionsInit /\ MonitorStopped
  \/ SessionsStopped /\ MonitorInit

TelegramNext ==
  \/ SessionsNext /\ UNCHANGED monitorVars
  \/ MonitorNext /\ UNCHANGED sessionVars

TelegramSpec ==
  TelegramInit /\ [][TelegramNext]_telegramVars /\ SessionsFairness /\ MonitorFairness
=============================================================================
