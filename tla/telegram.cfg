SPECIFICATION TelegramSpec
CONSTANTS
  Users = {u1, u2}
  Operators = {u1, u2}
  Nonces = {n1, n2}
  Handlers = {h1}
  NoNonce = NoNonce
  NoUser = NoUser
  Nodes = {a}
  Confirmations = 2
  Repeat = 4
  Never = Never
INVARIANTS
  NeverForgotten
  SettledOnce
  PasswordKept
PROPERTIES
  PreparedSettles
  AlertsJustified
  CriticalReported
\* The process may stop.
CHECK_DEADLOCK FALSE
