\* A filed ticket, no whole-object writers: two stops against three calls.
SPECIFICATION Spec
CONSTANTS
  Ticket = {t1}
  Attempt = {a1, a2, a3}
  Notifier = {}
  Filed = {t1}
  NoTicket = NoTicket
  NoAttempt = NoAttempt
  HoldLimit = 2
SYMMETRY Symmetry
INVARIANTS
  HeldTicketNeverExecuted
  StopReachesTheSend
\* Calls are finite and every ticket ends decided: the system may stop.
CHECK_DEADLOCK FALSE
