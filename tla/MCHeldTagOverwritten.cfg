\* A stop against a channel notifier that writes an older metadata object back.
SPECIFICATION Spec
CONSTANTS
  Ticket = {t1}
  Attempt = {a1}
  Notifier = {n1}
  Filed = {t1}
  NoTicket = NoTicket
  NoAttempt = NoAttempt
  HoldLimit = 1
INVARIANTS
  HeldTicketNeverExecuted
CHECK_DEADLOCK FALSE
