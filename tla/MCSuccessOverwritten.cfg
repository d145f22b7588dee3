\* Two calls for one ticket; the policy changes between their two checks.
SPECIFICATION Spec
CONSTANTS
  Ticket = {t1}
  Attempt = {a1, a2}
  Notifier = {}
  Filed = {t1}
  NoTicket = NoTicket
  NoAttempt = NoAttempt
  HoldLimit = 0
PROPERTIES
  SuccessNeverOverwritten
CHECK_DEADLOCK FALSE
