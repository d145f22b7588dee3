\* Every writer of the ticket: filing, a notifier, a stop, two calls.
SPECIFICATION FairSpec
CONSTANTS
  Ticket = {t1}
  Attempt = {a1, a2}
  Notifier = {n1}
  Filed = {}
  NoTicket = NoTicket
  NoAttempt = NoAttempt
  HoldLimit = 1
INVARIANTS
  TypeOK
  ClaimsAndCallsAgree
  AtMostOnce
  SuccessIsReal
PROPERTIES
  ImplementsAtMostOnceSend
  ImplementsTicketLife
  ClaimSettles
\* Calls are finite and every ticket ends decided: the system may stop.
CHECK_DEADLOCK FALSE
