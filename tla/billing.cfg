SPECIFICATION BillingSpec
CONSTANTS
  c1 = c1
  c2 = c2
  h1 = h1
  h2 = h2
  r1 = r1
  pay = pay
  NoKey = NoKey
  Callers = {c1, c2, h1, h2, r1}
  Handlers = {h1, h2}
  SubHandlers = {h1}
  Reconcilers = {r1}
  Payments = {pay}
  Credits = 2
  Requests <- SomeRequests
  MaxSafe = 4
  MaxRetries = 1
  MaxCalls = 3
  MaxFaults = 1
  MaxChanges = 2
  MaxMishaps = 1
CHECK_DEADLOCK FALSE
INVARIANTS
  BillingTypeOK
  Conserved
  NoOverdraw
  SeenAfterSuccess
  PaidOnce
  HookPerMishap
PROPERTIES
  KeepsContract
  AnsweredAfterSuccess
  PaymentsRun
  MirrorSettles
