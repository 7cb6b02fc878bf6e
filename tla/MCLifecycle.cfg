\* Both gateways, any of them enabled; one message by either, one status request.
CONSTANTS
  telegram = telegram  whatsapp = whatsapp
  h1 = h1  r1 = r1
  Gateways = {telegram, whatsapp}
  MayFail = {whatsapp}
  Cancelled = {telegram}
  HealthServer = health
  Handlers = {h1}
  Readers = {r1}
SPECIFICATION Spec
CHECK_DEADLOCK FALSE
INVARIANTS StatusCoherent JoinedMeansStopped
PROPERTIES ShutdownCompletes FailureIsReported
