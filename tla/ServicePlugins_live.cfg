\* Two threads, two calls each, on an enabled service whose start, check and stop
\* may raise, one that is not enabled and may fail to load, and a name without a
\* provider; the locks and polling loops let every call end.
CONSTANTS
  Thread = {t1, t2}
  Service = {transfer, sqs, nosuch}
  Provided = {transfer, sqs}
  Enabled = {transfer}
  Faulty = {sqs}
  Fragile = {transfer}
  Ops = {"require", "check", "stop"}
  MaxCalls = 2
  Nobody = Nobody
SPECIFICATION FairSpec
INVARIANTS TypeOK DisabledStaysOff
PROPERTIES CallReturns ImplementsRegistry
