\* Three threads, two calls each, on one service whose load, start, check and
\* stop may each succeed or raise.
CONSTANTS
  Thread = {t1, t2, t3}
  Service = {transfer}
  Provided = {transfer}
  Enabled = {transfer}
  Faulty = {transfer}
  Fragile = {transfer}
  Ops = {"require", "check", "stop"}
  MaxCalls = 2
  Nobody = Nobody
SPECIFICATION Spec
SYMMETRY ThreadSymmetry
INVARIANTS LoadedOnce DelFindsLock StartExclusive StartingIsOwned ErrorHasCause CheckFindsContainer
