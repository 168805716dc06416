\* A request and the shutdown of the services.
CONSTANTS
  Thread = {t1, t2}
  Service = {transfer}
  Provided = {transfer}
  Enabled = {transfer}
  Faulty = {}
  Fragile = {}
  Ops = {"require", "stop"}
  MaxCalls = 1
  Nobody = Nobody
SPECIFICATION Spec
PROPERTY RequireReturnsRunning
