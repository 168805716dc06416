\* Two threads serve requests for a service that may fail to load and to start and
\* for one that is not enabled; a thread may stop the services in between.
CONSTANTS
  Thread = {t1, t2}
  Service = {transfer, sqs}
  Provided = {transfer, sqs}
  Enabled = {transfer}
  Faulty = {transfer}
  Fragile = {transfer}
  Ops = {"require", "stop"}
  MaxCalls = 2
  Nobody = Nobody
  Op = {CreateServer, ListUsers}
  MaxRequests = 1
SPECIFICATION FairSpec
INVARIANTS RoutesAddedOnce RoutedServicesLoaded
PROPERTIES RoutesComplete RequestsAnswered
