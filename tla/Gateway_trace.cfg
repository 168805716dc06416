CONSTANTS
  Catalogue <- MCCatalogue
  Clients <- MCClients
  RequestsOf <- MCRequestsOf
  Plugins <- MCPlugins
  Disabled = {"lambda"}
  Fragile = {"dynamodb", "s3"}
  Tables <- MCTables
  HttpOperations <- MCHttpOperations
  Resources <- MCResources
  AllowedOrigins = {"https://app.localstack.cloud"}
  AvailableRegions = {"us-east-1"}
  Partitions <- MCPartitions
  LastAccount = 9
  ParityAccessKeys = FALSE
  Tracing = TRUE
  CollectMetrics = TRUE
  FailFast = FALSE
  ValidateSchemas = TRUE
SPECIFICATION Spec
INVARIANT FinalizersRun
CHECK_DEADLOCK FALSE
