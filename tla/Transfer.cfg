CONSTANTS
  Accounts = {0, 6}
  ValidRegions = {"us-east-1"}
  AllowNonstandardRegions = FALSE
  AttributeScope <- MCAttributeScope
  Clients <- MCClients
  AuthOf <- MCAuthOf
  AvailableRegions = {"us-east-1", "eu-west-1"}
  Partitions <- MCPartitions
  LastAccount = 9
  ParityAccessKeys = FALSE
  Servers = {"s1", "s2"}
  Users = {"u"}
  RequestsOf <- MCRequestsOf
  MaxRequests <- MCMaxRequests
SPECIFICATION Spec
 
PROPERTY ImplementsDirectory
CHECK_DEADLOCK FALSE
