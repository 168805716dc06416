----------------------------- MODULE MCTransfer -----------------------------
EXTENDS TransferProvider

(* Two clients share a store; their keys name one account in two ways.     *)
(* Three more are alone: in another region, in another account (twelve     *)
(* digits), in a region the service does not have.                         *)
Key(kind, half) == [kind |-> kind, half |-> half, odd |-> FALSE, garbled |-> FALSE, long |-> TRUE]
Digits(account) == [kind |-> "digits", account |-> account]
V4(key, region) == [scheme |-> "sigv4", key |-> key, region |-> region, service |-> "transfer"]

MCClients == {"a", "b", "c", "d"}
MCAuthOf ==
  [c \in MCClients |->
     CASE c = "a" -> [scheme |-> "none"]
       [] c = "b" -> V4(Key("AKIA", 3), "mars-1")
       [] c = "c" -> V4(Key("LKIA", 3), "us-east-1")
       [] c = "d" -> V4(Digits(6), "eu-west-1")]

MCPartitions == [r \in {"cn-north-1"} |-> "aws-cn"]
MCAttributeScope == [a \in {"servers", "users"} |-> "local"]

R(operation, server, user, role) ==
  [operation |-> operation, server |-> server, user |-> user, role |-> role]

SendCreateServer == R("CreateServer", Absent, Absent, FALSE)
SendCreateUser(s) == R("CreateUser", s, "u", TRUE)
SendDeleteUser(s) == R("DeleteUser", s, "u", FALSE)
SendListUsers(s) == R("ListUsers", s, Absent, FALSE)
SendDescribe(s) == R("DescribeServer", s, Absent, FALSE)
Refused == {R("StopServer", "s1", Absent, FALSE), SendDescribe("malformed"), R("CreateUser", "s1", "u", FALSE)}

MCRequestsOf ==
  [c \in MCClients |->
     CASE c = "a" -> {SendCreateServer, SendCreateUser("s1")}
       [] c = "b" -> {SendCreateUser("s1"), SendDeleteUser("s1"), SendDescribe("s1")} \cup Refused
       [] c = "c" -> {SendCreateServer, SendCreateUser("s2"), SendDeleteUser("s2"), SendListUsers("s2")}
       [] c = "d" -> {SendCreateServer}]
MCMaxRequests == [c \in MCClients |-> CASE c = "a" -> 2 [] c = "c" -> 3 [] OTHER -> 1]
=============================================================================
