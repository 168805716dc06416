-------------------------- MODULE TransferDirectory --------------------------
(***************************************************************************)
(* What the transfer service promises its clients: one directory of        *)
(* servers and users for each account and region, every request answered   *)
(* as if it ran alone.                                                     *)
(***************************************************************************)
EXTENDS Naturals

CONSTANTS Clients, Servers, Users, Homes, HomeOf, Operations

VARIABLES
  servers,      \* [Homes -> SUBSET Servers]
  users,        \* [Homes -> SUBSET (Servers \X Users)]
  answers       \* [Clients -> what the client was last told]

vars == <<servers, users, answers>>

Told(c, request, status, value) ==
  answers' = [answers EXCEPT ![c] = [request |-> request, status |-> status, value |-> value,
                                     turn |-> answers[c].turn + 1]]

Init ==
  /\ servers = [h \in Homes |-> {}]
  /\ users = [h \in Homes |-> {}]
  /\ \E first \in [Clients -> [request : {<<"none">>}, status : {0}, value : {{}}, turn : {0}]] : answers = first

CreateServer(c) ==
  /\ \E s \in Servers \ UNION {servers[h] : h \in Homes} :
        /\ servers' = [servers EXCEPT ![HomeOf[c]] = @ \cup {s}]
        /\ Told(c, <<"CreateServer">>, 200, {s})
  /\ UNCHANGED users

DescribeServer(c, s) ==
  /\ Told(c, <<"DescribeServer", s>>, IF s \in servers[HomeOf[c]] THEN 200 ELSE 400, {})
  /\ UNCHANGED <<servers, users>>

CreateUser(c, s, u) ==
  LET new == s \in servers[HomeOf[c]] /\ <<s, u>> \notin users[HomeOf[c]]
  IN  /\ users' = IF new THEN [users EXCEPT ![HomeOf[c]] = @ \cup {<<s, u>>}] ELSE users
      /\ Told(c, <<"CreateUser", s, u>>, IF new THEN 200 ELSE 400, {})
      /\ UNCHANGED servers

ListUsers(c, s) ==
  LET known == s \in servers[HomeOf[c]]
  IN  /\ Told(c, <<"ListUsers", s>>, IF known THEN 200 ELSE 400,
              IF known THEN {u \in Users : <<s, u>> \in users[HomeOf[c]]} ELSE {})
      /\ UNCHANGED <<servers, users>>

DeleteUser(c, s, u) ==
  LET there == s \in servers[HomeOf[c]] /\ <<s, u>> \in users[HomeOf[c]]
  IN  /\ users' = IF there THEN [users EXCEPT ![HomeOf[c]] = @ \ {<<s, u>>}] ELSE users
      /\ Told(c, <<"DeleteUser", s, u>>, IF there THEN 200 ELSE 400, {})
      /\ UNCHANGED servers

(* The operations that the provider implements. *)
Served == {"CreateServer", "DescribeServer", "CreateUser", "ListUsers", "DeleteUser"}

(* Refused without an effect: a malformed id (400), an operation that is   *)
(* not implemented (501), a parameter that is missing or a region that the *)
(* service does not have (500); CreateServer has no parameter to miss.     *)
Refusals(c) ==
  {<<o, 400>> : o \in Served \ {"CreateServer"}}
    \cup {<<o, 501>> : o \in Operations \ Served}
    \cup {<<o, 500>> : o \in IF HomeOf[c] \in Homes THEN Operations \ {"CreateServer"} ELSE Operations}

Refuse(c) ==
  /\ \E r \in Refusals(c) : Told(c, <<r[1]>>, r[2], {})
  /\ UNCHANGED <<servers, users>>

Serve(c) ==
  \/ CreateServer(c)
  \/ \E s \in Servers : DescribeServer(c, s) \/ ListUsers(c, s)
  \/ \E s \in Servers, u \in Users : CreateUser(c, s, u) \/ DeleteUser(c, s, u)

Next == \E c \in Clients : (HomeOf[c] \in Homes /\ Serve(c)) \/ Refuse(c)

Spec == Init /\ [][Next]_vars
=============================================================================
