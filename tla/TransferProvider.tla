--------------------------- MODULE TransferProvider ---------------------------
(***************************************************************************)
(* Clients that call the transfer service at the same time: who they are   *)
(* is read from their requests, the skeleton finds the method, the method  *)
(* reads and writes the store of its account and region one attribute at a *)
(* time (services/transfer/provider.py, models.py).                        *)
(***************************************************************************)
EXTENDS Stores, TransferApi, Skeleton, FiniteSets, Integers

CONSTANTS
  Clients, AuthOf,             \* the clients and the Authorization header each sends
  AvailableRegions, Partitions, LastAccount, ParityAccessKeys,
  Servers, Users,              \* ids a server may be given, names a client may use
  RequestsOf,                  \* the requests each client may send
  MaxRequests                  \* how many requests each client sends

(* TransferStore declares servers and users with LocalAttribute (models.py). *)
ASSUME LocalAssumption == \A attribute \in {"servers", "users"} : AttributeScope[attribute] = "local"

(* A member that the request does not have. *)
Absent == "absent"

(* The parser leaves what the input shapes of the operations have: no id    *)
(* for CreateServer, no user name for DescribeServer and ListUsers.        *)
ASSUME RequestsAssumption ==
  \A c \in Clients : \A r \in RequestsOf[c] :
     /\ r.user \in Users \cup {Absent}
     /\ r.operation = "CreateServer" => r.server = Absent
     /\ r.operation \in {"CreateServer", "DescribeServer", "ListUsers"} => r.user = Absent

VARIABLES
  calls,        \* the call each client has under way
  answers       \* what each client was last told

vars == <<storeVars, calls, answers>>

Identity == INSTANCE RequestIdentity

(* The context the handlers before the provider leave: account and region. *)
ContextOf(auth) ==
  LET blank == [service |-> "transfer", auth |-> auth, account |-> 0, region |-> "", partition |-> "aws"]
  IN  Identity!AddAccount(Identity!RewriteRegion(Identity!AddRegion(Identity!InjectAuth(blank))))

HomeOf == [c \in Clients |-> <<ContextOf(AuthOf[c]).account, ContextOf(AuthOf[c]).region>>]

(* TransferProvider overrides five methods of TransferApi. *)
ApiClass ==
  [f \in {op.function : op \in TransferOperations} |->
     LET op == CHOOSE op \in TransferOperations : op.function = f
     IN  Handler(op.operation, op.required)]
ProviderClass ==
  [create_server |-> Plain({}), describe_server |-> Plain({"server_id"}),
   create_user |-> Plain({"role", "server_id", "user_name"}), list_users |-> Plain({"server_id"}),
   delete_user |-> Plain({"server_id", "user_name"})]
Table == DispatchTable(<<ProviderClass, ApiClass>>)

Implemented(operation) == operation \in DOMAIN Table /\ Table[operation].name \in DOMAIN ProviderClass

(* A request: operation, server and user, which may be Absent, role. *)
Parameters(r) ==
  {p \in {"server_id", "user_name", "role"} :
     \/ p = "server_id" /\ r.server # Absent
     \/ p = "user_name" /\ r.user # Absent
     \/ p = "role" /\ r.role}

WellFormed(server) == server \in Servers

-----------------------------------------------------------------------------
Idle == [at |-> "idle"]

TransferInit ==
  /\ StoresInit
  /\ calls = [c \in Clients |-> Idle]
  /\ answers = [c \in Clients |-> [request |-> <<"none">>, status |-> 0, value |-> {}, turn |-> 0]]

Named(r) ==
  IF r.server = Absent THEN <<r.operation>>
  ELSE IF r.user = Absent THEN <<r.operation, r.server>> ELSE <<r.operation, r.server, r.user>>

(* A refused request is named by its operation alone. *)
Tell(c, request, status, value) ==
  /\ answers' = [answers EXCEPT ![c] = [request |-> request, status |-> status, value |-> value,
                                        turn |-> answers[c].turn + 1]]
  /\ calls' = [calls EXCEPT ![c] = Idle]

StatusOf(answer) == IF answer.kind = "raised" THEN 500 ELSE answer.status

Answer(c, outcome, value) ==
  LET r == calls[c].request
      answer == Invoke(Table, r.operation, Parameters(r), outcome)
  IN  Tell(c, Named(r), StatusOf(answer), value)

Result == [kind |-> "result"]
Declared(code) == [kind |-> "service", code |-> code, status |-> 400]

Goto(c, label) == calls' = [calls EXCEPT ![c].at = label]

(* Send: parameters that are missing, methods that are inherited and ids   *)
(* that do not match the pattern are answered before the store is touched. *)
Early(r) ==
  IF ~Implemented(r.operation) THEN [kind |-> "not_implemented"]
  ELSE IF r.operation # "CreateServer" /\ ~WellFormed(r.server)
       THEN [kind |-> "service", code |-> "ValidationException", status |-> 400]
       ELSE Result

Send(c) ==
  /\ calls[c].at = "idle" /\ answers[c].turn < MaxRequests[c]
  /\ \E r \in RequestsOf[c] :
       LET early == Invoke(Table, r.operation, Parameters(r), Early(r))
       IN  IF early.kind = "raised" \/ early.exception # NoException
           THEN Tell(c, <<r.operation>>, StatusOf(early), {})
           ELSE /\ calls' = [calls EXCEPT ![c] = [at |-> "subscript", request |-> r]]
                /\ UNCHANGED answers
  /\ ReadOnly

(* transfer_stores[context.account_id][context.region] *)
Select(c) ==
  /\ calls[c].at = "subscript"
  /\ Subscript(HomeOf[c][1], HomeOf[c][2])
  /\ Goto(c, IF calls[c].request.operation = "CreateServer" THEN "put_server" ELSE "check_server")
  /\ UNCHANGED answers

RejectRegion(c) ==
  /\ calls[c].at = "subscript"
  /\ BadSubscript(HomeOf[c][1], HomeOf[c][2])
  /\ Tell(c, <<calls[c].request.operation>>, 500, {})
  /\ ReadOnly

-----------------------------------------------------------------------------
(* store.servers and store.users *)
AttributeAt(label) == IF label \in {"put_server", "check_server", "read_server"} THEN "servers" ELSE "users"
SlotOf(c, attribute) == Slot(HomeOf[c][1], HomeOf[c][2], attribute)
Here(c) == SlotOf(c, AttributeAt(calls[c].at))

Uses == {"put_server", "check_server", "read_server", "init_users", "make_users", "check_user",
         "put_user", "read_users", "check_users", "check_listed", "delete_user"}

(* The attribute is not there: the default is made, then set, whatever was *)
(* set in between.                                                         *)
Miss(c) ==
  /\ calls[c].at \in Uses /\ ~IsSet(Here(c))
  /\ calls' = [calls EXCEPT ![c] = [at |-> "default", request |-> @.request, next |-> @.at]]
  /\ UNCHANGED <<storeVars, answers>>

Default(c) ==
  /\ calls[c].at = "default"
  /\ SetDefault(SlotOf(c, AttributeAt(calls[c].next)))
  /\ calls' = [calls EXCEPT ![c] = [at |-> @.next, request |-> @.request]]
  /\ UNCHANGED answers

At(c, label) == calls[c].at = label /\ IsSet(Here(c))
Held(c) == Holds(Here(c))
Server(c) == calls[c].request.server
User(c) == calls[c].request.user
With(dict, key, value) == [k \in DOMAIN dict \cup {key} |-> IF k = key THEN value ELSE dict[k]]

(* The ids in use: a generated id is a new one. *)
Taken == UNION {DOMAIN Holds(s) : s \in {s \in DOMAIN slots : s[1] = "servers"}}

PutServer(c) ==
  /\ At(c, "put_server")
  /\ \E s \in Servers \ Taken :
       /\ Store(Here(c), With(Held(c), s, HomeOf[c]))
       /\ Answer(c, Result, {s})

(* The resource exists: the provider goes on, or answers what it declares. *)
CheckServer(c) ==
  /\ At(c, "check_server")
  /\ IF Server(c) \in DOMAIN Held(c)
     THEN /\ Goto(c, CASE calls[c].request.operation = "DescribeServer" -> "read_server"
                       [] calls[c].request.operation = "CreateUser" -> "init_users"
                       [] calls[c].request.operation = "ListUsers" -> "read_users"
                       [] OTHER -> "check_users")
          /\ UNCHANGED answers
     ELSE Answer(c, Declared("ResourceNotFoundException"), {})
  /\ ReadOnly

ReadServer(c) ==
  /\ At(c, "read_server")
  /\ Answer(c, IF Server(c) \in DOMAIN Held(c) THEN Result ELSE [kind |-> "raise", code |-> "KeyError"], {})
  /\ ReadOnly

InitUsers(c) ==
  /\ At(c, "init_users")
  /\ Goto(c, IF Server(c) \in DOMAIN Held(c) THEN "check_user" ELSE "make_users")
  /\ UNCHANGED answers /\ ReadOnly

MakeUsers(c) ==
  /\ At(c, "make_users")
  /\ Store(Here(c), With(Held(c), Server(c), <<>>))
  /\ Goto(c, "check_user")
  /\ UNCHANGED answers

UsersAt(c) == Held(c)[Server(c)]
(* mutant: the name is looked up in the servers *)
UserIsServer(c) == User(c) \in DOMAIN Held(c)

KnownUser(c) == User(c) \in DOMAIN UsersAt(c)
KeyMissing(c) == Server(c) \notin DOMAIN Held(c)

CheckUser(c) ==
  /\ At(c, "check_user") /\ ~KeyMissing(c)
  /\ IF KnownUser(c) THEN Answer(c, Declared("ResourceExistsException"), {})
     ELSE Goto(c, "put_user") /\ UNCHANGED answers
  /\ ReadOnly

PutUser(c) ==
  /\ At(c, "put_user") /\ ~KeyMissing(c)
  /\ Store(Here(c), With(Held(c), Server(c), With(UsersAt(c), User(c), HomeOf[c])))
  /\ Answer(c, Result, {})

ReadUsers(c) ==
  /\ At(c, "read_users")
  /\ Answer(c, Result, IF KeyMissing(c) THEN {} ELSE DOMAIN UsersAt(c))
  /\ ReadOnly

CheckUsers(c) ==
  /\ At(c, "check_users")
  /\ IF KeyMissing(c) THEN Answer(c, Declared("ResourceNotFoundException"), {})
     ELSE Goto(c, "check_listed") /\ UNCHANGED answers
  /\ ReadOnly

CheckListed(c) ==
  /\ At(c, "check_listed") /\ ~KeyMissing(c)
  /\ IF KnownUser(c) THEN Goto(c, "delete_user") /\ UNCHANGED answers
     ELSE Answer(c, Declared("ResourceNotFoundException"), {})
  /\ ReadOnly

Without(dict, key) == [k \in DOMAIN dict \ {key} |-> dict[k]]

DeleteUser(c) ==
  /\ At(c, "delete_user") /\ ~KeyMissing(c) /\ KnownUser(c)
  /\ Store(Here(c), With(Held(c), Server(c), Without(UsersAt(c), User(c))))
  /\ Answer(c, Result, {})

(* The dictionary was replaced, or the user deleted, since it was checked: *)
(* a KeyError, which is no error of the service.                           *)
KeyFails(c) ==
  /\ calls[c].at \in {"check_user", "put_user", "check_listed", "delete_user"} /\ IsSet(Here(c))
  /\ KeyMissing(c) \/ (~KeyMissing(c) /\ calls[c].at = "delete_user" /\ ~KnownUser(c))
  /\ Answer(c, [kind |-> "raise", code |-> "KeyError"], {})
  /\ ReadOnly

Next ==
  \E c \in Clients :
     \/ Send(c) \/ Select(c) \/ RejectRegion(c) \/ Miss(c) \/ Default(c)
     \/ PutServer(c) \/ CheckServer(c) \/ ReadServer(c)
     \/ InitUsers(c) \/ MakeUsers(c) \/ CheckUser(c) \/ PutUser(c)
     \/ ReadUsers(c) \/ CheckUsers(c) \/ CheckListed(c) \/ DeleteUser(c) \/ KeyFails(c)

Spec == TransferInit /\ [][Next]_vars
-----------------------------------------------------------------------------
(* PROPERTIES *)

(* What is kept in a slot belongs to the account and the region of the slot: *)
(* AccountRegionBundle and LocalAttribute never mix the data of two clients *)
(* with different credentials.                                             *)
Owners(slot) ==
  IF slot[1] = "servers" THEN Range(Holds(slot)) ELSE UNION {Range(users) : users \in Range(Holds(slot))}

StoresIsolated ==
  \A slot \in DOMAIN slots : \A home \in Owners(slot) : home = <<slot[2], slot[3]>>

(* A client that is alone in its account and region sees a directory that  *)
(* answers one request at a time, whatever clients of other stores do.     *)
Alone == {c \in Clients : \A d \in Clients \ {c} : HomeOf[d] # HomeOf[c]}
AloneHomes == {h \in {HomeOf[c] : c \in Alone} : ~BadSubscript(h[1], h[2])}

(* What the clients ask for. *)
Operations == UNION {{r.operation : r \in RequestsOf[c]} : c \in Clients}

Kept(attribute, h) ==
  LET slot == Slot(h[1], h[2], attribute) IN IF IsSet(slot) THEN Holds(slot) ELSE <<>>

UsersIn(h) ==
  {k \in Servers \X Users : k[1] \in DOMAIN Kept("users", h) /\ k[2] \in DOMAIN Kept("users", h)[k[1]]}

DirectoryServers == [h \in AloneHomes |-> DOMAIN Kept("servers", h)]
DirectoryUsers == [h \in AloneHomes |-> UsersIn(h)]
DirectoryAnswers == [c \in Alone |-> answers[c]]

Directory == INSTANCE TransferDirectory WITH
  Clients <- Alone, Homes <- AloneHomes,
  servers <- DirectoryServers, users <- DirectoryUsers, answers <- DirectoryAnswers

ImplementsDirectory == Directory!Spec

(* test_create_user_duplicate expects the second CreateUser of a name to be *)
(* refused: no two calls for one user of one server are both acknowledged  *)
(* when nobody deletes a user.                                             *)
Acknowledged(c) == {answers[c].request} \cap {r \in {answers[c].request} : r[1] = "CreateUser" /\ answers[c].status = 200}

DuplicateRefused ==
  \A c, d \in Clients :
     c # d /\ HomeOf[c] = HomeOf[d] => Acknowledged(c) \cap Acknowledged(d) = {}
=============================================================================
