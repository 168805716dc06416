----------------------------- MODULE TransferProofs -----------------------------
(***************************************************************************)
(* The stores of two credentials are never mixed, and a client alone in    *)
(* its store sees a directory that answers one request at a time, for any   *)
(* number of clients, whatever they send and in whatever order their calls *)
(* go on.                                                                  *)
(***************************************************************************)
EXTENDS TransferProvider, SequenceTheorems, TLAPS

(* A dictionary of servers, or of the users of servers, that belongs to a home. *)
ServersOf(dict, home) == \A s \in DOMAIN dict : dict[s] = home
UsersOf(dict, home) == \A s \in DOMAIN dict : \A u \in DOMAIN dict[s] : dict[s][u] = home

Proper(slot, dict) ==
  IF slot[1] = "servers" THEN ServersOf(dict, <<slot[2], slot[3]>>)
  ELSE UsersOf(dict, <<slot[2], slot[3]>>)

(* StoresIsolated speaks of sets of owners; this is the same of every entry. *)
SlotsProper == \A slot \in DOMAIN slots : Proper(slot, slots[slot])
-----------------------------------------------------------------------------
LEMMA ProperIsolated == SlotsProper => StoresIsolated
<1> SUFFICES ASSUME SlotsProper, NEW slot \in DOMAIN slots, NEW home \in Owners(slot)
             PROVE  home = <<slot[2], slot[3]>>
  BY DEF StoresIsolated
<1>0. Proper(slot, slots[slot])
  BY DEF SlotsProper
<1>1. CASE slot[1] = "servers"
  <2>1. PICK s \in DOMAIN slots[slot] : home = slots[slot][s]
    BY <1>1 DEF Owners, Holds, Range
  <2> QED  BY <1>0, <1>1, <2>1 DEF Proper, ServersOf
<1>2. CASE slot[1] # "servers"
  <2>1. PICK users \in Range(slots[slot]) : home \in Range(users)
    BY <1>2 DEF Owners, Holds
  <2>2. PICK s \in DOMAIN slots[slot] : users = slots[slot][s]
    BY <2>1 DEF Range
  <2>3. PICK u \in DOMAIN users : home = users[u]
    BY <2>1 DEF Range
  <2> QED  BY <1>0, <1>2, <2>2, <2>3 DEF Proper, UsersOf
<1> QED  BY <1>1, <1>2

(* The slot of an attribute names the home of the client that uses it.     *)
LEMMA SlotOfHome ==
  ASSUME NEW c \in Clients, NEW attribute \in {"servers", "users"}
  PROVE  /\ SlotOf(c, attribute) = <<attribute, HomeOf[c][1], HomeOf[c][2]>>
         /\ HomeOf[c] = <<HomeOf[c][1], HomeOf[c][2]>>
<1>1. AttributeScope[attribute] = "local"
  BY LocalAssumption
<1>2. SlotOf(c, attribute) = <<attribute, HomeOf[c][1], HomeOf[c][2]>>
  BY <1>1 DEF SlotOf, Slot
<1>3. HomeOf[c] = <<HomeOf[c][1], HomeOf[c][2]>>
  BY DEF HomeOf
<1> QED  BY <1>2, <1>3

LEMMA AttributeIsEither == ASSUME NEW label PROVE AttributeAt(label) \in {"servers", "users"}
BY DEF AttributeAt

(* Setting an attribute keeps the slots proper when the new value is.      *)
LEMMA StoreKeeps ==
  ASSUME NEW slot, NEW value, SlotsProper, Store(slot, value), Proper(slot, value)
  PROVE  SlotsProper'
<1> SUFFICES ASSUME NEW s \in DOMAIN slots' PROVE Proper(s, slots'[s])
  BY DEF SlotsProper
<1>1. slots' = [q \in DOMAIN slots \cup {slot} |-> IF q = slot THEN value ELSE slots[q]]
  BY DEF Store
<1>2. CASE s = slot
  BY <1>1, <1>2
<1>3. CASE s # slot
  <2>1. s \in DOMAIN slots /\ slots'[s] = slots[s]
    BY <1>1, <1>3
  <2> QED  BY <2>1 DEF SlotsProper
<1> QED  BY <1>2, <1>3

LEMMA ReadKeeps == SlotsProper /\ UNCHANGED slots => SlotsProper'
BY DEF SlotsProper, Proper, ServersOf, UsersOf

(* The empty dictionary belongs to everybody.                              *)
LEMMA EmptyProper == ASSUME NEW slot PROVE Proper(slot, <<>>)
BY DEF Proper, ServersOf, UsersOf
-----------------------------------------------------------------------------
LEMMA PutServerKeeps ==
  ASSUME SlotsProper, NEW c \in Clients, PutServer(c)
  PROVE  SlotsProper'
<1> DEFINE slot == SlotOf(c, "servers")
<1>1. Here(c) = slot /\ slot \in DOMAIN slots
  BY DEF PutServer, At, Here, AttributeAt, IsSet
<1>2. PICK s \in Servers : Store(slot, With(slots[slot], s, HomeOf[c]))
  BY <1>1 DEF PutServer, Held, Holds
<1>3. slot[1] = "servers" /\ <<slot[2], slot[3]>> = HomeOf[c]
  BY SlotOfHome
<1>4. ServersOf(slots[slot], HomeOf[c])
  BY <1>1, <1>3 DEF SlotsProper, Proper
<1>5. ServersOf(With(slots[slot], s, HomeOf[c]), HomeOf[c])
  BY <1>4 DEF ServersOf, With
<1>6. Proper(slot, With(slots[slot], s, HomeOf[c]))
  BY <1>3, <1>5 DEF Proper
<1> QED  BY <1>2, <1>6, StoreKeeps

(* The users of one server are replaced by users of the same home.         *)
LEMMA UsersKeep ==
  ASSUME SlotsProper, NEW c \in Clients, NEW key, NEW users,
         SlotOf(c, "users") \in DOMAIN slots,
         \A u \in DOMAIN users : users[u] = HomeOf[c],
         Store(SlotOf(c, "users"), With(slots[SlotOf(c, "users")], key, users))
  PROVE  SlotsProper'
<1> DEFINE slot == SlotOf(c, "users")
<1>1. slot[1] # "servers" /\ <<slot[2], slot[3]>> = HomeOf[c]
  BY SlotOfHome
<1>2. UsersOf(slots[slot], HomeOf[c])
  BY <1>1 DEF SlotsProper, Proper
<1>3. UsersOf(With(slots[slot], key, users), HomeOf[c])
  BY <1>2 DEF UsersOf, With
<1>4. Proper(slot, With(slots[slot], key, users))
  BY <1>1, <1>3 DEF Proper
<1> QED  BY <1>4, StoreKeeps

(* The users of a server that is in the dictionary belong to its home.     *)
LEMMA UsersAtHome ==
  ASSUME SlotsProper, NEW c \in Clients,
         SlotOf(c, "users") \in DOMAIN slots, Here(c) = SlotOf(c, "users"), ~KeyMissing(c)
  PROVE  \A u \in DOMAIN UsersAt(c) : UsersAt(c)[u] = HomeOf[c]
<1> DEFINE slot == SlotOf(c, "users")
<1>1. slot[1] # "servers" /\ <<slot[2], slot[3]>> = HomeOf[c]
  BY SlotOfHome
<1>2. UsersOf(slots[slot], HomeOf[c])
  BY <1>1 DEF SlotsProper, Proper
<1>3. UsersAt(c) = slots[slot][Server(c)] /\ Server(c) \in DOMAIN slots[slot]
  BY DEF UsersAt, KeyMissing, Held, Holds
<1> QED  BY <1>2, <1>3 DEF UsersOf

LEMMA MakeUsersKeeps ==
  ASSUME SlotsProper, NEW c \in Clients, MakeUsers(c)
  PROVE  SlotsProper'
<1>1. Here(c) = SlotOf(c, "users") /\ SlotOf(c, "users") \in DOMAIN slots
  BY DEF MakeUsers, At, Here, AttributeAt, IsSet
<1>2. Store(SlotOf(c, "users"), With(slots[SlotOf(c, "users")], Server(c), <<>>))
  BY <1>1 DEF MakeUsers, Held, Holds
<1> QED  BY <1>1, <1>2, UsersKeep

LEMMA PutUserKeeps ==
  ASSUME SlotsProper, NEW c \in Clients, PutUser(c)
  PROVE  SlotsProper'
<1>1. Here(c) = SlotOf(c, "users") /\ SlotOf(c, "users") \in DOMAIN slots
  BY DEF PutUser, At, Here, AttributeAt, IsSet
<1> DEFINE users == With(UsersAt(c), User(c), HomeOf[c])
<1>2. Store(SlotOf(c, "users"), With(slots[SlotOf(c, "users")], Server(c), users))
  BY <1>1 DEF PutUser, Held, Holds
<1>3. \A u \in DOMAIN UsersAt(c) : UsersAt(c)[u] = HomeOf[c]
  BY <1>1, UsersAtHome DEF PutUser
<1>4. \A u \in DOMAIN users : users[u] = HomeOf[c]
  BY <1>3 DEF With
<1> HIDE DEF users
<1> QED  BY <1>1, <1>2, <1>4, UsersKeep

LEMMA DeleteUserKeeps ==
  ASSUME SlotsProper, NEW c \in Clients, DeleteUser(c)
  PROVE  SlotsProper'
<1>1. Here(c) = SlotOf(c, "users") /\ SlotOf(c, "users") \in DOMAIN slots
  BY DEF DeleteUser, At, Here, AttributeAt, IsSet
<1> DEFINE users == Without(UsersAt(c), User(c))
<1>2. Store(SlotOf(c, "users"), With(slots[SlotOf(c, "users")], Server(c), users))
  BY <1>1 DEF DeleteUser, Held, Holds
<1>3. \A u \in DOMAIN UsersAt(c) : UsersAt(c)[u] = HomeOf[c]
  BY <1>1, UsersAtHome DEF DeleteUser
<1>4. \A u \in DOMAIN users : users[u] = HomeOf[c]
  BY <1>3 DEF Without
<1> HIDE DEF users
<1> QED  BY <1>1, <1>2, <1>4, UsersKeep

LEMMA DefaultKeeps ==
  ASSUME SlotsProper, NEW c \in Clients, Default(c)
  PROVE  SlotsProper'
<1> DEFINE slot == SlotOf(c, AttributeAt(calls[c].next))
<1>1. Store(slot, <<>>)
  BY DEF Default, SetDefault
<1>2. Proper(slot, <<>>)
  BY EmptyProper
<1> QED  BY <1>1, <1>2, StoreKeeps
-----------------------------------------------------------------------------
(* Every other step reads the stores, or makes a store with nothing in it. *)
LEMMA StepKeeps == SlotsProper /\ [Next]_vars => SlotsProper'
<1> SUFFICES ASSUME SlotsProper, [Next]_vars PROVE SlotsProper'
  OBVIOUS
<1>1. ASSUME UNCHANGED slots PROVE SlotsProper'
  BY <1>1, ReadKeeps
<1>2. CASE UNCHANGED vars
  BY <1>1, <1>2 DEF vars, storeVars
<1>3. CASE Next
  <2>1. PICK c \in Clients :
          \/ Send(c) \/ Select(c) \/ RejectRegion(c) \/ Miss(c) \/ Default(c)
          \/ PutServer(c) \/ CheckServer(c) \/ ReadServer(c)
          \/ InitUsers(c) \/ MakeUsers(c) \/ CheckUser(c) \/ PutUser(c)
          \/ ReadUsers(c) \/ CheckUsers(c) \/ CheckListed(c) \/ DeleteUser(c) \/ KeyFails(c)
    BY <1>3 DEF Next
  <2>2. CASE Send(c)
    BY <2>2, <1>1 DEF Send, ReadOnly, storeVars
  <2>3. CASE Select(c)
    BY <2>3, <1>1 DEF Select, Subscript
  <2>4. CASE RejectRegion(c) \/ CheckServer(c) \/ ReadServer(c) \/ InitUsers(c)
    BY <2>4, <1>1 DEF RejectRegion, CheckServer, ReadServer, InitUsers, ReadOnly, storeVars
  <2>5. CASE CheckUser(c) \/ ReadUsers(c) \/ CheckUsers(c) \/ CheckListed(c) \/ KeyFails(c)
    BY <2>5, <1>1 DEF CheckUser, ReadUsers, CheckUsers, CheckListed, KeyFails, ReadOnly, storeVars
  <2>6. CASE Miss(c)
    BY <2>6, <1>1 DEF Miss, storeVars
  <2> QED
    BY <2>1, <2>2, <2>3, <2>4, <2>5, <2>6, DefaultKeeps, PutServerKeeps, MakeUsersKeeps,
       PutUserKeeps, DeleteUserKeeps
<1> QED  BY <1>2, <1>3

(* What the store of an account and region holds was put there by clients  *)
(* of that account and region (services/stores.py:217-239, models.py:25-27). *)
THEOREM StoresOfOneHome == Spec => []StoresIsolated
<1>1. TransferInit => SlotsProper
  BY DEF TransferInit, StoresInit, SlotsProper
<1> QED
  BY <1>1, StepKeeps, ProperIsolated, PTL DEF Spec

-----------------------------------------------------------------------------
(* The dispatch table of the provider. *)
(* The operations that the provider overrides. *)
Provided ==
  {Op("CreateServer", "create_server", {}), Op("DescribeServer", "describe_server", {"server_id"}),
   Op("CreateUser", "create_user", {"role", "server_id", "user_name"}),
   Op("ListUsers", "list_users", {"server_id"}), Op("DeleteUser", "delete_user", {"server_id", "user_name"})}

Distinct(op) ==
  /\ op.operation # Unmarked
  /\ \A p \in Provided : op.operation = p.operation \/ op.function = p.function => op = p

LEMMA ProvidedAreDistinct ==
  /\ \A op \in TransferOperations : Distinct(op)
  /\ Provided \subseteq TransferOperations
<1>1. \A op \in CreatePartners : Distinct(op)
  BY DEF CreatePartners, Op, Provided, Distinct, Unmarked
<1>2. \A op \in CreateServers : Distinct(op)
  BY DEF CreateServers, Op, Provided, Distinct, Unmarked
<1>3. \A op \in DeleteAccesses : Distinct(op)
  BY DEF DeleteAccesses, Op, Provided, Distinct, Unmarked
<1>4. \A op \in DeleteUsers : Distinct(op)
  BY DEF DeleteUsers, Op, Provided, Distinct, Unmarked
<1>5. \A op \in DescribeAccesses : Distinct(op)
  BY DEF DescribeAccesses, Op, Provided, Distinct, Unmarked
<1>6. \A op \in DescribeServers : Distinct(op)
  BY DEF DescribeServers, Op, Provided, Distinct, Unmarked
<1>7. \A op \in ImportOperations : Distinct(op)
  BY DEF ImportOperations, Op, Provided, Distinct, Unmarked
<1>8. \A op \in ListAccesses : Distinct(op)
  BY DEF ListAccesses, Op, Provided, Distinct, Unmarked
<1>9. \A op \in ListProfiles : Distinct(op)
  BY DEF ListProfiles, Op, Provided, Distinct, Unmarked
<1>10. \A op \in StartTransfers : Distinct(op)
  BY DEF StartTransfers, Op, Provided, Distinct, Unmarked
<1>11. \A op \in StartServers : Distinct(op)
  BY DEF StartServers, Op, Provided, Distinct, Unmarked
<1>12. \A op \in TagOperations : Distinct(op)
  BY DEF TagOperations, Op, Provided, Distinct, Unmarked
<1>13. \A op \in UpdateServers : Distinct(op)
  BY DEF UpdateServers, Op, Provided, Distinct, Unmarked
<1>14. \A op \in UpdateUsers : Distinct(op)
  BY DEF UpdateUsers, Op, Provided, Distinct, Unmarked
<1>15. \A op \in TransferOperations : Distinct(op)
  BY <1>1, <1>2, <1>3, <1>4, <1>5, <1>6, <1>7, <1>8, <1>9, <1>10, <1>11, <1>12, <1>13, <1>14
     DEF TransferOperations
<1>16. Provided \subseteq CreateServers \cup DescribeServers \cup ListProfiles \cup DeleteUsers \cup ListAccesses
  BY DEF Provided, CreateServers, DescribeServers, ListProfiles, DeleteUsers, ListAccesses
<1> QED  BY <1>15, <1>16 DEF TransferOperations

Classes == <<ProviderClass, ApiClass>>

LEMMA Marks ==
  /\ DOMAIN ApiClass = {op.function : op \in TransferOperations}
  /\ \A f \in DOMAIN ApiClass :
       /\ ApiClass[f].expand = TRUE /\ ApiClass[f].context = TRUE
       /\ \E op \in TransferOperations :
             /\ op.function = f /\ ApiClass[f].operation = op.operation
             /\ ApiClass[f].required = op.required
<1>1. \A f \in {op.function : op \in TransferOperations} : \E op \in TransferOperations : op.function = f
  OBVIOUS
<1>2. \A o, q : /\ Handler(o, q).operation = o /\ Handler(o, q).required = q
                /\ Handler(o, q).expand = TRUE /\ Handler(o, q).context = TRUE
  BY DEF Handler
<1>3. DOMAIN ApiClass = {op.function : op \in TransferOperations}
  BY DEF ApiClass
<1>4. ASSUME NEW f \in DOMAIN ApiClass
      PROVE  \E op \in TransferOperations : op.function = f /\ ApiClass[f] = Handler(op.operation, op.required)
  BY <1>1, <1>3, <1>4 DEF ApiClass
<1> QED  BY <1>2, <1>3, <1>4

LEMMA ProviderMethods ==
  /\ DOMAIN ProviderClass = {p.function : p \in Provided}
  /\ \A p \in Provided :
       ProviderClass[p.function].operation = Unmarked /\ ProviderClass[p.function].required = p.required
<1>1. \A q : Plain(q).operation = Unmarked /\ Plain(q).required = q
  BY DEF Plain
<1> QED  BY <1>1 DEF ProviderClass, Provided, Op

(* The classes a name is looked up in: both, or the interface alone.       *)
LEMMA ResolveBoth ==
  ASSUME NEW name
  PROVE  /\ name \in DOMAIN ProviderClass => Resolve(Classes, name) = ProviderClass[name]
         /\ name \notin DOMAIN ProviderClass /\ name \in DOMAIN ApiClass =>
              Resolve(Classes, name) = ApiClass[name]
<1> DEFINE at == {i \in DOMAIN Classes : name \in DOMAIN Classes[i]}
           first == CHOOSE i \in at : \A j \in at : i <= j
<1>1. DOMAIN Classes = {1, 2} /\ Classes[1] = ProviderClass /\ Classes[2] = ApiClass
  BY DEF Classes
<1>2. CASE name \in DOMAIN ProviderClass
  <2>1. 1 \in at /\ at \subseteq {1, 2}
    BY <1>1, <1>2
  <2>2. first = 1
    BY <2>1
  <2> QED  BY <1>1, <1>2, <2>2 DEF Resolve
<1>3. CASE name \notin DOMAIN ProviderClass /\ name \in DOMAIN ApiClass
  <2>1. at = {2}
    BY <1>1, <1>3
  <2>2. first = 2
    BY <2>1
  <2> QED  BY <1>1, <1>3, <2>2 DEF Resolve
<1> QED  BY <1>2, <1>3

LEMMA ResolveApi ==
  ASSUME NEW name \in DOMAIN ApiClass
  PROVE  Resolve(<<ApiClass>>, name) = ApiClass[name]
<1> DEFINE at == {i \in DOMAIN <<ApiClass>> : name \in DOMAIN <<ApiClass>>[i]}
           first == CHOOSE i \in at : \A j \in at : i <= j
<1>1. at = {1}
  OBVIOUS
<1>2. first = 1
  BY <1>1
<1> QED  BY <1>2 DEF Resolve

LEMMA SubClasses ==
  /\ Len(Classes) = 2
  /\ SubSeq(Classes, 1, 2) = Classes /\ SubSeq(Classes, 2, 2) = <<ApiClass>>
  /\ MethodNames(Classes, 1) = DOMAIN ProviderClass \cup DOMAIN ApiClass
  /\ MethodNames(Classes, 2) = DOMAIN ApiClass
<1>1. Len(Classes) = 2 /\ Classes[1] = ProviderClass /\ Classes[2] = ApiClass
  BY DEF Classes
<1>2. Classes \in Seq({ProviderClass, ApiClass})
  BY DEF Classes
<1>6. SubSeq(Classes, 1, 2) = Classes
  <2>1. SubSeq(Classes, 1, 2) \in Seq({ProviderClass, ApiClass}) /\ Len(SubSeq(Classes, 1, 2)) = 2
    BY <1>1, <1>2, SubSeqProperties
  <2>2. \A i \in 1 .. 2 : SubSeq(Classes, 1, 2)[i] = Classes[i]
    BY <1>1, <1>2
  <2> QED BY <1>1, <1>2, <2>1, <2>2, SeqEqual
<1>7. SubSeq(Classes, 2, 2) = <<ApiClass>>
  <2>1. SubSeq(Classes, 2, 2) \in Seq({ProviderClass, ApiClass}) /\ Len(SubSeq(Classes, 2, 2)) = 1
    BY <1>1, <1>2, SubSeqProperties
  <2>2. SubSeq(Classes, 2, 2)[1] = Classes[2]
    BY <1>1, <1>2
  <2>3. <<ApiClass>> \in Seq({ProviderClass, ApiClass}) /\ Len(<<ApiClass>>) = 1
    OBVIOUS
  <2>4. \A i \in 1 .. Len(SubSeq(Classes, 2, 2)) : SubSeq(Classes, 2, 2)[i] = <<ApiClass>>[i]
    BY <1>1, <2>1, <2>2
  <2> HIDE DEF Classes
  <2> QED BY <2>1, <2>3, <2>4, SeqEqual
<1>3. 1 .. 2 = {1, 2} /\ 2 .. 2 = {2}
  OBVIOUS
<1>4. MethodNames(Classes, 1) = DOMAIN ProviderClass \cup DOMAIN ApiClass
  BY <1>1, <1>3 DEF MethodNames
<1>5. MethodNames(Classes, 2) = DOMAIN ApiClass
  BY <1>1, <1>3 DEF MethodNames
<1> QED  BY <1>1, <1>6, <1>7, <1>4, <1>5

(* What getmembers() finds: the interface has every operation, the provider *)
(* those it does not override.                                             *)
LEMMA VisibleMethods ==
  /\ \A v \in Visible(Classes, 1) :
        v.name \in DOMAIN ApiClass \ DOMAIN ProviderClass /\ v.mark = ApiClass[v.name]
  /\ \A v \in Visible(Classes, 2) : v.name \in DOMAIN ApiClass /\ v.mark = ApiClass[v.name]
  /\ \A n \in DOMAIN ApiClass : [name |-> n, mark |-> ApiClass[n]] \in Visible(Classes, 2)
<1>1. \A n \in DOMAIN ApiClass : ApiClass[n].operation # Unmarked
  BY Marks, ProvidedAreDistinct DEF Distinct
<1>2. \A n \in DOMAIN ProviderClass : ProviderClass[n].operation = Unmarked
  BY ProviderMethods
<1> DEFINE both == [n \in MethodNames(Classes, 1) |-> Resolve(SubSeq(Classes, 1, Len(Classes)), n)]
           api == [n \in MethodNames(Classes, 2) |-> Resolve(SubSeq(Classes, 2, Len(Classes)), n)]
<1>3. /\ Visible(Classes, 1) = {[name |-> n, mark |-> both[n]] : n \in {n \in DOMAIN both : both[n].operation # Unmarked}}
      /\ Visible(Classes, 2) = {[name |-> n, mark |-> api[n]] : n \in {n \in DOMAIN api : api[n].operation # Unmarked}}
  BY Zenon DEF Visible
<1>4. /\ DOMAIN both = DOMAIN ProviderClass \cup DOMAIN ApiClass /\ DOMAIN api = DOMAIN ApiClass
      /\ \A n \in DOMAIN ProviderClass : both[n] = ProviderClass[n]
      /\ \A n \in DOMAIN ApiClass \ DOMAIN ProviderClass : both[n] = ApiClass[n]
      /\ \A n \in DOMAIN ApiClass : api[n] = ApiClass[n]
  BY SubClasses, ResolveBoth, ResolveApi
<1> HIDE DEF both, api
<1>5. ASSUME NEW v \in Visible(Classes, 1)
      PROVE  v.name \in DOMAIN ApiClass \ DOMAIN ProviderClass /\ v.mark = ApiClass[v.name]
  <2>1. PICK n \in DOMAIN both : v = [name |-> n, mark |-> both[n]] /\ both[n].operation # Unmarked
    BY <1>3
  <2> QED  BY <1>2, <1>4, <2>1
<1>6. ASSUME NEW v \in Visible(Classes, 2)
      PROVE  v.name \in DOMAIN ApiClass /\ v.mark = ApiClass[v.name]
  BY <1>3, <1>4
<1>7. ASSUME NEW n \in DOMAIN ApiClass
      PROVE  [name |-> n, mark |-> ApiClass[n]] \in Visible(Classes, 2)
  BY <1>1, <1>3, <1>4
<1> QED  BY <1>5, <1>6, <1>7

(* The table has every operation of the interface, under the name of a      *)
(* method that is marked with it, in the first class that has one.          *)
LEMMA TableEntries ==
  /\ DOMAIN Table = {ApiClass[n].operation : n \in DOMAIN ApiClass}
  /\ \A o \in DOMAIN Table :
       \E n \in DOMAIN ApiClass :
          /\ ApiClass[n].operation = o
          /\ Table[o].name = n /\ Table[o].expand = TRUE
          /\ Table[o].required = Resolve(Classes, n).required
<1> DEFINE seen(o) == {i \in DOMAIN Classes : \E v \in Visible(Classes, i) : v.mark.operation = o}
           First(o) == CHOOSE i \in seen(o) : \A j \in seen(o) : i <= j
           Marked(o) == CHOOSE v \in Visible(Classes, First(o)) : v.mark.operation = o
           operations == {v.mark.operation : v \in UNION {Visible(Classes, i) : i \in DOMAIN Classes}}
<1>1. Table = [o \in operations |->
                 [name |-> Marked(o).name, expand |-> Marked(o).mark.expand,
                  context |-> Marked(o).mark.context, required |-> Resolve(Classes, Marked(o).name).required]]
  BY Zenon DEF Table, DispatchTable, Classes
<1>2. DOMAIN Classes = {1, 2}
  BY DEF Classes
<1>3. operations = {ApiClass[n].operation : n \in DOMAIN ApiClass}
  <2>1. ASSUME NEW o \in operations PROVE \E n \in DOMAIN ApiClass : o = ApiClass[n].operation
    BY <1>2, VisibleMethods
  <2>2. ASSUME NEW n \in DOMAIN ApiClass PROVE ApiClass[n].operation \in operations
    <3>1. [name |-> n, mark |-> ApiClass[n]] \in Visible(Classes, 2)
      BY VisibleMethods
    <3> QED  BY <1>2, <3>1
  <2> QED  BY <2>1, <2>2
<1>4. ASSUME NEW o \in operations
      PROVE  Marked(o).name \in DOMAIN ApiClass /\ Marked(o).mark = ApiClass[Marked(o).name]
             /\ ApiClass[Marked(o).name].operation = o
  <2>1. \E i \in DOMAIN Classes : \E v \in Visible(Classes, i) : v.mark.operation = o
    OBVIOUS
  <2>2. seen(o) # {} /\ seen(o) \subseteq {1, 2}
    BY <1>2, <2>1
  <2>3. First(o) \in seen(o)
    <3>1. \E i \in seen(o) : \A j \in seen(o) : i <= j
      BY <2>2
    <3> QED  BY <3>1
  <2>4. \E v \in Visible(Classes, First(o)) : v.mark.operation = o
    BY <2>3
  <2>5. Marked(o) \in Visible(Classes, First(o)) /\ Marked(o).mark.operation = o
    BY <2>4
  <2> QED  BY <2>2, <2>3, <2>5, VisibleMethods
<1>5. ASSUME NEW o \in operations
      PROVE  /\ Table[o].name = Marked(o).name /\ Table[o].expand = ApiClass[Marked(o).name].expand
             /\ Table[o].required = Resolve(Classes, Marked(o).name).required
  BY <1>1, <1>4
<1>6. \A n \in DOMAIN ApiClass : ApiClass[n].expand = TRUE
  BY Marks
<1>7. DOMAIN Table = operations
  BY <1>1
<1> HIDE DEF Marked, operations
<1> QED  BY <1>3, <1>4, <1>5, <1>6, <1>7

(* What the provider implements are its five operations.                   *)
LEMMA TableOfProvider ==
  /\ \A o : o \in Directory!Served <=> Implemented(o)
  /\ \A p \in Provided : p.operation \in DOMAIN Table /\ Table[p.operation].expand = TRUE
                        /\ Table[p.operation].required = p.required
<1>1. ASSUME NEW p \in Provided
      PROVE  /\ p.operation \in DOMAIN Table /\ Table[p.operation].name = p.function
             /\ Table[p.operation].expand = TRUE /\ Table[p.operation].required = p.required
  <2>1. p.function \in DOMAIN ApiClass /\ ApiClass[p.function].operation = p.operation
    BY Marks, ProvidedAreDistinct DEF Distinct
  <2>2. p.operation \in DOMAIN Table
    BY <2>1, TableEntries
  <2>3. PICK n \in DOMAIN ApiClass :
          /\ ApiClass[n].operation = p.operation
          /\ Table[p.operation].name = n /\ Table[p.operation].expand = TRUE
          /\ Table[p.operation].required = Resolve(Classes, n).required
    BY <2>2, TableEntries
  <2>4. n = p.function
    BY <2>3, Marks, ProvidedAreDistinct DEF Distinct
  <2>5. Resolve(Classes, n).required = p.required
    BY <2>4, ProviderMethods, ResolveBoth
  <2> QED  BY <2>2, <2>3, <2>4, <2>5
<1>2. ASSUME NEW o, Implemented(o)
      PROVE  \E p \in Provided : o = p.operation
  <2>1. PICK n \in DOMAIN ApiClass : ApiClass[n].operation = o /\ Table[o].name = n
    BY <1>2, TableEntries DEF Implemented
  <2>2. PICK p \in Provided : n = p.function
    BY <1>2, <2>1, ProviderMethods DEF Implemented
  <2>3. ApiClass[n].operation = p.operation
    <3>1. PICK op \in TransferOperations : op.function = n /\ ApiClass[n].operation = op.operation
      BY Marks
    <3>2. op = p
      BY <2>2, <3>1, ProvidedAreDistinct DEF Distinct
    <3> QED  BY <3>1, <3>2
  <2> QED  BY <2>1, <2>3
<1>3. Directory!Served = {p.operation : p \in Provided}
  BY DEF Directory!Served, Provided, Op
<1>4. ASSUME NEW p \in Provided PROVE Implemented(p.operation)
  BY <1>1, ProviderMethods DEF Implemented
<1> QED  BY <1>1, <1>2, <1>3, <1>4

-----------------------------------------------------------------------------
(* Requests and their answers. *)
(* A request that Send lets through. *)
Accepted(r) ==
  /\ r.operation \in Directory!Served
  /\ r.operation \in DOMAIN Table /\ ~CallFails(Table[r.operation], Parameters(r))
  /\ r.operation # "CreateServer" => r.server \in Servers

LEMMA AnswersOfAccepted ==
  ASSUME NEW r, Accepted(r)
  PROVE  /\ StatusOf(Invoke(Table, r.operation, Parameters(r), Result)) = 200
         /\ \A code : StatusOf(Invoke(Table, r.operation, Parameters(r), Declared(code))) = 400
  BY DEF Accepted, Invoke, StatusOf, Result, Declared, Answered, Raised

(* The request that was accepted has the parameters of its operation.      *)
LEMMA NamesOfAccepted ==
  ASSUME NEW c \in Clients, NEW r \in RequestsOf[c], Accepted(r)
  PROVE  /\ r.operation = "CreateServer" => Named(r) = <<"CreateServer">>
         /\ r.operation \in {"DescribeServer", "ListUsers"} => Named(r) = <<r.operation, r.server>>
         /\ r.operation \in {"CreateUser", "DeleteUser"} =>
              Named(r) = <<r.operation, r.server, r.user>> /\ r.user \in Users
<1>1. /\ r.user \in Users \cup {Absent}
      /\ r.operation = "CreateServer" => r.server = Absent
      /\ r.operation \in {"CreateServer", "DescribeServer", "ListUsers"} => r.user = Absent
  BY RequestsAssumption
<1>2. CASE r.operation = "CreateServer"
  BY <1>1, <1>2 DEF Named
<1>3. CASE r.operation \in {"DescribeServer", "ListUsers"}
  <2>1. PICK p \in Provided : p.operation = r.operation /\ p.required = {"server_id"}
    BY <1>3 DEF Provided, Op
  <2>2. "server_id" \in Parameters(r)
    BY <2>1, TableOfProvider DEF Accepted, CallFails
  <2>3. r.server # Absent
    BY <2>2 DEF Parameters
  <2> QED  BY <1>1, <1>3, <2>3 DEF Named
<1>4. CASE r.operation \in {"CreateUser", "DeleteUser"}
  <2>1. PICK p \in Provided : p.operation = r.operation /\ {"server_id", "user_name"} \subseteq p.required
    BY <1>4 DEF Provided, Op
  <2>2. "server_id" \in Parameters(r) /\ "user_name" \in Parameters(r)
    BY <2>1, TableOfProvider DEF Accepted, CallFails
  <2>3. r.server # Absent /\ r.user # Absent
    BY <2>2 DEF Parameters
  <2> QED  BY <1>1, <1>4, <2>3 DEF Named
<1> QED  BY <1>2, <1>3, <1>4

(* A request is let through, or refused as the directory may refuse it.    *)
LEMMA EarlyAnswers ==
  ASSUME NEW c \in Clients, NEW r \in RequestsOf[c],
         NEW early, early = Invoke(Table, r.operation, Parameters(r), Early(r))
  PROVE  IF early.kind = "raised" \/ early.exception # NoException
         THEN <<r.operation, StatusOf(early)>> \in Directory!Refusals(c)
         ELSE Accepted(r)
<1> DEFINE o == r.operation
<1>1. o \in Operations
  BY DEF Operations
<1>2. o \in Directory!Served <=> Implemented(o)
  BY TableOfProvider
<1>3. CASE o \notin DOMAIN Table
  <2>1. early = Answered(501, "InternalFailure", FALSE) /\ o \notin Directory!Served
    BY <1>2, <1>3 DEF Invoke, NotImplementedAnswer, Implemented
  <2> QED  BY <1>1, <2>1 DEF Answered, StatusOf, NoException, Directory!Refusals
<1>4. CASE o \in DOMAIN Table /\ CallFails(Table[o], Parameters(r))
  <2>1. early = Raised("TypeError")
    BY <1>4 DEF Invoke
  <2>2. o # "CreateServer"
    <3>1. Op("CreateServer", "create_server", {}) \in Provided
      BY DEF Provided
    <3>2. Table["CreateServer"].required = {}
      BY <3>1, TableOfProvider DEF Op
    <3> QED  BY <1>4, <3>2 DEF CallFails
  <2> QED  BY <1>1, <2>1, <2>2 DEF Raised, StatusOf, Directory!Refusals
<1>5. CASE o \in DOMAIN Table /\ ~CallFails(Table[o], Parameters(r)) /\ ~Implemented(o)
  <2>1. early = Answered(501, "InternalFailure", FALSE)
    BY <1>5 DEF Invoke, Early, NotImplementedAnswer
  <2> QED  BY <1>1, <1>2, <1>5, <2>1 DEF Answered, StatusOf, NoException, Directory!Refusals
<1>6. CASE /\ o \in DOMAIN Table /\ ~CallFails(Table[o], Parameters(r)) /\ Implemented(o)
           /\ o # "CreateServer" /\ ~WellFormed(r.server)
  <2>1. early = Answered(400, "ValidationException", FALSE)
    BY <1>6 DEF Invoke, Early
  <2> QED  BY <1>2, <1>6, <2>1 DEF Answered, StatusOf, NoException, Directory!Refusals
<1>7. CASE /\ o \in DOMAIN Table /\ ~CallFails(Table[o], Parameters(r)) /\ Implemented(o)
           /\ o = "CreateServer" \/ WellFormed(r.server)
  <2>1. early = Answered(200, NoException, TRUE)
    BY <1>7 DEF Invoke, Early, Result
  <2>2. Accepted(r)
    BY <1>2, <1>7 DEF Accepted, WellFormed
  <2> QED  BY <2>1, <2>2 DEF Answered
<1> QED  BY <1>3, <1>4, <1>5, <1>6, <1>7

-----------------------------------------------------------------------------
(* What the directory of the clients alone does when one of them is answered. *)
Replied(c, request, status, value) ==
  DirectoryAnswers' = [DirectoryAnswers EXCEPT ![c] = [request |-> request, status |-> status, value |-> value,
                                          turn |-> DirectoryAnswers[c].turn + 1]]

LEMMA DirectoryStays ==
  DirectoryServers' = DirectoryServers /\ DirectoryUsers' = DirectoryUsers /\ DirectoryAnswers' = DirectoryAnswers
    => UNCHANGED Directory!vars
  BY DEF Directory!vars

LEMMA DirectoryReplies ==
  ASSUME NEW c, NEW request, NEW status, NEW value, Replied(c, request, status, value)
  PROVE  Directory!Told(c, request, status, value)
  BY DEF Replied, Directory!Told

LEMMA DirectoryRefuses ==
  ASSUME NEW c \in Alone, NEW o, NEW status, <<o, status>> \in Directory!Refusals(c),
         Replied(c, <<o>>, status, {}), DirectoryServers' = DirectoryServers, DirectoryUsers' = DirectoryUsers
  PROVE  Directory!Next
<1>1. Directory!Told(c, <<o>>, status, {})
  BY DirectoryReplies
<1>2. Directory!Refuse(c)
  BY <1>1 DEF Directory!Refuse
<1> QED  BY <1>2 DEF Directory!Next

LEMMA DirectoryCreatesServer ==
  ASSUME NEW c \in Alone, HomeOf[c] \in AloneHomes, NEW s \in Servers,
         \A h \in AloneHomes : s \notin DirectoryServers[h],
         DirectoryServers' = [DirectoryServers EXCEPT ![HomeOf[c]] = @ \cup {s}],
         DirectoryUsers' = DirectoryUsers, Replied(c, <<"CreateServer">>, 200, {s})
  PROVE  Directory!Next
<1>1. Directory!Told(c, <<"CreateServer">>, 200, {s})
  BY DirectoryReplies
<1>2. Directory!CreateServer(c)
  BY <1>1 DEF Directory!CreateServer
<1> QED  BY <1>2 DEF Directory!Next, Directory!Serve

LEMMA DirectoryDescribes ==
  ASSUME NEW c \in Alone, HomeOf[c] \in AloneHomes, NEW s \in Servers, NEW status,
         status = IF s \in DirectoryServers[HomeOf[c]] THEN 200 ELSE 400,
         DirectoryServers' = DirectoryServers, DirectoryUsers' = DirectoryUsers,
         Replied(c, <<"DescribeServer", s>>, status, {})
  PROVE  Directory!Next
<1>1. Directory!DescribeServer(c, s)
  BY DEF Directory!DescribeServer, Directory!Told, Replied
<1> QED  BY <1>1 DEF Directory!Next, Directory!Serve

LEMMA DirectoryLists ==
  ASSUME NEW c \in Alone, HomeOf[c] \in AloneHomes, NEW s \in Servers, NEW status, NEW listed,
         \/ /\ s \in DirectoryServers[HomeOf[c]] /\ status = 200
            /\ listed = {u \in Users : <<s, u>> \in DirectoryUsers[HomeOf[c]]}
         \/ s \notin DirectoryServers[HomeOf[c]] /\ status = 400 /\ listed = {},
         DirectoryServers' = DirectoryServers, DirectoryUsers' = DirectoryUsers,
         Replied(c, <<"ListUsers", s>>, status, listed)
  PROVE  Directory!Next
<1>1. Directory!ListUsers(c, s)
  BY DEF Directory!ListUsers, Directory!Told, Replied
<1> QED  BY <1>1 DEF Directory!Next, Directory!Serve

LEMMA DirectoryCreatesUser ==
  ASSUME NEW c \in Alone, HomeOf[c] \in AloneHomes, NEW s \in Servers, NEW u \in Users, NEW status,
         \/ /\ s \in DirectoryServers[HomeOf[c]] /\ <<s, u>> \notin DirectoryUsers[HomeOf[c]] /\ status = 200
            /\ DirectoryUsers' = [DirectoryUsers EXCEPT ![HomeOf[c]] = @ \cup {<<s, u>>}]
         \/ /\ s \notin DirectoryServers[HomeOf[c]] \/ <<s, u>> \in DirectoryUsers[HomeOf[c]]
            /\ status = 400 /\ DirectoryUsers' = DirectoryUsers,
         DirectoryServers' = DirectoryServers, Replied(c, <<"CreateUser", s, u>>, status, {})
  PROVE  Directory!Next
<1>1. Directory!CreateUser(c, s, u)
  BY DEF Directory!CreateUser, Directory!Told, Replied
<1> QED  BY <1>1 DEF Directory!Next, Directory!Serve

LEMMA DirectoryDeletesUser ==
  ASSUME NEW c \in Alone, HomeOf[c] \in AloneHomes, NEW s \in Servers, NEW u \in Users, NEW status,
         \/ /\ s \in DirectoryServers[HomeOf[c]] /\ <<s, u>> \in DirectoryUsers[HomeOf[c]] /\ status = 200
            /\ DirectoryUsers' = [DirectoryUsers EXCEPT ![HomeOf[c]] = @ \ {<<s, u>>}]
         \/ /\ s \notin DirectoryServers[HomeOf[c]] \/ <<s, u>> \notin DirectoryUsers[HomeOf[c]]
            /\ status = 400 /\ DirectoryUsers' = DirectoryUsers,
         DirectoryServers' = DirectoryServers, Replied(c, <<"DeleteUser", s, u>>, status, {})
  PROVE  Directory!Next
<1>1. Directory!DeleteUser(c, s, u)
  BY DEF Directory!DeleteUser, Directory!Told, Replied
<1> QED  BY <1>1 DEF Directory!Next, Directory!Serve

-----------------------------------------------------------------------------
(* What the method has found out in its client's store when it is about to *)
(* use an attribute at label, which still holds if nobody shares the store. *)
OperationsAt(label) ==
  CASE label = "put_server" -> {"CreateServer"}
    [] label = "check_server" -> Directory!Served \ {"CreateServer"}
    [] label = "read_server" -> {"DescribeServer"}
    [] label \in {"init_users", "make_users", "check_user", "put_user"} -> {"CreateUser"}
    [] label = "read_users" -> {"ListUsers"}
    [] label \in {"check_users", "check_listed", "delete_user"} -> {"DeleteUser"}

Knows(label, r, servers, users) ==
  /\ r.operation \in OperationsAt(label)
  /\ label \notin {"put_server", "check_server"} => r.server \in DOMAIN servers
  /\ label = "make_users" => r.server \notin DOMAIN users
  /\ label \in {"check_user", "put_user", "check_listed", "delete_user"} => r.server \in DOMAIN users
  /\ label = "put_user" => r.user \notin DOMAIN users[r.server]
  /\ label = "delete_user" => r.user \in DOMAIN users[r.server]

ProperCall(c, x, servers, users) ==
  /\ x.at \in {"idle", "subscript", "default"} \cup Uses
  /\ x.at # "idle" =>
       {"at", "request"} \subseteq DOMAIN x /\ x.request \in RequestsOf[c] /\ Accepted(x.request)
  /\ x.at \notin {"idle", "subscript"} => HomeOf[c] \in AloneHomes
  /\ x.at \in Uses => Knows(x.at, x.request, servers, users)
  /\ x.at = "default" => x.next \in Uses /\ Knows(x.next, x.request, servers, users)

ServersFor(c) == Kept("servers", HomeOf[c])
UsersFor(c) == Kept("users", HomeOf[c])

(* Nobody else sets an attribute of the store of a client that is alone.   *)
DefaultIsMissing(c) == calls[c].at = "default" => ~IsSet(SlotOf(c, AttributeAt(calls[c].next)))
UsersNamed(c) == \A s \in DOMAIN UsersFor(c) : DOMAIN UsersFor(c)[s] \subseteq Users

CallInv(c) ==
  ProperCall(c, calls[c], ServersFor(c), UsersFor(c)) /\ DefaultIsMissing(c) /\ UsersNamed(c)

AloneInv ==
  /\ DOMAIN calls = Clients /\ DOMAIN answers = Clients
  /\ \A c \in Alone : CallInv(c)

-----------------------------------------------------------------------------
(* What a step of c leaves alone: the calls, the answers and the slots of  *)
(* the others.                                                             *)
SlotStays(slot) ==
  /\ slot \in DOMAIN slots' <=> slot \in DOMAIN slots
  /\ slot \in DOMAIN slots => slots'[slot] = slots[slot]

Own(c) ==
  /\ DOMAIN calls' = Clients /\ DOMAIN answers' = Clients
  /\ \A d \in Clients \ {c} : calls'[d] = calls[d] /\ answers'[d] = answers[d]
  /\ \A slot : slot \notin {SlotOf(c, "servers"), SlotOf(c, "users")} => SlotStays(slot)

StepOf(c) ==
  \/ Send(c) \/ Select(c) \/ RejectRegion(c) \/ Miss(c) \/ Default(c)
  \/ PutServer(c) \/ CheckServer(c) \/ ReadServer(c)
  \/ InitUsers(c) \/ MakeUsers(c) \/ CheckUser(c) \/ PutUser(c)
  \/ ReadUsers(c) \/ CheckUsers(c) \/ CheckListed(c) \/ DeleteUser(c) \/ KeyFails(c)

LEMMA StoreStays ==
  ASSUME NEW slot, NEW value, Store(slot, value)
  PROVE  /\ \A s : s # slot => SlotStays(s)
         /\ slot \in DOMAIN slots' /\ slots'[slot] = value
  BY DEF Store, SlotStays

LEMMA ReadStays == UNCHANGED slots => \A s : SlotStays(s)
  BY DEF SlotStays

LEMMA StepsAreOwn ==
  ASSUME NEW c \in Clients, StepOf(c), DOMAIN calls = Clients, DOMAIN answers = Clients
  PROVE  Own(c)
<1> DEFINE Told == DOMAIN answers' = Clients /\ \A d \in Clients \ {c} : answers'[d] = answers[d]
           Called == DOMAIN calls' = Clients /\ \A d \in Clients \ {c} : calls'[d] = calls[d]
           Slotted == \A slot : slot \notin {SlotOf(c, "servers"), SlotOf(c, "users")} => SlotStays(slot)
<1>1. UNCHANGED answers => Told
  OBVIOUS
<1>2. \A q, s, v : Tell(c, q, s, v) => Told /\ Called
  BY DEF Tell
<1>3. \A o, v : Answer(c, o, v) => Told /\ Called
  BY <1>2 DEF Answer
<1>4. \A label : Goto(c, label) => Called
  BY DEF Goto
<1>5. ReadOnly => Slotted
  BY ReadStays DEF ReadOnly, storeVars
<1>6. \A value, label : Store(SlotOf(c, AttributeAt(label)), value) => Slotted
  BY StoreStays, AttributeIsEither
<1>7. ASSUME NEW x, calls' = [calls EXCEPT ![c] = x] PROVE Called
  BY <1>7
<1> HIDE DEF Told, Called, Slotted
<1>8. Told /\ Called /\ Slotted
  <2>1. CASE Send(c)
    BY <2>1, <1>1, <1>2, <1>5, <1>7 DEF Send
  <2>2. CASE Select(c)
    BY <2>2, <1>1, <1>4, ReadStays DEF Select, Subscript, Slotted
  <2>3. CASE RejectRegion(c)
    BY <2>3, <1>2, <1>5 DEF RejectRegion
  <2>4. CASE Miss(c)
    BY <2>4, <1>1, <1>7, <1>5 DEF Miss, ReadOnly
  <2>5. CASE Default(c)
    BY <2>5, <1>1, <1>6, <1>7 DEF Default, SetDefault
  <2>6. CASE PutServer(c)
    BY <2>6, <1>3, <1>6 DEF PutServer, Here
  <2>7. CASE CheckServer(c)
    BY <2>7, <1>1, <1>3, <1>4, <1>5 DEF CheckServer
  <2>8. CASE ReadServer(c)
    BY <2>8, <1>3, <1>5 DEF ReadServer
  <2>9. CASE InitUsers(c)
    BY <2>9, <1>1, <1>4, <1>5 DEF InitUsers
  <2>10. CASE MakeUsers(c)
    BY <2>10, <1>1, <1>4, <1>6 DEF MakeUsers, Here
  <2>11. CASE CheckUser(c)
    BY <2>11, <1>1, <1>3, <1>4, <1>5 DEF CheckUser
  <2>12. CASE PutUser(c)
    BY <2>12, <1>3, <1>6 DEF PutUser, Here
  <2>13. CASE ReadUsers(c)
    BY <2>13, <1>3, <1>5 DEF ReadUsers
  <2>14. CASE CheckUsers(c)
    BY <2>14, <1>1, <1>3, <1>4, <1>5 DEF CheckUsers
  <2>15. CASE CheckListed(c)
    BY <2>15, <1>1, <1>3, <1>4, <1>5 DEF CheckListed
  <2>16. CASE DeleteUser(c)
    BY <2>16, <1>3, <1>6 DEF DeleteUser, Here
  <2>17. CASE KeyFails(c)
    BY <2>17, <1>3, <1>5 DEF KeyFails
  <2> QED
    BY <2>1, <2>2, <2>3, <2>4, <2>5, <2>6, <2>7, <2>8, <2>9, <2>10, <2>11, <2>12, <2>13, <2>14,
       <2>15, <2>16, <2>17 DEF StepOf
<1> QED  BY <1>8 DEF Own, Told, Called, Slotted

LEMMA AttributeSlots ==
  ASSUME NEW c \in Clients
  PROVE  /\ SlotOf(c, "servers") # SlotOf(c, "users")
         /\ \A d \in Alone \ {c}, a, b \in {"servers", "users"} : SlotOf(d, a) # SlotOf(c, b)
<1>1. SlotOf(c, "servers") # SlotOf(c, "users")
  BY SlotOfHome
<1>2. ASSUME NEW d \in Alone \ {c}, NEW a \in {"servers", "users"}, NEW b \in {"servers", "users"}
      PROVE  SlotOf(d, a) # SlotOf(c, b)
  <2>1. d \in Clients /\ HomeOf[d] # HomeOf[c]
    BY DEF Alone
  <2>2. /\ SlotOf(d, a) = <<a, HomeOf[d][1], HomeOf[d][2]>> /\ SlotOf(c, b) = <<b, HomeOf[c][1], HomeOf[c][2]>>
        /\ HomeOf[d] = <<HomeOf[d][1], HomeOf[d][2]>> /\ HomeOf[c] = <<HomeOf[c][1], HomeOf[c][2]>>
    BY <2>1, SlotOfHome
  <2> QED  BY <2>1, <2>2
<1> QED  BY <1>1, <1>2

LEMMA KeptOf ==
  ASSUME NEW c \in Clients, NEW a
  PROVE  /\ Kept(a, HomeOf[c]) = IF SlotOf(c, a) \in DOMAIN slots THEN slots[SlotOf(c, a)] ELSE <<>>
         /\ Kept(a, HomeOf[c])' = IF SlotOf(c, a) \in DOMAIN slots' THEN slots'[SlotOf(c, a)] ELSE <<>>
  BY DEF Kept, SlotOf, IsSet, Holds, Slot

LEMMA OthersKeepTheirs ==
  ASSUME NEW c \in Clients, Own(c), NEW d \in Alone \ {c}
  PROVE  /\ \A a \in {"servers", "users"} :
               /\ SlotStays(SlotOf(d, a)) /\ Kept(a, HomeOf[d])' = Kept(a, HomeOf[d])
         /\ calls'[d] = calls[d] /\ answers'[d] = answers[d]
         /\ CallInv(d) => CallInv(d)'
<1>1. d \in Clients
  BY DEF Alone
<1>2. \A a \in {"servers", "users"} : SlotStays(SlotOf(d, a))
  BY AttributeSlots DEF Own
<1>3. \A a \in {"servers", "users"} : Kept(a, HomeOf[d])' = Kept(a, HomeOf[d])
  BY <1>1, <1>2, KeptOf DEF SlotStays
<1>4. calls'[d] = calls[d] /\ answers'[d] = answers[d]
  BY <1>1 DEF Own
<1>5. ASSUME CallInv(d) PROVE CallInv(d)'
  <2>1. ServersFor(d)' = ServersFor(d) /\ UsersFor(d)' = UsersFor(d)
    BY <1>3 DEF ServersFor, UsersFor
  <2>2. ProperCall(d, calls[d], ServersFor(d), UsersFor(d))'
    BY <1>4, <1>5, <2>1 DEF CallInv
  <2>3. DefaultIsMissing(d)'
    BY <1>2, <1>4, <1>5, AttributeIsEither DEF CallInv, DefaultIsMissing, IsSet, SlotStays
  <2>4. UsersNamed(d)'
    BY <1>5, <2>1 DEF CallInv, UsersNamed
  <2> QED  BY <2>2, <2>3, <2>4 DEF CallInv
<1> QED  BY <1>2, <1>3, <1>4, <1>5

(* The other homes of the directory are as they were.                      *)
LEMMA OtherHomes ==
  ASSUME NEW c \in Clients, Own(c), NEW h \in AloneHomes, h # HomeOf[c]
  PROVE  Kept("servers", h)' = Kept("servers", h) /\ UsersIn(h)' = UsersIn(h)
<1>1. PICK d \in Alone : h = HomeOf[d]
  BY DEF AloneHomes
<1>2. d \in Alone \ {c}
  BY <1>1
<1>3. Kept("servers", h)' = Kept("servers", h) /\ Kept("users", h)' = Kept("users", h)
  BY <1>1, <1>2, OthersKeepTheirs
<1> QED  BY <1>3 DEF UsersIn

(* A client that shares its store is not seen in the directory.            *)
LEMMA OthersAreNotSeen ==
  ASSUME NEW c \in Clients, Own(c), c \notin Alone
  PROVE  UNCHANGED Directory!vars
<1>1. \A h \in AloneHomes : h # HomeOf[c]
  BY DEF AloneHomes, Alone
<1>2. \A h \in AloneHomes : Kept("servers", h)' = Kept("servers", h) /\ UsersIn(h)' = UsersIn(h)
  BY <1>1, OtherHomes
<1>3. DirectoryServers' = DirectoryServers /\ DirectoryUsers' = DirectoryUsers
  BY <1>2 DEF DirectoryServers, DirectoryUsers
<1>4. \A d \in Alone : answers'[d] = answers[d]
  BY DEF Own, Alone
<1>5. DirectoryAnswers' = DirectoryAnswers
  BY <1>4 DEF DirectoryAnswers
<1> QED  BY <1>3, <1>5, DirectoryStays

-----------------------------------------------------------------------------
(* The directory of a client that is alone is what its store holds. *)
LEMMA DirectoryFollows ==
  ASSUME NEW c \in Alone, Own(c), HomeOf[c] \in AloneHomes
  PROVE  /\ DirectoryServers[HomeOf[c]] = DOMAIN ServersFor(c) /\ DirectoryUsers[HomeOf[c]] = UsersIn(HomeOf[c])
         /\ DirectoryServers' = [DirectoryServers EXCEPT ![HomeOf[c]] = DOMAIN ServersFor(c)']
         /\ DirectoryUsers' = [DirectoryUsers EXCEPT ![HomeOf[c]] = UsersIn(HomeOf[c])']
         /\ DOMAIN ServersFor(c)' = DOMAIN ServersFor(c) => DirectoryServers' = DirectoryServers
         /\ UsersIn(HomeOf[c])' = UsersIn(HomeOf[c]) => DirectoryUsers' = DirectoryUsers
<1>1. c \in Clients
  BY DEF Alone
<1>2. \A h \in AloneHomes \ {HomeOf[c]} : Kept("servers", h)' = Kept("servers", h) /\ UsersIn(h)' = UsersIn(h)
  BY <1>1, OtherHomes
<1>3. Kept("servers", HomeOf[c])' = ServersFor(c)' /\ Kept("servers", HomeOf[c]) = ServersFor(c)
  BY DEF ServersFor
<1>4. DirectoryServers' = [DirectoryServers EXCEPT ![HomeOf[c]] = DOMAIN ServersFor(c)']
  BY <1>2, <1>3 DEF DirectoryServers
<1>5. DirectoryUsers' = [DirectoryUsers EXCEPT ![HomeOf[c]] = UsersIn(HomeOf[c])']
  BY <1>2 DEF DirectoryUsers
<1>6. DOMAIN ServersFor(c)' = DOMAIN ServersFor(c) => DirectoryServers' = DirectoryServers
  BY <1>2, <1>3 DEF DirectoryServers
<1>7. UsersIn(HomeOf[c])' = UsersIn(HomeOf[c]) => DirectoryUsers' = DirectoryUsers
  BY <1>2 DEF DirectoryUsers
<1> QED  BY <1>3, <1>4, <1>5, <1>6, <1>7 DEF DirectoryServers, DirectoryUsers

LEMMA ReadsKeep ==
  ASSUME UNCHANGED slots
  PROVE  /\ DirectoryServers' = DirectoryServers /\ DirectoryUsers' = DirectoryUsers
         /\ \A c \in Alone : ServersFor(c)' = ServersFor(c) /\ UsersFor(c)' = UsersFor(c)
  BY DEF DirectoryServers, DirectoryUsers, UsersIn, Kept, IsSet, Holds, Slot, ServersFor, UsersFor

LEMMA Replies ==
  ASSUME NEW c \in Alone, DOMAIN answers = Clients, DOMAIN calls = Clients,
         NEW request, NEW status, NEW value, Tell(c, request, status, value)
  PROVE  Replied(c, request, status, value) /\ calls'[c] = Idle
<1>1. c \in Clients /\ Alone \subseteq Clients
  BY DEF Alone
<1> QED  BY <1>1 DEF Tell, Replied, DirectoryAnswers

LEMMA Ends ==
  ASSUME NEW c \in Alone, calls'[c] = Idle, UsersNamed(c)'
  PROVE  CallInv(c)'
<1>1. ProperCall(c, Idle, ServersFor(c)', UsersFor(c)')
  BY DEF ProperCall, Idle, Uses
<1>2. ProperCall(c, calls[c], ServersFor(c), UsersFor(c))'
  BY <1>1
<1>3. DefaultIsMissing(c)'
  BY DEF DefaultIsMissing, Idle
<1> QED  BY <1>2, <1>3 DEF CallInv

LEMMA Moves ==
  ASSUME NEW c \in Alone, CallInv(c), NEW label \in Uses, NEW x, calls'[c] = x,
         {"at", "request"} \subseteq DOMAIN x, x.at = label, x.request = calls[c].request,
         calls[c].at # "idle", HomeOf[c] \in AloneHomes,
         Knows(label, calls[c].request, ServersFor(c)', UsersFor(c)'), UsersNamed(c)'
  PROVE  CallInv(c)'
<1>0. label \notin {"idle", "subscript", "default"}
  BY DEF Uses
<1>1. ProperCall(c, x, ServersFor(c)', UsersFor(c)')
  BY <1>0 DEF ProperCall, CallInv
<1>2. ProperCall(c, calls[c], ServersFor(c), UsersFor(c))'
  BY <1>1
<1>3. DefaultIsMissing(c)'
  BY <1>0 DEF DefaultIsMissing
<1> QED  BY <1>2, <1>3 DEF CallInv

LEMMA Goes ==
  ASSUME NEW c \in Alone, CallInv(c), DOMAIN calls = Clients, NEW label, Goto(c, label), calls[c].at # "idle"
  PROVE  /\ {"at", "request"} \subseteq DOMAIN calls'[c]
         /\ calls'[c].at = label /\ calls'[c].request = calls[c].request
<1>1. c \in Clients /\ {"at", "request"} \subseteq DOMAIN calls[c]
  BY DEF Alone, CallInv, ProperCall
<1> QED  BY <1>1 DEF Goto

(* What an action has to show of a client that is alone. *)
Goal(c) == CallInv(c)' /\ (Directory!Next \/ UNCHANGED Directory!vars)

LEMMA SendMaps ==
  ASSUME NEW c \in Alone, AloneInv, Send(c)
  PROVE  Goal(c)
<1>1. c \in Clients /\ CallInv(c) /\ DOMAIN calls = Clients /\ DOMAIN answers = Clients
  BY DEF Alone, AloneInv
<1>2. UNCHANGED slots
  BY DEF Send, ReadOnly, storeVars
<1>3. UsersNamed(c)' /\ DirectoryServers' = DirectoryServers /\ DirectoryUsers' = DirectoryUsers
  BY <1>1, <1>2, ReadsKeep DEF CallInv, UsersNamed
<1>4. PICK r \in RequestsOf[c] :
        LET early == Invoke(Table, r.operation, Parameters(r), Early(r))
        IN  IF early.kind = "raised" \/ early.exception # NoException
            THEN Tell(c, <<r.operation>>, StatusOf(early), {})
            ELSE /\ calls' = [calls EXCEPT ![c] = [at |-> "subscript", request |-> r]]
                 /\ UNCHANGED answers
  BY DEF Send
<1> DEFINE early == Invoke(Table, r.operation, Parameters(r), Early(r))
<1>5. IF early.kind = "raised" \/ early.exception # NoException
      THEN <<r.operation, StatusOf(early)>> \in Directory!Refusals(c)
      ELSE Accepted(r)
  BY <1>1, EarlyAnswers
<1> HIDE DEF early
<1>6. CASE early.kind = "raised" \/ early.exception # NoException
  <2>1. Tell(c, <<r.operation>>, StatusOf(early), {})
    BY <1>4, <1>6 DEF early
  <2>2. Replied(c, <<r.operation>>, StatusOf(early), {}) /\ calls'[c] = Idle
    BY <1>1, <2>1, Replies
  <2>3. Directory!Next
    BY <1>3, <1>5, <1>6, <2>2, DirectoryRefuses
  <2> QED  BY <1>3, <2>2, <2>3, Ends DEF Goal
<1>7. CASE ~(early.kind = "raised" \/ early.exception # NoException)
  <2>1. calls' = [calls EXCEPT ![c] = [at |-> "subscript", request |-> r]] /\ UNCHANGED answers
    BY <1>4, <1>7 DEF early
  <2>2. calls'[c] = [at |-> "subscript", request |-> r] /\ DirectoryAnswers' = DirectoryAnswers
    BY <1>1, <2>1 DEF DirectoryAnswers
  <2>3. ProperCall(c, [at |-> "subscript", request |-> r], ServersFor(c)', UsersFor(c)')
    BY <1>5, <1>7 DEF ProperCall, Uses
  <2>4. ProperCall(c, calls[c], ServersFor(c), UsersFor(c))'
    BY <2>2, <2>3
  <2>5. DefaultIsMissing(c)'
    BY <2>2 DEF DefaultIsMissing
  <2> QED  BY <1>3, <2>2, <2>4, <2>5, DirectoryStays DEF Goal, CallInv
<1> QED  BY <1>6, <1>7

LEMMA GoodHomes ==
  ASSUME NEW c \in Alone
  PROVE  HomeOf[c] \in AloneHomes <=> ~BadSubscript(HomeOf[c][1], HomeOf[c][2])
  BY DEF AloneHomes

LEMMA Usable ==
  ASSUME NEW c \in Alone, AloneInv
  PROVE  /\ c \in Clients /\ CallInv(c) /\ DOMAIN calls = Clients /\ DOMAIN answers = Clients
         /\ ProperCall(c, calls[c], ServersFor(c), UsersFor(c)) /\ UsersNamed(c)
         /\ calls[c].at # "idle" => calls[c].request \in RequestsOf[c] /\ Accepted(calls[c].request)
         /\ calls[c].at \notin {"idle", "subscript"} => HomeOf[c] \in AloneHomes
         /\ calls[c].at \in Uses => Knows(calls[c].at, calls[c].request, ServersFor(c), UsersFor(c))
  BY DEF Alone, AloneInv, CallInv, ProperCall

LEMMA ReadsStayNamed ==
  ASSUME NEW c \in Alone, AloneInv, UNCHANGED slots
  PROVE  UsersNamed(c)' /\ ServersFor(c)' = ServersFor(c) /\ UsersFor(c)' = UsersFor(c)
<1>1. ServersFor(c)' = ServersFor(c) /\ UsersFor(c)' = UsersFor(c)
  BY ReadsKeep
<1> QED  BY <1>1, Usable DEF UsersNamed

LEMMA SelectMaps ==
  ASSUME NEW c \in Alone, AloneInv, Select(c)
  PROVE  Goal(c)
<1> DEFINE next == IF calls[c].request.operation = "CreateServer" THEN "put_server" ELSE "check_server"
<1>1. UNCHANGED slots /\ UNCHANGED answers /\ Goto(c, next) /\ calls[c].at = "subscript"
  BY DEF Select, Subscript
<1>2. HomeOf[c] \in AloneHomes
  BY GoodHomes DEF Select, Subscript, BadSubscript
<1>3. UsersNamed(c)'
  BY <1>1, ReadsStayNamed
<1>4. Knows(next, calls[c].request, ServersFor(c)', UsersFor(c)') /\ next \in Uses
  BY <1>1, Usable DEF Knows, OperationsAt, Accepted, Uses
<1>5. /\ {"at", "request"} \subseteq DOMAIN calls'[c]
      /\ calls'[c].at = next /\ calls'[c].request = calls[c].request
  BY <1>1, Usable, Goes
<1> HIDE DEF next
<1>6. CallInv(c)'
  BY <1>1, <1>2, <1>3, <1>4, <1>5, Usable, Moves
<1>7. UNCHANGED Directory!vars
  BY <1>1, ReadsKeep, DirectoryStays DEF DirectoryAnswers
<1> QED  BY <1>6, <1>7 DEF Goal

LEMMA RejectRegionMaps ==
  ASSUME NEW c \in Alone, AloneInv, RejectRegion(c)
  PROVE  Goal(c)
<1> DEFINE o == calls[c].request.operation
<1>1. UNCHANGED slots /\ Tell(c, <<o>>, 500, {}) /\ calls[c].at = "subscript"
  BY DEF RejectRegion, ReadOnly, storeVars
<1>2. HomeOf[c] \notin AloneHomes
  BY GoodHomes DEF RejectRegion
<1>3. o \in Operations
  BY <1>1, Usable DEF Operations
<1>4. <<o, 500>> \in Directory!Refusals(c)
  BY <1>2, <1>3 DEF Directory!Refusals
<1>5. Replied(c, <<o>>, 500, {}) /\ calls'[c] = Idle
  BY <1>1, Usable, Replies
<1>6. Directory!Next
  BY <1>1, <1>4, <1>5, ReadsKeep, DirectoryRefuses
<1>7. CallInv(c)'
  BY <1>1, <1>5, ReadsStayNamed, Ends
<1> QED  BY <1>6, <1>7 DEF Goal

LEMMA MissMaps ==
  ASSUME NEW c \in Alone, AloneInv, Miss(c)
  PROVE  Goal(c)
<1> DEFINE x == [at |-> "default", request |-> calls[c].request, next |-> calls[c].at]
<1>1. UNCHANGED slots /\ UNCHANGED answers /\ calls[c].at \in Uses /\ ~IsSet(Here(c))
  BY DEF Miss, storeVars
<1>2. calls'[c] = x
  BY Usable DEF Miss
<1>3. calls[c].at \notin {"idle", "subscript"}
  BY <1>1 DEF Uses
<1>4. ProperCall(c, x, ServersFor(c), UsersFor(c))
  BY <1>1, <1>3, Usable DEF ProperCall, Uses
<1>5. ProperCall(c, calls[c], ServersFor(c), UsersFor(c))'
  BY <1>1, <1>2, <1>4, ReadsStayNamed
<1>6. DefaultIsMissing(c)'
  BY <1>1, <1>2 DEF DefaultIsMissing, IsSet, Here
<1>7. UNCHANGED Directory!vars
  BY <1>1, ReadsKeep, DirectoryStays DEF DirectoryAnswers
<1> QED  BY <1>1, <1>5, <1>6, <1>7, ReadsStayNamed DEF Goal, CallInv

(* A default in a store that nobody shares finds nothing to replace.       *)
LEMMA DefaultMaps ==
  ASSUME NEW c \in Alone, AloneInv, Default(c)
  PROVE  Goal(c)
<1> DEFINE label == calls[c].next
           slot == SlotOf(c, AttributeAt(label))
<1>1. /\ calls[c].at = "default" /\ Store(slot, <<>>) /\ UNCHANGED answers
      /\ calls' = [calls EXCEPT ![c] = [at |-> label, request |-> calls[c].request]]
  BY DEF Default, SetDefault
<1>2. ~IsSet(slot) /\ label \in Uses /\ HomeOf[c] \in AloneHomes
  BY <1>1, Usable DEF CallInv, DefaultIsMissing, ProperCall
<1>3. \A a \in {"servers", "users"} : Kept(a, HomeOf[c])' = Kept(a, HomeOf[c])
  <2>1. ASSUME NEW a \in {"servers", "users"} PROVE Kept(a, HomeOf[c])' = Kept(a, HomeOf[c])
    <3>1. CASE SlotOf(c, a) = slot
      BY <1>1, <1>2, <3>1, Usable, KeptOf, StoreStays DEF IsSet
    <3>2. CASE SlotOf(c, a) # slot
      BY <1>1, <3>2, Usable, KeptOf, StoreStays DEF SlotStays
    <3> QED  BY <3>1, <3>2
  <2> QED  BY <2>1
<1>4. ServersFor(c)' = ServersFor(c) /\ UsersFor(c)' = UsersFor(c) /\ UsersIn(HomeOf[c])' = UsersIn(HomeOf[c])
  BY <1>3 DEF ServersFor, UsersFor, UsersIn
<1>5. calls'[c] = [at |-> label, request |-> calls[c].request]
  BY <1>1, Usable
<1>6. Knows(label, calls[c].request, ServersFor(c)', UsersFor(c)') /\ UsersNamed(c)'
  BY <1>1, <1>4, Usable DEF ProperCall, UsersNamed
<1> HIDE DEF label
<1>7. CallInv(c)'
  BY <1>1, <1>2, <1>5, <1>6, Usable, Moves
<1>8. Own(c)
  BY Usable, StepsAreOwn DEF StepOf
<1>9. UNCHANGED Directory!vars
  <2>1. DirectoryServers' = DirectoryServers /\ DirectoryUsers' = DirectoryUsers
    BY <1>2, <1>4, <1>8, DirectoryFollows
  <2> QED  BY <1>1, <2>1, DirectoryStays DEF DirectoryAnswers
<1> QED  BY <1>7, <1>9 DEF Goal

-----------------------------------------------------------------------------
LEMMA HeldIsKept ==
  ASSUME NEW c \in Clients, NEW label, At(c, label)
  PROVE  /\ calls[c].at = label
         /\ label \in {"put_server", "check_server", "read_server"} => Held(c) = ServersFor(c)
         /\ label \notin {"put_server", "check_server", "read_server"} => Held(c) = UsersFor(c)
  BY KeptOf DEF At, Held, Here, Holds, IsSet, AttributeAt, ServersFor, UsersFor

LEMMA StoreChanges ==
  ASSUME NEW c \in Clients, NEW a \in {"servers", "users"}, NEW value, Store(SlotOf(c, a), value)
  PROVE  /\ Kept(a, HomeOf[c])' = value
         /\ \A b \in {"servers", "users"} \ {a} : Kept(b, HomeOf[c])' = Kept(b, HomeOf[c])
<1>1. Kept(a, HomeOf[c])' = value
  BY StoreStays, KeptOf
<1>2. ASSUME NEW b \in {"servers", "users"} \ {a} PROVE Kept(b, HomeOf[c])' = Kept(b, HomeOf[c])
  <2>1. SlotStays(SlotOf(c, b))
    BY AttributeSlots, StoreStays
  <2> QED  BY <2>1, KeptOf DEF SlotStays
<1> QED  BY <1>1, <1>2

LEMMA Answers ==
  ASSUME NEW c \in Alone, AloneInv, calls[c].at # "idle", NEW outcome, NEW value, Answer(c, outcome, value)
  PROVE  /\ calls'[c] = Idle
         /\ outcome = Result => Replied(c, Named(calls[c].request), 200, value)
         /\ \A code : outcome = Declared(code) => Replied(c, Named(calls[c].request), 400, value)
<1> DEFINE r == calls[c].request
           status == StatusOf(Invoke(Table, r.operation, Parameters(r), outcome))
<1>1. Tell(c, Named(r), status, value)
  BY DEF Answer
<1>2. Replied(c, Named(r), status, value) /\ calls'[c] = Idle
  BY <1>1, Usable, Replies
<1>3. Accepted(r)
  BY Usable
<1>4. outcome = Result => status = 200
  BY <1>3, AnswersOfAccepted
<1>5. \A code : outcome = Declared(code) => status = 400
  BY <1>3, AnswersOfAccepted
<1> HIDE DEF status, r
<1> QED  BY <1>2, <1>4, <1>5 DEF r

(* What is answered with 400 the directory answers with 400.               *)
LEMMA DirectoryDeclares ==
  ASSUME NEW c \in Alone, AloneInv, NEW r, r = calls[c].request, calls[c].at \in Uses,
         r.operation # "CreateServer", UNCHANGED slots, Replied(c, Named(r), 400, {}),
         \/ r.server \notin DOMAIN ServersFor(c)
         \/ r.operation = "CreateUser" /\ <<r.server, r.user>> \in UsersIn(HomeOf[c])
         \/ r.operation = "DeleteUser" /\ <<r.server, r.user>> \notin UsersIn(HomeOf[c])
  PROVE  Directory!Next
<1>1. c \in Clients /\ HomeOf[c] \in AloneHomes /\ r \in RequestsOf[c] /\ Accepted(r)
  BY Usable DEF Uses
<1>2. DirectoryServers' = DirectoryServers /\ DirectoryUsers' = DirectoryUsers
  BY ReadsKeep
<1>3. DirectoryServers[HomeOf[c]] = DOMAIN ServersFor(c) /\ DirectoryUsers[HomeOf[c]] = UsersIn(HomeOf[c])
  BY <1>1 DEF DirectoryServers, DirectoryUsers, ServersFor
<1>4. r.server \in Servers
  BY <1>1 DEF Accepted
<1>5. CASE r.operation = "DescribeServer"
  <2>1. Named(r) = <<"DescribeServer", r.server>>
    BY <1>1, <1>5, NamesOfAccepted
  <2> QED  BY <1>1, <1>2, <1>3, <1>4, <1>5, <2>1, DirectoryDescribes
<1>6. CASE r.operation = "ListUsers"
  <2>1. Named(r) = <<"ListUsers", r.server>>
    BY <1>1, <1>6, NamesOfAccepted
  <2> QED  BY <1>1, <1>2, <1>3, <1>4, <1>6, <2>1, DirectoryLists
<1>7. CASE r.operation = "CreateUser"
  <2>1. Named(r) = <<"CreateUser", r.server, r.user>> /\ r.user \in Users
    BY <1>1, <1>7, NamesOfAccepted
  <2> QED  BY <1>1, <1>2, <1>3, <1>4, <1>7, <2>1, DirectoryCreatesUser
<1>8. CASE r.operation = "DeleteUser"
  <2>1. Named(r) = <<"DeleteUser", r.server, r.user>> /\ r.user \in Users
    BY <1>1, <1>8, NamesOfAccepted
  <2> QED  BY <1>1, <1>2, <1>3, <1>4, <1>8, <2>1, DirectoryDeletesUser
<1> QED  BY <1>1, <1>5, <1>6, <1>7, <1>8 DEF Accepted, Directory!Served

(* A call that goes on, or that is answered, without a change of the store. *)
LEMMA GoesOn ==
  ASSUME NEW c \in Alone, AloneInv, UNCHANGED slots, UNCHANGED answers, calls[c].at \in Uses,
         NEW label \in Uses, Goto(c, label),
         Knows(label, calls[c].request, ServersFor(c), UsersFor(c))
  PROVE  Goal(c)
<1>1. calls[c].at \notin {"idle", "subscript"}
  BY DEF Uses
<1>2. HomeOf[c] \in AloneHomes /\ UsersNamed(c)' /\ Knows(label, calls[c].request, ServersFor(c)', UsersFor(c)')
  BY <1>1, Usable, ReadsStayNamed
<1>3. /\ {"at", "request"} \subseteq DOMAIN calls'[c]
      /\ calls'[c].at = label /\ calls'[c].request = calls[c].request
  BY <1>1, Usable, Goes
<1>4. CallInv(c)'
  BY <1>1, <1>2, <1>3, Usable, Moves
<1>5. UNCHANGED Directory!vars
  BY ReadsKeep, DirectoryStays DEF DirectoryAnswers
<1> QED  BY <1>4, <1>5 DEF Goal

LEMMA Declares ==
  ASSUME NEW c \in Alone, AloneInv, UNCHANGED slots, calls[c].at \in Uses, NEW r, r = calls[c].request,
         NEW code, Answer(c, Declared(code), {}), r.operation # "CreateServer",
         \/ r.server \notin DOMAIN ServersFor(c)
         \/ r.operation = "CreateUser" /\ <<r.server, r.user>> \in UsersIn(HomeOf[c])
         \/ r.operation = "DeleteUser" /\ <<r.server, r.user>> \notin UsersIn(HomeOf[c])
  PROVE  Goal(c)
<1>1. calls[c].at \notin {"idle", "subscript"}
  BY DEF Uses
<1>2. calls'[c] = Idle /\ Replied(c, Named(r), 400, {})
  BY <1>1, Answers
<1>3. CallInv(c)'
  BY <1>2, ReadsStayNamed, Ends
<1>4. Directory!Next
  BY <1>2, DirectoryDeclares
<1> QED  BY <1>3, <1>4 DEF Goal

LEMMA PutServerMaps ==
  ASSUME NEW c \in Alone, AloneInv, PutServer(c)
  PROVE  Goal(c)
<1> DEFINE r == calls[c].request
<1>1. /\ calls[c].at = "put_server" /\ Held(c) = ServersFor(c) /\ Here(c) = SlotOf(c, "servers")
      /\ c \in Clients /\ HomeOf[c] \in AloneHomes /\ r \in RequestsOf[c] /\ Accepted(r)
      /\ r.operation = "CreateServer" /\ Own(c)
  BY Usable, HeldIsKept, StepsAreOwn DEF PutServer, At, Here, AttributeAt, Uses, Knows, OperationsAt, StepOf
<1>2. PICK s \in Servers \ Taken :
        Store(SlotOf(c, "servers"), With(ServersFor(c), s, HomeOf[c])) /\ Answer(c, Result, {s})
  BY <1>1 DEF PutServer
<1>3. ServersFor(c)' = With(ServersFor(c), s, HomeOf[c]) /\ UsersFor(c)' = UsersFor(c)
  BY <1>1, <1>2, StoreChanges DEF ServersFor, UsersFor
<1>4. DOMAIN ServersFor(c)' = DOMAIN ServersFor(c) \cup {s}
  BY <1>3 DEF With
<1>5. ASSUME NEW h \in AloneHomes PROVE s \notin DirectoryServers[h]
  <2>1. Slot(h[1], h[2], "servers")[1] = "servers"
    BY LocalAssumption DEF Slot
  <2>2. ASSUME s \in DOMAIN Kept("servers", h) PROVE FALSE
    <3>1. s \notin DOMAIN <<>>
      OBVIOUS
    <3>2. Slot(h[1], h[2], "servers") \in DOMAIN slots /\ s \in DOMAIN slots[Slot(h[1], h[2], "servers")]
      BY <2>2, <3>1 DEF Kept, IsSet, Holds
    <3>3. s \in Taken
      BY <2>1, <3>2 DEF Taken, Holds
    <3> QED  BY <3>3
  <2> QED  BY <2>2 DEF DirectoryServers
<1>6. calls'[c] = Idle /\ Replied(c, <<"CreateServer">>, 200, {s})
  BY <1>1, <1>2, Answers, NamesOfAccepted
<1>7. DirectoryServers' = [DirectoryServers EXCEPT ![HomeOf[c]] = @ \cup {s}]
  BY <1>1, <1>4, DirectoryFollows
<1>8. UsersIn(HomeOf[c])' = UsersIn(HomeOf[c]) /\ UsersNamed(c)'
  BY <1>3, Usable DEF UsersIn, UsersFor, UsersNamed
<1>9. DirectoryUsers' = DirectoryUsers
  BY <1>1, <1>8, DirectoryFollows
<1>10. Directory!Next
  BY <1>1, <1>2, <1>5, <1>6, <1>7, <1>9, DirectoryCreatesServer
<1> QED  BY <1>6, <1>8, <1>10, Ends DEF Goal

LEMMA CheckServerMaps ==
  ASSUME NEW c \in Alone, AloneInv, CheckServer(c)
  PROVE  Goal(c)
<1> DEFINE r == calls[c].request
<1>1. /\ calls[c].at = "check_server" /\ Held(c) = ServersFor(c) /\ UNCHANGED slots
      /\ c \in Clients /\ Accepted(r) /\ r.operation \in Directory!Served \ {"CreateServer"}
      /\ calls[c].at \in Uses
  BY Usable, HeldIsKept DEF CheckServer, At, Uses, Knows, OperationsAt, ReadOnly, storeVars
<1>2. CASE r.server \in DOMAIN ServersFor(c)
  <2> DEFINE label == CASE r.operation = "DescribeServer" -> "read_server"
                        [] r.operation = "CreateUser" -> "init_users"
                        [] r.operation = "ListUsers" -> "read_users"
                        [] OTHER -> "check_users"
  <2>1. Goto(c, label) /\ UNCHANGED answers
    BY <1>1, <1>2 DEF CheckServer, Server
  <2>2. label \in Uses /\ Knows(label, r, ServersFor(c), UsersFor(c))
    BY <1>1, <1>2 DEF Uses, Knows, OperationsAt, Directory!Served
  <2> HIDE DEF label
  <2> QED  BY <1>1, <2>1, <2>2, GoesOn
<1>3. CASE r.server \notin DOMAIN ServersFor(c)
  <2>1. Answer(c, Declared("ResourceNotFoundException"), {})
    BY <1>1, <1>3 DEF CheckServer, Server
  <2> QED  BY <1>1, <1>3, <2>1, Declares
<1> QED  BY <1>2, <1>3

LEMMA ReadServerMaps ==
  ASSUME NEW c \in Alone, AloneInv, ReadServer(c)
  PROVE  Goal(c)
<1> DEFINE r == calls[c].request
<1>1. /\ calls[c].at = "read_server" /\ Held(c) = ServersFor(c) /\ UNCHANGED slots
      /\ c \in Clients /\ HomeOf[c] \in AloneHomes /\ r \in RequestsOf[c] /\ Accepted(r)
      /\ r.operation = "DescribeServer" /\ r.server \in DOMAIN ServersFor(c) /\ r.server \in Servers
  BY Usable, HeldIsKept DEF ReadServer, At, Uses, Knows, OperationsAt, ReadOnly, storeVars, Accepted
<1>2. Answer(c, Result, {})
  BY <1>1 DEF ReadServer, Server
<1>3. calls'[c] = Idle /\ Replied(c, <<"DescribeServer", r.server>>, 200, {})
  BY <1>1, <1>2, Answers, NamesOfAccepted
<1>4. r.server \in DirectoryServers[HomeOf[c]]
  BY <1>1 DEF DirectoryServers, ServersFor
<1>5. Directory!Next
  BY <1>1, <1>3, <1>4, ReadsKeep, DirectoryDescribes
<1> QED  BY <1>1, <1>3, <1>5, ReadsStayNamed, Ends DEF Goal

LEMMA InitUsersMaps ==
  ASSUME NEW c \in Alone, AloneInv, InitUsers(c)
  PROVE  Goal(c)
<1> DEFINE r == calls[c].request
           label == IF r.server \in DOMAIN UsersFor(c) THEN "check_user" ELSE "make_users"
<1>1. /\ calls[c].at = "init_users" /\ Held(c) = UsersFor(c) /\ UNCHANGED slots /\ UNCHANGED answers
      /\ calls[c].at \in Uses /\ r.operation = "CreateUser" /\ r.server \in DOMAIN ServersFor(c)
  BY Usable, HeldIsKept DEF InitUsers, At, Uses, Knows, OperationsAt, ReadOnly, storeVars, Alone
<1>2. Goto(c, label)
  BY <1>1 DEF InitUsers, Server
<1>3. label \in Uses /\ Knows(label, r, ServersFor(c), UsersFor(c))
  BY <1>1 DEF Uses, Knows, OperationsAt
<1> HIDE DEF label
<1> QED  BY <1>1, <1>2, <1>3, GoesOn

(* The empty dictionary of a server is not seen: it has no user.           *)
LEMMA MakeUsersMaps ==
  ASSUME NEW c \in Alone, AloneInv, MakeUsers(c)
  PROVE  Goal(c)
<1> DEFINE r == calls[c].request
<1>1. /\ calls[c].at = "make_users" /\ Held(c) = UsersFor(c) /\ Here(c) = SlotOf(c, "users")
      /\ c \in Clients /\ HomeOf[c] \in AloneHomes /\ UNCHANGED answers /\ Goto(c, "check_user")
      /\ r.operation = "CreateUser" /\ r.server \in DOMAIN ServersFor(c) /\ r.server \notin DOMAIN UsersFor(c)
      /\ Own(c)
  BY Usable, HeldIsKept, StepsAreOwn
     DEF MakeUsers, At, Here, AttributeAt, Uses, Knows, OperationsAt, StepOf
<1>2. Store(SlotOf(c, "users"), With(UsersFor(c), r.server, <<>>))
  BY <1>1 DEF MakeUsers, Server
<1>3. UsersFor(c)' = With(UsersFor(c), r.server, <<>>) /\ ServersFor(c)' = ServersFor(c)
  BY <1>1, <1>2, StoreChanges DEF ServersFor, UsersFor
<1>4. UsersNamed(c)' /\ r.server \in DOMAIN UsersFor(c)'
  BY <1>3, Usable DEF UsersNamed, With
<1>5. UsersIn(HomeOf[c])' = UsersIn(HomeOf[c])
  BY <1>1, <1>3 DEF UsersIn, UsersFor, With
<1>6. /\ {"at", "request"} \subseteq DOMAIN calls'[c]
      /\ calls'[c].at = "check_user" /\ calls'[c].request = r
  BY <1>1, Usable, Goes
<1>7. Knows("check_user", r, ServersFor(c)', UsersFor(c)') /\ "check_user" \in Uses
  BY <1>1, <1>3, <1>4 DEF Knows, OperationsAt, Uses
<1>8. CallInv(c)'
  BY <1>1, <1>4, <1>6, <1>7, Usable, Moves
<1>9. DirectoryServers' = DirectoryServers /\ DirectoryUsers' = DirectoryUsers
  BY <1>1, <1>3, <1>5, DirectoryFollows
<1>10. UNCHANGED Directory!vars
  BY <1>1, <1>9, DirectoryStays DEF DirectoryAnswers
<1> QED  BY <1>8, <1>10 DEF Goal

(* A pair is in the directory when the user is in the dictionary.          *)
LEMMA Paired ==
  ASSUME NEW c, NEW s \in Servers, NEW u \in Users
  PROVE  <<s, u>> \in UsersIn(HomeOf[c]) <=> s \in DOMAIN UsersFor(c) /\ u \in DOMAIN UsersFor(c)[s]
  BY DEF UsersIn, UsersFor

LEMMA CheckUserMaps ==
  ASSUME NEW c \in Alone, AloneInv, CheckUser(c)
  PROVE  Goal(c)
<1> DEFINE r == calls[c].request
<1>1. /\ calls[c].at = "check_user" /\ Held(c) = UsersFor(c) /\ UNCHANGED slots /\ calls[c].at \in Uses
      /\ c \in Clients /\ r \in RequestsOf[c] /\ Accepted(r) /\ r.operation = "CreateUser"
      /\ r.server \in DOMAIN ServersFor(c) /\ r.server \in DOMAIN UsersFor(c) /\ r.server \in Servers
  BY Usable, HeldIsKept DEF CheckUser, At, Uses, Knows, OperationsAt, ReadOnly, storeVars, Accepted
<1>2. r.user \in Users
  BY <1>1, NamesOfAccepted
<1>3. CASE r.user \in DOMAIN UsersFor(c)[r.server]
  <2>1. Answer(c, Declared("ResourceExistsException"), {})
    BY <1>1, <1>3 DEF CheckUser, KnownUser, UsersAt, Server, User
  <2>2. <<r.server, r.user>> \in UsersIn(HomeOf[c])
    BY <1>1, <1>2, <1>3, Paired
  <2> QED  BY <1>1, <2>1, <2>2, Declares
<1>4. CASE r.user \notin DOMAIN UsersFor(c)[r.server]
  <2>1. Goto(c, "put_user") /\ UNCHANGED answers
    BY <1>1, <1>4 DEF CheckUser, KnownUser, UsersAt, Server, User
  <2>2. "put_user" \in Uses /\ Knows("put_user", r, ServersFor(c), UsersFor(c))
    BY <1>1, <1>4 DEF Uses, Knows, OperationsAt
  <2> QED  BY <1>1, <2>1, <2>2, GoesOn
<1> QED  BY <1>3, <1>4

LEMMA PutUserMaps ==
  ASSUME NEW c \in Alone, AloneInv, PutUser(c)
  PROVE  Goal(c)
<1> DEFINE r == calls[c].request
           users == With(UsersFor(c)[r.server], r.user, HomeOf[c])
<1>1. /\ calls[c].at = "put_user" /\ Held(c) = UsersFor(c) /\ Here(c) = SlotOf(c, "users")
      /\ c \in Clients /\ HomeOf[c] \in AloneHomes /\ r \in RequestsOf[c] /\ Accepted(r)
      /\ r.operation = "CreateUser" /\ r.server \in Servers /\ Own(c)
      /\ r.server \in DOMAIN ServersFor(c) /\ r.server \in DOMAIN UsersFor(c)
      /\ r.user \notin DOMAIN UsersFor(c)[r.server]
  BY Usable, HeldIsKept, StepsAreOwn
     DEF PutUser, At, Here, AttributeAt, Uses, Knows, OperationsAt, StepOf, Accepted
<1>2. r.user \in Users /\ Named(r) = <<"CreateUser", r.server, r.user>>
  BY <1>1, NamesOfAccepted
<1>3. Store(SlotOf(c, "users"), With(UsersFor(c), r.server, users)) /\ Answer(c, Result, {})
  BY <1>1 DEF PutUser, UsersAt, Server, User
<1>4. UsersFor(c)' = With(UsersFor(c), r.server, users) /\ ServersFor(c)' = ServersFor(c)
  BY <1>1, <1>3, StoreChanges DEF ServersFor, UsersFor
<1>5. DOMAIN users = DOMAIN UsersFor(c)[r.server] \cup {r.user}
  BY DEF With
<1> HIDE DEF users
<1>6. /\ DOMAIN UsersFor(c)' = DOMAIN UsersFor(c)
      /\ UsersFor(c)'[r.server] = users
      /\ \A s \in DOMAIN UsersFor(c) \ {r.server} : UsersFor(c)'[s] = UsersFor(c)[s]
  BY <1>1, <1>4 DEF With
<1>7. UsersNamed(c)'
  BY <1>1, <1>2, <1>5, <1>6, Usable DEF UsersNamed
<1>8. UsersIn(HomeOf[c])' = UsersIn(HomeOf[c]) \cup {<<r.server, r.user>>}
  <2>1. UsersIn(HomeOf[c])' =
          {k \in Servers \X Users : k[1] \in DOMAIN UsersFor(c)' /\ k[2] \in DOMAIN UsersFor(c)'[k[1]]}
    BY DEF UsersIn, UsersFor
  <2>2. UsersIn(HomeOf[c]) =
          {k \in Servers \X Users : k[1] \in DOMAIN UsersFor(c) /\ k[2] \in DOMAIN UsersFor(c)[k[1]]}
    BY DEF UsersIn, UsersFor
  <2> QED  BY <1>1, <1>2, <1>5, <1>6, <2>1, <2>2
<1>9. /\ DirectoryServers' = DirectoryServers /\ DirectoryUsers' = [DirectoryUsers EXCEPT ![HomeOf[c]] = @ \cup {<<r.server, r.user>>}]
      /\ r.server \in DirectoryServers[HomeOf[c]] /\ <<r.server, r.user>> \notin DirectoryUsers[HomeOf[c]]
  BY <1>1, <1>2, <1>4, <1>8, Paired, DirectoryFollows
<1>10. calls'[c] = Idle /\ Replied(c, <<"CreateUser", r.server, r.user>>, 200, {})
  BY <1>1, <1>2, <1>3, Answers
<1>11. Directory!Next
  BY <1>1, <1>2, <1>9, <1>10, DirectoryCreatesUser
<1> QED  BY <1>7, <1>10, <1>11, Ends DEF Goal

LEMMA ReadUsersMaps ==
  ASSUME NEW c \in Alone, AloneInv, ReadUsers(c)
  PROVE  Goal(c)
<1> DEFINE r == calls[c].request
<1>1. /\ calls[c].at = "read_users" /\ Held(c) = UsersFor(c) /\ UNCHANGED slots
      /\ c \in Clients /\ HomeOf[c] \in AloneHomes /\ r \in RequestsOf[c] /\ Accepted(r)
      /\ r.operation = "ListUsers" /\ r.server \in Servers /\ r.server \in DOMAIN ServersFor(c)
  BY Usable, HeldIsKept DEF ReadUsers, At, Uses, Knows, OperationsAt, ReadOnly, storeVars, Accepted
<1>2. PICK listed : listed = IF r.server \in DOMAIN UsersFor(c) THEN DOMAIN UsersFor(c)[r.server] ELSE {}
  OBVIOUS
<1>3. Answer(c, Result, listed)
  BY <1>1, <1>2 DEF ReadUsers, KeyMissing, UsersAt, Server, Answer, Tell
<1>4. calls'[c] = Idle /\ Replied(c, <<"ListUsers", r.server>>, 200, listed)
  BY <1>1, <1>3, Answers, NamesOfAccepted
<1>5. r.server \in DirectoryServers[HomeOf[c]] /\ DirectoryUsers[HomeOf[c]] = UsersIn(HomeOf[c])
  BY <1>1 DEF DirectoryServers, DirectoryUsers, ServersFor
<1>6. listed = {u \in Users : <<r.server, u>> \in DirectoryUsers[HomeOf[c]]}
  <2>1. r.server \in DOMAIN UsersFor(c) => DOMAIN UsersFor(c)[r.server] \subseteq Users
    BY Usable DEF UsersNamed
  <2>2. \A u \in Users : <<r.server, u>> \in DirectoryUsers[HomeOf[c]] <=>
                           r.server \in DOMAIN UsersFor(c) /\ u \in DOMAIN UsersFor(c)[r.server]
    BY <1>1, <1>5, Paired
  <2> QED  BY <1>2, <2>1, <2>2
<1>7. Directory!Next
  BY <1>1, <1>4, <1>5, <1>6, ReadsKeep, DirectoryLists
<1> QED  BY <1>1, <1>4, <1>7, ReadsStayNamed, Ends DEF Goal

LEMMA CheckUsersMaps ==
  ASSUME NEW c \in Alone, AloneInv, CheckUsers(c)
  PROVE  Goal(c)
<1> DEFINE r == calls[c].request
<1>1. /\ calls[c].at = "check_users" /\ Held(c) = UsersFor(c) /\ UNCHANGED slots /\ calls[c].at \in Uses
      /\ c \in Clients /\ r \in RequestsOf[c] /\ Accepted(r) /\ r.operation = "DeleteUser"
      /\ r.server \in DOMAIN ServersFor(c) /\ r.server \in Servers
  BY Usable, HeldIsKept DEF CheckUsers, At, Uses, Knows, OperationsAt, ReadOnly, storeVars, Accepted
<1>2. CASE r.server \notin DOMAIN UsersFor(c)
  <2>1. Answer(c, Declared("ResourceNotFoundException"), {})
    BY <1>1, <1>2 DEF CheckUsers, KeyMissing, Server
  <2>2. <<r.server, r.user>> \notin UsersIn(HomeOf[c])
    BY <1>1, <1>2, NamesOfAccepted, Paired
  <2> QED  BY <1>1, <2>1, <2>2, Declares
<1>3. CASE r.server \in DOMAIN UsersFor(c)
  <2>1. Goto(c, "check_listed") /\ UNCHANGED answers
    BY <1>1, <1>3 DEF CheckUsers, KeyMissing, Server
  <2>2. "check_listed" \in Uses /\ Knows("check_listed", r, ServersFor(c), UsersFor(c))
    BY <1>1, <1>3 DEF Uses, Knows, OperationsAt
  <2> QED  BY <1>1, <2>1, <2>2, GoesOn
<1> QED  BY <1>2, <1>3

LEMMA CheckListedMaps ==
  ASSUME NEW c \in Alone, AloneInv, CheckListed(c)
  PROVE  Goal(c)
<1> DEFINE r == calls[c].request
<1>1. /\ calls[c].at = "check_listed" /\ Held(c) = UsersFor(c) /\ UNCHANGED slots /\ calls[c].at \in Uses
      /\ c \in Clients /\ r \in RequestsOf[c] /\ Accepted(r) /\ r.operation = "DeleteUser"
      /\ r.server \in DOMAIN ServersFor(c) /\ r.server \in Servers /\ r.server \in DOMAIN UsersFor(c)
  BY Usable, HeldIsKept DEF CheckListed, At, Uses, Knows, OperationsAt, ReadOnly, storeVars, Accepted
<1>2. CASE r.user \notin DOMAIN UsersFor(c)[r.server]
  <2>1. Answer(c, Declared("ResourceNotFoundException"), {})
    BY <1>1, <1>2 DEF CheckListed, KnownUser, UsersAt, Server, User
  <2>2. <<r.server, r.user>> \notin UsersIn(HomeOf[c])
    BY <1>1, <1>2, NamesOfAccepted, Paired
  <2> QED  BY <1>1, <2>1, <2>2, Declares
<1>3. CASE r.user \in DOMAIN UsersFor(c)[r.server]
  <2>1. Goto(c, "delete_user") /\ UNCHANGED answers
    BY <1>1, <1>3 DEF CheckListed, KnownUser, UsersAt, Server, User
  <2>2. "delete_user" \in Uses /\ Knows("delete_user", r, ServersFor(c), UsersFor(c))
    BY <1>1, <1>3 DEF Uses, Knows, OperationsAt
  <2> QED  BY <1>1, <2>1, <2>2, GoesOn
<1> QED  BY <1>2, <1>3

LEMMA DeleteUserMaps ==
  ASSUME NEW c \in Alone, AloneInv, DeleteUser(c)
  PROVE  Goal(c)
<1> DEFINE r == calls[c].request
           users == Without(UsersFor(c)[r.server], r.user)
<1>1. /\ calls[c].at = "delete_user" /\ Held(c) = UsersFor(c) /\ Here(c) = SlotOf(c, "users")
      /\ c \in Clients /\ HomeOf[c] \in AloneHomes /\ r \in RequestsOf[c] /\ Accepted(r)
      /\ r.operation = "DeleteUser" /\ r.server \in Servers /\ Own(c)
      /\ r.server \in DOMAIN ServersFor(c) /\ r.server \in DOMAIN UsersFor(c)
      /\ r.user \in DOMAIN UsersFor(c)[r.server]
  BY Usable, HeldIsKept, StepsAreOwn
     DEF DeleteUser, At, Here, AttributeAt, Uses, Knows, OperationsAt, StepOf, Accepted
<1>2. r.user \in Users /\ Named(r) = <<"DeleteUser", r.server, r.user>>
  BY <1>1, NamesOfAccepted
<1>3. Store(SlotOf(c, "users"), With(UsersFor(c), r.server, users)) /\ Answer(c, Result, {})
  BY <1>1 DEF DeleteUser, UsersAt, Server, User
<1>4. UsersFor(c)' = With(UsersFor(c), r.server, users) /\ ServersFor(c)' = ServersFor(c)
  BY <1>1, <1>3, StoreChanges DEF ServersFor, UsersFor
<1>5. DOMAIN users = DOMAIN UsersFor(c)[r.server] \ {r.user}
  BY DEF Without
<1> HIDE DEF users
<1>6. /\ DOMAIN UsersFor(c)' = DOMAIN UsersFor(c)
      /\ UsersFor(c)'[r.server] = users
      /\ \A s \in DOMAIN UsersFor(c) \ {r.server} : UsersFor(c)'[s] = UsersFor(c)[s]
  BY <1>1, <1>4 DEF With
<1>7. UsersNamed(c)'
  BY <1>1, <1>2, <1>5, <1>6, Usable DEF UsersNamed
<1>8. UsersIn(HomeOf[c])' = UsersIn(HomeOf[c]) \ {<<r.server, r.user>>}
  <2>1. UsersIn(HomeOf[c])' =
          {k \in Servers \X Users : k[1] \in DOMAIN UsersFor(c)' /\ k[2] \in DOMAIN UsersFor(c)'[k[1]]}
    BY DEF UsersIn, UsersFor
  <2>2. UsersIn(HomeOf[c]) =
          {k \in Servers \X Users : k[1] \in DOMAIN UsersFor(c) /\ k[2] \in DOMAIN UsersFor(c)[k[1]]}
    BY DEF UsersIn, UsersFor
  <2> QED  BY <1>1, <1>2, <1>5, <1>6, <2>1, <2>2
<1>9. /\ DirectoryServers' = DirectoryServers /\ DirectoryUsers' = [DirectoryUsers EXCEPT ![HomeOf[c]] = @ \ {<<r.server, r.user>>}]
      /\ r.server \in DirectoryServers[HomeOf[c]] /\ <<r.server, r.user>> \in DirectoryUsers[HomeOf[c]]
  BY <1>1, <1>2, <1>4, <1>8, Paired, DirectoryFollows
<1>10. calls'[c] = Idle /\ Replied(c, <<"DeleteUser", r.server, r.user>>, 200, {})
  BY <1>1, <1>2, <1>3, Answers
<1>11. Directory!Next
  BY <1>1, <1>2, <1>9, <1>10, DirectoryDeletesUser
<1> QED  BY <1>7, <1>10, <1>11, Ends DEF Goal

(* Nobody takes away what a client that is alone has found.                *)
LEMMA KeysStay ==
  ASSUME NEW c \in Alone, AloneInv
  PROVE  ~KeyFails(c)
<1> SUFFICES ASSUME KeyFails(c) PROVE FALSE
  OBVIOUS
<1>1. /\ calls[c].at \in {"check_user", "put_user", "check_listed", "delete_user"} /\ At(c, calls[c].at)
      /\ KeyMissing(c) \/ (calls[c].at = "delete_user" /\ ~KnownUser(c))
  BY DEF KeyFails, At
<1>2. Held(c) = UsersFor(c)
  BY <1>1, Usable, HeldIsKept
<1>3. Server(c) \in DOMAIN UsersFor(c) /\ (calls[c].at = "delete_user" => User(c) \in DOMAIN UsersFor(c)[Server(c)])
  BY <1>1, Usable DEF Knows, Uses, Server, User
<1> QED  BY <1>1, <1>2, <1>3 DEF KeyMissing, KnownUser, UsersAt

-----------------------------------------------------------------------------
LEMMA StepMaps ==
  ASSUME NEW c \in Clients, AloneInv, StepOf(c)
  PROVE  AloneInv' /\ (Directory!Next \/ UNCHANGED Directory!vars)
<1>1. Own(c)
  BY StepsAreOwn DEF AloneInv
<1>2. ASSUME NEW d \in Alone \ {c} PROVE CallInv(d)'
  BY <1>1, OthersKeepTheirs DEF AloneInv
<1>3. CASE c \notin Alone
  BY <1>1, <1>2, <1>3, OthersAreNotSeen DEF AloneInv, Own
<1>4. CASE c \in Alone
  <2>1. Goal(c)
    BY <1>4, SendMaps, SelectMaps, RejectRegionMaps, MissMaps, DefaultMaps, PutServerMaps, CheckServerMaps,
       ReadServerMaps, InitUsersMaps, MakeUsersMaps, CheckUserMaps, PutUserMaps, ReadUsersMaps,
       CheckUsersMaps, CheckListedMaps, DeleteUserMaps, KeysStay DEF StepOf
  <2> QED  BY <1>1, <1>2, <2>1 DEF AloneInv, Own, Goal
<1> QED  BY <1>3, <1>4

LEMMA NextMaps ==
  ASSUME AloneInv, [Next]_vars
  PROVE  AloneInv' /\ [Directory!Next]_(Directory!vars)
<1>1. CASE Next
  <2>1. PICK c \in Clients : StepOf(c)
    BY <1>1 DEF Next, StepOf
  <2> QED  BY <2>1, StepMaps
<1>2. CASE UNCHANGED vars
  <2>1. UNCHANGED slots /\ UNCHANGED calls /\ UNCHANGED answers
    BY <1>2 DEF vars, storeVars
  <2>2. DirectoryServers' = DirectoryServers /\ DirectoryUsers' = DirectoryUsers /\ DirectoryAnswers' = DirectoryAnswers
    BY <2>1, ReadsKeep DEF DirectoryAnswers
  <2>3. ASSUME NEW c \in Alone PROVE CallInv(c)'
    <3>1. ServersFor(c)' = ServersFor(c) /\ UsersFor(c)' = UsersFor(c) /\ CallInv(c)
      BY <2>1, ReadsKeep DEF AloneInv
    <3>2. ProperCall(c, calls[c], ServersFor(c), UsersFor(c))'
      BY <2>1, <3>1 DEF CallInv
    <3>3. DefaultIsMissing(c)' /\ UsersNamed(c)'
      BY <2>1, <3>1 DEF CallInv, DefaultIsMissing, UsersNamed, IsSet
    <3> QED  BY <3>2, <3>3 DEF CallInv
  <2> QED  BY <2>1, <2>2, <2>3, DirectoryStays DEF AloneInv
<1> QED  BY <1>1, <1>2

LEMMA InitMaps == TransferInit => AloneInv /\ Directory!Init
<1> SUFFICES ASSUME TransferInit PROVE AloneInv /\ Directory!Init
  OBVIOUS
<1>1. slots = <<>> /\ calls = [c \in Clients |-> Idle]
      /\ answers = [c \in Clients |-> [request |-> <<"none">>, status |-> 0, value |-> {}, turn |-> 0]]
  BY DEF TransferInit, StoresInit
<1>2. DOMAIN <<>> = {}
  OBVIOUS
<1>3. \A a, h : Kept(a, h) = <<>>
  BY <1>1, <1>2 DEF Kept, IsSet
<1>4. ASSUME NEW c \in Alone PROVE CallInv(c)
  <2>1. calls[c] = Idle
    BY <1>1 DEF Alone
  <2>2. ProperCall(c, Idle, ServersFor(c), UsersFor(c))
    BY DEF ProperCall, Idle, Uses
  <2>3. DefaultIsMissing(c) /\ UsersNamed(c)
    BY <1>2, <1>3, <2>1 DEF DefaultIsMissing, UsersNamed, UsersFor, Idle
  <2> QED  BY <2>1, <2>2, <2>3 DEF CallInv
<1>5. AloneInv
  BY <1>1, <1>4 DEF AloneInv
<1>6. DirectoryServers = [h \in AloneHomes |-> {}] /\ DirectoryUsers = [h \in AloneHomes |-> {}]
  BY <1>2, <1>3 DEF DirectoryServers, DirectoryUsers, UsersIn
<1> DEFINE Answer0 == [request |-> <<"none">>, status |-> 0, value |-> {}, turn |-> 0]
<1>7. DirectoryAnswers = [c \in Alone |-> Answer0]
  BY <1>1 DEF DirectoryAnswers, Alone
<1>8. Answer0 \in [request : {<<"none">>}, status : {0}, value : {{}}, turn : {0}]
  OBVIOUS
<1> HIDE DEF Answer0
<1>9. DirectoryAnswers \in [Alone -> [request : {<<"none">>}, status : {0}, value : {{}}, turn : {0}]]
  BY <1>7, <1>8
<1>10. Directory!Init
  BY <1>6, <1>9 DEF Directory!Init
<1> QED  BY <1>5, <1>10

(* A client that nobody shares its account and region with is answered as  *)
(* if its requests ran one at a time on a directory of its own, although    *)
(* the provider checks and then acts on dictionaries without a lock         *)
(* (services/transfer/provider.py:62-222, services/stores.py:60-73).        *)
THEOREM AloneSeesADirectory == Spec => ImplementsDirectory
<1>1. TransferInit => AloneInv /\ Directory!Init
  BY InitMaps
<1>2. AloneInv /\ [Next]_vars => AloneInv' /\ [Directory!Next]_(Directory!vars)
  BY NextMaps
<1> QED  BY <1>1, <1>2, PTL DEF Spec, ImplementsDirectory, Directory!Spec
================================================================================
