---------------------------- MODULE RequestParser ----------------------------
(***************************************************************************)
(* localstack.aws.protocol.parser: from a request to the parameters of an  *)
(* operation.  A parser class is named by p: "query", "ec2", "sqs",        *)
(* "rest-xml", "s3", "json", "rest-json", "cbor" and "rpc-v2-cbor".        *)
(*                                                                         *)
(* A request has the fields method, operation (the name it carries, ""     *)
(* for none), headers and query (sequences of texts by name), uri (texts   *)
(* by parameter), args (form fields), slash (the path ends in a slash the  *)
(* matcher removed), target (there is an X-Amz-Target header), segments    *)
(* (of the path), cbor (its content type is CBOR) and body.                *)
(***************************************************************************)
EXTENDS Shapes, Cbor

(* The class for a service and the protocol of a request. *)
CreateParser(service, protocol) ==
  CASE <<service, protocol>> = <<"sqs", "query">> -> "sqs"
    [] <<service, protocol>> = <<"s3", "rest-xml">> -> "s3"
    [] protocol = "smithy-rpc-v2-cbor" -> "rpc-v2-cbor"
    [] OTHER -> protocol

FormParsers == {"query", "ec2", "sqs"}
XmlParsers == {"rest-xml", "s3"}
JsonParsers == {"json", "rest-json"}
RestParsers == XmlParsers \cup {"rest-json"}
CborParsers == {"cbor", "rpc-v2-cbor"}

ProtocolError == Raise("ProtocolParserError")
UnknownError == Raise("UnknownParserError")
NotFoundError == Raise("OperationNotFoundParserError")

-----------------------------------------------------------------------------
(* Scalars.  A scalar handler sees the text of an XML element. *)
TextOf(node) == IF node[1] = "element" THEN node[4] ELSE node

TimestampFormat(p, shape) ==
  CASE shape.timestampFormat # "" -> shape.timestampFormat
    [] shape.location = "header" -> "rfc822"
    [] shape.location = "querystring" -> "iso8601"
    [] p = "cbor" -> "unixtimestampmillis"
    [] p \in JsonParsers \cup {"rpc-v2-cbor"} -> "unixtimestamp"
    [] OTHER -> "iso8601"

LenientTimestamp(format, node) ==
  IF IsText(node, format) THEN Time(node[3]) ELSE None
ConvertTimestamp(format, node) ==
  CASE format \in {"iso8601", "rfc822"} /\ IsText(node, format) -> Time(node[3])
    [] format = "unixtimestamp" /\ node[1] = "secs" -> Time(WholeSecs(node[2]))
    [] format = "unixtimestamp" /\ IsText(node, "digits") -> Time(1000 * node[3])
    [] format = "unixtimestampmillis" /\ node[1] = "num" -> Time(node[2])
    [] format = "unixtimestampmillis" /\ IsText(node, "digits") -> Time(node[3])
    [] OTHER -> ProtocolError

JsonTimestamp(p, req, shape, node) ==
  IF shape.timestampFormat = "" /\ req.cbor
  THEN IF node[1] = "time" THEN node ELSE ConvertTimestamp("unixtimestampmillis", node)
  ELSE ConvertTimestamp(TimestampFormat(p, shape), node)

CborTimestamp(p, shape, node) ==
  IF node[1] = "time" THEN node ELSE ConvertTimestamp(TimestampFormat(p, shape), node)

ParseTimestamp(p, req, shape, node) ==
  CASE p \in CborParsers -> CborTimestamp(p, shape, node)
    [] p \in JsonParsers -> JsonTimestamp(p, req, shape, node)
    [] OTHER -> ConvertTimestamp(TimestampFormat(p, shape), node)

(* JSON leaves a boolean as it is, wherever it was found. *)
ParseBoolean(p, node) ==
  CASE p \in JsonParsers -> node
    [] p \in CborParsers /\ node[1] # "text" -> node
    [] IsText(node, "boolean") -> Bool(node[3])
    [] OTHER -> ProtocolError

ParseBlob(p, req, node) ==
  CASE p \in CborParsers -> node
    [] p \in JsonParsers /\ req.cbor /\ node[1] = "bytes" -> node
    [] IsText(node, "base64") -> Bytes(node[3])
    [] OTHER -> ProtocolError

ParseInteger(p, shape, node) ==
  CASE p = "s3" /\ node = EmptyText /\ shape.location = "querystring" -> None
    [] node[1] = "num" -> node
    [] IsText(node, "digits") -> Num(node[3])
    [] OTHER -> ProtocolError

ParseScalar(p, req, shape, node) ==
  CASE shape.type = "timestamp" -> ParseTimestamp(p, req, shape, node)
    [] shape.type = "boolean" -> ParseBoolean(p, node)
    [] shape.type = "blob" -> ParseBlob(p, req, node)
    [] shape.type = "integer" -> ParseInteger(p, shape, node)
    [] OTHER -> node

-----------------------------------------------------------------------------
(* What a located member is taken from. *)
SplitHeader(texts) ==
  FlattenSeq([i \in DOMAIN texts |->
                IF IsText(texts[i], "comma separated") THEN texts[i][3] ELSE <<texts[i]>>])

ParseHeaderMap(shape, headers) ==
  LET found == {n \in DOMAIN headers : Starts(n, shape.name)}
      Stripped(n) == SubSeq(n, Len(shape.name) + 1, Len(n))
  IN  Obj([k \in {Stripped(n) : n \in found} |->
             headers[CHOOSE n \in found : Stripped(n) = k][1]])

UriParam(p, req, name) ==
  IF p = "s3" /\ name = "Key" /\ req.slash
  THEN Text("plain", req.uri[name][3] \o "/")
  ELSE req.uri[name]

Located(p, req, shape) ==
  CASE shape.location = "header" ->
         CASE shape.name \notin DOMAIN req.headers -> None
           [] shape.type = "list" -> Arr(SplitHeader(req.headers[shape.name]))
           [] OTHER -> req.headers[shape.name][1]
    [] shape.location = "querystring" /\ shape.type = "list" ->
         Arr(IF shape.name \in DOMAIN req.query THEN req.query[shape.name] ELSE <<>>)
    [] shape.location = "querystring" ->
         IF shape.name \in DOMAIN req.query THEN req.query[shape.name][1] ELSE None
    [] shape.location = "uri" /\ shape.name \in DOMAIN req.uri -> UriParam(p, req, shape.name)
    [] OTHER -> UnknownError

-----------------------------------------------------------------------------
RECURSIVE ParseShape(_, _, _, _)

(* Form fields: Name.member.1=a, Name.entry.1.key=k, Name.Member=v *)
HasAny(name, suffixes, args) == \E s \in suffixes : (name \o s) \in DOMAIN args

SqsSuffixes(shape) ==
  CASE shape.type = "map" /\ shape.flattened -> {".1.Key", ".1.Name"}
    [] shape.type = "map" -> {".entry.1.Key", ".entry.1.Name"}
    [] shape.type = "list" /\ shape.flattened -> {".1"}
    [] shape.type = "list" -> {".member.1"}
    [] OTHER -> {}

(* name[0].upper() + name[1:] *)
UpperCase == ("c" :> "C") @@ ("i" :> "I") @@ ("k" :> "K") @@ ("n" :> "N") @@ ("t" :> "T")
Capitalised(name) ==
  LET first == SubSeq(name, 1, 1)
  IN  (IF first \in DOMAIN UpperCase THEN UpperCase[first] ELSE first) \o SubSeq(name, 2, Len(name))

FormName(p, shape, default, args) ==
  LET primary == IF p = "ec2" /\ shape.name # ""
                 THEN Capitalised(shape.name) ELSE WireName(shape, default)
      suffixes == SqsSuffixes(shape)
  IN  IF p = "sqs" /\ ~HasAny(primary, suffixes, args) /\ HasAny(default, suffixes, args)
      THEN default ELSE primary

FilterNode(name, args) ==
  LET found == {k \in DOMAIN args : Starts(k, name)}
      Rest(k) == SubSeq(k, Len(name) + 2, Len(k))
  IN  IF found = {} THEN None
      ELSE Args([r \in {Rest(k) : k \in found} |-> args[CHOOSE k \in found : Rest(k) = r]])

ProcessMember(p, req, name, shape, args) ==
  LET sub == CASE shape.type \in Complex -> FilterNode(name, args)
               [] name \in DOMAIN args -> args[name]
               [] OTHER -> None
  IN  IF sub = None THEN None ELSE ParseShape(p, req, shape, sub)

FormStructure(p, req, shape, args) ==
  LET Name(m) == IF shape.members[m].flattened /\ shape.members[m].type = "list"
                 THEN FormName(p, shape.members[m].member, m, args)
                 ELSE FormName(p, shape.members[m], m, args)
      value == [m \in DOMAIN shape.members |->
                  ProcessMember(p, req, Name(m), shape.members[m], args)]
      kept == {m \in DOMAIN value : value[m] # None \/ m \in shape.required_members}
  IN  IF kept = {} THEN None ELSE ObjOf(Only(value, kept))

(* The number of items 1, 2, ... that are there, before the first that is not. *)
Count(Present(_), args) ==
  CHOOSE n \in 0 .. Cardinality(DOMAIN args) :
    /\ \A i \in 1 .. n : Present(i)
    /\ ~Present(n + 1)

FormMap(p, req, shape, args) ==
  LET prefix == IF shape.flattened THEN "" ELSE "entry."
      Part(i, part, default) ==
        ProcessMember(p, req, prefix \o ToString(i) \o "." \o FormName(p, part, default, args),
                      part, args)
      K(i) == Part(i, shape.key, "key")
      V(i) == Part(i, shape.value, "value")
      n == Count(LAMBDA i : K(i) # None /\ V(i) # None, args)
  IN  IF n = 0 THEN None
      ELSE ObjOf([k \in {K(i)[3] : i \in 1 .. n} |-> V(CHOOSE i \in 1 .. n : K(i)[3] = k)])

FormList(p, req, shape, args) ==
  LET prefix == IF p = "ec2" \/ shape.flattened THEN ""
                ELSE FormName(p, shape.member, "member", args) \o "."
      Item(i) == ProcessMember(p, req, prefix \o ToString(i), shape.member, args)
      n == Count(LAMBDA i : Item(i) # None, args)
  IN  IF n = 0 THEN None ELSE ArrOf([i \in 1 .. n |-> Item(i)])

-----------------------------------------------------------------------------
(* XML *)
Children(node) ==
  CASE node[1] = "element" -> node[5]
    [] node[1] = "elements" -> node[2][1][5]
    [] OTHER -> <<>>

ByTag(children) ==
  [tag \in {children[i][2] : i \in DOMAIN children} |->
     LET same == SelectSeq(children, LAMBDA e : e[2] = tag)
     IN  IF Len(same) = 1 THEN same[1] ELSE Elements(same)]

XmlName(shape, m) ==
  IF shape.type = "list" /\ shape.flattened /\ shape.member.name # ""
  THEN shape.member.name ELSE WireName(shape, m)

XmlStructure(p, req, shape, node) ==
  LET byTag == ByTag(Children(node))
      Name(m) == XmlName(shape.members[m], m)
      InBody(m) == Name(m) \in DOMAIN byTag
      Attribute(m) == /\ shape.members[m].xmlAttribute
                      /\ node[1] = "element"
                      /\ shape.members[m].name \in DOMAIN node[3]
      Value(m) ==
        CASE InBody(m) \/ shape.members[m].location # "" ->
               ParseShape(p, req, shape.members[m],
                          IF InBody(m) THEN byTag[Name(m)] ELSE None)
          [] Attribute(m) -> node[3][shape.members[m].name]
          [] OTHER -> None
      kept == {m \in DOMAIN shape.members :
                 \/ InBody(m) \/ shape.members[m].location # "" \/ Attribute(m)
                 \/ m \in shape.required_members /\ ~shape.members[m].xmlAttribute}
  IN  ObjOf([m \in kept |-> Value(m)])

(* A flattened collection that occurs once was not aggregated. *)
Nodes(shape, node) ==
  CASE node[1] = "arr" -> node[2]
    [] node[1] = "elements" -> node[2]
    [] node[1] = "element" -> IF shape.flattened THEN <<node>> ELSE node[5]
    [] OTHER -> <<ProtocolError>>

XmlMap(p, req, shape, node) ==
  LET entries == Nodes(shape, node)
      Part(i, part, default) ==
        LET same == SelectSeq(entries[i][5], LAMBDA e : e[2] = WireName(part, default))
        IN  IF same = <<>> THEN None ELSE ParseShape(p, req, part, Last(same))
      K(i) == Part(i, shape.key, "key")
      UnknownTag(i) == \E j \in DOMAIN entries[i][5] :
                         entries[i][5][j][2] \notin {WireName(shape.key, "key"),
                                                     WireName(shape.value, "value")}
  IN  IF \E i \in DOMAIN entries : UnknownTag(i) THEN ProtocolError
      ELSE ObjOf([k \in {K(i)[3] : i \in DOMAIN entries} |->
                    Part(CHOOSE i \in DOMAIN entries : K(i)[3] = k, shape.value, "value")])

-----------------------------------------------------------------------------
(* JSON and CBOR *)
Get(node, name) == IF name \in DOMAIN node[2] THEN node[2][name] ELSE None

JsonStructure(p, req, shape, node) ==
  LET value == [m \in DOMAIN shape.members |->
                  ParseShape(p, req, shape.members[m],
                             Get(node, WireName(shape.members[m], m)))]
      kept == {m \in DOMAIN value : value[m] # None \/ m \in shape.required_members}
  IN  CASE shape.document -> node
        [] node[1] # "obj" -> IF DOMAIN shape.members = {} THEN Empty ELSE ProtocolError
        [] OTHER -> ObjOf(Only(value, kept))

RpcStructure(p, req, shape, node) ==
  LET set == {m \in DOMAIN node[2] : node[2][m] # None /\ m # "__type"}
      kept == {m \in DOMAIN shape.members : Get(node, m) # None}
  IN  CASE shape.document -> node
        [] node[1] # "obj" -> IF DOMAIN shape.members = {} THEN Empty ELSE ProtocolError
        [] shape.union /\ Cardinality(set) # 1 -> ProtocolError
        [] OTHER -> ObjOf([m \in kept |-> ParseShape(p, req, shape.members[m], node[2][m])])

JsonMap(p, req, shape, node) ==
  IF node[1] # "obj" THEN ProtocolError
  ELSE ObjOf([k \in DOMAIN node[2] |-> ParseShape(p, req, shape.value, node[2][k])])

-----------------------------------------------------------------------------
ParseList(p, req, shape, node) ==
  LET items == Nodes(shape, node)
  IN  IF p \in FormParsers THEN FormList(p, req, shape, node[2])
      ELSE IF \E i \in DOMAIN items : IsError(items[i]) THEN ProtocolError
      ELSE ArrOf([i \in DOMAIN items |-> ParseShape(p, req, shape.member, items[i])])

ParseMap(p, req, shape, node) ==
  CASE p \in FormParsers -> FormMap(p, req, shape, node[2])
    [] p \in XmlParsers -> XmlMap(p, req, shape, node)
    [] OTHER -> JsonMap(p, req, shape, node)

ParseStructure(p, req, shape, node) ==
  CASE p \in FormParsers -> FormStructure(p, req, shape, node[2])
    [] p \in XmlParsers -> XmlStructure(p, req, shape, node)
    [] p = "rpc-v2-cbor" -> RpcStructure(p, req, shape, node)
    [] OTHER -> JsonStructure(p, req, shape, node)

ParseShape(p, req, shape, node) ==
  LET payload == IF shape.location \in {"", "headers"} THEN node ELSE Located(p, req, shape)
  IN  CASE shape.location = "headers" -> ParseHeaderMap(shape, req.headers)
        [] payload = None \/ IsError(payload) -> payload
        [] shape.type = "list" -> ParseList(p, req, shape, payload)
        [] shape.type = "map" -> ParseMap(p, req, shape, payload)
        [] shape.type = "structure" -> ParseStructure(p, req, shape, payload)
        [] OTHER -> ParseScalar(p, req, shape, TextOf(payload))

-----------------------------------------------------------------------------
InitialBodyParse(p, req) ==
  CASE req.body = Malformed -> ProtocolError
    [] req.body = None /\ p \in XmlParsers -> Element("", <<>>, EmptyText, <<>>)
    [] req.body = None /\ p \in JsonParsers -> Empty
    [] req.body = None -> Bytes("")
    [] p \in CborParsers -> ParseDataItem(req.body[2])
    [] OTHER -> req.body

(* The member that is the whole body, in a function with at most one member. *)
ParsePayloadMember(p, req, shape) ==
  LET member == shape.members[shape.payload]
      value ==
        CASE member.eventstream -> UnknownError
          [] member.type \in {"string", "blob"} -> req.body
          [] IsError(InitialBodyParse(p, req)) -> ProtocolError
          [] OTHER -> ParseShape(p, req, member, InitialBodyParse(p, req))
  IN  IF member.type \in {"string", "blob"} /\ req.body = None
      THEN Empty ELSE ObjOf([m \in {shape.payload} |-> value])

ParsePayload(p, req, shape) ==
  LET lenient == p \in XmlParsers /\ req.method \in {"GET", "HEAD"}
      whole == IF shape.payload # "" THEN Empty ELSE InitialBodyParse(p, req)
      body == IF IsError(whole) /\ lenient THEN Empty ELSE whole
      payload == IF shape.payload = "" THEN Empty ELSE ParsePayloadMember(p, req, shape)
      rest == IF IsError(body) THEN body ELSE ParseShape(p, req, shape, body)
  IN  CASE IsError(payload) -> payload
        [] IsError(rest) -> rest
        [] rest = None -> UnknownError           \* dict.update(None)
        [] OTHER -> Obj(payload[2] @@ rest[2])

(* The parameters of an operation whose input is the shape. *)
ParseParameters(p, req, shape) ==
  CASE p \in RestParsers -> ParsePayload(p, req, shape)
    [] p \in FormParsers ->
         LET parsed == ParseShape(p, req, shape, Args(req.args))
         IN  IF parsed = None THEN Empty ELSE parsed
    [] IsError(InitialBodyParse(p, req)) -> InitialBodyParse(p, req)
    [] OTHER ->
         LET parsed == ParseShape(p, req, shape, InitialBodyParse(p, req))
         IN  IF parsed = None /\ p \in CborParsers THEN UnknownError ELSE parsed

(* Which operation a request is for: an exception, or None if there is one. *)
DetectByAction(req, operations) ==
  CASE req.operation = "" -> ProtocolError
    [] req.operation \notin operations -> NotFoundError
    [] OTHER -> None

DetectByPath(req, operations) ==
  IF req.operation \in operations THEN None ELSE NotFoundError

DetectByTarget(req, operations) ==
  IF req.target /\ req.operation \in operations THEN None ELSE UnknownError

DetectByRpcPath(req, operations) ==
  CASE req.method # "POST" \/ req.target -> ProtocolError
    [] req.segments < 4 -> NotFoundError
    [] req.operation \notin operations -> UnknownError
    [] OTHER -> None

DetectOperation(p, req, operations) ==
  CASE p \in FormParsers -> DetectByAction(req, operations)
    [] p \in RestParsers -> DetectByPath(req, operations)
    [] p = "rpc-v2-cbor" -> DetectByRpcPath(req, operations)
    [] OTHER -> DetectByTarget(req, operations)

Parse(p, req, operations, shape) ==
  LET found == DetectOperation(p, req, operations)
  IN  IF found = None THEN ParseParameters(p, req, shape) ELSE found
=============================================================================
