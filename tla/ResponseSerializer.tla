-------------------------- MODULE ResponseSerializer --------------------------
(***************************************************************************)
(* localstack.aws.protocol.serializer: from the result of an operation, or *)
(* the exception it raised, to a response.  A serializer class is named by *)
(* s: "query", "ec2", "sqs-query", "rest-xml", "s3", "json", "sqs-json",   *)
(* "rest-json", "cbor" and "rpc-v2-cbor"; mime is the kind of the content  *)
(* type it answers with: "xml", "json" or "cbor".                          *)
(*                                                                         *)
(* An operation has the fields name, method and responseCode.  An error    *)
(* has code, class (of the exception), message, sender_fault, status_code  *)
(* and attributes (what else was set on it).  A response has the fields    *)
(* status, headers (texts by name) and body.                               *)
(***************************************************************************)
EXTENDS Shapes, Cbor

(* The class for a service and the protocol of a request. *)
CreateSerializer(service, protocol) ==
  CASE <<service, protocol>> = <<"sqs", "json">> -> "sqs-json"
    [] <<service, protocol>> = <<"sqs", "query">> -> "sqs-query"
    [] <<service, protocol>> = <<"s3", "rest-xml">> -> "s3"
    [] protocol = "smithy-rpc-v2-cbor" -> "rpc-v2-cbor"
    [] OTHER -> protocol

XmlSerializers == {"query", "ec2", "sqs-query", "rest-xml", "s3"}
JsonSerializers == {"json", "sqs-json", "rest-json"}
RestSerializers == {"rest-xml", "s3", "rest-json"}
CborSerializers == {"cbor", "rpc-v2-cbor"}
QueryCompatible == {"json", "sqs-json", "rest-json", "rpc-v2-cbor"}

NonCompliant == Raise("ProtocolSerializerError")
Unexpected == Raise("UnknownSerializerError")
NoHeaders == <<>>
Header(name, value) == [n \in {name} |-> value]

-----------------------------------------------------------------------------
(* The content type: what the request accepts, else what it was written in, *)
(* else the first one the serializer supports.                              *)
SupportedMimeTypes(s) ==
  CASE s = "s3" -> <<"xml">>
    [] s \in XmlSerializers -> <<"xml", "json">>
    [] s \in JsonSerializers -> <<"json", "cbor">>
    [] OTHER -> <<"cbor">>

MimeType(s, accept, contentType) ==
  LET supported == SupportedMimeTypes(s)
      wanted == IF accept \notin {"", "*/*"} THEN accept ELSE contentType
  IN  IF \E i \in DOMAIN supported : supported[i] = wanted THEN wanted ELSE supported[1]

DefaultTimestampFormat(s) ==
  IF s \in XmlSerializers THEN "iso8601" ELSE "unixtimestamp"

(* S3 writes milliseconds, always 000; the RFC 822 format has none. *)
TimestampText(s, format, v) ==
  LET date == DateOf(v)
  IN  CASE date = None -> NonCompliant
        [] format = "unixtimestamp" -> Secs(date[2])
        [] format = "rfc822" \/ s = "s3" -> Text(format, WholeSecs(date[2]))
        [] OTHER -> Text(format, date[2])

FormatOf(shape, default) == IF shape.timestampFormat = "" THEN default ELSE shape.timestampFormat

Base64(v) ==
  CASE v[1] = "bytes" -> Text("base64", v[2])
    [] v[1] = "text" -> Text("base64", v[3])
    [] OTHER -> NonCompliant

Str(v) ==
  CASE v[1] = "num" -> Text("digits", v[2])
    [] v[1] = "text" -> v
    [] OTHER -> Text("repr", v)

-----------------------------------------------------------------------------
(* XML: the elements a value adds to the element it belongs to. *)
XmlText(s, shape, v, mime) ==
  CASE shape.type = "boolean" -> Text("boolean", Truthy(v))
    [] shape.type = "blob" -> Base64(v)
    [] shape.type = "timestamp" /\ mime = "json" ->
         IF DateOf(v) = None THEN NonCompliant ELSE Text("digits", DateOf(v)[2] \div 1000)
    [] shape.type = "timestamp" -> TimestampText(s, FormatOf(shape, "iso8601"), v)
    [] OTHER -> Str(v)

RECURSIVE XmlNodes(_, _, _, _, _)

XmlMembers(s, shape, v, mime) ==
  LET set == {k \in DOMAIN v[2] \cap DOMAIN shape.members :
                v[2][k] # None /\ ~shape.members[k].xmlAttribute}
      keys == SetToSeq(set)
  IN  FlattenSeq([i \in DOMAIN keys |->
        XmlNodes(s, shape.members[keys[i]], v[2][keys[i]],
                 WireName(shape.members[keys[i]], keys[i]), mime)])

XmlAttributes(shape, v) ==
  LET set == {k \in DOMAIN v[2] \cap DOMAIN shape.members :
                v[2][k] # None /\ shape.members[k].xmlAttribute}
  IN  [n \in {shape.members[k].name : k \in set} |->
         v[2][CHOOSE k \in set : shape.members[k].name = n]]

(* One element with the children, unless making one of them raised. *)
Wrap(name, attributes, children) ==
  LET failed == {i \in DOMAIN children : IsError(children[i])}
  IN  IF failed = {} THEN <<Element(name, attributes, EmptyText, children)>>
      ELSE <<children[CHOOSE i \in failed : \A j \in failed : i <= j]>>

XmlList(s, shape, v, name, mime) ==
  LET items == SelectSeq(v[2], LAMBDA x : x # None)
      tag == WireName(shape.member, IF shape.flattened THEN name ELSE "member")
      nodes == FlattenSeq([i \in DOMAIN items |-> XmlNodes(s, shape.member, items[i], tag, mime)])
  IN  IF shape.flattened THEN nodes ELSE Wrap(name, <<>>, nodes)

XmlEntries(s, shape, v, name, mime) ==
  LET keys == SetToSeq({k \in DOMAIN v[2] : v[2][k] # None})
      Entry(k) ==
        Wrap(IF shape.flattened THEN name ELSE "entry", <<>>,
             XmlNodes(s, shape.key, Text("plain", k), WireName(shape.key, "key"), mime)
               \o XmlNodes(s, shape.value, v[2][k], WireName(shape.value, "value"), mime))
      nodes == FlattenSeq([i \in DOMAIN keys |-> Entry(keys[i])])
  IN  IF shape.flattened THEN nodes ELSE Wrap(name, <<>>, nodes)

XmlNodes(s, shape, v, name, mime) ==
  LET kind == CASE shape.type = "list" -> "arr" [] shape.type \in Complex -> "obj" [] OTHER -> v[1]
      text == XmlText(s, shape, v, mime)
  IN  CASE shape.type \in {"list", "map"} /\ v = None -> <<>>
        [] v[1] # kind -> <<NonCompliant>>
        [] shape.type = "structure" ->
             Wrap(name, XmlAttributes(shape, v), XmlMembers(s, shape, v, mime))
        [] shape.type = "list" -> XmlList(s, shape, v, name, mime)
        [] shape.type = "map" -> XmlEntries(s, shape, v, name, mime)
        [] IsError(text) -> <<text>>
        [] OTHER -> <<Element(name, <<>>, text, <<>>)>>

(* An element whose text is not a string cannot be written. *)
RECURSIVE Writable(_), AsDictionary(_)
Writable(e) ==
  /\ e[4][1] = "text"
  /\ \A n \in DOMAIN e[3] : e[3][n][1] = "text"
  /\ \A i \in DOMAIN e[5] : Writable(e[5][i])

(* xmltodict: attributes apart, what repeats is a list. *)
AsDictionary(e) ==
  LET tags == {e[5][i][2] : i \in DOMAIN e[5]}
      Of(tag) == SelectSeq(e[5], LAMBDA c : c[2] = tag)
      One(tag) == IF Len(Of(tag)) = 1 THEN AsDictionary(Of(tag)[1])
                  ELSE Arr([i \in DOMAIN Of(tag) |-> AsDictionary(Of(tag)[i])])
  IN  CASE tags # {} -> Obj([tag \in tags |-> One(tag)])
        [] e[4] = EmptyText -> None
        [] OTHER -> e[4]

NodeToString(root, mime) ==
  CASE IsError(root) -> root
    [] ~IsError(root) /\ ~Writable(root) -> Unexpected
    [] mime = "json" -> Obj(Header(root[2], AsDictionary(root)))
    [] OTHER -> root

-----------------------------------------------------------------------------
(* JSON; Absent is the key that is never set. *)
Absent == <<"absent">>

JsonScalar(s, shape, v, mime) ==
  CASE shape.type \in {"timestamp", "blob"} /\ mime = "cbor" -> v
    [] shape.type = "timestamp" -> TimestampText(s, FormatOf(shape, "unixtimestamp"), v)
    [] shape.type = "blob" -> Base64(v)
    [] OTHER -> v

RECURSIVE JsonNode(_, _, _, _)

JsonMembers(s, shape, v, mime) ==
  LET set == {k \in DOMAIN v[2] \cap DOMAIN shape.members : v[2][k] # None}
  IN  [n \in {WireName(shape.members[k], k) : k \in set} |->
         LET k == CHOOSE k \in set : WireName(shape.members[k], k) = n
         IN  JsonNode(s, shape.members[k], v[2][k], mime)]

JsonEntries(s, shape, v, mime) ==
  LET kept == {k \in DOMAIN v[2] : v[2][k] # None \/ s = "rest-json"}
      node == [k \in kept |-> JsonNode(s, shape.value, v[2][k], mime)]
  IN  Only(node, {k \in kept : node[k] # Absent})

JsonItems(s, shape, v, mime) ==
  LET items == SelectSeq(v[2], LAMBDA x : x # None)
  IN  [i \in DOMAIN items |-> JsonNode(s, shape.member, items[i], mime)]

JsonNode(s, shape, v, mime) ==
  CASE shape.type \in Complex /\ v = None -> Absent
    [] shape.type = "structure" /\ shape.document -> v
    [] shape.type = "list" ->
         IF v[1] = "arr" THEN ArrOf(JsonItems(s, shape, v, mime)) ELSE NonCompliant
    [] shape.type \in Complex /\ v[1] # "obj" -> NonCompliant
    [] shape.type = "structure" -> ObjOf(JsonMembers(s, shape, v, mime))
    [] shape.type = "map" -> ObjOf(JsonEntries(s, shape, v, mime))
    [] OTHER -> JsonScalar(s, shape, v, mime)

(* json.dumps knows neither bytes nor datetimes. *)
RECURSIVE Dumpable(_)
Dumpable(d) ==
  CASE d[1] = "obj" -> \A k \in DOMAIN d[2] : Dumpable(d[2][k])
    [] d[1] = "arr" -> \A i \in DOMAIN d[2] : Dumpable(d[2][i])
    [] OTHER -> d[1] \notin {"bytes", "time"}

Dump(d, mime) ==
  CASE IsError(d) -> d
    [] mime = "json" /\ ~IsError(d) /\ ~Dumpable(d) -> Unexpected
    [] OTHER -> d

CborBody(stream) ==
  LET failed == {i \in DOMAIN stream : IsError(stream[i])}
  IN  IF failed = {} THEN Octets(stream) ELSE stream[CHOOSE i \in failed : \A j \in failed : i <= j]

-----------------------------------------------------------------------------
(* The body of a response *)
RequestIdNode(tag) == Element(tag, <<>>, Text("plain", "request id"), <<>>)

(* The table of the root tags of S3, for the shapes used here. *)
RootTag(s, name) ==
  IF s = "s3" /\ name = "ListBucketsOutput" THEN "ListAllMyBucketsResult" ELSE name

QueryRoot(node, response) ==
  Element(response, <<>>, EmptyText,
          <<node, Element("ResponseMetadata", <<>>, EmptyText, <<RequestIdNode("RequestId")>>)>>)
Ec2Root(node, response) ==
  Element(response, <<>>, EmptyText, node[5] \o <<RequestIdNode("requestId")>>)

XmlRoot(s, shape, v, operation, mime) ==
  LET node == XmlNodes(s, shape, v, WireName(shape, "Output"), mime)[1]
      response == operation.name \o "Response"
  IN  CASE IsError(node) -> node
        [] s \in {"query", "sqs-query"} -> QueryRoot(node, response)
        [] s = "ec2" -> Ec2Root(node, response)
        [] OTHER -> [node EXCEPT ![2] = RootTag(s, node[2])]

BodyParams(s, shape, v, operation, mime) ==
  CASE s \in XmlSerializers -> NodeToString(XmlRoot(s, shape, v, operation, mime), mime)
    [] s \in JsonSerializers -> Dump(JsonNode(s, shape, v, mime), mime)
    [] OTHER -> CborBody(WriteDataItem(shape, v))

-----------------------------------------------------------------------------
(* What REST takes out of the body *)
RECURSIVE HeaderValue(_, _, _)
HeaderValue(s, shape, v) ==
  CASE shape.type = "timestamp" -> TimestampText(s, FormatOf(shape, "rfc822"), v)
    [] shape.type = "list" ->
         LET items == SelectSeq(v[2], LAMBDA x : x # None)
             texts == [i \in DOMAIN items |-> HeaderValue(s, shape.member, items[i])]
         IN  CASE \E i \in DOMAIN texts : texts[i][1] # "text" -> Unexpected
               [] Len(texts) = 1 -> texts[1]
               [] OTHER -> Text("comma separated", texts)
    [] shape.type = "boolean" -> Text("boolean", Truthy(v))
    [] OTHER -> Str(v)

PartitionMembers(shape, params) ==
  LET given == DOMAIN shape.members \cap DOMAIN params
  IN  [header |-> Only(params, {m \in given : shape.members[m].location # ""}),
       payload |-> Only(params, {m \in given : shape.members[m].location = ""})]

HeaderMembers(s, shape, params) ==
  LET Place(m) == shape.members[m].location
      given == {m \in DOMAIN params : params[m] # None}
      single == {m \in given : Place(m) = "header"}
      maps == {m \in given : Place(m) = "headers"}
      one == [n \in {shape.members[m].name : m \in single} |->
                LET m == CHOOSE m \in single : shape.members[m].name = n
                IN  HeaderValue(s, shape.members[m], params[m])]
      prefixed == {<<m, k>> \in UNION {{m} \X DOMAIN params[m][2] : m \in maps} : TRUE}
      Name(x) == shape.members[x[1]].name \o x[2]
  IN  one @@ [n \in {Name(x) : x \in prefixed} |->
                LET x == CHOOSE x \in prefixed : Name(x) = n IN params[x[1]][2][x[2]]]

StatusMember(shape, params, default) ==
  LET given == {m \in DOMAIN params : params[m] # None /\ shape.members[m].location = "statusCode"}
  IN  IF given = {} THEN default ELSE params[CHOOSE m \in given : TRUE][2]

S3HasBody(shape, operation, status) ==
  status \notin 300 .. 399 /\ (operation.method = "PUT" => shape.payload # "")

HasBody(s, shape, operation, status) ==
  operation.method # "HEAD" /\ (s = "s3" => S3HasBody(shape, operation, status))

SerializePayload(s, shape, params, operation, mime) ==
  LET member == shape.members[shape.payload]
      Given(m) == m \in DOMAIN params
  IN  CASE shape.payload = "" -> BodyParams(s, shape, Obj(params), operation, mime)
        [] member.type \in {"blob", "string"} ->
             IF Given(shape.payload) THEN params[shape.payload] ELSE Bytes("")
        [] Given(shape.payload) /\ params[shape.payload] # None ->
             BodyParams(s, member, params[shape.payload], operation, mime)
        [] OTHER -> None

RequestIdHeaders(s) ==
  CASE s = "rest-json" -> {"x-amz-request-id", "x-amzn-RequestId"}
    [] s \in RestSerializers -> {"x-amz-request-id"}
    [] s = "rpc-v2-cbor" -> {"x-amzn-RequestId", "Smithy-Protocol"}
    [] OTHER -> {"x-amzn-RequestId"}

Response(s, status, headers, body) ==
  LET failed == {n \in DOMAIN headers : IsError(headers[n])}
  IN  CASE failed # {} -> headers[CHOOSE n \in failed : TRUE]
        [] failed = {} /\ IsError(body) -> body
        [] OTHER -> [status |-> status, body |-> body,
                     headers |-> headers @@ [n \in RequestIdHeaders(s) |-> Text("plain", "id")]]

RestResponse(s, params, shape, operation, mime) ==
  LET parts == PartitionMembers(shape, params)
      status == StatusMember(shape, parts.header, operation.responseCode)
      body == IF HasBody(s, shape, operation, status)
              THEN SerializePayload(s, shape, parts.payload, operation, mime) ELSE None
  IN  Response(s, status, HeaderMembers(s, shape, parts.header), body)

RpcResponse(s, params, shape, operation, mime) ==
  Response(s, operation.responseCode, NoHeaders, BodyParams(s, shape, Obj(params), operation, mime))

SerializeToResponse(s, params, shape, operation, mime) ==
  IF s \in RestSerializers THEN RestResponse(s, params, shape, operation, mime)
  ELSE RpcResponse(s, params, shape, operation, mime)

-----------------------------------------------------------------------------
(* Errors *)
SqsErrorCode(code) ==
  CASE code = "QueueDoesNotExist" -> "AWS.SimpleQueueService.NonExistentQueue"
    [] code = "InvalidParameterValueException" -> "InvalidParameterValue"
    [] code = "PurgeQueueInProgress" -> "AWS.SimpleQueueService.PurgeQueueInProgress"
    [] OTHER -> code
SENDER_FAULT_ERRORS ==
  {"QueueDoesNotExist", "InvalidParameterValueException", "PurgeQueueInProgress", "OverLimit"}

Leaf(tag, text) == Element(tag, <<>>, text, <<>>)

ErrorTagsOf(code, message, sender) ==
  <<Leaf("Code", Text("plain", code))>>
    \o (IF message # "" THEN <<Leaf("Message", Text("plain", message))>> ELSE <<>>)
    \o (IF sender THEN <<Leaf("Type", Text("plain", "Sender"))>> ELSE <<>>)

SqsErrorTags(error) ==
  ErrorTagsOf(SqsErrorCode(error.code), error.message,
              error.sender_fault \/ error.code \in SENDER_FAULT_ERRORS)

(* S3 writes the message even if there is none, and no fault. *)
S3ErrorTags(error) ==
  <<Leaf("Code", Text("plain", error.code)), Leaf("Message", Text("plain", error.message))>>

ErrorTags(s, error) ==
  CASE s = "sqs-query" -> SqsErrorTags(error)
    [] s = "s3" -> S3ErrorTags(error)
    [] OTHER -> ErrorTagsOf(error.code, error.message, error.sender_fault)

(* The modelled members of the error that are set on the exception, except *)
(* its code and message.                                                   *)
ErrorParams(shape, error) ==
  Only(error.attributes, {m \in DOMAIN shape.members \cap DOMAIN error.attributes :
                            m \notin {"code", "Code", "message", "Message"}})

AdditionalErrorTags(s, shape, params, mime) ==
  IF params = <<>> THEN <<>>
  ELSE LET node == XmlNodes(s, shape, Obj(params), "Error", mime)[1]
       IN  IF IsError(node) THEN <<node>> ELSE node[5]

S3Error(tags, more) ==
  Wrap("Error", <<>>, tags \o <<RequestIdNode("RequestId")>> \o more)[1]
Ec2Error(tags) ==
  Element("Response", <<>>, EmptyText,
          Wrap("Errors", <<>>, Wrap("Error", <<>>, tags)) \o <<RequestIdNode("RequestID")>>)

XmlError(s, shape, params, error, mime) ==
  LET tags == ErrorTags(s, error)
      more == AdditionalErrorTags(s, shape, params, mime)
  IN  CASE s = "s3" -> S3Error(tags, more)
        [] s = "ec2" -> Ec2Error(tags)
        [] OTHER -> Wrap("ErrorResponse", <<>>, Wrap("Error", <<>>, tags)
                           \o <<RequestIdNode("RequestId")>> \o more)[1]

ErrorAttribute(error, m) ==
  CASE m \in DOMAIN error.attributes -> error.attributes[m]
    [] m \in {"message", "Message"} -> Text("plain", error.message)
    [] m \in {"code", "Code"} -> Text("plain", error.code)
    [] OTHER -> None

(* What is falsy is not written, unless it is required. *)
ErrorMembers(shape, error) ==
  LET value == [m \in DOMAIN shape.members |-> ErrorAttribute(error, m)]
  IN  Only(value, {m \in DOMAIN value : /\ value[m] # None
                                        /\ \/ Truthy(value[m])
                                           \/ m \in shape.required_members})

(* A query compatible service names its errors for their shapes. *)
ErrorCode(compatible, shape, error) ==
  CASE ~compatible -> error.code
    [] shape # NoShape -> shape.name
    [] OTHER -> error.class

JsonError(s, compatible, shape, error, mime) ==
  LET code == Text("plain", ErrorCode(compatible, shape, error))
      node == IF shape = NoShape THEN Empty
              ELSE JsonNode(s, shape, Obj(ErrorMembers(shape, error)), mime)
      named == {"message", "Message"} \cap DOMAIN node[2] # {}
      message == IF named \/ error.message = "" THEN <<>>
                 ELSE Header("message", Text("plain", error.message))
  IN  IF IsError(node) THEN node
      ELSE Dump(Obj(node[2] @@ message @@ Header("__type", code)), mime)

CborError(s, compatible, shape, error) ==
  LET code == Text("plain", ErrorCode(compatible /\ s = "rpc-v2-cbor", shape, error))
      plain == Structure([message |-> Scalar("string")], {})
      used == IF shape = NoShape THEN plain ELSE shape
      typed == [used EXCEPT !.members = @ @@ Header("__type", Scalar("string"))]
      params == ErrorMembers(used, error) @@ Header("__type", code)
  IN  CborBody(WriteDataItem(typed, Obj(params)))

(* 4xx is reported as 400, unless the client asked for the query errors. *)
ErrorStatus(s, compatible, queryMode, error) ==
  IF s \in QueryCompatible /\ compatible /\ ~queryMode /\ error.status_code \in 401 .. 499
  THEN 400 ELSE error.status_code

SqsQueryErrorHeader(error) ==
  Header("x-amzn-query-error", <<"fault", SqsErrorCode(error.code), TRUE>>)
UnmappedErrorHeader(s, error) ==
  Header("x-amzn-query-error", <<"fault", error.code, error.sender_fault>>)
QueryErrorHeader(s, error) ==
  IF s = "sqs-json" THEN SqsQueryErrorHeader(error)
  ELSE Header("x-amzn-query-error", <<"fault", error.code, error.sender_fault>>)

ErrorHeaders(s, compatible, shape, error) ==
  LET code == Text("plain", ErrorCode(compatible /\ s # "cbor", shape, error))
      typed == IF s \in JsonSerializers \cup {"cbor"}
               THEN Header("X-Amzn-Errortype", code) ELSE NoHeaders
      query == IF s \in QueryCompatible /\ compatible
               THEN QueryErrorHeader(s, error) ELSE NoHeaders
      located == IF s = "s3" /\ shape # NoShape
                 THEN HeaderMembers(s, shape, PartitionMembers(shape, error.attributes).header)
                 ELSE NoHeaders
  IN  typed @@ query @@ located

ErrorBody(s, compatible, shape, error, mime) ==
  LET params == CASE shape = NoShape -> <<>>
                  [] s = "s3" -> PartitionMembers(shape, ErrorParams(shape, error)).payload
                  [] OTHER -> ErrorParams(shape, error)
  IN  CASE s \in XmlSerializers -> NodeToString(XmlError(s, shape, params, error, mime), mime)
        [] s \in JsonSerializers -> JsonError(s, compatible, shape, error, mime)
        [] OTHER -> CborError(s, compatible, shape, error)

SerializeErrorToResponse(s, compatible, queryMode, shape, error, mime) ==
  Response(s, ErrorStatus(s, compatible, queryMode, error),
           ErrorHeaders(s, compatible, shape, error),
           ErrorBody(s, compatible, shape, error, mime))

-----------------------------------------------------------------------------
(* Event streams: frames of a prelude, headers and a payload, in units of   *)
(* bytes; a checksum has 4.                                                 *)
SumOf(s) == FoldSeq(LAMBDA x, y : x + y, 0, s)

EventHeaders(type, errorCode, errorMessage) ==
  <<<<":event-type", type>>,
    <<":message-type", IF errorCode # "" \/ errorMessage # "" THEN "error" ELSE "event">>>>
    \o (IF errorMessage = "" THEN <<>> ELSE <<<<":error-message", errorMessage>>>>)
    \o (IF errorCode = "" THEN <<>> ELSE <<<<":error-code", errorCode>>>>)

TotalLengthShort(payload, headersLength) == payload + headersLength + 12
TotalLength(payload, headersLength) == payload + headersLength + 16

(* A name has a byte of length before it, a value a byte of type and two.  *)
EncodeEventPayload(headers, payload) ==
  LET headersLength == SumOf([i \in DOMAIN headers |->
                                1 + Len(headers[i][1]) + 1 + 2 + Len(headers[i][2])])
      section == FlattenSeq([i \in DOMAIN headers |->
                   <<<<"header", headers[i]>>>>
                     \o [j \in 1 .. 3 + Len(headers[i][1]) + Len(headers[i][2]) |-> <<"more">>]])
      blank(n) == [j \in 1 .. n |-> <<"more">>]
  IN  <<<<"length", TotalLength(payload, headersLength)>>>> \o blank(3)
        \o <<<<"length", headersLength>>>> \o blank(3)
        \o <<<<"crc", "prelude">>>> \o blank(3)
        \o section \o [j \in 1 .. payload |-> <<"payload">>]
        \o <<<<"crc", "message">>>> \o blank(3)

(* The stream: the initial response, and one frame per event up to the first *)
(* that is none of the members marked as events.                             *)
EventStream(shape, events) ==
  LET EventOf(e) == {m \in DOMAIN shape.members : shape.members[m].eventstream /\ m = e[1]}
      known == CHOOSE n \in 0 .. Len(events) :
                 /\ \A i \in 1 .. n : EventOf(events[i]) # {}
                 /\ n < Len(events) => EventOf(events[n + 1]) = {}
      frames == <<EncodeEventPayload(EventHeaders("initial-response", "", ""), 0)>>
                  \o [i \in 1 .. known |->
                        EncodeEventPayload(EventHeaders(events[i][1], "", ""), events[i][2])]
  IN  [bytes |-> FlattenSeq(frames), raised |-> known < Len(events)]
=============================================================================
