--------------------------- MODULE ProtocolExchange ---------------------------
(***************************************************************************)
(* One exchange of a client with a service: the client writes a request,   *)
(* RequestParser reads it, the operation returns its own parameters (or    *)
(* raises, or streams events), ResponseSerializer writes the response and  *)
(* the client reads it.  The client is botocore.  It writes with the       *)
(* conventions of the protocol; what is left to the tests of the code is   *)
(* that they are the conventions of AWS.                                   *)
(***************************************************************************)
EXTENDS RequestParser, ResponseSerializer, RequestValidation

CONSTANT Cases
(* A case has p and s (parser and serializer), shape and value, written (the *)
(* shape the client believes in), method, cbor (JSON sent as CBOR), cut (how *)
(* many bytes of the body are lost, or "malformed"), accept, error and      *)
(* errorShape (NoError, NoShape), compatible (with query), queryMode, events. *)

VARIABLES case, phase, request, parsed, response, received
vars == <<case, phase, request, parsed, response, received>>

Nothing == <<"nothing">>
NoError == [code |-> ""]
operation == [name |-> "Op", method |-> case.method, responseCode |-> 200]

-----------------------------------------------------------------------------
(* The client: writing *)
RECURSIVE FormArgs(_, _, _, _)

Joined(prefix, name) == IF prefix = "" THEN name ELSE prefix \o "." \o name

FormText(shape, v) == XmlText("query", shape, v, "xml")

FormItems(p, shape, v, prefix, name) ==
  LET base == CASE p = "ec2" -> prefix
                [] shape.flattened -> prefix
                [] OTHER -> Joined(prefix, WireName(shape.member, "member"))
      args == [i \in DOMAIN v[2] |->
                 FormArgs(p, shape.member, v[2][i], Joined(base, ToString(i)))]
  IN  FoldSeq(LAMBDA f, g : f @@ g, <<>>, args)

FormEntries(p, shape, v, prefix) ==
  LET base == IF shape.flattened THEN prefix ELSE Joined(prefix, "entry")
      keys == SetToSeq(DOMAIN v[2])
      Part(i, part, default) == Joined(base, ToString(i) \o "." \o WireName(part, default))
      args == [i \in DOMAIN keys |->
                 FormArgs(p, shape.key, Text("plain", keys[i]), Part(i, shape.key, "key"))
                   @@ FormArgs(p, shape.value, v[2][keys[i]], Part(i, shape.value, "value"))]
  IN  FoldSeq(LAMBDA f, g : f @@ g, <<>>, args)

FormArgs(p, shape, v, prefix) ==
  LET keys == SetToSeq({k \in DOMAIN v[2] : v[2][k] # None})
      Name(k) ==
        LET member == shape.members[k]
            named == IF member.type = "list" /\ member.flattened THEN member.member ELSE member
        IN  IF p = "ec2" /\ named.name # "" THEN Capitalised(named.name) ELSE WireName(named, k)
      args == [i \in DOMAIN keys |->
                 FormArgs(p, shape.members[keys[i]], v[2][keys[i]], Joined(prefix, Name(keys[i])))]
  IN  CASE shape.type = "structure" -> FoldSeq(LAMBDA f, g : f @@ g, <<>>, args)
        [] shape.type = "list" -> FormItems(p, shape, v, prefix, "")
        [] shape.type = "map" -> FormEntries(p, shape, v, prefix)
        [] OTHER -> Header(prefix, FormText(shape, v))

SetAt(shape, value, location) ==
  {m \in DOMAIN value[2] : shape.members[m].location = location}

Writer(p) == CASE p \in FormParsers -> "query" [] OTHER -> p

QueryTexts(shape, v) ==
  CASE shape.type = "list" -> [i \in DOMAIN v[2] |-> Str(v[2][i])]
    [] shape.type = "timestamp" -> <<Text("iso8601", v[2])>>
    [] OTHER -> <<HeaderValue("rest-xml", shape, v)>>

ByName(shape, members, Make(_)) ==
  [n \in {shape.members[m].name : m \in members} |->
     Make(CHOOSE m \in members : shape.members[m].name = n)]

Cut(cut, body) ==
  CASE cut = "malformed" -> Malformed
    [] cut = "0" -> body
    [] cut = "1" -> Octets(SubSeq(body[2], 1, Len(body[2]) - 1))
    [] cut = "3" -> Octets(SubSeq(body[2], 1, Len(body[2]) - 3))

EncodeRequest(c) ==
  LET shape == c.written
      parts == PartitionMembers(shape, c.value[2])
      none == shape.payload = "" /\ parts.payload = <<>> /\ c.p \in RestParsers
      headers == HeaderMembers(Writer(c.p), shape, parts.header)
      body == IF none THEN None
              ELSE SerializePayload(Writer(c.p), shape, parts.payload,
                                    [name |-> "Op"], IF c.cbor THEN "cbor" ELSE
                                      IF c.p \in XmlParsers THEN "xml" ELSE "json")
  IN  [method |-> c.method, operation |-> "Op", slash |-> FALSE, target |-> c.p \in {"json", "cbor"},
       segments |-> 4, cbor |-> c.cbor,
       headers |-> [n \in DOMAIN headers |-> <<headers[n]>>],
       query |-> ByName(shape, SetAt(shape, c.value, "querystring"),
                        LAMBDA m : QueryTexts(shape.members[m], c.value[2][m])),
       uri |-> ByName(shape, SetAt(shape, c.value, "uri"),
                      LAMBDA m : Str(c.value[2][m])),
       args |-> IF c.p \in FormParsers THEN FormArgs(c.p, shape, c.value, "") ELSE <<>>,
       body |-> IF c.p \in FormParsers THEN None ELSE Cut(c.cut, body)]

(* The client: reading *)
Reader(c) ==
  LET s == c.s IN
  CASE c.accept = "json" -> "json"
    [] s \in XmlSerializers -> "rest-xml"
    [] s \in {"json", "sqs-json"} -> "json"
    [] OTHER -> s

Unwrap(c, body) ==
  LET s == c.s IN
  CASE c.accept = "json" -> body[2]["OpResponse"][2]["Output"]
    [] s \in {"query", "sqs-query"} -> body[5][1]
    [] s \in CborSerializers -> ParseDataItem(body[2])
    [] OTHER -> body

Answered(c, r) ==
  LET shape == c.shape
      wrapper == [headers |-> [n \in DOMAIN r.headers |-> <<r.headers[n]>>], cbor |-> c.cbor]
      InBody(m) == shape.members[m].location = "" /\ m # shape.payload
      whole == [shape EXCEPT !.members = Only(@, {m \in DOMAIN @ : InBody(m)})]
      Member(m) ==
        CASE shape.members[m].location = "statusCode" -> Num(r.status)
          [] m = shape.payload /\ shape.members[m].type \in {"blob", "string"} -> r.body
          [] m = shape.payload /\ r.body = None -> None
          [] m = shape.payload -> ParseShape(Reader(c), wrapper, shape.members[m], r.body)
          [] shape.members[m].location \in {"header", "headers"} ->
               ParseShape(Reader(c), wrapper, shape.members[m], None)
          [] OTHER -> None
      others == [m \in {m \in DOMAIN shape.members : ~InBody(m)} |-> Member(m)]
      body == IF shape.payload # "" \/ r.body = None THEN Empty
              ELSE ParseShape(Reader(c), wrapper, whole, Unwrap(c, r.body))
  IN  IF IsError(body) THEN body ELSE ObjOf(body[2] @@ others)

RECURSIVE Descendant(_, _)
Descendant(e, tags) ==
  IF tags = <<>> THEN e
  ELSE Descendant(SelectSeq(e[5], LAMBDA c : c[2] = Head(tags))[1], Tail(tags))

ErrorCodeIn(s, r) ==
  CASE "x-amzn-query-error" \in DOMAIN r.headers -> r.headers["x-amzn-query-error"][2]
    [] s = "s3" -> Descendant(r.body, <<"Code">>)[4][3]
    [] s = "ec2" -> Descendant(r.body, <<"Errors", "Error", "Code">>)[4][3]
    [] s \in XmlSerializers -> Descendant(r.body, <<"Error", "Code">>)[4][3]
    [] s \in JsonSerializers -> r.body[2]["__type"][3]
    [] OTHER -> ParseDataItem(r.body[2])[2]["__type"][3]

RECURSIVE Frames(_)
Frames(bytes) ==
  IF bytes = <<>> THEN <<>>
  ELSE IF bytes[1][1] # "length" \/ bytes[1][2] > Len(bytes) THEN <<"out of step">>
  ELSE LET total == bytes[1][2]
           payload == total - bytes[5][2] - 16
       IN  <<<<bytes[13][2][2], payload>>>> \o Frames(SubSeq(bytes, total + 1, Len(bytes)))

-----------------------------------------------------------------------------
Init ==
  /\ case \in Cases
  /\ phase = "sent"
  /\ request = EncodeRequest(case)
  /\ parsed = Nothing
  /\ response = Nothing
  /\ received = Nothing

(* ServiceRequestParser *)
ParseRequest ==
  /\ phase = "sent"
  /\ phase' = "parsed"
  /\ parsed' = Parse(case.p, request, {"Op"}, case.shape)
  /\ UNCHANGED <<case, request, response, received>>

(* ServiceExceptionSerializer wraps what is no service exception. *)
InternalError(exception) ==
  [code |-> "InternalError", class |-> "CommonServiceException", message |-> exception,
   sender_fault |-> FALSE, status_code |-> 500, attributes |-> <<>>]

Serializing(c) == MimeType(c.s, c.accept, IF c.cbor THEN "cbor" ELSE "")

SerializeError(error, shape) ==
  SerializeErrorToResponse(case.s, case.compatible, case.queryMode, shape, error, Serializing(case))

Fail ==
  /\ phase = "parsed"
  /\ IsError(parsed) \/ case.error # NoError
  /\ response' = IF IsError(parsed) THEN SerializeError(InternalError(parsed[2]), NoShape)
                 ELSE SerializeError(case.error, case.errorShape)
  /\ phase' = "failed"
  /\ UNCHANGED <<case, request, parsed, received>>

Return ==
  /\ phase = "parsed"
  /\ ~IsError(parsed) /\ case.error = NoError /\ case.events = <<>>
  /\ response' = SerializeToResponse(case.s, parsed[2], case.shape, operation, Serializing(case))
  /\ phase' = "returned"
  /\ UNCHANGED <<case, request, parsed, received>>

Stream ==
  /\ phase = "parsed"
  /\ ~IsError(parsed) /\ case.error = NoError /\ case.events # <<>>
  /\ response' = EventStream(case.shape, case.events)
  /\ phase' = "streamed"
  /\ UNCHANGED <<case, request, parsed, received>>

Receive ==
  /\ phase \in {"failed", "returned", "streamed"}
  /\ received' = CASE phase = "failed" -> Text("code", ErrorCodeIn(case.s, response))
                   [] phase = "returned" -> Answered(case, response)
                   [] phase = "streamed" -> Frames(response.bytes)
  /\ phase' = phase \o ", received"
  /\ UNCHANGED <<case, request, parsed, response>>

Next == ParseRequest \/ Fail \/ Return \/ Stream \/ Receive

Spec == Init /\ [][Next]_vars

-----------------------------------------------------------------------------
Intact == case.cut = "0" /\ case.written = case.shape

(* None is the same as not given. *)
Given(v) == Only(v[2], {m \in DOMAIN v[2] : v[2][m] # None})

(* The parser gives the operation what the client called it with, in every  *)
(* protocol and from every place of a request: no list, map, structure or   *)
(* falsy scalar is lost, doubled or moved (parser.py, all parsers).         *)
RequestRoundTrip ==
  parsed # Nothing /\ Intact => Strip(parsed) = Strip(case.value)

(* The required members a value lacks, at every depth. *)
RECURSIVE Lacking(_, _, _)
Lacking(shape, v, path) ==
  CASE shape.type = "structure" ->
         {Append(path, m) : m \in shape.required_members \ DOMAIN v[2]}
           \cup UNION {Lacking(shape.members[m], v[2][m], Append(path, m)) : m \in DOMAIN v[2]}
    [] shape.type = "list" ->
         UNION {Lacking(shape.member, v[2][i], Append(path, ToString(i))) : i \in DOMAIN v[2]}
    [] OTHER -> {}

(* Validating what was parsed finds every required member the client left   *)
(* out, where it is, and none it did not: whether the parser of the         *)
(* protocol sets such a member to None or not at all (validate.py:148).     *)
ValidationAgrees ==
  parsed # Nothing /\ Intact /\ ~IsError(parsed) =>
    LET errors == ValidateRequest(case.shape, parsed)
        missing == SelectSeq(errors, LAMBDA e : e.exception = "MissingRequiredField")
    IN  {missing[i].path : i \in DOMAIN missing} = Lacking(case.shape, Obj(Given(case.value)), <<>>)

(* A response has no URI. *)
Returnable == {m \in DOMAIN parsed[2] :
                 case.shape.members[m].location \notin {"uri", "querystring"}}

(* The client gets what the operation returned, from the body, the headers  *)
(* and the status of the response, and every event of a stream in its frame *)
(* up to the first that cannot be written (serializer.py).                  *)
ResponseRoundTrip ==
  /\ phase = "returned, received" => Strip(received) = Strip(Obj(Only(parsed[2], Returnable)))
  /\ phase = "streamed, received" =>
       LET known == SelectSeq(case.events, LAMBDA e : e[1] \in DOMAIN case.shape.members)
       IN  received = <<<<"initial-response", 0>>>>
                        \o (IF response.raised THEN SubSeq(case.events, 1, Len(received) - 1) ELSE known)

(* A body that is cut or malformed, and a scalar written in another format  *)
(* than the shape has, end in a ProtocolParserError: never in another       *)
(* exception, never in parameters (parser.py:232, parser.py:1208).          *)
MalformedRejected == parsed # Nothing /\ ~Intact => parsed = ProtocolError

(* The client reads the same error code whatever the protocol, the one the  *)
(* service had in the query protocol if it is compatible with it            *)
(* (serializer.py:651, 2264, 2346).                                         *)
ErrorAgrees ==
  phase = "failed, received" /\ case.error # NoError /\ ~IsError(parsed) =>
    received = Text("code", IF case.s \in {"sqs-query", "sqs-json"}
                            THEN SqsErrorCode(case.error.code) ELSE case.error.code)
=============================================================================
