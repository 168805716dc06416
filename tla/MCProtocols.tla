------------------------------ MODULE MCProtocols ------------------------------
(* The protocols over a handful of shapes and values that use every trait. *)
EXTENDS ProtocolExchange

Plain(v) == Text("plain", v)

Scalars ==
  Structure([Name |-> Scalar("string"), Count |-> Named(Scalar("integer"), "count"),
             When |-> Scalar("timestamp"), Flag |-> Scalar("boolean"), Data |-> Scalar("blob")],
            {"Name"})
Item == Structure([Id |-> Named(Scalar("string"), "id"), Amount |-> Scalar("integer")], {})
Nested ==
  Structure([Items |-> List(Item), Names |-> Flat(List(Named(Scalar("string"), "Name"))),
             Numbers |-> Named(List(Named(Scalar("integer"), "item")), "numbers"),
             Tags |-> Named(Map(Scalar("string"), Scalar("string")), "tags"),
             Attrs |-> Flat(Map(Named(Scalar("string"), "Name"), Named(Scalar("integer"), "Value"))),
             Inner |-> Item], {})
Dates ==
  Structure([Iso |-> [Scalar("timestamp") EXCEPT !.timestampFormat = "iso8601"],
             Mail |-> [Scalar("timestamp") EXCEPT !.timestampFormat = "rfc822"]], {})
Attributes == Structure([Kind |-> [Named(Scalar("string"), "kind") EXCEPT !.xmlAttribute = TRUE],
                         Id |-> Scalar("string")], {})
Integers_ == Structure([N |-> Scalar("integer")], {})
Special == Structure([F |-> Scalar("double"), G |-> Scalar("float")], {})

ScalarValues ==
  {Obj([Name |-> Plain("a"), Count |-> Num(7), When |-> Time(5000), Flag |-> Bool(TRUE),
        Data |-> Bytes("xy")]),
   Obj([Name |-> Plain(""), Count |-> Num(0), When |-> Time(0), Flag |-> Bool(FALSE)]),
   Obj([Name |-> Plain("a"), Count |-> Num(-7)])}
ItemValues == {Obj([Id |-> Plain("i")]), Obj([Id |-> Plain("j"), Amount |-> Num(0)])}
NestedValues ==
  {Obj(("Items" :> Arr(a)) @@ ("Names" :> Arr([i \in 1 .. n |-> Plain("n")])) @@
       ("Numbers" :> Arr([i \in 1 .. n |-> Num(i - 1)]))) :
     a \in UNION {[1 .. k -> ItemValues] : k \in 0 .. 2}, n \in {0, 1, 2}}
  \cup
  {Obj(("Tags" :> Obj([k \in ks |-> Plain(k)])) @@ ("Attrs" :> Obj([k \in ls |-> Num(1)])) @@
       ("Inner" :> v)) :
     ks \in SUBSET {"k", "l"}, ls \in SUBSET {"k", "l"}, v \in ItemValues \cup {None}}

(* The members of a REST operation that are not in the body. *)
Located_ ==
  Structure([Id |-> At(Scalar("string"), "uri", "Id"),
             Max |-> At(Scalar("integer"), "querystring", "max"),
             Since |-> At(Scalar("timestamp"), "querystring", "since"),
             Sort |-> At(List(Scalar("string")), "querystring", "sort"),
             Body |-> Scalar("string")], {"Id"})
LocatedValues ==
  {Obj(("Id" :> Plain("i")) @@ f @@ g) :
     f \in {<<>>, "Max" :> Num(0), ("Max" :> Num(9)) @@ ("Since" :> Time(5000))},
     g \in {<<>>, "Sort" :> Arr(<<Plain("x")>>), ("Sort" :> Arr(<<Plain("x"), Plain("y")>>)) @@
                    ("Body" :> Plain("b"))}}
Headed ==
  Structure([Etag |-> At(Scalar("string"), "header", "ETag"),
             Length |-> At(Scalar("integer"), "header", "Length"),
             Modified |-> At(Scalar("timestamp"), "header", "Modified"),
             Parts |-> At(List(Scalar("string")), "header", "Parts"),
             Meta |-> At(Map(Scalar("string"), Scalar("string")), "headers", "x-meta-"),
             Body |-> Item], {})
HeadedValues ==
  {Obj(("Etag" :> Plain("e")) @@ f @@ g) :
     f \in {"Length" :> Num(0), ("Modified" :> Time(5000)) @@ ("Body" :> Obj("Id" :> Plain("i")))},
     g \in {"Parts" :> Arr(<<Plain("x")>>), ("Parts" :> Arr(<<Plain("x"), Plain("y")>>)) @@
              ("Meta" :> Obj([k \in {"a", "b"} |-> Plain(k)]))}}
WithPayload(member) ==
  [Structure([Etag |-> At(Scalar("string"), "header", "ETag"), Content |-> member], {})
     EXCEPT !.payload = "Content"]
PayloadValues == {Obj(("Etag" :> Plain("e")) @@ f) : f \in {"Content" :> Bytes("xy")}}
InPayload == {Obj(("Etag" :> Plain("e")) @@ f) : f \in {<<>>, "Content" :> Obj("Id" :> Plain("i"))}}

(* Required members of a structure, of one inside it and of those in a list. *)
Part_ == Structure([A |-> Scalar("string"), B |-> Scalar("string")], {"A"})
Strict == Structure([Id |-> Scalar("string"), Inner |-> Part_, Parts |-> List(Part_)], {"Id", "Inner"})
PartValues == {Obj("A" :> Plain("a")), Obj("B" :> Plain("b"))}
StrictValues ==
  {Obj(("Parts" :> Arr(<<x>>)) @@ f @@ g) :
     x \in PartValues, f \in {<<>>, "Id" :> Plain("i")}, g \in {<<>>} \cup {"Inner" :> y : y \in PartValues}}

-----------------------------------------------------------------------------
Case(p, s, shape, value) ==
  [p |-> p, s |-> s, shape |-> shape, written |-> shape, value |-> value,
   method |-> IF p = "rest-xml" THEN "PUT" ELSE "POST", cbor |-> FALSE, cut |-> "0", accept |-> "",
   error |-> NoError, errorShape |-> NoShape, compatible |-> FALSE, queryMode |-> FALSE, events |-> <<>>]

(* The services whose classes are their own, and one for every protocol; no *)
(* service has the CBOR protocol of Kinesis in its specification.          *)
Protocols == {"query", "ec2", "rest-xml", "json", "rest-json", "smithy-rpc-v2-cbor"}
Pairs ==
  {<<CreateParser(x[1], x[2]), CreateSerializer(x[1], x[2])>> :
     x \in ({"other"} \X Protocols) \cup {<<"sqs", "query">>, <<"sqs", "json">>, <<"s3", "rest-xml">>}}
  \cup {<<"cbor", "cbor">>}
RestPairs == {x \in Pairs : x[1] \in RestParsers}
OfCbor == {x \in Pairs : x[1] \in CborParsers}

(* RPC v2 knows no names but those of the members. *)
RECURSIVE Unnamed(_)
Unnamed(shape) ==
  LET plain == Named(shape, "")
  IN  CASE shape.type = "structure" ->
             [plain EXCEPT !.members = [m \in DOMAIN @ |-> Unnamed(@[m])]]
        [] shape.type = "list" -> [plain EXCEPT !.member = Unnamed(@)]
        [] shape.type = "map" -> [plain EXCEPT !.key = Unnamed(@), !.value = Unnamed(@)]
        [] OTHER -> plain

Over(pairs, shape, values) ==
  {Case(x[1], x[2], IF x[1] = "rpc-v2-cbor" THEN Unnamed(shape) ELSE shape, v) :
     x \in pairs, v \in values}

RoundTrips ==
  Over(Pairs, Scalars, ScalarValues)
  \cup Over(Pairs, Nested, NestedValues)
  \cup Over(Pairs, Strict, StrictValues)
  \cup Over(Pairs \ OfCbor, Dates, {Obj([Iso |-> Time(5000), Mail |-> Time(7000)])})
  \cup Over(Pairs \ (OfCbor \cup {<<"s3", "s3">>}), Dates, {Obj("Iso" :> Time(5001))})
  \cup Over(RestPairs \ {<<"rest-json", "rest-json">>}, Attributes,
            {Obj([Kind |-> Plain("k"), Id |-> Plain("i")])})
  \cup Over(OfCbor, Integers_,
            {Obj("N" :> Num(n)) : n \in {-677, -676, -27, -26, -25, -24, -1, 0, 23, 24, 25, 26, 675, 676, 456975, 456976}})
  \cup Over(OfCbor, Special, {Obj([F |-> <<"special", x>>, G |-> Secs(1)]) : x \in {"nan", "inf", "-inf"}})
  \cup Over(RestPairs, Located_, LocatedValues)
  \cup Over(RestPairs, Headed, HeadedValues)
  \cup Over(RestPairs, WithPayload(Scalar("blob")), PayloadValues)
  \cup Over(RestPairs, WithPayload(Item), InPayload)
  \cup {[c EXCEPT !.cbor = TRUE] :
          c \in Over({<<"json", "json">>}, Scalars, ScalarValues) \cup Over({<<"json", "json">>}, Nested, NestedValues)}

Cuts ==
  {[c EXCEPT !.cut = x] : c \in Over(OfCbor, Scalars, ScalarValues) \cup Over(OfCbor, Nested, NestedValues),
                          x \in {"1", "3"}}
  \cup {[c EXCEPT !.cut = "malformed"] :
          c \in Over(Pairs \ {x \in Pairs : x[1] \in FormParsers}, Scalars, ScalarValues)}

(* A text where the operation wants a number or a date. *)
Believed(shape, m) ==
  [shape EXCEPT !.members[m].type = "string"]
IllTyped ==
  {[c EXCEPT !.written = Believed(@, m)] :
     c \in Over(Pairs, Scalars, {Obj([Name |-> Plain("a"), Count |-> Plain("b")])}), m \in {"Count"}}
  \cup {[c EXCEPT !.written = Believed(@, "When")] :
     c \in Over(Pairs, Scalars, {Obj([Name |-> Plain("a"), When |-> Plain("b")])})}
  \cup {[c EXCEPT !.written = Believed(Located_, "Max")] :
     c \in Over(RestPairs, Located_, {Obj([Id |-> Plain("a"), Max |-> Plain("b")])})}

Error(code, class, fault, status, attributes) ==
  [code |-> code, class |-> class, message |-> "m", sender_fault |-> fault, status_code |-> status,
   attributes |-> attributes]
ErrorShape ==
  Named(Structure([message |-> Scalar("string"), Id |-> Scalar("string"), N |-> Scalar("integer")], {"N"}),
        "QueueGone")
Errors ==
  {[Case(x[1], x[2], Integers_, Empty) EXCEPT !.error = e, !.errorShape = sh, !.compatible = k, !.queryMode = q] :
     x \in Pairs, sh \in {NoShape, ErrorShape}, k \in BOOLEAN, q \in BOOLEAN,
     e \in {Error("QueueDoesNotExist", "QueueDoesNotExist", TRUE, 404, <<>>),
            Error("Gone", "QueueGone", FALSE, 410, [Id |-> Plain("i"), N |-> Num(0)]),
            Error("OverLimit", "OverLimit", FALSE, 500, [Id |-> Plain("")])}}
(* SQS is query compatible in JSON; the CBOR protocol without one is not. *)
RealErrors ==
  {c \in Errors : /\ c.s = "sqs-json" => c.compatible
                  /\ c.s \notin QueryCompatible => ~c.compatible
                  /\ c.queryMode => c.compatible}

Streaming == Structure([Records |-> [Item EXCEPT !.eventstream = TRUE],
                        Stats |-> [Item EXCEPT !.eventstream = TRUE]], {})
Streams ==
  {[Case("s3", "s3", Streaming, Empty) EXCEPT !.events = e] :
     e \in UNION {[1 .. n -> {"Records", "Stats", "Nope"} \X {0, 5}] : n \in 1 .. 3}}

(* A query service asked for JSON: what it has are texts. *)
Texts == Structure([Name |-> Scalar("string"), Count |-> Scalar("integer"),
                    When |-> Scalar("timestamp")], {})
Negotiated ==
  {[c EXCEPT !.accept = "json"] :
     c \in Over({<<"query", "query">>}, Texts,
                {Obj([Name |-> Plain("a"), Count |-> Num(n), When |-> Time(1000 * n)]) : n \in {0, 7}})}

MCCases == Negotiated \cup RoundTrips \cup Cuts \cup IllTyped \cup RealErrors \cup Streams
=============================================================================
