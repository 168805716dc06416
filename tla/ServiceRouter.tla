---------------------------- MODULE ServiceRouter ----------------------------
(***************************************************************************)
(* Which service a request is for: the service catalogue (aws/spec.py) and *)
(* the heuristics over the indicators of a request                         *)
(* (aws/protocol/service_router.py).  A path is its segments after the     *)
(* leading slash, so "/" is <<"">>, and a host is its labels.              *)
(***************************************************************************)
EXTENDS Naturals, FiniteSets, Sequences, SequencesExt

CONSTANT Catalogue
(* A service model: file (name of the spec), name, protocol, protocols, signing, *)
(* target (Unset when it has no target prefix), endpoint, version, operations.  *)

(* What a request does not have, and a service without a name. *)
Unset == ""

NoModel == [name |-> Unset]
UnknownService == [name |-> Unset, raised |-> "UnknownServiceError"]
UnknownProtocol == [name |-> Unset, raised |-> "UnknownServiceProtocolError"]
AttributeFailure == [name |-> Unset, raised |-> "AttributeError"]
Unrouted == {UnknownService, UnknownProtocol, AttributeFailure}

Identifier(m) == [name |-> m.name, protocol |-> m.protocol, protocols |-> Range(m.protocols)]
Custom(name) == [name |-> name, protocol |-> Unset, protocols |-> {}]

(* Loading: the spec of that name, or its internalised <name>-<protocol>. *)
Speaks(m, protocol) == protocol \in {m.protocol} \cup Range(m.protocols)
Variant(name, protocol) == name \o "-" \o protocol

Load(name, protocol) ==
  LET At(file) == {m \in Catalogue : m.file = file}
      Fits(m) == protocol = Unset \/ Speaks(m, protocol)
      own == At(name)
      variant == At(Variant(name, protocol))
  IN  CASE own = {} -> UnknownService
        [] \E m \in own : Fits(m) -> CHOOSE m \in own : TRUE
        [] own # {} /\ (\A m \in own : ~Fits(m)) /\ (\E m \in variant : Fits(m)) ->
             CHOOSE m \in variant : TRUE
        [] OTHER -> UnknownProtocol

Get(i) == Load(i.name, i.protocol)

(* The indexes of the catalogue. *)
ByTargetPrefix(t) == {Identifier(m) : m \in {m \in Catalogue : t # Unset /\ m.target = t}}
BySigningName(s) == {Identifier(m) : m \in {m \in Catalogue : m.signing = s}}
ByOperation(o) == {Identifier(m) : m \in {m \in Catalogue : o \in m.operations}}
ByEndpoint(e) == {Identifier(m) : m \in {m \in Catalogue : m.endpoint = e}}
Endpoints == {m.endpoint : m \in Catalogue}
HasProtocol(protocol, i) == protocol \in i.protocols \/ protocol = i.protocol

-----------------------------------------------------------------------------
(* The indicators of a request. *)
SigningName(r) == IF r.auth.scheme = "sigv4" THEN r.auth.service ELSE Unset

TargetOf(r) ==
  CASE r.smithy = "rpc-v2-cbor" ->
         IF Len(r.path) >= 4 THEN <<r.path[Len(r.path) - 2], Last(r.path)>> ELSE <<Unset, Unset>>
    [] OTHER -> r.target

Under(path, prefix) ==
  /\ Len(prefix) <= Len(path)
  /\ \A i \in 1..(Len(prefix) - 1) : path[i] = prefix[i]
  /\ IsPrefix(Last(prefix), path[Len(prefix)])

MatchesProtocol(r, protocol) ==
  CASE protocol = "smithy-rpc-v2-cbor" -> r.smithy = "rpc-v2-cbor"
    [] protocol = "json" -> r.mimetype = "amz-json"
    [] protocol \in {"query", "ec2"} -> r.mimetype = "form" \/ "Action" \in DOMAIN r.args
    [] OTHER -> TRUE

DetectionPriority == <<"smithy-rpc-v2-cbor", "json", "query", "ec2", "rest-json", "rest-xml">>

MatchAvailable(r, available) ==
  LET fits == {i \in DOMAIN DetectionPriority : /\ DetectionPriority[i] \in available
                                                /\ MatchesProtocol(r, DetectionPriority[i])}
  IN  IF fits = {} THEN Unset ELSE DetectionPriority[CHOOSE i \in fits : \A j \in fits : i <= j]

(* Unset stands for the ProtocolError of a service none of whose protocols fits. *)
DetermineProtocol(r, m) ==
  CASE m.protocols = <<>> -> m.protocol
    [] Len(m.protocols) = 1 -> m.protocols[1]
    [] OTHER -> MatchAvailable(r, Range(m.protocols))

-----------------------------------------------------------------------------
(* The rules written by hand. *)
PathRules ==
  LET R(signing, prefix, service) == [signing |-> signing, prefix |-> prefix, service |-> service]
  IN  {R("apigateway", <<"v2">>, "apigatewayv2"), R("appconfig", <<"configuration">>, "appconfigdata"),
       R("bedrock", <<"guardrail", "">>, "bedrock-runtime"), R("bedrock", <<"model", "">>, "bedrock-runtime"),
       R("bedrock", <<"async-invoke">>, "bedrock-runtime"),
       R("execute-api", <<"@connections">>, "apigatewaymanagementapi"),
       R("execute-api", <<"participant">>, "connectparticipant"),
       R("ses", <<"v2">>, "sesv2"), R("ses", <<"v1">>, "pinpoint-email"),
       R("greengrass", <<"greengrass", "v2", "">>, "greengrassv2"),
       R("cloudsearch", <<"2013-01-01">>, "cloudsearchdomain"), R("s3", <<"v20180820">>, "s3control"),
       R("iot1click", <<"projects">>, "iot1click-projects"), R("iot1click", <<"devices">>, "iot1click-devices"),
       R("es", <<"2015-01-01">>, "es"), R("es", <<"2021-01-01">>, "opensearch"),
       R("sagemaker", <<"endpoints">>, "sagemaker-runtime"),
       R("sagemaker", <<"human-loops">>, "sagemaker-a2i-runtime")}

SigningRules(signing, path) ==
  LET rules == {rule \in PathRules : rule.signing = signing}
      hits == {rule \in rules : Under(path, rule.prefix)}
  IN  CASE signing = "servicecatalog" ->
             {Custom(IF path = <<"">> THEN "servicecatalog" ELSE "servicecatalog-appregistry")}
        [] signing # "servicecatalog" /\ rules = {} -> {}
        [] hits # {} -> {Custom(rule.service) : rule \in hits}
        [] OTHER -> {Custom(IF signing = "execute-api" THEN "iot" ELSE signing)}

InnerLabel(host, label) == \E i \in 2..(Len(host) - 1) : host[i] = label

HostRules(host) ==
  IF InnerLabel(host, "lambda-url") THEN {Custom("lambda")}
  ELSE IF InnerLabel(host, "s3-website") THEN {Custom("s3")}
  ELSE {}

PathAddressing(path) ==
  IF Under(path, <<"2015-03-31", "functions">>) THEN {Custom("lambda")} ELSE {}

Sqs(protocol) == [Custom("sqs") EXCEPT !.protocol = protocol]

ResolveConflicts(r, candidates) ==
  LET names == {i.name : i \in candidates}
  IN  CASE names = {"timestream-query", "timestream-write"} -> {Custom("timestream-query")}
        [] names = {"docdb", "neptune", "rds"} -> {Custom("rds")}
        [] names = {"sqs"} ->
             {Sqs(IF MatchAvailable(r, {"json", "query"}) = "json" THEN Unset ELSE "query")}
        [] OTHER -> {}

-----------------------------------------------------------------------------
(* The stages: each narrows the candidates, or decides; the first with a   *)
(* candidate ends the search.  A set of more than one service is the       *)
(* element a set.pop() may return.                                         *)
Unique(candidates) == IF Cardinality(candidates) = 1 THEN candidates ELSE {}

Decides(stages, i) == stages[i] # {} /\ \A j \in 1..(i - 1) : stages[j] = {}
Decided(stages) == stages[CHOOSE i \in DOMAIN stages : Decides(stages, i)]

Narrowed(r) ==
  LET signed == BySigningName(SigningName(r))
      target == TargetOf(r)
  IN  IF target[1] # Unset /\ target[2] # Unset
      THEN {i \in signed \cup ByTargetPrefix(target[1]) : target[2] \in Get(i).operations}
      ELSE {i \in signed : Get(i).target = Unset}

StartsHost(host, endpoint) == IsStrictPrefix(endpoint, host) /\ ~InnerLabel(host, "s3")

Hosted(r) == {e \in Endpoints : StartsHost(r.host, e)}

QueryCandidates(r) ==
  LET named == {i \in ByOperation(r.values["Action"]) : HasProtocol("ec2", i) \/ HasProtocol("query", i)}
  IN  IF "Action" \notin DOMAIN r.values \/ r.tooLarge THEN {}
      ELSE IF Cardinality(named) # 1 /\ "Version" \in DOMAIN r.values
      THEN {i \in named : Get(i).version = r.values["Version"]}
      ELSE named

NamedByTarget(r) ==
  LET target == TargetOf(r)
  IN  IF target[1] # Unset /\ target[2] # Unset THEN ByTargetPrefix(target[1]) ELSE {}

Left(r) == Narrowed(r) \cup QueryCandidates(r) \cup UNION {ByEndpoint(e) : e \in Hosted(r)}

(* Those before the body is read, and those after. *)
EarlyStages(r) ==
  <<Unique(BySigningName(SigningName(r))), SigningRules(SigningName(r), r.path), Unique(NamedByTarget(r)),
    Unique(Narrowed(r)), PathAddressing(r.path), UNION {Unique(ByEndpoint(e)) : e \in Hosted(r)}>>

LateStages(r) ==
  IF r.shallow THEN <<>>
  ELSE <<Unique(QueryCandidates(r)), ResolveConflicts(r, Left(r)),
         IF SigningName(r) = Unset THEN {} ELSE {Custom(SigningName(r))}, Left(r)>>

Determine(r) ==
  LET Some(stages) == \E i \in DOMAIN stages : stages[i] # {}
      Chosen(stages) == {Get(i) : i \in Decided(stages)}
  IN  IF Some(EarlyStages(r)) THEN Chosen(EarlyStages(r))
      ELSE IF HostRules(r.host) # {} THEN {AttributeFailure}
      ELSE IF Some(LateStages(r)) THEN Chosen(LateStages(r))
      ELSE {NoModel}

DataPlane(r) ==
  IF HostRules(r.host) = {} THEN NoModel ELSE Get(CHOOSE i \in HostRules(r.host) : TRUE)
=============================================================================
