--------------------------- MODULE ClientRequests ---------------------------
(***************************************************************************)
(* What the gateway has to go by when it looks for the service and the     *)
(* operation of a request: a catalogue of specs, the ways in which the     *)
(* protocols write a request, and the indicators by which each service can *)
(* be told from the others.                                                *)
(***************************************************************************)
EXTENDS Gateway

(* Every spec has a file of its own, named like the service, or like the   *)
(* service and its protocol where another spec has the name (sqs-query).   *)
ASSUME CatalogueAssumption ==
  /\ IsFiniteSet(Catalogue)
  /\ \A m \in Catalogue :
       /\ Unset \notin {m.name, m.protocol, m.signing}
       /\ m.protocols \in Seq(Range(m.protocols))
       /\ \A n \in Catalogue : m.file = n.file => m = n
       /\ \/ m.file = m.name
          \/ /\ m.file = Variant(m.name, m.protocol)
             /\ \E n \in Catalogue : n.file = m.name /\ ~Speaks(n, m.protocol)
  /\ \A service \in DOMAIN HttpOperations :
       /\ IsFiniteSet(HttpOperations[service])
       /\ \A op \in HttpOperations[service] :
            LET h == HttpOperation(op)
            IN  /\ h.path \in Seq(Range(h.path))
                /\ IsFiniteSet(DOMAIN h.query) /\ IsFiniteSet(h.headers)

-----------------------------------------------------------------------------
(* A request for operation r.written.operation of m, in protocol p. *)
Cbor == "smithy-rpc-v2-cbor"
QueryProtocols == {"query", "ec2"}
Targeted(p) == p \in {Cbor, "json"}
Spoken(m) == IF m.protocols = <<>> THEN {m.protocol} ELSE Range(m.protocols)
IsSigned(r) == r.auth.scheme = "sigv4"

InCbor(r, m) ==
  /\ Len(r.path) >= 4 /\ r.path[Len(r.path) - 2] = m.target
  /\ Last(r.path) = r.written.operation

InJson(r, m) == r.mimetype = "amz-json" /\ r.target = <<m.target, r.written.operation>>

InQuery(r, m) ==
  /\ r.mimetype = "form" /\ r.target = <<Unset, Unset>>
  /\ {"Action", "Version"} \subseteq DOMAIN r.values
  /\ r.values["Action"] = r.written.operation /\ r.values["Version"] = m.version

(* Of two operations of one path and method, a requires what b does, and more. *)
AsksMore(a, b) ==
  /\ DOMAIN b.query \subseteq DOMAIN a.query /\ b.headers \subseteq a.headers
  /\ DOMAIN b.query # DOMAIN a.query \/ b.headers # a.headers

InRest(r, m) ==
  LET fits == {h \in {HttpOperation(op) : op \in HttpOperations[m.name]} :
                 h.method = r.method /\ PathMatches(h.path, Stripped(r.path))}
  IN  /\ m.name \in DOMAIN HttpOperations
      /\ r.target = <<Unset, Unset>> /\ r.method # "OPTIONS"
      /\ \E a \in fits :
            /\ a.operation = r.written.operation /\ ArgsPresent(a, r)
            /\ \A b \in fits \ {a} :
                  \/ MoreSpecific(a.path, b.path)
                  \/ a.path = b.path /\ (ArgsPresent(b, r) => AsksMore(a, b))

(* Clients sign with the signing name of the service, if they sign.  They  *)
(* do not call the data plane, nor resources of the gateway.               *)
WrittenFor(r, m, p) ==
  /\ r.written.operation \in m.operations \ {Unset, NotFound}
  /\ p \in Spoken(m)
  /\ r.smithy = "rpc-v2-cbor" <=> p = Cbor
  /\ Targeted(p) => m.target # Unset
  /\ p = Cbor => InCbor(r, m)
  /\ p = "json" => InJson(r, m)
  /\ p \in QueryProtocols => InQuery(r, m) /\ Spoken(m) \cap QueryProtocols = {p}
  /\ p \in {"rest-json", "rest-xml"} => InRest(r, m) /\ Spoken(m) = {p}
  /\ p \in {Cbor, "json", "rest-json", "rest-xml"} \cup QueryProtocols
  /\ IsSigned(r) => r.auth.service = m.signing
  /\ HostRules(r.host) = {} /\ r.path[1] # "_localstack" /\ r.encoding \in {"identity", "gzip"}
  /\ \A outcome \in r.outcomes :
       outcome.kind = "raise" => outcome.code \notin {"ProtocolError", "RequestParserError"}

-----------------------------------------------------------------------------
(* How m is told from the other services. *)
Signers(m) == {n \in Catalogue : n.signing = m.signing}
HasRule(signing) == signing = "servicecatalog" \/ \E rule \in PathRules : rule.signing = signing

BySigner(r, m) == IsSigned(r) /\ Signers(m) = {m}

ByPathRule(r, m) ==
  IsSigned(r) /\ m.file = m.name /\ SigningRules(m.signing, r.path) = {Custom(m.name)}

(* Neither: the request is not signed, or services share the name and no   *)
(* rule is for them.                                                       *)
Anonymous(r, m) == (IsSigned(r) => Signers(m) # {m}) /\ ~HasRule(SigningName(r))

ByTarget(m, p) == Targeted(p) /\ \A n \in Catalogue : n.target = m.target => n = m

(* Those that share the name or the target prefix, and have the operation, *)
(* or no target prefix either.                                             *)
Rivals(r, m, p) ==
  {n \in Catalogue : /\ (IsSigned(r) /\ n.signing = m.signing) \/ (Targeted(p) /\ n.target = m.target)
                     /\ IF Targeted(p) THEN r.written.operation \in n.operations ELSE n.target = Unset}
ByNarrowing(r, m, p) == Rivals(r, m, p) = {m}
Several(models) == \A n \in models : models # {n}

(* Nothing of that helps. *)
Unclear(r, m, p) ==
  /\ Several(Rivals(r, m, p))
  /\ Targeted(p) => ~ByTarget(m, p)

ByPath(r, m) == m.file = "lambda" /\ m.name = "lambda" /\ PathAddressing(r.path) # {}

ByHost(r, m) ==
  /\ PathAddressing(r.path) = {}
  /\ Hosted(r) = {m.endpoint} /\ \A n \in Catalogue : n.endpoint = m.endpoint => n = m

Callees(r) ==
  {n \in Catalogue : r.written.operation \in n.operations /\ \E p \in QueryProtocols : Speaks(n, p)}

InBody(r) == PathAddressing(r.path) = {} /\ Hosted(r) = {} /\ ~r.shallow /\ ~r.tooLarge

ByAction(r, m, p) ==
  p \in QueryProtocols /\ InBody(r) /\ \A n \in Callees(r) \ {m} : n.version # m.version

(* Services that nothing tells apart answer as one of them. *)
Conventions ==
  {[among |-> {"docdb", "neptune", "rds"}, answers |-> "rds"],
   [among |-> {"timestream-query", "timestream-write"}, answers |-> "timestream-query"]}

ByConvention(r, m, p) ==
  LET called == IF p \in QueryProtocols THEN {n \in Callees(r) : n.version = m.version} ELSE {}
  IN  /\ InBody(r) /\ Several(called) /\ m.file = m.name
      /\ p \notin QueryProtocols => "Action" \notin DOMAIN r.values
      /\ \E rule \in Conventions :
            rule.among = {n.name : n \in Rivals(r, m, p) \cup called} /\ rule.answers = m.name

ToldApart(r, m, p) ==
  \/ BySigner(r, m) \/ ByPathRule(r, m)
  \/ /\ Anonymous(r, m)
     /\ \/ ByTarget(m, p) \/ ByNarrowing(r, m, p)
        \/ Unclear(r, m, p) /\ (ByPath(r, m) \/ ByHost(r, m) \/ ByAction(r, m, p) \/ ByConvention(r, m, p))

ASSUME WritingAssumption ==
  \A c \in Clients : \A r \in RequestsOf[c] :
    r.written.service # Unset =>
      \E m \in Catalogue : \E p \in Spoken(m) :
         /\ m.name = StandsFor(r.written.service, r.written.operation)
         /\ WrittenFor(r, m, p) /\ ToldApart(r, m, p)
=============================================================================
