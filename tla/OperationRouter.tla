--------------------------- MODULE OperationRouter ---------------------------
(***************************************************************************)
(* Which operation of a REST service a request is for                      *)
(* (aws/protocol/op_router.py, aws/protocol/routing.py).  A path template  *)
(* is a sequence of segments, each a literal, a variable or a greedy       *)
(* variable; a greedy one is the last segment.                             *)
(***************************************************************************)
EXTENDS Naturals, FiniteSets, Sequences, SequencesExt

Literal(text) == [kind |-> "literal", text |-> text]
Variable(name) == [kind |-> "variable", text |-> name]
Greedy(name) == [kind |-> "greedy", text |-> name]

NotFound == "NotFound"

(* The http block of an operation: the query arguments of the template and *)
(* of the required members (no values: presence is enough), the required   *)
(* headers.  authPath replaces the path that botocore stripped.            *)
HttpOperation(op) ==
  [operation |-> op.name, method |-> op.method, deprecated |-> op.deprecated,
   path |-> IF op.authPath # <<>> THEN op.authPath ELSE op.path,
   query |-> [n \in DOMAIN op.query \cup op.requiredQuery |->
                IF n \in DOMAIN op.query THEN op.query[n] \ {""} ELSE {}],
   headers |-> op.requiredHeaders]

(* mutant: an operation that requires more arguments is not preferred *)
FlatScore(h) == IF h.deprecated THEN 5 ELSE 10

Score(h) ==
  LET full == 10 + 10 * Cardinality(DOMAIN h.query) + 10 * Cardinality(h.headers)
  IN  IF h.deprecated THEN full - 5 ELSE full

ArgsPresent(h, r) ==
  /\ \A n \in DOMAIN h.query : n \in DOMAIN r.args /\ h.query[n] \subseteq r.args[n]
  /\ h.headers \subseteq r.headers

(* A rule for each path and method of the service. *)
Rules(operations) ==
  LET https == {HttpOperation(op) : op \in operations}
  IN  {[path |-> h.path, method |-> h.method,
        operations |-> {o \in https : o.path = h.path /\ o.method = h.method}] : h \in https}

SegmentMatches(segment, text) ==
  CASE segment.kind = "literal" -> segment.text = text
    [] segment.kind = "variable" -> text # ""
    [] OTHER -> TRUE

PathMatches(template, path) ==
  /\ IF template # <<>> /\ Last(template).kind = "greedy"
     THEN Len(path) >= Len(template) ELSE Len(path) = Len(template)
  /\ \A i \in DOMAIN template : SegmentMatches(template[i], path[i])

(* Werkzeug takes the rule whose first differing segment is most specific. *)
Weight(segment) ==
  CASE segment.kind = "literal" -> 0 [] segment.kind = "variable" -> 1 [] OTHER -> 2

MoreSpecific(a, b) ==
  \E i \in 1..Len(a) :
     /\ \A j \in 1..(i - 1) : j \in DOMAIN b /\ Weight(a[j]) = Weight(b[j])
     /\ i \notin DOMAIN b \/ Weight(a[i]) < Weight(b[i])

Stripped(path) ==
  LET kept == {i \in DOMAIN path : path[i] # ""}
  IN  SubSeq(path, 1, IF kept = {} THEN 0 ELSE CHOOSE i \in kept : \A j \in kept : j <= i)

(* OPTIONS is matched as GET; a path that matches with another method is   *)
(* not found.                                                              *)
MatchingRules(operations, r) ==
  LET method == IF r.method = "OPTIONS" THEN "GET" ELSE r.method
  IN  {rule \in Rules(operations) : rule.method = method /\ PathMatches(rule.path, Stripped(r.path))}

(* The operation a rule stands for, or the best scored one the arguments of *)
(* the request satisfy: equal scores keep the order of the specification.  *)
BestOf(rule, r) ==
  LET fits == {h \in rule.operations : ArgsPresent(h, r)}
  IN  IF Cardinality(rule.operations) = 1 THEN rule.operations
      ELSE {h \in fits : \A o \in fits : Score(o) <= Score(h)}

MatchOperation(operations, r) ==
  LET rules == MatchingRules(operations, r)
      best == {a \in rules : \A b \in rules \ {a} : ~MoreSpecific(b.path, a.path)}
      found == UNION {BestOf(rule, r) : rule \in best}
  IN  IF found = {} THEN {NotFound} ELSE {h.operation : h \in found}
=============================================================================
