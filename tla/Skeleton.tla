------------------------------ MODULE Skeleton ------------------------------
(***************************************************************************)
(* From a provider object to a response: the dispatch table built from the *)
(* methods of its classes, and the skeleton that calls the method and      *)
(* turns what it returns or raises into a response (aws/skeleton.py,       *)
(* aws/api/core.py).  A class is its methods by name; a method has         *)
(* operation (Unmarked when it is not decorated with @handler), expand,      *)
(* context and required, the parameters without a default.                 *)
(***************************************************************************)
EXTENDS Naturals, Sequences, SequencesExt

(* @handler marks a method with the operation it handles. *)
Unmarked == "unmarked"
Handler(operation, required) ==
  [operation |-> operation, expand |-> TRUE, context |-> TRUE, required |-> required]
Plain(required) == [operation |-> Unmarked, expand |-> TRUE, context |-> TRUE, required |-> required]

(* The class tree, the most derived class first: a name is resolved to the *)
(* first class that defines it, an operation to the mark that the most     *)
(* derived decorated method carries.                                       *)
Resolve(classes, name) ==
  LET at == {i \in DOMAIN classes : name \in DOMAIN classes[i]}
  IN  classes[CHOOSE i \in at : \A j \in at : i <= j][name]

MethodNames(classes, i) == UNION {DOMAIN classes[j] : j \in i..Len(classes)}

Visible(classes, i) ==
  LET methods == [n \in MethodNames(classes, i) |-> Resolve(SubSeq(classes, i, Len(classes)), n)]
  IN  {[name |-> n, mark |-> methods[n]] : n \in {n \in DOMAIN methods : methods[n].operation # Unmarked}}

DispatchTable(classes) ==
  LET seen(o) == {i \in DOMAIN classes : \E v \in Visible(classes, i) : v.mark.operation = o}
      Marked(o) == LET first == CHOOSE i \in seen(o) : \A j \in seen(o) : i <= j
                   IN  CHOOSE v \in Visible(classes, first) : v.mark.operation = o
      operations == {v.mark.operation : v \in UNION {Visible(classes, i) : i \in DOMAIN classes}}
  IN  [o \in operations |->
         [name |-> Marked(o).name, expand |-> Marked(o).mark.expand,
          context |-> Marked(o).mark.context, required |-> Resolve(classes, Marked(o).name).required]]

(* The dispatcher: the parameters of the request become keyword arguments, *)
(* so one that is required and absent is a TypeError of the call.          *)
CallFails(entry, parameters) == entry.expand /\ ~(entry.required \subseteq parameters)

-----------------------------------------------------------------------------
(* invoke: what the method did, as the response and what it leaves in the  *)
(* context.  A provider returns a result (or nothing, an empty result), a  *)
(* finished HTTP response, or raises.                                      *)
Answered(status, exception, result) ==
  [kind |-> "response", status |-> status, exception |-> exception, result |-> result]
Raised(exception) == [kind |-> "raised", exception |-> exception]

NoException == "none"

NotImplementedAnswer == Answered(501, "InternalFailure", FALSE)

Invoke(table, operation, parameters, outcome) ==
  IF operation \notin DOMAIN table THEN NotImplementedAnswer
  ELSE IF CallFails(table[operation], parameters) THEN Raised("TypeError")
  ELSE CASE outcome.kind = "result" -> Answered(200, NoException, TRUE)
         [] outcome.kind = "http" -> Answered(outcome.status, NoException, FALSE)
         [] outcome.kind = "service" -> Answered(outcome.status, outcome.code, FALSE)
         [] outcome.kind = "not_implemented" -> NotImplementedAnswer
         [] OTHER -> Raised(outcome.code)
=============================================================================
