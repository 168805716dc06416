-------------------------- MODULE RequestValidation --------------------------
(***************************************************************************)
(* localstack.aws.protocol.validate: what is wrong with the parameters of  *)
(* a parsed request, an error for every place.  An error has a reason, the *)
(* name of the place (a path) and the exception it is turned into.         *)
(***************************************************************************)
EXTENDS Shapes

(* to_exception: the reasons botocore gives, each with an exception. *)
ToException(reason) ==
  CASE reason = "missing required field" -> "MissingRequiredField"
    [] reason = "unknown field" -> "UnknownField"
    [] reason = "invalid type" -> "InvalidType"
    [] reason = "more than one input" -> "MoreThanOneInput"
    [] reason = "empty input" -> "EmptyInput"
    [] OTHER -> "ParameterValidationError"

Report(reason, path) == <<[reason |-> reason, path |-> path, exception |-> ToException(reason)]>>

(* The Python types botocore accepts for a shape. *)
ValidTypes(shape) ==
  CASE shape.type = "structure" \/ shape.type = "map" -> {"obj"}
    [] shape.type = "list" -> {"arr"}
    [] shape.type = "string" -> {"text"}
    [] shape.type = "integer" -> {"num"}
    [] shape.type = "boolean" -> {"bool"}
    [] shape.type = "blob" -> {"bytes", "text"}
    [] shape.type = "timestamp" -> {"time", "num", "text"}
    [] OTHER -> {"num", "secs", "special"}

(* The parser sets a required member that is missing to None. *)
KeepNone(shape, params) == params
PopRequiredNone(shape, params) ==
  Only(params, {m \in DOMAIN params : ~(m \in shape.required_members /\ params[m] = None)})

RECURSIVE Validate(_, _, _)

ValidateStructure(shape, given, path) ==
  LET params == PopRequiredNone(shape, given)
      required == SetToSeq(shape.required_members \ DOMAIN params)
      unknown == SetToSeq(DOMAIN params \ DOMAIN shape.members)
      members == SetToSeq(DOMAIN params \cap DOMAIN shape.members)
      inputs ==
        CASE ~shape.union -> <<>>
          [] Cardinality(DOMAIN params) > 1 -> Report("more than one input", path)
          [] DOMAIN params = {} -> Report("empty input", path)
          [] OTHER -> <<>>
  IN  FlattenSeq([i \in DOMAIN required |->
                    Report("missing required field", Append(path, required[i]))])
        \o inputs
        \o FlattenSeq([i \in DOMAIN unknown |-> Report("unknown field", Append(path, unknown[i]))])
        \o FlattenSeq([i \in DOMAIN members |->
                         Validate(shape.members[members[i]], params[members[i]],
                                  Append(path, members[i]))])

Validate(shape, v, path) ==
  CASE v[1] \notin ValidTypes(shape) -> Report("invalid type", path)
    [] shape.type = "structure" -> ValidateStructure(shape, v[2], path)
    [] shape.type = "list" ->
         FlattenSeq([i \in DOMAIN v[2] |-> Validate(shape.member, v[2][i], Append(path, ToString(i)))])
    [] shape.type = "map" ->
         LET keys == SetToSeq(DOMAIN v[2])
         IN  FlattenSeq([i \in DOMAIN keys |->
                           Validate(shape.value, v[2][keys[i]], Append(path, keys[i]))])
    [] OTHER -> <<>>

(* All the errors; raise_first raises the exception of the first. *)
ValidateRequest(shape, params) == Validate(shape, params, <<>>)
=============================================================================
