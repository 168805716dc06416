------------------------------- MODULE Shapes -------------------------------
(***************************************************************************)
(* Shapes and data of the AWS protocols.                                   *)
(*                                                                         *)
(* A shape is what botocore's service model says of a parameter: its type, *)
(* its name on the wire, and the traits the parser and the serializer look *)
(* at.  Data of every kind, Python objects as well as parts of messages,   *)
(* are tuples that begin with their kind, so that any two of them can be   *)
(* compared.  A text is named for the format it was written in: parsing    *)
(* it with another format is the ValueError of the conversion.             *)
(***************************************************************************)
EXTENDS Integers, Sequences, FiniteSets, TLC, SequencesExt

(* Shapes.  "" stands for a trait that is not given. *)
Scalar(type) ==
  [type |-> type, name |-> "", flattened |-> FALSE, location |-> "",
   timestampFormat |-> "", xmlAttribute |-> FALSE, eventstream |-> FALSE]
Structure(members, required) ==
  Scalar("structure") @@ [members |-> members, required_members |-> required,
                          payload |-> "", document |-> FALSE, union |-> FALSE]
List(member) == Scalar("list") @@ [member |-> member]
Map(key, value) == Scalar("map") @@ [key |-> key, value |-> value]

NoShape == Scalar("")
Named(shape, name) == [shape EXCEPT !.name = name]
Flat(shape) == [shape EXCEPT !.flattened = TRUE]
At(shape, location, name) == [shape EXCEPT !.location = location, !.name = name]
WireName(shape, default) == IF shape.name = "" THEN default ELSE shape.name
Complex == {"structure", "list", "map"}

(* Data *)
None == <<"None">>
Text(format, v) == <<"text", format, v>>   \* a string in some format
Num(n) == <<"num", n>>                     \* an integer
Secs(t) == <<"secs", t>>                   \* a number of seconds, t milliseconds
Bool(b) == <<"bool", b>>
Bytes(x) == <<"bytes", x>>
Time(t) == <<"time", t>>                   \* a datetime, t milliseconds
Arr(s) == <<"arr", s>>
Obj(f) == <<"obj", f>>
Args(f) == <<"args", f>>                   \* form fields by name
Element(tag, attrib, text, children) == <<"element", tag, attrib, text, children>>
Elements(s) == <<"elements", s>>           \* repeated elements, aggregated
Octets(s) == <<"octets", s>>               \* a body of bytes
Malformed == <<"malformed">>               \* a body that is no XML, JSON or CBOR
Raise(exception) == <<"raise", exception>>

Empty == Obj(<<>>)
EmptyText == Text("plain", "")
IsError(d) == d[1] = "raise"
IsText(d, format) == d[1] = "text" /\ d[2] = format
WholeSecs(t) == t - (t % 1000)
Truthy(d) == d \notin {None, Bool(FALSE), Num(0), EmptyText, Arr(<<>>), Obj(<<>>), Bytes("")}

(* botocore's parse_to_aware_datetime, None where it raises. *)
DateOf(d) ==
  CASE d[1] = "time" -> d
    [] d[1] = "num" -> Time(1000 * d[2])
    [] IsText(d, "iso8601") \/ IsText(d, "rfc822") -> Time(d[3])
    [] OTHER -> None

(* An array or a dictionary of results, or the exception that ended its making. *)
ArrOf(s) ==
  IF \E i \in DOMAIN s : IsError(s[i])
  THEN s[CHOOSE i \in DOMAIN s : IsError(s[i]) /\ \A j \in 1 .. i - 1 : ~IsError(s[j])]
  ELSE Arr(s)
ObjOf(f) ==
  IF \E k \in DOMAIN f : IsError(f[k])
  THEN f[CHOOSE k \in DOMAIN f : IsError(f[k])]
  ELSE Obj(f)

Only(f, keys) == [k \in keys |-> f[k]]
Starts(s, prefix) == Len(prefix) <= Len(s) /\ SubSeq(s, 1, Len(prefix)) = prefix

(* Data without what is not there: None, and the empty dictionaries and    *)
(* arrays most protocols have no way to write.                             *)
RECURSIVE Strip(_)
Strip(d) ==
  CASE d[1] = "obj" ->
         LET f == [k \in DOMAIN d[2] |-> Strip(d[2][k])]
         IN  Obj(Only(f, {k \in DOMAIN f : f[k] \notin {None, Empty, Arr(<<>>)}}))
    [] d[1] = "arr" -> Arr([i \in DOMAIN d[2] |-> Strip(d[2][i])])
    [] OTHER -> d
=============================================================================
