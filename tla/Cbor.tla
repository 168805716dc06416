-------------------------------- MODULE Cbor --------------------------------
(***************************************************************************)
(* CBOR as the response serializer writes it and the request parser reads  *)
(* it.  A stream is a sequence of initial bytes (major type and additional *)
(* information), of bytes of an argument, and of contents that are kept    *)
(* whole: the characters of a string, a double, a half-precision float.    *)
(***************************************************************************)
EXTENDS Shapes

CONSTANT Byte     \* the number of values of a byte: 256

ASSUME ByteAssumption == Byte \in Nat /\ Byte > 24

InitialByte(major, info) == <<"initial", major, info>>
BREAK_CODE == InitialByte(7, 31)
IndefiniteInfo == 31

-----------------------------------------------------------------------------
(* Writing *)
(* A bound that is one too high, for comparison. *)
NumBytesInclusive(n) ==
  CASE n <= 24 -> 0 [] n <= Byte -> 1 [] n <= Byte * Byte -> 2 [] OTHER -> 4

NumBytes(n) ==
  CASE n < 24 -> 0
    [] n < Byte -> 1
    [] n < Byte * Byte -> 2
    [] n < Byte * Byte * Byte * Byte -> 4
    [] OTHER -> 8

InfoOf(numBytes) ==
  CASE numBytes = 1 -> 24 [] numBytes = 2 -> 25 [] numBytes = 4 -> 26 [] numBytes = 8 -> 27

ToBytes(n, numBytes) ==
  LET digit[i \in 0 .. numBytes] == IF i = 0 THEN n ELSE digit[i - 1] \div Byte
  IN  [i \in 1 .. numBytes |-> <<"byte", digit[numBytes - i] % Byte>>]

Head_(major, n) ==
  IF NumBytes(n) = 0 THEN <<InitialByte(major, n)>>
  ELSE <<InitialByte(major, InfoOf(NumBytes(n)))>> \o ToBytes(n, NumBytes(n))

WriteInteger(n) == IF n >= 0 THEN Head_(0, n) ELSE Head_(1, -1 - n)
WriteContent(major, content) == Head_(major, Len(content)) \o <<<<"content", content>>>>
WriteString(s) == WriteContent(3, s)
WriteTimestamp(t) == <<InitialByte(6, 1), InitialByte(7, 27), <<"double", t>>>>
WriteBoolean(b) == <<InitialByte(7, IF b THEN 21 ELSE 20)>>
WriteSpecialNumber(x) == <<InitialByte(7, 25), <<"half", x>>>>
WriteFloat(type, x) ==
  <<InitialByte(7, IF type = "float" THEN 26 ELSE 27), <<"double", x>>>>
WriteIndefinite(major, items) ==
  <<InitialByte(major, IndefiniteInfo)>> \o FlattenSeq(items) \o <<BREAK_CODE>>

WriteScalar(shape, v) ==
  CASE shape.type = "boolean" -> WriteBoolean(Truthy(v))
    [] shape.type \in {"integer", "long"} /\ v[1] = "num" -> WriteInteger(v[2])
    [] shape.type = "string" /\ v[1] = "text" -> WriteString(v[3])
    [] shape.type = "blob" /\ v[1] = "bytes" -> WriteContent(2, v[2])
    [] shape.type = "blob" /\ v[1] = "text" -> WriteContent(2, v[3])
    [] shape.type = "timestamp" /\ DateOf(v) # None -> WriteTimestamp(DateOf(v)[2])
    [] shape.type \in {"float", "double"} /\ v[1] = "special" -> WriteSpecialNumber(v[2])
    [] shape.type \in {"float", "double"} /\ v[1] = "secs" -> WriteFloat(shape.type, v[2])
    [] OTHER -> <<Raise("UnknownSerializerError")>>   \* TypeError, AttributeError, ValueError

RECURSIVE WriteDataItem(_, _)

WriteStructure(shape, v) ==
  LET keys == SetToSeq({k \in DOMAIN v[2] : v[2][k] # None})
      Member(k) == WriteString(WireName(shape.members[k], k))
                     \o WriteDataItem(shape.members[k], v[2][k])
  IN  IF \E i \in DOMAIN keys : keys[i] \notin DOMAIN shape.members
      THEN <<Raise("UnknownSerializerError")>>                       \* KeyError
      ELSE WriteIndefinite(5, [i \in DOMAIN keys |-> Member(keys[i])])

WriteDataItem(shape, v) ==
  CASE shape.type = "structure" -> WriteStructure(shape, v)
    [] shape.type = "list" ->
         WriteIndefinite(4, [i \in DOMAIN v[2] |-> WriteDataItem(shape.member, v[2][i])])
    [] shape.type = "map" ->
         LET keys == SetToSeq(DOMAIN v[2])
         IN  WriteIndefinite(5, [i \in DOMAIN keys |->
               WriteString(keys[i]) \o WriteDataItem(shape.value, v[2][keys[i]])])
    [] OTHER -> WriteScalar(shape, v)

-----------------------------------------------------------------------------
(* Reading: every operator returns what it read and the place after it. *)
At_(item, next) == [item |-> item, next |-> next]
EndOfStream(stream) == At_(Raise("ProtocolParserError"), Len(stream) + 1)

ReadInt(stream, i, numBytes) ==
  LET value[k \in 0 .. numBytes] ==
        IF k = 0 THEN 0 ELSE value[k - 1] * Byte + stream[i + k - 1][2]
  IN  IF i + numBytes - 1 > Len(stream) THEN EndOfStream(stream)
      ELSE At_(Num(value[numBytes]), i + numBytes)

ReadUnsigned(stream, i, info) ==
  CASE info < 24 -> At_(Num(info), i)
    [] info = 24 -> ReadInt(stream, i, 1)
    [] info = 25 -> ReadInt(stream, i, 2)
    [] info = 26 -> ReadInt(stream, i, 4)
    [] info = 27 -> ReadInt(stream, i, 8)
    [] OTHER -> At_(Raise("ProtocolParserError"), i)

(* Strings are sent in one piece. *)
ReadByteString(stream, i, info) ==
  LET length == ReadUnsigned(stream, i, info)
  IN  CASE IsError(length.item) -> length
        [] length.next > Len(stream) -> EndOfStream(stream)
        [] OTHER -> At_(Bytes(stream[length.next][2]), length.next + 1)

ReadTextString(stream, i, info) ==
  LET bytes == ReadByteString(stream, i, info)
  IN  IF IsError(bytes.item) THEN bytes ELSE At_(Text("plain", bytes.item[2]), bytes.next)

ReadSimple(stream, i, info) ==
  CASE info = 20 -> At_(Bool(FALSE), i)
    [] info = 21 -> At_(Bool(TRUE), i)
    [] info \in {22, 23} -> At_(None, i)
    [] info \notin 25 .. 27 -> At_(Raise("ProtocolParserError"), i)
    [] i > Len(stream) -> EndOfStream(stream)
    [] stream[i][1] = "half" -> At_(<<"special", stream[i][2]>>, i + 1)
    [] OTHER -> At_(Secs(stream[i][2]), i + 1)

RECURSIVE ReadDataItem(_, _), ReadItems(_, _, _)

(* n items, or with n = -1 the items up to the break code. *)
ReadItems(stream, i, n) ==
  LET done == IF n = -1 THEN i <= Len(stream) /\ stream[i] = BREAK_CODE ELSE n = 0
      first == ReadDataItem(stream, i)
      rest == ReadItems(stream, first.next, IF n = -1 THEN -1 ELSE n - 1)
  IN  CASE done -> At_(Arr(<<>>), IF n = -1 THEN i + 1 ELSE i)
        [] ~done /\ IsError(first.item) -> first
        [] ~done /\ ~IsError(first.item) /\ IsError(rest.item) -> rest
        [] OTHER -> At_(Arr(<<first.item>> \o rest.item[2]), rest.next)

(* A map is read as its keys and values in turn; a null value is dropped. *)
MapOf(s) ==
  LET n == Len(s) \div 2
      Last_(k) == CHOOSE i \in 1 .. n : /\ s[2 * i - 1][3] = k
                                        /\ \A j \in i + 1 .. n : s[2 * j - 1][3] # k
  IN  Obj([k \in {s[2 * i - 1][3] : i \in {j \in 1 .. n : s[2 * j] # None}} |-> s[2 * Last_(k)]])

ReadTag(stream, i, info) ==
  LET value == ReadDataItem(stream, i)
  IN  CASE IsError(value.item) -> value
        [] info = 1 /\ value.item[1] = "secs" -> At_(Time(value.item[2]), value.next)
        [] info = 1 /\ value.item[1] = "num" -> At_(Time(1000 * value.item[2]), value.next)
        [] OTHER -> At_(Raise("ProtocolParserError"), value.next)

ReadArray(stream, i, info, perItem) ==
  LET length == IF info = IndefiniteInfo THEN At_(Num(-1), i) ELSE ReadUnsigned(stream, i, info)
      n == IF length.item = Num(-1) THEN -1 ELSE perItem * length.item[2]
  IN  IF IsError(length.item) THEN length ELSE ReadItems(stream, length.next, n)

ReadMap(stream, i, info) ==
  LET items == ReadArray(stream, i, info, 2)
  IN  IF IsError(items.item) THEN items ELSE At_(MapOf(items.item[2]), items.next)

ReadDataItem(stream, i) ==
  IF i > Len(stream) THEN EndOfStream(stream)
  ELSE LET major == stream[i][2]
           info == stream[i][3]
           unsigned == ReadUnsigned(stream, i + 1, info)
       IN  CASE major = 0 -> unsigned
             [] major = 1 -> IF IsError(unsigned.item) THEN unsigned
                             ELSE At_(Num(-1 - unsigned.item[2]), unsigned.next)
             [] major = 2 -> ReadByteString(stream, i + 1, info)
             [] major = 3 -> ReadTextString(stream, i + 1, info)
             [] major = 4 -> ReadArray(stream, i + 1, info, 1)
             [] major = 5 -> ReadMap(stream, i + 1, info)
             [] major = 6 -> ReadTag(stream, i + 1, info)
             [] major = 7 -> ReadSimple(stream, i + 1, info)

ParseDataItem(stream) == ReadDataItem(stream, 1).item
=============================================================================
