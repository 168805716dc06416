---------------------------- MODULE GatewayProofs ----------------------------
(***************************************************************************)
(* What the chain of handlers guarantees for any clients, requests,        *)
(* services, catalogue and configuration: failures are answered, metrics   *)
(* are of the answer, and, by a second invariant (RInv), a request is      *)
(* routed to the operation it was written for.                             *)
(***************************************************************************)
EXTENDS ClientRequests, FiniteSetTheorems, TLAPS

Fields ==
  {"req", "phase", "at", "stopped", "terminated", "error", "ran", "internal", "service", "model",
   "protocol", "operation", "auth", "region", "partition", "account", "encoding", "parameters",
   "response", "exception", "status", "body", "cors", "reached"}

Length(phase) == Len(HandlersOf(phase))

-----------------------------------------------------------------------------
(* The exchange x of a request of client c that was received.              *)
Shape(c, x) ==
  /\ DOMAIN x = Fields
  /\ x.req \in RequestsOf[c]
  /\ x.stopped \in BOOLEAN /\ x.terminated \in BOOLEAN /\ x.internal \in BOOLEAN
  /\ x.response \in BOOLEAN /\ x.reached \in BOOLEAN
  /\ x.status \in Nat
  /\ x.operation # Unset => x.service # Unset /\ x.parameters = x.req.parameters

(* The item of a request with an operation holds what was parsed from it.  *)
Recorded(c, x, its) ==
  CollectMetrics /\ x.operation # Unset => c \in DOMAIN its /\ its[c] = x.req.parameters

(* What FailuresAnswered and MetricsMatch say of an exchange.              *)
WellAnswered(x) ==
  /\ x.status # 0
  /\ x.error # NoError => x.status >= 400 /\ x.body # Unset
  /\ x.error # NoError /\ x.service # Unset => x.exception # NoException
  /\ x.operation # Unset /\ ~x.reached => x.status >= 400

Metered(c, x, its, ms) ==
  /\ c \notin DOMAIN its
  /\ \E m \in ms :
        /\ m.service = x.service /\ m.operation = x.operation
        /\ m.parameters = x.req.parameters
        /\ m.status = x.status /\ m.exception = x.exception
        /\ (m.origin = "internal") = x.internal

(* parse_service_response has nothing left to do.                          *)
Settled(x) == x.operation # Unset => x.response \/ x.exception # NoException

(* An exception of the provider or of a handler is no ServiceException: the *)
(* skeleton answers those.                                                 *)
Unexpected(error) == \E type : error = Failure(type) /\ type \notin {"none", "ServiceException"}

(* What the exception handlers owe a client whose service is known.        *)
Served(x) == x.status >= 400 /\ x.body # Unset /\ x.exception # NoException

InRequest(c, x, its) ==
  /\ x.at \in 1..22 /\ ~x.stopped /\ ~x.terminated /\ x.error = NoError
  /\ x.at <= 21 => x.body = Unset
  /\ x.operation # Unset => x.at >= 18 /\ (x.at = 22 => x.reached)
  /\ x.at >= 19 => Recorded(c, x, its)

InException(c, x, its) ==
  /\ x.at \in 1..4 /\ ~x.terminated /\ Unexpected(x.error)
  /\ IF x.at = 4 /\ x.service # Unset THEN Served(x) ELSE x.body = Unset
  /\ Recorded(c, x, its)

InResponse(c, x, its) ==
  /\ x.at \in 1..7 /\ ~x.terminated /\ WellAnswered(x)
  /\ x.at >= 4 => Settled(x)
  /\ Recorded(c, x, its)

InFinal(c, x, its, ms) ==
  /\ x.at \in 1..Length("final") /\ WellAnswered(x)
  /\ x.terminated \/ Settled(x)
  /\ Unmetered(x) \/ Metered(c, x, its, ms)

InDone(c, x, its, ms) == WellAnswered(x) /\ (Unmetered(x) \/ Metered(c, x, its, ms))

Proper(c, x, its, ms) ==
  /\ Shape(c, x)
  /\ x.phase \in {"request", "exception", "response", "final", "done"}
  /\ x.phase = "request" => InRequest(c, x, its)
  /\ x.phase = "exception" => InException(c, x, its)
  /\ x.phase = "response" => InResponse(c, x, its)
  /\ x.phase = "final" => InFinal(c, x, its, ms)
  /\ x.phase = "done" => InDone(c, x, its, ms)

IInv ==
  /\ DOMAIN exchanges = Clients
  /\ \A c \in Clients : exchanges[c].phase # "none" => Proper(c, exchanges[c], items, metrics)

-----------------------------------------------------------------------------
(* The chains. *)
LEMMA Lengths ==
  /\ Len(RequestHandlers) = 22 /\ Len(ExceptionHandlers) = 4
  /\ Len(ResponseHandlers) = 7 /\ Len(Finalizers) = 2
  BY DEF RequestHandlers, ExceptionHandlers, ResponseHandlers, Finalizers

LEMMA Chains ==
  /\ HandlersOf("request") = RequestHandlers /\ HandlersOf("exception") = ExceptionHandlers
  /\ HandlersOf("response") = ResponseHandlers
  /\ HandlersOf("final") \in {ResponseHandlers, Finalizers}
  BY DEF HandlersOf

LEMMA ChainLengths ==
  /\ Length("request") = 22 /\ Length("exception") = 4 /\ Length("response") = 7
  /\ Length("final") \in {2, 7}
  BY Lengths, Chains DEF Length

LEMMA LeavesWhen ==
  ASSUME NEW x
  PROVE  Leaves(x) <=>
           \/ x.at = Length(x.phase)
           \/ x.phase = "request" /\ (x.stopped \/ x.terminated)
           \/ x.phase = "response" /\ x.terminated
           \/ x.phase = "final" /\ Tracing /\ x.terminated
  BY DEF Leaves, Length

(* What a handler did not touch when the chain goes on. *)
Agrees(x, y) ==
  /\ DOMAIN y = Fields
  /\ y.req = x.req /\ y.stopped = x.stopped /\ y.terminated = x.terminated /\ y.error = x.error
  /\ y.internal = x.internal /\ y.service = x.service /\ y.operation = x.operation
  /\ y.model = x.model /\ y.protocol = x.protocol /\ y.encoding = x.encoding
  /\ y.parameters = x.parameters /\ y.response = x.response /\ y.exception = x.exception
  /\ y.status = x.status /\ y.body = x.body /\ y.reached = x.reached

LEMMA AdvanceMoves ==
  ASSUME NEW x, DOMAIN x = Fields
  PROVE  /\ Agrees(x, Advance(x))
         /\ ~Leaves(x) => Advance(x).phase = x.phase /\ Advance(x).at = x.at + 1
         /\ Leaves(x) =>
              /\ Advance(x).at = 1
              /\ Advance(x).phase = IF x.terminated /\ x.phase \in {"request", "exception"} THEN "final"
                                    ELSE After(x.phase)
<1> DEFINE next == IF x.terminated /\ x.phase \in {"request", "exception"} THEN "final" ELSE After(x.phase)
           z == [x EXCEPT !.ran = IF x.phase = "final" THEN Append(@, HandlersOf("final")[x.at]) ELSE @]
<1>1. DOMAIN z = Fields /\ Agrees(x, z) /\ z.phase = x.phase /\ z.at = x.at
  BY DEF Fields, Agrees
<1>2. Advance(x) = IF Leaves(x) THEN [z EXCEPT !.phase = next, !.at = 1] ELSE [z EXCEPT !.at = @ + 1]
  BY DEF Advance
<1> HIDE DEF next, z
<1>3. CASE Leaves(x)
  <2>1. Advance(x) = [z EXCEPT !.phase = next, !.at = 1]
    BY <1>2, <1>3
  <2>2. Agrees(x, Advance(x)) /\ Advance(x).at = 1 /\ Advance(x).phase = next
    BY <1>1, <2>1 DEF Fields, Agrees
  <2> QED  BY <1>3, <2>2 DEF next
<1>4. CASE ~Leaves(x)
  <2>1. Advance(x) = [z EXCEPT !.at = @ + 1]
    BY <1>2, <1>4
  <2>2. Agrees(x, Advance(x)) /\ Advance(x).phase = x.phase /\ Advance(x).at = x.at + 1
    BY <1>1, <2>1 DEF Fields, Agrees
  <2> QED  BY <1>4, <2>2
<1> QED  BY <1>3, <1>4

LEMMA AgreesKeeps ==
  ASSUME NEW c, NEW x, NEW y, NEW its, NEW ms, Agrees(x, y)
  PROVE  /\ Shape(c, x) => Shape(c, y)
         /\ Recorded(c, x, its) => Recorded(c, y, its)
         /\ WellAnswered(x) => WellAnswered(y)
         /\ Settled(x) => Settled(y)
         /\ Unmetered(x) => Unmetered(y)
         /\ Metered(c, x, its, ms) => Metered(c, y, its, ms)
<1>1. Shape(c, x) => Shape(c, y)
  BY DEF Agrees, Shape
<1>2. Recorded(c, x, its) => Recorded(c, y, its)
  BY DEF Agrees, Recorded
<1>3. WellAnswered(x) => WellAnswered(y)
  BY DEF Agrees, WellAnswered
<1>4. Settled(x) => Settled(y)
  BY DEF Agrees, Settled
<1>5. Unmetered(x) => Unmetered(y)
  BY DEF Agrees, Unmetered
<1>6. Metered(c, x, its, ms) => Metered(c, y, its, ms)
  BY DEF Agrees, Metered
<1> QED  BY <1>1, <1>2, <1>3, <1>4, <1>5, <1>6

-----------------------------------------------------------------------------
(* What a handler leaves behind, y, goes through the chain. *)
LEMMA StaysInRequest ==
  ASSUME NEW c, NEW y, NEW its, NEW ms, Shape(c, y), y.phase = "request",
         y.at \in 1..21, ~y.stopped, ~y.terminated, y.error = NoError, y.at <= 20 => y.body = Unset,
         y.operation # Unset => y.at >= 17 /\ (y.at = 21 => y.reached),
         y.at >= 18 => Recorded(c, y, its)
  PROVE  Proper(c, Advance(y), its, ms)
<1>1. DOMAIN y = Fields
  BY DEF Shape
<1>0. y.stopped = FALSE /\ y.terminated = FALSE
  BY DEF Shape
<1>2. ~Leaves(y)
  BY <1>0, LeavesWhen, ChainLengths
<1>3. Agrees(y, Advance(y)) /\ Advance(y).phase = "request" /\ Advance(y).at = y.at + 1
  BY <1>1, <1>2, AdvanceMoves
<1>4. Shape(c, Advance(y)) /\ (y.at >= 18 => Recorded(c, Advance(y), its))
  BY <1>3, AgreesKeeps
<1>5. InRequest(c, Advance(y), its)
  BY <1>3, <1>4 DEF Agrees, InRequest
<1> QED  BY <1>3, <1>4, <1>5 DEF Proper

LEMMA LeavesRequest ==
  ASSUME NEW c, NEW y, NEW its, NEW ms, Shape(c, y), y.phase = "request",
         y.at \in 1..22, y.stopped \/ y.terminated \/ y.at = 22, y.error = NoError, WellAnswered(y),
         Recorded(c, y, its)
  PROVE  Proper(c, Advance(y), its, ms)
<1>1. DOMAIN y = Fields
  BY DEF Shape
<1>2. Leaves(y)
  BY LeavesWhen, ChainLengths
<1>3. /\ Agrees(y, Advance(y)) /\ Advance(y).at = 1
      /\ Advance(y).phase = IF y.terminated THEN "final" ELSE "response"
  BY <1>1, <1>2, AdvanceMoves DEF After
<1>4. Shape(c, Advance(y)) /\ Recorded(c, Advance(y), its) /\ WellAnswered(Advance(y))
  BY <1>3, AgreesKeeps
<1>5. CASE y.terminated
  <2>1. InFinal(c, Advance(y), its, ms)
    BY <1>3, <1>4, <1>5, ChainLengths DEF Agrees, InFinal, Unmetered
  <2> QED  BY <1>3, <1>4, <1>5, <2>1 DEF Proper
<1>6. CASE ~y.terminated
  <2>1. InResponse(c, Advance(y), its)
    BY <1>3, <1>4, <1>6 DEF Agrees, InResponse
  <2> QED  BY <1>3, <1>4, <1>6, <2>1 DEF Proper
<1> QED  BY <1>5, <1>6

LEMMA RaisesInRequest ==
  ASSUME NEW c, NEW y, NEW its, NEW ms, NEW type, Shape(c, y), y.phase = "request", ~y.terminated,
         y.body = Unset, type \notin {"none", "ServiceException"}, Recorded(c, y, its)
  PROVE  Proper(c, Thrown(y, Failure(type)), its, ms)
<1> DEFINE z == [y EXCEPT !.error = Failure(type), !.stopped = TRUE, !.phase = "exception", !.at = 1]
<1>1. Thrown(y, Failure(type)) = z
  BY DEF Thrown
<1>2. /\ DOMAIN z = Fields /\ z.error = Failure(type) /\ z.stopped = TRUE /\ z.phase = "exception" /\ z.at = 1
      /\ z.req = y.req /\ z.terminated = y.terminated /\ z.internal = y.internal /\ z.service = y.service
      /\ z.operation = y.operation /\ z.parameters = y.parameters /\ z.response = y.response
      /\ z.exception = y.exception /\ z.status = y.status /\ z.body = y.body /\ z.reached = y.reached
  BY DEF Shape, Fields
<1> HIDE DEF z
<1>3. Shape(c, z)
  BY <1>2 DEF Shape
<1>4. Recorded(c, z, its)
  BY <1>2 DEF Recorded
<1>5. Unexpected(z.error)
  BY <1>2 DEF Unexpected
<1>6. InException(c, z, its)
  BY <1>2, <1>4, <1>5 DEF InException
<1> QED  BY <1>1, <1>2, <1>3, <1>6 DEF Proper

LEMMA ExceptionGoesOn ==
  ASSUME NEW c, NEW y, NEW its, NEW ms, Shape(c, y), y.phase = "exception", y.at \in 1..4,
         ~y.terminated, Unexpected(y.error), Recorded(c, y, its),
         y.at <= 2 => y.body = Unset,
         y.at = 3 => IF y.service # Unset THEN Served(y) ELSE y.body = Unset,
         y.at = 4 => y.status >= 400 /\ y.body # Unset /\ (y.service # Unset => y.exception # NoException)
  PROVE  Proper(c, Advance(y), its, ms)
<1>1. DOMAIN y = Fields
  BY DEF Shape
<1>2. Leaves(y) <=> y.at = 4
  BY LeavesWhen, ChainLengths
<1>3. CASE y.at = 4
  <2>1. Agrees(y, Advance(y)) /\ Advance(y).at = 1 /\ Advance(y).phase = "response"
    BY <1>1, <1>2, <1>3, AdvanceMoves DEF After
  <2>2. WellAnswered(y)
    BY <1>3 DEF WellAnswered, Shape
  <2>3. Shape(c, Advance(y)) /\ Recorded(c, Advance(y), its) /\ WellAnswered(Advance(y))
    BY <2>1, <2>2, AgreesKeeps
  <2>4. InResponse(c, Advance(y), its)
    BY <2>1, <2>3 DEF Agrees, InResponse
  <2> QED  BY <2>1, <2>3, <2>4 DEF Proper
<1>4. CASE y.at # 4
  <2>1. Agrees(y, Advance(y)) /\ Advance(y).at = y.at + 1 /\ Advance(y).phase = "exception"
    BY <1>1, <1>2, <1>4, AdvanceMoves
  <2>2. Shape(c, Advance(y)) /\ Recorded(c, Advance(y), its)
    BY <2>1, AgreesKeeps
  <2>3. IF Advance(y).at = 4 /\ Advance(y).service # Unset THEN Served(Advance(y)) ELSE Advance(y).body = Unset
    BY <1>4, <2>1 DEF Agrees, Served
  <2>4. InException(c, Advance(y), its)
    BY <1>4, <2>1, <2>2, <2>3 DEF Agrees, InException
  <2> QED  BY <2>1, <2>2, <2>4 DEF Proper
<1> QED  BY <1>3, <1>4

LEMMA ResponseGoesOn ==
  ASSUME NEW c, NEW y, NEW its, NEW ms, Shape(c, y), y.phase = "response", y.at \in 1..7,
         WellAnswered(y), y.at >= 3 => Settled(y),
         IF y.at = 7 THEN Unmetered(y) \/ Metered(c, y, its, ms) ELSE Recorded(c, y, its)
  PROVE  Proper(c, Advance(y), its, ms)
<1>1. DOMAIN y = Fields /\ y.terminated \in BOOLEAN
  BY DEF Shape
<1>2. Leaves(y) <=> y.at = 7 \/ y.terminated
  BY LeavesWhen, ChainLengths
<1>3. CASE y.at = 7 \/ y.terminated
  <2>1. Agrees(y, Advance(y)) /\ Advance(y).at = 1 /\ Advance(y).phase = "final"
    BY <1>1, <1>2, <1>3, AdvanceMoves DEF After
  <2>2. Unmetered(y) \/ Metered(c, y, its, ms)
    BY <1>3 DEF Unmetered
  <2>3. y.at = 7 => Settled(y)
    OBVIOUS
  <2>4. y.terminated = TRUE \/ Settled(y)
    BY <1>1, <1>3, <2>3
  <2>5. Shape(c, Advance(y)) /\ WellAnswered(Advance(y))
    BY <2>1, AgreesKeeps
  <2>6. Unmetered(Advance(y)) \/ Metered(c, Advance(y), its, ms)
    BY <2>1, <2>2, AgreesKeeps
  <2>7. Advance(y).terminated = TRUE \/ Settled(Advance(y))
    BY <2>1, <2>4, AgreesKeeps DEF Agrees
  <2>8. InFinal(c, Advance(y), its, ms)
    BY <2>1, <2>5, <2>6, <2>7, ChainLengths DEF InFinal
  <2> QED  BY <2>1, <2>5, <2>8 DEF Proper
<1>4. CASE ~(y.at = 7 \/ y.terminated)
  <2>1. Agrees(y, Advance(y)) /\ Advance(y).at = y.at + 1 /\ Advance(y).phase = "response"
    BY <1>1, <1>2, <1>4, AdvanceMoves
  <2>2. /\ Shape(c, Advance(y)) /\ Recorded(c, Advance(y), its) /\ WellAnswered(Advance(y))
        /\ Settled(y) => Settled(Advance(y))
    BY <1>4, <2>1, AgreesKeeps
  <2>3. InResponse(c, Advance(y), its)
    BY <1>4, <2>1, <2>2 DEF Agrees, InResponse
  <2> QED  BY <2>1, <2>2, <2>3 DEF Proper
<1> QED  BY <1>3, <1>4

LEMMA FinalGoesOn ==
  ASSUME NEW c, NEW y, NEW its, NEW ms, Shape(c, y), y.phase = "final",
         y.at \in 1..Length("final"), WellAnswered(y), y.terminated \/ Settled(y),
         Unmetered(y) \/ Metered(c, y, its, ms)
  PROVE  Proper(c, Advance(y), its, ms)
<1>1. DOMAIN y = Fields /\ y.terminated \in BOOLEAN
  BY DEF Shape
<1>2. Agrees(y, Advance(y))
  BY <1>1, AdvanceMoves
<1>a. Shape(c, Advance(y)) /\ WellAnswered(Advance(y))
  BY <1>2, AgreesKeeps
<1>b. Unmetered(Advance(y)) \/ Metered(c, Advance(y), its, ms)
  BY <1>2, AgreesKeeps
<1>c. Advance(y).terminated = TRUE \/ Settled(Advance(y))
  BY <1>1, <1>2, AgreesKeeps DEF Agrees
<1>3. /\ Shape(c, Advance(y)) /\ WellAnswered(Advance(y))
      /\ Unmetered(Advance(y)) \/ Metered(c, Advance(y), its, ms)
      /\ Advance(y).terminated = TRUE \/ Settled(Advance(y))
  BY <1>a, <1>b, <1>c
<1>4. CASE Leaves(y)
  <2>1. Advance(y).phase = "done"
    BY <1>1, <1>4, AdvanceMoves DEF After
  <2>2. InDone(c, Advance(y), its, ms)
    BY <1>3 DEF InDone
  <2> QED  BY <1>3, <2>1, <2>2 DEF Proper
<1>5. CASE ~Leaves(y)
  <2>1. Advance(y).phase = "final" /\ Advance(y).at = y.at + 1
    BY <1>1, <1>5, AdvanceMoves
  <2>2. y.at # Length("final")
    BY <1>5, LeavesWhen
  <2>3. Advance(y).at \in 1..Length("final")
    BY <2>1, <2>2, ChainLengths
  <2>4. InFinal(c, Advance(y), its, ms)
    BY <1>3, <2>3 DEF InFinal
  <2> QED  BY <1>3, <2>1, <2>4 DEF Proper
<1> QED  BY <1>4, <1>5

-----------------------------------------------------------------------------
(* Where a handler stands in the chains. *)
EarlyHandlers ==
  {"add_internal_request_params", "handle_runtime_shutdown", "create_metric_handler_item",
   "load_service_for_data_plane", "enforce_cors", "content_decoder", "validate_request_schema",
   "serve_localstack_resources", "parse_service_name", "inject_auth_header_if_missing",
   "add_region_from_header", "rewrite_region", "add_account_id"}

Place(x, h) ==
  /\ h \in EarlyHandlers => x.phase = "request" /\ x.at <= 16
  /\ h = "parse_service_request" => x.phase = "request" /\ x.at = 17
  /\ h = "record_parsed_request" => x.phase = "request" /\ x.at = 18
  /\ h = "load_service" => x.phase = "request" /\ x.at = 20
  /\ h = "service_request_router" => x.phase = "request" /\ x.at = 21
  /\ h = "empty_response" => x.phase = "request" /\ x.at = 22
  /\ h = "handle_service_exception" => x.phase = "exception" /\ x.at = 3
  /\ h = "handle_internal_failure" => x.phase = "exception" /\ x.at = 4
  /\ h = "validate_response_schema" => x.phase \in {"response", "final"} /\ x.at = 1
  /\ h = "parse_service_response" => x.phase \in {"response", "final"} /\ x.at = 3
  /\ h = "add_cors_response_headers" => x.phase \in {"response", "final"} /\ x.at = 5
  /\ h = "update_metric_collection" => x.phase \in {"response", "final"} /\ x.at = 7
  /\ h \in Silent =>
       \/ x.phase = "request" /\ x.at \in {5, 10, 12, 19}
       \/ x.phase = "exception" /\ x.at <= 2
       \/ x.phase = "response" /\ x.at \in {2, 4, 6}
       \/ x.phase = "final"

LEMMA Places ==
  ASSUME NEW x, x.phase \in {"request", "exception", "response", "final"}, x.at \in 1..Length(x.phase)
  PROVE  Place(x, HandlersOf(x.phase)[x.at])
<1>1. CASE x.phase = "request"
  <2>1. x.at \in 1..22 /\ HandlersOf(x.phase) = RequestHandlers
    BY <1>1, Chains, ChainLengths
  <2>2. Place(x, RequestHandlers[x.at])
    BY <1>1, <2>1 DEF RequestHandlers, Place, EarlyHandlers, Silent
  <2> QED  BY <2>1, <2>2
<1>2. CASE x.phase = "exception"
  <2>1. x.at \in 1..4 /\ HandlersOf(x.phase) = ExceptionHandlers
    BY <1>2, Chains, ChainLengths
  <2>2. Place(x, ExceptionHandlers[x.at])
    BY <1>2, <2>1 DEF ExceptionHandlers, Place, EarlyHandlers, Silent
  <2> QED  BY <2>1, <2>2
<1>3. CASE x.phase = "response"
  <2>1. x.at \in 1..7 /\ HandlersOf(x.phase) = ResponseHandlers
    BY <1>3, Chains, ChainLengths
  <2>2. Place(x, ResponseHandlers[x.at])
    BY <1>3, <2>1 DEF ResponseHandlers, Place, EarlyHandlers, Silent
  <2> QED  BY <2>1, <2>2
<1>4. CASE x.phase = "final"
  <2>1. \/ x.at \in 1..7 /\ HandlersOf(x.phase) = ResponseHandlers
        \/ x.at \in 1..2 /\ HandlersOf(x.phase) = Finalizers
    BY <1>4, Lengths, Chains DEF Length
  <2>2. CASE x.at \in 1..7 /\ HandlersOf(x.phase) = ResponseHandlers
    <3>1. Place(x, ResponseHandlers[x.at])
      BY <1>4, <2>2 DEF ResponseHandlers, Place, EarlyHandlers, Silent
    <3> QED  BY <2>2, <3>1
  <2>3. CASE x.at \in 1..2 /\ HandlersOf(x.phase) = Finalizers
    <3>1. Place(x, Finalizers[x.at])
      BY <1>4, <2>3 DEF Finalizers, Place, EarlyHandlers, Silent
    <3> QED  BY <2>3, <3>1
  <2> QED  BY <2>1, <2>2, <2>3
<1> QED  BY <1>1, <1>2, <1>3, <1>4

(* A handler runs on an exchange of its own phase. *)
LEMMA Running ==
  ASSUME IInv, NEW c \in Clients, NEW h, At(c, h)
  PROVE  /\ Proper(c, exchanges[c], items, metrics) /\ exchanges[c].phase # "done"
         /\ Place(exchanges[c], h)
<1> DEFINE x == exchanges[c]
<1>1. x.phase \notin {"none", "done"} /\ HandlersOf(x.phase)[x.at] = h
  BY DEF At
<1>2. Proper(c, x, items, metrics)
  BY <1>1 DEF IInv
<1> HIDE DEF x
<1>3. x.phase \in {"request", "exception", "response", "final"} /\ x.at \in 1..Length(x.phase)
  BY <1>1, <1>2, ChainLengths DEF Proper, InRequest, InException, InResponse, InFinal
<1>4. Place(x, h)
  BY <1>1, <1>3, Places
<1> QED  BY <1>1, <1>2, <1>4 DEF x

(* A handler works on its own exchange: the items of others stay.          *)
LEMMA OneClient ==
  ASSUME IInv, NEW c \in Clients, NEW y,
         exchanges' = [exchanges EXCEPT ![c] = y], Proper(c, y, items', metrics'),
         metrics \subseteq metrics',
         \A d \in Clients \ {c} : /\ d \in DOMAIN items' <=> d \in DOMAIN items
                                  /\ d \in DOMAIN items => items'[d] = items[d]
  PROVE  IInv'
<1>1. DOMAIN exchanges' = Clients /\ exchanges'[c] = y
  BY DEF IInv
<1>2. ASSUME NEW d \in Clients, d # c, exchanges'[d].phase # "none"
      PROVE  Proper(d, exchanges'[d], items', metrics')
  <2> DEFINE x == exchanges[d]
  <2>1. exchanges'[d] = x /\ Proper(d, x, items, metrics)
    BY <1>2 DEF IInv
  <2>2. /\ d \in DOMAIN items' <=> d \in DOMAIN items
        /\ d \in DOMAIN items => items'[d] = items[d]
    BY <1>2
  <2> HIDE DEF x
  <2>3. Recorded(d, x, items) => Recorded(d, x, items')
    BY <2>2 DEF Recorded
  <2>4. Metered(d, x, items, metrics) => Metered(d, x, items', metrics')
    BY <2>2 DEF Metered
  <2>5. /\ InRequest(d, x, items) => InRequest(d, x, items')
        /\ InException(d, x, items) => InException(d, x, items')
        /\ InResponse(d, x, items) => InResponse(d, x, items')
    BY <2>3 DEF InRequest, InException, InResponse
  <2>6. /\ InFinal(d, x, items, metrics) => InFinal(d, x, items', metrics')
        /\ InDone(d, x, items, metrics) => InDone(d, x, items', metrics')
    BY <2>4 DEF InFinal, InDone
  <2> QED  BY <2>1, <2>5, <2>6 DEF Proper
<1> QED  BY <1>1, <1>2 DEF IInv

LEMMA QuietPass ==
  ASSUME IInv, NEW c \in Clients, NEW y, Pass(c, y), UNCHANGED <<items, metrics>>,
         Proper(c, Advance(y), items, metrics)
  PROVE  IInv'
<1>1. exchanges' = [exchanges EXCEPT ![c] = Advance(y)] /\ items' = items /\ metrics' = metrics
  BY DEF Pass
<1> QED  BY <1>1, OneClient

LEMMA QuietRaise ==
  ASSUME IInv, NEW c \in Clients, NEW y, NEW error, Raise(c, y, error), UNCHANGED <<items, metrics>>,
         Proper(c, Thrown(y, error), items, metrics)
  PROVE  IInv'
<1>1. exchanges' = [exchanges EXCEPT ![c] = Thrown(y, error)] /\ items' = items /\ metrics' = metrics
  BY DEF Raise
<1> QED  BY <1>1, OneClient

-----------------------------------------------------------------------------
(* Until the operation is known, a handler may set the service and fields  *)
(* that no property reads, stop the chain with a status, or raise.         *)
Kept(x, y) ==
  /\ DOMAIN y = Fields
  /\ y.phase = x.phase /\ y.at = x.at /\ y.req = x.req /\ y.error = x.error /\ y.internal \in BOOLEAN
  /\ y.operation = x.operation /\ y.parameters = x.parameters /\ y.response = x.response
  /\ y.exception = x.exception /\ y.reached = x.reached

Continues(x, y) ==
  /\ Kept(x, y)
  /\ y.stopped = x.stopped /\ y.terminated = x.terminated /\ y.status = x.status /\ y.body = x.body

Ends(x, y) ==
  /\ Kept(x, y)
  /\ y.status \in Nat \ {0}
  /\ \/ y.stopped = TRUE /\ y.terminated = x.terminated
     \/ y.stopped = x.stopped /\ y.terminated = TRUE

Early(c, x, its, ms) == Proper(c, x, its, ms) /\ x.phase = "request" /\ x.at <= 17

LEMMA NoOperationYet ==
  ASSUME NEW c, NEW x, NEW its, NEW ms, Early(c, x, its, ms)
  PROVE  /\ x.operation = Unset /\ x.error = NoError /\ x.body = Unset /\ x.at \in 1..17
         /\ x.stopped = FALSE /\ x.terminated = FALSE
  BY DEF Early, Proper, Shape, InRequest

LEMMA EarlyContinues ==
  ASSUME NEW c, NEW x, NEW y, NEW its, NEW ms, NEW jts, Early(c, x, its, ms), Continues(x, y)
  PROVE  Proper(c, Advance(y), jts, ms)
<1>1. Shape(c, y)
  BY NoOperationYet DEF Early, Proper, Shape, Continues, Kept
<1>2. /\ y.phase = "request" /\ y.at \in 1..17 /\ y.stopped = FALSE /\ y.terminated = FALSE
      /\ y.error = NoError /\ y.body = Unset /\ y.operation = Unset
  BY NoOperationYet DEF Early, Continues, Kept
<1> QED  BY <1>1, <1>2, StaysInRequest

LEMMA EarlyEnds ==
  ASSUME NEW c, NEW x, NEW y, NEW its, NEW ms, Early(c, x, its, ms), Ends(x, y)
  PROVE  Proper(c, Advance(y), its, ms)
<1>1. Shape(c, y)
  BY NoOperationYet DEF Early, Proper, Shape, Ends, Kept
<1>2. y.phase = "request" /\ y.at \in 1..17 /\ y.error = NoError /\ y.operation = Unset
  BY NoOperationYet DEF Early, Ends, Kept
<1>3. y.status # 0 /\ (y.stopped = TRUE \/ y.terminated = TRUE)
  BY DEF Ends
<1>4. Recorded(c, y, its) /\ WellAnswered(y)
  BY <1>2, <1>3 DEF Recorded, WellAnswered
<1> QED  BY <1>1, <1>2, <1>3, <1>4, LeavesRequest

LEMMA EarlyRaises ==
  ASSUME NEW c, NEW x, NEW y, NEW its, NEW ms, NEW type, Early(c, x, its, ms), Continues(x, y),
         type \notin {"none", "ServiceException"}
  PROVE  Proper(c, Thrown(y, Failure(type)), its, ms)
<1>1. Shape(c, y)
  BY NoOperationYet DEF Early, Proper, Shape, Continues, Kept
<1>2. y.phase = "request" /\ y.terminated = FALSE /\ y.body = Unset /\ y.operation = Unset
  BY NoOperationYet DEF Early, Continues, Kept
<1>3. Recorded(c, y, its)
  BY <1>2 DEF Recorded
<1> QED  BY <1>1, <1>2, <1>3, RaisesInRequest

LEMMA EarlyHandler ==
  ASSUME IInv, NEW c \in Clients, NEW h \in EarlyHandlers \cup {"parse_service_request"}, At(c, h)
  PROVE  Early(c, exchanges[c], items, metrics)
  BY Running DEF Place, Early, Proper, InRequest

LEMMA PassSilentlyStep ==
  ASSUME IInv, NEW c \in Clients, PassSilently(c)
  PROVE  IInv'
<1> DEFINE x == exchanges[c]
<1>1. PICK h \in Silent : At(c, h) /\ Pass(c, x) /\ UNCHANGED <<items, metrics>>
  BY DEF PassSilently, AloneWith
<1>2. Proper(c, x, items, metrics) /\ Place(x, h)
  BY <1>1, Running DEF Silent
<1>3. Shape(c, x)
  BY <1>2 DEF Proper
<1> SUFFICES Proper(c, Advance(x), items, metrics)
  BY <1>1, QuietPass
<1> HIDE DEF x
<1>4. CASE x.phase = "request" /\ x.at \in {5, 10, 12, 19}
  BY <1>2, <1>3, <1>4, StaysInRequest DEF Proper, InRequest
<1>5. CASE x.phase = "exception" /\ x.at <= 2
  BY <1>2, <1>3, <1>5, ExceptionGoesOn DEF Proper, InException
<1>6. CASE x.phase = "response" /\ x.at \in {2, 4, 6}
  BY <1>2, <1>3, <1>6, ResponseGoesOn DEF Proper, InResponse
<1>7. CASE x.phase = "final"
  BY <1>2, <1>3, <1>7, FinalGoesOn DEF Proper, InFinal
<1> QED  BY <1>1, <1>2, <1>4, <1>5, <1>6, <1>7 DEF Place

-----------------------------------------------------------------------------
(* The handlers up to parse_service_request. *)
LEMMA EarlyPass ==
  ASSUME IInv, NEW c \in Clients, NEW h \in EarlyHandlers \cup {"parse_service_request"}, At(c, h),
         NEW y, Pass(c, y), UNCHANGED <<items, metrics>>,
         Continues(exchanges[c], y) \/ Ends(exchanges[c], y)
  PROVE  IInv'
<1>1. Early(c, exchanges[c], items, metrics)
  BY EarlyHandler
<1>2. Proper(c, Advance(y), items, metrics)
  BY <1>1, EarlyContinues, EarlyEnds
<1> QED  BY <1>2, QuietPass

LEMMA EarlyRaise ==
  ASSUME IInv, NEW c \in Clients, NEW h \in EarlyHandlers \cup {"parse_service_request"}, At(c, h),
         NEW y, NEW type, type \notin {"none", "ServiceException"}, Raise(c, y, Failure(type)),
         UNCHANGED <<items, metrics>>, Continues(exchanges[c], y)
  PROVE  IInv'
<1>1. Early(c, exchanges[c], items, metrics)
  BY EarlyHandler
<1>2. Proper(c, Thrown(y, Failure(type)), items, metrics)
  BY <1>1, EarlyRaises
<1> QED  BY <1>2, QuietRaise

LEMMA EarlyFields ==
  ASSUME IInv, NEW c \in Clients, NEW h \in EarlyHandlers \cup {"parse_service_request"}, At(c, h)
  PROVE  /\ DOMAIN exchanges[c] = Fields /\ exchanges[c].internal \in BOOLEAN
         /\ Continues(exchanges[c], exchanges[c])
<1>1. DOMAIN exchanges[c] = Fields /\ exchanges[c].internal \in BOOLEAN
  BY EarlyHandler DEF Early, Proper, Shape
<1> QED  BY <1>1 DEF Continues, Kept

LEMMA AddInternalRequestParamsStep ==
  ASSUME IInv, NEW c \in Clients, AddInternalRequestParams(c)
  PROVE  IInv'
<1> DEFINE x == exchanges[c]
           y == [x EXCEPT !.internal = x.req.internal = "valid"]
<1>1. At(c, "add_internal_request_params") /\ Pass(c, y) /\ UNCHANGED <<items, metrics>>
  BY DEF AddInternalRequestParams, AloneWith
<1>2. DOMAIN x = Fields
  BY <1>1, EarlyFields DEF EarlyHandlers
<1>3. Continues(x, y)
  BY <1>2 DEF Continues, Kept, Fields
<1> QED  BY <1>1, <1>3, EarlyPass DEF EarlyHandlers

LEMMA HandleRuntimeShutdownStep ==
  ASSUME IInv, NEW c \in Clients, HandleRuntimeShutdown(c)
  PROVE  IInv'
<1> DEFINE x == exchanges[c]
<1>1. At(c, "handle_runtime_shutdown") /\ UNCHANGED <<items, metrics>>
  BY DEF HandleRuntimeShutdown, AloneWith
<1>2. Pass(c, x) \/ Pass(c, Respond(x, 503))
  BY DEF HandleRuntimeShutdown
<1>3. DOMAIN x = Fields /\ x.internal \in BOOLEAN /\ Continues(x, x)
  BY <1>1, EarlyFields DEF EarlyHandlers
<1>4. Ends(x, Respond(x, 503))
  BY <1>3 DEF Ends, Kept, Fields, Respond
<1> QED  BY <1>1, <1>2, <1>3, <1>4, EarlyPass DEF EarlyHandlers

LEMMA CreateMetricHandlerItemStep ==
  ASSUME IInv, NEW c \in Clients, CreateMetricHandlerItem(c)
  PROVE  IInv'
<1> DEFINE x == exchanges[c]
<1>1. /\ At(c, "create_metric_handler_item") /\ Pass(c, x) /\ UNCHANGED metrics
      /\ items' = items \/ items' = With(items, c, {})
  BY DEF CreateMetricHandlerItem
<1>2. Continues(x, x) /\ Early(c, x, items, metrics)
  BY <1>1, EarlyFields, EarlyHandler DEF EarlyHandlers
<1>3. Proper(c, Advance(x), items', metrics')
  BY <1>1, <1>2, EarlyContinues
<1>4. \A d \in Clients \ {c} : /\ d \in DOMAIN items' <=> d \in DOMAIN items
                               /\ d \in DOMAIN items => items'[d] = items[d]
  BY <1>1 DEF With
<1> QED  BY <1>1, <1>3, <1>4, OneClient DEF Pass

LEMMA RequireServiceEnds ==
  ASSUME NEW c, NEW y, RequireService(c, y)
  PROVE  \/ Pass(c, y) \/ Raise(c, y, Failure("NotImplementedError")) \/ Raise(c, y, Failure("Exception"))
  BY DEF RequireService

LEMMA LoadServiceForDataPlaneStep ==
  ASSUME IInv, NEW c \in Clients, LoadServiceForDataPlane(c)
  PROVE  IInv'
<1> DEFINE x == exchanges[c]
           model == DataPlane(x.req)
           y == [x EXCEPT !.service = model.name, !.model = model]
<1>1. At(c, "load_service_for_data_plane") /\ UNCHANGED <<items, metrics>>
  BY DEF LoadServiceForDataPlane
<1>2. Pass(c, x) \/ RequireService(c, y)
  BY DEF LoadServiceForDataPlane
<1>3. DOMAIN x = Fields /\ x.internal \in BOOLEAN /\ Continues(x, x)
  BY <1>1, EarlyFields DEF EarlyHandlers
<1>4. Continues(x, y)
  BY <1>3 DEF Continues, Kept, Fields
<1>5. Pass(c, x) \/ Pass(c, y) \/ Raise(c, y, Failure("NotImplementedError"))
        \/ Raise(c, y, Failure("Exception"))
  BY <1>2, RequireServiceEnds
<1> HIDE DEF y
<1> QED  BY <1>1, <1>3, <1>4, <1>5, EarlyPass, EarlyRaise DEF EarlyHandlers

LEMMA EnforceCorsStep ==
  ASSUME IInv, NEW c \in Clients, EnforceCors(c)
  PROVE  IInv'
<1> DEFINE x == exchanges[c]
           y == [x EXCEPT !.status = 403, !.terminated = TRUE]
<1>1. At(c, "enforce_cors") /\ UNCHANGED <<items, metrics>>
  BY DEF EnforceCors, AloneWith
<1>2. Pass(c, x) \/ Pass(c, y) \/ Pass(c, Respond(x, 204))
  BY DEF EnforceCors
<1>3. DOMAIN x = Fields /\ x.internal \in BOOLEAN /\ Continues(x, x)
  BY <1>1, EarlyFields DEF EarlyHandlers
<1>4. Ends(x, y) /\ Ends(x, Respond(x, 204))
  BY <1>3 DEF Ends, Kept, Fields, Respond
<1> QED  BY <1>1, <1>2, <1>3, <1>4, EarlyPass DEF EarlyHandlers

LEMMA DecodeContentStep ==
  ASSUME IInv, NEW c \in Clients, DecodeContent(c)
  PROVE  IInv'
<1> DEFINE x == exchanges[c]
<1>1. At(c, "content_decoder") /\ UNCHANGED <<items, metrics>>
  BY DEF DecodeContent, AloneWith
<1>2. PICK encoding : Pass(c, [x EXCEPT !.encoding = encoding])
  BY DEF DecodeContent
<1>3. DOMAIN x = Fields /\ x.internal \in BOOLEAN
  BY <1>1, EarlyFields DEF EarlyHandlers
<1>4. Continues(x, [x EXCEPT !.encoding = encoding])
  BY <1>3 DEF Continues, Kept, Fields
<1> QED  BY <1>1, <1>2, <1>4, EarlyPass DEF EarlyHandlers

LEMMA ValidateRequestSchemaStep ==
  ASSUME IInv, NEW c \in Clients, ValidateRequestSchema(c)
  PROVE  IInv'
<1> DEFINE x == exchanges[c]
           y == [Answer(x, 400, "plain") EXCEPT !.stopped = TRUE]
<1>1. At(c, "validate_request_schema") /\ UNCHANGED <<items, metrics>>
  BY DEF ValidateRequestSchema, AloneWith
<1>2. Pass(c, x) \/ Pass(c, y)
  BY DEF ValidateRequestSchema
<1>3. DOMAIN x = Fields /\ x.internal \in BOOLEAN /\ Continues(x, x)
  BY <1>1, EarlyFields DEF EarlyHandlers
<1>4. Ends(x, y)
  BY <1>3 DEF Ends, Kept, Fields, Answer
<1> QED  BY <1>1, <1>2, <1>3, <1>4, EarlyPass DEF EarlyHandlers

LEMMA ServeLocalstackResourcesStep ==
  ASSUME IInv, NEW c \in Clients, ServeLocalstackResources(c)
  PROVE  IInv'
<1> DEFINE x == exchanges[c]
           y == [Answer(x, 200, "plain") EXCEPT !.stopped = TRUE]
<1>1. At(c, "serve_localstack_resources") /\ UNCHANGED <<items, metrics>>
  BY DEF ServeLocalstackResources, AloneWith
<1>2. Pass(c, x) \/ Pass(c, y) \/ Pass(c, Respond(x, 404)) \/ Raise(c, x, Failure("MethodNotAllowed"))
  BY DEF ServeLocalstackResources
<1>3. DOMAIN x = Fields /\ x.internal \in BOOLEAN /\ Continues(x, x)
  BY <1>1, EarlyFields DEF EarlyHandlers
<1>4. Ends(x, y) /\ Ends(x, Respond(x, 404))
  BY <1>3 DEF Ends, Kept, Fields, Answer, Respond
<1> HIDE DEF y
<1> QED  BY <1>1, <1>2, <1>3, <1>4, EarlyPass, EarlyRaise DEF EarlyHandlers

LEMMA ParseServiceNameStep ==
  ASSUME IInv, NEW c \in Clients, ParseServiceName(c)
  PROVE  IInv'
<1> DEFINE x == exchanges[c]
           Named(model) == [x EXCEPT !.service = model.name, !.model = model]
<1>1. At(c, "parse_service_name") /\ UNCHANGED <<items, metrics>>
  BY DEF ParseServiceName, AloneWith
<1>2. \/ Pass(c, x) \/ Raise(c, x, Failure("Exception")) \/ WithProtocol(c, x)
      \/ \E model : WithProtocol(c, Named(model))
  BY DEF ParseServiceName
<1>3. DOMAIN x = Fields /\ x.internal \in BOOLEAN /\ Continues(x, x)
  BY <1>1, EarlyFields DEF EarlyHandlers
<1>4. ASSUME NEW y, Continues(x, y), WithProtocol(c, y)
      PROVE  IInv'
  <2>1. PICK protocol :
          Raise(c, y, Failure("ProtocolError")) \/ Pass(c, [y EXCEPT !.protocol = protocol])
    BY <1>4 DEF WithProtocol
  <2>2. Continues(x, [y EXCEPT !.protocol = protocol])
    BY <1>4 DEF Continues, Kept, Fields
  <2> HIDE DEF x
  <2> QED  BY <1>1, <1>4, <2>1, <2>2, EarlyPass, EarlyRaise DEF EarlyHandlers, x
<1>5. ASSUME NEW model PROVE Continues(x, Named(model))
  BY <1>3 DEF Continues, Kept, Fields
<1> HIDE DEF Named
<1>6. CASE Pass(c, x) \/ Raise(c, x, Failure("Exception"))
  BY <1>1, <1>3, <1>6, EarlyPass, EarlyRaise DEF EarlyHandlers
<1>7. CASE WithProtocol(c, x)
  BY <1>3, <1>4, <1>7
<1>8. CASE \E model : WithProtocol(c, Named(model))
  BY <1>4, <1>5, <1>8
<1> QED  BY <1>2, <1>6, <1>7, <1>8

LEMMA InjectAuthStep ==
  ASSUME IInv, NEW c \in Clients, InjectAuthHeaderIfMissing(c)
  PROVE  IInv'
<1> DEFINE x == exchanges[c]
           y == [x EXCEPT !.auth = Identity!MockAuth(x.service)]
<1>1. At(c, "inject_auth_header_if_missing") /\ UNCHANGED <<items, metrics>>
  BY DEF InjectAuthHeaderIfMissing, AloneWith
<1>2. Pass(c, Identity!InjectAuth(x))
  BY DEF InjectAuthHeaderIfMissing
<1>3. Identity!InjectAuth(x) = x \/ Identity!InjectAuth(x) = y
  BY Zenon DEF Identity!InjectAuth
<1>4. DOMAIN x = Fields /\ x.internal \in BOOLEAN /\ Continues(x, x)
  BY <1>1, EarlyFields DEF EarlyHandlers
<1>5. Continues(x, y)
  BY <1>4 DEF Continues, Kept, Fields
<1> HIDE DEF y
<1> QED  BY <1>1, <1>2, <1>3, <1>4, <1>5, EarlyPass DEF EarlyHandlers

LEMMA AddRegionStep ==
  ASSUME IInv, NEW c \in Clients, AddRegionFromHeader(c)
  PROVE  IInv'
<1> DEFINE x == exchanges[c]
<1>1. At(c, "add_region_from_header") /\ UNCHANGED <<items, metrics>>
  BY DEF AddRegionFromHeader, AloneWith
<1>2. PICK region, partition : Pass(c, [x EXCEPT !.region = region, !.partition = partition])
  BY DEF AddRegionFromHeader, Identity!AddRegion
<1>3. DOMAIN x = Fields /\ x.internal \in BOOLEAN
  BY <1>1, EarlyFields DEF EarlyHandlers
<1>4. Continues(x, [x EXCEPT !.region = region, !.partition = partition])
  BY <1>3 DEF Continues, Kept, Fields
<1> QED  BY <1>1, <1>2, <1>4, EarlyPass DEF EarlyHandlers

LEMMA RewriteRegionStep ==
  ASSUME IInv, NEW c \in Clients, RewriteRegion(c)
  PROVE  IInv'
<1> DEFINE x == exchanges[c]
           y(region, auth) == [x EXCEPT !.region = region, !.partition = "aws", !.auth = auth]
<1>1. At(c, "rewrite_region") /\ UNCHANGED <<items, metrics>>
  BY DEF RewriteRegion, AloneWith
<1>2. Pass(c, x) \/ \E region, auth : Pass(c, y(region, auth))
  BY DEF RewriteRegion, Identity!RewriteRegion
<1>3. DOMAIN x = Fields /\ x.internal \in BOOLEAN /\ Continues(x, x)
  BY <1>1, EarlyFields DEF EarlyHandlers
<1>4. ASSUME NEW region, NEW auth PROVE Continues(x, y(region, auth))
  BY <1>3 DEF Continues, Kept, Fields
<1> HIDE DEF y
<1> QED  BY <1>1, <1>2, <1>3, <1>4, EarlyPass DEF EarlyHandlers

LEMMA AddAccountStep ==
  ASSUME IInv, NEW c \in Clients, AddAccountId(c)
  PROVE  IInv'
<1> DEFINE x == exchanges[c]
<1>1. At(c, "add_account_id") /\ UNCHANGED <<items, metrics>>
  BY DEF AddAccountId, AloneWith
<1>2. PICK account : Pass(c, [x EXCEPT !.account = account])
  BY DEF AddAccountId, Identity!AddAccount
<1>3. DOMAIN x = Fields /\ x.internal \in BOOLEAN
  BY <1>1, EarlyFields DEF EarlyHandlers
<1>4. Continues(x, [x EXCEPT !.account = account])
  BY <1>3 DEF Continues, Kept, Fields
<1> QED  BY <1>1, <1>2, <1>4, EarlyPass DEF EarlyHandlers

(* The operation is known from here on, and its parameters with it.        *)
LEMMA ParseServiceRequestStep ==
  ASSUME IInv, NEW c \in Clients, ParseServiceRequest(c)
  PROVE  IInv'
<1> DEFINE x == exchanges[c]
           y(operation) == [x EXCEPT !.operation = operation, !.parameters = x.req.parameters]
<1>1. At(c, "parse_service_request") /\ UNCHANGED <<items, metrics>>
  BY DEF ParseServiceRequest, AloneWith
<1>2. \/ Pass(c, x) \/ Raise(c, x, Failure("RequestParserError"))
      \/ x.service # Unset /\ \E operation : Pass(c, y(operation))
  BY DEF ParseServiceRequest
<1>3. DOMAIN x = Fields /\ x.internal \in BOOLEAN /\ Continues(x, x)
  BY <1>1, EarlyFields
<1>4. ASSUME NEW operation, x.service # Unset, Pass(c, y(operation))
      PROVE  IInv'
  <2> DEFINE z == y(operation)
  <2>1. /\ Proper(c, x, items, metrics) /\ x.phase = "request" /\ x.at = 17
    BY <1>1, Running DEF Place
  <2>2. Early(c, x, items, metrics)
    BY <1>1, EarlyHandler
  <2>3. /\ DOMAIN z = Fields /\ z.phase = "request" /\ z.at = 17 /\ z.req = x.req /\ z.error = x.error
        /\ z.stopped = x.stopped /\ z.terminated = x.terminated /\ z.internal = x.internal
        /\ z.service = x.service /\ z.operation = operation /\ z.parameters = x.req.parameters
        /\ z.response = x.response /\ z.status = x.status /\ z.body = x.body /\ z.reached = x.reached
    BY <1>3, <2>1 DEF Fields
  <2> HIDE DEF z
  <2>4. Shape(c, x) /\ x.error = NoError /\ x.body = Unset /\ x.stopped = FALSE /\ x.terminated = FALSE
    BY <2>1, <2>2, NoOperationYet DEF Proper
  <2> HIDE DEF x
  <2>5. Shape(c, z)
    BY <1>4, <2>3, <2>4 DEF Shape
  <2>6. Proper(c, Advance(z), items, metrics)
    BY <2>3, <2>4, <2>5, StaysInRequest
  <2> QED  BY <1>1, <1>4, <2>6, QuietPass DEF z
<1> HIDE DEF y
<1> QED  BY <1>1, <1>2, <1>3, <1>4, EarlyPass, EarlyRaise

-----------------------------------------------------------------------------
(* The handlers that know the operation. *)
LEMMA RecordParsedRequestStep ==
  ASSUME IInv, NEW c \in Clients, RecordParsedRequest(c)
  PROVE  IInv'
<1> DEFINE x == exchanges[c]
<1>1. /\ At(c, "record_parsed_request") /\ Pass(c, x) /\ metrics' = metrics
      /\ items' = IF CollectMetrics THEN With(items, c, x.parameters) ELSE items
  BY DEF RecordParsedRequest
<1>2. Proper(c, x, items, metrics) /\ x.phase = "request" /\ x.at = 18
  BY <1>1, Running DEF Place
<1>3. \A d \in Clients \ {c} : /\ d \in DOMAIN items' <=> d \in DOMAIN items
                               /\ d \in DOMAIN items => items'[d] = items[d]
  BY <1>1 DEF With
<1>4. CollectMetrics => c \in DOMAIN items' /\ items'[c] = x.parameters
  BY <1>1 DEF With
<1> SUFFICES Proper(c, Advance(x), items', metrics')
  BY <1>1, <1>3, OneClient DEF Pass
<1> HIDE DEF x
<1>5. Shape(c, x) /\ InRequest(c, x, items)
  BY <1>2 DEF Proper
<1>6. Recorded(c, x, items')
  BY <1>4, <1>5 DEF Shape, Recorded
<1> QED  BY <1>2, <1>5, <1>6, StaysInRequest DEF InRequest

LEMMA LoadServiceStep ==
  ASSUME IInv, NEW c \in Clients, LoadService(c)
  PROVE  IInv'
<1> DEFINE x == exchanges[c]
<1>1. At(c, "load_service") /\ UNCHANGED <<items, metrics>>
  BY DEF LoadService
<1>2. Pass(c, x) \/ Raise(c, x, Failure("NotImplementedError")) \/ Raise(c, x, Failure("Exception"))
  BY RequireServiceEnds DEF LoadService
<1>3. Proper(c, x, items, metrics) /\ x.phase = "request" /\ x.at = 20
  BY <1>1, Running DEF Place
<1>4. Shape(c, x) /\ InRequest(c, x, items)
  BY <1>3 DEF Proper
<1>5. Proper(c, Advance(x), items, metrics)
  BY <1>3, <1>4, StaysInRequest DEF InRequest
<1>6. ASSUME NEW type, type \notin {"none", "ServiceException"}
      PROVE  Proper(c, Thrown(x, Failure(type)), items, metrics)
  BY <1>3, <1>4, <1>6, RaisesInRequest DEF InRequest
<1> HIDE DEF x
<1> QED  BY <1>1, <1>2, <1>5, <1>6, QuietPass, QuietRaise

(* Whatever the provider does, the skeleton answers or raises what it raised. *)
LEMMA InvokeAnswers ==
  ASSUME NEW c \in Clients, NEW r \in RequestsOf[c], NEW outcome \in r.outcomes,
         NEW table, NEW operation, NEW parameters
  PROVE  LET answer == Invoke(table, operation, parameters, outcome)
         IN  \/ /\ answer.kind = "raised" /\ answer.exception \notin {"none", "ServiceException"}
                /\ answer.exception = "TypeError" \/ (outcome.kind = "raise" /\ answer.exception = outcome.code)
             \/ answer.kind = "response" /\ answer.status \in Nat /\ answer.result \in BOOLEAN
<1> DEFINE answer == Invoke(table, operation, parameters, outcome)
<1>1. /\ outcome.kind \in {"result", "http", "service", "not_implemented", "raise"}
      /\ outcome.kind \in {"http", "service"} => outcome.status \in Nat
      /\ outcome.kind = "raise" => outcome.code \notin {"none", "ServiceException"}
  BY OutcomesAssumption
<1>2. \/ answer = NotImplementedAnswer
      \/ answer = Raised("TypeError")
      \/ answer = Answered(200, NoException, TRUE)
      \/ outcome.kind = "http" /\ answer = Answered(outcome.status, NoException, FALSE)
      \/ outcome.kind = "service" /\ answer = Answered(outcome.status, outcome.code, FALSE)
      \/ outcome.kind = "raise" /\ answer = Raised(outcome.code)
  <2>1. CASE operation \notin DOMAIN table
    BY <2>1 DEF Invoke
  <2>2. CASE operation \in DOMAIN table /\ CallFails(table[operation], parameters)
    BY <2>2 DEF Invoke
  <2>3. CASE operation \in DOMAIN table /\ ~CallFails(table[operation], parameters)
    <3>1. \/ outcome.kind = "result" /\ answer = Answered(200, NoException, TRUE)
          \/ outcome.kind = "http" /\ answer = Answered(outcome.status, NoException, FALSE)
          \/ outcome.kind = "service" /\ answer = Answered(outcome.status, outcome.code, FALSE)
          \/ outcome.kind = "not_implemented" /\ answer = NotImplementedAnswer
          \/ outcome.kind = "raise" /\ answer = Raised(outcome.code)
      <4>1. CASE outcome.kind = "result"
        BY <2>3, <4>1 DEF Invoke
      <4>2. CASE outcome.kind = "http"
        BY <2>3, <4>2 DEF Invoke
      <4>3. CASE outcome.kind = "service"
        BY <2>3, <4>3 DEF Invoke
      <4>4. CASE outcome.kind = "not_implemented"
        BY <2>3, <4>4 DEF Invoke
      <4>5. CASE outcome.kind = "raise"
        BY <2>3, <4>5 DEF Invoke
      <4> QED  BY <1>1, <4>1, <4>2, <4>3, <4>4, <4>5
    <3> QED  BY <3>1
  <2> QED  BY <2>1, <2>2, <2>3
<1> HIDE DEF answer
<1>3. \/ /\ answer.kind = "raised" /\ answer.exception \notin {"none", "ServiceException"}
         /\ answer.exception = "TypeError" \/ (outcome.kind = "raise" /\ answer.exception = outcome.code)
      \/ answer.kind = "response" /\ answer.status \in Nat /\ answer.result \in BOOLEAN
  <2>1. CASE answer = NotImplementedAnswer
    BY <2>1 DEF NotImplementedAnswer, Answered
  <2>2. CASE answer = Raised("TypeError")
    BY <2>2 DEF Raised
  <2>3. CASE answer = Answered(200, NoException, TRUE)
    BY <2>3 DEF Answered
  <2>4. CASE outcome.kind = "http" /\ answer = Answered(outcome.status, NoException, FALSE)
    BY <1>1, <2>4 DEF Answered
  <2>5. CASE outcome.kind = "service" /\ answer = Answered(outcome.status, outcome.code, FALSE)
    BY <1>1, <2>5 DEF Answered
  <2>6. CASE outcome.kind = "raise" /\ answer = Raised(outcome.code)
    BY <1>1, <2>6 DEF Raised
  <2> QED  BY <1>2, <2>1, <2>2, <2>3, <2>4, <2>5, <2>6
<1> QED  BY <1>3 DEF answer

LEMMA RouteServiceRequestStep ==
  ASSUME IInv, NEW c \in Clients, RouteServiceRequest(c)
  PROVE  IInv'
<1> DEFINE x == exchanges[c]
           refused == [Answer(x, 501, BodyOf(x)) EXCEPT !.stopped = TRUE]
           reached == [x EXCEPT !.reached = TRUE]
           answered(answer) == [Answer(reached, answer.status, BodyOf(x)) EXCEPT
                                  !.response = answer.result, !.exception = answer.exception]
<1>1. At(c, "service_request_router") /\ UNCHANGED <<items, metrics>>
  BY DEF RouteServiceRequest, AloneWith
<1>2. Proper(c, x, items, metrics) /\ x.phase = "request" /\ x.at = 21
  BY <1>1, Running DEF Place
<1>3. /\ Shape(c, x) /\ DOMAIN x = Fields /\ Recorded(c, x, items) /\ x.error = NoError /\ x.body = Unset
      /\ x.stopped = FALSE /\ x.terminated = FALSE
  <2>1. Shape(c, x) /\ InRequest(c, x, items)
    BY <1>2 DEF Proper
  <2> QED  BY <1>2, <2>1 DEF Shape, InRequest
<1>4. CASE x.service = Unset /\ Pass(c, x)
  <2>1. x.operation = Unset
    BY <1>3, <1>4 DEF Shape
  <2>2. Proper(c, Advance(x), items, metrics)
    BY <1>2, <1>3, <2>1, StaysInRequest
  <2> QED  BY <1>1, <1>4, <2>2, QuietPass
<1>5. CASE Pass(c, refused)
  <2>1. /\ DOMAIN refused = Fields /\ refused.phase = "request" /\ refused.at = 21 /\ refused.stopped = TRUE
        /\ refused.terminated = FALSE /\ refused.error = NoError /\ refused.status = 501
        /\ refused.req = x.req /\ refused.internal = x.internal /\ refused.service = x.service
        /\ refused.operation = x.operation /\ refused.parameters = x.parameters
        /\ refused.response = x.response /\ refused.reached = x.reached
    BY <1>2, <1>3 DEF Answer, Fields
  <2> HIDE DEF refused, x
  <2>2. Shape(c, refused)
    <3>a. refused.stopped \in BOOLEAN /\ refused.terminated \in BOOLEAN
      BY <2>1, Zenon
    <3>b. 501 \in Nat
      OBVIOUS
    <3>c. refused.status = 501
      BY <2>1, Zenon
    <3>1. refused.stopped \in BOOLEAN /\ refused.terminated \in BOOLEAN /\ refused.status \in Nat
      BY <3>a, <3>b, <3>c, Zenon
    <3>2. /\ refused.req \in RequestsOf[c] /\ refused.internal \in BOOLEAN
          /\ refused.response \in BOOLEAN /\ refused.reached \in BOOLEAN
      BY <1>3, <2>1 DEF Shape
    <3>3. refused.operation # Unset => refused.service # Unset /\ refused.parameters = refused.req.parameters
      BY <1>3, <2>1 DEF Shape
    <3> QED  BY <2>1, <3>1, <3>2, <3>3 DEF Shape
  <2>3. Recorded(c, refused, items) /\ WellAnswered(refused)
    BY <1>3, <2>1 DEF Recorded, WellAnswered
  <2>4. Proper(c, Advance(refused), items, metrics)
    BY <2>1, <2>2, <2>3, LeavesRequest
  <2> QED  BY <1>1, <1>5, <2>4, QuietPass
<1>6. ASSUME NEW outcome \in x.req.outcomes, NEW answer,
             answer = Invoke(Tables[x.service], x.operation, x.parameters, outcome),
             IF answer.kind = "raised" THEN Raise(c, reached, Failure(answer.exception))
             ELSE Pass(c, answered(answer))
      PROVE  IInv'
  <2>1. \/ answer.kind = "raised" /\ answer.exception \notin {"none", "ServiceException"}
        \/ answer.kind = "response" /\ answer.status \in Nat /\ answer.result \in BOOLEAN
    BY <1>3, <1>6, InvokeAnswers DEF Shape
  <2>2. CASE answer.kind = "raised" /\ answer.exception \notin {"none", "ServiceException"}
    <3>1. /\ DOMAIN reached = Fields /\ reached.phase = "request" /\ reached.at = 21
          /\ reached.stopped = FALSE /\ reached.terminated = FALSE /\ reached.body = Unset
          /\ reached.status = x.status /\ reached.reached = TRUE
          /\ reached.req = x.req /\ reached.internal = x.internal /\ reached.service = x.service
          /\ reached.operation = x.operation /\ reached.parameters = x.parameters
          /\ reached.response = x.response
      BY <1>2, <1>3 DEF Fields
    <3>2. Raise(c, reached, Failure(answer.exception))
      BY <1>6, <2>2
    <3> HIDE DEF reached
    <3>3. Shape(c, reached) /\ Recorded(c, reached, items)
      BY <1>3, <3>1 DEF Shape, Recorded
    <3>4. Proper(c, Thrown(reached, Failure(answer.exception)), items, metrics)
      BY <2>2, <3>1, <3>3, RaisesInRequest
    <3> QED  BY <1>1, <3>2, <3>4, QuietRaise
  <2>3. CASE answer.kind = "response" /\ answer.status \in Nat /\ answer.result \in BOOLEAN
    <3> DEFINE y == answered(answer)
    <3>1. /\ DOMAIN y = Fields /\ y.phase = "request" /\ y.at = 21
          /\ y.stopped = FALSE /\ y.terminated = FALSE /\ y.error = NoError
          /\ y.status = answer.status /\ y.reached = TRUE
          /\ y.req = x.req /\ y.internal = x.internal /\ y.service = x.service
          /\ y.operation = x.operation /\ y.parameters = x.parameters
          /\ y.response = answer.result
      BY <1>2, <1>3 DEF Answer, Fields
    <3>2. Pass(c, y)
      BY <1>6, <2>3
    <3> HIDE DEF y
    <3>3. Shape(c, y) /\ Recorded(c, y, items)
      BY <1>3, <2>3, <3>1 DEF Shape, Recorded
    <3>4. Proper(c, Advance(y), items, metrics)
      BY <3>1, <3>3, StaysInRequest
    <3> QED  BY <1>1, <3>2, <3>4, QuietPass
  <2> QED  BY <2>1, <2>2, <2>3
<1>7. \/ x.service = Unset /\ Pass(c, x)
      \/ Pass(c, refused)
      \/ \E outcome \in x.req.outcomes :
           LET answer == Invoke(Tables[x.service], x.operation, x.parameters, outcome)
           IN  IF answer.kind = "raised" THEN Raise(c, reached, Failure(answer.exception))
               ELSE Pass(c, answered(answer))
  BY DEF RouteServiceRequest
<1> HIDE DEF refused, reached, answered
<1> QED  BY <1>4, <1>5, <1>6, <1>7

LEMMA RespondEmptyStep ==
  ASSUME IInv, NEW c \in Clients, RespondEmpty(c)
  PROVE  IInv'
<1> DEFINE x == exchanges[c]
           y == IF x.status = 0 THEN Answer(x, 404, "plain") ELSE x
<1>1. At(c, "empty_response") /\ Pass(c, y) /\ UNCHANGED <<items, metrics>>
  BY DEF RespondEmpty, AloneWith
<1>2. Proper(c, x, items, metrics) /\ x.phase = "request" /\ x.at = 22
  BY <1>1, Running DEF Place
<1>3. Shape(c, x) /\ InRequest(c, x, items)
  BY <1>2 DEF Proper
<1>4. /\ DOMAIN y = Fields /\ y.phase = "request" /\ y.at = 22
      /\ y.stopped = x.stopped /\ y.terminated = x.terminated /\ y.error = x.error
      /\ y.status \in Nat /\ y.status # 0 /\ y.reached = x.reached
      /\ y.req = x.req /\ y.internal = x.internal /\ y.service = x.service
      /\ y.operation = x.operation /\ y.parameters = x.parameters /\ y.response = x.response
  BY <1>2, <1>3 DEF Answer, Fields, Shape
<1> HIDE DEF y, x
<1>5. Shape(c, y)
  BY <1>3, <1>4 DEF Shape
<1>6. Recorded(c, y, items)
  BY <1>2, <1>3, <1>4 DEF InRequest, Recorded
<1>7. WellAnswered(y) /\ y.error = NoError
  BY <1>2, <1>3, <1>4 DEF InRequest, WellAnswered
<1>8. Proper(c, Advance(y), items, metrics)
  BY <1>4, <1>5, <1>6, <1>7, LeavesRequest
<1> QED  BY <1>1, <1>8, QuietPass

-----------------------------------------------------------------------------
(* The exception handlers. *)
LEMMA Bodies ==
  "plain" # Unset /\ (\A x : BodyOf(x) # Unset)
<1>1. "plain" # Unset /\ "aws" # Unset /\ "binary" # Unset
  BY Zenon DEF Unset
<1>2. \A x : BodyOf(x) = "aws" \/ BodyOf(x) = "binary"
  BY DEF BodyOf
<1> QED  BY <1>1, <1>2, Zenon

LEMMA ErrorsAreAnswered ==
  ASSUME NEW x, Unexpected(x.error)
  PROVE  ErrorOf(x).status \in {500, 501} /\ ErrorOf(x).code # NoException
<1>1. x.error.type # "ServiceException"
  BY DEF Unexpected, Failure
<1>2. \/ ErrorOf(x) = ServiceError("InternalFailure", 501)
      \/ ErrorOf(x) = ServiceError("InternalError", 501)
      \/ ErrorOf(x) = ServiceError("InternalError", 500)
  BY <1>1 DEF ErrorOf
<1> HIDE DEF ErrorOf
<1>3. CASE ErrorOf(x) = ServiceError("InternalFailure", 501)
  BY <1>3 DEF ServiceError, NoException
<1>4. CASE ErrorOf(x) = ServiceError("InternalError", 501)
  BY <1>4 DEF ServiceError, NoException
<1>5. CASE ErrorOf(x) = ServiceError("InternalError", 500)
  BY <1>5 DEF ServiceError, NoException
<1> QED  BY <1>2, <1>3, <1>4, <1>5

LEMMA HandleServiceExceptionStep ==
  ASSUME IInv, NEW c \in Clients, HandleServiceException(c)
  PROVE  IInv'
<1> DEFINE x == exchanges[c]
           error == ErrorOf(x)
           y == [Answer(x, error.status, BodyOf(x)) EXCEPT !.exception = error.code]
<1>1. At(c, "handle_service_exception") /\ UNCHANGED <<items, metrics>>
  BY DEF HandleServiceException, AloneWith
<1>2. Pass(c, IF x.service = Unset THEN x ELSE y)
  BY DEF HandleServiceException
<1>3. Proper(c, x, items, metrics) /\ x.phase = "exception" /\ x.at = 3
  BY <1>1, Running DEF Place
<1>4. Shape(c, x) /\ InException(c, x, items)
  BY <1>3 DEF Proper
<1>5. CASE x.service = Unset
  <2>1. x.body = Unset
    BY <1>3, <1>4 DEF InException
  <2>2. Proper(c, Advance(x), items, metrics)
    BY <1>3, <1>4, <1>5, <2>1, ExceptionGoesOn DEF InException
  <2> QED  BY <1>1, <1>2, <1>5, <2>2, QuietPass
<1>6. CASE x.service # Unset
  <2>1. error.status \in {500, 501} /\ error.code # NoException
    BY <1>4, ErrorsAreAnswered DEF InException
  <2> HIDE DEF error
  <2>2. /\ DOMAIN y = Fields /\ y.phase = "exception" /\ y.at = 3
        /\ y.stopped = x.stopped /\ y.terminated = x.terminated /\ y.error = x.error
        /\ y.status = error.status /\ y.body = BodyOf(x) /\ y.exception = error.code
        /\ y.req = x.req /\ y.internal = x.internal /\ y.service = x.service
        /\ y.operation = x.operation /\ y.parameters = x.parameters
        /\ y.response = x.response /\ y.reached = x.reached
    BY <1>3, <1>4 DEF Answer, Fields, Shape
  <2>3. Pass(c, y)
    BY <1>2, <1>6
  <2> HIDE DEF x, y
  <2>4. Shape(c, y)
    BY <1>4, <2>1, <2>2 DEF Shape
  <2>5. Recorded(c, y, items) /\ Unexpected(y.error) /\ ~y.terminated
    BY <1>4, <2>2 DEF InException, Recorded
  <2>6. Served(y)
    BY <2>1, <2>2, Bodies DEF Served
  <2>7. Proper(c, Advance(y), items, metrics)
    BY <1>6, <2>2, <2>4, <2>5, <2>6, ExceptionGoesOn
  <2> QED  BY <1>1, <2>3, <2>7, QuietPass
<1> QED  BY <1>5, <1>6

LEMMA HandleInternalFailureStep ==
  ASSUME IInv, NEW c \in Clients, HandleInternalFailure(c)
  PROVE  IInv'
<1> DEFINE x == exchanges[c]
           y(status) == Answer(x, status, "plain")
<1>1. At(c, "handle_internal_failure") /\ UNCHANGED <<items, metrics>>
  BY DEF HandleInternalFailure, AloneWith
<1>2. \/ x.body # Unset /\ Pass(c, x)
      \/ x.body = Unset /\ (Pass(c, y(405)) \/ Pass(c, y(500)))
  BY DEF HandleInternalFailure
<1>3. Proper(c, x, items, metrics) /\ x.phase = "exception" /\ x.at = 4
  BY <1>1, Running DEF Place
<1>4. Shape(c, x) /\ InException(c, x, items)
  BY <1>3 DEF Proper
<1>5. CASE x.body # Unset /\ Pass(c, x)
  <2>1. Served(x)
    BY <1>3, <1>4, <1>5 DEF InException
  <2>2. Proper(c, Advance(x), items, metrics)
    BY <1>3, <1>4, <1>5, <2>1, ExceptionGoesOn DEF InException, Served
  <2> QED  BY <1>1, <1>5, <2>2, QuietPass
<1>6. ASSUME x.body = Unset, NEW status \in {405, 500}, Pass(c, y(status))
      PROVE  IInv'
  <2> DEFINE z == y(status)
  <2>0. x.service = Unset
    BY <1>3, <1>4, <1>6 DEF InException, Served
  <2>1. /\ DOMAIN z = Fields /\ z.phase = "exception" /\ z.at = 4
        /\ z.stopped = x.stopped /\ z.terminated = x.terminated /\ z.error = x.error
        /\ z.status = status /\ z.body = "plain"
        /\ z.req = x.req /\ z.internal = x.internal /\ z.service = x.service
        /\ z.operation = x.operation /\ z.parameters = x.parameters
        /\ z.response = x.response /\ z.exception = x.exception /\ z.reached = x.reached
    BY <1>3, <1>4 DEF Answer, Fields, Shape
  <2>2. Pass(c, z)
    BY <1>6
  <2> HIDE DEF x, z
  <2>3. Shape(c, z)
    BY <1>4, <2>1 DEF Shape
  <2>4. Recorded(c, z, items) /\ Unexpected(z.error) /\ ~z.terminated
    BY <1>4, <2>1 DEF InException, Recorded
  <2>5. Proper(c, Advance(z), items, metrics)
    BY <2>0, <2>1, <2>3, <2>4, Bodies, ExceptionGoesOn
  <2> QED  BY <1>1, <2>2, <2>5, QuietPass
<1> HIDE DEF y
<1> QED  BY <1>2, <1>5, <1>6

-----------------------------------------------------------------------------
(* The response handlers, which the tracing chain calls once more as       *)
(* finalizers.                                                             *)
Answering(c, x, its, ms) == Proper(c, x, its, ms) /\ x.phase \in {"response", "final"}

LEMMA AnswerGoesOn ==
  ASSUME NEW c, NEW x, NEW y, NEW its, NEW ms, Answering(c, x, its, ms), x.at <= 6,
         y.phase = x.phase, y.at = x.at, Shape(c, y), WellAnswered(y),
         x.phase = "response" => Recorded(c, y, its) /\ (x.at >= 3 => Settled(y)),
         x.phase = "final" => /\ y.terminated \/ Settled(y)
                              /\ Unmetered(y) \/ Metered(c, y, its, ms)
  PROVE  Proper(c, Advance(y), its, ms)
<1>1. CASE x.phase = "response"
  <2>1. y.phase = "response" /\ y.at \in 1..7 /\ y.at # 7
    BY <1>1 DEF Answering, Proper, InResponse
  <2> QED  BY <1>1, <2>1, ResponseGoesOn
<1>2. CASE x.phase = "final"
  <2>1. y.phase = "final" /\ y.at \in 1..Length("final")
    BY <1>2 DEF Answering, Proper, InFinal
  <2> QED  BY <1>2, <2>1, FinalGoesOn
<1> QED  BY <1>1, <1>2 DEF Answering

LEMMA Answers ==
  ASSUME NEW c, NEW x, NEW its, NEW ms, Answering(c, x, its, ms)
  PROVE  /\ Shape(c, x) /\ DOMAIN x = Fields /\ WellAnswered(x)
         /\ x.phase = "response" => x.terminated = FALSE /\ Recorded(c, x, its)
         /\ x.phase = "final" => /\ x.terminated = TRUE \/ Settled(x)
                                 /\ Unmetered(x) \/ Metered(c, x, its, ms)
  BY DEF Answering, Proper, Shape, InResponse, InFinal

LEMMA ValidateResponseSchemaStep ==
  ASSUME IInv, NEW c \in Clients, ValidateResponseSchema(c)
  PROVE  IInv'
<1> DEFINE x == exchanges[c]
           y == [Answer(x, 500, "plain") EXCEPT !.terminated = TRUE]
<1>1. At(c, "validate_response_schema") /\ UNCHANGED <<items, metrics>>
  BY DEF ValidateResponseSchema, AloneWith
<1>2. Pass(c, x) \/ Pass(c, y)
  BY DEF ValidateResponseSchema
<1>3. Answering(c, x, items, metrics) /\ x.at = 1
  BY <1>1, Running DEF Place, Answering
<1>0. /\ Shape(c, x) /\ DOMAIN x = Fields /\ WellAnswered(x) /\ x.phase \in {"response", "final"}
      /\ x.phase = "response" => x.terminated = FALSE /\ Recorded(c, x, items)
      /\ x.phase = "final" => /\ x.terminated = TRUE \/ Settled(x)
                              /\ Unmetered(x) \/ Metered(c, x, items, metrics)
  BY <1>3, Answers DEF Answering
<1>4. /\ DOMAIN y = Fields /\ y.phase = x.phase /\ y.at = x.at
      /\ y.stopped = x.stopped /\ y.terminated = TRUE /\ y.error = x.error
      /\ y.status = 500 /\ y.body = "plain"
      /\ y.req = x.req /\ y.internal = x.internal /\ y.service = x.service
      /\ y.operation = x.operation /\ y.parameters = x.parameters
      /\ y.response = x.response /\ y.exception = x.exception /\ y.reached = x.reached
  BY <1>0 DEF Answer, Fields
<1> HIDE DEF x, y
<1>5. Shape(c, y)
  <2>1. y.terminated \in BOOLEAN
    BY <1>4, Zenon
  <2>2. y.status \in Nat
    BY <1>4
  <2>3. y.operation # Unset => y.service # Unset /\ y.parameters = y.req.parameters
    BY <1>0, <1>4 DEF Shape
  <2>4. /\ y.req \in RequestsOf[c] /\ y.internal \in BOOLEAN /\ y.stopped \in BOOLEAN
        /\ y.response \in BOOLEAN /\ y.reached \in BOOLEAN
    BY <1>0, <1>4 DEF Shape
  <2> QED  BY <1>4, <2>1, <2>2, <2>3, <2>4 DEF Shape
<1>6. WellAnswered(y) /\ Unmetered(y)
  BY <1>0, <1>4, Bodies DEF WellAnswered, Unmetered
<1>7. x.phase = "response" => Recorded(c, y, items)
  <2>1. Recorded(c, x, items) => Recorded(c, y, items)
    BY <1>4 DEF Recorded
  <2> QED  BY <1>0, <2>1
<1>8. Proper(c, Advance(y), items, metrics)
  BY <1>3, <1>4, <1>5, <1>6, <1>7, AnswerGoesOn
<1>9. Proper(c, Advance(x), items, metrics)
  BY <1>0, <1>3, AnswerGoesOn
<1> QED  BY <1>1, <1>2, <1>8, <1>9, QuietPass DEF x

LEMMA ParseServiceResponseStep ==
  ASSUME IInv, NEW c \in Clients, ParseServiceResponse(c)
  PROVE  IInv'
<1> DEFINE x == exchanges[c]
           failed == [x EXCEPT !.exception = "parsed"]
           parsed == [x EXCEPT !.response = TRUE]
<1>1. At(c, "parse_service_response") /\ UNCHANGED <<items, metrics>>
  BY DEF ParseServiceResponse, AloneWith
<1>2. \/ Pass(c, x) /\ (x.operation = Unset \/ x.response \/ x.exception # NoException)
      \/ ~(x.operation = Unset \/ x.response \/ x.exception # NoException) /\ (Pass(c, failed) \/ Pass(c, parsed))
  BY DEF ParseServiceResponse
<1>3. Answering(c, x, items, metrics) /\ x.at = 3
  BY <1>1, Running DEF Place, Answering
<1>0. /\ Shape(c, x) /\ DOMAIN x = Fields /\ WellAnswered(x) /\ x.phase \in {"response", "final"}
      /\ x.phase = "response" => x.terminated = FALSE /\ Recorded(c, x, items)
      /\ x.phase = "final" => /\ x.terminated = TRUE \/ Settled(x)
                              /\ Unmetered(x) \/ Metered(c, x, items, metrics)
  BY <1>3, Answers DEF Answering
<1>4. CASE Pass(c, x) /\ (x.operation = Unset \/ x.response \/ x.exception # NoException)
  <2>1. Settled(x)
    BY <1>4 DEF Settled
  <2>2. Proper(c, Advance(x), items, metrics)
    BY <1>0, <1>3, <2>1, AnswerGoesOn
  <2> QED  BY <1>1, <1>4, <2>2, QuietPass
<1>5. ASSUME ~(x.operation = Unset \/ x.response \/ x.exception # NoException),
             NEW y, y = failed \/ y = parsed, Pass(c, y)
      PROVE  IInv'
  <2>2. /\ DOMAIN y = Fields /\ y.phase = x.phase /\ y.at = x.at
        /\ y.stopped = x.stopped /\ y.terminated = x.terminated /\ y.error = x.error
        /\ y.status = x.status /\ y.body = x.body
        /\ y.req = x.req /\ y.internal = x.internal /\ y.service = x.service
        /\ y.operation = x.operation /\ y.parameters = x.parameters /\ y.reached = x.reached
    BY <1>0, <1>5 DEF Fields
  <2>3. \/ y.exception = "parsed" /\ y.response = x.response
        \/ y.exception = x.exception /\ y.response = TRUE
    BY <1>0, <1>5 DEF Fields
  <2>4. "parsed" # NoException
    BY DEF NoException
  <2> HIDE DEF x
  <2>5. Shape(c, y)
    BY <1>0, <2>2, <2>3 DEF Shape
  <2>6. WellAnswered(y) /\ Settled(y)
    BY <1>0, <1>5, <2>2, <2>3, <2>4 DEF WellAnswered, Settled
  <2>7. x.phase = "response" => Recorded(c, y, items)
    BY <1>0, <2>2 DEF Recorded
  <2>8. x.phase = "final" => Unmetered(y)
    BY <1>0, <1>5, <2>2 DEF Settled, Unmetered
  <2>9. Proper(c, Advance(y), items, metrics)
    BY <1>3, <2>2, <2>5, <2>6, <2>7, <2>8, AnswerGoesOn
  <2> QED  BY <1>1, <1>5, <2>9, QuietPass
<1> HIDE DEF failed, parsed
<1> QED  BY <1>2, <1>4, <1>5

LEMMA AddCorsResponseHeadersStep ==
  ASSUME IInv, NEW c \in Clients, AddCorsResponseHeaders(c)
  PROVE  IInv'
<1> DEFINE x == exchanges[c]
<1>1. At(c, "add_cors_response_headers") /\ UNCHANGED <<items, metrics>>
  BY DEF AddCorsResponseHeaders, AloneWith
<1>2. PICK cors : Pass(c, [x EXCEPT !.cors = cors])
  BY DEF AddCorsResponseHeaders
<1> DEFINE y == [x EXCEPT !.cors = cors]
<1>3. Answering(c, x, items, metrics) /\ x.at = 5
  BY <1>1, Running DEF Place, Answering
<1>0. /\ Shape(c, x) /\ DOMAIN x = Fields /\ WellAnswered(x) /\ x.phase \in {"response", "final"}
      /\ x.phase = "response" => x.terminated = FALSE /\ Recorded(c, x, items)
      /\ x.phase = "final" => /\ x.terminated = TRUE \/ Settled(x)
                              /\ Unmetered(x) \/ Metered(c, x, items, metrics)
  BY <1>3, Answers DEF Answering
<1>5. Agrees(x, y) /\ y.phase = x.phase /\ y.at = x.at
  BY <1>0 DEF Agrees, Fields
<1> HIDE DEF x, y
<1>6. x.phase = "response" => Settled(x)
  BY <1>3 DEF Answering, Proper, InResponse
<1>7. /\ Shape(c, y) /\ WellAnswered(y) /\ (Recorded(c, x, items) => Recorded(c, y, items))
      /\ Settled(x) => Settled(y)
      /\ Unmetered(x) \/ Metered(c, x, items, metrics) => Unmetered(y) \/ Metered(c, y, items, metrics)
  BY <1>0, <1>5, AgreesKeeps
<1>8. Proper(c, Advance(y), items, metrics)
  BY <1>0, <1>3, <1>5, <1>6, <1>7, AnswerGoesOn DEF Agrees
<1> QED  BY <1>1, <1>2, <1>8, QuietPass DEF x, y

LEMMA MetricsAreOfTheAnswer ==
  ASSUME NEW c, NEW x, x.internal \in BOOLEAN, Recorded(c, x, items), CollectMetrics, x.operation # Unset,
         NEW its, NEW ms, c \notin DOMAIN its, MetricOf(c, x) \in ms
  PROVE  Metered(c, x, its, ms)
<1> DEFINE m == MetricOf(c, x)
<1>1. /\ m.service = x.service /\ m.operation = x.operation /\ m.parameters = items[c]
      /\ m.status = x.status /\ m.exception = x.exception
      /\ m.origin = IF x.internal THEN "internal" ELSE "external"
  BY DEF MetricOf
<1>2. m.parameters = x.req.parameters
  BY <1>1 DEF Recorded
<1>3. (m.origin = "internal") = x.internal
  <2>1. CASE x.internal = TRUE
    BY <1>1, <2>1
  <2>2. CASE x.internal = FALSE
    BY <1>1, <2>2
  <2> QED  BY <2>1, <2>2
<1> HIDE DEF m
<1> QED  BY <1>1, <1>2, <1>3 DEF Metered, m

(* The item of the request goes when its metric is recorded.               *)
LEMMA UpdateMetricCollectionStep ==
  ASSUME IInv, NEW c \in Clients, UpdateMetricCollection(c)
  PROVE  IInv'
<1> DEFINE x == exchanges[c]
           error == Failure("UnicodeDecodeError")
<1>1. At(c, "update_metric_collection")
  BY DEF UpdateMetricCollection
<1>2. \/ /\ ~Collected(x) /\ Pass(c, x) /\ UNCHANGED <<items, metrics>>
      \/ /\ Collected(x) /\ (c \notin DOMAIN items \/ (x.status >= 300 /\ x.body = "binary"))
         /\ Raise(c, x, error) /\ UNCHANGED <<items, metrics>>
      \/ /\ Collected(x) /\ c \in DOMAIN items
         /\ metrics' = metrics \cup {MetricOf(c, x)}
         /\ items' = [d \in DOMAIN items \ {c} |-> items[d]]
         /\ Pass(c, x)
  BY DEF UpdateMetricCollection
<1>3. Proper(c, x, items, metrics) /\ x.phase \in {"response", "final"} /\ x.at = 7
  BY <1>1, Running DEF Place
<1>4. Shape(c, x) /\ WellAnswered(x) /\ x.internal \in BOOLEAN
  BY <1>3 DEF Proper, Shape, InResponse, InFinal
<1>5. x.phase = "response" => Settled(x) /\ Recorded(c, x, items)
  BY <1>3 DEF Proper, InResponse
<1>6. x.phase = "final" => /\ 7 \in 1..Length("final") /\ (x.terminated \/ Settled(x))
                           /\ Unmetered(x) \/ Metered(c, x, items, metrics)
  BY <1>3 DEF Proper, InFinal
<1>7. ASSUME NEW its, NEW ms,
             x.phase = "response" => Unmetered(x) \/ Metered(c, x, its, ms),
             x.phase = "final" => Unmetered(x) \/ Metered(c, x, its, ms)
      PROVE  Proper(c, Advance(x), its, ms)
  <2>1. CASE x.phase = "response"
    BY <1>3, <1>4, <1>5, <1>7, <2>1, ResponseGoesOn
  <2>2. CASE x.phase = "final"
    BY <1>3, <1>4, <1>6, <1>7, <2>2, FinalGoesOn
  <2> QED  BY <1>3, <2>1, <2>2
<1>8. x.phase = "final" /\ c \in DOMAIN items => Unmetered(x)
  BY <1>6 DEF Metered
<1>9. Thrown(x, error) = Advance(x)
  BY <1>3 DEF Thrown
<1>10. CASE ~Collected(x) /\ Pass(c, x) /\ UNCHANGED <<items, metrics>>
  <2>1. Unmetered(x)
    BY <1>4, <1>10 DEF Collected, Unmetered, Shape
  <2>2. Proper(c, Advance(x), items, metrics)
    BY <1>7, <2>1
  <2> QED  BY <1>10, <2>2, QuietPass
<1>11. CASE /\ Collected(x) /\ (c \notin DOMAIN items \/ (x.status >= 300 /\ x.body = "binary"))
            /\ Raise(c, x, error) /\ UNCHANGED <<items, metrics>>
  <2>1. x.phase = "response" => Unmetered(x)
    BY <1>5, <1>11 DEF Collected, Recorded, Unmetered
  <2>2. Proper(c, Advance(x), items, metrics)
    BY <1>6, <1>7, <2>1
  <2> QED  BY <1>9, <1>11, <2>2, QuietRaise
<1>12. CASE /\ Collected(x) /\ c \in DOMAIN items /\ metrics' = metrics \cup {MetricOf(c, x)}
            /\ items' = [d \in DOMAIN items \ {c} |-> items[d]]
            /\ Pass(c, x)
  <2>1. c \notin DOMAIN items' /\ MetricOf(c, x) \in metrics' /\ metrics \subseteq metrics'
    BY <1>12
  <2>2. CollectMetrics /\ x.operation # Unset
    BY <1>12 DEF Collected
  <2>3. x.phase = "response" => Metered(c, x, items', metrics')
    BY <1>4, <1>5, <2>1, <2>2, MetricsAreOfTheAnswer
  <2>4. Proper(c, Advance(x), items', metrics')
    BY <1>7, <1>8, <1>12, <2>3
  <2>5. \A d \in Clients \ {c} : /\ d \in DOMAIN items' <=> d \in DOMAIN items
                                 /\ d \in DOMAIN items => items'[d] = items[d]
    BY <1>12
  <2>6. exchanges' = [exchanges EXCEPT ![c] = Advance(x)]
    BY <1>12 DEF Pass
  <2> QED  BY <2>1, <2>4, <2>5, <2>6, OneClient
<1> QED  BY <1>2, <1>10, <1>11, <1>12

-----------------------------------------------------------------------------
(* The requests and the runtime. *)
LEMMA ReceiveStep ==
  ASSUME IInv, NEW c \in Clients, Receive(c)
  PROVE  IInv'
<1>1. PICK r \in RequestsOf[c] : exchanges' = [exchanges EXCEPT ![c] = NewContext(r)]
  BY DEF Receive
<1> DEFINE y == NewContext(r)
<1>2. /\ DOMAIN y = Fields /\ y.req = r /\ y.phase = "request" /\ y.at = 1 /\ y.error = NoError
      /\ y.stopped = FALSE /\ y.terminated = FALSE /\ y.internal = FALSE /\ y.response = FALSE
      /\ y.reached = FALSE /\ y.status = 0 /\ y.body = Unset /\ y.operation = Unset
  BY DEF NewContext, Fields
<1> HIDE DEF y
<1>3. Shape(c, y)
  <2>1. /\ y.stopped \in BOOLEAN /\ y.terminated \in BOOLEAN /\ y.internal \in BOOLEAN
        /\ y.response \in BOOLEAN /\ y.reached \in BOOLEAN
    BY <1>2, Zenon
  <2>2. y.status \in Nat /\ y.req \in RequestsOf[c]
    BY <1>2
  <2> QED  BY <1>2, <2>1, <2>2 DEF Shape
<1>4. InRequest(c, y, items)
  BY <1>2 DEF InRequest
<1>5. Proper(c, y, items, metrics)
  BY <1>2, <1>3, <1>4 DEF Proper
<1>6. items' = items /\ metrics' = metrics
  BY DEF Receive
<1> QED  BY <1>1, <1>5, <1>6, OneClient DEF y

LEMMA HandleStep ==
  ASSUME IInv, NEW c \in Clients, Handle(c)
  PROVE  IInv'
  BY PassSilentlyStep, AddInternalRequestParamsStep, HandleRuntimeShutdownStep, CreateMetricHandlerItemStep,
     LoadServiceForDataPlaneStep, EnforceCorsStep, DecodeContentStep, ServeLocalstackResourcesStep,
     ParseServiceNameStep, InjectAuthStep, AddRegionStep, RewriteRegionStep, AddAccountStep,
     ParseServiceRequestStep, RecordParsedRequestStep, LoadServiceStep, RouteServiceRequestStep,
     RespondEmptyStep, ValidateRequestSchemaStep, ValidateResponseSchemaStep, HandleServiceExceptionStep,
     HandleInternalFailureStep, ParseServiceResponseStep, AddCorsResponseHeadersStep,
     UpdateMetricCollectionStep DEF Handle

LEMMA Inductive ==
  Spec => []IInv
<1>1. Init => IInv
  BY DEF Init, IInv
<1>2. IInv /\ [Next]_vars => IInv'
  <2> SUFFICES ASSUME IInv, [Next]_vars PROVE IInv'
    OBVIOUS
  <2>1. CASE Shutdown \/ UNCHANGED vars
    <3>1. exchanges' = exchanges /\ items' = items /\ metrics' = metrics
      BY <2>1 DEF Shutdown, vars
    <3> QED  BY <3>1 DEF IInv
  <2>2. ASSUME NEW c \in Clients, Receive(c) PROVE IInv'
    BY <2>2, ReceiveStep
  <2>3. ASSUME NEW c \in Clients, Handle(c) PROVE IInv'
    BY <2>3, HandleStep
  <2> QED  BY <2>1, <2>2, <2>3 DEF Next
<1> QED  BY <1>1, <1>2, PTL DEF Spec

(* Whatever a handler of aws/app.py or a provider raises, the client is    *)
(* answered by the exception handlers of handlers/service.py and           *)
(* handlers/internal.py, whose order leaves no error without a body and    *)
(* none of a known service out of the context.                             *)
THEOREM FailuresAlwaysAnswered == Spec => []FailuresAnswered
<1>1. IInv => FailuresAnswered
  BY DEF IInv, Proper, InDone, WellAnswered, FailuresAnswered
<1> QED  BY <1>1, Inductive, PTL

(* handlers/metric_handler.py keeps the item of a request from its parsing *)
(* to its answer while other requests come and go, and records the answer  *)
(* the client gets: no response handler after it changes the answer.       *)
THEOREM MetricsAlwaysMatch == Spec => []MetricsMatch
<1>1. IInv => MetricsMatch
  BY DEF IInv, Proper, InDone, Metered, MetricsMatch
<1> QED  BY <1>1, Inductive, PTL

-----------------------------------------------------------------------------
(* What the catalogue finds for an identifier. *)
LEMMA Specs ==
  ASSUME NEW m \in Catalogue
  PROVE  /\ m.name # Unset /\ m.protocol # Unset /\ m.signing # Unset
         /\ \A n \in Catalogue : m.file = n.file => m = n
         /\ \/ m.file = m.name
            \/ /\ m.file = Variant(m.name, m.protocol)
               /\ \E n \in Catalogue : n.file = m.name /\ ~Speaks(n, m.protocol)
  BY CatalogueAssumption

LEMMA LoadsOwn ==
  ASSUME NEW m \in Catalogue, m.file = m.name, NEW protocol, protocol = Unset \/ Speaks(m, protocol)
  PROVE  Load(m.name, protocol) = m
<1> DEFINE At_(file) == {n \in Catalogue : n.file = file}
           Fits(n) == protocol = Unset \/ Speaks(n, protocol)
<1>1. At_(m.name) = {m}
  BY Specs
<1>2. \E n \in At_(m.name) : Fits(n)
  BY <1>1
<1>3. (CHOOSE n \in At_(m.name) : TRUE) = m
  BY <1>1
<1>4. Load(m.name, protocol) = CHOOSE n \in At_(m.name) : TRUE
  BY <1>1, <1>2 DEF Load
<1> QED  BY <1>3, <1>4

LEMMA LoadsVariant ==
  ASSUME NEW m \in Catalogue, m.file = Variant(m.name, m.protocol),
         NEW n \in Catalogue, n.file = m.name, ~Speaks(n, m.protocol)
  PROVE  Load(m.name, m.protocol) = m
<1> DEFINE At_(file) == {k \in Catalogue : k.file = file}
           Fits(k) == m.protocol = Unset \/ Speaks(k, m.protocol)
<1>1. At_(m.name) = {n} /\ At_(Variant(m.name, m.protocol)) = {m}
  BY Specs
<1>2. ~Fits(n) /\ Fits(m)
  BY Specs DEF Speaks
<1>3. (CHOOSE k \in At_(Variant(m.name, m.protocol)) : Fits(k)) = m
  BY <1>1, <1>2
<1>a. (CHOOSE k \in At_(Variant(m.name, m.protocol)) : TRUE) = m
  BY <1>1
<1>4. /\ At_(m.name) # {} /\ (\A k \in At_(m.name) : ~Fits(k))
      /\ \E k \in At_(Variant(m.name, m.protocol)) : Fits(k)
  BY <1>1, <1>2
<1>5. Load(m.name, m.protocol) = CHOOSE k \in At_(Variant(m.name, m.protocol)) : TRUE
  BY <1>4 DEF Load
<1> QED  BY <1>a, <1>5

LEMMA Gets ==
  ASSUME NEW m \in Catalogue
  PROVE  /\ Get(Identifier(m)) = m
         /\ m.file = m.name => Get(Custom(m.name)) = m
<1>1. Load(m.name, m.protocol) = m
  BY Specs, LoadsOwn, LoadsVariant DEF Speaks
<1>2. m.file = m.name => Load(m.name, Unset) = m
  BY LoadsOwn
<1> QED  BY <1>1, <1>2 DEF Get, Identifier, Custom

(* An index of the catalogue gives the identifiers of some of its specs.   *)
Identifiers(S) == {Identifier(n) : n \in S}

LEMMA OneIdentifier ==
  ASSUME NEW S \in SUBSET Catalogue
  PROVE  /\ Cardinality(Identifiers(S)) = 1 <=> \E n \in S : S = {n}
         /\ \A n \in S : S = {n} => Unique(Identifiers(S)) = {Identifier(n)}
         /\ Several(S) => Unique(Identifiers(S)) = {}
<1> DEFINE found == Identifiers(S)
           f == [n \in S |-> Identifier(n)]
<1>1. \A m, n \in S : Identifier(m) = Identifier(n) => m = n
  BY Gets, Zenon
<1>2. f \in Surjection(S, found)
  BY DEF Surjection, Identifiers
<1>3. IsFiniteSet(S)
  BY CatalogueAssumption, FS_Subset
<1>4. IsFiniteSet(found)
  BY <1>2, <1>3, FS_Surjection
<1>5. \A n \in S : found = {Identifier(n)} <=> S = {n}
  BY <1>1 DEF Identifiers
<1>6. ASSUME Cardinality(found) = 1 PROVE \E n \in S : S = {n}
  <2>1. PICK t : found = {t}
    BY <1>4, <1>6, FS_Singleton
  <2>2. PICK n \in S : t = Identifier(n)
    BY <2>1 DEF Identifiers
  <2> QED  BY <1>5, <2>1, <2>2
<1>7. \A n \in S : S = {n} => Cardinality(found) = 1
  <2> TAKE n \in S
  <2> HAVE S = {n}
  <2>1. found = {Identifier(n)}
    BY <1>5
  <2> QED  BY <2>1, FS_Singleton
<1> HIDE DEF found
<1> QED  BY <1>5, <1>6, <1>7 DEF Unique, Several, found

-----------------------------------------------------------------------------
(* The first stage that finds something decides. *)
LEMMA FirstDecides ==
  ASSUME NEW stages, DOMAIN stages \subseteq Nat \ {0}, NEW i \in DOMAIN stages,
         stages[i] # {}, \A j \in 1..(i - 1) : stages[j] = {}
  PROVE  Decided(stages) = stages[i] /\ \E j \in DOMAIN stages : stages[j] # {}
<1>1. Decides(stages, i)
  BY DEF Decides
<1>2. \A j \in DOMAIN stages : Decides(stages, j) => j = i
  BY DEF Decides
<1>3. (CHOOSE j \in DOMAIN stages : Decides(stages, j)) = i
  BY <1>1, <1>2
<1> QED  BY <1>3 DEF Decided

LEMMA EarlyDecision ==
  ASSUME NEW r, NEW i \in 1..6, NEW found, EarlyStages(r)[i] = {found},
         \A j \in 1..(i - 1) : EarlyStages(r)[j] = {}
  PROVE  Determine(r) = {Get(found)}
<1>1. DOMAIN EarlyStages(r) = 1..6
  BY DEF EarlyStages
<1> DEFINE stages == EarlyStages(r)
<1>2. Decided(stages) = {found} /\ \E j \in DOMAIN stages : stages[j] # {}
  <2>1. DOMAIN stages \subseteq Nat \ {0} /\ i \in DOMAIN stages /\ stages[i] # {} /\ stages[i] = {found}
    BY <1>1
  <2>2. \A j \in 1..(i - 1) : stages[j] = {}
    OBVIOUS
  <2> HIDE DEF stages
  <2>3. Decided(stages) = stages[i]
    BY <2>1, <2>2, FirstDecides
  <2> QED  BY <2>1, <2>3
<1> QED  BY <1>2, Zenon DEF Determine

LEMMA LateDecision ==
  ASSUME NEW r, \A j \in 1..6 : EarlyStages(r)[j] = {}, HostRules(r.host) = {}, ~r.shallow,
         NEW i \in 1..4, NEW found, LateStages(r)[i] = {found}, \A j \in 1..(i - 1) : LateStages(r)[j] = {}
  PROVE  Determine(r) = {Get(found)}
<1>1. DOMAIN EarlyStages(r) = 1..6 /\ DOMAIN LateStages(r) = 1..4
  BY DEF EarlyStages, LateStages
<1> DEFINE stages == LateStages(r)
<1>2. Decided(stages) = {found} /\ \E j \in DOMAIN stages : stages[j] # {}
  <2>1. DOMAIN stages \subseteq Nat \ {0} /\ i \in DOMAIN stages /\ stages[i] # {} /\ stages[i] = {found}
    BY <1>1
  <2>2. \A j \in 1..(i - 1) : stages[j] = {}
    OBVIOUS
  <2> HIDE DEF stages
  <2>3. Decided(stages) = stages[i]
    BY <2>1, <2>2, FirstDecides
  <2> QED  BY <2>1, <2>3
<1>3. ~ \E j \in DOMAIN EarlyStages(r) : EarlyStages(r)[j] # {}
  BY <1>1
<1> QED  BY <1>2, <1>3, Zenon DEF Determine

-----------------------------------------------------------------------------
(* What a client writes, and what the gateway reads from it. *)
Addressed(r, m, p) ==
  /\ m \in Catalogue /\ p \in Spoken(m)
  /\ m.name = StandsFor(r.written.service, r.written.operation)
  /\ WrittenFor(r, m, p) /\ ToldApart(r, m, p)

Callers(r, m) == IF IsSigned(r) THEN Signers(m) ELSE {}
Targets(m, p) == IF Targeted(p) THEN {n \in Catalogue : n.target = m.target} ELSE {}

LEMMA ReadSigner ==
  ASSUME NEW r, NEW m \in Catalogue, NEW p, WrittenFor(r, m, p)
  PROVE  /\ SigningName(r) = IF IsSigned(r) THEN m.signing ELSE Unset
         /\ BySigningName(SigningName(r)) = Identifiers(Callers(r, m))
         /\ Callers(r, m) \subseteq Catalogue
         /\ IsSigned(r) => m \in Callers(r, m)
<1>1. SigningName(r) = IF IsSigned(r) THEN m.signing ELSE Unset
  BY DEF SigningName, IsSigned, WrittenFor
<1>2. BySigningName(SigningName(r)) = Identifiers(Callers(r, m))
  BY <1>1, Specs DEF BySigningName, Callers, Signers, Identifiers
<1> QED  BY <1>1, <1>2 DEF Callers, Signers

LEMMA ReadTarget ==
  ASSUME NEW r, NEW m \in Catalogue, NEW p, WrittenFor(r, m, p)
  PROVE  /\ Targeted(p) => TargetOf(r) = <<m.target, r.written.operation>>
                           /\ m.target # Unset /\ r.written.operation # Unset
         /\ ~Targeted(p) => TargetOf(r) = <<Unset, Unset>>
<1>1. CASE p = Cbor
  BY <1>1 DEF WrittenFor, InCbor, TargetOf, Targeted, Cbor
<1>2. CASE p = "json"
  BY <1>2 DEF WrittenFor, InJson, TargetOf, Targeted, Cbor
<1>3. CASE p \in QueryProtocols
  BY <1>3 DEF WrittenFor, InQuery, TargetOf, Targeted, Cbor, QueryProtocols
<1>4. CASE p \in {"rest-json", "rest-xml"}
  BY <1>4 DEF WrittenFor, InRest, TargetOf, Targeted, Cbor
<1> QED  BY <1>1, <1>2, <1>3, <1>4 DEF WrittenFor

LEMMA ReadNamed ==
  ASSUME NEW r, NEW m \in Catalogue, NEW p, WrittenFor(r, m, p)
  PROVE  /\ NamedByTarget(r) = Identifiers(Targets(m, p))
         /\ Targets(m, p) \subseteq Catalogue /\ (Targeted(p) => m \in Targets(m, p))
<1>1. CASE Targeted(p)
  BY <1>1, ReadTarget DEF NamedByTarget, Targets, ByTargetPrefix, Identifiers
<1>2. CASE ~Targeted(p)
  BY <1>2, ReadTarget DEF NamedByTarget, Targets, Identifiers
<1> QED  BY <1>1, <1>2 DEF Targets

LEMMA ReadRivals ==
  ASSUME NEW r, NEW m \in Catalogue, NEW p, WrittenFor(r, m, p)
  PROVE  Narrowed(r) = Identifiers(Rivals(r, m, p)) /\ Rivals(r, m, p) \subseteq Catalogue
<1> DEFINE o == r.written.operation
<1>0. \A n \in Catalogue : Get(Identifier(n)) = n
  BY Gets
<1>1. CASE Targeted(p)
  <2>1. Narrowed(r) = {i \in BySigningName(SigningName(r)) \cup ByTargetPrefix(m.target) : o \in Get(i).operations}
    BY <1>1, ReadTarget DEF Narrowed
  <2>2. ByTargetPrefix(m.target) = Identifiers(Targets(m, p))
    BY <1>1, ReadTarget DEF ByTargetPrefix, Targets, Identifiers
  <2>3. Narrowed(r) = Identifiers({n \in Callers(r, m) \cup Targets(m, p) : o \in n.operations})
    <3> DEFINE S == Callers(r, m) \cup Targets(m, p)
    <3>1. BySigningName(SigningName(r)) = Identifiers(Callers(r, m)) /\ S \subseteq Catalogue
      BY ReadSigner, ReadNamed
    <3>2. BySigningName(SigningName(r)) \cup ByTargetPrefix(m.target) = Identifiers(S)
      BY <2>2, <3>1 DEF Identifiers
    <3> HIDE DEF S
    <3> QED  BY <1>0, <2>1, <3>1, <3>2, Zenon DEF S, Identifiers
  <2>4. Rivals(r, m, p) = {n \in Callers(r, m) \cup Targets(m, p) : o \in n.operations}
    BY <1>1 DEF Rivals, Callers, Targets, Signers
  <2> QED  BY <2>3, <2>4 DEF Rivals
<1>2. CASE ~Targeted(p)
  <2>1. Narrowed(r) = {i \in BySigningName(SigningName(r)) : Get(i).target = Unset}
    BY <1>2, ReadTarget DEF Narrowed
  <2>2. Narrowed(r) = Identifiers({n \in Callers(r, m) : n.target = Unset})
    BY <1>0, <2>1, ReadSigner DEF Identifiers
  <2>3. Rivals(r, m, p) = {n \in Callers(r, m) : n.target = Unset}
    BY <1>2 DEF Rivals, Callers, Signers
  <2> QED  BY <2>2, <2>3 DEF Rivals
<1> QED  BY <1>1, <1>2

-----------------------------------------------------------------------------
(* The indicators, stage by stage. *)
LEMMA Early6 ==
  ASSUME NEW r
  PROVE  /\ EarlyStages(r)[1] = Unique(BySigningName(SigningName(r)))
         /\ EarlyStages(r)[2] = SigningRules(SigningName(r), r.path)
         /\ EarlyStages(r)[3] = Unique(NamedByTarget(r))
         /\ EarlyStages(r)[4] = Unique(Narrowed(r))
         /\ EarlyStages(r)[5] = PathAddressing(r.path)
         /\ EarlyStages(r)[6] = UNION {Unique(ByEndpoint(e)) : e \in Hosted(r)}
  BY DEF EarlyStages

LEMMA NothingIsNotUnique ==
  Unique({}) = {}
  BY DEF Unique

LEMMA NoRule ==
  ASSUME NEW signing, ~HasRule(signing), NEW path
  PROVE  SigningRules(signing, path) = {}
<1>1. signing # "servicecatalog" /\ {rule \in PathRules : rule.signing = signing} = {}
  BY DEF HasRule
<1> QED  BY <1>1, Zenon DEF SigningRules

LEMMA Signed ==
  ASSUME NEW r, NEW m \in Catalogue, NEW p, WrittenFor(r, m, p), BySigner(r, m)
  PROVE  Determine(r) = {m}
<1>1. Callers(r, m) = {m}
  BY DEF BySigner, Callers
<1>2. EarlyStages(r)[1] = {Identifier(m)}
  BY <1>1, Early6, ReadSigner, OneIdentifier
<1>3. Determine(r) = {Get(Identifier(m))}
  BY <1>2, EarlyDecision
<1> QED  BY <1>3, Gets

LEMMA RuledByPath ==
  ASSUME NEW r, NEW m \in Catalogue, NEW p, WrittenFor(r, m, p), ByPathRule(r, m)
  PROVE  Determine(r) = {m}
<1>1. EarlyStages(r)[2] = {Custom(m.name)} /\ Get(Custom(m.name)) = m
  BY Early6, ReadSigner, Gets DEF ByPathRule
<1>2. CASE Callers(r, m) = {m}
  BY <1>2, Signed DEF BySigner, ByPathRule, Callers
<1>3. CASE Callers(r, m) # {m}
  <2>1. Several(Callers(r, m))
    BY <1>3, ReadSigner DEF Several, ByPathRule
  <2>2. EarlyStages(r)[1] = {}
    BY <2>1, Early6, ReadSigner, OneIdentifier
  <2>3. Determine(r) = {Get(Custom(m.name))}
    BY <1>1, <2>2, EarlyDecision
  <2> QED  BY <1>1, <2>3
<1> QED  BY <1>2, <1>3

(* What is not known by its signing name. *)
LEMMA NotBySigning ==
  ASSUME NEW r, NEW m \in Catalogue, NEW p, WrittenFor(r, m, p), Anonymous(r, m)
  PROVE  EarlyStages(r)[1] = {} /\ EarlyStages(r)[2] = {}
<1>1. SigningRules(SigningName(r), r.path) = {}
  BY NoRule DEF Anonymous
<1>2. CASE IsSigned(r)
  <2>1. Several(Callers(r, m))
    BY <1>2, ReadSigner DEF Several, Anonymous, Callers
  <2>2. Unique(BySigningName(SigningName(r))) = {}
    BY <2>1, ReadSigner, OneIdentifier
  <2> QED  BY <1>1, <2>2, Early6
<1>3. CASE ~IsSigned(r)
  <2>1. BySigningName(SigningName(r)) = {}
    BY <1>3, ReadSigner DEF Callers, Identifiers
  <2> QED  BY <1>1, <2>1, Early6, NothingIsNotUnique
<1> QED  BY <1>2, <1>3

LEMMA FoundByTarget ==
  ASSUME NEW r, NEW m \in Catalogue, NEW p, WrittenFor(r, m, p), Anonymous(r, m), Targets(m, p) = {m}
  PROVE  Determine(r) = {m}
<1>1. EarlyStages(r)[3] = {Identifier(m)}
  BY Early6, ReadNamed, OneIdentifier
<1>2. Determine(r) = {Get(Identifier(m))}
  BY <1>1, NotBySigning, EarlyDecision
<1> QED  BY <1>2, Gets

(* Nor by its target. *)
LEMMA NotByTarget ==
  ASSUME NEW r, NEW m \in Catalogue, NEW p, WrittenFor(r, m, p), Targets(m, p) # {m}
  PROVE  EarlyStages(r)[3] = {}
<1>1. CASE Targeted(p)
  <2>1. Several(Targets(m, p))
    BY <1>1, ReadNamed DEF Several
  <2> QED  BY <2>1, Early6, ReadNamed, OneIdentifier
<1>2. CASE ~Targeted(p)
  <2>1. NamedByTarget(r) = {}
    BY <1>2, ReadNamed DEF Targets, Identifiers
  <2> QED  BY <2>1, Early6, NothingIsNotUnique
<1> QED  BY <1>1, <1>2

LEMMA FoundByNarrowing ==
  ASSUME NEW r, NEW m \in Catalogue, NEW p, WrittenFor(r, m, p), Anonymous(r, m), ByNarrowing(r, m, p)
  PROVE  Determine(r) = {m}
<1>1. EarlyStages(r)[4] = {Identifier(m)}
  BY Early6, ReadRivals, OneIdentifier DEF ByNarrowing
<1>2. CASE Targets(m, p) = {m}
  BY <1>2, FoundByTarget
<1>3. CASE Targets(m, p) # {m}
  <2>1. Determine(r) = {Get(Identifier(m))}
    BY <1>1, <1>3, NotBySigning, NotByTarget, EarlyDecision
  <2> QED  BY <2>1, Gets
<1> QED  BY <1>2, <1>3

LEMMA NothingYet ==
  ASSUME NEW r, NEW m \in Catalogue, NEW p, WrittenFor(r, m, p), Anonymous(r, m), Unclear(r, m, p)
  PROVE  \A i \in 1..4 : EarlyStages(r)[i] = {}
<1>1. Targets(m, p) # {m}
  BY DEF Unclear, ByTarget, Targets
<1>2. EarlyStages(r)[4] = {}
  BY Early6, ReadRivals, OneIdentifier DEF Unclear
<1> QED  BY <1>1, <1>2, NotBySigning, NotByTarget

LEMMA FoundByPath ==
  ASSUME NEW r, NEW m \in Catalogue, NEW p, WrittenFor(r, m, p), Anonymous(r, m), Unclear(r, m, p),
         ByPath(r, m)
  PROVE  Determine(r) = {m}
<1>1. EarlyStages(r)[5] = {Custom("lambda")}
  BY Early6 DEF ByPath, PathAddressing
<1>2. Determine(r) = {Get(Custom("lambda"))}
  BY <1>1, NothingYet, EarlyDecision
<1> QED  BY <1>2, Gets DEF ByPath

LEMMA FoundByHost ==
  ASSUME NEW r, NEW m \in Catalogue, NEW p, WrittenFor(r, m, p), Anonymous(r, m), Unclear(r, m, p),
         ByHost(r, m)
  PROVE  Determine(r) = {m}
<1>1. {n \in Catalogue : n.endpoint = m.endpoint} = {m}
  BY DEF ByHost
<1>2. Unique(ByEndpoint(m.endpoint)) = {Identifier(m)}
  BY <1>1, OneIdentifier DEF ByEndpoint, Identifiers
<1>3. EarlyStages(r)[6] = {Identifier(m)}
  <2>1. Hosted(r) = {m.endpoint}
    BY DEF ByHost
  <2>2. UNION {Unique(ByEndpoint(e)) : e \in Hosted(r)} = Unique(ByEndpoint(m.endpoint))
    BY <2>1
  <2> QED  BY <1>2, <2>2, Early6
<1>4. EarlyStages(r)[5] = {}
  BY Early6 DEF ByHost
<1>5. Determine(r) = {Get(Identifier(m))}
  BY <1>3, <1>4, NothingYet, EarlyDecision
<1> QED  BY <1>5, Gets

-----------------------------------------------------------------------------
(* The stages that read the body. *)
Found(r, m, p) ==
  IF p \in QueryProtocols
  THEN IF Cardinality(Identifiers(Callees(r))) # 1 THEN {n \in Callees(r) : n.version = m.version} ELSE Callees(r)
  ELSE {}

LEMMA Called ==
  ASSUME NEW r, NEW m \in Catalogue, NEW p \in Spoken(m), WrittenFor(r, m, p), p \in QueryProtocols
  PROVE  m \in Callees(r) /\ Callees(r) \subseteq Catalogue
<1>1. Speaks(m, p)
  BY DEF Spoken, Speaks
<1> QED  BY <1>1 DEF Callees, WrittenFor

LEMMA ReadQuery ==
  ASSUME NEW r, NEW m \in Catalogue, NEW p \in Spoken(m), WrittenFor(r, m, p), ~r.tooLarge,
         p \notin QueryProtocols => "Action" \notin DOMAIN r.values
  PROVE  QueryCandidates(r) = Identifiers(Found(r, m, p)) /\ Found(r, m, p) \subseteq Catalogue
<1> DEFINE o == r.written.operation
           named == {i \in ByOperation(r.values["Action"]) : HasProtocol("ec2", i) \/ HasProtocol("query", i)}
<1>1. CASE p \in QueryProtocols
  <2>1. /\ "Action" \in DOMAIN r.values /\ "Version" \in DOMAIN r.values
        /\ r.values["Action"] = o /\ r.values["Version"] = m.version
    BY <1>1 DEF WrittenFor, InQuery
  <2>2. \A n, q : HasProtocol(q, Identifier(n)) <=> Speaks(n, q)
    BY DEF HasProtocol, Identifier, Speaks
  <2>3. named = Identifiers(Callees(r))
    BY <2>1, <2>2 DEF ByOperation, Identifiers, Callees, QueryProtocols
  <2>4. QueryCandidates(r) = IF Cardinality(named) # 1 THEN {i \in named : Get(i).version = m.version} ELSE named
    BY <2>1 DEF QueryCandidates
  <2> HIDE DEF named
  <2>5. {i \in Identifiers(Callees(r)) : Get(i).version = m.version} = Identifiers({n \in Callees(r) : n.version = m.version})
    BY <1>1, Called, Gets DEF Identifiers
  <2> QED  BY <1>1, <2>3, <2>4, <2>5, Called DEF Found
<1>2. CASE p \notin QueryProtocols
  BY <1>2 DEF QueryCandidates, Found, Identifiers
<1> QED  BY <1>1, <1>2

LEMMA ReadBody ==
  ASSUME NEW r, NEW m \in Catalogue, NEW p \in Spoken(m), WrittenFor(r, m, p), Anonymous(r, m),
         Unclear(r, m, p), InBody(r)
  PROVE  /\ \A i \in 1..6 : EarlyStages(r)[i] = {}
         /\ HostRules(r.host) = {} /\ ~r.shallow /\ ~r.tooLarge
         /\ LateStages(r)[1] = Unique(QueryCandidates(r)) /\ LateStages(r)[2] = ResolveConflicts(r, Left(r))
         /\ Left(r) = Narrowed(r) \cup QueryCandidates(r)
<1>1. EarlyStages(r)[5] = {} /\ EarlyStages(r)[6] = {}
  BY Early6 DEF InBody
<1>2. \A i \in 1..6 : EarlyStages(r)[i] = {}
  BY <1>1, NothingYet
<1>3. HostRules(r.host) = {} /\ ~r.shallow /\ ~r.tooLarge
  BY DEF WrittenFor, InBody
<1>4. LateStages(r)[1] = Unique(QueryCandidates(r)) /\ LateStages(r)[2] = ResolveConflicts(r, Left(r))
  BY <1>3 DEF LateStages
<1>5. Left(r) = Narrowed(r) \cup QueryCandidates(r)
  <2>1. UNION {ByEndpoint(e) : e \in Hosted(r)} = {}
    BY DEF InBody
  <2>2. Left(r) = Narrowed(r) \cup QueryCandidates(r) \cup {}
    BY <2>1, Zenon DEF Left
  <2> QED  BY <2>2
<1> QED  BY <1>2, <1>3, <1>4, <1>5

LEMMA FoundByAction ==
  ASSUME NEW r, NEW m \in Catalogue, NEW p \in Spoken(m), WrittenFor(r, m, p), Anonymous(r, m),
         Unclear(r, m, p), ByAction(r, m, p)
  PROVE  Determine(r) = {m}
<1>1. InBody(r) /\ p \in QueryProtocols
  BY DEF ByAction
<1>2. QueryCandidates(r) = Identifiers(Found(r, m, p)) /\ Found(r, m, p) \subseteq Catalogue
  BY <1>1, ReadBody, ReadQuery
<1>3. m \in Callees(r) /\ Callees(r) \subseteq Catalogue
  BY <1>1, Called
<1>4. Found(r, m, p) = {m}
  BY <1>1, <1>3, OneIdentifier DEF Found, ByAction
<1>5. LateStages(r)[1] = {Identifier(m)}
  BY <1>1, <1>2, <1>4, OneIdentifier, ReadBody
<1>6. Determine(r) = {Get(Identifier(m))}
  BY <1>1, <1>5, LateDecision, ReadBody
<1> QED  BY <1>6, Gets

LEMMA Conventional ==
  ASSUME NEW r, NEW candidates, NEW rule \in Conventions, rule.among = {i.name : i \in candidates}
  PROVE  ResolveConflicts(r, candidates) = {Custom(rule.answers)}
<1>1. CASE rule = [among |-> {"docdb", "neptune", "rds"}, answers |-> "rds"]
  <2>1. /\ {i.name : i \in candidates} = {"docdb", "neptune", "rds"} /\ rule.answers = "rds"
        /\ {"docdb", "neptune", "rds"} # {"timestream-query", "timestream-write"}
        /\ {"docdb", "neptune", "rds"} # {"sqs"}
    BY <1>1
  <2> QED  BY <2>1 DEF ResolveConflicts
<1>2. CASE rule = [among |-> {"timestream-query", "timestream-write"}, answers |-> "timestream-query"]
  <2>1. /\ {i.name : i \in candidates} = {"timestream-query", "timestream-write"}
        /\ rule.answers = "timestream-query"
        /\ {"docdb", "neptune", "rds"} # {"timestream-query", "timestream-write"}
        /\ {"timestream-query", "timestream-write"} # {"sqs"}
    BY <1>2
  <2> QED  BY <2>1 DEF ResolveConflicts
<1> QED  BY <1>1, <1>2 DEF Conventions

LEMMA FoundByConvention ==
  ASSUME NEW r, NEW m \in Catalogue, NEW p \in Spoken(m), WrittenFor(r, m, p), Anonymous(r, m),
         Unclear(r, m, p), ByConvention(r, m, p)
  PROVE  Determine(r) = {m}
<1> DEFINE called == IF p \in QueryProtocols THEN {n \in Callees(r) : n.version = m.version} ELSE {}
<1>1. /\ InBody(r) /\ Several(called) /\ m.file = m.name
      /\ p \notin QueryProtocols => "Action" \notin DOMAIN r.values
  BY DEF ByConvention
<1>2. QueryCandidates(r) = Identifiers(Found(r, m, p)) /\ Found(r, m, p) \subseteq Catalogue
  BY <1>1, ReadBody, ReadQuery
<1>3. Found(r, m, p) = called
  <2>1. CASE p \in QueryProtocols
    <3>1. m \in Callees(r) /\ Callees(r) \subseteq Catalogue
      BY <2>1, Called
    <3>2. ASSUME Cardinality(Identifiers(Callees(r))) = 1 PROVE FALSE
      <4>1. Callees(r) = {m}
        BY <3>1, <3>2, OneIdentifier
      <4>2. called = {m}
        BY <2>1, <4>1
      <4> QED  BY <1>1, <4>2 DEF Several
    <3> QED  BY <2>1, <3>2 DEF Found
  <2>2. CASE p \notin QueryProtocols
    BY <2>2 DEF Found
  <2> QED  BY <2>1, <2>2
<1>4. LateStages(r)[1] = {}
  BY <1>1, <1>2, <1>3, OneIdentifier, ReadBody
<1>5. PICK rule \in Conventions : rule.among = {n.name : n \in Rivals(r, m, p) \cup called} /\ rule.answers = m.name
  BY DEF ByConvention
<1> HIDE DEF called
<1>6. Left(r) = Identifiers(Rivals(r, m, p) \cup called)
  BY <1>1, <1>2, <1>3, ReadBody, ReadRivals DEF Identifiers
<1>7. {i.name : i \in Left(r)} = {n.name : n \in Rivals(r, m, p) \cup called}
  <2>1. \A n : Identifier(n).name = n.name
    BY DEF Identifier
  <2> QED  BY <1>6, <2>1 DEF Identifiers
<1>8. LateStages(r)[2] = {Custom(m.name)}
  BY <1>1, <1>5, <1>7, Conventional, ReadBody
<1>9. Determine(r) = {Get(Custom(m.name))}
  <2>1. /\ \A i \in 1..6 : EarlyStages(r)[i] = {}
        /\ HostRules(r.host) = {} /\ ~r.shallow
    BY <1>1, ReadBody
  <2>2. 2 \in 1..4 /\ \A j \in 1..(2 - 1) : LateStages(r)[j] = {}
    BY <1>4
  <2> QED  BY <1>8, <2>1, <2>2, LateDecision
<1> QED  BY <1>1, <1>9, Gets

(* determine_aws_service_model of service_router.py: for a request that a  *)
(* client wrote for one of its protocols and for a service that can be     *)
(* told apart, the stages before the one that tells it apart narrow the    *)
(* candidates without losing it, none of them decides for another service, *)
(* and the outcome does not depend on the order of a set of candidates.    *)
THEOREM ServiceFound ==
  ASSUME NEW r, NEW m, NEW p, Addressed(r, m, p)
  PROVE  Determine(r) = {m}
<1>1. m \in Catalogue /\ p \in Spoken(m) /\ WrittenFor(r, m, p) /\ ToldApart(r, m, p)
  BY DEF Addressed
<1>2. CASE BySigner(r, m) \/ ByPathRule(r, m)
  BY <1>1, <1>2, Signed, RuledByPath
<1>3. CASE Anonymous(r, m) /\ ByTarget(m, p)
  <2>1. Targets(m, p) = {m}
    BY <1>1, <1>3 DEF ByTarget, Targets
  <2> QED  BY <1>1, <1>3, <2>1, FoundByTarget
<1>4. CASE Anonymous(r, m) /\ ByNarrowing(r, m, p)
  BY <1>1, <1>4, FoundByNarrowing
<1>5. CASE Anonymous(r, m) /\ Unclear(r, m, p) /\ (ByPath(r, m) \/ ByHost(r, m))
  BY <1>1, <1>5, FoundByPath, FoundByHost
<1>6. CASE Anonymous(r, m) /\ Unclear(r, m, p) /\ (ByAction(r, m, p) \/ ByConvention(r, m, p))
  BY <1>1, <1>6, FoundByAction, FoundByConvention
<1> QED  BY <1>1, <1>2, <1>3, <1>4, <1>5, <1>6 DEF ToldApart

-----------------------------------------------------------------------------
(* The protocol. *)
LEMMA ProtocolMatches ==
  ASSUME NEW r, NEW m \in Catalogue, NEW p \in Spoken(m), WrittenFor(r, m, p)
  PROVE  MatchAvailable(r, Spoken(m)) = p
<1> DEFINE fits == {i \in DOMAIN DetectionPriority :
                      DetectionPriority[i] \in Spoken(m) /\ MatchesProtocol(r, DetectionPriority[i])}
<1>1. ASSUME NEW k \in 1..6, DetectionPriority[k] = p, k \in fits, \A j \in 1..(k - 1) : j \notin fits
      PROVE  MatchAvailable(r, Spoken(m)) = p
  <2>1. DOMAIN DetectionPriority = 1..6
    BY DEF DetectionPriority
  <2>2. (CHOOSE i \in fits : \A j \in fits : i <= j) = k
    BY <1>1, <2>1
  <2>3. MatchAvailable(r, Spoken(m)) = DetectionPriority[CHOOSE i \in fits : \A j \in fits : i <= j]
    BY <1>1 DEF MatchAvailable
  <2> QED  BY <1>1, <2>2, <2>3
<1>2. /\ DetectionPriority[1] = "smithy-rpc-v2-cbor" /\ DetectionPriority[2] = "json"
      /\ DetectionPriority[3] = "query" /\ DetectionPriority[4] = "ec2"
      /\ DetectionPriority[5] = "rest-json" /\ DetectionPriority[6] = "rest-xml"
      /\ DOMAIN DetectionPriority = 1..6
  BY DEF DetectionPriority
<1>3. (r.smithy = "rpc-v2-cbor") <=> p = "smithy-rpc-v2-cbor"
  BY DEF WrittenFor, Cbor
<1>4. 1 \in fits <=> p = "smithy-rpc-v2-cbor"
  BY <1>2, <1>3 DEF MatchesProtocol
<1>5. CASE p = "smithy-rpc-v2-cbor"
  BY <1>1, <1>2, <1>4, <1>5
<1>6. CASE p = "json"
  <2>1. 2 \in fits /\ 1 \notin fits
    BY <1>2, <1>4, <1>6 DEF MatchesProtocol, WrittenFor, InJson
  <2> QED  BY <1>1, <1>2, <1>6, <2>1
<1>7. CASE p \in QueryProtocols
  <2>1. r.mimetype = "form" /\ Spoken(m) \cap QueryProtocols = {p} /\ 1 \notin fits
    BY <1>4, <1>7 DEF WrittenFor, InQuery, QueryProtocols
  <2>2. 2 \notin fits
    BY <1>2, <2>1 DEF MatchesProtocol
  <2>3. CASE p = "query"
    <3>1. 3 \in fits
      BY <1>2, <2>1, <2>3 DEF MatchesProtocol
    <3> QED  BY <1>1, <1>2, <2>1, <2>2, <2>3, <3>1
  <2>4. CASE p = "ec2"
    <3>1. 4 \in fits /\ 3 \notin fits
      BY <1>2, <2>1, <2>4 DEF MatchesProtocol, QueryProtocols
    <3> QED  BY <1>1, <1>2, <2>1, <2>2, <2>4, <3>1
  <2> QED  BY <1>7, <2>3, <2>4 DEF QueryProtocols
<1>8. CASE p \in {"rest-json", "rest-xml"}
  <2>1. Spoken(m) = {p}
    BY <1>8 DEF WrittenFor
  <2>2. MatchesProtocol(r, p)
    BY <1>8 DEF MatchesProtocol
  <2> HIDE DEF fits
  <2>3. \A i \in 1..6 : i \in fits <=> DetectionPriority[i] = p
    BY <1>2, <2>1, <2>2 DEF fits
  <2>4. CASE p = "rest-json"
    BY <1>1, <1>2, <2>3, <2>4
  <2>5. CASE p = "rest-xml"
    BY <1>1, <1>2, <2>3, <2>5
  <2> QED  BY <1>8, <2>4, <2>5
<1> QED  BY <1>5, <1>6, <1>7, <1>8 DEF WrittenFor, Cbor

LEMMA ProtocolFound ==
  ASSUME NEW r, NEW m \in Catalogue, NEW p \in Spoken(m), WrittenFor(r, m, p)
  PROVE  DetermineProtocol(r, m) = p /\ p # Unset
<1>1. m.protocols \in Seq(Range(m.protocols))
  BY CatalogueAssumption
<1>2. DetermineProtocol(r, m) = p
  <2>1. CASE m.protocols = <<>>
    BY <2>1 DEF DetermineProtocol, Spoken
  <2>2. CASE Len(m.protocols) = 1
    <3>1. Range(m.protocols) = {m.protocols[1]} /\ m.protocols # <<>>
      BY <1>1, <2>2 DEF Range
    <3> QED  BY <2>2, <3>1 DEF DetermineProtocol, Spoken
  <2>3. CASE m.protocols # <<>> /\ Len(m.protocols) # 1
    <3>1. Spoken(m) = Range(m.protocols)
      BY <2>3 DEF Spoken
    <3> QED  BY <2>3, <3>1, ProtocolMatches DEF DetermineProtocol
  <2> QED  BY <2>1, <2>2, <2>3
<1>3. p \in {"smithy-rpc-v2-cbor", "json", "rest-json", "rest-xml", "query", "ec2"}
  BY DEF WrittenFor, Cbor, QueryProtocols
<1>4. p # Unset
  BY <1>3, Zenon DEF Unset
<1> QED  BY <1>2, <1>4

-----------------------------------------------------------------------------
(* The operation of a REST service. *)
LEMMA Weights ==
  ASSUME NEW segment
  PROVE  Weight(segment) \in 0..2
  BY DEF Weight

LEMMA SpecificityIsStrict ==
  ASSUME NEW S, NEW T, NEW a \in Seq(S), NEW b \in Seq(T), MoreSpecific(a, b)
  PROVE  ~MoreSpecific(b, a)
<1> SUFFICES ASSUME MoreSpecific(b, a) PROVE FALSE
  OBVIOUS
<1>1. PICK i \in 1..Len(a) :
        /\ \A j \in 1..(i - 1) : j \in DOMAIN b /\ Weight(a[j]) = Weight(b[j])
        /\ i \notin DOMAIN b \/ Weight(a[i]) < Weight(b[i])
  BY DEF MoreSpecific
<1>2. PICK k \in 1..Len(b) :
        /\ \A j \in 1..(k - 1) : j \in DOMAIN a /\ Weight(b[j]) = Weight(a[j])
        /\ k \notin DOMAIN a \/ Weight(b[k]) < Weight(a[k])
  BY DEF MoreSpecific
<1>3. DOMAIN a = 1..Len(a) /\ DOMAIN b = 1..Len(b)
  OBVIOUS
<1>4. /\ Weight(a[i]) \in 0..2 /\ Weight(b[i]) \in 0..2
      /\ Weight(a[k]) \in 0..2 /\ Weight(b[k]) \in 0..2
  BY Weights
<1>5. CASE i < k
  BY <1>1, <1>2, <1>3, <1>4, <1>5
<1>6. CASE k < i
  BY <1>1, <1>2, <1>3, <1>4, <1>6
<1>7. CASE i = k
  BY <1>1, <1>2, <1>3, <1>4, <1>7
<1> QED  BY <1>1, <1>2, <1>5, <1>6, <1>7

Https(service) == {HttpOperation(op) : op \in HttpOperations[service]}
Fits(service, r) == {h \in Https(service) : h.method = r.method /\ PathMatches(h.path, Stripped(r.path))}
RuleOf(service, h) ==
  [path |-> h.path, method |-> h.method,
   operations |-> {o \in Https(service) : o.path = h.path /\ o.method = h.method}]

LEMMA HttpsAreFinite ==
  ASSUME NEW service \in DOMAIN HttpOperations
  PROVE  /\ IsFiniteSet(Https(service))
         /\ \A h \in Https(service) :
              h.path \in Seq(Range(h.path)) /\ IsFiniteSet(DOMAIN h.query) /\ IsFiniteSet(h.headers)
<1> DEFINE S == HttpOperations[service]
           f == [op \in S |-> HttpOperation(op)]
<1>1. /\ IsFiniteSet(S)
      /\ \A op \in S : /\ HttpOperation(op).path \in Seq(Range(HttpOperation(op).path))
                      /\ IsFiniteSet(DOMAIN HttpOperation(op).query) /\ IsFiniteSet(HttpOperation(op).headers)
  BY CatalogueAssumption
<1>2. f \in Surjection(S, Https(service))
  BY DEF Surjection, Https
<1>3. IsFiniteSet(Https(service))
  BY <1>1, <1>2, FS_Surjection
<1> QED  BY <1>1, <1>3 DEF Https

LEMMA Scores ==
  ASSUME NEW service \in DOMAIN HttpOperations, NEW a \in Https(service)
  PROVE  /\ Score(a) \in Int
         /\ \A b \in Https(service) : AsksMore(a, b) => Score(b) < Score(a)
<1>1. /\ IsFiniteSet(DOMAIN a.query) /\ IsFiniteSet(a.headers)
      /\ Cardinality(DOMAIN a.query) \in Nat /\ Cardinality(a.headers) \in Nat
  BY HttpsAreFinite, FS_CardinalityType
<1>2. ASSUME NEW b \in Https(service), AsksMore(a, b) PROVE Score(b) < Score(a)
  <2>1. /\ Cardinality(DOMAIN b.query) \in Nat /\ Cardinality(b.headers) \in Nat
        /\ Cardinality(DOMAIN b.query) <= Cardinality(DOMAIN a.query) /\ Cardinality(b.headers) <= Cardinality(a.headers)
    BY <1>1, <1>2, FS_Subset, FS_CardinalityType DEF AsksMore
  <2>2. Cardinality(DOMAIN b.query) < Cardinality(DOMAIN a.query) \/ Cardinality(b.headers) < Cardinality(a.headers)
    BY <1>1, <1>2, <2>1, FS_Subset DEF AsksMore
  <2> QED  BY <1>1, <2>1, <2>2 DEF Score
<1> QED  BY <1>1, <1>2 DEF Score

LEMMA RestOperation ==
  ASSUME NEW r, NEW m \in Catalogue, InRest(r, m)
  PROVE  MatchOperation(HttpOperations[m.name], r) = {r.written.operation}
<1> DEFINE s == m.name
           fits == Fits(s, r)
<1>1. /\ s \in DOMAIN HttpOperations /\ r.method # "OPTIONS"
      /\ \E a \in fits :
            /\ a.operation = r.written.operation /\ ArgsPresent(a, r)
            /\ \A b \in fits \ {a} :
                  \/ MoreSpecific(a.path, b.path)
                  \/ a.path = b.path /\ (ArgsPresent(b, r) => AsksMore(a, b))
  BY Zenon DEF InRest, Fits, Https
<1>2. PICK a \in fits :
            /\ a.operation = r.written.operation /\ ArgsPresent(a, r)
            /\ \A b \in fits \ {a} :
                  \/ MoreSpecific(a.path, b.path)
                  \/ a.path = b.path /\ (ArgsPresent(b, r) => AsksMore(a, b))
  BY <1>1
<1>3. \A h \in fits : h \in Https(s) /\ h.method = r.method /\ PathMatches(h.path, Stripped(r.path))
  BY DEF Fits
<1>4. MatchingRules(HttpOperations[s], r) = {RuleOf(s, h) : h \in fits}
  <2>1. Rules(HttpOperations[s]) = {RuleOf(s, h) : h \in Https(s)}
    BY DEF Rules, RuleOf, Https
  <2>2. MatchingRules(HttpOperations[s], r)
          = {rule \in Rules(HttpOperations[s]) : rule.method = r.method /\ PathMatches(rule.path, Stripped(r.path))}
    BY <1>1 DEF MatchingRules
  <2>3. \A h : RuleOf(s, h).method = h.method /\ RuleOf(s, h).path = h.path
    BY DEF RuleOf
  <2> QED  BY <2>1, <2>2, <2>3 DEF Fits
<1> DEFINE rules == MatchingRules(HttpOperations[s], r)
           best == {x \in rules : \A y \in rules \ {x} : ~MoreSpecific(y.path, x.path)}
           rule == RuleOf(s, a)
<1>5. \A h \in fits : RuleOf(s, h) = rule \/ MoreSpecific(a.path, h.path)
  <2> SUFFICES ASSUME NEW h \in fits, ~MoreSpecific(a.path, h.path) PROVE RuleOf(s, h) = rule
    OBVIOUS
  <2>1. h.path = a.path /\ h.method = a.method
    BY <1>2, <1>3
  <2> QED  BY <2>1 DEF RuleOf
<1>6. best = {rule}
  <2>1. rule \in rules /\ rule.path = a.path
    BY <1>4 DEF RuleOf
  <2>2. \A h \in fits : MoreSpecific(a.path, h.path) => ~MoreSpecific(h.path, a.path)
    BY <1>1, <1>3, HttpsAreFinite, SpecificityIsStrict
  <2>3. \A h \in fits : RuleOf(s, h).path = h.path
    BY DEF RuleOf
  <2> HIDE DEF rules, rule, fits
  <2>4. rule \in best
    BY <1>4, <1>5, <2>1, <2>2, <2>3 DEF rules
  <2>5. \A h \in fits : RuleOf(s, h) \in best => RuleOf(s, h) = rule
    BY <1>5, <2>1, <2>3
  <2> QED  BY <1>4, <2>4, <2>5 DEF rules
<1>7. BestOf(rule, r) = {a}
  <2> DEFINE ops == {o \in Https(s) : o.path = a.path /\ o.method = a.method}
             present == {h \in ops : ArgsPresent(h, r)}
  <2>1. rule.operations = ops
    BY DEF RuleOf
  <2>2. a \in present /\ a \in ops
    BY <1>2, <1>3
  <2>3. \A b \in present \ {a} : Score(b) < Score(a)
    <3> TAKE b \in present \ {a}
    <3>1. b \in fits \ {a} /\ b.path = a.path
      BY <1>3 DEF Fits
    <3>2. ~MoreSpecific(a.path, b.path)
      BY <1>1, <1>3, <3>1, HttpsAreFinite, SpecificityIsStrict
    <3>3. AsksMore(a, b)
      BY <1>2, <3>1, <3>2
    <3> QED  BY <1>1, <1>3, <3>1, <3>3, Scores
  <2>4. CASE Cardinality(ops) = 1
    <3>1. IsFiniteSet(ops)
      BY <1>1, HttpsAreFinite, FS_Subset
    <3>2. ops = {a}
      BY <2>2, <2>4, <3>1, FS_Singleton
    <3> QED  BY <2>1, <2>4, <3>2 DEF BestOf
  <2>5. CASE Cardinality(ops) # 1
    <3>1. BestOf(rule, r) = {h \in present : \A o \in present : Score(o) <= Score(h)}
      BY <2>1, <2>5 DEF BestOf
    <3>2. \A h \in present : Score(h) \in Int
      BY <1>1, Scores
    <3> QED  BY <2>2, <2>3, <3>1, <3>2
  <2> QED  BY <2>4, <2>5
<1>8. UNION {BestOf(x, r) : x \in best} = {a}
  BY <1>6, <1>7
<1>9. MatchOperation(HttpOperations[s], r) = {h.operation : h \in {a}}
  BY <1>8, Zenon DEF MatchOperation
<1> QED  BY <1>2, <1>9

(* The parsers take from the target, the path, the action or the rules of  *)
(* op_router.py the operation that the client wrote, and no other: of the  *)
(* rules of a REST service that match, the one it wrote for weighs most.   *)
THEOREM OperationFound ==
  ASSUME NEW x, NEW m, NEW p, Addressed(x.req, m, p), x.service = m.name, x.model = m, x.protocol = p
  PROVE  /\ OperationOf(x) = {x.req.written.operation}
         /\ x.req.written.operation # Unset
<1> DEFINE o == x.req.written.operation
<1>1. m \in Catalogue /\ WrittenFor(x.req, m, p)
  BY DEF Addressed
<1>2. o \in m.operations /\ o # Unset /\ o # NotFound
  BY <1>1 DEF WrittenFor
<1>3. CASE p = "json"
  BY <1>1, <1>2, <1>3 DEF OperationOf, WrittenFor, InJson
<1>4. CASE p = Cbor
  BY <1>1, <1>2, <1>4 DEF OperationOf, WrittenFor, InCbor, Cbor
<1>5. CASE p \in QueryProtocols
  BY <1>1, <1>2, <1>5 DEF OperationOf, WrittenFor, InQuery, QueryProtocols
<1>6. CASE p \in {"rest-json", "rest-xml"}
  <2>1. MatchOperation(HttpOperations[x.service], x.req) = {o}
    BY <1>1, <1>6, RestOperation DEF WrittenFor
  <2> QED  BY <1>2, <1>6, <2>1 DEF OperationOf
<1> QED  BY <1>1, <1>2, <1>3, <1>4, <1>5, <1>6 DEF WrittenFor

-----------------------------------------------------------------------------
(* The way of a request that a client wrote for an operation of m: what    *)
(* the gateway knows of it is right, is known when it is needed, and       *)
(* nothing but its provider answers that it is not found.                  *)
ParserErrors == {"ProtocolError", "RequestParserError"}

OnItsWay(x, m, p) ==
  /\ x.operation \in {Unset, x.req.written.operation}
  /\ x.service = Unset \/ (x.service = m.name /\ x.model = m /\ x.protocol = p)
  /\ x.phase = "request" /\ x.at >= 12 => x.service # Unset
  /\ x.phase = "request" /\ x.at >= 18 => x.operation # Unset
  /\ x.encoding \in {"identity", "gzip"}
  /\ x.error.type \notin ParserErrors
  /\ x.reached \/ x.status # 404

Undiverted(x) == \A m \in Catalogue : \A p \in Spoken(m) : Addressed(x.req, m, p) => OnItsWay(x, m, p)

RInv == \A c \in Clients : exchanges[c].phase # "none" => Undiverted(exchanges[c])

(* What is known of the request, whatever it is written for. *)
Ordinary(r) ==
  /\ HostRules(r.host) = {} /\ r.path[1] # "_localstack"
  /\ \A outcome \in r.outcomes : outcome.kind = "raise" => outcome.code \notin ParserErrors

LEMMA AddressedIsOrdinary ==
  ASSUME NEW r, NEW m, NEW p, Addressed(r, m, p)
  PROVE  Ordinary(r)
  BY DEF Addressed, WrittenFor, Ordinary, ParserErrors

(* What a handler leaves of the way of an ordinary request. *)
Unswayed(x, y) ==
  /\ DOMAIN y = Fields
  /\ y.req = x.req /\ y.phase = x.phase /\ y.at = x.at
  /\ Ordinary(x.req) =>
       /\ y.service = x.service /\ y.model = x.model /\ y.protocol = x.protocol
       /\ y.operation = x.operation /\ y.error = x.error
       /\ x.encoding \in {"identity", "gzip"} => y.encoding \in {"identity", "gzip"}
       /\ (x.reached \/ x.status # 404) => (y.reached \/ y.status # 404)

Goes(c, y) ==
  \/ Pass(c, y)
  \/ \E type : (Ordinary(y.req) => type \notin ParserErrors) /\ Raise(c, y, Failure(type))

LEMMA ThrownMoves ==
  ASSUME NEW x, NEW y, NEW type, Unswayed(x, y)
  PROVE  \/ Thrown(y, Failure(type)) = Advance(y)
         \/ /\ Thrown(y, Failure(type)).req = y.req /\ Thrown(y, Failure(type)).phase = "exception"
            /\ Thrown(y, Failure(type)).error = Failure(type)
            /\ Thrown(y, Failure(type)).service = y.service /\ Thrown(y, Failure(type)).model = y.model
            /\ Thrown(y, Failure(type)).protocol = y.protocol /\ Thrown(y, Failure(type)).operation = y.operation
            /\ Thrown(y, Failure(type)).encoding = y.encoding
            /\ Thrown(y, Failure(type)).reached = y.reached /\ Thrown(y, Failure(type)).status = y.status
<1> DEFINE z == [y EXCEPT !.error = Failure(type), !.stopped = TRUE, !.phase = "exception", !.at = 1]
<1>1. Thrown(y, Failure(type)) = Advance(y) \/ Thrown(y, Failure(type)) = z
  BY DEF Thrown
<1>2. /\ z.req = y.req /\ z.phase = "exception" /\ z.error = Failure(type)
      /\ z.service = y.service /\ z.model = y.model /\ z.protocol = y.protocol /\ z.operation = y.operation
      /\ z.encoding = y.encoding /\ z.reached = y.reached /\ z.status = y.status
  BY DEF Unswayed, Fields
<1> HIDE DEF z
<1> QED  BY <1>1, <1>2

(* Except where the service and the operation are set. *)
LEMMA StaysOnItsWay ==
  ASSUME NEW x, NEW y, NEW m, NEW p, OnItsWay(x, m, p), Ordinary(x.req), Unswayed(x, y),
         x.at \in Nat, x.phase = "request" => x.at \notin {11, 17}
  PROVE  /\ OnItsWay(Advance(y), m, p)
         /\ \A type : type \notin ParserErrors => OnItsWay(Thrown(y, Failure(type)), m, p)
<1>1. /\ y.service = x.service /\ y.model = x.model /\ y.protocol = x.protocol
      /\ y.operation = x.operation /\ y.error = x.error /\ y.req = x.req /\ y.phase = x.phase /\ y.at = x.at
      /\ y.encoding \in {"identity", "gzip"} /\ (y.reached \/ y.status # 404)
  BY DEF Unswayed, OnItsWay
<1>2. Agrees(y, Advance(y))
  BY AdvanceMoves DEF Unswayed
<1>3. /\ Advance(y).phase = "request" => x.phase = "request" /\ Advance(y).at = x.at + 1
  <2>1. CASE Leaves(y)
    <3>1. Advance(y).phase = "final" \/ Advance(y).phase = After(y.phase)
      BY <2>1, AdvanceMoves DEF Unswayed
    <3> QED  BY <3>1 DEF After
  <2>2. CASE ~Leaves(y)
    BY <1>1, <2>2, AdvanceMoves DEF Unswayed
  <2> QED  BY <2>1, <2>2
<1>4. OnItsWay(Advance(y), m, p)
  BY <1>1, <1>2, <1>3 DEF OnItsWay, Agrees
<1>5. ASSUME NEW type, type \notin ParserErrors PROVE OnItsWay(Thrown(y, Failure(type)), m, p)
  <2>1. Failure(type).type = type
    BY DEF Failure
  <2> QED  BY <1>1, <1>4, <1>5, <2>1, ThrownMoves DEF OnItsWay
<1> QED  BY <1>4, <1>5

LEMMA OthersStay ==
  ASSUME IInv, RInv, NEW c \in Clients, NEW z, exchanges' = [exchanges EXCEPT ![c] = z], Undiverted(z)
  PROVE  RInv'
<1>1. exchanges'[c] = z /\ \A d \in Clients \ {c} : exchanges'[d] = exchanges[d]
  BY DEF IInv
<1>2. ASSUME NEW d \in Clients, exchanges'[d].phase # "none" PROVE Undiverted(exchanges'[d])
  BY <1>1, <1>2 DEF RInv
<1>3. ASSUME NEW d \in Clients PROVE Undiverted(exchanges'[d]) <=> Undiverted(exchanges[d])'
  BY DEF Undiverted
<1> QED  BY <1>2, <1>3 DEF RInv

LEMMA Where ==
  ASSUME IInv, NEW c \in Clients, NEW h, At(c, h)
  PROVE  /\ DOMAIN exchanges[c] = Fields /\ exchanges[c].at \in Nat /\ exchanges[c].phase # "none"
         /\ Proper(c, exchanges[c], items, metrics)
         /\ exchanges[c].phase = "request" =>
              /\ exchanges[c].at = 11 <=> h = "parse_service_name"
              /\ exchanges[c].at = 17 <=> h = "parse_service_request"
<1> DEFINE x == exchanges[c]
<1>1. HandlersOf(x.phase)[x.at] = h /\ x.phase # "none"
  BY DEF At
<1>2. Proper(c, x, items, metrics) /\ x.phase # "done"
  BY Running
<1> HIDE DEF x
<1>3. DOMAIN x = Fields
  BY <1>2 DEF Proper, Shape
<1>4. x.at \in 1..Length(x.phase)
  BY <1>2, ChainLengths DEF Proper, InRequest, InException, InResponse, InFinal
<1>5. x.at \in Nat
  BY <1>2, <1>4, ChainLengths DEF Proper
<1>6. ASSUME x.phase = "request"
      PROVE  /\ x.at = 11 <=> h = "parse_service_name"
             /\ x.at = 17 <=> h = "parse_service_request"
  <2>1. x.at \in 1..22 /\ RequestHandlers[x.at] = h
    BY <1>1, <1>4, <1>6, Chains, ChainLengths
  <2> QED  BY <2>1 DEF RequestHandlers
<1> QED  BY <1>1, <1>2, <1>3, <1>5, <1>6 DEF x

LEMMA Carries ==
  ASSUME IInv, RInv, NEW c \in Clients, NEW h, At(c, h),
         h \notin {"parse_service_name", "parse_service_request"},
         NEW y, Unswayed(exchanges[c], y), Goes(c, y)
  PROVE  RInv'
<1> DEFINE x == exchanges[c]
<1>1. x.phase # "none" /\ x.at \in Nat /\ (x.phase = "request" => x.at \notin {11, 17})
  BY Where
<1>2. Undiverted(x)
  BY <1>1 DEF RInv
<1>3. y.req = x.req /\ Advance(y).req = x.req
  BY AdvanceMoves DEF Unswayed, Agrees
<1> HIDE DEF x
<1>4. ASSUME NEW m \in Catalogue, NEW p \in Spoken(m), Addressed(x.req, m, p)
      PROVE  /\ OnItsWay(Advance(y), m, p)
             /\ \A type : type \notin ParserErrors => OnItsWay(Thrown(y, Failure(type)), m, p)
  <2>1. OnItsWay(x, m, p) /\ Ordinary(x.req)
    BY <1>2, <1>4, AddressedIsOrdinary DEF Undiverted
  <2> QED  BY <1>1, <2>1, StaysOnItsWay DEF x
<1>5. CASE Pass(c, y)
  <2>1. Undiverted(Advance(y))
    BY <1>3, <1>4 DEF Undiverted
  <2> QED  BY <1>5, <2>1, OthersStay DEF Pass
<1>6. ASSUME NEW type, Ordinary(y.req) => type \notin ParserErrors, Raise(c, y, Failure(type))
      PROVE  RInv'
  <2> DEFINE z == Thrown(y, Failure(type))
  <2>1. z.req = x.req
    BY <1>3, ThrownMoves DEF x
  <2>2. Undiverted(z)
    <3> SUFFICES ASSUME NEW m \in Catalogue, NEW p \in Spoken(m), Addressed(z.req, m, p)
                 PROVE  OnItsWay(z, m, p)
      BY DEF Undiverted
    <3>1. type \notin ParserErrors
      BY <1>3, <1>6, <2>1, AddressedIsOrdinary
    <3> QED  BY <1>4, <2>1, <3>1
  <2> QED  BY <1>6, <2>2, OthersStay DEF Raise
<1> QED  BY <1>5, <1>6 DEF Goes

(* The handlers, each by what it leaves.                                   *)
LEMMA Untouched ==
  ASSUME IInv, NEW c \in Clients, NEW h, At(c, h)
  PROVE  Unswayed(exchanges[c], exchanges[c])
  BY Where DEF Unswayed

LEMMA CarriesOn ==
  ASSUME IInv, RInv, NEW c \in Clients
  PROVE  /\ PassSilently(c) => RInv'
         /\ CreateMetricHandlerItem(c) => RInv'
         /\ RecordParsedRequest(c) => RInv'
         /\ UpdateMetricCollection(c) => RInv'
<1> DEFINE x == exchanges[c]
<1>1. ASSUME PassSilently(c) PROVE RInv'
  <2>1. PICK h \in Silent : At(c, h) /\ Pass(c, x)
    BY <1>1 DEF PassSilently, AloneWith
  <2> QED  BY <2>1, Untouched, Carries DEF Goes, Silent
<1>2. ASSUME CreateMetricHandlerItem(c) PROVE RInv'
  <2>1. At(c, "create_metric_handler_item") /\ Pass(c, x)
    BY <1>2 DEF CreateMetricHandlerItem
  <2> QED  BY <2>1, Untouched, Carries DEF Goes
<1>3. ASSUME RecordParsedRequest(c) PROVE RInv'
  <2>1. At(c, "record_parsed_request") /\ Pass(c, x)
    BY <1>3 DEF RecordParsedRequest
  <2> QED  BY <2>1, Untouched, Carries DEF Goes
<1>4. ASSUME UpdateMetricCollection(c) PROVE RInv'
  <2>1. At(c, "update_metric_collection")
    BY <1>4 DEF UpdateMetricCollection
  <2>2. Pass(c, x) \/ Raise(c, x, Failure("UnicodeDecodeError"))
    BY <1>4 DEF UpdateMetricCollection
  <2>3. Goes(c, x)
    BY <2>2 DEF Goes, ParserErrors
  <2> QED  BY <2>1, <2>3, Untouched, Carries
<1> QED  BY <1>1, <1>2, <1>3, <1>4

LEMMA CarriesStatus ==
  ASSUME IInv, RInv, NEW c \in Clients
  PROVE  /\ AddInternalRequestParams(c) => RInv'
         /\ HandleRuntimeShutdown(c) => RInv'
         /\ EnforceCors(c) => RInv'
         /\ ValidateRequestSchema(c) => RInv'
         /\ ValidateResponseSchema(c) => RInv'
         /\ ServeLocalstackResources(c) => RInv'
<1> DEFINE x == exchanges[c]
<1>0. ASSUME NEW h, At(c, h), h \notin {"parse_service_name", "parse_service_request"}, NEW y, Pass(c, y),
             DOMAIN x = Fields => Unswayed(x, y)
      PROVE  RInv'
  BY <1>0, Where, Carries DEF Goes
<1>1. ASSUME AddInternalRequestParams(c) PROVE RInv'
  <2> DEFINE y == [x EXCEPT !.internal = x.req.internal = "valid"]
  <2>1. At(c, "add_internal_request_params") /\ Pass(c, y)
    BY <1>1 DEF AddInternalRequestParams, AloneWith
  <2>2. DOMAIN x = Fields => Unswayed(x, y)
    BY DEF Unswayed, Fields
  <2> QED  BY <1>0, <2>1, <2>2
<1>2. ASSUME NEW status \in Nat \ {404} PROVE DOMAIN x = Fields => Unswayed(x, Respond(x, status))
  BY <1>2 DEF Unswayed, Fields, Respond
<1>3. ASSUME HandleRuntimeShutdown(c) PROVE RInv'
  <2>1. At(c, "handle_runtime_shutdown") /\ (Pass(c, x) \/ Pass(c, Respond(x, 503)))
    BY <1>3 DEF HandleRuntimeShutdown, AloneWith
  <2> QED  BY <1>0, <1>2, <2>1, Untouched
<1>4. ASSUME EnforceCors(c) PROVE RInv'
  <2> DEFINE y == [x EXCEPT !.status = 403, !.terminated = TRUE]
  <2>1. At(c, "enforce_cors") /\ (Pass(c, x) \/ Pass(c, y) \/ Pass(c, Respond(x, 204)))
    BY <1>4 DEF EnforceCors, AloneWith
  <2>2. DOMAIN x = Fields => Unswayed(x, y)
    BY DEF Unswayed, Fields
  <2> QED  BY <1>0, <1>2, <2>1, <2>2, Untouched
<1>5. ASSUME ValidateRequestSchema(c) PROVE RInv'
  <2> DEFINE y == [Answer(x, 400, "plain") EXCEPT !.stopped = TRUE]
  <2>1. At(c, "validate_request_schema") /\ (Pass(c, x) \/ Pass(c, y))
    BY <1>5 DEF ValidateRequestSchema, AloneWith
  <2>2. DOMAIN x = Fields => Unswayed(x, y)
    BY DEF Unswayed, Fields, Answer
  <2> QED  BY <1>0, <2>1, <2>2, Untouched
<1>6. ASSUME ValidateResponseSchema(c) PROVE RInv'
  <2> DEFINE y == [Answer(x, 500, "plain") EXCEPT !.terminated = TRUE]
  <2>1. At(c, "validate_response_schema") /\ (Pass(c, x) \/ Pass(c, y))
    BY <1>6 DEF ValidateResponseSchema, AloneWith
  <2>2. DOMAIN x = Fields => Unswayed(x, y)
    BY DEF Unswayed, Fields, Answer
  <2> QED  BY <1>0, <2>1, <2>2, Untouched
<1>7. ASSUME ServeLocalstackResources(c) PROVE RInv'
  <2> DEFINE y == [Answer(x, 200, "plain") EXCEPT !.stopped = TRUE]
  <2>1. At(c, "serve_localstack_resources")
    BY <1>7 DEF ServeLocalstackResources, AloneWith
  <2>2. \/ Pass(c, x) \/ Pass(c, y) \/ Raise(c, x, Failure("MethodNotAllowed"))
        \/ x.req.path[1] = "_localstack" /\ Pass(c, Respond(x, 404))
    BY <1>7 DEF ServeLocalstackResources
  <2>3. DOMAIN x = Fields => Unswayed(x, y)
    BY DEF Unswayed, Fields, Answer
  <2>4. DOMAIN x = Fields /\ x.req.path[1] = "_localstack" => Unswayed(x, Respond(x, 404))
    BY DEF Unswayed, Fields, Respond, Ordinary
  <2>5. Raise(c, x, Failure("MethodNotAllowed")) => Goes(c, x)
    BY DEF Goes, ParserErrors
  <2> HIDE DEF y
  <2> QED  BY <1>0, <2>1, <2>2, <2>3, <2>4, <2>5, Untouched, Carries
<1> QED  BY <1>1, <1>3, <1>4, <1>5, <1>6, <1>7

LEMMA CarriesContext ==
  ASSUME IInv, RInv, NEW c \in Clients
  PROVE  /\ LoadServiceForDataPlane(c) => RInv'
         /\ DecodeContent(c) => RInv'
         /\ InjectAuthHeaderIfMissing(c) => RInv'
         /\ AddRegionFromHeader(c) => RInv'
         /\ RewriteRegion(c) => RInv'
         /\ AddAccountId(c) => RInv'
         /\ LoadService(c) => RInv'
<1> DEFINE x == exchanges[c]
<1>0. ASSUME NEW h, At(c, h), h \notin {"parse_service_name", "parse_service_request"}, NEW y, Pass(c, y),
             DOMAIN x = Fields => Unswayed(x, y)
      PROVE  RInv'
  BY <1>0, Where, Carries DEF Goes
<1>1. ASSUME LoadServiceForDataPlane(c) PROVE RInv'
  <2> DEFINE model == DataPlane(x.req)
             y == [x EXCEPT !.service = model.name, !.model = model]
  <2>1. At(c, "load_service_for_data_plane") /\ (Pass(c, x) \/ (model.name # Unset /\ RequireService(c, y)))
    BY <1>1 DEF LoadServiceForDataPlane
  <2>2. model.name # Unset => ~Ordinary(x.req)
    BY DEF DataPlane, NoModel, Ordinary
  <2>3. DOMAIN x = Fields /\ model.name # Unset => Unswayed(x, y)
    BY <2>2 DEF Unswayed, Fields
  <2> HIDE DEF model, y
  <2>4. RequireService(c, y) => Goes(c, y)
    BY RequireServiceEnds DEF Goes, ParserErrors
  <2> QED  BY <2>1, <2>3, <2>4, Untouched, Where, Carries DEF Goes
<1>2. ASSUME DecodeContent(c) PROVE RInv'
  <2>1. PICK encoding : Pass(c, [x EXCEPT !.encoding = encoding])
                        /\ (x.encoding \in {"identity", "gzip"} => encoding \in {"identity", "gzip"})
    BY <1>2 DEF DecodeContent
  <2>2. DOMAIN x = Fields => Unswayed(x, [x EXCEPT !.encoding = encoding])
    BY <2>1 DEF Unswayed, Fields
  <2>3. At(c, "content_decoder")
    BY <1>2 DEF DecodeContent, AloneWith
  <2> QED  BY <1>0, <2>1, <2>2, <2>3
<1>3. ASSUME InjectAuthHeaderIfMissing(c) PROVE RInv'
  <2> DEFINE y == [x EXCEPT !.auth = Identity!MockAuth(x.service)]
  <2>1. At(c, "inject_auth_header_if_missing") /\ Pass(c, Identity!InjectAuth(x))
    BY <1>3 DEF InjectAuthHeaderIfMissing, AloneWith
  <2>2. Identity!InjectAuth(x) = x \/ Identity!InjectAuth(x) = y
    BY Zenon DEF Identity!InjectAuth
  <2>3. DOMAIN x = Fields => Unswayed(x, y)
    BY DEF Unswayed, Fields
  <2> HIDE DEF y
  <2> QED  BY <1>0, <2>1, <2>2, <2>3, Untouched
<1>4. ASSUME AddRegionFromHeader(c) PROVE RInv'
  <2>1. PICK region, partition : Pass(c, [x EXCEPT !.region = region, !.partition = partition])
    BY <1>4 DEF AddRegionFromHeader, Identity!AddRegion
  <2>2. DOMAIN x = Fields => Unswayed(x, [x EXCEPT !.region = region, !.partition = partition])
    BY DEF Unswayed, Fields
  <2>3. At(c, "add_region_from_header")
    BY <1>4 DEF AddRegionFromHeader, AloneWith
  <2> QED  BY <1>0, <2>1, <2>2, <2>3
<1>5. ASSUME RewriteRegion(c) PROVE RInv'
  <2> DEFINE y(region, auth) == [x EXCEPT !.region = region, !.partition = "aws", !.auth = auth]
  <2>1. At(c, "rewrite_region") /\ (Pass(c, x) \/ \E region, auth : Pass(c, y(region, auth)))
    BY <1>5 DEF RewriteRegion, Identity!RewriteRegion, AloneWith
  <2>2. ASSUME NEW region, NEW auth PROVE DOMAIN x = Fields => Unswayed(x, y(region, auth))
    BY DEF Unswayed, Fields
  <2> HIDE DEF y
  <2> QED  BY <1>0, <2>1, <2>2, Untouched
<1>6. ASSUME AddAccountId(c) PROVE RInv'
  <2>1. PICK account : Pass(c, [x EXCEPT !.account = account])
    BY <1>6 DEF AddAccountId, Identity!AddAccount
  <2>2. DOMAIN x = Fields => Unswayed(x, [x EXCEPT !.account = account])
    BY DEF Unswayed, Fields
  <2>3. At(c, "add_account_id")
    BY <1>6 DEF AddAccountId, AloneWith
  <2> QED  BY <1>0, <2>1, <2>2, <2>3
<1>7. ASSUME LoadService(c) PROVE RInv'
  <2>1. At(c, "load_service") /\ Goes(c, x)
    BY <1>7, RequireServiceEnds DEF LoadService, Goes, ParserErrors
  <2> QED  BY <2>1, Untouched, Carries
<1> QED  BY <1>1, <1>2, <1>3, <1>4, <1>5, <1>6, <1>7

(* With a service the provider answers, so that nothing is left for        *)
(* empty_response.                                                         *)
LEMMA CarriesAnswers ==
  ASSUME IInv, RInv, NEW c \in Clients
  PROVE  /\ RouteServiceRequest(c) => RInv'
         /\ RespondEmpty(c) => RInv'
         /\ HandleServiceException(c) => RInv'
         /\ HandleInternalFailure(c) => RInv'
         /\ ParseServiceResponse(c) => RInv'
         /\ AddCorsResponseHeaders(c) => RInv'
<1> DEFINE x == exchanges[c]
<1>0. ASSUME NEW h, At(c, h), h \notin {"parse_service_name", "parse_service_request"}, NEW y, Pass(c, y),
             DOMAIN x = Fields => Unswayed(x, y)
      PROVE  RInv'
  BY <1>0, Where, Carries DEF Goes
<1>1. ASSUME RouteServiceRequest(c) PROVE RInv'
  <2> DEFINE refused == [Answer(x, 501, BodyOf(x)) EXCEPT !.stopped = TRUE]
             reached == [x EXCEPT !.reached = TRUE]
             answered(answer) == [Answer(reached, answer.status, BodyOf(x)) EXCEPT
                                    !.response = answer.result, !.exception = answer.exception]
  <2>1. At(c, "service_request_router")
    BY <1>1 DEF RouteServiceRequest, AloneWith
  <2>2. \/ Pass(c, x)
        \/ Pass(c, refused)
        \/ \E outcome \in x.req.outcomes :
             LET answer == Invoke(Tables[x.service], x.operation, x.parameters, outcome)
             IN  IF answer.kind = "raised" THEN Raise(c, reached, Failure(answer.exception))
                 ELSE Pass(c, answered(answer))
    BY <1>1 DEF RouteServiceRequest
  <2>3. DOMAIN x = Fields => Unswayed(x, refused) /\ Unswayed(x, reached) /\ reached.req = x.req
    BY DEF Unswayed, Fields, Answer
  <2>4. ASSUME NEW answer PROVE DOMAIN x = Fields => Unswayed(x, answered(answer))
    BY DEF Unswayed, Fields, Answer
  <2>5. x.req \in RequestsOf[c]
    BY <2>1, Where DEF Proper, Shape
  <2> HIDE DEF refused, reached, answered
  <2>6. ASSUME NEW outcome \in x.req.outcomes, NEW answer,
               answer = Invoke(Tables[x.service], x.operation, x.parameters, outcome),
               answer.kind = "raised", Raise(c, reached, Failure(answer.exception))
        PROVE  RInv'
    <3>1. answer.exception = "TypeError" \/ (outcome.kind = "raise" /\ answer.exception = outcome.code)
      BY <2>5, <2>6, InvokeAnswers
    <3>2. Ordinary(x.req) => answer.exception \notin ParserErrors
      BY <2>6, <3>1 DEF Ordinary, ParserErrors
    <3>3. Goes(c, reached)
      BY <2>1, <2>3, <2>6, <3>2, Where DEF Goes
    <3> QED  BY <2>1, <2>3, <3>3, Where, Carries
  <2> QED  BY <1>0, <2>1, <2>2, <2>3, <2>4, <2>6, Untouched
<1>2. ASSUME RespondEmpty(c) PROVE RInv'
  <2> DEFINE y == Answer(x, 404, "plain")
  <2>1. At(c, "empty_response") /\ (Pass(c, x) \/ Pass(c, y))
    BY <1>2 DEF RespondEmpty, AloneWith
  <2>2. CASE Pass(c, x)
    BY <1>0, <2>1, <2>2, Untouched
  <2>3. CASE Pass(c, y)
    <3>1. /\ DOMAIN x = Fields /\ x.phase = "request" /\ x.at = 22 /\ InRequest(c, x, items)
          /\ Undiverted(x)
      BY <2>1, Running, Where DEF Place, Proper, RInv
    <3>2. /\ DOMAIN y = Fields /\ y.req = x.req /\ y.phase = x.phase /\ y.at = x.at
          /\ y.service = x.service /\ y.model = x.model /\ y.protocol = x.protocol /\ y.error = x.error
          /\ y.operation = x.operation /\ y.encoding = x.encoding /\ y.reached = x.reached
      BY <3>1 DEF Answer, Fields
    <3> HIDE DEF x, y
    <3>3. Agrees(y, Advance(y)) /\ Advance(y).phase # "request"
      <4>1. Leaves(y)
        BY <3>1, <3>2, ChainLengths, LeavesWhen
      <4> QED  BY <3>1, <3>2, <4>1, AdvanceMoves DEF After
    <3>4. ASSUME NEW m \in Catalogue, NEW p \in Spoken(m), Addressed(x.req, m, p)
          PROVE  OnItsWay(Advance(y), m, p)
      <4>1. OnItsWay(x, m, p)
        BY <3>1, <3>4 DEF Undiverted
      <4>2. x.operation # Unset
        BY <3>1, <4>1 DEF OnItsWay
      <4>3. x.reached
        BY <3>1, <4>2 DEF InRequest
      <4> QED  BY <3>2, <3>3, <4>1, <4>3 DEF OnItsWay, Agrees
    <3>5. Undiverted(Advance(y))
      BY <3>2, <3>3, <3>4 DEF Undiverted, Agrees
    <3> QED  BY <2>3, <3>5, OthersStay DEF Pass
  <2> QED  BY <2>1, <2>2, <2>3
<1>3. ASSUME HandleServiceException(c) PROVE RInv'
  <2> DEFINE error == ErrorOf(x)
             y == [Answer(x, error.status, BodyOf(x)) EXCEPT !.exception = error.code]
  <2>1. At(c, "handle_service_exception") /\ (Pass(c, x) \/ Pass(c, y))
    BY <1>3 DEF HandleServiceException, AloneWith
  <2>2. x.phase = "exception" /\ Unexpected(x.error)
    BY <2>1, Running DEF Place, Proper, InException
  <2>3. error.status \in {500, 501}
    BY <2>2, ErrorsAreAnswered
  <2> HIDE DEF error
  <2>4. DOMAIN x = Fields => Unswayed(x, y)
    BY <2>3 DEF Unswayed, Fields, Answer
  <2> QED  BY <1>0, <2>1, <2>4, Untouched
<1>4. ASSUME HandleInternalFailure(c) PROVE RInv'
  <2>1. /\ At(c, "handle_internal_failure")
        /\ Pass(c, x) \/ Pass(c, Answer(x, 405, "plain")) \/ Pass(c, Answer(x, 500, "plain"))
    BY <1>4 DEF HandleInternalFailure, AloneWith
  <2>2. DOMAIN x = Fields => Unswayed(x, Answer(x, 405, "plain")) /\ Unswayed(x, Answer(x, 500, "plain"))
    BY DEF Unswayed, Fields, Answer
  <2> QED  BY <1>0, <2>1, <2>2, Untouched
<1>5. ASSUME ParseServiceResponse(c) PROVE RInv'
  <2> DEFINE y == [x EXCEPT !.exception = "parsed"]
             z == [x EXCEPT !.response = TRUE]
  <2>1. At(c, "parse_service_response") /\ (Pass(c, x) \/ Pass(c, y) \/ Pass(c, z))
    BY <1>5 DEF ParseServiceResponse, AloneWith
  <2>2. DOMAIN x = Fields => Unswayed(x, y) /\ Unswayed(x, z)
    BY DEF Unswayed, Fields
  <2> HIDE DEF y, z
  <2> QED  BY <1>0, <2>1, <2>2, Untouched
<1>6. ASSUME AddCorsResponseHeaders(c) PROVE RInv'
  <2>1. PICK cors : Pass(c, [x EXCEPT !.cors = cors])
    BY <1>6 DEF AddCorsResponseHeaders
  <2>2. DOMAIN x = Fields => Unswayed(x, [x EXCEPT !.cors = cors])
    BY DEF Unswayed, Fields
  <2>3. At(c, "add_cors_response_headers")
    BY <1>6 DEF AddCorsResponseHeaders, AloneWith
  <2> QED  BY <1>0, <2>1, <2>2, <2>3
<1> QED  BY <1>1, <1>2, <1>3, <1>4, <1>5, <1>6

(* One client at a time: the request stays, and its way with it.           *)
LEMMA OnlyTheWay ==
  ASSUME IInv, RInv, NEW c \in Clients, NEW z, exchanges' = [exchanges EXCEPT ![c] = z],
         exchanges[c].phase # "none", z.req = exchanges[c].req,
         \A m \in Catalogue : \A p \in Spoken(m) :
           Addressed(z.req, m, p) /\ OnItsWay(exchanges[c], m, p) => OnItsWay(z, m, p)
  PROVE  RInv'
<1>1. Undiverted(exchanges[c])
  BY DEF RInv
<1>2. Undiverted(z)
  BY <1>1 DEF Undiverted
<1> QED  BY <1>2, OthersStay

(* The chain goes on, or its exception handlers do. *)
LEMMA Moves ==
  ASSUME NEW x, DOMAIN x = Fields, x.phase = "request", x.at \in 1..21, ~x.stopped, ~x.terminated
  PROVE  /\ Agrees(x, Advance(x)) /\ Advance(x).phase = "request" /\ Advance(x).at = x.at + 1
         /\ \A type : Thrown(x, Failure(type)).req = x.req
<1>1. ~Leaves(x)
  BY LeavesWhen, ChainLengths
<1>2. ASSUME NEW type PROVE Thrown(x, Failure(type)).req = x.req
  BY DEF Thrown, Fields
<1> QED  BY <1>1, <1>2, AdvanceMoves

LEMMA FindsItsService ==
  ASSUME IInv, RInv, NEW c \in Clients, ParseServiceName(c)
  PROVE  RInv'
<1> DEFINE x == exchanges[c]
           Named(model) == [x EXCEPT !.service = model.name, !.model = model]
           Spoke(y, protocol) == [y EXCEPT !.protocol = protocol]
<1>1. At(c, "parse_service_name")
  BY DEF ParseServiceName, AloneWith
<1>2. /\ DOMAIN x = Fields /\ x.phase = "request" /\ x.at = 11 /\ ~x.stopped /\ ~x.terminated
  <2>1. DOMAIN x = Fields /\ x.phase = "request" /\ InRequest(c, x, items)
    BY <1>1, Running, Where DEF Place, EarlyHandlers, Proper
  <2> QED  BY <1>1, <2>1, Where DEF InRequest
<1>3. \/ x.service # Unset /\ WithProtocol(c, x)
      \/ x.service = Unset /\ \E model \in Determine(x.req) :
           \/ model \in Unrouted /\ Raise(c, x, Failure("Exception"))
           \/ model = NoModel /\ Pass(c, x)
           \/ model \notin Unrouted /\ model # NoModel /\ WithProtocol(c, Named(model))
  BY DEF ParseServiceName
<1>4. ASSUME NEW model
      PROVE  /\ DOMAIN Named(model) = Fields /\ Named(model).phase = "request" /\ Named(model).at = 11
             /\ ~Named(model).stopped /\ ~Named(model).terminated
             /\ Named(model).req = x.req /\ Named(model).service = model.name /\ Named(model).model = model
             /\ Named(model).operation = x.operation /\ Named(model).encoding = x.encoding
             /\ Named(model).error = x.error /\ Named(model).status = x.status /\ Named(model).reached = x.reached
  BY <1>2 DEF Fields
<1>5. ASSUME NEW y, DOMAIN y = Fields, y.phase = "request", y.at = 11, ~y.stopped, ~y.terminated,
             NEW protocol
      PROVE  LET z == Advance(Spoke(y, protocol))
             IN  /\ z.req = y.req /\ z.phase = "request" /\ z.at = 12 /\ z.protocol = protocol
                 /\ z.service = y.service /\ z.model = y.model /\ z.operation = y.operation
                 /\ z.encoding = y.encoding /\ z.error = y.error /\ z.status = y.status /\ z.reached = y.reached
  <2> DEFINE w == Spoke(y, protocol)
  <2>1. /\ DOMAIN w = Fields /\ w.phase = "request" /\ w.at = 11 /\ ~w.stopped /\ ~w.terminated
        /\ w.req = y.req /\ w.protocol = protocol /\ w.service = y.service /\ w.model = y.model
        /\ w.operation = y.operation /\ w.encoding = y.encoding /\ w.error = y.error
        /\ w.status = y.status /\ w.reached = y.reached
    BY <1>5 DEF Fields
  <2> HIDE DEF w
  <2>2. Agrees(w, Advance(w)) /\ Advance(w).phase = "request" /\ Advance(w).at = 12
    BY <2>1, Moves
  <2> QED  BY <2>1, <2>2 DEF Agrees, w
(* With the model of the addressed service, its protocol is found.         *)
<1>6. ASSUME NEW y, DOMAIN y = Fields, y.phase = "request", y.at = 11, ~y.stopped, ~y.terminated,
             y.req = x.req, y.operation = x.operation, y.encoding = x.encoding, y.error = x.error,
             y.status = x.status, y.reached = x.reached,
             \A m \in Catalogue : \A p \in Spoken(m) :
               Addressed(x.req, m, p) /\ OnItsWay(x, m, p) => y.service = m.name /\ y.model = m /\ m.name # Unset,
             WithProtocol(c, y)
      PROVE  RInv'
  <2> DEFINE protocol == DetermineProtocol(y.req, y.model)
             z == Advance(Spoke(y, protocol))
             t == Thrown(y, Failure("ProtocolError"))
  <2>1. ASSUME NEW m \in Catalogue, NEW p \in Spoken(m), Addressed(x.req, m, p), OnItsWay(x, m, p)
        PROVE  protocol = p /\ protocol # Unset
    BY <1>6, <2>1, ProtocolFound DEF Addressed
  <2>2. \/ protocol = Unset /\ exchanges' = [exchanges EXCEPT ![c] = t]
        \/ protocol # Unset /\ exchanges' = [exchanges EXCEPT ![c] = z]
    BY <1>6 DEF WithProtocol, Pass, Raise
  <2>3. t.req = x.req
    BY <1>6, Moves
  <2>4. /\ z.req = x.req /\ z.phase = "request" /\ z.at = 12 /\ z.protocol = protocol
        /\ z.service = y.service /\ z.model = y.model /\ z.operation = x.operation
        /\ z.encoding = x.encoding /\ z.error = x.error /\ z.status = x.status /\ z.reached = x.reached
    BY <1>5, <1>6
  <2> HIDE DEF x, z, t, protocol
  <2>5. CASE protocol = Unset
    BY <1>2, <2>1, <2>2, <2>3, <2>5, OnlyTheWay DEF x
  <2>6. CASE protocol # Unset
    <3>1. ASSUME NEW m \in Catalogue, NEW p \in Spoken(m), Addressed(x.req, m, p), OnItsWay(x, m, p)
          PROVE  OnItsWay(z, m, p)
      BY <1>6, <2>1, <2>4, <3>1 DEF OnItsWay
    <3> QED  BY <1>2, <2>2, <2>4, <2>6, <3>1, OnlyTheWay DEF x
  <2> QED  BY <2>5, <2>6
<1>7. \A m \in Catalogue : m.name # Unset
  BY CatalogueAssumption
<1>8. CASE x.service # Unset /\ WithProtocol(c, x)
  <2>1. \A m \in Catalogue : \A p \in Spoken(m) :
          Addressed(x.req, m, p) /\ OnItsWay(x, m, p) => x.service = m.name /\ x.model = m /\ m.name # Unset
    BY <1>7, <1>8 DEF OnItsWay
  <2> HIDE DEF x
  <2> QED  BY <1>2, <1>6, <1>8, <2>1
<1>9. ASSUME x.service = Unset, NEW model \in Determine(x.req),
             \/ model \in Unrouted /\ Raise(c, x, Failure("Exception"))
             \/ model = NoModel /\ Pass(c, x)
             \/ model \notin Unrouted /\ model # NoModel /\ WithProtocol(c, Named(model))
      PROVE  RInv'
  <2>1. \A m \in Catalogue : \A p \in Spoken(m) :
          Addressed(x.req, m, p) => model = m /\ m.name # Unset /\ m # NoModel /\ m \notin Unrouted
    <3> SUFFICES ASSUME NEW m \in Catalogue, NEW p \in Spoken(m), Addressed(x.req, m, p)
                 PROVE  model = m /\ m.name # Unset /\ m # NoModel /\ m \notin Unrouted
      OBVIOUS
    <3>1. model = m
      BY <1>9, ServiceFound
    <3>2. m.name # Unset /\ m # NoModel
      BY <1>7 DEF NoModel
    <3>3. m \notin Unrouted
      BY <1>7 DEF Unrouted, UnknownService, UnknownProtocol, AttributeFailure
    <3> QED  BY <3>1, <3>2, <3>3
  <2>2. CASE model \in Unrouted \/ model = NoModel
    <3>1. \A m \in Catalogue : \A p \in Spoken(m) : ~Addressed(x.req, m, p)
      BY <2>1, <2>2
    <3>2. Advance(x).req = x.req /\ Thrown(x, Failure("Exception")).req = x.req
      BY <1>2, Moves DEF Agrees
    <3>3. \/ exchanges' = [exchanges EXCEPT ![c] = Advance(x)]
          \/ exchanges' = [exchanges EXCEPT ![c] = Thrown(x, Failure("Exception"))]
      BY <1>9, <2>2 DEF Pass, Raise
    <3> HIDE DEF x
    <3> QED  BY <1>2, <3>1, <3>2, <3>3, OnlyTheWay DEF x
  <2>3. CASE model \notin Unrouted /\ model # NoModel
    <3>1. WithProtocol(c, Named(model))
      BY <1>9, <2>3
    <3>2. \A m \in Catalogue : \A p \in Spoken(m) :
            Addressed(x.req, m, p) /\ OnItsWay(x, m, p) =>
              Named(model).service = m.name /\ Named(model).model = m /\ m.name # Unset
      BY <1>4, <2>1
    <3> HIDE DEF x, Named
    <3> QED  BY <1>4, <1>6, <3>1, <3>2
  <2> QED  BY <2>2, <2>3
<1> QED  BY <1>3, <1>8, <1>9

LEMMA FindsItsOperation ==
  ASSUME IInv, RInv, NEW c \in Clients, ParseServiceRequest(c)
  PROVE  RInv'
<1> DEFINE x == exchanges[c]
           Parsed(operation) == [x EXCEPT !.operation = operation, !.parameters = x.req.parameters]
<1>1. At(c, "parse_service_request")
  BY DEF ParseServiceRequest, AloneWith
<1>2. /\ DOMAIN x = Fields /\ x.phase = "request" /\ x.at = 17 /\ ~x.stopped /\ ~x.terminated
  <2>1. DOMAIN x = Fields /\ x.phase = "request" /\ InRequest(c, x, items)
    BY <1>1, Running, Where DEF Place, EarlyHandlers, Proper
  <2> QED  BY <1>1, <2>1, Where DEF InRequest
<1>3. \/ x.service = Unset /\ Pass(c, x)
      \/ /\ OperationOf(x) = {} \/ x.encoding = "unreadable"
         /\ Raise(c, x, Failure("RequestParserError"))
      \/ \E operation \in OperationOf(x) : Pass(c, Parsed(operation))
  BY DEF ParseServiceRequest
(* With its service, an addressed request has the operation it was written *)
(* for.                                                                    *)
<1>4. ASSUME NEW m \in Catalogue, NEW p \in Spoken(m), Addressed(x.req, m, p), OnItsWay(x, m, p)
      PROVE  /\ x.service # Unset /\ x.encoding # "unreadable"
             /\ OperationOf(x) = {x.req.written.operation} /\ x.req.written.operation # Unset
  <2>1. x.service # Unset /\ x.encoding # "unreadable"
    BY <1>2, <1>4 DEF OnItsWay
  <2>2. x.service = m.name /\ x.model = m /\ x.protocol = p
    BY <1>4, <2>1 DEF OnItsWay
  <2> HIDE DEF x
  <2> QED  BY <1>4, <2>1, <2>2, OperationFound
<1>5. CASE x.service = Unset /\ Pass(c, x)
  <2>1. Advance(x).req = x.req
    BY <1>2, Moves DEF Agrees
  <2> QED  BY <1>2, <1>4, <1>5, <2>1, OnlyTheWay DEF Pass
<1>6. CASE (OperationOf(x) = {} \/ x.encoding = "unreadable") /\ Raise(c, x, Failure("RequestParserError"))
  <2>1. Thrown(x, Failure("RequestParserError")).req = x.req
    BY <1>2, Moves
  <2> QED  BY <1>2, <1>4, <1>6, <2>1, OnlyTheWay DEF Raise
<1>7. ASSUME NEW operation \in OperationOf(x), Pass(c, Parsed(operation))
      PROVE  RInv'
  <2> DEFINE y == Parsed(operation)
             z == Advance(y)
  <2>1. /\ DOMAIN y = Fields /\ y.phase = "request" /\ y.at = 17 /\ ~y.stopped /\ ~y.terminated
        /\ y.req = x.req /\ y.operation = operation /\ y.service = x.service /\ y.model = x.model
        /\ y.protocol = x.protocol /\ y.encoding = x.encoding /\ y.error = x.error
        /\ y.status = x.status /\ y.reached = x.reached
    BY <1>2 DEF Fields
  <2>2. exchanges' = [exchanges EXCEPT ![c] = z]
    BY <1>7 DEF Pass
  <2> HIDE DEF y
  <2>3. Agrees(y, z) /\ z.phase = "request" /\ z.at = 18
    BY <2>1, Moves
  <2> HIDE DEF z, x
  <2>4. ASSUME NEW m \in Catalogue, NEW p \in Spoken(m), Addressed(x.req, m, p), OnItsWay(x, m, p)
        PROVE  OnItsWay(z, m, p)
    <3>1. operation = x.req.written.operation /\ x.service # Unset /\ operation # Unset
      BY <1>4, <1>7, <2>4
    <3> QED  BY <2>1, <2>3, <2>4, <3>1 DEF OnItsWay, Agrees
  <2>5. z.req = x.req
    BY <2>1, <2>3 DEF Agrees
  <2> QED  BY <1>2, <2>2, <2>4, <2>5, OnlyTheWay DEF x
<1> QED  BY <1>3, <1>5, <1>6, <1>7

LEMMA StartsOnItsWay ==
  ASSUME IInv, RInv, NEW c \in Clients, Receive(c)
  PROVE  RInv'
<1>1. PICK r \in RequestsOf[c] : exchanges' = [exchanges EXCEPT ![c] = NewContext(r)]
  BY DEF Receive
<1> DEFINE y == NewContext(r)
<1>2. /\ y.req = r /\ y.phase = "request" /\ y.at = 1 /\ y.error.type = "none" /\ y.service = Unset
      /\ y.operation = Unset /\ y.status = 0 /\ y.encoding = r.encoding
  BY DEF NewContext, NoError
<1> HIDE DEF y
<1>3. ASSUME NEW m \in Catalogue, NEW p \in Spoken(m), Addressed(y.req, m, p)
      PROVE  OnItsWay(y, m, p)
  <2>1. r.encoding \in {"identity", "gzip"}
    BY <1>2, <1>3 DEF Addressed, WrittenFor
  <2> QED  BY <1>2, <2>1 DEF OnItsWay, ParserErrors
<1>4. Undiverted(y)
  BY <1>3 DEF Undiverted
<1> QED  BY <1>1, <1>4, OthersStay DEF y

LEMMA HandledOnItsWay ==
  ASSUME IInv, RInv, NEW c \in Clients, Handle(c)
  PROVE  RInv'
  BY CarriesOn, CarriesStatus, CarriesContext, CarriesAnswers, FindsItsService, FindsItsOperation DEF Handle

LEMMA NobodyIsDiverted ==
  Spec => []RInv
<1>1. Init => RInv
  BY DEF Init, RInv
<1>2. IInv /\ RInv /\ [Next]_vars => RInv'
  <2> SUFFICES ASSUME IInv, RInv, [Next]_vars PROVE RInv'
    OBVIOUS
  <2>1. CASE Shutdown \/ UNCHANGED vars
    <3>1. exchanges' = exchanges
      BY <2>1 DEF Shutdown, vars
    <3> QED  BY <3>1 DEF RInv, Undiverted, OnItsWay
  <2>2. ASSUME NEW c \in Clients, Receive(c) PROVE RInv'
    BY <2>2, StartsOnItsWay
  <2>3. ASSUME NEW c \in Clients, Handle(c) PROVE RInv'
    BY <2>3, HandledOnItsWay
  <2> QED  BY <2>1, <2>2, <2>3 DEF Next
<1> QED  BY <1>1, <1>2, Inductive, PTL DEF Spec

(* The indexes, the rules and the protocol detection of                    *)
(* aws/protocol/service_router.py and the rules of op_router.py find, for  *)
(* any catalogue and any requests that clients write as their protocols    *)
(* say and for services that can be told apart, the service and the        *)
(* operation of the request; no handler before or after loses them, and    *)
(* none of these requests ends as an unknown one.                          *)
THEOREM RequestsReachTheirOperation == Spec => []RoutedAsWritten
<1>1. IInv /\ RInv => RoutedAsWritten
  <2> SUFFICES ASSUME IInv, RInv, NEW c \in Clients, exchanges[c].phase # "none",
                      exchanges[c].req.written.service # Unset
               PROVE  LET x == exchanges[c]
                      IN  /\ x.service \in {Unset, StandsFor(x.req.written.service, x.req.written.operation)}
                          /\ x.operation \in {Unset, x.req.written.operation}
                          /\ x.error.type \notin ParserErrors
                          /\ x.phase = "done" /\ ~x.reached => x.status # 404
    BY DEF RoutedAsWritten, ParserErrors
  <2> DEFINE x == exchanges[c]
  <2>1. x.req \in RequestsOf[c] /\ Undiverted(x)
    BY DEF IInv, Proper, Shape, RInv
  <2> HIDE DEF x
  <2>2. PICK m \in Catalogue : \E p \in Spoken(m) : Addressed(x.req, m, p)
    BY <2>1, WritingAssumption DEF Addressed, x
  <2>3. PICK p \in Spoken(m) : Addressed(x.req, m, p)
    BY <2>2
  <2>4. OnItsWay(x, m, p) /\ m.name = StandsFor(x.req.written.service, x.req.written.operation)
    BY <2>1, <2>3 DEF Undiverted, Addressed
  <2> QED  BY <2>4 DEF OnItsWay, x
<1> QED  BY <1>1, Inductive, NobodyIsDiverted, PTL

=============================================================================
