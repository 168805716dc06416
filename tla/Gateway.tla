------------------------------- MODULE Gateway -------------------------------
(***************************************************************************)
(* The gateway: the handlers of aws/app.py that a request passes, what they *)
(* leave in its context and its response, and what they share with the     *)
(* requests of other threads.  A request is what ServiceRouter and         *)
(* OperationRouter read of it, and                                         *)
(*   method, origin ("" when there is no Origin header), internal ("" when *)
(*   there is no header of an internal call), referer, encoding, verdicts  *)
(*   (of the OpenAPI specs on the request), answerVerdicts, parameters     *)
(*   (the names the parser finds), outcomes (what the provider may do),    *)
(*   written (the service and the operation a client wrote it for).        *)
(* An action is a handler: it runs to its end, and the chain decides what  *)
(* runs next.                                                              *)
(***************************************************************************)
EXTENDS ServiceRouter, OperationRouter, Skeleton

CONSTANTS
  Clients, RequestsOf,                 \* who sends which requests
  Plugins, Disabled, Fragile,          \* services with a provider, not enabled, that may fail to load
  Tables,                              \* the dispatch table of each service
  HttpOperations,                      \* the operations of the REST services
  Resources,                           \* path below /_localstack -> its methods
  AllowedOrigins,
  AvailableRegions, Partitions, LastAccount, ParityAccessKeys,
  Tracing,                             \* DEBUG_HANDLER_CHAIN
  CollectMetrics, FailFast, ValidateSchemas  \* config

(* An answer has a status, and a ServiceException is an outcome of         *)
(* its own: "raise" is any other exception.                                *)
ASSUME OutcomesAssumption ==
  \A c \in Clients : \A r \in RequestsOf[c] : \A outcome \in r.outcomes :
    /\ outcome.kind \in {"result", "http", "service", "not_implemented", "raise"}
    /\ outcome.kind \in {"http", "service"} => outcome.status \in Nat
    /\ outcome.kind = "raise" => outcome.code \notin {"none", "ServiceException"}

VARIABLES
  exchanges,    \* what each client's request and response have become
  runtime,      \* the events infra_stopping and infra_stopped
  loaded,       \* the services that were loaded and are routed
  items,        \* metrics_handler_items: request -> the parameters recorded for it
  metrics       \* metric_data, which has no duplicates

vars == <<exchanges, runtime, loaded, items, metrics>>

Identity == INSTANCE RequestIdentity

-----------------------------------------------------------------------------
(* The chains of LocalstackAwsGateway. *)
RequestHandlers ==
  <<"add_internal_request_params", "handle_runtime_shutdown", "create_metric_handler_item",
    "load_service_for_data_plane", "preprocess_request", "enforce_cors", "content_decoder",
    "validate_request_schema", "serve_localstack_resources", "serve_edge_router_rules", "parse_service_name",
    "parse_pre_signed_url_request", "inject_auth_header_if_missing", "add_region_from_header",
    "rewrite_region", "add_account_id", "parse_service_request", "record_parsed_request",
    "serve_custom_service_request_handlers", "load_service", "service_request_router",
    "empty_response">>

ExceptionHandlers ==
  <<"log_exception", "serve_custom_exception_handlers", "handle_service_exception",
    "handle_internal_failure">>

ResponseHandlers ==
  <<"validate_response_schema", "modify_service_response", "parse_service_response", "run_custom_response_handlers",
    "add_cors_response_headers", "log_response", "update_metric_collection">>

Finalizers == <<"set_close_connection_header", "run_custom_finalizers">>

(* The tracing chain calls the response handlers where it should call the  *)
(* finalizers.                                                             *)
HandlersOf(phase) ==
  CASE phase = "request" -> RequestHandlers
    [] phase = "exception" -> ExceptionHandlers
    [] phase = "response" -> ResponseHandlers
    [] phase = "final" -> IF Tracing THEN ResponseHandlers ELSE Finalizers
    [] OTHER -> <<>>

After(phase) ==
  CASE phase \in {"request", "exception"} -> "response" [] phase = "response" -> "final" [] OTHER -> "done"

(* A terminated chain goes to its finalizers, a stopped one to its response *)
(* handlers; exception handlers and finalizers all run.                    *)
Leaves(x) ==
  \/ x.at = Len(HandlersOf(x.phase))
  \/ x.phase = "request" /\ (x.stopped \/ x.terminated)
  \/ x.phase = "response" /\ x.terminated
  \/ x.phase = "final" /\ Tracing /\ x.terminated

Advance(x) ==
  LET next == IF x.terminated /\ x.phase \in {"request", "exception"} THEN "final" ELSE After(x.phase)
      y == [x EXCEPT !.ran = IF x.phase = "final" THEN Append(@, HandlersOf("final")[x.at]) ELSE @]
  IN  IF Leaves(x) THEN [y EXCEPT !.phase = next, !.at = 1] ELSE [y EXCEPT !.at = @ + 1]

NoError == [type |-> "none"]
Failure(type) == [type |-> type]
ServiceError(code, status) == [type |-> "ServiceException", code |-> code, status |-> status]

(* An exception of a request handler goes to the exception handlers; that  *)
(* of another handler is logged and the chain goes on.                     *)
Thrown(x, error) ==
  IF x.phase = "request" THEN [x EXCEPT !.error = error, !.stopped = TRUE, !.phase = "exception", !.at = 1]
  ELSE Advance(x)

(* chain.respond: a status without a body. *)
Respond(x, status) == [x EXCEPT !.status = status, !.stopped = TRUE]

Answer(x, status, body) == [x EXCEPT !.status = status, !.body = body]

At(c, handler) ==
  /\ exchanges[c].phase \notin {"none", "done"}
  /\ HandlersOf(exchanges[c].phase)[exchanges[c].at] = handler

Pass(c, x) == exchanges' = [exchanges EXCEPT ![c] = Advance(x)]
Raise(c, x, error) == exchanges' = [exchanges EXCEPT ![c] = Thrown(x, error)]

AloneWith(c, handler) ==
  At(c, handler) /\ UNCHANGED <<runtime, loaded, items, metrics>>

-----------------------------------------------------------------------------
NewContext(r) ==
  [req |-> r, phase |-> "request", at |-> 1, stopped |-> FALSE, terminated |-> FALSE, error |-> NoError,
   ran |-> <<>>, internal |-> FALSE, service |-> Unset, model |-> NoModel, protocol |-> Unset, operation |-> Unset,
   auth |-> r.auth, region |-> Unset, partition |-> "aws", account |-> 0, encoding |-> r.encoding,
   parameters |-> {}, response |-> FALSE, exception |-> NoException,
   status |-> 0, body |-> Unset, cors |-> FALSE, reached |-> FALSE]

Receive(c) ==
  /\ exchanges[c].phase = "none"
  /\ \E r \in RequestsOf[c] : exchanges' = [exchanges EXCEPT ![c] = NewContext(r)]
  /\ UNCHANGED <<runtime, loaded, items, metrics>>

(* Handlers that change nothing here: those that log, those in which no    *)
(* handler is registered, and the finalizers, which set a header of hypercorn. *)
Silent ==
  {"preprocess_request", "serve_edge_router_rules", "parse_pre_signed_url_request",
   "serve_custom_service_request_handlers", "log_exception", "serve_custom_exception_handlers",
   "modify_service_response", "run_custom_response_handlers", "log_response",
   "set_close_connection_header", "run_custom_finalizers"}

PassSilently(c) == \E handler \in Silent : AloneWith(c, handler) /\ Pass(c, exchanges[c])

(* A header that cannot be parsed is logged and ignored. *)
AddInternalRequestParams(c) ==
  /\ AloneWith(c, "add_internal_request_params")
  /\ Pass(c, [exchanges[c] EXCEPT !.internal = exchanges[c].req.internal = "valid"])

InternalPath(path) == IsPrefix("_localstack", path[1])

HandleRuntimeShutdown(c) ==
  /\ AloneWith(c, "handle_runtime_shutdown")
  /\ LET x == exchanges[c]
         refused == \/ runtime = "stopped"
                    \/ runtime = "stopping" /\ ~x.internal /\ ~InternalPath(x.req.path)
     IN  Pass(c, IF refused THEN Respond(x, 503) ELSE x)

With(dict, key, value) == [k \in DOMAIN dict \cup {key} |-> IF k = key THEN value ELSE dict[k]]

CreateMetricHandlerItem(c) ==
  /\ At(c, "create_metric_handler_item")
  /\ Pass(c, exchanges[c])
  /\ items' = IF CollectMetrics THEN With(items, c, {}) ELSE items
  /\ UNCHANGED <<runtime, loaded, metrics>>

(* ServiceLoader.require_service, on the context x. *)
Available(service) == service \in Plugins \ Disabled

RequireService(c, x) ==
  \/ /\ x.service \in loaded
     /\ Pass(c, x) /\ UNCHANGED loaded
  \/ /\ x.service \notin loaded /\ ~Available(x.service)
     /\ Raise(c, x, Failure("NotImplementedError")) /\ UNCHANGED loaded
  \/ /\ x.service \notin loaded /\ Available(x.service)
     /\ Pass(c, x) /\ loaded' = loaded \cup {x.service}
  \/ /\ x.service \notin loaded /\ Available(x.service) /\ x.service \in Fragile
     /\ Raise(c, x, Failure("Exception")) /\ UNCHANGED loaded

LoadServiceForDataPlane(c) ==
  /\ At(c, "load_service_for_data_plane")
  /\ LET model == DataPlane(exchanges[c].req)
     IN  IF model.name = Unset THEN Pass(c, exchanges[c]) /\ UNCHANGED loaded
         ELSE RequireService(c, [exchanges[c] EXCEPT !.service = model.name, !.model = model])
  /\ UNCHANGED <<runtime, items, metrics>>

(* S3 and the execute-api answer for their own origins. *)
ExecuteApiCall(r) ==
  \/ InnerLabel(r.host, "execute-api")
  \/ r.path[1] = "restapis" /\ "_user_request_" \in Range(r.path)
  \/ Under(r.path, <<"_aws", "execute-api">>)

SelfManaged(x) == x.service = "s3" \/ ExecuteApiCall(x.req)

(* The referer stands in for a missing origin; neither is no browser. *)
OriginAllowed(r) ==
  LET origin == IF r.origin # Unset THEN r.origin ELSE r.referer
  IN  origin \in AllowedOrigins \cup {Unset}

EnforceCors(c) ==
  /\ AloneWith(c, "enforce_cors")
  /\ LET x == exchanges[c]
     IN  CASE SelfManaged(x) -> Pass(c, x)
           [] ~SelfManaged(x) /\ ~OriginAllowed(x.req) ->
                Pass(c, [x EXCEPT !.status = 403, !.terminated = TRUE])
           [] ~SelfManaged(x) /\ OriginAllowed(x.req) ->
                Pass(c, IF x.req.method = "OPTIONS" THEN Respond(x, 204) ELSE x)

(* What was not compressed, although its header says so, fails when it is read. *)
DecodeContent(c) ==
  /\ AloneWith(c, "content_decoder")
  /\ LET x == exchanges[c]
     IN  Pass(c, [x EXCEPT !.encoding = CASE x.service # "s3" /\ @ = "gzip" -> "identity"
                                          [] x.service # "s3" /\ @ = "not gzip" -> "unreadable"
                                          [] OTHER -> @])

(* Each OpenAPI spec in turn: the first that accepts ends the loop, but a  *)
(* refusal before it stands.                                               *)
PublicEndpoint(path) == path[1] \in {"_localstack", "_aws"} /\ Len(path) > 1
Rejects(verdicts) ==
  \E i \in DOMAIN verdicts : verdicts[i] = "invalid" /\ \A j \in 1..(i - 1) : verdicts[j] # "valid"

ValidateRequestSchema(c) ==
  /\ AloneWith(c, "validate_request_schema")
  /\ LET x == exchanges[c]
     IN  Pass(c, IF ValidateSchemas /\ PublicEndpoint(x.req.path) /\ Rejects(x.req.verdicts)
                 THEN [Answer(x, 400, "plain") EXCEPT !.stopped = TRUE] ELSE x)

ValidateResponseSchema(c) ==
  /\ AloneWith(c, "validate_response_schema")
  /\ LET x == exchanges[c]
     IN  Pass(c, IF ValidateSchemas /\ PublicEndpoint(x.req.path) /\ Rejects(x.req.answerVerdicts)
                 THEN [Answer(x, 500, "plain") EXCEPT !.terminated = TRUE] ELSE x)

ServeLocalstackResources(c) ==
  /\ AloneWith(c, "serve_localstack_resources")
  /\ LET x == exchanges[c]
         path == x.req.path
     IN  CASE path \in DOMAIN Resources /\ x.req.method \in Resources[path] ->
                Pass(c, [Answer(x, 200, "plain") EXCEPT !.stopped = TRUE])
           [] path \in DOMAIN Resources /\ x.req.method \notin Resources[path] ->
                Raise(c, x, Failure("MethodNotAllowed"))
           [] path \notin DOMAIN Resources /\ path[1] = "_localstack" /\ Len(path) > 1 ->
                Pass(c, Respond(x, 404))
           [] OTHER -> Pass(c, x)

-----------------------------------------------------------------------------
(* The AWS part of the chain. *)
WithProtocol(c, x) ==
  LET protocol == DetermineProtocol(x.req, x.model)
  IN  IF protocol = Unset THEN Raise(c, x, Failure("ProtocolError"))
      ELSE Pass(c, [x EXCEPT !.protocol = protocol])

ParseServiceName(c) ==
  /\ AloneWith(c, "parse_service_name")
  /\ LET x == exchanges[c]
     IN  IF x.service # Unset THEN WithProtocol(c, x)
         ELSE \E model \in Determine(x.req) :
                CASE model \in Unrouted -> Raise(c, x, Failure("Exception"))
                  [] model = NoModel -> Pass(c, x)
                  [] OTHER -> WithProtocol(c, [x EXCEPT !.service = model.name, !.model = model])

InjectAuthHeaderIfMissing(c) ==
  AloneWith(c, "inject_auth_header_if_missing") /\ Pass(c, Identity!InjectAuth(exchanges[c]))
AddRegionFromHeader(c) ==
  AloneWith(c, "add_region_from_header") /\ Pass(c, Identity!AddRegion(exchanges[c]))
RewriteRegion(c) ==
  AloneWith(c, "rewrite_region") /\ Pass(c, Identity!RewriteRegion(exchanges[c]))
AddAccountId(c) ==
  AloneWith(c, "add_account_id") /\ Pass(c, Identity!AddAccount(exchanges[c]))

(* The operation the parser of the protocol finds. *)
OperationOf(x) ==
  CASE x.protocol = "json" -> {x.req.target[2]} \cap x.model.operations
    [] x.protocol = "smithy-rpc-v2-cbor" -> {Last(x.req.path)} \cap x.model.operations
    [] x.protocol \in {"query", "ec2"} ->
         IF "Action" \in DOMAIN x.req.values THEN {x.req.values["Action"]} \cap x.model.operations ELSE {}
    [] OTHER -> MatchOperation(HttpOperations[x.service], x.req) \ {NotFound}

ParseServiceRequest(c) ==
  /\ AloneWith(c, "parse_service_request")
  /\ LET x == exchanges[c]
     IN  CASE x.service = Unset -> Pass(c, x)
           [] x.service # Unset /\ (OperationOf(x) = {} \/ x.encoding = "unreadable") ->
                Raise(c, x, Failure("RequestParserError"))
           [] OTHER -> \E operation \in OperationOf(x) :
                         Pass(c, [x EXCEPT !.operation = operation, !.parameters = x.req.parameters])

RecordParsedRequest(c) ==
  /\ At(c, "record_parsed_request")
  /\ Pass(c, exchanges[c])
  /\ items' = IF CollectMetrics THEN With(items, c, exchanges[c].parameters) ELSE items
  /\ UNCHANGED <<runtime, loaded, metrics>>

LoadService(c) ==
  /\ At(c, "load_service")
  /\ IF exchanges[c].service = Unset THEN Pass(c, exchanges[c]) /\ UNCHANGED loaded
     ELSE RequireService(c, exchanges[c])
  /\ UNCHANGED <<runtime, items, metrics>>

(* Binary protocols answer with a body that is no text. *)
BodyOf(x) == IF x.protocol = "smithy-rpc-v2-cbor" THEN "binary" ELSE "aws"

Routed(x) == x.service \in loaded /\ x.operation \in DOMAIN Tables[x.service]

RouteServiceRequest(c) ==
  /\ AloneWith(c, "service_request_router")
  /\ LET x == exchanges[c]
     IN  CASE x.service = Unset -> Pass(c, x)
           [] x.service # Unset /\ ~Routed(x) ->
                Pass(c, [Answer(x, 501, BodyOf(x)) EXCEPT !.stopped = TRUE])
           [] OTHER ->
                \E outcome \in x.req.outcomes :
                  LET answer == Invoke(Tables[x.service], x.operation, x.parameters, outcome)
                      y == [x EXCEPT !.reached = TRUE]
                  IN  IF answer.kind = "raised" THEN Raise(c, y, Failure(answer.exception))
                      ELSE Pass(c, [Answer(y, answer.status, BodyOf(x)) EXCEPT
                                      !.response = answer.result, !.exception = answer.exception])

(* EmptyResponseHandler: the response was not touched. *)
RespondEmpty(c) ==
  /\ AloneWith(c, "empty_response")
  /\ Pass(c, IF exchanges[c].status = 0 THEN Answer(exchanges[c], 404, "plain") ELSE exchanges[c])

-----------------------------------------------------------------------------
(* The exception handlers. *)
ErrorOf(x) ==
  CASE x.operation # Unset /\ x.error.type = "NotImplementedError" -> ServiceError("InternalFailure", 501)
    [] x.error.type = "ServiceException" -> x.error
    [] OTHER -> ServiceError("InternalError", IF FailFast THEN 501 ELSE 500)

(* mutant: only errors of a known operation are serialized *)
SerializeKnownOperation(c) ==
  /\ AloneWith(c, "handle_service_exception")
  /\ LET x == exchanges[c]
         error == ErrorOf(x)
     IN  Pass(c, IF x.operation = Unset THEN x
                 ELSE [Answer(x, error.status, BodyOf(x)) EXCEPT !.exception = error.code])

HandleServiceException(c) ==
  /\ AloneWith(c, "handle_service_exception")
  /\ LET x == exchanges[c]
         error == ErrorOf(x)
     IN  Pass(c, IF x.service = Unset THEN x
                 ELSE [Answer(x, error.status, BodyOf(x)) EXCEPT !.exception = error.code])

HandleInternalFailure(c) ==
  /\ AloneWith(c, "handle_internal_failure")
  /\ LET x == exchanges[c]
     IN  Pass(c, CASE x.body # Unset -> x
                   [] x.body = Unset /\ x.error.type = "MethodNotAllowed" -> Answer(x, 405, "plain")
                   [] OTHER -> Answer(x, 500, "plain"))

(* The response handlers. *)
ParseServiceResponse(c) ==
  /\ AloneWith(c, "parse_service_response")
  /\ LET x == exchanges[c]
     IN  Pass(c, IF x.operation = Unset \/ x.response \/ x.exception # NoException THEN x
                 ELSE IF x.status >= 300 THEN [x EXCEPT !.exception = "parsed"]
                 ELSE [x EXCEPT !.response = TRUE])

AddCorsResponseHeaders(c) ==
  /\ AloneWith(c, "add_cors_response_headers")
  /\ LET x == exchanges[c]
     IN  Pass(c, [x EXCEPT !.cors = @ \/ (x.req.origin # Unset /\ ~SelfManaged(x))])

MetricOf(c, x) ==
  [service |-> x.service, operation |-> x.operation, parameters |-> items[c], status |-> x.status,
   exception |-> x.exception, origin |-> IF x.internal THEN "internal" ELSE "external"]

(* mutant: failed requests are not collected *)
CollectedWhenServed(x) ==
  CollectMetrics /\ x.service # Unset /\ x.operation # Unset /\ x.exception = NoException

(* The body of an error is decoded as text: an error here leaves the item. *)
Collected(x) == CollectMetrics /\ x.service # Unset /\ x.operation # Unset

UpdateMetricCollection(c) ==
  /\ At(c, "update_metric_collection")
  /\ LET x == exchanges[c]
     IN  CASE ~Collected(x) -> Pass(c, x) /\ UNCHANGED <<items, metrics>>
           [] Collected(x) /\ (c \notin DOMAIN items \/ (x.status >= 300 /\ x.body = "binary")) ->
                Raise(c, x, Failure("UnicodeDecodeError")) /\ UNCHANGED <<items, metrics>>
           [] OTHER -> /\ metrics' = metrics \cup {MetricOf(c, x)}
                       /\ items' = [d \in DOMAIN items \ {c} |-> items[d]]
                       /\ Pass(c, x)
  /\ UNCHANGED <<runtime, loaded>>

-----------------------------------------------------------------------------
Shutdown ==
  /\ runtime' = CASE runtime = "running" -> "stopping" [] OTHER -> "stopped"
  /\ runtime # "stopped"
  /\ UNCHANGED <<exchanges, loaded, items, metrics>>

Init ==
  /\ exchanges = [c \in Clients |-> [phase |-> "none"]]
  /\ runtime = "running" /\ loaded = {} /\ items = <<>> /\ metrics = {}

Handle(c) ==
  \/ PassSilently(c)
  \/ AddInternalRequestParams(c) \/ HandleRuntimeShutdown(c) \/ CreateMetricHandlerItem(c)
  \/ LoadServiceForDataPlane(c) \/ EnforceCors(c) \/ DecodeContent(c) \/ ServeLocalstackResources(c)
  \/ ParseServiceName(c) \/ InjectAuthHeaderIfMissing(c) \/ AddRegionFromHeader(c)
  \/ RewriteRegion(c) \/ AddAccountId(c) \/ ParseServiceRequest(c) \/ RecordParsedRequest(c)
  \/ LoadService(c) \/ RouteServiceRequest(c) \/ RespondEmpty(c)
  \/ ValidateRequestSchema(c) \/ ValidateResponseSchema(c)
  \/ HandleServiceException(c) \/ HandleInternalFailure(c)
  \/ ParseServiceResponse(c) \/ AddCorsResponseHeaders(c) \/ UpdateMetricCollection(c)

Next == Shutdown \/ \E c \in Clients : Receive(c) \/ Handle(c)

Spec == Init /\ [][Next]_vars
-----------------------------------------------------------------------------
(* PROPERTIES *)

(* The classes of services that resolve_conflicts cannot tell apart answer *)
(* as one of them, when it has the operation.                              *)
StandsFor(service, operation) ==
  LET standIn == CASE service \in {"docdb", "neptune"} -> "rds"
                   [] service = "timestream-write" -> "timestream-query"
                   [] OTHER -> service
  IN  IF \E m \in Catalogue : m.name = standIn /\ operation \in m.operations THEN standIn ELSE service

(* A request that a client wrote for an operation is routed to it: the     *)
(* indexes, the hand-written rules and the protocol detection of           *)
(* service_router.py and the rules of op_router.py agree with the way      *)
(* clients write requests, and none ends as an unknown request.            *)
RoutedAsWritten ==
  \A c \in Clients :
    LET x == exchanges[c]
    IN  x.phase # "none" /\ x.req.written.service # Unset =>
          /\ x.service \in {Unset, StandsFor(x.req.written.service, x.req.written.operation)}
          /\ x.operation \in {Unset, x.req.written.operation}
          /\ x.error.type \notin {"ProtocolError", "RequestParserError"}
          /\ x.phase = "done" /\ ~x.reached => x.status # 404

(* Whatever handler raises, the client is told: an error status and a body, *)
(* and when the service is known the error is in the context, where the    *)
(* metrics and the logs read it.  A request that reached no provider never *)
(* gets the status of a success of one.                                    *)
FailuresAnswered ==
  \A c \in Clients :
    LET x == exchanges[c]
    IN  x.phase = "done" =>
          /\ x.status # 0
          /\ x.error # NoError => x.status >= 400 /\ x.body # Unset
          /\ x.error # NoError /\ x.service # Unset => x.exception # NoException
          /\ x.operation # Unset /\ ~x.reached => x.status >= 400

(* The metric of an AWS request is the answer its client got, and its item *)
(* is gone when the request is; the requests whose item stays are those    *)
(* without an operation, with a terminated chain, or with an error that is *)
(* no text.                                                                *)
Unmetered(x) ==
  ~CollectMetrics \/ x.operation = Unset \/ x.terminated \/ (x.status >= 300 /\ x.body = "binary")

MetricsMatch ==
  \A c \in Clients :
    LET x == exchanges[c]
    IN  x.phase = "done" /\ ~Unmetered(x) =>
          /\ c \notin DOMAIN items
          /\ \E m \in metrics :
                /\ m.service = x.service /\ m.operation = x.operation
                /\ m.parameters = x.req.parameters
                /\ m.status = x.status /\ m.exception = x.exception
                /\ (m.origin = "internal") = x.internal

(* TracingHandlerChain says it has the "List of finalizer traces": every   *)
(* chain that ends has run its finalizers.                                 *)
FinalizersRun == \A c \in Clients : exchanges[c].phase = "done" => exchanges[c].ran = Finalizers
=============================================================================
