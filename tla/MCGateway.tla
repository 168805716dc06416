------------------------------ MODULE MCGateway ------------------------------
EXTENDS ClientRequests

(* Services that share a signing name, a target prefix, an endpoint or an  *)
(* operation, and one of each protocol.                                    *)
Model(file, name, protocols, signing, target, version, operations) ==
  [file |-> file, name |-> name, protocol |-> protocols[1], protocols |-> protocols, signing |-> signing,
   target |-> target, endpoint |-> <<name>>, version |-> version, operations |-> operations]

S3 == Model("s3", "s3", <<"rest-xml">>, "s3", "", "2006-03-01", {"CreateBucket", "ListObjects", "ListObjectsV2", "GetObject"})
Lambda == Model("lambda", "lambda", <<"rest-json">>, "lambda", "", "2015-03-31", {"Invoke", "GetFunction"})
ApiGateway == Model("apigateway", "apigateway", <<"rest-json">>, "apigateway", "", "2015-07-09", {"GetRestApis"})
ApiGatewayV2 == Model("apigatewayv2", "apigatewayv2", <<"rest-json">>, "apigateway", "", "2018-11-29", {"GetApis"})
Sqs_ == Model("sqs", "sqs", <<"json">>, "sqs", "AmazonSQS", "2012-11-05", {"ListQueues"})
SqsQuery == Model("sqs-query", "sqs", <<"query">>, "sqs", "", "2012-11-05", {"ListQueues"})
DynamoDb == Model("dynamodb", "dynamodb", <<"json">>, "dynamodb", "DynamoDB_20120810", "2012-08-10", {"ListTables"})
Streams == Model("dynamodbstreams", "dynamodbstreams", <<"json">>, "dynamodb", "DynamoDBStreams_20120810",
                 "2012-08-10", {"ListStreams"})
Rds == Model("rds", "rds", <<"query">>, "rds", "", "2014-10-31", {"DescribeDBClusters", "StartDBInstance"})
DocDb == Model("docdb", "docdb", <<"query">>, "rds", "", "2014-10-31", {"DescribeDBClusters"})
Neptune == Model("neptune", "neptune", <<"query">>, "rds", "", "2014-10-31", {"DescribeDBClusters"})
CloudWatch == Model("cloudwatch", "cloudwatch", <<"smithy-rpc-v2-cbor", "json", "query">>, "monitoring",
                    "GraniteServiceVersion20100801", "2010-08-01", {"ListMetrics"})
Sts == Model("sts", "sts", <<"query">>, "sts", "", "2011-06-15", {"GetCallerIdentity"})

TimestreamQuery == Model("timestream-query", "timestream-query", <<"json">>, "timestream", "Timestream_20181101",
                         "2018-11-01", {"DescribeEndpoints", "CancelQuery"})
TimestreamWrite == Model("timestream-write", "timestream-write", <<"json">>, "timestream", "Timestream_20181101",
                         "2018-11-01", {"DescribeEndpoints", "WriteRecords"})

MCCatalogue ==
  {S3, Lambda, ApiGateway, ApiGatewayV2, Sqs_, SqsQuery, DynamoDb, Streams, Rds, DocDb, Neptune, CloudWatch, Sts,
   TimestreamQuery, TimestreamWrite}

Http(name, method, path, query, requiredQuery) ==
  [name |-> name, method |-> method, path |-> path, authPath |-> <<>>, query |-> query,
   requiredQuery |-> requiredQuery, requiredHeaders |-> {}, deprecated |-> FALSE]
V1 == Literal("2015-03-31")

MCHttpOperations ==
  [s \in {"s3", "lambda", "apigateway", "apigatewayv2"} |->
     CASE s = "s3" -> {Http("CreateBucket", "PUT", <<Variable("Bucket")>>, <<>>, {}),
                       Http("ListObjects", "GET", <<Variable("Bucket")>>, <<>>, {}),
                       Http("ListObjectsV2", "GET", <<Variable("Bucket")>>, [n \in {"list-type"} |-> {"2"}], {}),
                       Http("GetObject", "GET", <<Variable("Bucket"), Greedy("Key")>>, <<>>, {})}
       [] s = "lambda" -> {Http("Invoke", "POST", <<V1, Literal("functions"), Variable("Name"), Literal("invocations")>>, <<>>, {}),
                           Http("GetFunction", "GET", <<V1, Literal("functions"), Variable("Name")>>, <<>>, {})}
       [] s = "apigateway" -> {Http("GetRestApis", "GET", <<Literal("restapis")>>, <<>>, {})}
       [] s = "apigatewayv2" -> {Http("GetApis", "GET", <<Literal("v2"), Literal("apis")>>, <<>>, {})}]

-----------------------------------------------------------------------------
None == [scheme |-> "none"]
V4(service, region) ==
  [scheme |-> "sigv4", key |-> [kind |-> "digits", account |-> 6], region |-> region, service |-> service]
Ok == {[kind |-> "result"]}

Bare ==
  [auth |-> None, smithy |-> "", path |-> <<"">>, target |-> <<"", "">>, mimetype |-> "", args |-> <<>>,
   values |-> <<>>, host |-> <<"localhost", "localstack", "cloud">>, headers |-> {}, shallow |-> FALSE,
   tooLarge |-> FALSE, method |-> "POST", origin |-> "", referer |-> "", internal |-> "",
   encoding |-> "identity", verdicts |-> <<>>, answerVerdicts |-> <<>>, parameters |-> {}, outcomes |-> Ok,
   written |-> [service |-> "", operation |-> ""]]

(* The way clients write requests. *)
Signed(m, operation) ==
  [Bare EXCEPT !.auth = V4(m.signing, "us-east-1"), !.parameters = {"Name"},
               !.written = [service |-> m.name, operation |-> operation]]
Json(m, operation) == [Signed(m, operation) EXCEPT !.target = <<m.target, operation>>, !.mimetype = "amz-json"]
Query(m, operation) ==
  [Signed(m, operation) EXCEPT !.mimetype = "form",
     !.values = [n \in {"Action", "Version"} |-> IF n = "Action" THEN operation ELSE m.version]]
RpcCbor(m, operation) ==
  [Signed(m, operation) EXCEPT !.smithy = "rpc-v2-cbor", !.path = <<"service", m.target, "operation", operation>>]
Rest(m, operation, method, path, args) ==
  [Signed(m, operation) EXCEPT !.method = method, !.path = path, !.args = args, !.values = args]

Unsigned(r) == [r EXCEPT !.auth = None]

WrittenRequests ==
  {Json(Sqs_, "ListQueues"), Query(SqsQuery, "ListQueues"), Json(DynamoDb, "ListTables"),
   Json(Streams, "ListStreams"), Query(Rds, "DescribeDBClusters"), Query(Neptune, "DescribeDBClusters"),
   Query(Rds, "StartDBInstance"), Json(CloudWatch, "ListMetrics"), Query(CloudWatch, "ListMetrics"),
   RpcCbor(CloudWatch, "ListMetrics"), Query(Sts, "GetCallerIdentity"),
   Rest(S3, "CreateBucket", "PUT", <<"b">>, <<>>), Rest(S3, "ListObjects", "GET", <<"b">>, <<>>),
   Rest(S3, "ListObjectsV2", "GET", <<"b">>, [n \in {"list-type"} |-> {"2"}]),
   Rest(S3, "GetObject", "GET", <<"b", "k", "l">>, <<>>),
   Rest(Lambda, "Invoke", "POST", <<"2015-03-31", "functions", "f", "invocations">>, <<>>),
   Rest(Lambda, "GetFunction", "GET", <<"2015-03-31", "functions", "f">>, <<>>),
   Rest(ApiGateway, "GetRestApis", "GET", <<"restapis">>, <<>>),
   Rest(ApiGatewayV2, "GetApis", "GET", <<"v2", "apis">>, <<>>),
   Json(TimestreamWrite, "WriteRecords"), Json(TimestreamWrite, "DescribeEndpoints")}
  \cup {Unsigned(r) : r \in {Json(DynamoDb, "ListTables"), Query(Sts, "GetCallerIdentity"),
                             Query(SqsQuery, "ListQueues"),
                             Rest(Lambda, "GetFunction", "GET", <<"2015-03-31", "functions", "f">>, <<>>),
                             [Rest(S3, "ListObjects", "GET", <<"b">>, <<>>) EXCEPT !.host = <<"s3", "localhost">>]}}

Outcomes ==
  {[kind |-> "result"], [kind |-> "http", status |-> 200], [kind |-> "http", status |-> 409],
   [kind |-> "service", code |-> "NotFound", status |-> 404], [kind |-> "not_implemented"],
   [kind |-> "raise", code |-> "KeyError"]}

OddRequests ==
  {[Json(DynamoDb, "ListTables") EXCEPT !.outcomes = Outcomes],
   [RpcCbor(CloudWatch, "ListMetrics") EXCEPT !.outcomes = Outcomes],
   [Json(Streams, "ListStreams") EXCEPT !.internal = "valid", !.auth = V4("dynamodb", "mars-1")],
   [Bare EXCEPT !.path = <<"_localstack", "health">>, !.method = "GET", !.verdicts = <<"unspecified", "valid">>],
   [Bare EXCEPT !.path = <<"_localstack", "health">>, !.method = "GET", !.answerVerdicts = <<"invalid">>],
   [Bare EXCEPT !.path = <<"_localstack", "health">>, !.method = "GET", !.verdicts = <<"invalid", "valid">>],
   [Bare EXCEPT !.path = <<"_localstack", "health">>, !.method = "PATCH"],
   [Bare EXCEPT !.path = <<"_localstack", "nothing">>, !.method = "GET", !.internal = "malformed"],
   [Json(DynamoDb, "NoOperation") EXCEPT !.written = [service |-> "", operation |-> ""]],
   [Json(DynamoDb, "ListTables") EXCEPT !.encoding = "gzip", !.origin = "https://app.localstack.cloud"],
   [Json(DynamoDb, "ListTables") EXCEPT !.encoding = "not gzip", !.written = [service |-> "", operation |-> ""]],
   [Json(DynamoDb, "ListTables") EXCEPT !.origin = "https://elsewhere"],
   [Bare EXCEPT !.method = "OPTIONS", !.referer = "https://app.localstack.cloud"],
   [Bare EXCEPT !.path = <<"restapis", "a", "_user_request_">>, !.origin = "https://elsewhere"],
   [Bare EXCEPT !.auth = V4("monitoring", "us-east-1"), !.mimetype = "text"],
   [Bare EXCEPT !.host = <<"url", "lambda-url", "us-east-1", "localhost">>],
   [Bare EXCEPT !.host = <<"b", "s3-website", "us-east-1", "localhost">>, !.path = <<"b">>, !.method = "GET"],
   [Bare EXCEPT !.auth = V4("timestream", "us-east-1")], Bare}

MCClients == {"a", "b"}
MCRequestsOf ==
  [c \in MCClients |->
     IF c = "a" THEN WrittenRequests \cup OddRequests ELSE {Json(DynamoDb, "ListTables"), Rest(S3, "GetObject", "GET", <<"b", "k", "l">>, <<>>)}]

MCTables ==
  [s \in {"dynamodb", "dynamodbstreams", "s3", "sqs", "rds", "sts", "cloudwatch", "apigatewayv2"} |->
     LET operations == UNION {m.operations : m \in {m \in MCCatalogue : m.name = s}}
     IN  [o \in operations \ {"StartDBInstance"} |->
            [name |-> o, expand |-> TRUE, context |-> TRUE,
             required |-> IF o = "GetApis" THEN {"ApiId"} ELSE {}]]]
MCPlugins == DOMAIN MCTables \cup {"lambda"}
MCResources == [p \in {<<"_localstack", "health">>} |-> {"GET", "POST"}]
MCPartitions == [r \in {"cn-north-1"} |-> "aws-cn"]
=============================================================================
