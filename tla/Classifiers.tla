--------------------------------- MODULE Classifiers -------------------------------
(***********************************************************************************)
(* The classifiers: what ErrorClass a failure of a library is given, and the delay *)
(* that its answer asks for.  A failure is what the classifiers look at: the types *)
(* that it is an instance of, its numbers and codes, and the headers of its answer *)
(* as the number of seconds they stand for.  First match wins throughout, so the   *)
(* order of the rows matters where one type derives from another.                  *)
(***********************************************************************************)
EXTENDS Integers, Sequences, FiniteSetsExt, SequencesExt

CONSTANT None  \* Python's None

Failure ==
    [ types : SUBSET STRING,           \* the names of its types, its bases included
      words : SUBSET STRING,           \* what the name of its type contains
      status : Int \cup {None},        \* an int under status
      status_code : Int \cup {None},   \* under status_code
      number : Int \cup {None},        \* under code
      arg : Int \cup {None},           \* an int of 100..599 among args
      answered : Int \cup {None},      \* the status of the answer that it carries
      code : STRING \cup {None},       \* its error code, SQLSTATE or gRPC status
      retry_after : Nat \cup {None},   \* Retry-After
      resets : SUBSET Nat ]            \* when the limits of the rate are reset

\* A row: those it applies to, their class, and whether the delay is passed on.
Row(whom, class) == [whom |-> whom, class |-> class, hinted |-> FALSE]

Hinted(whom, class) == [whom |-> whom, class |-> class, hinted |-> TRUE]

Otherwise(class) == Row({}, class)

\* The first row that applies to one of what.
First(rows, what, otherwise) ==
    LET i == SelectInSeq(rows, LAMBDA row : row.whom \cap what # {})
    IN  IF i = 0 THEN otherwise ELSE rows[i]

-----------------------------------------------------------------------------------
(* redress.classify.                                                               *)

Markers ==
    << Row({"TimeoutError"}, "TRANSIENT"), Row({"redress.PermanentError"}, "PERMANENT"),
       Row({"redress.RateLimitError"}, "RATE_LIMIT"),
       Row({"redress.ConcurrencyError"}, "CONCURRENCY"),
       Row({"redress.ServerError"}, "SERVER_ERROR") >>

Statuses ==
    << Row({401}, "AUTH"), Row({403}, "PERMISSION"), Row({400, 404, 422}, "PERMANENT"),
       Row({409}, "CONCURRENCY"), Row({408}, "TRANSIENT"), Row({429}, "RATE_LIMIT"),
       Row(500..599, "SERVER_ERROR") >>

Names ==
    << Row({"auth", "unauthoriz", "credential"}, "AUTH"),
       Row({"forbid", "permission"}, "PERMISSION"),
       Row({"timeout", "connection"}, "TRANSIENT") >>

Unknown == Otherwise("UNKNOWN")

status_or_code(f) == IF f.status \in {None, 0} THEN f.number ELSE f.status

strict_classifier(f) == First(Markers, f.types, First(Statuses, {status_or_code(f)}, Unknown))

default_classifier(f) ==
    First(Markers, f.types, First(Statuses, {status_or_code(f)}, First(Names, f.words, Unknown)))

-----------------------------------------------------------------------------------
(* redress.extras: HTTP.                                                           *)

\* The answer that an exception carries is not looked at.
coerce_status(f) ==
    LET found == SelectSeq(<<f.status, f.status_code, f.number, f.arg>>, LAMBDA n : n # None)
    IN  IF found = <<>> THEN None ELSE Head(found)

HttpStatuses ==
    << Row({401}, "AUTH"), Row({403}, "PERMISSION"), Row({409}, "CONCURRENCY"),
       Row({429}, "RATE_LIMIT"), Row({408}, "TRANSIENT"), Row(500..599, "SERVER_ERROR"),
       Row({400, 404}, "PERMANENT") >>

http_classifier(f) ==
    IF coerce_status(f) = None THEN default_classifier(f)
    ELSE First(HttpStatuses, {coerce_status(f)}, Unknown)

http_retry_after_classifier(f) ==
    LET row == http_classifier(f)
    IN  IF row.class = "RATE_LIMIT" THEN Hinted(row.whom, row.class) ELSE row

aiohttp_classifier(f) ==
    IF "aiohttp.ClientResponseError" \in f.types THEN http_classifier(f)
    ELSE First(<< Row({ "aiohttp.ClientConnectorError", "aiohttp.ClientOSError",
                        "aiohttp.ServerDisconnectedError", "aiohttp.ClientPayloadError",
                        "aiohttp.ClientConnectionError", "aiohttp.ServerTimeoutError" },
                      "TRANSIENT") >>,
               f.types, default_classifier(f))

urllib3_classifier(f) ==
    IF "urllib3.HTTPError" \notin f.types THEN default_classifier(f)
    ELSE IF coerce_status(f) # None THEN http_classifier(f)
    ELSE First(<< Row({ "urllib3.ConnectTimeoutError", "urllib3.ReadTimeoutError",
                        "urllib3.NewConnectionError", "urllib3.ProtocolError",
                        "urllib3.MaxRetryError" }, "TRANSIENT"),
                  Row({"urllib3.SSLError"}, "UNKNOWN"),
                  Row({"urllib3.TooManyRedirects"}, "PERMANENT") >>,
               f.types, default_classifier(f))

-----------------------------------------------------------------------------------
(* redress.extras: services and databases.                                         *)

ClientErrorCodes ==
    << Row({ "Throttling", "ThrottlingException", "TooManyRequestsException",
             "RequestLimitExceeded", "SlowDown" }, "RATE_LIMIT"),
       Row({"AccessDenied", "AccessDeniedException", "UnauthorizedOperation"}, "PERMISSION"),
       Row({"UnrecognizedClientException", "InvalidClientTokenId", "ExpiredToken"}, "AUTH") >>

ClientErrorStatuses ==
    << Row({429}, "RATE_LIMIT"), Row({401}, "AUTH"), Row({403}, "PERMISSION"),
       Row(500..599, "SERVER_ERROR"), Row(400..499, "PERMANENT") >>

\* Faulty: the status before the code.
Faultyclassify_client_error(f) ==
    First(ClientErrorStatuses, {f.answered}, First(ClientErrorCodes, {f.code}, Unknown))

classify_client_error(f) ==
    First(ClientErrorCodes, {f.code}, First(ClientErrorStatuses, {f.answered}, Unknown))

boto3_classifier(f) ==
    First(<< Row({ "botocore.EndpointConnectionError", "botocore.ConnectionClosedError",
                   "botocore.ReadTimeoutError", "botocore.ConnectTimeoutError" }, "TRANSIENT") >>,
          f.types,
          IF "botocore.ClientError" \in f.types THEN classify_client_error(f)
          ELSE default_classifier(f))

GrpcStatuses ==
    << Row({"RESOURCE_EXHAUSTED"}, "RATE_LIMIT"),
       Row({"UNAVAILABLE", "DEADLINE_EXCEEDED"}, "TRANSIENT"),
       Row({"UNAUTHENTICATED"}, "AUTH"), Row({"PERMISSION_DENIED"}, "PERMISSION"),
       Row({ "INVALID_ARGUMENT", "FAILED_PRECONDITION", "OUT_OF_RANGE", "NOT_FOUND",
             "CANCELLED" }, "PERMANENT"),
       Row({"INTERNAL", "DATA_LOSS"}, "SERVER_ERROR") >>

grpc_classifier(f) ==
    IF f.types \cap {"grpc.RpcError", "grpc.AioRpcError"} = {} THEN default_classifier(f)
    ELSE First(GrpcStatuses, {f.code}, Unknown)

\* Faulty: an authentication that fails is a lost connection as well.
Faultyredis_classifier(f) ==
    First(<< Row({"redis.ReadOnlyError"}, "CONCURRENCY"),
             Row({"redis.TimeoutError", "redis.ConnectionError"}, "TRANSIENT"),
             Row({"redis.AuthenticationError"}, "AUTH"),
             Row({"redis.AuthorizationError"}, "PERMISSION"),
             Row({"redis.BusyLoadingError"}, "TRANSIENT") >>,
          f.types, default_classifier(f))

redis_classifier(f) ==
    First(<< Row({"redis.ReadOnlyError"}, "CONCURRENCY"),
             Row({"redis.AuthenticationError"}, "AUTH"),
             Row({"redis.AuthorizationError"}, "PERMISSION"),
             Row({"redis.TimeoutError", "redis.ConnectionError", "redis.BusyLoadingError"},
                 "TRANSIENT") >>,
          f.types, default_classifier(f))

\* The states that begin with 08 and with 28, those of SQL and of PostgreSQL.
ConnectionStates ==
    {"08000", "08001", "08003", "08004", "08006", "08007", "08P01", "08S01"}

AuthorizationStates == {"28000", "28P01"}

SqlStates ==
    << Row({"40001", "40P01"}, "CONCURRENCY"),
       Row({"HYT00", "HYT01"} \cup ConnectionStates, "TRANSIENT"),
       Row(AuthorizationStates, "AUTH"),
       Row({"42000", "42P01"}, "PERMANENT") >>

sqlstate_classifier(f) ==
    IF f.code = None THEN default_classifier(f) ELSE First(SqlStates, {f.code}, Unknown)

pyodbc_classifier(f) == First(SqlStates, {f.code}, Unknown)

-----------------------------------------------------------------------------------
(* redress.contrib: the providers.                                                 *)

status_code(f) == IF f.status_code = None THEN f.answered ELSE f.status_code

\* For the failures of whom, what the row says.
For(whom, row) == [row EXCEPT !.whom = whom]

OpenAIRows(f) ==
    << Row({"openai.AuthenticationError"}, "AUTH"),
       Row({"openai.PermissionDeniedError"}, "PERMISSION"),
       Row({ "openai.NotFoundError", "openai.BadRequestError",
             "openai.UnprocessableEntityError" }, "PERMANENT"),
       Row({"openai.ConflictError"}, "CONCURRENCY"),
       IF f.code = "insufficient_quota" THEN Row({"openai.RateLimitError"}, "PERMANENT")
       ELSE Hinted({"openai.RateLimitError"}, "RATE_LIMIT"),
       Hinted({"openai.InternalServerError"}, "SERVER_ERROR"),
       Row({"openai.APITimeoutError", "openai.APIConnectionError"}, "TRANSIENT"),
       Row({"openai.APIResponseValidationError"}, "PERMANENT"),
       For({"openai.APIStatusError"},
           First(<< Hinted({408, 425}, "TRANSIENT"),
                    Hinted({500, 502, 503, 504}, "SERVER_ERROR") >>, {status_code(f)}, Unknown)),
       Row({"openai.OpenAIError"}, "UNKNOWN") >>

openai_classifier(f) == First(OpenAIRows(f), f.types, default_classifier(f))

IdentityStatuses ==
    << Row({401}, "AUTH"), Row({403}, "PERMISSION"), Row({400, 404, 413, 422}, "PERMANENT"),
       Row({409}, "CONCURRENCY"), Row({408, 425}, "TRANSIENT"), Row({429}, "RATE_LIMIT"),
       Row(500..599, "SERVER_ERROR") >>

AnthropicStatus(f) ==
    IF status_code(f) = 413 THEN Otherwise("PERMANENT")
    ELSE IF f.code = "overloaded_error" THEN Hinted({}, "SERVER_ERROR")
    ELSE First(<< Hinted({408, 425}, "TRANSIENT"),
                  Hinted({500, 503, 504, 529}, "SERVER_ERROR") >>, {status_code(f)}, Unknown)

AnthropicRows(f) ==
    << Row({"anthropic.AuthenticationError"}, "AUTH"),
       Row({"anthropic.PermissionDeniedError"}, "PERMISSION"),
       Row({ "anthropic.NotFoundError", "anthropic.BadRequestError",
             "anthropic.RequestTooLargeError", "anthropic.UnprocessableEntityError" },
           "PERMANENT"),
       Row({"anthropic.ConflictError"}, "CONCURRENCY"),
       Hinted({"anthropic.RateLimitError"}, "RATE_LIMIT"),
       Hinted({ "anthropic.OverloadedError", "anthropic.ServiceUnavailableError",
                "anthropic.DeadlineExceededError", "anthropic.InternalServerError" },
              "SERVER_ERROR"),
       Row({ "anthropic.APITimeoutError", "anthropic.APIConnectionError",
             "anthropic.RetryableError" }, "TRANSIENT"),
       Row({"anthropic.APIResponseValidationError", "anthropic.APIWebhookValidationError"},
           "PERMANENT"),
       For({"anthropic.WorkloadIdentityError"},
           First(IdentityStatuses, {status_code(f)}, Unknown)),
       For({"anthropic.APIStatusError"}, AnthropicStatus(f)),
       Row({"anthropic.AnthropicError"}, "UNKNOWN") >>

anthropic_classifier(f) == First(AnthropicRows(f), f.types, default_classifier(f))

-----------------------------------------------------------------------------------
(* Classifications.                                                                *)

\* The headers of an answer of a provider: Retry-After first, or the first reset.
retry_after_from_headers(f) ==
    IF f.retry_after # None THEN f.retry_after
    ELSE IF f.resets # {} THEN Min(f.resets)
    ELSE None

\* Only the providers have headers for the resets.
Classification(row, f) ==
    [klass |-> row.class, retry_after_s |-> IF row.hinted THEN retry_after_from_headers(f) ELSE None]

Classifiers ==
    { "strict", "default", "http", "http_retry_after", "aiohttp", "urllib3", "boto3", "grpc",
      "redis", "sqlstate", "pyodbc", "openai", "anthropic" }

\* What a policy with the classifier makes of a failure.
Classify(classifier, f) ==
    Classification(
        CASE classifier = "strict" -> strict_classifier(f)
          [] classifier = "default" -> default_classifier(f)
          [] classifier = "http" -> http_classifier(f)
          [] classifier = "http_retry_after" -> http_retry_after_classifier(f)
          [] classifier = "aiohttp" -> aiohttp_classifier(f)
          [] classifier = "urllib3" -> urllib3_classifier(f)
          [] classifier = "boto3" -> boto3_classifier(f)
          [] classifier = "grpc" -> grpc_classifier(f)
          [] classifier = "redis" -> redis_classifier(f)
          [] classifier = "sqlstate" -> sqlstate_classifier(f)
          [] classifier = "pyodbc" -> pyodbc_classifier(f)
          [] classifier = "openai" -> openai_classifier(f)
          [] classifier = "anthropic" -> anthropic_classifier(f),
        f)

\* Of the answer to an HTTP request, by httpx, requests and aiohttp alike: None when the
\* caller gets it.
default_result_classifier(status) ==
    CASE status = 429 -> Hinted({429}, "RATE_LIMIT")
      [] status = 408 -> Row({408}, "TRANSIENT")
      [] status = 409 -> Row({409}, "CONCURRENCY")
      [] status \in 500..599 -> Row({status}, "SERVER_ERROR")
      [] OTHER -> None
====================================================================================
