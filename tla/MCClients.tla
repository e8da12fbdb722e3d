---------------------------------- MODULE MCClients --------------------------------
(* A small instance of Clients: bodies of up to three objects, the ways to skip a   *)
(* request, and for every classifier failures of its library.  Which type derives   *)
(* from which is what the libraries declare.                                        *)
EXTENDS Clients

MCObjects == {"root", "a", "b"}

MCNonRetryable == {"PERMANENT", "AUTH", "PERMISSION"}

-----------------------------------------------------------------------------------
(* Failures.                                                                       *)

F(types) ==
    [ types |-> types, words |-> {}, status |-> None, status_code |-> None, number |-> None,
      arg |-> None, answered |-> None, code |-> None, retry_after |-> None, resets |-> {} ]

Named(word) == [F({"Exception"}) EXCEPT !.words = {word}]

Status(types, n) == [F(types) EXCEPT !.status = n]

StatusCode(types, n) == [F(types) EXCEPT !.status_code = n]

Answered(types, n) == [F(types) EXCEPT !.answered = n]

Code(types, code) == [F(types) EXCEPT !.code = code]

Of(library, meant, failures) ==
    { [library |-> library, failure |-> f, meaning |-> meant] : f \in failures }

OpenAI(type) == {"openai." \o type, "openai.APIStatusError", "openai.OpenAIError"}

Anthropic(type) == {"anthropic." \o type, "anthropic.APIStatusError", "anthropic.AnthropicError"}

Botocore == {"botocore.ClientError", "Exception"}

Response == {"aiohttp.ClientResponseError", "aiohttp.ClientError"}

MCFailures ==
    \* Exceptions of redress and of Python.
    Of("builtin", "refused",
       { F({"redress.PermanentError"}), Status({"Exception"}, 401),
         [Status({"Exception"}, 0) EXCEPT !.number = 403] })
    \cup Of("builtin", "busy",
            { F({"TimeoutError", "OSError"}), F({"redress.RateLimitError"}),
              F({"redress.ServerError"}), Status({"Exception"}, 503) })
    \cup Of("builtin", "unclear", {F({"Exception"})})
    \cup Of("named", "refused", {Named("unauthoriz"), Named("forbid"), Status({"Exception"}, 422)})
    \cup Of("named", "busy", {Named("connection")})
    \* HTTP.  A status of 422 is not among the refusals, as http_classifier has no class for it.
    \cup Of("http", "refused",
            { StatusCode({"Exception"}, 403), [F({"Exception"}) EXCEPT !.number = 401],
              [F({"Exception"}) EXCEPT !.arg = 404] })
    \cup Of("http", "busy",
            { Status({"Exception"}, 429), [StatusCode({"Exception"}, 429) EXCEPT !.retry_after = 6] })
    \cup Of("http", "unclear", {F({"Exception"})})
    \cup Of("aiohttp", "refused", {Status(Response, 401), Status(Response, 404)})
    \cup Of("aiohttp", "busy",
            { Status(Response, 503),
              F({"aiohttp.ServerDisconnectedError", "aiohttp.ClientConnectionError"}) })
    \cup Of("urllib3", "refused", {Status({"urllib3.HTTPError"}, 403)})
    \cup Of("urllib3", "busy", {F({"urllib3.MaxRetryError", "urllib3.HTTPError"})})
    \cup Of("urllib3", "unclear", {F({"urllib3.SSLError", "urllib3.HTTPError"}), F({"Exception"})})
    \* Services and databases.
    \cup Of("boto3", "refused",
            { [Code(Botocore, "AccessDenied") EXCEPT !.answered = 400],
              [Code(Botocore, "ExpiredToken") EXCEPT !.answered = 400],
              Answered(Botocore, 404) })
    \cup Of("boto3", "busy",
            { [Code(Botocore, "ThrottlingException") EXCEPT !.answered = 400],
              [Code(Botocore, "RequestLimitExceeded") EXCEPT !.answered = 503],
              F({"botocore.ConnectTimeoutError"}) })
    \cup Of("grpc", "refused",
            { Code({"grpc.RpcError"}, "UNAUTHENTICATED"), Code({"grpc.RpcError"}, "PERMISSION_DENIED"),
              Code({"grpc.AioRpcError"}, "INVALID_ARGUMENT") })
    \cup Of("grpc", "busy",
            {Code({"grpc.RpcError"}, "UNAVAILABLE"), Code({"grpc.AioRpcError"}, "RESOURCE_EXHAUSTED")})
    \cup Of("grpc", "unclear", {Code({"grpc.RpcError"}, "ABORTED")})
    \cup Of("redis", "refused",
            { F({"redis.AuthenticationError", "redis.ConnectionError"}),
              F({"redis.AuthorizationError", "redis.ConnectionError"}) })
    \cup Of("redis", "busy",
            { F({"redis.ConnectionError"}), F({"redis.TimeoutError"}),
              F({"redis.BusyLoadingError", "redis.ConnectionError"}),
              F({"redis.ReadOnlyError", "redis.ResponseError"}) })
    \cup Of("sql", "refused", {Code({"Error"}, "28000"), Code({"Error"}, "42P01")})
    \cup Of("sql", "busy",
            {Code({"Error"}, "40001"), Code({"Error"}, "08006"), Code({"Error"}, "HYT00")})
    \* The providers.
    \cup Of("openai", "refused",
            { StatusCode(OpenAI("AuthenticationError"), 401),
              StatusCode(OpenAI("UnprocessableEntityError"), 422),
              [Code(OpenAI("RateLimitError"), "insufficient_quota") EXCEPT !.retry_after = 1] })
    \cup Of("openai", "busy",
            { [StatusCode(OpenAI("RateLimitError"), 429) EXCEPT !.resets = {1, 6}],
              [StatusCode(OpenAI("InternalServerError"), 503) EXCEPT !.retry_after = 6],
              [Answered(OpenAI("APIStatusError"), 408) EXCEPT !.retry_after = 0],
              F({"openai.APITimeoutError", "openai.APIConnectionError", "openai.OpenAIError"}) })
    \cup Of("openai", "unclear", {F({"openai.OpenAIError"})})
    \cup Of("anthropic", "refused",
            { StatusCode(Anthropic("PermissionDeniedError"), 403),
              StatusCode(Anthropic("APIStatusError"), 413),
              StatusCode({"anthropic.WorkloadIdentityError", "anthropic.AnthropicError"}, 401) })
    \cup Of("anthropic", "busy",
            { [StatusCode(Anthropic("RateLimitError"), 429) EXCEPT !.retry_after = 1, !.resets = {6}],
              [Code(Anthropic("APIStatusError"), "overloaded_error") EXCEPT !.status_code = 529],
              StatusCode({"anthropic.WorkloadIdentityError", "anthropic.AnthropicError"}, 503),
              F({"anthropic.RetryableError", "anthropic.AnthropicError"}) })

\* httpx.HTTPStatusError, as raise_for_status() raises it, has its status in its response.
MCHttpxFailures ==
    Of("httpx", "refused", {Answered({"httpx.HTTPStatusError"}, 403)})
    \cup Of("httpx", "busy",
            { [Answered({"httpx.HTTPStatusError"}, 429) EXCEPT !.retry_after = 1],
              F({"httpx.ConnectError"}) })

-----------------------------------------------------------------------------------
(* Requests.                                                                       *)

Text == [kind |-> "text", items |-> {}]

Number == [kind |-> "number", items |-> {}]

Flat == [o \in MCObjects |-> Text]

Container(items) == [kind |-> "container", items |-> items]

\* Bodies of three objects: every set of items for the first; the second may hold the
\* third, itself or the first, and the third nothing or the first.
MCHeaps ==
    { ("root" :> root) @@ ("a" :> a) @@ ("b" :> b) :
        root \in { [kind |-> k, items |-> {}] : k \in {"text", "stream", "repeating"} }
                 \cup { Container(items) : items \in SUBSET MCObjects },
        a \in {Text} \cup { Container(items) : items \in {{}, {"b"}, {"a"}, {"root", "b"}} },
        b \in {Text, [kind |-> "stream", items |-> {}], Container({}), Container({"root"})} }

Plain ==
    [ adapter |-> "direct", method |-> "GET", skip_default |-> None, skip_if |-> None,
      argument |-> "json", heap |-> Flat, body |-> "root", library |-> "none",
      classifier |-> "default", strategy |-> "decorrelated_jitter", hints |-> "ignored",
      jitter_s |-> 0 ]

Bodies ==
    { [Plain EXCEPT !.adapter = "httpx", !.heap = h] : h \in MCHeaps }
    \cup { [Plain EXCEPT !.adapter = "httpx", !.argument = "content", !.heap.root = o] :
             o \in {Text, Number, Container({}), [kind |-> "stream", items |-> {}]} }
    \cup { [Plain EXCEPT !.adapter = "httpx", !.heap = [o \in MCObjects |-> Number]] }
    \cup { [Plain EXCEPT !.adapter = a, !.heap.root = o] :
             a \in {"requests", "aiohttp", "grpc"},
             o \in {Text, Container({}), [kind |-> "stream", items |-> {}]} }

Skips ==
    { [Plain EXCEPT !.adapter = a, !.method = m, !.skip_default = d, !.skip_if = s,
                    !.heap.root = o, !.hints = "honoured"] :
        a \in {"httpx", "requests"}, m \in {"GET", "POST", "post"},
        d \in {None, {"POST"}}, s \in {None, {}, {"POST"}},
        o \in {Text, [kind |-> "stream", items |-> {}]} }

Library ==
    [ strict |-> "builtin", default |-> "named", http |-> "http", http_retry_after |-> "http",
      aiohttp |-> "aiohttp", urllib3 |-> "urllib3", boto3 |-> "boto3", grpc |-> "grpc",
      redis |-> "redis", sqlstate |-> "sql", pyodbc |-> "sql", openai |-> "openai",
      anthropic |-> "anthropic" ]

Calls ==
    { [Plain EXCEPT !.library = Library[c], !.classifier = c, !.strategy = s] :
        c \in Classifiers, s \in {"decorrelated_jitter", "equal_jitter", "token_backoff"} }
    \cup { [Plain EXCEPT !.library = Library[c], !.classifier = c, !.hints = h, !.jitter_s = j] :
             c \in {"http_retry_after", "openai", "anthropic"}, h \in {"honoured", "clamped"},
             j \in {0, 1} }

MCRequests == Bodies \cup Skips \cup Calls

\* The operation of the recipe for exceptions: raise_for_status() within the policy.
MCHttpxRequests ==
    { [Plain EXCEPT !.library = "httpx", !.classifier = "http_retry_after", !.hints = "honoured"] }
====================================================================================
