----------------------------- MODULE HttpRequests -----------------------------
(***************************************************************************)
(* One HTTP request on its way through app/main.py: the normalised path,   *)
(* the two mounts, the bearer check (mcp_auth.py) before the MCP transport,*)
(* and the access log (middleware.py) around the REST application with the *)
(* one route it registers, GET /api/v1/health.                             *)
(*                                                                         *)
(* A request may be cancelled wherever it waits.  A response is known by   *)
(* the status of its http.response.start.                                  *)
(***************************************************************************)
EXTENDS Integers, Sequences

CONSTANTS
    McpPaths,    \* paths the Mount of /mcp matches
    ApiPaths,    \* paths that begin with API_PREFIX
    OtherPaths   \* the others, the bare /mcp among them

BarePath == "/mcp"
HealthPath == "/api/v1/health"
SlashedHealthPath == "/api/v1/health/"
HttpPaths == McpPaths \union ApiPaths \union OtherPaths
Schemes == {"none", "other", "bearer"}
HttpRequest == [path : HttpPaths, method : {"GET", "POST", "DELETE"}, scheme : Schemes,
                token : {"none", "wrong", "right"}]

ASSUME HttpAssumption ==
    /\ "/mcp/" \in McpPaths /\ HealthPath \in ApiPaths /\ BarePath \in OtherPaths
    /\ McpPaths \intersect (ApiPaths \union OtherPaths) = {}
    /\ ApiPaths \intersect OtherPaths = {}

VARIABLES
    request,   \* the request
    enabled,   \* auth_enabled
    http,      \* where the request is
    path,      \* scope["path"]
    route,     \* the path of scope["route"], "none" before one is matched
    reply,     \* the status the application answers with
    status,    \* status_code of AccessLogMiddleware
    sent,      \* the status of the http.response.start the client got; 0: none
    accesses,  \* the access log
    failures,  \* the mcp_auth_failed lines
    fate       \* history: "cancelled" or "crashed", or "served"

httpVars == <<request, enabled, http, path, route, reply, status, sent, accesses,
              failures, fate>>

InitHttp ==
    /\ http = "received" /\ path = request.path /\ route = "none" /\ reply = 0 /\ status = 0
    /\ sent = 0 /\ accesses = <<>> /\ failures = <<>> /\ fate = "served"

Unchanged(but) ==
    /\ UNCHANGED <<request, enabled>>
    /\ "path" \in but \/ UNCHANGED path
    /\ "route" \in but \/ UNCHANGED route
    /\ "reply" \in but \/ UNCHANGED reply
    /\ "status" \in but \/ UNCHANGED status
    /\ "sent" \in but \/ UNCHANGED sent
    /\ "accesses" \in but \/ UNCHANGED accesses
    /\ "failures" \in but \/ UNCHANGED failures
    /\ "fate" \in but \/ UNCHANGED fate

Step(from, to) == http = from /\ http' = to

-----------------------------------------------------------------------------
(* app: _NormalizeBareMcpPath and the mounts.                              *)

\* Mutant of Normalised: the bare path is left alone.
NormalisedNot(p) == p

Normalised(p) == IF p = BarePath THEN "/mcp/" ELSE p

NormaliseBarePath ==
    Step("received", "mounts") /\ path' = Normalised(path) /\ Unchanged({"path"})

Mount == Step("mounts", IF path \in McpPaths THEN "auth" ELSE "access") /\ Unchanged({})

-----------------------------------------------------------------------------
(* McpBearerAuthMiddleware and the MCP transport.                          *)

\* scheme.lower() != "bearer" or not credential.
NoCredential == request.scheme # "bearer" \/ request.token = "none"

\* Mutant of Rejected: the check is for a credential only.
RejectedWithoutOne == enabled /\ NoCredential

\* verify_bearer_token.
Rejected == enabled /\ (NoCredential \/ request.token # "right")

Authenticate == Step("auth", IF Rejected THEN "reject" ELSE "mcp") /\ Unchanged({})

\* The line, then the response.
LogFailure ==
    /\ Step("reject", "unauthorized")
    /\ failures' = Append(failures, IF NoCredential
                                      THEN "missing_or_non_bearer_authorization_header"
                                      ELSE "bearer_token_mismatch")
    /\ Unchanged({"failures"})

SendUnauthorized == Step("unauthorized", "done") /\ sent' = 401 /\ Unchanged({"sent"})

\* The transport refuses what is no call (a body that is none, a method, an
\* Accept or a Host it does not serve), and hands over what is one.
Refusals == {400, 405, 406, 421}
TransportRefuses == Step("mcp", "done") /\ sent' \in Refusals /\ Unchanged({"sent"})
TransportCalls == Step("mcp", "tool") /\ request.method = "POST" /\ Unchanged({})
TransportAnswers == Step("tool", "done") /\ sent' = 200 /\ Unchanged({"sent"})

\* The transport, or a send, raises: no handler of the REST application sees it,
\* only the ServerErrorMiddleware of the outer application, which answers 500
\* unless a response has begun.
TransportCrashes ==
    /\ http \in {"unauthorized", "mcp", "tool"}
    /\ http' = IF http = "unauthorized" THEN "done" ELSE "outer"
    /\ fate' = "crashed"
    /\ Unchanged({"fate"})

OuterServerError == Step("outer", "done") /\ sent' = 500 /\ Unchanged({"sent"})

-----------------------------------------------------------------------------
(* AccessLogMiddleware around the REST application.                        *)

Logged == path \in ApiPaths

\* _route_path and its level: that of a matched route with its prefix, or the
\* path of the request.
RoutePath == IF route = "none" THEN path ELSE route
Level == IF RoutePath = HealthPath THEN "DEBUG" ELSE "INFO"

\* Mutant of LoggedStatus: whatever has no response becomes a 500.
LoggedStatusOfAny(raised) == IF status = 0 THEN 500 ELSE status

\* A crash without a response is a 500; a cancellation stays what it is.
LoggedStatus(raised) == IF raised /\ status = 0 THEN 500 ELSE status

Log(raised) ==
    accesses' = IF Logged THEN Append(accesses, [status |-> LoggedStatus(raised), level |-> Level])
                ELSE accesses

\* The one route, another method of it, its path with a slash, and the rest.
RouteRest ==
    /\ http = "access"
    /\ route' = IF path = HealthPath THEN HealthPath ELSE "none"
    /\ IF path = HealthPath /\ request.method = "GET" THEN http' = "health" /\ UNCHANGED reply
       ELSE /\ http' = "start"
            /\ reply' = IF path = HealthPath THEN 405
                        ELSE IF path = SlashedHealthPath THEN 307
                        ELSE 404
    /\ Unchanged({"route", "reply"})

Health == Step("health", "start") /\ reply' = 200 /\ Unchanged({"reply"})

\* send_wrapper: the status is noted before the message goes on.
NoteStatus ==
    /\ Step("start", "send")
    /\ status' = IF Logged THEN reply ELSE status
    /\ Unchanged({"status"})

SendStart == Step("send", "body") /\ sent' = reply /\ Unchanged({"sent"})
SendBody == Step("body", "return") /\ Unchanged({})

LeaveAccessLog == Step("return", "done") /\ Log(FALSE) /\ Unchanged({"accesses"})

\* The handler, or a send, raises what no handler of the application takes.
\* A send that raises has passed ServerErrorMiddleware: nothing follows.
Crash ==
    /\ http \in {"health", "send", "body"}
    /\ http' = IF http = "health" THEN "error" ELSE "done"
    /\ fate' = "crashed"
    /\ Log(TRUE)
    /\ Unchanged({"accesses", "fate"})

\* ServerErrorMiddleware, outside of the access log.
HandleUnexpectedError == Step("error", "done") /\ sent' = 500 /\ Unchanged({"sent"})

-----------------------------------------------------------------------------
\* Where a request waits: for a thread, for the transport, for a send.
Waiting == {"unauthorized", "mcp", "tool", "health", "send", "body", "error", "outer"}

\* CancelledError is no Exception: of the REST application, the finally of the
\* access log sees it, and nothing else does.
Cancel ==
    /\ http \in Waiting
    /\ http' = "done"
    /\ fate' = IF fate = "served" THEN "cancelled" ELSE fate
    /\ IF http \in {"health", "send", "body"} THEN Log(FALSE) ELSE UNCHANGED accesses
    /\ Unchanged({"accesses", "fate"})

HttpStep ==
    \/ NormaliseBarePath \/ Mount
    \/ Authenticate \/ LogFailure \/ SendUnauthorized \/ TransportRefuses
    \/ TransportCrashes \/ OuterServerError
    \/ RouteRest \/ Health \/ NoteStatus \/ SendStart \/ SendBody \/ LeaveAccessLog
    \/ Crash \/ HandleUnexpectedError
    \/ Cancel
=============================================================================
