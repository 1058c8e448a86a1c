------------------------------ MODULE HttpSafety ------------------------------
(***************************************************************************)
(* HTTP on its own, with a transport that answers every call, and what it  *)
(* promises.  Every step of Gateway is one of HttpNext or leaves all of    *)
(* httpVars alone.                                                         *)
(***************************************************************************)
EXTENDS HttpRequests

HttpInit == request \in HttpRequest /\ enabled \in BOOLEAN /\ InitHttp
HttpNext == HttpStep \/ TransportCalls \/ TransportAnswers

-----------------------------------------------------------------------------
\* A REST request leaves exactly one access line, however it ends, and nothing
\* else leaves one; its status is the one the client got, a 500 only for a
\* crash, and 0 only for a request that went away unanswered; the health check
\* stays below INFO, whatever becomes of it (AccessLogMiddleware.__call__).
AccessLineTellsTheStatus ==
    http = "done" =>
        /\ Len(accesses) = (IF request.path \in ApiPaths THEN 1 ELSE 0)
        /\ \A k \in 1..Len(accesses) :
             /\ sent # 0 => accesses[k].status = sent
             /\ accesses[k].status = 500 => fate = "crashed"
             /\ accesses[k].status = 0 => fate = "cancelled" /\ sent = 0
             /\ accesses[k].level = (IF request.path = HealthPath THEN "DEBUG" ELSE "INFO")

ToMcp == request.path \in McpPaths \union {BarePath}
MayPass == ~enabled \/ (request.scheme = "bearer" /\ request.token = "right")

\* However the path is spelled and whatever the method, a call reaches
\* the tools only with the token, everybody else gets a 401, one mcp_auth_failed
\* line and nothing else, and nothing meant for /mcp comes to the REST
\* application, a crash of the transport included
\* (McpBearerAuthMiddleware, _NormalizeBareMcpPath).
TokenGuardsTheTools ==
    /\ http \in {"mcp", "tool"} => ToMcp /\ MayPass
    /\ ToMcp => reply = 0 /\ accesses = <<>>
    /\ ToMcp /\ ~MayPass => sent \in {0, 401}
    /\ http = "done" /\ ToMcp /\ ~MayPass /\ fate = "served" => sent = 401 /\ Len(failures) = 1
    /\ failures # <<>> => ToMcp /\ ~MayPass
    /\ sent = 401 => failures # <<>>
=============================================================================
