---------------------------- MODULE GatewayProofs ----------------------------
(***************************************************************************)
(* Theorems about Gateway: what HTTP promises for any sets of paths that   *)
(* keep apart, and what the tools that read promise for any vault, host    *)
(* and bounds.                                                             *)
(***************************************************************************)
EXTENDS Gateway, SequenceLemmas

(* HTTP.                                                                   *)

Early == {"received", "mounts"}
McpSteps == {"auth", "reject", "unauthorized", "mcp", "tool", "outer"}
RestSteps == {"access", "health", "start", "send", "body", "return", "error"}

\* A request is on the side its path belongs to.
Routed ==
    /\ request \in HttpRequest
    /\ http \in Early \union McpSteps \union RestSteps \union {"done"}
    /\ path = (IF http = "received" THEN request.path ELSE Normalised(request.path))
    /\ http \in McpSteps => path \in McpPaths
    /\ http \in RestSteps => path \notin McpPaths

AtMcp == http \in Early \union McpSteps \/ (http = "done" /\ path \in McpPaths)
AtRest == http \in RestSteps \/ (http = "done" /\ path \notin McpPaths)

\* On the way to the MCP transport, and once answered there.
McpInv ==
    AtMcp =>
        /\ accesses = <<>> /\ reply = 0
        /\ http # "done" => sent = 0
        /\ http \notin {"outer", "done"} => fate = "served"
        /\ http \in Early => status = 0
        /\ http \in {"reject", "unauthorized"} => Rejected
        /\ http \in {"mcp", "tool", "outer"} => ~Rejected
        /\ http \notin {"unauthorized", "done"} => failures = <<>>
        /\ http = "unauthorized" => Len(failures) = 1 /\ failures # <<>>
        /\ http = "done" =>
             /\ Rejected => Len(failures) = 1 /\ failures # <<>> /\ sent \in {0, 401}
             /\ Rejected /\ fate = "served" => sent = 401
             /\ ~Rejected => failures = <<>> /\ sent # 401

LevelOf(p) == IF p = HealthPath THEN "DEBUG" ELSE "INFO"

\* The one line of a request, if its status is s.
Line(s) == IF Logged THEN <<[status |-> s, level |-> LevelOf(path)]>> ELSE <<>>

\* s is the truth about a request that is over.
Told(s) ==
    /\ sent # 0 => s = sent
    /\ s = 500 => fate = "crashed"
    /\ s = 0 => fate = "cancelled" /\ sent = 0

\* On the way through the REST application: what the access log knows so far
\* is what the client gets.
RestInv ==
    AtRest =>
        /\ failures = <<>> /\ sent # 401
        /\ http \notin {"error", "done"} => accesses = <<>> /\ fate = "served"
        /\ http \in {"access", "health", "start"} => status = 0
        /\ http \in {"access", "health", "start", "send", "error"} => sent = 0
        /\ http \in {"start", "send", "body", "return"} => reply \in {200, 307, 404, 405}
        /\ http \in {"send", "body", "return"} => status = (IF Logged THEN reply ELSE 0)
        /\ http \in {"body", "return"} => sent = reply
        /\ http \in RestSteps \ {"access"} => route = (IF path = HealthPath THEN HealthPath ELSE "none")
        /\ http = "error" => accesses = Line(500) /\ fate = "crashed"
        /\ http = "done" => IF Logged THEN \E s \in Nat : accesses = Line(s) /\ Told(s)
                            ELSE accesses = <<>>

HttpInv == Routed /\ McpInv /\ RestInv

LEMMA HttpInvInit == HttpInit => HttpInv
BY HttpAssumption
DEF HttpInit, InitHttp, HttpInv, Routed, McpInv, RestInv, AtMcp, AtRest, Early, McpSteps, RestSteps

\* The bare path and its normal form are on opposite sides.
LEMMA NormalisedSide ==
    ASSUME request \in HttpRequest
    PROVE  /\ request.path \in ApiPaths => Normalised(request.path) = request.path
           /\ Normalised(request.path) \in McpPaths <=> ToMcp
           /\ Normalised(request.path) \in ApiPaths => request.path \in ApiPaths
BY HttpAssumption DEF HttpRequest, HttpPaths, Normalised, ToMcp, BarePath

LEMMA RoutedNext == HttpInv /\ [HttpNext]_httpVars => Routed'
<1> SUFFICES ASSUME HttpInv, [HttpNext]_httpVars PROVE Routed'
    OBVIOUS
<1> USE DEF HttpInv, Routed, Early, McpSteps, RestSteps, Step, Unchanged
<1>1. CASE NormaliseBarePath
    BY <1>1 DEF NormaliseBarePath
<1>2. CASE Mount
    BY <1>2 DEF Mount
<1>3. CASE Authenticate \/ LogFailure \/ SendUnauthorized
    BY <1>3 DEF Authenticate, LogFailure, SendUnauthorized
<1>4. CASE TransportRefuses \/ TransportCalls \/ TransportAnswers \/ TransportCrashes
          \/ OuterServerError
    BY <1>4 DEF TransportRefuses, Refusals, TransportCalls, TransportAnswers, TransportCrashes,
                  OuterServerError
<1>5. CASE RouteRest
    BY <1>5 DEF RouteRest
<1>6. CASE Health \/ NoteStatus \/ SendStart \/ SendBody \/ LeaveAccessLog
    BY <1>6 DEF Health, NoteStatus, SendStart, SendBody, LeaveAccessLog
<1>7. CASE Crash \/ HandleUnexpectedError
    BY <1>7 DEF Crash, HandleUnexpectedError
<1>8. CASE Cancel
    BY <1>8 DEF Cancel, Waiting
<1>9. CASE UNCHANGED httpVars
    BY <1>9 DEF httpVars
<1> QED
    BY <1>1, <1>2, <1>3, <1>4, <1>5, <1>6, <1>7, <1>8, <1>9 DEF HttpNext, HttpStep

LEMMA McpInvNext == HttpInv /\ [HttpNext]_httpVars => McpInv'
<1> SUFFICES ASSUME HttpInv, [HttpNext]_httpVars PROVE McpInv'
    OBVIOUS
<1>1. Routed'
    BY RoutedNext
<1> USE <1>1 DEF HttpInv, Routed, McpInv, AtMcp, Early, McpSteps, RestSteps, Step, Unchanged,
                 Rejected, NoCredential
<1>2. CASE NormaliseBarePath \/ Mount
    BY <1>2 DEF NormaliseBarePath, Mount
<1>3. CASE Authenticate
    BY <1>3 DEF Authenticate
<1>4. CASE LogFailure
  <2>1. PICK x : failures' = Append(failures, x)
      BY <1>4 DEF LogFailure
  <2>2. failures' = <<x>>
      BY <1>4, <2>1 DEF LogFailure
  <2> QED
      BY <1>4, <2>2 DEF LogFailure
<1>5. CASE SendUnauthorized
    BY <1>5 DEF SendUnauthorized
<1>6. CASE TransportRefuses \/ TransportCalls \/ TransportAnswers \/ TransportCrashes
          \/ OuterServerError
    BY <1>6 DEF TransportRefuses, Refusals, TransportCalls, TransportAnswers, TransportCrashes,
                  OuterServerError
<1>7. CASE RouteRest
    BY <1>7 DEF RouteRest
<1>8. CASE Health \/ NoteStatus \/ SendStart \/ SendBody \/ LeaveAccessLog
    BY <1>8 DEF Health, NoteStatus, SendStart, SendBody, LeaveAccessLog
<1>9. CASE Crash \/ HandleUnexpectedError
  <2>1. CASE Crash
    <3>1. http \in RestSteps /\ http' \in RestSteps \union {"done"}
        BY <2>1 DEF Crash
    <3>2. path' = path
        BY <2>1 DEF Crash
    <3> QED
        BY <3>1, <3>2
  <2>2. CASE HandleUnexpectedError
      BY <2>2 DEF HandleUnexpectedError
  <2> QED
      BY <1>9, <2>1, <2>2
<1>10. CASE Cancel
  <2>1. /\ http \in Waiting /\ http' = "done" /\ fate' # "served"
        /\ UNCHANGED <<request, enabled, path, reply, sent, failures>>
      BY <1>10 DEF Cancel
  <2>2. CASE http \in RestSteps
      BY <2>1, <2>2
  <2>3. CASE http \in {"unauthorized", "mcp", "tool", "outer"}
    <3>1. accesses' = accesses
        BY <1>10, <2>3 DEF Cancel
    <3> QED
        BY <2>1, <2>3, <3>1
  <2> QED
      BY <2>1, <2>2, <2>3 DEF Waiting
<1>11. CASE UNCHANGED httpVars
    BY <1>11 DEF httpVars
<1> QED
    BY <1>2, <1>3, <1>4, <1>5, <1>6, <1>7, <1>8, <1>9, <1>10, <1>11 DEF HttpNext, HttpStep

\* The line that is written is the line of LoggedStatus.
LEMMA LogWrites ==
    ASSUME NEW raised \in BOOLEAN, accesses = <<>>, Log(raised),
           route = (IF path = HealthPath THEN HealthPath ELSE "none")
    PROVE  accesses' = Line(LoggedStatus(raised))
BY DEF Log, Line, Level, RoutePath, LevelOf, HealthPath

\* A line does not change with what is no path.
LEMMA LineStays == ASSUME NEW CONSTANT s, path' = path PROVE Line(s)' = Line(s)
BY DEF Line, Logged, LevelOf

\* Some ways to end are told truly whatever else happens.
LEMMA ToldOfResponse ==
    ASSUME NEW CONSTANT n \in {200, 307, 404, 405}, sent' # 0 => sent' = n
    PROVE  Told(n)'
<1>1. n # 0 /\ n # 500
    OBVIOUS
<1> QED
    BY <1>1 DEF Told

LEMMA ToldOfCancelled ==
    ASSUME NEW CONSTANT n \in {0, 200, 307, 404, 405}, sent' # 0 => sent' = n, fate' = "cancelled"
    PROVE  Told(n)'
<1>1. n # 500
    OBVIOUS
<1> QED
    BY <1>1 DEF Told

LEMMA RestInvNext == HttpInv /\ [HttpNext]_httpVars => RestInv'
<1> SUFFICES ASSUME HttpInv, [HttpNext]_httpVars PROVE RestInv'
    OBVIOUS
<1>1. Routed'
    BY RoutedNext
<1> USE <1>1 DEF HttpInv, Routed, Early, McpSteps, RestSteps, Step, Unchanged, AtRest
<1>2. CASE NormaliseBarePath \/ Mount
    BY <1>2 DEF NormaliseBarePath, Mount, RestInv, McpInv, AtMcp
<1>3. CASE Authenticate \/ LogFailure \/ SendUnauthorized
    BY <1>3 DEF Authenticate, LogFailure, SendUnauthorized, RestInv
<1>4. CASE TransportRefuses \/ TransportCalls \/ TransportAnswers \/ TransportCrashes
          \/ OuterServerError
    BY <1>4 DEF TransportRefuses, Refusals, TransportCalls, TransportAnswers, TransportCrashes,
                  OuterServerError, RestInv
<1>5. CASE RouteRest
    BY <1>5 DEF RouteRest, RestInv
<1>6. CASE Health
    BY <1>6 DEF Health, RestInv
<1>7. CASE NoteStatus
    BY <1>7 DEF NoteStatus, RestInv, Logged
<1>8. CASE SendStart \/ SendBody
    BY <1>8 DEF SendStart, SendBody, RestInv, Logged
<1>9. CASE LeaveAccessLog
  <2>1. http = "return" /\ http' = "done" /\ UNCHANGED <<request, path, sent, fate, failures>>
      BY <1>9 DEF LeaveAccessLog
  <2>2. accesses' = Line(LoggedStatus(FALSE))
      BY <1>9, <2>1, LogWrites DEF LeaveAccessLog, RestInv
  <2>3. CASE Logged
    <3>1. PICK n \in Nat : n = LoggedStatus(FALSE) /\ n \in {200, 307, 404, 405} /\ n = sent
        BY <2>1, <2>3 DEF LoggedStatus, RestInv
    <3>2. accesses' = Line(n)'
        BY <2>1, <2>2, <3>1, LineStays
    <3>3. Told(n)'
        BY <2>1, <3>1, ToldOfResponse
    <3> QED
        BY <2>1, <2>3, <3>2, <3>3 DEF RestInv, Logged
  <2>4. CASE ~Logged
      BY <2>1, <2>2, <2>4 DEF RestInv, Logged, Line
  <2> QED
      BY <2>3, <2>4
<1>10. CASE Crash
  <2>1. /\ http \in {"health", "send", "body"} /\ fate' = "crashed"
        /\ http' = (IF http = "health" THEN "error" ELSE "done")
        /\ UNCHANGED <<request, path, sent, route, failures>>
      BY <1>10 DEF Crash
  <2>2. accesses' = Line(LoggedStatus(TRUE))
    <3>1. accesses = <<>> /\ route = (IF path = HealthPath THEN HealthPath ELSE "none")
        BY <2>1 DEF RestInv
    <3>2. Log(TRUE)
        BY <1>10 DEF Crash
    <3> QED
        BY <3>1, <3>2, LogWrites
  <2>3. CASE http = "health"
      BY <2>1, <2>2, <2>3 DEF RestInv, Logged, Line, LoggedStatus, LevelOf
  <2>4. CASE http # "health" /\ Logged
    <3>1. PICK n \in Nat : n = LoggedStatus(TRUE) /\ n \in {200, 307, 404, 405}
                            /\ (sent # 0 => sent = n)
        BY <2>1, <2>4 DEF LoggedStatus, RestInv
    <3>2. accesses' = Line(n)'
        BY <2>1, <2>2, <3>1, LineStays
    <3>3. Told(n)'
        BY <2>1, <3>1, ToldOfResponse
    <3> QED
        BY <2>1, <2>4, <3>2, <3>3 DEF RestInv, Logged
  <2>5. CASE http # "health" /\ ~Logged
      BY <2>1, <2>2, <2>5 DEF RestInv, Logged, Line
  <2> QED
      BY <2>3, <2>4, <2>5
<1>11. CASE HandleUnexpectedError
  <2>1. /\ http = "error" /\ http' = "done" /\ sent' = 500
        /\ UNCHANGED <<request, path, fate, failures, accesses>>
      BY <1>11 DEF HandleUnexpectedError
  <2>2. accesses' = Line(500)' /\ Told(500)'
      BY <2>1 DEF RestInv, Logged, Line, Told
  <2> QED
      BY <2>1, <2>2 DEF RestInv, Logged, Line
<1>12. CASE Cancel
  <2>1. /\ http \in Waiting /\ http' = "done"
        /\ fate' = (IF fate = "served" THEN "cancelled" ELSE fate)
        /\ UNCHANGED <<request, path, sent, failures>>
      BY <1>12 DEF Cancel
  <2>2. CASE http \in {"health", "send", "body"}
    <3>1. accesses' = Line(LoggedStatus(FALSE))
      <4>1. accesses = <<>> /\ route = (IF path = HealthPath THEN HealthPath ELSE "none")
          BY <2>2 DEF RestInv
      <4>2. Log(FALSE)
          BY <1>12, <2>2 DEF Cancel
      <4> QED
          BY <4>1, <4>2, LogWrites
    <3>2. CASE Logged
      <4>1. PICK n \in Nat : n = LoggedStatus(FALSE) /\ n \in {0, 200, 307, 404, 405}
                              /\ (sent # 0 => sent = n)
          BY <2>1, <2>2, <3>2 DEF LoggedStatus, RestInv
      <4>2. accesses' = Line(n)'
          BY <2>1, <3>1, <4>1, LineStays
      <4>3. Told(n)'
        <5>1. fate' = "cancelled" /\ sent' = sent
            BY <2>1, <2>2 DEF RestInv
        <5> QED
            BY <4>1, <5>1, ToldOfCancelled
      <4> QED
          BY <2>1, <2>2, <3>2, <4>2, <4>3 DEF RestInv, Logged
    <3>3. CASE ~Logged
        BY <2>1, <2>2, <3>1, <3>3 DEF RestInv, Logged, Line
    <3> QED
        BY <3>2, <3>3
  <2>3. CASE http = "error"
    <3>1. UNCHANGED accesses
        BY <1>12, <2>3 DEF Cancel
    <3>2. accesses' = Line(500)' /\ Told(500)'
        BY <2>1, <2>3, <3>1 DEF RestInv, Logged, Line, Told
    <3> QED
        BY <2>1, <2>3, <3>2 DEF RestInv, Logged, Line
  <2>4. CASE http \in McpSteps
      BY <2>1, <2>4 DEF RestInv
  <2> QED
      BY <2>1, <2>2, <2>3, <2>4 DEF Waiting
<1>13. CASE UNCHANGED httpVars
    BY <1>13 DEF httpVars, RestInv, Logged, Line, Told
<1> QED
    BY <1>2, <1>3, <1>4, <1>5, <1>6, <1>7, <1>8, <1>9, <1>10, <1>11, <1>12, <1>13
    DEF HttpNext, HttpStep

\* Every step of Gateway is one of HTTP's own, or none to it.
LEMMA HttpInvariance == Spec => []HttpInv
<1>1. Init => HttpInit
    BY StartsAssumption DEF Init, HttpInit
<1>2. [Next]_vars => [HttpNext]_httpVars
    BY DEF Next, Call, Tool, Return, Host, HttpNext, vars
<1>3. HttpInv /\ [HttpNext]_httpVars => HttpInv'
    BY RoutedNext, McpInvNext, RestInvNext DEF HttpInv
<1> QED
    BY HttpInvInit, <1>1, <1>2, <1>3, PTL DEF Spec

LEMMA InvGivesAccessLine == HttpInv => AccessLineTellsTheStatus
<1> SUFFICES ASSUME HttpInv, http = "done" PROVE AccessLineTellsTheStatus
    BY DEF AccessLineTellsTheStatus
<1>1. /\ path = Normalised(request.path)
      /\ request \in HttpRequest
    BY DEF HttpInv, Routed
<1>2. CASE ~Logged
  <2>1. accesses = <<>> /\ request.path \notin ApiPaths
      BY <1>1, <1>2, NormalisedSide DEF HttpInv, McpInv, RestInv, AtMcp, AtRest, Logged
  <2> QED
      BY <2>1 DEF AccessLineTellsTheStatus
<1>3. CASE Logged
  <2>1. request.path \in ApiPaths /\ path = request.path /\ path \notin McpPaths
      BY <1>1, <1>3, NormalisedSide, HttpAssumption DEF Logged
  <2>2. PICK s \in Nat : accesses = Line(s) /\ Told(s)
      BY <1>3, <2>1 DEF HttpInv, RestInv, AtRest
  <2>3. accesses = <<[status |-> s, level |-> LevelOf(path)]>>
      BY <1>3, <2>2 DEF Line
  <2> QED
      BY <2>1, <2>2, <2>3 DEF AccessLineTellsTheStatus, Told, LevelOf
<1> QED
    BY <1>2, <1>3

\* Whatever the paths, and wherever a request crashes or is cancelled: a REST
\* request leaves one access line, with the status the client got
\* (AccessLogMiddleware.__call__).
THEOREM OneTrueAccessLine == Spec => []AccessLineTellsTheStatus
BY HttpInvariance, InvGivesAccessLine, PTL

LEMMA InvGivesTokenGuard == HttpInv => TokenGuardsTheTools
<1> SUFFICES ASSUME HttpInv PROVE TokenGuardsTheTools
    OBVIOUS
<1>1. request \in HttpRequest
    BY DEF HttpInv, Routed
<1>2. ~Rejected => MayPass
    BY <1>1 DEF Rejected, NoCredential, MayPass, HttpRequest, Schemes
<1>3. Rejected => ~MayPass
    BY <1>1 DEF Rejected, NoCredential, MayPass, HttpRequest, Schemes
<1>4. CASE AtMcp
  <2>1. http \notin Early => ToMcp
      BY <1>1, <1>4, NormalisedSide DEF HttpInv, Routed, AtMcp, Early
  <2> QED
      BY <1>2, <1>3, <1>4, <2>1
      DEF HttpInv, McpInv, AtMcp, Early, McpSteps, TokenGuardsTheTools
<1>5. CASE AtRest
  <2>1. ~ToMcp
      BY <1>1, <1>5, NormalisedSide DEF HttpInv, Routed, AtRest, RestSteps
  <2> QED
      BY <1>5, <2>1 DEF HttpInv, RestInv, AtRest, RestSteps, TokenGuardsTheTools
<1> QED
    BY <1>4, <1>5 DEF HttpInv, Routed, AtMcp, AtRest

\* However the path is spelled: no call reaches the MCP transport without the
\* token, and everybody else gets a 401 and one line
\* (McpBearerAuthMiddleware, _NormalizeBareMcpPath).
THEOREM OnlyTheTokenOpens == Spec => []TokenGuardsTheTools
BY HttpInvariance, InvGivesTokenGuard, PTL

-----------------------------------------------------------------------------
(* Reads: the vault and what was in it.                                    *)

\* A record of what is used of the bounds.
IsUse(u) ==
    u = [host |-> u.host, faults |-> u.faults, blind |-> u.blind] /\ u.faults \in Nat

\* What may be found in the vault, and where to_json_safe gives what is expected
\* of it.
Found == HostEntries \union UNION {{s.vault[p] : p \in Paths} : s \in Starts}
ConversionIsFaithful == \A e \in Found \ {None} : Converted(e.heap) = Expected(e.heap)

\* The vault is a tree, and had holds at least what is there now.
VaultInv ==
    /\ IsVault(vault) /\ IsCall(call)
    /\ had = [p \in Paths |-> had[p]]
    /\ \A p \in Paths :
         /\ vault[p] \in had[p] /\ had[p] \subseteq Found \union {None}
         /\ \A e \in Notes(p) : IsNote(e)
    /\ IsUse(used)

\* What has been verified of a path may be taken back by the host, but not that
\* it held during the call.
Unlinked(p) == \A q \in Above[p] : ~Is(q, "symlink")
Plain(p) == p \in Present => Is(p, "note")

\* A step of the host, as far as a call can tell.
HostEffect ==
    /\ UNCHANGED <<call, pc, answer, at, links, stat>>
    /\ used'.faults = used.faults
    /\ \A p \in Paths :
         /\ had[p] \subseteq had'[p] /\ Notes(p) \subseteq Notes(p)'
         /\ Unlinked(p) => Unlinked(p)'
         /\ Plain(p) => Plain(p)'
         /\ Visible(p) => Visible(p)'
         /\ Steady(p)' => Steady(p)

\* Components of a path are paths.
LEMMA Components ==
    ASSUME NEW p \in Paths
    PROVE  /\ p \in Above[p] /\ Above[p] \subseteq Paths
           /\ \A q \in Above[p] : Above[q] \subseteq Above[p]
BY ReadsAssumption

\* After a step that makes the vault `new', of entries there were or that the
\* host may write.
LEMMA HostStepEffect ==
    ASSUME VaultInv, NEW new, HostStep(new), IsVault(new),
           \A p \in Paths : new[p] \in {vault[p], None} \union HostEntries
    PROVE  HostEffect /\ VaultInv'
<1>1. /\ vault' = new /\ had' = [p \in Paths |-> had[p] \union {new[p]}]
      /\ used' = [used EXCEPT !.host = @ + 1]
      /\ UNCHANGED <<call, pc, answer, at, links, stat>>
    BY DEF HostStep, locals
<1>2. used'.faults = used.faults
      /\ IsUse(used')
    BY <1>1 DEF VaultInv, IsUse
<1>3. \A p \in Paths : had'[p] = had[p] \union {vault'[p]}
    BY <1>1
<1>4. \A p \in Paths : \A e \in had'[p] : e \in had[p] \/ e \in {None} \union HostEntries
    BY <1>1, <1>3 DEF VaultInv
<1>5. \A e \in HostEntries : e # None /\ e.kind = "note" /\ IsNote(e)
    BY ReadsAssumption DEF IsNote
<1>6. ASSUME NEW p \in Paths
      PROVE  /\ had[p] \subseteq had'[p] /\ Notes(p) \subseteq Notes(p)'
             /\ \A e \in Notes(p)' : IsNote(e)
             /\ had'[p] \subseteq Found \union {None}
  <2>1. Notes(p)' = {e \in had'[p] \ {None} : e.kind = "note"}
      BY DEF Notes
  <2> QED
      BY <1>3, <1>4, <1>5, <2>1 DEF Notes, VaultInv, Found
<1>7. ASSUME NEW q \in Paths
      PROVE  /\ Is(q, "symlink")' => Is(q, "symlink")
             /\ Plain(q) => Plain(q)'
    BY <1>1, <1>5 DEF Is, Present, Plain
<1>8. ASSUME NEW p \in Paths, Unlinked(p) PROVE Unlinked(p)'
  <2>1. (\A q \in Above[p] : ~Is(q, "symlink")') => Unlinked(p)'
      BY DEF Unlinked
  <2> QED
      BY <1>7, <1>8, <2>1, Components DEF Unlinked
<1>9. ASSUME NEW p \in Paths, Visible(p) PROVE Visible(p)'
    BY <1>6, <1>9, Components DEF Visible
<1>10. ASSUME NEW p \in Paths, Steady(p)' PROVE Steady(p)
  <2>1. p \in Markdown /\ Above[p] \intersect Hidden = {} /\ ~Linked(p)'
      BY <1>10 DEF Steady
  <2>2. PICK e \in Notes(p)' : had'[p] = {e}
      BY <1>10 DEF Steady
  <2>3. had[p] = {e} /\ vault[p] = e /\ e # None /\ e.kind = "note"
      BY <1>6, <2>2 DEF VaultInv, Notes
  <2>4. e \in Notes(p)
      BY <2>3 DEF Notes
  <2>5. ~Linked(p)
      BY <1>6, <2>1, Components DEF Linked
  <2> QED
      BY <2>1, <2>3, <2>4, <2>5 DEF Steady
<1>11. VaultInv'
    BY <1>1, <1>2, <1>3, <1>6 DEF VaultInv
<1> QED
    BY <1>1, <1>2, <1>6, <1>7, <1>8, <1>9, <1>10, <1>11 DEF HostEffect

LEMMA HostChangeEffect == VaultInv /\ HostChange => HostEffect /\ VaultInv'
<1> SUFFICES ASSUME VaultInv, HostChange PROVE HostEffect /\ VaultInv'
    OBVIOUS
<1>1. PICK p \in Paths : HostDelete(p) \/ \E e \in HostEntries : HostWrite(p, e)
    BY DEF HostChange
<1>2. CASE HostDelete(p)
  <2> DEFINE new == [q \in Paths |-> IF q \in Within(p) THEN None ELSE vault[q]]
  <2>1. HostStep(new)
      BY <1>2 DEF HostDelete
  <2>2. \A q \in Paths : new[q] # None =>
          new[q] = vault[q] /\ \A r \in Above[q] : new[r] = vault[r]
    <3> SUFFICES ASSUME NEW q \in Paths, new[q] # None, NEW r \in Above[q]
                 PROVE  new[q] = vault[q] /\ new[r] = vault[r]
        BY Components
    <3>1. p \notin Above[q] /\ new[q] = vault[q]
        BY DEF Within
    <3>2. r \in Paths /\ p \notin Above[r]
        BY <3>1, Components
    <3> QED
        BY <3>1, <3>2 DEF Within
  <2>3. IsVault(new)
    <3>1. \A q \in Paths : new[q] # None =>
            /\ new[q].kind = "note" => IsNote(new[q])
            /\ \A r \in Above[q] \ {q} : new[r] # None /\ new[r].kind \in {"folder", "symlink"}
        BY <2>2 DEF VaultInv, IsVault
    <3> QED
        BY <3>1 DEF IsVault
  <2>4. \A q \in Paths : new[q] \in {vault[q], None} \union HostEntries
      OBVIOUS
  <2> HIDE DEF new
  <2> QED
      BY <2>1, <2>3, <2>4, HostStepEffect
<1>3. ASSUME NEW e \in HostEntries, HostWrite(p, e) PROVE HostEffect /\ VaultInv'
  <2> DEFINE new == [q \in Paths |-> IF q = p THEN e ELSE IF q \in Within(p) THEN None ELSE vault[q]]
  <2>1. HostStep(new) /\ (Parent[p] = Root \/ Is(Parent[p], "folder")) /\ p \in Paths
      BY <1>3 DEF HostWrite
  <2>2. vault = [q \in Paths |-> vault[q]] /\ e # None /\ IsNote(e)
      BY ReadsAssumption DEF VaultInv, IsVault
  <2>4. \A q \in Paths : new[q] \in {vault[q], None} \union HostEntries
      OBVIOUS
  <2>5. ASSUME NEW q \in Above[p] \ {p}
        PROVE  new[q] # None /\ new[q].kind \in {"folder", "symlink"}
    <3>1. Parent[p] # Root /\ q \in Above[Parent[p]] /\ p \notin Above[Parent[p]] /\ Parent[p] \in Paths
        BY ReadsAssumption
    <3>2. vault[Parent[p]] # None /\ vault[Parent[p]].kind = "folder"
        BY <2>1, <3>1 DEF Is, Present
    <3>3. vault[q] # None /\ vault[q].kind \in {"folder", "symlink"}
        BY <3>1, <3>2 DEF VaultInv, IsVault
    <3>4. q \in Paths /\ p \notin Above[q]
        BY <3>1, Components
    <3> QED
        BY <3>3, <3>4 DEF Within
  <2>6. ASSUME NEW q \in Paths, new[q] # None
        PROVE  /\ new[q].kind = "note" => IsNote(new[q])
               /\ \A r \in Above[q] \ {q} : new[r] # None /\ new[r].kind \in {"folder", "symlink"}
    <3>1. CASE q = p
        BY <2>2, <2>5, <3>1
    <3>2. CASE q # p
      <4>1. p \notin Above[q] /\ new[q] = vault[q]
          BY <2>6, <3>2 DEF Within
      <4>2. ASSUME NEW r \in Above[q] PROVE new[r] = vault[r]
        <5>1. r \in Paths /\ p \notin Above[r] /\ r # p
            BY <4>1, Components
        <5> QED
            BY <5>1 DEF Within
      <4> QED
          BY <2>6, <4>1, <4>2 DEF VaultInv, IsVault
    <3> QED
        BY <3>1, <3>2
  <2>7. IsVault(new)
      BY <2>6 DEF IsVault
  <2> HIDE DEF new
  <2> QED
      BY <2>1, <2>4, <2>7, HostStepEffect
<1> QED
    BY <1>1, <1>2, <1>3

\* A step of the call leaves the vault and its history alone, and undoes no
\* fault.
ToolEffect ==
    /\ UNCHANGED <<vault, call, had>>
    /\ IsUse(used') /\ used'.faults \in Nat /\ used'.faults >= used.faults

LEMMA FaultCounts ==
    ASSUME IsUse(used)
    PROVE  /\ Fails => IsUse(used') /\ used'.faults = used.faults + 1
           /\ \A folder : FailsToScan(folder) => IsUse(used') /\ used'.faults = used.faults + 1
<1>1. Fails => used' = [host |-> used.host, faults |-> used.faults + 1, blind |-> used.blind]
    BY DEF IsUse, Fails
<1>2. ASSUME NEW folder, FailsToScan(folder)
      PROVE  used' = [host |-> used.host, faults |-> used.faults + 1,
                      blind |-> used.blind \union {folder}]
    BY <1>2 DEF IsUse, FailsToScan
<1> QED
    BY <1>1, <1>2 DEF IsUse

LEMMA ToolStepEffect == VaultInv /\ ToolStep => ToolEffect
<1> SUFFICES ASSUME VaultInv, ToolStep PROVE ToolEffect
    OBVIOUS
<1>1. UNCHANGED <<vault, call, had>>
    BY DEF ToolStep, CheckPath, ResolveStrict, ResolveFails, CheckKind, CheckKindFails,
           StatNote, StatNoteFails, ReadText, ReadTextFails, NextCandidate, Link, CreateNote,
           ScanFolder, ScanFolderFails, StatFile, StatFileFails, ReadBlock, ReadBlockFails,
           Summarise, Refused, Gone, Raised, PassOver, Goto, Answer
<1>2. used' = used \/ Fails \/ \E folder : FailsToScan(folder)
    BY DEF ToolStep, CheckPath, ResolveStrict, ResolveFails, CheckKind, CheckKindFails,
           StatNote, StatNoteFails, ReadText, ReadTextFails, NextCandidate, Link, CreateNote,
           ScanFolder, ScanFolderFails, StatFile, StatFileFails, ReadBlock, ReadBlockFails,
           Summarise, Raised
<1>3. IsUse(used) /\ used.faults \in Nat
    BY DEF VaultInv, IsUse
<1>4. CASE used' = used
    BY <1>1, <1>3, <1>4 DEF ToolEffect
<1>5. CASE Fails \/ \E folder : FailsToScan(folder)
  <2>1. IsUse(used') /\ used'.faults = used.faults + 1
      BY <1>3, <1>5, FaultCounts
  <2> QED
      BY <1>1, <1>3, <2>1 DEF ToolEffect
<1> QED
    BY <1>2, <1>4, <1>5

LEMMA SameHistory ==
    ASSUME UNCHANGED had
    PROVE  \A p \in Paths : /\ Notes(p)' = Notes(p) /\ (Visible(p)' <=> Visible(p))
                            /\ (Steady(p)' <=> Steady(p)) /\ (Linked(p)' <=> Linked(p))
<1>1. \A p \in Paths : Notes(p)' = Notes(p)
    BY DEF Notes
<1>2. \A p \in Paths : (Visible(p)' <=> Visible(p)) /\ (Linked(p)' <=> Linked(p))
    BY DEF Visible, Linked
<1> QED
    BY <1>1, <1>2 DEF Steady

LEMMA ToolKeepsVault == VaultInv /\ ToolEffect => VaultInv'
BY SameHistory DEF VaultInv, ToolEffect

\* What holds of a path that is there, and is not linked.
LEMMA SeenIsVisible ==
    ASSUME VaultInv, NEW p \in Markdown, Above[p] \intersect Hidden = {}, Unlinked(p),
           p \in Present
    PROVE  Visible(p)
<1>1. p \in Paths
    BY ReadsAssumption
<1>2. \A q \in Above[p] : q \in Paths /\ vault[q] \in had[q] \ {None} /\ vault[q].kind # "symlink"
    BY <1>1, Components DEF VaultInv, IsVault, Unlinked, Is, Present
<1> QED
    BY <1>2 DEF Visible

LEMMA SteadyIsThere ==
    ASSUME VaultInv, NEW p \in Paths, Steady(p)
    PROVE  Is(p, "note") /\ p \in Present /\ Unlinked(p) /\ had[p] = {vault[p]}
<1>1. Is(p, "note") /\ had[p] = {vault[p]}
    BY DEF Steady, Notes, VaultInv, Is, Present
<1>2. Unlinked(p)
    BY Components DEF Steady, Linked, VaultInv, Unlinked, Is, Present
<1> QED
    BY <1>1, <1>2 DEF Is

-----------------------------------------------------------------------------
(* Reads: the way to a file, for read_note and for each related note.      *)

\* What has been verified of the path at hand.
PathInv ==
    /\ pc \in {"check", "resolve", "kind", "link", "stat", "read"} => Candidate \in Paths
    /\ pc \in {"resolve", "kind", "link", "stat", "read"} =>
         /\ Candidate \in Markdown /\ Above[Candidate] \intersect Hidden = {}
         /\ Unlinked(Candidate)
    /\ pc \in {"kind", "link", "stat", "read"} => Visible(Candidate)
    /\ pc \in {"link", "stat", "read"} => Notes(Candidate) # {} /\ Plain(Candidate)

LEMMA HostKeepsPath == PathInv /\ HostEffect => PathInv'
<1> SUFFICES ASSUME PathInv, HostEffect PROVE PathInv'
    OBVIOUS
<1>1. pc' = pc /\ Candidate' = Candidate
    BY DEF HostEffect, Candidate
<1>2. ASSUME NEW p \in Paths
      PROVE  /\ Unlinked(p) => Unlinked(p)'
             /\ Visible(p) => Visible(p)'
             /\ Notes(p) # {} /\ Plain(p) => Notes(p)' # {} /\ Plain(p)'
    BY DEF HostEffect
<1>3. PICK c : c = Candidate /\ c = Candidate'
    BY <1>1
<1>4. pc \in {"check", "resolve", "kind", "link", "stat", "read"} => c \in Paths
    BY <1>3 DEF PathInv
<1>5. pc \in {"resolve", "kind", "link", "stat", "read"} =>
        c \in Markdown /\ Above[c] \intersect Hidden = {} /\ Unlinked(c)'
    BY <1>2, <1>3, <1>4 DEF PathInv
<1>6. pc \in {"kind", "link", "stat", "read"} => Visible(c)'
    BY <1>2, <1>3, <1>4 DEF PathInv
<1>7. pc \in {"link", "stat", "read"} => Notes(c)' # {} /\ Plain(c)'
    BY <1>2, <1>3, <1>4 DEF PathInv
<1> QED
    BY <1>1, <1>3, <1>4, <1>5, <1>6, <1>7 DEF PathInv

-----------------------------------------------------------------------------
(* Reads: related notes.                                                   *)

\* The links come from the candidates before `at', in their order.
Placed ==
    \E place \in [1..Len(links) -> 1..(at - 1)] :
        /\ \A k \in 1..Len(links) : links[k] = call.candidates[place[k]]
        /\ \A j, k \in 1..Len(links) : j < k => place[j] < place[k]

\* Each link was verified, and is rendered.
Verified ==
    \A k \in 1..Len(links) :
        links[k] \in Renderable /\ Visible(links[k]) /\ Notes(links[k]) # {}

\* No good candidate was passed over but for a failing disk.
NonePassedOver ==
    \A k \in 1..(at - 1) :
        Steady(call.candidates[k]) /\ call.candidates[k] \in Renderable =>
            (\E j \in 1..Len(links) : links[j] = call.candidates[k]) \/ used.faults > 0

LinksInv ==
    /\ at \in Nat \ {0} /\ at - 1 <= Len(call.candidates)
    /\ links \in Seq(Paths) /\ Len(links) <= MaxLinks
    /\ Verified
    /\ \A j, k \in 1..Len(links) : j < k => links[j] # links[k]
    /\ Placed
    /\ NonePassedOver

CreateSteps == {"idle", "candidate", "check", "resolve", "kind", "link", "create", "done"}

\* No candidate is left, or no room.
Over == at > Len(call.candidates) \/ Len(links) >= MaxLinks

CreateInv ==
    call.tool = "create" =>
        /\ call.candidates \in Seq(Paths) /\ pc \in CreateSteps
        /\ LinksInv
        /\ pc \in {"check", "resolve", "kind", "link"} => ~Over /\ Candidate \in Renderable
        /\ pc = "create" => Over
        /\ pc = "done" =>
             IF Failed THEN used.faults > 0
             ELSE Over /\ answer = [linked |-> Len(links),
                                    skipped |-> Len(call.candidates) - Len(links),
                                    links |-> links, rendered |-> Rendered]

\* What was verified stays verified.
LEMMA LinksStay ==
    ASSUME LinksInv, call.candidates \in Seq(Paths), UNCHANGED <<at, links, call>>,
           used.faults \in Nat, used'.faults \in Nat, used'.faults >= used.faults,
           \A p \in Paths : /\ Visible(p) => Visible(p)'
                            /\ Notes(p) \subseteq Notes(p)'
                            /\ Steady(p)' => Steady(p)
    PROVE  LinksInv'
<1>1. /\ \A k \in 1..Len(links) : links[k] \in Paths
      /\ \A k \in 1..(at - 1) : call.candidates[k] \in Paths
    BY DEF LinksInv
<1>2. Placed'
    BY DEF LinksInv, Placed
<1>3. Verified'
    BY <1>1 DEF LinksInv, Verified
<1>4. NonePassedOver'
    BY <1>1 DEF LinksInv, NonePassedOver
<1> QED
    BY <1>2, <1>3, <1>4 DEF LinksInv

\* A candidate is done with: it is linked already, was not steady, or the disk
\* failed.
LEMMA Passed ==
    ASSUME LinksInv, VaultInv, ToolEffect, call.candidates \in Seq(Paths),
           at <= Len(call.candidates), at' = at + 1, links' = links,
           NEW c, c = call.candidates[at],
           Steady(c) /\ c \in Renderable =>
               (\E j \in 1..Len(links) : links[j] = c) \/ used'.faults > 0
    PROVE  LinksInv'
<1>1. call' = call /\ used.faults \in Nat /\ used'.faults \in Nat /\ used'.faults >= used.faults
    BY DEF ToolEffect, VaultInv, IsUse
<1>2. \A p \in Paths : /\ Notes(p)' = Notes(p) /\ (Visible(p)' <=> Visible(p))
                       /\ (Steady(p)' <=> Steady(p))
    BY SameHistory DEF ToolEffect
<1>3. at \in Nat \ {0} /\ \A k \in 1..at : call.candidates[k] \in Paths
    BY DEF LinksInv
<1>4. \A k \in 1..Len(links) : links[k] \in Paths
    BY DEF LinksInv
<1>5. Placed'
  <2>1. PICK place \in [1..Len(links) -> 1..(at - 1)] :
          /\ \A k \in 1..Len(links) : links[k] = call.candidates[place[k]]
          /\ \A j, k \in 1..Len(links) : j < k => place[j] < place[k]
      BY DEF LinksInv, Placed
  <2>2. at' - 1 = at /\ 1..(at - 1) \subseteq 1..at
      BY <1>3
  <2>3. place \in [1..Len(links) -> 1..(at' - 1)]
      BY <2>2
  <2> QED
      BY <1>1, <2>1, <2>3 DEF Placed
<1>6. Verified'
    BY <1>2, <1>4 DEF LinksInv, Verified
<1>7. NonePassedOver'
  <2> SUFFICES ASSUME NEW k \in 1..at, Steady(call.candidates[k])', call.candidates[k] \in Renderable
               PROVE  (\E j \in 1..Len(links) : links[j] = call.candidates[k])
                      \/ used'.faults > 0
      BY <1>1, <1>3 DEF NonePassedOver
  <2>1. Steady(call.candidates[k])
      BY <1>1, <1>2, <1>3
  <2>2. CASE k = at
      BY <2>1, <2>2
  <2>3. CASE k # at
    <3>1. k \in 1..(at - 1)
        BY <1>3, <2>3
    <3> QED
        BY <1>1, <2>1, <3>1 DEF LinksInv, NonePassedOver
  <2> QED
      BY <2>2, <2>3
<1> QED
    BY <1>1, <1>3, <1>5, <1>6, <1>7 DEF LinksInv

\* The candidate at hand is linked.
LEMMA LinkKeepsLinks ==
    ASSUME LinksInv, VaultInv, ToolEffect, call.candidates \in Seq(Paths),
           at <= Len(call.candidates), at' = at + 1, Len(links) < MaxLinks,
           NEW c, c = call.candidates[at], links' = Append(links, c),
           \A j \in 1..Len(links) : links[j] # c,
           c \in Renderable, Visible(c), Notes(c) # {}
    PROVE  LinksInv'
<1>1. call' = call /\ used.faults \in Nat /\ used'.faults \in Nat /\ used'.faults >= used.faults
    BY DEF ToolEffect, VaultInv, IsUse
<1>2. \A p \in Paths : /\ Notes(p)' = Notes(p) /\ (Visible(p)' <=> Visible(p))
                       /\ (Steady(p)' <=> Steady(p))
    BY SameHistory DEF ToolEffect
<1>3. at \in Nat \ {0} /\ \A k \in 1..at : call.candidates[k] \in Paths
    BY DEF LinksInv
<1>4. c \in Paths /\ links \in Seq(Paths)
    BY <1>3 DEF LinksInv
<1>5. /\ links' \in Seq(Paths) /\ Len(links') = Len(links) + 1
      /\ \A k \in 1..Len(links) : links'[k] = links[k]
      /\ links'[Len(links) + 1] = c
    BY <1>4
<1>6. Len(links) \in Nat
    BY <1>4
<1>7. Placed'
  <2>1. PICK place \in [1..Len(links) -> 1..(at - 1)] :
          /\ \A k \in 1..Len(links) : links[k] = call.candidates[place[k]]
          /\ \A j, k \in 1..Len(links) : j < k => place[j] < place[k]
      BY DEF LinksInv, Placed
  <2> DEFINE next == [k \in 1..(Len(links) + 1) |-> IF k = Len(links) + 1 THEN at ELSE place[k]]
  <2>2. next \in [1..(Len(links) + 1) -> 1..at]
      BY <1>3, <1>6, <2>1
  <2>3. \A k \in 1..(Len(links) + 1) : links'[k] = call.candidates[next[k]]
      BY <1>3, <1>5, <1>6, <2>1
  <2>4. \A j, k \in 1..(Len(links) + 1) : j < k => next[j] < next[k]
      BY <1>3, <1>6, <2>1
  <2>5. Len(links') = Len(links) + 1 /\ at' - 1 = at
      BY <1>3, <1>5
  <2> HIDE DEF next
  <2> QED
      BY <1>1, <2>2, <2>3, <2>4, <2>5 DEF Placed
<1>8. Verified'
  <2>1. Visible(c)' /\ Notes(c)' # {}
      BY <1>2, <1>4
  <2>2. ASSUME NEW k \in 1..Len(links)
        PROVE  links[k] \in Renderable /\ Visible(links[k])' /\ Notes(links[k])' # {}
      BY <1>2, <1>4 DEF LinksInv, Verified
  <2>3. PICK ls : ls = links'
      OBVIOUS
  <2>4. ASSUME NEW k \in 1..(Len(links) + 1)
        PROVE  (k \in 1..Len(links) /\ ls[k] = links[k]) \/ ls[k] = c
      BY <1>5, <1>6, <2>3
  <2>5. \A k \in 1..(Len(links) + 1) :
          ls[k] \in Renderable /\ Visible(ls[k])' /\ Notes(ls[k])' # {}
      BY <2>1, <2>2, <2>4
  <2> QED
      BY <1>5, <2>3, <2>5 DEF Verified
<1>9. \A j, k \in 1..(Len(links) + 1) : j < k => links'[j] # links'[k]
  <2> SUFFICES ASSUME NEW j \in 1..(Len(links) + 1), NEW k \in 1..(Len(links) + 1), j < k
               PROVE  links'[j] # links'[k]
      OBVIOUS
  <2>1. j \in 1..Len(links) /\ links'[j] = links[j]
      BY <1>5, <1>6
  <2>2. CASE k \in 1..Len(links)
    <3>1. links[j] # links[k]
        BY <2>1, <2>2 DEF LinksInv
    <3> QED
        BY <1>5, <2>1, <2>2, <3>1
  <2>3. CASE k = Len(links) + 1
    <3>1. links'[k] = c /\ links[j] # c
        BY <1>5, <2>1, <2>3
    <3> QED
        BY <2>1, <3>1
  <2>4. k \in 1..Len(links) \/ k = Len(links) + 1
      BY <1>6
  <2> QED
      BY <2>2, <2>3, <2>4
<1>10. NonePassedOver'
  <2> SUFFICES ASSUME NEW k \in 1..at, Steady(call.candidates[k])', call.candidates[k] \in Renderable
               PROVE  (\E j \in 1..(Len(links) + 1) : links'[j] = call.candidates[k])
                      \/ used'.faults > 0
      BY <1>1, <1>3, <1>5 DEF NonePassedOver
  <2>1. CASE k = at
      BY <1>5, <1>6, <2>1
  <2>2. CASE k # at
    <3>1. (\E j \in 1..Len(links) : links[j] = call.candidates[k]) \/ used.faults > 0
      <4>1. k \in 1..(at - 1) /\ call.candidates[k] \in Paths
          BY <1>3, <2>2
      <4>2. Steady(call.candidates[k])
          BY <1>1, <1>2, <4>1
      <4> QED
          BY <4>1, <4>2 DEF LinksInv, NonePassedOver
    <3> QED
        BY <1>1, <1>5, <1>6, <3>1
  <2> QED
      BY <2>1, <2>2
<1>11. at' \in Nat \ {0} /\ at' - 1 = at /\ Len(links') <= MaxLinks
    BY <1>3, <1>5, <1>6, ReadsAssumption
<1>12. \A j, k \in 1..Len(links') : j < k => links'[j] # links'[k]
    BY <1>5, <1>9
<1> QED
    BY <1>1, <1>5, <1>7, <1>8, <1>10, <1>11, <1>12 DEF LinksInv

\* Refused, for a related note.
LEMMA RefusedIsPassed ==
    ASSUME PathInv, LinksInv, VaultInv, ToolEffect, call.tool = "create",
           call.candidates \in Seq(Paths), at <= Len(call.candidates),
           NEW code, Refused(code),
           Steady(Candidate) => used'.faults > 0
    PROVE  LinksInv' /\ pc' = "candidate"
<1>1. at' = at + 1 /\ links' = links /\ pc' = "candidate"
    BY DEF Refused, Goto
<1>2. PICK c : c = Candidate /\ c = call.candidates[at]
    BY DEF Candidate
<1>3. Steady(c) => used'.faults > 0
    BY <1>2
<1> QED
    BY <1>1, <1>2, <1>3, Passed

-----------------------------------------------------------------------------
(* Reads: read_note, and the invariant as a whole.                         *)

ReadSteps == {"idle", "check", "resolve", "kind", "stat", "read", "done"}
SummarySteps == {"idle", "walk", "block", "done"}

ReadInv ==
    call.tool = "read_note" =>
        /\ pc \in ReadSteps
        /\ pc = "read" => stat \in Notes(call.path)
        /\ ConversionIsFaithful => ReadIsFaithful

ReadsInv ==
    /\ VaultInv /\ PathInv /\ CreateInv /\ ReadInv
    /\ call.tool = "summary" => pc \in SummarySteps

LEMMA ToolIsOne ==
    IsCall(call) => \/ call.tool = "read_note" /\ call.path \in Paths
                    \/ call.tool = "create" /\ call.candidates \in Seq(Paths)
                    \/ call.tool = "summary"
BY DEF IsCall

\* Where a call goes when it does not go on to the next step of the way.
LEMMA Away ==
    /\ \A code : Refused(code) => pc' \in {"candidate", "done"}
    /\ Gone => pc' \in {"candidate", "done"}
    /\ Raised => pc' = "done"
BY DEF Refused, Gone, Raised, Answer, Goto

LEMMA StepKeepsPath == ReadsInv /\ ToolStep => PathInv'
<1> SUFFICES ASSUME ReadsInv, ToolStep PROVE PathInv'
    OBVIOUS
<1> DEFINE onTheWay == {"check", "resolve", "kind", "link", "stat", "read"}
<1>1. VaultInv /\ PathInv /\ UNCHANGED <<vault, call, had>>
    BY ToolStepEffect DEF ReadsInv, ToolEffect
<1>2. pc' \notin onTheWay => PathInv'
    BY DEF PathInv
<1>3. \A p \in Paths : /\ Notes(p)' = Notes(p) /\ (Visible(p)' <=> Visible(p))
                       /\ (Unlinked(p)' <=> Unlinked(p)) /\ (Plain(p)' <=> Plain(p))
    BY <1>1, SameHistory DEF Unlinked, Plain, Is, Present
<1>4. ASSUME at' = at PROVE Candidate' = Candidate
    BY <1>1, <1>4 DEF Candidate
<1>5. CASE CheckPath
  <2>1. pc = "check" /\ (pc' \in {"candidate", "done"} \/ (pc' = "resolve" /\ at' = at
          /\ Above[Candidate] \intersect Hidden = {} /\ Candidate \in Markdown
          /\ \A q \in Above[Candidate] : ~Is(q, "symlink")))
      BY <1>5, Away DEF CheckPath, Goto, locals
  <2> SUFFICES ASSUME pc' = "resolve", at' = at PROVE PathInv'
      BY <1>2, <2>1
  <2>2. PICK c : c = Candidate /\ c = Candidate'
      BY <1>4
  <2>3. c \in Paths /\ c \in Markdown /\ Above[c] \intersect Hidden = {} /\ Unlinked(c)
      BY <1>1, <2>1, <2>2 DEF PathInv, Unlinked
  <2> QED
      BY <1>3, <2>2, <2>3 DEF PathInv
<1>6. CASE ResolveStrict
  <2>1. pc = "resolve" /\ (pc' \in {"candidate", "done"}
          \/ (pc' = "kind" /\ at' = at /\ Candidate \in Present))
      BY <1>6, Away DEF ResolveStrict, Goto, locals
  <2> SUFFICES ASSUME pc' = "kind", at' = at PROVE PathInv'
      BY <1>2, <2>1
  <2>2. PICK c : c = Candidate /\ c = Candidate'
      BY <1>4
  <2>3. c \in Paths /\ c \in Markdown /\ Above[c] \intersect Hidden = {} /\ Unlinked(c)
        /\ c \in Present
      BY <1>1, <2>1, <2>2 DEF PathInv
  <2>4. Visible(c)
      BY <1>1, <2>3, SeenIsVisible
  <2> QED
      BY <1>3, <2>2, <2>3, <2>4 DEF PathInv
<1>7. CASE CheckKind
  <2>1. pc = "kind" /\ (pc' \in {"candidate", "done"}
          \/ (pc' \in {"stat", "link"} /\ at' = at /\ Is(Candidate, "note")))
      BY <1>7, Away DEF CheckKind, Goto, locals
  <2> SUFFICES ASSUME pc' \in {"stat", "link"}, at' = at PROVE PathInv'
      BY <1>2, <2>1
  <2>2. PICK c : c = Candidate /\ c = Candidate'
      BY <1>4
  <2>3. c \in Paths /\ c \in Markdown /\ Above[c] \intersect Hidden = {} /\ Unlinked(c)
        /\ Visible(c) /\ Is(c, "note")
      BY <1>1, <2>1, <2>2 DEF PathInv
  <2>4. Notes(c) # {} /\ Plain(c)
      BY <1>1, <2>3 DEF VaultInv, Notes, Plain, Is, Present
  <2> QED
      BY <1>3, <2>2, <2>3, <2>4 DEF PathInv
<1>8. CASE StatNote
  <2>1. pc = "stat" /\ (pc' \in {"candidate", "done"} \/ (pc' = "read" /\ at' = at))
      BY <1>8, Away DEF StatNote, Goto
  <2> SUFFICES ASSUME pc' = "read", at' = at PROVE PathInv'
      BY <1>2, <2>1
  <2>2. PICK c : c = Candidate /\ c = Candidate'
      BY <1>4
  <2>3. c \in Paths /\ c \in Markdown /\ Above[c] \intersect Hidden = {} /\ Unlinked(c)
        /\ Visible(c) /\ Notes(c) # {} /\ Plain(c)
      BY <1>1, <2>1, <2>2 DEF PathInv
  <2> QED
      BY <1>3, <2>2, <2>3 DEF PathInv
<1>9. CASE NextCandidate
  <2>1. pc = "candidate" /\ (pc' \in {"candidate", "create"}
          \/ (pc' = "check" /\ at' = at /\ ~(at > Len(call.candidates))))
      BY <1>9 DEF NextCandidate, Goto
  <2> SUFFICES ASSUME pc' = "check", at' = at PROVE PathInv'
      BY <1>2, <2>1
  <2>2. call.tool = "create"
      BY <1>1, <2>1, ToolIsOne DEF ReadsInv, VaultInv, ReadInv, ReadSteps, SummarySteps
  <2>3. call.candidates \in Seq(Paths) /\ at \in Nat \ {0}
      BY <2>2 DEF ReadsInv, CreateInv, LinksInv
  <2>4. call.candidates[at] \in Paths
      BY <2>1, <2>3
  <2>5. Candidate' \in Paths
      BY <1>4, <2>2, <2>4 DEF Candidate
  <2> QED
      BY <2>5 DEF PathInv
<1>10. CASE ResolveFails \/ CheckKindFails \/ StatNoteFails \/ ReadText \/ ReadTextFails
            \/ CreateNote \/ Link \/ Summarise
  <2>1. pc' \notin onTheWay
      BY <1>10, Away DEF ResolveFails, CheckKindFails, StatNoteFails, ReadText, ReadTextFails,
              CreateNote, Link, Summarise, Answer, Goto
  <2> QED
      BY <1>2, <2>1
<1>11. CASE ScanFolder \/ ScanFolderFails \/ StatFile \/ StatFileFails \/ ReadBlock
            \/ ReadBlockFails
  <2>1. pc' \notin onTheWay
      BY <1>11 DEF ScanFolder, ScanFolderFails, StatFile, StatFileFails, ReadBlock,
              ReadBlockFails, PassOver, Goto
  <2> QED
      BY <1>2, <2>1
<1> QED
    BY <1>5, <1>6, <1>7, <1>8, <1>9, <1>10, <1>11 DEF ToolStep

-----------------------------------------------------------------------------
(* Reads: the steps of create_inbox_note.                                  *)

\* Links are rendered, all of them.
LEMMA AllRendered == LinksInv => Rendered = Len(links)
<1> SUFFICES ASSUME LinksInv PROVE Rendered = Len(links)
    OBVIOUS
<1>1. Len(links) \in Nat
    BY DEF LinksInv
<1>2. {k \in 1..Len(links) : links[k] \in Renderable} = 1..Len(links)
    BY DEF LinksInv, Verified
<1>3. Cardinality(1..Len(links)) = Len(links)
    BY <1>1, FS_Interval
<1> QED
    BY <1>2, <1>3 DEF Rendered

\* The links are as they were.
LEMMA ToolKeepsLinks ==
    LinksInv /\ VaultInv /\ ToolEffect /\ call.candidates \in Seq(Paths)
    /\ UNCHANGED <<at, links>> => LinksInv'
<1> SUFFICES ASSUME LinksInv, VaultInv, ToolEffect, call.candidates \in Seq(Paths),
                    UNCHANGED <<at, links>>
             PROVE  LinksInv'
    OBVIOUS
<1>1. used.faults \in Nat /\ used'.faults \in Nat /\ used'.faults >= used.faults
      /\ UNCHANGED call
    BY DEF ToolEffect, VaultInv, IsUse
<1>2. \A p \in Paths : /\ Visible(p) => Visible(p)'
                       /\ Notes(p) \subseteq Notes(p)'
                       /\ Steady(p)' => Steady(p)
    BY SameHistory DEF ToolEffect
<1> QED
    BY <1>1, <1>2, LinksStay

LEMMA StepKeepsCreate == ReadsInv /\ pc # "idle" /\ ToolStep => CreateInv'
<1> SUFFICES ASSUME ReadsInv, pc # "idle", ToolStep, call.tool = "create" PROVE CreateInv'
    BY ToolStepEffect DEF CreateInv, ReadsInv, ToolEffect
<1>1. ToolEffect /\ UNCHANGED <<vault, call, had>>
    BY ToolStepEffect DEF ReadsInv, ToolEffect
<1>2. VaultInv /\ PathInv /\ LinksInv /\ call.candidates \in Seq(Paths) /\ pc \in CreateSteps
    BY DEF ReadsInv, CreateInv
<1>3. used.faults \in Nat /\ used'.faults \in Nat
    BY <1>1, <1>2 DEF ToolEffect, VaultInv, IsUse
<1>4. pc \in {"check", "resolve", "kind", "link"} =>
        at <= Len(call.candidates) /\ Len(links) < MaxLinks /\ Candidate \in Renderable
        /\ ~Over
    BY <1>2, ReadsAssumption DEF ReadsInv, CreateInv, Over, LinksInv
<1> DEFINE c == call.candidates[at]
<1>5. Candidate = c
    BY DEF Candidate
<1>6. UNCHANGED <<at, links>> => LinksInv'
    BY <1>1, <1>2, ToolKeepsLinks
\* What is left to show, by where the step goes.
<1>7. ASSUME LinksInv', pc' = "candidate" PROVE CreateInv'
    BY <1>1, <1>2, <1>7 DEF CreateInv, CreateSteps
<1>8. ASSUME UNCHANGED <<at, links>>, pc' \in {"check", "resolve", "kind", "link"},
             ~Over, c \in Renderable
      PROVE  CreateInv'
  <2>1. ~Over' /\ Candidate' = c /\ LinksInv'
      BY <1>1, <1>6, <1>8 DEF Over, Candidate
  <2> QED
      BY <1>1, <1>2, <1>8, <2>1 DEF CreateInv, CreateSteps
<1>9. ASSUME Raised PROVE CreateInv'
  <2>1. pc' = "done" /\ Failed' /\ UNCHANGED <<at, links>> /\ used'.faults > 0
    <3>1. used'.faults = used.faults + 1
        BY <1>2, <1>9, FaultCounts DEF Raised, VaultInv
    <3> QED
        BY <1>3, <1>9, <3>1 DEF Raised, Answer, Goto, Failed, locals
  <2> QED
      BY <1>1, <1>2, <1>6, <2>1 DEF CreateInv, CreateSteps
<1>10. ASSUME NEW code, Refused(code), at <= Len(call.candidates),
              Steady(Candidate) => used'.faults > 0
       PROVE  CreateInv'
    BY <1>1, <1>2, <1>7, <1>10, RefusedIsPassed
<1>11. ASSUME Steady(Candidate), pc \in {"check", "resolve", "kind", "link"}
       PROVE  /\ Candidate \in Present /\ Is(Candidate, "note") /\ Unlinked(Candidate)
              /\ Above[Candidate] \intersect Hidden = {} /\ Candidate \in Markdown
    BY <1>2, <1>11, SteadyIsThere DEF PathInv, Steady
<1>12. CASE CheckPath
  <2>1. pc = "check" /\ ((Goto("resolve") /\ UNCHANGED <<at, links>>)
                         \/ (\E code : Refused(code) /\ ~Steady(Candidate)))
      BY <1>11, <1>12 DEF CheckPath, locals, Unlinked
  <2>2. CASE Goto("resolve") /\ UNCHANGED <<at, links>>
      BY <1>4, <1>5, <1>8, <2>1, <2>2 DEF Goto
  <2> QED
      BY <1>4, <1>10, <2>1, <2>2
<1>13. CASE ResolveStrict
  <2>1. pc = "resolve" /\ ((Goto("kind") /\ UNCHANGED <<at, links>>)
                           \/ (\E code : Refused(code) /\ ~Steady(Candidate)))
      BY <1>11, <1>13 DEF ResolveStrict, locals
  <2>2. CASE Goto("kind") /\ UNCHANGED <<at, links>>
      BY <1>4, <1>5, <1>8, <2>1, <2>2 DEF Goto
  <2> QED
      BY <1>4, <1>10, <2>1, <2>2
<1>14. CASE ResolveFails
  <2>1. used'.faults = used.faults + 1
      BY <1>2, <1>14, FaultCounts DEF ResolveFails, VaultInv
  <2> QED
      BY <1>3, <1>4, <1>10, <1>14, <2>1 DEF ResolveFails
<1>15. CASE CheckKind
  <2>1. pc = "kind" /\ ((Goto("link") /\ UNCHANGED <<at, links>>)
                        \/ (\E code : Refused(code) /\ ~Steady(Candidate)))
      BY <1>11, <1>15 DEF CheckKind, Gone, locals
  <2>2. CASE Goto("link") /\ UNCHANGED <<at, links>>
      BY <1>4, <1>5, <1>8, <2>1, <2>2 DEF Goto
  <2> QED
      BY <1>4, <1>10, <2>1, <2>2
<1>16. CASE CheckKindFails
    BY <1>9, <1>16 DEF CheckKindFails
<1>17. CASE NextCandidate
  <2>1. pc = "candidate" /\ UNCHANGED links
      BY <1>17 DEF NextCandidate
  <2>2. CASE Over
    <3>1. UNCHANGED <<at, links>> /\ pc' = "create" /\ Over'
        BY <1>1, <1>17, <2>2 DEF NextCandidate, Goto, Over
    <3> QED
        BY <1>1, <1>2, <1>6, <3>1 DEF CreateInv, CreateSteps
  <2>3. CASE ~Over /\ c \notin Renderable
    <3>1. at' = at + 1 /\ pc' = "candidate" /\ at <= Len(call.candidates)
        BY <1>2, <1>17, <2>3 DEF NextCandidate, Goto, Over, Linkable, LinksInv
    <3>2. LinksInv'
        BY <1>1, <1>2, <2>1, <2>3, <3>1, Passed
    <3> QED
        BY <1>7, <3>1, <3>2
  <2>4. CASE ~Over /\ c \in Renderable
    <3>1. UNCHANGED <<at, links>> /\ pc' = "check"
        BY <1>17, <2>4 DEF NextCandidate, Goto, Over, Linkable
    <3> QED
        BY <1>8, <2>4, <3>1
  <2> QED
      BY <2>2, <2>3, <2>4
<1>18. CASE Link
  <2>1. pc = "link" /\ pc' = "candidate" /\ at' = at + 1
        /\ links' = IF c \in ToSet(links) THEN links ELSE Append(links, c)
      BY <1>5, <1>18 DEF Link, Goto
  <2>2. at <= Len(call.candidates) /\ Len(links) < MaxLinks /\ c \in Renderable
      BY <1>4, <1>5, <2>1
  <2>3. PICK d : d = c /\ d = Candidate
      BY <1>5
  <2>4. Visible(d) /\ Notes(d) # {}
      BY <1>2, <2>1, <2>3 DEF PathInv
  <2>5. (d \in ToSet(links)) <=> \E j \in 1..Len(links) : links[j] = d
      BY <1>2 DEF ToSet, LinksInv
  <2>6. CASE d \in ToSet(links)
    <3>1. links' = links
        BY <2>1, <2>3, <2>6
    <3> QED
        BY <1>1, <1>2, <1>7, <2>1, <2>2, <2>3, <2>5, <2>6, <3>1, Passed
  <2>7. CASE d \notin ToSet(links)
    <3>1. links' = Append(links, d) /\ \A j \in 1..Len(links) : links[j] # d
        BY <2>1, <2>3, <2>5, <2>7
    <3> QED
        BY <1>1, <1>2, <1>7, <2>1, <2>2, <2>3, <2>4, <3>1, LinkKeepsLinks
  <2> QED
      BY <2>6, <2>7
<1>19. CASE CreateNote
  <2>1. pc = "create" /\ pc' = "done" /\ UNCHANGED <<at, links>>
        /\ answer' = [linked |-> Len(links), skipped |-> Len(call.candidates) - Len(links),
                      links |-> links, rendered |-> Rendered]
      BY <1>19 DEF CreateNote, Answer, Goto, locals
  <2>2. Over /\ Over' /\ Rendered' = Rendered /\ ~Failed'
      BY <1>1, <2>1 DEF ReadsInv, CreateInv, Over, Rendered, Failed
  <2> QED
      BY <1>1, <1>2, <1>6, <2>1, <2>2 DEF CreateInv, CreateSteps
<1>20. CASE \/ StatNote \/ StatNoteFails \/ ReadText \/ ReadTextFails
            \/ ScanFolder \/ ScanFolderFails \/ StatFile \/ StatFileFails
            \/ ReadBlock \/ ReadBlockFails \/ Summarise
    BY <1>2, <1>20 DEF CreateSteps, StatNote, StatNoteFails, ReadText, ReadTextFails, ScanFolder,
           ScanFolderFails, StatFile, StatFileFails, ReadBlock, ReadBlockFails, Summarise
<1> QED
    BY <1>12, <1>13, <1>14, <1>15, <1>16, <1>17, <1>18, <1>19, <1>20 DEF ToolStep

-----------------------------------------------------------------------------
(* Reads: the steps of read_note.                                          *)

\* read_note has failed for a cause.
LEMMA FailureIsFaithful ==
    ASSUME call'.tool = "read_note", NEW code, answer' = [error |-> code],
           Steady(call.path)' => used'.faults > 0,
           (Visible(call.path) /\ ~Linked(call.path) /\ used.faults = 0)' =>
               \/ code \in {"NOTE_NOT_FOUND", "INTERNAL_ERROR"} /\ None \in had'[call'.path]
               \/ code = "INVALID_FILE_TYPE" /\ had'[call'.path] # Notes(call.path)'
    PROVE  ReadIsFaithful'
<1>1. Failed' /\ answer'.error = code
    BY DEF Failed
<1> QED
    BY <1>1 DEF ReadIsFaithful

LEMMA StepKeepsRead == ReadsInv /\ pc # "idle" /\ ToolStep => ReadInv'
<1> SUFFICES ASSUME ReadsInv, pc # "idle", ToolStep, call.tool = "read_note" PROVE ReadInv'
    BY ToolStepEffect DEF ReadInv, ReadsInv, ToolEffect
<1>1. ToolEffect /\ UNCHANGED <<vault, call, had>>
    BY ToolStepEffect DEF ReadsInv, ToolEffect
<1>2. VaultInv /\ PathInv /\ ReadInv /\ pc \in ReadSteps
    BY DEF ReadsInv, ReadInv
<1>3. used.faults \in Nat /\ used'.faults \in Nat /\ used'.faults >= used.faults
    BY <1>1, <1>2 DEF ToolEffect, VaultInv, IsUse
<1>4. PICK c : c = call.path /\ c = Candidate
    BY DEF Candidate
<1>5. c \in Paths
    BY <1>2, <1>4, ToolIsOne DEF VaultInv
<1>6. /\ Notes(c)' = Notes(c) /\ (Visible(c)' <=> Visible(c))
      /\ (Steady(c)' <=> Steady(c)) /\ (Linked(c)' <=> Linked(c))
    BY <1>1, <1>5, SameHistory
<1>7. vault[c] \in had[c] /\ (c \in Present <=> vault[c] # None)
    BY <1>2, <1>5 DEF VaultInv, Present
<1>8. Steady(c) => Is(c, "note") /\ c \in Present /\ Unlinked(c)
    BY <1>2, <1>5, SteadyIsThere
\* What is left to show, by where the step goes.
<1>9. ASSUME pc' \in {"resolve", "kind", "stat"} PROVE ReadInv'
    BY <1>1, <1>9 DEF ReadInv, ReadSteps, ReadIsFaithful, Answers
<1>10. ASSUME NEW code, answer' = [error |-> code], pc' = "done",
              Steady(c) => used'.faults > 0,
              Visible(c) /\ ~Linked(c) /\ used'.faults = 0 =>
                  \/ code \in {"NOTE_NOT_FOUND", "INTERNAL_ERROR"} /\ None \in had[c]
                  \/ code = "INVALID_FILE_TYPE" /\ had[c] # Notes(c)
       PROVE  ReadInv'
  <2>1. call'.tool = "read_note" /\ call'.path = c /\ had' = had
      BY <1>1, <1>4
  <2>2. Steady(call.path)' => used'.faults > 0
      BY <1>6, <1>10, <2>1
  <2>3. (Visible(call.path) /\ ~Linked(call.path) /\ used.faults = 0)' =>
           \/ code \in {"NOTE_NOT_FOUND", "INTERNAL_ERROR"} /\ None \in had'[call'.path]
           \/ code = "INVALID_FILE_TYPE" /\ had'[call'.path] # Notes(call.path)'
      BY <1>6, <1>10, <2>1
  <2>4. ReadIsFaithful'
      BY <1>10, <2>1, <2>2, <2>3, FailureIsFaithful
  <2> QED
      BY <1>1, <1>10, <2>4 DEF ReadInv, ReadSteps
<1>11. ASSUME Raised PROVE ReadInv'
  <2>1. pc' = "done" /\ answer' = [error |-> "INTERNAL_ERROR"] /\ used'.faults > 0
    <3>1. used'.faults = used.faults + 1
        BY <1>2, <1>11, FaultCounts DEF Raised, VaultInv
    <3> QED
        BY <1>3, <1>11, <3>1 DEF Raised, Answer, Goto
  <2> QED
      BY <1>10, <2>1
<1>12. \A code : Refused(code) => pc' = "done" /\ answer' = [error |-> code]
    BY DEF Refused, Answer, Goto
<1>13. CASE CheckPath
  <2>1. \/ \E code : Refused(code) /\ Above[c] \intersect Hidden # {}
        \/ \E code : Refused(code) /\ c \notin Markdown
        \/ \E code : Refused(code) /\ \E q \in Above[c] : Is(q, "symlink")
        \/ pc' = "resolve"
      BY <1>4, <1>13 DEF CheckPath, Goto
  <2>2. (\E q \in Above[c] : Is(q, "symlink")) => Linked(c)
      BY <1>2, <1>5, Components DEF Linked, Is, Present, VaultInv
  <2>3. \A code : Refused(code) /\ (\/ Above[c] \intersect Hidden # {}
                                    \/ c \notin Markdown
                                    \/ \E q \in Above[c] : Is(q, "symlink")) => ReadInv'
      BY <1>10, <1>12, <2>2 DEF Steady, Visible
  <2> QED
      BY <1>9, <2>1, <2>3
<1>14. CASE ResolveStrict
  <2>1. (Refused("NOTE_NOT_FOUND") /\ c \notin Present) \/ pc' = "kind"
      BY <1>4, <1>14 DEF ResolveStrict, Goto
  <2> QED
      BY <1>7, <1>8, <1>9, <1>10, <1>12, <2>1
<1>15. CASE ResolveFails
  <2>1. used'.faults = used.faults + 1
      BY <1>2, <1>15, FaultCounts DEF ResolveFails, VaultInv
  <2>2. used'.faults > 0
      BY <1>3, <2>1
  <2> QED
      BY <1>10, <1>12, <1>15, <2>2 DEF ResolveFails
<1>16. CASE CheckKind
  <2>1. \/ Refused("INTERNAL_ERROR") /\ c \notin Present
        \/ Refused("INVALID_FILE_TYPE") /\ c \in Present /\ ~Is(c, "note")
        \/ pc' = "stat"
      BY <1>4, <1>16 DEF CheckKind, Gone, Goto
  <2>2. c \in Present /\ ~Is(c, "note") => had[c] # Notes(c)
      BY <1>7 DEF Is, Notes
  <2>3. Refused("INVALID_FILE_TYPE") /\ c \in Present /\ ~Is(c, "note") => ReadInv'
      BY <1>8, <1>10, <1>12, <2>2
  <2> QED
      BY <1>7, <1>8, <1>9, <1>10, <1>12, <2>1, <2>3
<1>17. CASE CheckKindFails \/ StatNoteFails \/ ReadTextFails
    BY <1>11, <1>17 DEF CheckKindFails, StatNoteFails, ReadTextFails
<1>18. CASE StatNote
  <2>1. \/ Refused("INTERNAL_ERROR") /\ c \notin Present
        \/ c \in Present /\ stat' = vault[c] /\ pc' = "read"
      BY <1>4, <1>18 DEF StatNote, Gone, Goto
  <2>2. pc = "stat"
      BY <1>18 DEF StatNote
  <2>3. c \in Present => vault[c] \in Notes(c)
      BY <1>2, <1>4, <1>7, <2>2 DEF PathInv, Plain, Is, Notes
  <2>4. ASSUME c \in Present, stat' = vault[c], pc' = "read" PROVE ReadInv'
    <3>1. stat' \in Notes(c)' /\ call'.path = c
        BY <1>1, <1>4, <1>6, <2>3, <2>4
    <3> QED
        BY <1>1, <2>4, <3>1 DEF ReadInv, ReadSteps, ReadIsFaithful, Answers
  <2> QED
      BY <1>7, <1>8, <1>10, <1>12, <2>1, <2>4
<1>19. CASE ReadText
  <2>1. pc = "read" /\ stat \in Notes(c) /\ Plain(c)
      BY <1>2, <1>4, <1>19 DEF ReadText, ReadInv, PathInv
  <2>2. CASE ~Is(c, "note")
    <3>1. Refused("INTERNAL_ERROR") /\ c \notin Present
        BY <1>4, <1>19, <2>1, <2>2 DEF ReadText, Gone, Plain
    <3> QED
        BY <1>7, <1>8, <1>10, <1>12, <3>1
  <2>3. CASE Is(c, "note")
    <3> DEFINE truncated == stat.size > MaxNoteBytes
               read == BytesRead(truncated, vault[c].size)
    <3>1. /\ pc' = "done"
          /\ answer' = [frontmatter |-> Frontmatter(vault[c], read), of |-> vault[c],
                        from |-> BodyStart(vault[c], read), to |-> read,
                        truncated |-> truncated, modified_at |-> stat.mtime]
        BY <1>4, <1>19, <2>3 DEF ReadText, Answer, Goto
    <3> HIDE DEF read, truncated
    <3>2. PICK note : note = vault[c]
        OBVIOUS
    <3>3. note \in Notes(c) /\ IsNote(note) /\ IsNote(stat)
        BY <1>2, <1>5, <1>7, <2>1, <2>3, <3>2 DEF VaultInv, Is, Notes
    <3>4. ConversionIsFaithful => Converted(note.heap) = Expected(note.heap)
        BY <1>2, <1>5, <3>3 DEF ConversionIsFaithful, VaultInv, Notes
    <3>5. IF truncated THEN read = Min({MaxNoteBytes, note.size}) ELSE read = note.size
        BY <3>2 DEF read, BytesRead
    <3>6. IF truncated THEN stat.size > MaxNoteBytes ELSE stat.size <= MaxNoteBytes
        BY <3>3, ReadsAssumption DEF truncated, IsNote
    <3>7. /\ BodyStart(note, read) \in {0, note.front}
          /\ BodyStart(note, read) = 0 => note.front \notin 1..read
          /\ BodyStart(note, read) # 0 => BodyStart(note, read) > 0
        BY <3>3 DEF BodyStart, IsNote
    <3>8. ConversionIsFaithful =>
            Frontmatter(note, read) = IF BodyStart(note, read) > 0 THEN Expected(note.heap) ELSE <<>>
        BY <3>4, <3>7 DEF Frontmatter
    <3>9. PICK a : a = answer'
        OBVIOUS
    <3>10. /\ "error" \notin DOMAIN a /\ a.of = note /\ a.to = read /\ a.truncated = truncated
           /\ a.from = BodyStart(note, read) /\ a.modified_at = stat.mtime
           /\ a.frontmatter = Frontmatter(note, read)
        BY <3>1, <3>2, <3>9
    <3>11. call'.path = c /\ call'.tool = "read_note" /\ ~Failed' /\ answer' = a
        BY <1>1, <1>4, <3>9, <3>10 DEF Failed
    <3>12. ASSUME ConversionIsFaithful PROVE ReadIsFaithful'
      <4>1. note \in Notes(c)' /\ stat \in Notes(c)'
          BY <1>6, <2>1, <3>3
      <4>2. IF a.truncated
              THEN a.to = Min({MaxNoteBytes, note.size}) /\ \E n \in Notes(c)' : n.size > MaxNoteBytes
              ELSE a.to = note.size /\ \E n \in Notes(c)' : n.size <= MaxNoteBytes
          BY <3>5, <3>6, <3>10, <4>1
      <4>3. /\ a.from \in {0, note.front}
            /\ a.frontmatter = (IF a.from > 0 THEN Expected(note.heap) ELSE <<>>)
            /\ a.from = 0 => note.front \notin 1..a.to
          BY <3>7, <3>8, <3>10, <3>12
      <4>4. \E n \in Notes(c)' : a.modified_at = n.mtime
          BY <3>10, <4>1
      <4> QED
          BY <3>10, <3>11, <4>1, <4>2, <4>3, <4>4 DEF ReadIsFaithful
    <3> QED
        BY <1>1, <3>1, <3>12 DEF ReadInv, ReadSteps
  <2> QED
      BY <2>2, <2>3
<1>20. CASE \/ NextCandidate \/ Link \/ CreateNote
            \/ ScanFolder \/ ScanFolderFails \/ StatFile \/ StatFileFails
            \/ ReadBlock \/ ReadBlockFails \/ Summarise
    BY <1>2, <1>20 DEF ReadSteps, NextCandidate, Link, CreateNote, ScanFolder,
           ScanFolderFails, StatFile, StatFileFails, ReadBlock, ReadBlockFails, Summarise
<1> QED
    BY <1>13, <1>14, <1>15, <1>16, <1>17, <1>18, <1>19, <1>20 DEF ToolStep

-----------------------------------------------------------------------------
(* Reads: the theorems.                                                    *)

LEMMA StepKeepsReads == ReadsInv /\ pc # "idle" /\ ToolStep => ReadsInv'
<1> SUFFICES ASSUME ReadsInv, pc # "idle", ToolStep PROVE ReadsInv'
    OBVIOUS
<1>1. ToolEffect /\ VaultInv'
    BY ToolStepEffect, ToolKeepsVault DEF ReadsInv
<1>2. call.tool = "summary" => pc' \in SummarySteps
    BY DEF ReadsInv, SummarySteps, ToolStep, CheckPath, ResolveStrict, ResolveFails, CheckKind,
           CheckKindFails, StatNote, StatNoteFails, ReadText, ReadTextFails, NextCandidate, Link,
           CreateNote, ScanFolder, ScanFolderFails, StatFile, StatFileFails, ReadBlock,
           ReadBlockFails, Summarise, PassOver, Goto, Answer
<1> QED
    BY <1>1, <1>2, StepKeepsPath, StepKeepsCreate, StepKeepsRead DEF ReadsInv, ToolEffect

LEMMA HostKeepsReads == ReadsInv /\ pc \notin {"idle", "done"} /\ HostChange => ReadsInv'
<1> SUFFICES ASSUME ReadsInv, pc \notin {"idle", "done"}, HostChange PROVE ReadsInv'
    OBVIOUS
<1>1. HostEffect /\ VaultInv' /\ PathInv'
    BY HostChangeEffect, HostKeepsPath DEF ReadsInv
<1>2. UNCHANGED <<call, pc, answer, at, links, stat>> /\ used'.faults = used.faults
      /\ used.faults \in Nat
    BY <1>1 DEF HostEffect, ReadsInv, VaultInv, IsUse
<1>3. CreateInv'
  <2> SUFFICES ASSUME call.tool = "create" PROVE CreateInv'
      BY <1>2 DEF CreateInv
  <2>1. LinksInv'
      BY <1>1, <1>2, LinksStay DEF HostEffect, ReadsInv, CreateInv
  <2>2. Candidate' = Candidate /\ (Over' <=> Over)
      BY <1>2 DEF Candidate, Over
  <2> QED
      BY <1>2, <2>1, <2>2 DEF ReadsInv, CreateInv
<1>4. ReadInv'
  <2> SUFFICES ASSUME call.tool = "read_note" PROVE ReadInv'
      BY <1>2 DEF ReadInv
  <2>1. PICK c : c = call.path
      OBVIOUS
  <2>2. c \in Paths
      BY <2>1, ToolIsOne DEF ReadsInv, VaultInv
  <2>3. Notes(c) \subseteq Notes(c)' /\ call'.path = c
      BY <1>1, <1>2, <2>1, <2>2 DEF HostEffect
  <2>4. pc = "read" => stat' \in Notes(c)'
      BY <1>2, <2>1, <2>3 DEF ReadsInv, ReadInv
  <2> QED
      BY <1>2, <2>3, <2>4 DEF ReadsInv, ReadInv, ReadIsFaithful, Answers
<1> QED
    BY <1>1, <1>2, <1>3, <1>4 DEF ReadsInv

LEMMA CallKeepsReads == ReadsInv /\ Call => ReadsInv'
<1> SUFFICES ASSUME ReadsInv, Call PROVE ReadsInv'
    OBVIOUS
<1>1. ToolEffect /\ UNCHANGED <<vault, call, had, at, links>> /\ used' = used
    BY DEF Call, StartTool, Answer, Goto, locals, ReadsInv, VaultInv, IsUse, ToolEffect
<1>2. VaultInv'
    BY <1>1, ToolKeepsVault DEF ReadsInv
<1>3. CASE LimitRefused
  <2>1. call'.tool = "summary" /\ pc' = "done"
      BY <1>1, <1>3 DEF Call, LimitRefused, Answer, Goto
  <2> QED
      BY <1>2, <2>1 DEF ReadsInv, PathInv, CreateInv, ReadInv, SummarySteps
<1>4. CASE ~LimitRefused
  <2>1. pc = "idle" /\ pc' = StartOf[call.tool]
      BY <1>4 DEF Call, StartTool, Goto
  <2>2. CASE call.tool = "read_note"
    <3>1. pc' = "check" /\ Candidate' \in Paths /\ call'.tool = "read_note"
        BY <1>1, <2>1, <2>2, ToolIsOne DEF StartOf, Candidate, ReadsInv, VaultInv
    <3> QED
        BY <1>2, <3>1 DEF ReadsInv, PathInv, CreateInv, ReadInv, ReadSteps, ReadIsFaithful, Answers
  <2>3. CASE call.tool = "create"
    <3>1. pc' = "candidate" /\ call'.tool = "create"
        BY <1>1, <2>1, <2>3 DEF StartOf
    <3>2. LinksInv' /\ call'.candidates \in Seq(Paths)
        BY <1>1, <2>3, ToolKeepsLinks DEF ReadsInv, CreateInv
    <3> QED
        BY <1>2, <3>1, <3>2 DEF ReadsInv, PathInv, CreateInv, ReadInv, CreateSteps
  <2>4. CASE call.tool = "summary"
    <3>1. pc' = "walk" /\ call'.tool = "summary"
        BY <1>1, <2>1, <2>4 DEF StartOf
    <3> QED
        BY <1>2, <3>1 DEF ReadsInv, PathInv, CreateInv, ReadInv, SummarySteps
  <2> QED
      BY <2>2, <2>3, <2>4, ToolIsOne DEF ReadsInv, VaultInv
<1> QED
    BY <1>3, <1>4

LEMMA InitReadsInv == Init => ReadsInv
<1> SUFFICES ASSUME Init PROVE ReadsInv
    OBVIOUS
<1>1. PICK s \in Starts : call = s.call /\ vault = s.vault /\ used = s.used
    BY DEF Init
<1>2. pc = "idle" /\ at = 1 /\ links = <<>> /\ had = [p \in Paths |-> {vault[p]}]
    BY DEF Init, InitReads
<1>3. IsCall(call) /\ IsVault(vault)
      /\ used \in [host : Nat, faults : Nat, blind : SUBSET (Paths \union {Root})]
    BY <1>1, StartsAssumption
<1>4. IsUse(used)
    BY <1>3 DEF IsUse
<1>5. \A p \in Paths : had[p] = {vault[p]} /\ vault[p] \in Found
    BY <1>1, <1>2 DEF Found
<1>6. \A p \in Paths : \A e \in Notes(p) : IsNote(e)
    BY <1>3, <1>5 DEF Notes, IsVault
<1>7. VaultInv
    BY <1>2, <1>3, <1>4, <1>5, <1>6 DEF VaultInv
<1>8. ASSUME call.tool = "create" PROVE CreateInv
  <2>1. call.candidates \in Seq(Paths)
      BY <1>3, <1>8, ToolIsOne
  <2>2. Len(links) = 0 /\ links \in Seq(Paths) /\ 1..0 = {} /\ at - 1 = 0
      BY <1>2
  <2>3. Placed
    <3>1. [k \in {} |-> 1] \in [{} -> {}]
        OBVIOUS
    <3> QED
        BY <2>2, <3>1 DEF Placed
  <2>4. 0 <= MaxLinks /\ 0 <= Len(call.candidates)
      BY <2>1, ReadsAssumption
  <2>5. LinksInv
      BY <1>2, <2>2, <2>3, <2>4 DEF LinksInv, Verified, NonePassedOver
  <2> QED
      BY <1>2, <2>1, <2>5 DEF CreateInv, CreateSteps
<1> QED
    BY <1>2, <1>7, <1>8 DEF ReadsInv, PathInv, CreateInv, ReadInv, ReadSteps, SummarySteps,
           ReadIsFaithful, Answers

LEMMA RestKeepsReads == ReadsInv /\ UNCHANGED readVars => ReadsInv'
<1> SUFFICES ASSUME ReadsInv, UNCHANGED readVars PROVE ReadsInv'
    OBVIOUS
<1>1. /\ UNCHANGED <<vault, call, pc, at, links, stat, answer, had, used>>
      /\ Candidate' = Candidate /\ (Over' <=> Over) /\ (Failed' <=> Failed)
      /\ Rendered' = Rendered
    BY DEF readVars, Candidate, Over, Failed, Rendered
<1>2. ToolEffect
    BY <1>1 DEF ToolEffect, ReadsInv, VaultInv, IsUse
<1>3. VaultInv'
    BY <1>2, ToolKeepsVault DEF ReadsInv
<1>4. PathInv'
    BY <1>1 DEF ReadsInv, PathInv, Candidate, Unlinked, Visible, Notes, Plain, Is, Present
<1>5. CreateInv'
    BY <1>1, <1>2, ToolKeepsLinks DEF ReadsInv, CreateInv
<1>6. ReadIsFaithful => ReadIsFaithful'
    BY <1>1 DEF ReadIsFaithful, Answers, Failed, Steady, Visible, Linked, Notes
<1>7. ReadInv'
    BY <1>1, <1>6 DEF ReadsInv, ReadInv, Notes
<1> QED
    BY <1>1, <1>3, <1>4, <1>5, <1>7 DEF ReadsInv

LEMMA ReadsInvariance == Spec => []ReadsInv
<1>1. ReadsInv /\ [Next]_vars => ReadsInv'
  <2> SUFFICES ASSUME ReadsInv, [Next]_vars PROVE ReadsInv'
      OBVIOUS
  <2>1. CASE UNCHANGED readVars
      BY <2>1, RestKeepsReads
  <2>2. CASE Call
      BY <2>2, CallKeepsReads
  <2>3. CASE Tool
      BY <2>3, StepKeepsReads DEF Tool
  <2>4. CASE Host
      BY <2>4, HostKeepsReads DEF Host
  <2> QED
      BY <2>1, <2>2, <2>3, <2>4 DEF Next, Return, vars
<1> QED
    BY <1>1, InitReadsInv, PTL DEF Spec

LEMMA InvGivesLinks == ReadsInv => LinksAreVerified
<1> SUFFICES ASSUME ReadsInv, pc = "done", call.tool = "create" PROVE LinksAreVerified
    BY DEF LinksAreVerified, Answers
<1>1. CASE Failed
    BY <1>1 DEF LinksAreVerified, ReadsInv, CreateInv
<1>2. CASE ~Failed
  <2>1. /\ LinksInv /\ Over /\ call.candidates \in Seq(Paths)
        /\ answer = [linked |-> Len(links), skipped |-> Len(call.candidates) - Len(links),
                     links |-> links, rendered |-> Rendered]
      BY <1>2 DEF ReadsInv, CreateInv
  <2>2. answer.linked = Len(links) /\ answer.rendered = Len(links) /\ answer.links = links
        /\ answer.linked + answer.skipped = Len(call.candidates)
      BY <2>1, AllRendered DEF LinksInv
  <2>3. InOrder(links, call.candidates)
    <3>1. PICK place \in [1..Len(links) -> 1..(at - 1)] :
            /\ \A k \in 1..Len(links) : links[k] = call.candidates[place[k]]
            /\ \A j, k \in 1..Len(links) : j < k => place[j] < place[k]
        BY <2>1 DEF LinksInv, Placed
    <3>2. 1..(at - 1) \subseteq 1..Len(call.candidates)
        BY <2>1 DEF LinksInv
    <3>3. place \in [1..Len(links) -> 1..Len(call.candidates)]
        BY <3>2
    <3> QED
        BY <3>1, <3>3 DEF InOrder
  <2>4. ASSUME Len(links) # MaxLinks, ~(used.faults > 0),
               NEW p \in ToSet(call.candidates), Steady(p), p \in Renderable
        PROVE  p \in ToSet(links)
    <3>1. at > Len(call.candidates)
        BY <2>1, <2>4, ReadsAssumption DEF Over, LinksInv
    <3>2. PICK k \in 1..Len(call.candidates) : call.candidates[k] = p
        BY <2>1, <2>4 DEF ToSet
    <3>3. k \in 1..(at - 1)
        BY <2>1, <3>1 DEF LinksInv
    <3>4. \E j \in 1..Len(links) : links[j] = p
        BY <2>1, <2>4, <3>2, <3>3 DEF LinksInv, NonePassedOver
    <3> QED
        BY <2>1, <3>4 DEF ToSet, LinksInv
  <2>5. /\ \A k \in 1..Len(links) : Visible(links[k]) /\ Notes(links[k]) # {}
        /\ \A j, k \in 1..Len(links) : j < k => links[j] # links[k]
      BY <2>1 DEF LinksInv, Verified
  <2> QED
      BY <1>2, <2>2, <2>3, <2>4, <2>5 DEF LinksAreVerified
<1> QED
    BY <1>1, <1>2

\* Whatever the vault, the candidates and the cap, and whatever the host does
\* meanwhile: related notes fail a note only with the disk, each link was
\* verified, comes once and in the client's order, and no good candidate is
\* left out but for the cap or the disk (related_notes.resolve_related_notes).
THEOREM LinksHold == Spec => []LinksAreVerified
BY ReadsInvariance, InvGivesLinks, PTL

\* Whatever the vault and the limits, and whatever the host does meanwhile:
\* read_note tells the truth about one note that was there, and fails for a
\* cause.  That to_json_safe gives what is expected of each heap there is, is
\* a hypothesis (note_service.read_note, markdown_parser.read_note_text).
THEOREM ReadsHold == ConversionIsFaithful => (Spec => []ReadIsFaithful)
<1> SUFFICES ASSUME ConversionIsFaithful PROVE Spec => []ReadIsFaithful
    OBVIOUS
<1>1. ReadsInv => ReadIsFaithful
    BY ToolIsOne DEF ReadsInv, ReadInv, ReadIsFaithful, Answers
<1> QED
    BY <1>1, ReadsInvariance, PTL

-----------------------------------------------------------------------------
(* The walk of the summary: where a path can still come from.              *)

\* What is below a folder, at any depth.
Below(folder) == {p \in Paths : folder = Root \/ folder \in Above[p] \ {p}}

\* The way down to a path goes through one child of the folder.
LEMMA WayDown ==
    ASSUME NEW f \in Paths \union {Root}, NEW p \in Below(f)
    PROVE  \E c \in Above[p] : c \in Paths /\ Parent[c] = f /\ (c = p \/ p \in Below(c))
<1>1. p \in Paths /\ f \in (Above[p] \ {p}) \union {Root}
    BY DEF Below
<1>2. PICK c \in Above[p] : Parent[c] = f
    BY <1>1, ReadsAssumption
<1> QED
    BY <1>1, <1>2, Components DEF Below

LEMMA ChildIsBelow ==
    ASSUME NEW f \in Paths \union {Root}, NEW c \in Paths, Parent[c] = f, NEW p, p = c \/ p \in Below(c)
    PROVE  p \in Below(f) /\ c \in Above[p] /\ c \notin Below(c)
<1>0. c # Root /\ c \notin Below(c)
    BY ReadsAssumption DEF Below
<1>1. p \in Paths /\ c \in Above[p] /\ Above[c] \subseteq Above[p]
  <2>1. p \in Paths /\ c \in Above[p]
      BY <1>0, Components DEF Below
  <2> QED
      BY <2>1, Components
<1>2. CASE f = Root
    BY <1>0, <1>1, <1>2 DEF Below
<1>3. CASE f # Root
  <2>1. f \in Paths /\ c \notin Above[f] /\ Above[c] = {c} \union Above[f]
      BY <1>3, ReadsAssumption
  <2>2. f \in Above[p] /\ f # p
      BY <1>1, <2>1, Components
  <2> QED
      BY <1>0, <1>1, <2>2 DEF Below
<1> QED
    BY <1>2, <1>3

LEMMA SiblingsApart ==
    ASSUME NEW c \in Paths, NEW d \in Paths, Parent[c] = Parent[d], c # d
    PROVE  c \notin Below(d) /\ Below(c) \intersect Below(d) = {}
<1>1. c # Root /\ d # Root
    BY ReadsAssumption
<1>2. ASSUME NEW p \in Paths, c \in Above[p], d \in Above[p] PROVE FALSE
    BY <1>2, ReadsAssumption
<1>3. c \in Above[c]
    BY Components
<1> QED
    BY <1>1, <1>2, <1>3 DEF Below

-----------------------------------------------------------------------------
\* The notes fs of the folder at hand and the folders ws have nothing in common.
Queue(fs, ws) ==
    /\ fs \in Seq(Paths) /\ ws \in Seq(Paths \union {Root})
    /\ \A j, k \in 1..Len(fs) : fs[j] = fs[k] => j = k
    /\ \A i, j \in 1..Len(ws) : i # j => Below(ws[i]) \intersect Below(ws[j]) = {}
    /\ \A k \in 1..Len(fs) : \A i \in 1..Len(ws) : fs[k] \notin Below(ws[i])

Pending(fs, ws) ==
    {p \in Paths : \/ \E k \in 1..Len(fs) : fs[k] = p
                   \/ \E i \in 1..Len(ws) : p \in Below(ws[i])}

LEMMA PopKeepsQueue ==
    ASSUME NEW fs, NEW ws, Queue(fs, ws), fs # <<>>
    PROVE  /\ Queue(Tail(fs), ws) /\ Head(fs) = fs[1] /\ fs[1] \in Pending(fs, ws)
           /\ Pending(Tail(fs), ws) = Pending(fs, ws) \ {fs[1]}
<1> PICK t : t = Tail(fs)
    OBVIOUS
<1>1. /\ t \in Seq(Paths) /\ Len(t) = Len(fs) - 1 /\ Len(fs) \in Nat \ {0}
      /\ Head(fs) = fs[1] /\ fs[1] \in Paths
      /\ \A k \in 1..Len(t) : k + 1 \in 1..Len(fs) /\ t[k] = fs[k + 1]
      /\ \A k \in 1..Len(fs) : k = 1 \/ (k - 1 \in 1..Len(t) /\ fs[k] = t[k - 1])
    BY TailIs DEF Queue
<1>2. 1 \in 1..Len(fs)
    BY <1>1
<1>3. \A j, k \in 1..Len(t) : t[j] = t[k] => j = k
  <2> SUFFICES ASSUME NEW j \in 1..Len(t), NEW k \in 1..Len(t), t[j] = t[k] PROVE j = k
      OBVIOUS
  <2>1. j + 1 = k + 1
      BY <1>1 DEF Queue
  <2> QED
      BY <2>1
<1>4. \A k \in 1..Len(t) : t[k] # fs[1]
  <2> SUFFICES ASSUME NEW k \in 1..Len(t), t[k] = fs[1] PROVE FALSE
      OBVIOUS
  <2>1. k + 1 = 1
      BY <1>1, <1>2 DEF Queue
  <2> QED
      BY <2>1
<1>5. Queue(t, ws)
    BY <1>1, <1>3 DEF Queue
<1>6. \A p : (\E k \in 1..Len(t) : t[k] = p) <=> p # fs[1] /\ \E k \in 1..Len(fs) : fs[k] = p
  <2> TAKE p
  <2>1. ASSUME NEW k \in 1..Len(t), t[k] = p PROVE p # fs[1] /\ \E j \in 1..Len(fs) : fs[j] = p
    <3>1. k + 1 \in 1..Len(fs) /\ fs[k + 1] = p
        BY <1>1, <2>1
    <3> QED
        BY <1>4, <2>1, <3>1
  <2>2. ASSUME NEW k \in 1..Len(fs), fs[k] = p, p # fs[1] PROVE \E j \in 1..Len(t) : t[j] = p
    <3>1. k - 1 \in 1..Len(t) /\ t[k - 1] = p
        BY <1>1, <2>2
    <3> QED
        BY <3>1
  <2> QED
      BY <2>1, <2>2
<1>7. \A i \in 1..Len(ws) : fs[1] \notin Below(ws[i])
    BY <1>2 DEF Queue
<1>8. Pending(t, ws) = Pending(fs, ws) \ {fs[1]}
  <2>1. ASSUME NEW p \in Paths PROVE p \in Pending(t, ws) <=> p \in Pending(fs, ws) /\ p # fs[1]
    <3>1. (\E i \in 1..Len(ws) : p \in Below(ws[i])) => p # fs[1]
        BY <1>7
    <3>2. (\E k \in 1..Len(t) : t[k] = p) <=> p # fs[1] /\ \E k \in 1..Len(fs) : fs[k] = p
        BY <1>6
    <3> QED
        BY <3>1, <3>2, Zenon DEF Pending
  <2>2. Pending(t, ws) \subseteq Paths /\ Pending(fs, ws) \subseteq Paths
      BY DEF Pending
  <2> QED
      BY <2>1, <2>2
<1> QED
    BY <1>1, <1>2, <1>5, <1>8 DEF Pending

\* A folder gives way to what was found in it.
LEMMA ScanKeepsQueue ==
    ASSUME NEW ws, Queue(<<>>, ws), ws # <<>>, NEW N, NEW fs, Enumerates(fs, N), NEW D, NEW ds, Enumerates(ds, D),
           N \union D \subseteq {p \in Paths : Parent[p] = Head(ws)}, N \intersect D = {}
    PROVE  /\ Queue(fs, ds \o Tail(ws)) /\ Pending(fs, ds \o Tail(ws)) \subseteq Pending(<<>>, ws)
           /\ \A p \in Paths : p \in Pending(fs, ds \o Tail(ws)) <=>
                \/ p \in N \/ \E d \in D : p \in Below(d)
                \/ p \in Pending(<<>>, ws) /\ p \notin Below(Head(ws))
<1> PICK F, t : F = Head(ws) /\ t = Tail(ws)
    OBVIOUS
<1>1. /\ t \in Seq(Paths \union {Root}) /\ Len(t) = Len(ws) - 1 /\ Len(ws) \in Nat \ {0}
      /\ F = ws[1] /\ F \in Paths \union {Root}
      /\ \A k \in 1..Len(t) : k + 1 \in 1..Len(ws) /\ t[k] = ws[k + 1]
      /\ \A k \in 1..Len(ws) : k = 1 \/ (k - 1 \in 1..Len(t) /\ ws[k] = t[k - 1])
    BY TailIs DEF Queue
<1>2. \A i \in 1..Len(t) : Below(t[i]) \intersect Below(F) = {}
  <2> SUFFICES ASSUME NEW i \in 1..Len(t) PROVE Below(t[i]) \intersect Below(F) = {}
      OBVIOUS
  <2>1. i + 1 \in 1..Len(ws) /\ 1 \in 1..Len(ws) /\ i + 1 # 1 /\ t[i] = ws[i + 1]
      BY <1>1
  <2> QED
      BY <1>1, <2>1 DEF Queue
<1>3. \A i, j \in 1..Len(t) : i # j => Below(t[i]) \intersect Below(t[j]) = {}
  <2> SUFFICES ASSUME NEW i \in 1..Len(t), NEW j \in 1..Len(t), i # j
               PROVE  Below(t[i]) \intersect Below(t[j]) = {}
      OBVIOUS
  <2>1. i + 1 \in 1..Len(ws) /\ j + 1 \in 1..Len(ws) /\ i + 1 # j + 1 /\ t[i] = ws[i + 1] /\ t[j] = ws[j + 1]
      BY <1>1
  <2> QED
      BY <2>1 DEF Queue
<1>4. /\ fs \in Seq(Paths) /\ \A k \in 1..Len(fs) : fs[k] \in N
      /\ ds \in Seq(Paths \union {Root}) /\ \A k \in 1..Len(ds) : ds[k] \in D
      /\ Len(ds) \in Nat /\ Len(t) \in Nat
  <2>1. fs \in Seq(N) /\ ds \in Seq(D)
      BY DEF Enumerates
  <2>2. N \subseteq Paths /\ D \subseteq Paths \union {Root}
      OBVIOUS
  <2>3. Seq(N) \subseteq Seq(Paths) /\ Seq(D) \subseteq Seq(Paths \union {Root})
      BY <2>2
  <2> QED
      BY <1>1, <2>1, <2>3, ElementOfSeq, LenProperties
<1>5. \A c \in N \union D : c \in Paths /\ Parent[c] = F
    OBVIOUS
<1>6. \A c \in N \union D : \A p : p = c \/ p \in Below(c) => p \in Below(F)
    BY <1>1, <1>5, ChildIsBelow
<1>7. \A c, d \in N \union D : c # d => c \notin Below(d) /\ Below(c) \intersect Below(d) = {}
    BY <1>5, SiblingsApart
<1> PICK w : w = ds \o t
    OBVIOUS
<1>8. /\ w \in Seq(Paths \union {Root}) /\ Len(w) = Len(ds) + Len(t)
      /\ \A i \in 1..Len(ds) : i \in 1..Len(w) /\ w[i] = ds[i]
      /\ \A i \in 1..Len(t) : Len(ds) + i \in 1..Len(w) /\ w[Len(ds) + i] = t[i]
    BY <1>1, <1>4, ConcatProperties
<1>9. \A i \in 1..Len(w) : i \in 1..Len(ds) \/ (i - Len(ds) \in 1..Len(t) /\ w[i] = t[i - Len(ds)] /\ i > Len(ds))
  <2> SUFFICES ASSUME NEW i \in 1..Len(w), i \notin 1..Len(ds)
               PROVE  i - Len(ds) \in 1..Len(t) /\ w[i] = t[i - Len(ds)] /\ i > Len(ds)
      OBVIOUS
  <2>1. i - Len(ds) \in 1..Len(t) /\ Len(ds) + (i - Len(ds)) = i /\ i > Len(ds)
      BY <1>4, <1>8
  <2> QED
      BY <1>8, <2>1
<1>10. \A i, j \in 1..Len(w) : i # j => Below(w[i]) \intersect Below(w[j]) = {}
  <2> SUFFICES ASSUME NEW i \in 1..Len(w), NEW j \in 1..Len(w), i # j
               PROVE  Below(w[i]) \intersect Below(w[j]) = {}
      OBVIOUS
  <2>1. CASE i \in 1..Len(ds) /\ j \in 1..Len(ds)
    <3>1. w[i] = ds[i] /\ w[j] = ds[j] /\ ds[i] # ds[j] /\ ds[i] \in D /\ ds[j] \in D
        BY <1>4, <1>8, <2>1 DEF Enumerates
    <3> QED
        BY <1>7, <3>1
  <2>2. CASE i \in 1..Len(ds) /\ j \notin 1..Len(ds)
    <3>1. w[i] \in D /\ j - Len(ds) \in 1..Len(t) /\ w[j] = t[j - Len(ds)]
        BY <1>4, <1>8, <1>9, <2>2
    <3> QED
        BY <1>2, <1>6, <3>1
  <2>3. CASE i \notin 1..Len(ds) /\ j \in 1..Len(ds)
    <3>1. w[j] \in D /\ i - Len(ds) \in 1..Len(t) /\ w[i] = t[i - Len(ds)]
        BY <1>4, <1>8, <1>9, <2>3
    <3> QED
        BY <1>2, <1>6, <3>1
  <2>4. CASE i \notin 1..Len(ds) /\ j \notin 1..Len(ds)
    <3>1. i - Len(ds) \in 1..Len(t) /\ w[i] = t[i - Len(ds)] /\ j - Len(ds) \in 1..Len(t) /\ w[j] = t[j - Len(ds)]
        BY <1>9, <2>4
    <3>2. i - Len(ds) # j - Len(ds)
        BY <1>4
    <3> QED
        BY <1>3, <3>1, <3>2
  <2> QED
      BY <2>1, <2>2, <2>3, <2>4
<1>11. \A k \in 1..Len(fs) : \A i \in 1..Len(w) : fs[k] \notin Below(w[i])
  <2> SUFFICES ASSUME NEW k \in 1..Len(fs), NEW i \in 1..Len(w) PROVE fs[k] \notin Below(w[i])
      OBVIOUS
  <2>1. CASE i \in 1..Len(ds)
    <3>1. w[i] \in D /\ fs[k] \in N /\ w[i] # fs[k]
        BY <1>4, <1>8, <2>1
    <3> QED
        BY <1>7, <3>1
  <2>2. CASE i \notin 1..Len(ds)
    <3>1. i - Len(ds) \in 1..Len(t) /\ w[i] = t[i - Len(ds)] /\ fs[k] \in N
        BY <1>4, <1>9, <2>2
    <3> QED
        BY <1>2, <1>6, <3>1
  <2> QED
      BY <2>1, <2>2
<1>12. Queue(fs, w)
    BY <1>4, <1>8, <1>10, <1>11 DEF Queue, Enumerates
<1>13. \A p : (\E i \in 1..Len(w) : p \in Below(w[i])) <=>
                (\E d \in D : p \in Below(d)) \/ \E i \in 1..Len(t) : p \in Below(t[i])
  <2> SUFFICES ASSUME NEW p
               PROVE  /\ (\E i \in 1..Len(w) : p \in Below(w[i])) =>
                           (\E d \in D : p \in Below(d)) \/ \E i \in 1..Len(t) : p \in Below(t[i])
                      /\ \A d \in D : p \in Below(d) => \E i \in 1..Len(w) : p \in Below(w[i])
                      /\ \A i \in 1..Len(t) : p \in Below(t[i]) => \E j \in 1..Len(w) : p \in Below(w[j])
      OBVIOUS
  <2>1. ASSUME NEW i \in 1..Len(w), p \in Below(w[i])
        PROVE  (\E d \in D : p \in Below(d)) \/ \E j \in 1..Len(t) : p \in Below(t[j])
    <3>1. CASE i \in 1..Len(ds)
      <4>1. w[i] = ds[i] /\ ds[i] \in D
          BY <1>4, <1>8, <3>1
      <4> QED
          BY <2>1, <4>1
    <3>2. CASE i \notin 1..Len(ds)
      <4>1. PICK j : j = i - Len(ds)
          OBVIOUS
      <4>2. j \in 1..Len(t) /\ w[i] = t[j]
          BY <1>9, <3>2, <4>1
      <4> QED
          BY <2>1, <4>2
    <3> QED
        BY <3>1, <3>2
  <2>2. ASSUME NEW d \in D, p \in Below(d) PROVE \E i \in 1..Len(w) : p \in Below(w[i])
    <3>1. PICK i \in 1..Len(ds) : ds[i] = d
        BY DEF Enumerates
    <3>2. i \in 1..Len(w) /\ w[i] = d
        BY <1>8, <3>1
    <3> QED
        BY <2>2, <3>2
  <2>3. ASSUME NEW i \in 1..Len(t), p \in Below(t[i]) PROVE \E j \in 1..Len(w) : p \in Below(w[j])
      BY <1>8, <2>3
  <2> QED
      BY <2>1, <2>2, <2>3
<1>14. \A p : (\E i \in 1..Len(t) : p \in Below(t[i])) <=>
                p \notin Below(F) /\ \E i \in 1..Len(ws) : p \in Below(ws[i])
  <2> TAKE p
  <2>1. ASSUME NEW i \in 1..Len(t), p \in Below(t[i])
        PROVE  p \notin Below(F) /\ \E j \in 1..Len(ws) : p \in Below(ws[j])
    <3>1. i + 1 \in 1..Len(ws) /\ ws[i + 1] = t[i]
        BY <1>1
    <3>2. p \in Below(ws[i + 1])
        BY <2>1, <3>1
    <3> QED
        BY <1>2, <2>1, <3>1, <3>2
  <2>2. ASSUME NEW i \in 1..Len(ws), p \in Below(ws[i]), p \notin Below(F)
        PROVE  \E j \in 1..Len(t) : p \in Below(t[j])
    <3>1. i # 1
        BY <1>1, <2>2
    <3>2. i - 1 \in 1..Len(t) /\ ws[i] = t[i - 1]
        BY <1>1, <3>1
    <3> QED
        BY <2>2, <3>2
  <2> QED
      BY <2>1, <2>2
<1>15. \A p : (\E k \in 1..Len(fs) : fs[k] = p) <=> p \in N
  <2>1. \A p \in N : \E k \in 1..Len(fs) : fs[k] = p
      BY DEF Enumerates
  <2> QED
      BY <1>4, <2>1
<1>16. \A p \in Paths : p \in Pending(<<>>, ws) <=> \E i \in 1..Len(ws) : p \in Below(ws[i])
    BY EmptySeq DEF Pending
<1>17. \A p \in Paths : p \in Pending(fs, w) <=>
         \/ p \in N \/ \E d \in D : p \in Below(d)
         \/ p \in Pending(<<>>, ws) /\ p \notin Below(F)
    BY <1>13, <1>14, <1>15, <1>16 DEF Pending
<1>18. \A p \in Below(F) : p \in Pending(<<>>, ws)
  <2>1. 1 \in 1..Len(ws)
      BY <1>1
  <2> QED
      BY <1>1, <1>16, <2>1 DEF Below
<1>19. Pending(fs, w) \subseteq Pending(<<>>, ws)
  <2>1. Pending(fs, w) \subseteq Paths
      BY DEF Pending
  <2> QED
      BY <1>6, <1>17, <1>18, <2>1
<1> QED
    BY <1>12, <1>17, <1>19

-----------------------------------------------------------------------------
(* The summary: what is counted, skipped and still ahead.                  *)

\* The paths that may still be visited.
Ahead == Pending(files, walk)

\* Something other than a symlink was there.
Seen(q) == \E e \in had[q] \ {None} : e.kind # "symlink"

\* A folder that may be walked, and a name that may be visited.
Walkable(folder) == folder # Root => Above[folder] \intersect Hidden = {} /\ \A q \in Above[folder] : Seen(q)
Listed(p) ==
    /\ p \in Markdown /\ Above[p] \intersect Hidden = {}
    /\ (\A q \in Above[p] \ {p} : Seen(q)) /\ \E e \in had[p] : e # None

WalkInv ==
    /\ Queue(files, walk)
    /\ \A i \in 1..Len(walk) : Walkable(walk[i])
    /\ \A k \in 1..Len(files) : Listed(files[k])

\* Each note that is counted could be read, and was there as it is counted.
Fits(n) ==
    /\ Visible(n.path) /\ n.stat \in Notes(n.path)
    /\ \E e \in Notes(n.path) : n.tags = BlockTags(e)

Taken(p) == \E k \in 1..Len(counted) : counted[k].path = p

CountedInv ==
    /\ Len(counted) \in Nat /\ counted = [k \in 1..Len(counted) |-> counted[k]]
    /\ \A j, k \in 1..Len(counted) : counted[j].path = counted[k].path => j = k
    /\ \A k \in 1..Len(counted) : counted[k].path \in Paths \ Ahead /\ Fits(counted[k])

\* The notes that stay and were missed, and what there was to pass over.
Lost == {p \in Staying \ Ahead : ~Taken(p)}
Spent == Doubtful \ Ahead

SkippedInv ==
    /\ skipped \in Nat
    /\ Cardinality(Lost) <= skipped
    /\ used.faults = 0 => Lost = {}
    /\ skipped <= used.faults + Cardinality(Spent)

Finished == files = <<>> /\ walk = <<>> /\ answer = Summary(counted) /\ call.top_tags_limit \in 1..200

SummaryInv ==
    call.tool = "summary" =>
        /\ \A p \in Paths : IsFiniteSet(had[p])
        /\ pc \in {"walk", "block"} => call.top_tags_limit \in 1..200
        /\ WalkInv /\ CountedInv /\ SkippedInv
        /\ pc = "block" => files # <<>> /\ stat \in Notes(files[1])
        /\ pc = "done" => Failed \/ Finished

\* The walk goes through finitely many paths.
LEMMA PathsAreFinite == IsFiniteSet(Paths) /\ Enumerates(Order, Paths)
<1>1. Enumerates(Order, Paths)
    BY ReadsAssumption DEF Enumerates, Paths, ToSet
<1> QED
    BY <1>1, EnumeratesCounts

LEMMA SortedEnumerates == ASSUME NEW S \in SUBSET Paths PROVE Enumerates(Sorted(S), S)
BY PathsAreFinite, ThoseEnumerate DEF Sorted

\* What was seen stays seen.
LEMMA HistoryGrows ==
    ASSUME \A p \in Paths : had[p] \subseteq had'[p]
    PROVE  /\ \A p \in Paths : /\ Seen(p) => Seen(p)'
                               /\ Notes(p) \subseteq Notes(p)'
                               /\ Visible(p) => Visible(p)'
                               /\ Listed(p) => Listed(p)'
           /\ \A f \in Paths \union {Root} : Walkable(f) => Walkable(f)'
           /\ \A n : n.path \in Paths /\ Fits(n) => Fits(n)'
<1>1. ASSUME NEW p \in Paths
      PROVE  /\ Seen(p) => Seen(p)'
             /\ Notes(p) \subseteq Notes(p)'
             /\ (\E e \in had[p] : e # None) => \E e \in had'[p] : e # None
    BY DEF Seen, Notes
<1>2. ASSUME NEW p \in Paths
      PROVE  (Visible(p) => Visible(p)') /\ (Listed(p) => Listed(p)')
  <2>1. \A q \in Above[p] : q \in Paths /\ (Seen(q) => Seen(q)')
      BY <1>1, Components
  <2>2. (\A q \in Above[p] : Seen(q)) => \A q \in Above[p] : Seen(q)'
      BY <2>1
  <2>3. (Visible(p) => Visible(p)')
      BY <2>2 DEF Visible, Seen
  <2>4. (Listed(p) => Listed(p)')
      BY <1>1, <2>1 DEF Listed
  <2> QED
      BY <2>3, <2>4
<1>3. ASSUME NEW f \in Paths \union {Root}, Walkable(f) PROVE Walkable(f)'
    BY <1>1, <1>3, Components DEF Walkable
<1>4. ASSUME NEW n, n.path \in Paths, Fits(n) PROVE Fits(n)'
    BY <1>1, <1>2, <1>4 DEF Fits, BlockTags
<1> QED
    BY <1>1, <1>2, <1>3, <1>4

\* Fewer stay when more is there, or another folder cannot be scanned.
LEMMA StayingShrinks ==
    ASSUME \A p \in Paths : Steady(p)' => Steady(p), used.blind \subseteq used'.blind
    PROVE  Staying' \subseteq Staying
BY DEF Staying, Dark

LEMMA CountedStays ==
    ASSUME CountedInv, counted' = counted, Ahead' \subseteq Ahead,
           \A p \in Paths : had[p] \subseteq had'[p]
    PROVE  CountedInv'
<1>1. \A k \in 1..Len(counted) : Fits(counted[k])'
    BY HistoryGrows DEF CountedInv
<1> QED
    BY <1>1 DEF CountedInv

\* x is passed over, or nothing is.
LEMMA SkippedStays ==
    ASSUME SkippedInv, used.faults \in Nat, used'.faults \in Nat, skipped' = skipped,
           used'.faults >= used.faults, Lost' \subseteq Lost, Spent \subseteq Spent'
    PROVE  SkippedInv'
<1>1. /\ IsFiniteSet(Lost) /\ Lost' \subseteq Lost
      /\ IsFiniteSet(Spent') /\ Spent \subseteq Spent'
  <2>1. Lost \subseteq Paths /\ Spent' \subseteq Paths
      BY ReadsAssumption DEF Lost, Staying, Spent, Doubtful
  <2> QED
      BY <2>1, PathsAreFinite, FS_Subset
<1>2. /\ Cardinality(Lost') <= Cardinality(Lost) /\ Cardinality(Lost') \in Nat /\ Cardinality(Lost) \in Nat
      /\ Cardinality(Spent) <= Cardinality(Spent') /\ Cardinality(Spent) \in Nat /\ Cardinality(Spent') \in Nat
    BY <1>1, FS_Subset, FS_CardinalityType
<1>3. skipped \in Nat /\ Cardinality(Lost) <= skipped /\ skipped <= used.faults + Cardinality(Spent)
    BY DEF SkippedInv
<1>4. used'.faults = 0 => Lost' = {}
  <2>1. used'.faults = 0 => used.faults = 0
      OBVIOUS
  <2> QED
      BY <1>1, <2>1 DEF SkippedInv
<1>5. skipped' \in Nat /\ Cardinality(Lost') <= skipped' /\ skipped' <= used'.faults + Cardinality(Spent')
    BY <1>2, <1>3
<1> QED
    BY <1>4, <1>5 DEF SkippedInv

LEMMA SkippedOnce ==
    ASSUME SkippedInv, used.faults \in Nat, used'.faults \in Nat, skipped' = skipped + 1,
           NEW x \in Paths, Lost' \subseteq Lost \union {x}, Spent \subseteq Spent',
           \/ used'.faults = used.faults + 1
           \/ used'.faults = used.faults /\ Lost' \subseteq Lost /\ x \in Spent' \ Spent
    PROVE  SkippedInv'
<1>1. IsFiniteSet(Lost) /\ IsFiniteSet(Spent') /\ IsFiniteSet(Spent)
  <2>1. Lost \subseteq Paths /\ Spent' \subseteq Paths /\ Spent \subseteq Paths
      BY ReadsAssumption DEF Lost, Staying, Spent, Doubtful
  <2> QED
      BY <2>1, PathsAreFinite, FS_Subset
<1>2. /\ Cardinality(Lost') <= Cardinality(Lost) + 1 /\ Cardinality(Lost') \in Nat /\ Cardinality(Lost) \in Nat
      /\ Lost' \subseteq Lost => Cardinality(Lost') <= Cardinality(Lost)
  <2>1. /\ IsFiniteSet(Lost \union {x}) /\ Cardinality(Lost \union {x}) \in Nat /\ Cardinality(Lost) \in Nat
        /\ Cardinality(Lost \union {x}) <= Cardinality(Lost) + 1
      BY <1>1, OneElementMore
  <2>2. IsFiniteSet(Lost') /\ Cardinality(Lost') <= Cardinality(Lost \union {x}) /\ Cardinality(Lost') \in Nat
        /\ (Lost' \subseteq Lost => Cardinality(Lost') <= Cardinality(Lost))
      BY <1>1, <2>1, FS_Subset, FS_CardinalityType
  <2> QED
      BY <2>1, <2>2
<1>3. /\ Cardinality(Spent) <= Cardinality(Spent') /\ Cardinality(Spent) \in Nat /\ Cardinality(Spent') \in Nat
      /\ x \in Spent' \ Spent => Cardinality(Spent) + 1 <= Cardinality(Spent')
  <2>1. Cardinality(Spent) <= Cardinality(Spent') /\ Cardinality(Spent) \in Nat /\ Cardinality(Spent') \in Nat
      BY <1>1, FS_Subset, FS_CardinalityType
  <2>2. ASSUME x \in Spent' \ Spent PROVE Cardinality(Spent) # Cardinality(Spent')
      BY <1>1, <2>2, FS_Subset
  <2> QED
      BY <2>1, <2>2
<1>4. skipped \in Nat /\ Cardinality(Lost) <= skipped /\ skipped <= used.faults + Cardinality(Spent)
    BY DEF SkippedInv
<1>5. used'.faults = 0 => Lost' = {}
  <2>1. ASSUME used'.faults = 0 PROVE Lost' \subseteq Lost /\ used.faults = 0
      BY <2>1
  <2> QED
      BY <2>1 DEF SkippedInv
<1>6. skipped' \in Nat /\ Cardinality(Lost') <= skipped'
    BY <1>2, <1>4
<1>7. skipped' <= used'.faults + Cardinality(Spent')
    BY <1>3, <1>4
<1> QED
    BY <1>5, <1>6, <1>7 DEF SkippedInv

-----------------------------------------------------------------------------
(* The summary: the steps of the host, and of the walk.                    *)

\* A step of the host adds to what was there.
LEMMA HostTouches ==
    ASSUME HostChange
    PROVE  /\ UNCHANGED <<call, pc, answer, stat, walk, files, counted, skipped>>
           /\ \E new : had' = [p \in Paths |-> had[p] \union {new[p]}]
           /\ IsUse(used) => used'.faults = used.faults /\ used'.blind = used.blind
<1>1. PICK new : HostStep(new)
    BY DEF HostChange, HostDelete, HostWrite
<1>2. used' = [used EXCEPT !.host = @ + 1]
    BY <1>1 DEF HostStep
<1>3. IsUse(used) => used'.faults = used.faults /\ used'.blind = used.blind
    BY <1>2 DEF IsUse
<1> QED
    BY <1>1, <1>3 DEF HostStep, locals

LEMMA DoubtStays ==
    ASSUME \A p \in Paths : Steady(p)' => Steady(p), \A p \in Paths : had[p] \subseteq had'[p],
           \A p \in Paths : had[p] # {}
    PROVE  Doubtful \subseteq Doubtful'
<1> SUFFICES ASSUME NEW p \in Doubtful PROVE p \in Doubtful'
    OBVIOUS
<1>1. p \in Paths /\ p \in Markdown /\ Above[p] \intersect Hidden = {} /\ ~Steady(p)
    BY ReadsAssumption DEF Doubtful
<1>2. ASSUME NEW e \in had'[p], had'[p] = {e} PROVE e # None /\ e.kind # "symlink"
  <2>1. had[p] = {e}
      BY <1>1, <1>2
  <2> QED
      BY <2>1 DEF Doubtful
<1> QED
    BY <1>1, <1>2 DEF Doubtful

LEMMA HostKeepsSummary ==
    ASSUME ReadsInv, SummaryInv, pc # "done", HostChange
    PROVE  SummaryInv'
<1> SUFFICES ASSUME call.tool = "summary" PROVE SummaryInv'
    BY HostTouches DEF SummaryInv
<1>1. /\ UNCHANGED <<call, pc, answer, stat, walk, files, counted, skipped>>
      /\ used'.faults = used.faults /\ used'.blind = used.blind /\ used.faults \in Nat
    BY HostTouches DEF ReadsInv, VaultInv, IsUse
<1>2. \A p \in Paths : /\ had[p] \subseteq had'[p] /\ had[p] # {}
                       /\ IsFiniteSet(had[p]) => IsFiniteSet(had'[p])
  <2>1. PICK new : had' = [p \in Paths |-> had[p] \union {new[p]}]
      BY HostTouches
  <2>2. \A p \in Paths : had[p] # {}
      BY DEF ReadsInv, VaultInv
  <2> QED
      BY <2>1, <2>2, FS_AddElement
<1>3. \A p \in Paths : Steady(p)' => Steady(p)
    BY HostChangeEffect DEF ReadsInv, HostEffect
<1>4. Staying' \subseteq Staying /\ Doubtful \subseteq Doubtful'
    BY <1>1, <1>2, <1>3, StayingShrinks, DoubtStays
<1>5. Ahead' = Ahead /\ \A p : Taken(p)' <=> Taken(p)
    BY <1>1 DEF Ahead, Taken
<1>6. WalkInv'
  <2>1. Queue(files, walk)
      BY DEF SummaryInv, WalkInv
  <2>2. PICK fs, ws : fs = files /\ fs = files' /\ ws = walk /\ ws = walk'
      BY <1>1
  <2>3. fs \in Seq(Paths) /\ ws \in Seq(Paths \union {Root})
      BY <2>1, <2>2 DEF Queue
  <2>4. /\ \A i \in 1..Len(ws) : ws[i] \in Paths \union {Root}
        /\ \A k \in 1..Len(fs) : fs[k] \in Paths
      BY <2>3, ElementOfSeq
  <2>5. /\ \A i \in 1..Len(ws) : Walkable(ws[i])
        /\ \A k \in 1..Len(fs) : Listed(fs[k])
      BY <2>2 DEF SummaryInv, WalkInv
  <2>6. /\ \A i \in 1..Len(ws) : Walkable(ws[i])'
        /\ \A k \in 1..Len(fs) : Listed(fs[k])'
      BY <1>2, <2>4, <2>5, HistoryGrows
  <2> QED
      BY <1>1, <2>1, <2>2, <2>6 DEF WalkInv
<1>7. CountedInv'
    BY <1>1, <1>2, <1>5, CountedStays DEF SummaryInv
<1>8. SkippedInv'
  <2>1. Lost' \subseteq Lost /\ Spent \subseteq Spent'
      BY <1>4, <1>5 DEF Lost, Spent
  <2> QED
      BY <1>1, <2>1, SkippedStays DEF SummaryInv
<1>9. (pc = "block" => files # <<>> /\ stat \in Notes(files[1]))'
  <2> SUFFICES ASSUME pc = "block" PROVE (files # <<>> /\ stat \in Notes(files[1]))'
      BY <1>1
  <2>1. files # <<>> /\ stat \in Notes(files[1]) /\ files \in Seq(Paths)
      BY DEF SummaryInv, WalkInv, Queue
  <2>2. PICK x : x = files[1] /\ x = files'[1]
      BY <1>1
  <2>3. x \in Paths
      BY <2>1, <2>2, TailIs
  <2>4. stat \in Notes(x)'
      BY <1>2, <2>1, <2>2, <2>3, HistoryGrows
  <2> QED
      BY <1>1, <2>1, <2>2, <2>4
<1> QED
    BY <1>1, <1>2, <1>6, <1>7, <1>8, <1>9 DEF SummaryInv

\* A step of the walk leaves the vault and what was there alone.
Walks ==
    /\ UNCHANGED <<vault, call, had>>
    /\ pc \in {"walk", "block"} /\ used.faults \in Nat /\ used'.faults \in Nat
    /\ used'.faults >= used.faults /\ used.blind \subseteq used'.blind

LEMMA WalksOn ==
    ASSUME VaultInv, UNCHANGED <<vault, call, had>>, pc \in {"walk", "block"},
           \/ used' = used
           \/ Fails
           \/ \E folder : FailsToScan(folder)
    PROVE  /\ Walks /\ (used' # used => used'.faults = used.faults + 1)
           /\ \A folder : FailsToScan(folder) => folder \in used'.blind
<1>1. IsUse(used) /\ used.faults \in Nat
    BY DEF VaultInv, IsUse
<1>2. CASE used' = used
  <2>1. \A folder : ~FailsToScan(folder)
    <3> SUFFICES ASSUME NEW folder, FailsToScan(folder) PROVE FALSE
        OBVIOUS
    <3>1. used'.faults = used.faults + 1
        BY <1>1, FaultCounts
    <3> QED
        BY <1>1, <1>2, <3>1
  <2> QED
      BY <1>1, <1>2, <2>1 DEF Walks
<1>3. CASE Fails
  <2>1. used' = [host |-> used.host, faults |-> used.faults + 1, blind |-> used.blind]
      BY <1>1, <1>3 DEF Fails, IsUse
  <2>2. used'.blind = used.blind /\ used'.faults = used.faults + 1
      BY <2>1
  <2>3. \A folder : FailsToScan(folder) => folder \in used'.blind
    <3> SUFFICES ASSUME NEW folder, FailsToScan(folder) PROVE folder \in used'.blind
        OBVIOUS
    <3>1. used' = [host |-> used.host, faults |-> used.faults + 1,
                   blind |-> used.blind \union {folder}]
        BY <1>1 DEF FailsToScan, IsUse
    <3> QED
        BY <3>1
  <2> QED
      BY <1>1, <2>2, <2>3 DEF Walks
<1>4. ASSUME NEW folder, FailsToScan(folder)
      PROVE  Walks /\ used'.faults = used.faults + 1 /\ folder \in used'.blind
  <2>1. used' = [host |-> used.host, faults |-> used.faults + 1, blind |-> used.blind \union {folder}]
      BY <1>1, <1>4 DEF FailsToScan, IsUse
  <2>2. used'.blind = used.blind \union {folder} /\ used'.faults = used.faults + 1
      BY <2>1
  <2> QED
      BY <1>1, <2>2 DEF Walks
<1> QED
    BY <1>2, <1>3, <1>4

LEMMA WalkSees ==
    ASSUME Walks
    PROVE  /\ Staying' \subseteq Staying /\ Doubtful' = Doubtful
           /\ \A p \in Paths : /\ (Steady(p)' <=> Steady(p)) /\ Notes(p)' = Notes(p)
                               /\ (Listed(p)' <=> Listed(p)) /\ had'[p] = had[p]
           /\ \A f : Walkable(f)' <=> Walkable(f)
<1>1. had' = had
    BY DEF Walks
<1>2. \A p \in Paths : Steady(p)' <=> Steady(p)
    BY <1>1, SameHistory
<1>3. Staying' \subseteq Staying
    BY <1>2, StayingShrinks DEF Walks
<1>4. Doubtful' = Doubtful
    BY <1>1, <1>2, ReadsAssumption DEF Doubtful
<1> QED
    BY <1>1, <1>2, <1>3, <1>4 DEF Listed, Seen, Walkable, Notes

\* What is neither a note nor a symlink, or has been a note, may be passed over.
LEMMA PassedIsDoubtful ==
    ASSUME VaultInv, NEW x \in Paths, Listed(x), ~Is(x, "note"), ~Is(x, "symlink") \/ Notes(x) # {}
    PROVE  x \in Doubtful /\ ~Steady(x)
<1>1. vault[x] \in had[x] /\ (vault[x] = None \/ vault[x].kind # "note")
    BY DEF VaultInv, Is, Present
<1>2. ~Steady(x)
    BY <1>1 DEF Steady, Notes
<1>3. ASSUME NEW e \in had[x], had[x] = {e} PROVE e # None /\ e.kind # "symlink"
  <2>1. e = vault[x] /\ e # None
      BY <1>1, <1>3 DEF Listed
  <2>2. Notes(x) = {}
      BY <1>1, <1>3, <2>1 DEF Notes
  <2> QED
      BY <2>1, <2>2 DEF Is, Present
<1> QED
    BY <1>2, <1>3 DEF Doubtful, Listed

\* The first of the notes of the folder at hand.
LEMMA FirstFile ==
    ASSUME WalkInv, files # <<>>
    PROVE  Head(files) = files[1] /\ files[1] \in Paths /\ files[1] \in Ahead /\ Listed(files[1])
<1>1. Queue(files, walk) /\ files \in Seq(Paths)
    BY DEF WalkInv, Queue
<1>2. Head(files) = files[1] /\ files[1] \in Paths /\ 1 \in 1..Len(files)
    BY <1>1, TailIs
<1>3. files[1] \in Ahead
    BY <1>1, PopKeepsQueue DEF Ahead
<1> QED
    BY <1>2, <1>3 DEF WalkInv

LEMMA FileIsDone ==
    ASSUME WalkInv, Walks, files # <<>>, files' = Tail(files), walk' = walk
    PROVE  WalkInv' /\ Ahead' = Ahead \ {files[1]}
<1>1. PICK fs, ws, t : fs = files /\ ws = walk /\ t = Tail(files)
    OBVIOUS
<1>2. Queue(fs, ws) /\ fs \in Seq(Paths)
    BY <1>1 DEF WalkInv, Queue
<1>3. Queue(t, ws) /\ Pending(t, ws) = Pending(fs, ws) \ {fs[1]}
    BY <1>1, <1>2, PopKeepsQueue
<1>4. \A k \in 1..Len(t) : k + 1 \in 1..Len(fs) /\ t[k] = fs[k + 1] /\ t[k] \in Paths
  <2>1. t \in Seq(Paths) /\ \A k \in 1..Len(t) : k + 1 \in 1..Len(fs) /\ t[k] = fs[k + 1]
      BY <1>1, <1>2, TailIs
  <2> QED
      BY <2>1, ElementOfSeq
<1>5. \A k \in 1..Len(t) : Listed(t[k])
    BY <1>1, <1>4 DEF WalkInv
<1>6. /\ \A k \in 1..Len(t) : Listed(t[k])'
      /\ \A i \in 1..Len(ws) : Walkable(ws[i])'
    BY <1>1, <1>4, <1>5, WalkSees DEF WalkInv
<1>7. files' = t /\ walk' = ws
    BY <1>1
<1>8. WalkInv'
    BY <1>3, <1>6, <1>7 DEF WalkInv
<1> QED
    BY <1>1, <1>3, <1>7, <1>8 DEF Ahead

\* A file is passed over: it stays, and the disk failed; or it does not stay,
\* and is counted unless it is a symlink.
LEMMA PassKeepsSummary ==
    ASSUME ReadsInv, SummaryInv, call.tool = "summary", Walks, files # <<>>, NEW n, PassOver(n),
           \/ n = 0 /\ ~Steady(files[1])
           \/ n = 1 /\ used'.faults = used.faults /\ files[1] \in Doubtful /\ ~Steady(files[1])
           \/ n = 1 /\ used'.faults = used.faults + 1
    PROVE  SummaryInv'
<1>1. WalkInv /\ CountedInv /\ SkippedInv /\ call.top_tags_limit \in 1..200
      /\ \A p \in Paths : IsFiniteSet(had[p])
    BY DEF SummaryInv, Walks
<1>2. pc' = "walk" /\ files' = Tail(files) /\ UNCHANGED <<call, walk, counted, had>> /\ skipped' = skipped + n
    BY DEF PassOver, Goto
<1>3. PICK x : x = files[1]
    OBVIOUS
<1>4. x \in Paths /\ x \in Ahead /\ Listed(x)
    BY <1>1, <1>3, FirstFile
<1>5. WalkInv' /\ Ahead' = Ahead \ {x}
    BY <1>1, <1>2, <1>3, FileIsDone
<1>6. CountedInv'
    BY <1>1, <1>2, <1>5, CountedStays
<1>7. \A p : Taken(p)' <=> Taken(p)
    BY <1>2 DEF Taken
<1>8. /\ Lost' \subseteq Lost \union {x} /\ Spent \subseteq Spent'
      /\ ~Steady(x) => Lost' \subseteq Lost
      /\ x \in Doubtful => x \in Spent' \ Spent
  <2>1. Staying' \subseteq Staying /\ Doubtful' = Doubtful /\ (~Steady(x) => x \notin Staying)
      BY WalkSees DEF Staying
  <2> QED
      BY <1>4, <1>5, <1>7, <2>1 DEF Lost, Spent
<1>9. SkippedInv'
  <2>1. used.faults \in Nat /\ used'.faults \in Nat /\ used'.faults >= used.faults
      BY DEF Walks
  <2>2. CASE n = 0
    <3>1. skipped' = skipped
        BY <1>1, <1>2, <2>2 DEF SkippedInv
    <3> QED
        BY <1>1, <1>3, <1>8, <2>1, <2>2, <3>1, SkippedStays
  <2>3. CASE n = 1
      BY <1>1, <1>2, <1>3, <1>4, <1>8, <2>1, <2>3, SkippedOnce
  <2> QED
      BY <2>2, <2>3
<1> QED
    BY <1>1, <1>2, <1>5, <1>6, <1>9 DEF SummaryInv

LEMMA StatKeepsSummary ==
    ASSUME ReadsInv, SummaryInv, call.tool = "summary", StatFile \/ StatFileFails
    PROVE  SummaryInv'
<1>1. pc = "walk" /\ files # <<>> /\ UNCHANGED <<vault, call, had>> /\ (used' = used \/ Fails)
    BY DEF StatFile, StatFileFails, PassOver, Goto
<1>2. VaultInv /\ WalkInv
    BY <1>1 DEF ReadsInv, SummaryInv
<1>3. Walks /\ (used' # used => used'.faults = used.faults + 1)
    BY <1>1, <1>2, WalksOn
<1>4. PICK x : x = files[1]
    OBVIOUS
<1>5. Head(files) = x /\ x \in Paths /\ Listed(x)
    BY <1>1, <1>2, <1>4, FirstFile
<1>6. CASE StatFile /\ Is(x, "symlink")
  <2>1. PassOver(0)
      BY <1>5, <1>6 DEF StatFile
  <2>2. ~Steady(x)
      BY <1>2, <1>5, <1>6, SteadyIsThere DEF Is
  <2> QED
      BY <1>1, <1>3, <1>4, <2>1, <2>2, PassKeepsSummary
<1>7. CASE StatFile /\ ~Is(x, "symlink") /\ ~Is(x, "note")
  <2>1. PassOver(1) /\ used' = used
      BY <1>5, <1>7 DEF StatFile
  <2>2. x \in Doubtful /\ ~Steady(x)
      BY <1>2, <1>5, <1>7, PassedIsDoubtful
  <2> QED
      BY <1>1, <1>3, <1>4, <2>1, <2>2, PassKeepsSummary
<1>8. CASE StatFile /\ Is(x, "note")
  <2>1. ~Is(x, "symlink")
      BY <1>8 DEF Is
  <2>2. stat' = vault[x] /\ pc' = "block" /\ UNCHANGED <<call, had, used, walk, files, counted, skipped>>
      BY <1>5, <1>8, <2>1 DEF StatFile, Goto
  <2>3. vault[x] \in Notes(x)
      BY <1>2, <1>5, <1>8 DEF VaultInv, Notes, Is, Present
  <2>4. stat' \in Notes(files[1])'
      BY <1>4, <2>2, <2>3 DEF Notes
  <2>5. Ahead' = Ahead /\ (Lost' = Lost) /\ (Spent' = Spent) /\ (WalkInv' <=> WalkInv) /\ (CountedInv' <=> CountedInv)
      BY <2>2 DEF Ahead, Lost, Spent, WalkInv, CountedInv, Taken, Staying, Dark, Doubtful, Steady, Linked,
             Notes, Listed, Seen, Walkable, Fits, Visible, BlockTags
  <2>6. SkippedInv' <=> SkippedInv
      BY <2>2, <2>5 DEF SkippedInv
  <2> QED
      BY <1>1, <2>2, <2>4, <2>5, <2>6 DEF SummaryInv
<1>9. CASE StatFileFails
  <2>1. PassOver(1) /\ Fails
      BY <1>9 DEF StatFileFails
  <2>2. used'.faults = used.faults + 1
      BY <1>2, <2>1, FaultCounts DEF VaultInv
  <2> QED
      BY <1>1, <1>3, <1>4, <2>1, <2>2, PassKeepsSummary
<1> QED
    BY <1>1, <1>6, <1>7, <1>8, <1>9

\* A note is counted: it was there, and is not counted again.
LEMMA BlockKeepsSummary ==
    ASSUME ReadsInv, SummaryInv, call.tool = "summary", ReadBlock \/ ReadBlockFails
    PROVE  SummaryInv'
<1>1. pc = "block" /\ files # <<>> /\ UNCHANGED <<vault, call, had>> /\ (used' = used \/ Fails)
    BY DEF ReadBlock, ReadBlockFails, PassOver, Goto, SummaryInv
<1>2. VaultInv /\ WalkInv /\ CountedInv /\ SkippedInv /\ stat \in Notes(files[1])
      /\ call.top_tags_limit \in 1..200 /\ \A p \in Paths : IsFiniteSet(had[p])
    BY <1>1 DEF ReadsInv, SummaryInv
<1>3. Walks /\ (used' # used => used'.faults = used.faults + 1)
    BY <1>1, <1>2, WalksOn
<1>4. PICK x : x = files[1]
    OBVIOUS
<1>5. Head(files) = x /\ x \in Paths /\ x \in Ahead /\ Listed(x)
    BY <1>1, <1>2, <1>4, FirstFile
<1>6. CASE ReadBlockFails
  <2>1. PassOver(1) /\ Fails
      BY <1>6 DEF ReadBlockFails
  <2>2. used'.faults = used.faults + 1
      BY <1>2, <2>1, FaultCounts DEF VaultInv
  <2> QED
      BY <1>1, <1>3, <1>4, <2>1, <2>2, PassKeepsSummary
<1>7. CASE ReadBlock /\ ~Is(x, "note")
  <2>1. PassOver(1) /\ used' = used
      BY <1>5, <1>7 DEF ReadBlock
  <2>2. x \in Doubtful /\ ~Steady(x)
      BY <1>2, <1>4, <1>5, <1>7, PassedIsDoubtful
  <2> QED
      BY <1>1, <1>3, <1>4, <2>1, <2>2, PassKeepsSummary
<1>8. CASE ReadBlock /\ Is(x, "note")
  <2> PICK note : note = [path |-> x, stat |-> stat, tags |-> BlockTags(vault[x])]
      OBVIOUS
  <2>1. /\ counted' = Append(counted, note) /\ files' = Tail(files) /\ pc' = "walk"
        /\ UNCHANGED <<call, walk, skipped, had, used>>
      BY <1>5, <1>8 DEF ReadBlock, Goto
  <2>2. WalkInv' /\ Ahead' = Ahead \ {x}
      BY <1>1, <1>2, <1>3, <1>4, <2>1, FileIsDone
  <2>3. note.path = x /\ Fits(note)
    <3>1. note.path = x /\ note.stat \in Notes(x) /\ note.tags = BlockTags(vault[x]) /\ vault[x] \in Notes(x)
        BY <1>2, <1>4, <1>5, <1>8 DEF VaultInv, Notes, Is, Present
    <3>2. Seen(x) /\ \A q \in Above[x] : Seen(q)
        BY <1>2, <1>5, <1>8 DEF Listed, Seen, VaultInv, Is, Present
    <3>3. Visible(x)
        BY <1>5, <3>2 DEF Visible, Listed, Seen
    <3> QED
        BY <3>1, <3>3 DEF Fits
  <2>4. /\ Len(counted) \in Nat /\ Len(counted') = Len(counted) + 1
        /\ counted' = [k \in 1..(Len(counted) + 1) |-> IF k = Len(counted) + 1 THEN note ELSE counted[k]]
    <3>1. PICK m, c : m = Len(counted) /\ c = counted
        OBVIOUS
    <3>2. m \in Nat /\ c = [k \in 1..m |-> c[k]]
        BY <1>2, <3>1 DEF CountedInv
    <3>3. c \in Seq({c[k] : k \in 1..m} \union {note}) /\ Len(c) = m
        BY <3>1, <3>2
    <3>4. PICK d : d = Append(c, note)
        OBVIOUS
    <3>5. /\ d \in Seq({c[k] : k \in 1..m} \union {note}) /\ Len(d) = m + 1
          /\ \A k \in 1..m : d[k] = c[k]
          /\ d[m + 1] = note
        BY <3>3, <3>4, AppendProperties
    <3>6. d = [k \in 1..(m + 1) |-> IF k = m + 1 THEN note ELSE c[k]]
        BY <3>2, <3>5
    <3> QED
        BY <2>1, <3>1, <3>2, <3>4, <3>5, <3>6
  <2>5. /\ \A k \in 1..Len(counted) : counted'[k] = counted[k] /\ k \in 1..Len(counted')
        /\ counted'[Len(counted')] = note /\ Len(counted') \in 1..Len(counted')
        /\ \A k \in 1..Len(counted') : k = Len(counted') \/ k \in 1..Len(counted)
      BY <2>4
  <2>6. \A k \in 1..Len(counted) : counted[k].path # x
      BY <1>2, <1>5 DEF CountedInv
  <2>7. \A p : Taken(p)' <=> Taken(p) \/ p = x
      BY <2>3, <2>5 DEF Taken
  <2>8. \A n : Fits(n)' <=> Fits(n)
      BY <2>1 DEF Fits, Visible, Notes, BlockTags
  <2>9. CountedInv'
    <3>1. Len(counted') \in Nat /\ counted' = [k \in 1..Len(counted') |-> counted'[k]]
        BY <2>4
    <3>2. \A j, k \in 1..Len(counted') : counted'[j].path = counted'[k].path => j = k
        BY <1>2, <2>3, <2>5, <2>6 DEF CountedInv
    <3>3. \A k \in 1..Len(counted') : counted'[k].path \in Paths \ Ahead' /\ Fits(counted'[k])
        BY <1>2, <1>5, <2>2, <2>3, <2>5 DEF CountedInv
    <3>4. \A k \in 1..Len(counted') : Fits(counted[k])'
        BY <2>1, <3>3 DEF Fits, Visible, Notes, BlockTags
    <3> QED
        BY <3>1, <3>2, <3>3, <3>4 DEF CountedInv
  <2>10. Lost' \subseteq Lost /\ Spent \subseteq Spent'
    <3>1. Staying' \subseteq Staying /\ Doubtful' = Doubtful
        BY <1>3, WalkSees
    <3> QED
        BY <2>2, <2>7, <3>1 DEF Lost, Spent
  <2>11. SkippedInv'
      BY <1>2, <1>3, <2>1, <2>10, SkippedStays DEF Walks
  <2> QED
      BY <1>2, <2>1, <2>2, <2>9, <2>11 DEF SummaryInv
<1> QED
    BY <1>6, <1>7, <1>8

\* A note that stays, below a folder: the folder is there, and can lead to it.
LEMMA StayingIsFound ==
    ASSUME VaultInv, NEW f \in Paths \union {Root}, NEW p \in Below(f), Steady(p)
    PROVE  /\ f = Root \/ Is(f, "folder")
           /\ p \in Filenames(f) \/ \E d \in Subfolders(f) : p \in Below(d)
<1>1. p \in Paths
    BY DEF Below
<1>2. Is(p, "note") /\ p \in Present /\ Unlinked(p) /\ p \in Markdown /\ Above[p] \intersect Hidden = {}
    BY <1>1, SteadyIsThere DEF Steady
<1>3. \A q \in Above[p] \ {p} : q \in Paths /\ Is(q, "folder")
    BY <1>1, <1>2, Components DEF VaultInv, IsVault, Unlinked, Is, Present
<1>4. PICK c \in Above[p] : c \in Paths /\ Parent[c] = f /\ (c = p \/ p \in Below(c))
    BY WayDown
<1>5. CASE c = p
    BY <1>1, <1>2, <1>3, <1>4, <1>5 DEF Filenames, Entries, Is, Below
<1>6. CASE c # p
  <2>1. Is(c, "folder") /\ c \notin Hidden
      BY <1>2, <1>3, <1>4, <1>6
  <2> QED
      BY <1>1, <1>3, <1>4, <1>6, <2>1 DEF Subfolders, Entries, Is, Below
<1> QED
    BY <1>5, <1>6

\* What is found in a folder may be visited, or walked in turn.
LEMMA FoundIsListed ==
    ASSUME VaultInv, NEW f \in Paths \union {Root}, Walkable(f)
    PROVE  /\ Filenames(f) \union Subfolders(f) \subseteq {p \in Paths : Parent[p] = f}
           /\ Filenames(f) \intersect Subfolders(f) = {}
           /\ \A p \in Filenames(f) : Listed(p)
           /\ \A p \in Subfolders(f) : Walkable(p)
<1>1. /\ Filenames(f) \union Subfolders(f) \subseteq {p \in Paths : Parent[p] = f}
      /\ Filenames(f) \intersect Subfolders(f) = {}
    BY DEF Filenames, Subfolders, Entries, Present
<1>2. ASSUME NEW p \in Filenames(f) \union Subfolders(f)
      PROVE  /\ p \in Paths /\ p \notin Hidden /\ vault[p] \in had[p] \ {None}
             /\ Above[p] \intersect Hidden = {} /\ \A q \in Above[p] \ {p} : Seen(q)
  <2>1. p \in Paths /\ Parent[p] = f /\ p \notin Hidden /\ vault[p] # None
      BY <1>1 DEF Filenames, Subfolders, Entries, Present
  <2>2. Above[p] = {p} \union (IF f = Root THEN {} ELSE Above[f])
      BY <2>1, ReadsAssumption
  <2> QED
      BY <2>1, <2>2 DEF Walkable, VaultInv
<1>3. ASSUME NEW p \in Filenames(f) PROVE Listed(p)
  <2>1. p \in Markdown
      BY DEF Filenames
  <2> QED
      BY <1>2, <2>1 DEF Listed
<1>4. ASSUME NEW p \in Subfolders(f) PROVE Walkable(p)
  <2>1. vault[p].kind = "folder"
      BY DEF Subfolders, Is
  <2>2. Seen(p)
      BY <1>2, <2>1 DEF Seen
  <2> QED
      BY <1>2, <2>2 DEF Walkable
<1> QED
    BY <1>1, <1>3, <1>4

\* What changes in the walk alone: nothing that stays gets lost.
LEMMA ScanKeepsRest ==
    ASSUME SummaryInv, call.tool = "summary", Walks, pc' = "walk", UNCHANGED <<counted, skipped>>,
           WalkInv', Ahead' \subseteq Ahead, Staying' \intersect Ahead \subseteq Ahead'
    PROVE  SummaryInv'
<1>1. CountedInv /\ SkippedInv /\ UNCHANGED <<call, had>> /\ call.top_tags_limit \in 1..200
      /\ \A p \in Paths : IsFiniteSet(had[p])
    BY DEF SummaryInv, Walks
<1>2. CountedInv'
    BY <1>1, CountedStays
<1>3. \A p : Taken(p)' <=> Taken(p)
    BY DEF Taken
<1>4. Lost' \subseteq Lost /\ Spent \subseteq Spent'
  <2>1. Staying' \subseteq Staying /\ Doubtful' = Doubtful
      BY WalkSees
  <2> QED
      BY <1>3, <2>1 DEF Lost, Spent
<1>5. SkippedInv'
    BY <1>1, <1>4, SkippedStays DEF Walks
<1> QED
    BY <1>1, <1>2, <1>5 DEF SummaryInv

LEMMA ScanKeepsSummary ==
    ASSUME ReadsInv, SummaryInv, call.tool = "summary", ScanFolder \/ ScanFolderFails
    PROVE  SummaryInv'
<1>1. /\ pc = "walk" /\ pc' = "walk" /\ files = <<>> /\ walk # <<>> /\ UNCHANGED <<counted, skipped>>
      /\ UNCHANGED <<vault, call, had>> /\ (used' = used \/ \E folder : FailsToScan(folder))
    BY DEF ScanFolder, ScanFolderFails, Goto
<1>2. VaultInv /\ WalkInv
    BY <1>1 DEF ReadsInv, SummaryInv
<1>3. Walks /\ \A folder : FailsToScan(folder) => folder \in used'.blind
    BY <1>1, <1>2, WalksOn
<1>4. PICK ws, f : ws = walk /\ f = Head(walk)
    OBVIOUS
<1>5. Queue(<<>>, ws) /\ ws # <<>> /\ ws \in Seq(Paths \union {Root})
    BY <1>1, <1>2, <1>4 DEF WalkInv, Queue
<1>6. f \in Paths \union {Root} /\ f = ws[1] /\ 1 \in 1..Len(ws) /\ Walkable(f)
    BY <1>2, <1>4, <1>5, TailIs DEF WalkInv
<1>7. /\ \A i \in 1..Len(Tail(ws)) : Walkable(Tail(ws)[i])
      /\ Tail(ws) \in Seq(Paths \union {Root})
    BY <1>2, <1>4, <1>5, TailIs DEF WalkInv
<1>8. \A p \in Staying' : Steady(p)
    BY <1>3, WalkSees DEF Staying
<1>9. ASSUME NEW N, NEW D, NEW fs, NEW ds, Enumerates(fs, N), Enumerates(ds, D),
             N \union D \subseteq {p \in Paths : Parent[p] = f}, N \intersect D = {},
             \A p \in N : Listed(p), \A p \in D : Walkable(p),
             files' = fs, walk' = ds \o Tail(ws),
             \A p \in Staying' \intersect Below(f) : p \in N \/ \E d \in D : p \in Below(d)
      PROVE  SummaryInv'
  <2> PICK w : w = ds \o Tail(ws)
      OBVIOUS
  <2>1. /\ Queue(fs, w) /\ Pending(fs, w) \subseteq Pending(<<>>, ws)
        /\ \A p \in Paths : p \in Pending(fs, w) <=>
             \/ p \in N \/ \E d \in D : p \in Below(d)
             \/ p \in Pending(<<>>, ws) /\ p \notin Below(f)
      BY <1>4, <1>5, <1>9, ScanKeepsQueue
  <2>2. Ahead = Pending(<<>>, ws) /\ Ahead' = Pending(fs, w)
      BY <1>1, <1>4, <1>9 DEF Ahead
  <2>3. Staying' \intersect Ahead \subseteq Ahead'
    <3>1. Staying' \subseteq Paths
        BY DEF Staying
    <3> QED
        BY <1>9, <2>1, <2>2, <3>1
  <2>4. \A k \in 1..Len(fs) : Listed(fs[k])
      BY <1>9, ElementOfSeq DEF Enumerates
  <2>5. \A i \in 1..Len(w) : Walkable(w[i])
    <3>1. ds \in Seq(D) /\ ds \in Seq(Paths \union {Root}) /\ \A k \in 1..Len(ds) : ds[k] \in D
      <4>1. ds \in Seq(D) /\ D \subseteq Paths \union {Root}
          BY <1>9 DEF Enumerates
      <4>2. Seq(D) \subseteq Seq(Paths \union {Root})
          BY <4>1
      <4> QED
          BY <4>1, <4>2, ElementOfSeq
    <3> SUFFICES ASSUME NEW i \in 1..Len(w) PROVE Walkable(w[i])
        OBVIOUS
    <3>2. PICK t : t = Tail(ws)
        OBVIOUS
    <3>3. /\ Len(w) = Len(ds) + Len(t) /\ Len(ds) \in Nat /\ Len(t) \in Nat
          /\ \A k \in 1..Len(ds) : w[k] = ds[k]
          /\ \A k \in 1..Len(t) : w[Len(ds) + k] = t[k]
        BY <1>7, <3>1, <3>2, ConcatProperties, LenProperties
    <3>4. CASE i \in 1..Len(ds)
        BY <1>9, <3>1, <3>3, <3>4
    <3>5. CASE i \notin 1..Len(ds)
      <4>1. PICK k : k = i - Len(ds)
          OBVIOUS
      <4>2. k \in 1..Len(t) /\ Len(ds) + k = i
          BY <3>3, <3>5, <4>1
      <4>3. w[i] = t[k] /\ Walkable(t[k])
          BY <1>7, <3>2, <3>3, <4>2
      <4> QED
          BY <4>3
    <3> QED
        BY <3>4, <3>5
  <2>6. WalkInv'
    <3>1. /\ \A i \in 1..Len(w) : Walkable(w[i])'
          /\ \A k \in 1..Len(fs) : Listed(fs[k])'
      <4>1. \A k \in 1..Len(fs) : fs[k] \in Paths
          BY <1>9, ElementOfSeq DEF Enumerates
      <4> QED
          BY <1>3, <2>4, <2>5, <4>1, WalkSees
    <3>2. files' = fs /\ walk' = w
        BY <1>9
    <3> QED
        BY <2>1, <3>1, <3>2 DEF WalkInv
  <2> QED
      BY <1>1, <1>3, <2>1, <2>2, <2>3, <2>6, ScanKeepsRest
<1>10. CASE ScanFolder /\ (f = Root \/ Is(f, "folder"))
  <2>1. files' = Sorted(Filenames(f)) /\ walk' = Sorted(Subfolders(f)) \o Tail(ws)
      BY <1>4, <1>10 DEF ScanFolder
  <2>2. /\ Filenames(f) \union Subfolders(f) \subseteq {p \in Paths : Parent[p] = f}
        /\ Filenames(f) \intersect Subfolders(f) = {}
        /\ \A p \in Filenames(f) : Listed(p)
        /\ \A p \in Subfolders(f) : Walkable(p)
      BY <1>2, <1>6, FoundIsListed
  <2>3. Enumerates(Sorted(Filenames(f)), Filenames(f)) /\ Enumerates(Sorted(Subfolders(f)), Subfolders(f))
      BY <2>2, SortedEnumerates
  <2>4. \A p \in Staying' \intersect Below(f) : p \in Filenames(f) \/ \E d \in Subfolders(f) : p \in Below(d)
      BY <1>2, <1>6, <1>8, StayingIsFound
  <2> QED
      BY <1>9, <2>1, <2>2, <2>3, <2>4
<1>11. CASE (ScanFolder /\ ~(f = Root \/ Is(f, "folder"))) \/ ScanFolderFails
  <2>1. files' = <<>> /\ walk' = <<>> \o Tail(ws)
    <3>1. files' = <<>> /\ walk' = Tail(ws)
        BY <1>1, <1>4, <1>11 DEF ScanFolder, ScanFolderFails
    <3>2. <<>> \o Tail(ws) = Tail(ws)
        BY <1>7, ConcatEmptySeq
    <3> QED
        BY <3>1, <3>2
  <2>2. Enumerates(<<>>, {})
      BY EmptySeq DEF Enumerates
  <2>3. \A p \in Staying' \intersect Below(f) : FALSE
    <3> SUFFICES ASSUME NEW p \in Staying', p \in Below(f) PROVE FALSE
        OBVIOUS
    <3>1. f = Root \/ Is(f, "folder")
        BY <1>2, <1>6, <1>8, StayingIsFound
    <3>2. FailsToScan(f)
        BY <1>4, <1>11, <3>1 DEF ScanFolderFails
    <3>3. f \in used'.blind /\ f \in Above[p] \union {Root}
        BY <1>3, <3>2 DEF Below
    <3> QED
        BY <3>3 DEF Staying, Dark
  <2> QED
      BY <1>9, <2>1, <2>2, <2>3
<1> QED
    BY <1>1, <1>10, <1>11

LEMMA SameAnswer ==
    ASSUME UNCHANGED <<call, skipped, counted>>
    PROVE  Summary(counted)' = Summary(counted)
BY DEF Summary, TopTags, Uses, SumOf

LEMMA SummariseKeepsSummary ==
    ASSUME ReadsInv, SummaryInv, call.tool = "summary", Summarise
    PROVE  SummaryInv'
<1>1. /\ pc = "walk" /\ pc' = "done" /\ files = <<>> /\ walk = <<>> /\ answer' = Summary(counted)
      /\ UNCHANGED <<vault, call, had, used, stat, files, walk, counted, skipped>>
    BY DEF Summarise, Answer, Goto, locals
<1>2. /\ (WalkInv' <=> WalkInv) /\ (CountedInv' <=> CountedInv) /\ (SkippedInv' <=> SkippedInv)
      /\ Summary(counted)' = Summary(counted)
  <2>1. Ahead' = Ahead /\ Lost' = Lost /\ Spent' = Spent /\ (WalkInv' <=> WalkInv) /\ (CountedInv' <=> CountedInv)
      BY <1>1 DEF Ahead, Lost, Spent, WalkInv, CountedInv, Taken, Staying, Dark, Doubtful, Steady, Linked,
             Notes, Listed, Seen, Walkable, Fits, Visible, BlockTags
  <2>2. SkippedInv' <=> SkippedInv
      BY <1>1, <2>1 DEF SkippedInv
  <2>3. Summary(counted)' = Summary(counted)
      BY <1>1, SameAnswer
  <2> QED
      BY <2>1, <2>2, <2>3
<1>3. Finished'
    BY <1>1, <1>2 DEF Finished, SummaryInv
<1> QED
    BY <1>1, <1>2, <1>3 DEF SummaryInv

\* The steps of the walk are all there is to a summary.
LEMMA StepKeepsSummary ==
    ASSUME ReadsInv, SummaryInv, pc # "idle", ToolStep
    PROVE  SummaryInv'
<1>1. call' = call
    BY ToolStepEffect DEF ReadsInv, ToolEffect
<1> SUFFICES ASSUME call.tool = "summary" PROVE SummaryInv'
    BY <1>1 DEF SummaryInv
<1>2. pc \in SummarySteps
    BY DEF ReadsInv
<1>3. ScanFolder \/ ScanFolderFails \/ StatFile \/ StatFileFails \/ ReadBlock \/ ReadBlockFails \/ Summarise
    BY <1>2 DEF SummarySteps, ToolStep, CheckPath, ResolveStrict, ResolveFails, CheckKind,
           CheckKindFails, StatNote, StatNoteFails, ReadText, ReadTextFails, NextCandidate, Link, CreateNote
<1> QED
    BY <1>3, ScanKeepsSummary, StatKeepsSummary, BlockKeepsSummary, SummariseKeepsSummary

LEMMA SameSummary ==
    ASSUME SummaryInv, UNCHANGED <<call, had, used, stat, files, walk, counted, skipped>>,
           call.tool = "summary" =>
             /\ pc' \in {"walk", "block"} => call.top_tags_limit \in 1..200
             /\ pc' = "block" => files # <<>> /\ stat \in Notes(files[1])
             /\ pc' = "done" => (Failed \/ Finished)'
    PROVE  SummaryInv'
<1> SUFFICES ASSUME call.tool = "summary" PROVE SummaryInv'
    BY DEF SummaryInv
<1>1. Ahead' = Ahead /\ Lost' = Lost /\ Spent' = Spent /\ (WalkInv' <=> WalkInv) /\ (CountedInv' <=> CountedInv)
    BY DEF Ahead, Lost, Spent, WalkInv, CountedInv, Taken, Staying, Dark, Doubtful, Steady, Linked,
           Notes, Listed, Seen, Walkable, Fits, Visible, BlockTags
<1>2. SkippedInv' <=> SkippedInv
    BY <1>1 DEF SkippedInv
<1>3. files # <<>> /\ stat \in Notes(files[1]) => (files # <<>> /\ stat \in Notes(files[1]))'
    BY DEF Notes
<1> QED
    BY <1>1, <1>2, <1>3 DEF SummaryInv

LEMMA CallKeepsSummary == SummaryInv /\ Call => SummaryInv'
<1> SUFFICES ASSUME SummaryInv, Call PROVE SummaryInv'
    OBVIOUS
<1>1. UNCHANGED <<call, had, used, stat, files, walk, counted, skipped>>
    BY DEF Call, StartTool, Answer, Goto, locals
<1>2. ASSUME call.tool = "summary", LimitRefused PROVE pc' = "done" /\ Failed'
    BY <1>2 DEF Call, Answer, Goto, Failed
<1>3. ASSUME call.tool = "summary", ~LimitRefused PROVE pc' = "walk" /\ call.top_tags_limit \in 1..200
    BY <1>3 DEF Call, StartTool, Goto, StartOf, LimitRefused, MinTagsLimit, MaxTagsLimit
<1> QED
    BY <1>1, <1>2, <1>3, SameSummary

LEMMA RestKeepsSummary == SummaryInv /\ UNCHANGED readVars => SummaryInv'
<1> SUFFICES ASSUME SummaryInv, UNCHANGED readVars PROVE SummaryInv'
    OBVIOUS
<1>1. UNCHANGED <<call, pc, answer, had, used, stat, files, walk, counted, skipped>>
    BY DEF readVars
<1>2. Failed \/ Finished => (Failed \/ Finished)'
    BY <1>1, SameAnswer DEF Failed, Finished
<1> QED
    BY <1>1, <1>2, SameSummary DEF SummaryInv

LEMMA InitSummaryInv == Init => SummaryInv
<1> SUFFICES ASSUME Init PROVE SummaryInv
    OBVIOUS
<1>1. PICK s \in Starts : used = s.used
    BY DEF Init
<1>2. /\ pc = "idle" /\ walk = <<Root>> /\ files = <<>> /\ counted = <<>> /\ skipped = 0
      /\ had = [p \in Paths |-> {vault[p]}]
    BY DEF Init, InitReads
<1>3. used.faults \in Nat
    BY <1>1, StartsAssumption
<1>4. \A p \in Paths : IsFiniteSet(had[p])
    BY <1>2, FS_Singleton
<1>5. /\ Len(walk) = 1 /\ walk[1] = Root /\ walk \in Seq(Paths \union {Root}) /\ 1..1 = {1}
      /\ files \in Seq(Paths) /\ Len(files) = 0 /\ 1..0 = {}
    BY <1>2, EmptySeq
<1>6. WalkInv
    BY <1>5 DEF WalkInv, Queue, Walkable
<1>7. Ahead = Paths
    BY <1>5 DEF Ahead, Pending, Below
<1>8. CountedInv
    BY <1>2, EmptySeq DEF CountedInv
<1>9. Lost = {} /\ Spent = {}
    BY <1>7, ReadsAssumption DEF Lost, Spent, Staying, Doubtful
<1>10. SkippedInv
  <2>1. Cardinality({}) = 0
      BY FS_EmptySet
  <2> QED
      BY <1>2, <1>3, <1>9, <2>1 DEF SkippedInv
<1> QED
    BY <1>2, <1>4, <1>6, <1>8, <1>10 DEF SummaryInv

LEMMA SummaryInvariance == Spec => [](ReadsInv /\ SummaryInv)
<1>1. ReadsInv /\ SummaryInv /\ [Next]_vars => SummaryInv'
  <2> SUFFICES ASSUME ReadsInv, SummaryInv, [Next]_vars PROVE SummaryInv'
      OBVIOUS
  <2>1. CASE UNCHANGED readVars
      BY <2>1, RestKeepsSummary
  <2>2. CASE Call
      BY <2>2, CallKeepsSummary
  <2>3. CASE Tool
      BY <2>3, StepKeepsSummary DEF Tool
  <2>4. CASE Host
      BY <2>4, HostKeepsSummary DEF Host
  <2> QED
      BY <2>1, <2>2, <2>3, <2>4 DEF Next, Return, vars
<1> QED
    BY <1>1, InitSummaryInv, ReadsInvariance, PTL DEF Spec

-----------------------------------------------------------------------------
(* The tags that are used most.                                            *)

Before(uses, u, t) == uses[u] > uses[t] \/ (uses[u] = uses[t] /\ u < t)
Rank(uses, t) == Cardinality({u \in DOMAIN uses : Before(uses, u, t)})

LEMMA RankGrows ==
    ASSUME NEW D \in SUBSET Nat, IsFiniteSet(D), NEW uses \in [D -> Nat],
           NEW u \in D, NEW t \in D, Before(uses, u, t)
    PROVE  /\ Rank(uses, u) \in Nat /\ Rank(uses, t) \in Nat /\ Rank(uses, u) < Rank(uses, t)
           /\ ~Before(uses, t, u)
<1> DEFINE A == {x \in D : Before(uses, x, u)}
           B == {x \in D : Before(uses, x, t)}
<1>1. \A x \in D : uses[x] \in Nat /\ x \in Nat
    OBVIOUS
<1>2. \A x \in D : Before(uses, x, u) => Before(uses, x, t)
    BY <1>1 DEF Before
<1>3. u \in B /\ u \notin A /\ ~Before(uses, t, u)
    BY <1>1 DEF Before
<1>4. A \subseteq B /\ B \subseteq D /\ A # B
    BY <1>2, <1>3
<1>5. Rank(uses, u) = Cardinality(A) /\ Rank(uses, t) = Cardinality(B)
    BY DEF Rank
<1> HIDE DEF A, B
<1>6. IsFiniteSet(A) /\ IsFiniteSet(B)
    BY <1>4, FS_Subset
<1>7. Cardinality(A) \in Nat /\ Cardinality(B) \in Nat /\ Cardinality(A) <= Cardinality(B)
      /\ Cardinality(A) # Cardinality(B)
    BY <1>4, <1>6, FS_Subset, FS_CardinalityType
<1> QED
    BY <1>3, <1>5, <1>7

LEMMA RankTellsApart ==
    ASSUME NEW D \in SUBSET Nat, IsFiniteSet(D), NEW uses \in [D -> Nat],
           NEW u \in D, NEW t \in D, u # t
    PROVE  Rank(uses, u) # Rank(uses, t)
<1>1. Before(uses, u, t) \/ Before(uses, t, u)
  <2>1. uses[u] \in Nat /\ uses[t] \in Nat /\ u \in Nat /\ t \in Nat
      OBVIOUS
  <2> QED
      BY <2>1 DEF Before
<1>2. ASSUME Before(uses, u, t) PROVE Rank(uses, u) # Rank(uses, t)
  <2>1. Rank(uses, u) \in Nat /\ Rank(uses, t) \in Nat /\ Rank(uses, u) < Rank(uses, t)
      BY <1>2, RankGrows
  <2> QED
      BY <2>1
<1>3. ASSUME Before(uses, t, u) PROVE Rank(uses, u) # Rank(uses, t)
  <2>1. Rank(uses, u) \in Nat /\ Rank(uses, t) \in Nat /\ Rank(uses, t) < Rank(uses, u)
      BY <1>3, RankGrows
  <2> QED
      BY <2>1
<1> QED
    BY <1>1, <1>2, <1>3

LEMMA TopTagsAre ==
    ASSUME NEW D, NEW uses \in [D -> Nat], NEW limit
    PROVE  \A t : t \in TopTags(uses, limit) <=> t \in D /\ uses[t] > 0 /\ Rank(uses, t) < limit
BY DEF TopTags, Rank, Before

\* There are no more than the limit, and a tag is left out only for as many that
\* are used as much.
LEMMA TopTagsFit ==
    ASSUME NEW D \in SUBSET Nat, IsFiniteSet(D), NEW uses \in [D -> Nat], NEW limit \in Nat
    PROVE  /\ Cardinality(TopTags(uses, limit)) <= limit
           /\ TopTags(uses, limit) \subseteq D
           /\ \A u \in D \ TopTags(uses, limit) :
                \/ uses[u] = 0
                \/ /\ Cardinality(TopTags(uses, limit)) = limit
                   /\ \A t \in TopTags(uses, limit) : uses[u] <= uses[t]
<1> PICK Top : Top = TopTags(uses, limit)
    OBVIOUS
<1>1. \A t : t \in Top <=> t \in D /\ uses[t] > 0 /\ Rank(uses, t) < limit
    BY TopTagsAre
<1>2. Top \subseteq D /\ IsFiniteSet(Top) /\ Cardinality(Top) \in Nat
  <2>1. Top \subseteq D
      BY <1>1
  <2> QED
      BY <2>1, FS_Subset, FS_CardinalityType
<1>3. \A t \in D : uses[t] \in Nat /\ t \in Nat /\ Rank(uses, t) \in Nat
  <2>1. ASSUME NEW t \in D PROVE Rank(uses, t) \in Nat
    <3> DEFINE A == {u \in D : Before(uses, u, t)}
    <3>1. Rank(uses, t) = Cardinality(A)
        BY DEF Rank
    <3>2. A \subseteq D
        OBVIOUS
    <3> HIDE DEF A
    <3> QED
        BY <3>1, <3>2, FS_Subset, FS_CardinalityType
  <2> QED
      BY <2>1
<1>4. Cardinality(Top) <= limit
  <2>1. \A s, t \in Top : Rank(uses, s) = Rank(uses, t) => s = t
      BY <1>2, RankTellsApart
  <2>2. \A t \in Top : Rank(uses, t) \in Nat /\ Rank(uses, t) < limit
      BY <1>1, <1>2, <1>3
  <2> PICK f : f = [t \in Top |-> Rank(uses, t)]
      OBVIOUS
  <2>3. /\ DOMAIN f = Top /\ f = [t \in Top |-> f[t]]
        /\ \A t \in Top : f[t] \in Nat /\ f[t] < limit
        /\ \A s, t \in Top : f[s] = f[t] => s = t
      BY <2>1, <2>2
  <2> QED
      BY <1>2, <2>3, Pigeons
<1>5. ASSUME NEW u \in D, u \notin Top, uses[u] # 0
      PROVE  Cardinality(Top) = limit /\ \A t \in Top : uses[u] <= uses[t]
  <2>1. \A t \in Top : uses[u] <= uses[t]
    <3> SUFFICES ASSUME NEW t \in Top, uses[u] > uses[t] PROVE FALSE
        BY <1>2, <1>3
    <3>1. Before(uses, u, t)
        BY DEF Before
    <3>2. Rank(uses, u) < Rank(uses, t)
        BY <1>2, <3>1, RankGrows
    <3>3. Rank(uses, t) < limit /\ ~(Rank(uses, u) < limit) /\ t \in D
        BY <1>1, <1>3, <1>5
    <3> QED
        BY <1>3, <3>2, <3>3
  <2> DEFINE Out == {t \in D : t \notin Top /\ uses[t] # 0}
             Ranks == {Rank(uses, t) : t \in Out}
  <2>2. Ranks \in SUBSET Nat /\ Ranks # {}
      BY <1>3, <1>5
  <2>3. PICK r \in Ranks : \A s \in Ranks : r <= s
    <3> HIDE DEF Ranks
    <3> QED
        BY <2>2, LeastNumber
  <2>4. PICK v \in Out : r = Rank(uses, v)
      BY <2>3
  <2>5. \A t \in Out : Rank(uses, v) <= Rank(uses, t)
      BY <2>3, <2>4
  <2> DEFINE A == {t \in D : Before(uses, t, v)}
  <2>6. A \subseteq Top
    <3> SUFFICES ASSUME NEW t \in D, Before(uses, t, v), t \notin Top PROVE FALSE
        OBVIOUS
    <3>1. uses[v] \in Nat /\ uses[t] \in Nat /\ uses[v] # 0
        BY <1>3, <2>4
    <3>2. t \in Out
        BY <3>1 DEF Before
    <3>3. Rank(uses, t) < Rank(uses, v)
        BY <2>4, RankGrows
    <3> QED
        BY <1>3, <2>4, <2>5, <3>2, <3>3
  <2>7. Rank(uses, v) = Cardinality(A) /\ ~(Rank(uses, v) < limit) /\ v \in D
      BY <1>1, <1>3, <2>4 DEF Rank
  <2> HIDE DEF A
  <2>8. Cardinality(A) <= Cardinality(Top) /\ Cardinality(A) \in Nat
      BY <1>2, <2>6, FS_Subset, FS_CardinalityType
  <2> QED
      BY <1>2, <1>4, <2>1, <2>7, <2>8
<1> QED
    BY <1>2, <1>4, <1>5

-----------------------------------------------------------------------------
(* The summary: its numbers.                                               *)

Chosen == {p \in Paths : Taken(p)}

LEMMA LabelsCount ==
    ASSUME NEW e, IsNote(e), NEW tag
    PROVE  /\ Labels(e, tag) \in Nat
           /\ Labels(e, tag) = Cardinality({k \in 1..Len(BlockTags(e)) : Fold[BlockTags(e)[k]] = tag})
<1>1. e.front \in Nat /\ e.tags \in Seq(DOMAIN Fold) /\ Len(e.tags) \in Nat /\ (e.front = 0 => e.tags = <<>>)
    BY LenProperties DEF IsNote
<1>2. /\ Cardinality({k \in 1..Len(e.tags) : Fold[e.tags[k]] = tag}) \in Nat
      /\ Cardinality({}) = 0
  <2>1. IsFiniteSet(1..Len(e.tags))
      BY <1>1, FS_Interval
  <2> QED
      BY <2>1, FS_Subset, FS_CardinalityType, FS_EmptySet
<1>3. CASE e.front \in 1..MaxBlockChars
    BY <1>2, <1>3 DEF Labels, BlockTags
<1>4. CASE e.front \notin 1..MaxBlockChars
  <2>1. PICK b : b = BlockTags(e)
      OBVIOUS
  <2>2. b = <<>> /\ Len(b) = 0 /\ 1..0 = {}
      BY <1>4, <2>1, EmptySeq DEF BlockTags
  <2>4. Cardinality({k \in 1..Len(b) : Fold[b[k]] = tag}) = 0
    <3>1. {k \in 1..Len(b) : Fold[b[k]] = tag} = {}
        BY <2>2
    <3> QED
        BY <1>2, <3>1
  <2>3. Labels(e, tag) = 0
    <3>1. CASE e.front <= MaxBlockChars
      <4>1. e.tags = <<>>
          BY <1>1, <1>4, <3>1
      <4>2. {k \in 1..Len(e.tags) : Fold[e.tags[k]] = tag} = {}
          BY <2>2, <4>1
      <4> QED
          BY <1>2, <3>1, <4>2 DEF Labels
    <3>2. CASE ~(e.front <= MaxBlockChars)
        BY <3>2 DEF Labels
    <3> QED
        BY <3>1, <3>2
  <2> QED
      BY <2>1, <2>3, <2>4
<1> QED
    BY <1>3, <1>4

\* What the notes of a path have at least and at most.
LEMMA NotesBetween ==
    ASSUME VaultInv, NEW p \in Paths, IsFiniteSet(had[p]), Notes(p) # {}
    PROVE  /\ Largest(p) \in Nat /\ Smallest(p) \in Nat
           /\ \A e \in Notes(p) : e.size \in Nat /\ Smallest(p) <= e.size /\ e.size <= Largest(p)
           /\ \A tag : /\ Most(tag, p) \in Nat /\ Least(tag, p) \in Nat
                       /\ \A e \in Notes(p) : Least(tag, p) <= Labels(e, tag) /\ Labels(e, tag) <= Most(tag, p)
<1>1. IsFiniteSet(Notes(p)) /\ \A e \in Notes(p) : IsNote(e)
    BY FS_Subset DEF Notes, VaultInv
<1>2. /\ Largest(p) \in Nat /\ Smallest(p) \in Nat
      /\ \A e \in Notes(p) : e.size \in Nat /\ Smallest(p) <= e.size /\ e.size <= Largest(p)
  <2> DEFINE f == [e \in Notes(p) |-> e.size]
             S == {f[e] : e \in Notes(p)}
  <2>1. \A e \in Notes(p) : f[e] = e.size /\ f[e] \in Nat
      BY <1>1 DEF IsNote
  <2>2. S \in SUBSET Nat /\ S # {} /\ S = {e.size : e \in Notes(p)}
      BY <2>1
  <2> HIDE DEF f
  <2>3. IsFiniteSet(S)
      BY <1>1, ImageIsFinite
  <2>4. PICK T : T = S
      OBVIOUS
  <2>5. /\ Min(T) \in T /\ \A x \in T : Min(T) <= x
        /\ Max(T) \in T /\ \A x \in T : x <= Max(T)
      BY <2>2, <2>3, <2>4, FiniteExtremes
  <2>6. Largest(p) = Max(T) /\ Smallest(p) = Min(T)
      BY <2>2, <2>4 DEF Largest, Smallest
  <2> QED
      BY <2>1, <2>2, <2>4, <2>5, <2>6
<1>3. ASSUME NEW tag
      PROVE  /\ Most(tag, p) \in Nat /\ Least(tag, p) \in Nat
             /\ \A e \in Notes(p) : Least(tag, p) <= Labels(e, tag) /\ Labels(e, tag) <= Most(tag, p)
  <2> DEFINE f == [e \in Notes(p) |-> Labels(e, tag)]
             S == {f[e] : e \in Notes(p)}
  <2>1. \A e \in Notes(p) : f[e] = Labels(e, tag) /\ f[e] \in Nat
      BY <1>1, LabelsCount
  <2>2. S \in SUBSET Nat /\ S # {} /\ S = {Labels(e, tag) : e \in Notes(p)}
      BY <2>1
  <2> HIDE DEF f
  <2>3. IsFiniteSet(S)
      BY <1>1, ImageIsFinite
  <2>4. PICK T : T = S
      OBVIOUS
  <2>5. /\ Min(T) \in T /\ \A x \in T : Min(T) <= x
        /\ Max(T) \in T /\ \A x \in T : x <= Max(T)
      BY <2>2, <2>3, <2>4, FiniteExtremes
  <2>6. Most(tag, p) = Max(T) /\ Least(tag, p) = Min(T)
      BY <2>2, <2>4 DEF Most, Least
  <2> QED
      BY <2>1, <2>2, <2>4, <2>5, <2>6
<1> QED
    BY <1>2, <1>3

\* At the end, the notes taken in are between those that stay and all there were.
AtTheEnd ==
    /\ VaultInv /\ CountedInv /\ Ahead = {} /\ SkippedInv
    /\ \A p \in Paths : IsFiniteSet(had[p])

LEMMA ChosenBetween ==
    ASSUME AtTheEnd
    PROVE  /\ Sure \subseteq Chosen /\ Chosen \subseteq Countable /\ Countable \subseteq Paths
           /\ Lost = Staying \ Chosen
           /\ IsFiniteSet(Countable) /\ IsFiniteSet(Chosen) /\ IsFiniteSet(Sure)
           /\ Len(counted) \in Nat /\ Cardinality(Chosen) = Len(counted)
<1>1. CountedInv /\ Ahead = {} /\ SkippedInv
    BY DEF AtTheEnd
<1>2. Lost = Staying \ Chosen
    BY <1>1 DEF Lost, Chosen, Staying
<1>3. Sure \subseteq Chosen
    BY <1>1, <1>2 DEF Sure, SkippedInv
<1>4. Chosen \subseteq Countable /\ Countable \subseteq Paths
    BY <1>1 DEF Chosen, Countable, Taken, CountedInv, Fits
<1>5. IsFiniteSet(Countable) /\ IsFiniteSet(Chosen) /\ IsFiniteSet(Sure)
  <2>1. Sure \subseteq Paths /\ Chosen \subseteq Paths
      BY <1>3, <1>4
  <2> QED
      BY <1>4, <2>1, PathsAreFinite, FS_Subset
<1>6. Len(counted) \in Nat /\ Cardinality(Chosen) = Len(counted)
  <2> DEFINE K == 1..Len(counted)
             f == [k \in K |-> counted[k].path]
  <2>1. Len(counted) \in Nat /\ IsFiniteSet(K) /\ Cardinality(K) = Len(counted)
    <3>1. PICK n : n = Len(counted)
        OBVIOUS
    <3>2. n \in Nat
        BY <1>1, <3>1 DEF CountedInv
    <3>3. IsFiniteSet(1..n) /\ Cardinality(1..n) = n
        BY <3>2, FS_Interval
    <3> QED
        BY <3>1, <3>2, <3>3
  <2>2. /\ f \in [K -> Chosen] /\ \A j, k \in K : f[j] = f[k] => j = k
        /\ \A x \in Chosen : \E k \in K : f[k] = x
      BY <1>1 DEF CountedInv, Chosen, Taken
  <2> HIDE DEF K, f
  <2> QED
      BY <2>1, <2>2, ImageCounts
<1> QED
    BY <1>2, <1>3, <1>4, <1>5, <1>6

\* The sum of a number for each path of a set.
OverPaths(f, S) == Total([j \in 1..Len(Order) |-> IF Order[j] \in S THEN f[Order[j]] ELSE 0])

\* A number for each note that is counted, between what is known of its path.
Between(n, c, v, lo, A, hi, B) ==
    /\ n \in Nat /\ c \in [1..n -> Paths] /\ v \in [1..n -> Nat]
    /\ lo \in [Paths -> Nat] /\ hi \in [Paths -> Nat] /\ A \subseteq Paths
    /\ \A j, k \in 1..n : c[j] = c[k] => j = k
    /\ \A p \in A : \E k \in 1..n : c[k] = p
    /\ \A k \in 1..n : c[k] \in B /\ lo[c[k]] <= v[k] /\ v[k] <= hi[c[k]]

LEMMA SumsBetween ==
    ASSUME NEW n, NEW c, NEW v, NEW lo, NEW A, NEW hi, NEW B, Between(n, c, v, lo, A, hi, B)
    PROVE  /\ OverPaths(lo, A) \in Nat /\ OverPaths(hi, B) \in Nat /\ Total(v) \in Nat
           /\ OverPaths(lo, A) <= Total(v) /\ Total(v) <= OverPaths(hi, B)
<1>0. /\ n \in Nat /\ c \in [1..n -> Paths] /\ v \in [1..n -> Nat]
      /\ lo \in [Paths -> Nat] /\ hi \in [Paths -> Nat] /\ A \subseteq Paths
      /\ \A j, k \in 1..n : c[j] = c[k] => j = k
      /\ \A p \in A : \E k \in 1..n : c[k] = p
      /\ \A k \in 1..n : c[k] \in B /\ lo[c[k]] <= v[k] /\ v[k] <= hi[c[k]]
    BY DEF Between
<1> PICK m : m = Len(Order)
    OBVIOUS
<1>1. m \in Nat /\ \A j \in 1..m : Order[j] \in Paths
    BY ReadsAssumption, LenProperties, ElementOfSeq
<1> DEFINE f == [j \in 1..m |-> IF Order[j] \in B THEN hi[Order[j]] ELSE 0]
           g == [j \in 1..m |-> IF Order[j] \in A THEN lo[Order[j]] ELSE 0]
<1>2. f \in [1..m -> Nat] /\ g \in [1..m -> Nat]
    BY <1>0, <1>1
<1>3. Total(f) = OverPaths(hi, B) /\ Total(g) = OverPaths(lo, A)
    BY DEF OverPaths
<1>4. Total(f) \in Nat /\ Total(g) \in Nat /\ Total(v) \in Nat
  <2> HIDE DEF f, g
  <2> QED
      BY <1>0, <1>1, <1>2, TotalIsNumber
<1>5. Total(v) <= Total(f)
  <2>1. \A k \in 1..n : \E j \in 1..m : Order[j] = c[k]
      BY <1>0, PathsAreFinite DEF Enumerates
  <2> DEFINE place == [k \in 1..n |-> CHOOSE j \in 1..m : Order[j] = c[k]]
  <2>2. \A k \in 1..n : place[k] \in 1..m /\ Order[place[k]] = c[k]
      BY <2>1
  <2> HIDE DEF place
  <2>3. \A k \in 1..n : v[k] <= f[place[k]]
      BY <1>0, <2>2
  <2>4. \A i, k \in 1..n : place[i] = place[k] => i = k
      BY <1>0, <2>2
  <2> HIDE DEF f
  <2>5. Covers(v, n, f, m, place)
      BY <2>2, <2>3, <2>4 DEF Covers
  <2> QED
      BY <1>0, <1>1, <1>2, <2>5, TotalCovers
<1>6. Total(g) <= Total(v)
  <2> DEFINE place == [j \in 1..m |-> CHOOSE k \in 1..n : c[k] = Order[j]]
  <2>1. \A j \in 1..m : g[j] # 0 => Order[j] \in A /\ g[j] = lo[Order[j]]
      BY <1>1
  <2>2. ASSUME NEW j \in 1..m, g[j] # 0
        PROVE  place[j] \in 1..n /\ c[place[j]] = Order[j] /\ g[j] <= v[place[j]]
    <3>1. \E k \in 1..n : c[k] = Order[j]
        BY <1>0, <2>1, <2>2
    <3>2. place[j] \in 1..n /\ c[place[j]] = Order[j]
        BY <3>1
    <3> HIDE DEF place, g
    <3> QED
        BY <1>0, <2>1, <2>2, <3>2
  <2> HIDE DEF place, g
  <2>3. ASSUME NEW i \in 1..m, NEW j \in 1..m, g[i] # 0, g[j] # 0, place[i] = place[j] PROVE i = j
    <3>1. Order[i] = Order[j]
        BY <2>2, <2>3
    <3> QED
        BY <3>1, ReadsAssumption
  <2>4. Covers(g, m, v, n, place)
      BY <2>2, <2>3 DEF Covers
  <2> QED
      BY <1>0, <1>1, <1>2, <2>4, TotalCovers
<1> QED
    BY <1>3, <1>4, <1>5, <1>6

\* What is counted, as the sums see it.
CountedPaths == [k \in 1..Len(counted) |-> counted[k].path]

LEMMA CountedPathsAre ==
    ASSUME AtTheEnd
    PROVE  /\ Len(counted) \in Nat /\ CountedPaths \in [1..Len(counted) -> Paths]
           /\ \A j, k \in 1..Len(counted) : CountedPaths[j] = CountedPaths[k] => j = k
           /\ \A p \in Sure : \E k \in 1..Len(counted) : CountedPaths[k] = p
           /\ \A k \in 1..Len(counted) : CountedPaths[k] \in Countable
           /\ \A k \in 1..Len(counted) : CountedPaths[k] = counted[k].path /\ Fits(counted[k])
<1>1. CountedInv
    BY DEF AtTheEnd
<1>2. /\ Len(counted) \in Nat /\ CountedPaths \in [1..Len(counted) -> Paths]
      /\ \A k \in 1..Len(counted) : CountedPaths[k] = counted[k].path /\ Fits(counted[k])
      /\ \A j, k \in 1..Len(counted) : CountedPaths[j] = CountedPaths[k] => j = k
    BY <1>1 DEF CountedInv, CountedPaths
<1>3. \A p \in Sure : \E k \in 1..Len(counted) : CountedPaths[k] = p
    BY <1>2, ChosenBetween DEF Chosen, Taken
<1>4. \A k \in 1..Len(counted) : CountedPaths[k] \in Chosen
    BY <1>2 DEF Chosen, Taken
<1> QED
    BY <1>2, <1>3, <1>4, ChosenBetween

LEMMA BytesBetween ==
    ASSUME AtTheEnd
    PROVE  SumOf(LAMBDA note : note.stat.size, counted) \in SumOver(Smallest, Sure)..SumOver(Largest, Countable)
<1> PICK n : n = Len(counted)
    OBVIOUS
<1> PICK c : c = CountedPaths
    OBVIOUS
<1> DEFINE v == [k \in 1..n |-> counted[k].stat.size]
           lo == [p \in Paths |-> IF p \in Countable THEN Smallest(p) ELSE 0]
           hi == [p \in Paths |-> IF p \in Countable THEN Largest(p) ELSE 0]
<1>1. /\ n \in Nat /\ c \in [1..n -> Paths] /\ \A j, k \in 1..n : c[j] = c[k] => j = k
      /\ \A p \in Sure : \E k \in 1..n : c[k] = p
      /\ \A k \in 1..n : c[k] \in Countable /\ c[k] = counted[k].path /\ Fits(counted[k])
    BY CountedPathsAre
<1>2. \A p \in Countable :
        /\ p \in Paths /\ Smallest(p) \in Nat /\ Largest(p) \in Nat
        /\ \A e \in Notes(p) : e.size \in Nat /\ Smallest(p) <= e.size /\ e.size <= Largest(p)
    BY NotesBetween DEF AtTheEnd, Countable
<1>3. lo \in [Paths -> Nat] /\ hi \in [Paths -> Nat]
    BY <1>2
<1>4. \A k \in 1..n : v[k] \in Nat /\ lo[c[k]] <= v[k] /\ v[k] <= hi[c[k]]
    BY <1>1, <1>2 DEF Fits
<1>5. v \in [1..n -> Nat]
    BY <1>4
<1>6. Sure \subseteq Paths /\ Sure \subseteq Countable
    BY ChosenBetween
<1>7. /\ SumOver(Smallest, Sure) = OverPaths(lo, Sure) /\ SumOver(Largest, Countable) = OverPaths(hi, Countable)
      /\ SumOf(LAMBDA note : note.stat.size, counted) = Total(v)
  <2>1. \A j \in 1..Len(Order) : Order[j] \in Paths
      BY ReadsAssumption, ElementOfSeq
  <2>2. [j \in 1..Len(Order) |-> IF Order[j] \in Sure THEN Smallest(Order[j]) ELSE 0] =
        [j \in 1..Len(Order) |-> IF Order[j] \in Sure THEN lo[Order[j]] ELSE 0]
      BY <1>6, <2>1
  <2>3. [j \in 1..Len(Order) |-> IF Order[j] \in Countable THEN Largest(Order[j]) ELSE 0] =
        [j \in 1..Len(Order) |-> IF Order[j] \in Countable THEN hi[Order[j]] ELSE 0]
      BY <2>1
  <2> HIDE DEF lo, hi
  <2>4. SumOver(Smallest, Sure) = OverPaths(lo, Sure)
      BY <2>2 DEF SumOver, SumOf, OverPaths
  <2>5. SumOver(Largest, Countable) = OverPaths(hi, Countable)
      BY <2>3 DEF SumOver, SumOf, OverPaths
  <2>6. SumOf(LAMBDA note : note.stat.size, counted) = Total(v)
      BY DEF SumOf
  <2> QED
      BY <2>4, <2>5, <2>6
<1> HIDE DEF v, lo, hi
<1>8. /\ OverPaths(lo, Sure) \in Nat /\ OverPaths(hi, Countable) \in Nat /\ Total(v) \in Nat
      /\ OverPaths(lo, Sure) <= Total(v) /\ Total(v) <= OverPaths(hi, Countable)
  <2>1. Between(n, c, v, lo, Sure, hi, Countable)
      BY <1>1, <1>3, <1>4, <1>5, <1>6 DEF Between
  <2> QED
      BY <2>1, SumsBetween
<1> QED
    BY <1>7, <1>8

LEMMA UsesBetween ==
    ASSUME AtTheEnd, NEW tag
    PROVE  /\ Uses(tag, counted) \in AtLeast(tag)..AtMost(tag)
           /\ Uses(tag, counted) \in Nat /\ AtLeast(tag) \in Nat
<1> PICK n : n = Len(counted)
    OBVIOUS
<1> PICK c : c = CountedPaths
    OBVIOUS
<1> DEFINE v == [k \in 1..n |-> Cardinality({i \in 1..Len(counted[k].tags) : Fold[counted[k].tags[i]] = tag})]
           lo == [p \in Paths |-> IF p \in Countable THEN Least(tag, p) ELSE 0]
           hi == [p \in Paths |-> IF p \in Countable THEN Most(tag, p) ELSE 0]
<1>1. /\ n \in Nat /\ c \in [1..n -> Paths] /\ \A j, k \in 1..n : c[j] = c[k] => j = k
      /\ \A p \in Sure : \E k \in 1..n : c[k] = p
      /\ \A k \in 1..n : c[k] \in Countable /\ c[k] = counted[k].path /\ Fits(counted[k])
    BY CountedPathsAre
<1>2. \A p \in Countable :
        /\ p \in Paths /\ Least(tag, p) \in Nat /\ Most(tag, p) \in Nat
        /\ \A e \in Notes(p) : IsNote(e) /\ Least(tag, p) <= Labels(e, tag) /\ Labels(e, tag) <= Most(tag, p)
    BY NotesBetween DEF AtTheEnd, Countable, VaultInv
<1>3. lo \in [Paths -> Nat] /\ hi \in [Paths -> Nat]
    BY <1>2
<1>4. ASSUME NEW k \in 1..n PROVE v[k] \in Nat /\ lo[c[k]] <= v[k] /\ v[k] <= hi[c[k]]
  <2>1. PICK e \in Notes(c[k]) : counted[k].tags = BlockTags(e)
      BY <1>1 DEF Fits
  <2>2. c[k] \in Countable /\ c[k] \in Paths /\ IsNote(e)
      BY <1>1, <1>2
  <2>3. v[k] = Labels(e, tag) /\ v[k] \in Nat
      BY <2>1, <2>2, LabelsCount
  <2> HIDE DEF v
  <2> QED
      BY <1>2, <2>2, <2>3
<1>5. v \in [1..n -> Nat]
  <2>1. \A k \in 1..n : v[k] \in Nat
      BY <1>4
  <2> QED
      BY <2>1
<1>6. Sure \subseteq Paths /\ Sure \subseteq Countable
    BY ChosenBetween
<1>7. AtLeast(tag) = OverPaths(lo, Sure) /\ AtMost(tag) = OverPaths(hi, Countable) /\ Uses(tag, counted) = Total(v)
  <2>1. \A j \in 1..Len(Order) : Order[j] \in Paths
      BY ReadsAssumption, ElementOfSeq
  <2>2. [j \in 1..Len(Order) |-> IF Order[j] \in Sure THEN Least(tag, Order[j]) ELSE 0] =
        [j \in 1..Len(Order) |-> IF Order[j] \in Sure THEN lo[Order[j]] ELSE 0]
      BY <1>6, <2>1
  <2>3. [j \in 1..Len(Order) |-> IF Order[j] \in Countable THEN Most(tag, Order[j]) ELSE 0] =
        [j \in 1..Len(Order) |-> IF Order[j] \in Countable THEN hi[Order[j]] ELSE 0]
      BY <2>1
  <2> HIDE DEF lo, hi
  <2>4. AtLeast(tag) = OverPaths(lo, Sure)
      BY <2>2 DEF AtLeast, SumOver, SumOf, OverPaths
  <2>5. AtMost(tag) = OverPaths(hi, Countable)
      BY <2>3 DEF AtMost, SumOver, SumOf, OverPaths
  <2>6. Uses(tag, counted) = Total(v)
      BY DEF Uses, SumOf
  <2> QED
      BY <2>4, <2>5, <2>6
<1> HIDE DEF v, lo, hi
<1>8. /\ OverPaths(lo, Sure) \in Nat /\ OverPaths(hi, Countable) \in Nat /\ Total(v) \in Nat
      /\ OverPaths(lo, Sure) <= Total(v) /\ Total(v) <= OverPaths(hi, Countable)
  <2>1. Between(n, c, v, lo, Sure, hi, Countable)
      BY <1>1, <1>3, <1>4, <1>5, <1>6 DEF Between
  <2> QED
      BY <2>1, SumsBetween
<1> QED
    BY <1>7, <1>8

\* The folders of the notes that are counted.
LEMMA FoldersBetween ==
    ASSUME AtTheEnd
    PROVE  Cardinality({Parent[counted[k].path] : k \in {k \in 1..Len(counted) : Parent[counted[k].path] # Root}})
             \in Cardinality(FoldersOf(Sure))..Cardinality(FoldersOf(Countable))
<1> DEFINE F == {Parent[counted[k].path] : k \in {k \in 1..Len(counted) : Parent[counted[k].path] # Root}}
<1>1. F = FoldersOf(Chosen)
    BY DEF AtTheEnd, CountedInv, Chosen, Taken, FoldersOf
<1>2. FoldersOf(Sure) \subseteq FoldersOf(Chosen) /\ FoldersOf(Chosen) \subseteq FoldersOf(Countable)
    BY ChosenBetween DEF FoldersOf
<1>3. IsFiniteSet(FoldersOf(Countable))
  <2>1. IsFiniteSet({Parent[p] : p \in Countable})
      BY ChosenBetween, ImageIsFinite
  <2> QED
      BY <2>1, FS_Subset DEF FoldersOf
<1>4. /\ Cardinality(FoldersOf(Sure)) <= Cardinality(FoldersOf(Chosen))
      /\ Cardinality(FoldersOf(Chosen)) <= Cardinality(FoldersOf(Countable))
      /\ Cardinality(FoldersOf(Sure)) \in Nat /\ Cardinality(FoldersOf(Chosen)) \in Nat
      /\ Cardinality(FoldersOf(Countable)) \in Nat
    BY <1>2, <1>3, FS_Subset, FS_CardinalityType
<1>5. Cardinality(FoldersOf(Chosen)) \in Cardinality(FoldersOf(Sure))..Cardinality(FoldersOf(Countable))
    BY <1>4
<1> QED
    BY <1>1, <1>5, Zenon

LEMMA TopFolderIs ==
    ASSUME NEW p \in Paths, NEW f \in Paths, Parent[f] = Root
    PROVE  TopFolder(p) = f <=> f \in Above[p]
<1>1. \E q \in Above[p] : Parent[q] = Root
    BY ReadsAssumption
<1>2. TopFolder(p) \in Above[p] /\ Parent[TopFolder(p)] = Root
    BY <1>1 DEF TopFolder
<1>3. f \in Above[p] => TopFolder(p) = f
    BY <1>2, ReadsAssumption
<1> QED
    BY <1>2, <1>3

LEMMA TopFoldersBetween ==
    ASSUME AtTheEnd, NEW f \in Paths, Parent[f] = Root
    PROVE  Cardinality({k \in {k \in 1..Len(counted) : Parent[counted[k].path] # Root} :
                          TopFolder(counted[k].path) = f})
             \in Cardinality(In(f, Sure))..Cardinality(In(f, Countable))
<1> DEFINE K == {k \in {k \in 1..Len(counted) : Parent[counted[k].path] # Root} :
                   TopFolder(counted[k].path) = f}
           T == In(f, Chosen)
           g == [k \in K |-> counted[k].path]
<1>1. CountedInv
    BY DEF AtTheEnd
<1>2. IsFiniteSet(K)
  <2>1. PICK n : n = Len(counted)
      OBVIOUS
  <2>2. n \in Nat
      BY <1>1, <2>1 DEF CountedInv
  <2>3. IsFiniteSet(1..n) /\ K \subseteq 1..n
      BY <2>1, <2>2, FS_Interval
  <2> HIDE DEF K
  <2> QED
      BY <2>3, FS_Subset
<1>3. \A k \in 1..Len(counted) : counted[k].path \in Chosen
    BY <1>1 DEF CountedInv, Chosen, Taken
<1>4. \A p \in Chosen : p \in Paths /\ \E k \in 1..Len(counted) : counted[k].path = p
    BY DEF Chosen, Taken
<1>5. \A k \in 1..Len(counted) : k \in K <=> counted[k].path \in T
    BY <1>3, <1>4, TopFolderIs DEF In
<1>6. g \in [K -> T] /\ \A x \in T : \E k \in K : g[k] = x
  <2>1. \A k \in K : k \in 1..Len(counted)
      OBVIOUS
  <2>2. \A x \in T : x \in Chosen
      BY DEF In
  <2> HIDE DEF K, T
  <2> QED
      BY <1>4, <1>5, <2>1, <2>2
<1>7. \A j, k \in K : g[j] = g[k] => j = k
    BY <1>1 DEF CountedInv
<1>8. Cardinality(T) = Cardinality(K)
  <2> HIDE DEF K, T, g
  <2> QED
      BY <1>2, <1>6, <1>7, ImageCounts
<1>9. /\ In(f, Sure) \subseteq T /\ T \subseteq In(f, Countable) /\ In(f, Countable) \subseteq Countable
    BY ChosenBetween DEF In
<1>10. /\ Cardinality(In(f, Sure)) <= Cardinality(T) /\ Cardinality(T) <= Cardinality(In(f, Countable))
       /\ Cardinality(In(f, Sure)) \in Nat /\ Cardinality(T) \in Nat /\ Cardinality(In(f, Countable)) \in Nat
  <2> HIDE DEF T
  <2>1. IsFiniteSet(In(f, Countable))
      BY <1>9, ChosenBetween, FS_Subset
  <2> QED
      BY <1>9, <2>1, FS_Subset, FS_CardinalityType
<1> HIDE DEF T
<1> QED
    BY <1>8, <1>10

\* What a summary that does not fail says.
\* The last change is one of a note there was, and no earlier than any of those
\* that stay.
LEMMA ModifiedBetween ==
    ASSUME AtTheEnd, answer.last_modified = Max({0} \union {n.stat.mtime : n \in ToSet(counted)})
    PROVE  ModifiedFits
<1> PICK n : n = Len(counted)
    OBVIOUS
<1> PICK c : c = CountedPaths
    OBVIOUS
<1> DEFINE m == [k \in 1..n |-> counted[k].stat.mtime]
           S == {m[k] : k \in 1..n}
<1>1. /\ n \in Nat
      /\ \A p \in Sure : \E k \in 1..n : c[k] = p
      /\ \A k \in 1..n : c[k] \in Countable /\ c[k] = counted[k].path /\ Fits(counted[k])
    BY CountedPathsAre
<1>2. \A k \in 1..n : counted[k].stat \in Notes(c[k]) /\ IsNote(counted[k].stat)
  <2>1. \A p \in Paths : \A e \in Notes(p) : IsNote(e)
      BY DEF AtTheEnd, VaultInv
  <2> QED
      BY <1>1, <2>1 DEF Fits, Countable
<1>3. \A k \in 1..n : m[k] = counted[k].stat.mtime /\ m[k] \in Nat
    BY <1>2 DEF IsNote
<1>4. counted = [k \in 1..n |-> counted[k]]
    BY DEF AtTheEnd, CountedInv
<1>5. {note.stat.mtime : note \in ToSet(counted)} = {m[k] : k \in 1..n}
  <2>1. ToSet(counted) = {counted[k] : k \in 1..n}
      BY <1>4 DEF ToSet
  <2> QED
      BY <1>3, <2>1
<1> HIDE DEF m
<1>6. IsFiniteSet(S)
  <2>1. IsFiniteSet(1..n)
      BY <1>1, FS_Interval
  <2> QED
      BY <2>1, ImageIsFinite
<1>7. PICK V : V = S
    OBVIOUS
<1> DEFINE T == {0} \union V
<1>8. Max(T) \in T /\ \A x \in T : x <= Max(T)
  <2>1. T \in SUBSET Nat /\ T # {}
      BY <1>3, <1>7
  <2>2. IsFiniteSet(V) /\ IsFiniteSet({0})
      BY <1>6, <1>7, FS_Singleton
  <2>3. IsFiniteSet(T)
      BY <2>2, FS_Union
  <2> HIDE DEF T
  <2> QED
      BY <2>1, <2>3, FiniteExtremes
<1>9. answer.last_modified = Max(T)
    BY <1>5, <1>7
<1>10. \/ Max(T) = 0
       \/ \E p \in Countable : \E e \in Notes(p) : e.mtime = Max(T)
  <2>1. CASE Max(T) \in V
    <3>1. PICK k \in 1..n : Max(T) = m[k]
        BY <1>7, <2>1
    <3>2. c[k] \in Countable /\ counted[k].stat \in Notes(c[k]) /\ counted[k].stat.mtime = m[k]
        BY <1>1, <1>2, <1>3
    <3> HIDE DEF T
    <3> QED
        BY <3>1, <3>2, Zenon
  <2> QED
      BY <1>8, <2>1
<1>11. ASSUME NEW p \in Sure PROVE \E e \in Notes(p) : e.mtime <= Max(T)
  <2>1. PICK k \in 1..n : c[k] = p
      BY <1>1
  <2>2. m[k] \in V
      BY <1>7
  <2>3. m[k] <= Max(T)
      BY <1>8, <2>2
  <2> QED
      BY <1>2, <1>3, <2>1, <2>3
<1> QED
    BY <1>9, <1>10, <1>11 DEF ModifiedFits

LEMMA SummaryInvFits ==
    ASSUME ReadsInv, SummaryInv, pc = "done", call.tool = "summary", ~Failed
    PROVE  NotesFit /\ BytesFit /\ FoldersFit /\ TagsFit /\ ModifiedFits
<1> DEFINE inFolder == {k \in 1..Len(counted) : Parent[counted[k].path] # Root}
           uses == [t \in Tags |-> Uses(t, counted)]
<1>1. /\ Finished /\ files = <<>> /\ walk = <<>> /\ answer = Summary(counted)
      /\ call.top_tags_limit \in 1..200
    BY DEF SummaryInv, Finished
<1>2. AtTheEnd
  <2>1. Ahead = {}
      BY <1>1, EmptySeq DEF Ahead, Pending
  <2> QED
      BY <2>1 DEF AtTheEnd, SummaryInv, ReadsInv
<1>3. /\ answer.note_count = Len(counted)
      /\ answer.total_bytes = SumOf(LAMBDA note : note.stat.size, counted)
      /\ answer.folder_count = Cardinality({Parent[counted[k].path] : k \in inFolder})
      /\ answer.top_level = [f \in {q \in Paths : Parent[q] = Root} |->
                               Cardinality({k \in inFolder : TopFolder(counted[k].path) = f})]
      /\ answer.tags = [t \in TopTags(uses, call.top_tags_limit) |-> uses[t]]
      /\ answer.skipped_count = skipped
    BY <1>1 DEF Summary, Tags
<1>4. NotesFit
  <2>1. /\ SkippedInv /\ used.faults \in Nat
      BY <1>2 DEF AtTheEnd, VaultInv, IsUse
  <2>2. /\ Cardinality(Sure) <= Cardinality(Chosen) /\ Cardinality(Chosen) <= Cardinality(Countable)
        /\ Cardinality(Sure) \in Nat /\ Cardinality(Chosen) \in Nat /\ Cardinality(Countable) \in Nat
        /\ Cardinality(Chosen) = Len(counted)
      BY <1>2, ChosenBetween, FS_Subset, FS_CardinalityType
  <2>3. /\ Cardinality(Staying) <= Cardinality(Chosen) + Cardinality(Lost)
        /\ Cardinality(Staying) \in Nat /\ Cardinality(Lost) \in Nat
    <3>1. Staying \subseteq Chosen \union Lost /\ Staying \subseteq Paths
        BY <1>2, ChosenBetween DEF Staying
    <3>2. IsFiniteSet(Chosen) /\ IsFiniteSet(Staying) /\ IsFiniteSet(Lost)
        BY <1>2, <3>1, ChosenBetween, PathsAreFinite, FS_Subset
    <3>3. /\ IsFiniteSet(Chosen \union Lost)
          /\ Cardinality(Chosen \union Lost) =
               Cardinality(Chosen) + Cardinality(Lost) - Cardinality(Chosen \intersect Lost)
        BY <3>2, FS_Union
    <3>4. Cardinality(Chosen \intersect Lost) \in Nat
        BY <3>2, FS_Subset, FS_CardinalityType
    <3>5. Cardinality(Staying) <= Cardinality(Chosen \union Lost)
        BY <3>1, <3>3, FS_Subset
    <3>6. Cardinality(Staying) \in Nat /\ Cardinality(Lost) \in Nat /\ Cardinality(Chosen) \in Nat
        BY <3>2, FS_CardinalityType
    <3> QED
        BY <3>3, <3>4, <3>5, <3>6
  <2>4. Cardinality(Spent) <= Cardinality(Doubtful) /\ Cardinality(Spent) \in Nat /\ Cardinality(Doubtful) \in Nat
    <3>1. Spent \subseteq Doubtful /\ Doubtful \subseteq Paths
        BY ReadsAssumption DEF Spent, Doubtful
    <3>2. IsFiniteSet(Doubtful)
        BY <3>1, PathsAreFinite, FS_Subset
    <3> QED
        BY <3>1, <3>2, FS_Subset, FS_CardinalityType
  <2>5. skipped \in Nat /\ Cardinality(Lost) <= skipped /\ skipped <= used.faults + Cardinality(Spent)
      BY <2>1 DEF SkippedInv
  <2>6. Len(counted) \in Cardinality(Sure)..Cardinality(Countable)
      BY <2>2
  <2>7. Len(counted) + skipped >= Cardinality(Staying)
      BY <2>2, <2>3, <2>5
  <2>8. skipped <= used.faults + Cardinality(Doubtful)
      BY <2>1, <2>4, <2>5
  <2> QED
      BY <1>3, <2>6, <2>7, <2>8 DEF NotesFit
<1>5. BytesFit
    BY <1>2, <1>3, BytesBetween DEF BytesFit
<1>6. FoldersFit
  <2>1. answer.folder_count \in Cardinality(FoldersOf(Sure))..Cardinality(FoldersOf(Countable))
      BY <1>2, <1>3, FoldersBetween
  <2>2. ASSUME NEW f \in DOMAIN answer.top_level
        PROVE  answer.top_level[f] \in Cardinality(In(f, Sure))..Cardinality(In(f, Countable))
    <3>1. /\ f \in Paths /\ Parent[f] = Root
          /\ answer.top_level[f] = Cardinality({k \in inFolder : TopFolder(counted[k].path) = f})
        BY <1>3, <2>2
    <3> QED
        BY <1>2, <3>1, TopFoldersBetween
  <2> QED
      BY <2>1, <2>2 DEF FoldersFit
<1>7. TagsFit
  <2> HIDE DEF uses
  <2> PICK Top, limit : Top = TopTags(uses, call.top_tags_limit) /\ limit = call.top_tags_limit
      OBVIOUS
  <2>0. limit \in Nat /\ answer.tags = [t \in Top |-> uses[t]]
    <3>1. answer.tags = [t \in TopTags(uses, call.top_tags_limit) |-> uses[t]]
        BY <1>3
    <3>2. answer.tags = [t \in Top |-> uses[t]]
        BY <3>1, Zenon
    <3>3. limit \in 1..200
        BY <1>1
    <3>4. limit \in Nat
        BY <3>3
    <3> QED
        BY <3>2, <3>4, Zenon
  <2>1. limit \in Nat /\ DOMAIN answer.tags = Top /\ \A t \in Top : answer.tags[t] = uses[t]
      BY <2>0
  <2>2. Tags \in SUBSET Nat /\ IsFiniteSet(Tags)
    <3>1. Tags \in SUBSET Nat
        BY ReadsAssumption DEF Tags
    <3>2. IsFiniteSet({Fold[x] : x \in DOMAIN Fold})
        BY ReadsAssumption, ImageIsFinite
    <3> QED
        BY <3>1, <3>2 DEF Tags
  <2>3. \A t \in Tags : /\ uses[t] \in AtLeast(t)..AtMost(t)
                        /\ uses[t] \in Nat /\ AtLeast(t) \in Nat
      BY <1>2, UsesBetween DEF uses
  <2>4. uses \in [Tags -> Nat]
      BY <2>3 DEF uses
  <2>5. /\ Cardinality(Top) <= limit /\ Top \subseteq Tags
        /\ \A u \in Tags \ Top :
             \/ uses[u] = 0
             \/ Cardinality(Top) = limit /\ \A t \in Top : uses[u] <= uses[t]
      BY <2>1, <2>2, <2>4, TopTagsFit
  <2>6. \A t \in Top : answer.tags[t] \in AtLeast(t)..AtMost(t)
      BY <2>1, <2>3, <2>5
  <2>7. ASSUME NEW u \in Tags \ Top
        PROVE  \/ AtLeast(u) = 0
               \/ Cardinality(Top) = limit /\ \A t \in Top : AtLeast(u) <= answer.tags[t]
    <3>1. AtLeast(u) <= uses[u] /\ uses[u] \in Nat /\ AtLeast(u) \in Nat
        BY <2>3
    <3>2. CASE uses[u] = 0
        BY <3>1, <3>2
    <3>3. CASE Cardinality(Top) = limit /\ \A t \in Top : uses[u] <= uses[t]
      <4>1. \A t \in Top : AtLeast(u) <= uses[t]
          BY <2>3, <2>5, <3>1, <3>3
      <4> QED
          BY <2>1, <3>3, <4>1
    <3> QED
        BY <2>5, <3>2, <3>3
  <2> QED
      BY <2>1, <2>5, <2>6, <2>7 DEF TagsFit
<1>8. ModifiedFits
    BY <1>1, <1>2, ModifiedBetween DEF Summary
<1> QED
    BY <1>4, <1>5, <1>6, <1>7, <1>8

\* Whatever the vault and the tags, and whatever the host does meanwhile: each
\* number of a summary lies between that of the notes which stay and that of
\* all the notes there were, what stays and is not counted was skipped, and no
\* tag is left out but for others that are used as much
\* (vault_service.summarise_vault, path_security.iter_vault_notes).
THEOREM SummaryHolds == Spec => []SummaryFitsTheVault
<1>1. ReadsInv /\ SummaryInv => SummaryFitsTheVault
    BY SummaryInvFits DEF SummaryFitsTheVault, Answers
<1> QED
    BY <1>1, SummaryInvariance, PTL
=============================================================================
