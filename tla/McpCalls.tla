------------------------------ MODULE McpCalls ------------------------------
(***************************************************************************)
(* The life of an MCP tool call: mcp_server.py and runtime.py.             *)
(*                                                                         *)
(* A call passes the strict argument middleware and the SDK's schema       *)
(* validation.  A plain tool then waits for a thread of the default pool   *)
(* and runs as a whole in it, _McpCall included.  A scanning tool is a     *)
(* coroutine: it enters _McpCall first and waits for vault_scan_limiter    *)
(* inside it.  Bodies may raise, hang, and be cancelled while they wait;   *)
(* a thread that runs cannot be cancelled.  An append first polls for the  *)
(* inbox lock in its thread, up to a deadline.                             *)
(***************************************************************************)
EXTENDS Integers, Sequences, FiniteSets

CONSTANTS
    Calls,          \* tool calls
    Tool,           \* call -> "scan", "light", "create" or "append"
    Ends,           \* call -> the results its body may have
    MayHang,        \* calls whose body may never return
    ScanTokens,     \* VAULT_SCAN_CONCURRENCY
    DefaultTokens,  \* threads of anyio's default limiter
    MaxCancels      \* bound on cancelled calls

\* A body returns, raises a GatewayError below or from 500, or something else.
Results == {"ok", "client_error", "server_error", "exception"}

Tools == {"scan", "light", "create", "append"}
Pools == {"scan", "default"}
Scans == {c \in Calls : Tool[c] = "scan"}
Tokens == [p \in Pools |-> IF p = "scan" THEN ScanTokens ELSE DefaultTokens]

\* limiter=runtime.vault_scan_limiter replaces the default limiter.
PoolOf == [c \in Calls |-> IF Tool[c] = "scan" THEN "scan" ELSE "default"]

ASSUME McpAssumption ==
    /\ Tool \in [Calls -> Tools] /\ Ends \in [Calls -> SUBSET Results]
    /\ MayHang \subseteq Calls
    /\ ScanTokens \in Nat \ {0} /\ DefaultTokens \in Nat \ {0}
    /\ MaxCancels \in Nat

VARIABLES
    pc,        \* call -> "new", "waiting", "polling", "running", "leaving", "over"
    queue,     \* pool -> calls that wait for a token, first come first served
    holders,   \* pool -> calls that hold a token
    locked,    \* the append that holds the inbox lock, if any
    inCall,    \* calls inside `with _McpCall(...)'
    result,    \* call -> how the body ended, "none" before
    log,       \* call -> its mcp_call lines, as <<status, code>>
    answer,    \* call -> what the client got, "none" before
    cancelled, \* calls cancelled by the client or the server
    hung       \* calls whose body will never return

vars == <<pc, queue, holders, locked, inCall, result, log, answer, cancelled, hung>>

-----------------------------------------------------------------------------
\* The code _McpCall logs; the two GatewayErrors keep their own.
CodeOf(x) == IF x \in {"client_error", "server_error"} THEN x ELSE "INTERNAL_ERROR"
StatusOf(x) == IF x = "ok" THEN "success" ELSE "error"
Line(x) == <<StatusOf(x), IF x = "ok" THEN "" ELSE CodeOf(x)>>

\* Mutant of Reply: __exit__ returns True for a GatewayError it has logged.
ReplySwallowing(x) == CASE x \in {"ok", "client_error"} -> "result"
                        [] OTHER -> "INTERNAL_ERROR"

\* The MCPError that __exit__ makes of it: nothing raw gets through.
Reply(x) == CASE x = "ok" -> "result"
              [] x = "client_error" -> "INVALID_PARAMS"
              [] OTHER -> "INTERNAL_ERROR"

\* A limiter's waiters without c: those behind it move up.
Without(s, c) ==
    LET i == CHOOSE k \in 1..Len(s) : s[k] = c
    IN SubSeq(s, 1, i - 1) \o SubSeq(s, i + 1, Len(s))

Write(c, line) == log' = [log EXCEPT ![c] = Append(@, line)]

Init ==
    /\ pc = [c \in Calls |-> "new"]
    /\ queue = [p \in Pools |-> <<>>]
    /\ holders = [p \in Pools |-> {}]
    /\ locked = {}
    /\ inCall = {}
    /\ result = [c \in Calls |-> "none"]
    /\ log = [c \in Calls |-> <<>>]
    /\ answer = [c \in Calls |-> "none"]
    /\ cancelled = {}
    /\ hung \in SUBSET MayHang

-----------------------------------------------------------------------------
(* Before the tool.                                                        *)

\* _StrictCreateInboxNoteArgumentsMiddleware: a key that is not title or export.
RefuseUnexpected(c) ==
    /\ pc[c] = "new" /\ Tool[c] = "create"
    /\ pc' = [pc EXCEPT ![c] = "over"]
    /\ Write(c, <<"error", "VALIDATION_ERROR">>)
    /\ answer' = [answer EXCEPT ![c] = "INVALID_PARAMS"]
    /\ UNCHANGED <<queue, holders, locked, inCall, result, cancelled, hung>>

\* The SDK validates the arguments against the tool's signature.
RefuseSchema(c) ==
    /\ pc[c] = "new"
    /\ pc' = [pc EXCEPT ![c] = "over"]
    /\ answer' = [answer EXCEPT ![c] = "schema error"]
    /\ UNCHANGED <<queue, holders, locked, inCall, result, log, cancelled, hung>>

\* The call is accepted and asks for a thread.
Enter(c) ==
    /\ pc[c] = "new"
    /\ pc' = [pc EXCEPT ![c] = "waiting"]
    /\ queue' = [queue EXCEPT ![PoolOf[c]] = Append(@, c)]
    /\ inCall' = IF Tool[c] = "scan" THEN inCall \union {c} ELSE inCall
    /\ UNCHANGED <<holders, locked, result, log, answer, cancelled, hung>>

-----------------------------------------------------------------------------
(* In the thread.                                                          *)

\* The first of the queue gets a token, and a thread runs the body.
Take(c) ==
    LET p == PoolOf[c] IN
    /\ pc[c] = "waiting"
    /\ queue[p] # <<>> /\ Head(queue[p]) = c
    /\ Cardinality(holders[p]) < Tokens[p]
    /\ pc' = [pc EXCEPT ![c] = IF Tool[c] = "append" THEN "polling" ELSE "running"]
    /\ queue' = [queue EXCEPT ![p] = Tail(@)]
    /\ holders' = [holders EXCEPT ![p] = @ \union {c}]
    /\ inCall' = inCall \union {c}
    /\ UNCHANGED <<locked, result, log, answer, cancelled, hung>>

Release(c) == holders' = [holders EXCEPT ![PoolOf[c]] = @ \ {c}]

\* Mutant of ReturnScan: an exception keeps the token.
ReturnScanLeaking(c) ==
    /\ pc[c] = "running" /\ Tool[c] = "scan"
    /\ \E x \in Ends[c] :
         /\ result' = [result EXCEPT ![c] = x]
         /\ IF x = "ok" THEN Release(c) ELSE UNCHANGED holders
    /\ pc' = [pc EXCEPT ![c] = "leaving"]
    /\ UNCHANGED <<queue, locked, inCall, log, answer, cancelled, hung>>

\* anyio.to_thread.run_sync gives the token back before the coroutine goes on.
ReturnScan(c) ==
    /\ pc[c] = "running" /\ Tool[c] = "scan"
    /\ \E x \in Ends[c] : result' = [result EXCEPT ![c] = x]
    /\ Release(c)
    /\ pc' = [pc EXCEPT ![c] = "leaving"]
    /\ UNCHANGED <<queue, locked, inCall, log, answer, cancelled, hung>>

\* The body of a plain tool ends in its thread and leaves _McpCall there: the
\* line comes first.
EndsPlain(c, x) ==
    /\ result' = [result EXCEPT ![c] = x]
    /\ Write(c, Line(x))
    /\ inCall' = inCall \ {c}
    /\ pc' = [pc EXCEPT ![c] = "leaving"]
    /\ UNCHANGED <<queue, holders, answer, cancelled, hung>>

\* An append has given its lock back by then.
ReturnPlain(c) ==
    /\ pc[c] = "running" /\ Tool[c] # "scan"
    /\ locked' = locked \ {c}
    /\ \E x \in Ends[c] : EndsPlain(c, x)

\* _acquire_exclusive_lock: a poll that finds nobody holding the inbox lock.
TakeLock(c) ==
    /\ pc[c] = "polling" /\ locked = {}
    /\ locked' = {c}
    /\ pc' = [pc EXCEPT ![c] = "running"]
    /\ UNCHANGED <<queue, holders, inCall, result, log, answer, cancelled, hung>>

\* Mutant of GiveUp: an append polls for as long as another holds the lock.
GiveUpWhenFree(c) ==
    /\ pc[c] = "polling" /\ locked = {}
    /\ \E x \in Ends[c] \ {"ok"} : EndsPlain(c, x)
    /\ UNCHANGED locked

\* The deadline passes (InboxLockTimeoutError, a 503), or the target or the
\* lock file is refused.
GiveUp(c) ==
    /\ pc[c] = "polling"
    /\ \E x \in {"server_error"} \union (Ends[c] \ {"ok"}) : EndsPlain(c, x)
    /\ UNCHANGED locked

\* Nobody hears the answer to a call that was cancelled meanwhile.
Deliver(c, a) ==
    answer' = [answer EXCEPT ![c] = IF c \in cancelled THEN "none" ELSE a]

\* Mutant of Leave: a plain tool is logged a second time.
LeaveLogsAgain(c) ==
    /\ pc[c] = "leaving"
    /\ Write(c, Line(result[c])) /\ inCall' = inCall \ {c}
    /\ IF Tool[c] = "scan" THEN UNCHANGED holders ELSE Release(c)
    /\ Deliver(c, Reply(result[c]))
    /\ pc' = [pc EXCEPT ![c] = "over"]
    /\ UNCHANGED <<queue, locked, result, cancelled, hung>>

\* Back on the event loop: _McpCall.__exit__ of a scan; the token of a plain tool.
Leave(c) ==
    /\ pc[c] = "leaving"
    /\ IF Tool[c] = "scan"
         THEN Write(c, Line(result[c])) /\ inCall' = inCall \ {c} /\ UNCHANGED holders
         ELSE Release(c) /\ UNCHANGED <<log, inCall>>
    /\ Deliver(c, Reply(result[c]))
    /\ pc' = [pc EXCEPT ![c] = "over"]
    /\ UNCHANGED <<queue, locked, result, cancelled, hung>>

-----------------------------------------------------------------------------
(* Cancellation, by a client that goes away or a server that shuts down.   *)

\* Mutant of CancelWaiting: the call keeps its place in the queue.
CancelWaitingInQueue(c) ==
    /\ pc[c] = "waiting"
    /\ IF c \in inCall THEN Write(c, Line("exception")) ELSE UNCHANGED log
    /\ inCall' = inCall \ {c}
    /\ cancelled' = cancelled \union {c}
    /\ pc' = [pc EXCEPT ![c] = "over"]
    /\ UNCHANGED <<queue, holders, locked, result, answer, hung>>

\* A call that waits leaves the queue.  A scan does so inside _McpCall, whose
\* __exit__ takes the cancellation for an exception like any other.
CancelWaiting(c) ==
    /\ pc[c] = "waiting"
    /\ queue' = [queue EXCEPT ![PoolOf[c]] = Without(@, c)]
    /\ IF c \in inCall THEN Write(c, Line("exception")) ELSE UNCHANGED log
    /\ inCall' = inCall \ {c}
    /\ cancelled' = cancelled \union {c}
    /\ pc' = [pc EXCEPT ![c] = "over"]
    /\ UNCHANGED <<holders, locked, result, answer, hung>>

\* A thread is not abandoned: it goes on to its end.
CancelRunning(c) ==
    /\ pc[c] \in {"polling", "running", "leaving"} /\ c \notin cancelled
    /\ cancelled' = cancelled \union {c}
    /\ UNCHANGED <<pc, queue, holders, locked, inCall, result, log, answer, hung>>

Cancel(c) == /\ Cardinality(cancelled) < MaxCancels
             /\ CancelWaiting(c) \/ CancelRunning(c)

-----------------------------------------------------------------------------
Arrive(c) == RefuseUnexpected(c) \/ RefuseSchema(c) \/ Enter(c)
Return(c) == c \notin hung /\ (ReturnScan(c) \/ ReturnPlain(c))
Poll(c) == TakeLock(c) \/ GiveUp(c)
Proceed(c) == Take(c) \/ Poll(c) \/ Return(c) \/ Leave(c)

\* Nothing is left but bodies that hang, and the calls that wait for them.
AllOver == /\ \A c \in Calls : pc[c] \in {"running", "waiting", "over"}
           /\ \A c \in Calls : pc[c] = "running" => c \in hung
           /\ \A c \in Calls : pc[c] = "waiting" =>
                 Cardinality(holders[PoolOf[c]]) = Tokens[PoolOf[c]]
           /\ UNCHANGED vars

Next ==
    \/ \E c \in Calls : Arrive(c) \/ Proceed(c) \/ Cancel(c)
    \/ AllOver

\* The limiters hand out free tokens, threads run, the event loop goes on, a poll
\* for the lock ends with it or at the deadline, and a body returns unless it hangs.
Spec ==
    /\ Init /\ [][Next]_vars
    /\ \A c \in Calls : WF_vars(Proceed(c))

-----------------------------------------------------------------------------
(* Properties.                                                             *)

\* Every variable has its type, and a queue holds the calls that wait, once each.
McpTypeOK ==
    /\ pc \in [Calls -> {"new", "waiting", "polling", "running", "leaving", "over"}]
    /\ \A p \in Pools :
         /\ {queue[p][k] : k \in 1..Len(queue[p])} =
                {c \in Calls : pc[c] = "waiting" /\ PoolOf[c] = p}
         /\ \A j, k \in 1..Len(queue[p]) : queue[p][j] = queue[p][k] => j = k
         /\ Cardinality(holders[p]) <= Tokens[p]
    /\ result \in [Calls -> Results \union {"none"}]
    /\ cancelled \subseteq Calls /\ locked \subseteq Calls

\* The audit trail: a call leaves at most one mcp_call line, a call whose body
\* ended leaves one with its status, whoever cancels it, and a line of success
\* is never that of a body that failed or has not run.
AuditTellsTheTruth ==
    \A c \in Calls :
        /\ Len(log[c]) <= 1
        /\ pc[c] = "over" /\ result[c] # "none" => log[c] = <<Line(result[c])>>
        /\ log[c] # <<>> /\ log[c][1][1] = "success" => result[c] = "ok"

\* What the client is told is what the log says.
AnswerMatchesLine ==
    \A c \in Calls : pc[c] = "over" /\ log[c] # <<>> /\ answer[c] # "none" =>
        (log[c][1][1] = "success" <=> answer[c] = "result")

\* "A write attempt must leave exactly one of these lines either way"
\* (_log_mcp_call), whether its body ran or not.
EveryWriteAttemptIsLogged ==
    \A c \in Calls : Tool[c] = "create" /\ pc[c] = "over" /\ c \notin cancelled =>
        Len(log[c]) = 1

\* Light tools, creates and appends come back although every scan token may be
\* held by a scan that hangs, and although appends wait in their threads for the
\* inbox lock of one that hangs, as long as a thread of the default pool is left
\* (runtime.py: a scan never starves the pool; _acquire_exclusive_lock: a
\* deadline "rather than blocking forever").
LightCallsReturn ==
    Cardinality(hung \ Scans) < DefaultTokens
        ~> \A c \in Calls \ (Scans \union hung) : pc[c] \in {"new", "over"}

\* As long as fewer scans hang than there are tokens, no other scan waits for
\* ever: one that raises, or is cancelled in the queue or in its thread, hands
\* its token or its turn on.
ScansReturn ==
    Cardinality(hung \cap Scans) < ScanTokens
        ~> \A c \in Scans \ hung : pc[c] \in {"new", "over"}
=============================================================================
