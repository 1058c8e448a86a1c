----------------------------- MODULE McpProofs -----------------------------
(***************************************************************************)
(* Theorems about McpCalls, for any calls, tools, pools and cancellations: *)
(* the audit log, the answers and the thread pools.                        *)
(***************************************************************************)
EXTENDS McpCalls, FiniteSetTheorems, SequenceTheorems, TLAPS

\* The lines of calls whose body never ran: the strict middleware's, and that
\* of a scan cancelled in the queue.
RefusalLines == {<<"error", "VALIDATION_ERROR">>, Line("exception")}

\* Up to its body a call leaves nothing.
Quiet(c) == result[c] = "none" /\ log[c] = <<>> /\ answer[c] = "none"

\* A plain tool writes its line in its thread, a scan when it leaves.
Told(c) ==
    /\ result[c] \in Results /\ answer[c] = "none"
    /\ log[c] = IF Tool[c] = "scan" THEN <<>> ELSE <<Line(result[c])>>

\* A call that is over was refused or cancelled before its body, or it has the
\* line and the answer of its result.
Refused(c) ==
    /\ result[c] = "none" /\ answer[c] \in {"none", "INVALID_PARAMS", "schema error"}
    /\ log[c] = <<>> \/ \E line \in RefusalLines : log[c] = <<line>>
Ended(c) ==
    /\ result[c] \in Results /\ log[c] = <<Line(result[c])>>
    /\ answer[c] \in {"none", Reply(result[c])}

CallInv(c) ==
    /\ pc[c] \in {"new", "waiting", "polling", "running", "leaving", "over"}
    /\ pc[c] \in {"new", "waiting", "polling", "running"} => Quiet(c)
    /\ pc[c] = "polling" => Tool[c] # "scan"
    /\ pc[c] = "leaving" => Told(c)
    /\ pc[c] = "over" => Refused(c) \/ Ended(c)

Maps ==
    /\ pc = [c \in Calls |-> pc[c]] /\ result = [c \in Calls |-> result[c]]
    /\ log = [c \in Calls |-> log[c]] /\ answer = [c \in Calls |-> answer[c]]

McpInv == Maps /\ \A c \in Calls : CallInv(c)

-----------------------------------------------------------------------------
\* What CallInv(c) reads of the state.
Own(c) == <<pc[c], result[c], log[c], answer[c]>>

\* A call that no step touches keeps its part of the invariant.
LEMMA CallFrame ==
    ASSUME NEW c \in Calls, CallInv(c), Own(c)' = Own(c)
    PROVE  CallInv(c)'
BY DEF CallInv, Own, Quiet, Told, Refused, Ended

\* A step is a step of one call: it keeps the four maps maps, and leaves what
\* belongs to the others alone.
LEMMA OneCallSteps ==
    ASSUME Maps, NEW c \in Calls,
           Arrive(c) \/ Proceed(c) \/ Cancel(c)
    PROVE  Maps' /\ \A d \in Calls \ {c} : Own(d)' = Own(d)
<1> USE DEF Maps, Own, Write, Deliver
<1>1. CASE RefuseUnexpected(c) BY <1>1 DEF RefuseUnexpected
<1>2. CASE RefuseSchema(c) BY <1>2 DEF RefuseSchema
<1>3. CASE Enter(c) BY <1>3 DEF Enter
<1>4. CASE Take(c) BY <1>4 DEF Take
<1>5. CASE ReturnScan(c) BY <1>5 DEF ReturnScan
<1>6. CASE ReturnPlain(c) BY <1>6 DEF ReturnPlain, EndsPlain
<1>7. CASE Leave(c) BY <1>7 DEF Leave
<1>8. CASE CancelWaiting(c) BY <1>8 DEF CancelWaiting
<1>9. CASE CancelRunning(c) BY <1>9 DEF CancelRunning
<1>10. CASE TakeLock(c) BY <1>10 DEF TakeLock
<1>11. CASE GiveUp(c) BY <1>11 DEF GiveUp, EndsPlain
<1> QED
    BY <1>1, <1>2, <1>3, <1>4, <1>5, <1>6, <1>7, <1>8, <1>9, <1>10, <1>11
    DEF Arrive, Proceed, Poll, Return, Cancel

\* The call that steps keeps its part: its one line is written either as its
\* body ends or as it leaves, and its answer is made from the same result.
LEMMA CallSteps ==
    ASSUME Maps, NEW c \in Calls, CallInv(c),
           Arrive(c) \/ Proceed(c) \/ Cancel(c)
    PROVE  CallInv(c)'
<1> USE DEF Maps, CallInv
<1>1. CASE RefuseUnexpected(c)
    BY <1>1 DEF RefuseUnexpected, Write, Quiet, Refused, RefusalLines
<1>2. CASE RefuseSchema(c)
    BY <1>2 DEF RefuseSchema, Quiet, Refused
<1>3. CASE Enter(c)
    BY <1>3 DEF Enter, Quiet
<1>4. CASE Take(c)
    BY <1>4 DEF Take, Quiet
<1>5. CASE ReturnScan(c)
    BY <1>5, McpAssumption DEF ReturnScan, Quiet, Told
<1>6. CASE ReturnPlain(c)
    BY <1>6, McpAssumption DEF ReturnPlain, EndsPlain, Write, Quiet, Told
<1>7. CASE Leave(c)
  <2>1. /\ result'[c] = result[c] /\ pc'[c] = "over"
        /\ answer'[c] \in {"none", Reply(result[c])}
      BY <1>7 DEF Leave, Deliver
  <2>2. log'[c] = <<Line(result[c])>>
      BY <1>7 DEF Leave, Write, Told
  <2>3. result[c] \in Results
      BY <1>7 DEF Leave, Told
  <2> QED
      BY <2>1, <2>2, <2>3 DEF Ended
<1>8. CASE CancelWaiting(c)
    BY <1>8 DEF CancelWaiting, Write, Quiet, Refused, RefusalLines
<1>9. CASE CancelRunning(c)
    BY <1>9 DEF CancelRunning, Quiet, Told
<1>10. CASE TakeLock(c)
    BY <1>10 DEF TakeLock, Quiet
<1>11. CASE GiveUp(c)
  <2>1. PICK x \in Results : EndsPlain(c, x)
      BY <1>11, McpAssumption DEF GiveUp, Results
  <2> QED
      BY <1>11, <2>1 DEF GiveUp, EndsPlain, Write, Quiet, Told
<1> QED
    BY <1>1, <1>2, <1>3, <1>4, <1>5, <1>6, <1>7, <1>8, <1>9, <1>10, <1>11
    DEF Arrive, Proceed, Poll, Return, Cancel

\* The invariant holds throughout.
LEMMA McpAlways == Spec => []McpInv
<1>1. Init => McpInv
    BY DEF Init, McpInv, Maps, CallInv, Quiet
<1>2. McpInv /\ [Next]_vars => McpInv'
  <2> SUFFICES ASSUME McpInv, [Next]_vars PROVE McpInv'
      OBVIOUS
  <2>1. CASE UNCHANGED vars
    <3>1. Maps' /\ \A c \in Calls : Own(c)' = Own(c)
        BY <2>1 DEF vars, McpInv, Maps, Own
    <3> QED
        BY <3>1, CallFrame DEF McpInv
  <2>2. ASSUME NEW c \in Calls, Arrive(c) \/ Proceed(c) \/ Cancel(c)
        PROVE  McpInv'
    <3>1. Maps' /\ \A d \in Calls \ {c} : Own(d)' = Own(d)
        BY <2>2, OneCallSteps DEF McpInv
    <3>2. CallInv(c)'
        BY <2>2, CallSteps DEF McpInv
    <3>3. \A d \in Calls \ {c} : CallInv(d)'
        BY <3>1, CallFrame DEF McpInv
    <3> QED
        BY <3>1, <3>2, <3>3 DEF McpInv
  <2>3. AllOver => UNCHANGED vars
      BY DEF AllOver
  <2> QED
      BY <2>1, <2>2, <2>3 DEF Next
<1> QED
    BY <1>1, <1>2, PTL DEF Spec

-----------------------------------------------------------------------------
\* The line of a result says success exactly if the body returned.
LEMMA LineStatus == ASSUME NEW x PROVE Line(x)[1] = "success" <=> x = "ok"
BY DEF Line, StatusOf

\* The line of a call whose body never ran is one of failure.
LEMMA RefusalStatus == ASSUME NEW line \in RefusalLines PROVE line[1] # "success"
<1>1. Line("exception")[1] # "success"
    BY LineStatus
<1> QED
    BY <1>1 DEF RefusalLines

\* The client gets a result exactly if the body returned.
LEMMA ReplyStatus == ASSUME NEW x \in Results PROVE Reply(x) = "result" <=> x = "ok"
<1>1. x = "ok" => Reply(x) = "result"
    BY DEF Reply
<1>2. x = "client_error" => Reply(x) = "INVALID_PARAMS"
    BY DEF Reply
<1>3. x \notin {"ok", "client_error"} => Reply(x) = "INTERNAL_ERROR"
    BY DEF Reply
<1> QED
    BY <1>1, <1>2, <1>3

\* The audit log of _McpCall and the strict middleware: at most one line a call,
\* that of its result if its body ended, and no success without one.
THEOREM LogTellsTheTruth == Spec => []AuditTellsTheTruth
<1>1. McpInv => AuditTellsTheTruth
  <2> SUFFICES ASSUME NEW c \in Calls, CallInv(c)
               PROVE  /\ Len(log[c]) <= 1
                      /\ pc[c] = "over" /\ result[c] # "none" => log[c] = <<Line(result[c])>>
                      /\ log[c] # <<>> /\ log[c][1][1] = "success" => result[c] = "ok"
      BY DEF McpInv, AuditTellsTheTruth
  <2>1. CASE log[c] = <<>>
    <3>1. Len(log[c]) = 0 /\ log[c] # <<Line(result[c])>>
        BY <2>1
    <3>2. pc[c] = "over" => result[c] = "none"
        BY <3>1 DEF CallInv, Refused, Ended
    <3> QED
        BY <2>1, <3>1, <3>2
  <2>2. CASE result[c] = "none" /\ \E line \in RefusalLines : log[c] = <<line>>
    <3>1. PICK line \in RefusalLines : log[c] = <<line>>
        BY <2>2
    <3>2. log[c] # <<>> /\ log[c][1] = line /\ Len(log[c]) = 1
        BY <3>1
    <3> QED
        BY <2>2, <3>2, RefusalStatus
  <2>3. CASE log[c] = <<Line(result[c])>>
      BY <2>3, LineStatus
  <2> QED
      BY <2>1, <2>2, <2>3 DEF CallInv, Quiet, Told, Refused, Ended
<1> QED
    BY McpAlways, <1>1, PTL

\* __exit__ logs and answers from the same exception: the client of a call whose
\* line says success got a result, and no other did.
THEOREM ClientAndLogAgree == Spec => []AnswerMatchesLine
<1>1. McpInv => AnswerMatchesLine
  <2> SUFFICES ASSUME NEW c \in Calls, CallInv(c),
                      pc[c] = "over", log[c] # <<>>, answer[c] # "none"
               PROVE  log[c][1][1] = "success" <=> answer[c] = "result"
      BY DEF McpInv, AnswerMatchesLine
  <2>1. CASE Refused(c)
    <3>1. PICK line \in RefusalLines : log[c] = <<line>>
        BY <2>1 DEF Refused
    <3>2. log[c][1][1] # "success"
        BY <3>1, RefusalStatus
    <3> QED
        BY <2>1, <3>2 DEF Refused
  <2>2. CASE Ended(c)
    <3>1. answer[c] = Reply(result[c]) /\ log[c][1] = Line(result[c])
        BY <2>2 DEF Ended
    <3> QED
        BY <2>2, <3>1, LineStatus, ReplyStatus DEF Ended
  <2> QED
      BY <2>1, <2>2 DEF CallInv
<1> QED
    BY McpAlways, <1>1, PTL

-----------------------------------------------------------------------------
(* The limiters.                                                           *)

\* The calls in a queue; one that holds none twice.
Waiters(s) == {s[k] : k \in 1..Len(s)}
Once(s) == \A j, k \in 1..Len(s) : s[j] = s[k] => j = k

\* A call that comes last, goes first, or leaves the queue where it stands.
LEMMA AppendWaits ==
    ASSUME NEW s \in Seq(Calls), Once(s), NEW c \in Calls, c \notin Waiters(s)
    PROVE  /\ Append(s, c) \in Seq(Calls) /\ Once(Append(s, c))
           /\ Waiters(Append(s, c)) = Waiters(s) \union {c}
<1> DEFINE t == Append(s, c)
<1>1. /\ t \in Seq(Calls) /\ Len(s) \in Nat /\ Len(t) = Len(s) + 1 /\ t[Len(t)] = c
      /\ \A k \in 1..Len(s) : t[k] = s[k]
    OBVIOUS
<1> HIDE DEF t
<1>2. 1..Len(t) = 1..Len(s) \union {Len(t)}
    BY <1>1
<1>3. \A k \in 1..Len(s) : s[k] # c
    BY DEF Waiters
<1>4. Once(t)
    BY <1>1, <1>2, <1>3 DEF Once
<1>5. Waiters(t) = Waiters(s) \union {c}
    BY <1>1, <1>2 DEF Waiters
<1> QED
    BY <1>1, <1>4, <1>5 DEF t

LEMMA TailWaits ==
    ASSUME NEW s \in Seq(Calls), Once(s), s # <<>>
    PROVE  /\ Tail(s) \in Seq(Calls) /\ Once(Tail(s))
           /\ Waiters(Tail(s)) = Waiters(s) \ {Head(s)}
<1> DEFINE t == Tail(s)
<1>1. /\ t \in Seq(Calls) /\ Len(s) \in Nat /\ Len(s) >= 1 /\ Len(t) = Len(s) - 1
      /\ Head(s) = s[1]
      /\ \A k \in 1..Len(t) : t[k] = s[k + 1]
    OBVIOUS
<1> HIDE DEF t
<1>2. \A k \in 1..Len(t) : k + 1 \in 2..Len(s)
    BY <1>1
<1>3. \A k \in 2..Len(s) : k - 1 \in 1..Len(t) /\ t[k - 1] = s[k]
    BY <1>1
<1>4. 1..Len(s) = {1} \union 2..Len(s)
    BY <1>1
<1>5. Once(t)
  <2> SUFFICES ASSUME NEW j \in 1..Len(t), NEW k \in 1..Len(t), t[j] = t[k] PROVE j = k
      BY DEF Once
  <2>1. s[j + 1] = s[k + 1] /\ j + 1 \in 1..Len(s) /\ k + 1 \in 1..Len(s)
      BY <1>1, <1>2, <1>4
  <2>2. j + 1 = k + 1
      BY <2>1 DEF Once
  <2> QED
      BY <2>2
<1>6. \A k \in 2..Len(s) : s[k] # s[1]
    BY <1>1, <1>4 DEF Once
<1>7. Waiters(t) = {s[k] : k \in 2..Len(s)}
  <2>1. ASSUME NEW k \in 1..Len(t) PROVE t[k] \in {s[m] : m \in 2..Len(s)}
    <3>1. k + 1 \in 2..Len(s) /\ t[k] = s[k + 1]
        BY <1>1, <1>2
    <3> QED
        BY <3>1
  <2>2. ASSUME NEW m \in 2..Len(s) PROVE s[m] \in Waiters(t)
    <3>1. m - 1 \in 1..Len(t) /\ t[m - 1] = s[m]
        BY <1>3
    <3> QED
        BY <3>1 DEF Waiters
  <2>3. \A x \in Waiters(t) : x \in {s[m] : m \in 2..Len(s)}
      BY <2>1 DEF Waiters
  <2> QED
      BY <2>2, <2>3
<1>8. Waiters(s) = {s[1]} \union {s[k] : k \in 2..Len(s)}
    BY <1>4 DEF Waiters
<1> QED
    BY <1>1, <1>5, <1>6, <1>7, <1>8 DEF t

LEMMA WithoutWaits ==
    ASSUME NEW s \in Seq(Calls), Once(s), NEW c \in Waiters(s)
    PROVE  /\ Without(s, c) \in Seq(Calls) /\ Once(Without(s, c))
           /\ Waiters(Without(s, c)) = Waiters(s) \ {c}
<1> DEFINE i == CHOOSE k \in 1..Len(s) : s[k] = c
           t == Without(s, c)
<1>1. i \in 1..Len(s) /\ s[i] = c /\ Len(s) \in Nat
    BY DEF Waiters
<1>2. t = SubSeq(s, 1, i - 1) \o SubSeq(s, i + 1, Len(s))
    BY DEF Without
<1> HIDE DEF i, t
<1> DEFINE a == SubSeq(s, 1, i - 1)
           b == SubSeq(s, i + 1, Len(s))
<1>3. /\ a \in Seq(Calls) /\ Len(a) = i - 1
      /\ \A k \in 1..(i - 1) : a[k] = s[k]
    BY <1>1, SubSeqProperties
<1>4. /\ b \in Seq(Calls) /\ Len(b) = Len(s) - i
      /\ \A k \in 1..(Len(s) - i) : b[k] = s[k + i]
  <2>1. i + 1 \in Int /\ Len(s) \in Int /\ \A k \in (i + 1)..Len(s) : s[k] \in Calls
      BY <1>1
  <2>2. /\ b \in Seq(Calls)
        /\ Len(b) = IF i + 1 <= Len(s) THEN Len(s) - (i + 1) + 1 ELSE 0
        /\ \A k \in 1..(Len(s) - (i + 1) + 1) : b[k] = s[(i + 1) + k - 1]
      BY <2>1, SubSeqProperties
  <2> HIDE DEF b
  <2> QED
      BY <1>1, <2>2
<1> HIDE DEF a, b
<1>5. /\ t \in Seq(Calls) /\ Len(t) = Len(s) - 1
      /\ \A k \in 1..(Len(s) - 1) : t[k] = IF k < i THEN s[k] ELSE s[k + 1]
  <2>1. /\ t = a \o b /\ t \in Seq(Calls) /\ Len(t) = Len(a) + Len(b)
        /\ \A k \in 1..(Len(a) + Len(b)) : t[k] = IF k <= Len(a) THEN a[k] ELSE b[k - Len(a)]
      BY <1>2, <1>3, <1>4, ConcatProperties DEF a, b
  <2>2. ASSUME NEW k \in 1..(Len(s) - 1) PROVE t[k] = IF k < i THEN s[k] ELSE s[k + 1]
    <3>1. CASE k < i
        BY <1>1, <1>3, <1>4, <2>1, <3>1
    <3>2. CASE k >= i
      <4>1. k - (i - 1) \in 1..(Len(s) - i) /\ k - (i - 1) + i = k + 1
          BY <1>1, <3>2
      <4>2. b[k - (i - 1)] = s[k + 1]
          BY <1>4, <4>1
      <4>3. t[k] = b[k - (i - 1)]
          BY <1>1, <1>3, <1>4, <2>1, <3>2
      <4> QED
          BY <1>1, <3>2, <4>2, <4>3
    <3> QED
        BY <1>1, <3>1, <3>2
  <2> QED
      BY <1>1, <1>3, <1>4, <2>1, <2>2
\* Every place but i has its entry in t, and no other place has.
<1> DEFINE from(k) == IF k < i THEN k ELSE k + 1
<1>6. \A k \in 1..Len(t) : from(k) \in 1..Len(s) \ {i} /\ t[k] = s[from(k)]
    BY <1>1, <1>5
<1>7. \A j, k \in 1..Len(t) : from(j) = from(k) => j = k
    BY <1>1, <1>5
<1>8. \A m \in 1..Len(s) \ {i} : \E k \in 1..Len(t) : from(k) = m
  <2> SUFFICES ASSUME NEW m \in 1..Len(s), m # i PROVE \E k \in 1..Len(t) : from(k) = m
      OBVIOUS
  <2>1. CASE m < i
      BY <1>1, <1>5, <2>1
  <2>2. CASE m > i
    <3>1. m - 1 \in 1..Len(t) /\ from(m - 1) = m
        BY <1>1, <1>5, <2>2
    <3> QED
        BY <3>1
  <2> QED
      BY <1>1, <2>1, <2>2
<1> HIDE DEF from
<1>9. Once(t)
    BY <1>6, <1>7 DEF Once
<1>10. \A m \in 1..Len(s) : s[m] = c <=> m = i
    BY <1>1 DEF Once
<1>11. Waiters(t) = {s[m] : m \in 1..Len(s) \ {i}}
  <2>1. ASSUME NEW k \in 1..Len(t) PROVE t[k] \in {s[m] : m \in 1..Len(s) \ {i}}
    <3>1. \E m \in 1..Len(s) \ {i} : t[k] = s[m]
        BY <1>6
    <3> QED
        BY <3>1
  <2>2. ASSUME NEW m \in 1..Len(s) \ {i} PROVE s[m] \in Waiters(t)
    <3>1. \E k \in 1..Len(t) : t[k] = s[m]
        BY <1>6, <1>8
    <3> QED
        BY <3>1 DEF Waiters
  <2>3. \A x \in Waiters(t) : x \in {s[m] : m \in 1..Len(s) \ {i}}
      BY <2>1 DEF Waiters
  <2> QED
      BY <2>2, <2>3
<1>12. Waiters(t) = Waiters(s) \ {c}
    BY <1>10, <1>11 DEF Waiters
<1> QED
    BY <1>5, <1>9, <1>12 DEF t

\* The queue of a pool is that of the calls that wait for it, and the pool has
\* not given out more tokens than it has.
PoolInv(p) ==
    /\ queue[p] \in Seq(Calls) /\ Once(queue[p])
    /\ Waiters(queue[p]) = {c \in Calls : pc[c] = "waiting" /\ PoolOf[c] = p}
    /\ IsFiniteSet(holders[p]) /\ Cardinality(holders[p]) <= Tokens[p]

PoolsInv ==
    /\ DOMAIN queue = Pools /\ DOMAIN holders = Pools
    /\ \A p \in Pools : PoolInv(p)
    /\ cancelled \subseteq Calls /\ locked \subseteq Calls

\* A token more or less.
LEMMA TokenTaken ==
    ASSUME NEW S, IsFiniteSet(S), NEW n \in Nat, NEW c
    PROVE  /\ IsFiniteSet(S \union {c}) /\ IsFiniteSet(S \ {c})
           /\ Cardinality(S) < n => Cardinality(S \union {c}) <= n
           /\ Cardinality(S) <= n => Cardinality(S \ {c}) <= n
<1>1. /\ IsFiniteSet(S \union {c}) /\ Cardinality(S) \in Nat
      /\ Cardinality(S \union {c}) \in {Cardinality(S), Cardinality(S) + 1}
    BY FS_AddElement, FS_CardinalityType
<1>2. /\ IsFiniteSet(S \ {c})
      /\ Cardinality(S \ {c}) \in {Cardinality(S), Cardinality(S) - 1}
    BY FS_RemoveElement, FS_CardinalityType
<1> QED
    BY <1>1, <1>2

\* A step leaves a pool alone, or moves one call in it.
LEMMA PoolFrame ==
    ASSUME NEW p \in Pools, PoolInv(p), queue'[p] = queue[p], holders'[p] = holders[p],
           \A d \in Calls : PoolOf[d] = p => (pc'[d] = "waiting" <=> pc[d] = "waiting")
    PROVE  PoolInv(p)'
<1>1. {d \in Calls : pc'[d] = "waiting" /\ PoolOf[d] = p} =
        {d \in Calls : pc[d] = "waiting" /\ PoolOf[d] = p}
    OBVIOUS
<1> QED
    BY <1>1 DEF PoolInv

LEMMA PoolSteps ==
    ASSUME Maps, PoolsInv, NEW c \in Calls,
           Arrive(c) \/ Proceed(c) \/ Cancel(c)
    PROVE  PoolsInv'
<1> DEFINE q == PoolOf[c]
<1>1. q \in Pools /\ \A d \in Calls : PoolOf[d] \in Pools
    BY DEF PoolOf, Pools
<1>2. Maps' /\ \A d \in Calls \ {c} : pc'[d] = pc[d]
    BY OneCallSteps DEF Own
<1>3. PoolInv(q) /\ Tokens[q] \in Nat
    BY <1>1, McpAssumption DEF PoolsInv, Tokens, Pools
\* The pools of other calls.
<1>4. ASSUME NEW p \in Pools, p # q, queue'[p] = queue[p], holders'[p] = holders[p]
      PROVE  PoolInv(p)'
    BY <1>2, <1>4, PoolFrame DEF PoolsInv
\* A step that neither begins nor ends the wait of c, and gives no token out.
<1>5. ASSUME queue' = queue, pc[c] # "waiting", pc'[c] # "waiting",
             holders' = holders \/ Release(c)
      PROVE  \A p \in Pools : PoolInv(p)'
  <2>1. \A p \in Pools \ {q} : holders'[p] = holders[p]
      BY <1>5 DEF Release, PoolsInv
  <2>2. holders'[q] = holders[q] \/ holders'[q] = holders[q] \ {c}
      BY <1>1, <1>5 DEF Release, PoolsInv
  <2>3. IsFiniteSet(holders[q]) /\ Cardinality(holders[q]) <= Tokens[q]
      BY <1>3 DEF PoolInv
  <2>4. IsFiniteSet(holders[q] \ {c}) /\ Cardinality(holders[q] \ {c}) <= Tokens[q]
    <3> HIDE DEF q
    <3> QED
        BY <1>3, <2>3, TokenTaken
  <2>5. IsFiniteSet(holders'[q]) /\ Cardinality(holders'[q]) <= Tokens[q]
    <3> HIDE DEF q
    <3> QED
        BY <2>2, <2>3, <2>4
  <2>6. {d \in Calls : pc'[d] = "waiting" /\ PoolOf[d] = q} =
          {d \in Calls : pc[d] = "waiting" /\ PoolOf[d] = q}
      BY <1>2, <1>5
  <2>7. PoolInv(q)'
      BY <1>3, <1>5, <2>5, <2>6 DEF PoolInv
  <2> QED
      BY <1>4, <1>5, <2>1, <2>7
<1> HIDE DEF q
<1>6. CASE RefuseUnexpected(c) \/ RefuseSchema(c) \/ ReturnScan(c) \/ ReturnPlain(c)
           \/ Leave(c) \/ CancelRunning(c) \/ TakeLock(c) \/ GiveUp(c)
  <2>1. queue' = queue /\ pc[c] # "waiting" /\ (holders' = holders \/ Release(c))
      BY <1>6 DEF RefuseUnexpected, RefuseSchema, ReturnScan, ReturnPlain, Leave,
                  CancelRunning, TakeLock, GiveUp, EndsPlain
  <2>2. pc'[c] # "waiting"
      BY <1>6 DEF Maps, RefuseUnexpected, RefuseSchema, ReturnScan, ReturnPlain, Leave,
                  CancelRunning, TakeLock, GiveUp, EndsPlain
  <2>3. cancelled' \subseteq Calls /\ locked' \subseteq Calls
      BY <1>6 DEF PoolsInv, RefuseUnexpected, RefuseSchema, ReturnScan, ReturnPlain, Leave,
                  CancelRunning, TakeLock, GiveUp, EndsPlain
  <2>4. DOMAIN holders' = Pools
      BY <2>1 DEF Release, PoolsInv
  <2> QED
      BY <1>5, <2>1, <2>2, <2>3, <2>4 DEF PoolsInv
<1>7. CASE Enter(c)
  <2>1. /\ pc[c] = "new" /\ pc'[c] = "waiting" /\ holders' = holders
        /\ queue' = [queue EXCEPT ![q] = Append(@, c)]
        /\ cancelled' = cancelled /\ locked' = locked
      BY <1>7 DEF Enter, Maps, q
  <2>2. queue'[q] = Append(queue[q], c) /\ \A p \in Pools \ {q} : queue'[p] = queue[p]
      BY <1>1, <2>1 DEF PoolsInv
  <2>3. /\ c \notin Waiters(queue[q]) /\ queue[q] \in Seq(Calls) /\ Once(queue[q])
      BY <1>3, <2>1 DEF PoolInv
  <2>4. /\ queue'[q] \in Seq(Calls) /\ Once(queue'[q])
        /\ Waiters(queue'[q]) = Waiters(queue[q]) \union {c}
      BY <2>2, <2>3, AppendWaits
  <2>5. {d \in Calls : pc'[d] = "waiting" /\ PoolOf[d] = q} =
          {d \in Calls : pc[d] = "waiting" /\ PoolOf[d] = q} \union {c}
      BY <1>2, <2>1 DEF q
  <2>6. PoolInv(q)'
      BY <1>3, <2>1, <2>4, <2>5 DEF PoolInv
  <2> QED
      BY <1>4, <2>1, <2>2, <2>6 DEF PoolsInv
<1>8. CASE Take(c)
  <2>1. /\ pc[c] = "waiting" /\ pc'[c] # "waiting"
        /\ cancelled' = cancelled /\ locked' = locked
        /\ queue[q] # <<>> /\ Head(queue[q]) = c
        /\ Cardinality(holders[q]) < Tokens[q]
        /\ queue' = [queue EXCEPT ![q] = Tail(@)]
        /\ holders' = [holders EXCEPT ![q] = @ \union {c}]
      BY <1>8 DEF Take, Maps, q
  <2>2. /\ queue'[q] = Tail(queue[q]) /\ holders'[q] = holders[q] \union {c}
        /\ \A p \in Pools \ {q} : queue'[p] = queue[p] /\ holders'[p] = holders[p]
        /\ DOMAIN queue' = Pools /\ DOMAIN holders' = Pools
      BY <1>1, <2>1 DEF PoolsInv
  <2>3. /\ queue'[q] \in Seq(Calls) /\ Once(queue'[q])
        /\ Waiters(queue'[q]) = Waiters(queue[q]) \ {c}
      BY <1>3, <2>1, <2>2, TailWaits DEF PoolInv
  <2>4. IsFiniteSet(holders[q])
      BY <1>3 DEF PoolInv
  <2>5. IsFiniteSet(holders[q] \union {c}) /\ Cardinality(holders[q] \union {c}) <= Tokens[q]
      BY <1>3, <2>1, <2>4, TokenTaken
  <2>6. IsFiniteSet(holders'[q]) /\ Cardinality(holders'[q]) <= Tokens[q]
      BY <2>2, <2>5
  <2>7. {d \in Calls : pc'[d] = "waiting" /\ PoolOf[d] = q} =
          {d \in Calls : pc[d] = "waiting" /\ PoolOf[d] = q} \ {c}
      BY <1>2, <2>1
  <2>8. PoolInv(q)'
      BY <1>3, <2>3, <2>6, <2>7 DEF PoolInv
  <2> QED
      BY <1>4, <2>1, <2>2, <2>8 DEF PoolsInv
<1>9. CASE CancelWaiting(c)
  <2>1. /\ pc[c] = "waiting" /\ pc'[c] = "over" /\ holders' = holders
        /\ queue' = [queue EXCEPT ![q] = Without(@, c)]
        /\ cancelled' = cancelled \union {c} /\ locked' = locked
      BY <1>9 DEF CancelWaiting, Maps, q
  <2>2. /\ queue'[q] = Without(queue[q], c)
        /\ \A p \in Pools \ {q} : queue'[p] = queue[p]
        /\ DOMAIN queue' = Pools
      BY <1>1, <2>1 DEF PoolsInv
  <2>3. c \in Waiters(queue[q]) /\ queue[q] \in Seq(Calls) /\ Once(queue[q])
      BY <1>3, <2>1 DEF PoolInv, q
  <2>4. /\ queue'[q] \in Seq(Calls) /\ Once(queue'[q])
        /\ Waiters(queue'[q]) = Waiters(queue[q]) \ {c}
      BY <2>2, <2>3, WithoutWaits
  <2>5. {d \in Calls : pc'[d] = "waiting" /\ PoolOf[d] = q} =
          {d \in Calls : pc[d] = "waiting" /\ PoolOf[d] = q} \ {c}
      BY <1>2, <2>1
  <2>6. PoolInv(q)'
      BY <1>3, <2>1, <2>4, <2>5 DEF PoolInv
  <2> QED
      BY <1>4, <2>1, <2>2, <2>6 DEF PoolsInv
<1> QED
    BY <1>6, <1>7, <1>8, <1>9 DEF Arrive, Proceed, Poll, Return, Cancel

\* The pools stay in order throughout.
LEMMA PoolsAlways == Spec => [](McpInv /\ PoolsInv)
<1>1. Init => PoolsInv
  <2> SUFFICES ASSUME Init PROVE PoolsInv
      OBVIOUS
  <2>1. ASSUME NEW p \in Pools PROVE PoolInv(p)
    <3>1. queue[p] = <<>> /\ holders[p] = {} /\ \A c \in Calls : pc[c] = "new"
        BY DEF Init
    <3>2. Waiters(queue[p]) = {} /\ Once(queue[p]) /\ queue[p] \in Seq(Calls)
        BY <3>1 DEF Waiters, Once
    <3>3. IsFiniteSet(holders[p]) /\ Cardinality(holders[p]) = 0
        BY <3>1, FS_EmptySet
    <3>4. Tokens[p] \in Nat
        BY McpAssumption DEF Tokens, Pools
    <3> QED
        BY <3>1, <3>2, <3>3, <3>4 DEF PoolInv
  <2> QED
      BY <2>1 DEF Init, PoolsInv
<1>2. McpInv /\ PoolsInv /\ [Next]_vars => PoolsInv'
  <2> SUFFICES ASSUME McpInv, PoolsInv, [Next]_vars PROVE PoolsInv'
      OBVIOUS
  <2>1. CASE UNCHANGED vars
      BY <2>1 DEF vars, PoolsInv, PoolInv
  <2>2. ASSUME NEW c \in Calls, Arrive(c) \/ Proceed(c) \/ Cancel(c)
        PROVE  PoolsInv'
      BY <2>2, PoolSteps DEF McpInv
  <2> QED
      BY <2>1, <2>2 DEF Next, AllOver
<1> QED
    BY <1>1, <1>2, McpAlways, PTL DEF Spec

\* Every variable has its type; a pool's queue holds the calls that wait for it,
\* each once, and no pool gives out more tokens than it has, for any number of
\* calls and whoever cancels them.
THEOREM PoolsStayInOrder == Spec => []McpTypeOK
<1>1. McpInv /\ PoolsInv => McpTypeOK
    BY DEF McpInv, Maps, CallInv, Quiet, Told, Refused, Ended, PoolsInv, PoolInv, Waiters,
           Once, McpTypeOK
<1> QED
    BY <1>1, PoolsAlways, PTL
=============================================================================
