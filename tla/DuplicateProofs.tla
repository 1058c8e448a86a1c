--------------------------- MODULE DuplicateProofs ---------------------------
(***************************************************************************)
(* Theorems about DuplicateScan, for any inbox, request, host and failures.*)
(***************************************************************************)
EXTENDS DuplicateScan, FiniteSetTheorems, TLAPS

\* A note has a natural number of the request's keywords.
LEMMA MatchedType ==
    ASSUME NEW c \in Entry, request \in Requests PROVE Matched(c) \in Nat
<1>1. IsFiniteSet(request.keywords)
    BY ScanAssumption, FS_Subset DEF Request
<1>2. IsFiniteSet(c.words \intersect request.keywords)
    BY <1>1, FS_Subset
<1> QED
    BY <1>2, FS_CardinalityType DEF Matched

\* What a match is recorded with.
LEMMA JudgeType ==
    ASSUME NEW n \in Names, NEW c \in Entry, request \in Requests
    PROVE  Judge(n, c) \in Levels \union {"none"} /\ Score(n, c) \in Nat
<1>1. Judge(n, c) \in Levels \union {"none"}
    BY DEF Judge, Confidence, Levels
<1>2. TitleScore(TitleSignal(n, c)) \in Nat
    BY DEF TitleScore
<1> QED
    BY <1>1, <1>2, MatchedType DEF Score

\* Candidates have their type, and there are finitely many of them.
ScanInv == ScanTypeOK /\ IsFiniteSet(scored)

LEMMA ScanInit == Init => ScanInv
BY FS_EmptySet DEF Init, ScanInv, ScanTypeOK

\* What is in hand: an entry with a name, and the time of its stat before open.
LEMMA InHand ==
    ASSUME ScanInv, entry # None
    PROVE  /\ entry.name \in Names
           /\ entry = [name |-> entry.name, at |-> entry.at, mtime |-> entry.mtime]
           /\ entry.at \in SysCalls
           /\ IF entry.at = "open" THEN entry.mtime \in Mtimes ELSE entry.mtime = None
BY DEF ScanInv, ScanTypeOK, SysCalls

\* What stat and open follow is an entry.
LEMMA FollowsEntry ==
    ASSUME ScanInv, NEW n \in Names, Follows(n)
    PROVE  inbox[n] \in Entry
<1>1. inbox[n] # None
    BY DEF Follows, Kind
<1> QED
    BY <1>1, ScanAssumption DEF ScanInv, ScanTypeOK

\* An entry goes on to its next call.
LEMMA GoesType ==
    ASSUME ScanInv, entry # None, NEW call, NEW mtime, Goes(call, mtime),
           \/ call \in {"is_dir", "stat"} /\ mtime = None
           \/ call = "open" /\ mtime \in Mtimes
    PROVE  /\ entry' \in {None} \union [name : Names, at : {"open"}, mtime : Mtimes]
                  \union [name : Names, at : SysCalls \ {"open"}, mtime : {None}]
           /\ entry'.name = entry.name /\ entry'.at = call /\ entry'.mtime = mtime
           /\ entry' # None
<1>1. entry' = [name |-> entry.name, at |-> call, mtime |-> mtime] /\ entry.name \in Names
    BY InHand DEF Goes
<1>2. entry' # None
    BY <1>1, ScanAssumption DEF SysCalls
<1> QED
    BY <1>1, <1>2 DEF SysCalls

\* Every call of the entry in hand keeps the types, as long as a next call is
\* one that there is.
Settles == entry # None /\ (Skip \/ LeaveOut)
LEMMA SettlesType ==
    ASSUME ScanInv, Settles, UNCHANGED <<pc, todo, host>>,
           touched' \in SUBSET Names, used' \in [host : Nat, faults : Nat]
    PROVE  ScanInv'
BY InHand DEF Settles, Skip, LeaveOut, host, ScanInv, ScanTypeOK, Candidate

LEMMA ProceedsType ==
    ASSUME ScanInv, entry # None, NEW call, NEW mtime, Goes(call, mtime),
           \/ call \in {"is_dir", "stat"} /\ mtime = None
           \/ call = "open" /\ mtime \in Mtimes,
           UNCHANGED <<pc, todo, host>>,
           touched' \in SUBSET Names, used' \in [host : Nat, faults : Nat]
    PROVE  ScanInv'
<1>1. entry' \in {None} \union [name : Names, at : {"open"}, mtime : Mtimes]
                \union [name : Names, at : SysCalls \ {"open"}, mtime : {None}]
    BY GoesType
<1>2. UNCHANGED counters
    BY DEF Goes
<1> QED
    BY <1>1, <1>2 DEF counters, host, ScanInv, ScanTypeOK, Candidate

\* Reading a note adds at most one well-typed candidate.
LEMMA ReadType == ScanInv /\ Read => ScanInv'
<1> SUFFICES ASSUME ScanInv, Read PROVE ScanInv'
    OBVIOUS
<1> DEFINE n == entry.name
<1>1. n \in Names /\ entry.mtime \in Mtimes
    BY InHand DEF Read, At
<1>2. inbox[n] \in Entry /\ request \in Requests
    BY <1>1, FollowsEntry DEF Read, ScanInv, ScanTypeOK
<1>3. Judge(n, inbox[n]) \in Levels \union {"none"} /\ Score(n, inbox[n]) \in Nat
    BY <1>1, <1>2, JudgeType
<1>4. scored' = IF Match(n).confidence = "none" THEN scored ELSE scored \union {Match(n)}
    BY DEF Read
<1>5. scored' \subseteq Candidate
    BY <1>1, <1>3, <1>4 DEF Match, ScanInv, ScanTypeOK, Candidate
<1>6. IsFiniteSet(scored')
    BY <1>4, FS_AddElement DEF ScanInv
<1> HIDE DEF n
<1> QED
    BY <1>1, <1>5, <1>6 DEF Read, At, Calm, Scans, host, ScanInv, ScanTypeOK, n

\* Every step keeps the types.
LEMMA ScanStep == ScanInv /\ [Next]_vars => ScanInv'
<1> SUFFICES ASSUME ScanInv, [Next]_vars PROVE ScanInv'
    OBVIOUS
<1>0. /\ touched \in SUBSET Names /\ used \in [host : Nat, faults : Nat]
      /\ Fault => used' \in [host : Nat, faults : Nat]
    BY DEF ScanInv, ScanTypeOK, Fault
<1>1. ASSUME List PROVE ScanInv'
    BY <1>1 DEF List, counters, ScanInv, ScanTypeOK, Candidate
<1>2. ASSUME ListFails PROVE ScanInv'
    BY <1>2 DEF ListFails, Fault, counters, host, ScanInv, ScanTypeOK, Candidate
<1>3. ASSUME NEW n \in Names, Visit(n) PROVE ScanInv'
    BY <1>3 DEF Visit, host, ScanInv, ScanTypeOK, Candidate, SysCalls
<1>4. ASSUME IsSymlink \/ IsDir PROVE ScanInv'
  <2>1. /\ entry # None /\ UNCHANGED <<pc, todo, host, touched, used>>
        /\ LeaveOut \/ Goes("is_dir", None) \/ Goes("stat", None)
      BY <1>4 DEF IsSymlink, IsDir, At, Calm
  <2>2. CASE LeaveOut
      BY <1>0, <2>1, <2>2, SettlesType DEF Settles
  <2>3. CASE Goes("is_dir", None)
      BY <1>0, <2>1, <2>3, ProceedsType
  <2>4. CASE Goes("stat", None)
      BY <1>0, <2>1, <2>4, ProceedsType
  <2> QED
      BY <2>1, <2>2, <2>3, <2>4
<1>5. ASSUME Stat PROVE ScanInv'
  <2>1. entry # None /\ UNCHANGED <<pc, todo, host, touched, used>>
      BY <1>5 DEF Stat, At, Calm
  <2>2. CASE Skip
      BY <1>0, <2>1, <2>2, SettlesType DEF Settles
  <2>3. CASE Follows(entry.name) /\ Goes("open", inbox[entry.name].mtime)
    <3>1. inbox[entry.name].mtime \in Mtimes
        BY <2>1, <2>3, InHand, FollowsEntry DEF Entry
    <3> QED
        BY <1>0, <2>1, <2>3, <3>1, ProceedsType
  <2> QED
      BY <1>5, <2>2, <2>3 DEF Stat
<1>6. ASSUME Read PROVE ScanInv'
    BY <1>6, ReadType
<1>7. ASSUME ReadGone PROVE ScanInv'
    BY <1>0, <1>7, SettlesType DEF ReadGone, At, Calm, Settles
<1>8. ASSUME CallFails PROVE ScanInv'
  <2>1. entry # None /\ UNCHANGED <<pc, todo, host>> /\ Skip /\ touched' \in SUBSET Names
      BY <1>0, <1>8, InHand DEF CallFails, At
  <2> QED
      BY <1>0, <1>8, <2>1, SettlesType DEF CallFails, Settles
<1>9. ASSUME ProbeFails PROVE ScanInv'
  <2>1. /\ entry # None /\ UNCHANGED <<pc, todo, host>> /\ touched' \in SUBSET Names
        /\ used' \in [host : Nat, faults : Nat]
      BY <1>0, <1>9, InHand DEF ProbeFails, At
  <2>2. Goes("is_dir", None) \/ LeaveOut \/ Goes("stat", None)
      BY <1>9, <2>1, InHand DEF ProbeFails, SysCalls
  <2>3. CASE LeaveOut
      BY <2>1, <2>3, SettlesType DEF Settles
  <2>4. CASE Goes("is_dir", None)
      BY <2>1, <2>4, ProceedsType
  <2>5. CASE Goes("stat", None)
      BY <2>1, <2>5, ProceedsType
  <2> QED
      BY <2>2, <2>3, <2>4, <2>5
<1>10. ASSUME Answer PROVE ScanInv'
    BY <1>10 DEF Answer, counters, host, ScanInv, ScanTypeOK, Candidate
<1>11. ASSUME NEW n \in Names, HostChange(n) PROVE ScanInv'
    BY <1>11 DEF HostChange, counters, ScanInv, ScanTypeOK, Candidate
<1>12. ASSUME UNCHANGED vars PROVE ScanInv'
    BY <1>12 DEF vars, counters, host, ScanInv, ScanTypeOK, Candidate
<1> QED
    BY <1>1, <1>2, <1>3, <1>4, <1>5, <1>6, <1>7, <1>8, <1>9, <1>10, <1>11, <1>12
    DEF Next, Answered

\* Every reachable state of a scan is well typed.
THEOREM ScanTypeCorrect == Spec => []ScanTypeOK
<1>1. ScanInv => ScanTypeOK
    BY DEF ScanInv
<1> QED
    BY ScanInit, ScanStep, <1>1, PTL DEF Spec

-----------------------------------------------------------------------------
\* The sort key is a strict order on candidates.
LEMMA BeforeOrder ==
    ASSUME NEW x \in Candidate, NEW y \in Candidate, NEW z \in Candidate
    PROVE  /\ ~Before(x, x)
           /\ Before(x, y) /\ Before(y, z) => Before(x, z)
<1>1. \A v \in Candidate : /\ Rank(v.confidence) \in Int
                           /\ v.score \in Int /\ v.mtime \in Int /\ v.name \in Int
    BY ScanAssumption DEF Candidate, Rank
<1> HIDE DEF Rank
<1> QED
    BY <1>1, SMTT(30) DEF Before

\* Whoever comes before another in the order comes before it in the list.
LEMMA PositionMonotone ==
    ASSUME ScanInv, NEW x \in scored, NEW y \in scored, Before(x, y)
    PROVE  Position(x) < Position(y) /\ Position(x) \in Nat /\ Position(y) \in Nat
<1> DEFINE Less(v) == {u \in scored : Before(u, v)}
<1>1. scored \subseteq Candidate /\ IsFiniteSet(scored)
    BY DEF ScanInv, ScanTypeOK
<1>2. Less(x) \subseteq Less(y)
    BY <1>1, BeforeOrder
<1>3. x \in Less(y) /\ x \notin Less(x)
    BY <1>1, BeforeOrder
<1>4. IsFiniteSet(Less(x)) /\ IsFiniteSet(Less(y))
    BY <1>1, FS_Subset
<1>5. Cardinality(Less(x)) <= Cardinality(Less(y)) /\ Cardinality(Less(x)) # Cardinality(Less(y))
    BY <1>2, <1>3, <1>4, FS_Subset
<1>6. Cardinality(Less(x)) \in Nat /\ Cardinality(Less(y)) \in Nat
    BY <1>4, FS_CardinalityType
<1> QED
    BY <1>5, <1>6 DEF Position

\* What limit cuts off comes after what is returned.
LEMMA KeepsTheStrongest == ScanInv => TruncationDropsWeakest
<1> SUFFICES ASSUME ScanInv, NEW x \in Candidates, NEW y \in scored \ Candidates
             PROVE  Rank(x.confidence) <= Rank(y.confidence)
    BY DEF TruncationDropsWeakest
<1>1. x \in scored /\ Position(x) < request.limit /\ ~(Position(y) < request.limit)
    BY DEF Candidates
<1>2. request.limit \in Nat
    BY ScanAssumption DEF ScanInv, ScanTypeOK, Request
<1>3. ~Before(y, x)
    BY <1>1, <1>2, PositionMonotone
<1>4. Rank(x.confidence) \in Nat /\ Rank(y.confidence) \in Nat
    BY DEF Rank
<1> QED
    BY <1>3, <1>4 DEF Before

\* For any inbox and any limit, what limit cuts off is never more confident
\* than what is returned.
THEOREM CutsOffTheWeakest == Spec => []TruncationDropsWeakest
BY ScanInit, ScanStep, KeepsTheStrongest, PTL DEF Spec

-----------------------------------------------------------------------------
\* How strong a confidence is; "none" is the weakest.
Strength(confidence) == IF confidence = "none" THEN 0 ELSE 3 - Rank(confidence)

\* _confidence never punishes a match: one more matching keyword, a project
\* that matches too, or a better title never weakens a candidate or drops it.
THEOREM MoreSignalsNeverWeaker ==
    ASSUME NEW total \in Nat, NEW k \in Nat, NEW m \in Nat, k <= m,
           NEW p \in BOOLEAN, NEW q \in BOOLEAN, p => q,
           NEW s \in {"none", "normalized_title", "exact_title"},
           NEW t \in {"none", "normalized_title", "exact_title"},
           TitleScore(s) <= TitleScore(t)
    PROVE  Strength(Confidence(s, p, k, total)) <= Strength(Confidence(t, q, m, total))
<1>1. Threshold(total) \in Nat /\ Threshold(total) >= 2
    BY DEF Threshold
<1>2. CASE t = "exact_title"
    BY <1>2 DEF Strength, Confidence, Rank
<1>3. CASE t = "normalized_title"
    BY <1>3 DEF Strength, Confidence, Rank, TitleScore
<1>4. CASE t = "none"
  <2>1. s = "none"
      BY <1>4 DEF TitleScore
  <2> QED
      BY <1>1, <1>4, <2>1 DEF Strength, Confidence, Rank
<1> QED
    BY <1>2, <1>3, <1>4

-----------------------------------------------------------------------------
(* What a scan has seen.                                                   *)

\* Where a scan stands: nothing is found before it lists the inbox, what is
\* listed and untouched is there, a folder or symlink is known to be odd, and
\* the entry in hand passed the checks before its next call.
Stage ==
    /\ pc = "start" =>
         /\ listed = {} /\ touched = {} /\ scored = {} /\ read = {} /\ left = {}
         /\ scanned = 0 /\ skipped = 0
    /\ pc = "done" => todo = {} /\ entry = None
    /\ todo \subseteq listed
    /\ pc \in {"scan", "done"} =>
         /\ \A n \in Names \ touched : n \in listed <=> inbox[n] # None
         /\ \A n \in Names : Kind(n) \in {"folder", "symlink"} => n \in odd
    /\ entry # None =>
         /\ pc = "scan"
         /\ entry.name \in listed \ (todo \union Hidden)
         /\ entry.at \in {"stat", "open"} => entry.name \notin OtherFiles
         /\ entry.at = "open" =>
              /\ entry.name \notin Unusable
              /\ entry.name \notin touched => entry.mtime = inbox[entry.name].mtime

\* The listed names a scan is through with.
Seen == {n \in listed \ todo : entry # None => entry.name # n}

\* Every candidate is an entry the scan is through with, judged by what is there
\* if that stays; and one that stays and deserves a confidence is a candidate.
Verdicts ==
    /\ \A x \in scored :
         /\ x.name \in Seen
         /\ x.name \in Steady => /\ x.confidence = Judge(x.name, inbox[x.name])
                                /\ x.mtime = inbox[x.name].mtime
    /\ \A n \in Steady \intersect Seen :
         Judge(n, inbox[n]) # "none" => \E x \in scored : x.name = n

\* The two counters, against the entries seen so far.
Counts ==
    /\ read \subseteq Seen /\ left \subseteq Seen
    /\ scanned = Cardinality(read)
    /\ scanned + skipped = Cardinality(Seen \ left)
    /\ left \subseteq Hidden \union OtherFiles \union odd

SeenInv == ScanInv /\ Stage /\ Verdicts /\ Counts

-----------------------------------------------------------------------------
(* The table of ADR 0007.                                                  *)

\* _confidence says of a note's signals what the table says of its fields.
LEMMA JudgeAgrees ==
    ASSUME NEW n \in Names, NEW c \in Entry, request \in Requests
    PROVE  /\ High(n, c) <=> Judge(n, c) = "high"
           /\ Medium(n, c) <=> Judge(n, c) = "medium"
           /\ Low(n, c) <=> Judge(n, c) = "low"
<1> DEFINE m == Matched(c)
           total == Cardinality(request.keywords)
           signal == TitleSignal(n, c)
           project == ProjectMatch(c)
<1>1. m \in Nat /\ total \in Nat
  <2>1. IsFiniteSet(request.keywords)
      BY ScanAssumption, FS_Subset DEF Request
  <2> QED
      BY <2>1, MatchedType, FS_CardinalityType
<1>2. Words(c) = m
  <2>1. {w \in request.keywords : w \in c.words} = c.words \intersect request.keywords
      OBVIOUS
  <2> QED
      BY <2>1 DEF Words, Matched
<1>3. /\ Same(n, c) => signal = "exact_title"
      /\ ~Same(n, c) /\ Alike(n, c) => signal = "normalized_title"
      /\ ~Same(n, c) /\ ~Alike(n, c) => signal = "none"
  <2>1. request.title \in Titles /\ None \notin Titles
      BY ScanAssumption DEF Request
  <2>2. CASE c.title = None
      BY <2>1, <2>2 DEF TitleSignal, Same, Alike
  <2>3. CASE c.title # None
      BY <2>1, <2>3 DEF TitleSignal, Same, Alike
  <2> QED
      BY <2>2, <2>3
<1>4. project <=> Shares(c)
    BY DEF ProjectMatch, Shares
<1>5. m >= Threshold(total) <=> (m >= 2 /\ 2 * m >= total)
    BY <1>1 DEF Threshold
<1>6. Judge(n, c) = Confidence(signal, project, m, total)
    BY DEF Judge
<1> HIDE DEF m, total, signal, project
<1>7. CASE Same(n, c)
    BY <1>3, <1>6, <1>7 DEF Confidence, High, Medium, Low
<1>8. CASE ~Same(n, c) /\ Alike(n, c)
    BY <1>3, <1>4, <1>6, <1>8 DEF Confidence, High, Medium, Low
<1>9. CASE ~Same(n, c) /\ ~Alike(n, c)
    BY <1>2, <1>3, <1>4, <1>5, <1>6, <1>9 DEF Confidence, High, Medium, Low, total
<1> QED
    BY <1>7, <1>8, <1>9

-----------------------------------------------------------------------------
(* Every step keeps the invariant.                                         *)

\* An entry that is there has a kind.
LEMMA KindType ==
    ASSUME ScanTypeOK, NEW n \in Names
    PROVE  /\ Kind(n) = "gone" <=> inbox[n] = None
           /\ Kind(n) \in Kinds \union {"gone"}
<1>1. inbox[n] # None => inbox[n].kind \in Kinds
    BY ScanAssumption DEF ScanTypeOK, Entry
<1> QED
    BY <1>1 DEF Kind, Kinds

LEMMA SeenInit == Init => SeenInv
<1> SUFFICES ASSUME Init PROVE SeenInv
    OBVIOUS
<1>1. Seen = {} /\ Stage
    BY DEF Init, Seen, Stage
<1>2. Verdicts
    BY <1>1 DEF Init, Verdicts
<1>3. Seen \ left = {}
    BY <1>1
<1>4. Counts
    BY <1>1, <1>3, FS_EmptySet DEF Init, Counts
<1> QED
    BY <1>1, <1>2, <1>4, ScanInit DEF SeenInv

\* A step that sees nothing new, and after which no more entries are steady.
Quiet ==
    /\ Seen' = Seen
    /\ UNCHANGED <<request, counters, listed>>
    /\ touched \subseteq touched' /\ odd \subseteq odd'
    /\ \A n \in Names \ touched' : inbox'[n] = inbox[n]

LEMMA QuietKeeps ==
    ASSUME SeenInv, ScanInv', Quiet
    PROVE  Verdicts' /\ Counts'
<1>1. Steady' \subseteq Steady /\ \A n \in Steady' : inbox'[n] = inbox[n]
    BY DEF Quiet, Steady, Kind
<1>2. \A n \in Names : inbox'[n] = inbox[n] => Judge(n, inbox[n])' = Judge(n, inbox[n])
    BY DEF Quiet, Judge, TitleSignal, ProjectMatch, Matched
<1>3. Verdicts'
    BY <1>1, <1>2 DEF Quiet, counters, SeenInv, Verdicts, Steady
<1>4. Counts'
    BY DEF Quiet, counters, SeenInv, Counts
<1> QED
    BY <1>3, <1>4

\* A step that sees one more entry.
Sees(n) ==
    /\ n \in listed \ Seen /\ n \in Names /\ Seen' = Seen \union {n}
    /\ UNCHANGED host
    /\ touched \subseteq touched'

\* Counting one more element of a finite set.
LEMMA OneMore ==
    ASSUME NEW S \in SUBSET Names, NEW n \in Names, n \notin S
    PROVE  Cardinality(S \union {n}) = Cardinality(S) + 1 /\ Cardinality(S) \in Nat
<1>1. IsFiniteSet(S)
    BY ScanAssumption, FS_Subset
<1> QED
    BY <1>1, FS_AddElement, FS_CardinalityType

LEMMA SeenTypes ==
    ASSUME SeenInv
    PROVE  /\ Seen \in SUBSET Names /\ Seen \ left \in SUBSET Names /\ read \in SUBSET Names
           /\ scanned \in Nat /\ skipped \in Nat
BY DEF SeenInv, Seen, ScanInv, ScanTypeOK

\* One that is counted as skipped.
LEMMA SkippedCounts ==
    ASSUME SeenInv, NEW n \in Names, Sees(n), Skip
    PROVE  Counts'
<1>1. (Seen \ left)' = (Seen \ left) \union {n} /\ n \notin Seen \ left
    BY DEF Sees, Skip, SeenInv, Counts
<1>2. Cardinality((Seen \ left) \union {n}) = Cardinality(Seen \ left) + 1
    BY <1>1, OneMore, SeenTypes
<1>3. skipped' = skipped + 1 /\ scanned' = scanned /\ read' = read /\ left' = left
    BY DEF Skip
<1>4. scanned' + skipped' = scanned + skipped + 1
    BY <1>3, SeenTypes
<1>5. scanned' + skipped' = Cardinality((Seen \ left)')
    BY <1>1, <1>2, <1>4 DEF SeenInv, Counts
<1> QED
    BY <1>3, <1>5 DEF Sees, host, SeenInv, Counts

\* One that is left out, for a reason.
LEMMA LeftOutCounts ==
    ASSUME SeenInv, NEW n \in Names, Sees(n), n \in Hidden \union OtherFiles \union odd,
           left' = left \union {n}, UNCHANGED <<scored, scanned, skipped, read>>
    PROVE  Counts'
<1>1. (Seen \ left)' = Seen \ left
    BY DEF Sees
<1> QED
    BY <1>1 DEF Sees, host, SeenInv, Counts

\* One that is seen without a candidate: it does not stay.
LEMMA UnsteadyVerdicts ==
    ASSUME SeenInv, NEW n \in Names, Sees(n), scored' = scored, n \notin Steady'
    PROVE  Verdicts'
<1>1. Steady' \subseteq Steady
    BY DEF Sees, host, Steady, Kind
<1>2. \A m \in Names : Judge(m, inbox[m])' = Judge(m, inbox[m])
    BY DEF Sees, host, Judge, TitleSignal, ProjectMatch, Matched
<1> QED
    BY <1>1, <1>2 DEF Sees, host, SeenInv, Verdicts, Steady

\* The entry in hand is one the scan has not seen; when it is dropped, it has.
LEMMA DropSees ==
    ASSUME SeenInv, entry # None, entry' = None, UNCHANGED <<todo, host>>,
           touched \subseteq touched'
    PROVE  entry.name \in Names /\ Sees(entry.name)
<1>1. entry.name \in Names /\ entry.name \in listed \ todo
    BY InHand DEF SeenInv, Stage
<1>2. Seen = (listed \ todo) \ {entry.name} /\ Seen' = listed \ todo
    BY DEF Seen, host
<1> QED
    BY <1>1, <1>2 DEF Sees

LEMMA Skipped ==
    ASSUME SeenInv, ScanInv', entry # None, Skip, UNCHANGED <<todo, host>>,
           touched \subseteq touched', entry.name \notin Steady'
    PROVE  Verdicts' /\ Counts'
<1>1. entry.name \in Names /\ Sees(entry.name)
    BY DropSees DEF Skip
<1> QED
    BY <1>1, SkippedCounts, UnsteadyVerdicts DEF Skip

LEMMA LeftOut ==
    ASSUME SeenInv, ScanInv', entry # None, LeaveOut, UNCHANGED <<todo, host>>,
           touched \subseteq touched', entry.name \notin Steady',
           entry.name \in Hidden \union OtherFiles \union odd
    PROVE  Verdicts' /\ Counts'
<1>1. entry.name \in Names /\ Sees(entry.name)
    BY DropSees DEF LeaveOut
<1>2. left' = left \union {entry.name} /\ UNCHANGED <<scored, scanned, skipped, read>>
    BY DEF LeaveOut
<1>3. Counts'
    BY <1>1, <1>2, LeftOutCounts
<1> QED
    BY <1>1, <1>2, <1>3, UnsteadyVerdicts

\* The entry in hand goes on: nothing new is seen.
LEMMA GoesOn ==
    ASSUME SeenInv, ScanInv', entry # None, NEW call, NEW mtime, Goes(call, mtime),
           \/ call \in {"is_dir", "stat"} /\ mtime = None
           \/ call = "open" /\ mtime \in Mtimes,
           UNCHANGED <<todo, host>>, touched \subseteq touched'
    PROVE  Verdicts' /\ Counts'
<1>1. ScanInv
    BY DEF SeenInv
<1>2. entry'.name = entry.name /\ entry' # None /\ UNCHANGED counters
    BY <1>1, GoesType DEF Goes
<1>3. Seen' = Seen
    BY <1>2 DEF Seen, host
<1>4. Quiet
    BY <1>2, <1>3 DEF Quiet, host
<1> QED
    BY <1>4, QuietKeeps

\* A note that is read is counted as scanned, and judged by what it holds.
LEMMA ReadSees ==
    ASSUME SeenInv, ScanInv', Read
    PROVE  Verdicts' /\ Counts'
<1> DEFINE n == entry.name
           x == Match(n)
<1>1. /\ UNCHANGED <<todo, skipped, left, touched>> /\ UNCHANGED host
      /\ entry # None /\ entry' = None /\ scanned' = scanned + 1 /\ read' = read \union {n}
      /\ scored' = IF x.confidence = "none" THEN scored ELSE scored \union {x}
    BY DEF Read, At, Calm, Scans
<1>2. n \in Names /\ Sees(n)
    BY <1>1, DropSees
<1>3. n \notin touched => entry.mtime = inbox[n].mtime
    BY DEF Read, At, SeenInv, Stage
<1>4. Steady' = Steady
    BY <1>1 DEF Steady, Kind, host
<1>5. \A m \in Names : Judge(m, inbox[m])' = Judge(m, inbox[m]) /\ inbox'[m] = inbox[m]
    BY <1>1 DEF Judge, TitleSignal, ProjectMatch, Matched, host
<1>6. x.name = n /\ x.confidence = Judge(n, inbox[n]) /\ x.mtime = entry.mtime
    BY DEF Match
<1> HIDE DEF x
<1>7. Verdicts'
  <2>1. \A y \in scored' : y \in scored \/ y = x
      BY <1>1
  <2>2. scored \subseteq scored' /\ (x.confidence # "none" => x \in scored')
      BY <1>1
  <2>3. ASSUME NEW y \in scored'
        PROVE  /\ y.name \in Seen'
               /\ y.name \in Steady' => /\ y.confidence = Judge(y.name, inbox[y.name])'
                                       /\ y.mtime = inbox'[y.name].mtime
    <3>1. CASE y \in scored
        BY <1>2, <1>4, <1>5, <3>1 DEF Sees, SeenInv, Verdicts, Steady
    <3>2. CASE y = x
        BY <1>2, <1>3, <1>4, <1>5, <1>6, <3>2 DEF Sees, Steady
    <3> QED
        BY <2>1, <3>1, <3>2
  <2>4. ASSUME NEW m \in (Steady \intersect Seen)', Judge(m, inbox[m])' # "none"
        PROVE  \E y \in scored' : y.name = m
    <3>1. CASE m = n
        BY <1>2, <1>5, <1>6, <2>2, <2>4, <3>1
    <3>2. CASE m # n
      <4>1. m \in Steady \intersect Seen /\ m \in Names
          BY <1>2, <1>4, <2>4, <3>2 DEF Sees, Steady
      <4>2. Judge(m, inbox[m]) # "none"
          BY <1>5, <2>4, <4>1
      <4>3. \E y \in scored : y.name = m
          BY <4>1, <4>2 DEF SeenInv, Verdicts
      <4> QED
          BY <2>2, <4>3
    <3> QED
        BY <3>1, <3>2
  <2> QED
      BY <2>3, <2>4 DEF Verdicts
<1>8. Counts'
  <2>1. (Seen \ left)' = (Seen \ left) \union {n} /\ n \notin Seen \ left /\ n \notin read
      BY <1>1, <1>2 DEF Sees, SeenInv, Counts
  <2>2. /\ Cardinality((Seen \ left) \union {n}) = Cardinality(Seen \ left) + 1
        /\ Cardinality(read \union {n}) = Cardinality(read) + 1
      BY <1>2, <2>1, OneMore, SeenTypes
  <2>3. /\ scanned' + skipped' = Cardinality((Seen \ left)')
        /\ scanned' = Cardinality(read')
      BY <1>1, <2>1, <2>2, SeenTypes DEF SeenInv, Counts
  <2> QED
      BY <1>1, <1>2, <2>3 DEF Sees, host, SeenInv, Counts
<1> QED
    BY <1>7, <1>8

\* The stages follow one another.
LEMMA StageStep == SeenInv /\ [Next]_vars => Stage'
<1> SUFFICES ASSUME SeenInv, [Next]_vars PROVE Stage'
    OBVIOUS
<1>0. ScanInv /\ Stage /\ todo \subseteq Names /\ listed \subseteq Names
    BY DEF SeenInv, ScanInv, ScanTypeOK
<1>1. ASSUME List PROVE Stage'
    BY <1>0, <1>1 DEF List, Stage, Kind, counters
<1>2. ASSUME ListFails PROVE Stage'
    BY <1>0, <1>2 DEF ListFails, Stage, Kind, counters, host
<1>3. ASSUME NEW n \in Names, Visit(n) PROVE Stage'
  <2>1. \A m \in Names : Kind(m)' = Kind(m)
      BY <1>3 DEF Visit, host, Kind
  <2>2. entry' # None => entry'.name = n /\ entry'.at = "is_symlink" /\ n \notin Hidden
      BY <1>3 DEF Visit
  <2> QED
      BY <1>0, <1>3, <2>1, <2>2 DEF Visit, host, Stage
\* A call of the entry in hand changes neither the host's side nor the list.
<1>4. ASSUME UNCHANGED <<pc, todo, host>>, touched \subseteq touched', entry # None,
             entry' # None =>
               /\ entry'.name = entry.name
               /\ entry'.at \in {"stat", "open"} => entry.name \notin OtherFiles
               /\ entry'.at = "open" => /\ entry.name \notin Unusable
                                       /\ entry'.mtime = inbox[entry.name].mtime
      PROVE  Stage'
  <2>1. \A m \in Names : Kind(m)' = Kind(m)
      BY <1>4 DEF host, Kind
  <2> QED
      BY <1>0, <1>4, <2>1 DEF host, Stage
<1>5. ASSUME entry # None, UNCHANGED <<pc, todo, host>>, touched \subseteq touched',
             Skip \/ LeaveOut
      PROVE  Stage'
    BY <1>4, <1>5 DEF Skip, LeaveOut
<1>6. ASSUME entry # None, UNCHANGED <<pc, todo, host>>, touched \subseteq touched',
             \/ Goes("is_dir", None)
             \/ Goes("stat", None) /\ entry.name \notin OtherFiles
      PROVE  Stage'
  <2>1. CASE Goes("is_dir", None)
      BY <1>0, <1>4, <1>6, <2>1, GoesType
  <2>2. CASE Goes("stat", None) /\ entry.name \notin OtherFiles
      BY <1>0, <1>4, <1>6, <2>2, GoesType
  <2> QED
      BY <1>6, <2>1, <2>2
<1>7. ASSUME IsSymlink \/ IsDir PROVE Stage'
    BY <1>5, <1>6, <1>7 DEF IsSymlink, IsDir, At, Calm
<1>8. ASSUME Stat PROVE Stage'
  <2>1. entry # None /\ entry.at = "stat" /\ UNCHANGED <<pc, todo, host, touched>>
      BY <1>8 DEF Stat, At, Calm
  <2>2. CASE Skip
      BY <1>5, <2>1, <2>2
  <2>3. CASE Follows(entry.name) /\ entry.name \notin Unusable
             /\ Goes("open", inbox[entry.name].mtime)
    <3>1. inbox[entry.name].mtime \in Mtimes
        BY <1>0, <2>1, <2>3, InHand, FollowsEntry DEF Entry
    <3>2. entry'.name = entry.name /\ entry'.mtime = inbox[entry.name].mtime
        BY <1>0, <2>1, <2>3, <3>1, GoesType
    <3>3. entry.name \notin OtherFiles
        BY <1>0, <2>1 DEF Stage
    <3> QED
        BY <1>4, <2>1, <2>3, <3>2, <3>3
  <2> QED
      BY <1>8, <2>2, <2>3 DEF Stat
<1>9. ASSUME Read PROVE Stage'
    BY <1>4, <1>9 DEF Read, At, Calm, Scans
<1>10. ASSUME ReadGone \/ CallFails PROVE Stage'
    BY <1>5, <1>10 DEF ReadGone, CallFails, At, Calm
<1>11. ASSUME ProbeFails PROVE Stage'
  <2>1. /\ entry # None /\ UNCHANGED <<pc, todo, host>> /\ touched \subseteq touched'
        /\ \/ Goes("is_dir", None) \/ LeaveOut
           \/ Goes("stat", None) /\ entry.name \notin OtherFiles
      BY <1>0, <1>11, InHand DEF ProbeFails, At, SysCalls
  <2> QED
      BY <1>5, <1>6, <2>1
<1>12. ASSUME Answer PROVE Stage'
    BY <1>0, <1>12 DEF Answer, Stage, Kind, counters, host
<1>13. ASSUME NEW n \in Names, HostChange(n) PROVE Stage'
  <2>1. \A m \in Names \ {n} : inbox'[m] = inbox[m] /\ Kind(m)' = Kind(m)
      BY <1>13 DEF HostChange, Kind
  <2>2. Kind(n)' \in {"folder", "symlink"} => n \in odd'
      BY <1>0, <1>13 DEF HostChange, Kind, ScanInv, ScanTypeOK
  <2>3. odd \subseteq odd' /\ n \in touched' /\ touched \subseteq touched'
      BY <1>13 DEF HostChange
  <2> QED
      BY <1>0, <1>13, <2>1, <2>2, <2>3 DEF HostChange, counters, Stage
<1>14. ASSUME UNCHANGED vars PROVE Stage'
    BY <1>0, <1>14 DEF vars, counters, host, Stage, Kind
<1> QED
    BY <1>1, <1>2, <1>3, <1>7, <1>8, <1>9, <1>10, <1>11, <1>12, <1>13, <1>14
    DEF Next, Answered

\* What follows no note is not steady; what is a folder or a symlink is odd.
LEMMA Oddities ==
    ASSUME SeenInv, entry # None, UNCHANGED host, touched \subseteq touched'
    PROVE  /\ ~Follows(entry.name) => entry.name \notin Steady'
           /\ Kind(entry.name) \in {"folder", "symlink"} =>
                entry.name \in odd /\ entry.name \notin Steady'
           /\ entry.name \in touched' \union OtherFiles \union Unusable =>
                entry.name \notin Steady'
<1>1. entry.name \in Names /\ pc = "scan"
    BY InHand DEF SeenInv, Stage
<1>2. \A n \in Steady' : Kind(n) = "note" /\ n \notin touched' \union OtherFiles \union Unusable
    BY DEF Steady, Kind, host
<1> QED
    BY <1>1, <1>2 DEF SeenInv, Stage, Follows

LEMMA SeenStep == SeenInv /\ [Next]_vars => SeenInv'
<1> SUFFICES ASSUME SeenInv, [Next]_vars PROVE SeenInv'
    OBVIOUS
<1>1. ScanInv' /\ Stage'
    BY ScanStep, StageStep DEF SeenInv
<1>2. ScanInv /\ Stage
    BY DEF SeenInv
<1> SUFFICES Verdicts' /\ Counts'
    BY <1>1 DEF SeenInv
<1>3. ASSUME List PROVE Verdicts' /\ Counts'
  <2>1. /\ Seen' = {} /\ scored' = {} /\ read' = {} /\ left' = {}
        /\ scanned' = 0 /\ skipped' = 0
      BY <1>2, <1>3 DEF List, Seen, Stage, counters
  <2>2. Verdicts'
      BY <2>1 DEF Verdicts
  <2>3. (Seen \ left)' = {}
      BY <2>1
  <2> QED
      BY <2>1, <2>2, <2>3, FS_EmptySet DEF Counts
<1>4. ASSUME NEW n \in Names, Visit(n) PROVE Verdicts' /\ Counts'
  <2>1. CASE n \in Hidden
    <3>1. Sees(n)
        BY <1>2, <1>4, <2>1 DEF Visit, Sees, Seen, Stage, host
    <3>2. left' = left \union {n} /\ UNCHANGED <<scored, scanned, skipped, read>>
        BY <1>4, <2>1 DEF Visit
    <3>3. n \notin Steady'
        BY <2>1 DEF Steady
    <3>4. Counts'
        BY <2>1, <3>1, <3>2, LeftOutCounts
    <3> QED
        BY <3>1, <3>2, <3>3, <3>4, UnsteadyVerdicts
  <2>2. CASE n \notin Hidden
    <3>1. entry' = [name |-> n, at |-> "is_symlink", mtime |-> None] /\ entry' # None
        BY <1>4, <2>2, ScanAssumption DEF Visit, SysCalls
    <3>2. Seen' = Seen
        BY <1>2, <1>4, <3>1 DEF Visit, Seen, Stage, host
    <3>3. Quiet
        BY <1>4, <2>2, <3>2 DEF Visit, Quiet, counters, host
    <3> QED
        BY <1>1, <3>3, QuietKeeps
  <2> QED
      BY <2>1, <2>2
<1>5. ASSUME IsSymlink \/ IsDir PROVE Verdicts' /\ Counts'
  <2>1. entry # None /\ UNCHANGED <<todo, host, touched>>
      BY <1>5 DEF IsSymlink, IsDir, At, Calm
  <2>2. \/ /\ LeaveOut
           /\ Kind(entry.name) \in {"folder", "symlink"} \/ entry.name \in OtherFiles
        \/ Goes("is_dir", None) \/ Goes("stat", None)
      BY <1>5 DEF IsSymlink, IsDir
  <2>3. CASE LeaveOut /\ (Kind(entry.name) \in {"folder", "symlink"}
                            \/ entry.name \in OtherFiles)
      BY <1>1, <2>1, <2>3, Oddities, LeftOut
  <2>4. CASE Goes("is_dir", None)
      BY <1>1, <2>1, <2>4, GoesOn
  <2>5. CASE Goes("stat", None)
      BY <1>1, <2>1, <2>5, GoesOn
  <2> QED
      BY <2>2, <2>3, <2>4, <2>5
<1>6. ASSUME Stat PROVE Verdicts' /\ Counts'
  <2>1. entry # None /\ UNCHANGED <<todo, host, touched>>
      BY <1>6 DEF Stat, At, Calm
  <2>2. CASE Skip /\ (~Follows(entry.name) \/ entry.name \in Unusable)
      BY <1>1, <2>1, <2>2, Oddities, Skipped
  <2>3. CASE Follows(entry.name) /\ Goes("open", inbox[entry.name].mtime)
    <3>1. inbox[entry.name].mtime \in Mtimes
        BY <1>2, <2>1, <2>3, InHand, FollowsEntry DEF Entry
    <3> QED
        BY <1>1, <2>1, <2>3, <3>1, GoesOn
  <2> QED
      BY <1>6, <2>2, <2>3 DEF Stat
<1>7. ASSUME Read PROVE Verdicts' /\ Counts'
    BY <1>1, <1>7, ReadSees
<1>8. ASSUME ReadGone PROVE Verdicts' /\ Counts'
    BY <1>1, <1>8, Oddities, Skipped DEF ReadGone, At, Calm
<1>9. ASSUME CallFails PROVE Verdicts' /\ Counts'
  <2>1. /\ entry # None /\ UNCHANGED <<todo, host>> /\ Skip
        /\ touched \subseteq touched' /\ entry.name \in touched'
      BY <1>9 DEF CallFails, At
  <2> QED
      BY <1>1, <2>1, Oddities, Skipped
<1>10. ASSUME ProbeFails PROVE Verdicts' /\ Counts'
  <2>1. /\ entry # None /\ UNCHANGED <<todo, host>>
        /\ touched \subseteq touched' /\ entry.name \in touched'
        /\ \/ Goes("is_dir", None) \/ Goes("stat", None)
           \/ LeaveOut /\ entry.name \in OtherFiles
      BY <1>2, <1>10, InHand DEF ProbeFails, At, SysCalls
  <2>2. CASE Goes("is_dir", None)
      BY <1>1, <2>1, <2>2, GoesOn
  <2>3. CASE Goes("stat", None)
      BY <1>1, <2>1, <2>3, GoesOn
  <2>4. CASE LeaveOut /\ entry.name \in OtherFiles
      BY <1>1, <2>1, <2>4, Oddities, LeftOut
  <2> QED
      BY <2>1, <2>2, <2>3, <2>4
\* The rest sees nothing new.
<1>11. ASSUME ListFails \/ Answer \/ UNCHANGED vars PROVE Verdicts' /\ Counts'
  <2>1. UNCHANGED <<todo, entry, touched, counters, host>>
      BY <1>11 DEF ListFails, Answer, vars
  <2>2. Quiet
      BY <2>1 DEF Quiet, Seen, host
  <2> QED
      BY <1>1, <2>2, QuietKeeps
<1>12. ASSUME NEW n \in Names, HostChange(n) PROVE Verdicts' /\ Counts'
  <2>1. \A m \in Names \ {n} : inbox'[m] = inbox[m]
      BY <1>12 DEF HostChange
  <2>2. Quiet
      BY <1>12, <2>1 DEF HostChange, Quiet, Seen
  <2> QED
      BY <1>1, <2>2, QuietKeeps
<1> QED
    BY <1>3, <1>4, <1>5, <1>6, <1>7, <1>8, <1>9, <1>10, <1>11, <1>12
    DEF Next, Answered

LEMMA SeenHolds == Spec => []SeenInv
BY SeenInit, SeenStep, PTL DEF Spec

\* A scan that is done has seen every steady note; what it says of one is what
\* the table says of its fields.
LEMMA DoneJudges ==
    ASSUME SeenInv, pc = "done", NEW n \in Steady
    PROVE  /\ High(n, inbox[n]) <=> Judged(n, "high")
           /\ Medium(n, inbox[n]) <=> Judged(n, "medium")
           /\ Low(n, inbox[n]) <=> Judged(n, "low")
<1>1. n \in Names /\ inbox[n] # None
    BY DEF Steady, Kind
<1>2. inbox[n] \in Entry /\ request \in Requests
    BY <1>1, ScanAssumption DEF SeenInv, ScanInv, ScanTypeOK
<1>3. n \in Seen
    BY <1>1 DEF SeenInv, Stage, Seen, Steady
<1>4. \A x \in scored : x.name = n => /\ x.confidence = Judge(n, inbox[n])
                                       /\ x.mtime = inbox[n].mtime
    BY DEF SeenInv, Verdicts
<1>5. Judge(n, inbox[n]) # "none" => \E x \in scored : x.name = n
    BY <1>3 DEF SeenInv, Verdicts
<1>6. ASSUME NEW level \in Levels
      PROVE  Judged(n, level) <=> Judge(n, inbox[n]) = level
    BY <1>4, <1>5, <1>6 DEF Judged, Levels
<1> QED
    BY <1>1, <1>2, <1>6, JudgeAgrees DEF Levels

\* Whatever the host does to other entries while a scan of any inbox runs, a
\* note that stays gets the confidence ADR 0007 gives its fields, or none.
THEOREM SteadyNotesGetTheirDue == Spec => []SteadyNotesAreJudged
<1>1. SeenInv => SteadyNotesAreJudged
    BY DoneJudges DEF SteadyNotesAreJudged
<1> QED
    BY <1>1, SeenHolds, PTL

\* In any inbox, whatever the host changes and whichever calls fail, every listed
\* entry is read, counted as skipped, or left out as what may be left out.
THEOREM EveryEntryIsCounted == Spec => []CountsAddUp
<1>1. SeenInv => CountsAddUp
  <2> SUFFICES ASSUME SeenInv, pc = "done" PROVE CountsAddUp
      BY DEF CountsAddUp
  <2>1. Seen = listed
      BY DEF SeenInv, Stage, Seen
  <2> QED
      BY <2>1 DEF SeenInv, Counts, CountsAddUp
<1> QED
    BY <1>1, SeenHolds, PTL

-----------------------------------------------------------------------------
(* The advice.                                                             *)

\* A set of numbers that is not empty has a least one.
LEMMA LeastNumber ==
    ASSUME NEW S \in SUBSET Nat, S # {}
    PROVE  \E m \in S : \A n \in S : m <= n
<1> DEFINE R == OpToRel(<, Nat)
<1>1. \A a, b \in Nat : a < b => <<a, b>> \in R
    BY DEF OpToRel
<1>2. IsWellFoundedOn(R, Nat)
    BY NatLessThanWellFounded
<1> HIDE DEF R
<1>3. PICK m \in S : \A n \in S : <<n, m>> \notin R
    BY <1>2, WFMin
<1>4. ASSUME NEW n \in S PROVE m <= n
  <2>1. ~(n < m)
      BY <1>1, <1>3
  <2> QED
      BY <2>1
<1> QED
    BY <1>4

\* If there are candidates, one is first, and limit never cuts it off.
LEMMA FirstIsReturned == ASSUME ScanInv, scored # {} PROVE Candidates # {}
<1> DEFINE P == {Position(x) : x \in scored}
<1>1. \A x \in scored : Position(x) \in Nat
  <2>1. ASSUME NEW x \in scored PROVE IsFiniteSet({y \in scored : Before(y, x)})
      BY FS_Subset DEF ScanInv
  <2> QED
      BY <2>1, FS_CardinalityType DEF Position
<1>2. PICK x \in scored : \A y \in scored : Position(x) <= Position(y)
  <2>1. P \in SUBSET Nat /\ P # {}
      BY <1>1
  <2>2. PICK m \in P : \A k \in P : m <= k
      BY <2>1, LeastNumber
  <2> QED
      BY <2>2
<1>3. {y \in scored : Before(y, x)} = {}
    BY <1>1, <1>2, PositionMonotone
<1>4. Position(x) = 0
    BY <1>3, FS_EmptySet DEF Position
<1>5. request.limit \in Nat \ {0}
    BY ScanAssumption DEF ScanInv, ScanTypeOK, Request
<1> QED
    BY <1>4, <1>5 DEF Candidates

\* A candidate as confident as any match is returned.
LEMMA StrongestIsReturned ==
    ASSUME ScanInv, NEW x \in scored
    PROVE  \E y \in Candidates : Rank(y.confidence) <= Rank(x.confidence)
<1>1. CASE x \in Candidates
  <2>1. Rank(x.confidence) \in Nat
      BY DEF Rank
  <2> QED
      BY <1>1, <2>1
<1>2. CASE x \notin Candidates
  <2>1. PICK y \in Candidates : TRUE
      BY FirstIsReturned
  <2> QED
      BY <1>2, <2>1, KeepsTheStrongest DEF TruncationDropsWeakest
<1> QED
    BY <1>1, <1>2

\* No entry of a confidence, one, or more, in terms of the entries.
LEMMA HowManyType ==
    ASSUME ScanInv, NEW confidence
    PROVE  /\ HowMany(scored, confidence) \in Nat
           /\ HowMany(scored, confidence) = 0 <=>
                \A x \in scored : x.confidence # confidence
           /\ HowMany(scored, confidence) = 1 =>
                \E x \in scored : \A y \in scored : y.confidence = confidence <=> y = x
<1> DEFINE S == {x \in scored : x.confidence = confidence}
<1>1. IsFiniteSet(S) /\ S \subseteq scored
    BY FS_Subset DEF ScanInv
<1>2. \A x \in scored : x \in S <=> x.confidence = confidence
    OBVIOUS
<1>3. HowMany(scored, confidence) = Cardinality(S)
    BY DEF HowMany
<1> HIDE DEF S
<1>4. Cardinality(S) \in Nat /\ (Cardinality(S) = 0 <=> S = {})
    BY <1>1, FS_CardinalityType, FS_EmptySet
<1>5. Cardinality(S) = 1 => \E x : S = {x}
    BY <1>1, FS_Singleton
<1> QED
    BY <1>1, <1>2, <1>3, <1>4, <1>5

\* For any inbox, request, host and limit, "create" is advised only when no note
\* that stays is of high or medium confidence, "confirm" only when at most one
\* is, and what the user is to confirm or to choose from is returned.
THEOREM AdviceHolds == Spec => []AdviceIsSound
<1>1. SeenInv => AdviceIsSound
  <2> SUFFICES ASSUME SeenInv, pc = "done" PROVE AdviceIsSound
      BY DEF AdviceIsSound
  <2> DEFINE strong == {n \in Steady : High(n, inbox[n]) \/ Medium(n, inbox[n])}
             shown == {x.confidence : x \in Candidates}
             high == HowMany(scored, "high")
             medium == HowMany(scored, "medium")
  <2>1. ScanInv
      BY DEF SeenInv
  <2>2. scored \subseteq Candidate /\ Candidates \subseteq scored
      BY <2>1 DEF ScanInv, ScanTypeOK, Candidates
  <2>3. \A n \in strong : Judged(n, "high") \/ Judged(n, "medium")
      BY DoneJudges
  <2>4. /\ high \in Nat /\ medium \in Nat
        /\ high = 0 <=> \A x \in scored : x.confidence # "high"
        /\ medium = 0 <=> \A x \in scored : x.confidence # "medium"
        /\ high = 1 => \E x \in scored : \A y \in scored : y.confidence = "high" <=> y = x
      BY <2>1, HowManyType
  <2>5. /\ Recommendation = "create" => high = 0 /\ medium = 0
        /\ Recommendation = "confirm" => high = 1 /\ medium = 0
        /\ Recommendation = "choose" => ~(high = 0 /\ medium = 0)
      BY DEF Recommendation
  <2> HIDE DEF high, medium
  <2>6. ASSUME NEW x \in scored, x.confidence \in {"high", "medium"}
        PROVE  /\ shown \intersect {"high", "medium"} # {}
               /\ x.confidence = "high" => "high" \in shown
    <3>1. PICK y \in Candidates : Rank(y.confidence) <= Rank(x.confidence)
        BY <2>1, StrongestIsReturned
    <3>2. y.confidence \in Levels /\ y.confidence \in shown
        BY <2>2, <3>1 DEF Candidate
    <3> QED
        BY <2>6, <3>1, <3>2 DEF Rank, Levels
  <2>7. Recommendation = "create" => strong = {}
      BY <2>3, <2>4, <2>5 DEF Judged
  <2>8. ASSUME Recommendation = "confirm"
        PROVE  Cardinality(strong) <= 1 /\ "high" \in shown
    <3>1. PICK x \in scored : \A y \in scored : y.confidence = "high" <=> y = x
        BY <2>4, <2>5, <2>8
    <3>2. strong \subseteq {x.name}
        BY <2>3, <2>4, <2>5, <2>8, <3>1 DEF Judged
    <3>3. strong = {} \/ strong = {x.name}
        BY <3>2
    <3>4. Cardinality(strong) <= 1
      <4>1. Cardinality({}) = 0 /\ Cardinality({x.name}) = 1
          BY FS_EmptySet, FS_Singleton
      <4> HIDE DEF strong
      <4> QED
          BY <3>3, <4>1
    <3> QED
        BY <2>6, <3>1, <3>4
  <2>9. Recommendation = "choose" => shown \intersect {"high", "medium"} # {}
      BY <2>4, <2>5, <2>6
  <2> QED
      BY <2>7, <2>8, <2>9 DEF AdviceIsSound
<1> QED
    BY <1>1, SeenHolds, PTL
=============================================================================
