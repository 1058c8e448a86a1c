---------------------------- MODULE InboxProofs -----------------------------
(***************************************************************************)
(* Proofs about the inbox writes, for any set of requests, names and       *)
(* inodes and any bounds: types, the lock, what is left on the disk, and   *)
(* that no text is lost.                                                   *)
(***************************************************************************)
EXTENDS InboxSafety, TLAPS

\* The inode a request is about to write through is there: its temp file's
\* after OpenTemp, the target's after OpenTarget.
InodesKnown ==
    /\ \A r \in Requests :
          pc[r] \in {"write", "link", "check", "replace"} => temp[r] \in Inodes
    /\ \A a \in Appenders :
          pc[a] \in {"read", "temp", "write", "check", "replace"} =>
              before[a].ino \in Inodes

TypeInv == TypeOK /\ InodesKnown

\* A candidate name is a name of the inbox.
LEMMA DestinationType ==
    ASSUME TypeOK, NEW c \in Creators
    PROVE  Destination(c) \in Names
BY InboxAssumption DEF TypeOK, Destination

\* Time stamps are numbers, and never run backwards.
LEMMA MtimesType ==
    ASSUME TypeOK, NEW i \in Inodes, NEW t \in NewMtimes(i)
    PROVE  t \in Nat /\ t >= file[i].mtime
BY DEF TypeOK, NewMtimes, FileRecord

\* The initial state has the types.
LEMMA TypeInit == Init => TypeInv
<1> SUFFICES ASSUME Init PROVE TypeInv
    OBVIOUS
<1>1. file \in [Inodes -> FileRecord]
  <2>1. <<"Original">> \in Seq(Texts) /\ <<>> \in Seq(Texts)
      BY DEF Texts
  <2> QED
      BY <2>1 DEF Init, FileRecord, Kinds
<1>2. TypeOK
    BY <1>1, InboxAssumption DEF Init, TypeOK, Locked, Answers, IdentityRecord, NoIdentity,
       Entry, Requests, Kinds
<1>3. InodesKnown
    BY DEF Init, InodesKnown, Requests
<1> QED
    BY <1>2, <1>3 DEF TypeInv

Steps == Locked \union
           {"start", "resolve", "isreg", "lock", "poll", "link", "stat", "done", "dead"}

\* A request that goes on: only its program counter moves.
LEMMA GotoType ==
    ASSUME TypeOK, NEW r \in Requests, NEW step \in Steps, Goto(r, step)
    PROVE  /\ pc' \in [Requests -> Steps]
           /\ pc'[r] = step
           /\ \A q \in Requests : q # r => pc'[q] = pc[q]
BY DEF TypeOK, Goto, Steps

\* A request that raises: its answer is fixed, and it is past its last access
\* to a file.
LEMMA RaiseType ==
    ASSUME TypeOK, NEW r \in Requests, NEW x \in Answers, Raise(r, x)
    PROVE  /\ outcome' \in [Requests -> Answers \union {"none"}]
           /\ pc' \in [Requests -> Steps]
           /\ pc'[r] \in {"unlink", "unlock", "done"}
           /\ \A q \in Requests : q # r => pc'[q] = pc[q]
<1>1. Unwind(r, pc[r]) \in {"unlink", "unlock", "done"}
    BY DEF Unwind
<1>2. Unwind(r, pc[r]) \in Steps
    BY <1>1 DEF Steps, Locked
<1>3. outcome' \in [Requests -> Answers \union {"none"}]
    BY DEF Raise, TypeOK
<1> QED
    BY <1>1, <1>2, <1>3, GotoType DEF Raise, Goto

\* What a request is to write is a sequence of texts.
LEMMA ContentType ==
    ASSUME TypeOK, NEW r \in Requests
    PROVE  Content(r) \in Seq(Texts)
<1>1. CASE r \in Creators
    BY <1>1 DEF Content, Texts
<1>2. CASE r \notin Creators
  <2>1. existing[r] \in Seq(Texts) /\ r \in Texts
      BY <1>2 DEF TypeOK, Requests, Texts
  <2>2. Append(existing[r], r) \in Seq(Texts)
      BY <2>1
  <2> QED
      BY <1>2, <2>2 DEF Content
<1> QED
    BY <1>1, <1>2

\* The steps at which InodesKnown speaks of a request.
Risky == {"read", "temp", "write", "link", "check", "replace"}

\* A request that moves out of the risky steps, or keeps what it has, keeps
\* InodesKnown.
LEMMA KnownFrame ==
    ASSUME InodesKnown,
           \A q \in Requests : pc'[q] \in Risky =>
               /\ pc'[q] = pc[q] /\ temp'[q] = temp[q]
               /\ q \in Appenders => before'[q] = before[q]
    PROVE  InodesKnown'
<1>1. ASSUME NEW r \in Requests, pc'[r] \in {"write", "link", "check", "replace"}
      PROVE  temp'[r] \in Inodes
    BY <1>1 DEF InodesKnown, Risky
<1>2. ASSUME NEW a \in Appenders,
             pc'[a] \in {"read", "temp", "write", "check", "replace"}
      PROVE  before'[a].ino \in Inodes
    BY <1>2 DEF InodesKnown, Risky, Requests
<1> QED
    BY <1>1, <1>2 DEF InodesKnown

\* Every step preserves the types.
LEMMA TypeStep == TypeInv /\ [Next]_vars => TypeInv'
<1> SUFFICES ASSUME TypeInv, [Next]_vars PROVE TypeInv'
    OBVIOUS
<1> USE DEF TypeInv, fs, lock, create, tmp, append, used, Goes
<1>1. ASSUME NEW r \in Requests, Refuse(r) PROVE TypeInv'
  <2>1. Raise(r, "VALIDATION_ERROR") /\ "VALIDATION_ERROR" \in Answers
      BY <1>1 DEF Refuse, Answers
  <2>2. TypeOK'
      BY <1>1, <2>1, RaiseType DEF Refuse, TypeOK, Steps
  <2>3. InodesKnown'
      BY <1>1, <2>1, RaiseType, KnownFrame DEF Refuse, Risky
  <2> QED
      BY <2>2, <2>3
<1>2. ASSUME NEW r \in Requests, OpenTemp(r) PROVE TypeInv'
  <2>1. PICK i \in FreeInodes :
          /\ temp' = [temp EXCEPT ![r] = i]
          /\ tempFd' = [tempFd EXCEPT ![r] = i]
          /\ file' = [file EXCEPT ![i] = [data |-> <<>>, mtime |-> @.mtime,
                                          kind |-> "regular", synced |-> FALSE]]
      BY <1>2 DEF OpenTemp
  <2>2. i \in Inodes
      BY DEF FreeInodes
  <2>3. file' \in [Inodes -> FileRecord]
      BY <2>1, <2>2 DEF TypeOK, FileRecord, Kinds
  <2>4. temp' \in [Requests -> Entry] /\ tempFd' \in [Requests -> Entry] /\ temp'[r] \in Inodes
      BY <2>1, <2>2 DEF TypeOK, Entry
  <2>5. pc[r] = "temp" /\ Goto(r, "write") /\ "write" \in Steps
      BY <1>2 DEF OpenTemp, Steps, Locked
  <2>6. TypeOK'
      BY <1>2, <2>3, <2>4, <2>5, GotoType DEF OpenTemp, TypeOK, Steps
  <2>7. InodesKnown'
    <3>1. /\ pc'[r] = "write" /\ pc[r] = "temp" /\ before' = before
          /\ \A q \in Requests : q # r => pc'[q] = pc[q] /\ temp'[q] = temp[q]
        BY <1>2, <2>1, <2>5, GotoType DEF OpenTemp, TypeOK
    <3> QED
        BY <2>4, <3>1 DEF InodesKnown, Requests
  <2> QED
      BY <2>6, <2>7
<1>3. ASSUME NEW r \in Requests, WriteTemp(r) PROVE TypeInv'
  <2>1. temp[r] \in Inodes /\ pc[r] = "write"
      BY <1>3 DEF WriteTemp, InodesKnown
  <2>2. file' \in [Inodes -> FileRecord]
      BY <1>3, <2>1, ContentType, MtimesType DEF WriteTemp, TypeOK, FileRecord, Kinds
  <2>3. PICK s \in {"link", "check"} :
            Goto(r, s) /\ s \in Steps /\ (s = "check" => r \in Appenders)
      BY <1>3 DEF WriteTemp, Steps, Locked, Requests
  <2>4. TypeOK'
    <3>1. tempFd' \in [Requests -> Entry]
        BY <1>3 DEF WriteTemp, TypeOK, Entry
    <3> QED
        BY <1>3, <2>2, <2>3, <3>1, GotoType DEF WriteTemp, TypeOK, Steps
  <2>5. InodesKnown'
      BY <1>3, <2>1, <2>3, GotoType DEF WriteTemp, TypeOK, InodesKnown, Requests
  <2> QED
      BY <2>4, <2>5
<1>4. ASSUME NEW r \in Requests, SyncDirectory(r) PROVE TypeInv'
    BY <1>4 DEF SyncDirectory, TypeOK, InodesKnown, Goto, Locked
<1>5. ASSUME NEW r \in Requests, Stat(r) PROVE TypeInv'
  <2>1. CASE Raise(r, "INTERNAL_ERROR")
    <3>1. "INTERNAL_ERROR" \in Answers
        BY DEF Answers
    <3>2. TypeOK'
        BY <1>5, <2>1, <3>1, RaiseType DEF Stat, TypeOK, Steps
    <3>3. InodesKnown'
        BY <1>5, <2>1, <3>1, RaiseType, KnownFrame DEF Stat, Risky
    <3> QED
        BY <3>2, <3>3
  <2>2. CASE /\ outcome' = [outcome EXCEPT ![r] = "ok"]
             /\ Goto(r, IF r \in Creators THEN "unlink" ELSE "done")
    <3>1. PICK s \in {"unlink", "done"} : Goto(r, s) /\ s \in Steps
        BY <1>5, <2>2 DEF Stat, Steps, Locked
    <3>2. outcome' \in [Requests -> Answers \union {"none"}]
        BY <1>5, <2>2 DEF Stat, TypeOK, Answers
    <3>3. TypeOK'
        BY <1>5, <3>1, <3>2, GotoType DEF Stat, TypeOK, Steps
    <3>4. InodesKnown'
        BY <1>5, <3>1, GotoType, KnownFrame DEF Stat, Risky
    <3> QED
        BY <3>3, <3>4
  <2> QED
      BY <1>5, <2>1, <2>2 DEF Stat
<1>6. ASSUME NEW r \in Requests, UnlinkTemp(r) PROVE TypeInv'
    BY <1>6 DEF UnlinkTemp, AfterUnlink, TypeOK, InodesKnown, Goto, Locked, Entry
<1>7. ASSUME NEW r \in Requests, SystemCallFails(r) PROVE TypeInv'
  <2>1. \E x \in Answers : Raise(r, x)
      BY <1>7 DEF SystemCallFails, FaultAnswers, Answers
  <2>2. tempFd' \in [Requests -> Entry]
      BY <1>7 DEF SystemCallFails, TypeOK, Entry
  <2>3. lockFd' \in [Appenders -> Nat] /\ faults' \in Nat
      BY <1>7 DEF SystemCallFails, Fault, TypeOK
  <2>4. TypeOK'
      BY <1>7, <2>1, <2>2, <2>3, RaiseType DEF SystemCallFails, TypeOK, Steps
  <2>5. InodesKnown'
      BY <1>7, <2>1, RaiseType DEF SystemCallFails, TypeOK, InodesKnown, Requests
  <2> QED
      BY <2>4, <2>5
<1>28. ASSUME NEW r \in Requests, FchmodFails(r) \/ UnlinkFails(r) PROVE TypeInv'
  <2>1. /\ pc'[r] \in {"unlink", "unlock", "done"} /\ pc' \in [Requests -> Steps]
        /\ \A q \in Requests : q # r => pc'[q] = pc[q]
    <3>1. Unwind(r, pc[r]) \in {"unlink", "unlock", "done"} /\ AfterUnlink(r) \in {"unlock", "done"}
        BY DEF Unwind, AfterUnlink
    <3>2. PICK step \in {"unlink", "unlock", "done"} : Goto(r, step)
        BY <1>28, <3>1 DEF FchmodFails, UnlinkFails
    <3>3. step \in Steps
        BY DEF Steps, Locked
    <3> QED
        BY <3>2, <3>3, GotoType
  <2>2. /\ UNCHANGED <<dir, file, survive, lockFile, lockKind, seq, temp, tempFd, path, lockFd,
                       polls, before, existing, landed, hostOps, crashes>>
        /\ faults' = faults + 1
        /\ outcome' = [outcome EXCEPT ![r] = "INTERNAL_ERROR"]
        /\ \E call \in {"fchmod", "unlink"} :
              failed' = [failed EXCEPT ![r] = failed[r] \union {call}]
      BY <1>28 DEF FchmodFails, UnlinkFails, CleanUpFails, Fault
  <2>3. outcome' \in [Requests -> Answers \union {"none"}]
      BY <2>2 DEF TypeOK, Answers
  <2>4. failed' \in [Requests -> SUBSET {"fchmod", "unlink"}]
      BY <2>2 DEF TypeOK
  <2>5. TypeOK'
      BY <2>1, <2>2, <2>3, <2>4 DEF TypeOK, Steps
  <2>6. InodesKnown'
      BY <2>1, <2>2, KnownFrame DEF Risky
  <2> QED
      BY <2>5, <2>6
<1>8. ASSUME NEW c \in Creators, StartCreate(c) PROVE TypeInv'
    BY <1>8, InboxAssumption DEF StartCreate, TypeOK, InodesKnown, Goto, Locked, Requests
<1>9. ASSUME NEW c \in Creators, Link(c) PROVE TypeInv'
  <2>1. c \in Requests /\ Destination(c) \in Names /\ temp[c] \in Entry
      BY DestinationType DEF TypeOK, Requests
  <2>2. Goto(c, "syncdir") /\ "syncdir" \in Steps
      BY <1>9 DEF Link, Steps, Locked
  <2>3. dir' \in [Names -> Entry] /\ survive' \in [Names -> SUBSET Entry]
        /\ landed' \in [Requests -> Names \union {None}]
      BY <1>9, <2>1 DEF Link, SetEntry, TypeOK
  <2> QED
      BY <1>9, <2>1, <2>2, <2>3, GotoType DEF Link, TypeOK, InodesKnown, Steps, Requests
<1>10. ASSUME NEW c \in Creators, LinkExists(c) PROVE TypeInv'
  <2>1. CASE seq[c] < MaxSequenceAttempts
    <3>1. seq' = [seq EXCEPT ![c] = seq[c] + 1]
        BY <1>10, <2>1 DEF LinkExists
    <3>2. seq[c] \in 1..MaxSequenceAttempts /\ seq[c] + 1 \in 1..MaxSequenceAttempts
        BY <2>1, InboxAssumption DEF TypeOK
    <3>3. seq' \in [Creators -> 1..MaxSequenceAttempts]
        BY <3>1, <3>2 DEF TypeOK
    <3> QED
        BY <1>10, <2>1, <3>3 DEF LinkExists, TypeOK, InodesKnown
  <2>2. CASE ~(seq[c] < MaxSequenceAttempts)
      BY <1>10, <2>2, RaiseType DEF LinkExists, TypeOK, InodesKnown, Steps, Answers, Requests
  <2> QED
      BY <2>1, <2>2
<1>11. ASSUME NEW a \in Appenders, IsSymlink(a) \/ ResolveStrict(a) \/ IsRegular(a) \/ OpenLock(a)
       PROVE  TypeInv'
  <2>1. \/ \E x \in Answers : Raise(a, x)
        \/ UNCHANGED outcome /\ \E step \in {"resolve", "isreg", "lock", "poll"} : Goto(a, step)
      BY <1>11 DEF IsSymlink, ResolveStrict, IsRegular, OpenLock, Answers
  <2>2. {"resolve", "isreg", "lock", "poll"} \subseteq Steps /\ a \in Requests
      BY DEF Steps, Requests
  <2>3. path' \in [Appenders -> Names]
      BY <1>11 DEF IsSymlink, ResolveStrict, IsRegular, OpenLock, Followed, TypeOK
  <2>4. lockFd' \in [Appenders -> Nat]
      BY <1>11 DEF IsSymlink, ResolveStrict, IsRegular, OpenLock, TypeOK
  <2>5. UNCHANGED <<dir, file, survive, lockFile, lockKind, seq, temp, tempFd, polls, before, existing,
                    landed, failed, hostOps, faults, crashes>>
      BY <1>11 DEF IsSymlink, ResolveStrict, IsRegular, OpenLock
  <2>6. /\ outcome' \in [Requests -> Answers \union {"none"}] /\ pc' \in [Requests -> Steps]
        /\ pc'[a] \notin Risky /\ \A q \in Requests : q # a => pc'[q] = pc[q]
      BY <2>1, <2>2, RaiseType, GotoType DEF TypeOK, Risky
  <2>7. TypeOK'
      BY <2>3, <2>4, <2>5, <2>6 DEF TypeOK, Steps
  <2>8. InodesKnown'
      BY <2>5, <2>6, KnownFrame
  <2> QED
      BY <2>7, <2>8
<1>13. ASSUME NEW a \in Appenders, AcquireLock(a) PROVE TypeInv'
    BY <1>13, InboxAssumption DEF AcquireLock, TypeOK, InodesKnown, Goto, Locked, Requests
<1>14. ASSUME NEW a \in Appenders, PollLock(a) PROVE TypeInv'
  <2>1. CASE polls[a] < MaxPolls
    <3>1. polls' = [polls EXCEPT ![a] = polls[a] + 1]
        BY <1>14, <2>1 DEF PollLock
    <3>2. polls[a] + 1 \in 0..MaxPolls
        BY <2>1, InboxAssumption DEF TypeOK
    <3>3. polls' \in [Appenders -> 0..MaxPolls]
        BY <3>1, <3>2 DEF TypeOK
    <3> QED
        BY <1>14, <2>1, <3>3 DEF PollLock, TypeOK, InodesKnown
  <2>2. CASE ~(polls[a] < MaxPolls)
    <3>1. /\ Raise(a, "INBOX_LOCK_TIMEOUT") /\ "INBOX_LOCK_TIMEOUT" \in Answers
          /\ a \in Requests
        BY <1>14, <2>2 DEF PollLock, Answers, Requests
    <3>2. lockFd' = [lockFd EXCEPT ![a] = 0] /\ lockFd' \in [Appenders -> Nat]
      <4>1. lockFd' = [lockFd EXCEPT ![a] = 0]
          BY <1>14, <2>2 DEF PollLock
      <4> QED
          BY <4>1 DEF TypeOK
    <3>3. TypeOK'
        BY <1>14, <2>2, <3>1, <3>2, RaiseType DEF PollLock, TypeOK, Steps
    <3>4. InodesKnown'
        BY <1>14, <2>2, <3>1, RaiseType, KnownFrame DEF PollLock, Risky
    <3> QED
        BY <3>3, <3>4
  <2> QED
      BY <2>1, <2>2
<1>15. ASSUME NEW a \in Appenders, OpenTarget(a) PROVE TypeInv'
  <2> DEFINE i == dir[path[a]]
  <2>1. CASE \E x \in Answers : Raise(a, x) /\ UNCHANGED before
      BY <1>15, <2>1, RaiseType DEF OpenTarget, TypeOK, InodesKnown, Steps, Requests
  <2>2. CASE /\ i # None
             /\ before' = [before EXCEPT ![a] = Identity(i)]
             /\ Goto(a, "read") /\ UNCHANGED outcome
    <3>1. i \in Inodes
        BY <2>2 DEF TypeOK, Entry
    <3>2. Identity(i) \in IdentityRecord /\ Identity(i).ino = i
        BY <3>1 DEF Identity, IdentityRecord, TypeOK, FileRecord, Entry
    <3>3. before' \in [Appenders -> IdentityRecord] /\ before'[a].ino \in Inodes
        BY <2>2, <3>1, <3>2 DEF TypeOK
    <3>4. "read" \in Steps /\ a \in Requests
        BY DEF Steps, Locked, Requests
    <3>5. TypeOK'
        BY <1>15, <2>2, <3>3, <3>4, GotoType DEF OpenTarget, TypeOK, Steps
    <3>6. InodesKnown'
        BY <1>15, <2>2, <3>3, <3>4, GotoType DEF OpenTarget, TypeOK, InodesKnown, Requests
    <3> QED
        BY <3>5, <3>6
  <2> QED
      BY <1>15, <2>1, <2>2 DEF OpenTarget, Unfindable, KindAt, Answers
<1>16. ASSUME NEW a \in Appenders, ReadChunk(a) PROVE TypeInv'
  <2> DEFINE data == file[before[a].ino].data
  <2>1. before[a].ino \in Inodes /\ data \in Seq(Texts) /\ existing[a] \in Seq(Texts)
      BY <1>16 DEF ReadChunk, TypeOK, InodesKnown, FileRecord
  <2>2. Len(existing[a]) < Len(data)
      BY <1>16 DEF ReadChunk
  <2>3. data[Len(existing[a]) + 1] \in Texts
      BY <2>1, <2>2
  <2>4. Append(existing[a], data[Len(existing[a]) + 1]) \in Seq(Texts)
      BY <2>1, <2>3
  <2>5. existing' \in [Appenders -> Seq(Texts)]
      BY <1>16, <2>4 DEF ReadChunk, TypeOK
  <2> QED
      BY <1>16, <2>5 DEF ReadChunk, TypeOK, InodesKnown
<1>17. ASSUME NEW a \in Appenders, ReadEnd(a) PROVE TypeInv'
  <2>1. (\E x \in Answers : Raise(a, x)) \/ (Goto(a, "temp") /\ UNCHANGED outcome)
      BY <1>17 DEF ReadEnd, Answers
  <2>2. "temp" \in Steps /\ a \in Requests /\ pc[a] = "read"
      BY <1>17 DEF Steps, Locked, Requests, ReadEnd
  <2>3. TypeOK'
      BY <1>17, <2>1, <2>2, RaiseType, GotoType DEF ReadEnd, TypeOK, Steps
  <2>4. CASE \E x \in Answers : Raise(a, x)
      BY <1>17, <2>2, <2>3, <2>4, RaiseType, KnownFrame DEF ReadEnd, Risky
  <2>5. CASE Goto(a, "temp")
    <3>1. pc'[a] = "temp" /\ \A q \in Requests : q # a => pc'[q] = pc[q]
        BY <2>2, <2>5, GotoType
    <3> QED
        BY <1>17, <2>2, <2>3, <3>1 DEF ReadEnd, InodesKnown, Requests
  <2> QED
      BY <2>1, <2>3, <2>4, <2>5
<1>18. ASSUME NEW a \in Appenders, CheckIdentity(a) PROVE TypeInv'
  <2>1. (\E x \in Answers : Raise(a, x)) \/ (Goto(a, "replace") /\ UNCHANGED outcome)
      BY <1>18 DEF CheckIdentity, Answers
  <2>2. "replace" \in Steps /\ a \in Requests /\ pc[a] = "check"
      BY <1>18 DEF Steps, Locked, Requests, CheckIdentity
  <2>3. TypeOK'
      BY <1>18, <2>1, <2>2, RaiseType, GotoType DEF CheckIdentity, TypeOK, Steps
  <2>4. CASE \E x \in Answers : Raise(a, x)
      BY <1>18, <2>2, <2>3, <2>4, RaiseType, KnownFrame DEF CheckIdentity, Risky
  <2>5. CASE Goto(a, "replace")
    <3>1. pc'[a] = "replace" /\ \A q \in Requests : q # a => pc'[q] = pc[q]
        BY <2>2, <2>5, GotoType
    <3> QED
        BY <1>18, <2>2, <2>3, <3>1 DEF CheckIdentity, InodesKnown, Requests
  <2> QED
      BY <2>1, <2>3, <2>4, <2>5
<1>19. ASSUME NEW a \in Appenders, Replace(a) PROVE TypeInv'
  <2>1. a \in Requests /\ path[a] \in Names /\ temp[a] \in Entry /\ None \in Entry
      BY DEF TypeOK, Requests, Entry
  <2>2. Goto(a, "syncdir") /\ "syncdir" \in Steps
      BY <1>19 DEF Replace, Steps, Locked
  <2>3. /\ dir' \in [Names -> Entry] /\ survive' \in [Names -> SUBSET Entry]
        /\ landed' \in [Requests -> Names \union {None}]
        /\ temp' \in [Requests -> Entry]
        /\ \A q \in Requests : q # a => temp'[q] = temp[q]
      BY <1>19, <2>1 DEF Replace, SetEntry, TypeOK
  <2> QED
      BY <1>19, <2>1, <2>2, <2>3, GotoType, KnownFrame DEF Replace, TypeOK, Steps, Risky
<1>20. ASSUME NEW a \in Appenders, Unlock(a) PROVE TypeInv'
    BY <1>20, InboxAssumption DEF Unlock, TypeOK, InodesKnown, Goto, Locked, Requests
<1>21. ASSUME ProcessCrash PROVE TypeInv'
  <2>1. tempFd' \in [Requests -> Entry] /\ lockFd' \in [Appenders -> Nat]
      BY <1>21 DEF ProcessCrash, Crash, Entry
  <2> QED
      BY <1>21, <2>1 DEF ProcessCrash, Crash, TypeOK, InodesKnown, Requests, InFlight
<1>22. ASSUME PowerLoss PROVE TypeInv'
  <2>1. file' \in [Inodes -> FileRecord]
      BY <1>22 DEF PowerLoss, TypeOK, FileRecord
  <2>2. /\ dir' \in [Names -> Entry] /\ survive' \in [Names -> SUBSET Entry]
        /\ tempFd' \in [Requests -> Entry] /\ lockFd' \in [Appenders -> Nat]
      BY <1>22 DEF PowerLoss, Crash, Entry
  <2> QED
      BY <1>22, <2>1, <2>2 DEF PowerLoss, Crash, TypeOK, InodesKnown, Requests, InFlight
<1>23. ASSUME HostSwapsLock PROVE TypeInv'
    BY <1>23, InboxAssumption DEF HostSwapsLock, TypeOK, InodesKnown, Kinds
<1>24. ASSUME NEW n \in Names, HostEdit(n) PROVE TypeInv'
  <2> DEFINE i == dir[n]
             d == file[i].data
  <2>1. PICK new \in {Append(d, "Host"),
                      [k \in 1..Len(d) |-> IF k = Len(d) THEN "Host" ELSE d[k]]},
             t \in NewMtimes(i) :
            file' = [file EXCEPT ![i] = [data |-> new, mtime |-> t,
                                         kind |-> "regular", synced |-> TRUE]]
      BY <1>24 DEF HostEdit
  <2>2. i \in Inodes
      BY <1>24 DEF HostEdit, KindAt, TypeOK, Entry
  <2>3. d \in Seq(Texts) /\ "Host" \in Texts
      BY <2>2 DEF TypeOK, FileRecord, Texts
  <2>4. new \in Seq(Texts)
    <3>1. Append(d, "Host") \in Seq(Texts)
        BY <2>3
    <3>2. Len(d) \in Nat /\ \A k \in 1..Len(d) : d[k] \in Texts
        BY <2>3
    <3>3. [k \in 1..Len(d) |-> IF k = Len(d) THEN "Host" ELSE d[k]] \in Seq(Texts)
        BY <2>3, <3>2
    <3> QED
        BY <2>1, <3>1, <3>3
  <2>5. file' \in [Inodes -> FileRecord]
      BY <2>1, <2>2, <2>4, MtimesType DEF TypeOK, FileRecord, Kinds
  <2> QED
      BY <1>24, <2>5 DEF HostEdit, MayAct, HostUnchanged, TypeOK, InodesKnown
<1>25. ASSUME NEW n \in Names, HostPut(n) PROVE TypeInv'
  <2>0. PICK i \in FreeInodes, k \in HostKinds : \E t \in NewMtimes(i) :
            /\ file' = [file EXCEPT ![i] = [data |-> <<"Host">>, mtime |-> t,
                                            kind |-> k, synced |-> TRUE]]
            /\ SetEntry(n, i)
      BY <1>25 DEF HostPut
  <2>1. PICK t \in NewMtimes(i) :
            /\ file' = [file EXCEPT ![i] = [data |-> <<"Host">>, mtime |-> t,
                                            kind |-> k, synced |-> TRUE]]
            /\ SetEntry(n, i)
      BY <2>0
  <2>2. i \in Inodes /\ k \in Kinds /\ t \in Nat
      BY InboxAssumption, MtimesType DEF FreeInodes
  <2>3. <<"Host">> \in Seq(Texts)
      BY DEF Texts
  <2>4. file' \in [Inodes -> FileRecord]
      BY <2>1, <2>2, <2>3 DEF TypeOK, FileRecord
  <2>5. dir' \in [Names -> Entry] /\ survive' \in [Names -> SUBSET Entry]
      BY <2>1, <2>2 DEF SetEntry, TypeOK, Entry
  <2> QED
      BY <1>25, <2>4, <2>5 DEF HostPut, MayAct, HostUnchanged, TypeOK, InodesKnown
<1>26. ASSUME NEW n \in Names, HostDelete(n) PROVE TypeInv'
    BY <1>26 DEF HostDelete, MayAct, HostUnchanged, SetEntry, TypeOK, InodesKnown, Entry
<1>27. ASSUME UNCHANGED vars PROVE TypeInv'
    BY <1>27 DEF vars, TypeOK, InodesKnown
<1> QED
    BY <1>1, <1>2, <1>3, <1>4, <1>5, <1>6, <1>7, <1>8, <1>9, <1>10, <1>11, <1>13, <1>14, <1>15, <1>16, <1>17, <1>18, <1>19,
       <1>20, <1>21, <1>22, <1>23, <1>24, <1>25, <1>26, <1>27, <1>28
    DEF Next, Arrive, Step, Failure, SharedStep, CreateStep, AppendStep, HostStep, Idle

\* Type correctness: every variable of the inbox writes keeps its type.
THEOREM TypeCorrect == Spec => []TypeOK
<1>1. TypeInv => TypeOK
    BY DEF TypeInv
<1> QED
    BY TypeInit, TypeStep, <1>1, PTL DEF Spec

-----------------------------------------------------------------------------
\* flock's part, a lemma for what follows: no two appends are between
\* _open_append_lock and os.close(lock_fd) on the same lock file.
LockExclusive ==
    \A a, b \in Appenders :
        Holds(a) /\ Holds(b) /\ lockFd[a] = lockFd[b] => a = b

\* A step that gives nobody the lock, and changes no holder's descriptor,
\* keeps LockExclusive.
LEMMA LockFrame ==
    ASSUME LockExclusive,
           \A a \in Appenders : Holds(a)' => Holds(a) /\ lockFd'[a] = lockFd[a]
    PROVE  LockExclusive'
BY DEF LockExclusive

\* Raising gives nobody the lock.
LEMMA RaiseHolds ==
    ASSUME TypeOK, NEW r \in Requests, NEW x \in Answers, Raise(r, x)
    PROVE  \A a \in Appenders : Holds(a)' => Holds(a)
<1> SUFFICES ASSUME NEW a \in Appenders, Holds(a)' PROVE Holds(a)
    OBVIOUS
<1>1. CASE a = r
  <2>1. pc'[a] = Unwind(a, pc[a])
      BY <1>1 DEF Raise, Goto, TypeOK
  <2>2. a \notin Creators
      BY InboxAssumption
  <2>3. Unwind(a, pc[a]) \in Locked
      BY <2>1 DEF Holds
  <2>4. pc[a] \in {"check", "replace", "syncdir", "open", "read", "temp", "write"}
      BY <2>2, <2>3 DEF Unwind, Locked
  <2> QED
      BY <2>4 DEF Holds, Locked
<1>2. CASE a # r
    BY <1>2, RaiseType DEF Holds, Requests
<1> QED
    BY <1>1, <1>2

\* A request that raises while it polls or releases the lock is done.
LEMMA RaiseUnlocks ==
    ASSUME TypeOK, NEW r \in Requests, NEW x \in Answers, Raise(r, x), pc[r] \in {"poll", "unlock"}
    PROVE  pc'[r] = "done"
BY DEF Raise, Goto, Unwind, TypeOK

\* A clean-up call that fails is no step to an earlier one: where the request is then.
LEMMA CleanUpMoves ==
    ASSUME TypeOK, NEW r \in Requests, FchmodFails(r) \/ UnlinkFails(r)
    PROVE  /\ \/ pc[r] = "write" /\ pc'[r] = "unlink"
              \/ pc[r] = "unlink" /\ pc'[r] = AfterUnlink(r)
           /\ pc'[r] \in {"unlink", "unlock", "done"}
           /\ \A q \in Requests : q # r => pc'[q] = pc[q] /\ outcome'[q] = outcome[q]
           /\ outcome'[r] = "INTERNAL_ERROR"
           /\ UNCHANGED <<fs, lock, create, tmp, append, landed, hostOps, crashes>>
<1>1. CASE FchmodFails(r)
  <2>1. Unwind(r, "write") = "unlink"
      BY DEF Unwind, Requests
  <2> QED
      BY <1>1, <2>1 DEF FchmodFails, CleanUpFails, Goto, TypeOK
<1>2. CASE UnlinkFails(r)
    BY <1>2 DEF UnlinkFails, CleanUpFails, AfterUnlink, Goto, TypeOK
<1> QED
    BY <1>1, <1>2

\* Nor does it give anybody the lock.
LEMMA CleanUpHolds ==
    ASSUME TypeOK, NEW r \in Requests, FchmodFails(r) \/ UnlinkFails(r)
    PROVE  \A a \in Appenders : Holds(a)' => Holds(a)
<1> SUFFICES ASSUME NEW a \in Appenders, Holds(a)' PROVE Holds(a)
    OBVIOUS
<1>1. a \in Requests
    BY DEF Requests
<1>2. CASE a = r
  <2>1. pc[a] \in {"write", "unlink"}
      BY <1>2, CleanUpMoves
  <2> QED
      BY <2>1 DEF Holds, Locked
<1>3. CASE a # r
    BY <1>1, <1>3, CleanUpMoves DEF Holds
<1> QED
    BY <1>2, <1>3

\* Going on within the locked part, or to a step outside it, gives nobody the
\* lock; creators never have it.
LEMMA GotoHolds ==
    ASSUME TypeOK, NEW r \in Requests, NEW step \in Steps, Goto(r, step),
           r \in Creators \/ step \notin Locked \/ pc[r] \in Locked
    PROVE  \A a \in Appenders : Holds(a)' => Holds(a)
BY GotoType, InboxAssumption DEF Holds, Requests

\* Every step keeps the lock exclusive.
LEMMA LockStep == TypeOK /\ LockExclusive /\ [Next]_vars => LockExclusive'
<1> SUFFICES ASSUME TypeOK, LockExclusive, [Next]_vars PROVE LockExclusive'
    OBVIOUS
<1> USE DEF fs, lock, create, tmp, append, used, Goes
<1>1. ASSUME NEW r \in Requests, Refuse(r) PROVE LockExclusive'
    BY <1>1, RaiseHolds, GotoHolds, LockFrame DEF Refuse, Steps, Locked, Answers
<1>2. ASSUME NEW r \in Requests, OpenTemp(r) PROVE LockExclusive'
    BY <1>2, RaiseHolds, GotoHolds, LockFrame DEF OpenTemp, Steps, Locked, Answers
<1>3. ASSUME NEW r \in Requests, WriteTemp(r) PROVE LockExclusive'
    BY <1>3, RaiseHolds, GotoHolds, LockFrame DEF WriteTemp, Steps, Locked, Answers
<1>4. ASSUME NEW r \in Requests, SyncDirectory(r) PROVE LockExclusive'
    BY <1>4, RaiseHolds, GotoHolds, LockFrame DEF SyncDirectory, Steps, Locked, Answers
<1>5. ASSUME NEW r \in Requests, Stat(r) PROVE LockExclusive'
    BY <1>5, RaiseHolds, GotoHolds, LockFrame DEF Stat, Steps, Locked, Answers
<1>6. ASSUME NEW r \in Requests, UnlinkTemp(r) PROVE LockExclusive'
    BY <1>6, RaiseHolds, GotoHolds, LockFrame DEF UnlinkTemp, AfterUnlink, Steps, Locked, Answers
<1>7. ASSUME NEW r \in Requests, SystemCallFails(r) PROVE LockExclusive'
  <2>1. \E x \in Answers : Raise(r, x)
      BY <1>7 DEF SystemCallFails, FaultAnswers, Answers
  <2>2. ASSUME NEW b \in Appenders, Holds(b)'
        PROVE  Holds(b) /\ lockFd'[b] = lockFd[b]
    <3>1. Holds(b) /\ ~(b = r /\ pc[b] \in {"poll", "unlock"})
        BY <2>1, <2>2, RaiseHolds, RaiseUnlocks DEF Holds, Locked
    <3> QED
        BY <1>7, <3>1 DEF SystemCallFails
  <2> QED
      BY <2>2, LockFrame
<1>27. ASSUME NEW r \in Requests, FchmodFails(r) \/ UnlinkFails(r) PROVE LockExclusive'
  <2>1. \A b \in Appenders : Holds(b)' => Holds(b)
      BY <1>27, CleanUpHolds
  <2>2. lockFd' = lockFd
      BY <1>27 DEF FchmodFails, UnlinkFails, CleanUpFails
  <2> QED
      BY <2>1, <2>2, LockFrame
<1>8. ASSUME NEW c \in Creators, StartCreate(c) PROVE LockExclusive'
    BY <1>8, RaiseHolds, GotoHolds, LockFrame DEF StartCreate, Steps, Locked, Answers, Requests, Holds
<1>9. ASSUME NEW c \in Creators, Link(c) PROVE LockExclusive'
    BY <1>9, RaiseHolds, GotoHolds, LockFrame DEF Link, Steps, Locked, Answers, Requests, Holds
<1>10. ASSUME NEW c \in Creators, LinkExists(c) PROVE LockExclusive'
    BY <1>10, RaiseHolds, GotoHolds, LockFrame DEF LinkExists, Steps, Locked, Answers, Requests, Holds
<1>11. ASSUME NEW a \in Appenders, IsSymlink(a) \/ ResolveStrict(a) \/ IsRegular(a) \/ OpenLock(a)
       PROVE  LockExclusive'
  <2>1. \/ \E x \in Answers : Raise(a, x)
        \/ \E step \in {"resolve", "isreg", "lock", "poll"} : Goto(a, step)
      BY <1>11 DEF IsSymlink, ResolveStrict, IsRegular, OpenLock, Answers
  <2>2. {"resolve", "isreg", "lock", "poll"} \subseteq Steps /\ a \in Requests
        /\ \A step \in {"resolve", "isreg", "lock", "poll"} : step \notin Locked
      BY DEF Steps, Requests, Locked
  <2>3. \A b \in Appenders : Holds(b)' => Holds(b)
      BY <2>1, <2>2, RaiseHolds, GotoHolds
  <2>4. ~Holds(a) /\ \A b \in Appenders : b # a => lockFd'[b] = lockFd[b]
      BY <1>11 DEF IsSymlink, ResolveStrict, IsRegular, OpenLock, Holds, Locked, TypeOK
  <2> QED
      BY <2>3, <2>4, LockFrame
<1>13. ASSUME NEW a \in Appenders, PollLock(a) PROVE LockExclusive'
  <2>1. CASE polls[a] < MaxPolls
      BY <1>13, <2>1, LockFrame DEF PollLock, Holds
  <2>2. CASE ~(polls[a] < MaxPolls)
    <3>1. /\ Raise(a, "INBOX_LOCK_TIMEOUT") /\ "INBOX_LOCK_TIMEOUT" \in Answers
          /\ a \in Requests /\ pc[a] = "poll"
          /\ lockFd' = [lockFd EXCEPT ![a] = 0]
        BY <1>13, <2>2 DEF PollLock, Answers, Requests
    <3>2. \A b \in Appenders : Holds(b)' => Holds(b) /\ b # a
        BY <3>1, RaiseHolds DEF Holds, Locked
    <3> QED
        BY <3>1, <3>2, LockFrame DEF TypeOK
  <2> QED
      BY <2>1, <2>2
<1>14. ASSUME NEW a \in Appenders, OpenTarget(a) PROVE LockExclusive'
    BY <1>14, RaiseHolds, GotoHolds, LockFrame DEF OpenTarget, Steps, Locked, Answers, Requests, Holds
<1>15. ASSUME NEW a \in Appenders, ReadChunk(a) PROVE LockExclusive'
    BY <1>15, RaiseHolds, GotoHolds, LockFrame DEF ReadChunk, Steps, Locked, Answers, Requests, Holds
<1>16. ASSUME NEW a \in Appenders, ReadEnd(a) PROVE LockExclusive'
    BY <1>16, RaiseHolds, GotoHolds, LockFrame DEF ReadEnd, Steps, Locked, Answers, Requests, Holds
<1>17. ASSUME NEW a \in Appenders, CheckIdentity(a) PROVE LockExclusive'
    BY <1>17, RaiseHolds, GotoHolds, LockFrame DEF CheckIdentity, Steps, Locked, Answers, Requests, Holds
<1>18. ASSUME NEW a \in Appenders, Replace(a) PROVE LockExclusive'
    BY <1>18, RaiseHolds, GotoHolds, LockFrame DEF Replace, Steps, Locked, Answers, Requests, Holds
<1>19. ASSUME NEW a \in Appenders, Unlock(a) PROVE LockExclusive'
  <2>1. PICK s \in {"stat", "done"} : Goto(a, s) /\ s \in Steps /\ s \notin Locked
      BY <1>19 DEF Unlock, Steps, Locked
  <2>2. \A b \in Appenders : Holds(b)' => Holds(b) /\ b # a
      BY <2>1, GotoHolds, GotoType DEF Holds, Requests
  <2>3. lockFd' = [lockFd EXCEPT ![a] = 0]
      BY <1>19 DEF Unlock
  <2> QED
      BY <2>2, <2>3, LockFrame DEF TypeOK
<1>20. ASSUME NEW a \in Appenders, AcquireLock(a) PROVE LockExclusive'
  <2>1. \A b \in Appenders : Holds(b)' => b = a \/ Holds(b)
      BY <1>20, GotoType DEF AcquireLock, Steps, Locked, Holds, Requests
  <2>2. \A b \in Appenders : Holds(b) => lockFd[b] # lockFd[a]
      BY <1>20 DEF AcquireLock, Contended
  <2> QED
      BY <1>20, <2>1, <2>2 DEF AcquireLock, LockExclusive
<1>21. ASSUME Crash PROVE LockExclusive'
    BY <1>21, LockFrame DEF Crash, Holds, InFlight, Locked, Requests
<1>22. ASSUME HostSwapsLock PROVE LockExclusive'
    BY <1>22, LockFrame DEF HostSwapsLock, Holds
<1>23. ASSUME NEW n \in Names, HostEdit(n) PROVE LockExclusive'
    BY <1>23, LockFrame DEF HostEdit, HostUnchanged, Holds
<1>24. ASSUME NEW n \in Names, HostPut(n) PROVE LockExclusive'
    BY <1>24, LockFrame DEF HostPut, HostUnchanged, Holds
<1>25. ASSUME NEW n \in Names, HostDelete(n) PROVE LockExclusive'
    BY <1>25, LockFrame DEF HostDelete, HostUnchanged, Holds
<1>26. ASSUME UNCHANGED vars PROVE LockExclusive'
    BY <1>26, LockFrame DEF vars, Holds
<1> QED
    BY <1>1, <1>2, <1>3, <1>4, <1>5, <1>6, <1>7, <1>8, <1>9, <1>10, <1>11, <1>13, <1>14, <1>15, <1>16, <1>17, <1>18,
       <1>19, <1>20, <1>21, <1>22, <1>23, <1>24, <1>25, <1>26, <1>27
    DEF Next, Arrive, Step, Failure, SharedStep, CreateStep, AppendStep, HostStep, Idle, ProcessCrash, PowerLoss

\* Only os.link puts a created note anywhere: a step that makes a create land
\* is its Link.
LEMMA LandsByLink ==
    ASSUME TypeOK, [Next]_vars, NEW c \in Creators, landed'[c] # landed[c]
    PROVE  Link(c)
<1> USE DEF fs, lock, create, tmp, append, used, Goes
<1>1. c \notin Appenders /\ c \in Requests
    BY InboxAssumption DEF Requests
<1>2. ASSUME NEW d \in Creators, Link(d) PROVE d = c
    BY <1>1, <1>2 DEF Link, TypeOK
<1>3. ASSUME NEW a \in Appenders PROVE ~Replace(a)
    BY <1>1 DEF Replace, TypeOK
<1>4. ASSUME UNCHANGED landed PROVE FALSE
    BY <1>4
<1>5. \A r \in Requests : ~Arrive(r)
    BY <1>4 DEF Arrive, Refuse, StartCreate, IsSymlink
<1>6. \A r \in Requests : ~SharedStep(r) /\ ~Failure(r)
    BY <1>4 DEF SharedStep, OpenTemp, WriteTemp, SyncDirectory, Stat, UnlinkTemp,
       Failure, SystemCallFails, FchmodFails, UnlinkFails, CleanUpFails
<1>7. \A d \in Creators : CreateStep(d) => Link(d)
    BY <1>4 DEF CreateStep, LinkExists
<1>8. \A a \in Appenders : ~AppendStep(a)
    BY <1>3, <1>4 DEF AppendStep, ResolveStrict, IsRegular, OpenLock, AcquireLock, PollLock, OpenTarget, ReadChunk,
       ReadEnd, CheckIdentity, Unlock
<1>9. ~HostStep /\ ~ProcessCrash /\ ~PowerLoss
    BY <1>4 DEF HostStep, HostEdit, HostPut, HostDelete, HostUnchanged, HostSwapsLock,
       ProcessCrash, PowerLoss, Crash
<1>10. ~Idle /\ ~UNCHANGED vars
    BY <1>4 DEF Idle, vars
<1> QED
    BY <1>2, <1>5, <1>6, <1>7, <1>8, <1>9, <1>10 DEF Next, Step

\* A new note is never created by overwriting an existing one, whatever the
\* host, crashes and the other requests do.
THEOREM CreateNeverOverwrites == Spec => NewNoteNeverOverwrites
<1> DEFINE KeepsNotes ==
        \A c \in Creators : landed'[c] # landed[c] =>
            \A n \in InUse : dir'[n] # None /\ Note(n)' = Note(n)
<1>1. TypeOK /\ [Next]_vars => KeepsNotes
  <2> SUFFICES ASSUME TypeOK, [Next]_vars,
                      NEW c \in Creators, landed'[c] # landed[c],
                      NEW n \in InUse
               PROVE  dir'[n] # None /\ Note(n)' = Note(n)
      OBVIOUS
  <2>1. Link(c)
      BY LandsByLink
  <2>2. n # Destination(c) /\ n \in Names
      BY <2>1 DEF Link, InUse
  <2>3. dir'[n] = dir[n] /\ file' = file
      BY <2>1, <2>2 DEF Link, SetEntry, TypeOK
  <2> QED
      BY <2>3 DEF Note, InUse
<1> QED
    BY <1>1, TypeCorrect, PTL DEF Spec, NewNoteNeverOverwrites

-----------------------------------------------------------------------------
(* What is left on the disk: refused requests leave no text, answered ones  *)
(* no temp file, and no note is a half of its data.                         *)

\* Before it lands, and with a temp file in hand.
Early == {"start", "resolve", "isreg", "lock", "poll", "open", "read", "temp", "write", "link", "check", "replace"}
Writing == {"write", "link", "check", "replace"}
Written == {"link", "check", "replace"}

\* Texts a note may hold: those of the host, and of the requests that landed.
Public == {"Original", "Host"} \union {r \in Requests : landed[r] # None}
ReadTexts(a) == {existing[a][k] : k \in 1..Len(existing[a])}

\* A temp file is of one request alone until it is linked or renamed.
PrivateInv ==
    /\ \A n \in Names : dir[n] \in survive[n]
    /\ \A q, r \in Requests : temp[q] = temp[r] /\ temp[q] # None => q = r
    /\ \A r \in Requests : pc[r] \in Writing =>
         /\ \A n \in Names : temp[r] \notin survive[n]
         /\ \A a \in Appenders : pc[a] = "read" => before[a].ino # temp[r]

\* A request is refused only before it lands, and lands only unanswered.
AnswerInv ==
    /\ \A r \in Requests : pc[r] \in Early => outcome[r] = "none" /\ landed[r] = None
    /\ \A r \in Requests : landed[r] # None => outcome[r] \notin Refusals

\* What is in a note, or on its way there, is public.
TraceInv ==
    /\ \A n \in Names : \A i \in survive[n] \ {None} : TextsOf(i) \subseteq Public
    /\ \A a \in Appenders : pc[a] = "read" => TextsOf(before[a].ino) \subseteq Public
    /\ \A a \in Appenders : ReadTexts(a) \subseteq Public
    /\ \A r \in Requests : pc[r] \in Written => TextsOf(temp[r]) \subseteq Public \union {r}

WholeInv ==
    /\ \A n \in Names : \A i \in survive[n] \ {None} : file[i].synced
    /\ \A r \in Requests : pc[r] \in Written => file[temp[r]].synced

CreatorSteps == {"start", "temp", "write", "link", "syncdir", "stat", "unlink", "done", "dead"}
BeforeTemp == {"start", "resolve", "isreg", "lock", "poll", "open", "read", "temp"}

\* Past the unlink, in its `finally' block.
Unlinked(r) == pc[r] = "done" \/ (r \in Appenders /\ pc[r] \in {"unlock", "stat"})

\* A temp file, or its descriptor, that outlives its use has a call of its own that failed.
CleanTemp(r) ==
    /\ pc[r] \in BeforeTemp => temp[r] = None
    /\ Unlinked(r) /\ temp[r] # None => "unlink" \in failed[r]
    /\ tempFd[r] # None => pc[r] = "write" \/ "fchmod" \in failed[r]

\* No descriptor of the lock file before it is opened, or after it is closed.
CleanLock(a) ==
    pc[a] \in {"start", "resolve", "isreg", "lock", "stat", "done"} => lockFd[a] = 0

CleanInv ==
    /\ \A c \in Creators : pc[c] \in CreatorSteps
    /\ \A a \in Appenders : pc[a] # "link" /\ CleanLock(a)
    /\ \A r \in Requests : CleanTemp(r)

-----------------------------------------------------------------------------
(* Clean-up.                                                               *)

\* Only r moves, and what it has agrees with where it goes.
LEMMA CleanFrame ==
    ASSUME TypeOK, CleanInv, NEW r \in Requests,
           \A q \in Requests : q # r =>
              /\ pc'[q] = pc[q] /\ temp'[q] = temp[q]
              /\ tempFd'[q] = tempFd[q] /\ failed'[q] = failed[q],
           \A a \in Appenders : a # r => lockFd'[a] = lockFd[a],
           r \in Creators => pc'[r] \in CreatorSteps,
           r \in Appenders => pc'[r] # "link" /\ CleanLock(r)',
           CleanTemp(r)'
    PROVE  CleanInv'
<1>1. \A c \in Creators : pc'[c] \in CreatorSteps
    BY DEF CleanInv, Requests
<1>2. \A a \in Appenders : pc'[a] # "link" /\ CleanLock(a)'
    BY DEF CleanInv, CleanLock, Requests
<1>3. \A q \in Requests : CleanTemp(q)'
    BY DEF CleanInv, CleanTemp, Unlinked
<1> QED
    BY <1>1, <1>2, <1>3 DEF CleanInv

\* Where a request may go with the temp file, or without one, it has.
PlainMove(r) ==
    \/ pc[r] \in BeforeTemp
    \/ pc'[r] \notin BeforeTemp /\ ~Unlinked(r)'
    \/ Unlinked(r) /\ pc'[r] \notin BeforeTemp

\* A step that keeps temp files, and at most closes one.
LEMMA PlainClean ==
    ASSUME TypeOK, CleanInv, NEW r \in Requests, UNCHANGED <<temp, failed>>, PlainMove(r),
           \A q \in Requests : q # r => pc'[q] = pc[q] /\ tempFd'[q] = tempFd[q],
           tempFd'[r] = None \/ (tempFd'[r] = tempFd[r] /\ pc[r] # "write"),
           \A a \in Appenders : a # r => lockFd'[a] = lockFd[a],
           r \in Creators => pc'[r] \in CreatorSteps,
           r \in Appenders => pc'[r] # "link" /\ CleanLock(r)'
    PROVE  CleanInv'
<1>1. CleanTemp(r)
    BY DEF CleanInv
<1>2. temp'[r] # None => pc'[r] \notin BeforeTemp /\ (Unlinked(r)' => "unlink" \in failed'[r])
    BY <1>1 DEF PlainMove, CleanTemp
<1>3. tempFd'[r] # None => "fchmod" \in failed'[r]
    BY <1>1 DEF CleanTemp
<1>4. CleanTemp(r)'
    BY <1>2, <1>3 DEF CleanTemp
<1> QED
    BY <1>4, CleanFrame

\* Every step keeps the temp files and descriptors in step with where the requests are.
LEMMA CleanStep == TypeInv /\ CleanInv /\ [Next]_vars => CleanInv'
<1> SUFFICES ASSUME TypeInv, CleanInv, [Next]_vars PROVE CleanInv'
    OBVIOUS
<1>0. TypeOK /\ Creators \intersect Appenders = {}
    BY InboxAssumption DEF TypeInv
<1> USE <1>0 DEF fs, lock, create, tmp, append, used, Goes
<1>1. ASSUME NEW r \in Requests, Refuse(r) PROVE CleanInv'
  <2>1. /\ pc[r] = "start" /\ pc'[r] = "done" /\ \A q \in Requests : q # r => pc'[q] = pc[q]
        /\ UNCHANGED <<temp, tempFd, lockFd, failed>>
      BY <1>1 DEF Refuse, Raise, Goto, Unwind, TypeOK
  <2> QED
      BY <2>1, PlainClean DEF PlainMove, BeforeTemp, CleanInv, CleanLock, CreatorSteps
<1>2. ASSUME NEW r \in Requests, OpenTemp(r) PROVE CleanInv'
  <2>1. /\ pc'[r] = "write" /\ UNCHANGED <<lockFd, failed>>
        /\ \A q \in Requests : q # r => pc'[q] = pc[q] /\ temp'[q] = temp[q] /\ tempFd'[q] = tempFd[q]
      BY <1>2 DEF OpenTemp, Goto, TypeOK
  <2> QED
      BY <2>1, CleanFrame DEF CleanTemp, CleanLock, Unlinked, BeforeTemp, CreatorSteps
<1>3. ASSUME NEW r \in Requests, WriteTemp(r) PROVE CleanInv'
  <2>1. /\ pc'[r] = IF r \in Creators THEN "link" ELSE "check"
        /\ UNCHANGED <<temp, lockFd, failed>> /\ tempFd'[r] = None
        /\ \A q \in Requests : q # r => pc'[q] = pc[q] /\ tempFd'[q] = tempFd[q]
      BY <1>3 DEF WriteTemp, Goto, TypeOK
  <2> QED
      BY <2>1, PlainClean DEF PlainMove, BeforeTemp, Unlinked, CleanLock, CreatorSteps
<1>4. ASSUME NEW r \in Requests, SyncDirectory(r) \/ Stat(r) PROVE CleanInv'
  <2>1. /\ UNCHANGED <<temp, tempFd, lockFd, failed>>
        /\ \A q \in Requests : q # r => pc'[q] = pc[q]
        /\ \/ pc[r] = "syncdir" /\ pc'[r] = IF r \in Creators THEN "stat" ELSE "unlink"
           \/ pc[r] = "stat" /\ pc'[r] = IF r \in Creators THEN "unlink" ELSE "done"
      BY <1>4 DEF SyncDirectory, Stat, Raise, Goto, Unwind, TypeOK
  <2>2. PlainMove(r)
      BY <2>1 DEF PlainMove, BeforeTemp, Unlinked, Requests
  <2>3. r \in Appenders => CleanLock(r)'
      BY <2>1 DEF CleanInv, CleanLock
  <2> QED
      BY <2>1, <2>2, <2>3, PlainClean DEF CreatorSteps
<1>5. ASSUME NEW r \in Requests, UnlinkTemp(r) PROVE CleanInv'
  <2>1. /\ pc[r] = "unlink" /\ pc'[r] = AfterUnlink(r) /\ temp'[r] = None
        /\ UNCHANGED <<tempFd, lockFd, failed>>
        /\ \A q \in Requests : q # r => pc'[q] = pc[q] /\ temp'[q] = temp[q]
      BY <1>5 DEF UnlinkTemp, Goto, TypeOK
  <2>2. CleanTemp(r)'
      BY <2>1 DEF CleanInv, CleanTemp
  <2> QED
      BY <2>1, <2>2, CleanFrame DEF AfterUnlink, CleanLock, CreatorSteps, Requests
<1>6. ASSUME NEW r \in Requests, SystemCallFails(r) PROVE CleanInv'
  <2>1. /\ pc'[r] = Unwind(r, pc[r]) /\ UNCHANGED <<temp, failed>>
        /\ \A q \in Requests : q # r => pc'[q] = pc[q] /\ tempFd'[q] = tempFd[q]
        /\ tempFd'[r] = IF pc[r] = "write" THEN None ELSE tempFd[r]
        /\ \A a \in Appenders : lockFd'[a] = IF a = r /\ pc[r] \in {"poll", "unlock"} THEN 0 ELSE lockFd[a]
        /\ pc[r] \notin {"done", "dead", "unlink"}
      BY <1>6 DEF SystemCallFails, Raise, Goto, InFlight, TypeOK
  <2>2. CASE r \in Creators
    <3>1. pc[r] \in CreatorSteps
        BY <2>2 DEF CleanInv
    <3>2. pc'[r] = IF pc[r] \in {"write", "link", "syncdir", "stat"} THEN "unlink" ELSE "done"
        BY <2>1, <2>2 DEF Unwind
    <3>3. PlainMove(r)
        BY <2>1, <2>2, <3>1, <3>2 DEF PlainMove, BeforeTemp, Unlinked, CreatorSteps
    <3> QED
        BY <2>1, <2>2, <3>2, <3>3, PlainClean DEF CreatorSteps
  <2>3. CASE r \in Appenders
    <3>1. pc[r] # "link" /\ CleanLock(r)
        BY <2>3 DEF CleanInv
    <3>2. pc'[r] = IF pc[r] \in {"write", "check", "replace", "syncdir"} THEN "unlink"
                   ELSE IF pc[r] \in {"open", "read", "temp"} THEN "unlock" ELSE "done"
        BY <2>1, <2>3 DEF Unwind
    <3>3. pc[r] \in Steps
        BY DEF TypeOK, Steps
    <3>4. PlainMove(r)
        BY <2>1, <2>3, <3>1, <3>2, <3>3 DEF PlainMove, BeforeTemp, Unlinked, Steps, Locked
    <3>5. CleanLock(r)'
        BY <2>1, <2>3, <3>1, <3>2, <3>3 DEF CleanLock, Steps, Locked
    <3> QED
        BY <2>1, <2>3, <3>2, <3>4, <3>5, PlainClean
  <2> QED
      BY <2>2, <2>3 DEF Requests
<1>7. ASSUME NEW r \in Requests, FchmodFails(r) PROVE CleanInv'
  <2>1. /\ pc'[r] = "unlink" /\ UNCHANGED <<temp, tempFd, lockFd>>
        /\ failed' = [failed EXCEPT ![r] = @ \union {"fchmod"}]
        /\ \A q \in Requests : q # r => pc'[q] = pc[q]
      BY <1>7 DEF FchmodFails, CleanUpFails, Goto, Unwind, Requests, TypeOK
  <2>2. CleanTemp(r)'
      BY <2>1 DEF CleanTemp, Unlinked, BeforeTemp, TypeOK
  <2>3. \A q \in Requests : q # r => failed'[q] = failed[q]
      BY <2>1 DEF TypeOK
  <2> QED
      BY <2>1, <2>2, <2>3, CleanFrame DEF CleanLock, CreatorSteps
<1>8. ASSUME NEW r \in Requests, UnlinkFails(r) PROVE CleanInv'
  <2>1. /\ pc[r] = "unlink" /\ pc'[r] = AfterUnlink(r) /\ UNCHANGED <<temp, tempFd, lockFd>>
        /\ failed' = [failed EXCEPT ![r] = @ \union {"unlink"}]
        /\ \A q \in Requests : q # r => pc'[q] = pc[q]
      BY <1>8 DEF UnlinkFails, CleanUpFails, Goto, TypeOK
  <2>2. /\ failed'[r] = failed[r] \union {"unlink"}
        /\ \A q \in Requests : q # r => failed'[q] = failed[q]
      BY <2>1 DEF TypeOK
  <2>3. CleanTemp(r)'
      BY <2>1, <2>2 DEF CleanInv, CleanTemp, AfterUnlink, BeforeTemp
  <2> QED
      BY <2>1, <2>2, <2>3, CleanFrame DEF AfterUnlink, CleanLock, CreatorSteps, Requests
<1>9. ASSUME NEW c \in Creators, StartCreate(c) \/ Link(c) \/ LinkExists(c) PROVE CleanInv'
  <2>1. /\ UNCHANGED <<temp, tempFd, lockFd, failed>> /\ c \in Requests
        /\ \A q \in Requests : q # c => pc'[q] = pc[q]
        /\ \/ pc[c] = "start" /\ pc'[c] = "temp"
           \/ pc[c] = "link" /\ pc'[c] \in {"link", "syncdir", "unlink"}
      BY <1>9 DEF StartCreate, Link, LinkExists, Raise, Goto, Unwind, TypeOK, Requests
  <2>2. PlainMove(c) /\ pc'[c] \in CreatorSteps
      BY <2>1 DEF PlainMove, BeforeTemp, Unlinked, CreatorSteps
  <2> QED
      BY <2>1, <2>2, PlainClean
<1>10. ASSUME NEW a \in Appenders, IsSymlink(a) \/ ResolveStrict(a) \/ IsRegular(a) \/ OpenLock(a)
       PROVE  CleanInv'
  <2>1. /\ UNCHANGED <<temp, tempFd, failed>> /\ a \in Requests /\ a \notin Creators
        /\ \A b \in Appenders : b # a => lockFd'[b] = lockFd[b]
        /\ pc[a] \in {"start", "resolve", "isreg", "lock"}
      BY <1>10 DEF IsSymlink, ResolveStrict, IsRegular, OpenLock, TypeOK, Requests
  <2>2. \/ \E x \in Answers : Raise(a, x) /\ UNCHANGED lockFd
        \/ (\E step \in {"resolve", "isreg", "lock"} : Goto(a, step)) /\ UNCHANGED lockFd
        \/ Goto(a, "poll")
      BY <1>10 DEF IsSymlink, ResolveStrict, IsRegular, OpenLock, Answers
  <2>3. /\ \A q \in Requests : q # a => pc'[q] = pc[q]
        /\ pc'[a] \in {"done", "resolve", "isreg", "lock", "poll"}
        /\ pc'[a] = "poll" \/ UNCHANGED lockFd
      BY <2>1, <2>2 DEF Raise, Goto, Unwind, TypeOK
  <2>4. PlainMove(a) /\ CleanLock(a)'
      BY <2>1, <2>3 DEF PlainMove, BeforeTemp, CleanInv, CleanLock
  <2> QED
      BY <2>1, <2>3, <2>4, PlainClean
<1>11. ASSUME NEW a \in Appenders, AcquireLock(a) \/ PollLock(a) PROVE CleanInv'
  <2>1. /\ UNCHANGED <<temp, tempFd, failed>> /\ a \in Requests /\ a \notin Creators
        /\ \A b \in Appenders : b # a => lockFd'[b] = lockFd[b]
        /\ pc[a] = "poll"
      BY <1>11 DEF AcquireLock, PollLock, TypeOK, Requests
  <2>2. /\ \A q \in Requests : q # a => pc'[q] = pc[q]
        /\ pc'[a] \in {"done", "open", "poll"}
        /\ pc'[a] = "done" => lockFd'[a] = 0
      BY <1>11, <2>1 DEF AcquireLock, PollLock, Raise, Goto, Unwind, TypeOK
  <2>3. PlainMove(a) /\ CleanLock(a)'
      BY <2>1, <2>2 DEF PlainMove, BeforeTemp, CleanLock
  <2> QED
      BY <2>1, <2>2, <2>3, PlainClean
<1>12. ASSUME NEW a \in Appenders, OpenTarget(a) \/ ReadChunk(a) \/ ReadEnd(a) PROVE CleanInv'
  <2>1. /\ pc[a] \in {"open", "read"} /\ UNCHANGED <<temp, tempFd, lockFd, failed>>
        /\ a \in Requests /\ a \notin Creators
      BY <1>12 DEF OpenTarget, ReadChunk, ReadEnd, Requests
  <2>2. (\E x \in Answers : Raise(a, x)) \/ Goto(a, "read") \/ Goto(a, "temp") \/ UNCHANGED pc
      BY <1>12 DEF OpenTarget, ReadChunk, ReadEnd, Answers
  <2>3. /\ pc'[a] \in {"open", "read", "temp", "unlock"}
        /\ \A q \in Requests : q # a => pc'[q] = pc[q]
      BY <2>1, <2>2 DEF Raise, Goto, Unwind, TypeOK
  <2>4. PlainMove(a) /\ CleanLock(a)'
      BY <2>1, <2>3 DEF PlainMove, BeforeTemp, CleanLock
  <2> QED
      BY <2>1, <2>3, <2>4, PlainClean
<1>13. ASSUME NEW a \in Appenders, CheckIdentity(a) PROVE CleanInv'
  <2>1. /\ pc[a] = "check" /\ UNCHANGED <<temp, tempFd, lockFd, failed>>
        /\ a \in Requests /\ a \notin Creators
      BY <1>13 DEF CheckIdentity, Requests
  <2>2. (\E x \in Answers : Raise(a, x)) \/ Goto(a, "replace")
      BY <1>13 DEF CheckIdentity, Answers
  <2>3. /\ pc'[a] \in {"replace", "unlink"}
        /\ \A q \in Requests : q # a => pc'[q] = pc[q]
      BY <2>1, <2>2 DEF Raise, Goto, Unwind, TypeOK
  <2>4. PlainMove(a) /\ CleanLock(a)'
      BY <2>3 DEF PlainMove, BeforeTemp, Unlinked, CleanLock
  <2> QED
      BY <2>1, <2>3, <2>4, PlainClean
<1>14. ASSUME NEW a \in Appenders, Replace(a) PROVE CleanInv'
  <2>1. /\ a \in Requests /\ a \notin Creators /\ UNCHANGED <<tempFd, lockFd, failed>>
        /\ pc[a] = "replace" /\ pc'[a] = "syncdir"
        /\ \A q \in Requests : q # a => pc'[q] = pc[q] /\ temp'[q] = temp[q]
      BY <1>14 DEF Replace, Goto, TypeOK, Requests
  <2>2. CleanTemp(a)'
      BY <2>1 DEF CleanInv, CleanTemp, Unlinked, BeforeTemp
  <2> QED
      BY <2>1, <2>2, CleanFrame DEF CleanLock
<1>15. ASSUME NEW a \in Appenders, Unlock(a) PROVE CleanInv'
  <2>1. /\ a \in Requests /\ a \notin Creators /\ UNCHANGED <<temp, tempFd, failed>>
        /\ pc[a] = "unlock" /\ lockFd'[a] = 0
        /\ \A b \in Appenders : b # a => lockFd'[b] = lockFd[b]
        /\ pc'[a] \in {"stat", "done"}
        /\ \A q \in Requests : q # a => pc'[q] = pc[q]
      BY <1>15 DEF Unlock, Goto, TypeOK, Requests
  <2>2. PlainMove(a) /\ CleanLock(a)'
      BY <2>1 DEF PlainMove, BeforeTemp, Unlinked, CleanLock
  <2> QED
      BY <2>1, <2>2, PlainClean
<1>16. ASSUME Crash PROVE CleanInv'
  <2>1. /\ \A r \in Requests : pc'[r] = IF InFlight(r) THEN "dead" ELSE pc[r]
        /\ \A a \in Appenders : lockFd'[a] = 0
        /\ \A r \in Requests : tempFd'[r] = None
        /\ UNCHANGED <<temp, failed>>
      BY <1>16 DEF Crash
  <2>2. \A r \in Requests : CleanTemp(r)'
      BY <2>1 DEF CleanInv, CleanTemp, Unlinked, BeforeTemp, InFlight
  <2> QED
      BY <2>1, <2>2 DEF CleanInv, CleanLock, CreatorSteps, InFlight, Requests
<1>17. ASSUME UNCHANGED <<pc, temp, tempFd, lockFd, failed>> PROVE CleanInv'
    BY <1>17 DEF CleanInv, CleanLock, CleanTemp, Unlinked
<1>18. HostStep \/ Idle \/ UNCHANGED vars => UNCHANGED <<pc, temp, tempFd, lockFd, failed>>
    BY DEF HostStep, HostEdit, HostPut, HostDelete, HostUnchanged, HostSwapsLock, Idle, vars
<1> QED
    BY <1>1, <1>2, <1>3, <1>4, <1>5, <1>6, <1>7, <1>8, <1>9, <1>10, <1>11, <1>12, <1>13, <1>14,
       <1>15, <1>16, <1>17, <1>18
    DEF Next, Arrive, Step, Failure, SharedStep, CreateStep, AppendStep, ProcessCrash, PowerLoss

\* However a request ends, by a return, a timeout or a system call that fails at
\* any step, it has closed the lock; a .tmp- file that is left has had its own
\* unlink fail, and a descriptor of it that is left its own fchmod.
THEOREM AnsweredRequestsAreClean == Spec => []AnsweredHoldsNothing
<1>1. Init => CleanInv
  <2> SUFFICES ASSUME Init PROVE CleanInv
      OBVIOUS
  <2>1. \A r \in Requests : pc[r] = "start" /\ temp[r] = None /\ tempFd[r] = None
      BY DEF Init
  <2>2. \A a \in Appenders : lockFd[a] = 0
      BY DEF Init
  <2>3. \A r \in Requests : CleanTemp(r)
      BY <2>1 DEF CleanTemp, Unlinked
  <2> QED
      BY <2>1, <2>2, <2>3 DEF CleanInv, CleanLock, CreatorSteps, Requests
<1>2. CleanInv => AnsweredHoldsNothing
    BY DEF CleanInv, CleanLock, CleanTemp, Unlinked, AnsweredHoldsNothing, Requests
<1> QED
    BY TypeInit, TypeStep, CleanStep, <1>1, <1>2, PTL DEF Spec

-----------------------------------------------------------------------------
(* Answers.                                                                *)

\* Only r's answer, place and landing change, and they agree.
LEMMA AnswerFrame ==
    ASSUME AnswerInv, NEW r \in Requests,
           \A q \in Requests : q # r =>
              pc'[q] = pc[q] /\ outcome'[q] = outcome[q] /\ landed'[q] = landed[q],
           pc'[r] \in Early => outcome'[r] = "none" /\ landed'[r] = None,
           landed'[r] # None => outcome'[r] \notin Refusals
    PROVE  AnswerInv'
BY DEF AnswerInv

\* The steps in which an append looks at what is there, and refuses or goes on.
Lookup(a) ==
    \/ IsSymlink(a) \/ ResolveStrict(a) \/ IsRegular(a) \/ OpenLock(a)
    \/ OpenTarget(a) \/ ReadEnd(a) \/ CheckIdentity(a)
LookupSteps == {"resolve", "isreg", "lock", "poll", "read", "temp", "replace"}

\* They touch no file, and tell what was found by raising or going on.
LEMMA LookupMoves ==
    ASSUME NEW a \in Appenders, Lookup(a)
    PROVE  /\ \/ \E x \in Refusals \union {"INTERNAL_ERROR"} : Raise(a, x)
              \/ UNCHANGED outcome /\ \E step \in LookupSteps : Goto(a, step)
           /\ pc[a] \in Early
           /\ UNCHANGED <<fs, temp, existing, landed>>
<1> USE DEF LookupSteps, Refusals, Answers, Early, fs, lock, create, tmp, append, used, Goes
<1>1. CASE IsSymlink(a) \/ OpenLock(a)
    BY <1>1 DEF IsSymlink, OpenLock
<1>2. CASE ResolveStrict(a)
    BY <1>2 DEF ResolveStrict
<1>3. CASE IsRegular(a)
    BY <1>3 DEF IsRegular
<1>4. CASE OpenTarget(a)
    BY <1>4 DEF OpenTarget
<1>5. CASE ReadEnd(a) \/ CheckIdentity(a)
    BY <1>5 DEF ReadEnd, CheckIdentity
<1> QED
    BY <1>1, <1>2, <1>3, <1>4, <1>5 DEF Lookup

\* A refusal comes before the request has landed.
LEMMA RaiseAnswers ==
    ASSUME TypeOK, AnswerInv, NEW r \in Requests, NEW x \in Answers, Raise(r, x), UNCHANGED landed,
           pc[r] \in Early \/ x = "INTERNAL_ERROR"
    PROVE  AnswerInv'
<1>1. /\ pc'[r] \notin Early /\ outcome'[r] = x
      /\ \A q \in Requests : q # r => pc'[q] = pc[q] /\ outcome'[q] = outcome[q]
    BY RaiseType DEF Early, Raise, TypeOK
<1>2. landed[r] # None => x \notin Refusals
    BY DEF AnswerInv, Refusals
<1> QED
    BY <1>1, <1>2, AnswerFrame

\* A request that goes on has no answer yet, unless it is past landing.
LEMMA GotoAnswers ==
    ASSUME TypeOK, AnswerInv, NEW r \in Requests, NEW step \in Steps, Goto(r, step),
           UNCHANGED <<outcome, landed>>, step \in Early => pc[r] \in Early
    PROVE  AnswerInv'
BY GotoType, AnswerFrame DEF AnswerInv

\* Every step keeps refusals before the landing, and landings unanswered.
LEMMA AnswerStep == TypeInv /\ AnswerInv /\ [Next]_vars => AnswerInv'
<1> SUFFICES ASSUME TypeInv, AnswerInv, [Next]_vars PROVE AnswerInv'
    OBVIOUS
<1>0. TypeOK /\ Creators \subseteq Requests /\ Appenders \subseteq Requests
    BY DEF TypeInv, Requests
<1> USE <1>0 DEF fs, lock, create, tmp, append, used, Goes
<1>1. ASSUME NEW r \in Requests, Refuse(r) PROVE AnswerInv'
    BY <1>1, RaiseAnswers DEF Refuse, Early, Answers
<1>2. ASSUME NEW r \in Requests, OpenTemp(r) \/ WriteTemp(r) \/ SyncDirectory(r) \/ UnlinkTemp(r)
      PROVE  AnswerInv'
    BY <1>2, GotoAnswers DEF OpenTemp, WriteTemp, SyncDirectory, UnlinkTemp, AfterUnlink, Early, Steps, Locked
<1>3. ASSUME NEW r \in Requests, Stat(r) PROVE AnswerInv'
  <2>1. CASE Raise(r, "INTERNAL_ERROR")
      BY <1>3, <2>1, RaiseAnswers DEF Stat, Answers
  <2>2. CASE /\ outcome' = [outcome EXCEPT ![r] = "ok"]
             /\ Goto(r, IF r \in Creators THEN "unlink" ELSE "done")
      BY <1>3, <2>2, AnswerFrame DEF Stat, Goto, TypeOK, Early, Refusals
  <2> QED
      BY <1>3, <2>1, <2>2 DEF Stat
<1>4. ASSUME NEW r \in Requests, SystemCallFails(r) PROVE AnswerInv'
  <2>1. \E x \in Answers : Raise(r, x) /\ (pc[r] \in Early \/ x = "INTERNAL_ERROR")
      BY <1>4 DEF SystemCallFails, FaultAnswers, InFlight, Early, Answers
  <2> QED
      BY <1>4, <2>1, RaiseAnswers DEF SystemCallFails
<1>5. ASSUME NEW c \in Creators, StartCreate(c) PROVE AnswerInv'
    BY <1>5, GotoAnswers DEF StartCreate, Early, Steps, Locked
<1>6. ASSUME NEW c \in Creators, Link(c) PROVE AnswerInv'
  <2>1. pc[c] = "link" /\ pc'[c] = "syncdir" /\ outcome' = outcome
        /\ \A q \in Requests : q # c => pc'[q] = pc[q] /\ landed'[q] = landed[q]
      BY <1>6 DEF Link, Goto, TypeOK
  <2>2. outcome[c] \notin Refusals
      BY <2>1 DEF AnswerInv, Early, Refusals, Answers
  <2> QED
      BY <2>1, <2>2, AnswerFrame DEF Early
<1>7. ASSUME NEW c \in Creators, LinkExists(c) PROVE AnswerInv'
  <2>1. CASE UNCHANGED <<pc, outcome>>
      BY <1>7, <2>1 DEF LinkExists, AnswerInv
  <2>2. CASE Raise(c, "NOTE_ALREADY_EXISTS")
      BY <1>7, <2>2, RaiseAnswers DEF LinkExists, Early, Answers
  <2> QED
      BY <1>7, <2>1, <2>2 DEF LinkExists
<1>8. ASSUME NEW a \in Appenders, Lookup(a) PROVE AnswerInv'
  <2>1. \/ \E x \in Refusals \union {"INTERNAL_ERROR"} : Raise(a, x)
        \/ UNCHANGED outcome /\ \E step \in LookupSteps : Goto(a, step)
      BY <1>8, LookupMoves
  <2>2. pc[a] \in Early /\ UNCHANGED landed
      BY <1>8, LookupMoves
  <2>3. LookupSteps \subseteq Steps /\ Refusals \union {"INTERNAL_ERROR"} \subseteq Answers
      BY DEF LookupSteps, Steps, Locked, Refusals, Answers
  <2> QED
      BY <2>1, <2>2, <2>3, RaiseAnswers, GotoAnswers
<1>15. ASSUME NEW r \in Requests, FchmodFails(r) \/ UnlinkFails(r) PROVE AnswerInv'
    BY <1>15, CleanUpMoves, AnswerFrame DEF Early, Refusals
<1>9. ASSUME NEW a \in Appenders, AcquireLock(a) \/ Unlock(a) PROVE AnswerInv'
    BY <1>9, GotoAnswers DEF AcquireLock, Unlock, Early, Steps, Locked
<1>10. ASSUME NEW a \in Appenders, PollLock(a) \/ ReadChunk(a) PROVE AnswerInv'
  <2>1. CASE UNCHANGED <<pc, outcome>>
      BY <1>10, <2>1 DEF PollLock, ReadChunk, AnswerInv
  <2>2. CASE pc[a] = "poll" /\ Raise(a, "INBOX_LOCK_TIMEOUT")
      BY <1>10, <2>2, RaiseAnswers DEF PollLock, ReadChunk, Early, Answers
  <2> QED
      BY <1>10, <2>1, <2>2 DEF PollLock, ReadChunk
<1>11. ASSUME NEW a \in Appenders, Replace(a) PROVE AnswerInv'
  <2>1. pc[a] = "replace" /\ pc'[a] = "syncdir" /\ outcome' = outcome
        /\ \A q \in Requests : q # a => pc'[q] = pc[q] /\ landed'[q] = landed[q]
      BY <1>11 DEF Replace, Goto, TypeOK
  <2>2. outcome[a] \notin Refusals
      BY <2>1 DEF AnswerInv, Early, Refusals, Answers
  <2> QED
      BY <2>1, <2>2, AnswerFrame DEF Early
<1>12. ASSUME Crash PROVE AnswerInv'
    BY <1>12 DEF Crash, InFlight, TypeOK, AnswerInv, Early
<1>13. HostStep \/ Idle \/ UNCHANGED vars => UNCHANGED <<pc, outcome, landed>>
    BY DEF HostStep, HostEdit, HostPut, HostDelete, HostUnchanged, HostSwapsLock, Idle, vars
<1>14. UNCHANGED <<pc, outcome, landed>> => AnswerInv'
    BY DEF AnswerInv
<1> QED
    BY <1>1, <1>2, <1>3, <1>4, <1>5, <1>6, <1>7, <1>8, <1>9, <1>10, <1>11, <1>12, <1>13, <1>14, <1>15
    DEF Next, Arrive, Step, Failure, SharedStep, CreateStep, AppendStep, Lookup, ProcessCrash, PowerLoss

-----------------------------------------------------------------------------
(* Texts and files.                                                        *)

Disk == PrivateInv /\ TraceInv /\ WholeInv

\* A step that touches no file, adds no entry, and gives no request a temp
\* file, a new step with one, or an inode to read.
LEMMA QuietFrame ==
    ASSUME TypeInv, Disk, UNCHANGED <<file, landed, existing>>,
           \A n \in Names : survive'[n] \subseteq survive[n] \union {None} /\ dir'[n] \in survive'[n],
           \A q \in Requests :
              /\ temp'[q] \in {temp[q], None}
              /\ pc'[q] \in Writing => pc[q] \in Writing /\ temp'[q] = temp[q]
              /\ pc'[q] \in Written => pc[q] \in Written,
           \A a \in Appenders : pc'[a] = "read" => pc[a] = "read" /\ before'[a] = before[a]
    PROVE  Disk'
<1> USE DEF Disk
<1>1. \A r \in Requests : pc[r] \in Writing => temp[r] # None
    BY InboxAssumption DEF TypeInv, InodesKnown, Writing
<1>2. PrivateInv'
    BY <1>1 DEF PrivateInv
<1>3. TraceInv'
  <2>1. Public' = Public /\ (\A i : TextsOf(i)' = TextsOf(i)) /\ (\A a : ReadTexts(a)' = ReadTexts(a))
      BY DEF Public, TextsOf, ReadTexts
  <2>2. \A r \in Requests : pc'[r] \in Written => pc[r] \in Written /\ temp'[r] = temp[r]
      BY DEF Written, Writing
  <2> QED
      BY <2>1, <2>2 DEF TraceInv
<1>4. WholeInv'
    BY DEF WholeInv, Written, Writing
<1> QED
    BY <1>2, <1>3, <1>4

\* The same for a step that leaves the file system alone altogether.
LEMMA StillFrame ==
    ASSUME TypeInv, Disk, UNCHANGED <<fs, landed, existing>>,
           \A q \in Requests :
              /\ temp'[q] \in {temp[q], None}
              /\ pc'[q] \in Writing => pc[q] \in Writing /\ temp'[q] = temp[q]
              /\ pc'[q] \in Written => pc[q] \in Written,
           \A a \in Appenders : pc'[a] = "read" => pc[a] = "read" /\ before'[a] = before[a]
    PROVE  Disk'
<1>1. \A n \in Names : survive'[n] \subseteq survive[n] \union {None} /\ dir'[n] \in survive'[n]
    BY DEF Disk, PrivateInv, fs
<1> QED
    BY <1>1, QuietFrame DEF fs

\* A file that no note is and nobody reads, changed by the one who has it.
LEMMA FileFrame ==
    ASSUME TypeInv, Disk, UNCHANGED <<dir, survive, landed, existing, before>>,
           NEW r \in Requests, NEW i \in Inodes, NEW f, file' = [file EXCEPT ![i] = f],
           \A n \in Names : i \notin survive[n],
           \A a \in Appenders : pc[a] = "read" => before[a].ino # i,
           \A q \in Requests : q # r => pc'[q] = pc[q] /\ temp'[q] = temp[q] /\ temp[q] # i,
           temp'[r] = i, pc'[r] # "read",
           pc'[r] \in Written =>
              /\ f.synced /\ {f.data[k] : k \in 1..Len(f.data)} \subseteq Public \union {r}
    PROVE  Disk'
<1> USE DEF Disk
<1>0. /\ file \in [Inodes -> FileRecord] /\ None \notin Inodes
      /\ survive \in [Names -> SUBSET Entry] /\ before \in [Appenders -> IdentityRecord]
      /\ temp \in [Requests -> Entry]
    BY InboxAssumption DEF TypeInv, TypeOK
<1>1. \A j \in Inodes : j # i => file'[j] = file[j] /\ TextsOf(j)' = TextsOf(j)
    BY <1>0 DEF TextsOf
<1>2. file'[i] = f /\ TextsOf(i)' = {f.data[k] : k \in 1..Len(f.data)}
    BY <1>0 DEF TextsOf
<1>3. Public' = Public /\ (\A a : ReadTexts(a)' = ReadTexts(a))
    BY DEF Public, ReadTexts
<1>4. PrivateInv'
  <2>1. \A q, p \in Requests : temp'[q] = temp'[p] /\ temp'[q] # None => q = p
      BY DEF PrivateInv
  <2>2. ASSUME NEW a \in Appenders, pc'[a] = "read" PROVE pc[a] = "read" /\ before'[a] = before[a]
      BY <2>2 DEF Requests
  <2> QED
      BY <2>1, <2>2 DEF PrivateInv
<1>5. \A n \in Names : \A j \in survive'[n] \ {None} : j \in Inodes /\ j # i /\ j \in survive[n] \ {None}
    BY <1>0 DEF Entry
<1>6. \A a \in Appenders : pc'[a] = "read" =>
          pc[a] = "read" /\ before'[a].ino \in Inodes /\ before'[a].ino # i /\ before' = before
    BY DEF TypeInv, InodesKnown, Requests
<1>7. \A q \in Requests : q # r /\ pc'[q] \in Written =>
          pc[q] \in Written /\ temp'[q] = temp[q] /\ temp[q] \in Inodes /\ temp[q] # i
    BY DEF TypeInv, InodesKnown, Written
<1>8. TraceInv'
    BY <1>1, <1>2, <1>3, <1>5, <1>6, <1>7 DEF TraceInv
<1>9. WholeInv'
    BY <1>1, <1>2, <1>5, <1>7 DEF WholeInv
<1> QED
    BY <1>4, <1>8, <1>9

\* A request lands: its temp file gets a name, and its text becomes public.
LEMMA LandFrame ==
    ASSUME TypeInv, AnswerInv, Disk, UNCHANGED <<file, existing, before>>,
           NEW r \in Requests, NEW n \in Names, SetEntry(n, temp[r]), pc[r] \in Written,
           landed' = [landed EXCEPT ![r] = n],
           temp' = temp \/ temp' = [temp EXCEPT ![r] = None],
           Goto(r, "syncdir")
    PROVE  Disk'
<1> USE DEF Disk
<1>0. /\ survive \in [Names -> SUBSET Entry] /\ dir \in [Names -> Entry]
      /\ temp \in [Requests -> Entry] /\ landed \in [Requests -> Names \union {None}]
      /\ temp[r] \in Inodes /\ None \notin Inodes /\ None \notin Names
    BY InboxAssumption DEF TypeInv, TypeOK, InodesKnown, Written
<1>1. /\ pc'[r] = "syncdir" /\ \A q \in Requests : q # r => pc'[q] = pc[q] /\ temp'[q] = temp[q]
    BY <1>0, GotoType DEF TypeInv, Steps, Locked
<1>2. \A m \in Names : /\ survive'[m] \subseteq survive[m] \union {temp[r]}
                       /\ dir'[m] \in survive'[m]
    BY <1>0 DEF SetEntry, PrivateInv
<1>3. \A q \in Requests : pc'[q] \in Writing =>
          q # r /\ pc[q] \in Writing /\ temp'[q] = temp[q] /\ temp[q] # temp[r]
    BY <1>0, <1>1 DEF PrivateInv, Writing
<1>4. \A a \in Appenders : pc'[a] = "read" => pc[a] = "read"
    BY <1>1 DEF Requests
<1>5. PrivateInv'
  <2>1. \A q, p \in Requests : temp'[q] = temp'[p] /\ temp'[q] # None => q = p
      BY <1>0 DEF PrivateInv
  <2> QED
      BY <1>2, <1>3, <1>4, <2>1 DEF PrivateInv
<1>6. Public' = Public \union {r}
    BY <1>0 DEF Public
<1>7. TraceInv'
  <2>1. (\A i : TextsOf(i)' = TextsOf(i)) /\ (\A a : ReadTexts(a)' = ReadTexts(a))
      BY DEF TextsOf, ReadTexts
  <2>2. TextsOf(temp[r]) \subseteq Public'
      BY <1>6 DEF TraceInv
  <2>3. \A q \in Requests : pc'[q] \in Written => pc[q] \in Written /\ temp'[q] = temp[q]
      BY <1>3, <1>1 DEF Written, Writing
  <2> QED
      BY <1>2, <1>4, <1>6, <2>1, <2>2, <2>3 DEF TraceInv
<1>8. WholeInv'
    BY <1>1, <1>2, <1>3 DEF WholeInv, Written, Writing
<1> QED
    BY <1>5, <1>7, <1>8

\* Raising, or going on to a step without a temp file, is no step on the disk.
LEMMA MoveFrame ==
    ASSUME TypeInv, Disk, UNCHANGED <<fs, temp, landed, existing, before>>, NEW r \in Requests,
           \/ \E x \in Answers : Raise(r, x)
           \/ \E step \in Steps \ {"read"} :
                 Goto(r, step) /\ (step \in Writing => step \in Written /\ pc[r] \in Written)
    PROVE  Disk'
<1>1. /\ \A q \in Requests : q # r => pc'[q] = pc[q]
      /\ pc'[r] # "read" /\ (pc'[r] \in Writing => pc[r] \in Written)
    BY RaiseType, GotoType DEF TypeInv, Writing, Written
<1> QED
    BY <1>1, StillFrame DEF Writing, Written, Requests

\* Texts of a joined content are texts of its parts.
LEMMA AppendTexts ==
    ASSUME NEW s \in Seq(Texts), NEW e \in Texts
    PROVE  {Append(s, e)[k] : k \in 1..Len(Append(s, e))} \subseteq {s[k] : k \in 1..Len(s)} \union {e}
OBVIOUS

\* A new temp file: a free inode, so nobody else's.
LEMMA OpenTempDisk == ASSUME TypeInv, Disk, NEW r \in Requests, OpenTemp(r) PROVE Disk'
<1>1. PICK i \in FreeInodes :
        /\ temp' = [temp EXCEPT ![r] = i]
        /\ file' = [file EXCEPT ![i] = [data |-> <<>>, mtime |-> @.mtime,
                                        kind |-> "regular", synced |-> FALSE]]
    BY DEF OpenTemp
<1>2. /\ i \in Inodes /\ \A n \in Names : i \notin survive[n]
      /\ \A q \in Requests : temp[q] # i
      /\ \A a \in Appenders : pc[a] = "read" => before[a].ino # i
    BY DEF FreeInodes
<1>3. /\ pc'[r] = "write" /\ temp'[r] = i
      /\ \A q \in Requests : q # r => pc'[q] = pc[q] /\ temp'[q] = temp[q]
    BY <1>1 DEF OpenTemp, Goto, TypeInv, TypeOK
<1>4. UNCHANGED <<dir, survive, landed, existing, before>>
    BY DEF OpenTemp, append, tmp
<1> QED
    BY <1>1, <1>2, <1>3, <1>4, FileFrame DEF Written

\* What is written to a temp file is its own text and public ones.
LEMMA WriteTempDisk == ASSUME TypeInv, Disk, NEW r \in Requests, WriteTemp(r) PROVE Disk'
<1> DEFINE i == temp[r]
<1>1. PICK t \in NewMtimes(i) :
        file' = [file EXCEPT ![i] = [data |-> Content(r), mtime |-> t,
                                     kind |-> "regular", synced |-> TRUE]]
    BY DEF WriteTemp
<1>2. pc[r] = "write" /\ i \in Inodes /\ i # None
    BY InboxAssumption DEF WriteTemp, TypeInv, InodesKnown
<1>3. /\ pc'[r] \in {"link", "check"} /\ temp' = temp
      /\ \A q \in Requests : q # r => pc'[q] = pc[q]
    BY DEF WriteTemp, Goto, TypeInv, TypeOK
<1>4. /\ \A n \in Names : i \notin survive[n]
      /\ \A q \in Requests : q # r => temp[q] # i
      /\ \A a \in Appenders : pc[a] = "read" => before[a].ino # i
    BY <1>2 DEF Disk, PrivateInv, Writing
<1>5. {Content(r)[k] : k \in 1..Len(Content(r))} \subseteq Public \union {r}
  <2>1. CASE r \in Creators
      BY <2>1 DEF Content
  <2>2. CASE r \notin Creators
    <3>1. r \in Appenders /\ existing[r] \in Seq(Texts) /\ r \in Texts
        BY <2>2 DEF TypeInv, TypeOK, Requests, Texts
    <3>2. ReadTexts(r) \subseteq Public
        BY <3>1 DEF Disk, TraceInv
    <3> QED
        BY <2>2, <3>1, <3>2, AppendTexts DEF Content, ReadTexts
  <2> QED
      BY <2>1, <2>2
<1>6. UNCHANGED <<dir, survive, landed, existing, before>>
    BY DEF WriteTemp, append, tmp
<1> DEFINE f == [data |-> Content(r), mtime |-> t, kind |-> "regular", synced |-> TRUE]
<1>7. file' = [file EXCEPT ![i] = f] /\ f.synced /\ f.data = Content(r)
    BY <1>1
<1>8. /\ temp'[r] = i /\ pc'[r] # "read"
      /\ \A q \in Requests : q # r => pc'[q] = pc[q] /\ temp'[q] = temp[q] /\ temp[q] # i
    BY <1>3, <1>4
<1>9. {f.data[k] : k \in 1..Len(f.data)} \subseteq Public \union {r}
    BY <1>5, <1>7
<1> HIDE DEF i, f
<1> QED
    BY <1>2, <1>4, <1>6, <1>7, <1>8, <1>9, FileFrame

\* What an append reads is in a note, and no temp file.
LEMMA OpenTargetDisk == ASSUME TypeInv, Disk, NEW a \in Appenders, OpenTarget(a) PROVE Disk'
<1> DEFINE i == dir[path[a]]
<1>0. a \in Requests /\ UNCHANGED <<fs, temp, landed, existing>>
    BY DEF OpenTarget, Requests, create, tmp
<1>1. CASE \E x \in Answers : Raise(a, x) /\ UNCHANGED before
    BY <1>0, <1>1, MoveFrame
<1>2. CASE Goto(a, "read") /\ before' = [before EXCEPT ![a] = Identity(i)] /\ i # None
  <2>1. /\ pc'[a] = "read" /\ before'[a].ino = i /\ path[a] \in Names
        /\ \A q \in Requests : q # a => pc'[q] = pc[q]
        /\ \A b \in Appenders : b # a => before'[b] = before[b]
      BY <1>0, <1>2 DEF Goto, TypeInv, TypeOK, Identity
  <2>2. i \in survive[path[a]] \ {None}
      BY <1>2, <2>1 DEF Disk, PrivateInv
  <2>3. \A q \in Requests : pc'[q] \in Writing => pc[q] \in Writing /\ temp[q] # i
      BY <2>1, <2>2 DEF Disk, PrivateInv, Writing
  <2>4. PrivateInv'
      BY <1>0, <2>1, <2>3 DEF Disk, PrivateInv, Requests, fs
  <2>5. TraceInv'
    <3>1. Public' = Public /\ (\A j : TextsOf(j)' = TextsOf(j)) /\ (\A b : ReadTexts(b)' = ReadTexts(b))
        BY <1>0 DEF Public, TextsOf, ReadTexts, fs
    <3>2. TextsOf(i) \subseteq Public
        BY <2>1, <2>2 DEF Disk, TraceInv
    <3>3. \A q \in Requests : pc'[q] \in Written => pc[q] \in Written
        BY <2>1 DEF Written
    <3> QED
        BY <1>0, <2>1, <3>1, <3>2, <3>3 DEF Disk, TraceInv, Requests, fs
  <2>6. WholeInv'
      BY <1>0, <2>1 DEF Disk, WholeInv, Written, fs
  <2> QED
      BY <2>4, <2>5, <2>6 DEF Disk
<1> QED
    BY <1>1, <1>2 DEF OpenTarget, Unfindable, KindAt, Goes, Answers

\* What an append reads is public.
LEMMA ReadChunkDisk == ASSUME TypeInv, Disk, NEW a \in Appenders, ReadChunk(a) PROVE Disk'
<1> DEFINE data == file[before[a].ino].data
           text == data[Len(existing[a]) + 1]
<1>1. /\ pc[a] = "read" /\ Len(existing[a]) < Len(data)
      /\ existing' = [existing EXCEPT ![a] = Append(existing[a], text)]
      /\ UNCHANGED <<fs, pc, temp, before, landed>>
    BY DEF ReadChunk, tmp
<1>2. before[a].ino \in Inodes /\ data \in Seq(Texts) /\ existing[a] \in Seq(Texts)
    BY <1>1 DEF TypeInv, TypeOK, InodesKnown, FileRecord
<1>3. text \in Texts /\ text \in TextsOf(before[a].ino)
  <2>1. Len(existing[a]) + 1 \in 1..Len(data)
      BY <1>1, <1>2
  <2> QED
      BY <1>2, <2>1 DEF TextsOf
<1>4. text \in Public
    BY <1>1, <1>3 DEF Disk, TraceInv
<1>5. PrivateInv' /\ WholeInv'
    BY <1>1 DEF Disk, PrivateInv, WholeInv, fs
<1>6. ASSUME NEW b \in Appenders PROVE ReadTexts(b)' \subseteq Public
  <2>1. CASE b = a
    <3>1. existing'[a] = Append(existing[a], text)
        BY <1>1 DEF TypeInv, TypeOK
    <3>2. ReadTexts(a) \subseteq Public
        BY DEF Disk, TraceInv
    <3> QED
        BY <1>2, <1>3, <1>4, <2>1, <3>1, <3>2, AppendTexts DEF ReadTexts
  <2>2. CASE b # a
      BY <1>1, <2>2 DEF Disk, TraceInv, ReadTexts, TypeInv, TypeOK
  <2> QED
      BY <2>1, <2>2
<1>7. Public' = Public /\ (\A j : TextsOf(j)' = TextsOf(j))
    BY <1>1 DEF Public, TextsOf, fs
<1>8. TraceInv'
    BY <1>1, <1>6, <1>7 DEF Disk, TraceInv, fs
<1> QED
    BY <1>5, <1>8 DEF Disk

\* The host writes no request's text.
LEMMA HostFrame ==
    ASSUME TypeInv, Disk, UNCHANGED <<pc, temp, landed, existing, before>>,
           NEW i \in Inodes, NEW f, file' = [file EXCEPT ![i] = f],
           \A r \in Requests : pc[r] \in Writing => temp[r] # i,
           \A n \in Names : /\ survive'[n] \subseteq survive[n] \union {i}
                            /\ dir'[n] \in survive'[n],
           f.synced, {f.data[k] : k \in 1..Len(f.data)} \subseteq Public
    PROVE  Disk'
<1> USE DEF Disk
<1>0. /\ file \in [Inodes -> FileRecord] /\ None \notin Inodes
      /\ survive \in [Names -> SUBSET Entry]
    BY InboxAssumption DEF TypeInv, TypeOK
<1>1. \A j \in Inodes : j # i => file'[j] = file[j] /\ TextsOf(j)' = TextsOf(j)
    BY <1>0 DEF TextsOf
<1>2. file'[i] = f /\ TextsOf(i)' \subseteq Public
    BY <1>0 DEF TextsOf
<1>3. Public' = Public /\ (\A a : ReadTexts(a)' = ReadTexts(a))
    BY DEF Public, ReadTexts
<1>4. PrivateInv'
    BY DEF PrivateInv
<1>5. \A n \in Names : \A j \in survive'[n] \ {None} : j \in Inodes /\ (j = i \/ j \in survive[n] \ {None})
    BY <1>0 DEF Entry
<1>6. \A a \in Appenders : pc[a] = "read" => before[a].ino \in Inodes
    BY DEF TypeInv, InodesKnown
<1>7. \A r \in Requests : pc[r] \in Written => temp[r] \in Inodes /\ temp[r] # i
    BY DEF TypeInv, InodesKnown, Written, Writing
<1>8. TraceInv'
  <2>1. \A n \in Names : \A j \in survive'[n] \ {None} : TextsOf(j)' \subseteq Public
      BY <1>1, <1>2, <1>5 DEF TraceInv
  <2>2. \A a \in Appenders : pc[a] = "read" => TextsOf(before[a].ino)' \subseteq Public
    <3> SUFFICES ASSUME NEW a \in Appenders, pc[a] = "read" PROVE TextsOf(before[a].ino)' \subseteq Public
        OBVIOUS
    <3>1. CASE before[a].ino = i
        BY <1>2, <3>1 DEF TextsOf
    <3>2. CASE before[a].ino # i
        BY <1>1, <1>6, <3>2 DEF TextsOf, TraceInv
    <3> QED
        BY <3>1, <3>2
  <2>3. \A r \in Requests : pc[r] \in Written => TextsOf(temp[r])' \subseteq Public \union {r}
      BY <1>1, <1>7 DEF TextsOf, TraceInv
  <2> QED
      BY <1>3, <2>1, <2>2, <2>3 DEF TraceInv
<1>9. WholeInv'
    BY <1>1, <1>2, <1>5, <1>7 DEF WholeInv
<1> QED
    BY <1>4, <1>8, <1>9

\* An edit of the host writes whole notes of public texts.
LEMMA HostEditDisk == ASSUME TypeInv, Disk, NEW n \in Names, HostEdit(n) PROVE Disk'
<1> DEFINE i == dir[n]
           d == file[i].data
<1>1. i # None /\ UNCHANGED <<pc, temp, landed, existing, before, dir, survive>>
    BY DEF HostEdit, KindAt, HostUnchanged, append, tmp
<1>2. i \in Inodes /\ i \in survive[n] \ {None} /\ d \in Seq(Texts)
    BY <1>1, InboxAssumption DEF TypeInv, TypeOK, Entry, FileRecord, Disk, PrivateInv
<1>3. PICK new \in {Append(d, "Host"),
                    [k \in 1..Len(d) |-> IF k = Len(d) THEN "Host" ELSE d[k]]},
           t \in NewMtimes(i) :
          file' = [file EXCEPT ![i] = [data |-> new, mtime |-> t,
                                       kind |-> "regular", synced |-> TRUE]]
    BY DEF HostEdit
<1>4. {new[k] : k \in 1..Len(new)} \subseteq Public
  <2>1. {d[k] : k \in 1..Len(d)} \subseteq Public
      BY <1>2 DEF Disk, TraceInv, TextsOf
  <2>2. "Host" \in Public /\ "Host" \in Texts
      BY DEF Public, Texts
  <2>3. CASE new = Append(d, "Host")
      BY <1>2, <2>1, <2>2, <2>3, AppendTexts
  <2>4. CASE new = [k \in 1..Len(d) |-> IF k = Len(d) THEN "Host" ELSE d[k]]
    <3>1. Len(d) \in Nat /\ Len(new) = Len(d)
        BY <1>2, <2>4
    <3> QED
        BY <2>1, <2>2, <2>4, <3>1
  <2> QED
      BY <1>3, <2>3, <2>4
<1> DEFINE f == [data |-> new, mtime |-> t, kind |-> "regular", synced |-> TRUE]
<1>5. file' = [file EXCEPT ![i] = f] /\ f.synced /\ {f.data[k] : k \in 1..Len(f.data)} \subseteq Public
    BY <1>3, <1>4
<1>6. \A r \in Requests : pc[r] \in Writing => temp[r] # i
    BY <1>2 DEF Disk, PrivateInv
<1>7. \A m \in Names : survive'[m] \subseteq survive[m] \union {i} /\ dir'[m] \in survive'[m]
    BY <1>1 DEF Disk, PrivateInv
<1> HIDE DEF i, d, f
<1> QED
    BY <1>1, <1>2, <1>5, <1>6, <1>7, HostFrame

\* A note put by the host likewise.
LEMMA HostPutDisk == ASSUME TypeInv, Disk, NEW n \in Names, HostPut(n) PROVE Disk'
<1>0. PICK i \in FreeInodes, k \in HostKinds : \E t \in NewMtimes(i) :
          /\ file' = [file EXCEPT ![i] = [data |-> <<"Host">>, mtime |-> t,
                                          kind |-> k, synced |-> TRUE]]
          /\ SetEntry(n, i)
    BY DEF HostPut
<1>1. PICK t \in NewMtimes(i) :
          /\ file' = [file EXCEPT ![i] = [data |-> <<"Host">>, mtime |-> t,
                                          kind |-> k, synced |-> TRUE]]
          /\ SetEntry(n, i)
    BY <1>0
<1> DEFINE f == [data |-> <<"Host">>, mtime |-> t, kind |-> k, synced |-> TRUE]
<1>2. file' = [file EXCEPT ![i] = f] /\ f.synced /\ {f.data[j] : j \in 1..Len(f.data)} \subseteq Public
    BY <1>1 DEF Public
<1>3. i \in Inodes /\ \A r \in Requests : temp[r] # i
    BY DEF FreeInodes
<1>4. \A m \in Names : survive'[m] \subseteq survive[m] \union {i} /\ dir'[m] \in survive'[m]
    BY <1>1, <1>3 DEF SetEntry, Disk, PrivateInv, TypeInv, TypeOK
<1>5. UNCHANGED <<pc, temp, landed, existing, before>>
    BY DEF HostPut, HostUnchanged, append, tmp
<1> HIDE DEF f
<1> QED
    BY <1>2, <1>3, <1>4, <1>5, HostFrame

\* A deletion takes a name away and nothing else.
LEMMA HostDeleteDisk == ASSUME TypeInv, Disk, NEW n \in Names, HostDelete(n) PROVE Disk'
<1>1. \A m \in Names : survive'[m] \subseteq survive[m] \union {None} /\ dir'[m] \in survive'[m]
    BY DEF HostDelete, SetEntry, Disk, PrivateInv, TypeInv, TypeOK
<1>2. UNCHANGED <<pc, temp, file, landed, existing, before>>
    BY DEF HostDelete, HostUnchanged, append, tmp
<1> QED
    BY <1>1, <1>2, QuietFrame

\* After a crash nobody writes or reads; after a power loss every file that
\* has a name is on the disk, whole, as it was, or empty.
LEMMA CrashDisk == ASSUME TypeInv, Disk, ProcessCrash \/ PowerLoss PROVE Disk'
<1> USE DEF Disk
<1>1. /\ \A r \in Requests : pc'[r] \notin Writing /\ pc'[r] \notin Written /\ pc'[r] # "read"
      /\ UNCHANGED <<temp, landed, existing, before>>
    BY DEF ProcessCrash, PowerLoss, Crash, InFlight, Writing, Written, create, tmp
<1>2. /\ \A n \in Names : dir'[n] \in survive'[n] /\ survive'[n] \subseteq survive[n]
      /\ file \in [Inodes -> FileRecord] /\ survive \in [Names -> SUBSET Entry]
    BY DEF ProcessCrash, PowerLoss, PrivateInv, fs, TypeInv, TypeOK
<1>3. \A i \in Inodes : /\ TextsOf(i)' \subseteq TextsOf(i)
                        /\ file[i].synced => file'[i].synced
  <2>1. CASE PowerLoss
      BY <1>2, <2>1 DEF PowerLoss, TextsOf, FileRecord
  <2>2. CASE ProcessCrash
      BY <2>2 DEF ProcessCrash, fs, TextsOf
  <2> QED
      BY <2>1, <2>2
<1>4. \A n \in Names : \A i \in survive'[n] \ {None} : i \in Inodes /\ i \in survive[n] \ {None}
    BY <1>2 DEF Entry
<1>5. PrivateInv'
    BY <1>1, <1>2 DEF PrivateInv
<1>6. TraceInv'
  <2>1. Public' = Public /\ \A a : ReadTexts(a)' = ReadTexts(a)
      BY <1>1 DEF Public, ReadTexts
  <2> QED
      BY <1>1, <1>3, <1>4, <2>1 DEF TraceInv, Requests
<1>7. WholeInv'
    BY <1>1, <1>3, <1>4 DEF WholeInv
<1> QED
    BY <1>5, <1>6, <1>7

\* Every step keeps the disk in order.
LEMMA DiskStep == TypeInv /\ AnswerInv /\ Disk /\ [Next]_vars => Disk'
<1> SUFFICES ASSUME TypeInv, AnswerInv, Disk, [Next]_vars PROVE Disk'
    OBVIOUS
<1>0. TypeOK /\ Creators \subseteq Requests /\ Appenders \subseteq Requests
    BY DEF TypeInv, Requests
<1> USE <1>0 DEF lock, create, tmp, append, used, Goes
<1>1. ASSUME NEW r \in Requests, Refuse(r) PROVE Disk'
    BY <1>1, MoveFrame DEF Refuse, Answers
<1>2. ASSUME NEW r \in Requests, SyncDirectory(r) PROVE Disk'
  <2>1. \A n \in Names : survive'[n] \subseteq survive[n] \union {None} /\ dir'[n] \in survive'[n]
      BY <1>2 DEF SyncDirectory, Disk, PrivateInv
  <2>2. /\ pc'[r] \in {"stat", "unlink"} /\ \A q \in Requests : q # r => pc'[q] = pc[q]
        /\ UNCHANGED <<temp, file, landed, existing, before>>
      BY <1>2 DEF SyncDirectory, Goto, TypeOK
  <2> QED
      BY <2>1, <2>2, QuietFrame DEF Writing, Written, Requests
<1>3. ASSUME NEW r \in Requests, Stat(r) PROVE Disk'
  <2>1. \/ \E x \in Answers : Raise(r, x)
        \/ \E step \in {"unlink", "done"} : Goto(r, step)
      BY <1>3 DEF Stat, Answers
  <2> QED
      BY <1>3, <2>1, MoveFrame DEF Stat, Steps, Locked, Writing
<1>4. ASSUME NEW r \in Requests, UnlinkTemp(r) PROVE Disk'
  <2>1. /\ pc'[r] \in {"done", "unlock"}
        /\ \A q \in Requests : q # r => pc'[q] = pc[q] /\ temp'[q] = temp[q]
        /\ temp'[r] = None /\ UNCHANGED <<fs, landed, existing, before>>
      BY <1>4 DEF UnlinkTemp, AfterUnlink, Goto, TypeOK
  <2> QED
      BY <2>1, StillFrame DEF Writing, Written, Requests
<1>5. ASSUME NEW r \in Requests, SystemCallFails(r) PROVE Disk'
  <2>1. \E x \in Answers : Raise(r, x)
      BY <1>5 DEF SystemCallFails, FaultAnswers, Answers
  <2> QED
      BY <1>5, <2>1, MoveFrame DEF SystemCallFails
<1>14. ASSUME NEW r \in Requests, FchmodFails(r) \/ UnlinkFails(r) PROVE Disk'
    BY <1>14, CleanUpMoves, StillFrame DEF Writing, Written, Requests
<1>6. ASSUME NEW c \in Creators, StartCreate(c) PROVE Disk'
    BY <1>6, MoveFrame DEF StartCreate, Steps, Locked, Writing
<1>7. ASSUME NEW c \in Creators, Link(c) PROVE Disk'
    BY <1>7, LandFrame, DestinationType DEF Link, Written
<1>8. ASSUME NEW c \in Creators, LinkExists(c) PROVE Disk'
  <2>1. CASE UNCHANGED pc
      BY <1>8, <2>1, StillFrame DEF LinkExists
  <2>2. CASE Raise(c, "NOTE_ALREADY_EXISTS")
      BY <1>8, <2>2, MoveFrame DEF LinkExists, Answers
  <2> QED
      BY <1>8, <2>1, <2>2 DEF LinkExists
<1>9. ASSUME NEW a \in Appenders, Lookup(a), ~OpenTarget(a) PROVE Disk'
  <2>1. \/ \E x \in Answers : Raise(a, x)
        \/ \E step \in {"resolve", "isreg", "lock", "poll", "temp"} : Goto(a, step)
        \/ Goto(a, "replace") /\ pc[a] = "check"
      BY <1>9 DEF Lookup, IsSymlink, ResolveStrict, IsRegular, OpenLock, ReadEnd, CheckIdentity, Answers
  <2>2. UNCHANGED <<fs, temp, landed, existing, before>>
      BY <1>9 DEF Lookup, IsSymlink, ResolveStrict, IsRegular, OpenLock, ReadEnd, CheckIdentity
  <2> QED
      BY <2>1, <2>2, MoveFrame DEF Steps, Locked, Writing, Written
<1>10. ASSUME NEW a \in Appenders, AcquireLock(a) \/ Unlock(a) PROVE Disk'
  <2>1. \E step \in {"open", "stat", "done"} : Goto(a, step)
      BY <1>10 DEF AcquireLock, Unlock
  <2>2. UNCHANGED <<fs, temp, landed, existing, before>>
      BY <1>10 DEF AcquireLock, Unlock
  <2> QED
      BY <2>1, <2>2, MoveFrame DEF Steps, Locked, Writing
<1>11. ASSUME NEW a \in Appenders, PollLock(a) PROVE Disk'
  <2>1. UNCHANGED <<fs, temp, landed, existing, before>>
      BY <1>11 DEF PollLock
  <2>2. CASE UNCHANGED pc
      BY <2>1, <2>2, StillFrame
  <2>3. CASE Raise(a, "INBOX_LOCK_TIMEOUT")
      BY <2>1, <2>3, MoveFrame DEF Answers
  <2> QED
      BY <1>11, <2>2, <2>3 DEF PollLock
<1>12. ASSUME NEW a \in Appenders, Replace(a) PROVE Disk'
  <2>1. path[a] \in Names
      BY DEF TypeOK
  <2> QED
      BY <1>12, <2>1, LandFrame DEF Replace, Written
<1>13. ASSUME HostSwapsLock \/ UNCHANGED vars PROVE Disk'
    BY <1>13, StillFrame DEF HostSwapsLock, vars
<1> QED
    BY <1>1, <1>2, <1>3, <1>4, <1>5, <1>6, <1>7, <1>8, <1>9, <1>10, <1>11, <1>12, <1>13, <1>14,
       OpenTempDisk, WriteTempDisk, OpenTargetDisk, ReadChunkDisk,
       HostEditDisk, HostPutDisk, HostDeleteDisk, CrashDisk
    DEF Next, Arrive, Step, Failure, SharedStep, CreateStep, AppendStep, Lookup, HostStep, Idle

\* The inbox starts with whole notes of the host.
LEMMA DiskInit == Init => AnswerInv /\ Disk
<1> SUFFICES ASSUME Init PROVE AnswerInv /\ Disk
    OBVIOUS
<1>1. AnswerInv
    BY DEF Init, AnswerInv, Refusals, Answers
<1>2. PrivateInv
    BY DEF Init, PrivateInv, Writing
<1>3. \A i \in Inodes : TextsOf(i) \subseteq {"Original"} /\ file[i].synced
    BY DEF Init, TextsOf
<1>4. \A n \in Names : \A i \in survive[n] \ {None} : i \in Inodes
    BY DEF Init, Entry
<1>5. TraceInv /\ WholeInv
    BY <1>3, <1>4 DEF Init, TraceInv, WholeInv, ReadTexts, Public, Written, Requests
<1> QED
    BY <1>1, <1>2, <1>5 DEF Disk

\* The disk is always in order.
LEMMA DiskAlways == Spec => [](TypeInv /\ AnswerInv /\ Disk)
BY TypeInit, TypeStep, AnswerStep, DiskInit, DiskStep, PTL DEF Spec

\* A refused request leaves no text in any note, nor in one that a power loss
\* could bring back, whatever the host, the clock and failing calls do.
THEOREM RefusalsLeaveNoTrace == Spec => []RefusedLeavesNoTrace
<1>1. TypeInv /\ AnswerInv /\ Disk => RefusedLeavesNoTrace
  <2> SUFFICES ASSUME AnswerInv, TraceInv,
                      NEW r \in Requests, outcome[r] \in Refusals,
                      NEW n \in Names, NEW i \in survive[n] \ {None}
               PROVE  r \notin TextsOf(i)
      BY DEF RefusedLeavesNoTrace, Disk
  <2>1. landed[r] = None
      BY DEF AnswerInv
  <2>2. r \notin Public
      BY <2>1, InboxAssumption DEF Public
  <2> QED
      BY <2>2 DEF TraceInv
<1> QED
    BY DiskAlways, <1>1, PTL

\* Whatever entry of a name survives a power loss, it leads to a note that was
\* written and fsynced as a whole.
THEOREM NotesAreAlwaysWhole == Spec => []NotesAreWhole
<1>1. TypeInv /\ AnswerInv /\ Disk => NotesAreWhole
    BY DEF Disk, WholeInv, NotesAreWhole
<1> QED
    BY DiskAlways, <1>1, PTL

-----------------------------------------------------------------------------
(* No text is lost: with a calm host the inbox writes implement NoteStore, *)
(* for any set of requests, names and inodes and any other bounds.  The    *)
(* argument is that of append_inbox_note: the identity it took at open is  *)
(* compared right before os.replace, and an inode that keeps its time      *)
(* stamp keeps its data.  The last part is about what a power loss leaves. *)


\* A host that leaves the lock file alone and keeps out of the window between
\* lstat and os.replace.
QuietHost == ~HostInWindow /\ MaxLockRemovals = 0

\* Such a host, on a file system that tells any two writes apart.
CalmHost == FineClock /\ QuietHost

\* Before the target is opened; from then on until it is replaced.
Unopened == {"start", "resolve", "isreg", "lock", "poll", "open"}
Opened == {"read", "temp", "write", "check", "replace"}

\* An inode has one name.
NameInv ==
    \A m, n \in Names : \A i \in (survive[m] \intersect survive[n]) \ {None} : m = n

\* There is one lock file, and who has the lock has it open.
LockInv == QuietHost =>
    /\ lockFile = 1
    /\ \A a \in Appenders : pc[a] = "poll" \/ Holds(a) => lockFd[a] = 1

\* What has landed and is not answered has yet to be, and the reverse.
DoubtInv ==
    /\ \A r \in Requests : outcome[r] = "ok" => landed[r] # None
    /\ \A r \in Requests : pc[r] \in {"syncdir", "stat"} => outcome[r] = "none" /\ landed[r] # None
    /\ \A a \in Appenders : pc[a] \in {"unlink", "unlock"} /\ outcome[a] = "none" => landed[a] # None

\* The inode an append has opened keeps its time stamp.
Same(a) == file[before[a].ino].mtime = before[a].mtime

\* While it does, it holds what the append has read.  Once the descriptor is
\* closed the inode may be given out again, but comes to no name with the old
\* time stamp.
ReadInv ==
    \A a \in Appenders :
        /\ pc[a] \in Unopened => existing[a] = <<>>
        /\ pc[a] \in Opened =>
             /\ before[a].mtime <= file[before[a].ino].mtime
             /\ Same(a) /\ pc[a] = "read" => IsExtension(existing[a], file[before[a].ino].data)
             /\ Same(a) /\ pc[a] # "read" =>
                  \A n \in Names : dir[n] = before[a].ino => file[before[a].ino].data = existing[a]
             /\ \A r \in Requests : pc[r] \in Written /\ temp[r] = before[a].ino => ~Same(a)

\* A temp file holds what is to land.
ContentInv == \A r \in Requests : pc[r] \in Written => file[temp[r]].data = Content(r)

\* The target of an os.replace is still the file that was read.
SwapInv == QuietHost =>
    \A a \in Appenders : pc[a] = "replace" => dir[path[a]] = before[a].ino /\ Same(a)

FileInv == ReadInv /\ ContentInv /\ SwapInv

-----------------------------------------------------------------------------
(* Names.                                                                  *)

\* Every step leaves each inode one name.
LEMMA NameStep == TypeInv /\ Disk /\ NameInv /\ [Next]_vars => NameInv'
<1> SUFFICES ASSUME TypeInv, Disk, NameInv, [Next]_vars PROVE NameInv'
    OBVIOUS
<1> USE DEF fs
<1>0. /\ survive \in [Names -> SUBSET Entry] /\ dir \in [Names -> Entry]
      /\ \A n \in Names : dir[n] \in survive[n]
    BY DEF TypeInv, TypeOK, Disk, PrivateInv
<1>1. ASSUME NEW n \in Names, NEW i \in Entry, SetEntry(n, i),
             \A m \in Names : i \notin survive[m] \ {None}
      PROVE  NameInv'
  <2>1. survive'[n] = survive[n] \union {i} /\ \A m \in Names : m # n => survive'[m] = survive[m]
      BY <1>0, <1>1 DEF SetEntry
  <2>2. ASSUME NEW m \in Names, NEW x \in survive'[m] \ {None}
        PROVE  x \in survive[m] \ {None} \/ (m = n /\ x = i)
      BY <2>1, <2>2
  <2>3. ASSUME NEW k \in Names, NEW m \in Names, NEW x \in (survive'[k] \intersect survive'[m]) \ {None}
        PROVE  k = m
      BY <1>1, <2>2, <2>3 DEF NameInv
  <2> QED
      BY <2>3 DEF NameInv
<1>2. ASSUME \A m \in Names : survive'[m] \subseteq survive[m] PROVE NameInv'
    BY <1>2 DEF NameInv
<1>3. ASSUME UNCHANGED survive PROVE NameInv'
    BY <1>2, <1>3
<1>4. ASSUME NEW r \in Requests, pc[r] \in {"link", "replace"}
      PROVE  temp[r] \in Entry /\ \A m \in Names : temp[r] \notin survive[m] \ {None}
    BY <1>4 DEF TypeInv, TypeOK, Disk, PrivateInv, Writing
<1>5. ASSUME NEW c \in Creators, Link(c) PROVE NameInv'
    BY <1>1, <1>4, <1>5, DestinationType DEF Link, Requests, TypeInv
<1>6. ASSUME NEW a \in Appenders, Replace(a) PROVE NameInv'
    BY <1>1, <1>4, <1>6 DEF Replace, Requests, TypeInv, TypeOK
<1>7. ASSUME NEW r \in Requests, SyncDirectory(r) PROVE NameInv'
    BY <1>0, <1>2, <1>7 DEF SyncDirectory
<1>8. ASSUME NEW n \in Names, HostPut(n) PROVE NameInv'
    BY <1>1, <1>8 DEF HostPut, FreeInodes, Entry
<1>9. ASSUME NEW n \in Names, HostDelete(n) PROVE NameInv'
    BY <1>1, <1>9 DEF HostDelete, Entry
<1>10. ASSUME PowerLoss PROVE NameInv'
    BY <1>2, <1>10 DEF PowerLoss
<1>11. ASSUME NEW r \in Requests,
              Arrive(r) \/ OpenTemp(r) \/ WriteTemp(r) \/ Stat(r) \/ UnlinkTemp(r) \/ Failure(r)
       PROVE  UNCHANGED survive
    BY <1>11 DEF Arrive, Refuse, StartCreate, IsSymlink, OpenTemp, WriteTemp, Stat, UnlinkTemp,
       Failure, SystemCallFails, FchmodFails, UnlinkFails, CleanUpFails
<1>12. ASSUME NEW c \in Creators, CreateStep(c), ~Link(c) PROVE UNCHANGED survive
    BY <1>12 DEF CreateStep, LinkExists
<1>13. ASSUME NEW a \in Appenders, AppendStep(a), ~Replace(a) PROVE UNCHANGED survive
    BY <1>13 DEF AppendStep, ResolveStrict, IsRegular, OpenLock, AcquireLock, PollLock, OpenTarget,
       ReadChunk, ReadEnd, CheckIdentity, Unlock
<1>14. ASSUME ProcessCrash \/ HostSwapsLock \/ Idle \/ UNCHANGED vars PROVE UNCHANGED survive
    BY <1>14 DEF ProcessCrash, HostSwapsLock, Idle, vars
<1>15. ASSUME NEW n \in Names, HostEdit(n) PROVE UNCHANGED survive
    BY <1>15 DEF HostEdit
<1> QED
    BY <1>3, <1>5, <1>6, <1>7, <1>8, <1>9, <1>10, <1>11, <1>12, <1>13, <1>14, <1>15
    DEF Next, Step, SharedStep, HostStep

-----------------------------------------------------------------------------
(* The lock.                                                               *)

\* Every step leaves the one lock file with those who hold it.
LEMMA OneLockStep == TypeInv /\ LockInv /\ [Next]_vars => LockInv'
<1> SUFFICES ASSUME QuietHost, TypeInv, LockInv, [Next]_vars PROVE LockInv'
    BY DEF LockInv
<1>0. TypeOK /\ Appenders \subseteq Requests
    BY DEF TypeInv, Requests
<1> USE <1>0 DEF fs, lock, create, tmp, append, used, Goes
<1>1. ASSUME UNCHANGED lockFile,
             \A a \in Appenders : (pc'[a] = "poll" \/ Holds(a)') =>
                 (pc[a] = "poll" \/ Holds(a)) /\ lockFd'[a] = lockFd[a]
      PROVE  LockInv'
    BY <1>1 DEF LockInv
<1>2. ASSUME NEW r \in Requests, UNCHANGED <<lockFile, lockFd>>, \E x \in Answers : Raise(r, x)
      PROVE  LockInv'
    BY <1>1, <1>2, RaiseHolds, RaiseType
<1>3. ASSUME NEW r \in Requests, UNCHANGED <<lockFile, lockFd>>, NEW step \in Steps \ {"poll"}, Goto(r, step),
             r \in Creators \/ step \notin Locked \/ pc[r] \in Locked \union {"poll"}
      PROVE  LockInv'
    BY <1>1, <1>3, GotoType, InboxAssumption DEF Holds
<1>4. ASSUME NEW r \in Requests, Refuse(r) PROVE LockInv'
    BY <1>2, <1>4 DEF Refuse, Answers
<1>5. ASSUME NEW r \in Requests, OpenTemp(r) \/ WriteTemp(r) \/ SyncDirectory(r) \/ UnlinkTemp(r) PROVE LockInv'
    BY <1>3, <1>5 DEF OpenTemp, WriteTemp, SyncDirectory, UnlinkTemp, AfterUnlink, Steps, Locked
<1>6. ASSUME NEW r \in Requests, Stat(r) PROVE LockInv'
    BY <1>2, <1>3, <1>6 DEF Stat, Steps, Locked, Answers
<1>7. ASSUME NEW r \in Requests, SystemCallFails(r) PROVE LockInv'
  <2>1. \E x \in Answers : Raise(r, x)
      BY <1>7 DEF SystemCallFails, FaultAnswers, Answers
  <2>2. ASSUME NEW b \in Appenders, pc'[b] = "poll" \/ Holds(b)'
        PROVE  (pc[b] = "poll" \/ Holds(b)) /\ lockFd'[b] = lockFd[b]
    <3>1. (pc[b] = "poll" /\ b # r) \/ (Holds(b) /\ ~(b = r /\ pc[b] = "unlock"))
        BY <2>1, <2>2, RaiseHolds, RaiseType, RaiseUnlocks DEF Holds, Locked
    <3> QED
        BY <1>7, <3>1 DEF SystemCallFails, Holds, Locked
  <2> QED
      BY <1>1, <1>7, <2>2 DEF SystemCallFails
<1>21. ASSUME NEW r \in Requests, FchmodFails(r) \/ UnlinkFails(r) PROVE LockInv'
  <2>1. ASSUME NEW b \in Appenders, pc'[b] = "poll" \/ Holds(b)'
        PROVE  pc[b] = "poll" \/ Holds(b)
    <3>1. CASE Holds(b)'
        BY <1>21, <3>1, CleanUpHolds
    <3>2. CASE pc'[b] = "poll"
        BY <1>21, <3>2, CleanUpMoves
    <3> QED
        BY <2>1, <3>1, <3>2
  <2>2. UNCHANGED <<lockFile, lockFd>>
      BY <1>21, CleanUpMoves
  <2> QED
      BY <1>1, <2>1, <2>2
<1>8. ASSUME NEW c \in Creators, StartCreate(c) \/ Link(c) PROVE LockInv'
    BY <1>3, <1>8 DEF StartCreate, Link, Steps, Locked, Requests
<1>9. ASSUME NEW c \in Creators, LinkExists(c) PROVE LockInv'
  <2>1. CASE UNCHANGED pc
      BY <1>1, <1>9, <2>1 DEF LinkExists, Holds
  <2>2. CASE Raise(c, "NOTE_ALREADY_EXISTS")
      BY <1>2, <1>9, <2>2 DEF LinkExists, Answers, Requests
  <2> QED
      BY <1>9, <2>1, <2>2 DEF LinkExists
<1>10. ASSUME NEW a \in Appenders, Lookup(a), ~OpenLock(a) PROVE LockInv'
  <2>1. UNCHANGED <<lockFile, lockFd>>
      BY <1>10 DEF Lookup, IsSymlink, ResolveStrict, IsRegular, OpenTarget, ReadEnd, CheckIdentity
  <2>2. \/ \E x \in Answers : Raise(a, x)
        \/ \E step \in {"resolve", "isreg", "lock"} : Goto(a, step)
        \/ pc[a] \in Locked /\ \E step \in {"read", "temp", "replace"} : Goto(a, step)
      BY <1>10 DEF Lookup, IsSymlink, ResolveStrict, IsRegular, OpenTarget, ReadEnd, CheckIdentity,
         Answers, Locked
  <2> QED
      BY <1>2, <1>3, <2>1, <2>2 DEF Steps, Locked
<1>11. ASSUME NEW a \in Appenders, OpenLock(a) PROVE LockInv'
  <2>1. CASE Goto(a, "poll") /\ lockFd' = [lockFd EXCEPT ![a] = lockFile]
    <3>1. /\ lockFd' = [lockFd EXCEPT ![a] = 1] /\ lockFile' = 1
          /\ \A b \in Appenders : b # a => pc'[b] = pc[b]
        BY <1>11, <2>1 DEF OpenLock, LockInv, Goto, TypeOK
    <3> QED
        BY <3>1 DEF LockInv, Holds, TypeOK
  <2>2. CASE UNCHANGED lockFd /\ \E x \in Answers : Raise(a, x)
      BY <1>2, <1>11, <2>2 DEF OpenLock
  <2> QED
      BY <1>11, <2>1, <2>2 DEF OpenLock, Answers
<1>12. ASSUME NEW a \in Appenders, AcquireLock(a) PROVE LockInv'
    BY <1>3, <1>12 DEF AcquireLock, Steps, Locked
<1>13. ASSUME NEW a \in Appenders, PollLock(a) PROVE LockInv'
  <2>1. CASE UNCHANGED <<pc, lockFd>>
      BY <1>1, <1>13, <2>1 DEF PollLock, Holds
  <2>2. CASE Raise(a, "INBOX_LOCK_TIMEOUT") /\ lockFd' = [lockFd EXCEPT ![a] = 0]
    <3>1. \A b \in Appenders : (pc'[b] = "poll" \/ Holds(b)') => b # a
        BY <1>13, <2>2, RaiseHolds, RaiseType DEF PollLock, Answers, Holds, Locked
    <3>2. \A b \in Appenders : (pc'[b] = "poll" \/ Holds(b)') => pc[b] = "poll" \/ Holds(b)
        BY <2>2, RaiseHolds, RaiseType DEF Answers
    <3>3. lockFile' = lockFile
        BY <1>13 DEF PollLock
    <3> QED
        BY <1>1, <2>2, <3>1, <3>2, <3>3 DEF TypeOK
  <2> QED
      BY <1>13, <2>1, <2>2 DEF PollLock
<1>14. ASSUME NEW a \in Appenders, Replace(a) PROVE LockInv'
    BY <1>3, <1>14 DEF Replace, Steps, Locked
<1>15. ASSUME NEW a \in Appenders, Unlock(a) PROVE LockInv'
  <2>1. /\ pc'[a] \in {"stat", "done"} /\ \A b \in Appenders : b # a => pc'[b] = pc[b]
        /\ \A b \in Appenders : b # a => lockFd'[b] = lockFd[b]
        /\ lockFile' = lockFile
      BY <1>15 DEF Unlock, Goto, TypeOK
  <2> QED
      BY <1>1, <2>1 DEF Holds, Locked
<1>16. ASSUME Crash PROVE LockInv'
    BY <1>1, <1>16 DEF Crash, InFlight, Holds, Locked
<1>17. ~HostSwapsLock
    BY DEF HostSwapsLock, QuietHost, LockInv
<1>18. ASSUME UNCHANGED <<pc, lockFd, lockFile>> PROVE LockInv'
    BY <1>1, <1>18 DEF Holds
<1>19. HostStep \/ Idle \/ UNCHANGED vars => UNCHANGED <<pc, lockFd, lockFile>>
    BY <1>17 DEF HostStep, HostEdit, HostPut, HostDelete, HostUnchanged, Idle, vars
<1>20. \A a \in Appenders : ReadChunk(a) => UNCHANGED <<pc, lockFd, lockFile>>
    BY DEF ReadChunk
<1> QED
    BY <1>4, <1>5, <1>6, <1>7, <1>8, <1>9, <1>10, <1>11, <1>12, <1>13, <1>14, <1>15, <1>16,
       <1>18, <1>19, <1>20, <1>21
    DEF Next, Arrive, Step, Failure, SharedStep, CreateStep, AppendStep, Lookup, ProcessCrash, PowerLoss

-----------------------------------------------------------------------------
(* Answers in doubt.                                                       *)

\* Only r moves, and it is unanswered as long as it is in doubt.
LEMMA DoubtFrame ==
    ASSUME DoubtInv, NEW r \in Requests,
           \A q \in Requests : q # r =>
              pc'[q] = pc[q] /\ outcome'[q] = outcome[q] /\ landed'[q] = landed[q],
           outcome'[r] = "ok" => landed'[r] # None,
           pc'[r] \in {"syncdir", "stat"} => outcome'[r] = "none" /\ landed'[r] # None,
           r \in Appenders /\ pc'[r] \in {"unlink", "unlock"} /\ outcome'[r] = "none"
              => landed'[r] # None
    PROVE  DoubtInv'
BY DEF DoubtInv, Requests

\* Every step keeps the landed and unanswered ones on their way to an answer.
LEMMA DoubtStep == TypeInv /\ AnswerInv /\ DoubtInv /\ [Next]_vars => DoubtInv'
<1> SUFFICES ASSUME TypeInv, AnswerInv, DoubtInv, [Next]_vars PROVE DoubtInv'
    OBVIOUS
<1>0. TypeOK /\ Creators \subseteq Requests /\ Appenders \subseteq Requests
    BY DEF TypeInv, Requests
<1> USE <1>0 DEF fs, lock, create, tmp, append, used, Goes
<1>1. ASSUME NEW r \in Requests, UNCHANGED landed, \E x \in Answers \ {"ok"} : Raise(r, x) PROVE DoubtInv'
  <2>1. PICK x \in Answers \ {"ok"} : Raise(r, x)
      BY <1>1
  <2>2. /\ pc'[r] \in {"unlink", "unlock", "done"} /\ outcome'[r] = x /\ x \notin {"none", "ok"}
        /\ \A q \in Requests : q # r => pc'[q] = pc[q] /\ outcome'[q] = outcome[q]
      BY <2>1, RaiseType DEF Raise, TypeOK, Answers
  <2> QED
      BY <1>1, <2>2, DoubtFrame
<1>2. ASSUME NEW r \in Requests, UNCHANGED <<outcome, landed>>,
             NEW step \in Steps \ {"syncdir", "stat", "unlink", "unlock"}, Goto(r, step)
      PROVE  DoubtInv'
    BY <1>2, GotoType, DoubtFrame DEF DoubtInv
<1>3. ASSUME NEW r \in Requests, Refuse(r) \/ SystemCallFails(r) PROVE DoubtInv'
    BY <1>1, <1>3 DEF Refuse, SystemCallFails, FaultAnswers, Answers
<1>19. ASSUME NEW r \in Requests, FchmodFails(r) \/ UnlinkFails(r) PROVE DoubtInv'
  <2>1. \A q \in Requests : q # r => pc'[q] = pc[q] /\ outcome'[q] = outcome[q] /\ landed'[q] = landed[q]
      BY <1>19, CleanUpMoves
  <2>2. outcome'[r] = "INTERNAL_ERROR" /\ pc'[r] \in {"unlink", "unlock", "done"}
      BY <1>19, CleanUpMoves
  <2> QED
      BY <2>1, <2>2, DoubtFrame
<1>4. ASSUME NEW r \in Requests, OpenTemp(r) \/ WriteTemp(r) PROVE DoubtInv'
    BY <1>2, <1>4 DEF OpenTemp, WriteTemp, Steps, Locked
<1>5. ASSUME NEW r \in Requests, SyncDirectory(r) PROVE DoubtInv'
  <2>1. /\ pc[r] = "syncdir" /\ pc'[r] \in {"stat", "unlink"} /\ UNCHANGED <<outcome, landed>>
        /\ \A q \in Requests : q # r => pc'[q] = pc[q]
      BY <1>5 DEF SyncDirectory, Goto, TypeOK
  <2> QED
      BY <2>1, DoubtFrame DEF DoubtInv
<1>6. ASSUME NEW r \in Requests, UnlinkTemp(r) PROVE DoubtInv'
  <2>1. /\ pc[r] = "unlink" /\ pc'[r] \in {"done", "unlock"} /\ UNCHANGED <<outcome, landed>>
        /\ \A q \in Requests : q # r => pc'[q] = pc[q]
      BY <1>6 DEF UnlinkTemp, AfterUnlink, Goto, TypeOK
  <2> QED
      BY <2>1, DoubtFrame DEF DoubtInv
<1>7. ASSUME NEW r \in Requests, Stat(r) PROVE DoubtInv'
  <2>1. CASE Raise(r, "INTERNAL_ERROR")
      BY <1>1, <1>7, <2>1 DEF Stat, Answers
  <2>2. CASE /\ outcome' = [outcome EXCEPT ![r] = "ok"]
             /\ Goto(r, IF r \in Creators THEN "unlink" ELSE "done")
    <3>1. /\ pc[r] = "stat" /\ pc'[r] = IF r \in Creators THEN "unlink" ELSE "done"
          /\ outcome'[r] = "ok" /\ landed' = landed
          /\ \A q \in Requests : q # r => pc'[q] = pc[q] /\ outcome'[q] = outcome[q]
        BY <1>7, <2>2 DEF Stat, Goto, TypeOK
    <3>2. r \in Appenders => r \notin Creators
        BY InboxAssumption
    <3> QED
        BY <3>1, <3>2, DoubtFrame DEF DoubtInv
  <2> QED
      BY <1>7, <2>1, <2>2 DEF Stat
<1>8. ASSUME NEW c \in Creators, StartCreate(c) PROVE DoubtInv'
    BY <1>2, <1>8 DEF StartCreate, Steps, Locked
<1>9. ASSUME NEW c \in Creators, Link(c) PROVE DoubtInv'
  <2>1. /\ pc[c] = "link" /\ pc'[c] = "syncdir" /\ outcome' = outcome /\ landed'[c] # None
        /\ \A q \in Requests : q # c => pc'[q] = pc[q] /\ landed'[q] = landed[q]
      BY <1>9, DestinationType, InboxAssumption DEF Link, Goto, TypeOK
  <2> QED
      BY <2>1, DoubtFrame DEF AnswerInv, Early
<1>10. ASSUME NEW c \in Creators, LinkExists(c) PROVE DoubtInv'
  <2>1. CASE UNCHANGED <<pc, outcome>>
      BY <1>10, <2>1 DEF LinkExists, DoubtInv
  <2>2. CASE Raise(c, "NOTE_ALREADY_EXISTS")
      BY <1>1, <1>10, <2>2 DEF LinkExists, Answers
  <2> QED
      BY <1>10, <2>1, <2>2 DEF LinkExists
<1>11. ASSUME NEW a \in Appenders, Lookup(a) PROVE DoubtInv'
  <2>1. UNCHANGED landed
      BY <1>11, LookupMoves
  <2>2. \/ \E x \in Answers \ {"ok"} : Raise(a, x)
        \/ UNCHANGED outcome /\ \E step \in LookupSteps : Goto(a, step)
      BY <1>11, LookupMoves DEF Refusals, Answers
  <2> QED
      BY <1>1, <1>2, <2>1, <2>2 DEF LookupSteps, Steps, Locked
<1>12. ASSUME NEW a \in Appenders, AcquireLock(a) PROVE DoubtInv'
    BY <1>2, <1>12 DEF AcquireLock, Steps, Locked
<1>13. ASSUME NEW a \in Appenders, PollLock(a) \/ ReadChunk(a) PROVE DoubtInv'
  <2>1. CASE UNCHANGED <<pc, outcome>>
      BY <1>13, <2>1 DEF PollLock, ReadChunk, DoubtInv
  <2>2. CASE Raise(a, "INBOX_LOCK_TIMEOUT")
      BY <1>1, <1>13, <2>2 DEF PollLock, ReadChunk, Answers
  <2> QED
      BY <1>13, <2>1, <2>2 DEF PollLock, ReadChunk
<1>14. ASSUME NEW a \in Appenders, Replace(a) PROVE DoubtInv'
  <2>1. /\ pc[a] = "replace" /\ pc'[a] = "syncdir" /\ outcome' = outcome /\ landed'[a] # None
        /\ \A q \in Requests : q # a => pc'[q] = pc[q] /\ landed'[q] = landed[q]
      BY <1>14, InboxAssumption DEF Replace, Goto, TypeOK
  <2> QED
      BY <2>1, DoubtFrame DEF AnswerInv, Early
<1>15. ASSUME NEW a \in Appenders, Unlock(a) PROVE DoubtInv'
  <2>1. /\ pc[a] = "unlock" /\ UNCHANGED <<outcome, landed>>
        /\ pc'[a] = IF outcome[a] = "none" THEN "stat" ELSE "done"
        /\ \A q \in Requests : q # a => pc'[q] = pc[q]
      BY <1>15 DEF Unlock, Goto, TypeOK
  <2> QED
      BY <2>1, DoubtFrame DEF DoubtInv
<1>16. ASSUME Crash PROVE DoubtInv'
    BY <1>16 DEF Crash, InFlight, TypeOK, DoubtInv
<1>17. HostStep \/ Idle \/ UNCHANGED vars => UNCHANGED <<pc, outcome, landed>>
    BY DEF HostStep, HostEdit, HostPut, HostDelete, HostUnchanged, HostSwapsLock, Idle, vars
<1>18. UNCHANGED <<pc, outcome, landed>> => DoubtInv'
    BY DEF DoubtInv
<1> QED
    BY <1>3, <1>4, <1>5, <1>6, <1>7, <1>8, <1>9, <1>10, <1>11, <1>12, <1>13, <1>14, <1>15, <1>16,
       <1>17, <1>18, <1>19
    DEF Next, Arrive, Step, Failure, SharedStep, CreateStep, AppendStep, Lookup, ProcessCrash, PowerLoss

-----------------------------------------------------------------------------
(* What an append has read.                                                *)

\* The inode of an opened target is one.
LEMMA OpenedInode ==
    ASSUME TypeInv, NEW a \in Appenders, pc[a] \in Opened
    PROVE  before[a].ino \in Inodes /\ before[a].ino # None
BY InboxAssumption DEF TypeInv, InodesKnown, Opened

\* A step that changes no file and gives none a name, and after which an
\* append is as far with its target as it was.
LEMMA QuietText ==
    ASSUME TypeInv, FileInv, UNCHANGED <<file, existing, before>>,
           \A n \in Names : dir'[n] \in {dir[n], None},
           \A q \in Requests : pc'[q] \in Written => pc[q] \in Written /\ temp'[q] = temp[q],
           \A a \in Appenders :
              /\ pc'[a] \in Unopened => pc[a] \in Unopened
              /\ pc'[a] \in Opened => pc[a] \in Opened /\ (pc'[a] = "read" <=> pc[a] = "read")
              /\ pc'[a] = "replace" /\ QuietHost => dir'[path'[a]] = before[a].ino /\ Same(a)
    PROVE  FileInv'
<1> USE DEF FileInv
<1>1. \A a \in Appenders : Same(a)' = Same(a)
    BY DEF Same
<1>2. \A a \in Appenders : pc'[a] \in Opened => before[a].ino # None
    BY OpenedInode
<1>3. ReadInv'
    BY <1>1, <1>2 DEF ReadInv
<1>4. ContentInv'
    BY DEF ContentInv, Content
<1>5. SwapInv'
    BY <1>1 DEF SwapInv
<1> QED
    BY <1>3, <1>4, <1>5

\* A temp file that is written keeps its data, or is i and gets what is to land.
TempsTouched(i, f) ==
    \A q \in Requests : pc'[q] \in Written =>
        \/ pc[q] \in Written /\ temp'[q] = temp[q] /\ temp[q] # i
        \/ temp'[q] = i /\ f.data = Content(q)

\* Appends are as far as they were, and none is about to replace i.
TargetsUntouched(i) ==
    \A a \in Appenders :
        /\ pc'[a] \in Unopened => pc[a] \in Unopened
        /\ pc'[a] \in Opened => pc[a] \in Opened /\ (pc'[a] = "read" <=> pc[a] = "read")
        /\ pc'[a] = "replace" /\ QuietHost =>
              /\ pc[a] = "replace" /\ path'[a] = path[a]
              /\ dir'[path[a]] = dir[path[a]] /\ dir[path[a]] # i

\* A file is written, and so gets a new time stamp.
LEMMA TouchText ==
    ASSUME TypeInv, FileInv, UNCHANGED <<existing, before>>,
           NEW i \in Inodes, NEW f, file' = [file EXCEPT ![i] = f], f.mtime = file[i].mtime + 1,
           \A n \in Names : dir'[n] \in {dir[n], i},
           TempsTouched(i, f), TargetsUntouched(i)
    PROVE  FileInv'
<1> USE DEF FileInv, TempsTouched, TargetsUntouched
<1>0. /\ file \in [Inodes -> FileRecord] /\ before \in [Appenders -> IdentityRecord]
      /\ temp \in [Requests -> Entry]
    BY DEF TypeInv, TypeOK
<1>1. file'[i] = f /\ \A j \in Inodes : j # i => file'[j] = file[j]
    BY <1>0
<1>2. \A j \in Inodes : file[j].mtime \in Nat
    BY <1>0 DEF FileRecord
<1>3. \A a \in Appenders : before[a].mtime \in Nat
    BY <1>0 DEF IdentityRecord
<1>4. ASSUME NEW a \in Appenders, pc'[a] \in Opened
      PROVE  /\ pc[a] \in Opened /\ before[a].ino \in Inodes
             /\ before[a].mtime <= file[before[a].ino].mtime
             /\ (before[a].ino = i => before[a].mtime < f.mtime /\ ~Same(a)')
             /\ (before[a].ino # i => Same(a)' = Same(a) /\ file'[before[a].ino] = file[before[a].ino])
  <2>1. pc[a] \in Opened /\ before[a].ino \in Inodes
      BY <1>4, OpenedInode
  <2>2. before[a].mtime <= file[before[a].ino].mtime
      BY <2>1 DEF ReadInv
  <2>3. CASE before[a].ino = i
    <3>1. before[a].mtime < f.mtime
        BY <1>2, <1>3, <2>1, <2>2, <2>3
    <3>2. before'[a].mtime = before[a].mtime /\ file'[before'[a].ino].mtime = f.mtime
        BY <1>1, <2>3
    <3> QED
        BY <1>3, <2>1, <2>2, <2>3, <3>1, <3>2 DEF Same
  <2>4. CASE before[a].ino # i
    <3>1. file'[before[a].ino] = file[before[a].ino]
        BY <1>1, <2>1, <2>4
    <3> QED
        BY <2>1, <2>2, <2>4, <3>1 DEF Same
  <2> QED
      BY <2>3, <2>4
<1>5. ReadInv'
  <2> SUFFICES ASSUME NEW a \in Appenders
               PROVE  /\ pc'[a] \in Unopened => existing'[a] = <<>>
                      /\ pc'[a] \in Opened =>
                           /\ before'[a].mtime <= file'[before'[a].ino].mtime
                           /\ Same(a)' /\ pc'[a] = "read" => IsExtension(existing'[a], file'[before'[a].ino].data)
                           /\ Same(a)' /\ pc'[a] # "read" =>
                                \A n \in Names : dir'[n] = before'[a].ino =>
                                    file'[before'[a].ino].data = existing'[a]
                           /\ \A r \in Requests : pc'[r] \in Written /\ temp'[r] = before'[a].ino => ~Same(a)'
      BY DEF ReadInv, IsExtension
  <2>1. pc'[a] \in Unopened => existing'[a] = <<>>
      BY DEF ReadInv
  <2>2. CASE pc'[a] \in Opened /\ before[a].ino = i
    <3>1. before'[a] = before[a] /\ file'[before'[a].ino] = f
        BY <1>1, <2>2
    <3>2. before[a].mtime <= f.mtime
        BY <1>0, <1>2, <1>3, <1>4, <2>2
    <3> QED
        BY <1>4, <2>1, <2>2, <3>1, <3>2
  <2>3. CASE pc'[a] \in Opened /\ before[a].ino # i
    <3>1. \A n \in Names : dir'[n] = before[a].ino => dir[n] = before[a].ino
        BY <2>3
    <3>2. \A r \in Requests : pc'[r] \in Written /\ temp'[r] = before[a].ino =>
                                  pc[r] \in Written /\ temp[r] = before[a].ino
        BY <2>3
    <3>3. /\ pc[a] \in Opened /\ (pc'[a] = "read" <=> pc[a] = "read") /\ Same(a)' = Same(a)
          /\ file'[before[a].ino] = file[before[a].ino] /\ before' = before /\ existing' = existing
        BY <1>4, <2>3
    <3> QED
        BY <2>1, <3>1, <3>2, <3>3 DEF ReadInv
  <2> QED
      BY <2>1, <2>2, <2>3
<1>6. ContentInv'
  <2> SUFFICES ASSUME NEW q \in Requests, pc'[q] \in Written PROVE file'[temp'[q]].data = Content(q)'
      BY DEF ContentInv
  <2>1. Content(q)' = Content(q)
      BY DEF Content
  <2>2. CASE temp'[q] = i /\ f.data = Content(q)
      BY <1>1, <2>1, <2>2
  <2>3. CASE pc[q] \in Written /\ temp'[q] = temp[q] /\ temp[q] # i
    <3>1. temp[q] \in Inodes
        BY <2>3 DEF TypeInv, InodesKnown, Written
    <3> QED
        BY <1>1, <2>1, <2>3, <3>1 DEF ContentInv
  <2> QED
      BY <2>2, <2>3
<1>7. SwapInv'
  <2> SUFFICES ASSUME QuietHost, NEW a \in Appenders, pc'[a] = "replace"
               PROVE  dir'[path'[a]] = before'[a].ino /\ Same(a)'
      BY DEF SwapInv
  <2>1. /\ dir[path[a]] = before[a].ino /\ Same(a) /\ before[a].ino # i
        /\ dir'[path'[a]] = dir[path[a]]
      BY DEF SwapInv
  <2>2. Same(a)' = Same(a)
      BY <1>4, <2>1 DEF Opened
  <2> QED
      BY <2>1, <2>2
<1> QED
    BY <1>5, <1>6, <1>7

\* A new temp file keeps the time stamp of its inode, but the inode has no
\* name, and nobody reads it.
LEMMA OpenTempText == ASSUME TypeInv, FileInv, NEW r \in Requests, OpenTemp(r) PROVE FileInv'
<1> USE DEF FileInv
<1>1. PICK i \in FreeInodes :
        /\ temp' = [temp EXCEPT ![r] = i]
        /\ file' = [file EXCEPT ![i] = [data |-> <<>>, mtime |-> @.mtime,
                                        kind |-> "regular", synced |-> FALSE]]
    BY DEF OpenTemp
<1>2. /\ i \in Inodes /\ \A n \in Names : dir[n] # i
      /\ \A q \in Requests : temp[q] # i
      /\ \A a \in Appenders : pc[a] = "read" => before[a].ino # i
    BY DEF FreeInodes
<1>3. /\ file'[i].mtime = file[i].mtime
      /\ \A j \in Inodes : j # i => file'[j] = file[j]
    BY <1>1, <1>2 DEF TypeInv, TypeOK, FileRecord
<1>4. /\ pc[r] = "temp" /\ pc'[r] = "write"
      /\ \A q \in Requests : q # r => pc'[q] = pc[q] /\ temp'[q] = temp[q]
      /\ UNCHANGED <<dir, path, existing, before>>
    BY <1>1 DEF OpenTemp, Goto, TypeInv, TypeOK, append, tmp
<1>5. \A a \in Appenders : pc'[a] \in Opened => Same(a)' = Same(a) /\ file'[before[a].ino].mtime = file[before[a].ino].mtime
    BY <1>3, <1>4, OpenedInode DEF Same, Opened, Requests
<1>6. \A q \in Requests : pc'[q] \in Written => pc[q] \in Written /\ temp'[q] = temp[q] /\ q # r
    BY <1>4 DEF Written
<1>7. ASSUME NEW a \in Appenders
      PROVE  /\ pc'[a] \in Unopened => pc[a] \in Unopened
             /\ pc'[a] \in Opened => pc[a] \in Opened /\ (pc'[a] = "read" <=> pc[a] = "read")
             /\ pc'[a] = "replace" => pc[a] = "replace"
    BY <1>4 DEF Unopened, Opened, Requests
<1>8. ReadInv'
  <2>1. ASSUME NEW a \in Appenders, pc'[a] \in Opened, pc[a] = "read" \/ \E n \in Names : dir[n] = before[a].ino
        PROVE  file'[before[a].ino] = file[before[a].ino]
      BY <1>2, <1>3, <1>7, <2>1, OpenedInode
  <2> QED
      BY <1>4, <1>5, <1>6, <1>7, <2>1 DEF ReadInv
<1>9. ContentInv'
  <2>1. \A q \in Requests : pc'[q] \in Written => temp[q] \in Inodes /\ temp[q] # i
      BY <1>2, <1>6 DEF TypeInv, InodesKnown, Written
  <2>2. \A q \in Requests : Content(q)' = Content(q)
      BY <1>4 DEF Content
  <2> QED
      BY <1>3, <1>6, <2>1, <2>2 DEF ContentInv
<1>10. SwapInv'
    BY <1>4, <1>5, <1>7 DEF SwapInv, Opened
<1> QED
    BY <1>8, <1>9, <1>10

\* A temp file is written: no inode that an append has opened keeps its time
\* stamp by it.
LEMMA WriteTempText ==
    ASSUME FineClock, TypeInv, Disk, FileInv, NEW r \in Requests, WriteTemp(r) PROVE FileInv'
<1> DEFINE i == temp[r]
           f == [data |-> Content(r), mtime |-> file[i].mtime + 1,
                 kind |-> "regular", synced |-> TRUE]
<1>1. /\ pc[r] = "write" /\ file' = [file EXCEPT ![i] = f] /\ pc'[r] \in {"link", "check"}
      /\ \A q \in Requests : q # r => pc'[q] = pc[q]
      /\ UNCHANGED <<dir, survive, temp, path, existing, before>>
    BY DEF WriteTemp, NewMtimes, Goto, TypeInv, TypeOK, append, tmp
<1>2. i \in Inodes /\ \A n \in Names : dir'[n] \in {dir[n], i} /\ dir[n] # i
    BY <1>1 DEF TypeInv, InodesKnown, Disk, PrivateInv, Writing
<1>3. \A q \in Requests : q # r => temp[q] # i
    BY <1>2, InboxAssumption DEF Disk, PrivateInv
<1>4. r \in Appenders => pc'[r] = "check"
    BY InboxAssumption DEF WriteTemp, Goto, TypeInv, TypeOK
<1>5. TempsTouched(i, f)
    BY <1>1, <1>3 DEF TempsTouched
<1>6. TargetsUntouched(i)
  <2>1. \A a \in Appenders : path[a] \in Names
      BY DEF TypeInv, TypeOK
  <2> QED
      BY <1>1, <1>2, <1>4, <2>1, InboxAssumption DEF TargetsUntouched, Unopened, Opened, Requests
<1>7. f.mtime = file[i].mtime + 1
    OBVIOUS
<1>8. UNCHANGED <<existing, before>> /\ file' = [file EXCEPT ![i] = f]
    BY <1>1
<1> HIDE DEF i, f
<1> QED
    BY <1>2, <1>5, <1>6, <1>7, <1>8, TouchText

\* What lands comes to a name with a time stamp that no append has seen, and
\* not where another append is about to replace.
LEMMA LandText ==
    ASSUME TypeInv, FileInv, UNCHANGED <<file, path, existing, before>>,
           NEW r \in Requests, NEW n \in Names, SetEntry(n, temp[r]), pc[r] \in Written,
           \A q \in Requests : q # r => temp'[q] = temp[q],
           Goto(r, "syncdir"),
           \A a \in Appenders : QuietHost /\ a # r /\ pc[a] = "replace" => path[a] # n
    PROVE  FileInv'
<1> USE DEF FileInv
<1>1. /\ pc'[r] = "syncdir" /\ \A q \in Requests : q # r => pc'[q] = pc[q]
      /\ \A m \in Names : m # n => dir'[m] = dir[m]
      /\ dir'[n] = temp[r]
    BY DEF Goto, SetEntry, TypeInv, TypeOK
<1>2. \A a \in Appenders : Same(a)' = Same(a)
    BY DEF Same
<1>3. \A q \in Requests : pc'[q] \in Written => q # r /\ pc[q] \in Written /\ temp'[q] = temp[q]
    BY <1>1 DEF Written
<1>4. \A a \in Appenders : /\ pc'[a] \in Unopened => pc[a] \in Unopened
                           /\ pc'[a] \in Opened => a # r /\ pc[a] = pc'[a]
    BY <1>1 DEF Unopened, Opened, Requests
<1>5. ASSUME NEW a \in Appenders, pc[a] \in Opened, Same(a), NEW m \in Names, dir'[m] = before[a].ino
      PROVE  dir[m] = before[a].ino
    BY <1>1, <1>5 DEF ReadInv
<1>6. ReadInv'
    BY <1>2, <1>3, <1>4, <1>5 DEF ReadInv
<1>7. ContentInv'
    BY <1>3 DEF ContentInv, Content
<1>8. SwapInv'
  <2>1. \A a \in Appenders : QuietHost /\ pc'[a] = "replace" => pc[a] = "replace" /\ path[a] # n
      BY <1>4 DEF Opened
  <2>2. \A a \in Appenders : path[a] \in Names /\ path'[a] = path[a]
      BY DEF TypeInv, TypeOK
  <2> QED
      BY <1>1, <1>2, <2>1, <2>2 DEF SwapInv
<1> QED
    BY <1>6, <1>7, <1>8

\* os.link takes a free name.
LEMMA LinkText == ASSUME TypeInv, FileInv, NEW c \in Creators, Link(c) PROVE FileInv'
<1>1. \A a \in Appenders : QuietHost /\ a # c /\ pc[a] = "replace" => path[a] # Destination(c)
    BY OpenedInode DEF Link, FileInv, SwapInv, Opened
<1>2. c \in Requests /\ Destination(c) \in Names /\ pc[c] \in Written
    BY DestinationType DEF Requests, TypeInv, Link, Written
<1> QED
    BY <1>1, <1>2, LandText DEF Link, append, tmp

\* The append that replaces has the only lock.
LEMMA ReplaceText ==
    ASSUME TypeInv, LockExclusive, LockInv, FileInv, NEW a \in Appenders, Replace(a) PROVE FileInv'
<1>1. \A b \in Appenders : QuietHost /\ pc[b] = "replace" => b = a
    BY DEF Replace, LockExclusive, LockInv, Holds, Locked
<1>2. /\ a \in Requests /\ path[a] \in Names /\ pc[a] \in Written
      /\ \A q \in Requests : q # a => temp'[q] = temp[q]
    BY DEF Requests, Replace, Written, TypeInv, TypeOK
<1> QED
    BY <1>1, <1>2, LandText DEF Replace, append, tmp

\* A request that raises, or goes on without a temp file or a target.
LEMMA MoveText ==
    ASSUME TypeInv, FileInv, UNCHANGED <<dir, file, temp, existing, before>>, NEW r \in Requests,
           \A a \in Appenders : a # r => path'[a] = path[a],
           \/ \E x \in Answers : Raise(r, x)
           \/ \E step \in Steps \ (Opened \union Written) :
                 Goto(r, step) /\ (step \in Unopened => pc[r] \in Unopened)
    PROVE  FileInv'
<1>1. /\ \A q \in Requests : q # r => pc'[q] = pc[q]
      /\ pc'[r] \notin Opened \union Written
      /\ pc'[r] \in Unopened => pc[r] \in Unopened
    BY RaiseType, GotoType DEF TypeInv, Unopened, Opened, Written
<1>2. \A a \in Appenders : pc'[a] = "replace" => pc[a] = "replace" /\ path'[a] = path[a]
    BY <1>1 DEF Requests, Opened
<1>3. \A a \in Appenders : pc'[a] = "replace" /\ QuietHost => dir'[path'[a]] = before[a].ino /\ Same(a)
    BY <1>2 DEF FileInv, SwapInv
<1> QED
    BY <1>1, <1>3, QuietText DEF Requests

\* An append opens its target with nothing read.
LEMMA OpenTargetText ==
    ASSUME TypeInv, Disk, FileInv, NEW a \in Appenders, OpenTarget(a) PROVE FileInv'
<1> USE DEF FileInv
<1> DEFINE i == dir[path[a]]
<1>0. a \in Requests /\ pc[a] = "open" /\ UNCHANGED <<dir, file, survive, temp, path, existing>>
    BY DEF Requests, OpenTarget, fs, tmp
<1>1. CASE UNCHANGED before /\ \E x \in Answers : Raise(a, x)
    BY <1>0, <1>1, MoveText
<1>2. CASE i # None /\ before' = [before EXCEPT ![a] = Identity(i)] /\ Goto(a, "read")
  <2>1. /\ pc'[a] = "read" /\ \A q \in Requests : q # a => pc'[q] = pc[q]
        /\ before'[a].ino = i /\ before'[a].mtime = file[i].mtime
        /\ \A b \in Appenders : b # a => before'[b] = before[b]
      BY <1>0, <1>2 DEF Goto, Identity, TypeInv, TypeOK
  <2>2. i \in Inodes /\ file[i].mtime \in Nat /\ file[i].data \in Seq(Texts)
      BY <1>2 DEF TypeInv, TypeOK, Entry, FileRecord
  <2>3. existing'[a] = <<>> /\ IsExtension(<<>>, file[i].data)
      BY <1>0, <2>2 DEF ReadInv, Unopened, IsExtension
  <2>4. \A r \in Requests : pc'[r] \in Written => r # a /\ pc[r] \in Written /\ temp'[r] = temp[r] /\ temp[r] # i
    <3>1. path[a] \in Names /\ i \in survive[path[a]]
        BY DEF TypeInv, TypeOK, Disk, PrivateInv
    <3>2. \A r \in Requests : pc[r] \in Written => temp[r] # i
        BY <3>1 DEF Written, Writing, Disk, PrivateInv
    <3>3. \A r \in Requests : pc'[r] \in Written => r # a /\ pc[r] \in Written
        BY <2>1 DEF Written
    <3> QED
        BY <1>0, <3>2, <3>3
  <2>5. \A b \in Appenders : b # a => pc'[b] = pc[b] /\ Same(b)' = Same(b)
      BY <1>0, <2>1 DEF Same, Requests
  <2>6. ReadInv'
    <3> SUFFICES ASSUME NEW b \in Appenders
                 PROVE  /\ pc'[b] \in Unopened => existing'[b] = <<>>
                        /\ pc'[b] \in Opened =>
                             /\ before'[b].mtime <= file'[before'[b].ino].mtime
                             /\ Same(b)' /\ pc'[b] = "read" => IsExtension(existing'[b], file'[before'[b].ino].data)
                             /\ Same(b)' /\ pc'[b] # "read" =>
                                  \A n \in Names : dir'[n] = before'[b].ino =>
                                      file'[before'[b].ino].data = existing'[b]
                             /\ \A r \in Requests : pc'[r] \in Written /\ temp'[r] = before'[b].ino => ~Same(b)'
        BY DEF ReadInv, IsExtension
    <3>1. CASE b = a
        BY <1>0, <2>1, <2>2, <2>3, <2>4, <3>1 DEF Unopened
    <3>2. CASE b # a
        BY <1>0, <2>1, <2>4, <2>5, <3>2 DEF ReadInv
    <3> QED
        BY <3>1, <3>2
  <2>7. ContentInv'
      BY <1>0, <2>4 DEF ContentInv, Content
  <2>8. SwapInv'
      BY <1>0, <2>1, <2>5 DEF SwapInv
  <2> QED
      BY <2>6, <2>7, <2>8
<1> QED
    BY <1>1, <1>2 DEF OpenTarget, Unfindable, KindAt, Goes, Answers

\* A chunk read extends what has been read.
LEMMA ReadChunkText == ASSUME TypeInv, FileInv, NEW a \in Appenders, ReadChunk(a) PROVE FileInv'
<1> USE DEF FileInv
<1> DEFINE data == file[before[a].ino].data
           text == data[Len(existing[a]) + 1]
<1>1. /\ a \in Requests /\ pc[a] = "read" /\ Len(existing[a]) < Len(data)
      /\ existing' = [existing EXCEPT ![a] = Append(existing[a], text)]
      /\ UNCHANGED <<dir, file, pc, temp, path, before>>
    BY DEF ReadChunk, Requests, fs, tmp
<1>2. before[a].ino \in Inodes /\ data \in Seq(Texts) /\ existing[a] \in Seq(Texts)
    BY <1>1 DEF TypeInv, TypeOK, InodesKnown, FileRecord
<1>3. /\ existing'[a] = Append(existing[a], text)
      /\ \A b \in Appenders : b # a => existing'[b] = existing[b]
    BY <1>1 DEF TypeInv, TypeOK
<1>4. \A b \in Appenders : Same(b)' = Same(b)
    BY <1>1 DEF Same
<1>5. IsExtension(existing[a], data) => IsExtension(existing'[a], data)
  <2> SUFFICES ASSUME IsExtension(existing[a], data) PROVE IsExtension(Append(existing[a], text), data)
      BY <1>3
  <2> DEFINE e == existing[a]
  <2>1. Len(e) \in Nat /\ Len(data) \in Nat /\ Len(Append(e, text)) = Len(e) + 1
      BY <1>2
  <2>2. \A k \in 1..Len(e) : Append(e, text)[k] = e[k]
      BY <1>2
  <2>3. Append(e, text)[Len(e) + 1] = text
      BY <1>2
  <2>4. \A k \in 1..(Len(e) + 1) : data[k] = Append(e, text)[k]
      BY <2>1, <2>2, <2>3 DEF IsExtension
  <2> QED
      BY <1>1, <2>1, <2>4 DEF IsExtension
<1>6. ReadInv'
  <2>1. \A b \in Appenders : b # a => existing'[b] = existing[b]
      BY <1>3
  <2>2. pc'[a] = "read" /\ pc'[a] \notin Unopened
      BY <1>1 DEF Unopened
  <2>3. IsExtension(existing[a], data)' <=> IsExtension(existing'[a], data)
      BY <1>1 DEF IsExtension
  <2> QED
      BY <1>1, <1>4, <1>5, <2>1, <2>2, <2>3 DEF ReadInv, Opened, IsExtension
<1>7. ContentInv'
  <2> SUFFICES ASSUME NEW q \in Requests, pc[q] \in Written PROVE file[temp[q]].data = Content(q)'
      BY <1>1 DEF ContentInv
  <2>1. q # a
      BY <1>1 DEF Written
  <2>2. Content(q)' = Content(q)
      BY <1>3, <2>1 DEF Content, Requests
  <2> QED
      BY <2>2 DEF ContentInv
<1>8. SwapInv'
    BY <1>1, <1>4 DEF SwapInv
<1> QED
    BY <1>6, <1>7, <1>8

\* At the end of the file an append has read all of it.
LEMMA ReadEndText == ASSUME TypeInv, Disk, FileInv, NEW a \in Appenders, ReadEnd(a) PROVE FileInv'
<1> USE DEF FileInv
<1> DEFINE data == file[before[a].ino].data
<1>0. /\ a \in Requests /\ pc[a] = "read" /\ Len(existing[a]) >= Len(data)
      /\ UNCHANGED <<dir, file, temp, path, existing, before>>
    BY DEF ReadEnd, Requests, fs, append, tmp
<1>1. CASE \E x \in Answers : Raise(a, x)
    BY <1>0, <1>1, MoveText
<1>2. CASE Goto(a, "temp")
  <2>1. pc'[a] = "temp" /\ \A q \in Requests : q # a => pc'[q] = pc[q]
      BY <1>0, <1>2 DEF Goto, TypeInv, TypeOK
  <2>2. before[a].ino \in Inodes /\ data \in Seq(Texts) /\ existing[a] \in Seq(Texts)
      BY <1>0 DEF TypeInv, TypeOK, InodesKnown, FileRecord
  <2>3. \A b \in Appenders : Same(b)' = Same(b)
      BY <1>0 DEF Same
  <2>4. Same(a) => data = existing[a]
    <3> SUFFICES ASSUME Same(a) PROVE data = existing[a]
        OBVIOUS
    <3>1. IsExtension(existing[a], data)
        BY <1>0 DEF ReadInv, Opened
    <3>2. Len(existing[a]) = Len(data) /\ \A k \in 1..Len(existing[a]) : data[k] = existing[a][k]
        BY <1>0, <2>2, <3>1 DEF IsExtension
    <3> QED
        BY <2>2, <3>2
  <2>5. \A r \in Requests : pc'[r] \in Written => pc[r] \in Written /\ temp[r] # before[a].ino
      BY <1>0, <2>1 DEF Written, Writing, Disk, PrivateInv
  <2>6. ASSUME NEW b \in Appenders, b # a PROVE pc'[b] = pc[b]
      BY <2>1, <2>6 DEF Requests
  <2>7. ReadInv'
    <3> SUFFICES ASSUME NEW b \in Appenders
                 PROVE  /\ pc'[b] \in Unopened => existing'[b] = <<>>
                        /\ pc'[b] \in Opened =>
                             /\ before'[b].mtime <= file'[before'[b].ino].mtime
                             /\ Same(b)' /\ pc'[b] = "read" => IsExtension(existing'[b], file'[before'[b].ino].data)
                             /\ Same(b)' /\ pc'[b] # "read" =>
                                  \A n \in Names : dir'[n] = before'[b].ino =>
                                      file'[before'[b].ino].data = existing'[b]
                             /\ \A r \in Requests : pc'[r] \in Written /\ temp'[r] = before'[b].ino => ~Same(b)'
        BY DEF ReadInv, IsExtension
    <3>1. CASE b = a
        BY <1>0, <2>1, <2>3, <2>4, <2>5, <3>1 DEF ReadInv, Unopened, Opened
    <3>2. CASE b # a
        BY <1>0, <2>3, <2>5, <2>6, <3>2 DEF ReadInv
    <3> QED
        BY <3>1, <3>2
  <2>8. ContentInv'
      BY <1>0, <2>5 DEF ContentInv, Content
  <2>9. SwapInv'
      BY <1>0, <2>1, <2>3, <2>6 DEF SwapInv
  <2> QED
      BY <2>7, <2>8, <2>9
<1> QED
    BY <1>1, <1>2 DEF ReadEnd, Goes, Answers

\* The identity that lstat finds is that of the file that was read.
LEMMA CheckIdentityText == ASSUME TypeInv, FileInv, NEW a \in Appenders, CheckIdentity(a) PROVE FileInv'
<1>0. /\ a \in Requests /\ pc[a] = "check" /\ UNCHANGED <<dir, file, temp, path, existing, before>>
    BY DEF CheckIdentity, Requests, fs, append, tmp
<1>1. CASE \E x \in Answers : Raise(a, x)
    BY <1>0, <1>1, MoveText
<1>2. CASE Goto(a, "replace") /\ Identity(dir[path[a]]) = before[a]
  <2>1. pc'[a] = "replace" /\ \A q \in Requests : q # a => pc'[q] = pc[q]
      BY <1>0, <1>2 DEF Goto, TypeInv, TypeOK
  <2>2. dir[path[a]] = before[a].ino /\ Same(a)
      BY <1>2 DEF Identity, Same
  <2>3. \A b \in Appenders : pc'[b] = "replace" /\ QuietHost => dir'[path'[b]] = before[b].ino /\ Same(b)
      BY <1>0, <2>1, <2>2 DEF FileInv, SwapInv, Requests
  <2>4. \A q \in Requests : pc'[q] \in Written => pc[q] \in Written /\ temp'[q] = temp[q]
      BY <1>0, <2>1 DEF Written
  <2>5. \A b \in Appenders : /\ pc'[b] \in Unopened => pc[b] \in Unopened
                             /\ pc'[b] \in Opened => pc[b] \in Opened /\ (pc'[b] = "read" <=> pc[b] = "read")
      BY <1>0, <2>1 DEF Unopened, Opened, Requests
  <2> QED
      BY <1>0, <2>3, <2>4, <2>5, QuietText
<1> QED
    BY <1>1, <1>2 DEF CheckIdentity, Goes, Answers

\* The host's edit of a note gives it a new time stamp, and is not of a note
\* about to be replaced.
LEMMA HostEditText ==
    ASSUME FineClock, TypeInv, Disk, NameInv, FileInv, NEW n \in Names, HostEdit(n) PROVE FileInv'
<1> DEFINE i == dir[n]
           d == file[i].data
<1>1. /\ i # None /\ UNCHANGED <<pc, temp, path, existing, before, dir>>
      /\ \A a \in Appenders : QuietHost => ~(pc[a] = "replace" /\ path[a] = n)
    BY DEF HostEdit, KindAt, HostUnchanged, MayAct, QuietHost, append, tmp
<1>2. i \in Inodes /\ i \in survive[n] \ {None}
    BY <1>1, InboxAssumption DEF TypeInv, TypeOK, Entry, Disk, PrivateInv
<1>3. PICK new \in {Append(d, "Host"),
                    [k \in 1..Len(d) |-> IF k = Len(d) THEN "Host" ELSE d[k]]},
           t \in NewMtimes(i) :
          file' = [file EXCEPT ![i] = [data |-> new, mtime |-> t,
                                       kind |-> "regular", synced |-> TRUE]]
    BY DEF HostEdit
<1> DEFINE f == [data |-> new, mtime |-> t, kind |-> "regular", synced |-> TRUE]
<1>4. file' = [file EXCEPT ![i] = f] /\ f.mtime = file[i].mtime + 1
    BY <1>3 DEF NewMtimes
<1>5. TempsTouched(i, f)
    BY <1>1, <1>2 DEF TempsTouched, Disk, PrivateInv, Written, Writing
<1>6. TargetsUntouched(i)
  <2>1. ASSUME QuietHost, NEW a \in Appenders, pc[a] = "replace" PROVE dir[path[a]] # i
    <3>1. path[a] \in Names /\ path[a] # n /\ dir[path[a]] \in survive[path[a]]
        BY <1>1, <2>1 DEF Disk, PrivateInv, TypeInv, TypeOK
    <3> QED
        BY <1>2, <3>1 DEF NameInv
  <2> QED
      BY <1>1, <2>1 DEF TargetsUntouched
<1>7. UNCHANGED <<existing, before>> /\ \A m \in Names : dir'[m] \in {dir[m], i}
    BY <1>1
<1> HIDE DEF i, d, f
<1> QED
    BY <1>2, <1>4, <1>5, <1>6, <1>7, TouchText

\* So has a note put by the host.
LEMMA HostPutText ==
    ASSUME FineClock, TypeInv, Disk, FileInv, NEW n \in Names, HostPut(n) PROVE FileInv'
<1>0. PICK i \in FreeInodes, k \in HostKinds : \E t \in NewMtimes(i) :
          /\ file' = [file EXCEPT ![i] = [data |-> <<"Host">>, mtime |-> t,
                                          kind |-> k, synced |-> TRUE]]
          /\ SetEntry(n, i)
    BY DEF HostPut
<1>1. PICK t \in NewMtimes(i) :
          /\ file' = [file EXCEPT ![i] = [data |-> <<"Host">>, mtime |-> t,
                                          kind |-> k, synced |-> TRUE]]
          /\ SetEntry(n, i)
    BY <1>0
<1> DEFINE f == [data |-> <<"Host">>, mtime |-> t, kind |-> k, synced |-> TRUE]
<1>2. file' = [file EXCEPT ![i] = f] /\ f.mtime = file[i].mtime + 1
    BY <1>1 DEF NewMtimes
<1>3. i \in Inodes /\ (\A r \in Requests : temp[r] # i) /\ \A m \in Names : dir[m] # i
    BY DEF FreeInodes
<1>4. /\ \A m \in Names : dir'[m] \in {dir[m], i} /\ (m # n => dir'[m] = dir[m])
      /\ UNCHANGED <<pc, temp, path, existing, before>>
      /\ \A a \in Appenders : QuietHost => ~(pc[a] = "replace" /\ path[a] = n)
    BY <1>1 DEF SetEntry, TypeInv, TypeOK, HostPut, HostUnchanged, MayAct, QuietHost, append, tmp
<1>5. TempsTouched(i, f)
    BY <1>3, <1>4 DEF TempsTouched
<1>6. TargetsUntouched(i)
    BY <1>3, <1>4 DEF TargetsUntouched, TypeInv, TypeOK
<1>7. UNCHANGED <<existing, before>> /\ \A m \in Names : dir'[m] \in {dir[m], i}
    BY <1>4
<1> HIDE DEF f
<1> QED
    BY <1>2, <1>3, <1>5, <1>6, <1>7, TouchText

\* After a crash nobody is on the way to a replace.
LEMMA CrashText == ASSUME TypeInv, FileInv, Crash PROVE FileInv'
<1>1. /\ \A r \in Requests : /\ pc'[r] \notin Opened \union Written
                             /\ pc'[r] \in Unopened => pc[r] \in Unopened
      /\ UNCHANGED <<existing, before>>
    BY DEF Crash, InFlight, TypeInv, TypeOK, Unopened, Opened, Written, append, tmp
<1>2. ReadInv'
    BY <1>1 DEF FileInv, ReadInv, Requests
<1>3. ContentInv'
    BY <1>1 DEF ContentInv
<1>4. SwapInv'
    BY <1>1 DEF SwapInv, Requests, Opened
<1> QED
    BY <1>2, <1>3, <1>4 DEF FileInv

\* Every step keeps what was read, and what is to be written, in order.
LEMMA FileStep ==
    ASSUME FineClock
    PROVE  TypeInv /\ Disk /\ LockExclusive /\ NameInv /\ LockInv /\ FileInv /\ [Next]_vars => FileInv'
<1> SUFFICES ASSUME TypeInv, Disk, LockExclusive, NameInv, LockInv, FileInv, [Next]_vars PROVE FileInv'
    OBVIOUS
<1>0. TypeOK /\ Creators \subseteq Requests /\ Appenders \subseteq Requests
    BY DEF TypeInv, Requests
<1> USE <1>0 DEF fs, lock, create, tmp, append, used, Goes
<1>1. ASSUME UNCHANGED <<dir, file, existing, before>>,
             NEW r \in Requests, pc'[r] \notin Opened \union Unopened \union Written, UNCHANGED path,
             \A q \in Requests : q # r => pc'[q] = pc[q] /\ temp'[q] = temp[q]
      PROVE  FileInv'
  <2>1. \A a \in Appenders : pc'[a] \in Unopened \union Opened => pc'[a] = pc[a]
      BY <1>1
  <2> QED
      BY <1>1, <2>1, QuietText DEF Opened, FileInv, SwapInv
<1>2. ASSUME UNCHANGED <<dir, file, path, existing, before, pc, temp>> PROVE FileInv'
    BY <1>2, QuietText DEF FileInv, SwapInv
<1>3. ASSUME NEW r \in Requests, Refuse(r) PROVE FileInv'
    BY <1>3, MoveText DEF Refuse, Answers
<1>4. ASSUME NEW r \in Requests, SyncDirectory(r) \/ UnlinkTemp(r) PROVE FileInv'
  <2>1. /\ UNCHANGED <<dir, file, path, existing, before>> /\ pc'[r] \in {"stat", "unlink", "done", "unlock"}
        /\ \A q \in Requests : q # r => pc'[q] = pc[q] /\ temp'[q] = temp[q]
      BY <1>4 DEF SyncDirectory, UnlinkTemp, AfterUnlink, Goto, TypeOK
  <2> QED
      BY <1>1, <2>1 DEF Opened, Unopened, Written
<1>5. ASSUME NEW r \in Requests, Stat(r) PROVE FileInv'
    BY <1>5, MoveText DEF Stat, Answers, Steps, Locked, Opened, Unopened, Written
<1>6. ASSUME NEW r \in Requests, SystemCallFails(r) PROVE FileInv'
  <2>1. \E x \in Answers : Raise(r, x)
      BY <1>6 DEF SystemCallFails, FaultAnswers, Answers
  <2> QED
      BY <1>6, <2>1, MoveText DEF SystemCallFails
<1>14. ASSUME NEW r \in Requests, FchmodFails(r) \/ UnlinkFails(r) PROVE FileInv'
  <2>1. /\ UNCHANGED <<dir, file, path, existing, before, temp>> /\ pc'[r] \in {"unlink", "unlock", "done"}
        /\ \A q \in Requests : q # r => pc'[q] = pc[q]
      BY <1>14, CleanUpMoves
  <2> QED
      BY <1>1, <2>1 DEF Opened, Unopened, Written
<1>7. ASSUME NEW c \in Creators, StartCreate(c) PROVE FileInv'
  <2>1. /\ UNCHANGED <<dir, file, path, existing, before, temp>> /\ pc'[c] = "temp"
        /\ \A q \in Requests : q # c => pc'[q] = pc[q]
        /\ \A a \in Appenders : pc'[a] = pc[a]
      BY <1>7, InboxAssumption DEF StartCreate, Goto, TypeOK
  <2> QED
      BY <2>1, QuietText DEF Written, FileInv, SwapInv
<1>8. ASSUME NEW c \in Creators, LinkExists(c) PROVE FileInv'
  <2>1. CASE UNCHANGED pc
      BY <1>2, <1>8, <2>1 DEF LinkExists
  <2>2. CASE Raise(c, "NOTE_ALREADY_EXISTS")
      BY <1>8, <2>2, MoveText DEF LinkExists, Answers
  <2> QED
      BY <1>8, <2>1, <2>2 DEF LinkExists
<1>9. ASSUME NEW a \in Appenders, IsSymlink(a) \/ ResolveStrict(a) \/ IsRegular(a) \/ OpenLock(a)
      PROVE  FileInv'
  <2>1. \/ \E x \in Answers : Raise(a, x)
        \/ pc[a] \in Unopened /\ \E step \in {"resolve", "isreg", "lock", "poll"} : Goto(a, step)
      BY <1>9 DEF IsSymlink, ResolveStrict, IsRegular, OpenLock, Unopened, Answers
  <2>2. UNCHANGED <<dir, file, temp, existing, before>>
      BY <1>9 DEF IsSymlink, ResolveStrict, IsRegular, OpenLock
  <2>3. \A b \in Appenders : b # a => path'[b] = path[b]
      BY <1>9 DEF IsSymlink, ResolveStrict, IsRegular, OpenLock, TypeOK
  <2> QED
      BY <2>1, <2>2, <2>3, MoveText DEF Steps, Opened, Unopened, Written
<1>10. ASSUME NEW a \in Appenders, AcquireLock(a) \/ Unlock(a) PROVE FileInv'
  <2>1. UNCHANGED <<dir, file, temp, path, existing, before>>
      BY <1>10 DEF AcquireLock, Unlock
  <2>2. \E step \in {"open", "stat", "done"} :
            Goto(a, step) /\ (step \in Unopened => pc[a] \in Unopened)
      BY <1>10 DEF AcquireLock, Unlock, Unopened
  <2> QED
      BY <2>1, <2>2, MoveText DEF Steps, Locked, Opened, Unopened, Written
<1>11. ASSUME NEW a \in Appenders, PollLock(a) PROVE FileInv'
  <2>1. CASE UNCHANGED pc
      BY <1>2, <1>11, <2>1 DEF PollLock
  <2>2. CASE Raise(a, "INBOX_LOCK_TIMEOUT")
      BY <1>11, <2>2, MoveText DEF PollLock, Answers
  <2> QED
      BY <1>11, <2>1, <2>2 DEF PollLock
<1>12. ASSUME NEW n \in Names, HostDelete(n) PROVE FileInv'
  <2>1. /\ UNCHANGED <<file, path, existing, before, pc, temp>>
        /\ \A m \in Names : dir'[m] \in {dir[m], None} /\ (m # n => dir'[m] = dir[m])
        /\ \A a \in Appenders : QuietHost => ~(pc[a] = "replace" /\ path[a] = n)
      BY <1>12 DEF HostDelete, HostUnchanged, MayAct, QuietHost, SetEntry, TypeOK
  <2>2. \A a \in Appenders : pc[a] = "replace" /\ QuietHost => dir'[path'[a]] = before[a].ino /\ Same(a)
      BY <2>1 DEF FileInv, SwapInv, TypeOK
  <2> QED
      BY <2>1, <2>2, QuietText
<1>13. ASSUME HostSwapsLock \/ Idle \/ UNCHANGED vars PROVE FileInv'
    BY <1>2, <1>13 DEF HostSwapsLock, Idle, vars
<1> QED
    BY <1>3, <1>4, <1>5, <1>6, <1>7, <1>8, <1>9, <1>10, <1>11, <1>12, <1>13, <1>14,
       OpenTempText, WriteTempText, LinkText, ReplaceText, OpenTargetText, ReadChunkText, ReadEndText,
       CheckIdentityText, HostEditText, HostPutText, CrashText
    DEF Next, Arrive, Step, Failure, SharedStep, CreateStep, AppendStep, HostStep, ProcessCrash, PowerLoss

-----------------------------------------------------------------------------
(* The notes.                                                              *)

TextInv == NameInv /\ LockInv /\ DoubtInv /\ FileInv

\* At first nothing has been read.
LEMMA TextInit == Init => LockExclusive /\ TextInv
<1> SUFFICES ASSUME Init PROVE LockExclusive /\ TextInv
    OBVIOUS
<1>1. /\ \A r \in Requests : pc[r] = "start"
      /\ \A a \in Appenders : pc[a] = "start" /\ existing[a] = <<>>
    BY DEF Init, Requests
<1>2. NameInv
    BY DEF Init, NameInv
<1>3. LockExclusive /\ LockInv
    BY <1>1 DEF Init, LockExclusive, LockInv, Holds, Locked
<1>4. DoubtInv
    BY <1>1 DEF Init, DoubtInv, Requests
<1>5. FileInv
    BY <1>1 DEF FileInv, ReadInv, ContentInv, SwapInv, Opened, Written
<1> QED
    BY <1>2, <1>3, <1>4, <1>5 DEF TextInv

\* With a fine clock what was read is what is there, or the time stamp tells.
LEMMA TextAlways ==
    ASSUME FineClock
    PROVE  Spec => [](TypeInv /\ AnswerInv /\ Disk /\ LockExclusive /\ TextInv)
<1>1. TypeInv /\ AnswerInv /\ Disk /\ LockExclusive /\ TextInv /\ [Next]_vars => LockExclusive' /\ TextInv'
    BY LockStep, NameStep, OneLockStep, DoubtStep, FileStep DEF TextInv, TypeInv
<1> QED
    BY TypeInit, TypeStep, AnswerStep, DiskInit, DiskStep, TextInit, <1>1, PTL DEF Spec

-----------------------------------------------------------------------------
(* One request moves at a time.                                            *)

Acts(r) == Arrive(r) \/ Step(r) \/ Failure(r)
Moves(r) ==
    /\ pc[r] \notin {"done", "dead"}
    /\ \A q \in Requests : q # r => pc'[q] = pc[q] /\ outcome'[q] = outcome[q]

\* A step of a request that is not answered yet moves no other.
LEMMA ActsMoves == ASSUME TypeOK, NEW r \in Requests, Acts(r) PROVE Moves(r)
<1> USE DEF fs, lock, create, tmp, append, used, Goes
<1>0. Creators \subseteq Requests /\ Appenders \subseteq Requests
    BY DEF Requests
<1>1. ASSUME NEW step, Goto(r, step), UNCHANGED outcome, pc[r] \notin {"done", "dead"} PROVE Moves(r)
    BY <1>1 DEF Goto, Moves, TypeOK
<1>2. ASSUME NEW x, Raise(r, x), pc[r] \notin {"done", "dead"} PROVE Moves(r)
    BY <1>2 DEF Raise, Goto, Moves, TypeOK
<1>3. ASSUME UNCHANGED <<pc, outcome>>, pc[r] \notin {"done", "dead"} PROVE Moves(r)
    BY <1>3 DEF Moves
<1>4. CASE Refuse(r)
    BY <1>2, <1>4 DEF Refuse
<1>5. CASE OpenTemp(r) \/ WriteTemp(r) \/ SyncDirectory(r) \/ UnlinkTemp(r)
    BY <1>1, <1>5 DEF OpenTemp, WriteTemp, SyncDirectory, UnlinkTemp
<1>6. CASE Stat(r)
  <2>1. CASE Raise(r, "INTERNAL_ERROR")
      BY <1>2, <1>6, <2>1 DEF Stat
  <2>2. CASE /\ outcome' = [outcome EXCEPT ![r] = "ok"]
             /\ Goto(r, IF r \in Creators THEN "unlink" ELSE "done")
      BY <1>6, <2>2 DEF Stat, Goto, Moves, TypeOK
  <2> QED
      BY <1>6, <2>1, <2>2 DEF Stat
<1>7. CASE SystemCallFails(r)
  <2>1. pc[r] \notin {"done", "dead"} /\ \E x \in FaultAnswers(pc[r]) : Raise(r, x)
      BY <1>7 DEF SystemCallFails, InFlight
  <2> QED
      BY <1>2, <2>1
<1>8. CASE FchmodFails(r) \/ UnlinkFails(r)
    BY <1>8, CleanUpMoves DEF Moves
<1>9. CASE r \in Creators /\ (StartCreate(r) \/ Link(r))
    BY <1>1, <1>9 DEF StartCreate, Link
<1>10. CASE r \in Creators /\ LinkExists(r)
    BY <1>2, <1>3, <1>10 DEF LinkExists
<1>11. CASE r \in Appenders /\ Lookup(r)
  <2>1. pc[r] \notin {"done", "dead"}
      BY <1>11, LookupMoves DEF Early
  <2> QED
      BY <1>1, <1>2, <1>11, <2>1, LookupMoves
<1>12. CASE r \in Appenders /\ (AcquireLock(r) \/ Replace(r) \/ Unlock(r))
    BY <1>1, <1>12 DEF AcquireLock, Replace, Unlock
<1>13. CASE r \in Appenders /\ (PollLock(r) \/ ReadChunk(r))
    BY <1>2, <1>3, <1>13 DEF PollLock, ReadChunk
<1> QED
    BY <1>4, <1>5, <1>6, <1>7, <1>8, <1>9, <1>10, <1>11, <1>12, <1>13
    DEF Acts, Arrive, Step, Failure, SharedStep, CreateStep, AppendStep, Lookup

\* Any other step moves none, or kills what is in flight.
LEMMA OneMoves ==
    ASSUME TypeOK, [Next]_vars
    PROVE  UNCHANGED <<pc, outcome>> \/ Crash \/ \E r \in Requests : Acts(r) /\ Moves(r)
<1>1. HostStep \/ Idle \/ UNCHANGED vars => UNCHANGED <<pc, outcome>>
    BY DEF HostStep, HostEdit, HostPut, HostDelete, HostUnchanged, HostSwapsLock, Idle, vars
<1>2. ProcessCrash \/ PowerLoss => Crash
    BY DEF ProcessCrash, PowerLoss
<1>3. \A r \in Requests : Arrive(r) \/ Step(r) \/ Failure(r) => Acts(r)
    BY DEF Acts
<1> QED
    BY <1>1, <1>2, <1>3, ActsMoves DEF Next

-----------------------------------------------------------------------------
(* The identity check.                                                     *)

\* Only the comparison takes an append from the check to os.replace.
LEMMA CheckMoves ==
    ASSUME TypeOK, [Next]_vars, NEW a \in Appenders, pc[a] = "check", pc'[a] = "replace"
    PROVE  CheckIdentity(a) /\ Goto(a, "replace")
<1>0. a \in Requests /\ a \notin Creators
    BY InboxAssumption DEF Requests
<1>1. ~Crash
    BY <1>0 DEF Crash, InFlight
<1>2. Acts(a)
    BY <1>0, <1>1, OneMoves DEF Moves
<1>3. ~Arrive(a)
    BY <1>0 DEF Arrive, Refuse, IsSymlink
<1>4. ~Failure(a)
  <2>1. ~FchmodFails(a) /\ ~UnlinkFails(a)
      BY DEF FchmodFails, UnlinkFails
  <2>2. ASSUME SystemCallFails(a) PROVE FALSE
    <3>1. PICK x \in Answers : Raise(a, x)
        BY <2>2 DEF SystemCallFails, FaultAnswers, Answers
    <3> QED
        BY <1>0, <3>1, RaiseType
  <2> QED
      BY <2>1, <2>2 DEF Failure
<1>5. ~SharedStep(a)
    BY DEF SharedStep, OpenTemp, WriteTemp, SyncDirectory, Stat, UnlinkTemp
<1>6. CheckIdentity(a)
    BY <1>0, <1>2, <1>3, <1>4, <1>5
    DEF Acts, Step, AppendStep, ResolveStrict, IsRegular, OpenLock, AcquireLock, PollLock, OpenTarget,
        ReadChunk, ReadEnd, Replace, Unlock
<1>7. \A x \in Answers : ~Raise(a, x)
    BY <1>0, RaiseType
<1> QED
    BY <1>6, <1>7 DEF CheckIdentity, Goes, Answers

\* With a fine clock, a comparison that succeeds has in hand what the note
\* holds, whatever the host and appends with another lock file have done.
THEOREM CheckMeansReread == ASSUME FineClock PROVE Spec => CheckedIsWhatWasRead
<1> DEFINE Checked == \A a \in Appenders : pc[a] = "check" /\ pc'[a] = "replace" =>
                          path[a] \in InUse /\ Note(path[a]) = existing[a]
<1>1. TypeInv /\ AnswerInv /\ Disk /\ LockExclusive /\ TextInv /\ [Next]_vars => Checked
  <2> SUFFICES ASSUME TypeInv, TextInv, [Next]_vars,
                      NEW a \in Appenders, pc[a] = "check", pc'[a] = "replace"
               PROVE  path[a] \in InUse /\ Note(path[a]) = existing[a]
      OBVIOUS
  <2>1. CheckIdentity(a) /\ Goto(a, "replace")
      BY CheckMoves DEF TypeInv
  <2>2. \A x \in Answers : ~Raise(a, x)
      BY RaiseType DEF TypeInv, Requests
  <2>3. dir[path[a]] # None /\ Identity(dir[path[a]]) = before[a]
      BY <2>1, <2>2 DEF CheckIdentity, Answers
  <2>4. path[a] \in Names /\ dir[path[a]] = before[a].ino /\ Same(a)
      BY <2>3 DEF Identity, Same, TypeInv, TypeOK
  <2>5. file[before[a].ino].data = existing[a]
      BY <2>4 DEF TextInv, FileInv, ReadInv, Opened
  <2> QED
      BY <2>3, <2>4, <2>5 DEF InUse, Note
<1> QED
    BY <1>1, TextAlways, PTL DEF Spec, CheckedIsWhatWasRead

-----------------------------------------------------------------------------
(* The notes.                                                              *)

\* os.link adds a note and changes none.
LEMMA LinkNotes ==
    ASSUME TypeInv, FileInv, NEW c \in Creators, Link(c)
    PROVE  \E n \in Names \ InUse :
              /\ InUse' = InUse \union {n}
              /\ Note(n)' = <<c>>
              /\ \A m \in InUse : Note(m)' = Note(m)
              /\ pc[c] = "link" /\ landed' = [landed EXCEPT ![c] = n]
<1> DEFINE n == Destination(c)
<1>1. /\ n \in Names /\ dir[n] = None /\ c \in Requests /\ pc[c] \in Written
      /\ file[temp[c]].data = <<c>> /\ temp[c] # None
    BY DestinationType, InboxAssumption
    DEF Link, FileInv, ContentInv, Content, Written, Requests, TypeInv, InodesKnown
<1>2. dir'[n] = temp[c] /\ file' = file /\ \A m \in Names : m # n => dir'[m] = dir[m]
    BY <1>1 DEF Link, SetEntry, TypeInv, TypeOK
<1>3. InUse' = InUse \union {n}
    BY <1>1, <1>2 DEF InUse
<1>4. file'[dir'[n]].data = <<c>>
    BY <1>1, <1>2
<1>5. \A m \in InUse : file'[dir'[m]].data = file[dir[m]].data
    BY <1>1, <1>2 DEF InUse
<1>6. n \in Names \ InUse
    BY <1>1 DEF InUse
<1>7. pc[c] = "link" /\ landed' = [landed EXCEPT ![c] = n]
    BY DEF Link
<1> HIDE DEF n
<1> QED
    BY <1>3, <1>4, <1>5, <1>6, <1>7 DEF Note

\* os.replace puts the note that is there, and one text more.
LEMMA ReplaceNotes ==
    ASSUME QuietHost, TypeInv, FileInv, NEW a \in Appenders, Replace(a)
    PROVE  /\ path[a] \in InUse
           /\ InUse' = InUse
           /\ Note(path[a])' = Append(Note(path[a]), a)
           /\ \A n \in InUse \ {path[a]} : Note(n)' = Note(n)
           /\ Note(path[a]) \in Seq(Texts)
           /\ pc[a] = "replace" /\ landed' = [landed EXCEPT ![a] = path[a]]
           /\ UNCHANGED path
<1> DEFINE n == path[a]
<1>1. /\ n \in Names /\ pc[a] = "replace" /\ a \in Requests /\ a \notin Creators
      /\ before[a].ino \in Inodes /\ before[a].ino # None
      /\ dir[n] = before[a].ino /\ Same(a)
      /\ temp[a] # None
    BY OpenedInode, InboxAssumption
    DEF Replace, FileInv, SwapInv, Requests, Opened, TypeInv, TypeOK, InodesKnown
<1>2. file[dir[n]].data = existing[a] /\ existing[a] \in Seq(Texts)
    BY <1>1 DEF FileInv, ReadInv, Opened, TypeInv, TypeOK
<1>3. file[temp[a]].data = Append(existing[a], a)
    BY <1>1 DEF FileInv, ContentInv, Content, Written
<1>4. /\ dir'[n] = temp[a] /\ file' = file /\ path' = path
      /\ \A m \in Names : m # n => dir'[m] = dir[m]
    BY <1>1 DEF Replace, SetEntry, TypeInv, TypeOK, append
<1>5. InUse' = InUse /\ n \in InUse
    BY <1>1, <1>4 DEF InUse
<1>6. file'[dir'[n]].data = Append(file[dir[n]].data, a)
    BY <1>2, <1>3, <1>4
<1>7. \A m \in InUse \ {n} : file'[dir'[m]].data = file[dir[m]].data
    BY <1>4 DEF InUse
<1>8. pc[a] = "replace" /\ landed' = [landed EXCEPT ![a] = n]
    BY DEF Replace
<1>9. Note(n)' = Append(Note(n), a) /\ Note(n) \in Seq(Texts)
    BY <1>2, <1>4, <1>6 DEF Note
<1>10. \A m \in InUse \ {n} : Note(m)' = Note(m)
    BY <1>7 DEF Note
<1> QED
    BY <1>4, <1>5, <1>8, <1>9, <1>10

\* The notes stay as they are.
NotesKept == InUse' = InUse /\ \A n \in InUse : Note(n)' = Note(n)

\* What the caller of a request has been told, and whether a step tells any.
Answer(r) == IF pc[r] = "done" THEN outcome[r] ELSE "none"
SameAnswers == \A q \in Requests : Answer(q)' = Answer(q)

\* Request r gets its answer, and a true one.
Answered(r, x) ==
    /\ Answer(r) = "none" /\ \A q \in Requests : Answer(q)' = IF q = r THEN x ELSE Answer(q)
    /\ x = "ok" => landed[r] # None
    /\ x \in Refusals => landed[r] = None

\* A step that lands nothing answers at most one request, and truly.
LEMMA AnswersMove ==
    ASSUME TypeInv, TypeInv', AnswerInv', DoubtInv', [Next]_vars, UNCHANGED landed
    PROVE  SameAnswers \/ \E r \in Requests, x \in Answers : Answered(r, x)
<1>1. CASE UNCHANGED <<pc, outcome>>
    BY <1>1 DEF SameAnswers, Answer
<1>2. CASE Crash
    BY <1>2 DEF Crash, InFlight, SameAnswers, Answer, TypeInv, TypeOK
<1>3. ASSUME NEW r \in Requests, Moves(r)
      PROVE  SameAnswers \/ \E x \in Answers : Answered(r, x)
  <2>1. Answer(r) = "none" /\ \A q \in Requests : q # r => Answer(q)' = Answer(q)
      BY <1>3 DEF Moves, Answer
  <2>2. CASE pc'[r] # "done" \/ outcome'[r] = "none"
    <3>1. Answer(r)' = "none"
        BY <2>2 DEF Answer
    <3> QED
        BY <2>1, <3>1 DEF SameAnswers
  <2>3. CASE pc'[r] = "done" /\ outcome'[r] # "none"
    <3>1. outcome'[r] \in Answers /\ Answer(r)' = outcome'[r]
        BY <2>3 DEF TypeInv, TypeOK, Answer
    <3>2. outcome'[r] = "ok" => landed[r] # None
        BY DEF DoubtInv
    <3>3. outcome'[r] \in Refusals => landed[r] = None
        BY DEF AnswerInv
    <3>4. Answered(r, outcome'[r])
        BY <2>1, <3>1, <3>2, <3>3 DEF Answered
    <3> QED
        BY <3>1, <3>4
  <2> QED
      BY <2>2, <2>3
<1> QED
    BY <1>1, <1>2, <1>3, OneMoves DEF TypeInv

\* A step but os.link and os.replace lands nothing, and is the host's, a crash,
\* or one that keeps the notes.
LEMMA OtherSteps ==
    ASSUME TypeInv, Disk, [Next]_vars,
           \A c \in Creators : ~Link(c), \A a \in Appenders : ~Replace(a)
    PROVE  /\ UNCHANGED landed
           /\ \/ (hostOps' # hostOps \/ crashes' # crashes) /\ SameAnswers
              \/ NotesKept
<1> DEFINE Goal == /\ UNCHANGED landed
                   /\ \/ (hostOps' # hostOps \/ crashes' # crashes) /\ SameAnswers
                      \/ NotesKept
<1>0. TypeOK /\ Creators \subseteq Requests /\ Appenders \subseteq Requests
    BY DEF TypeInv, Requests
<1> USE <1>0 DEF fs, lock, create, tmp, append, used, Goes
<1>1. ASSUME UNCHANGED <<dir, file, landed>> PROVE Goal
    BY <1>1 DEF NotesKept, InUse, Note
<1>2. ASSUME NEW i \in Inodes, NEW f, file' = [file EXCEPT ![i] = f],
             \A n \in Names : dir[n] # i, UNCHANGED <<dir, landed>>
      PROVE  Goal
  <2>1. \A n \in InUse : dir[n] \in Inodes /\ file'[dir[n]] = file[dir[n]]
      BY <1>2 DEF InUse, TypeOK, Entry
  <2>2. NotesKept
      BY <1>2, <2>1 DEF NotesKept, InUse, Note
  <2> QED
      BY <1>2, <2>2
<1>3. ASSUME NEW r \in Requests, OpenTemp(r) PROVE Goal
    BY <1>2, <1>3 DEF OpenTemp, FreeInodes
<1>4. ASSUME NEW r \in Requests, WriteTemp(r) PROVE Goal
  <2>1. temp[r] \in Inodes /\ \A n \in Names : dir[n] # temp[r]
      BY <1>4 DEF WriteTemp, TypeInv, InodesKnown, Disk, PrivateInv, Writing
  <2> QED
      BY <1>2, <1>4, <2>1 DEF WriteTemp
<1>5. ASSUME NEW r \in Requests,
             Refuse(r) \/ SyncDirectory(r) \/ Stat(r) \/ UnlinkTemp(r) \/ SystemCallFails(r)
      PROVE  Goal
    BY <1>1, <1>5 DEF Refuse, SyncDirectory, Stat, UnlinkTemp, SystemCallFails
<1>6. ASSUME NEW r \in Requests, FchmodFails(r) \/ UnlinkFails(r) PROVE Goal
    BY <1>1, <1>6, CleanUpMoves
<1>7. ASSUME NEW c \in Creators, StartCreate(c) \/ LinkExists(c) PROVE Goal
    BY <1>1, <1>7 DEF StartCreate, LinkExists
<1>8. ASSUME NEW a \in Appenders, Lookup(a) PROVE Goal
    BY <1>1, <1>8, LookupMoves
<1>9. ASSUME NEW a \in Appenders, AcquireLock(a) \/ PollLock(a) \/ ReadChunk(a) \/ Unlock(a) PROVE Goal
    BY <1>1, <1>9 DEF AcquireLock, PollLock, ReadChunk, Unlock
<1>10. ASSUME Crash PROVE Goal
    BY <1>10 DEF Crash, InFlight, SameAnswers, Answer, TypeOK
<1>11. ASSUME NEW n \in Names, HostEdit(n) \/ HostPut(n) \/ HostDelete(n) PROVE Goal
    BY <1>11 DEF HostEdit, HostPut, HostDelete, HostUnchanged, MayAct, SameAnswers, Answer, TypeOK
<1>12. ASSUME HostSwapsLock \/ Idle \/ UNCHANGED vars PROVE Goal
    BY <1>1, <1>12 DEF HostSwapsLock, Idle, vars
<1> QED
    BY <1>3, <1>4, <1>5, <1>6, <1>7, <1>8, <1>9, <1>10, <1>11, <1>12
    DEF Next, Arrive, Step, Failure, SharedStep, CreateStep, AppendStep, Lookup, HostStep,
        ProcessCrash, PowerLoss

\* No step of the gateway loses a text or a note: with a calm host, appends
\* and creates of any number, and any failures, only add to what is there.
THEOREM TextsAreNotLost == ASSUME CalmHost PROVE Spec => NoTextLost
<1> DEFINE Keeps ==
        hostOps' = hostOps /\ crashes' = crashes =>
            \A n \in InUse : dir'[n] # None /\ IsExtension(Note(n), Note(n)')
<1>0. FineClock /\ QuietHost
    BY DEF CalmHost
<1>1. TypeInv /\ AnswerInv /\ Disk /\ LockExclusive /\ TextInv /\ [Next]_vars => Keeps
  <2> SUFFICES ASSUME TypeInv, AnswerInv, Disk, TextInv, [Next]_vars,
                      hostOps' = hostOps, crashes' = crashes,
                      NEW n \in InUse
               PROVE  n \in InUse' /\ IsExtension(Note(n), Note(n)')
      BY DEF InUse
  <2>0. Note(n) \in Seq(Texts)
      BY InboxAssumption DEF Note, InUse, TypeInv, TypeOK, Entry, FileRecord
  <2>1. n \in InUse' /\ Note(n)' = Note(n) => IsExtension(Note(n), Note(n)')
      BY <2>0 DEF IsExtension
  <2>2. CASE \E c \in Creators : Link(c)
      BY <2>1, <2>2, LinkNotes DEF TextInv
  <2>3. ASSUME NEW a \in Appenders, Replace(a) PROVE n \in InUse' /\ IsExtension(Note(n), Note(n)')
    <3>1. CASE n = path[a]
      <4>1. n \in InUse' /\ Note(path[a])' = Append(Note(path[a]), a) /\ UNCHANGED path
          BY <1>0, <2>3, <3>1, ReplaceNotes DEF TextInv
      <4>2. Note(n)' = Append(Note(n), a)
          BY <3>1, <4>1 DEF Note
      <4>3. IsExtension(Note(n), Append(Note(n), a))
          BY <2>0 DEF IsExtension
      <4> QED
          BY <4>1, <4>2, <4>3
    <3>2. CASE n # path[a]
        BY <1>0, <2>1, <2>3, <3>2, ReplaceNotes DEF TextInv
    <3> QED
        BY <3>1, <3>2
  <2>4. CASE (\A c \in Creators : ~Link(c)) /\ (\A a \in Appenders : ~Replace(a))
      BY <2>1, <2>4, OtherSteps DEF NotesKept
  <2> QED
      BY <2>2, <2>3, <2>4
<1> QED
    BY <1>0, <1>1, TextAlways, PTL DEF Spec, NoTextLost

\* Only os.link gives the inbox a new name: no append brings back a note that
\* is gone.
THEOREM NamesComeByLink == ASSUME CalmHost PROVE Spec => OnlyLinkCreatesNames
<1> DEFINE ByLink ==
        hostOps' = hostOps /\ crashes' = crashes =>
            \A n \in InUse' \ InUse : \E c \in Creators : pc[c] = "link" /\ landed'[c] = n
<1>0. FineClock /\ QuietHost
    BY DEF CalmHost
<1>1. TypeInv /\ AnswerInv /\ Disk /\ LockExclusive /\ TextInv /\ [Next]_vars => ByLink
  <2> SUFFICES ASSUME TypeInv, AnswerInv, Disk, TextInv, [Next]_vars,
                      hostOps' = hostOps, crashes' = crashes,
                      NEW n \in InUse' \ InUse
               PROVE  \E c \in Creators : pc[c] = "link" /\ landed'[c] = n
      OBVIOUS
  <2>1. ASSUME NEW c \in Creators, Link(c) PROVE pc[c] = "link" /\ landed'[c] = n
    <3>1. PICK m \in Names \ InUse : /\ InUse' = InUse \union {m} /\ pc[c] = "link"
                                     /\ landed' = [landed EXCEPT ![c] = m]
        BY <2>1, LinkNotes DEF TextInv
    <3> QED
        BY <3>1 DEF TypeInv, TypeOK, Requests
  <2>2. ASSUME NEW a \in Appenders PROVE ~Replace(a)
      BY <1>0, ReplaceNotes DEF TextInv
  <2>3. \E c \in Creators : Link(c)
      BY <2>2, OtherSteps DEF NotesKept
  <2> QED
      BY <2>1, <2>3
<1> QED
    BY <1>0, <1>1, TextAlways, PTL DEF Spec, OnlyLinkCreatesNames

-----------------------------------------------------------------------------
(* The store that the inbox writes implement.                              *)

\* A request leads to another name than the one it addresses only by way of a
\* symlink, and the kinds of file there are, are the host's.
PathInv ==
    /\ \A i \in Inodes : file[i].kind \in HostKinds \union {"regular"}
    /\ \A a \in Appenders : path[a] = Target[a] \/ "symlink" \in HostKinds

\* Every step keeps the paths, or follows a symlink the host has put.
LEMMA PathStep == TypeInv /\ PathInv /\ [Next]_vars => PathInv'
<1> SUFFICES ASSUME TypeInv, PathInv, [Next]_vars PROVE PathInv'
    OBVIOUS
<1>0. TypeOK /\ Creators \subseteq Requests /\ Appenders \subseteq Requests
    BY DEF TypeInv, Requests
<1> USE <1>0 DEF fs, lock, create, tmp, append, used, Goes
<1>1. ASSUME UNCHANGED <<file, path>> PROVE PathInv'
    BY <1>1 DEF PathInv
<1>2. ASSUME UNCHANGED path, NEW i, NEW f, f.kind \in HostKinds \union {"regular"},
             file' = [file EXCEPT ![i] = f]
      PROVE  PathInv'
    BY <1>2 DEF PathInv, TypeOK
<1>3. ASSUME NEW r \in Requests, OpenTemp(r) PROVE PathInv'
    BY <1>2, <1>3 DEF OpenTemp
<1>4. ASSUME NEW r \in Requests, WriteTemp(r) PROVE PathInv'
    BY <1>2, <1>4 DEF WriteTemp
<1>5. ASSUME NEW r \in Requests,
             Refuse(r) \/ SyncDirectory(r) \/ Stat(r) \/ UnlinkTemp(r) \/ SystemCallFails(r)
      PROVE  PathInv'
    BY <1>1, <1>5 DEF Refuse, SyncDirectory, Stat, UnlinkTemp, SystemCallFails
<1>6. ASSUME NEW r \in Requests, FchmodFails(r) \/ UnlinkFails(r) PROVE PathInv'
    BY <1>1, <1>6, CleanUpMoves
<1>7. ASSUME NEW c \in Creators, StartCreate(c) \/ Link(c) \/ LinkExists(c) PROVE PathInv'
    BY <1>1, <1>7 DEF StartCreate, Link, LinkExists
<1>8. ASSUME NEW a \in Appenders, ResolveStrict(a) PROVE PathInv'
  <2>1. CASE UNCHANGED path
      BY <1>1, <1>8, <2>1 DEF ResolveStrict
  <2>2. CASE /\ KindAt(Target[a]) = "symlink"
             /\ \E n \in Followed : path' = [path EXCEPT ![a] = n]
    <3>1. file' = file /\ \A b \in Appenders : b # a => path'[b] = path[b]
        BY <1>8, <2>2 DEF ResolveStrict, TypeOK
    <3>2. dir[Target[a]] \in Inodes /\ file[dir[Target[a]]].kind = "symlink"
        BY <2>2, InboxAssumption DEF KindAt, TypeOK, Entry
    <3>3. "symlink" \in HostKinds
        BY <3>2 DEF PathInv
    <3> QED
        BY <3>1, <3>3 DEF PathInv
  <2> QED
      BY <1>8, <2>1, <2>2 DEF ResolveStrict
<1>9. ASSUME NEW a \in Appenders,
             \/ IsSymlink(a) \/ IsRegular(a) \/ OpenLock(a) \/ OpenTarget(a)
             \/ ReadEnd(a) \/ CheckIdentity(a) \/ ReadChunk(a)
      PROVE  PathInv'
    BY <1>1, <1>9 DEF IsSymlink, IsRegular, OpenLock, OpenTarget, ReadEnd, CheckIdentity, ReadChunk
<1>10. ASSUME NEW a \in Appenders, AcquireLock(a) \/ PollLock(a) \/ Replace(a) \/ Unlock(a) PROVE PathInv'
    BY <1>1, <1>10 DEF AcquireLock, PollLock, Replace, Unlock
<1>11. ASSUME ProcessCrash PROVE PathInv'
    BY <1>1, <1>11 DEF ProcessCrash, Crash
<1>12. ASSUME PowerLoss PROVE PathInv'
  <2>1. UNCHANGED path /\ \A i \in Inodes : file'[i].kind = file[i].kind
      BY <1>12 DEF PowerLoss, Crash
  <2> QED
      BY <2>1 DEF PathInv
<1>13. ASSUME NEW n \in Names, HostEdit(n) PROVE PathInv'
    BY <1>2, <1>13 DEF HostEdit, HostUnchanged
<1>14. ASSUME NEW n \in Names, HostPut(n) PROVE PathInv'
    BY <1>2, <1>14 DEF HostPut, HostUnchanged
<1>15. ASSUME NEW n \in Names, HostDelete(n) PROVE PathInv'
    BY <1>1, <1>15 DEF HostDelete, HostUnchanged
<1>16. ASSUME HostSwapsLock \/ Idle \/ UNCHANGED vars PROVE PathInv'
    BY <1>1, <1>16 DEF HostSwapsLock, Idle, vars
<1> QED
    BY <1>3, <1>4, <1>5, <1>6, <1>7, <1>8, <1>9, <1>10, <1>11, <1>12, <1>13, <1>14, <1>15, <1>16
    DEF Next, Arrive, Step, Failure, SharedStep, CreateStep, AppendStep, HostStep

\* The initial states map to initial states of the store.
LEMMA StoreInit == Init => Store!Init /\ PathInv
<1>1. Init => Store!Init
    BY DEF Init, Store!Init, Store!Requests, Requests
<1>2. Init => PathInv
    BY DEF Init, PathInv
<1> QED
    BY <1>1, <1>2

\* Who is about to land has no answer, and gets none by landing.
LEMMA LandAnswers ==
    ASSUME TypeInv, AnswerInv, NEW r \in Requests,
           (r \in Creators /\ Link(r)) \/ (r \in Appenders /\ Replace(r))
    PROVE  SameAnswers /\ Answer(r) = "none" /\ landed[r] = None
<1>1. pc[r] \in {"link", "replace"} /\ Goto(r, "syncdir") /\ UNCHANGED outcome
    BY DEF Link, Replace
<1>2. pc'[r] = "syncdir" /\ \A q \in Requests : q # r => pc'[q] = pc[q]
    BY <1>1 DEF Goto, TypeInv, TypeOK
<1>3. landed[r] = None
    BY <1>1 DEF AnswerInv, Early
<1>4. Answer(r) = "none"
    BY <1>1 DEF Answer
<1>5. \A q \in Requests : Answer(q)' = Answer(q)
    BY <1>1, <1>2 DEF Answer
<1> QED
    BY <1>3, <1>4, <1>5 DEF SameAnswers

\* With a calm host the inbox writes implement the note store: each creates or
\* extends one note in one step, and its answer says truly whether it did.
THEOREM WritesImplementTheStore == ASSUME CalmHost PROVE Spec => ImplementsNoteStore
<1>0. FineClock /\ QuietHost
    BY DEF CalmHost
<1> DEFINE answers == [r \in Requests |-> IF pc[r] = "done" THEN outcome[r] ELSE "none"]
           applies == {r \in Requests : landed[r] # None}
<1>1. ASSUME TypeInv, TypeInv', AnswerInv, (AnswerInv /\ TextInv)', Disk, TextInv, PathInv, [Next]_vars
      PROVE  Store!Next \/ UNCHANGED Store!store
  <2>0. /\ \A r \in Requests : answers[r] = Answer(r) /\ answers'[r] = Answer(r)'
        /\ DOMAIN answers = Requests /\ DOMAIN answers' = Requests
      BY DEF Answer
  <2>1. SameAnswers => answers' = answers
    <3>1. SameAnswers => \A r \in Requests : answers'[r] = answers[r]
        BY <2>0 DEF SameAnswers
    <3> QED
        BY <3>1
  <2>2. ASSUME NEW c \in Creators, Link(c) PROVE Store!Next
    <3>1. PICK n \in Names \ InUse :
              /\ InUse' = InUse \union {n}
              /\ Note(n)' = <<c>>
              /\ \A m \in InUse : Note(m)' = Note(m)
              /\ pc[c] = "link" /\ landed' = [landed EXCEPT ![c] = n]
        BY <1>1, <2>2, LinkNotes DEF TextInv
    <3>2. c \in Requests /\ answers[c] = "none" /\ answers' = answers /\ landed[c] = None /\ n # None
        BY <1>1, <2>0, <2>1, <2>2, LandAnswers, InboxAssumption DEF Requests
    <3>3. applies' = applies \union {c} /\ c \notin applies
        BY <1>1, <3>1, <3>2 DEF TypeInv, TypeOK
    <3>4. [m \in InUse' |-> Note(m)'] = [m \in InUse \union {n} |-> IF m = n THEN <<c>> ELSE Note(m)]
        BY <3>1
    <3>5. Store!Create(c, n)
        BY <3>1, <3>2, <3>3, <3>4 DEF Store!Create
    <3> QED
        BY <3>5 DEF Store!Next
  <2>3. ASSUME NEW a \in Appenders, Replace(a) PROVE Store!Next
    <3>1. PICK n \in Names : n = path[a]
        BY <1>1 DEF TypeInv, TypeOK
    <3>2. /\ n \in InUse /\ InUse' = InUse /\ UNCHANGED path
          /\ Note(path[a])' = Append(Note(path[a]), a)
          /\ \A m \in InUse \ {n} : Note(m)' = Note(m)
          /\ landed' = [landed EXCEPT ![a] = n]
        BY <1>0, <1>1, <2>3, <3>1, ReplaceNotes DEF TextInv
    <3>3. Note(n)' = Append(Note(n), a)
        BY <3>1, <3>2 DEF Note
    <3>4. a \in Requests /\ answers[a] = "none" /\ answers' = answers /\ landed[a] = None /\ n # None
        BY <1>1, <2>0, <2>1, <2>3, LandAnswers, InboxAssumption DEF Requests
    <3>5. applies' = applies \union {a} /\ a \notin applies
        BY <1>1, <3>2, <3>4 DEF TypeInv, TypeOK
    <3>6. [m \in InUse' |-> Note(m)']
             = [[m \in InUse |-> Note(m)] EXCEPT ![n] = Append(Note(n), a)]
        BY <3>2, <3>3
    <3>7. n = Target[a] \/ "symlink" \in HostKinds
        BY <1>1, <3>1 DEF PathInv
    <3>8. Store!Extend(a, n)
        BY <3>2, <3>4, <3>5, <3>6, <3>7 DEF Store!Extend
    <3> QED
        BY <3>8 DEF Store!Next
  <2>4. CASE (\A c \in Creators : ~Link(c)) /\ (\A a \in Appenders : ~Replace(a))
    <3>1. UNCHANGED landed /\ (SameAnswers \/ NotesKept)
        BY <1>1, <2>4, OtherSteps
    <3>2. applies' = applies
        BY <3>1
    <3>3. CASE SameAnswers
        BY <2>1, <3>2, <3>3 DEF Store!Next, Store!Environment
    <3>4. CASE NotesKept /\ \E r \in Requests, x \in Answers : Answered(r, x)
      <4>1. PICK r \in Requests, x \in Answers : Answered(r, x)
          BY <3>4
      <4>2. [m \in InUse' |-> Note(m)'] = [m \in InUse |-> Note(m)]
          BY <3>4 DEF NotesKept
      <4>3. x \in Refusals \union {"ok", "INTERNAL_ERROR"}
          BY DEF Refusals
      <4>4. answers' = [answers EXCEPT ![r] = x] /\ answers[r] = "none"
        <5>1. \A q \in Requests : answers'[q] = [answers EXCEPT ![r] = x][q]
            BY <2>0, <4>1 DEF Answered
        <5> QED
            BY <2>0, <4>1, <5>1 DEF Answered
      <4>5. (x = "ok" => r \in applies) /\ (x \in Refusals => r \notin applies)
          BY <4>1 DEF Answered
      <4>6. Store!Reply(r, x)
          BY <3>2, <4>2, <4>4, <4>5 DEF Store!Reply
      <4> QED
          BY <4>3, <4>6 DEF Store!Next, Store!Requests, Requests
    <3>5. SameAnswers \/ \E r \in Requests, x \in Answers : Answered(r, x)
        BY <1>1, <3>1, AnswersMove DEF TextInv
    <3> QED
        BY <3>1, <3>3, <3>4, <3>5
  <2> QED
      BY <2>2, <2>3, <2>4
<1>2. /\ TypeInv /\ AnswerInv /\ Disk /\ LockExclusive /\ TextInv /\ PathInv
      /\ (TypeInv /\ AnswerInv /\ Disk /\ LockExclusive /\ TextInv)' /\ [Next]_vars
      => [Store!Next]_Store!store
    BY <1>1
<1> QED
    BY <1>0, StoreInit, PathStep, <1>2, TextAlways, PTL DEF Spec, ImplementsNoteStore, Store!Spec

-----------------------------------------------------------------------------
(* Durability: an answer is given only after _fsync_directory, so that what *)
(* was answered "ok" and is still in a note is there after a power loss.    *)

\* The directory has been fsynced since r landed.
Synced(r) ==
    \/ outcome[r] = "ok"
    \/ pc[r] = "stat"
    \/ r \in Appenders /\ pc[r] \in {"unlink", "unlock"} /\ outcome[r] = "none"

\* Every entry that n may have after a power loss has r's text.
Durable(r, n) ==
    n \in InUse /\ r \in TextsOf(dir[n]) => \A i \in survive[n] : i # None /\ r \in TextsOf(i)

DurableInv == \A r \in Requests, n \in Names : Synced(r) => Durable(r, n)

\* The texts of a content with one text more.
LEMMA TextsOfAppend ==
    ASSUME NEW s \in Seq(Texts), NEW e \in Texts
    PROVE  {Append(s, e)[k] : k \in 1..Len(Append(s, e))} = {s[k] : k \in 1..Len(s)} \union {e}
<1> DEFINE t == Append(s, e)
<1>1. /\ Len(s) \in Nat /\ Len(t) = Len(s) + 1
      /\ \A k \in 1..Len(s) : t[k] = s[k]
      /\ t[Len(s) + 1] = e
    OBVIOUS
<1>2. \A k \in 1..Len(s) : k \in 1..Len(t) /\ s[k] = t[k]
    BY <1>1
<1>3. Len(s) + 1 \in 1..Len(t)
    BY <1>1
<1>4. \A k \in 1..Len(t) : k \in 1..Len(s) \/ k = Len(s) + 1
    BY <1>1
<1> HIDE DEF t
<1> QED
    BY <1>1, <1>2, <1>3, <1>4 DEF t

\* Only the fsync of the directory makes a request synced.
LEMMA SyncedStep ==
    ASSUME TypeInv, [Next]_vars, NEW r \in Requests, Synced(r)', ~Synced(r)
    PROVE  SyncDirectory(r)
<1>0. TypeOK /\ Creators \subseteq Requests /\ Appenders \subseteq Requests
    BY DEF TypeInv, Requests
<1> USE <1>0 DEF fs, lock, create, tmp, append, used, Goes
<1>1. ASSUME NEW q \in Requests, NEW x \in Answers \ {"ok"}, Raise(q, x) PROVE FALSE
  <2>1. /\ pc'[q] \in {"unlink", "unlock", "done"} /\ outcome'[q] = x /\ x # "none"
        /\ \A p \in Requests : p # q => pc'[p] = pc[p] /\ outcome'[p] = outcome[p]
      BY <1>1, RaiseType DEF Raise, TypeOK, Answers
  <2> QED
      BY <1>1, <2>1 DEF Synced
<1>2. ASSUME NEW q \in Requests, NEW step \in Steps \ {"stat", "unlink", "unlock"},
             Goto(q, step), UNCHANGED outcome
      PROVE  FALSE
    BY <1>2, GotoType DEF Synced
<1>3. ASSUME UNCHANGED <<pc, outcome>> PROVE FALSE
    BY <1>3 DEF Synced
<1>4. ASSUME NEW q \in Requests, Refuse(q) PROVE FALSE
    BY <1>1, <1>4 DEF Refuse, Answers
<1>5. ASSUME NEW q \in Requests, OpenTemp(q) \/ WriteTemp(q) PROVE FALSE
    BY <1>2, <1>5 DEF OpenTemp, WriteTemp, Steps, Locked
<1>6. ASSUME NEW q \in Requests, SyncDirectory(q) PROVE q = r
    BY <1>6 DEF SyncDirectory, Goto, TypeOK, Synced
<1>7. ASSUME NEW q \in Requests, Stat(q) PROVE FALSE
  <2>1. CASE Raise(q, "INTERNAL_ERROR")
      BY <1>1, <2>1 DEF Answers
  <2>2. CASE /\ outcome' = [outcome EXCEPT ![q] = "ok"]
             /\ Goto(q, IF q \in Creators THEN "unlink" ELSE "done")
    <3>1. pc[q] = "stat" /\ \A p \in Requests : p # q => pc'[p] = pc[p] /\ outcome'[p] = outcome[p]
        BY <1>7, <2>2 DEF Stat, Goto, TypeOK
    <3> QED
        BY <3>1 DEF Synced
  <2> QED
      BY <1>7, <2>1, <2>2 DEF Stat
<1>8. ASSUME NEW q \in Requests, UnlinkTemp(q) PROVE FALSE
  <2>1. /\ pc[q] = "unlink" /\ pc'[q] = IF q \in Creators THEN "done" ELSE "unlock"
        /\ outcome' = outcome /\ \A p \in Requests : p # q => pc'[p] = pc[p]
      BY <1>8 DEF UnlinkTemp, AfterUnlink, Goto, TypeOK
  <2> QED
      BY <2>1 DEF Synced
<1>9. ASSUME NEW q \in Requests, SystemCallFails(q) PROVE FALSE
  <2>1. \E x \in Answers \ {"ok"} : Raise(q, x)
      BY <1>9 DEF SystemCallFails, FaultAnswers, Answers
  <2> QED
      BY <1>1, <2>1
<1>10. ASSUME NEW c \in Creators, StartCreate(c) \/ Link(c) PROVE FALSE
    BY <1>2, <1>10 DEF StartCreate, Link, Steps, Locked
<1>11. ASSUME NEW c \in Creators, LinkExists(c) PROVE FALSE
    BY <1>1, <1>3, <1>11 DEF LinkExists, Answers
<1>12. ASSUME NEW a \in Appenders, Lookup(a) PROVE FALSE
  <2>1. \/ \E x \in Answers \ {"ok"} : Raise(a, x)
        \/ UNCHANGED outcome /\ \E step \in LookupSteps : Goto(a, step)
      BY <1>12, LookupMoves DEF Refusals, Answers
  <2>2. LookupSteps \subseteq Steps \ {"stat", "unlink", "unlock"}
      BY DEF LookupSteps, Steps, Locked
  <2> QED
      BY <1>1, <1>2, <2>1, <2>2
<1>18. ASSUME NEW a \in Appenders, PollLock(a) PROVE FALSE
    BY <1>1, <1>3, <1>18 DEF PollLock, Answers
<1>19. ASSUME NEW q \in Requests, FchmodFails(q) \/ UnlinkFails(q) PROVE FALSE
  <2>1. /\ outcome'[q] = "INTERNAL_ERROR" /\ pc'[q] # "stat"
        /\ \A p \in Requests : p # q => pc'[p] = pc[p] /\ outcome'[p] = outcome[p]
      BY <1>19, CleanUpMoves
  <2> QED
      BY <2>1 DEF Synced
<1>13. ASSUME NEW a \in Appenders, AcquireLock(a) \/ Replace(a) PROVE FALSE
    BY <1>2, <1>13 DEF AcquireLock, Replace, Steps, Locked
<1>14. ASSUME NEW a \in Appenders, Unlock(a) PROVE FALSE
  <2>1. /\ pc[a] = "unlock" /\ pc'[a] = IF outcome[a] = "none" THEN "stat" ELSE "done"
        /\ outcome' = outcome /\ \A p \in Requests : p # a => pc'[p] = pc[p]
      BY <1>14 DEF Unlock, Goto, TypeOK
  <2> QED
      BY <2>1 DEF Synced
<1>15. ASSUME NEW a \in Appenders, ReadChunk(a) PROVE FALSE
    BY <1>3, <1>15 DEF ReadChunk
<1>16. ASSUME Crash PROVE FALSE
    BY <1>16 DEF Crash, InFlight, TypeOK, Synced
<1>17. HostStep \/ Idle \/ UNCHANGED vars => UNCHANGED <<pc, outcome>>
    BY DEF HostStep, HostEdit, HostPut, HostDelete, HostUnchanged, HostSwapsLock, Idle, vars
<1> QED
    BY <1>3, <1>4, <1>5, <1>6, <1>7, <1>8, <1>9, <1>10, <1>11, <1>12, <1>13, <1>14, <1>15, <1>16, <1>17,
       <1>18, <1>19
    DEF Next, Arrive, Step, Failure, SharedStep, CreateStep, AppendStep, Lookup, ProcessCrash, PowerLoss

\* Right after an fsync of the directory, or a power loss, an entry is all
\* that can survive.
LEMMA SettledDurable ==
    ASSUME survive' = [n \in Names |-> {dir'[n]}], NEW r \in Requests, NEW n \in Names
    PROVE  Durable(r, n)'
BY DEF Durable, InUse

\* A name whose entries, and the data of its files, stay as they are.
LEMMA SameDurable ==
    ASSUME NEW r \in Requests, NEW n \in Names, Durable(r, n),
           dir'[n] = dir[n], survive'[n] = survive[n], dir[n] \in survive[n],
           \A j \in survive[n] \ {None} : file'[j].data = file[j].data
    PROVE  Durable(r, n)'
<1> SUFFICES ASSUME n \in InUse', r \in TextsOf(dir[n])', NEW i \in survive'[n]
             PROVE  i # None /\ r \in TextsOf(i)'
    BY DEF Durable
<1>1. dir[n] # None
    BY DEF InUse
<1>2. file'[dir'[n]].data = file[dir[n]].data
    BY <1>1
<1>3. r \in TextsOf(dir[n])
    BY <1>2 DEF TextsOf
<1>4. i # None /\ r \in TextsOf(i)
    BY <1>1, <1>3 DEF Durable, InUse
<1>5. file'[i].data = file[i].data
    BY <1>4
<1> QED
    BY <1>4, <1>5 DEF TextsOf

\* A step that leaves names, and the files with a name, alone.
LEMMA UnnamedDurable ==
    ASSUME TypeInv, Disk, UNCHANGED <<dir, survive>>,
           NEW i \in Inodes, \A m \in Names : i \notin survive[m],
           \A j \in Inodes : j # i => file'[j] = file[j],
           NEW r \in Requests, NEW n \in Names, Durable(r, n)
    PROVE  Durable(r, n)'
<1>1. ASSUME NEW j \in survive[n] \ {None} PROVE file'[j].data = file[j].data
  <2>1. j \in Inodes /\ j # i
      BY <1>1 DEF TypeInv, TypeOK, Entry
  <2> QED
      BY <2>1
<1>2. dir[n] \in survive[n]
    BY DEF Disk, PrivateInv
<1> QED
    BY <1>1, <1>2, SameDurable

\* One name gets another file, which holds r's text only if it did before.
LEMMA EntryDurable ==
    ASSUME TypeInv, UNCHANGED file,
           NEW m \in Names, NEW i \in Inodes, SetEntry(m, i),
           NEW r \in Requests, r \in TextsOf(i) => m \in InUse /\ r \in TextsOf(dir[m]),
           NEW n \in Names, Durable(r, n)
    PROVE  Durable(r, n)'
<1>1. /\ \A k \in Names : k # m => dir'[k] = dir[k] /\ survive'[k] = survive[k]
      /\ dir'[m] = i /\ survive'[m] = survive[m] \union {i} /\ i # None
    BY InboxAssumption DEF SetEntry, TypeInv, TypeOK
<1>2. \A j : TextsOf(j)' = TextsOf(j)
    BY DEF TextsOf
<1>3. CASE n # m
    BY <1>1, <1>2, <1>3 DEF Durable, InUse, TextsOf
<1>4. CASE n = m
  <2>1. TextsOf(dir[n])' = TextsOf(i)
      BY <1>1, <1>4 DEF TextsOf
  <2> QED
      BY <1>1, <1>2, <1>4, <2>1 DEF Durable
<1> QED
    BY <1>3, <1>4

\* os.link gives a name to a text that is in doubt still.
LEMMA LinkDurable ==
    ASSUME TypeInv, FileInv, NEW c \in Creators, Link(c),
           NEW r \in Requests, r # c, NEW n \in Names, Durable(r, n)
    PROVE  Durable(r, n)'
<1>1. /\ temp[c] \in Inodes /\ file[temp[c]].data = <<c>>
      /\ SetEntry(Destination(c), temp[c]) /\ UNCHANGED file
    BY DEF Link, FileInv, ContentInv, Content, Written, Requests, TypeInv, InodesKnown
<1>2. r \notin TextsOf(temp[c])
    BY <1>1 DEF TextsOf
<1> QED
    BY <1>1, <1>2, EntryDurable, DestinationType DEF TypeInv

\* os.replace puts a file that holds the texts of the note it replaces.
LEMMA ReplaceDurable ==
    ASSUME QuietHost, TypeInv, FileInv, NEW a \in Appenders, Replace(a),
           NEW r \in Requests, r # a, NEW n \in Names, Durable(r, n)
    PROVE  Durable(r, n)'
<1>0. PICK m \in Names : m = path[a]
    BY DEF TypeInv, TypeOK
<1>1. m \in InUse /\ Note(m) \in Seq(Texts)
    BY <1>0, ReplaceNotes
<1>2. UNCHANGED path /\ Note(path[a])' = Append(Note(path[a]), a)
    BY ReplaceNotes
<1>7. Note(m)' = Append(Note(m), a)
    BY <1>0, <1>2 DEF Note
<1>8. SetEntry(m, temp[a]) /\ UNCHANGED file /\ pc[a] = "replace" /\ temp[a] \in Inodes
    BY <1>0 DEF Replace, TypeInv, InodesKnown, Requests
<1>3. file[temp[a]].data = Append(Note(m), a)
    BY <1>1, <1>7, <1>8 DEF Note, SetEntry, TypeInv, TypeOK
<1>4. a \in Texts
    BY DEF Texts, Requests
<1> DEFINE d == Note(m)
<1>5. /\ TextsOf(temp[a]) = {Append(d, a)[k] : k \in 1..Len(Append(d, a))}
      /\ TextsOf(dir[m]) = {d[k] : k \in 1..Len(d)}
    BY <1>3 DEF TextsOf, Note
<1>6. r \in TextsOf(temp[a]) => r \in TextsOf(dir[m])
  <2> HIDE DEF d
  <2>1. d \in Seq(Texts)
      BY <1>1 DEF d
  <2> QED
      BY <1>4, <1>5, <2>1, TextsOfAppend
<1> QED
    BY <1>1, <1>8, <1>6, EntryDurable

\* The host adds no request's text, to the note that is there or to another.
LEMMA HostDurable ==
    ASSUME TypeInv, Disk, NameInv, NEW m \in Names, HostEdit(m) \/ HostPut(m) \/ HostDelete(m),
           NEW r \in Requests, NEW n \in Names, Durable(r, n)
    PROVE  Durable(r, n)'
<1>0. /\ r # "Host" /\ dir[m] \in survive[m] /\ dir[n] \in survive[n]
      /\ survive \in [Names -> SUBSET Entry] /\ file \in [Inodes -> FileRecord]
      /\ dir \in [Names -> Entry]
    BY InboxAssumption DEF Disk, PrivateInv, TypeInv, TypeOK
<1>1. CASE HostEdit(m)
  <2> DEFINE i == dir[m]
             d == file[i].data
  <2>1. i # None /\ i \in Inodes /\ d \in Seq(Texts) /\ UNCHANGED <<dir, survive>>
      BY <1>0, <1>1, InboxAssumption DEF HostEdit, KindAt, Entry, FileRecord
  <2>2. PICK new \in {Append(d, "Host"),
                      [k \in 1..Len(d) |-> IF k = Len(d) THEN "Host" ELSE d[k]]},
             t \in NewMtimes(i) :
            file' = [file EXCEPT ![i] = [data |-> new, mtime |-> t,
                                         kind |-> "regular", synced |-> TRUE]]
      BY <1>1 DEF HostEdit
  <2>3. r \in {new[k] : k \in 1..Len(new)} => r \in TextsOf(i)
    <3>1. CASE new = Append(d, "Host")
        BY <1>0, <2>1, <3>1, TextsOfAppend DEF TextsOf, Texts
    <3>2. CASE new = [k \in 1..Len(d) |-> IF k = Len(d) THEN "Host" ELSE d[k]]
      <4>1. Len(d) \in Nat /\ Len(new) = Len(d) /\ DOMAIN new = 1..Len(d)
          BY <2>1, <3>2
      <4>2. \A k \in 1..Len(d) : new[k] = "Host" \/ new[k] = d[k]
          BY <3>2
      <4> QED
          BY <1>0, <4>1, <4>2 DEF TextsOf
    <3> QED
        BY <2>2, <3>1, <3>2
  <2>4. file'[i].data = new /\ \A j \in Inodes : j # i => file'[j] = file[j]
      BY <1>0, <2>1, <2>2
  <2>5. ASSUME NEW j \in survive[n] \ {None}, j # i PROVE file'[j].data = file[j].data
      BY <1>0, <2>4, <2>5 DEF Entry
  <2>6. CASE n = m
    <3> SUFFICES ASSUME n \in InUse', r \in TextsOf(dir[n])', NEW j \in survive'[n]
                 PROVE  j # None /\ r \in TextsOf(j)'
        BY DEF Durable
    <3>1. r \in {new[k] : k \in 1..Len(new)}
        BY <2>1, <2>4, <2>6 DEF TextsOf
    <3>2. j # None /\ r \in TextsOf(j)
        BY <2>1, <2>3, <2>6, <3>1 DEF Durable, InUse
    <3>3. CASE j = i
        BY <2>4, <3>1, <3>2, <3>3 DEF TextsOf
    <3>4. CASE j # i
        BY <2>1, <2>5, <3>2, <3>4 DEF TextsOf
    <3> QED
        BY <3>2, <3>3, <3>4
  <2>7. CASE n # m
    <3>1. i \notin survive[n]
        BY <1>0, <2>1, <2>7 DEF NameInv
    <3>2. \A j \in survive[n] \ {None} : file'[j].data = file[j].data
        BY <2>5, <3>1
    <3> QED
        BY <1>0, <2>1, <3>2, SameDurable
  <2> QED
      BY <2>6, <2>7
<1>2. CASE HostPut(m)
  <2>1. PICK i \in FreeInodes, k \in HostKinds : \E t \in NewMtimes(i) :
            /\ file' = [file EXCEPT ![i] = [data |-> <<"Host">>, mtime |-> t,
                                            kind |-> k, synced |-> TRUE]]
            /\ SetEntry(m, i)
      BY <1>2 DEF HostPut
  <2>2. i \in Inodes /\ i # None /\ \A k1 \in Names : i \notin survive[k1]
      BY InboxAssumption DEF FreeInodes
  <2>3. /\ file'[i].data = <<"Host">> /\ \A j \in Inodes : j # i => file'[j] = file[j]
        /\ dir'[m] = i
        /\ \A k1 \in Names : k1 # m => dir'[k1] = dir[k1] /\ survive'[k1] = survive[k1]
      BY <1>0, <2>1, <2>2 DEF SetEntry
  <2>4. \A j \in survive[n] \ {None} : file'[j].data = file[j].data
      BY <1>0, <2>2, <2>3 DEF Entry
  <2>5. CASE n = m
    <3>1. r \notin TextsOf(dir[n])'
        BY <1>0, <2>3, <2>5 DEF TextsOf
    <3> QED
        BY <3>1 DEF Durable
  <2>6. CASE n # m
      BY <1>0, <2>3, <2>4, <2>6, SameDurable
  <2> QED
      BY <2>5, <2>6
<1>3. CASE HostDelete(m)
  <2>1. /\ UNCHANGED file /\ dir'[m] = None
        /\ \A k1 \in Names : k1 # m => dir'[k1] = dir[k1] /\ survive'[k1] = survive[k1]
      BY <1>0, <1>3 DEF HostDelete, SetEntry
  <2> QED
      BY <2>1 DEF Durable, InUse, TextsOf
<1> QED
    BY <1>1, <1>2, <1>3

\* Every step keeps what is synced durable.
LEMMA DurableStep ==
    ASSUME QuietHost, TypeInv, AnswerInv, Disk, TextInv, DurableInv, [Next]_vars
    PROVE  DurableInv'
<1> SUFFICES ASSUME NEW r \in Requests, NEW n \in Names, Synced(r)' PROVE Durable(r, n)'
    BY DEF DurableInv
<1>0. Creators \subseteq Requests /\ Appenders \subseteq Requests
    BY DEF Requests
<1> USE <1>0
<1>1. CASE PowerLoss \/ \E q \in Requests : SyncDirectory(q)
    BY <1>1, SettledDurable DEF PowerLoss, SyncDirectory
<1>2. CASE ~(PowerLoss \/ \E q \in Requests : SyncDirectory(q))
  <2>0. Synced(r) /\ Durable(r, n)
      BY <1>2, SyncedStep DEF DurableInv
  <2>1. ASSUME UNCHANGED fs PROVE Durable(r, n)'
      BY <2>0, <2>1 DEF fs, Durable, InUse, TextsOf
  <2>2. ASSUME NEW q \in Requests, OpenTemp(q) PROVE Durable(r, n)'
    <3>1. PICK i \in FreeInodes :
            file' = [file EXCEPT ![i] = [data |-> <<>>, mtime |-> @.mtime,
                                         kind |-> "regular", synced |-> FALSE]]
        BY <2>2 DEF OpenTemp
    <3>2. /\ i \in Inodes /\ \A m \in Names : i \notin survive[m]
          /\ \A j \in Inodes : j # i => file'[j] = file[j]
          /\ UNCHANGED <<dir, survive>>
        BY <2>2, <3>1 DEF OpenTemp, FreeInodes, TypeInv, TypeOK
    <3> QED
        BY <2>0, <3>2, UnnamedDurable
  <2>3. ASSUME NEW q \in Requests, WriteTemp(q) PROVE Durable(r, n)'
    <3>1. /\ temp[q] \in Inodes /\ \A m \in Names : temp[q] \notin survive[m]
          /\ \A j \in Inodes : j # temp[q] => file'[j] = file[j]
          /\ UNCHANGED <<dir, survive>>
        BY <2>3 DEF WriteTemp, TypeInv, TypeOK, InodesKnown, Disk, PrivateInv, Writing
    <3> QED
        BY <2>0, <3>1, UnnamedDurable
  <2>4. ASSUME NEW c \in Creators, Link(c) PROVE Durable(r, n)'
    <3>1. r # c
      <4>1. pc'[c] = "syncdir" /\ outcome'[c] = "none"
          BY <2>4 DEF Link, Goto, AnswerInv, Early, TypeInv, TypeOK
      <4> QED
          BY <4>1 DEF Synced
    <3> QED
        BY <2>0, <2>4, <3>1, LinkDurable DEF TextInv
  <2>5. ASSUME NEW a \in Appenders, Replace(a) PROVE Durable(r, n)'
    <3>1. r # a
      <4>1. pc'[a] = "syncdir" /\ outcome'[a] = "none"
          BY <2>5 DEF Replace, Goto, AnswerInv, Early, TypeInv, TypeOK
      <4> QED
          BY <4>1 DEF Synced
    <3> QED
        BY <2>0, <2>5, <3>1, ReplaceDurable DEF TextInv
  <2>6. ASSUME NEW m \in Names, HostEdit(m) \/ HostPut(m) \/ HostDelete(m) PROVE Durable(r, n)'
      BY <2>0, <2>6, HostDurable DEF TextInv
  <2>7. \A q \in Requests :
           Refuse(q) \/ Stat(q) \/ UnlinkTemp(q) \/ SystemCallFails(q) => UNCHANGED fs
      BY DEF Refuse, Stat, UnlinkTemp, SystemCallFails
  <2>8. \A c \in Creators : StartCreate(c) \/ LinkExists(c) => UNCHANGED fs
      BY DEF StartCreate, LinkExists
  <2>9. \A a \in Appenders :
           Lookup(a) \/ AcquireLock(a) \/ PollLock(a) \/ ReadChunk(a) \/ Unlock(a) => UNCHANGED fs
      BY LookupMoves DEF AcquireLock, PollLock, ReadChunk, Unlock
  <2>11. \A q \in Requests : FchmodFails(q) \/ UnlinkFails(q) => UNCHANGED fs
      BY CleanUpMoves DEF TypeInv
  <2>10. ProcessCrash \/ HostSwapsLock \/ Idle \/ UNCHANGED vars => UNCHANGED fs
      BY DEF ProcessCrash, HostSwapsLock, Idle, vars
  <2> QED
      BY <1>2, <2>1, <2>2, <2>3, <2>4, <2>5, <2>6, <2>7, <2>8, <2>9, <2>10, <2>11
      DEF Next, Arrive, Step, Failure, SharedStep, CreateStep, AppendStep, Lookup, HostStep
<1> QED
    BY <1>1, <1>2

\* With a calm host, a text whose request was answered "ok" and that is still
\* in a note is in that note after a power loss too, whichever entry survives.
THEOREM AnswersAreDurable == ASSUME CalmHost PROVE Spec => []AnsweredIsDurable
<1>0. FineClock /\ QuietHost
    BY DEF CalmHost
<1>1. Init => DurableInv
  <2> SUFFICES ASSUME Init, NEW r \in Requests PROVE ~Synced(r)
      BY DEF DurableInv
  <2> QED
      BY DEF Init, Synced
<1>2. TypeInv /\ AnswerInv /\ Disk /\ LockExclusive /\ TextInv /\ DurableInv /\ [Next]_vars => DurableInv'
    BY <1>0, DurableStep
<1>3. TypeInv /\ DurableInv => AnsweredIsDurable
    BY DEF DurableInv, Durable, Synced, AnsweredIsDurable, InUse
<1> QED
    BY <1>0, TextAlways, <1>1, <1>2, <1>3, PTL DEF Spec
=============================================================================
