----------------------------- MODULE InboxWrites -----------------------------
(***************************************************************************)
(* Writes to the inbox: app/services/inbox_service.py.                     *)
(*                                                                         *)
(* create_inbox_note and append_inbox_note run in worker threads of one    *)
(* gateway process, on a directory that the host (Obsidian, LiveSync)      *)
(* edits at the same time.  One action is one system call, or a group of   *)
(* calls no other actor can tell apart; every request has its own program  *)
(* counter.  The file system is part of the state: the directory maps a    *)
(* name to an inode, an inode holds the note's data, and `survive' says    *)
(* what each directory entry may be after a power loss.                    *)
(*                                                                         *)
(* A note's data is a sequence of texts: Original (what it held at first), *)
(* Host (a text the host wrote) or the request whose text it is; a text is *)
(* one unit long.  Line endings are the subject of AppendBytes.            *)
(***************************************************************************)
EXTENDS Integers, Sequences, FiniteSets

CONSTANTS
    Creators,            \* create_inbox_note requests
    Appenders,           \* append_inbox_note requests
    Malformed,           \* requests that input validation refuses
    Hung,                \* requests whose disk I/O may never return
    Stem,                \* sanitised title of each creator, a sequence
    Target,              \* file name each appender addresses
    Names,               \* file names of notes in the inbox
    Inodes,              \* inode numbers
    None,                \* no directory entry, no inode
    HostKinds,           \* kinds of file the host puts at a name
    MaxSequenceAttempts, \* 100 in the code
    MaxPolls,            \* _LOCK_TIMEOUT_SECONDS / _LOCK_POLL_INTERVAL_SECONDS
    MaxNoteBytes,        \* settings.max_note_bytes, in texts
    MaxHostOps,          \* bound on the host's steps
    MaxLockRemovals,     \* bound on the host's swaps of .append.lock
    MaxFaults,           \* bound on failing system calls
    MaxCrashes,          \* bound on crashes and power losses
    FineClock,           \* every write gives an inode a fresh st_mtime_ns
    HostInWindow         \* the host may act between lstat and os.replace

Requests == Creators \union Appenders
Kinds == {"regular", "symlink", "special"}

\* filenames.note_file_name: "foo" and 2 give "foo-2", as "foo-2" and 1 do.
NoteFileName(stem, sequence) ==
    IF sequence <= 1 THEN stem ELSE Append(stem, sequence)

ASSUME InboxAssumption ==
    /\ Creators \intersect Appenders = {}
    /\ {"Original", "Host"} \intersect Requests = {}
    /\ Malformed \subseteq Requests /\ Hung \subseteq Requests
    /\ Target \in [Appenders -> Names]
    /\ None \notin Inodes /\ None \notin Names
    /\ HostKinds \subseteq Kinds
    /\ MaxSequenceAttempts \in Nat \ {0}
    /\ \A c \in Creators, s \in 1..MaxSequenceAttempts :
          NoteFileName(Stem[c], s) \in Names
    /\ MaxPolls \in Nat \ {0} /\ MaxNoteBytes \in Nat
    /\ MaxHostOps \in Nat /\ MaxLockRemovals \in Nat
    /\ MaxFaults \in Nat /\ MaxCrashes \in Nat
    /\ FineClock \in BOOLEAN /\ HostInWindow \in BOOLEAN

VARIABLES
    dir,       \* name -> inode, or None
    file,      \* inode -> data, mtime, kind and whether the data is fsynced
    survive,   \* name -> the entries it may have after a power loss
    lockFile,  \* which file is at .append.lock now: 1, 2, ...
    lockKind,  \* and of which kind it is
    pc,        \* request -> next step
    seq,       \* creator -> sequence number of the next candidate name
    temp,      \* request -> inode of its .tmp- file, or None
    tempFd,    \* request -> inode it has open for writing, or None
    path,      \* appender -> name that resolve_inbox_append_path returned
    lockFd,    \* appender -> the lock file it has open, 0 for none
    polls,     \* appender -> polls of the lock so far
    before,    \* appender -> identity of the target when it was opened
    existing,  \* appender -> what it has read of the target
    outcome,   \* request -> the answer decided so far, "none" before
    landed,    \* history: request -> name it changed, None before
    failed,    \* history: request -> its clean-up calls that raised
    hostOps, faults, crashes  \* what is used of the bounds

fs == <<dir, file, survive>>
lock == <<lockFile, lockKind>>
create == <<seq>>
tmp == <<temp, tempFd>>
append == <<path, lockFd, polls, before, existing>>
used == <<hostOps, faults, crashes>>
vars == <<fs, lock, pc, create, tmp, append, outcome, landed, failed, used>>

-----------------------------------------------------------------------------
(* Helpers.                                                                *)

Texts == {"Original", "Host"} \union Requests
Entry == Inodes \union {None}
Answers == {"ok", "VALIDATION_ERROR", "NOTE_NOT_FOUND", "INVALID_PATH",
            "PATH_OUTSIDE_VAULT", "INVALID_FILE_TYPE", "INBOX_LOCK_TIMEOUT",
            "FILE_TOO_LARGE", "NOTE_MODIFIED", "NOTE_ALREADY_EXISTS",
            "INTERNAL_ERROR"}

\* The part of append_inbox_note that runs with the append lock held.
Locked == {"open", "read", "temp", "write", "check", "replace", "syncdir",
           "unlink", "unlock"}
Holds(a) == a \in Appenders /\ pc[a] \in Locked

\* A request the process has in a worker thread.
InFlight(r) == pc[r] \notin {"start", "done", "dead"}

\* lstat at a name: the kind of its entry.
KindAt(n) == IF dir[n] = None THEN "none" ELSE file[dir[n]].kind

\* An inode with no name and no open descriptor may be given out again.
FreeInodes ==
    {i \in Inodes : /\ \A n \in Names : i # dir[n] /\ i \notin survive[n]
                    /\ \A r \in Requests : temp[r] # i /\ tempFd[r] # i
                    /\ \A a \in Appenders : pc[a] = "read" => before[a].ino # i}

\* mtime is compared only with earlier readings of the same inode, so it
\* counts the inode's distinct timestamps.
NewMtimes(i) ==
    IF FineClock THEN {file[i].mtime + 1} ELSE {file[i].mtime, file[i].mtime + 1}

SetEntry(n, i) ==
    /\ dir' = [dir EXCEPT ![n] = i]
    /\ survive' = [survive EXCEPT ![n] = @ \union {i}]

Goto(r, step) == pc' = [pc EXCEPT ![r] = step]
Goes(r, step) == Goto(r, step) /\ UNCHANGED outcome

\* Mutant of Identity: the modification time is not compared.
IdentityWithoutMtime(i) == [ino |-> i, mtime |-> 0, size |-> Len(file[i].data)]

\* (st_dev, st_ino, st_mtime_ns, st_size)
Identity(i) == [ino |-> i, mtime |-> file[i].mtime, size |-> Len(file[i].data)]
NoIdentity == [ino |-> None, mtime |-> 0, size |-> 0]

\* Mutant of Unwind: a link that fails does not clean up.
UnwindForgetsTemp(r, p) ==
    CASE r \in Creators /\ p \in {"write", "syncdir", "stat"} -> "unlink"
      [] r \in Appenders /\ p \in {"write", "check", "replace", "syncdir"} -> "unlink"
      [] r \in Appenders /\ p \in {"open", "read", "temp"} -> "unlock"
      [] OTHER -> "done"

\* Where the `except' and `finally' blocks take a request that raises at step p.
Unwind(r, p) ==
    CASE r \in Creators /\ p \in {"write", "link", "syncdir", "stat"} -> "unlink"
      [] r \in Appenders /\ p \in {"write", "check", "replace", "syncdir"} -> "unlink"
      [] r \in Appenders /\ p \in {"open", "read", "temp"} -> "unlock"
      [] OTHER -> "done"

\* Request r raises: the answer is fixed, and the clean-up is what is left.
Raise(r, answer) ==
    /\ outcome' = [outcome EXCEPT ![r] = answer]
    /\ Goto(r, Unwind(r, pc[r]))

-----------------------------------------------------------------------------
Init ==
    /\ dir \in [Names -> Entry]
    /\ \A m, n \in Names : dir[m] = dir[n] => m = n \/ dir[n] = None
    /\ file = [i \in Inodes |->
                 [data |-> IF \E n \in Names : dir[n] = i THEN <<"Original">>
                                                           ELSE <<>>,
                  mtime |-> 0, kind |-> "regular", synced |-> TRUE]]
    /\ survive = [n \in Names |-> {dir[n]}]
    /\ lockFile = 1 /\ lockKind = "regular"
    /\ pc = [r \in Requests |-> "start"]
    /\ seq = [c \in Creators |-> 1]
    /\ temp = [r \in Requests |-> None]
    /\ tempFd = [r \in Requests |-> None]
    /\ path = Target
    /\ lockFd = [a \in Appenders |-> 0]
    /\ polls = [a \in Appenders |-> 0]
    /\ before = [a \in Appenders |-> NoIdentity]
    /\ existing = [a \in Appenders |-> <<>>]
    /\ outcome = [r \in Requests |-> "none"]
    /\ landed = [r \in Requests |-> None]
    /\ failed = [r \in Requests |-> {}]
    /\ hostOps = 0 /\ faults = 0 /\ crashes = 0

-----------------------------------------------------------------------------
(* Steps both operations take: _write_temp_bytes, _fsync_directory and the *)
(* unlink of the temp file.                                                *)

\* sanitise_title, empty content, path syntax: refused before any write.
Refuse(r) ==
    /\ pc[r] = "start" /\ r \in Malformed
    /\ Raise(r, "VALIDATION_ERROR")
    /\ UNCHANGED <<fs, lock, create, tmp, append, landed, failed, used>>

\* os.open(O_CREAT | O_EXCL) of .tmp-<random>: nothing is in it yet.
OpenTemp(r) ==
    /\ pc[r] = "temp"
    /\ \E i \in FreeInodes :
         /\ temp' = [temp EXCEPT ![r] = i]
         /\ tempFd' = [tempFd EXCEPT ![r] = i]
         /\ file' = [file EXCEPT ![i] = [data |-> <<>>, mtime |-> @.mtime,
                                         kind |-> "regular", synced |-> FALSE]]
    /\ Goto(r, "write")
    /\ UNCHANGED <<dir, survive, lock, create, append, outcome, landed,
                   failed, used>>

\* What the temp file is to hold: the rendered note, or existing + appended.
Content(r) == IF r \in Creators THEN <<r>> ELSE Append(existing[r], r)

\* Mutant of WriteTemp: no fsync of the temp file.
WriteTempUnsynced(r) ==
    /\ pc[r] = "write"
    /\ \E t \in NewMtimes(temp[r]) :
         file' = [file EXCEPT ![temp[r]] = [data |-> Content(r), mtime |-> t,
                                            kind |-> "regular", synced |-> FALSE]]
    /\ tempFd' = [tempFd EXCEPT ![r] = None]
    /\ Goto(r, IF r \in Creators THEN "link" ELSE "check")
    /\ UNCHANGED <<dir, survive, lock, create, temp, append, outcome, landed,
                   failed, used>>

\* fchmod, write, flush, fsync and close.
WriteTemp(r) ==
    /\ pc[r] = "write"
    /\ \E t \in NewMtimes(temp[r]) :
         file' = [file EXCEPT ![temp[r]] = [data |-> Content(r), mtime |-> t,
                                            kind |-> "regular", synced |-> TRUE]]
    /\ tempFd' = [tempFd EXCEPT ![r] = None]
    /\ Goto(r, IF r \in Creators THEN "link" ELSE "check")
    /\ UNCHANGED <<dir, survive, lock, create, temp, append, outcome, landed,
                   failed, used>>

\* Mutant of SyncDirectory: the directory is not fsynced.
SkipSyncDirectory(r) ==
    /\ pc[r] = "syncdir"
    /\ Goto(r, IF r \in Creators THEN "stat" ELSE "unlink")
    /\ UNCHANGED <<fs, lock, create, tmp, append, outcome, landed, failed, used>>

\* Every pending directory change is on disk when fsync returns.
SyncDirectory(r) ==
    /\ pc[r] = "syncdir"
    /\ survive' = [n \in Names |-> {dir[n]}]
    /\ Goto(r, IF r \in Creators THEN "stat" ELSE "unlink")
    /\ UNCHANGED <<dir, file, lock, create, tmp, append, outcome, landed,
                   failed, used>>

\* A path that stat() may not find: it has no entry, or a symlink that dangles.
Unfindable(n) == KindAt(n) \in {"none", "symlink"}

\* Mutant of Stat: a vanished note is reported as a refusal.
StatNotFound(r) ==
    /\ pc[r] = "stat"
    /\ \/ Unfindable(landed[r]) /\ Raise(r, "NOTE_NOT_FOUND")
       \/ /\ dir[landed[r]] # None
          /\ outcome' = [outcome EXCEPT ![r] = "ok"]
          /\ Goto(r, IF r \in Creators THEN "unlink" ELSE "done")
    /\ UNCHANGED <<fs, lock, create, tmp, append, landed, failed, used>>

\* destination.stat(), target.stat(): FileNotFoundError if the host removed it.
Stat(r) ==
    /\ pc[r] = "stat"
    /\ \/ Unfindable(landed[r]) /\ Raise(r, "INTERNAL_ERROR")
       \/ /\ dir[landed[r]] # None
          /\ outcome' = [outcome EXCEPT ![r] = "ok"]
          /\ Goto(r, IF r \in Creators THEN "unlink" ELSE "done")
    /\ UNCHANGED <<fs, lock, create, tmp, append, landed, failed, used>>

AfterUnlink(r) == IF r \in Creators THEN "done" ELSE "unlock"

\* temp_path.unlink(missing_ok=True), in `finally' and after a failed write.
UnlinkTemp(r) ==
    /\ pc[r] = "unlink"
    /\ temp' = [temp EXCEPT ![r] = None]
    /\ Goto(r, AfterUnlink(r))
    /\ UNCHANGED <<fs, lock, create, tempFd, append, outcome, landed, failed, used>>

-----------------------------------------------------------------------------
(* create_inbox_note.                                                      *)

StartCreate(c) ==
    /\ pc[c] = "start" /\ c \notin Malformed
    /\ Goto(c, "temp")
    /\ UNCHANGED <<fs, lock, create, tmp, append, outcome, landed, failed, used>>

Destination(c) == NoteFileName(Stem[c], seq[c])

\* Mutant of Link: os.replace in its place.
LinkReplacing(c) ==
    /\ pc[c] = "link"
    /\ SetEntry(Destination(c), temp[c])
    /\ landed' = [landed EXCEPT ![c] = Destination(c)]
    /\ Goto(c, "syncdir")
    /\ UNCHANGED <<file, lock, create, tmp, append, outcome, failed, used>>

\* os.link succeeds: the name was free.
Link(c) ==
    /\ pc[c] = "link" /\ dir[Destination(c)] = None
    /\ SetEntry(Destination(c), temp[c])
    /\ landed' = [landed EXCEPT ![c] = Destination(c)]
    /\ Goto(c, "syncdir")
    /\ UNCHANGED <<file, lock, create, tmp, append, outcome, failed, used>>

\* Mutant of LinkExists: one attempt too many.
LinkExistsOneMore(c) ==
    /\ pc[c] = "link" /\ dir[Destination(c)] # None
    /\ IF seq[c] <= MaxSequenceAttempts
         THEN seq' = [seq EXCEPT ![c] = @ + 1] /\ UNCHANGED <<pc, outcome>>
         ELSE Raise(c, "NOTE_ALREADY_EXISTS") /\ UNCHANGED seq
    /\ UNCHANGED <<fs, lock, tmp, append, landed, failed, used>>

\* FileExistsError: the next candidate, or NoteAlreadyExistsError after the last.
LinkExists(c) ==
    /\ pc[c] = "link" /\ dir[Destination(c)] # None
    /\ IF seq[c] < MaxSequenceAttempts
         THEN seq' = [seq EXCEPT ![c] = @ + 1] /\ UNCHANGED <<pc, outcome>>
         ELSE Raise(c, "NOTE_ALREADY_EXISTS") /\ UNCHANGED seq
    /\ UNCHANGED <<fs, lock, tmp, append, landed, failed, used>>

-----------------------------------------------------------------------------
(* append_inbox_note.                                                      *)

\* resolve_inbox_append_path, candidate.is_symlink().
IsSymlink(a) ==
    /\ pc[a] = "start" /\ a \notin Malformed
    /\ IF KindAt(Target[a]) = "symlink" THEN Raise(a, "INVALID_PATH")
                                        ELSE Goes(a, "resolve")
    /\ UNCHANGED <<fs, lock, create, tmp, append, landed, failed, used>>

\* Where a symlink that the host has just put at the name may lead.
Followed == {n \in Names : ~Unfindable(n)}

\* candidate.resolve(strict=True) follows a symlink swapped in since.
ResolveStrict(a) ==
    LET k == KindAt(Target[a]) IN
    /\ pc[a] = "resolve"
    /\ \/ k = "none" /\ Raise(a, "NOTE_NOT_FOUND") /\ UNCHANGED path
       \/ k \in {"regular", "special"} /\ Goes(a, "isreg") /\ UNCHANGED path
       \/ /\ k = "symlink" /\ UNCHANGED path
          /\ \E x \in {"NOTE_NOT_FOUND", "INVALID_PATH", "PATH_OUTSIDE_VAULT"} : Raise(a, x)
       \/ /\ k = "symlink" /\ Goes(a, "isreg")
          /\ \E n \in Followed : path' = [path EXCEPT ![a] = n]
    /\ UNCHANGED <<fs, lock, create, tmp, lockFd, polls, before, existing,
                   landed, failed, used>>

\* resolved.stat(), which follows a symlink once more.
IsRegular(a) ==
    /\ pc[a] = "isreg"
    /\ \/ Unfindable(path[a]) /\ Raise(a, "INTERNAL_ERROR")
       \/ KindAt(path[a]) \in {"symlink", "special"} /\ Raise(a, "INVALID_FILE_TYPE")
       \/ KindAt(path[a]) \in {"symlink", "regular"} /\ Goes(a, "lock")
    /\ UNCHANGED <<fs, lock, create, tmp, append, landed, failed, used>>

\* _open_append_lock opens (or creates) what is at .append.lock now; a symlink
\* or a folder cannot be opened, a FIFO or a device is closed again.
OpenLock(a) ==
    /\ pc[a] = "lock"
    /\ \/ /\ lockKind = "regular" /\ Goes(a, "poll")
          /\ lockFd' = [lockFd EXCEPT ![a] = lockFile]
       \/ lockKind # "regular" /\ Raise(a, "INVALID_PATH") /\ UNCHANGED lockFd
       \/ lockKind = "special" /\ Raise(a, "INVALID_FILE_TYPE") /\ UNCHANGED lockFd
    /\ UNCHANGED <<fs, lock, create, tmp, path, polls, before, existing,
                   landed, failed, used>>

Contended(a) == \E b \in Appenders : Holds(b) /\ lockFd[b] = lockFd[a]

\* flock(LOCK_EX | LOCK_NB) succeeds.
AcquireLock(a) ==
    /\ pc[a] = "poll" /\ ~Contended(a)
    /\ Goto(a, "open")
    /\ UNCHANGED <<fs, lock, create, tmp, append, outcome, landed, failed, used>>

\* Mutant of PollLock: the descriptor stays open past the deadline.
PollLockForgetsFd(a) ==
    /\ pc[a] = "poll" /\ Contended(a)
    /\ Raise(a, "INBOX_LOCK_TIMEOUT")
    /\ UNCHANGED <<fs, lock, create, tmp, append, landed, failed, used>>

\* Mutant of PollLock: no deadline.
PollLockForever(a) ==
    /\ pc[a] = "poll" /\ Contended(a)
    /\ UNCHANGED vars

\* EAGAIN: sleep and try again; past the deadline the descriptor is closed.
PollLock(a) ==
    /\ pc[a] = "poll" /\ Contended(a)
    /\ IF polls[a] < MaxPolls
         THEN /\ polls' = [polls EXCEPT ![a] = @ + 1]
              /\ UNCHANGED <<pc, outcome, lockFd>>
         ELSE /\ Raise(a, "INBOX_LOCK_TIMEOUT")
              /\ lockFd' = [lockFd EXCEPT ![a] = 0]
              /\ UNCHANGED polls
    /\ UNCHANGED <<fs, lock, create, tmp, path, before, existing, landed,
                   failed, used>>

\* os.open(O_NOFOLLOW) and fstat of the same descriptor.
OpenTarget(a) ==
    LET i == dir[path[a]] IN
    /\ pc[a] = "open"
    /\ IF Unfindable(path[a])
         THEN Raise(a, "INTERNAL_ERROR") /\ UNCHANGED before
       ELSE IF KindAt(path[a]) = "special"
         THEN Raise(a, "INVALID_FILE_TYPE") /\ UNCHANGED before
       ELSE IF Len(file[i].data) > MaxNoteBytes
         THEN Raise(a, "FILE_TOO_LARGE") /\ UNCHANGED before
       ELSE before' = [before EXCEPT ![a] = Identity(i)] /\ Goes(a, "read")
    /\ UNCHANGED <<fs, lock, create, tmp, path, lockFd, polls, existing,
                   landed, failed, used>>

\* os.read of one chunk from the descriptor; the host may write in between.
ReadChunk(a) ==
    LET data == file[before[a].ino].data IN
    /\ pc[a] = "read" /\ Len(existing[a]) < Len(data)
    /\ existing' = [existing EXCEPT ![a] = Append(@, data[Len(@) + 1])]
    /\ UNCHANGED <<fs, lock, pc, create, tmp, path, lockFd, polls, before,
                   outcome, landed, failed, used>>

\* os.read returns b"": close, render, and the limit on the size at fstat.
ReadEnd(a) ==
    /\ pc[a] = "read" /\ Len(existing[a]) >= Len(file[before[a].ino].data)
    /\ IF before[a].size + 1 > MaxNoteBytes
         THEN Raise(a, "FILE_TOO_LARGE")
         ELSE Goes(a, "temp")
    /\ UNCHANGED <<fs, lock, create, tmp, append, landed, failed, used>>

\* Mutant of CheckIdentity: nothing is compared.
CheckIdentityNever(a) ==
    /\ pc[a] = "check" /\ Goes(a, "replace")
    /\ UNCHANGED <<fs, lock, create, tmp, append, landed, failed, used>>

\* Mutant of CheckIdentity: a target that is gone counts as unmodified.
CheckIdentityMissing(a) ==
    LET i == dir[path[a]] IN
    /\ pc[a] = "check"
    /\ IF i = None THEN Goes(a, "replace")
       ELSE IF KindAt(path[a]) = "symlink" THEN Raise(a, "INVALID_PATH")
       ELSE IF Identity(i) # before[a] THEN Raise(a, "NOTE_MODIFIED")
       ELSE Goes(a, "replace")
    /\ UNCHANGED <<fs, lock, create, tmp, append, landed, failed, used>>

\* os.lstat(target) against the identity at open.
CheckIdentity(a) ==
    LET i == dir[path[a]] IN
    /\ pc[a] = "check"
    /\ IF i = None THEN Raise(a, "INTERNAL_ERROR")
       ELSE IF KindAt(path[a]) = "symlink" THEN Raise(a, "INVALID_PATH")
       ELSE IF Identity(i) # before[a] THEN Raise(a, "NOTE_MODIFIED")
       ELSE Goes(a, "replace")
    /\ UNCHANGED <<fs, lock, create, tmp, append, landed, failed, used>>

\* os.replace: rename(2), whatever is at the target's name now.
Replace(a) ==
    /\ pc[a] = "replace"
    /\ SetEntry(path[a], temp[a])
    /\ temp' = [temp EXCEPT ![a] = None]
    /\ landed' = [landed EXCEPT ![a] = path[a]]
    /\ Goto(a, "syncdir")
    /\ UNCHANGED <<file, lock, create, tempFd, append, outcome, failed, used>>

\* os.close(lock_fd) releases the flock; only success goes on to target.stat().
Unlock(a) ==
    /\ pc[a] = "unlock"
    /\ lockFd' = [lockFd EXCEPT ![a] = 0]
    /\ Goto(a, IF outcome[a] = "none" THEN "stat" ELSE "done")
    /\ UNCHANGED <<fs, lock, create, tmp, path, polls, before, existing,
                   outcome, landed, failed, used>>

-----------------------------------------------------------------------------
(* Failures: a system call of request r raises OSError.                    *)

Fault == faults < MaxFaults /\ faults' = faults + 1

\* What a failing call is answered with: the first calls that fail at the
\* name or at the lock file are taken for a bad path.
FaultAnswers(p) ==
    CASE p = "resolve" -> {"INVALID_PATH"}
      [] p = "lock" -> {"INVALID_PATH", "INTERNAL_ERROR"}
      [] OTHER -> {"INTERNAL_ERROR"}

\* Any call but the ones below.  The `with' block closes the temp file; the
\* lock's descriptor is closed after a failed flock, and freed by a failed close.
SystemCallFails(r) ==
    /\ Fault
    /\ \/ InFlight(r) /\ pc[r] # "unlink"
       \/ pc[r] = "start" /\ r \in Appenders \ Malformed
    /\ \E x \in FaultAnswers(pc[r]) : Raise(r, x)
    /\ tempFd' = [tempFd EXCEPT ![r] = IF pc[r] = "write" THEN None ELSE @]
    /\ lockFd' = [a \in Appenders |->
                    IF a = r /\ pc[r] \in {"poll", "unlock"} THEN 0 ELSE lockFd[a]]
    /\ UNCHANGED <<fs, lock, create, temp, path, polls, before, existing, landed,
                   failed, hostOps, crashes>>

CleanUpFails(r, call) ==
    /\ Fault
    /\ failed' = [failed EXCEPT ![r] = @ \union {call}]
    /\ outcome' = [outcome EXCEPT ![r] = "INTERNAL_ERROR"]
    /\ UNCHANGED <<fs, lock, create, tmp, append, landed, hostOps, crashes>>

\* os.fchmod raises before os.fdopen owns the descriptor: nobody closes it.
FchmodFails(r) ==
    /\ pc[r] = "write" /\ CleanUpFails(r, "fchmod") /\ Goto(r, Unwind(r, pc[r]))

\* unlink raises: the .tmp- file stays, and its error replaces any answer.
UnlinkFails(r) ==
    /\ pc[r] = "unlink" /\ CleanUpFails(r, "unlink") /\ Goto(r, AfterUnlink(r))

Crash ==
    /\ crashes < MaxCrashes
    /\ crashes' = crashes + 1
    /\ pc' = [r \in Requests |-> IF InFlight(r) THEN "dead" ELSE pc[r]]
    /\ lockFd' = [a \in Appenders |-> 0]
    /\ tempFd' = [r \in Requests |-> None]
    /\ UNCHANGED <<lock, create, temp, path, polls, before, existing, outcome,
                   landed, failed, hostOps, faults>>

\* The container is killed: the kernel closes every descriptor.
ProcessCrash == Crash /\ UNCHANGED fs

\* Every name comes back with one of its surviving entries, and an inode
\* that was not fsynced may have lost its data.
PowerLoss ==
    /\ Crash
    /\ dir' \in {d \in [Names -> Entry] : \A n \in Names : d[n] \in survive[n]}
    /\ survive' = [n \in Names |-> {dir'[n]}]
    /\ file' = [i \in Inodes |->
                   [data |-> IF file[i].synced THEN file[i].data ELSE <<>>,
                    mtime |-> file[i].mtime, kind |-> file[i].kind, synced |-> TRUE]]

-----------------------------------------------------------------------------
(* The host: Obsidian and LiveSync on the other side of the bind mount.    *)

MayAct(n) ==
    /\ hostOps < MaxHostOps
    /\ HostInWindow \/ \A a \in Appenders : ~(pc[a] = "replace" /\ path[a] = n)
    /\ hostOps' = hostOps + 1

HostUnchanged ==
    UNCHANGED <<lock, pc, create, tmp, append, outcome, landed, failed,
                faults, crashes>>

\* A save in place: a text is added, or the last one is exchanged.
HostEdit(n) ==
    /\ MayAct(n) /\ KindAt(n) = "regular"
    /\ LET i == dir[n]
           d == file[i].data
       IN \E new \in {Append(d, "Host"),
                      [k \in 1..Len(d) |-> IF k = Len(d) THEN "Host" ELSE d[k]]},
             t \in NewMtimes(i) :
            file' = [file EXCEPT ![i] = [data |-> new, mtime |-> t,
                                         kind |-> "regular", synced |-> TRUE]]
    /\ UNCHANGED <<dir, survive>> /\ HostUnchanged

\* A new file under the name, or renamed over what is there.
HostPut(n) ==
    /\ MayAct(n)
    /\ \E i \in FreeInodes, k \in HostKinds : \E t \in NewMtimes(i) :
         /\ file' = [file EXCEPT ![i] = [data |-> <<"Host">>, mtime |-> t,
                                         kind |-> k, synced |-> TRUE]]
         /\ SetEntry(n, i)
    /\ HostUnchanged

HostDelete(n) ==
    /\ MayAct(n) /\ dir[n] # None
    /\ SetEntry(n, None)
    /\ UNCHANGED file /\ HostUnchanged

\* .append.lock is removed (the next append creates another one) or replaced.
HostSwapsLock ==
    /\ lockFile <= MaxLockRemovals
    /\ lockFile' = lockFile + 1
    /\ lockKind' \in {"regular"} \union HostKinds
    /\ UNCHANGED <<fs, pc, create, tmp, append, outcome, landed, failed, used>>

-----------------------------------------------------------------------------
CreateStep(c) == Link(c) \/ LinkExists(c)

AppendStep(a) ==
    \/ ResolveStrict(a) \/ IsRegular(a)
    \/ OpenLock(a) \/ AcquireLock(a) \/ PollLock(a)
    \/ OpenTarget(a) \/ ReadChunk(a) \/ ReadEnd(a)
    \/ CheckIdentity(a) \/ Replace(a) \/ Unlock(a)

SharedStep(r) ==
    OpenTemp(r) \/ WriteTemp(r) \/ SyncDirectory(r) \/ Stat(r) \/ UnlinkTemp(r)

\* The next step of a request that is running.
Step(r) ==
    \/ SharedStep(r)
    \/ r \in Creators /\ CreateStep(r)
    \/ r \in Appenders /\ AppendStep(r)

Arrive(r) ==
    \/ Refuse(r)
    \/ r \in Creators /\ StartCreate(r)
    \/ r \in Appenders /\ IsSymlink(r)

Failure(r) == SystemCallFails(r) \/ FchmodFails(r) \/ UnlinkFails(r)

HostStep == (\E n \in Names : HostEdit(n) \/ HostPut(n) \/ HostDelete(n))
            \/ HostSwapsLock

\* With every request answered the process waits for the next one.
Idle == (\A r \in Requests : pc[r] \in {"done", "dead"}) /\ UNCHANGED vars

Next ==
    \/ \E r \in Requests : Arrive(r) \/ Step(r) \/ Failure(r)
    \/ ProcessCrash \/ PowerLoss
    \/ HostStep
    \/ Idle

\* A worker thread that is not stuck in a system call gets to run; nothing is
\* assumed of arrivals, failures, the host, or a request that hangs.
Fairness == \A r \in Requests \ Hung : WF_vars(Step(r))

Spec == Init /\ [][Next]_vars /\ Fairness
=============================================================================
