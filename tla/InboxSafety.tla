----------------------------- MODULE InboxSafety -----------------------------
(***************************************************************************)
(* What the inbox writes of InboxWrites guarantee, and under which host.   *)
(***************************************************************************)
EXTENDS InboxWrites

FileRecord == [data : Seq(Texts), mtime : Nat, kind : Kinds, synced : BOOLEAN]
IdentityRecord == [ino : Entry, mtime : Nat, size : Nat]

\* Every variable has its type: inode numbers, texts and steps are the
\* program's (app/services/inbox_service.py as a whole).
TypeOK ==
    /\ dir \in [Names -> Entry]
    /\ file \in [Inodes -> FileRecord]
    /\ survive \in [Names -> SUBSET Entry]
    /\ lockFile \in Nat \ {0} /\ lockKind \in Kinds
    /\ pc \in [Requests -> Locked \union
                 {"start", "resolve", "isreg", "lock", "poll", "link", "stat",
                  "done", "dead"}]
    /\ seq \in [Creators -> 1..MaxSequenceAttempts]
    /\ temp \in [Requests -> Entry] /\ tempFd \in [Requests -> Entry]
    /\ path \in [Appenders -> Names]
    /\ lockFd \in [Appenders -> Nat]
    /\ polls \in [Appenders -> 0..MaxPolls]
    /\ before \in [Appenders -> IdentityRecord]
    /\ existing \in [Appenders -> Seq(Texts)]
    /\ outcome \in [Requests -> Answers \union {"none"}]
    /\ landed \in [Requests -> Names \union {None}]
    /\ failed \in [Requests -> SUBSET {"fchmod", "unlink"}]
    /\ hostOps \in Nat /\ faults \in Nat /\ crashes \in Nat

-----------------------------------------------------------------------------
InUse == {n \in Names : dir[n] # None}
Note(n) == file[dir[n]].data
TextsOf(i) == {file[i].data[k] : k \in 1..Len(file[i].data)}
Refusals == Answers \ {"ok", "INTERNAL_ERROR"}

\* No request that os.link()s a new note changes what is at any name in use:
\* "a new note can never be created by overwriting an existing one", with
\* every interleaving of creates that share candidate names, appends and host.
NewNoteNeverOverwrites ==
    [][\A c \in Creators : landed'[c] # landed[c] =>
          \A n \in InUse : dir'[n] # None /\ Note(n)' = Note(n)]_vars

IsExtension(old, new) ==
    Len(old) <= Len(new) /\ \A k \in 1..Len(old) : new[k] = old[k]

\* No step of the gateway loses a text: a note that is there stays there, and
\* what it holds now starts with what it held, although append_inbox_note
\* writes back bytes it read many steps, and many host edits, before.  Needs a
\* fine clock, a lock file that stays, and a host out of the window between
\* lstat and os.replace.
NoTextLost ==
    [][hostOps' = hostOps /\ crashes' = crashes =>
          \A n \in InUse : dir'[n] # None /\ IsExtension(Note(n), Note(n)')]_vars

\* "os.link() remains the only way a new file name comes into existence in the
\* inbox" (docs/adr/0003-allow-os-replace-for-inbox-append.md), the host and
\* power losses aside: no append brings back a note that is gone.
OnlyLinkCreatesNames ==
    [][hostOps' = hostOps /\ crashes' = crashes =>
          \A n \in InUse' \ InUse :
              \E c \in Creators : pc[c] = "link" /\ landed'[c] = n]_vars

\* No reader, not even one after a power loss, finds a half-written note at a
\* note's name: whatever entry survives leads to fsynced data.
NotesAreWhole ==
    \A n \in Names : \A i \in survive[n] \ {None} : file[i].synced

\* A text whose request was answered "ok" and that is still in a note is in
\* that note after a power loss too (_fsync_directory before the answer).
AnsweredIsDurable ==
    \A r \in Requests, n \in InUse :
        outcome[r] = "ok" /\ r \in TextsOf(dir[n]) =>
            \A i \in survive[n] : i # None /\ r \in TextsOf(i)

\* A request refused with anything but INTERNAL_ERROR has left no text in any
\* note, nor in one a power loss could bring back: the caller may retry it.
RefusedLeavesNoTrace ==
    \A r \in Requests : outcome[r] \in Refusals =>
        \A n \in Names : \A i \in survive[n] \ {None} : r \notin TextsOf(i)

\* An answered request has removed its temp file and closed what it opened,
\* whichever early return, timeout or failing system call ended it, with two
\* exceptions the code has: a .tmp- file stays if its unlink itself raises, and
\* the temp file's descriptor if os.fchmod does (_write_temp_bytes).  Each needs
\* its own call to fail: no other failure, before or after, leaves anything.
AnsweredHoldsNothing ==
    \A r \in Requests : pc[r] = "done" =>
        /\ temp[r] # None => "unlink" \in failed[r]
        /\ tempFd[r] # None => "fchmod" \in failed[r]
        /\ r \in Appenders => lockFd[r] = 0

\* The identity re-check works without the append lock: when lstat agrees with
\* the fstat at open, the note holds exactly the bytes that were read in chunks
\* in between and are about to be written back, also when .append.lock was
\* replaced and two appends run at once, each freeing and reusing inodes.
CheckedIsWhatWasRead ==
    [][\A a \in Appenders : pc[a] = "check" /\ pc'[a] = "replace" =>
          path[a] \in InUse /\ Note(path[a]) = existing[a]]_vars

\* Every request is answered, or dies in a crash, even if another one hangs in
\* the kernel with the append lock held (_LOCK_TIMEOUT_SECONDS).
EveryRequestReturns == \A r \in Requests \ Hung : InFlight(r) ~> ~InFlight(r)

-----------------------------------------------------------------------------
\* The refinement: every write takes effect in its one link or replace.
Store == INSTANCE NoteStore
             WITH note <- [n \in InUse |-> Note(n)],
                  applied <- {r \in Requests : landed[r] # None},
                  answer <- [r \in Requests |->
                                IF pc[r] = "done" THEN outcome[r] ELSE "none"],
                  Redirects <- "symlink" \in HostKinds

\* The inbox writes implement the abstract note store.
ImplementsNoteStore == Store!Spec
=============================================================================
