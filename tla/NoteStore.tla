------------------------------ MODULE NoteStore ------------------------------
(***************************************************************************)
(* What the write operations promise their callers, with every write one   *)
(* step: a note is created under a free name or extended by one text, each *)
(* request does so at most once, and its answer says truly whether it did. *)
(* The host owns the vault too and may change any note at any time.        *)
(*                                                                         *)
(* InboxWrites implements this (InboxSafety!ImplementsNoteStore) as long   *)
(* as the host keeps out of the window append_inbox_note leaves open.      *)
(***************************************************************************)
EXTENDS Sequences

CONSTANTS
    Creators, Appenders, Names, Target, Refusals,
    Redirects  \* the host may put a symlink at a name while it is looked up

VARIABLES note,      \* name in use -> the note's texts
          applied,   \* requests that have taken effect
          answer     \* request -> its answer, "none" before

store == <<note, applied, answer>>

Requests == Creators \union Appenders

Init == applied = {} /\ answer = [r \in Requests |-> "none"]

\* A new note, never over an existing one.
Create(c, n) ==
    /\ c \notin applied /\ answer[c] = "none"
    /\ n \notin DOMAIN note
    /\ note' = [m \in DOMAIN note \union {n} |-> IF m = n THEN <<c>> ELSE note[m]]
    /\ applied' = applied \union {c}
    /\ UNCHANGED answer

\* What the note holds at this moment, and one text more.  The note is the one
\* addressed, unless the host redirects the name.
Extend(a, n) ==
    /\ n = Target[a] \/ Redirects
    /\ a \notin applied /\ answer[a] = "none"
    /\ n \in DOMAIN note
    /\ note' = [note EXCEPT ![n] = Append(@, a)]
    /\ applied' = applied \union {a}
    /\ UNCHANGED answer

\* "ok" only after the effect, a refusal only without it; INTERNAL_ERROR
\* leaves the caller in doubt.
Reply(r, x) ==
    /\ answer[r] = "none" /\ answer' = [answer EXCEPT ![r] = x]
    /\ x = "ok" => r \in applied
    /\ x \in Refusals => r \notin applied
    /\ UNCHANGED <<note, applied>>

\* The host, or a power loss, changes notes; it answers for nobody.
Environment == UNCHANGED <<applied, answer>>

Next ==
    \/ \E c \in Creators, n \in Names : Create(c, n)
    \/ \E a \in Appenders, n \in Names : Extend(a, n)
    \/ \E r \in Requests, x \in Refusals \union {"ok", "INTERNAL_ERROR"} : Reply(r, x)
    \/ Environment

Spec == Init /\ [][Next]_store
=============================================================================
