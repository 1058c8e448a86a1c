------------------------------ MODULE VaultReads ------------------------------
(***************************************************************************)
(* The tools that read the vault, one call of one of them: read_note, the  *)
(* related notes of create_inbox_note, and get_vault_summary.              *)
(* (note_service.py, related_notes.py, vault_service.py and what they use  *)
(* of path_security.py and markdown_parser.py.)                            *)
(*                                                                         *)
(* Each system call is a step, the lstats of one path together, and the    *)
(* host may change the vault between any two of them.  It makes no links.  *)
(* A note is the length of its frontmatter block (0 if it has none that    *)
(* parses to a mapping), its size, the heap and the tags in the block, and *)
(* its mtime.                                                              *)
(***************************************************************************)
EXTENDS Integers, SequenceOperators

CONSTANTS
    Order,          \* every path below the root, in the order of names
    Root,           \* the vault itself
    Parent,         \* path -> the folder it is in
    Above,          \* path -> its components: itself and the folders it is in
    Hidden,         \* paths whose last name begins with a dot
    Markdown,       \* paths that end in .md
    Renderable,     \* paths that is_renderable_wikilink_target accepts
    Fold,           \* tag -> its folded form, a rank in the order of names
    MaxNoteBytes,   \* max_note_size_bytes
    MaxBlockChars,  \* MAX_FRONTMATTER_READ_CHARS
    MaxLinks,       \* MAX_RELATED_NOTES
    Converted(_),   \* heap -> what to_json_safe makes of it, <<>> if it raises
    HostEntries,    \* what the host may put in place of a note
    MaxHostOps,     \* bound on the host's changes
    MaxFaults,      \* bound on system calls that fail
    None            \* nothing there, no answer

Paths == ToSet(Order)

\* Without a block a note has no tags.
IsNote(e) ==
    /\ e.kind = "note" /\ e.front \in Nat /\ e.size \in Nat /\ e.mtime \in Nat
    /\ e.tags \in Seq(DOMAIN Fold) /\ (e.front = 0 => e.tags = <<>>)

\* The components of a path are a chain from the vault down to it.
ASSUME ReadsAssumption ==
    /\ Order \in Seq(Paths) /\ \A j, k \in 1..Len(Order) : Order[j] = Order[k] => j = k
    /\ Root \notin Paths /\ DOMAIN Parent = Paths
    /\ Above \in [Paths -> SUBSET Paths]
    /\ \A p \in Paths :
         /\ Parent[p] \in Paths \union {Root}
         /\ Above[p] = {p} \union (IF Parent[p] = Root THEN {} ELSE Above[Parent[p]])
         /\ Parent[p] # Root => p \notin Above[Parent[p]]
         /\ \A q \in Above[p] : Above[q] \subseteq Above[p]
         /\ \A q, r \in Above[p] : Parent[q] = Parent[r] => q = r
         /\ \A x \in (Above[p] \ {p}) \union {Root} : \E q \in Above[p] : Parent[q] = x
    /\ \A e \in HostEntries : e # None /\ IsNote(e)
    /\ Hidden \union Markdown \union Renderable \subseteq Paths
    /\ IsFiniteSet(DOMAIN Fold) /\ \A t \in DOMAIN Fold : Fold[t] \in Nat
    /\ {MaxNoteBytes, MaxBlockChars, MaxLinks, MaxHostOps, MaxFaults} \subseteq Nat

VARIABLES
    vault,    \* path -> the entry there, or None
    call,     \* the call: its tool and its arguments
    pc,       \* where it is
    at,       \* related notes: the candidate at hand
    links,    \* related notes: links
    stat,     \* the entry as os.stat saw it last
    walk,     \* summary: the folders still to scan, the next first
    files,    \* summary: the notes of the folder at hand still to visit
    counted,  \* summary: the notes taken in so far, as [path, stat, tags]
    skipped,  \* summary: walk_stats.skipped + read_failures
    answer,   \* what the tool returned or raised
    had,      \* history: path -> everything there during the call
    used      \* history: what is used of the bounds

readVars == <<vault, call, pc, at, links, stat, walk, files, counted, skipped,
              answer, had, used>>
locals == <<at, links, stat, walk, files, counted, skipped>>

-----------------------------------------------------------------------------
(* The host and the disk.                                                  *)

Present == {p \in Paths : vault[p] # None}
Is(p, kind) == p \in Present /\ vault[p].kind = kind
Within(folder) == {p \in Paths : folder \in Above[p]}

\* Obsidian or LiveSync writes a note, or deletes a note or a folder.  What was
\* below what is deleted or written over is gone.
HostStep(new) ==
    /\ used.host < MaxHostOps
    /\ vault' = new
    /\ had' = [p \in Paths |-> had[p] \union {new[p]}]
    /\ used' = [used EXCEPT !.host = @ + 1]
    /\ UNCHANGED <<call, pc, answer, locals>>

HostWrite(p, entry) ==
    /\ p \in Markdown
    /\ Parent[p] = Root \/ Is(Parent[p], "folder")
    /\ ~Is(p, "folder") /\ vault[p] # entry
    /\ HostStep([q \in Paths |-> IF q = p THEN entry ELSE IF q \in Within(p) THEN None ELSE vault[q]])

HostDelete(p) ==
    /\ p \in Present
    /\ HostStep([q \in Paths |-> IF q \in Within(p) THEN None ELSE vault[q]])

\* A system call that fails although its path is as it should be.
Fails == used.faults < MaxFaults /\ used' = [used EXCEPT !.faults = @ + 1]
FailsToScan(folder) ==
    used.faults < MaxFaults
    /\ used' = [used EXCEPT !.faults = @ + 1, !.blind = @ \union {folder}]

Goto(step) == pc' = step /\ UNCHANGED <<vault, call, had>>
Answer(a) == answer' = a /\ Goto("done")

-----------------------------------------------------------------------------
(* resolve_read_path, for read_note and for each related note.             *)

Candidate == IF call.tool = "read_note" THEN call.path ELSE call.candidates[at]

\* A refusal, and any other exception: read_note fails either way.  For a
\* related note, a refusal or a file that is gone means no link; the rest is
\* not about the candidate.
Refused(code) ==
    IF call.tool = "read_note"
      THEN Answer([error |-> code]) /\ UNCHANGED locals
      ELSE at' = at + 1 /\ Goto("candidate")
           /\ UNCHANGED <<links, stat, walk, files, counted, skipped, answer>>

\* Mutant of Gone: a file that is gone is an error like any other.
GoneForGood == Answer([error |-> "INTERNAL_ERROR"]) /\ UNCHANGED locals

Gone == Refused("INTERNAL_ERROR")

Raised == Fails /\ Answer([error |-> "INTERNAL_ERROR"]) /\ UNCHANGED locals

\* Syntax, then each component: nothing hidden, nothing linked.
CheckPath ==
    /\ pc = "check"
    /\ IF Above[Candidate] \intersect Hidden # {} THEN Refused("INVALID_PATH")
       ELSE IF Candidate \notin Markdown THEN Refused("INVALID_FILE_TYPE")
       ELSE IF \E q \in Above[Candidate] : Is(q, "symlink") THEN Refused("INVALID_PATH")
       ELSE Goto("resolve") /\ UNCHANGED <<locals, answer>>
    /\ UNCHANGED used

ResolveStrict ==
    /\ pc = "resolve"
    /\ IF Candidate \notin Present THEN Refused("NOTE_NOT_FOUND")
       ELSE Goto("kind") /\ UNCHANGED <<locals, answer>>
    /\ UNCHANGED used

ResolveFails ==
    pc = "resolve" /\ Candidate \in Present /\ Fails /\ Refused("INVALID_PATH")

\* The stat after resolve() is outside of its try.
CheckKind ==
    /\ pc = "kind"
    /\ IF Candidate \notin Present THEN Gone
       ELSE IF ~Is(Candidate, "note") THEN Refused("INVALID_FILE_TYPE")
       ELSE Goto(IF call.tool = "read_note" THEN "stat" ELSE "link")
            /\ UNCHANGED <<locals, answer>>
    /\ UNCHANGED used

CheckKindFails == pc = "kind" /\ Candidate \in Present /\ Raised

-----------------------------------------------------------------------------
(* read_note.                                                              *)

\* path.stat(), for the size limit and modified_at.
StatNote ==
    /\ pc = "stat"
    /\ IF Candidate \notin Present THEN Gone
       ELSE stat' = vault[Candidate] /\ Goto("read")
            /\ UNCHANGED <<at, links, walk, files, counted, skipped, answer>>
    /\ UNCHANGED used

StatNoteFails == pc = "stat" /\ Candidate \in Present /\ Raised

\* Mutant of BytesRead: read() is always given the limit.
BytesReadCapped(truncated, size) == Min({MaxNoteBytes, size})

\* handle.read(max_bytes) if truncated else handle.read().
BytesRead(truncated, size) == IF truncated THEN Min({MaxNoteBytes, size}) ELSE size

\* _split_frontmatter: the body begins after the block if its end was read.
BodyStart(note, read) == IF note.front <= read THEN note.front ELSE 0

\* A heap that does not fit is like no metadata, but its block is no body.
Frontmatter(note, read) ==
    IF BodyStart(note, read) = 0 THEN <<>> ELSE Converted(note.heap)

\* Lengths are in whole characters: a cut within one, whose rest the code takes
\* off, is the cut before it.
ReadText ==
    /\ pc = "read"
    /\ IF ~Is(Candidate, "note") THEN Gone
       ELSE LET note == vault[Candidate]
                truncated == stat.size > MaxNoteBytes
                read == BytesRead(truncated, note.size)
            IN Answer([frontmatter |-> Frontmatter(note, read), of |-> note,
                       from |-> BodyStart(note, read), to |-> read,
                       truncated |-> truncated, modified_at |-> stat.mtime])
               /\ UNCHANGED locals
    /\ UNCHANGED used

ReadTextFails == pc = "read" /\ Candidate \in Present /\ Raised

-----------------------------------------------------------------------------
(* create_chat_export_note: resolve_related_notes, then the note.          *)

\* Mutant of Linkable: only rendering looks at the name.
LinkableAny(p) == TRUE

Linkable(p) == p \in Renderable

\* Rendering filters once more (_render_related_notes_section).
Rendered == Cardinality({k \in 1..Len(links) : links[k] \in Renderable})

\* One turn of the loop: the cap, the name, and on to resolve_read_path.
NextCandidate ==
    /\ pc = "candidate"
    /\ IF at > Len(call.candidates) \/ Len(links) >= MaxLinks
         THEN Goto("create") /\ UNCHANGED <<at, answer>>
       ELSE IF ~Linkable(call.candidates[at])
         THEN at' = at + 1 /\ Goto("candidate") /\ UNCHANGED answer
       ELSE Goto("check") /\ UNCHANGED <<at, answer>>
    /\ UNCHANGED <<links, stat, walk, files, counted, skipped, used>>

Link ==
    /\ pc = "link"
    /\ links' = IF Candidate \in ToSet(links) THEN links ELSE Append(links, Candidate)
    /\ at' = at + 1
    /\ Goto("candidate")
    /\ UNCHANGED <<stat, walk, files, counted, skipped, answer, used>>

\* What creates the note is InboxWrites; here it is written.
CreateNote ==
    /\ pc = "create"
    /\ Answer([linked |-> Len(links), skipped |-> Len(call.candidates) - Len(links),
               links |-> links, rendered |-> Rendered])
    /\ UNCHANGED <<locals, used>>

-----------------------------------------------------------------------------
(* summarise_vault over iter_vault_notes.                                  *)

Entries(folder) == {p \in Present : Parent[p] = folder}
Sorted(set) == Those(Order, LAMBDA p : p \in set)

\* Mutant of Subfolders: hidden folders are walked like any other.
SubfoldersAll(folder) == {p \in Entries(folder) : Is(p, "folder")}

\* dirnames, pruned; folders that are links are pruned as well.
Subfolders(folder) == {p \in Entries(folder) : Is(p, "folder")} \ Hidden

Filenames(folder) == (Entries(folder) \intersect Markdown)
                     \ (Hidden \union {p \in Paths : Is(p, "folder")})

\* os.walk: a folder that is gone or cannot be scanned is passed over.
ScanFolder ==
    /\ pc = "walk" /\ files = <<>> /\ walk # <<>>
    /\ LET folder == Head(walk) IN
       IF folder = Root \/ Is(folder, "folder")
         THEN files' = Sorted(Filenames(folder))
              /\ walk' = Sorted(Subfolders(folder)) \o Tail(walk)
         ELSE walk' = Tail(walk) /\ UNCHANGED files
    /\ Goto("walk") /\ UNCHANGED <<at, links, stat, counted, skipped, answer, used>>

ScanFolderFails ==
    /\ pc = "walk" /\ files = <<>> /\ walk # <<>> /\ FailsToScan(Head(walk))
    /\ walk' = Tail(walk)
    /\ Goto("walk") /\ UNCHANGED <<at, links, stat, files, counted, skipped, answer>>

\* Not yielded, or not read; counted unless it is a symlink.
PassOver(n) ==
    /\ skipped' = skipped + n /\ files' = Tail(files) /\ Goto("walk")
    /\ UNCHANGED <<at, links, stat, walk, counted, answer>>

StatFile ==
    /\ pc = "walk" /\ files # <<>>
    /\ IF Is(Head(files), "symlink") THEN PassOver(0)
       ELSE IF ~Is(Head(files), "note") THEN PassOver(1)
       ELSE stat' = vault[Head(files)] /\ Goto("block")
            /\ UNCHANGED <<at, links, walk, files, counted, skipped, answer>>
    /\ UNCHANGED used

StatFileFails == pc = "walk" /\ files # <<>> /\ ~Is(Head(files), "symlink") /\ Fails /\ PassOver(1)

\* read_frontmatter_text: nothing when the block is too long, in characters or
\* in lines (front is by whichever of the two limits it comes closer to).
BlockTags(note) == IF note.front \in 1..MaxBlockChars THEN note.tags ELSE <<>>

\* Size and mtime are those of the stat, the tags those of the read.
ReadBlock ==
    /\ pc = "block"
    /\ IF ~Is(Head(files), "note") THEN PassOver(1) /\ UNCHANGED used
       ELSE /\ counted' = Append(counted, [path |-> Head(files), stat |-> stat,
                                           tags |-> BlockTags(vault[Head(files)])])
            /\ files' = Tail(files) /\ Goto("walk")
            /\ UNCHANGED <<at, links, stat, walk, skipped, answer, used>>

ReadBlockFails == pc = "block" /\ Fails /\ PassOver(1)

\* The folder right below the root that p is in.
TopFolder(p) == CHOOSE q \in Above[p] : Parent[q] = Root

\* A note that has two tags with one folded form counts twice for it.
Uses(tag, notes) ==
    SumOf(LAMBDA note : Cardinality({k \in 1..Len(note.tags) : Fold[note.tags[k]] = tag}), notes)

\* Mutant of TopTags: the order of names alone.
TopTagsByName(uses, limit) ==
    {t \in DOMAIN uses : uses[t] > 0 /\ Cardinality({u \in DOMAIN uses : u < t}) < limit}

\* The first `limit' tags, the most used first.
TopTags(uses, limit) ==
    {t \in DOMAIN uses :
        /\ uses[t] > 0
        /\ Cardinality({u \in DOMAIN uses :
                          uses[u] > uses[t] \/ (uses[u] = uses[t] /\ u < t)}) < limit}

Summary(notes) ==
    LET inFolder == {k \in 1..Len(notes) : Parent[notes[k].path] # Root}
        uses == [t \in {Fold[x] : x \in DOMAIN Fold} |-> Uses(t, notes)]
    IN [note_count |-> Len(notes),
        total_bytes |-> SumOf(LAMBDA note : note.stat.size, notes),
        folder_count |-> Cardinality({Parent[notes[k].path] : k \in inFolder}),
        top_level |-> [f \in {q \in Paths : Parent[q] = Root} |->
                         Cardinality({k \in inFolder : TopFolder(notes[k].path) = f})],
        tags |-> [t \in TopTags(uses, call.top_tags_limit) |-> uses[t]],
        last_modified |-> Max({0} \union {n.stat.mtime : n \in ToSet(notes)}),
        skipped_count |-> skipped]

Summarise ==
    /\ pc = "walk" /\ files = <<>> /\ walk = <<>>
    /\ Answer(Summary(counted))
    /\ UNCHANGED <<locals, used>>

-----------------------------------------------------------------------------
StartOf == [read_note |-> "check", create |-> "candidate", summary |-> "walk"]

InitReads ==
    /\ pc = "idle" /\ at = 1 /\ links = <<>> /\ stat = None
    /\ walk = <<Root>> /\ files = <<>> /\ counted = <<>> /\ skipped = 0
    /\ answer = None /\ had = [p \in Paths |-> {vault[p]}]

StartTool == pc = "idle" /\ Goto(StartOf[call.tool]) /\ UNCHANGED <<locals, answer, used>>

ToolStep ==
    \/ CheckPath \/ ResolveStrict \/ ResolveFails \/ CheckKind \/ CheckKindFails
    \/ StatNote \/ StatNoteFails \/ ReadText \/ ReadTextFails
    \/ NextCandidate \/ Link \/ CreateNote
    \/ ScanFolder \/ ScanFolderFails \/ StatFile \/ StatFileFails
    \/ ReadBlock \/ ReadBlockFails \/ Summarise

HostChange == \E p \in Paths : HostDelete(p) \/ \E e \in HostEntries : HostWrite(p, e)
=============================================================================
