----------------------------- MODULE VaultSafety -----------------------------
(***************************************************************************)
(* What the reading tools promise of a vault that changes while they read. *)
(***************************************************************************)
EXTENDS VaultReads

CONSTANT Expected(_) \* heap -> the tree it stands for, <<>> if that is over budget

\* What notes there were at p during the call.
Notes(p) == {e \in had[p] \ {None} : e.kind = "note"}

\* p may be read, at least some of the time; it was a note all the time.
Visible(p) ==
    /\ p \in Markdown /\ Above[p] \intersect Hidden = {}
    /\ \A q \in Above[p] : \E e \in had[q] \ {None} : e.kind # "symlink"
Linked(p) == \E q \in Above[p] : \E e \in had[q] \ {None} : e.kind = "symlink"
Steady(p) == /\ p \in Markdown /\ Above[p] \intersect Hidden = {} /\ ~Linked(p)
             /\ \E e \in Notes(p) : had[p] = {e}

Answers(tool) == pc = "done" /\ call.tool = tool
Failed == "error" \in DOMAIN answer

-----------------------------------------------------------------------------
\* read_note answers with one note that was there during the call.  Unless it
\* says that it is truncated, all of its text is in the answer, and more than
\* the limit only if the note grew; a truncated answer has no more than the
\* limit, and the note was larger.  The frontmatter is the whole of the
\* parsed block, shared parts unfolded, or nothing if it does not fit the
\* budget or has a cycle.  A note that stays is never refused, and one that
\* goes is no other error than a missing one or an internal one
\* (note_service.read_note, markdown_parser.read_note_text, to_json_safe).
ReadIsFaithful ==
    Answers("read_note") =>
        IF Failed
          THEN /\ Steady(call.path) => used.faults > 0
               /\ Visible(call.path) /\ ~Linked(call.path) /\ used.faults = 0 =>
                    \/ answer.error \in {"NOTE_NOT_FOUND", "INTERNAL_ERROR"} /\ None \in had[call.path]
                    \/ answer.error = "INVALID_FILE_TYPE" /\ had[call.path] # Notes(call.path)
          ELSE LET note == answer.of
               IN /\ note \in Notes(call.path)
                  /\ IF answer.truncated
                       THEN /\ answer.to = Min({MaxNoteBytes, note.size})
                            /\ \E n \in Notes(call.path) : n.size > MaxNoteBytes
                       ELSE /\ answer.to = note.size
                            /\ \E n \in Notes(call.path) : n.size <= MaxNoteBytes
                  /\ answer.from \in {0, note.front}
                  /\ answer.frontmatter =
                       IF answer.from > 0 THEN Expected(note.heap) ELSE <<>>
                  /\ answer.from = 0 => note.front \notin 1..answer.to
                  /\ \E n \in Notes(call.path) : answer.modified_at = n.mtime

-----------------------------------------------------------------------------
\* One sequence is another with some elements left out.
InOrder(s, t) ==
    \E place \in [1..Len(s) -> 1..Len(t)] :
        /\ \A k \in 1..Len(s) : s[k] = t[place[k]]
        /\ \A j, k \in 1..Len(s) : j < k => place[j] < place[k]

\* Related notes never make create_inbox_note fail, unless the disk does;
\* every link was verified during the call, is rendered, and comes once and in
\* the client's order; what is not linked is counted as skipped, and a good
\* candidate is skipped only for the cap or a failing disk
\* (related_notes.resolve_related_notes, create_chat_export_note).
LinksAreVerified ==
    Answers("create") =>
        IF Failed THEN used.faults > 0
        ELSE LET links_ == answer.links
                 good == {p \in ToSet(call.candidates) : Steady(p) /\ p \in Renderable}
             IN /\ answer.linked = Len(links_) /\ answer.rendered = Len(links_)
                /\ answer.linked + answer.skipped = Len(call.candidates)
                /\ \A k \in 1..Len(links_) : Visible(links_[k]) /\ Notes(links_[k]) # {}
                /\ \A j, k \in 1..Len(links_) : j < k => links_[j] # links_[k]
                /\ InOrder(links_, call.candidates)
                /\ good \subseteq ToSet(links_) \/ Len(links_) = MaxLinks \/ used.faults > 0

-----------------------------------------------------------------------------
(* The summary.  Dark is what is below a folder that could not be scanned. *)

Dark == {p \in Paths : (Above[p] \union {Root}) \intersect used.blind # {}}

\* The notes that stay, and can be found; they are all counted if no system
\* call fails.
Staying == {p \in Paths : Steady(p)} \ Dark
Sure == IF used.faults = 0 THEN Staying ELSE {}

\* Where there was a note to count, and where there was something to pass over.
Countable == {p \in Paths : Visible(p) /\ Notes(p) # {}}
Doubtful == {p \in Markdown : /\ Above[p] \intersect Hidden = {} /\ ~Steady(p)
                              /\ \A e \in had[p] : had[p] # {e} \/ (e # None /\ e.kind # "symlink")}

SumOver(F(_), set) == SumOf(LAMBDA p : IF p \in set THEN F(p) ELSE 0, Order)
Labels(e, tag) ==
    IF e.front <= MaxBlockChars THEN Cardinality({k \in 1..Len(e.tags) : Fold[e.tags[k]] = tag}) ELSE 0
Tags == {Fold[x] : x \in DOMAIN Fold}

Largest(p) == Max({e.size : e \in Notes(p)})
Smallest(p) == Min({e.size : e \in Notes(p)})
Most(tag, p) == Max({Labels(e, tag) : e \in Notes(p)})
Least(tag, p) == Min({Labels(e, tag) : e \in Notes(p)})
AtLeast(tag) == SumOver(LAMBDA p : Least(tag, p), Sure)
AtMost(tag) == SumOver(LAMBDA p : Most(tag, p), Countable)

\* The folders of a set of paths, and those of it below a folder f.
FoldersOf(set) == {Parent[p] : p \in set} \ {Root}
In(f, set) == {p \in set : Parent[p] # Root /\ f \in Above[p]}

NotesFit ==
    /\ answer.note_count \in Cardinality(Sure)..Cardinality(Countable)
    /\ answer.note_count + answer.skipped_count >= Cardinality(Staying)
    /\ answer.skipped_count <= used.faults + Cardinality(Doubtful)

BytesFit == answer.total_bytes \in SumOver(Smallest, Sure)..SumOver(Largest, Countable)

FoldersFit ==
    /\ answer.folder_count \in Cardinality(FoldersOf(Sure))..Cardinality(FoldersOf(Countable))
    /\ \A f \in DOMAIN answer.top_level :
         answer.top_level[f] \in Cardinality(In(f, Sure))..Cardinality(In(f, Countable))

TagsFit ==
    /\ \A t \in DOMAIN answer.tags : answer.tags[t] \in AtLeast(t)..AtMost(t)
    /\ \A u \in Tags \ DOMAIN answer.tags :
         \/ AtLeast(u) = 0
         \/ /\ Cardinality(DOMAIN answer.tags) = call.top_tags_limit
            /\ \A t \in DOMAIN answer.tags : AtLeast(u) <= answer.tags[t]
    /\ Cardinality(DOMAIN answer.tags) <= call.top_tags_limit

\* 0 stands for no date: nothing was counted.
ModifiedFits ==
    /\ \/ answer.last_modified = 0
       \/ \E p \in Countable : \E e \in Notes(p) : e.mtime = answer.last_modified
    /\ \A p \in Sure : \E e \in Notes(p) : e.mtime <= answer.last_modified

\* get_vault_summary counts each note that stays exactly once, whatever the
\* host does to the others, and nothing that was never there: every number of
\* it lies between that of the notes which stay and that of all notes there
\* were.  A note that stays and is not counted was skipped, or its folder
\* could not be scanned.  The last change is that of a note there was, and no
\* earlier than those of the notes which stay.  No tag is left out but for
\* others that are used as much (vault_service.summarise_vault, path_security.iter_vault_notes).
SummaryFitsTheVault ==
    Answers("summary") /\ ~Failed =>
        NotesFit /\ BytesFit /\ FoldersFit /\ TagsFit /\ ModifiedFits
=============================================================================
