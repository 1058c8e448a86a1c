---------------------------- MODULE MCDuplicates ----------------------------
(* An inbox of three notes, one of which may be a folder, a symlink or a   *)
(* socket, an entry whose name append_inbox_note refuses, a hidden file and*)
(* one without .md; every line of the confidence table of ADR 0007 occurs  *)
(* among them, and half of two keywords, which is less than the two needed.*)
EXTENDS DuplicateScan, TLC

\* "Rtx", the same in lower case, a file name with the suffix of a second
\* note, a real title that only looks like that, and an unrelated one.
MCTitles == {"Rtx", "rtx", "rtx-2", "Other"}
MCFold == ("Rtx" :> "rtx") @@ ("rtx" :> "rtx") @@ ("rtx-2" :> "rtx-2") @@ ("Other" :> "Other")
MCStrip == ("Rtx" :> "Rtx") @@ ("rtx" :> "rtx") @@ ("rtx-2" :> "rtx") @@ ("Other" :> "Other")
MCStem == (1 :> "rtx-2") @@ (2 :> "Other") @@ (3 :> "rtx") @@ (4 :> "Other")
            @@ (5 :> "Other") @@ (6 :> "Other")

MCKeywords == {"a", "b", "c", "d", "e"}
MCProjects == {"p"}

Note(title, project, words, mtime) ==
    [kind |-> "note", title |-> title, project |-> project, words |-> words, mtime |-> mtime]
Other(kind) ==
    [kind |-> kind, title |-> None, project |-> None, words |-> {}, mtime |-> 1]

Exact == Note("Rtx", None, {}, 1)
NoTitle == Note(None, None, {}, 2)
Project == Note("Other", "p", {"a", "b"}, 1)

MCContents ==
    (1 :> {Exact, NoTitle}) @@
    (2 :> {Exact, Project, Note("rtx", "p", {"a"}, 2), Note("rtx-2", None, {}, 1),
           Note("Other", "p", {"a"}, 1), Note("Other", None, {"a", "b"}, 1)}) @@
    (3 :> {Note("rtx", None, MCKeywords, 2), Note("Other", None, MCKeywords, 1),
           Other("folder"), Other("special"), [Project EXCEPT !.kind = "symlink"]}) @@
    (4 :> {Exact}) @@ (5 :> {Exact}) @@ (6 :> {Other("folder")})

MCRequest(project, keywords, limit) ==
    [title |-> "Rtx", project |-> project, keywords |-> keywords, limit |-> limit]
MCRequests == {MCRequest("p", {"a", "b", "c"}, 1), MCRequest(None, {"a", "b"}, 2),
               MCRequest("p", MCKeywords, 2)}
=============================================================================
