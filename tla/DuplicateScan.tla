---------------------------- MODULE DuplicateScan ----------------------------
(***************************************************************************)
(* find_duplicate_candidates: duplicate_notes.py over iter_directory of    *)
(* path_security.py.                                                       *)
(*                                                                         *)
(* One call lists the inbox, and then takes one entry after the other      *)
(* through is_symlink, is_dir, stat and open, each of which looks the name *)
(* up anew, while the host puts other notes, folders, symlinks and special *)
(* files there.  An entry's name is a number, its rank in the order of     *)
(* names.  A note is its frontmatter: title, project and the keywords of   *)
(* the request that occur in its title or tags; a symlink has those of its *)
(* target.  Titles are what one_line leaves of them; Fold and Strip say    *)
(* which of them are the same to normalized_title_key and without their -2.*)
(***************************************************************************)
EXTENDS Integers, FiniteSets

CONSTANTS
    Names,       \* ranks of the names in the inbox
    Hidden,      \* names that start with a dot
    OtherFiles,  \* names that do not end in .md
    Unusable,    \* names that normalise_relative_path refuses
    Titles,      \* titles and file name stems
    Fold,        \* title -> its normalized_title_key
    Strip,       \* stem -> the stem without its sequence suffix
    Stem,        \* name -> its stem
    Projects,    \* project keys
    Keywords,    \* keywords a request may have
    Mtimes,      \* modification times
    Contents,    \* name -> what may be there: notes and other entries
    Requests,    \* requests: title, project, keywords and limit
    None,        \* no entry, no title, no project
    MaxHostOps,  \* bound on the host's changes
    MaxFaults    \* bound on system calls that fail, and failed scans

Kinds == {"note", "folder", "symlink", "special"}
Entry == [kind : Kinds, title : Titles \union {None},
          project : Projects \union {None}, words : SUBSET Keywords, mtime : Mtimes]
SysCalls == {"is_symlink", "is_dir", "stat", "open"}
Request == [title : Titles, project : Projects \union {None},
            keywords : SUBSET Keywords, limit : Nat \ {0}]

ASSUME ScanAssumption ==
    /\ IsFiniteSet(Names) /\ Names \subseteq Nat /\ None \notin Names
    /\ Hidden \subseteq Names /\ OtherFiles \subseteq Names /\ Unusable \subseteq Names
    /\ None \notin Titles
    /\ None \notin [name : Names, at : SysCalls, mtime : Mtimes \union {None}]
    /\ Fold \in [Titles -> Titles] /\ Strip \in [Titles -> Titles]
    /\ Stem \in [Names -> Titles]
    /\ IsFiniteSet(Keywords) /\ Mtimes \subseteq Nat
    /\ \A n \in Names : Contents[n] \subseteq Entry /\ None \notin Contents[n]
    /\ Requests \subseteq Request
    /\ MaxHostOps \in Nat /\ MaxFaults \in Nat

VARIABLES
    inbox,    \* name -> the entry there, or None
    request,  \* the running request
    pc,       \* "start", "scan", "done" or "failed"
    todo,     \* listed names still to visit
    entry,    \* the entry in hand: its name, the next call, its st_mtime; or None
    scored,   \* candidates so far
    scanned,  \* scanned_count
    skipped,  \* skipped_count
    listed,   \* history: names os.scandir found
    read,     \* history: names whose frontmatter was read
    left,     \* history: names left out without a word
    odd,      \* history: names that were a folder or a symlink since then
    touched,  \* history: names that changed, or failed, since then
    used      \* what is used of the bounds

counters == <<scored, scanned, skipped, read, left>>
host == <<inbox, request, listed, odd>>
vars == <<pc, todo, entry, touched, used, counters, host>>

-----------------------------------------------------------------------------
(* How much a note looks like the request.                                 *)

\* Mutant of TitleSignal: the -2 of any title is stripped.
TitleSignalAnySuffix(n, c) ==
    LET shown == IF c.title # None THEN c.title ELSE Stem[n] IN
    IF c.title # None /\ c.title = request.title THEN "exact_title"
    ELSE IF Fold[request.title] \in {Fold[shown], Fold[Strip[shown]]}
      THEN "normalized_title"
    ELSE "none"

\* Exact before normalized; only a file name loses its sequence suffix.
TitleSignal(n, c) ==
    LET shown == IF c.title # None THEN c.title ELSE Stem[n]
        variants == {Fold[shown]} \union
                      (IF c.title # None THEN {} ELSE {Fold[Strip[shown]]})
    IN IF c.title # None /\ c.title = request.title THEN "exact_title"
       ELSE IF Fold[request.title] \in variants THEN "normalized_title"
       ELSE "none"

\* Two notes without a project do not share one.
ProjectMatch(c) == request.project # None /\ c.project = request.project

Matched(c) == Cardinality(c.words \intersect request.keywords)

\* max(2, ceil(total / 2))
Threshold(total) ==
    LET half == (total + 1) \div 2 IN IF half > 2 THEN half ELSE 2

\* _confidence over the title signal, the project match and the two counts.
Confidence(signal, project, matched, total) ==
    IF signal = "exact_title" THEN "high"
    ELSE IF signal = "normalized_title" THEN (IF project THEN "high" ELSE "medium")
    ELSE IF project THEN (IF matched >= 2 THEN "medium" ELSE "none")
    ELSE IF matched >= Threshold(total) THEN "low"
    ELSE "none"

Judge(n, c) == Confidence(TitleSignal(n, c), ProjectMatch(c), Matched(c),
                          Cardinality(request.keywords))

TitleScore(signal) ==
    CASE signal = "exact_title" -> 400
      [] signal = "normalized_title" -> 300
      [] OTHER -> 0

Score(n, c) == TitleScore(TitleSignal(n, c)) + Matched(c) * 20
               + (IF ProjectMatch(c) THEN 100 ELSE 0)

Rank(confidence) ==
    CASE confidence = "high" -> 0 [] confidence = "medium" -> 1 [] OTHER -> 2

-----------------------------------------------------------------------------
(* The answer.                                                             *)

\* Mutant of Before: the score decides, as in search_notes.
BeforeByScore(x, y) ==
    \/ x.score > y.score
    \/ x.score = y.score /\ (x.mtime > y.mtime \/ (x.mtime = y.mtime /\ x.name < y.name))

\* The sort key: (rank, -score, -mtime, relative).
Before(x, y) ==
    \/ Rank(x.confidence) < Rank(y.confidence)
    \/ /\ Rank(x.confidence) = Rank(y.confidence)
       /\ \/ x.score > y.score
          \/ /\ x.score = y.score
             /\ x.mtime > y.mtime \/ (x.mtime = y.mtime /\ x.name < y.name)

Position(x) == Cardinality({y \in scored : Before(y, x)})

\* scored[:limit]
Candidates == {x \in scored : Position(x) < request.limit}

HowMany(S, confidence) == Cardinality({x \in S : x.confidence = confidence})

\* Mutant of Recommendation: it is made from the candidates that are returned.
RecommendationOfPage ==
    LET high == HowMany(Candidates, "high")
        medium == HowMany(Candidates, "medium")
    IN IF high = 0 /\ medium = 0 THEN "create"
       ELSE IF high = 1 /\ medium = 0 THEN "confirm" ELSE "choose"

\* Made from every match, before limit cuts the list.
Recommendation ==
    LET high == HowMany(scored, "high")
        medium == HowMany(scored, "medium")
    IN IF high = 0 /\ medium = 0 THEN "create"
       ELSE IF high = 1 /\ medium = 0 THEN "confirm" ELSE "choose"

-----------------------------------------------------------------------------
Kind(n) == IF inbox[n] = None THEN "gone" ELSE inbox[n].kind

Init ==
    /\ inbox \in [Names -> UNION {Contents[n] : n \in Names} \union {None}]
    /\ \A n \in Names : inbox[n] \in Contents[n] \union {None}
    /\ request \in Requests
    /\ pc = "start"
    /\ todo = {} /\ entry = None
    /\ scored = {} /\ scanned = 0 /\ skipped = 0
    /\ listed = {} /\ read = {} /\ left = {} /\ odd = {} /\ touched = {}
    /\ used = [host |-> 0, faults |-> 0]

Fault == used.faults < MaxFaults /\ used' = [used EXCEPT !.faults = @ + 1]

\* resolve_read_dir and os.scandir.
List ==
    /\ pc = "start" /\ pc' = "scan"
    /\ listed' = {n \in Names : inbox[n] # None}
    /\ todo' = listed'
    /\ odd' = {n \in Names : Kind(n) \in {"folder", "symlink"}}
    /\ UNCHANGED <<inbox, request, entry, touched, used, counters>>

\* stats.scan_failed: an error, where an empty list would say "create".
ListFails ==
    /\ pc = "start" /\ Fault /\ pc' = "failed"
    /\ UNCHANGED <<todo, entry, touched, counters, host>>

\* What becomes of the entry in hand: it goes on to its next call, it is left
\* out without a word, or it is counted as skipped.
Goes(call, mtime) ==
    /\ entry' = [entry EXCEPT !.at = call, !.mtime = mtime]
    /\ UNCHANGED counters
LeaveOut ==
    /\ entry' = None /\ left' = left \union {entry.name}
    /\ UNCHANGED <<scored, scanned, skipped, read>>
Skip ==
    /\ entry' = None /\ skipped' = skipped + 1
    /\ UNCHANGED <<scored, scanned, read, left>>

At(call) == entry # None /\ entry.at = call /\ UNCHANGED <<pc, todo, host>>
Calm == UNCHANGED <<touched, used>>

\* The next entry, in the order of names; a hidden one is left out.
Visit(n) ==
    /\ pc = "scan" /\ entry = None /\ n \in todo
    /\ \A m \in todo : n <= m
    /\ todo' = todo \ {n}
    /\ IF n \in Hidden
         THEN entry' = None /\ left' = left \union {n}
         ELSE entry' = [name |-> n, at |-> "is_symlink", mtime |-> None] /\ UNCHANGED left
    /\ UNCHANGED <<pc, scored, scanned, skipped, read, touched, used, host>>

\* path.is_symlink()
IsSymlink ==
    /\ At("is_symlink") /\ Calm
    /\ IF Kind(entry.name) = "symlink" THEN LeaveOut ELSE Goes("is_dir", None)

\* path.is_dir(), which follows a symlink, and the suffix.
IsDir ==
    /\ At("is_dir") /\ Calm
    /\ IF Kind(entry.name) = "folder" \/ entry.name \in OtherFiles
         THEN LeaveOut ELSE Goes("stat", None)

\* What stat or open finds at a name: a note, or what a symlink leads to.
Follows(n) == Kind(n) \in {"note", "symlink"}

\* Mutant of Stat: an entry that is no regular file is not counted.
StatSkipsSilently ==
    LET n == entry.name IN
    /\ At("stat") /\ Calm
    /\ IF Follows(n) /\ n \notin Unusable THEN Goes("open", inbox[n].mtime)
       ELSE IF Kind(n) = "special" THEN entry' = None /\ UNCHANGED counters
       ELSE Skip

\* path.stat(), S_ISREG, and the name append_inbox_note would refuse.
Stat ==
    LET n == entry.name IN
    /\ At("stat") /\ Calm
    /\ IF Follows(n) /\ n \notin Unusable THEN Goes("open", inbox[n].mtime) ELSE Skip

\* What the frontmatter of n, read now, is to the request.
Match(n) == [name |-> n, confidence |-> Judge(n, inbox[n]),
             score |-> Score(n, inbox[n]), mtime |-> entry.mtime]

Scans(n) ==
    /\ scanned' = scanned + 1 /\ read' = read \union {n} /\ entry' = None
    /\ UNCHANGED <<skipped, left>>

\* Mutant of Read: a note of no confidence is kept.
ReadKeepsAll ==
    LET n == entry.name IN
    /\ At("open") /\ Follows(n) /\ Calm
    /\ scored' = scored \union {Match(n)}
    /\ Scans(n)

\* read_frontmatter_text, and the entry is judged by what it holds now.
Read ==
    LET n == entry.name IN
    /\ At("open") /\ Follows(n) /\ Calm
    /\ scored' = IF Match(n).confidence = "none" THEN scored
                 ELSE scored \union {Match(n)}
    /\ Scans(n)

\* OSError: what was a file at its stat is gone, a folder or a socket now.
ReadGone == At("open") /\ ~Follows(entry.name) /\ Skip /\ Calm

\* Any of the calls raises although the entry is there.
CallFails ==
    /\ entry # None /\ At(entry.at) /\ Fault /\ Skip
    /\ touched' = touched \union {entry.name}

\* From Python 3.13 on is_symlink and is_dir say no where they would raise.
ProbeFails ==
    /\ entry # None /\ At(entry.at) /\ Fault
    /\ touched' = touched \union {entry.name}
    /\ CASE entry.at = "is_symlink" -> Goes("is_dir", None)
         [] entry.at = "is_dir" ->
              IF entry.name \in OtherFiles THEN LeaveOut ELSE Goes("stat", None)
         [] OTHER -> FALSE

Answer ==
    /\ pc = "scan" /\ todo = {} /\ entry = None
    /\ pc' = "done"
    /\ UNCHANGED <<todo, entry, touched, used, counters, host>>

\* The host puts something else at a name, or removes what is there, between
\* any two of the scan's calls.
HostChange(n) ==
    /\ pc = "scan" /\ used.host < MaxHostOps
    /\ used' = [used EXCEPT !.host = @ + 1]
    /\ \E c \in Contents[n] \union {None} :
         /\ inbox' = [inbox EXCEPT ![n] = c]
         /\ odd' = IF c # None /\ c.kind \in {"folder", "symlink"}
                   THEN odd \union {n} ELSE odd
    /\ touched' = touched \union {n}
    /\ UNCHANGED <<request, pc, todo, entry, listed, counters>>

Answered == pc \in {"done", "failed"} /\ UNCHANGED vars

Next ==
    \/ List \/ ListFails
    \/ \E n \in Names : Visit(n) \/ HostChange(n)
    \/ IsSymlink \/ IsDir \/ Stat \/ Read \/ ReadGone
    \/ CallFails \/ ProbeFails
    \/ Answer
    \/ Answered

Spec == Init /\ [][Next]_vars

-----------------------------------------------------------------------------
(* Properties.                                                             *)

Levels == {"high", "medium", "low"}
Candidate == [name : Names, confidence : Levels, score : Nat, mtime : Mtimes]

\* Every variable has its type.
ScanTypeOK ==
    /\ DOMAIN inbox = Names /\ \A n \in Names : inbox[n] \in Contents[n] \union {None}
    /\ request \in Requests
    /\ pc \in {"start", "scan", "done", "failed"}
    /\ todo \subseteq Names /\ listed \subseteq Names /\ read \subseteq Names
    /\ left \subseteq Names /\ odd \subseteq Names /\ touched \subseteq Names
    /\ entry \in {None} \union [name : Names, at : {"open"}, mtime : Mtimes]
                \union [name : Names, at : SysCalls \ {"open"}, mtime : {None}]
    /\ scored \subseteq Candidate
    /\ scanned \in Nat /\ skipped \in Nat
    /\ used \in [host : Nat, faults : Nat]

\* The table of ADR 0007, decisions 4 to 8, over a note's own fields.
Same(n, c) == c.title = request.title
Alike(n, c) == IF c.title # None THEN Fold[c.title] = Fold[request.title]
               ELSE Fold[request.title] \in {Fold[Stem[n]], Fold[Strip[Stem[n]]]}
Shares(c) == c.project # None /\ c.project = request.project
Words(c) == Cardinality({w \in request.keywords : w \in c.words})
High(n, c) == Same(n, c) \/ (Alike(n, c) /\ Shares(c))
Medium(n, c) == ~High(n, c) /\ (Alike(n, c) \/ (Shares(c) /\ Words(c) >= 2))
Low(n, c) == /\ ~High(n, c) /\ ~Medium(n, c) /\ ~Shares(c)
             /\ Words(c) >= 2 /\ 2 * Words(c) >= Cardinality(request.keywords)

\* Notes that are there from the request on, and that nothing kept the scan
\* from reading.
Steady == {n \in Names \ (touched \union Hidden \union OtherFiles \union Unusable) :
             Kind(n) = "note"}

Judged(n, confidence) ==
    \E x \in scored :
        x.name = n /\ x.confidence = confidence /\ x.mtime = inbox[n].mtime

\* Whatever the host does to other entries, a note that stays as it is gets the
\* confidence its fields have in the table of ADR 0007, and its own modified_at,
\* or is no candidate if it has none.
SteadyNotesAreJudged ==
    pc = "done" => \A n \in Steady :
        LET c == inbox[n] IN
        /\ High(n, c) <=> Judged(n, "high")
        /\ Medium(n, c) <=> Judged(n, "medium")
        /\ Low(n, c) <=> Judged(n, "low")

\* The advice is sound for any limit: "create" only when no note that stays is
\* of high or medium confidence, "confirm" only when at most one is, and what
\* the user is to confirm or to choose from is on the list that is returned.
AdviceIsSound ==
    LET strong == {n \in Steady : High(n, inbox[n]) \/ Medium(n, inbox[n])}
        shown == {x.confidence : x \in Candidates}
    IN pc = "done" =>
        /\ Recommendation = "create" => strong = {}
        /\ Recommendation = "confirm" => Cardinality(strong) <= 1 /\ "high" \in shown
        /\ Recommendation = "choose" => shown \intersect {"high", "medium"} # {}

\* What limit cuts off is never more confident than what is returned.
TruncationDropsWeakest ==
    \A x \in Candidates, y \in scored \ Candidates :
        Rank(x.confidence) <= Rank(y.confidence)

\* The two counters account for every listed entry, exactly, whatever the host
\* changes and whichever call fails: scanned_count is the entries that were
\* read, skipped_count all others but those left out, and nothing is left out
\* that was at no time a folder or a symlink, and is not hidden or no .md file.
CountsAddUp ==
    pc = "done" =>
        /\ scanned = Cardinality(read)
        /\ scanned + skipped = Cardinality(listed \ left)
        /\ left \subseteq Hidden \union OtherFiles \union odd
=============================================================================
