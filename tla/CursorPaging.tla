---------------------------- MODULE CursorPaging ----------------------------
(***************************************************************************)
(* Paging through search_notes and get_vault_tree: application.py, the     *)
(* listings of search_service.py and vault_service.py, and the cursors of  *)
(* cursor_service.py.                                                      *)
(*                                                                         *)
(* The server keeps nothing between two pages: all it knows of a walk is   *)
(* the cursor the client sends back.  Every page is computed from a scan   *)
(* of its own, entry by entry, while the host changes the vault.  An entry *)
(* is a number, its rank in the order of names; a search hit also has a    *)
(* weight (score and mtime), and weight 0 is no hit.                       *)
(***************************************************************************)
EXTENDS Integers, FiniteSets

CONSTANTS
    Walkers,         \* clients, each walking through one listing
    Operation,       \* walker -> "search" or "tree"
    Conditions,      \* walker -> query, folder and tags, one value
    Entries,         \* ranks of the names that can be in the listing
    MaxWeight,       \* weights are 0..MaxWeight
    Limits,          \* values clients give for limit
    MaxLimit,        \* MAX_SEARCH_LIMIT, MAX_TREE_LIMIT
    MaxResults,      \* settings.max_search_results
    MaxCursorOffset, \* 100000 in the code
    HostMay,         \* kinds of change the host makes
    MaxHostOps,      \* bound on the host's steps and on folders that fail
    MaxRestarts,     \* bound on restarts with a new API_TOKEN
    MaxLost,         \* bound on lost answers
    MaxMistakes,     \* bound on bad limits and cursors of other listings
    None             \* no cursor

Changes == {"create", "delete", "edit", "hide", "show"}

Errors == {"INVALID_CURSOR", "VALIDATION_ERROR", "NOTE_NOT_FOUND"}

ASSUME PagingAssumption ==
    /\ Operation \in [Walkers -> {"search", "tree"}]
    /\ IsFiniteSet(Entries) /\ Entries \subseteq Nat
    /\ MaxWeight \in Nat
    /\ Limits \subseteq Nat
    /\ MaxLimit \in Nat \ {0} /\ MaxResults \in Nat \ {0}
    /\ MaxCursorOffset \in Nat
    /\ HostMay \subseteq Changes
    /\ {MaxHostOps, MaxRestarts, MaxLost, MaxMistakes} \subseteq Nat

VARIABLES
    weight,      \* entry -> weight if it is in the vault, -1 if not
    unreadable,  \* entries whose stat or read fails now
    token,       \* settings.api_token
    pc,          \* walker -> "idle", "scan" or "done"
    cursor,      \* walker -> the cursor to go on from
    offset,      \* walker -> where the running page starts
    limit,       \* walker -> its effective limit
    names,       \* walker -> names the scan has yet to visit
    rows,        \* walker -> entry -> weight, as the scan found them
    answer,      \* walker -> "none", "page" or an error, the last answer
    given,       \* walker -> the cursor of the running or last request
    minted,      \* cursors in the hands of clients
    got,         \* history: walker -> entry -> times delivered in this walk
    atStart,     \* history: walker -> the listing when the walk began
    changes,     \* history: walker -> kinds of change since then
    used         \* what is used of the bounds

request == <<offset, limit, names, rows>>
last == <<given, answer>>
history == <<got, atStart, changes>>
vars == <<weight, unreadable, token, pc, cursor, request, last, minted,
          history, used>>

-----------------------------------------------------------------------------
Present == {e \in Entries : weight[e] >= 0}

\* A listing leaves out what it cannot read; a search also what does not match.
Lists(op, e) == /\ e \in Present \ unreadable
                /\ op = "search" => weight[e] > 0

\* fingerprint() over the operation and the conditions, not the limit.
Cursor(w, n) == [o |-> Operation[w], n |-> n, f |-> Conditions[w], key |-> token]

\* Mutant of Decodes: the fingerprint is not compared.
DecodesOtherConditions(w, c) ==
    /\ c.key = token /\ c.o = Operation[w]
    /\ c.n \in 0..MaxCursorOffset

\* decode_cursor: signed with this token, for this operation and conditions.
Decodes(w, c) ==
    /\ c.key = token /\ c.o = Operation[w] /\ c.f = Conditions[w]
    /\ c.n \in 0..MaxCursorOffset

\* Mutant of ValidLimit: zero is let through.
ValidLimitOrZero(n) == n \in 0..MaxLimit

\* limit is validated again behind the transport's own schema.
ValidLimit(n) == n \in 1..MaxLimit

EffectiveLimit(w, n) ==
    IF Operation[w] = "search" /\ n > MaxResults THEN MaxResults ELSE n

\* Mutant of Before: ties come out the other way round on later pages.
BeforeUnstable(w, d, e) ==
    IF Operation[w] = "search" /\ rows[w][d] # rows[w][e]
      THEN rows[w][d] > rows[w][e]
      ELSE IF offset[w] = 0 THEN d < e ELSE d > e

\* The sort key: (-score, -mtime, relative) or (folders first, name).
Before(w, d, e) ==
    IF Operation[w] = "search" /\ rows[w][d] # rows[w][e]
      THEN rows[w][d] > rows[w][e]
      ELSE d < e

Position(w, e) == Cardinality({d \in DOMAIN rows[w] : Before(w, d, e)})

\* hits[offset : offset + limit]
Window(w) ==
    {e \in DOMAIN rows[w] :
        Position(w, e) \in offset[w]..(offset[w] + limit[w] - 1)}

\* Mutant of NextOffset: one too far.
NextOffsetSkipsOne(w) == offset[w] + Cardinality(Window(w)) + 1
NextOffset(w) == offset[w] + Cardinality(Window(w))

HasMore(w) == Cardinality(DOMAIN rows[w]) > NextOffset(w)

-----------------------------------------------------------------------------
NoRows == [e \in {} |-> 0]
NothingYet == [e \in Entries |-> 0]

Init ==
    /\ weight \in [Entries -> -1..MaxWeight]
    /\ unreadable = {}
    /\ token = 0
    /\ pc = [w \in Walkers |-> "idle"]
    /\ cursor = [w \in Walkers |-> None]
    /\ given = [w \in Walkers |-> None]
    /\ offset = [w \in Walkers |-> 0]
    /\ limit = [w \in Walkers |-> 1]
    /\ names = [w \in Walkers |-> {}]
    /\ rows = [w \in Walkers |-> NoRows]
    /\ answer = [w \in Walkers |-> "none"]
    /\ minted = {}
    /\ got = [w \in Walkers |-> NothingYet]
    /\ atStart = [w \in Walkers |-> {}]
    /\ changes = [w \in Walkers |-> {}]
    /\ used = [host |-> 0, restarts |-> 0, lost |-> 0, mistakes |-> 0]

-----------------------------------------------------------------------------
(* The server.                                                             *)

\* The variables of the requests of walkers W are gone with their threads.
Forget(W) ==
    /\ offset' = [w \in Walkers |-> IF w \in W THEN 0 ELSE offset[w]]
    /\ limit' = [w \in Walkers |-> IF w \in W THEN 1 ELSE limit[w]]
    /\ names' = [w \in Walkers |-> IF w \in W THEN {} ELSE names[w]]
    /\ rows' = [w \in Walkers |-> IF w \in W THEN NoRows ELSE rows[w]]

\* A request for the page at c: limit and cursor are checked, the scan starts.
\* A listing of one folder takes its names at once; a search comes to every
\* folder in its own time, and finds there what is there then.
Start(w, c, n) ==
    /\ ValidLimit(n)
    /\ c # None => Decodes(w, c)
    /\ pc' = [pc EXCEPT ![w] = "scan"]
    /\ given' = [given EXCEPT ![w] = c]
    /\ offset' = [offset EXCEPT ![w] = IF c = None THEN 0 ELSE c.n]
    /\ limit' = [limit EXCEPT ![w] = EffectiveLimit(w, n)]
    /\ names' = [names EXCEPT ![w] = IF Operation[w] = "tree" THEN Present
                                                              ELSE Entries]
    /\ rows' = [rows EXCEPT ![w] = NoRows]
    /\ UNCHANGED <<weight, unreadable, token, cursor, answer, minted>>

\* The first page of a walk.
AskFirst(w, n) ==
    /\ pc[w] = "idle" /\ cursor[w] = None
    /\ Start(w, None, n)
    /\ got' = [got EXCEPT ![w] = NothingYet]
    /\ atStart' = [atStart EXCEPT ![w] = {e \in Entries : Lists(Operation[w], e)}]
    /\ changes' = [changes EXCEPT ![w] = {}]
    /\ UNCHANGED used

\* The page after the one before, or the same one again if its answer was lost.
AskNext(w, n) ==
    /\ pc[w] = "idle" /\ cursor[w] # None
    /\ Start(w, cursor[w], n)
    /\ UNCHANGED <<history, used>>

\* InvalidCursorError: the client begins again at the first page.
Restart(w, c) ==
    /\ pc' = [pc EXCEPT ![w] = "idle"]
    /\ cursor' = [cursor EXCEPT ![w] = None]
    /\ given' = [given EXCEPT ![w] = c]
    /\ answer' = [answer EXCEPT ![w] = "INVALID_CURSOR"]
    /\ Forget({w})
    /\ UNCHANGED <<weight, unreadable, token, minted, history>>

\* A request that is refused before its cursor is looked at: the client keeps
\* the cursor and asks again.
Refuse(w, error) ==
    /\ pc[w] = "idle"
    /\ given' = [given EXCEPT ![w] = cursor[w]]
    /\ answer' = [answer EXCEPT ![w] = error]
    /\ UNCHANGED <<weight, unreadable, token, pc, cursor, request, minted, history>>

\* ValidationError: a limit out of range.
AskBadLimit(w, n) ==
    /\ ~ValidLimit(n) /\ used.mistakes < MaxMistakes
    /\ used' = [used EXCEPT !.mistakes = @ + 1]
    /\ Refuse(w, "VALIDATION_ERROR")

\* resolve_read_dir: the folder is away for now, or something else in its place
\* (NOTE_NOT_FOUND stands for all its errors); a search resolves no folder.
AskFolderAway(w) ==
    /\ Operation[w] = "tree" /\ "hide" \in HostMay /\ used.host < MaxHostOps
    /\ used' = [used EXCEPT !.host = @ + 1]
    /\ Refuse(w, "NOTE_NOT_FOUND")

\* The client's own cursor, of a token that is no longer in use.
AskExpired(w) ==
    /\ pc[w] = "idle" /\ cursor[w] # None /\ ~Decodes(w, cursor[w])
    /\ Restart(w, cursor[w])
    /\ UNCHANGED used

\* A cursor the client got for another listing.
AskMistaken(w, n) ==
    /\ pc[w] = "idle" /\ used.mistakes < MaxMistakes
    /\ used' = [used EXCEPT !.mistakes = @ + 1]
    /\ \E c \in {x \in minted : x.o # Operation[w] \/ x.f # Conditions[w]} :
         IF Decodes(w, c) THEN Start(w, c, n) /\ UNCHANGED history
                          ELSE Restart(w, c)

\* One entry: gone or unreadable entries are skipped.
Visit(w, e) ==
    /\ pc[w] = "scan" /\ e \in names[w]
    /\ \A d \in names[w] : e <= d
    /\ names' = [names EXCEPT ![w] = @ \ {e}]
    /\ rows' = [rows EXCEPT ![w] =
                  IF Lists(Operation[w], e)
                    THEN [d \in DOMAIN @ \union {e} |->
                            IF d = e THEN weight[e] ELSE @[d]]
                    ELSE @]
    /\ UNCHANGED <<weight, unreadable, token, pc, cursor, offset, limit, last,
                   minted, history, used>>

\* scandir raises, and nobody is told: the listing of a folder comes out empty,
\* a search without the notes of the folders that failed.  To this walk, and to
\* no other, the entries were away and came back.
ScanFails(w) ==
    /\ pc[w] = "scan" /\ {"hide", "show"} \subseteq HostMay
    /\ used.host < MaxHostOps /\ used' = [used EXCEPT !.host = @ + 1]
    /\ \E lost \in SUBSET names[w] :
         /\ lost # {}
         /\ Operation[w] = "tree" => lost = names[w] /\ rows[w] = NoRows
         /\ names' = [names EXCEPT ![w] = @ \ lost]
    /\ changes' = [changes EXCEPT ![w] = @ \union {"hide", "show"}]
    /\ UNCHANGED <<weight, unreadable, token, pc, cursor, offset, limit, rows, last,
                   minted, got, atStart>>

\* Mutant of Uncodable: one too far.
UncodableOneMore(w) == HasMore(w) /\ NextOffset(w) > MaxCursorOffset + 1

\* encode_cursor raises when the next page would start beyond the limit.
Uncodable(w) == HasMore(w) /\ NextOffset(w) > MaxCursorOffset

\* The page and the next cursor reach the client.
Answer(w) ==
    /\ pc[w] = "scan" /\ names[w] = {} /\ ~Uncodable(w)
    /\ got' = [got EXCEPT ![w] =
                  [e \in Entries |-> IF e \in Window(w) THEN @[e] + 1 ELSE @[e]]]
    /\ answer' = [answer EXCEPT ![w] = "page"]
    /\ IF HasMore(w)
         THEN LET c == Cursor(w, NextOffset(w)) IN
              /\ cursor' = [cursor EXCEPT ![w] = c]
              /\ minted' = minted \union {c}
              /\ pc' = [pc EXCEPT ![w] = "idle"]
         ELSE /\ pc' = [pc EXCEPT ![w] = "done"]
              /\ UNCHANGED <<cursor, minted>>
    /\ Forget({w})
    /\ UNCHANGED <<weight, unreadable, token, given, atStart, changes, used>>

\* The scan was done, and there is no cursor to give out.
AnswerUncodable(w) ==
    /\ pc[w] = "scan" /\ names[w] = {} /\ Uncodable(w)
    /\ Restart(w, given[w])
    /\ UNCHANGED used

\* The answer is lost on its way; the client asks again.
LoseAnswer(w) ==
    /\ pc[w] = "scan" /\ names[w] = {} /\ used.lost < MaxLost
    /\ used' = [used EXCEPT !.lost = @ + 1]
    /\ pc' = [pc EXCEPT ![w] = "idle"]
    /\ Forget({w})
    /\ UNCHANGED <<weight, unreadable, token, cursor, last, minted, history>>

\* The container comes back with another API_TOKEN; running requests are lost.
RotateToken ==
    /\ used.restarts < MaxRestarts
    /\ used' = [used EXCEPT !.restarts = @ + 1]
    /\ token' = token + 1
    /\ pc' = [w \in Walkers |-> IF pc[w] = "scan" THEN "idle" ELSE pc[w]]
    /\ Forget({w \in Walkers : pc[w] = "scan"})
    /\ UNCHANGED <<weight, unreadable, cursor, last, minted, history>>

-----------------------------------------------------------------------------
(* The host.                                                               *)

Change(kind) ==
    /\ kind \in HostMay /\ used.host < MaxHostOps
    /\ used' = [used EXCEPT !.host = @ + 1]
    /\ changes' = [w \in Walkers |-> changes[w] \union {kind}]
    /\ UNCHANGED <<token, pc, cursor, request, last, minted, got, atStart>>

HostCreate(e) ==
    /\ e \notin Present /\ Change("create")
    /\ \E v \in 0..MaxWeight : weight' = [weight EXCEPT ![e] = v]
    /\ UNCHANGED unreadable

HostDelete(e) ==
    /\ e \in Present /\ Change("delete")
    /\ weight' = [weight EXCEPT ![e] = -1]
    /\ UNCHANGED unreadable

HostEdit(e) ==
    /\ e \in Present /\ Change("edit")
    /\ \E v \in 0..MaxWeight : weight' = [weight EXCEPT ![e] = v]
    /\ UNCHANGED unreadable

\* A note that is being synced cannot be read for a while.
HostHide(e) ==
    /\ e \in Present \ unreadable /\ Change("hide")
    /\ unreadable' = unreadable \union {e}
    /\ UNCHANGED weight

HostShow(e) ==
    /\ e \in unreadable /\ Change("show")
    /\ unreadable' = unreadable \ {e}
    /\ UNCHANGED weight

-----------------------------------------------------------------------------
\* A walk in good order: pages asked one after the other and received.
Walk(w) ==
    \/ \E n \in Limits : AskFirst(w, n) \/ AskNext(w, n)
    \/ AskExpired(w)
    \/ \E e \in Entries : Visit(w, e)
    \/ Answer(w) \/ AnswerUncodable(w)

HostStep == \E e \in Entries : HostCreate(e) \/ HostDelete(e) \/ HostEdit(e)
                               \/ HostHide(e) \/ HostShow(e)

AllDone == (\A w \in Walkers : pc[w] = "done") /\ UNCHANGED vars

Next ==
    \/ \E w \in Walkers : Walk(w) \/ LoseAnswer(w) \/ AskFolderAway(w) \/ ScanFails(w)
    \/ \E w \in Walkers, n \in Limits : AskMistaken(w, n) \/ AskBadLimit(w, n)
    \/ RotateToken
    \/ HostStep
    \/ AllDone

\* A client that follows next_cursor until it is null, and a server that
\* answers; the host, failures, restarts, losses and mistakes are left to chance.
Spec == Init /\ [][Next]_vars /\ \A w \in Walkers : WF_vars(Walk(w))

-----------------------------------------------------------------------------
(* Properties.                                                             *)

\* Every variable has its type; the offsets in cursors are those that
\* encode_cursor can encode, so that decode_cursor refuses none of them.
PagingTypeOK ==
    /\ weight \in [Entries -> -1..MaxWeight]
    /\ unreadable \subseteq Entries
    /\ token \in 0..MaxRestarts
    /\ pc \in [Walkers -> {"idle", "scan", "done"}]
    /\ offset \in [Walkers -> 0..MaxCursorOffset]
    /\ limit \in [Walkers -> 1..MaxLimit]
    /\ \A w \in Walkers : names[w] \subseteq Entries /\ DOMAIN rows[w] \subseteq Entries
    /\ answer \in [Walkers -> {"none", "page"} \union Errors]
    /\ \A c \in minted : c.n \in 0..MaxCursorOffset /\ c.key <= token
    /\ \A w \in Walkers : cursor[w] \in minted \union {None}

\* Edits do not move an entry of a folder: its place is its name.
Harmless(w) == IF Operation[w] = "tree" THEN {"edit"} ELSE {}

Finished(w) == pc[w] = "done"

\* "Confirm every entry was seen exactly once" (README.md): a walk through a
\* listing nobody changes delivers that listing, each entry once, whatever
\* page sizes, lost answers, restarts and cursors of other listings there were.
WalkDeliversEachOnce ==
    \A w \in Walkers : Finished(w) /\ changes[w] \subseteq Harmless(w) =>
        \A e \in Entries : got[w][e] = (IF e \in atStart[w] THEN 1 ELSE 0)

\* Best-effort paging, first half: entries that only appear while a walk goes
\* on push others back, so that none is missed, also with a scan in progress.
GrowthMissesNothing ==
    \A w \in Walkers :
        Finished(w) /\ changes[w] \subseteq Harmless(w) \union {"create", "show"} =>
            \A e \in atStart[w] : got[w][e] >= 1

\* Second half: entries that only disappear pull others forward, so that none
\* is delivered twice.
ShrinkageRepeatsNothing ==
    \A w \in Walkers :
        changes[w] \subseteq Harmless(w) \union {"delete", "hide"} =>
            \A e \in Entries : got[w][e] <= 1

\* No page of the listing begins beyond the last offset a cursor can hold.
Fits(w) == Cardinality({e \in Entries : Lists(Operation[w], e)}) <= MaxCursorOffset + 1

\* A client that follows next_cursor, and starts over at INVALID_CURSOR, comes
\* to an end: a page with more to come is never empty, and a cursor of the
\* server's own is refused once per new token at most.
EveryWalkEnds == \A w \in Walkers : []Fits(w) => <>Finished(w)
=============================================================================
