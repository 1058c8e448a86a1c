# Verification of the Obsidian Vault Gateway

The gateway is one Python process that gives MCP clients (ChatGPT, Codex) access
to an Obsidian vault on the same disk: search, read, browse, summarise, look for
duplicates, create a note in `00_Inbox/ChatGPT`, append to one there. Obsidian
and LiveSync edit the same files on the other side of a bind mount, and the
gateway has no way to lock them out. This directory holds TLA+ models of the
parts of the program where that matters, the TLC runs that check them and the
theorems TLAPS proves about them. `PROJECT.json` maps every definition to the
lines it models.

## 1. Inventory

Paths are relative to `app/`.

| Component | State | Operations | What is hard | What makes it correct |
|---|---|---|---|---|
| Inbox writes `services/inbox_service.py` | the inbox directory, temp files, `.append.lock` | `create_inbox_note`, `append_inbox_note` | worker threads and the host interleave at every system call; failing calls; crash, power loss | no text lost, no overwrite, durable before answered, nothing left behind, the answer true |
| File names `services/filenames.py` | none | `sanitise_title`, `note_file_name` | `foo` with suffix 2 is `foo-2` with none | the candidates never run out silently |
| Path security `services/path_security.py` | none, reads the tree | `resolve_read_path`, `resolve_read_dir`, `resolve_inbox_append_path`, `iter_directory`, `iter_vault_notes` | the tree changes between `is_symlink`, `resolve` and the use | nothing outside the vault, a walk survives a change |
| Pagination `services/cursor_service.py`, `application.py` | none on the server: the cursor is the state | `fingerprint`, `encode_cursor`, `decode_cursor`, `_cursor_offset`, `_next_cursor` | a walk is many requests, the vault changes between and within them, tokens rotate, clients retry and mix cursors up | an undisturbed walk delivers every entry once; a cursor only continues its own listing |
| Search, tree, summary `services/search_service.py`, `vault_service.py` | none | `search_notes`, `list_tree`, `summarise_vault` | a scan takes seconds and is no snapshot | order total, skipped notes counted |
| Reading `services/note_service.py`, `markdown_parser.py` | none | `read_note`, `parse_note`, `to_json_safe` | stat and read are two calls; cyclic and exploding YAML | the text is of one note that was there, what is cut is said to be cut, the frontmatter is whole or absent |
| Related notes `services/related_notes.py` | none | `resolve_related_notes` | a note disappears while it is verified | at most ten links, each verified, one per path |
| Duplicates `services/duplicate_notes.py` | none | `find_duplicate_candidates` | the inbox changes during the scan; the recommendation against a truncated list; two clients check before either creates | every note that stays is judged; advice independent of `limit` |
| Chat export `services/chat_export.py`, `models.py` | none | `render_chat_export` | bullet depths after dropped blocks, one budget over all kinds, text that looks like Markdown | the note reads back as what was sent, nothing sent is left out in silence |
| MCP calls `mcp_server.py`, `runtime.py` | two thread limiters, the audit log | eight tools, `_McpCall`, the strict argument middleware | slow scans, cancelled calls, errors in every layer | one audit line per call, tokens given back, light tools never starved by scans |
| HTTP `main.py`, `middleware.py`, `mcp_auth.py`, `routers/health.py` | none | routing, bearer check, access log | an exception after the response has started, a client that disconnects | one access log line with the status that was sent |
| Configuration, logging `config.py`, `logging_config.py`, `exceptions.py`, `openapi_responses.py` | settings, read once | - | - | - |

The tools of `mcp_server.py` call `application.py`, and that the services. The
plain tools run in the SDK's worker threads, the three scans in threads of
`runtime.vault_scan_limiter`. Requests share nothing in memory but the two
limiters; everything else they share is the file system.

`PROJECT.json` lists the hazards: what in this code is hard to test, line by
line, and the property that would notice. The rest of this file says how the
models meet them.

## 2. Plan

The order is that of the damage a mistake does. A module's abstract
specification, runs and theorems come with it.

| # | Module | What it models | Composes with | State |
|---|---|---|---|---|
| 1 | `InboxWrites`, `InboxSafety` | the two writing operations, system call by system call | implements `NoteStore` | done |
| 2 | `NoteStore` | what a writing request promises its caller | abstract specification of 1 | done |
| 3 | `InboxProofs` | theorems about 1 | 1 and 2 | every safety property of 1, and the refinement of 2 |
| 4 | `AppendBytes`, `BytesProofs` | the bytes an append adds | the texts of 1 | done |
| 5 | `CursorPaging`, `PagingProofs` | listings read page by page | scans of 7 | done |
| 6 | `McpCalls`, `McpProofs` | threads, audit log, cancellation | the bodies of its calls are 1, 5 and 7; its fairness rests on `EveryRequestReturns` | done |
| 7 | `FrontmatterTree`, `VaultReads`, `VaultSafety` | reading a note, its related notes, the vault summary; the conversion of frontmatter | run by 9 | done |
| 8 | `DuplicateScan`, `DuplicateProofs` | the scan for duplicates, signals, confidence, recommendation and limit | called before 1 | done |
| 9 | `HttpRequests`, `HttpSafety`, `Gateway`, `GatewayProofs` | routing, bearer check, one access line per request; `Gateway` puts the calls of 7 behind it; theorems about all of it | 7 | done |
| 10 | `SequenceOperators`, `SequenceLemmas` | sums and filters over sequences, and lemmas about them | `ExportSchema`, `VaultReads`; the proofs of 4, 9 and 11 | done |
| 11 | `ExportSchema`, `ExportNormalise`, `ExportMarkdown`, `ExportReading`, `ExportProofs` | an export from its blocks to the note, and back | content of 1 | done |

Left to prove: that the conversion of a heap of frontmatter is as expected, which
takes an induction over heaps (section 11).

## 3. Inbox writes

`InboxWrites` is `app/services/inbox_service.py`. One action is one system call,
or several that no other actor can tell apart. A request has its own program
counter, named after its next step:

    create   start - temp - write - link (again for foo-2, foo-3, ...) - syncdir - stat - unlink - done
    append   start - resolve - isreg - lock - poll - open - read - temp - write - check - replace - syncdir - unlink - unlock - stat - done

The first three steps of an append are `is_symlink`, `resolve(strict=True)` and
`stat` of `resolve_inbox_append_path`, each of which looks the name up anew.

| State | Code |
|---|---|
| `dir`, `file` | the inbox directory and its inodes: bytes, `st_mtime_ns`, kind, fsynced or not |
| `survive` | the entries a name may have after a power loss: all it had since the directory was last fsynced |
| `path` | what `resolve` returned: the target, or another note if the host had put a symlink there since `is_symlink` |
| `lockFile`, `lockKind`, `lockFd` | the file at `.append.lock`, its kind, and the one each append has open |
| `seq`, `polls` | the loop of `create_inbox_note` over names, that of `_acquire_exclusive_lock` over time |
| `temp`, `tempFd` | `temp_path`, and its descriptor |
| `before`, `existing` | `before_identity`, and what `os.read` has returned so far |
| `outcome` | the return value or the error code the request will end with |
| `landed` | history: where a request has taken effect |
| `failed` | history: the clean-up calls of a request that raised |

An exception is `Raise`: it fixes the answer and goes to what the enclosing
`finally` blocks still have to do (`Unwind`). Any system call of a request may
fail at any step, `lstat`, `stat` and `close` included (`SystemCallFails`), and
so may the two calls that clean-up rests on: an `unlink` that raises leaves the
`.tmp-` file and replaces the answer (`UnlinkFails`), an `fchmod` that raises
comes before `os.fdopen` owns the descriptor, which nobody closes
(`FchmodFails`). The host may edit a note in place, put another file, a symlink
or a special file at its name, delete it, and remove `.append.lock` or put
something else there. A crash closes every descriptor and loses what is in
memory; after a power loss, data that was not fsynced is empty and each name has
one of its surviving entries.

`NoteStore` is the same seen by a caller: a note is created under a free name or
extended by one text, at most once per request, and the answer says whether it
was; `INTERNAL_ERROR` leaves the caller in doubt. A host that puts a symlink at
the name between `is_symlink` and `resolve` redirects the append to another note
of the inbox (`Redirects`); the promise is then about that note.
`InboxSafety!Store` is the refinement mapping: the texts at each name, the
requests that have landed, the answers.

### Runs

| Run | Instance | What it shows |
|---|---|---|
| `inbox_appends` | two appends and a create on one name, a second note; one host operation that may put a file, a symlink or a special file anywhere, one failing call | `ImplementsNoteStore`, `NoTextLost`, `OnlyLinkCreatesNames`, `RefusedLeavesNoTrace`, `TypeOK`, with a host that keeps out of the window between `os.lstat` and `os.replace` |
| `inbox_faults` | two creates that compete for `foo` and `foo-2`, an append and a malformed one; one failing call, one crash or power loss, timestamps that may repeat | `NotesAreWhole`, `AnsweredIsDurable`, `AnsweredHoldsNothing`, `NewNoteNeverOverwrites`: these need nothing from the clock |
| `inbox_liveness` | two appends; the first may hang with the lock held, two calls may fail, and `.append.lock` may be removed or replaced once, so that both may be past it at the same time | `EveryRequestReturns`, `AnsweredHoldsNothing`, `CheckedIsWhatWasRead` |
| `inbox_window` | an append and a host in the window | finding 1 |

Bounds. A lost update, a stale identity or two lock holders take two writers, so
two appends are enough, and a third request competes for the name. `MaxPolls`
is 1: the loop has only "not yet" and "too late" to tell apart.
`MaxSequenceAttempts` is 2, the smallest with a next name and a last one (1
where names are not the subject). Notes hold up to three texts: what was there,
and one of each append. Five inodes cover the names, the temp files and a
replaced note; four do where there is no create. `inbox_appends` has the host
and a failing call in every order, among them the symlink that is swapped in
before `resolve` and the `fsync` that fails after a write has landed. One host
operation is enough for an edit that leaves the size as it was, for a note that
goes, and for one that is put in its place; two are not feasible together with
the failure. `inbox_liveness` has two failures, so that an `unlink` may fail on
the way out of another one, and the lock's timeout; `inbox_faults` has one
failure and one crash at every step. Inodes are symmetric; the liveness run does
not use that.

Fairness. `WF(Step(r))` for every request but those in `Hung`: a Python thread
that is not inside a blocking call is scheduled. Nothing is assumed of arrivals,
failures, crashes or the host. The lock needs no strong fairness, because the
number of polls is bounded by the deadline.

### Theorems (`InboxProofs`)

For any number of requests, names, inodes, faults, crashes and host steps, from
`InboxAssumption` alone, which says of the constants what their comments do:

- `TypeCorrect`: `TypeOK` holds. It is not inductive: the append's lookups in
  `file` need that the inode it remembers is one. `TypeInv` adds `InodesKnown`,
  that `temp` and `before` hold inodes at the steps that use them.
- `CreateNeverOverwrites`: an action property. `LandsByLink` shows that a create
  lands only in its own `Link`; the guard of `Link` does the rest.
- `AnsweredRequestsAreClean`: an answered request holds no lock, and has no temp
  file or descriptor left, but for a `.tmp-` file whose own `unlink` raised and a
  descriptor whose own `fchmod` did, the two leaks the code has. `CleanInv` says
  at which steps a request has no temp file and no descriptor; each exit,
  `SystemCallFails`, `FchmodFails` and `UnlinkFails` included, agrees with it.
- `RefusalsLeaveNoTrace`: a request is refused only before it lands
  (`AnswerInv`), and the texts in any entry a name may have are those of the
  host and of requests that have landed (`TraceInv`). What makes this inductive
  is `PrivateInv`: until it is linked or renamed, a temp file has no name, no
  second owner and no reader.
- `NotesAreAlwaysWhole`: `WholeInv`, that a temp file is synced before it gets a
  name, rests on `PrivateInv` too.
- `CheckMeansReread` (`CheckedIsWhatWasRead`), with a fine clock and nothing else,
  not even one lock file: if the identity at `os.lstat` is the one at open, the
  note still holds what was read of it in chunks in between. It needs that an
  inode which was freed and given out again does not come back with the same time
  stamp.

### Theorems with a calm host (`InboxProofs`, second half)

These hold under `CalmHost`, which is about the constants: the clock tells any
two writes apart (`FineClock`), the host keeps out of the window between
`os.lstat` and `os.replace` (not `HostInWindow`; finding 1 is what happens
otherwise), and the lock file is never removed (`MaxLockRemovals` is 0). The
numbers of requests, names, inodes, polls, faults, crashes and host edits are
any, and so are the kinds of file the host puts at a name. The inductive
invariant adds to the one above:

| Part | Why it is needed |
|---|---|
| `NameInv` | an inode has one name, so that an edit of one note is not one of another |
| `LockInv` | there is one lock file, and one append at a time is past `AcquireLock` |
| `DoubtInv` | between landing and answer a request is in doubt, which is how it maps to `NoteStore` |
| `ReadInv` | an inode with the time stamp the append took at `fstat` still holds what it has read of it; a temp file that reuses the inode has another time stamp |
| `ContentInv` | a temp file holds the text that was read and the request's own |
| `SwapInv` | at `os.replace` the name still has the inode that was read, unchanged |

- `TextsAreNotLost`: the only step of a request that changes what a name has is
  `Link`, under a free name, or `Replace`, and `SwapInv` with `ReadInv` and
  `ContentInv` make of that an extension of the note as it is.
- `NamesComeByLink`: by `SwapInv`, the name of a `Replace` is in use.
- `WritesImplementTheStore`: the refinement. `Link` and `Replace` are the
  store's `Create` and `Extend`, the steps that set `outcome` are its answers,
  host steps and crashes its own, and every other step changes nothing there.
- `AnswersAreDurable`: after `_fsync_directory` all entries a name may have hold
  the text if the name's own does (`DurableInv`). It needs the above, because a
  later append keeps the text only by extending the note. `inbox_faults` checks
  `AnsweredIsDurable` without a fine clock, in a small instance; the theorem
  has the clock.

That every request returns stays with TLC.

## 4. Bytes of an append

`AppendBytes` is `_render_note`, `_append_bytes` and the two limits of
`append_inbox_note`, over texts of an ordinary character, CR and LF.
`bytes_notes` takes every note of up to four such characters, with whatever line
endings, and two appends of every content of up to three: four characters hold a
CRLF with something on both sides, three a CRLF after a letter. `made` and
`readers` are history: the note as the host made it, and what a reader may see
of it now.

- `NotesReadAsWritten`: a note of one line ending keeps it, and a reader finds
  each text on lines of its own, with nothing between them.
- `MixedNotesReadInOrder`: of any note, also one whose last byte is a CR, the
  texts come in order on lines of their own; where a note mixes line endings, an
  empty line may come between.

`CHECK_DEADLOCK FALSE`: after the last append nothing need happen. UTF-8 and the
YAML of the frontmatter are not modelled; neither contains a line ending of its
own but LF. The empty line of a mixed note is what the code does, although the
docstring of `_append_bytes` (`inbox_service.py:258`) does not say so: it looks
for the terminator it has chosen for the whole note, so that a note with a CRLF
somewhere that ends in a bare LF is closed once more. And an LF note whose last
byte is a CR becomes a mixed one with its first append, as the LF that closes it
makes a CRLF of the CR.

### Theorems (`BytesProofs`)

`NotesAlwaysReadAsWritten` and `AnyNoteReadsInOrder`: the two properties
for notes and contents of any length, any number of appends and any limit, from
`BytesAssumption` alone, that the bounds are numbers. The invariant is the
properties and that the note is a text; what takes work is one append.

- `SequenceInduction` (in `SequenceLemmas`): a set that holds the empty sequence,
  and with a sequence every one of one more element, holds all. It is about a set,
  because the library's induction theorems take an operator, and follows from the
  library's theorem that a well-founded set has a minimum. With it
  `NormalisedAppend` and `WithTerminatorAppend` say what one more character adds
  to a text that is normalised, and to one that gets its line endings.
- `NormalisedConcat`: to normalise a concatenation is to normalise its parts,
  unless a CR and its LF would be taken apart (`Parts`). This is the seam at
  which an append could go wrong.
- `Clean`: a text has no line ending but the given one. `CleanConcat` says that
  concatenation keeps it, and `ClosedFile` that the separator completes the
  last line of a clean note without making another, whether the note is
  empty, ends in its line ending or does not.
- `OneAppend` puts these together.

## 5. Paging

`CursorPaging` is a client's walk through `search_notes` or `get_vault_tree`.
The server keeps nothing between pages, so `cursor` is the only thing that
links them; `rows`, `offset` and `limit` exist while a request runs. `AskFirst`
and `AskNext` are the checks of `application.py` and `decode_cursor`, `Visit`
one entry of the scan, `Answer` the sort, the cut and `encode_cursor`. A limit
out of range (`AskBadLimit`) and a folder that `resolve_read_dir` does not find
(`AskFolderAway`) are refused before the cursor is looked at, and the client
keeps it. A `scandir` that raises is told to nobody (`ScanFails`): a search
leaves the folder out, and a tree comes out empty, as a last page, so that the
walk ends there with no sign of it; for the properties that is a walk during
which entries disappeared and came back. A tree
takes its names in one `scandir`, a search comes to each folder in its own time.
The host creates, deletes, edits, hides and shows entries at any moment.
A cursor is what its payload says (operation, offset, fingerprint) and the
token it was signed with: HMAC, base64 and SHA-256 are taken to be ideal, so
that clients have only the cursors they got. A score with its mtime is a number.

| Run | Instance | What it shows |
|---|---|---|
| `paging_walks` | two searches, limits 0 (refused), 1 and 2, a new token, a lost answer, a cursor of the other search, at most two pages before a cursor runs out | `WalkDeliversEachOnce`, `EveryWalkEnds`, `PagingTypeOK` |
| `paging_host` | a search and a folder, two changes by the host or folders that fail, at any moment, walks of up to three pages | `GrowthMissesNothing`, `ShrinkageRepeatsNothing` |

Three entries give a first, a middle and a last page of size 1, or a full and a
short one of size 2. Two host changes suffice for a change within a page and
one between pages. Hits weigh the same, so that names decide between them, the
case `sorted` has to be stable in; a hit that changes its weight is one that
disappears and appears. Fairness: the client goes on (`AskFirst`, `AskNext`,
`AskExpired`) and the server answers. `EveryWalkEnds` speaks of listings whose
offsets cursors can hold: beyond `MAX_CURSOR_OFFSET` the page that was computed
is answered `INVALID_CURSOR` and is lost, and a client that starts over never
gets to the end.

### Theorems (`PagingProofs`)

From `PagingAssumption` (finitely many entries, numbers for the rest), for any
walkers, entries, weights, page sizes, host steps, lost answers, restarts and
mistaken cursors:

- `TypesHold`: `PagingTypeOK`; above all, every cursor a client can have holds an
  offset within `MaxCursorOffset`, so that `decode_cursor` refuses none for it.
- `NothingMissed`: `GrowthMissesNothing`.
- `NothingRepeated`: `ShrinkageRepeatsNothing`.
- `EachOnce`: `WalkDeliversEachOnce`, which follows from the first two and from
  `Shrinks`, that nothing beside the first listing is found.

None of them is inductive: they speak of what was delivered, and the next step
depends on what a page will hold that is not yet scanned. The invariant
(`PagingInv`) therefore speaks of the listing a running scan *would* come to if
nothing changed any more (`Found`: the rows it has and the readable names it has
yet to visit, with the weights of `Weights`), and of an entry's rank in it.

| Part | What it says |
|---|---|
| `Orderly` | a scan starts at the offset the walk has come to (`Reached`), and finds an entry once |
| `Grows` | while entries only appear: what is still to be delivered has a rank of `Reached` or more |
| `Shrinks` | while entries only disappear: what was delivered has a rank below `Reached`, and nothing is found that was not there at first |

The ranks are where the work is. `AheadOrder` says that the sort key is a strict
total order; from it the ranks of a listing are exactly the numbers below its
size (`RankOnto`), a page of size k holds the ranks from its offset on without a
gap (`PageRanks`), and a larger listing raises ranks and never lowers one
(`RankMonotone`). A visit keeps `Found`; a host step only raises or only lowers
ranks (`ChangeEffect`); a lost answer, and a new token that forgets a running
scan, replace `Found` by the listing of that moment (`GiveUpRanks`); a delivered
page moves `Reached` to `NextOffset`, just behind the ranks of the page
(`AnswerGrows`, `AnswerShrinks`). Both paging runs have had TLC check
`PagingInv`. `EveryWalkEnds` stays with TLC.

## 6. MCP calls

`McpCalls` is a call from the middleware to its answer. `queue` and `holders`
are the two anyio limiters, `inCall` the extent of `with _McpCall(...)`, `log`
the `mcp_call` lines. A scan enters `_McpCall` on the event loop and waits for a
token inside it; a plain tool waits first and runs as a whole, `_McpCall`
included, in its thread. That is why a call cancelled in the queue leaves a line
when it is a scan and none when it is not, and `AuditTellsTheTruth` speaks of
calls whose body has ended. Limiters and cancellation are anyio's, modelled as
first come, first served and `abandon_on_cancel=False`. An append polls for the
inbox lock in its thread (`polling`, `locked`), and gives up at the deadline.
`Ends` says how the body of each call may end.

| Run | Instance | What it shows |
|---|---|---|
| `calls_pools` | two scans for one scan token, a create and two appends for two threads of the default pool; a scan and an append may hang; one cancellation | `AuditTellsTheTruth`, `AnswerMatchesLine`, `LightCallsReturn`, `ScansReturn`, `McpTypeOK` |
| `calls_writes` | one create | finding 2 |

Two scans for one token make one wait, and one that hangs takes it: the others
must still return. An append that hangs may do so with the inbox lock held; the
other then polls for it in the last thread of the pool, where the create waits
for it, and both must return by the deadline. `LightCallsReturn` says no more
than the code gives: only if fewer calls of the default pool hang than it has
threads. Fairness is `WF(Proceed(c))`: the limiters hand out free tokens, the
event loop runs, a poll for the lock ends at the deadline, and a body that does
not hang returns. For the writing tools the last is `EveryRequestReturns`; for
scans it is that a walk over a finite tree ends.

### Theorems (`McpProofs`)

From `McpAssumption`, for any calls, tools, pool sizes and cancellations:
`LogTellsTheTruth` and `ClientAndLogAgree`. Neither property is inductive: that
a call leaves one line and not two depends on where it is. `CallInv` says so per call: nothing before the body (`Quiet`),
the result and, for a plain tool, the line after it (`Told`), and at the end
either a refusal or the line and the answer of one result (`Refused`, `Ended`).
`CallFrame` and `OneCallSteps` reduce a step to the call it is of.

`PoolsStayInOrder` is `McpTypeOK`: the queue of a pool holds exactly the calls
that wait for it, each once, and no pool gives out more tokens than it has.
`PoolInv` is per pool and adds that the holders are finitely many, without
which `Cardinality` says nothing. A call moves only in its own pool
(`PoolFrame`); `AppendWaits`, `TailWaits` and `WithoutWaits` say of sequences
what joining, being served and giving up do to a queue that holds nobody twice,
and `TokenTaken` counts tokens. That those who wait are served stays with TLC.

## 7. Duplicate candidates

`DuplicateScan` is one call of `find_duplicate_candidates` over
`iter_directory`. `todo` is the sorted list of names that `os.scandir` gave,
`entry` the name at hand with the call that comes next (`is_symlink`, `is_dir`,
`stat`, `open`) and the `st_mtime` that `stat` gave. Each call is an action, by
name, after the host has had its chance to put a note, a folder, a symlink or a
special file there: `Visit`, `IsSymlink`, `IsDir`, `Stat`, `Read` and `ReadGone`.
Each may raise (`CallFails`), where `is_symlink` and `is_dir` may also answer no
(`ProbeFails`: pathlib does so from Python 3.13 on). `ListFails` is
`stats.scan_failed`. `read`, `left` and `odd` are history: the entries that were
read, that were left out without being counted, and that were a folder or a
symlink at some time. `scored` is a set: the sort is the total order `Before`,
`scored[:limit]` are the entries with fewer than `limit` before them.

A note is its parsed frontmatter. Titles are what `one_line` makes of them, and
the constants `Fold` and `Strip` say which have one `normalized_title_key` and
what `_strip_sequence_suffix` leaves of a stem. A keyword occurs in a note or it
does not.

`duplicates` takes every inbox of three places for notes, each with a list of
contents of its own, which together hit each line of the table of ADR 0007 (the
exact title, the folded one with and without the project, the file name with its
`-2`, a real title that ends in `-2`, two keywords with and without the project,
five of five keywords, one, and one of two, which is half of them but fewer than
two); one of the places may also be a folder, a special file or a symlink. There
are besides a name that `append_inbox_note` refuses, a hidden file and one that
is no `.md`. The requests have two, three or five keywords, with and without a
project, and a limit of one or two. Three notes are the fewest with two strong
candidates and a weak one that outscores them, which is what the order and the
cut by `limit` are about; one host change and one failing call meet the scan at
every step.

- `SteadyNotesAreJudged` restates the table declaratively and compares, for the
  notes nobody touched, whatever became of the others.
- `AdviceIsSound`: "create" only if no note that stays is strong, "confirm" only
  if at most one is, and the notes the client is to choose from are on the list
  although it is cut. A failed listing may not pass for an empty inbox.
- `TruncationDropsWeakest`: the cut.
- `CountsAddUp`: `scanned_count` is the entries that were read and `skipped_count`
  all others, exactly, but for those that are left out by rule: hidden, not
  `.md`, or a folder or symlink at some time during the scan.

### Theorems (`DuplicateProofs`)

From `ScanAssumption`, for any inbox, titles, requests and host:

- `ScanTypeCorrect`, through `ScanInv`, which adds that `scored` is finite.
- `CutsOffTheWeakest`: `Before` is a strict order on candidates (`BeforeOrder`),
  so `Position` grows along it (`PositionMonotone`, which is where finiteness is
  needed); an entry that is cut off has a position that one returned has not,
  so it is not before it.
- `MoreSignalsNeverWeaker`, about `_confidence` alone: a further keyword, a
  project that matches or a better title never weakens a candidate.

- `SteadyNotesGetTheirDue`: `SteadyNotesAreJudged`.
- `EveryEntryIsCounted`: `CountsAddUp`.
- `AdviceHolds`: `AdviceIsSound`.

The last three hold at the end of a scan, and the invariant (`SeenInv`, checked
by TLC first) says what holds before it: `Seen` are the listed names the scan is
through with; `Stage` keeps listing, host and the entry at hand together (what is
listed and untouched is there; an entry past its suffix ends in `.md`; what is a
folder or a symlink is `odd`); `Verdicts` says of the names seen what `SteadyNotesAreJudged` says of all,
both ways, and that a candidate is an entry seen; `Counts` compares the counters
with the entries seen. `JudgeAgrees` is the heart of the first: that the nested
conditions of `_confidence`, with its half of the keywords rounded up, are the
table of ADR 0007 for any number of keywords. For the advice, two strong notes
are two strong candidates (`scored` has at most one entry per name), and by
`CutsOffTheWeakest`'s lemmas the cut by `limit` leaves a strong one.

`ScanAssumption` says that `None`, the value for what a note has not, is no title
and no entry; without it the model could not tell the two apart.

## 8. Chat exports

An export goes from the client's blocks to the note in two halves, as in
`chat_export.py`. `ExportNormalise` is the first: `pc` walks from `items`
through the checks to `accepted` or `refused`, `at` and `index` say which list
and which of its items is at hand, `kept` what the earlier ones were made into,
and `previous` is `previous_depth`, the depth of the bullet the list ends with.
There is one action per kind of item (`Paragraph`, `Bullet`, `Code`, `Table`,
`Quote`, `Step`, `Sentence`, `Entry`), then `NextList`, `CheckBudget`,
`CheckModeFields` and `CheckModeRequired`, in the order of the code: what is
refused first decides the error, and an item may be dropped without ending a run
of bullets. `ExportSchema` says which exports the input models let through.

`ExportMarkdown` is the second half, `render_chat_export`: mode by mode,
section by section, to lines. A string is the sequence of its lines, and a line
is what the code and a Markdown reader tell apart: what it would be in Markdown
(its mark: plain, blank, the start of a block, a number, a fence, an underline,
...), its indent, its size and its longest run of backticks. A rendered line has
what the renderer puts in front of the text, and whether the text is escaped.
Emphasis and links inside a line are not modelled.

`ExportReading` is no code of the gateway. It reads the lines as the first phase
of CommonMark does, in one pass that knows of open fences, paragraphs and list
items, and says what a reader sees; and it says, from the export alone, what the
client sent.

`export_notes` takes some eleven thousand exports, in families: each kind of
block in each place; up to four bullets of every depth with blocks between them
that are kept, dropped or refused; each start of a line that means something to
Markdown, alone, in a bullet, as a second line of a paragraph, in code; nine and
ten steps; payloads at the budget, one below and one above; every mode with
every field. The budget is 24 and `MaxBulletDepth` 3, the code's numbers being
only larger. `CHECK_DEADLOCK FALSE`: an export ends.

- `NoteReadsAsSent`: an accepted export, read back, is what was sent: no line of
  the client becomes a heading, a list or a fence, none leaves its step, and
  what was a quote, a table or a block of code is one. What is said of the export
  uses the renderer's own `OneLine`, `JoinSentences`, `Labelled` and `Cells`: how
  a text becomes one line or one cell is taken from it and not checked.
- `NothingLeftOut`: each field with something in it is shown by an accepted
  export.
- `RefusedForCause`: an export that breaks a rule is never accepted, and one that
  breaks none is refused for the budget alone; the rules are stated over the
  whole export and not item by item. One of the rules is a surprise: a quote with
  nothing in it is dropped, but one with a title and no callout is refused first,
  empty or not (`chat_export.py:708-715`).
- `BudgetBoundsThePayload`: what is accepted is within `MaxTotalBlockChars`,
  counted over what the rich blocks add to the note, wherever they stand. Blank
  lines and indentation are not counted as payload, so that a budget which forgot
  those alone would pass.
- `BulletsNest`: a bullet of depth d + 1 has above it, with only deeper bullets
  between them, one of depth d.

### Theorems (`ExportProofs`)

`BulletsAlwaysNest`: for any exports, budget and depth. `BulletsNest` is not
inductive, since the code compares with `previous` alone. `NestInv` adds that
`previous` is the depth of the last bullet kept, or none if the list does not
end with one (`Ending`), and that the walk is within the export. `NestsAppend`
is then a lemma about sequences: a bullet at most one deeper than the last
extends a sequence that nests, and the other lemmas show, action by action, that
only such blocks are appended.

`WalkStaysInBounds` is `ExportTypeOK`: every list is walked to its end and no
further, and no more is kept of it than it has items. `TypeInv` adds what makes
that inductive, that a list being walked has kept less than `index`.

`RefusalsHaveACause` is `RefusedForCause`. The code decides item by item, and what
it drops on the way changes neither the depth of the next bullet nor the error;
`Valid` looks at the whole export. `CauseInv` joins them:

| Part | What it says | Why it is needed |
|---|---|---|
| `Looked`, in `SoFarInv` | the items of a list looked at so far (`Done`) are `Sound`, and what is kept `Mirrors` those of them that show: as many, bullets at the same places with the same depths | `previous` then speaks of the items, so that a bullet refused for its depth does not fit among those that show (`MisfitDoesNotNest`) |
| `SummaryInv` | a summary that has been walked to its end kept a sentence | it is refused at the end of its own list, before the lists after it |
| `FieldsInv`, `RequiredInv`, `BudgetInv` | each check that has been passed holds | `kept` does not change after the walk |
| `Covered`, in `Looked` | the characters kept of a list are at least the payload of its items so far | the budget counts what is kept, `BudgetBoundsThePayload` what was sent |
| the last conjunct | once refused, there is a cause | the code forgets which it was |

One step of the walk is `Handled`: the item is refused, and then it is not
`Sound`, or a bullet too deep for the list so far; or dropped, and then it shows nothing and has no payload; or kept as a
block that has its bullet and bears its weight. `ItemsAreHandled` shows this for
each of the eight kinds from what is said of texts: `OneLineShows`,
`ParagraphShows`, `BlockShows` and `StepShows` say that what the code keeps is not
blank exactly if something of the text shows; `TextPayloadIs`, `LinesWeigh`,
`ParagraphWeighs`, `BlockWeighs` and `StepWeighs` that no line, line break or label
is kept and not counted. `PayloadIsBounded` is then `BudgetBoundsThePayload`.

Both rest on `SequenceLemmas`: what `FlattenSeq` and `FoldLeft` compute, one
element more at a time (`FlattenOneMore`, `TotalOneMore`), and what is left of a
sequence, its places and its sum when a test picks some of its elements
(`PickedPlaces`, `TotalOfPicked`). `Those` takes the place of `SelectSeq`, which
the prover cannot open: the library defines it with a recursion of its own. TLC
checks `CauseInv` over all of `export_notes`.

`NoteReadsAsSent` and `NothingLeftOut` read a note back and are model-checked.

## 9. Reads of the vault, behind HTTP

`VaultReads` is one call of `read_note`, of the related notes of
`create_inbox_note`, or of `get_vault_summary`, system call by system call,
while the host writes notes and deletes notes and folders. What was below a path
that the host deletes or writes over is gone.

| State | Code |
|---|---|
| `vault`, `had` | the tree as it is; history: everything that was at a path during the call |
| `at`, `links` | the candidate of `resolve_related_notes` at hand, and `links` |
| `stat` | what `os.stat` returned: size limit and `modified_at` are taken from it, the text from a later read by name |
| `walk`, `files`, `counted`, `skipped` | `os.walk`'s folders still to scan, the notes of the folder at hand, the notes taken in, `walk_stats.skipped` |

`CheckPath` to `ReadText` are `resolve_read_path` and `read_note` (and the
checks of a candidate), `NextCandidate` and `Link` are `resolve_related_notes`,
`ScanFolder` to `Summarise` are `iter_vault_notes` and `summarise_vault`. A note
is the length of its frontmatter block, its size, its tags, its mtime and the
heap of its frontmatter. The lstats of the components of one path are one step,
and the host makes no links during a call: what a link that is made in between
could do is outside these models. `Above` gives the components of a path, and
`Converted` what `to_json_safe` makes of a heap; both are constants, so that
theorems can be stated, and `MCGateway` gives them their values. `FrontmatterTree` is `to_json_safe` over a
heap of mappings and lists that may be shared or cyclic, as YAML aliases make
them; its `Tree` and `TreeFits` say, without counting along a walk, what should
come out (`Expected`).

- `ReadIsFaithful`: the text is of one note that was at the path during the
  call; if not said to be truncated, it is all of it; the frontmatter is the
  whole tree, or nothing if it is cyclic or over budget; a note that stays is
  not refused.
- `LinksAreVerified`: every link was a visible note during the call, comes once,
  and the links are the candidates in the client's order with some left out
  (a candidate that is refused first may be linked when it is repeated); linked and skipped add up; a good candidate is
  skipped only for the cap; and no related note makes the create fail.
- `SummaryFitsTheVault`: every number, `last_modified` included, lies between
  that of the notes that stay and that of all notes there were, whatever happens
  meanwhile; what stays and
  is not counted was skipped, or is in a folder that could not be scanned, which
  `os.walk` passes over.

`HttpRequests` is a request from `_NormalizeBareMcpPath` to its end: the mounts,
the bearer check on the one side, and on the other the access log around the
REST application with its one route. `http` is the step it is at, `status` what
the middleware has seen, `sent` what the client got, `accesses` and `failures`
the two logs. A REST request may crash in its handler or in a send, the MCP
transport may raise anywhere, which only the outer application's
`ServerErrorMiddleware` sees (`TransportCrashes`, `OuterServerError`), and any
request may be cancelled where it waits. What the transport refuses it refuses
with a status of its own (`Refusals`), whatever the method. `Gateway` puts a call of `VaultReads` behind the MCP
transport: `tool` begins it and the answer ends it. The handlers for
`GatewayError` are not reachable, as the only REST route raises none, and are
left out. Starlette, FastAPI, uvicorn and the MCP transport enter as they are
used; FastAPI's own `/docs` and `/openapi.json` are left out.

`gateway` takes every request at the door with a vault at rest, and the request
that passes with every call. The vault has nine paths, five of them Markdown: a
hidden folder, one within another, a note whose name cannot be a link, a file
that is no note, a path that may be a link, a special file or absent. The limit
for notes is 3, with notes below it, at it and above it, cut behind and inside
the frontmatter. Two host changes (a note goes and comes back, another) and one
failing call at any step. Up to three candidates with two links, so that the cap
and a repeat meet, also a repeat of one that was refused; heaps of up to three
containers with two items each, which is enough for one that is shared, one that
is left and entered again, and a cycle, with a budget of depth 2, 8 nodes and 6
characters. `CHECK_DEADLOCK FALSE`: a request ends.

### Theorems (`GatewayProofs`)

Of HTTP, from `HttpAssumption`, for any sets of paths that keep apart:

- `OneTrueAccessLine`: `AccessLineTellsTheStatus`. A REST request leaves one
  line, with the status the client got, however it ends.
- `OnlyTheTokenOpens`: `TokenGuardsTheTools`. Only the token reaches the tools, and
  what is meant for them never comes to the REST application.

Neither is inductive. `HttpInv` says where a request can be (`Routed`: steps of
the MCP side only with an MCP path), and for each side what has been logged,
seen and sent at each step (`McpInv`, `RestInv`); at the moment of the log line
`RestInv` has that `status` is what was sent.

Of the reads, from `ReadsAssumption` (the components of a path are a chain from the
root, names have one order) and `StartsAssumption`, for any vault, limits,
candidates, entries the host may write, and any number of its changes and of
failing calls:

- `LinksHold`: `LinksAreVerified`.
- `ReadsHold`: `ReadIsFaithful`, from `ConversionIsFaithful`: for each note that
  may be found, `Converted` is what is `Expected`. Both are recursive over the
  heap, and no induction over heaps is proved here; `gateway` checks them against each
  other, with `Metadata` and `Whole` for heaps of up to three containers.

`ReadsInv` is the invariant of the first two. `VaultInv`: the vault is a tree, so that a path that is
there has all its components, and what is there now was there during the call.
`PathInv`: what has been verified of the path at hand and cannot be undone. A
component may be deleted after it was looked at, but not become a link; so it is
at `ResolveStrict`, where the path is found to be there, that all its components
are known to be there and not linked, and the path was visible. `LinksInv`, at any
turn of the loop: the links are placed among the candidates before `at`, and each
steady one of those is linked unless the disk failed. `HostChangeEffect` says what
the host leaves true (`Visible` and `Notes` only grow, `Steady` only shrinks),
`StepKeepsPath`, `StepKeepsCreate` and `StepKeepsRead` go through the steps of the
call.

- `SummaryHolds`: `SummaryFitsTheVault`, of the numbers of notes, bytes, folders
  and tags and of `last_modified`, for any folding of finitely many tags.

`SummaryInv` is what it takes besides `ReadsInv`; TLC checked it over all of
`gateway` before it was proved. It looks at the walk through the set of paths
`Ahead` that may still be visited: those below a folder that is still to scan, or
among the notes of the folder at hand.

- `WalkInv`: no path is ahead twice (`Queue`): the folders still to scan have
  nothing below them in common, and no note at hand is below one. So no note is
  counted twice, although `os.walk` looks at a tree that changes. Every folder
  and name ahead was there, without a hidden or linked component above it.
- `CountedInv`: each note taken in is no longer ahead, could be read during the
  call, and has a size and tags that notes at its path had, though not always
  the same one: the host may replace it between `os.stat` and the read.
- `SkippedInv`: `skipped` is at least the number of notes that stay and were
  missed (`Lost`), and at most the faults and the paths passed over for what was
  there (`Spent`); without a fault nothing is lost. The paths that stay only
  become fewer, the doubtful ones only more.

`ScanKeepsSummary` is the step that carries the argument: a folder gives way to
the notes and folders found in it. That a path that stays is below one of them
(`StayingIsFound`) needs the shape of the vault: components form a chain from the
root, and what is there has folders above it. At the end `Ahead` is empty, so the
notes that stay are among those counted, and those among all there were
(`ChosenBetween`). The numbers follow without following the sums along the walk:
`TotalCovers` compares two sums of numbers of which one covers the other,
`EnumeratesCounts` and `ImageCounts` count, and `TopTagsFit` is about the ranks
of tags, none of which is left out but for as many that are used as much.
`SequenceLemmas` has those that say nothing of vaults.

## 10. Findings

1. `inbox_window`, `OnlyLinkCreatesNames`: a note the host deletes between the
   identity check and `os.replace` comes back, created by `os.replace`. ADR 0003
   says that no code path can do that.
2. `calls_writes`, `EveryWriteAttemptIsLogged`: a create that the SDK's schema
   validation rejects leaves no `mcp_call` line.

Seen while modelling, in the models as the code has it, without a run of its own:

- A listing that goes beyond `MAX_CURSOR_OFFSET` ends with `INVALID_CURSOR`
  (`cursor_service.py:97`), and the page with it is lost.
  `docs/IMPLEMENTATION_PLAN.md:739` gives that code to cursors that are altered,
  damaged or used for another listing.
- A `.tmp-` file stays if its `unlink` raises, and a descriptor if `os.fchmod` does
  (`inbox_service.py:186`, before `os.fdopen` owns it).
- A folder listing whose `scandir` raises is answered as an empty last page.
- What `_append_bytes` does to notes of mixed line endings (section 4), and the
  order of two checks of a quote (section 8).
- A note tagged both `Tag` and `tag` counts twice for the folded tag of the
  summary; `SummaryFitsTheVault` counts uses, not notes.
- Frontmatter over its budget is gone from the answer altogether, neither
  parsed nor in the text.
- A note that goes between its resolution and `os.stat` makes `read_note` answer
  `INTERNAL_ERROR`, and one that goes earlier `NOTE_NOT_FOUND`.
- In a note with lone CRs the summary and `read_note` may not agree on where the
  frontmatter ends: the one reads with universal newlines.

## 11. Not modelled

Listed with reasons under `components`. In short:

- what is text in and text out: `sanitise_title`, the percent-decoding of paths,
  YAML and headings, scores and excerpts of a search, folding of titles, of an
  export the escaping inside a line, the patterns of languages and callout
  names, its tags and frontmatter;
- of the reads, two details of the data: `ReadText` cuts between characters, where
  the code drops the U+FFFD that a cut within one leaves, and `BlockTags` has one
  limit on a frontmatter block, where the code counts characters and lines;
- what never changes after start-up: settings, error tables, log formatting;
- cryptography, which is taken to be ideal.

Model-checked and not proved:

- `NoteReadsAsSent` and `NothingLeftOut`, which rest on a reader with RECURSIVE
  operators, of which the prover can say nothing;
- of `ReadIsFaithful` that the conversion of a heap is as expected, a hypothesis
  of `ReadsHold`: both sides are recursive over heaps;
- `AnsweredIsDurable` with a coarse clock;
- liveness (`EveryRequestReturns`, `EveryWalkEnds`, `LightCallsReturn`,
  `ScansReturn`), because the prover has no rules for `ENABLED`.
