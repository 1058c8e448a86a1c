----------------------------- MODULE AppendBytes -----------------------------
(***************************************************************************)
(* The bytes of a note: _render_note and _append_bytes of                  *)
(* app/services/inbox_service.py, over "x" (any ordinary character), CR    *)
(* and LF.  InboxWrites says when these bytes are written; this module     *)
(* says which, through any number of appends to one note.                  *)
(***************************************************************************)
EXTENDS Naturals, Sequences, SequencesExt

CONSTANTS
    MaxFileLength,    \* length of a file the host made
    MaxContentLength, \* length of a request's content
    MaxAppends,       \* bound on the appends to one note
    MaxNoteBytes      \* settings.max_note_bytes

ASSUME BytesAssumption ==
    {MaxFileLength, MaxContentLength, MaxAppends, MaxNoteBytes} \subseteq Nat

VARIABLES
    file,     \* the note's bytes
    made,     \* history: the file when it was made
    readers,  \* history: what a reader of the note may see
    appends   \* appends so far

vars == <<file, made, readers, appends>>

-----------------------------------------------------------------------------
Chars == {"x", "CR", "LF"}
Texts(n) == UNION {[1..k -> Chars] : k \in 0..n}

\* content.strip() is not empty.
Contents == {t \in Texts(MaxContentLength) : "x" \in Range(t)}

\* replace("\r\n", "\n").replace("\r", "\n"): a CR is an LF, with the LF after it.
Normalised(s) ==
    FlattenSeq([k \in 1..Len(s) |->
                  IF s[k] = "LF" /\ k > 1 /\ s[k - 1] = "CR" THEN <<>>
                  ELSE IF s[k] = "CR" THEN <<"LF">> ELSE <<s[k]>>])

EndsIn(s, t) == IsSuffix(t, s)
LineEnded(s) == IF EndsIn(s, <<"LF">>) THEN s ELSE Append(s, "LF")

WithTerminator(s, terminator) ==
    FlattenSeq([k \in 1..Len(s) |-> IF s[k] = "LF" THEN terminator ELSE <<s[k]>>])

HasCrlf(s) == \E k \in 2..Len(s) : s[k - 1] = "CR" /\ s[k] = "LF"
Terminator(s) == IF HasCrlf(s) THEN <<"CR", "LF">> ELSE <<"LF">>

\* Mutant of Body: the file's line ending is not used.
BodyAlwaysLf(content, existing) == LineEnded(Normalised(content))

Body(content, existing) ==
    WithTerminator(LineEnded(Normalised(content)), Terminator(existing))

\* Mutant of Separator: a file without a last newline is not closed.
SeparatorMissing(existing) == <<>>

\* Mutant of Separator: a last CR counts as the end of a line.
SeparatorAfterCr(existing) ==
    IF existing # <<>> /\ ~EndsIn(existing, Terminator(existing)) /\ ~EndsIn(existing, <<"CR">>)
      THEN Terminator(existing) ELSE <<>>

Separator(existing) ==
    IF existing # <<>> /\ ~EndsIn(existing, Terminator(existing))
      THEN Terminator(existing) ELSE <<>>

\* _append_bytes
Appended(content, existing) == Separator(existing) \o Body(content, existing)

\* _render_note; a frontmatter block above it has lines of its own.
Rendered(content) ==
    LET body == Normalised(content) IN IF body = <<>> THEN body ELSE LineEnded(body)

-----------------------------------------------------------------------------
BareCr(s) == \E k \in 1..Len(s) : s[k] = "CR" /\ (k = Len(s) \/ s[k + 1] # "LF")
BareLf(s) == \E k \in 1..Len(s) : s[k] = "LF" /\ (k = 1 \/ s[k - 1] # "CR")

\* One line ending throughout: LF, or CRLF.
Uniform(s) == ~BareCr(s) /\ (HasCrlf(s) => ~BareLf(s))

\* CRLFs, and other line breaks between them.
Mixed(s) == HasCrlf(s) /\ (BareCr(s) \/ BareLf(s))

\* Whole lines, as a reader sees them.
Closed(r) == IF r = <<>> THEN <<>> ELSE LineEnded(r)

\* What a reader may see of a note after content was appended to s: the text on
\* lines of its own, behind at most an empty line when s is of mixed endings.
Gaps(s) == IF Mixed(s) THEN {<<>>, <<"LF">>} ELSE {<<>>}
Views(r, content, s) ==
    {Closed(r) \o gap \o LineEnded(Normalised(content)) : gap \in Gaps(s)}

\* A note the host made, or one create_inbox_note rendered.
Init ==
    /\ file \in Texts(MaxFileLength) \union {Rendered(c) : c \in Texts(MaxContentLength)}
    /\ made = file
    /\ readers = {Normalised(file)}
    /\ appends = 0

Fits(content) == Len(file) + Len(Appended(content, file)) <= MaxNoteBytes

AppendNote(content) ==
    /\ appends < MaxAppends
    /\ Len(file) <= MaxNoteBytes /\ Fits(content)
    /\ file' = file \o Appended(content, file)
    /\ readers' = UNION {Views(r, content, file) : r \in readers}
    /\ appends' = appends + 1
    /\ UNCHANGED made

\* FileTooLargeError: the note stays as it is.
Refused == (\E c \in Contents : ~Fits(c)) /\ UNCHANGED vars

Next == (\E c \in Contents : AppendNote(c)) \/ Refused

Spec == Init /\ [][Next]_vars

-----------------------------------------------------------------------------
(* Properties.                                                             *)

\* Through any appends, with any line endings in their content, a note of one
\* line ending keeps it ("the existing note's newline is respected"), and a
\* reader sees every text on lines of its own, with no line joined and no
\* empty line put in.
NotesReadAsWritten ==
    Uniform(made) => /\ Uniform(file) /\ (HasCrlf(file) => HasCrlf(made))
                     /\ readers = {Normalised(file)}

\* Of any note, with a CR as its last byte or with every kind of line break, a
\* reader sees the texts in their order on lines of their own; all that may come
\* between them is an empty line each time a note of mixed endings is closed.
MixedNotesReadInOrder == Normalised(file) \in readers
=============================================================================
