---------------------------- MODULE ExportReading ----------------------------
(***************************************************************************)
(* What a reader of Markdown finds in a rendered export, and what the      *)
(* client meant it to find.                                                *)
(*                                                                         *)
(* The reader goes line by line, as CommonMark's first phase does, and     *)
(* says of each line which block it belongs to: `at' is the depth of a     *)
(* bullet, the number of a step, or the step a block is part of (0: none). *)
(***************************************************************************)
EXTENDS ExportMarkdown

Event(as, name, n, text) == [as |-> as, name |-> name, at |-> n, text |-> text]

-----------------------------------------------------------------------------
(* The reader.                                                             *)

\* events so far, ticks of the open fence, whether a paragraph is open, the
\* column and number of the open step, and the indents of the open bullets.
Start == [events |-> <<>>, fence |-> 0, para |-> FALSE, column |-> 0, step |-> 0,
          bullets |-> <<>>]

Inside(s, l) == s.column > 0 /\ l.indent >= s.column
Where(s, l) == IF Inside(s, l) THEN s.step ELSE 0

\* A line outside of the open step closes it.
Leave(s, l) ==
    [s EXCEPT !.column = IF Inside(s, l) THEN @ ELSE 0, !.step = Where(s, l)]

Say(s, event) == [s EXCEPT !.events = Append(@, event)]

\* The client's text on this line opens a block of its own; an underline and a
\* delimiter row do so only below a line of text.
Forges(l, below) ==
    /\ ~l.escaped /\ l.text # <<>>
    /\ l.text[1].mark \in Hazards \ (IF below THEN {} ELSE {"setext", "table"})

Closes(s, l) ==
    /\ l.text # <<>> /\ l.text[1].ticks >= s.fence
    /\ l.deco = "fence" \/ (l.text[1].mark = "fence" /\ l.indent - s.column <= 3)

ReadInFence(s, l) ==
    IF Closes(s, l) THEN [Say(s, Event("close", "", Where(s, l), <<>>)) EXCEPT !.fence = 0]
    ELSE Say(s, Event("code", "", IF l.text = <<Blank>> THEN s.step ELSE Where(s, l), l.text))

ReadHeading(s, l) ==
    [Say(s, Event(l.deco, l.name, 0, l.text)) EXCEPT
        !.para = FALSE, !.column = 0, !.step = 0, !.bullets = <<>>]

ReadBullet(s, l) ==
    LET open == SelectSeq(s.bullets, LAMBDA i : i + 2 <= l.indent) IN
    [Say(s, Event(IF Forges(l, FALSE) THEN "forged" ELSE "bullet", l.name, Len(open), l.text))
        EXCEPT !.para = TRUE, !.column = 0, !.step = 0, !.bullets = Append(open, l.indent)]

\* The item after the open step is its successor; otherwise a list begins.
ReadOrdered(s, l) ==
    LET n == s.step + 1 IN
    [Say(s, Event(IF Forges(l, FALSE) THEN "forged" ELSE "step", "", n, l.text))
        EXCEPT !.para = TRUE, !.step = n, !.column = IF n < 10 THEN 3 ELSE 4]

ReadFence(s, l) ==
    [Say(Leave(s, l), Event("open", "", Where(s, l), <<>>))
        EXCEPT !.fence = l.text[1].ticks, !.para = FALSE, !.bullets = <<>>]

\* A table directly below a bullet is taken for more of the bullet's text.
ReadTable(s, l) ==
    LET lost == s.para /\ s.bullets # <<>> IN
    [Say(Leave(s, l), Event(IF lost THEN "lost" ELSE l.deco, "", Where(s, l), l.text))
        EXCEPT !.para = lost, !.bullets = IF lost THEN @ ELSE <<>>]

\* Lines of a quote that follow each other are one paragraph in it.
ReadQuote(s, l) ==
    LET forged == l.deco = "quote" /\ Forges(l, s.para) IN
    [Say(Leave(s, l), Event(IF forged THEN "forged" ELSE l.deco, "", Where(s, l), l.text))
        EXCEPT !.para = TRUE, !.bullets = <<>>]

ReadText(s, l) ==
    LET as == CASE Forges(l, s.para) -> "forged"
                [] ~Forges(l, s.para) /\ s.para -> "continue"
                [] ~Forges(l, s.para) /\ ~s.para /\ l.indent - s.column >= 4 -> "indented"
                [] OTHER -> "text"
    IN [Say(Leave(s, l), Event(as, "", Where(s, l), <<[l.text[1] EXCEPT !.indent = 0]>>))
           EXCEPT !.para = TRUE, !.bullets = IF s.para THEN @ ELSE <<>>]

ReadLine(s, l) ==
    CASE s.fence > 0 /\ (s.column = 0 \/ Inside(s, l) \/ l.text = <<Blank>>) -> ReadInFence(s, l)
      [] OTHER ->
         LET t == [s EXCEPT !.fence = 0] IN
         CASE l.deco = "blank" \/ l.text = <<Blank>> -> [t EXCEPT !.para = FALSE]
           [] l.deco \in {"section", "topic", "placeholder", "link"} -> ReadHeading(t, l)
           [] l.deco = "bullet" -> ReadBullet(t, l)
           [] l.deco = "ordered" -> ReadOrdered(t, l)
           [] l.deco = "fence" -> ReadFence(t, l)
           [] l.deco \in {"header", "delimiter", "row"} -> ReadTable(t, l)
           [] l.deco \in {"quote", "callout"} -> ReadQuote(t, l)
           [] OTHER -> ReadText(t, l)

Reading == FoldLeft(ReadLine, Start, Content).events

-----------------------------------------------------------------------------
(* What was sent.                                                          *)

SentCaption(label, n) ==
    IF HasText(label) THEN <<Event("text", "", n, <<OneLine(label)>>)>> ELSE <<>>

SentParagraph(text) ==
    FlattenSeq([k \in 1..Len(text) |->
        IF text[k].mark = "blank" THEN <<>>
        ELSE <<Event(IF k = 1 \/ text[k - 1].mark = "blank" THEN "text" ELSE "continue",
                     "", 0, <<[text[k] EXCEPT !.indent = 0]>>)>>])

SentCode(b, n) ==
    LET lines == CanonicaliseCode(b.text) IN
    SentCaption(b.label, n) \o <<Event("open", "", n, <<>>)>>
    \o [k \in 1..Len(lines) |-> Event("code", "", n, <<lines[k]>>)]
    \o <<Event("close", "", n, <<>>)>>

SentTable(b, n) ==
    SentCaption(b.label, n)
    \o <<Event("header", "", n, Cells(b.headers)), Event("delimiter", "", n, Cells(b.headers))>>
    \o [k \in 1..Len(b.rows) |-> Event("row", "", n, Cells(b.rows[k]))]

SentQuote(b, n) ==
    (IF b.callout
       THEN <<Event("callout", "", n, IF HasText(b.title) THEN <<OneLine(b.title)>> ELSE <<>>)>>
       ELSE <<>>)
    \o [k \in 1..Len(NonEmpty(b.lines)) |->
          Event("quote", "", n, <<NonEmpty(b.lines)[k]>>)]

SentBlock(b, n) ==
    CASE b.kind \in {"paragraph", "string"} -> SentParagraph(b.text)
      [] b.kind = "text" -> <<Event("text", "", n, <<OneLine(b.text)>>)>>
      [] b.kind = "bullet" -> <<Event("bullet", b.checked, b.depth, <<OneLine(b.text)>>)>>
      [] b.kind = "code" -> SentCode(b, n)
      [] b.kind = "table" -> SentTable(b, n)
      [] b.kind = "quote" -> SentQuote(b, n)
      [] b.kind \in {"event", "definition"} ->
           <<Event("bullet", "", 0, <<Labelled([label |-> OneLine(b.label),
                                                text |-> OneLine(b.text)])>>)>>

SentStep(n, item) ==
    LET step == CoerceStep(item)
        shown == SelectSeq(step.blocks, ShowsBlock)
    IN <<Event("step", "", n, <<OneLine(shown[1].text)>>)>>
       \o FlattenSeq([k \in 1..Len(shown) - 1 |-> SentBlock(shown[k + 1], n)])

SentPlaceholder(name) == <<Event("placeholder", name, 0, <<>>)>>

SentTopic(items) ==
    LET points == SelectSeq(Tail(items), Shows) IN
    <<Event("topic", "", 0, <<OneLine(items[1].text)>>)>>
    \o IF points = <<>> THEN SentPlaceholder("not_recorded")
       ELSE FlattenSeq([k \in 1..Len(points) |-> SentBlock(points[k], 0)])

SentSummary(items) ==
    <<Event("text", "", 0,
            <<JoinSentences([k \in 1..Len(items) |-> [text |-> OneLine(items[k].text)]])>>)>>

\* The lists of a field, with what shows of them.
ListsOf(field) ==
    LET lists == SelectSeq(export.lists, LAMBDA list : list.field = field) IN
    [i \in 1..Len(lists) |-> SelectSeq(lists[i].items, Shows)]

SentSection(field) ==
    LET items == FlattenSeq(ListsOf(field)) IN
    <<Event("section", field, 0, <<>>)>>
    \o CASE field = "related_notes" ->
              LET links == SelectSeq(export.related, LAMBDA path : path.renderable) IN
              IF links = <<>> THEN SentPlaceholder("none")
              ELSE [k \in 1..Len(links) |-> Event("link", links[k].name, 0, <<>>)]
         [] field # "related_notes" /\ items = <<>> -> SentPlaceholder(PlaceholderFor(field))
         [] field = "tldr" -> SentSummary(items)
         [] items # <<>> /\ field = "steps" ->
              FlattenSeq([n \in 1..Len(items) |-> SentStep(n, items[n])])
         [] items # <<>> /\ field = "topics" ->
              FlattenSeq([i \in 1..Len(ListsOf(field)) |-> SentTopic(ListsOf(field)[i])])
         [] OTHER -> FlattenSeq([k \in 1..Len(items) |-> SentBlock(items[k], 0)])

Sent ==
    LET order == <<"tldr", "decisions">> \o ModeSections[export.mode]
                 \o (IF FlattenSeq(ListsOf("code_blocks")) # <<>> THEN <<"code_blocks">> ELSE <<>>)
                 \o <<"unresolved_issues", "next_actions", "related_notes", "sources">>
    IN FlattenSeq([i \in 1..Len(order) |-> SentSection(order[i])])

-----------------------------------------------------------------------------
\* A reader finds in the note what the client sent, block by block and in its
\* order, and nothing else: no client text opens a heading, list, quote, table
\* or fence, none is swallowed by its neighbour, and no step loses its blocks
\* (_build_content and every _render_ function under it).
NoteReadsAsSent == pc = "accepted" => Reading = Sent

\* Nothing an accepted export shows is left out: every field with something in
\* it has its section in the note (_check_mode_fields, _build_content).
NothingLeftOut ==
    pc = "accepted" =>
        \A f \in ToSet(FieldOrder) : FieldShows(export, f) =>
            \E k \in 1..Len(Reading) : Reading[k].as = "section" /\ Reading[k].name = f
=============================================================================
