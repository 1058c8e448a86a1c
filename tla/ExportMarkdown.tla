---------------------------- MODULE ExportMarkdown ----------------------------
(***************************************************************************)
(* The note an accepted export becomes: _build_content and the _render_*   *)
(* functions of app/services/chat_export.py.                               *)
(*                                                                         *)
(* A rendered line is what the renderer puts at its start (`deco'), its    *)
(* indentation, the client's texts on it, and whether a backslash keeps    *)
(* them from opening a block.                                              *)
(***************************************************************************)
EXTENDS ExportNormalise

-----------------------------------------------------------------------------
(* Rendering.                                                              *)

\* Mutant of EscapeBlockStart: underlines of headings are not escaped.
EscapeAllButSetext(line) == line.mark \in Hazards \ {"setext"}

EscapeBlockStart(line) == line.mark \in Hazards

\* Headings, cells and code are put out as they are.
Verbatim == {"topic", "callout", "header", "delimiter", "row", "fence", "code"}

Out(deco, name, indent, text) ==
    [deco |-> deco, name |-> name, indent |-> indent, text |-> text,
     escaped |-> deco \notin Verbatim /\ text # <<>> /\ EscapeBlockStart(text[1])]

Empty == Out("blank", "", 0, <<>>)
Joined(pieces) ==
    FlattenSeq([k \in 1..Len(pieces) |->
                  IF k = 1 THEN pieces[k] ELSE <<Empty>> \o pieces[k]])

\* _PLACEHOLDER_*.
PlaceholderFor(field) ==
    CASE field = "root_cause" -> "unresolved"
      [] field \in {"decisions", "unresolved_issues", "next_actions", "sources",
                    "related_notes"} -> "none"
      [] OTHER -> "not_recorded"
Placeholder(name) == <<Out("placeholder", name, 0, <<>>)>>

\* Mutant of FenceFor: always three.
FenceOfThree(lines) == 3

\* _fence_for: longer than any run of backticks inside, three at least.
FenceFor(lines) == Max({3} \union {lines[k].ticks + 1 : k \in 1..Len(lines)})

Caption(label, indent) ==
    IF label = Blank THEN <<>> ELSE <<Out("", "", indent, <<label>>)>>

RenderFencedCode(b, indent) ==
    LET fence == Out("fence", "", indent, <<[Blank EXCEPT !.ticks = FenceFor(b.lines)]>>) IN
    Caption(b.label, indent) \o <<fence>>
    \o [k \in 1..Len(b.lines) |->
          IF b.lines[k] = Blank THEN Out("code", "", 0, <<Blank>>)
          ELSE Out("code", "", indent + b.lines[k].indent, <<b.lines[k]>>)]
    \o <<fence>>

RenderTable(b, indent) ==
    Caption(b.label, indent)
    \o <<Out("header", "", indent, b.headers), Out("delimiter", "", indent, b.headers)>>
    \o [k \in 1..Len(b.rows) |-> Out("row", "", indent, b.rows[k])]

RenderQuote(b, indent) ==
    (IF b.callout
       THEN <<Out("callout", "", indent, IF b.title = Blank THEN <<>> ELSE <<b.title>>)>>
       ELSE <<>>)
    \o [k \in 1..Len(b.lines) |-> Out("quote", "", indent, <<b.lines[k]>>)]

\* A line's indentation is split off before it is escaped, and put back.
RenderParagraph(b) ==
    [k \in 1..Len(b.lines) |->
       IF b.lines[k] = Blank THEN Empty
       ELSE Out("", "", b.lines[k].indent, <<b.lines[k]>>)]

RenderBullet(b) == <<Out("bullet", b.checked, 2 * b.depth, <<b.text>>)>>

Render(b, indent) ==
    CASE b.kind = "paragraph" -> RenderParagraph(b)
      [] b.kind = "bullet" -> RenderBullet(b)
      [] b.kind = "code" -> RenderFencedCode(b, indent)
      [] b.kind = "table" -> RenderTable(b, indent)
      [] b.kind = "quote" -> RenderQuote(b, indent)
      [] b.kind = "text" -> <<Out("", "", indent, <<b.text>>)>>

\* Mutant of RenderBodyItems: a table follows a list without a blank line.
RenderBodyItemsTight(blocks) ==
    FlattenSeq([k \in 1..Len(blocks) |->
       (IF k = 1 \/ blocks[k - 1].kind = "bullet" THEN <<>> ELSE <<Empty>>)
       \o Render(blocks[k], 0)])

\* The bullets of a run follow each other; a blank line parts all other blocks.
RenderBodyItems(blocks) ==
    FlattenSeq([k \in 1..Len(blocks) |->
       (IF k = 1 \/ (blocks[k].kind = "bullet" /\ blocks[k - 1].kind = "bullet")
          THEN <<>> ELSE <<Empty>>)
       \o Render(blocks[k], 0)])

\* Mutant of MarkerWidth: three columns for every step.
MarkerWidthOfThree(n) == 3

\* "9. " and "10. ".
MarkerWidth(n) == IF n < 10 THEN 3 ELSE 4

RenderStep(n, step) ==
    <<Out("ordered", "", 0, <<step.blocks[1].text>>)>>
    \o FlattenSeq([k \in 1..Len(step.blocks) - 1 |->
                     <<Empty>> \o Render(step.blocks[k + 1], MarkerWidth(n))])

RenderTopic(blocks) ==
    <<Out("topic", "", 0, <<blocks[1].text>>), Empty>>
    \o IF Len(blocks) = 1 THEN Placeholder("not_recorded") ELSE RenderBodyItems(Tail(blocks))

\* "a: b".
Labelled(b) ==
    IF b.label = Blank THEN b.text
    ELSE [b.label EXCEPT !.mark = IF @ \in WholeLine THEN "plain" ELSE @,
                         !.size = @ + 2 + b.text.size]

\* _join_sentences.
JoinSentences(blocks) ==
    [blocks[1].text EXCEPT
       !.mark = IF Len(blocks) > 1 /\ @ \in WholeLine THEN "plain" ELSE @,
       !.size = SumOf(LAMBDA b : b.text.size, blocks) + Len(blocks) - 1]

RenderBody(field) ==
    LET blocks == Blocks(field) IN
    CASE blocks = <<>> -> Placeholder(PlaceholderFor(field))
      [] blocks # <<>> /\ field = "tldr" -> <<Out("", "", 0, <<JoinSentences(blocks)>>)>>
      [] blocks # <<>> /\ field = "steps" ->
           FlattenSeq([n \in 1..Len(blocks) |-> RenderStep(n, blocks[n])])
      [] blocks # <<>> /\ field = "topics" ->
           Joined([i \in 1..Cardinality({j \in 1..at : export.lists[j].field = "topics"}) |->
                     RenderTopic(SelectSeq(kept, LAMBDA b : b # <<>> /\ b[1].kind = "heading")[i])])
      [] blocks # <<>> /\ field \in {"timeline", "definitions"} ->
           [k \in 1..Len(blocks) |-> Out("bullet", "", 0, <<Labelled(blocks[k])>>)]
      [] OTHER -> RenderBodyItems(blocks)

\* _render_related_notes_section filters what resolve_related_notes returned
\* once more.
RenderRelatedNotes ==
    LET links == SelectSeq(export.related, LAMBDA path : path.renderable) IN
    IF links = <<>> THEN Placeholder("none")
    ELSE [k \in 1..Len(links) |-> Out("link", links[k].name, 0, <<>>)]

RenderSection(field) ==
    <<Out("section", field, 0, <<>>), Empty>>
    \o IF field = "related_notes" THEN RenderRelatedNotes ELSE RenderBody(field)

\* Every heading of a mode, always; the code only when there is some.
SectionOrder(mode) ==
    <<"tldr", "decisions">> \o ModeSections[mode]
    \o (IF Blocks("code_blocks") # <<>> THEN <<"code_blocks">> ELSE <<>>)
    \o <<"unresolved_issues", "next_actions", "related_notes", "sources">>

\* _build_content, after the note's title.
Content ==
    LET order == SectionOrder(export.mode) IN
    Joined([i \in 1..Len(order) |-> RenderSection(order[i])])
=============================================================================
