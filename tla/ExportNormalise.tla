--------------------------- MODULE ExportNormalise ---------------------------
(***************************************************************************)
(* The checks a chat export goes through before it is rendered:            *)
(* _normalise_export, _check_mode_fields and _check_mode_required of       *)
(* app/services/chat_export.py, on input that app/models.py lets through.  *)
(***************************************************************************)
EXTENDS ExportSchema

CONSTANT Exports \* the exports a client may send

FieldOrder ==
    <<"tldr", "decisions", "unresolved_issues", "next_actions", "sources",
      "overview", "key_points", "context", "design", "implementation_notes",
      "verification", "turning_points", "prerequisites", "rollback", "symptom",
      "environment", "investigation", "root_cause", "workaround", "facts",
      "examples", "steps", "code_blocks", "timeline", "topics", "definitions">>

ModeSections ==
    [summary   |-> <<"overview", "key_points">>,
     technical |-> <<"context", "design", "implementation_notes", "verification">>,
     history   |-> <<"timeline", "turning_points">>,
     full      |-> <<"topics">>,
     procedure |-> <<"prerequisites", "steps", "verification", "rollback">>,
     issue     |-> <<"symptom", "environment", "investigation", "root_cause",
                     "workaround">>,
     reference |-> <<"definitions", "facts", "examples">>]
Modes == DOMAIN ModeSections
ModeFields == UNION {ToSet(ModeSections[m]) : m \in Modes}

\* One of these fields must be there; a mode with none requires nothing.
ModeRequired ==
    [summary |-> {}, technical |-> {}, history |-> {"timeline"},
     full |-> {"topics"}, procedure |-> {"steps"}, issue |-> {"symptom"},
     reference |-> {"definitions", "facts", "examples"}]

ASSUME ExportAssumption ==
    /\ ToSet(FieldOrder) = DOMAIN Fields /\ ModeFields \subseteq DOMAIN Fields
    /\ \A e \in Exports : ChatExport(e)

VARIABLES
    export,   \* the ChatExport
    pc,       \* "items", then the checks, then "accepted" or "refused"
    at,       \* the list that is being normalised
    index,    \* its next item
    previous, \* previous_depth
    kept      \* what has been normalised so far, list by list

vars == <<export, pc, at, index, previous, kept>>

-----------------------------------------------------------------------------
(* Strings.                                                                *)

\* one_line: the lines that are not blank, joined by single spaces.
OneLine(text) ==
    LET solid == Those(text, LAMBDA l : l.mark # "blank") IN
    IF solid = <<>> THEN Blank
    ELSE [solid[1] EXCEPT
            !.indent = 0,
            !.mark = IF Len(solid) > 1 /\ @ \in WholeLine THEN "plain" ELSE @,
            !.size = SumOf(LAMBDA l : l.size, solid) + Len(solid) - 1]

\* _normalise_lines: a list of strings, without those that become empty.
NonEmpty(texts) ==
    Those([k \in 1..Len(texts) |-> OneLine(texts[k])], LAMBDA l : l # Blank)

\* _canonicalise_paragraph: no blank line at either end, no indentation where
\* a Markdown paragraph begins.
CanonicaliseParagraph(text) ==
    LET solid == {k \in 1..Len(text) : text[k].mark # "blank"}
        lines == SubSeq(text, Min(solid), Max(solid))
    IN IF solid = {} THEN <<>>
       ELSE [k \in 1..Len(lines) |->
               IF lines[k].mark = "blank" THEN Blank
               ELSE IF k = 1 \/ lines[k - 1].mark = "blank"
                 THEN [lines[k] EXCEPT !.indent = 0]
                 ELSE lines[k]]

\* _canonicalise_code: one newline at the end is dropped, nothing else.
CanonicaliseCode(text) ==
    IF Len(text) > 1 /\ Last(text) = Blank THEN Front(text) ELSE text

-----------------------------------------------------------------------------
(* Blocks: what body fields, steps and code_blocks consist of.             *)

Nothing == [kind |-> "nothing"]

NormaliseParagraph(b) ==
    LET lines == CanonicaliseParagraph(b.text) IN
    IF lines = <<>> THEN Nothing ELSE [kind |-> "paragraph", lines |-> lines]

NormaliseText(b) ==
    LET line == OneLine(b.text) IN
    IF line = Blank THEN Nothing ELSE [kind |-> "text", text |-> line]

\* Only blanks: dropped; the label goes with it.
NormaliseCode(b) ==
    LET lines == CanonicaliseCode(b.text) IN
    IF \A k \in 1..Len(lines) : lines[k].mark = "blank" THEN Nothing
    ELSE [kind |-> "code", label |-> OneLine(b.label), lines |-> lines]

\* A table is kept or refused, never dropped.
TableIsRefused(b) ==
    \/ \E h \in ToSet(b.headers) : OneLine(h) = Blank
    \/ b.alignments \notin {None, Len(b.headers)}
    \/ \E row \in ToSet(b.rows) : Len(row) # Len(b.headers)

Cells(texts) == [k \in 1..Len(texts) |-> OneLine(texts[k])]

NormaliseTable(b) ==
    [kind |-> "table", label |-> OneLine(b.label), headers |-> Cells(b.headers),
     rows |-> [k \in 1..Len(b.rows) |-> Cells(b.rows[k])]]

\* A title, even an empty one, needs a callout.
QuoteIsRefused(b) == b.title # <<>> /\ ~b.callout

NormaliseQuote(b) ==
    LET lines == NonEmpty(b.lines) IN
    IF lines = <<>> THEN Nothing
    ELSE [kind |-> "quote", callout |-> b.callout, title |-> OneLine(b.title),
          lines |-> lines]

\* _normalise_step_block.
BlockIsRefused(b) ==
    \/ b.kind = "table" /\ TableIsRefused(b)
    \/ b.kind = "quote" /\ QuoteIsRefused(b)

NormaliseBlock(b) ==
    CASE b.kind = "text" -> NormaliseText(b)
      [] b.kind = "code" -> NormaliseCode(b)
      [] b.kind = "table" -> NormaliseTable(b)
      [] b.kind = "quote" -> NormaliseQuote(b)

-----------------------------------------------------------------------------
(* One item of the list at hand.                                           *)

List == export.lists[at]
Item ==
    IF List.field = "steps" THEN CoerceStep(List.items[index])
    ELSE CoerceBodyItem(List.items[index])
IsNext(kind) == pc = "items" /\ index <= Len(List.items) /\ Item.kind = kind

Refuse == pc' = "refused" /\ UNCHANGED <<export, at, index, previous, kept>>
Drop == index' = index + 1 /\ UNCHANGED <<export, pc, at, previous, kept>>

\* Mutant of Keep: a block between two bullets does not end their list.
KeepInOneRun(block) ==
    /\ kept' = [kept EXCEPT ![at] = Append(@, block)]
    /\ index' = index + 1
    /\ previous' = IF block.kind = "bullet" THEN block.depth ELSE previous
    /\ UNCHANGED <<export, pc, at>>

\* Whatever is kept and is no bullet ends the run of bullets.
Keep(block) ==
    /\ kept' = [kept EXCEPT ![at] = Append(@, block)]
    /\ index' = index + 1
    /\ previous' = IF block.kind = "bullet" THEN block.depth ELSE None
    /\ UNCHANGED <<export, pc, at>>

\* Mutant of KeepOrDrop: a block that is dropped ends the run of bullets.
KeepOrDropEndingRun(block) ==
    IF block = Nothing
      THEN index' = index + 1 /\ previous' = None /\ UNCHANGED <<export, pc, at, kept>>
      ELSE Keep(block)

KeepOrDrop(block) == IF block = Nothing THEN Drop ELSE Keep(block)

\* _check_bullet_depth.
DepthFits(depth) ==
    IF previous = None THEN depth = 0 ELSE depth <= previous + 1

Paragraph == IsNext("paragraph") /\ KeepOrDrop(NormaliseParagraph(Item))

\* An empty bullet is dropped before its depth is looked at.
Bullet ==
    LET line == OneLine(Item.text) IN
    /\ IsNext("bullet")
    /\ IF line = Blank THEN Drop
       ELSE IF ~DepthFits(Item.depth) THEN Refuse
       ELSE Keep([kind |-> "bullet", text |-> line, depth |-> Item.depth,
                  checked |-> Item.checked])

Code == IsNext("code") /\ KeepOrDrop(NormaliseCode(Item))

Table ==
    /\ IsNext("table")
    /\ IF TableIsRefused(Item) THEN Refuse ELSE Keep(NormaliseTable(Item))

Quote ==
    /\ IsNext("quote")
    /\ IF QuoteIsRefused(Item) THEN Refuse ELSE KeepOrDrop(NormaliseQuote(Item))

\* A step whose blocks are all dropped is dropped; one that is kept begins
\* with a text.
Step ==
    /\ IsNext("step")
    /\ IF \E k \in 1..Len(Item.blocks) : BlockIsRefused(Item.blocks[k]) THEN Refuse
       ELSE LET blocks ==
                  Those([k \in 1..Len(Item.blocks) |-> NormaliseBlock(Item.blocks[k])],
                        LAMBDA b : b # Nothing)
            IN IF blocks = <<>> THEN Drop
               ELSE IF blocks[1].kind # "text" THEN Refuse
               ELSE Keep([kind |-> "step", blocks |-> blocks])

Sentence == IsNext("sentence") /\ KeepOrDrop(NormaliseText(Item))

\* Timeline entries, topic headings and definitions may not be empty.
Entry ==
    /\ \E kind \in {"event", "heading", "definition"} : IsNext(kind)
    /\ LET text == OneLine(Item.text)
           label == OneLine(Item.label)
       IN IF text = Blank \/ (Item.kind = "definition" /\ label = Blank)
            THEN Refuse
            ELSE Keep([kind |-> Item.kind, label |-> label, text |-> text])

\* Mutant of NextList: the next list is not taken from its beginning.
NextListKeepingIndex ==
    /\ pc = "items" /\ index > Len(List.items)
    /\ IF at < Len(export.lists)
         THEN at' = at + 1 /\ kept' = Append(kept, <<>>) /\ UNCHANGED pc
         ELSE pc' = "budget" /\ UNCHANGED <<at, kept>>
    /\ previous' = None
    /\ UNCHANGED <<export, index>>

\* The end of a list; the summary must hold a sentence.
NextList ==
    /\ pc = "items" /\ index > Len(List.items)
    /\ IF List.field = "tldr" /\ kept[at] = <<>> THEN Refuse
       ELSE /\ IF at < Len(export.lists)
                 THEN at' = at + 1 /\ kept' = Append(kept, <<>>) /\ UNCHANGED pc
                 ELSE pc' = "budget" /\ UNCHANGED <<at, kept>>
            /\ index' = 1 /\ previous' = None
            /\ UNCHANGED export

-----------------------------------------------------------------------------
(* The checks of the whole.                                                *)

\* Mutant of ParagraphChars: the line breaks are not counted.
ParagraphCharsWithoutBreaks(lines) == Sizes(lines)

\* _paragraph_chars: the lines and what parts them.
ParagraphChars(lines) == Sizes(lines) + Len(lines) - 1

BlockChars(b) ==
    CASE b.kind = "paragraph" -> ParagraphChars(b.lines)
      [] b.kind = "code" -> TextChars(b.lines) + b.label.size
      [] b.kind = "table" -> b.label.size + Sizes(b.headers) + SumOf(Sizes, b.rows)
      [] b.kind = "quote" -> b.title.size + Sizes(b.lines)
      [] OTHER -> 0

Chars(b) == IF b.kind = "step" THEN SumOf(BlockChars, b.blocks) ELSE BlockChars(b)

TotalBlockChars == SumOf(LAMBDA blocks : SumOf(Chars, blocks), kept)

CheckBudget ==
    /\ pc = "budget"
    /\ IF TotalBlockChars > MaxTotalBlockChars THEN Refuse
       ELSE pc' = "fields" /\ UNCHANGED <<export, at, index, previous, kept>>

\* _field_length: getattr(normalised, field).
Blocks(field) ==
    FlattenSeq([i \in 1..at |-> IF export.lists[i].field = field THEN kept[i] ELSE <<>>])

\* Mutant of Allowed: any field that some mode has.
AllowedInAnyMode(field) == field \in ModeFields

Allowed(field) == field \in ToSet(ModeSections[export.mode])

CheckModeFields ==
    /\ pc = "fields"
    /\ IF \E f \in ModeFields : ~Allowed(f) /\ Blocks(f) # <<>> THEN Refuse
       ELSE pc' = "required" /\ UNCHANGED <<export, at, index, previous, kept>>

CheckModeRequired ==
    LET group == ModeRequired[export.mode] IN
    /\ pc = "required"
    /\ IF group # {} /\ \A f \in group : Blocks(f) = <<>> THEN Refuse
       ELSE pc' = "accepted" /\ UNCHANGED <<export, at, index, previous, kept>>

-----------------------------------------------------------------------------
Init ==
    /\ export \in Exports
    /\ pc = "items" /\ at = 1 /\ index = 1 /\ previous = None /\ kept = <<(<<>>)>>

Next ==
    \/ Sentence \/ Paragraph \/ Bullet \/ Code \/ Table \/ Quote \/ Step \/ Entry
    \/ NextList
    \/ CheckBudget \/ CheckModeFields \/ CheckModeRequired

Spec == Init /\ [][Next]_vars

-----------------------------------------------------------------------------
(* Properties.                                                             *)

\* Every variable has its type; in particular no list is left before its end
\* (_normalise_export as a whole).
ExportTypeOK ==
    /\ pc \in {"items", "budget", "fields", "required", "accepted", "refused"}
    /\ at \in 1..Len(export.lists) /\ Len(kept) = at
    /\ index \in 1..Len(List.items) + 1
    /\ previous \in None..MaxBulletDepth
    /\ \A i \in 1..at : Len(kept[i]) <= Len(export.lists[i].items)

\* The bullets of a sequence nest: above each there is one of every smaller
\* depth, with nothing but deeper bullets in between.
Nests(blocks) ==
    \A k \in 1..Len(blocks) : blocks[k].kind = "bullet" =>
        \A d \in 0..blocks[k].depth - 1 : \E j \in 1..k - 1 :
            /\ blocks[j].kind = "bullet" /\ blocks[j].depth = d
            /\ \A m \in j + 1..k : blocks[m].kind = "bullet" /\ blocks[m].depth > d

\* "Reject a nesting-depth jump a rendered Markdown bullet list cannot
\* represent" (_check_bullet_depth): the blocks that are kept nest, whatever
\* was dropped between them and wherever a block ended a run.
BulletsNest == \A i \in 1..Len(kept) : Nests(kept[i])

HasText(text) == \E k \in 1..Len(text) : text[k].mark # "blank"

\* What an item shows in a note: some text, or the frame of a table.
ShowsBlock(b) ==
    \/ b.kind = "table"
    \/ b.kind \in {"text", "code"} /\ HasText(b.text)
    \/ b.kind = "quote" /\ \E k \in 1..Len(b.lines) : HasText(b.lines[k])

Shows(item) ==
    CASE item.kind \in {"table", "quote", "code"} -> ShowsBlock(item)
      [] item.kind = "step" -> \E k \in 1..Len(item.blocks) : ShowsBlock(item.blocks[k])
      [] OTHER -> HasText(item.text)

\* A table that has no rendering: a header that shows nothing, or alignments or
\* a row that are not one to a header.
Broken(b) ==
    /\ b.kind = "table"
    /\ \/ \E k \in 1..Len(b.headers) : ~HasText(b.headers[k])
       \/ b.alignments # None /\ b.alignments # Len(b.headers)
       \/ \E k \in 1..Len(b.rows) : Len(b.rows[k]) # Len(b.headers)

\* A quote with a title and no callout to put it on, whether or not it shows.
Headless(b) == b.kind = "quote" /\ b.title # <<>> /\ ~b.callout

Sound(item) ==
    CASE item.kind \in {"table", "quote"} -> ~Broken(item) /\ ~Headless(item)
      [] item.kind = "step" ->
           /\ \A k \in 1..Len(item.blocks) :
                 ~Broken(item.blocks[k]) /\ ~Headless(item.blocks[k])
           /\ LET shown == Those(item.blocks, ShowsBlock) IN
              shown # <<>> => shown[1].kind = "text"
      [] item.kind \in {"event", "heading"} -> HasText(item.text)
      [] item.kind = "definition" -> HasText(item.text) /\ HasText(item.label)
      [] OTHER -> TRUE

\* Something shows of a field.
FieldShows(e, field) ==
    \E i \in 1..Len(e.lists) : e.lists[i].field = field
        /\ \E k \in 1..Len(e.lists[i].items) : Shows(e.lists[i].items[k])

\* An export without a reason to refuse it, its size aside.
Valid(e) ==
    /\ FieldShows(e, "tldr")
    /\ \A i \in 1..Len(e.lists) :
         /\ \A k \in 1..Len(e.lists[i].items) : Sound(e.lists[i].items[k])
         /\ Nests(Those(e.lists[i].items, Shows))
    /\ \A f \in ModeFields \ ToSet(ModeSections[e.mode]) : ~FieldShows(e, f)
    /\ ModeRequired[e.mode] = {} \/ \E f \in ModeRequired[e.mode] : FieldShows(e, f)

\* An export is refused exactly when what would show of it cannot be rendered,
\* and not for what is dropped, with one exception that the code has: a quote
\* with a title and no callout is refused although it may hold blank lines only,
\* which alone would have been dropped (_normalise_quote checks the title first).
RefusedForCause ==
    /\ pc = "accepted" => Valid(export)
    /\ pc = "refused" => ~Valid(export) \/ TotalBlockChars > MaxTotalBlockChars

\* What a rich block at least adds to the note: its texts, and the line breaks
\* a client can put into them.
TextPayload(text) ==
    LET solid == Those(text, LAMBDA l : l.mark # "blank") IN
    IF solid = <<>> THEN 0 ELSE SumOf(LAMBDA l : l.size, solid) + Len(solid) - 1

TextsPayload(texts) == SumOf(TextPayload, texts)

BlockPayload(b) ==
    CASE b.kind = "code" /\ ShowsBlock(b) -> TextPayload(b.label) + TextPayload(b.text)
      [] b.kind = "table" -> TextPayload(b.label) + TextsPayload(b.headers)
                             + SumOf(TextsPayload, b.rows)
      [] b.kind = "quote" /\ ShowsBlock(b) -> TextPayload(b.title) + TextsPayload(b.lines)
      [] OTHER -> 0

Payload(item) ==
    CASE item.kind = "step" -> SumOf(BlockPayload, item.blocks)
      [] item.kind \in {"paragraph", "string"} -> TextPayload(item.text)
      [] OTHER -> BlockPayload(item)

\* A step that is a bare string is bounded by the schema alone, like what the
\* fields without rich blocks hold.
Weight(field, item) ==
    IF field \in {"tldr", "timeline", "definitions"} \/ (field = "steps" /\ item.kind # "step")
      THEN 0
      ELSE Payload(item)

ListPayload(list) == SumOf(LAMBDA item : Weight(list.field, item), list.items)

\* One budget bounds every rich block of an export, in whatever field, topic or
\* step it is, line breaks and labels included (_total_block_chars).
BudgetBoundsThePayload ==
    pc = "accepted" => SumOf(ListPayload, export.lists) <= MaxTotalBlockChars
=============================================================================
