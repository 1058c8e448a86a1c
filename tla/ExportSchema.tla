----------------------------- MODULE ExportSchema -----------------------------
(***************************************************************************)
(* The chat exports that app/models.py lets through: ChatExport and the    *)
(* blocks it consists of.                                                  *)
(*                                                                         *)
(* A string is the sequence of its lines, and one that is not given is     *)
(* <<>>.  A line is what it would be in Markdown (`mark'), its leading     *)
(* blanks, its length after them and its longest run of backticks.  An     *)
(* export is its mode, its related notes and its lists of items, in the    *)
(* order in which _normalise_export takes them; each topic is a list of    *)
(* its own whose first item is its heading.  Languages, alignments and     *)
(* callout names are patterns and leave no trace here; project,            *)
(* conversation_type and tags go into the frontmatter and are left out.    *)
(***************************************************************************)
EXTENDS SequenceOperators

CONSTANTS
    MaxTotalBlockChars, \* _MAX_TOTAL_BLOCK_CHARS
    MaxBulletDepth      \* _MAX_BULLET_DEPTH

ASSUME SchemaAssumption == MaxTotalBlockChars \in Nat /\ MaxBulletDepth \in Nat

\* A title, label or date that is not given; also: no previous bullet.
None == -1
NotGiven == <<>>

-----------------------------------------------------------------------------
(* Strings.                                                                *)

\* What _escape_block_start looks for: a heading, quote, bullet, HTML, link
\* ("block") or number at the start of a line; a line that is an underline, a
\* break or a table's delimiter row as a whole.
WholeLine == {"setext", "break", "table"}
Hazards == {"block", "ordered", "fence"} \union WholeLine
Marks == Hazards \union {"plain", "blank"}
Lines == [mark : Marks, indent : Nat, size : Nat, ticks : Nat]
Blank == [mark |-> "blank", indent |-> 0, size |-> 0, ticks |-> 0]

Sizes(lines) == SumOf(LAMBDA l : l.indent + l.size, lines)

\* The length of a string of several lines, its line breaks included.
TextChars(lines) == Sizes(lines) + Len(lines) - 1

IsString(text, least, most) ==
    /\ text \in Seq(Lines) \ {NotGiven}
    /\ \A k \in 1..Len(text) : text[k].ticks <= text[k].size
    /\ TextChars(text) \in least..most

IsLine(text) == IsString(text, 0, 1000)
IsLabel(text) == IsString(text, 1, 200)
IsCaption(text) == text = NotGiven \/ IsString(text, 0, 200)

-----------------------------------------------------------------------------
(* Blocks.                                                                 *)

TextBlock(b) == b.kind = "text" /\ IsLine(b.text)
CodeBlock(b) == b.kind = "code" /\ IsCaption(b.label) /\ IsString(b.text, 1, 8000)

\* The lengths of headers, rows and alignments are not compared here.
TableBlock(b) ==
    /\ b.kind = "table" /\ IsCaption(b.label)
    /\ Len(b.headers) \in 1..12 /\ \A k \in 1..Len(b.headers) : IsLine(b.headers[k])
    /\ b.alignments \in Nat \union {None}
    /\ Len(b.rows) \in 0..100
    /\ \A k \in 1..Len(b.rows) :
         Len(b.rows[k]) \in 0..12 /\ \A n \in 1..Len(b.rows[k]) : IsLine(b.rows[k][n])

QuoteBlock(b) ==
    /\ b.kind = "quote" /\ b.callout \in BOOLEAN /\ IsCaption(b.title)
    /\ Len(b.lines) \in 1..30 /\ \A k \in 1..Len(b.lines) : IsLine(b.lines[k])

ParagraphBlock(b) == b.kind = "paragraph" /\ IsString(b.text, 0, 8000)

\* Any depth in range; a bullet need not be below its parent.
BulletBlock(b) ==
    /\ b.kind = "bullet" /\ IsLine(b.text)
    /\ b.depth \in 0..MaxBulletDepth
    /\ b.checked \in {"", "open", "done"}

ProcedureStep(s) ==
    /\ s.kind = "step" /\ Len(s.blocks) \in 1..12
    /\ \A k \in 1..Len(s.blocks) :
         LET b == s.blocks[k] IN TextBlock(b) \/ CodeBlock(b) \/ TableBlock(b) \/ QuoteBlock(b)

\* _coerce_step: a bare string is a step of one text block.
CoerceStep(item) ==
    IF item.kind = "string"
      THEN [kind |-> "step", blocks |-> <<[kind |-> "text", text |-> item.text]>>]
      ELSE item

\* _coerce_body_item: a bare string is a paragraph.
CoerceBodyItem(item) ==
    IF item.kind = "string" THEN [kind |-> "paragraph", text |-> item.text] ELSE item

BodyItem(item) ==
    LET b == CoerceBodyItem(item) IN
    ParagraphBlock(b) \/ BulletBlock(b) \/ CodeBlock(b) \/ TableBlock(b) \/ QuoteBlock(b)

IsStep(item) == ProcedureStep(CoerceStep(item))
IsSentence(item) == item.kind = "sentence" /\ IsLine(item.text)
TimelineEntry(item) == item.kind = "event" /\ IsCaption(item.label) /\ IsLine(item.text)
TopicHeading(item) == item.kind = "heading" /\ item.label = NotGiven /\ IsLabel(item.text)
TermDefinition(item) == item.kind = "definition" /\ IsLabel(item.label) /\ IsLine(item.text)

-----------------------------------------------------------------------------
(* ChatExport: what each field takes, and how much of it.                  *)

Body == [of |-> "body", most |-> 30]

CommonFields ==
    [tldr |-> [of |-> "sentence", most |-> 8],
     decisions |-> Body, unresolved_issues |-> Body, next_actions |-> Body, sources |-> Body,
     code_blocks |-> [of |-> "code", most |-> 10]]
SummaryFields == [overview |-> Body, key_points |-> Body]
TechnicalFields ==
    [context |-> Body, design |-> Body, implementation_notes |-> Body, verification |-> Body]
HistoryFields == [timeline |-> [of |-> "event", most |-> 50], turning_points |-> Body]
FullFields == [topics |-> [of |-> "topic", most |-> 50]]
ProcedureFields ==
    [prerequisites |-> Body, steps |-> [of |-> "step", most |-> 50], rollback |-> Body]
IssueFields ==
    [symptom |-> Body, environment |-> Body, investigation |-> Body, root_cause |-> Body,
     workaround |-> Body]
ReferenceFields ==
    [definitions |-> [of |-> "definition", most |-> 50], facts |-> Body, examples |-> Body]

Fields ==
    CommonFields @@ SummaryFields @@ TechnicalFields @@ HistoryFields @@ FullFields
    @@ ProcedureFields @@ IssueFields @@ ReferenceFields

IsItem(of, item) ==
    \/ of = "sentence" /\ IsSentence(item)
    \/ of = "body" /\ BodyItem(item)
    \/ of = "code" /\ CodeBlock(item)
    \/ of = "event" /\ TimelineEntry(item)
    \/ of = "step" /\ IsStep(item)
    \/ of = "definition" /\ TermDefinition(item)

TopicSection(list) ==
    /\ Len(list.items) \in 1..101 /\ TopicHeading(list.items[1])
    /\ \A k \in 2..Len(list.items) : BodyItem(list.items[k])

\* A field of the export, or one of its topics.
FieldList(list) ==
    /\ list.field \in DOMAIN Fields
    /\ Len(list.items) \in Nat
    /\ IF list.field = "topics" THEN TopicSection(list)
       ELSE /\ Len(list.items) <= Fields[list.field].most
            /\ \A k \in 1..Len(list.items) : IsItem(Fields[list.field].of, list.items[k])

\* Any mode with any fields; of these, only tldr must be there.
ChatExport(e) ==
    /\ e.mode \in {"summary", "technical", "history", "full", "procedure", "issue", "reference"}
    /\ Len(e.related) <= 10
    /\ Len(e.lists) \in Nat \ {0}
    /\ e.lists[1].field = "tldr" /\ e.lists[1].items # <<>>
    /\ \A i \in 1..Len(e.lists) : FieldList(e.lists[i])
    /\ \A i, j \in 1..Len(e.lists) :
         i < j /\ e.lists[i].field = e.lists[j].field => e.lists[i].field = "topics"
    /\ Cardinality({i \in 1..Len(e.lists) : e.lists[i].field = "topics"}) <= Fields["topics"].most
=============================================================================
