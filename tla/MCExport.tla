------------------------------ MODULE MCExport ------------------------------
(***************************************************************************)
(* Exports for ExportReading, in families: one per kind of content.        *)
(***************************************************************************)
EXTENDS ExportReading

Line(mark, indent, size, ticks) ==
    [mark |-> mark, indent |-> indent, size |-> size, ticks |-> ticks]
word == <<Line("plain", 0, 1, 0)>>
long == <<Line("plain", 0, 6, 0)>>
empty == <<Blank>>
spaces == <<Line("blank", 2, 0, 0)>>
hazard == <<Line("block", 0, 1, 0)>>
rule == <<Line("break", 0, 3, 0)>>
under == <<Line("setext", 0, 2, 0)>>

Export(mode, related, lists) == [mode |-> mode, related |-> related, lists |-> lists]
Of(field, items) == [field |-> field, items |-> items]
Str(text) == [kind |-> "string", text |-> text]
Par(text) == [kind |-> "paragraph", text |-> text]
Txt(text) == [kind |-> "text", text |-> text]
Bul(text, depth, checked) ==
    [kind |-> "bullet", text |-> text, depth |-> depth, checked |-> checked]
Cod(label, text) == [kind |-> "code", label |-> label, text |-> text]
Tab(label, headers, alignments, rows) ==
    [kind |-> "table", label |-> label, headers |-> headers, alignments |-> alignments,
     rows |-> rows]
Quo(callout, title, lines) ==
    [kind |-> "quote", callout |-> callout, title |-> title, lines |-> lines]
Stp(blocks) == [kind |-> "step", blocks |-> blocks]
Ent(kind, label, text) == [kind |-> kind, label |-> label, text |-> text]
Tldr == Of("tldr", <<[kind |-> "sentence", text |-> word]>>)
Summary(items) == Export("summary", <<>>, <<Tldr, Of("overview", items)>>)
Procedure(steps) == Export("procedure", <<>>, <<Tldr, Of("steps", steps)>>)

table == Tab(<<>>, <<word, hazard>>, None, <<(<<word, empty>>)>>)
quote == Quo(FALSE, <<>>, <<word, empty, under>>)

\* Bullets of every depth, between blocks that are kept, dropped or refused.
Nesting == {Bul(word, 0, ""), Bul(hazard, 1, "open"), Bul(word, 2, "done"), Bul(empty, 2, ""),
            table, Quo(FALSE, <<>>, <<empty>>)}
Sequences ==
    {Summary(items) : items \in BoundedSeq(Nesting, 4) \union BoundedSeq(
        Nesting \union {quote, Quo(TRUE, empty, <<empty>>), Cod(<<>>, word), Cod(word, spaces),
                        Str(hazard), Str(empty)}, 3)}

\* Blocks that are refused, and what their parts may be.
Parts ==
    {Summary(<<Bul(word, 0, ""), b>>) : b \in
        {Tab(l, h, a, r) : l \in {<<>>, empty, under}, h \in {<<word>>, <<spaces>>},
                           a \in {None, 1, 2}, r \in {<<>>, <<(<<rule>>)>>, <<(<<word, word>>)>>}}
        \union {Quo(c, t, l) : c \in BOOLEAN, t \in {<<>>, empty, word},
                               l \in BoundedSeq({empty, word, under, hazard}, 2) \ {<<>>}}}

\* Paragraphs of up to three lines.
Paragraphs ==
    {Summary(<<Par(text)>>) : text \in BoundedSeq(
        {Blank, Line("blank", 3, 0, 0), Line("plain", 0, 1, 0), Line("plain", 5, 1, 0),
         Line("block", 3, 1, 0), Line("ordered", 0, 2, 0), Line("setext", 0, 1, 0),
         Line("table", 1, 1, 0)}, 3) \ {<<>>}}

\* Code of up to two lines, in code_blocks, in a field and in the tenth step.
CodeLines == {Blank, Line("plain", 5, 1, 0), Line("plain", 0, 5, 4), Line("block", 0, 1, 0),
              Line("fence", 0, 3, 3), Line("fence", 2, 4, 4)}
TenSteps(last) == [n \in 1..10 |-> IF n = 10 THEN Stp(last) ELSE Str(word)]
Codes ==
    UNION {{Summary(<<Cod(l, text)>>), Procedure(<<Stp(<<Txt(word), Cod(l, text)>>), Str(word)>>),
            Export("issue", <<>>, <<Tldr, Of("symptom", <<Str(word)>>),
                                    Of("code_blocks", <<Cod(<<>>, text), Cod(l, word)>>)>>)}
           : text \in BoundedSeq(CodeLines, 3) \ {<<>>, empty}, l \in {<<>>, rule}}

\* Steps of up to three blocks, as the first of two and as the tenth.
StepBlocks == {Txt(word), Txt(under), Txt(empty), Cod(<<>>, word), Cod(word, spaces), table,
               Quo(TRUE, word, <<under>>), Quo(FALSE, <<>>, <<empty>>), Quo(FALSE, empty, <<word>>)}
Steps ==
    {Procedure(<<Stp(blocks), Str(hazard)>>) : blocks \in BoundedSeq(StepBlocks, 3) \ {<<>>}}
    \union {Procedure(TenSteps(blocks)) : blocks \in BoundedSeq(StepBlocks, 2) \ {<<>>}}

\* Each mode with content in any two of its own and other fields.
ContentOf(field, text) ==
    CASE field = "timeline" -> <<Ent("event", rule, text)>>
      [] field = "definitions" -> <<Ent("definition", rule, text)>>
      [] field = "topics" -> <<Ent("heading", <<>>, text)>>
      [] field = "code_blocks" -> <<Cod(<<>>, text)>>
      [] OTHER -> <<Str(text)>>
FieldAt(i) == FieldOrder[i]
TwoFields ==
    UNION {{Export(m, <<>>, <<Tldr, Of(FieldAt(i), ContentOf(FieldAt(i), word)),
                              Of(FieldAt(j), ContentOf(FieldAt(j), word))>>)
              : m \in Modes} : <<i, j>> \in {p \in (2..26) \X (2..26) : p[1] < p[2]}}
    \union {Export(m, <<>>, <<Tldr, Of(FieldAt(i), ContentOf(FieldAt(i), t))>>)
              : m \in Modes, i \in 2..26, t \in {word, spaces}}

\* Topics, the summary's sentences and the related notes.
Topic(heading, points) == Of("topics", <<Ent("heading", <<>>, heading)>> \o points)
Links == {<<>>, <<[name |-> "A", renderable |-> TRUE], [name |-> "B#C", renderable |-> FALSE]>>}
Others ==
    {Export("full", related, <<Of("tldr", tldr), Topic(rule, p), Topic(word, q)>>)
       : related \in Links,
         tldr \in BoundedSeq({[kind |-> "sentence", text |-> t] : t \in {word, rule, spaces}}, 2) \ {<<>>},
         p \in {<<>>, <<Str(empty)>>, <<Str(word)>>, <<Bul(word, 0, ""), Bul(word, 1, "")>>},
         q \in {<<>>, <<Bul(word, 1, "")>>, <<Str(rule), table>>}}

\* Rich blocks around the budget, one or two, in every place they may stand.
Rich == {Par(long \o long), Par(word \o long), Cod(long, long \o long), quote,
         Quo(TRUE, long, <<long>>), Tab(long, <<long>>, 1, <<(<<long>>)>>),
         Tab(<<>>, <<long>>, None, <<(<<long>>), (<<word>>)>>)}
Budgets ==
    {Export("full", <<>>, <<Tldr, Of("decisions", <<a>>), Topic(word, <<b>>)>>)
       : a \in Rich, b \in Rich}
    \union {Export("procedure", <<>>, <<Tldr, Of("steps", <<Stp(<<Txt(word), a>>), Str(word)>>),
                                        Of("code_blocks", <<c>>)>>)
       : a \in Rich \ {Par(long \o long), Par(word \o long)},
         c \in {Cod(<<>>, word), Cod(long, long \o word)}}

MCExports ==
    {e : e \in Sequences \union Parts \union Paragraphs \union Codes \union Steps
                \union TwoFields \union Others \union Budgets}
=============================================================================
