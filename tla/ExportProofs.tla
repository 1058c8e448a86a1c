----------------------------- MODULE ExportProofs -----------------------------
(***************************************************************************)
(* Theorems about ExportNormalise, for any exports, budget and depth.      *)
(***************************************************************************)
EXTENDS ExportNormalise, SequenceLemmas

\* previous_depth is the depth of the bullet the list at hand ends with.
Ending(blocks) ==
    IF blocks = <<>> \/ blocks[Len(blocks)].kind # "bullet" THEN None
    ELSE blocks[Len(blocks)].depth

Depths(blocks) ==
    \A k \in 1..Len(blocks) : blocks[k].kind = "bullet" => blocks[k].depth \in Nat

\* The walk is at an item of the export or at the end of a list.
WalkInv ==
    /\ export \in Exports
    /\ at \in 1..Len(export.lists)
    /\ index \in Nat \ {0}

\* What is kept is a sequence of sequences of blocks that nest.
RunInv ==
    /\ \E S : kept \in Seq(Seq(S))
    /\ Len(kept) = at
    /\ pc = "items" => previous = Ending(kept[at])
    /\ \A i \in 1..Len(kept) : Depths(kept[i]) /\ Nests(kept[i])

NestInv == WalkInv /\ RunInv

-----------------------------------------------------------------------------
\* A block that is no bullet, or a bullet at most one deeper than the one
\* before it, extends a sequence that nests to one that nests.
LEMMA NestsAppend ==
    ASSUME NEW S, NEW blocks \in Seq(S), NEW b \in S,
           Depths(blocks), Nests(blocks),
           b.kind = "bullet" =>
              /\ b.depth \in Nat
              /\ IF Ending(blocks) = None THEN b.depth = 0
                 ELSE b.depth <= Ending(blocks) + 1
    PROVE  Depths(Append(blocks, b)) /\ Nests(Append(blocks, b))
<1> DEFINE n == Len(blocks)
           new == Append(blocks, b)
<1>1. /\ n \in Nat /\ Len(new) = n + 1 /\ new[n + 1] = b
      /\ \A k \in 1..n : new[k] = blocks[k]
  OBVIOUS
<1> HIDE DEF n, new
<1>2. n = Len(blocks)
  BY DEF n
<1>3. Depths(new)
  BY <1>1, <1>2 DEF Depths
<1>4. ASSUME NEW k \in 1..Len(new), new[k].kind = "bullet",
             NEW d \in 0..new[k].depth - 1
      PROVE  \E j \in 1..k - 1 :
                /\ new[j].kind = "bullet" /\ new[j].depth = d
                /\ \A m \in j + 1..k : new[m].kind = "bullet" /\ new[m].depth > d
  <2>1. new[k].depth \in Nat
    BY <1>3, <1>4 DEF Depths
  <2>2. CASE k \in 1..n
    <3>1. PICK j \in 1..k - 1 :
                /\ blocks[j].kind = "bullet" /\ blocks[j].depth = d
                /\ \A m \in j + 1..k : blocks[m].kind = "bullet" /\ blocks[m].depth > d
      BY <1>1, <1>2, <1>4, <2>2 DEF Nests
    <3> QED BY <1>1, <2>2, <3>1
  <2>3. CASE k = n + 1
    <3>1. b.kind = "bullet" /\ b.depth \in Nat /\ d \in 0..b.depth - 1
      BY <1>1, <1>4, <2>3
    <3>2. b.depth # 0 /\ Ending(blocks) # None /\ b.depth <= Ending(blocks) + 1
      BY <3>1
    <3>3. n # 0 /\ blocks[n].kind = "bullet" /\ blocks[n].depth = Ending(blocks)
      BY <1>1, <1>2, <3>2 DEF Ending
    <3>4. blocks[n].depth \in Nat
      BY <1>1, <1>2, <3>3 DEF Depths
    <3>5. CASE d = blocks[n].depth
      BY <1>1, <2>3, <3>1, <3>3, <3>5
    <3>6. CASE d # blocks[n].depth
      <4>1. d \in 0..blocks[n].depth - 1
        BY <3>1, <3>2, <3>3, <3>4, <3>6
      <4>2. PICK j \in 1..n - 1 :
                /\ blocks[j].kind = "bullet" /\ blocks[j].depth = d
                /\ \A m \in j + 1..n : blocks[m].kind = "bullet" /\ blocks[m].depth > d
        BY <1>1, <1>2, <3>3, <4>1 DEF Nests
      <4>3. \A m \in j + 1..k : new[m].kind = "bullet" /\ new[m].depth > d
        BY <1>1, <2>3, <3>1, <4>2
      <4>4. j \in 1..k - 1 /\ new[j].kind = "bullet" /\ new[j].depth = d
        BY <1>1, <2>3, <4>2
      <4> QED BY <4>3, <4>4
    <3> QED BY <3>5, <3>6
  <2> QED BY <1>1, <1>4, <2>2, <2>3
<1> QED BY <1>3, <1>4 DEF Nests, new

\* Keep appends one block, and remembers how the list now ends.
LEMMA KeepPreserves ==
    ASSUME NestInv, pc = "items", NEW block, Keep(block),
           block.kind = "bullet" => block.depth \in Nat /\ DepthFits(block.depth)
    PROVE  NestInv'
<1>1. PICK S : kept \in Seq(Seq(S))
  BY DEF NestInv, RunInv
<1> DEFINE T == S \union {block}
<1>2. at \in 1..Len(kept) /\ Len(kept) = at
  BY DEF NestInv, WalkInv, RunInv
<1>3. kept \in Seq(Seq(T))
  <2>1. Seq(S) \subseteq Seq(T)
    OBVIOUS
  <2> QED BY <1>1, <2>1
<1>4. kept[at] \in Seq(T) /\ block \in T
  BY <1>2, <1>3
<1>5. Append(kept[at], block) \in Seq(T)
  BY <1>4
<1>6. /\ kept' \in Seq(Seq(T)) /\ Len(kept') = Len(kept)
      /\ \A i \in 1..Len(kept) : kept'[i] = IF i = at THEN Append(kept[at], block) ELSE kept[i]
  BY <1>2, <1>3, <1>5 DEF Keep
<1>7. WalkInv'
  BY DEF NestInv, WalkInv, Keep
<1>8. Depths(Append(kept[at], block)) /\ Nests(Append(kept[at], block))
  <2>1. Depths(kept[at]) /\ Nests(kept[at]) /\ previous = Ending(kept[at])
    BY <1>2 DEF NestInv, RunInv
  <2> QED BY <1>4, <2>1, NestsAppend DEF DepthFits
<1>9. previous' = Ending(Append(kept[at], block))
  <2>1. /\ Append(kept[at], block) # <<>>
        /\ Append(kept[at], block)[Len(Append(kept[at], block))] = block
    BY <1>4
  <2> QED BY <2>1 DEF Ending, Keep
<1> QED BY <1>2, <1>6, <1>7, <1>8, <1>9 DEF NestInv, RunInv, Keep

\* A step that neither keeps a block nor changes the list leaves the rest alone.
LEMMA DropPreserves == NestInv /\ Drop => NestInv'
BY DEF NestInv, WalkInv, RunInv, Drop

LEMMA StayPreserves ==
    /\ NestInv /\ UNCHANGED <<export, at, index, previous, kept>>
    /\ pc' = "items" => pc = "items"
    => NestInv'
BY DEF NestInv, WalkInv, RunInv

\* The next list begins with nothing kept of it.
LEMMA NextListPreserves == NestInv /\ NextList => NestInv'
<1> SUFFICES ASSUME NestInv, NextList PROVE NestInv'
  OBVIOUS
<1>1. CASE Refuse
  BY <1>1, StayPreserves DEF Refuse
<1>2. CASE pc' = "budget" /\ UNCHANGED <<export, at, kept>> /\ index' = 1 /\ previous' = None
  BY <1>2 DEF NestInv, WalkInv, RunInv
<1>3. CASE /\ at < Len(export.lists) /\ at' = at + 1 /\ kept' = Append(kept, <<>>)
           /\ index' = 1 /\ previous' = None /\ UNCHANGED export
  <2>1. PICK S : kept \in Seq(Seq(S))
    BY DEF NestInv, RunInv
  <2>2. Len(kept) = at /\ at \in Nat /\ <<>> \in Seq(S)
    BY DEF NestInv, RunInv, WalkInv
  <2>3. /\ kept' \in Seq(Seq(S)) /\ Len(kept') = at + 1 /\ kept'[at + 1] = <<>>
        /\ \A i \in 1..at : kept'[i] = kept[i]
    BY <1>3, <2>1, <2>2
  <2>4. Len(export.lists) \in Nat
    BY ExportAssumption DEF NestInv, WalkInv, ChatExport
  <2>5. WalkInv'
    BY <1>3, <2>2, <2>4 DEF NestInv, WalkInv
  <2>6. Depths(<<>>) /\ Nests(<<>>) /\ Ending(<<>>) = None
    BY DEF Depths, Nests, Ending
  <2>7. \A i \in 1..at + 1 : Depths(kept'[i]) /\ Nests(kept'[i])
    <3>1. \A i \in 1..at : Depths(kept[i]) /\ Nests(kept[i])
      BY <2>2 DEF NestInv, RunInv
    <3> QED BY <2>2, <2>3, <2>6, <3>1
  <2> QED BY <1>3, <2>3, <2>5, <2>6, <2>7 DEF NestInv, RunInv
<1> QED BY <1>1, <1>2, <1>3 DEF NextList

\* The schema lets a bullet through only in a body field or a topic, and only
\* with a depth.
LEMMA SchemaBulletDepth ==
    ASSUME NEW list, FieldList(list), NEW k \in 1..Len(list.items),
           list.items[k].kind = "bullet"
    PROVE  list.items[k].depth \in 0..MaxBulletDepth
<1>1. ASSUME BodyItem(list.items[k]) PROVE list.items[k].depth \in 0..MaxBulletDepth
  <2>1. CoerceBodyItem(list.items[k]) = list.items[k]
    BY DEF CoerceBodyItem
  <2>2. BulletBlock(list.items[k])
    BY <1>1, <2>1 DEF BodyItem, ParagraphBlock, CodeBlock, TableBlock, QuoteBlock
  <2> QED BY <2>2 DEF BulletBlock
<1>2. CASE list.field = "topics"
  <2>1. ~TopicHeading(list.items[k]) /\ TopicSection(list)
    BY <1>2 DEF TopicHeading, FieldList
  <2>2. k \in 2..Len(list.items)
    BY <2>1 DEF TopicSection, FieldList
  <2> QED BY <1>1, <2>1, <2>2 DEF TopicSection
<1>3. CASE list.field # "topics"
  <2>1. IsItem(Fields[list.field].of, list.items[k])
    BY <1>3 DEF FieldList
  <2>2. ~IsSentence(list.items[k]) /\ ~CodeBlock(list.items[k]) /\ ~TimelineEntry(list.items[k])
        /\ ~TermDefinition(list.items[k])
    BY DEF IsSentence, CodeBlock, TimelineEntry, TermDefinition
  <2>3. ~IsStep(list.items[k])
    BY DEF IsStep, CoerceStep, ProcedureStep
  <2> QED BY <1>1, <2>1, <2>2, <2>3 DEF IsItem
<1> QED BY <1>2, <1>3

\* A bullet is normalised as it was sent.
LEMMA BulletDepth ==
    ASSUME NestInv, IsNext("bullet")
    PROVE  Item.depth \in 0..MaxBulletDepth
<1>1. export \in Exports /\ at \in 1..Len(export.lists) /\ index \in Nat \ {0}
  BY DEF NestInv, WalkInv
<1>2. FieldList(List) /\ Len(List.items) \in Nat
  BY <1>1, ExportAssumption DEF List, ChatExport, FieldList
<1>3. index \in 1..Len(List.items)
  BY <1>1, <1>2 DEF IsNext
<1>4. Item = List.items[index]
  BY DEF IsNext, Item, CoerceStep, CoerceBodyItem
<1> QED BY <1>2, <1>3, <1>4, SchemaBulletDepth DEF IsNext

LEMMA BulletPreserves == NestInv /\ Bullet => NestInv'
<1> SUFFICES ASSUME NestInv, Bullet PROVE NestInv'
  OBVIOUS
<1> DEFINE block == [kind |-> "bullet", text |-> OneLine(Item.text), depth |-> Item.depth,
                     checked |-> Item.checked]
<1>1. IsNext("bullet") /\ pc = "items" /\ Item.depth \in Nat
  BY BulletDepth, SchemaAssumption DEF Bullet, IsNext
<1>2. CASE Drop
  BY <1>2, DropPreserves
<1>3. CASE Refuse
  BY <1>3, StayPreserves DEF Refuse
<1>4. CASE DepthFits(Item.depth) /\ Keep(block)
  <2>1. block.kind = "bullet" /\ block.depth = Item.depth
    OBVIOUS
  <2> HIDE DEF block
  <2> QED BY <1>1, <1>4, <2>1, KeepPreserves
<1> QED BY <1>2, <1>3, <1>4 DEF Bullet

\* Every other item becomes a block that is no bullet, or nothing.
Treated ==
    \/ Refuse
    \/ Drop
    \/ \E block : block.kind # "bullet" /\ Keep(block)

LEMMA OthersAreTreated ==
    ASSUME Sentence \/ Paragraph \/ Code \/ Table \/ Quote \/ Step \/ Entry
    PROVE  Treated
<1>1. ASSUME NEW block, block # Nothing => block.kind # "bullet", KeepOrDrop(block)
      PROVE  Treated
  BY <1>1 DEF KeepOrDrop, Treated
<1>2. CASE Sentence
  <2>1. NormaliseText(Item) # Nothing => NormaliseText(Item).kind = "text"
    BY DEF NormaliseText
  <2> QED BY <1>1, <1>2, <2>1 DEF Sentence
<1>3. CASE Paragraph
  <2>1. NormaliseParagraph(Item) # Nothing => NormaliseParagraph(Item).kind = "paragraph"
    BY DEF NormaliseParagraph
  <2> QED BY <1>1, <1>3, <2>1 DEF Paragraph
<1>4. CASE Code
  <2>1. NormaliseCode(Item) # Nothing => NormaliseCode(Item).kind = "code"
    BY DEF NormaliseCode
  <2> QED BY <1>1, <1>4, <2>1 DEF Code
<1>5. CASE Table
  <2>1. NormaliseTable(Item).kind = "table"
    BY DEF NormaliseTable
  <2> QED BY <1>5, <2>1 DEF Table, Treated
<1>6. CASE Quote
  <2>1. NormaliseQuote(Item) # Nothing => NormaliseQuote(Item).kind = "quote"
    BY DEF NormaliseQuote
  <2>2. Refuse \/ KeepOrDrop(NormaliseQuote(Item))
    BY <1>6 DEF Quote
  <2> QED BY <1>1, <2>1, <2>2 DEF Treated
<1>7. CASE Step
  <2> DEFINE blocks == Those([k \in 1..Len(Item.blocks) |-> NormaliseBlock(Item.blocks[k])],
                             LAMBDA b : b # Nothing)
             step == [kind |-> "step", blocks |-> blocks]
  <2>1. Refuse \/ Drop \/ Keep(step)
    BY <1>7 DEF Step
  <2>2. step.kind = "step"
    OBVIOUS
  <2> HIDE DEF step
  <2> QED BY <2>1, <2>2 DEF Treated
<1>8. CASE Entry
  <2> DEFINE entry == [kind |-> Item.kind, label |-> OneLine(Item.label), text |-> OneLine(Item.text)]
  <2>1. Refuse \/ Keep(entry)
    BY <1>8 DEF Entry
  <2>2. entry.kind # "bullet"
    BY <1>8 DEF Entry, IsNext
  <2> HIDE DEF entry
  <2> QED BY <2>1, <2>2 DEF Treated
<1> QED BY <1>2, <1>3, <1>4, <1>5, <1>6, <1>7, <1>8

LEMMA OthersPreserve ==
    NestInv /\ (Sentence \/ Paragraph \/ Code \/ Table \/ Quote \/ Step \/ Entry) => NestInv'
<1> SUFFICES ASSUME NestInv, Sentence \/ Paragraph \/ Code \/ Table \/ Quote \/ Step \/ Entry
             PROVE  NestInv'
  OBVIOUS
<1>1. pc = "items"
  BY DEF Sentence, Paragraph, Code, Table, Quote, Step, Entry, IsNext
<1>2. Refuse => NestInv'
  BY StayPreserves DEF Refuse
<1>3. ASSUME NEW block, block.kind # "bullet", Keep(block) PROVE NestInv'
  BY <1>1, <1>3, KeepPreserves
<1> QED BY <1>2, <1>3, OthersAreTreated, DropPreserves DEF Treated

LEMMA InitNests == Init => NestInv
<1> SUFFICES ASSUME Init PROVE NestInv
  OBVIOUS
<1>1. kept \in Seq(Seq({})) /\ Len(kept) = 1 /\ kept[1] = <<>>
  BY DEF Init
<1>2. Depths(<<>>) /\ Nests(<<>>) /\ Ending(<<>>) = None
  BY DEF Depths, Nests, Ending
<1>3. ChatExport(export)
  BY ExportAssumption DEF Init
<1>4. Len(export.lists) \in Nat \ {0}
  BY <1>3 DEF ChatExport
<1>5. WalkInv
  BY <1>4 DEF Init, WalkInv
<1> QED BY <1>1, <1>2, <1>5 DEF Init, NestInv, RunInv

LEMMA NextNests == NestInv /\ [Next]_vars => NestInv'
<1> SUFFICES ASSUME NestInv, [Next]_vars PROVE NestInv'
  OBVIOUS
<1>1. CASE Sentence \/ Paragraph \/ Code \/ Table \/ Quote \/ Step \/ Entry
  BY <1>1, OthersPreserve
<1>2. CASE Bullet
  BY <1>2, BulletPreserves
<1>3. CASE NextList
  BY <1>3, NextListPreserves
<1>4. CASE CheckBudget \/ CheckModeFields \/ CheckModeRequired
  BY <1>4, StayPreserves DEF CheckBudget, CheckModeFields, CheckModeRequired, Refuse
<1>5. CASE UNCHANGED vars
  BY <1>5, StayPreserves DEF vars
<1> QED BY <1>1, <1>2, <1>3, <1>4, <1>5 DEF Next

\* Whatever a client sends, and whatever of it is dropped, the bullets that are
\* kept of any list nest (_check_bullet_depth and its callers).
THEOREM BulletsAlwaysNest == Spec => []BulletsNest
<1>1. NestInv => BulletsNest
  BY DEF NestInv, RunInv, BulletsNest
<1> QED BY <1>1, InitNests, NextNests, PTL DEF Spec
-----------------------------------------------------------------------------
\* Each item is looked at once, so a list keeps no more than it has items, and
\* fewer than it has been asked for while it is walked.
TypeInv ==
    /\ pc \in {"items", "budget", "fields", "required", "accepted", "refused"}
    /\ index \in 1..Len(List.items) + 1
    /\ previous \in None..MaxBulletDepth
    /\ \A i \in 1..at : Len(kept[i]) <= Len(export.lists[i].items)
    /\ pc = "items" => Len(kept[at]) < index

\* The list at hand has an end.
LEMMA ListsEnd ==
    ASSUME NestInv
    PROVE  \A i \in 1..Len(export.lists) : Len(export.lists[i].items) \in Nat
BY ExportAssumption DEF NestInv, WalkInv, ChatExport, FieldList

LEMMA KeepCounts ==
    ASSUME NestInv, TypeInv, pc = "items", index <= Len(List.items), NEW block, Keep(block),
           block.kind = "bullet" => block.depth \in 0..MaxBulletDepth
    PROVE  TypeInv'
<1>1. PICK S : kept \in Seq(Seq(S))
  BY DEF NestInv, RunInv
<1>2. at \in 1..Len(kept) /\ Len(kept) = at /\ at \in 1..Len(export.lists)
  BY DEF NestInv, WalkInv, RunInv
<1>3. kept[at] \in Seq(S)
  BY <1>1, <1>2
<1>4. Len(kept[at]) \in Nat /\ Len(Append(kept[at], block)) = Len(kept[at]) + 1
  BY <1>3
<1>5. \A i \in 1..at : kept'[i] = IF i = at THEN Append(kept[at], block) ELSE kept[i]
  BY <1>1, <1>2 DEF Keep
<1>6. UNCHANGED <<export, pc, at>> /\ index' = index + 1 /\ List' = List
  BY DEF Keep, List
<1>7. Len(List.items) \in Nat /\ index \in Nat /\ List = export.lists[at]
  BY <1>2, ListsEnd DEF NestInv, WalkInv, List
<1>8. previous' \in None..MaxBulletDepth
  BY SchemaAssumption DEF Keep, None
<1>9. index' \in 1..Len(List'.items) + 1
  BY <1>6, <1>7 DEF TypeInv
<1>10. /\ Len(kept'[at]) = Len(kept[at]) + 1
       /\ \A i \in 1..at : i # at => kept'[i] = kept[i]
  BY <1>2, <1>4, <1>5
<1>11. Len(kept[at]) < index /\ \A i \in 1..at : Len(kept[i]) <= Len(export.lists[i].items)
  BY DEF TypeInv
<1>12. Len(kept'[at]) <= index
  BY <1>4, <1>7, <1>10, <1>11
<1>13. \A i \in 1..at : Len(kept'[i]) <= Len(export.lists[i].items)
  <2>1. Len(kept'[at]) <= Len(export.lists[at].items)
    BY <1>4, <1>7, <1>10, <1>12
  <2> QED BY <1>10, <1>11, <2>1
<1>14. Len(kept'[at]) < index'
  BY <1>4, <1>6, <1>7, <1>10, <1>12
<1> QED BY <1>6, <1>8, <1>9, <1>13, <1>14 DEF TypeInv

LEMMA DropCounts ==
    ASSUME NestInv, TypeInv, pc = "items", index <= Len(List.items), Drop
    PROVE  TypeInv'
<1>1. at \in 1..Len(export.lists) /\ index \in Nat /\ List' = List /\ List = export.lists[at]
  BY DEF NestInv, WalkInv, Drop, List
<1>2. Len(List.items) \in Nat
  BY <1>1, ListsEnd
<1>3. PICK S : kept \in Seq(Seq(S))
  BY DEF NestInv, RunInv
<1>4. at \in 1..Len(kept)
  BY DEF NestInv, WalkInv, RunInv
<1>5. Len(kept[at]) \in Nat
  BY <1>3, <1>4
<1>6. Len(kept[at]) < index /\ index' = index + 1 /\ at' = at /\ kept' = kept
  BY DEF TypeInv, Drop
<1>7. Len(kept'[at']) < index'
  BY <1>1, <1>5, <1>6
<1> QED BY <1>1, <1>2, <1>6, <1>7 DEF TypeInv, Drop

LEMMA NextListCounts ==
    ASSUME NestInv, TypeInv, NextList
    PROVE  TypeInv'
<1>1. CASE Refuse
  BY <1>1 DEF Refuse, TypeInv, List
<1>2. CASE pc' = "budget" /\ UNCHANGED <<export, at, kept>> /\ index' = 1 /\ previous' = None
  <2>1. Len(List.items) \in Nat /\ List' = List
    BY <1>2, ListsEnd DEF NestInv, WalkInv, List
  <2>2. index' \in 1..Len(List'.items) + 1
    BY <1>2, <2>1
  <2>3. previous' \in None..MaxBulletDepth
    BY <1>2, SchemaAssumption DEF None
  <2> QED BY <1>2, <2>2, <2>3 DEF TypeInv
<1>3. CASE /\ pc = "items" /\ pc' = pc
           /\ at < Len(export.lists) /\ at' = at + 1 /\ kept' = Append(kept, <<>>)
           /\ index' = 1 /\ previous' = None /\ UNCHANGED export
  <2>1. PICK S : kept \in Seq(Seq(S))
    BY DEF NestInv, RunInv
  <2>2. Len(kept) = at /\ at \in Nat \ {0} /\ Len(export.lists) \in Nat
    BY ExportAssumption DEF NestInv, RunInv, WalkInv, ChatExport
  <2>3. kept'[at + 1] = <<>> /\ \A i \in 1..at : kept'[i] = kept[i]
    BY <1>3, <2>1, <2>2
  <2>4. at + 1 \in 1..Len(export.lists)
    BY <1>3, <2>2
  <2>5. Len(export.lists[at + 1].items) \in Nat
    BY <2>4, ListsEnd
  <2>6. index' \in 1..Len(List'.items) + 1
    BY <1>3, <2>5 DEF List
  <2>7. previous' \in None..MaxBulletDepth
    BY <1>3, SchemaAssumption DEF None
  <2>8. \A i \in 1..at + 1 : Len(kept'[i]) <= Len(export.lists[i].items)
    <3>1. \A i \in 1..at : Len(kept'[i]) <= Len(export.lists[i].items)
      BY <2>3 DEF TypeInv
    <3>2. Len(kept'[at + 1]) = 0
      BY <2>3
    <3> QED BY <2>2, <2>5, <3>1, <3>2
  <2>9. Len(kept'[at']) < index'
    <3>1. kept'[at'] = <<>> /\ index' = 1
      BY <1>3, <2>3
    <3>2. Len(kept'[at']) = 0
      BY <3>1
    <3> QED BY <3>1, <3>2
  <2> QED BY <1>3, <2>6, <2>7, <2>8, <2>9 DEF TypeInv
<1> QED BY <1>1, <1>2, <1>3 DEF NextList

LEMMA NextCounts == NestInv /\ TypeInv /\ [Next]_vars => TypeInv'
<1> SUFFICES ASSUME NestInv, TypeInv, [Next]_vars PROVE TypeInv'
  OBVIOUS
<1>1. Refuse => TypeInv'
  BY DEF Refuse, TypeInv, List
<1>2. CASE Sentence \/ Paragraph \/ Code \/ Table \/ Quote \/ Step \/ Entry
  <2>1. pc = "items" /\ index <= Len(List.items)
    BY <1>2 DEF Sentence, Paragraph, Code, Table, Quote, Step, Entry, IsNext
  <2>2. Treated
    BY <1>2, OthersAreTreated
  <2> QED BY <1>1, <2>1, <2>2, KeepCounts, DropCounts DEF Treated
<1>3. CASE Bullet
  <2> DEFINE block == [kind |-> "bullet", text |-> OneLine(Item.text), depth |-> Item.depth,
                       checked |-> Item.checked]
  <2>1. pc = "items" /\ index <= Len(List.items) /\ Item.depth \in 0..MaxBulletDepth
    BY <1>3, BulletDepth DEF Bullet, IsNext
  <2>2. Drop \/ Refuse \/ Keep(block)
    BY <1>3 DEF Bullet
  <2>3. block.depth = Item.depth
    OBVIOUS
  <2> HIDE DEF block
  <2> QED BY <1>1, <2>1, <2>2, <2>3, KeepCounts, DropCounts
<1>4. CASE NextList
  BY <1>4, NextListCounts
<1>5. CASE CheckBudget \/ CheckModeFields \/ CheckModeRequired
  BY <1>1, <1>5 DEF CheckBudget, CheckModeFields, CheckModeRequired, TypeInv, List
<1>6. CASE UNCHANGED vars
  BY <1>6 DEF vars, TypeInv, List
<1> QED BY <1>2, <1>3, <1>4, <1>5, <1>6 DEF Next

LEMMA InitCounts == Init => TypeInv
<1> SUFFICES ASSUME Init PROVE TypeInv
  OBVIOUS
<1>1. at = 1 /\ index = 1 /\ kept[1] = <<>> /\ pc = "items" /\ previous = None
  BY DEF Init
<1>2. NestInv /\ at \in 1..Len(export.lists)
  BY InitNests DEF NestInv, WalkInv
<1>3. Len(export.lists[1].items) \in Nat
  BY <1>1, <1>2, ListsEnd
<1> QED BY <1>1, <1>3, SchemaAssumption DEF TypeInv, List, None

\* Every variable has its type: no list is left before its end, no more is kept
\* of it than it has items, and a bullet's depth never exceeds its bound, for
\* any exports (_normalise_export).
THEOREM WalkStaysInBounds == Spec => []ExportTypeOK
<1>1. NestInv /\ TypeInv => ExportTypeOK
  BY DEF NestInv, WalkInv, RunInv, TypeInv, ExportTypeOK
<1> QED BY <1>1, InitNests, NextNests, InitCounts, NextCounts, PTL DEF Spec

-----------------------------------------------------------------------------
(* What the schema lets through.                                           *)

Texts == Seq(Lines)

TypedBlock(b) ==
    /\ b.kind = "text" => b.text \in Texts
    /\ b.kind = "code" => b.text \in Texts /\ b.label \in Texts
    /\ b.kind = "table" =>
         /\ b.label \in Texts
         /\ Len(b.headers) \in Nat /\ \A k \in 1..Len(b.headers) : b.headers[k] \in Texts
         /\ Len(b.rows) \in Nat
         /\ \A k \in 1..Len(b.rows) :
              Len(b.rows[k]) \in Nat /\ \A n \in 1..Len(b.rows[k]) : b.rows[k][n] \in Texts
    /\ b.kind = "quote" =>
         /\ b.title \in Texts
         /\ Len(b.lines) \in Nat /\ \A k \in 1..Len(b.lines) : b.lines[k] \in Texts

TypedItem(b) ==
    /\ TypedBlock(b)
    /\ b.kind \in {"sentence", "paragraph", "bullet", "string", "event", "heading", "definition"}
         => b.text \in Texts
    /\ b.kind \in {"event", "heading", "definition"} => b.label \in Texts
    /\ b.kind = "step" =>
         /\ Len(b.blocks) \in Nat
         /\ \A k \in 1..Len(b.blocks) :
              TypedBlock(b.blocks[k]) /\ b.blocks[k].kind \in {"text", "code", "table", "quote"}

LEMMA StringsAreTexts ==
    ASSUME NEW text
    PROVE  /\ \A least, most : IsString(text, least, most) => text \in Texts
           /\ IsLine(text) => text \in Texts
           /\ IsLabel(text) => text \in Texts
           /\ IsCaption(text) => text \in Texts
<1>1. <<>> \in Texts
    BY EmptySeq DEF Texts
<1>2. \A least, most : IsString(text, least, most) => text \in Texts
    BY DEF IsString, Texts
<1> QED
    BY <1>1, <1>2 DEF IsLine, IsLabel, IsCaption, NotGiven

LEMMA BlocksAreTyped ==
    ASSUME NEW b
    PROVE  TextBlock(b) \/ CodeBlock(b) \/ TableBlock(b) \/ QuoteBlock(b) => TypedBlock(b)
<1>1. ASSUME TextBlock(b) PROVE TypedBlock(b)
    BY <1>1, StringsAreTexts DEF TextBlock, TypedBlock
<1>2. ASSUME CodeBlock(b) PROVE TypedBlock(b)
    BY <1>2, StringsAreTexts DEF CodeBlock, TypedBlock
<1>3. ASSUME TableBlock(b) PROVE TypedBlock(b)
  <2>1. Len(b.headers) \in Nat /\ Len(b.rows) \in Nat
      BY <1>3 DEF TableBlock
  <2>2. \A k \in 1..Len(b.rows) : Len(b.rows[k]) \in Nat
      BY <1>3 DEF TableBlock
  <2>3. b.kind = "table" /\ b.label \in Texts /\ \A k \in 1..Len(b.headers) : b.headers[k] \in Texts
      BY <1>3, StringsAreTexts DEF TableBlock
  <2>4. \A k \in 1..Len(b.rows) : \A n \in 1..Len(b.rows[k]) : b.rows[k][n] \in Texts
      BY <1>3, StringsAreTexts DEF TableBlock
  <2> QED
      BY <2>1, <2>2, <2>3, <2>4 DEF TypedBlock
<1>4. ASSUME QuoteBlock(b) PROVE TypedBlock(b)
  <2>1. Len(b.lines) \in Nat
      BY <1>4 DEF QuoteBlock
  <2>2. b.kind = "quote" /\ b.title \in Texts /\ \A k \in 1..Len(b.lines) : b.lines[k] \in Texts
      BY <1>4, StringsAreTexts DEF QuoteBlock
  <2> QED
      BY <2>1, <2>2 DEF TypedBlock
<1> QED
    BY <1>1, <1>2, <1>3, <1>4

LEMMA LinesAreTyped ==
    ASSUME NEW b
    PROVE  ParagraphBlock(b) \/ BulletBlock(b) => TypedItem(b)
<1>1. ASSUME ParagraphBlock(b) PROVE b.kind = "paragraph" /\ b.text \in Texts
    BY <1>1, StringsAreTexts DEF ParagraphBlock
<1>2. ASSUME BulletBlock(b) PROVE b.kind = "bullet" /\ b.text \in Texts
    BY <1>2, StringsAreTexts DEF BulletBlock
<1> QED
    BY <1>1, <1>2 DEF TypedItem, TypedBlock

LEMMA ItemsAreTyped ==
    ASSUME NEW list, FieldList(list), NEW k \in 1..Len(list.items)
    PROVE  TypedItem(list.items[k])
<1> DEFINE b == list.items[k]
<1>1. ASSUME BodyItem(b) PROVE TypedItem(b)
  <2>1. CASE b.kind = "string"
    <3>1. CoerceBodyItem(b) = [kind |-> "paragraph", text |-> b.text]
        BY <2>1 DEF CoerceBodyItem
    <3>2. IsString(b.text, 0, 8000)
        BY <1>1, <3>1 DEF BodyItem, ParagraphBlock, BulletBlock, CodeBlock, TableBlock, QuoteBlock
    <3>3. b.text \in Texts
        BY <3>2, StringsAreTexts
    <3> QED
        BY <2>1, <3>3 DEF TypedItem, TypedBlock
  <2>2. CASE b.kind # "string"
    <3>1. CoerceBodyItem(b) = b
        BY <2>2 DEF CoerceBodyItem
    <3> HIDE DEF b
    <3>2. ASSUME ParagraphBlock(b) \/ BulletBlock(b) PROVE TypedItem(b)
        BY <3>2, LinesAreTyped
    <3>3. ASSUME CodeBlock(b) \/ TableBlock(b) \/ QuoteBlock(b) PROVE TypedItem(b)
      <4>1. b.kind \in {"code", "table", "quote"} /\ TypedBlock(b)
          BY <3>3, BlocksAreTyped DEF CodeBlock, TableBlock, QuoteBlock
      <4> QED
          BY <4>1 DEF TypedItem
    <3> QED
        BY <1>1, <3>1, <3>2, <3>3 DEF BodyItem
  <2> QED
      BY <2>1, <2>2
<1>2. ASSUME IsStep(b) PROVE TypedItem(b)
  <2>1. CASE b.kind = "string"
    <3> DEFINE t == [kind |-> "text", text |-> b.text]
    <3>1. CoerceStep(b) = [kind |-> "step", blocks |-> <<t>>]
        BY <2>1 DEF CoerceStep
    <3>2. TextBlock(t) \/ CodeBlock(t) \/ TableBlock(t) \/ QuoteBlock(t)
        BY <1>2, <3>1 DEF IsStep, ProcedureStep
    <3>3. IsLine(b.text)
        BY <3>2 DEF TextBlock, CodeBlock, TableBlock, QuoteBlock
    <3>4. b.text \in Texts
        BY <3>3, StringsAreTexts
    <3> QED
        BY <2>1, <3>4 DEF TypedItem, TypedBlock
  <2>2. CASE b.kind # "string"
    <3>1. CoerceStep(b) = b
        BY <2>2 DEF CoerceStep
    <3> HIDE DEF b
    <3>2. b.kind = "step" /\ Len(b.blocks) \in Nat
        BY <1>2, <3>1 DEF IsStep, ProcedureStep
    <3>3. ASSUME NEW n \in 1..Len(b.blocks)
          PROVE  TypedBlock(b.blocks[n]) /\ b.blocks[n].kind \in {"text", "code", "table", "quote"}
      <4> PICK c : c = b.blocks[n]
          OBVIOUS
      <4>1. TextBlock(c) \/ CodeBlock(c) \/ TableBlock(c) \/ QuoteBlock(c)
          BY <1>2, <3>1 DEF IsStep, ProcedureStep
      <4>2. c.kind \in {"text", "code", "table", "quote"}
          BY <4>1 DEF TextBlock, CodeBlock, TableBlock, QuoteBlock
      <4> QED
          BY <4>1, <4>2, BlocksAreTyped
    <3> QED
        BY <3>2, <3>3 DEF TypedItem, TypedBlock
  <2> QED
      BY <2>1, <2>2
<1>3. ASSUME IsSentence(b) PROVE TypedItem(b)
  <2> HIDE DEF b
  <2>1. b.kind = "sentence" /\ b.text \in Texts
      BY <1>3, StringsAreTexts DEF IsSentence
  <2> QED
      BY <2>1 DEF TypedItem, TypedBlock
<1>4. ASSUME CodeBlock(b) PROVE TypedItem(b)
  <2> HIDE DEF b
  <2>1. b.kind = "code" /\ TypedBlock(b)
      BY <1>4, BlocksAreTyped DEF CodeBlock
  <2> QED
      BY <2>1 DEF TypedItem
<1>5. ASSUME TimelineEntry(b) \/ TopicHeading(b) \/ TermDefinition(b) PROVE TypedItem(b)
  <2> HIDE DEF b
  <2>1. <<>> \in Texts
      BY EmptySeq DEF Texts
  <2>2. b.kind \in {"event", "heading", "definition"} /\ b.text \in Texts /\ b.label \in Texts
      BY <1>5, <2>1, StringsAreTexts DEF TimelineEntry, TopicHeading, TermDefinition, NotGiven
  <2> QED
      BY <2>2 DEF TypedItem, TypedBlock
<1>6. CASE list.field = "topics"
  <2>1. TopicHeading(list.items[1]) /\ \A n \in 2..Len(list.items) : BodyItem(list.items[n])
      BY <1>6 DEF FieldList, TopicSection
  <2>2. k = 1 \/ k \in 2..Len(list.items)
      BY DEF FieldList
  <2> QED
      BY <1>1, <1>5, <2>1, <2>2
<1>7. CASE list.field # "topics"
  <2>1. IsItem(Fields[list.field].of, b)
      BY <1>7 DEF FieldList
  <2>2. IsSentence(b) \/ BodyItem(b) \/ CodeBlock(b) \/ TimelineEntry(b) \/ IsStep(b) \/ TermDefinition(b)
      BY <2>1 DEF IsItem
  <2> QED
      BY <1>1, <1>2, <1>3, <1>4, <1>5, <2>2
<1> QED
    BY <1>6, <1>7

-----------------------------------------------------------------------------
(* What is left of a text, and of a block.                                 *)

\* A set of numbers up to n has a least and a greatest one.
LEMMA Extremes ==
    ASSUME NEW n \in Nat, NEW S \in SUBSET (1..n), S # {}
    PROVE  Min(S) \in S /\ Max(S) \in S /\ Min(S) <= Max(S) /\ \A k \in S : Min(S) <= k /\ k <= Max(S)
<1>1. \E m \in S : \A k \in S : m <= k
    BY LeastNumber
<1>2. Min(S) \in S /\ \A k \in S : Min(S) <= k
    BY <1>1 DEF Min
<1>3. \E m \in S : \A k \in S : k <= m
  <2> DEFINE T == {n - k : k \in S}
  <2>0. \A k \in S : n - k \in Nat
      OBVIOUS
  <2>1. T \in SUBSET Nat /\ T # {}
      BY <2>0
  <2>2. PICK t \in T : \A u \in T : t <= u
      BY <2>1, LeastNumber
  <2>3. PICK m \in S : t = n - m
      BY <2>2
  <2>4. \A k \in S : k <= m
      BY <2>2, <2>3
  <2> QED
      BY <2>4
<1>4. Max(S) \in S /\ \A k \in S : k <= Max(S)
    BY <1>3 DEF Max
<1> QED
    BY <1>2, <1>4

\* The lines of a text that are not blank.
Solid(text) == {k \in 1..Len(text) : text[k].mark # "blank"}

LEMMA SolidLines ==
    ASSUME NEW text \in Texts
    PROVE  Those(text, LAMBDA l : l.mark # "blank") = Picked(text, Len(text), Solid(text))
<1> DEFINE f == [k \in 1..Len(text) |-> IF text[k].mark # "blank" THEN <<text[k]>> ELSE <<>>]
           g == [k \in 1..Len(text) |-> IF k \in Solid(text) THEN <<text[k]>> ELSE <<>>]
<1>1. f = g
    BY DEF Solid
<1> QED
    BY <1>1 DEF Those, Picked

\* one_line is empty exactly when the text is blank.
LEMMA OneLineShows ==
    ASSUME NEW text \in Texts
    PROVE  OneLine(text) = Blank <=> ~HasText(text)
<1> DEFINE n == Len(text)
           T == Solid(text)
           solid == Picked(text, n, T)
<1>1. n \in Nat /\ \A k \in 1..n : text[k] \in Lines
    BY DEF Texts
<1>2. HasText(text) <=> \E k \in 1..n : k \in T
    BY DEF HasText, Solid
<1>3. OneLine(text) =
        IF solid = <<>> THEN Blank
        ELSE [solid[1] EXCEPT
                !.indent = 0,
                !.mark = IF Len(solid) > 1 /\ @ \in WholeLine THEN "plain" ELSE @,
                !.size = SumOf(LAMBDA l : l.size, solid) + Len(solid) - 1]
    BY SolidLines DEF OneLine
<1>4. solid = <<>> <=> ~HasText(text)
  <2> HIDE DEF T, n
  <2> QED
      BY <1>1, <1>2, PickedEmpty
<1>5. ASSUME solid # <<>> PROVE OneLine(text) # Blank
  <2>1. solid \in Seq(Lines)
    <3> HIDE DEF T, n
    <3> QED
        BY <1>1, PickedIsSequence
  <2>2. \A k \in 1..Len(solid) : \E j \in 1..n : j \in T /\ solid[k] = text[j]
    <3> HIDE DEF T, n
    <3> QED
        BY <1>1, PickedPlaces DEF PlacedIn
  <2> PICK s : s = solid
      OBVIOUS
  <2>3. 1 \in 1..Len(s) /\ s[1] \in Lines
    <3> HIDE DEF solid
    <3> QED
        BY <1>5, <2>1
  <2>4. s[1].mark # "blank"
    <3>1. PICK j \in 1..n : j \in T /\ s[1] = text[j]
        BY <2>2, <2>3
    <3> QED
        BY <3>1 DEF Solid
  <2> HIDE DEF solid
  <2> DEFINE size == SumOf(LAMBDA l : l.size, s) + Len(s) - 1
             line == [s[1] EXCEPT
                !.indent = 0,
                !.mark = IF Len(s) > 1 /\ @ \in WholeLine THEN "plain" ELSE @,
                !.size = size]
  <2>5. OneLine(text) = line
      BY <1>3, <1>5
  <2>6. line.mark = IF Len(s) > 1 /\ s[1].mark \in WholeLine THEN "plain" ELSE s[1].mark
    <3> HIDE DEF size
    <3> QED
        BY <2>3 DEF Lines
  <2>7. line.mark # "blank"
      BY <2>4, <2>6
  <2> HIDE DEF line
  <2> QED
      BY <2>5, <2>7 DEF Blank
<1> QED
    BY <1>3, <1>4, <1>5

LEMMA ParagraphShows ==
    ASSUME NEW text \in Texts
    PROVE  CanonicaliseParagraph(text) = <<>> <=> ~HasText(text)
<1> DEFINE solid == {k \in 1..Len(text) : text[k].mark # "blank"}
           lines == SubSeq(text, Min(solid), Max(solid))
<1>1. HasText(text) <=> solid # {}
    BY DEF HasText
<1>2. ASSUME solid # {} PROVE Len(lines) \in Nat \ {0}
  <2>1. Len(text) \in Nat /\ solid \in SUBSET (1..Len(text))
      BY DEF Texts
  <2>2. Min(solid) \in solid /\ Max(solid) \in solid /\ Min(solid) <= Max(solid)
    <3> HIDE DEF solid
    <3> QED
        BY <1>2, <2>1, Extremes
  <2>3. PICK a, b : a = Min(solid) /\ b = Max(solid)
      OBVIOUS
  <2>4. a \in Nat /\ b \in Nat /\ a <= b /\ a \in 1..Len(text) /\ b \in 1..Len(text)
    <3> HIDE DEF solid
    <3>1. a \in solid /\ b \in solid /\ a <= b
        BY <2>2, <2>3
    <3>2. a \in 1..Len(text) /\ b \in 1..Len(text)
        BY <2>1, <3>1
    <3> QED
        BY <2>1, <3>1, <3>2
  <2>5. Len(SubSeq(text, a, b)) = b - a + 1
    <3> HIDE DEF solid
    <3> QED
        BY <2>4 DEF Texts
  <2> QED
      BY <2>3, <2>4, <2>5
<1>3. ASSUME solid # {} PROVE CanonicaliseParagraph(text) # <<>>
  <2> DEFINE f == [k \in 1..Len(lines) |->
               IF lines[k].mark = "blank" THEN Blank
               ELSE IF k = 1 \/ lines[k - 1].mark = "blank"
                 THEN [lines[k] EXCEPT !.indent = 0]
                 ELSE lines[k]]
  <2>1. CanonicaliseParagraph(text) = f
      BY <1>3 DEF CanonicaliseParagraph
  <2>2. 1 \in DOMAIN f
    <3> HIDE DEF solid, lines
    <3>1. Len(lines) \in Nat \ {0}
        BY <1>2, <1>3
    <3>2. DOMAIN f = 1..Len(lines)
        OBVIOUS
    <3> QED
        BY <3>1, <3>2
  <2> HIDE DEF f
  <2> QED
      BY <2>1, <2>2
<1>4. ASSUME solid = {} PROVE CanonicaliseParagraph(text) = <<>>
    BY <1>4 DEF CanonicaliseParagraph
<1> QED
    BY <1>1, <1>3, <1>4

LEMMA CodeShows ==
    ASSUME NEW text \in Texts
    PROVE  (\A k \in 1..Len(CanonicaliseCode(text)) : CanonicaliseCode(text)[k].mark = "blank")
             <=> ~HasText(text)
<1>1. CASE Len(text) > 1 /\ text[Len(text)] = Blank
  <2> DEFINE n == Len(text)
             front == SubSeq(text, 1, n - 1)
  <2>1. n \in Nat /\ Len(front) = n - 1 /\ \A k \in 1..(n - 1) : front[k] = text[k]
      BY <1>1 DEF Texts
  <2>2. CanonicaliseCode(text) = front
      BY <1>1 DEF CanonicaliseCode, Last, Front
  <2>3. text[n].mark = "blank"
      BY <1>1 DEF Blank
  <2> HIDE DEF front
  <2>4. \A k \in 1..n : k = n \/ k \in 1..(n - 1)
      BY <2>1
  <2> HIDE DEF n
  <2>5. HasText(text) <=> \E k \in 1..n : text[k].mark # "blank"
      BY DEF HasText, n
  <2> QED
      BY <2>1, <2>2, <2>3, <2>4, <2>5
<1>2. CASE ~(Len(text) > 1 /\ text[Len(text)] = Blank)
  <2>1. CanonicaliseCode(text) = text
      BY <1>2 DEF CanonicaliseCode, Last
  <2> QED
      BY <2>1 DEF HasText
<1> QED
    BY <1>1, <1>2

\* A list of strings keeps a line exactly when one of them is not blank.
LEMMA LinesShow ==
    ASSUME NEW texts, Len(texts) \in Nat, \A k \in 1..Len(texts) : texts[k] \in Texts
    PROVE  NonEmpty(texts) = <<>> <=> ~\E k \in 1..Len(texts) : HasText(texts[k])
<1> DEFINE n == Len(texts)
           s == [k \in 1..n |-> OneLine(texts[k])]
           T == {k \in 1..n : s[k] # Blank}
<1>1. Len(s) = n
    OBVIOUS
<1>2. NonEmpty(texts) = Picked(s, n, T)
  <2> DEFINE f == [k \in 1..Len(s) |-> IF s[k] # Blank THEN <<s[k]>> ELSE <<>>]
             g == [k \in 1..n |-> IF k \in T THEN <<s[k]>> ELSE <<>>]
  <2>1. f = g
      BY <1>1
  <2>2. NonEmpty(texts) = FlattenSeq(f)
      BY DEF NonEmpty, Those
  <2>3. Picked(s, n, T) = FlattenSeq(g)
      BY DEF Picked
  <2> QED
      BY <2>1, <2>2, <2>3
<1>3. Picked(s, n, T) = <<>> <=> \A k \in 1..n : k \notin T
  <2> HIDE DEF s, T
  <2> QED
      BY PickedEmpty
<1>4. \A k \in 1..n : k \in T <=> HasText(texts[k])
    BY OneLineShows
<1> HIDE DEF s, T
<1> QED
    BY <1>2, <1>3, <1>4

InStep == {"text", "code", "table", "quote"}

LEMMA NothingIsNoBlock == ASSUME NEW b, b.kind \in InStep \union {"paragraph", "bullet", "step"} PROVE b # Nothing
BY DEF Nothing, InStep

\* A block of a step, a quote or a code block is kept exactly when it shows.
LEMMA BlockShows ==
    ASSUME NEW b, TypedBlock(b), b.kind \in InStep
    PROVE  /\ NormaliseBlock(b) # Nothing <=> ShowsBlock(b)
           /\ NormaliseBlock(b) # Nothing => NormaliseBlock(b).kind = b.kind
<1>1. CASE b.kind = "text"
  <2>1. NormaliseBlock(b) = IF OneLine(b.text) = Blank THEN Nothing ELSE [kind |-> "text", text |-> OneLine(b.text)]
      BY <1>1 DEF NormaliseBlock, NormaliseText
  <2>2. OneLine(b.text) = Blank <=> ~ShowsBlock(b)
      BY <1>1, OneLineShows DEF TypedBlock, ShowsBlock
  <2>3. [kind |-> "text", text |-> OneLine(b.text)] # Nothing
      BY NothingIsNoBlock DEF InStep
  <2> QED
      BY <1>1, <2>1, <2>2, <2>3
<1>2. CASE b.kind = "code"
  <2> DEFINE lines == CanonicaliseCode(b.text)
             c == [kind |-> "code", label |-> OneLine(b.label), lines |-> lines]
  <2>1. NormaliseBlock(b) = IF \A k \in 1..Len(lines) : lines[k].mark = "blank" THEN Nothing ELSE c
      BY <1>2 DEF NormaliseBlock, NormaliseCode
  <2>2. (\A k \in 1..Len(lines) : lines[k].mark = "blank") <=> ~ShowsBlock(b)
      BY <1>2, CodeShows DEF TypedBlock, ShowsBlock
  <2>3. c # Nothing /\ c.kind = "code"
      BY NothingIsNoBlock DEF InStep
  <2> HIDE DEF lines, c
  <2> QED
      BY <1>2, <2>1, <2>2, <2>3
<1>3. CASE b.kind = "table"
  <2>1. NormaliseBlock(b) = NormaliseTable(b)
      BY <1>3 DEF NormaliseBlock
  <2>2. NormaliseTable(b).kind = "table"
      BY DEF NormaliseTable
  <2>3. NormaliseTable(b) # Nothing
      BY <2>2, NothingIsNoBlock DEF InStep
  <2> QED
      BY <1>3, <2>1, <2>2, <2>3 DEF ShowsBlock
<1>4. CASE b.kind = "quote"
  <2> DEFINE lines == NonEmpty(b.lines)
             c == [kind |-> "quote", callout |-> b.callout, title |-> OneLine(b.title), lines |-> lines]
  <2>1. NormaliseBlock(b) = IF lines = <<>> THEN Nothing ELSE c
      BY <1>4 DEF NormaliseBlock, NormaliseQuote
  <2>2. lines = <<>> <=> ~ShowsBlock(b)
      BY <1>4, LinesShow DEF TypedBlock, ShowsBlock
  <2>3. c # Nothing /\ c.kind = "quote"
      BY NothingIsNoBlock DEF InStep
  <2> HIDE DEF lines, c
  <2> QED
      BY <1>4, <2>1, <2>2, <2>3
<1> QED
    BY <1>1, <1>2, <1>3, <1>4 DEF InStep

\* The blocks of a step, normalised: none exactly when none shows, and the first
\* one of the kind of the first one that shows.
StepBlocks(bs) ==
    Those([k \in 1..Len(bs) |-> NormaliseBlock(bs[k])], LAMBDA b : b # Nothing)

LEMMA StepShows ==
    ASSUME NEW bs, Len(bs) \in Nat,
           \A k \in 1..Len(bs) : TypedBlock(bs[k]) /\ bs[k].kind \in InStep
    PROVE  /\ StepBlocks(bs) = <<>> <=> Those(bs, ShowsBlock) = <<>>
           /\ StepBlocks(bs) = <<>> <=> ~\E k \in 1..Len(bs) : ShowsBlock(bs[k])
           /\ StepBlocks(bs) # <<>> => StepBlocks(bs)[1].kind = Those(bs, ShowsBlock)[1].kind
<1> DEFINE n == Len(bs)
           s == [k \in 1..n |-> NormaliseBlock(bs[k])]
           T == {k \in 1..n : ShowsBlock(bs[k])}
<1>1. \A k \in 1..n : (s[k] # Nothing <=> k \in T) /\ (k \in T => s[k].kind = bs[k].kind)
    BY BlockShows
<1>2. StepBlocks(bs) = Picked(s, n, T)
  <2> DEFINE f == [k \in 1..Len(s) |-> IF s[k] # Nothing THEN <<s[k]>> ELSE <<>>]
             g == [k \in 1..n |-> IF k \in T THEN <<s[k]>> ELSE <<>>]
  <2>1. Len(s) = n
      OBVIOUS
  <2>2. f = g
      BY <1>1, <2>1
  <2>3. StepBlocks(bs) = FlattenSeq(f)
      BY DEF StepBlocks, Those
  <2>4. Picked(s, n, T) = FlattenSeq(g)
      BY DEF Picked
  <2> QED
      BY <2>2, <2>3, <2>4
<1>3. Those(bs, ShowsBlock) = Picked(bs, n, T)
  <2> DEFINE f == [k \in 1..n |-> IF ShowsBlock(bs[k]) THEN <<bs[k]>> ELSE <<>>]
             g == [k \in 1..n |-> IF k \in T THEN <<bs[k]>> ELSE <<>>]
  <2>1. f = g
      OBVIOUS
  <2>2. Those(bs, ShowsBlock) = FlattenSeq(f)
      BY DEF Those
  <2>3. Picked(bs, n, T) = FlattenSeq(g)
      BY DEF Picked
  <2> QED
      BY <2>1, <2>2, <2>3
<1>4. (\E k \in 1..n : ShowsBlock(bs[k])) <=> \E k \in 1..n : k \in T
    OBVIOUS
<1> HIDE DEF s, T
<1>5. (Picked(s, n, T) = <<>> <=> \A k \in 1..n : k \notin T)
      /\ (Picked(bs, n, T) = <<>> <=> \A k \in 1..n : k \notin T)
    BY PickedEmpty
<1>6. ASSUME Picked(s, n, T) # <<>> PROVE Picked(s, n, T)[1].kind = Picked(bs, n, T)[1].kind
  <2> DEFINE S == {s[k] : k \in 1..n}
  <2>0. \A k \in 1..n : s[k] \in S
      OBVIOUS
  <2> HIDE DEF S
  <2>1. Picked(s, n, T) \in Seq(S)
      BY <2>0, PickedIsSequence
  <2> PICK p, q : p = Picked(s, n, T) /\ q = Picked(bs, n, T)
      OBVIOUS
  <2>2. 1 \in 1..Len(p)
      BY <1>6, <2>1
  <2>3. PlacedIn(p, q, s, bs, n, T)
      BY PickedPlaces
  <2>4. PICK j \in 1..n : j \in T /\ p[1] = s[j] /\ q[1] = bs[j]
      BY <2>2, <2>3 DEF PlacedIn
  <2> QED
      BY <1>1, <2>4
<1> QED
    BY <1>2, <1>3, <1>4, <1>5, <1>6

-----------------------------------------------------------------------------
(* What a text adds to the payload.                                        *)

\* The size of each line that is not blank, and of a line break.
SolidSizes(text) == [k \in 1..Len(text) |-> IF k \in Solid(text) THEN text[k].size + 1 ELSE 0]

LEMMA LinesHaveSizes == \A l \in Lines : l.size \in Nat /\ l.indent \in Nat
BY DEF Lines

LEMMA SolidSizesAreNumbers ==
    ASSUME NEW text \in Texts
    PROVE  SolidSizes(text) \in [1..Len(text) -> Nat] /\ Len(text) \in Nat
<1>1. Len(text) \in Nat /\ \A k \in 1..Len(text) : text[k] \in Lines
    BY DEF Texts
<1>2. \A k \in 1..Len(text) : text[k].size + 1 \in Nat
    BY <1>1, LinesHaveSizes
<1> QED
    BY <1>1, <1>2 DEF SolidSizes

LEMMA TextPayloadIs ==
    ASSUME NEW text \in Texts
    PROVE  /\ TextPayload(text) \in Nat
           /\ HasText(text) => Total(SolidSizes(text)) = TextPayload(text) + 1
           /\ ~HasText(text) => TextPayload(text) = 0
<1> DEFINE n == Len(text)
           T == Solid(text)
           solid == Picked(text, n, T)
           w == [k \in 1..n |-> text[k].size + 1]
           q == Picked(w, n, T)
<1>1. n \in Nat /\ \A k \in 1..n : text[k] \in Lines /\ text[k].size \in Nat /\ w[k] \in Nat
  <2>1. n \in Nat /\ \A k \in 1..n : text[k] \in Lines
      BY DEF Texts
  <2>2. \A k \in 1..n : text[k].size \in Nat
      BY <2>1, LinesHaveSizes
  <2> QED
      BY <2>1, <2>2
<1>2. HasText(text) <=> \E k \in 1..n : k \in T
    BY DEF HasText, Solid
<1>3. TextPayload(text) = IF solid = <<>> THEN 0 ELSE SumOf(LAMBDA l : l.size, solid) + Len(solid) - 1
    BY SolidLines DEF TextPayload
<1>4. SolidSizes(text) = [k \in 1..n |-> IF k \in T THEN w[k] ELSE 0]
    BY DEF SolidSizes
<1>5. (solid = <<>> <=> ~HasText(text)) /\ solid \in Seq(Lines) /\ q \in Seq(Nat)
      /\ PlacedIn(solid, q, text, w, n, T)
      /\ Total(q) = Total([k \in 1..n |-> IF k \in T THEN w[k] ELSE 0])
  <2> HIDE DEF T, n, w
  <2>1. solid = <<>> <=> ~HasText(text)
      BY <1>1, <1>2, PickedEmpty
  <2>2. solid \in Seq(Lines) /\ q \in Seq(Nat)
      BY <1>1, PickedIsSequence
  <2>3. PlacedIn(solid, q, text, w, n, T)
      BY <1>1, PickedPlaces
  <2>4. Total(q) = Total([k \in 1..n |-> IF k \in T THEN w[k] ELSE 0])
      BY <1>1, TotalPicked
  <2> QED
      BY <2>1, <2>2, <2>3, <2>4
<1> PICK s, p, m : s = solid /\ p = q /\ m = Len(solid)
    OBVIOUS
<1> HIDE DEF solid, q, T
<1> DEFINE z == [k \in 1..m |-> s[k].size]
           y == [k \in 1..m |-> z[k] + 1]
<1>6. m \in Nat /\ m = Len(s) /\ s \in Seq(Lines) /\ z \in [1..m -> Nat]
  <2>1. m \in Nat /\ m = Len(s) /\ s \in Seq(Lines)
      BY <1>5
  <2>2. \A k \in 1..m : s[k].size \in Nat
      BY <2>1, LinesHaveSizes
  <2> QED
      BY <2>1, <2>2
<1>7. SumOf(LAMBDA l : l.size, solid) = Total(z)
    BY <1>6 DEF SumOf
<1>8. p = y
  <2>1. Len(p) = m /\ p \in Seq(Nat)
      BY <1>5 DEF PlacedIn
  <2>2. ASSUME NEW k \in 1..m PROVE p[k] = y[k]
    <3>1. PICK j \in 1..n : j \in T /\ s[k] = text[j] /\ p[k] = w[j]
        BY <1>5, <2>2 DEF PlacedIn
    <3> QED
        BY <3>1
  <2>3. DOMAIN p = 1..m
      BY <2>1
  <2> HIDE DEF z, w
  <2> QED
      BY <2>1, <2>2, <2>3
<1> HIDE DEF z
<1>9. Total(y) = Total(z) + m /\ Total(z) \in Nat
    BY <1>6, TotalWithOnes, TotalIsNumber
<1> HIDE DEF y, w
<1>10. Total(SolidSizes(text)) = Total(z) + m
    BY <1>4, <1>5, <1>8, <1>9
<1>11. CASE s = <<>>
    BY <1>3, <1>5, <1>11
<1>12. CASE s # <<>>
  <2>1. m # 0
      BY <1>6, <1>12
  <2>2. TextPayload(text) = Total(z) + m - 1
      BY <1>3, <1>7, <1>12
  <2> PICK t : t = Total(z)
      OBVIOUS
  <2>3. t \in Nat /\ t + m - 1 \in Nat /\ (t + m - 1) + 1 = t + m
      BY <1>6, <1>9, <2>1
  <2> QED
      BY <1>5, <1>10, <1>12, <2>2, <2>3
<1> QED
    BY <1>11, <1>12

\* As a single line, a text has its payload for a size and no indentation.
LEMMA OneLineSize ==
    ASSUME NEW text \in Texts
    PROVE  OneLine(text).size = TextPayload(text) /\ OneLine(text).indent = 0
<1> DEFINE n == Len(text)
           T == Solid(text)
           solid == Picked(text, n, T)
           size == SumOf(LAMBDA l : l.size, solid) + Len(solid) - 1
<1>1. n \in Nat /\ \A k \in 1..n : text[k] \in Lines
    BY DEF Texts
<1>2. TextPayload(text) = IF solid = <<>> THEN 0 ELSE size
    BY SolidLines DEF TextPayload
<1>3. OneLine(text) =
        IF solid = <<>> THEN Blank
        ELSE [solid[1] EXCEPT
                !.indent = 0,
                !.mark = IF Len(solid) > 1 /\ @ \in WholeLine THEN "plain" ELSE @,
                !.size = size]
    BY SolidLines DEF OneLine
<1>4. CASE solid = <<>>
    BY <1>2, <1>3, <1>4 DEF Blank
<1>5. CASE solid # <<>>
  <2>1. solid \in Seq(Lines)
    <3> HIDE DEF T, n
    <3> QED
        BY <1>1, PickedIsSequence
  <2> PICK s : s = solid
      OBVIOUS
  <2> HIDE DEF solid, size
  <2>2. s[1] \in Lines
      BY <1>5, <2>1
  <2>3. /\ OneLine(text).size = size
        /\ OneLine(text).indent = 0
    <3> PICK t, l, m : t = size /\ l = s[1] /\ m = IF Len(s) > 1 /\ s[1].mark \in WholeLine THEN "plain" ELSE s[1].mark
        OBVIOUS
    <3>1. OneLine(text) = [l EXCEPT !.indent = 0, !.mark = m, !.size = t]
        BY <1>3, <1>5, <2>2 DEF Lines
    <3> QED
        BY <2>2, <3>1 DEF Lines
  <2> QED
      BY <1>2, <1>5, <2>3
<1> QED
    BY <1>4, <1>5

\* Lines that hold, from place c + 1 on, all of a text that is not blank are at
\* least as long as its payload.
LEMMA LinesWeigh ==
    ASSUME NEW text \in Texts, HasText(text), NEW lines, NEW c \in Nat, NEW m \in Nat,
           Len(lines) = m, c + m <= Len(text),
           \A k \in 1..m : lines[k].indent \in Nat /\ lines[k].size \in Nat,
           \A k \in 1..m : c + k \in Solid(text) => lines[k].size = text[c + k].size,
           \A k \in Solid(text) : c < k /\ k <= c + m
    PROVE  /\ Sizes(lines) + Len(lines) - 1 \in Nat
           /\ TextPayload(text) <= Sizes(lines) + Len(lines) - 1
<1> DEFINE n == Len(text)
           u == SolidSizes(text)
           v == [j \in 1..m |-> u[c + j]]
           z == [j \in 1..m |-> lines[j].indent + lines[j].size]
           y == [j \in 1..m |-> z[j] + 1]
<1>1. n \in Nat /\ u \in [1..n -> Nat] /\ c + m \in Nat /\ c + m <= n
    BY SolidSizesAreNumbers
<1>2. Sizes(lines) = Total(z) /\ z \in [1..m -> Nat] /\ y \in [1..m -> Nat]
    BY DEF Sizes, SumOf
<1>3. \A k \in 1..n : ~(c < k /\ k <= c + m) => u[k] = 0
    BY DEF SolidSizes
<1>4. \A j \in 1..m : v[j] <= y[j]
  <2>1. \A j \in 1..m : c + j \in 1..n
      BY <1>1
  <2>2. \A j \in 1..m : v[j] = IF c + j \in Solid(text) THEN text[c + j].size + 1 ELSE 0
      BY <2>1 DEF SolidSizes
  <2>3. \A j \in 1..m : y[j] = lines[j].indent + lines[j].size + 1
      OBVIOUS
  <2> HIDE DEF v, y
  <2>4. ASSUME NEW j \in 1..m PROVE v[j] <= y[j]
    <3>1. CASE c + j \in Solid(text)
      <4>1. v[j] = lines[j].size + 1
          BY <2>2, <3>1
      <4> QED
          BY <2>3, <4>1
    <3>2. CASE c + j \notin Solid(text)
        BY <2>2, <2>3, <3>2
    <3> QED
        BY <3>1, <3>2
  <2> QED
      BY <2>4
<1> HIDE DEF u, n
<1>5. Total(u) = Total([k \in 1..(c + m) |-> u[k]])
  <2> PICK b : b = c + m
      OBVIOUS
  <2>0. b \in Nat /\ b <= n /\ \A k \in 1..n : u[k] \in Nat
      BY <1>1
  <2>1. \A k \in (b + 1)..n : u[k] = 0
    <3>1. \A k \in (b + 1)..n : k \in 1..n /\ ~(k <= c + m)
        BY <1>1
    <3> QED
        BY <1>3, <3>1
  <2>2. Total([k \in 1..n |-> u[k]]) = Total([k \in 1..b |-> u[k]])
      BY <1>1, <2>0, <2>1, TotalZerosAfter
  <2>3. u = [k \in 1..n |-> u[k]]
      BY <1>1
  <2> QED
      BY <2>2, <2>3
<1>6. Total([k \in 1..(c + m) |-> u[k]]) = Total(v)
  <2>1. (\A k \in 1..(c + m) : u[k] \in Nat) /\ \A k \in 1..c : u[k] = 0
    <3>1. \A k \in 1..(c + m) : k \in 1..n
        BY <1>1
    <3>2. \A k \in 1..c : k \in 1..n /\ ~(c < k)
        BY <1>1
    <3> QED
        BY <1>1, <1>3, <3>1, <3>2
  <2> QED
      BY <2>1, TotalZerosBefore
<1>7. v \in [1..m -> Nat]
    BY <1>1 DEF n
<1> HIDE DEF v, z
<1>8. Total(y) = Total(z) + m /\ Total(z) \in Nat
    BY <1>2, TotalWithOnes, TotalIsNumber
<1> HIDE DEF y
<1>9. Total(v) <= Total(y) /\ Total(v) \in Nat
    BY <1>2, <1>4, <1>7, TotalGrows, TotalIsNumber
<1>10. Total(u) = TextPayload(text) + 1 /\ TextPayload(text) \in Nat
    BY TextPayloadIs DEF u
<1> PICK p, s : p = TextPayload(text) /\ s = Total(z)
    OBVIOUS
<1>11. p \in Nat /\ s \in Nat /\ p + 1 <= s + m
    BY <1>5, <1>6, <1>8, <1>9, <1>10
<1>12. s + m - 1 \in Nat /\ p <= s + m - 1
    BY <1>11
<1> QED
    BY <1>2, <1>12

\* From place a to place b.
LEMMA Window ==
    ASSUME NEW n \in Nat, NEW a \in 1..n, NEW b \in 1..n, a <= b
    PROVE  \E c \in Nat, m \in Nat :
              /\ a = c + 1 /\ m = b - a + 1 /\ c + m = b /\ c + m <= n
              /\ \A k \in 1..m : c + k \in 1..n /\ a + k - 1 = c + k
<1> WITNESS a - 1 \in Nat, b - a + 1 \in Nat
<1> QED
    OBVIOUS

LEMMA ParagraphWeighs ==
    ASSUME NEW text \in Texts, HasText(text)
    PROVE  /\ ParagraphChars(CanonicaliseParagraph(text)) \in Nat
           /\ TextPayload(text) <= ParagraphChars(CanonicaliseParagraph(text))
<1> DEFINE solid == {k \in 1..Len(text) : text[k].mark # "blank"}
           sub == SubSeq(text, Min(solid), Max(solid))
           trimmed == [k \in 1..Len(sub) |->
               IF sub[k].mark = "blank" THEN Blank
               ELSE IF k = 1 \/ sub[k - 1].mark = "blank"
                 THEN [sub[k] EXCEPT !.indent = 0]
                 ELSE sub[k]]
<1>1. solid = Solid(text) /\ solid # {}
    BY DEF HasText, Solid
<1>2. CanonicaliseParagraph(text) = trimmed
    BY <1>1 DEF CanonicaliseParagraph
<1> PICK n, a, b : n = Len(text) /\ a = Min(solid) /\ b = Max(solid)
    OBVIOUS
<1>3. n \in Nat /\ solid \in SUBSET (1..n) /\ \A k \in 1..n : text[k] \in Lines
    BY DEF Texts
<1> HIDE DEF solid
<1>4. a \in solid /\ b \in solid /\ \A k \in solid : a <= k /\ k <= b
    BY <1>1, <1>3, Extremes
<1>5. a \in 1..n /\ b \in 1..n /\ a <= b
    BY <1>3, <1>4
<1>6. PICK c \in Nat, m \in Nat :
              /\ a = c + 1 /\ m = b - a + 1 /\ c + m = b /\ c + m <= n
              /\ \A k \in 1..m : c + k \in 1..n /\ a + k - 1 = c + k
    BY <1>3, <1>5, Window
<1> PICK s : s = SubSeq(text, a, b)
    OBVIOUS
<1>7. Len(s) = m /\ \A k \in 1..m : s[k] = text[c + k] /\ c + k \in 1..n
  <2>1. Len(s) = b - a + 1 /\ \A k \in 1..(b - a + 1) : s[k] = text[a + k - 1]
    <3>1. a \in 1..Len(text) + 1 /\ b \in a - 1..Len(text) /\ text \in Seq(Lines)
        BY <1>3, <1>5 DEF Texts
    <3>2. a <= b /\ b \in Int /\ a \in Int
        BY <1>3, <1>5
    <3> QED
        BY <3>1, <3>2, SubSeqProperties
  <2> QED
      BY <1>6, <2>1
<1>8. sub = s
    OBVIOUS
<1> HIDE DEF sub
<1> PICK t : t = trimmed
    OBVIOUS
<1>9. Len(t) = m
  <2>1. t = [k \in 1..m |-> t[k]]
      BY <1>7, <1>8
  <2> HIDE DEF trimmed
  <2> QED
      BY <1>6, <2>1
<1>10. ASSUME NEW k \in 1..m
       PROVE  /\ t[k].indent \in Nat /\ t[k].size \in Nat
              /\ c + k \in Solid(text) => t[k].size = text[c + k].size
  <2> PICK l : l = text[c + k]
      OBVIOUS
  <2>1. l \in Lines /\ l = s[k] /\ (c + k \in Solid(text) <=> l.mark # "blank")
      BY <1>3, <1>7 DEF Solid
  <2>2. t[k] = IF l.mark = "blank" THEN Blank
               ELSE IF k = 1 \/ s[k - 1].mark = "blank" THEN [l EXCEPT !.indent = 0] ELSE l
      BY <1>7, <1>8, <2>1
  <2>3. [l EXCEPT !.indent = 0].indent = 0 /\ [l EXCEPT !.indent = 0].size = l.size
      BY <2>1 DEF Lines
  <2>4. l.indent \in Nat /\ l.size \in Nat
      BY <2>1, LinesHaveSizes
  <2>5. CASE l.mark = "blank"
    <3>1. t[k] = Blank
        BY <2>2, <2>5
    <3> QED
        BY <2>1, <2>5, <3>1 DEF Blank
  <2>6. CASE l.mark # "blank"
    <3>1. t[k] = [l EXCEPT !.indent = 0] \/ t[k] = l
        BY <2>2, <2>6
    <3>2. [l EXCEPT !.indent = 0].indent \in Nat /\ [l EXCEPT !.indent = 0].size \in Nat
        BY <2>3, <2>4
    <3>3. t[k].indent \in Nat /\ t[k].size \in Nat /\ t[k].size = l.size
        BY <2>3, <2>4, <3>1, <3>2
    <3> QED
        BY <3>3
  <2> QED
      BY <2>5, <2>6
<1>11. \A k \in Solid(text) : c < k /\ k <= c + m
  <2>1. \A k \in solid : k \in Nat /\ a <= k /\ k <= b
      BY <1>3, <1>4
  <2> QED
      BY <1>1, <1>5, <1>6, <2>1
<1> HIDE DEF trimmed
<1>12. /\ Sizes(t) + Len(t) - 1 \in Nat
       /\ TextPayload(text) <= Sizes(t) + Len(t) - 1
    BY <1>6, <1>9, <1>10, <1>11, LinesWeigh
<1> QED
    BY <1>2, <1>12 DEF ParagraphChars

LEMMA CodeWeighs ==
    ASSUME NEW text \in Texts, HasText(text)
    PROVE  /\ TextChars(CanonicaliseCode(text)) \in Nat
           /\ TextPayload(text) <= TextChars(CanonicaliseCode(text))
<1> PICK n, t, m : n = Len(text) /\ t = CanonicaliseCode(text) /\ m = Len(t)
    OBVIOUS
<1>1. n \in Nat /\ Solid(text) \in SUBSET (1..n) /\ \A k \in 1..n : text[k] \in Lines
    BY DEF Texts, Solid
<1>2. /\ m \in Nat /\ m <= n /\ \A k \in 1..m : t[k] = text[k]
      /\ m # n => m = n - 1 /\ n \notin Solid(text)
  <2>1. CASE Len(text) > 1 /\ text[Len(text)] = Blank
    <3>1. t = SubSeq(text, 1, n - 1)
        BY <2>1 DEF CanonicaliseCode, Last, Front
    <3>2. m = n - 1 /\ \A k \in 1..(n - 1) : t[k] = text[k]
        BY <1>1, <2>1, <3>1 DEF Texts
    <3>3. n \notin Solid(text)
        BY <2>1 DEF Solid, Blank
    <3> QED
        BY <1>1, <2>1, <3>2, <3>3
  <2>2. CASE ~(Len(text) > 1 /\ text[Len(text)] = Blank)
    <3>1. t = text
        BY <2>2 DEF CanonicaliseCode, Last
    <3> QED
        BY <1>1, <3>1
  <2> QED
      BY <2>1, <2>2
<1>3. \A k \in 1..m : t[k].indent \in Nat /\ t[k].size \in Nat
  <2>1. \A k \in 1..m : t[k] \in Lines
      BY <1>1, <1>2
  <2> QED
      BY <2>1, LinesHaveSizes
<1>4. \A k \in 1..m : 0 + k \in Solid(text) => t[k].size = text[0 + k].size
    BY <1>2
<1>5. \A k \in Solid(text) : 0 < k /\ k <= 0 + m
  <2>1. \A k \in Solid(text) : k \in 1..n
      BY <1>1
  <2>2. \A k \in Solid(text) : m # n => k # n
      BY <1>2
  <2> QED
      BY <1>1, <1>2, <2>1, <2>2
<1>6. 0 \in Nat /\ 0 + m <= n
    BY <1>1, <1>2
<1>7. /\ Sizes(t) + Len(t) - 1 \in Nat
      /\ TextPayload(text) <= Sizes(t) + Len(t) - 1
    BY <1>2, <1>3, <1>4, <1>5, <1>6, LinesWeigh
<1> QED
    BY <1>7 DEF TextChars

-----------------------------------------------------------------------------
(* What a block adds to the payload.                                       *)

LEMMA TextsWeigh ==
    ASSUME NEW texts, NEW n \in Nat, n = Len(texts), \A k \in 1..n : texts[k] \in Texts
    PROVE  /\ TextsPayload(texts) = Total([k \in 1..n |-> TextPayload(texts[k])])
           /\ TextsPayload(texts) \in Nat
<1> DEFINE f == [k \in 1..n |-> TextPayload(texts[k])]
<1>1. f \in [1..n -> Nat]
    BY TextPayloadIs
<1>2. TextsPayload(texts) = Total(f)
    BY DEF TextsPayload, SumOf
<1> HIDE DEF f
<1>3. Total(f) \in Nat
    BY <1>1, TotalIsNumber
<1> QED
    BY <1>2, <1>3 DEF f

LEMMA CellsWeigh ==
    ASSUME NEW texts, NEW n \in Nat, n = Len(texts), \A k \in 1..n : texts[k] \in Texts
    PROVE  Sizes(Cells(texts)) = TextsPayload(texts)
<1> DEFINE c == [k \in 1..n |-> OneLine(texts[k])]
           f == [k \in 1..n |-> c[k].indent + c[k].size]
           g == [k \in 1..n |-> TextPayload(texts[k])]
<1>1. Cells(texts) = c /\ Len(c) = n
    BY DEF Cells
<1>2. Sizes(c) = Total(f)
    BY <1>1 DEF Sizes, SumOf
<1>3. ASSUME NEW k \in 1..n PROVE f[k] = g[k]
  <2> PICK t : t = texts[k]
      OBVIOUS
  <2>1. t \in Texts /\ f[k] = OneLine(t).indent + OneLine(t).size /\ g[k] = TextPayload(t)
      OBVIOUS
  <2>2. OneLine(t).indent = 0 /\ OneLine(t).size = TextPayload(t) /\ TextPayload(t) \in Nat
      BY <2>1, OneLineSize, TextPayloadIs
  <2> HIDE DEF f, g
  <2> PICK p : p = TextPayload(t)
      OBVIOUS
  <2> QED
      BY <2>1, <2>2
<1>4. f = g
    BY <1>3
<1> QED
    BY <1>1, <1>2, <1>4, TextsWeigh

LEMMA RowsWeigh ==
    ASSUME NEW rows, NEW n \in Nat, n = Len(rows),
           \A k \in 1..n : Len(rows[k]) \in Nat /\ \A m \in 1..Len(rows[k]) : rows[k][m] \in Texts
    PROVE  /\ SumOf(Sizes, [k \in 1..n |-> Cells(rows[k])]) = SumOf(TextsPayload, rows)
           /\ SumOf(TextsPayload, rows) \in Nat
<1> DEFINE c == [k \in 1..n |-> Cells(rows[k])]
           f == [k \in 1..n |-> Sizes(c[k])]
           g == [k \in 1..n |-> TextsPayload(rows[k])]
<1>1. SumOf(Sizes, c) = Total(f) /\ SumOf(TextsPayload, rows) = Total(g)
    BY DEF SumOf
<1>2. \A k \in 1..n : Sizes(Cells(rows[k])) = TextsPayload(rows[k]) /\ TextsPayload(rows[k]) \in Nat
  <2> SUFFICES ASSUME NEW k \in 1..n
               PROVE  Sizes(Cells(rows[k])) = TextsPayload(rows[k]) /\ TextsPayload(rows[k]) \in Nat
      OBVIOUS
  <2> PICK row, m : row = rows[k] /\ m = Len(row)
      OBVIOUS
  <2>1. m \in Nat /\ \A j \in 1..m : row[j] \in Texts
      OBVIOUS
  <2>2. Sizes(Cells(row)) = TextsPayload(row) /\ TextsPayload(row) \in Nat
      BY <2>1, CellsWeigh, TextsWeigh
  <2> QED
      BY <2>2
<1>3. f = g /\ g \in [1..n -> Nat]
    BY <1>2
<1> HIDE DEF f, g, c
<1>4. Total(g) \in Nat
    BY <1>3, TotalIsNumber
<1> QED
    BY <1>1, <1>3, <1>4 DEF c

LEMMA QuoteLinesWeigh ==
    ASSUME NEW texts, NEW n \in Nat, n = Len(texts), \A k \in 1..n : texts[k] \in Texts
    PROVE  Sizes(NonEmpty(texts)) = TextsPayload(texts)
<1> DEFINE s == [k \in 1..n |-> OneLine(texts[k])]
           T == {k \in 1..n : s[k] # Blank}
           w == [k \in 1..n |-> TextPayload(texts[k])]
           v == [k \in 1..n |-> IF k \in T THEN w[k] ELSE 0]
<1>1. NonEmpty(texts) = Picked(s, n, T)
  <2> DEFINE f == [k \in 1..Len(s) |-> IF s[k] # Blank THEN <<s[k]>> ELSE <<>>]
             g == [k \in 1..n |-> IF k \in T THEN <<s[k]>> ELSE <<>>]
  <2>1. f = g
      OBVIOUS
  <2>2. NonEmpty(texts) = FlattenSeq(f)
      BY DEF NonEmpty, Those
  <2>3. Picked(s, n, T) = FlattenSeq(g)
      BY DEF Picked
  <2> QED
      BY <2>1, <2>2, <2>3
<1>2. \A k \in 1..n : w[k] \in Nat /\ (k \notin T => w[k] = 0) /\ s[k].indent + s[k].size = w[k]
  <2> SUFFICES ASSUME NEW k \in 1..n
               PROVE  w[k] \in Nat /\ (k \notin T => w[k] = 0) /\ s[k].indent + s[k].size = w[k]
      OBVIOUS
  <2> PICK t : t = texts[k]
      OBVIOUS
  <2>1. t \in Texts /\ s[k] = OneLine(t) /\ w[k] = TextPayload(t) /\ (k \notin T => OneLine(t) = Blank)
      OBVIOUS
  <2>2. OneLine(t).indent = 0 /\ OneLine(t).size = TextPayload(t) /\ TextPayload(t) \in Nat
      BY <2>1, OneLineSize, TextPayloadIs
  <2>3. OneLine(t) = Blank => TextPayload(t) = 0
      BY <2>1, OneLineShows, TextPayloadIs
  <2> HIDE DEF s, w, T
  <2> QED
      BY <2>1, <2>2, <2>3
<1> PICK p : p = Picked(s, n, T)
    OBVIOUS
<1> DEFINE z == [j \in 1..Len(p) |-> p[j].indent + p[j].size]
<1>3. Sizes(p) = Total(z)
    BY DEF Sizes, SumOf
<1> HIDE DEF s, T
<1>4. \A j \in 1..Len(p) : \A k \in 1..n : p[j] = s[k] => z[j] = w[k]
    BY <1>2
<1>5. DOMAIN z = 1..Len(p) /\ z = [j \in 1..Len(p) |-> z[j]]
    OBVIOUS
<1>6. v = w
    BY <1>2
<1>7. TextsPayload(texts) = Total(w)
    BY TextsWeigh
<1> HIDE DEF z, w
<1>8. Total(z) = Total(v)
    BY <1>2, <1>4, <1>5, TotalOfPicked
<1> QED
    BY <1>1, <1>3, <1>6, <1>7, <1>8

LEMMA BlockWeighs ==
    ASSUME NEW b, TypedBlock(b), b.kind \in InStep
    PROVE  /\ ~ShowsBlock(b) => BlockPayload(b) = 0
           /\ ShowsBlock(b) =>
                /\ BlockPayload(b) \in Nat /\ BlockChars(NormaliseBlock(b)) \in Nat
                /\ BlockPayload(b) <= BlockChars(NormaliseBlock(b))
<1>1. CASE b.kind = "text"
  <2>1. NormaliseBlock(b) = IF OneLine(b.text) = Blank THEN Nothing ELSE [kind |-> "text", text |-> OneLine(b.text)]
      BY <1>1 DEF NormaliseBlock, NormaliseText
  <2>2. NormaliseBlock(b).kind \in {"text", "nothing"}
      BY <2>1 DEF Nothing
  <2>3. BlockChars(NormaliseBlock(b)) = 0
      BY <2>2 DEF BlockChars
  <2>4. BlockPayload(b) = 0
      BY <1>1 DEF BlockPayload
  <2> QED
      BY <2>3, <2>4
<1>2. CASE b.kind = "code"
  <2>1. ~ShowsBlock(b) => BlockPayload(b) = 0
      BY <1>2 DEF BlockPayload
  <2> SUFFICES ASSUME ShowsBlock(b)
               PROVE  /\ BlockPayload(b) \in Nat /\ BlockChars(NormaliseBlock(b)) \in Nat
                      /\ BlockPayload(b) <= BlockChars(NormaliseBlock(b))
      BY <2>1
  <2> DEFINE lines == CanonicaliseCode(b.text)
             c == [kind |-> "code", label |-> OneLine(b.label), lines |-> lines]
  <2>2. b.text \in Texts /\ b.label \in Texts /\ HasText(b.text)
      BY <1>2 DEF TypedBlock, ShowsBlock
  <2>3. NormaliseBlock(b) = c
    <3>1. NormaliseBlock(b) = IF \A k \in 1..Len(lines) : lines[k].mark = "blank" THEN Nothing ELSE c
        BY <1>2 DEF NormaliseBlock, NormaliseCode
    <3>2. ~\A k \in 1..Len(lines) : lines[k].mark = "blank"
        BY <2>2, CodeShows
    <3> HIDE DEF lines, c
    <3> QED
        BY <3>1, <3>2
  <2>4. BlockChars(c) = TextChars(lines) + OneLine(b.label).size
      BY DEF BlockChars
  <2>5. BlockPayload(b) = TextPayload(b.label) + TextPayload(b.text)
      BY <1>2 DEF BlockPayload
  <2>6. TextChars(lines) \in Nat /\ TextPayload(b.text) <= TextChars(lines)
      BY <2>2, CodeWeighs
  <2>7. OneLine(b.label).size = TextPayload(b.label) /\ TextPayload(b.label) \in Nat /\ TextPayload(b.text) \in Nat
      BY <2>2, OneLineSize, TextPayloadIs
  <2> HIDE DEF lines, c
  <2> PICK p, q, m : p = TextPayload(b.label) /\ q = TextPayload(b.text) /\ m = TextChars(lines)
      OBVIOUS
  <2>8. p \in Nat /\ q \in Nat /\ m \in Nat /\ q <= m /\ BlockPayload(b) = p + q /\ BlockChars(NormaliseBlock(b)) = m + p
      BY <2>3, <2>4, <2>5, <2>6, <2>7
  <2> QED
      BY <2>8
<1>3. CASE b.kind = "table"
  <2> DEFINE rows == [k \in 1..Len(b.rows) |-> Cells(b.rows[k])]
  <2>1. /\ b.label \in Texts
        /\ Len(b.headers) \in Nat /\ \A k \in 1..Len(b.headers) : b.headers[k] \in Texts
        /\ Len(b.rows) \in Nat
        /\ \A k \in 1..Len(b.rows) : Len(b.rows[k]) \in Nat /\ \A m \in 1..Len(b.rows[k]) : b.rows[k][m] \in Texts
      BY <1>3 DEF TypedBlock
  <2>2. NormaliseBlock(b) = [kind |-> "table", label |-> OneLine(b.label), headers |-> Cells(b.headers), rows |-> rows]
      BY <1>3 DEF NormaliseBlock, NormaliseTable
  <2>3. BlockChars(NormaliseBlock(b)) = OneLine(b.label).size + Sizes(Cells(b.headers)) + SumOf(Sizes, rows)
    <3> HIDE DEF rows
    <3> QED
        BY <2>2 DEF BlockChars
  <2>4. BlockPayload(b) = TextPayload(b.label) + TextsPayload(b.headers) + SumOf(TextsPayload, b.rows)
      BY <1>3 DEF BlockPayload
  <2>5. OneLine(b.label).size = TextPayload(b.label) /\ TextPayload(b.label) \in Nat
      BY <2>1, OneLineSize, TextPayloadIs
  <2>6. Sizes(Cells(b.headers)) = TextsPayload(b.headers) /\ TextsPayload(b.headers) \in Nat
      BY <2>1, CellsWeigh, TextsWeigh
  <2>7. SumOf(Sizes, rows) = SumOf(TextsPayload, b.rows) /\ SumOf(TextsPayload, b.rows) \in Nat
      BY <2>1, RowsWeigh
  <2> DEFINE p == TextPayload(b.label)
             q == TextsPayload(b.headers)
             m == SumOf(TextsPayload, b.rows)
  <2> HIDE DEF rows
  <2>8. p \in Nat /\ q \in Nat /\ m \in Nat /\ BlockPayload(b) = p + q + m /\ BlockChars(NormaliseBlock(b)) = p + q + m
      BY <2>3, <2>4, <2>5, <2>6, <2>7
  <2> HIDE DEF p, q, m
  <2>9. ShowsBlock(b)
      BY <1>3 DEF ShowsBlock
  <2>10. /\ BlockPayload(b) \in Nat /\ BlockChars(NormaliseBlock(b)) \in Nat
         /\ BlockPayload(b) <= BlockChars(NormaliseBlock(b))
    <3>1. p + q + m \in Nat /\ p + q + m <= p + q + m
        BY <2>8
    <3> QED
        BY <2>8, <3>1
  <2> QED
      BY <2>9, <2>10
<1>4. CASE b.kind = "quote"
  <2>1. ~ShowsBlock(b) => BlockPayload(b) = 0
      BY <1>4 DEF BlockPayload
  <2> SUFFICES ASSUME ShowsBlock(b)
               PROVE  /\ BlockPayload(b) \in Nat /\ BlockChars(NormaliseBlock(b)) \in Nat
                      /\ BlockPayload(b) <= BlockChars(NormaliseBlock(b))
      BY <2>1
  <2> DEFINE lines == NonEmpty(b.lines)
             c == [kind |-> "quote", callout |-> b.callout, title |-> OneLine(b.title), lines |-> lines]
  <2>2. b.title \in Texts /\ Len(b.lines) \in Nat /\ \A k \in 1..Len(b.lines) : b.lines[k] \in Texts
      BY <1>4 DEF TypedBlock
  <2>3. NormaliseBlock(b) = c
    <3>1. NormaliseBlock(b) = IF lines = <<>> THEN Nothing ELSE c
        BY <1>4 DEF NormaliseBlock, NormaliseQuote
    <3>2. lines # <<>>
        BY <1>4, <2>2, LinesShow DEF ShowsBlock
    <3> HIDE DEF lines, c
    <3> QED
        BY <3>1, <3>2
  <2>4. BlockChars(c) = OneLine(b.title).size + Sizes(lines)
    <3> HIDE DEF lines
    <3> QED
        BY DEF BlockChars
  <2>5. BlockPayload(b) = TextPayload(b.title) + TextsPayload(b.lines)
      BY <1>4 DEF BlockPayload
  <2>6. Sizes(lines) = TextsPayload(b.lines) /\ TextsPayload(b.lines) \in Nat
      BY <2>2, QuoteLinesWeigh, TextsWeigh
  <2>7. OneLine(b.title).size = TextPayload(b.title) /\ TextPayload(b.title) \in Nat
      BY <2>2, OneLineSize, TextPayloadIs
  <2> HIDE DEF lines, c
  <2> PICK p, q : p = TextPayload(b.title) /\ q = TextsPayload(b.lines)
      OBVIOUS
  <2>8. p \in Nat /\ q \in Nat /\ BlockPayload(b) = p + q /\ BlockChars(NormaliseBlock(b)) = p + q
      BY <2>3, <2>4, <2>5, <2>6, <2>7
  <2> QED
      BY <2>8
<1> QED
    BY <1>1, <1>2, <1>3, <1>4 DEF InStep

-----------------------------------------------------------------------------
(* What becomes of an item.                                                *)

Raw == List.items[index]

SameBullet(block, item) ==
    /\ block.kind = "bullet" <=> item.kind = "bullet"
    /\ block.kind = "bullet" => block.depth = item.depth

\* The item is refused.
Refused ==
    /\ Refuse
    /\ Sound(Raw) => Raw.kind = "bullet" /\ Shows(Raw) /\ ~DepthFits(Raw.depth)

\* It shows nothing and is dropped.
Dropped == Drop /\ Sound(Raw) /\ ~Shows(Raw) /\ Payload(Raw) = 0

\* The length of the block covers the payload of the item, unless that is the
\* text of a step.
Bears(block, item, field) ==
    /\ Chars(block) \in Nat /\ Payload(item) \in Nat
    /\ (item.kind = "string" /\ field = "steps") \/ Payload(item) <= Chars(block)

\* It shows something and is kept as block.
KeptAs(block) ==
    /\ Keep(block) /\ Sound(Raw) /\ Shows(Raw) /\ SameBullet(block, Raw)
    /\ Raw.kind = "bullet" => DepthFits(Raw.depth)
    /\ Bears(block, Raw, List.field)

Handled == Refused \/ Dropped \/ \E block : KeptAs(block)

LEMMA RawIsTyped ==
    ASSUME NestInv, index <= Len(List.items)
    PROVE  TypedItem(Raw)
<1>1. ChatExport(export) /\ at \in 1..Len(export.lists) /\ index \in Nat \ {0}
    BY ExportAssumption DEF NestInv, WalkInv
<1>2. FieldList(List)
    BY <1>1 DEF ChatExport, List
<1>3. Len(List.items) \in Nat
    BY <1>2 DEF FieldList
<1>4. index \in 1..Len(List.items)
    BY <1>1, <1>3
<1> PICK list, k : list = List /\ k = index
    OBVIOUS
<1>5. FieldList(list) /\ k \in 1..Len(list.items)
    BY <1>2, <1>4
<1>6. TypedItem(list.items[k])
    BY <1>5, ItemsAreTyped
<1> QED
    BY <1>6 DEF Raw

\* A bare string is a paragraph, or a step of one text.
LEMMA ItemIsRaw ==
    /\ Raw.kind # "string" => Item = Raw
    /\ Raw.kind = "string" /\ List.field # "steps" => Item = [kind |-> "paragraph", text |-> Raw.text]
    /\ Raw.kind = "string" /\ List.field = "steps" =>
         Item = [kind |-> "step", blocks |-> <<[kind |-> "text", text |-> Raw.text]>>]
BY DEF Raw, Item, CoerceStep, CoerceBodyItem

LEMMA KeepOrDropHandles ==
    ASSUME NEW block, KeepOrDrop(block), Sound(Raw), Raw.kind # "bullet",
           block # Nothing <=> Shows(Raw), block # Nothing => block.kind # "bullet",
           block = Nothing => Payload(Raw) = 0, block # Nothing => Bears(block, Raw, List.field)
    PROVE  Handled
<1>1. CASE block = Nothing
    BY <1>1 DEF KeepOrDrop, Handled, Dropped
<1>2. CASE block # Nothing
  <2>1. KeptAs(block)
      BY <1>2 DEF KeepOrDrop, KeptAs, SameBullet
  <2> QED
      BY <2>1 DEF Handled
<1> QED
    BY <1>1, <1>2

\* An item without rich blocks has no payload, and what it becomes no length.
LEMMA LightItems ==
    ASSUME NEW item, item.kind \in {"sentence", "bullet", "event", "heading", "definition"},
           NEW block, block.kind \in {"text", "bullet", "event", "heading", "definition"}
    PROVE  Payload(item) = 0 /\ \A field : Bears(block, item, field)
<1>1. Payload(item) = 0
    BY DEF Payload, BlockPayload
<1>2. Chars(block) = 0
    BY DEF Chars, BlockChars
<1> QED
    BY <1>1, <1>2 DEF Bears

\* A rich block of its own.
LEMMA RichItems ==
    ASSUME NEW item, TypedBlock(item), item.kind \in {"code", "table", "quote"}
    PROVE  /\ NormaliseBlock(item) = Nothing => Payload(item) = 0
           /\ NormaliseBlock(item) # Nothing => \A field : Bears(NormaliseBlock(item), item, field)
<1> PICK b : b = NormaliseBlock(item)
    OBVIOUS
<1>1. /\ b # Nothing <=> ShowsBlock(item)
      /\ b # Nothing => b.kind = item.kind
    BY BlockShows DEF InStep
<1>2. /\ ~ShowsBlock(item) => BlockPayload(item) = 0
      /\ ShowsBlock(item) => BlockPayload(item) \in Nat /\ BlockChars(b) \in Nat /\ BlockPayload(item) <= BlockChars(b)
    BY BlockWeighs DEF InStep
<1>3. Payload(item) = BlockPayload(item)
    BY DEF Payload
<1>4. b # Nothing => Chars(b) = BlockChars(b)
    BY <1>1 DEF Chars
<1> QED
    BY <1>1, <1>2, <1>3, <1>4 DEF Bears

LEMMA SentenceHandled == NestInv /\ Sentence => Handled
<1> SUFFICES ASSUME NestInv, Sentence PROVE Handled
    OBVIOUS
<1>1. Item.kind = "sentence" /\ TypedItem(Raw) /\ KeepOrDrop(NormaliseText(Item))
    BY RawIsTyped DEF Sentence, IsNext
<1>2. Item = Raw
    BY <1>1, ItemIsRaw
<1>3. Raw.kind = "sentence" /\ Raw.text \in Texts
    BY <1>1, <1>2 DEF TypedItem
<1> PICK raw : raw = Raw
    OBVIOUS
<1>4. Sound(raw) /\ (Shows(raw) <=> HasText(raw.text))
    BY <1>3 DEF Sound, Shows
<1>5. NormaliseText(raw) = IF OneLine(raw.text) = Blank THEN Nothing ELSE [kind |-> "text", text |-> OneLine(raw.text)]
    BY DEF NormaliseText
<1>6. OneLine(raw.text) = Blank <=> ~HasText(raw.text)
    BY <1>3, OneLineShows
<1>7. [kind |-> "text", text |-> OneLine(raw.text)] # Nothing
    BY NothingIsNoBlock DEF InStep
<1>8. /\ NormaliseText(raw) # Nothing <=> Shows(raw)
      /\ NormaliseText(raw) # Nothing => NormaliseText(raw).kind = "text"
    BY <1>4, <1>5, <1>6, <1>7
<1> PICK block, field : block = NormaliseText(raw) /\ field = List.field
    OBVIOUS
<1>9. Payload(raw) = 0
    BY <1>2, <1>3 DEF Payload, BlockPayload
<1>10. block # Nothing => Bears(block, raw, field)
    BY <1>3, <1>8, LightItems
<1> QED
    BY <1>1, <1>2, <1>3, <1>4, <1>8, <1>9, <1>10, KeepOrDropHandles

LEMMA ParagraphHandled == NestInv /\ Paragraph => Handled
<1> SUFFICES ASSUME NestInv, Paragraph PROVE Handled
    OBVIOUS
<1>1. Item.kind = "paragraph" /\ TypedItem(Raw) /\ KeepOrDrop(NormaliseParagraph(Item))
    BY RawIsTyped DEF Paragraph, IsNext
<1>2. Raw.kind \in {"paragraph", "string"} /\ Item.text = Raw.text
    BY <1>1, ItemIsRaw
<1>3. Raw.text \in Texts
    BY <1>1, <1>2 DEF TypedItem
<1> PICK raw, item : raw = Raw /\ item = Item
    OBVIOUS
<1>4. Sound(raw) /\ (Shows(raw) <=> HasText(raw.text))
    BY <1>2 DEF Sound, Shows
<1> DEFINE lines == CanonicaliseParagraph(raw.text)
<1>5. NormaliseParagraph(item) = IF lines = <<>> THEN Nothing ELSE [kind |-> "paragraph", lines |-> lines]
    BY <1>2 DEF NormaliseParagraph
<1>6. lines = <<>> <=> ~HasText(raw.text)
    BY <1>3, ParagraphShows
<1>7. [kind |-> "paragraph", lines |-> lines] # Nothing
    BY NothingIsNoBlock
<1> HIDE DEF lines
<1>8. /\ NormaliseParagraph(item) # Nothing <=> Shows(raw)
      /\ NormaliseParagraph(item) # Nothing => NormaliseParagraph(item) = [kind |-> "paragraph", lines |-> lines]
    BY <1>4, <1>5, <1>6, <1>7
<1> PICK block, field : block = NormaliseParagraph(item) /\ field = List.field
    OBVIOUS
<1>9. Payload(raw) = TextPayload(raw.text) /\ Payload(raw) \in Nat
    BY <1>2, <1>3, TextPayloadIs DEF Payload
<1>10. block = Nothing => Payload(raw) = 0
    BY <1>3, <1>4, <1>8, <1>9, TextPayloadIs
<1>11. ASSUME block # Nothing PROVE block.kind = "paragraph" /\ Bears(block, raw, field)
  <2>1. HasText(raw.text) /\ block.kind = "paragraph" /\ block.lines = lines
      BY <1>4, <1>8, <1>11
  <2>2. Chars(block) = ParagraphChars(lines)
      BY <2>1 DEF Chars, BlockChars
  <2>3. ParagraphChars(lines) \in Nat /\ TextPayload(raw.text) <= ParagraphChars(lines)
      BY <1>3, <2>1, ParagraphWeighs DEF lines
  <2> QED
      BY <1>9, <2>1, <2>2, <2>3 DEF Bears
<1> QED
    BY <1>1, <1>2, <1>4, <1>8, <1>10, <1>11, KeepOrDropHandles

LEMMA CodeHandled == NestInv /\ Code => Handled
<1> SUFFICES ASSUME NestInv, Code PROVE Handled
    OBVIOUS
<1>1. Item.kind = "code" /\ TypedItem(Raw) /\ KeepOrDrop(NormaliseCode(Item))
    BY RawIsTyped DEF Code, IsNext
<1>2. Item = Raw
    BY <1>1, ItemIsRaw
<1> PICK raw : raw = Raw
    OBVIOUS
<1>3. raw.kind = "code" /\ TypedBlock(raw)
    BY <1>1, <1>2 DEF TypedItem
<1>4. Sound(raw) /\ (Shows(raw) <=> ShowsBlock(raw))
    BY <1>3 DEF Sound, Shows
<1>5. NormaliseBlock(raw) = NormaliseCode(raw)
    BY <1>3 DEF NormaliseBlock
<1>6. /\ NormaliseCode(raw) # Nothing <=> Shows(raw)
      /\ NormaliseCode(raw) # Nothing => NormaliseCode(raw).kind # "bullet"
    BY <1>3, <1>4, <1>5, BlockShows DEF InStep
<1>7. /\ NormaliseCode(raw) = Nothing => Payload(raw) = 0
      /\ NormaliseCode(raw) # Nothing => Bears(NormaliseCode(raw), raw, List.field)
    BY <1>3, <1>5, RichItems
<1> QED
    BY <1>1, <1>2, <1>3, <1>4, <1>6, <1>7, KeepOrDropHandles

\* The code's checks of a block are those of the rules.
LEMMA BlockFaults ==
    ASSUME NEW b, TypedBlock(b)
    PROVE  BlockIsRefused(b) <=> Broken(b) \/ Headless(b)
<1>1. CASE b.kind = "table"
  <2>1. /\ Len(b.headers) \in Nat
        /\ \A k \in 1..Len(b.headers) : b.headers[k] \in Texts
      BY <1>1 DEF TypedBlock
  <2>2. \A k \in 1..Len(b.headers) : OneLine(b.headers[k]) = Blank <=> ~HasText(b.headers[k])
      BY <2>1, OneLineShows
  <2>3. ToSet(b.headers) = {b.headers[k] : k \in 1..Len(b.headers)}
      BY <2>1 DEF ToSet
  <2>4. ToSet(b.rows) = {b.rows[k] : k \in 1..Len(b.rows)}
      BY <1>1 DEF ToSet, TypedBlock
  <2>5. (\E h \in ToSet(b.headers) : OneLine(h) = Blank)
          <=> \E k \in 1..Len(b.headers) : ~HasText(b.headers[k])
      BY <2>2, <2>3
  <2>6. (\E row \in ToSet(b.rows) : Len(row) # Len(b.headers))
          <=> \E k \in 1..Len(b.rows) : Len(b.rows[k]) # Len(b.headers)
      BY <2>4
  <2> QED
      BY <1>1, <2>5, <2>6 DEF BlockIsRefused, TableIsRefused, Broken, Headless
<1>2. CASE b.kind # "table"
    BY <1>2 DEF BlockIsRefused, QuoteIsRefused, Broken, Headless
<1> QED
    BY <1>1, <1>2

LEMMA TableHandled == NestInv /\ Table => Handled
<1> SUFFICES ASSUME NestInv, Table PROVE Handled
    OBVIOUS
<1>1. Item.kind = "table"
    BY DEF Table, IsNext
<1>2. Item = Raw
    BY <1>1, ItemIsRaw
<1>3. Raw.kind = "table" /\ (Sound(Raw) <=> ~TableIsRefused(Raw)) /\ Shows(Raw)
  <2> PICK raw : raw = Raw
      OBVIOUS
  <2>1. TypedBlock(raw) /\ raw.kind = "table"
      BY <1>1, <1>2, RawIsTyped DEF Table, IsNext, TypedItem
  <2>2. TableIsRefused(raw) <=> BlockIsRefused(raw)
      BY <2>1 DEF BlockIsRefused
  <2>3. TableIsRefused(raw) <=> Broken(raw) \/ Headless(raw)
      BY <2>1, <2>2, BlockFaults
  <2> QED
      BY <2>1, <2>3 DEF Sound, Shows, ShowsBlock
<1>4. CASE TableIsRefused(Raw)
    BY <1>2, <1>3, <1>4 DEF Table, Handled, Refused
<1>5. CASE ~TableIsRefused(Raw)
  <2>1. NormaliseTable(Item).kind = "table"
      BY DEF NormaliseTable
  <2> PICK raw : raw = Raw
      OBVIOUS
  <2>3. TypedBlock(raw) /\ raw.kind = "table"
      BY <1>3, RawIsTyped DEF Table, IsNext, TypedItem
  <2>4. NormaliseBlock(raw) = NormaliseTable(raw) /\ NormaliseTable(raw) # Nothing
      BY <1>2, <2>1, <2>3, NothingIsNoBlock DEF NormaliseBlock, InStep
  <2>5. Bears(NormaliseTable(raw), raw, List.field)
      BY <2>3, <2>4, RichItems
  <2>2. KeptAs(NormaliseTable(Item))
      BY <1>2, <1>3, <1>5, <2>1, <2>5 DEF Table, KeptAs, SameBullet
  <2> QED
      BY <2>2 DEF Handled
<1> QED
    BY <1>4, <1>5

LEMMA QuoteHandled == NestInv /\ Quote => Handled
<1> SUFFICES ASSUME NestInv, Quote PROVE Handled
    OBVIOUS
<1>1. Item.kind = "quote" /\ TypedItem(Raw)
    BY RawIsTyped DEF Quote, IsNext
<1>2. Item = Raw
    BY <1>1, ItemIsRaw
<1> PICK raw : raw = Raw
    OBVIOUS
<1>3. raw.kind = "quote" /\ TypedBlock(raw)
    BY <1>1, <1>2 DEF TypedItem
<1>4. (Sound(raw) <=> ~QuoteIsRefused(raw)) /\ (Shows(raw) <=> ShowsBlock(raw))
    BY <1>3 DEF Sound, Shows, QuoteIsRefused, Broken, Headless
<1>5. NormaliseBlock(raw) = NormaliseQuote(raw)
    BY <1>3 DEF NormaliseBlock
<1>6. /\ NormaliseQuote(raw) # Nothing <=> Shows(raw)
      /\ NormaliseQuote(raw) # Nothing => NormaliseQuote(raw).kind # "bullet"
    BY <1>3, <1>4, <1>5, BlockShows DEF InStep
<1>7. CASE QuoteIsRefused(raw)
    BY <1>2, <1>4, <1>7 DEF Quote, Handled, Refused
<1>8. CASE ~QuoteIsRefused(raw)
  <2>1. /\ NormaliseQuote(raw) = Nothing => Payload(raw) = 0
        /\ NormaliseQuote(raw) # Nothing => Bears(NormaliseQuote(raw), raw, List.field)
      BY <1>3, <1>5, RichItems
  <2> QED
      BY <1>2, <1>3, <1>4, <1>6, <1>8, <2>1, KeepOrDropHandles DEF Quote
<1> QED
    BY <1>7, <1>8

LEMMA BulletHandled == NestInv /\ Bullet => Handled
<1> SUFFICES ASSUME NestInv, Bullet PROVE Handled
    OBVIOUS
<1>1. Item.kind = "bullet" /\ TypedItem(Raw)
    BY RawIsTyped DEF Bullet, IsNext
<1>2. Item = Raw
    BY <1>1, ItemIsRaw
<1> PICK raw : raw = Raw
    OBVIOUS
<1>3. raw.kind = "bullet" /\ raw.text \in Texts
    BY <1>1, <1>2 DEF TypedItem
<1>4. Sound(raw) /\ (Shows(raw) <=> HasText(raw.text))
    BY <1>3 DEF Sound, Shows
<1>5. OneLine(raw.text) = Blank <=> ~HasText(raw.text)
    BY <1>3, OneLineShows
<1> DEFINE block == [kind |-> "bullet", text |-> OneLine(raw.text), depth |-> raw.depth, checked |-> raw.checked]
<1>6. IF OneLine(raw.text) = Blank THEN Drop
      ELSE IF ~DepthFits(raw.depth) THEN Refuse ELSE Keep(block)
    BY <1>2 DEF Bullet
<1>7. SameBullet(block, raw) /\ block.kind = "bullet"
    BY <1>3 DEF SameBullet
<1> HIDE DEF block
<1>11. Payload(raw) = 0 /\ Bears(block, raw, List.field)
    BY <1>3, <1>7, LightItems
<1>8. CASE OneLine(raw.text) = Blank
    BY <1>4, <1>5, <1>6, <1>8, <1>11 DEF Handled, Dropped
<1>9. CASE OneLine(raw.text) # Blank /\ ~DepthFits(raw.depth)
    BY <1>3, <1>4, <1>5, <1>6, <1>9 DEF Handled, Refused
<1>10. CASE OneLine(raw.text) # Blank /\ DepthFits(raw.depth)
  <2>1. KeptAs(block)
      BY <1>4, <1>5, <1>6, <1>7, <1>10, <1>11 DEF KeptAs
  <2> QED
      BY <2>1 DEF Handled
<1> QED
    BY <1>8, <1>9, <1>10

LEMMA EntryHandled == NestInv /\ Entry => Handled
<1> SUFFICES ASSUME NestInv, Entry PROVE Handled
    OBVIOUS
<1>1. Item.kind \in {"event", "heading", "definition"} /\ TypedItem(Raw)
    BY RawIsTyped DEF Entry, IsNext
<1>2. Item = Raw
    BY <1>1, ItemIsRaw
<1> PICK raw : raw = Raw
    OBVIOUS
<1>3. raw.kind \in {"event", "heading", "definition"} /\ raw.text \in Texts /\ raw.label \in Texts
    BY <1>1, <1>2 DEF TypedItem
<1>4. /\ Sound(raw) <=> HasText(raw.text) /\ (raw.kind = "definition" => HasText(raw.label))
      /\ Shows(raw) <=> HasText(raw.text)
    BY <1>3 DEF Sound, Shows
<1>5. OneLine(raw.text) = Blank <=> ~HasText(raw.text)
    BY <1>3, OneLineShows
<1>6. OneLine(raw.label) = Blank <=> ~HasText(raw.label)
    BY <1>3, OneLineShows
<1> DEFINE block == [kind |-> raw.kind, label |-> OneLine(raw.label), text |-> OneLine(raw.text)]
           empty == OneLine(raw.text) = Blank \/ (raw.kind = "definition" /\ OneLine(raw.label) = Blank)
<1>7. IF empty THEN Refuse ELSE Keep(block)
    BY <1>2 DEF Entry
<1>8. SameBullet(block, raw) /\ block.kind = raw.kind
    BY <1>3 DEF SameBullet
<1>9. empty <=> ~Sound(raw)
    BY <1>3, <1>4, <1>5, <1>6
<1> HIDE DEF block, empty
<1>12. Bears(block, raw, List.field)
    BY <1>3, <1>8, LightItems
<1>10. CASE empty
    BY <1>7, <1>9, <1>10 DEF Handled, Refused
<1>11. CASE ~empty
  <2>1. KeptAs(block)
      BY <1>3, <1>4, <1>7, <1>8, <1>9, <1>11, <1>12 DEF KeptAs
  <2> QED
      BY <2>1 DEF Handled
<1> QED
    BY <1>10, <1>11

\* A bare string in steps is a step of one text.
LEMMA TextStep ==
    ASSUME NEW text \in Texts, NEW bs, bs = <<[kind |-> "text", text |-> text]>>
    PROVE  /\ Len(bs) \in Nat
           /\ \A k \in 1..Len(bs) : TypedBlock(bs[k]) /\ bs[k].kind \in InStep /\ ~BlockIsRefused(bs[k])
           /\ (\E k \in 1..Len(bs) : ShowsBlock(bs[k])) <=> HasText(text)
           /\ StepBlocks(bs) # <<>> => StepBlocks(bs)[1].kind = "text"
<1> DEFINE t == [kind |-> "text", text |-> text]
<1>1. Len(bs) = 1 /\ bs[1] = t
    OBVIOUS
<1>2. TypedBlock(t) /\ t.kind \in InStep /\ ~BlockIsRefused(t)
    BY DEF TypedBlock, InStep, BlockIsRefused
<1>3. ShowsBlock(t) <=> HasText(text)
    BY DEF ShowsBlock
<1>4. t.kind = "text"
    OBVIOUS
<1> HIDE DEF t
<1>5. \A k \in 1..Len(bs) : bs[k] = t
    BY <1>1
<1>6. /\ Len(bs) \in Nat
      /\ \A k \in 1..Len(bs) : TypedBlock(bs[k]) /\ bs[k].kind \in InStep /\ ~BlockIsRefused(bs[k])
    BY <1>1, <1>2, <1>5
<1>7. (\E k \in 1..Len(bs) : ShowsBlock(bs[k])) <=> HasText(text)
    BY <1>1, <1>3, <1>5
<1>8. ASSUME StepBlocks(bs) # <<>> PROVE StepBlocks(bs)[1].kind = "text"
  <2> DEFINE T == {k \in 1..1 : ShowsBlock(bs[k])}
             f == [k \in 1..Len(bs) |-> IF ShowsBlock(bs[k]) THEN <<bs[k]>> ELSE <<>>]
             g == [k \in 1..1 |-> IF k \in T THEN <<bs[k]>> ELSE <<>>]
  <2>1. f = g
      BY <1>1
  <2>2. Those(bs, ShowsBlock) = FlattenSeq(f)
      BY DEF Those
  <2>3. Picked(bs, 1, T) = FlattenSeq(g)
      BY DEF Picked
  <2>4. Those(bs, ShowsBlock) = Picked(bs, 1, T)
      BY <2>1, <2>2, <2>3
  <2>5. /\ StepBlocks(bs) = <<>> <=> Those(bs, ShowsBlock) = <<>>
        /\ StepBlocks(bs)[1].kind = Those(bs, ShowsBlock)[1].kind
      BY <1>6, <1>8, StepShows
  <2> PICK p : p = Picked(bs, 1, T)
      OBVIOUS
  <2> HIDE DEF T, f, g
  <2>6. p \in Seq({t}) /\ p # <<>>
    <3>1. \A k \in 1..1 : bs[k] \in {t}
        BY <1>1
    <3>2. p \in Seq({t})
        BY <3>1, PickedIsSequence
    <3> QED
        BY <1>8, <2>4, <2>5, <3>2
  <2>7. p[1] = t
      BY <2>6
  <2> QED
      BY <1>4, <2>4, <2>5, <2>7
<1> QED
    BY <1>6, <1>7, <1>8

\* The blocks of a step that are kept cover the payload of all of them.
LEMMA StepWeighs ==
    ASSUME NEW bs, NEW n \in Nat, n = Len(bs),
           \A k \in 1..n : TypedBlock(bs[k]) /\ bs[k].kind \in InStep
    PROVE  /\ SumOf(BlockPayload, bs) \in Nat /\ SumOf(BlockChars, StepBlocks(bs)) \in Nat
           /\ SumOf(BlockPayload, bs) <= SumOf(BlockChars, StepBlocks(bs))
           /\ StepBlocks(bs) = <<>> => SumOf(BlockPayload, bs) = 0
<1> DEFINE s == [k \in 1..n |-> NormaliseBlock(bs[k])]
           T == {k \in 1..n : ShowsBlock(bs[k])}
           w == [k \in 1..n |-> IF ShowsBlock(bs[k]) THEN BlockChars(s[k]) ELSE 0]
           v == [k \in 1..n |-> IF k \in T THEN w[k] ELSE 0]
           f == [k \in 1..n |-> BlockPayload(bs[k])]
<1>1. \A k \in 1..n : (s[k] # Nothing <=> k \in T)
    BY BlockShows
<1>2. StepBlocks(bs) = Picked(s, n, T)
  <2> DEFINE d == [k \in 1..Len(s) |-> IF s[k] # Nothing THEN <<s[k]>> ELSE <<>>]
             g == [k \in 1..n |-> IF k \in T THEN <<s[k]>> ELSE <<>>]
  <2>1. Len(s) = n
      OBVIOUS
  <2>2. d = g
      BY <1>1, <2>1
  <2>3. StepBlocks(bs) = FlattenSeq(d)
      BY DEF StepBlocks, Those
  <2>4. Picked(s, n, T) = FlattenSeq(g)
      BY DEF Picked
  <2> QED
      BY <2>2, <2>3, <2>4
<1>3. \A k \in 1..n : w[k] \in Nat /\ f[k] \in Nat /\ f[k] <= w[k]
  <2> SUFFICES ASSUME NEW k \in 1..n PROVE w[k] \in Nat /\ f[k] \in Nat /\ f[k] <= w[k]
      OBVIOUS
  <2> PICK b, x : b = bs[k] /\ x = w[k]
      OBVIOUS
  <2>1. TypedBlock(b) /\ b.kind \in InStep /\ f[k] = BlockPayload(b)
        /\ x = IF ShowsBlock(b) THEN BlockChars(NormaliseBlock(b)) ELSE 0
      OBVIOUS
  <2>2. /\ ~ShowsBlock(b) => BlockPayload(b) = 0
        /\ ShowsBlock(b) =>
             /\ BlockPayload(b) \in Nat /\ BlockChars(NormaliseBlock(b)) \in Nat
             /\ BlockPayload(b) <= BlockChars(NormaliseBlock(b))
      BY <2>1, BlockWeighs
  <2> HIDE DEF f, w
  <2>3. x \in Nat /\ BlockPayload(b) \in Nat /\ BlockPayload(b) <= x
    <3>1. CASE ShowsBlock(b)
        BY <2>1, <2>2, <3>1
    <3>2. CASE ~ShowsBlock(b)
        BY <2>1, <2>2, <3>2
    <3> QED
        BY <3>1, <3>2
  <2> QED
      BY <2>1, <2>3
<1>4. v = w
    OBVIOUS
<1> PICK p : p = Picked(s, n, T)
    OBVIOUS
<1> DEFINE z == [j \in 1..Len(p) |-> BlockChars(p[j])]
<1>5. SumOf(BlockChars, p) = Total(z) /\ SumOf(BlockPayload, bs) = Total(f)
    BY DEF SumOf
<1>6. \A j \in 1..Len(p) : \A k \in T \intersect 1..n : p[j] = s[k] => z[j] = w[k]
    OBVIOUS
<1>7. DOMAIN z = 1..Len(p) /\ z = [j \in 1..Len(p) |-> z[j]]
    OBVIOUS
<1>8. f \in [1..n -> Nat] /\ w \in [1..n -> Nat]
    BY <1>3
<1>9. (\A k \in 1..n : k \notin T) => f \in [1..n -> {0}]
  <2> SUFFICES ASSUME \A k \in 1..n : k \notin T, NEW k \in 1..n PROVE f[k] = 0
      OBVIOUS
  <2> PICK b : b = bs[k]
      OBVIOUS
  <2>1. TypedBlock(b) /\ b.kind \in InStep /\ ~ShowsBlock(b) /\ f[k] = BlockPayload(b)
      OBVIOUS
  <2>2. BlockPayload(b) = 0
      BY <2>1, BlockWeighs
  <2> QED
      BY <2>1, <2>2
<1> HIDE DEF s, T, w, z, f
<1>10. Total(z) = Total(v)
    BY <1>3, <1>6, <1>7, TotalOfPicked
<1> HIDE DEF v
<1>11. Total(f) \in Nat /\ Total(w) \in Nat /\ Total(f) <= Total(w)
    BY <1>3, <1>8, TotalGrows, TotalIsNumber
<1>12. p = <<>> => Total(f) = 0
  <2>1. p = <<>> <=> \A k \in 1..n : k \notin T
      BY PickedEmpty
  <2> QED
      BY <1>9, <2>1, TotalOfZeros
<1> QED
    BY <1>2, <1>4, <1>5, <1>10, <1>11, <1>12

LEMMA StepHandled == NestInv /\ Step => Handled
<1> SUFFICES ASSUME NestInv, Step PROVE Handled
    OBVIOUS
<1>1. Item.kind = "step" /\ TypedItem(Raw)
    BY RawIsTyped DEF Step, IsNext
<1> PICK raw, bs : raw = Raw /\ bs = Item.blocks
    OBVIOUS
<1> DEFINE block == [kind |-> "step", blocks |-> StepBlocks(bs)]
           wrong == \E k \in 1..Len(bs) : BlockIsRefused(bs[k])
<1>2. IF wrong THEN Refuse
      ELSE IF StepBlocks(bs) = <<>> THEN Drop
      ELSE IF StepBlocks(bs)[1].kind # "text" THEN Refuse
      ELSE Keep(block)
    BY DEF Step, StepBlocks
<1>3. /\ Sound(raw) <=> ~wrong /\ (StepBlocks(bs) # <<>> => StepBlocks(bs)[1].kind = "text")
      /\ Shows(raw) <=> StepBlocks(bs) # <<>>
      /\ raw.kind # "bullet"
  <2>1. CASE raw.kind = "string"
    <3>1. raw.text \in Texts /\ bs = <<[kind |-> "text", text |-> raw.text]>>
        BY <1>1, <2>1, ItemIsRaw DEF TypedItem
    <3>2. Sound(raw) /\ (Shows(raw) <=> HasText(raw.text))
        BY <2>1 DEF Sound, Shows
    <3> PICK text : text = raw.text
        OBVIOUS
    <3>3. /\ Len(bs) \in Nat
          /\ \A k \in 1..Len(bs) : TypedBlock(bs[k]) /\ bs[k].kind \in InStep /\ ~BlockIsRefused(bs[k])
          /\ (\E k \in 1..Len(bs) : ShowsBlock(bs[k])) <=> HasText(text)
          /\ StepBlocks(bs) # <<>> => StepBlocks(bs)[1].kind = "text"
        BY <3>1, TextStep
    <3>4. StepBlocks(bs) = <<>> <=> ~\E k \in 1..Len(bs) : ShowsBlock(bs[k])
        BY <3>3, StepShows
    <3> QED
        BY <2>1, <3>2, <3>3, <3>4
  <2>2. CASE raw.kind # "string"
    <3>1. raw.kind = "step" /\ bs = raw.blocks
        BY <1>1, <2>2, ItemIsRaw
    <3>2. Len(bs) \in Nat /\ \A k \in 1..Len(bs) : TypedBlock(bs[k]) /\ bs[k].kind \in InStep
        BY <1>1, <3>1 DEF TypedItem, InStep
    <3>3. /\ StepBlocks(bs) = <<>> <=> Those(bs, ShowsBlock) = <<>>
          /\ StepBlocks(bs) = <<>> <=> ~\E k \in 1..Len(bs) : ShowsBlock(bs[k])
          /\ StepBlocks(bs) # <<>> => StepBlocks(bs)[1].kind = Those(bs, ShowsBlock)[1].kind
        BY <3>2, StepShows
    <3>4. Shows(raw) <=> \E k \in 1..Len(bs) : ShowsBlock(bs[k])
        BY <3>1 DEF Shows
    <3> DEFINE shown == Those(bs, ShowsBlock)
    <3>7. wrong <=> \E k \in 1..Len(bs) : Broken(bs[k]) \/ Headless(bs[k])
        BY <3>2, BlockFaults
    <3>5. Sound(raw) <=> ~wrong /\ (shown # <<>> => shown[1].kind = "text")
        BY <3>1, <3>7 DEF Sound
    <3> HIDE DEF shown
    <3>6. /\ StepBlocks(bs) = <<>> <=> shown = <<>>
          /\ StepBlocks(bs) # <<>> => StepBlocks(bs)[1].kind = shown[1].kind
        BY <3>3 DEF shown
    <3> HIDE DEF wrong
    <3> QED
        BY <3>1, <3>3, <3>4, <3>5, <3>6
  <2> QED
      BY <2>1, <2>2
<1>4. SameBullet(block, raw)
    BY <1>3 DEF SameBullet
<1>8. (StepBlocks(bs) = <<>> => Payload(raw) = 0) /\ Bears(block, raw, List.field)
  <2>1. Chars(block) = SumOf(BlockChars, StepBlocks(bs))
      BY DEF Chars
  <2>2. CASE raw.kind = "string"
    <3> PICK text : text = raw.text
        OBVIOUS
    <3>1. text \in Texts /\ bs = <<[kind |-> "text", text |-> text]>> /\ List.field = "steps"
        BY <1>1, <2>2, ItemIsRaw DEF TypedItem
    <3>2. Len(bs) \in Nat /\ \A k \in 1..Len(bs) : TypedBlock(bs[k]) /\ bs[k].kind \in InStep
        BY <3>1, TextStep
    <3>3. SumOf(BlockChars, StepBlocks(bs)) \in Nat
        BY <3>2, StepWeighs
    <3>4. Payload(raw) = TextPayload(text) /\ (Shows(raw) <=> HasText(text))
        BY <2>2 DEF Payload, Shows
    <3>5. TextPayload(text) \in Nat /\ (~HasText(text) => TextPayload(text) = 0)
        BY <3>1, TextPayloadIs
    <3> HIDE DEF block
    <3> QED
        BY <1>3, <2>1, <2>2, <3>1, <3>3, <3>4, <3>5 DEF Bears
  <2>3. CASE raw.kind # "string"
    <3>1. raw.kind = "step" /\ bs = raw.blocks
        BY <1>1, <2>3, ItemIsRaw
    <3>2. Len(bs) \in Nat /\ \A k \in 1..Len(bs) : TypedBlock(bs[k]) /\ bs[k].kind \in InStep
        BY <1>1, <3>1 DEF TypedItem, InStep
    <3>3. Payload(raw) = SumOf(BlockPayload, bs)
        BY <3>1 DEF Payload
    <3>4. /\ SumOf(BlockPayload, bs) \in Nat /\ SumOf(BlockChars, StepBlocks(bs)) \in Nat
          /\ SumOf(BlockPayload, bs) <= SumOf(BlockChars, StepBlocks(bs))
          /\ StepBlocks(bs) = <<>> => SumOf(BlockPayload, bs) = 0
        BY <3>2, StepWeighs
    <3> HIDE DEF block
    <3> QED
        BY <2>1, <3>3, <3>4 DEF Bears
  <2> QED
      BY <2>2, <2>3
<1> HIDE DEF wrong, block
<1>5. CASE wrong \/ (StepBlocks(bs) # <<>> /\ StepBlocks(bs)[1].kind # "text")
    BY <1>2, <1>3, <1>5 DEF Handled, Refused
<1>6. CASE ~wrong /\ StepBlocks(bs) = <<>>
    BY <1>2, <1>3, <1>6, <1>8 DEF Handled, Dropped
<1>7. CASE ~wrong /\ StepBlocks(bs) # <<>> /\ StepBlocks(bs)[1].kind = "text"
  <2>1. KeptAs(block)
      BY <1>2, <1>3, <1>4, <1>7, <1>8 DEF KeptAs
  <2> QED
      BY <2>1 DEF Handled
<1> QED
    BY <1>5, <1>6, <1>7

\* Each item is refused for a cause, dropped because it shows nothing, or kept.
ItemStep == Sentence \/ Paragraph \/ Bullet \/ Code \/ Table \/ Quote \/ Step \/ Entry

LEMMA ItemsAreHandled == NestInv /\ ItemStep => Handled /\ pc = "items" /\ index <= Len(List.items)
<1>1. ItemStep => pc = "items" /\ index <= Len(List.items)
    BY DEF ItemStep, Sentence, Paragraph, Bullet, Code, Table, Quote, Step, Entry, IsNext
<1> QED
    BY <1>1, SentenceHandled, ParagraphHandled, BulletHandled, CodeHandled, TableHandled, QuoteHandled,
       StepHandled, EntryHandled DEF ItemStep

-----------------------------------------------------------------------------
(* Nesting, of what is kept and of the items it was made from.             *)

\* Block by block, the bullets of one are those of the other.
Mirrors(blocks, items) ==
    /\ Len(blocks) = Len(items)
    /\ \A k \in 1..Len(blocks) : SameBullet(blocks[k], items[k])

LEMMA MirrorsNest ==
    ASSUME NEW p, NEW q, Mirrors(p, q), Nests(p)
    PROVE  Nests(q)
<1> SUFFICES ASSUME NEW k \in 1..Len(q), q[k].kind = "bullet", NEW d \in 0..q[k].depth - 1
             PROVE  \E j \in 1..k - 1 :
                       /\ q[j].kind = "bullet" /\ q[j].depth = d
                       /\ \A m \in j + 1..k : q[m].kind = "bullet" /\ q[m].depth > d
    BY DEF Nests
<1> PICK n : n = Len(q)
    OBVIOUS
<1>1. \A m \in 1..n : (p[m].kind = "bullet" <=> q[m].kind = "bullet") /\ (p[m].kind = "bullet" => p[m].depth = q[m].depth)
    BY DEF Mirrors, SameBullet
<1>2. k \in 1..n /\ n = Len(p) /\ p[k].kind = "bullet" /\ p[k].depth = q[k].depth
    BY <1>1 DEF Mirrors
<1>3. PICK j \in 1..k - 1 :
         /\ p[j].kind = "bullet" /\ p[j].depth = d
         /\ \A m \in j + 1..k : p[m].kind = "bullet" /\ p[m].depth > d
    BY <1>2 DEF Nests
<1> QED
    BY <1>1, <1>2, <1>3

LEMMA BeginningsNest ==
    ASSUME NEW p, NEW q, Len(p) \in Nat, Len(q) \in Nat, Begins(p, q), Nests(q)
    PROVE  Nests(p)
<1> SUFFICES ASSUME NEW k \in 1..Len(p), p[k].kind = "bullet", NEW d \in 0..p[k].depth - 1
             PROVE  \E j \in 1..k - 1 :
                       /\ p[j].kind = "bullet" /\ p[j].depth = d
                       /\ \A m \in j + 1..k : p[m].kind = "bullet" /\ p[m].depth > d
    BY DEF Nests
<1> PICK n : n = Len(p)
    OBVIOUS
<1>1. \A m \in 1..n : q[m] = p[m]
    BY DEF Begins
<1>2. k \in 1..n /\ k \in 1..Len(q) /\ q[k] = p[k]
    BY <1>1 DEF Begins
<1>3. PICK j \in 1..k - 1 :
         /\ q[j].kind = "bullet" /\ q[j].depth = d
         /\ \A m \in j + 1..k : q[m].kind = "bullet" /\ q[m].depth > d
    BY <1>2 DEF Nests
<1>4. j \in 1..n /\ \A m \in j + 1..k : m \in 1..n
    BY <1>2
<1> QED
    BY <1>1, <1>3, <1>4

\* A bullet that does not fit below what is kept does not nest below the items
\* that were kept either.
LEMMA MisfitDoesNotNest ==
    ASSUME NEW R, NEW blocks \in Seq(R), Depths(blocks), NEW S, NEW items \in Seq(S), Mirrors(blocks, items),
           NEW raw \in S, raw.kind = "bullet", raw.depth \in Nat,
           ~(IF Ending(blocks) = None THEN raw.depth = 0 ELSE raw.depth <= Ending(blocks) + 1)
    PROVE  ~Nests(Append(items, raw))
<1> SUFFICES ASSUME Nests(Append(items, raw)) PROVE FALSE
    OBVIOUS
<1> PICK n, new, depth, last :
       n = Len(items) /\ new = Append(items, raw) /\ depth = raw.depth /\ last = Ending(blocks)
    OBVIOUS
<1>1. n \in Nat /\ Len(new) = n + 1 /\ new[n + 1] = raw /\ \A k \in 1..n : new[k] = items[k]
    OBVIOUS
<1>2. Len(blocks) = n /\ \A k \in 1..n : SameBullet(blocks[k], items[k])
    BY DEF Mirrors
<1>3. ASSUME NEW d \in 0..depth - 1
      PROVE  n # 0 /\ new[n].kind = "bullet" /\ new[n].depth >= d
  <2>1. n + 1 \in 1..Len(new) /\ new[n + 1].kind = "bullet" /\ d \in 0..new[n + 1].depth - 1
      BY <1>1
  <2>2. PICK j \in 1..(n + 1) - 1 :
           /\ new[j].kind = "bullet" /\ new[j].depth = d
           /\ \A m \in j + 1..n + 1 : new[m].kind = "bullet" /\ new[m].depth > d
      BY <2>1 DEF Nests
  <2>3. j \in 1..n /\ n # 0
      BY <1>1
  <2>4. CASE j = n
      BY <2>2, <2>3, <2>4
  <2>5. CASE j # n
    <3>1. n \in j + 1..n + 1
        BY <1>1, <2>3, <2>5
    <3>2. new[n].kind = "bullet" /\ new[n].depth > d
        BY <2>2, <3>1
    <3>3. new[n].depth \in Nat
      <4>1. n \in 1..n /\ n = Len(blocks)
          BY <1>1, <1>2, <2>3
      <4>2. blocks[n].kind = "bullet" /\ blocks[n].depth = new[n].depth
          BY <1>1, <1>2, <3>2, <4>1 DEF SameBullet
      <4> QED
          BY <4>1, <4>2 DEF Depths
    <3> QED
        BY <2>3, <3>2, <3>3
  <2> QED
      BY <2>4, <2>5
<1>4. ASSUME n # 0, new[n].kind = "bullet"
      PROVE  blocks # <<>> /\ last = new[n].depth /\ last \in Nat
  <2>1. n \in 1..n /\ n = Len(blocks)
      BY <1>1, <1>2, <1>4
  <2>2. new[n] = items[n] /\ SameBullet(blocks[n], items[n])
      BY <1>1, <1>2, <2>1
  <2>3. blocks[n].kind = "bullet" /\ blocks[n].depth = new[n].depth
      BY <1>4, <2>2 DEF SameBullet
  <2>4. blocks[n].depth \in Nat
      BY <2>1, <2>3 DEF Depths
  <2>5. blocks # <<>>
    <3>1. Len(<<>>) = 0
        OBVIOUS
    <3> QED
        BY <1>4, <2>1, <3>1
  <2> QED
      BY <2>1, <2>3, <2>4, <2>5 DEF Ending
<1>5. depth \in Nat /\ ~(IF last = None THEN depth = 0 ELSE depth <= last + 1)
    OBVIOUS
<1>6. CASE last = None
  <2>1. 0 \in 0..depth - 1
      BY <1>5, <1>6
  <2>2. last \in Nat
      BY <1>3, <1>4, <2>1
  <2> QED
      BY <1>6, <2>2 DEF None
<1>7. CASE last # None
  <2>1. blocks # <<>> /\ blocks[Len(blocks)].kind = "bullet" /\ last = blocks[Len(blocks)].depth
      BY <1>7 DEF Ending
  <2>2. last \in Nat
    <3>1. Len(blocks) \in 1..Len(blocks)
        BY <2>1
    <3> QED
        BY <2>1, <3>1 DEF Depths
  <2>3. depth > last + 1 /\ last + 1 \in 0..depth - 1
      BY <1>5, <1>7, <2>2
  <2>4. n # 0 /\ new[n].kind = "bullet" /\ new[n].depth >= last + 1
      BY <1>3, <2>3
  <2>5. last = new[n].depth
      BY <1>4, <2>4
  <2> QED
      BY <2>2, <2>4, <2>5
<1> QED
    BY <1>6, <1>7

-----------------------------------------------------------------------------
(* Refusals have a cause.                                                  *)

\* Of the first n items of a list, those that show something.
ShownPlaces(items) == {k \in 1..Len(items) : Shows(items[k])}
Shown(items, n) == Picked(items, n, ShownPlaces(items))

\* How many items of list i have been looked at.
Done(i) == IF i = at /\ pc = "items" THEN index - 1 ELSE Len(export.lists[i].items)

\* The length of what is kept of a list covers the payload of its items so far.
Covered(list, blocks, n) ==
    /\ \A k \in 1..n : Weight(list.field, list.items[k]) \in Nat
    /\ \A k \in 1..Len(blocks) : Chars(blocks[k]) \in Nat
    /\ Total([k \in 1..n |-> Weight(list.field, list.items[k])]) <= SumOf(Chars, blocks)

\* What is kept of a list are its items that show something, and none of those
\* looked at is a cause to refuse the export.
Looked(list, blocks, n) ==
    /\ \A k \in 1..n : Sound(list.items[k])
    /\ Mirrors(blocks, Shown(list.items, n))
    /\ Covered(list, blocks, n)

\* A summary without a sentence was refused at the end of its list.
SummaryInv(i) ==
    export.lists[i].field = "tldr" /\ (i # at \/ pc # "items") => kept[i] # <<>>

\* The walk and the checks, each of which leaves a cause behind if it refuses.
SoFarInv ==
    /\ \A i \in 1..at : Looked(export.lists[i], kept[i], Done(i)) /\ SummaryInv(i)
    /\ pc # "items" => at = Len(export.lists)

FieldsInv ==
    pc \in {"required", "accepted"} => \A f \in ModeFields : Allowed(f) \/ Blocks(f) = <<>>

RequiredInv ==
    pc = "accepted" =>
        LET group == ModeRequired[export.mode] IN
        group = {} \/ ~\A f \in group : Blocks(f) = <<>>

BudgetInv == pc \in {"fields", "required", "accepted"} => ~(TotalBlockChars > MaxTotalBlockChars)

CauseInv ==
    /\ pc # "refused" => SoFarInv /\ FieldsInv /\ RequiredInv /\ BudgetInv
    /\ pc = "refused" => ~Valid(export) \/ TotalBlockChars > MaxTotalBlockChars

-----------------------------------------------------------------------------
(* One item more.                                                          *)

LEMMA ThoseShown ==
    ASSUME NEW items
    PROVE  Those(items, Shows) = Shown(items, Len(items))
<1> DEFINE n == Len(items)
           f == [k \in 1..n |-> IF Shows(items[k]) THEN <<items[k]>> ELSE <<>>]
           g == [k \in 1..n |-> IF k \in ShownPlaces(items) THEN <<items[k]>> ELSE <<>>]
<1>1. f = g
    BY DEF ShownPlaces
<1>2. Those(items, Shows) = FlattenSeq(f)
    BY DEF Those
<1>3. Shown(items, n) = FlattenSeq(g)
    BY DEF Shown, Picked
<1> QED
    BY <1>1, <1>2, <1>3

LEMMA ShownStep ==
    ASSUME NEW items, Len(items) \in Nat, NEW n \in Nat, n < Len(items)
    PROVE  /\ \E S : /\ Shown(items, n) \in Seq(S) /\ items[n + 1] \in S
           /\ Shown(items, n + 1) =
                IF Shows(items[n + 1]) THEN Append(Shown(items, n), items[n + 1]) ELSE Shown(items, n)
<1> DEFINE S == {items[k] : k \in 1..Len(items)}
           T == ShownPlaces(items)
<1>1. \A k \in 1..Len(items) : items[k] \in S
    OBVIOUS
<1>2. n + 1 \in 1..Len(items) /\ \A k \in 1..n : k \in 1..Len(items)
    OBVIOUS
<1>3. n + 1 \in T <=> Shows(items[n + 1])
    BY <1>2 DEF ShownPlaces
<1> HIDE DEF S, T
<1>4. items[n + 1] \in S /\ \A k \in 1..n : items[k] \in S
    BY <1>1, <1>2
<1>5. Picked(items, n, T) \in Seq(S)
    BY <1>4, PickedIsSequence
<1>6. Picked(items, n + 1, T) =
        IF n + 1 \in T THEN Append(Picked(items, n, T), items[n + 1]) ELSE Picked(items, n, T)
    BY <1>4, <1>5, PickedStep
<1> QED
    BY <1>3, <1>4, <1>5, <1>6 DEF Shown, T

LEMMA LookedNone == ASSUME NEW list PROVE Looked(list, <<>>, 0)
<1>1. Shown(list.items, 0) = <<>>
    BY PickedNone DEF Shown
<1>2. Mirrors(<<>>, <<>>)
    BY EmptySeq DEF Mirrors
<1>3. Covered(list, <<>>, 0)
  <2> DEFINE f == [k \in 1..0 |-> Weight(list.field, list.items[k])]
             g == [k \in 1..Len(<<>>) |-> Chars((<<>>)[k])]
  <2>1. f = <<>> /\ g = <<>> /\ Len(<<>>) = 0
      BY EmptySeq
  <2>2. SumOf(Chars, <<>>) = Total(g)
      BY DEF SumOf
  <2> HIDE DEF f, g
  <2>3. Total(f) <= SumOf(Chars, <<>>)
      BY <2>1, <2>2, TotalNone
  <2> QED
      BY <2>1, <2>3 DEF Covered, f
<1> QED
    BY <1>1, <1>2, <1>3 DEF Looked

\* The sums of one more item, and of one more block.
LEMMA WeightStep ==
    ASSUME NEW list, NEW n \in Nat, \A k \in 1..n : Weight(list.field, list.items[k]) \in Nat,
           Weight(list.field, list.items[n + 1]) \in Nat
    PROVE  /\ \A k \in 1..n + 1 : Weight(list.field, list.items[k]) \in Nat
           /\ Total([k \in 1..n |-> Weight(list.field, list.items[k])]) \in Nat
           /\ Total([k \in 1..(n + 1) |-> Weight(list.field, list.items[k])]) =
                Total([k \in 1..n |-> Weight(list.field, list.items[k])]) + Weight(list.field, list.items[n + 1])
<1> DEFINE f == [k \in 1..(n + 1) |-> Weight(list.field, list.items[k])]
           g == [k \in 1..n |-> Weight(list.field, list.items[k])]
<1>1. \A k \in 1..n + 1 : Weight(list.field, list.items[k]) \in Nat
  <2>1. \A k \in 1..n + 1 : k = n + 1 \/ k \in 1..n
      OBVIOUS
  <2> QED
      BY <2>1
<1>2. Total(f) = Total([k \in 1..n |-> f[k]]) + f[n + 1]
    BY TotalOneMore
<1>3. [k \in 1..n |-> f[k]] = g /\ f[n + 1] = Weight(list.field, list.items[n + 1])
    OBVIOUS
<1>4. g \in [1..n -> Nat]
    OBVIOUS
<1> HIDE DEF f, g
<1>5. Total(g) \in Nat
    BY <1>4, TotalIsNumber
<1>6. Total(f) = Total(g) + Weight(list.field, list.items[n + 1])
    BY <1>2, <1>3
<1> QED
    BY <1>1, <1>5, <1>6 DEF f, g

LEMMA CharsStep ==
    ASSUME NEW R, NEW blocks \in Seq(R), \A k \in 1..Len(blocks) : Chars(blocks[k]) \in Nat,
           NEW block, Chars(block) \in Nat
    PROVE  /\ \A k \in 1..Len(Append(blocks, block)) : Chars(Append(blocks, block)[k]) \in Nat
           /\ SumOf(Chars, blocks) \in Nat
           /\ SumOf(Chars, Append(blocks, block)) = SumOf(Chars, blocks) + Chars(block)
<1> PICK new, m : new = Append(blocks, block) /\ m = Len(blocks)
    OBVIOUS
<1>1. m \in Nat /\ Len(new) = m + 1 /\ new[m + 1] = block /\ \A k \in 1..m : new[k] = blocks[k]
  <2>1. blocks \in Seq(R \union {block}) /\ block \in R \union {block}
    <3>1. Seq(R) \subseteq Seq(R \union {block})
        OBVIOUS
    <3> QED
        BY <3>1
  <2> QED
      BY <2>1, AppendProperties, LenProperties
<1>2. \A k \in 1..m + 1 : Chars(new[k]) \in Nat
  <2>1. \A k \in 1..m + 1 : k = m + 1 \/ k \in 1..m
      BY <1>1
  <2> QED
      BY <1>1, <2>1
<1> DEFINE f == [k \in 1..(m + 1) |-> Chars(new[k])]
           g == [k \in 1..m |-> Chars(blocks[k])]
<1>3. SumOf(Chars, new) = Total(f) /\ SumOf(Chars, blocks) = Total(g)
    BY <1>1 DEF SumOf
<1>4. Total(f) = Total([k \in 1..m |-> f[k]]) + f[m + 1]
    BY <1>1, TotalOneMore
<1>5. [k \in 1..m |-> f[k]] = g /\ f[m + 1] = Chars(block) /\ g \in [1..m -> Nat]
    BY <1>1
<1> HIDE DEF f, g
<1>6. Total(g) \in Nat
    BY <1>1, <1>5, TotalIsNumber
<1> QED
    BY <1>1, <1>2, <1>3, <1>4, <1>5, <1>6

LEMMA BearsWeight ==
    ASSUME NEW block, NEW item, NEW field, Bears(block, item, field)
    PROVE  Chars(block) \in Nat /\ Weight(field, item) \in Nat /\ Weight(field, item) <= Chars(block)
<1>1. CASE Weight(field, item) = 0
    BY <1>1 DEF Bears
<1>2. CASE Weight(field, item) # 0
  <2>1. Weight(field, item) = Payload(item) /\ ~(item.kind = "string" /\ field = "steps")
      BY <1>2 DEF Weight
  <2> QED
      BY <2>1 DEF Bears
<1> QED
    BY <1>1, <1>2

LEMMA LookedDropped ==
    ASSUME NEW list, Len(list.items) \in Nat, NEW n \in Nat, n < Len(list.items), NEW blocks,
           Looked(list, blocks, n), Sound(list.items[n + 1]), ~Shows(list.items[n + 1]),
           Payload(list.items[n + 1]) = 0, NEW R, blocks \in Seq(R)
    PROVE  Looked(list, blocks, n + 1)
<1>1. Shown(list.items, n + 1) = Shown(list.items, n)
    BY ShownStep
<1>2. \A k \in 1..n + 1 : k = n + 1 \/ k \in 1..n
    OBVIOUS
<1>3. Covered(list, blocks, n + 1)
  <2>1. Weight(list.field, list.items[n + 1]) = 0
      BY DEF Weight
  <2>2. Covered(list, blocks, n)
      BY DEF Looked
  <2>3. /\ \A k \in 1..n + 1 : Weight(list.field, list.items[k]) \in Nat
        /\ Total([k \in 1..n |-> Weight(list.field, list.items[k])]) \in Nat
        /\ Total([k \in 1..(n + 1) |-> Weight(list.field, list.items[k])]) =
             Total([k \in 1..n |-> Weight(list.field, list.items[k])]) + Weight(list.field, list.items[n + 1])
    <3>1. \A k \in 1..n : Weight(list.field, list.items[k]) \in Nat
        BY <2>2 DEF Covered
    <3>2. Weight(list.field, list.items[n + 1]) \in Nat
        BY <2>1
    <3> QED
        BY <3>1, <3>2, WeightStep
  <2>4. Total([k \in 1..(n + 1) |-> Weight(list.field, list.items[k])]) =
             Total([k \in 1..n |-> Weight(list.field, list.items[k])])
      BY <2>1, <2>3
  <2> QED
      BY <2>2, <2>3, <2>4 DEF Covered
<1> QED
    BY <1>1, <1>2, <1>3 DEF Looked

LEMMA LookedKept ==
    ASSUME NEW list, Len(list.items) \in Nat, NEW n \in Nat, n < Len(list.items), NEW R, NEW blocks \in Seq(R),
           Looked(list, blocks, n), Sound(list.items[n + 1]), Shows(list.items[n + 1]),
           NEW block, SameBullet(block, list.items[n + 1]), Bears(block, list.items[n + 1], list.field)
    PROVE  Looked(list, Append(blocks, block), n + 1)
<1> PICK item, p, q : item = list.items[n + 1] /\ p = Shown(list.items, n) /\ q = Shown(list.items, n + 1)
    OBVIOUS
<1>1. PICK S : p \in Seq(S) /\ item \in S
    BY ShownStep
<1>2. q = Append(p, item)
    BY ShownStep
<1>3. \A k \in 1..n + 1 : k = n + 1 \/ k \in 1..n
    OBVIOUS
<1>4. Len(blocks) = Len(p) /\ \A k \in 1..Len(blocks) : SameBullet(blocks[k], p[k])
    BY DEF Looked, Mirrors
<1> PICK new, m : new = Append(blocks, block) /\ m = Len(blocks)
    OBVIOUS
<1>5. m \in Nat /\ Len(new) = m + 1 /\ new[m + 1] = block /\ \A k \in 1..m : new[k] = blocks[k]
  <2>1. blocks \in Seq(R \union {block}) /\ block \in R \union {block}
    <3>1. Seq(R) \subseteq Seq(R \union {block})
        OBVIOUS
    <3> QED
        BY <3>1
  <2> QED
      BY <2>1, AppendProperties, LenProperties
<1>6. Len(q) = m + 1 /\ q[m + 1] = item /\ \A k \in 1..m : q[k] = p[k]
  <2>1. m = Len(p)
      BY <1>4
  <2>2. Len(q) = Len(p) + 1 /\ q[Len(p) + 1] = item /\ \A k \in 1..Len(p) : q[k] = p[k]
    <3>1. p \in Seq(S) /\ item \in S
        BY <1>1
    <3>2. /\ Len(Append(p, item)) = Len(p) + 1 /\ Append(p, item)[Len(p) + 1] = item
          /\ \A k \in 1..Len(p) : Append(p, item)[k] = p[k]
        BY <3>1
    <3> QED
        BY <1>2, <3>2
  <2> QED
      BY <2>1, <2>2
<1>7. Mirrors(new, q)
  <2> SUFFICES ASSUME NEW k \in 1..m + 1 PROVE SameBullet(new[k], q[k])
      BY <1>5, <1>6 DEF Mirrors
  <2>1. CASE k = m + 1
      BY <1>5, <1>6, <2>1
  <2>2. CASE k \in 1..m
      BY <1>4, <1>5, <1>6, <2>2
  <2> QED
      BY <1>5, <2>1, <2>2
<1>8. \A k \in 1..n + 1 : Sound(list.items[k])
    BY <1>3 DEF Looked
<1>9. Covered(list, new, n + 1)
  <2> DEFINE old == Total([k \in 1..n |-> Weight(list.field, list.items[k])])
             all == Total([k \in 1..(n + 1) |-> Weight(list.field, list.items[k])])
             weight == Weight(list.field, list.items[n + 1])
             chars == SumOf(Chars, blocks)
             both == SumOf(Chars, new)
  <2>1. Covered(list, blocks, n)
      BY DEF Looked
  <2>2. Chars(block) \in Nat /\ weight \in Nat /\ weight <= Chars(block)
      BY BearsWeight
  <2>3. /\ \A k \in 1..n + 1 : Weight(list.field, list.items[k]) \in Nat
        /\ old \in Nat /\ all = old + weight
      BY <2>1, <2>2, WeightStep DEF Covered
  <2>4. /\ \A k \in 1..Len(new) : Chars(new[k]) \in Nat
        /\ chars \in Nat /\ both = chars + Chars(block)
      BY <2>1, <2>2, CharsStep DEF Covered
  <2>5. old <= chars
      BY <2>1 DEF Covered
  <2> HIDE DEF old, all, weight, chars, both
  <2>6. all <= both
    <3> PICK c : c = Chars(block)
        OBVIOUS
    <3> QED
        BY <2>2, <2>3, <2>4, <2>5
  <2> QED
      BY <2>3, <2>4, <2>6 DEF Covered, all, both
<1> QED
    BY <1>7, <1>8, <1>9 DEF Looked

-----------------------------------------------------------------------------
(* A list that has been looked at as a whole.                              *)

LEMMA LookedThrough ==
    ASSUME NEW list, Len(list.items) \in Nat, NEW R, NEW blocks \in Seq(R),
           Looked(list, blocks, Len(list.items))
    PROVE  /\ blocks = <<>> <=> ~\E k \in 1..Len(list.items) : Shows(list.items[k])
           /\ Nests(blocks) => Nests(Those(list.items, Shows))
<1> DEFINE n == Len(list.items)
           p == Shown(list.items, n)
           T == ShownPlaces(list.items)
<1>1. Mirrors(blocks, p)
    BY DEF Looked
<1>2. p = <<>> <=> \A k \in 1..n : k \notin T
  <2>1. p = Picked(list.items, n, T)
      BY DEF Shown
  <2> HIDE DEF p, T
  <2> QED
      BY <2>1, PickedEmpty
<1>3. \A k \in 1..n : k \in T <=> Shows(list.items[k])
    BY DEF ShownPlaces
<1>4. blocks = <<>> <=> p = <<>>
  <2> DEFINE S == {list.items[k] : k \in 1..n}
  <2>1. \A k \in 1..n : list.items[k] \in S
      OBVIOUS
  <2> HIDE DEF S, T
  <2>2. p \in Seq(S)
      BY <2>1, PickedIsSequence DEF Shown
  <2> HIDE DEF p
  <2>3. Len(blocks) = Len(p)
      BY <1>1 DEF Mirrors
  <2> QED
      BY <2>2, <2>3, EmptySeq
<1>5. Those(list.items, Shows) = p
    BY ThoseShown
<1>6. Nests(blocks) => Nests(p)
  <2> HIDE DEF p
  <2> QED
      BY <1>1, MirrorsNest
<1> HIDE DEF p, T
<1> QED
    BY <1>2, <1>3, <1>4, <1>5, <1>6

LEMMA LookedEmpty ==
    ASSUME NEW list, Len(list.items) \in Nat, NEW R, NEW blocks \in Seq(R),
           Looked(list, blocks, Len(list.items))
    PROVE  blocks = <<>> <=> ~\E k \in 1..Len(list.items) : Shows(list.items[k])
BY LookedThrough

-----------------------------------------------------------------------------
(* The invariant of causes is inductive.                                   *)

LEMMA ListsAreFinite ==
    ASSUME NestInv
    PROVE  /\ ChatExport(export) /\ Len(export.lists) \in Nat \ {0}
           /\ at \in 1..Len(export.lists) /\ Len(kept) = at /\ at \in Nat \ {0}
           /\ \A i \in 1..Len(export.lists) : FieldList(export.lists[i]) /\ Len(export.lists[i].items) \in Nat
<1>1. ChatExport(export) /\ at \in 1..Len(export.lists) /\ Len(kept) = at
    BY ExportAssumption DEF NestInv, WalkInv, RunInv
<1>2. Len(export.lists) \in Nat \ {0} /\ \A i \in 1..Len(export.lists) : FieldList(export.lists[i])
    BY <1>1 DEF ChatExport
<1> QED
    BY <1>1, <1>2 DEF FieldList

LEMMA KeptAreSequences ==
    ASSUME NestInv
    PROVE  \E S : \A i \in 1..at : kept[i] \in Seq(S)
<1>1. PICK S : kept \in Seq(Seq(S))
    BY DEF NestInv, RunInv
<1>2. Len(kept) = at
    BY DEF NestInv, RunInv
<1> QED
    BY <1>1, <1>2

\* Nothing changes but pc, and it was and is past the items.
LEMMA DoneStays ==
    ASSUME UNCHANGED <<export, at, index, previous, kept>>, pc # "items", pc' # "items", SoFarInv
    PROVE  SoFarInv'
<1>1. \A i : Done(i) = Len(export.lists[i].items) /\ Done(i)' = Done(i)
    BY DEF Done
<1>2. ASSUME NEW i \in 1..at
      PROVE  Looked(export'.lists[i], kept'[i], Done(i)') /\ SummaryInv(i)'
    BY <1>1, <1>2 DEF SoFarInv, SummaryInv
<1> QED
    BY <1>2 DEF SoFarInv

\* What is kept, and how long it is, does not change any more.
LEMMA ChecksKeepTheTotal ==
    ASSUME UNCHANGED <<export, at, index, previous, kept>>
    PROVE  TotalBlockChars' = TotalBlockChars
<1>1. kept' = kept
    OBVIOUS
<1> QED
    BY <1>1, Zenon DEF TotalBlockChars, SumOf

\* What a refusal leaves behind.
LEMMA RefusalRemains ==
    ASSUME Refuse, ~Valid(export) \/ TotalBlockChars > MaxTotalBlockChars
    PROVE  CauseInv'
<1>1. pc' = "refused" /\ export' = export /\ kept' = kept
    BY DEF Refuse
<1>2. TotalBlockChars' = TotalBlockChars
    BY ChecksKeepTheTotal DEF Refuse
<1>3. Valid(export)' <=> Valid(export)
    BY <1>1
<1> QED
    BY <1>1, <1>2, <1>3 DEF CauseInv

LEMMA RefusedHasCause ==
    ASSUME NestInv, TypeInv, CauseInv, pc = "items", index <= Len(List.items), Refused
    PROVE  ~Valid(export)
<1> SUFFICES ASSUME Valid(export) PROVE FALSE
    OBVIOUS
<1> PICK list, n, raw, blocks : list = List /\ n = index - 1 /\ raw = Raw /\ blocks = kept[at]
    OBVIOUS
<1>1. list = export.lists[at] /\ FieldList(list) /\ Len(list.items) \in Nat /\ at \in 1..Len(export.lists)
    BY ListsAreFinite DEF List
<1>2. n \in Nat /\ n < Len(list.items) /\ n + 1 = index /\ raw = list.items[n + 1] /\ n + 1 \in 1..Len(list.items)
    BY <1>1 DEF NestInv, WalkInv, Raw
<1>3. Sound(raw) /\ Nests(Those(list.items, Shows))
    BY <1>1, <1>2 DEF Valid
<1>4. raw.kind = "bullet" /\ Shows(raw) /\ ~DepthFits(raw.depth)
    BY <1>3 DEF Refused
<1>5. raw.depth \in Nat
  <2>1. raw.depth \in 0..MaxBulletDepth
      BY <1>1, <1>2, <1>4, SchemaBulletDepth
  <2> QED
      BY <2>1
<1>6. Done(at) = n /\ at \in 1..at
    BY <1>1, ListsAreFinite DEF Done
<1>7. Looked(list, blocks, n)
    BY <1>1, <1>6 DEF CauseInv, SoFarInv
<1>8. PICK S : Shown(list.items, n) \in Seq(S) /\ raw \in S
    BY <1>1, <1>2, ShownStep
<1>9. Shown(list.items, n + 1) = Append(Shown(list.items, n), raw)
    BY <1>1, <1>2, <1>4, ShownStep
<1>10. PICK R : blocks \in Seq(R)
    BY <1>6, KeptAreSequences
<1>11. Depths(blocks) /\ previous = Ending(blocks)
    BY <1>6, ListsAreFinite DEF NestInv, RunInv
<1>12. Mirrors(blocks, Shown(list.items, n))
    BY <1>7 DEF Looked
<1>13. ~Nests(Shown(list.items, n + 1))
    BY <1>4, <1>5, <1>8, <1>9, <1>10, <1>11, <1>12, MisfitDoesNotNest DEF DepthFits
<1> PICK p, q, T, N : p = Shown(list.items, n + 1) /\ q = Shown(list.items, Len(list.items))
                      /\ T = ShownPlaces(list.items) /\ N = Len(list.items)
    OBVIOUS
<1>14. Begins(p, q) /\ Len(p) \in Nat /\ Len(q) \in Nat
  <2> DEFINE I == {list.items[k] : k \in 1..N}
  <2>1. \A k \in 1..N : list.items[k] \in I
      OBVIOUS
  <2>2. N \in Nat /\ n + 1 \in Nat /\ n + 1 <= N /\ \A k \in 1..n + 1 : k \in 1..N
      BY <1>1, <1>2
  <2> HIDE DEF I
  <2>3. p = Picked(list.items, n + 1, T) /\ q = Picked(list.items, N, T)
      BY DEF Shown
  <2>4. p \in Seq(I) /\ q \in Seq(I)
      BY <2>1, <2>2, <2>3, PickedIsSequence
  <2>5. Begins(p, q)
      BY <2>1, <2>2, <2>3, PickedBegins
  <2> QED
      BY <2>4, <2>5, LenProperties
<1>15. Nests(q)
    BY <1>3, ThoseShown
<1> QED
    BY <1>13, <1>14, <1>15, BeginningsNest

LEMMA HandledCauses ==
    ASSUME NestInv, TypeInv, CauseInv, pc = "items", index <= Len(List.items), Handled
    PROVE  CauseInv'
<1>1. CASE Refused
    BY <1>1, RefusedHasCause, RefusalRemains DEF Refused
<1> PICK list, n, raw, blocks : list = List /\ n = index - 1 /\ raw = Raw /\ blocks = kept[at]
    OBVIOUS
<1>2. list = export.lists[at] /\ Len(list.items) \in Nat /\ at \in 1..Len(export.lists) /\ at \in 1..at
    BY ListsAreFinite DEF List
<1>3. n \in Nat /\ n < Len(list.items) /\ n + 1 = index /\ raw = list.items[n + 1]
    BY <1>2 DEF NestInv, WalkInv, Raw
<1>4. \A i \in 1..at : Looked(export.lists[i], kept[i], Done(i)) /\ SummaryInv(i)
    BY DEF CauseInv, SoFarInv
<1>5. Done(at) = n
    BY DEF Done
<1>6. Looked(list, blocks, n)
    BY <1>2, <1>4, <1>5
<1>7. ASSUME index' = index + 1, UNCHANGED <<export, pc, at>>,
             Looked(list, kept'[at], n + 1), \A i \in 1..at : i # at => kept'[i] = kept[i]
      PROVE  CauseInv'
  <2>1. Done(at)' = n + 1 /\ \A i \in 1..at : i # at => Done(i)' = Done(i)
      BY <1>3, <1>7 DEF Done
  <2>2. ASSUME NEW i \in 1..at PROVE Looked(export'.lists[i], kept'[i], Done(i)') /\ SummaryInv(i)'
    <3>1. CASE i = at
        BY <1>2, <1>7, <2>1, <3>1 DEF SummaryInv
    <3>2. CASE i # at
        BY <1>4, <1>7, <2>1, <3>2 DEF SummaryInv
    <3> QED
        BY <3>1, <3>2
  <2>3. SoFarInv'
      BY <1>7, <2>2 DEF SoFarInv
  <2> QED
      BY <1>7, <2>3 DEF CauseInv, FieldsInv, RequiredInv, BudgetInv
<1>8. CASE Dropped
  <2>0. PICK R : blocks \in Seq(R)
      BY <1>2, KeptAreSequences
  <2>1. Looked(list, blocks, n + 1)
      BY <1>2, <1>3, <1>6, <1>8, <2>0, LookedDropped DEF Dropped
  <2> QED
      BY <1>7, <1>8, <2>1 DEF Dropped, Drop
<1>9. ASSUME NEW block, KeptAs(block) PROVE CauseInv'
  <2>1. PICK R : blocks \in Seq(R)
      BY <1>2, KeptAreSequences
  <2>2. Looked(list, Append(blocks, block), n + 1)
      BY <1>2, <1>3, <1>6, <1>9, <2>1, LookedKept DEF KeptAs
  <2>3. kept'[at] = Append(blocks, block) /\ \A i \in 1..at : i # at => kept'[i] = kept[i]
    <3>1. PICK S : kept \in Seq(Seq(S))
        BY DEF NestInv, RunInv
    <3>2. DOMAIN kept = 1..at
        BY <3>1, ListsAreFinite
    <3>3. kept' = [kept EXCEPT ![at] = Append(@, block)]
        BY <1>9 DEF KeptAs, Keep
    <3> QED
        BY <1>2, <3>2, <3>3
  <2> QED
      BY <1>7, <1>9, <2>2, <2>3 DEF KeptAs, Keep
<1> QED
    BY <1>1, <1>8, <1>9 DEF Handled

-----------------------------------------------------------------------------
(* The checks of the whole.                                                *)

\* A field has no blocks when none is kept of any of its lists.
LEMMA BlocksOfField ==
    ASSUME NestInv, NEW field
    PROVE  Blocks(field) = <<>> <=> \A i \in 1..at : export.lists[i].field = field => kept[i] = <<>>
<1> DEFINE f == [i \in 1..at |-> IF export.lists[i].field = field THEN kept[i] ELSE <<>>]
<1>1. PICK S : \A i \in 1..at : kept[i] \in Seq(S)
    BY KeptAreSequences
<1>2. at \in Nat
    BY ListsAreFinite
<1>3. f \in [1..at -> Seq(S)]
    BY <1>1, EmptySeq
<1>4. \A g \in [1..at -> Seq(S)] : FlattenSeq(g) = <<>> <=> \A k \in 1..at : g[k] = <<>>
    BY <1>2, FlattenIsSequence
<1>5. FlattenSeq(f) = <<>> <=> \A k \in 1..at : f[k] = <<>>
  <2> HIDE DEF f
  <2> QED
      BY <1>3, <1>4
<1> QED
    BY <1>5 DEF Blocks

\* Past the items, a field has blocks exactly when it shows.
LEMMA BlocksShow ==
    ASSUME NestInv, SoFarInv, pc # "items", NEW field
    PROVE  Blocks(field) = <<>> <=> ~FieldShows(export, field)
<1>1. /\ at = Len(export.lists)
      /\ \A i \in 1..at : Looked(export.lists[i], kept[i], Len(export.lists[i].items))
    BY DEF SoFarInv, Done
<1>2. \A i \in 1..at : Len(export.lists[i].items) \in Nat
    BY <1>1, ListsAreFinite
<1>3. PICK S : \A i \in 1..at : kept[i] \in Seq(S)
    BY KeptAreSequences
<1>4. ASSUME NEW i \in 1..at
      PROVE  kept[i] = <<>> <=> ~\E k \in 1..Len(export.lists[i].items) : Shows(export.lists[i].items[k])
  <2> PICK list, blocks : list = export.lists[i] /\ blocks = kept[i]
      OBVIOUS
  <2>1. Len(list.items) \in Nat /\ blocks \in Seq(S) /\ Looked(list, blocks, Len(list.items))
      BY <1>1, <1>2, <1>3
  <2>2. blocks = <<>> <=> ~\E k \in 1..Len(list.items) : Shows(list.items[k])
      BY <2>1, LookedEmpty
  <2> QED
      BY <2>2
<1> QED
    BY <1>1, <1>4, BlocksOfField DEF FieldShows

\* The summary is a list of its own.
LEMMA OneSummary ==
    ASSUME NestInv, NEW i \in 1..Len(export.lists), export.lists[i].field = "tldr"
    PROVE  i = 1
<1>1. /\ Len(export.lists) \in Nat \ {0} /\ export.lists[1].field = "tldr"
      /\ \A j, k \in 1..Len(export.lists) :
           j < k /\ export.lists[j].field = export.lists[k].field => export.lists[j].field = "topics"
    BY ListsAreFinite DEF ChatExport
<1>2. 1 \in 1..Len(export.lists) /\ "tldr" # "topics"
    BY <1>1
<1> QED
    BY <1>1, <1>2

LEMMA NextListCauses == NestInv /\ TypeInv /\ CauseInv /\ NextList => CauseInv'
<1> SUFFICES ASSUME NestInv, TypeInv, CauseInv, NextList PROVE CauseInv'
    OBVIOUS
<1>1. pc = "items" /\ index > Len(List.items) /\ index \in 1..Len(List.items) + 1
    BY DEF NextList, TypeInv
<1>2. /\ at \in 1..Len(export.lists) /\ at \in Nat \ {0} /\ at \in 1..at /\ Len(kept) = at
      /\ Len(export.lists) \in Nat /\ List = export.lists[at] /\ Len(List.items) \in Nat
    BY ListsAreFinite DEF List
<1>3. index - 1 = Len(List.items) /\ Done(at) = Len(List.items)
    BY <1>1, <1>2 DEF Done
<1>4. \A i \in 1..at : Looked(export.lists[i], kept[i], Done(i)) /\ SummaryInv(i)
    BY <1>1 DEF CauseInv, SoFarInv
<1>5. \A i \in 1..at : Done(i) = Len(export.lists[i].items)
    BY <1>2, <1>3 DEF Done
<1>6. CASE List.field = "tldr" /\ kept[at] = <<>>
  <2>1. Refuse
      BY <1>6 DEF NextList
  <2>2. PICK S : kept[at] \in Seq(S)
      BY <1>2, KeptAreSequences
  <2> PICK list, blocks : list = List /\ blocks = kept[at]
      OBVIOUS
  <2>3. Looked(list, blocks, Len(list.items)) /\ Len(list.items) \in Nat /\ blocks \in Seq(S)
      BY <1>2, <1>4, <1>5, <2>2
  <2>4. ~\E k \in 1..Len(list.items) : Shows(list.items[k])
      BY <1>6, <2>3, LookedThrough
  <2>5. ~FieldShows(export, "tldr")
    <3> SUFFICES ASSUME NEW i \in 1..Len(export.lists), export.lists[i].field = "tldr"
                 PROVE  i = at
        BY <1>2, <2>4 DEF FieldShows
    <3> QED
        BY <1>2, <1>6, OneSummary
  <2>6. ~Valid(export)
      BY <2>5 DEF Valid
  <2> QED
      BY <2>1, <2>6, RefusalRemains
<1>7. CASE ~(List.field = "tldr" /\ kept[at] = <<>>) /\ at < Len(export.lists)
  <2>1. at' = at + 1 /\ kept' = Append(kept, <<>>) /\ pc' = pc /\ index' = 1 /\ export' = export
      BY <1>7 DEF NextList
  <2>2. kept'[at + 1] = <<>> /\ \A i \in 1..at : kept'[i] = kept[i]
    <3>1. PICK S : kept \in Seq(Seq(S))
        BY DEF NestInv, RunInv
    <3>2. <<>> \in Seq(S)
        BY EmptySeq
    <3> QED
        BY <1>2, <2>1, <3>1, <3>2
  <2>3. \A i \in 1..at : Done(i)' = Done(i)
    <3>1. \A i \in 1..at : i # at'
        BY <1>2, <2>1
    <3>2. \A i \in 1..at : Done(i)' = Len(export'.lists[i].items)
        BY <3>1 DEF Done
    <3> QED
        BY <1>5, <2>1, <3>2
  <2>4. ASSUME NEW i \in 1..at PROVE Looked(export'.lists[i], kept'[i], Done(i)') /\ SummaryInv(i)'
      BY <1>2, <1>4, <1>7, <2>1, <2>2, <2>3 DEF SummaryInv
  <2>5. ASSUME NEW i, i = at' PROVE Looked(export'.lists[i], kept'[i], Done(i)') /\ SummaryInv(i)'
    <3>1. kept'[i] = <<>>
        BY <2>1, <2>2, <2>5
    <3>2. pc' = "items" /\ index' - 1 = 0
        BY <1>1, <2>1
    <3>3. Done(i)' = 0
        BY <2>5, <3>2 DEF Done
    <3>4. SummaryInv(i)'
        BY <2>5, <3>2 DEF SummaryInv
    <3> QED
        BY <3>1, <3>3, <3>4, LookedNone
  <2>6. SoFarInv'
    <3>1. \A i \in 1..at' : i = at' \/ i \in 1..at
        BY <1>2, <2>1
    <3>2. pc' = "items"
        BY <1>1, <2>1
    <3>3. \A i \in 1..at' : Looked(export'.lists[i], kept'[i], Done(i)') /\ SummaryInv(i)'
        BY <2>4, <2>5, <3>1
    <3> QED
        BY <3>2, <3>3 DEF SoFarInv
  <2> QED
      BY <1>1, <2>1, <2>6 DEF CauseInv, FieldsInv, RequiredInv, BudgetInv
<1>8. CASE ~(List.field = "tldr" /\ kept[at] = <<>>) /\ ~(at < Len(export.lists))
  <2>1. pc' = "budget" /\ UNCHANGED <<at, kept, export>>
      BY <1>8 DEF NextList
  <2>2. at = Len(export.lists)
      BY <1>2, <1>8
  <2>3. \A i \in 1..at : Done(i)' = Done(i)
      BY <1>5, <2>1 DEF Done
  <2>4. ASSUME NEW i \in 1..at PROVE Looked(export'.lists[i], kept'[i], Done(i)') /\ SummaryInv(i)'
      BY <1>2, <1>4, <1>8, <2>1, <2>3 DEF SummaryInv
  <2>5. SoFarInv'
      BY <2>1, <2>2, <2>4 DEF SoFarInv
  <2> QED
      BY <2>1, <2>5 DEF CauseInv, FieldsInv, RequiredInv, BudgetInv
<1> QED
    BY <1>6, <1>7, <1>8

LEMMA CheckBudgetCauses == NestInv /\ CauseInv /\ CheckBudget => CauseInv'
<1> SUFFICES ASSUME NestInv, CauseInv, CheckBudget PROVE CauseInv'
    OBVIOUS
<1>1. CASE TotalBlockChars > MaxTotalBlockChars
    BY <1>1, RefusalRemains DEF CheckBudget
<1>2. CASE ~(TotalBlockChars > MaxTotalBlockChars)
  <2>1. pc = "budget" /\ pc' = "fields" /\ UNCHANGED <<export, at, index, previous, kept>>
      BY <1>2 DEF CheckBudget
  <2>2. SoFarInv'
      BY <2>1, DoneStays DEF CauseInv
  <2>3. BudgetInv'
      BY <1>2, <2>1, ChecksKeepTheTotal DEF BudgetInv
  <2> QED
      BY <2>1, <2>2, <2>3 DEF CauseInv, FieldsInv, RequiredInv
<1> QED
    BY <1>1, <1>2

LEMMA CheckModeFieldsCauses == NestInv /\ CauseInv /\ CheckModeFields => CauseInv'
<1> SUFFICES ASSUME NestInv, CauseInv, CheckModeFields PROVE CauseInv'
    OBVIOUS
<1>1. pc = "fields" /\ SoFarInv /\ BudgetInv
    BY DEF CheckModeFields, CauseInv
<1>2. ASSUME NEW f \in ModeFields, ~Allowed(f), Blocks(f) # <<>>
      PROVE  CauseInv'
  <2>1. FieldShows(export, f)
      BY <1>1, <1>2, BlocksShow
  <2>2. ~Valid(export)
      BY <1>2, <2>1 DEF Valid, Allowed
  <2>3. Refuse
      BY <1>2 DEF CheckModeFields
  <2> QED
      BY <2>2, <2>3, RefusalRemains
<1>3. CASE \A f \in ModeFields : Allowed(f) \/ Blocks(f) = <<>>
  <2>1. pc' = "required" /\ UNCHANGED <<export, at, index, previous, kept>>
      BY <1>3 DEF CheckModeFields
  <2>2. SoFarInv'
      BY <1>1, <2>1, DoneStays
  <2>3. \A f : (Allowed(f)' <=> Allowed(f)) /\ Blocks(f)' = Blocks(f)
      BY <2>1 DEF Allowed, Blocks
  <2>4. FieldsInv'
      BY <1>3, <2>3 DEF FieldsInv
  <2>5. BudgetInv'
      BY <1>1, <2>1, ChecksKeepTheTotal DEF BudgetInv
  <2> QED
      BY <2>1, <2>2, <2>4, <2>5 DEF CauseInv, RequiredInv
<1> QED
    BY <1>2, <1>3

LEMMA CheckModeRequiredCauses == NestInv /\ CauseInv /\ CheckModeRequired => CauseInv'
<1> SUFFICES ASSUME NestInv, CauseInv, CheckModeRequired PROVE CauseInv'
    OBVIOUS
<1>1. pc = "required" /\ SoFarInv /\ FieldsInv /\ BudgetInv
    BY DEF CheckModeRequired, CauseInv
<1> DEFINE group == ModeRequired[export.mode]
           absent == group # {} /\ \A f \in group : Blocks(f) = <<>>
<1>2. CASE absent
  <2>1. \A f \in group : ~FieldShows(export, f)
      BY <1>1, <1>2, BlocksShow
  <2>2. ~Valid(export)
      BY <1>2, <2>1 DEF Valid
  <2>3. Refuse
      BY <1>2 DEF CheckModeRequired
  <2> QED
      BY <2>2, <2>3, RefusalRemains
<1>3. CASE ~absent
  <2>1. pc' = "accepted" /\ UNCHANGED <<export, at, index, previous, kept>>
      BY <1>3 DEF CheckModeRequired
  <2>2. SoFarInv'
      BY <1>1, <2>1, DoneStays
  <2>3. \A f : (Allowed(f)' <=> Allowed(f)) /\ Blocks(f)' = Blocks(f)
      BY <2>1 DEF Allowed, Blocks
  <2>4. FieldsInv'
      BY <1>1, <2>1, <2>3 DEF FieldsInv
  <2>5. RequiredInv'
      BY <1>3, <2>1, <2>3 DEF RequiredInv
  <2>6. BudgetInv'
      BY <1>1, <2>1, ChecksKeepTheTotal DEF BudgetInv
  <2> QED
      BY <2>1, <2>2, <2>4, <2>5, <2>6 DEF CauseInv
<1> QED
    BY <1>2, <1>3

LEMMA StutterCauses == CauseInv /\ UNCHANGED vars => CauseInv'
<1> SUFFICES ASSUME CauseInv, UNCHANGED vars PROVE CauseInv'
    OBVIOUS
<1>1. UNCHANGED <<export, pc, at, index, previous, kept>>
    BY DEF vars
<1>2. \A i : Done(i)' = Done(i)
    BY <1>1 DEF Done
<1>3. \A f : (Allowed(f)' <=> Allowed(f)) /\ Blocks(f)' = Blocks(f)
    BY <1>1 DEF Allowed, Blocks
<1>4. TotalBlockChars' = TotalBlockChars
    BY <1>1, ChecksKeepTheTotal
<1>5. SoFarInv => SoFarInv'
    BY <1>1, <1>2 DEF SoFarInv, SummaryInv
<1>6. (FieldsInv => FieldsInv') /\ (RequiredInv => RequiredInv') /\ (BudgetInv => BudgetInv')
    BY <1>1, <1>3, <1>4 DEF FieldsInv, RequiredInv, BudgetInv
<1> QED
    BY <1>1, <1>4, <1>5, <1>6 DEF CauseInv

LEMMA NextCauses == NestInv /\ TypeInv /\ CauseInv /\ [Next]_vars => CauseInv'
<1> SUFFICES ASSUME NestInv, TypeInv, CauseInv, [Next]_vars PROVE CauseInv'
    OBVIOUS
<1>1. CASE ItemStep
    BY <1>1, ItemsAreHandled, HandledCauses
<1>2. CASE NextList
    BY <1>2, NextListCauses
<1>3. CASE CheckBudget \/ CheckModeFields \/ CheckModeRequired
    BY <1>3, CheckBudgetCauses, CheckModeFieldsCauses, CheckModeRequiredCauses
<1>4. CASE UNCHANGED vars
    BY <1>4, StutterCauses
<1> QED
    BY <1>1, <1>2, <1>3, <1>4 DEF Next, ItemStep

LEMMA InitCauses == Init => CauseInv
<1> SUFFICES ASSUME Init PROVE CauseInv
    OBVIOUS
<1>1. pc = "items" /\ at = 1 /\ index = 1 /\ kept[1] = <<>>
    BY DEF Init
<1>2. Done(1) = 0 /\ 1..at = {1}
    BY <1>1 DEF Done
<1>3. Looked(export.lists[1], kept[1], Done(1)) /\ SummaryInv(1)
    BY <1>1, <1>2, LookedNone DEF SummaryInv
<1> QED
    BY <1>1, <1>2, <1>3 DEF CauseInv, SoFarInv, FieldsInv, RequiredInv, BudgetInv

LEMMA CausesAreEnough == NestInv /\ CauseInv => RefusedForCause
<1> SUFFICES ASSUME NestInv, CauseInv, pc = "accepted" PROVE Valid(export)
    BY DEF RefusedForCause, CauseInv
<1>1. SoFarInv /\ FieldsInv /\ RequiredInv
    BY DEF CauseInv
<1>2. /\ at = Len(export.lists) /\ at \in Nat \ {0} /\ ChatExport(export)
      /\ \A i \in 1..at : Len(export.lists[i].items) \in Nat
    BY <1>1, ListsAreFinite DEF SoFarInv
<1>3. \A f : Blocks(f) = <<>> <=> ~FieldShows(export, f)
    BY <1>1, BlocksShow
<1>4. FieldShows(export, "tldr")
  <2>1. 1 \in 1..at /\ export.lists[1].field = "tldr"
      BY <1>2 DEF ChatExport
  <2>2. kept[1] # <<>>
      BY <1>1, <2>1 DEF SoFarInv, SummaryInv
  <2> QED
      BY <1>3, <2>1, <2>2, BlocksOfField
<1>5. ASSUME NEW i \in 1..at
      PROVE  /\ \A k \in 1..Len(export.lists[i].items) : Sound(export.lists[i].items[k])
             /\ Nests(Those(export.lists[i].items, Shows))
  <2> PICK list, blocks : list = export.lists[i] /\ blocks = kept[i]
      OBVIOUS
  <2>1. Looked(list, blocks, Len(list.items)) /\ Len(list.items) \in Nat
      BY <1>1, <1>2 DEF SoFarInv, Done
  <2>2. PICK S : blocks \in Seq(S)
      BY KeptAreSequences
  <2>3. Nests(blocks)
      BY <1>2, ListsAreFinite DEF NestInv, RunInv
  <2>4. Nests(Those(list.items, Shows))
      BY <2>1, <2>2, <2>3, LookedThrough
  <2> QED
      BY <2>1, <2>4 DEF Looked
<1>6. \A f \in ModeFields \ ToSet(ModeSections[export.mode]) : ~FieldShows(export, f)
    BY <1>1, <1>3 DEF FieldsInv, Allowed
<1>7. ModeRequired[export.mode] = {} \/ \E f \in ModeRequired[export.mode] : FieldShows(export, f)
    BY <1>1, <1>3 DEF RequiredInv
<1> QED
    BY <1>2, <1>4, <1>5, <1>6, <1>7 DEF Valid

\* An export is refused only for a cause, and never accepted with one, for any
\* exports, budget and depth: what is dropped does not change how the rest nests,
\* and is no cause itself, but for a quote with a title and no callout, which is
\* refused before the code looks whether it would be dropped (_normalise_export,
\* _normalise_quote, _check_mode_fields, _check_mode_required).
THEOREM RefusalsHaveACause == Spec => []RefusedForCause
BY InitNests, NextNests, InitCounts, NextCounts, InitCauses, NextCauses, CausesAreEnough, PTL DEF Spec

-----------------------------------------------------------------------------
(* The budget.                                                             *)

\* What is kept is as long as its parts, list by list.
LEMMA PayloadIsCovered ==
    ASSUME NestInv, SoFarInv, pc # "items"
    PROVE  SumOf(ListPayload, export.lists) <= TotalBlockChars /\ TotalBlockChars \in Nat
                /\ SumOf(ListPayload, export.lists) \in Nat
<1>1. /\ at = Len(export.lists) /\ at \in Nat /\ Len(kept) = at
      /\ \A i \in 1..at : Len(export.lists[i].items) \in Nat
      /\ \A i \in 1..at : Looked(export.lists[i], kept[i], Len(export.lists[i].items))
    BY ListsAreFinite DEF SoFarInv, Done
<1>2. PICK S : \A i \in 1..at : kept[i] \in Seq(S)
    BY KeptAreSequences
<1> DEFINE f == [i \in 1..at |-> ListPayload(export.lists[i])]
           g == [i \in 1..at |-> SumOf(Chars, kept[i])]
<1>3. SumOf(ListPayload, export.lists) = Total(f)
    BY <1>1 DEF SumOf
<1>4. TotalBlockChars = Total(g)
    BY <1>1 DEF TotalBlockChars, SumOf
<1>5. ASSUME NEW i \in 1..at
      PROVE  f[i] \in Nat /\ g[i] \in Nat /\ f[i] <= g[i]
  <2> PICK list, blocks, n : list = export.lists[i] /\ blocks = kept[i] /\ n = Len(list.items)
      OBVIOUS
  <2> DEFINE x == [k \in 1..n |-> Weight(list.field, list.items[k])]
             y == [k \in 1..Len(blocks) |-> Chars(blocks[k])]
  <2>1. n \in Nat /\ blocks \in Seq(S) /\ Covered(list, blocks, n)
      BY <1>1, <1>2 DEF Looked
  <2>2. ListPayload(list) = Total(x) /\ SumOf(Chars, blocks) = Total(y)
      BY DEF ListPayload, SumOf
  <2>3. Total(x) <= SumOf(Chars, blocks) /\ x \in [1..n -> Nat] /\ y \in [1..Len(blocks) -> Nat]
      BY <2>1 DEF Covered
  <2>4. Len(blocks) \in Nat
      BY <2>1
  <2> HIDE DEF x, y
  <2>5. Total(x) \in Nat /\ Total(y) \in Nat
      BY <2>1, <2>3, <2>4, TotalIsNumber
  <2>6. f[i] = ListPayload(list) /\ g[i] = SumOf(Chars, blocks)
      OBVIOUS
  <2> HIDE DEF f, g
  <2> QED
      BY <2>2, <2>3, <2>5, <2>6
<1>6. f \in [1..at -> Nat] /\ g \in [1..at -> Nat]
    BY <1>5
<1> HIDE DEF f, g
<1>7. Total(f) <= Total(g) /\ Total(f) \in Nat /\ Total(g) \in Nat
    BY <1>1, <1>5, <1>6, TotalGrows, TotalIsNumber
<1> QED
    BY <1>3, <1>4, <1>7

LEMMA BudgetIsEnough == NestInv /\ CauseInv => BudgetBoundsThePayload
<1> SUFFICES ASSUME NestInv, CauseInv, pc = "accepted"
             PROVE  SumOf(ListPayload, export.lists) <= MaxTotalBlockChars
    BY DEF BudgetBoundsThePayload
<1>1. SoFarInv /\ ~(TotalBlockChars > MaxTotalBlockChars)
    BY DEF CauseInv, BudgetInv
<1> DEFINE payload == SumOf(ListPayload, export.lists)
<1>2. payload <= TotalBlockChars /\ TotalBlockChars \in Nat /\ payload \in Nat
    BY <1>1, PayloadIsCovered
<1> HIDE DEF payload
<1>3. payload <= MaxTotalBlockChars
    BY <1>1, <1>2, SchemaAssumption
<1> QED
    BY <1>3 DEF payload

\* Whatever an accepted export adds to a note in rich blocks is within the
\* budget, line breaks and labels included, in all its fields, topics and steps
\* together and for any exports, budget and depth (_total_block_chars).
THEOREM PayloadIsBounded == Spec => []BudgetBoundsThePayload
BY InitNests, NextNests, InitCounts, NextCounts, InitCauses, NextCauses, BudgetIsEnough, PTL DEF Spec
=============================================================================
