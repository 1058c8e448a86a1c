--------------------------- MODULE FrontmatterTree ---------------------------
(***************************************************************************)
(* to_json_safe of app/services/markdown_parser.py: parsed YAML made into  *)
(* a tree, within a budget.                                                *)
(*                                                                         *)
(* Parsed YAML is a heap of containers, the first of which is the mapping  *)
(* as a whole; with aliases a container may occur often, and even below    *)
(* itself.  A value is a container's number, or -n for a scalar whose text *)
(* has n characters.  A key has one character.                             *)
(***************************************************************************)
EXTENDS Integers, SequencesExt

CONSTANTS
    MaxDepth,  \* MAX_JSON_SAFE_DEPTH
    MaxNodes,  \* MAX_JSON_SAFE_NODES
    MaxChars   \* MAX_JSON_SAFE_TOTAL_CHARS

ASSUME BudgetAssumption == {MaxDepth, MaxNodes, MaxChars} \subseteq Nat

Container == [map : BOOLEAN, items : Seq(Int)]

\* A tree is written down in one row, depth first.
Open(c) == IF c.map THEN "{" ELSE "["
Close == "}"
Key == "key"
ScalarToken(v) == ToString(v)

-----------------------------------------------------------------------------
(* The conversion; `raised' once it has given up.                          *)

Fresh == [nodes |-> 0, chars |-> 0, active |-> {}, raised |-> FALSE, out |-> <<>>]
Put(s, token) == [s EXCEPT !.out = Append(@, token)]

ChargeNode(s) == [s EXCEPT !.nodes = @ + 1, !.raised = @ \/ s.nodes >= MaxNodes]
ChargeChars(s, n) == [s EXCEPT !.chars = @ + n, !.raised = @ \/ s.chars + n > MaxChars]

\* Mutant of Leave: the container stays active for its siblings.
LeaveActive(s, v) == Put(s, Close)

\* active.discard: a shared container may come again once this branch is done.
Leave(s, v) == [Put(s, Close) EXCEPT !.active = @ \ {v}]

Enter(s, v, c) == [Put(s, Open(c)) EXCEPT !.active = @ \union {v}]
WithKey(s, c) == IF c.map THEN ChargeChars(ChargeNode(Put(s, Key)), 1) ELSE s

\* _to_json_safe.
RECURSIVE Convert(_, _, _, _)
Convert(heap, v, depth, s) ==
    LET c == ChargeNode(s) IN
    IF c.raised \/ depth > MaxDepth \/ v \in c.active THEN [c EXCEPT !.raised = TRUE]
    ELSE IF v <= 0 THEN ChargeChars(Put(c, ScalarToken(v)), -v)
    ELSE Leave(FoldLeft(LAMBDA t, item : IF t.raised THEN t
                                         ELSE Convert(heap, item, depth + 1, WithKey(t, heap[v])),
                        Enter(c, v, heap[v]), heap[v].items), v)

ToJsonSafe(heap) == Convert(heap, 1, 0, Fresh)

\* A heap that raises is like no metadata.
Metadata(heap) == LET s == ToJsonSafe(heap) IN IF s.raised THEN <<>> ELSE s.out

-----------------------------------------------------------------------------
(* What it is measured against: the heap unfolded, down to a depth.        *)

Deeper == "..."

RECURSIVE Unfolded(_, _, _)
Unfolded(heap, v, below) ==
    IF below < 0 THEN <<Deeper>>
    ELSE IF v <= 0 THEN <<ScalarToken(v)>>
    ELSE <<Open(heap[v])>>
         \o FlattenSeq([k \in 1..Len(heap[v].items) |->
                          (IF heap[v].map THEN <<Key>> ELSE <<>>)
                          \o Unfolded(heap, heap[v].items[k], below - 1)])
         \o <<Close>>

Tree(heap) == Unfolded(heap, 1, MaxDepth)
CharsOf(token) ==
    IF token \in {"{", "[", Close} THEN 0 ELSE IF token = Key THEN 1
    ELSE CHOOSE n \in 0..MaxChars + 1 : ScalarToken(-n) = token

\* A cycle unfolds beyond every depth.
TreeFits(heap) ==
    LET t == Tree(heap) IN
    /\ Deeper \notin ToSet(t)
    /\ Len(SelectSeq(t, LAMBDA x : x # Close)) <= MaxNodes
    /\ FoldLeft(LAMBDA n, x : n + CharsOf(x), 0, t) <= MaxChars

\* What Metadata should be.
Whole(heap) == IF TreeFits(heap) THEN Tree(heap) ELSE <<>>
=============================================================================
