------------------------------ MODULE MCGateway ------------------------------
(***************************************************************************)
(* Requests for Gateway: every request at the door with one plain call,    *)
(* and one plain request with every call.                                  *)
(***************************************************************************)
EXTENDS Gateway, FrontmatterTree

MCOrder == <<".t", ".t/x.md", "A", "A/B", "A/B/n.md", "A/n.md", "b.md", "c#.md", "d.txt">>
MCParent == (".t" :> "root") @@ (".t/x.md" :> ".t") @@ ("A" :> "root") @@ ("A/B" :> "A")
            @@ ("A/B/n.md" :> "A/B") @@ ("A/n.md" :> "A") @@ ("b.md" :> "root")
            @@ ("c#.md" :> "root") @@ ("d.txt" :> "root")
MCAbove ==
    LET above[p \in DOMAIN MCParent] ==
          {p} \union (IF MCParent[p] = "root" THEN {} ELSE above[MCParent[p]])
    IN [p \in DOMAIN MCParent |-> above[p]]
MCHidden == {".t"}
MCMarkdown == {".t/x.md", "A/B/n.md", "A/n.md", "b.md", "c#.md"}
MCRenderable == MCMarkdown \ {"c#.md"}
MCFold == ("Tag" :> 1) @@ ("tag" :> 1) @@ ("zoo" :> 2)

Map(items) == [map |-> TRUE, items |-> items]
List(items) == [map |-> FALSE, items |-> items]
Plain == <<Map(<<-1>>)>>

Note(front, size, tags, mtime, heap) ==
    [kind |-> "note", front |-> front, size |-> size, tags |-> tags, mtime |-> mtime, heap |-> heap]
Other(kind) == [Note(0, 0, <<>>, 1, Plain) EXCEPT !.kind = kind]

\* Below the limit of 3, at it, above it, cut within its block, without one.
small == Note(2, 2, <<"Tag">>, 1, Plain)
full == Note(2, 3, <<"Tag", "tag", "zoo">>, 2, Plain)
large == Note(1, 5, <<"zoo">>, 3, Plain)
long == Note(4, 5, <<"zoo">>, 1, Plain)
bare == Note(0, 1, <<>>, 2, Plain)
MCHostEntries == {small, large}

Folders == {".t", "A", "A/B"}
Vault(notes, others) ==
    [p \in ToSet(MCOrder) |->
       IF p \in DOMAIN others THEN Other(others[p])
       ELSE IF \E q \in MCAbove[p] \intersect DOMAIN others : others[q] = "special" THEN None
       ELSE IF p \in Folders THEN Other("folder")
       ELSE IF p \in DOMAIN notes THEN notes[p] ELSE None]
Notes1 == (".t/x.md" :> full) @@ ("A/B/n.md" :> full) @@ ("A/n.md" :> small) @@ ("b.md" :> large)
          @@ ("d.txt" :> bare)
Notes2 == ("A/n.md" :> long) @@ ("c#.md" :> small) @@ ("A/B/n.md" :> bare)
Vaults == {Vault(Notes1, <<>>), Vault(Notes2, "b.md" :> "special"), Vault(Notes2, "b.md" :> "symlink"),
           Vault(("b.md" :> large) @@ ("c#.md" :> large), "A" :> "symlink")}

-----------------------------------------------------------------------------
Used(host, faults) == [host |-> host, faults |-> faults, blind |-> {}]
Post(path_, scheme, token) == [path |-> path_, method |-> "POST", scheme |-> scheme, token |-> token]
Read(path_) == [tool |-> "read_note", path |-> path_]
Create(candidates) == [tool |-> "create", candidates |-> candidates]
Summarising(limit) == [tool |-> "summary", top_tags_limit |-> limit]
Start(request_, enabled_, call_, vault_, used_) ==
    [request |-> request_, enabled |-> enabled_, call |-> call_, vault |-> vault_, used |-> used_]

\* Every request; the tool finds nothing.
AtTheDoor ==
    {Start([path |-> p, method |-> m, scheme |-> s, token |-> t], e, Summarising(0),
           Vault(<<>>, "A" :> "special"), Used(0, 0))
       : p \in HttpPaths, m \in {"GET", "POST", "DELETE"}, s \in Schemes, t \in {"none", "wrong", "right"},
         e \in BOOLEAN}

ToTool(call_, vault_, used_) == Start(Post("/mcp", "bearer", "right"), TRUE, call_, vault_, used_)

Reading ==
    {ToTool(Read(p), v, Used(0, 0)) : p \in {".t/x.md", "A/n.md", "b.md", "d.txt", "A"}, v \in Vaults}

\* Up to two candidates, and three for the cap and for a repeat of what was
\* refused at first.
Candidates == BoundedSeq({".t/x.md", "A/n.md", "b.md", "c#.md"}, 2)
              \union {<<"b.md", "A/n.md", "A/B/n.md">>, <<"b.md", "b.md", "A/n.md">>,
                      <<"A/n.md", "b.md", "A/n.md">>}
Linking == {ToTool(Create(c), v, Used(0, 0)) : c \in Candidates, v \in Vaults}

Counting ==
    {ToTool(Summarising(2), v, Used(0, 0)) : v \in Vaults}
    \union {ToTool(Summarising(n), v, Used(1, 0)) : n \in {1, 201}, v \in Vaults}

\* Frontmatter of every shape with up to three containers, in a vault at rest.
Items(n) == BoundedSeq({0, -1, -3} \union 1..n, 2)
Heaps ==
    {<<Map(x)>> : x \in Items(1)}
    \union {<<Map(x), [map |-> m, items |-> y]>> : x \in Items(2), y \in Items(2), m \in BOOLEAN}
    \union {<<Map(<<2, x>>), List(y), Map(z)>> : x \in {2, 3}, y \in Items(3), z \in Items(3)}
Converting ==
    {ToTool(Read("b.md"), Vault("b.md" :> Note(2, 3, <<>>, 1, h), <<>>), Used(2, 1)) : h \in Heaps}

MCStarts == AtTheDoor \union Reading \union Linking \union Counting \union Converting
=============================================================================
