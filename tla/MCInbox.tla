------------------------------- MODULE MCInbox -------------------------------
(***************************************************************************)
(* Instances of InboxWrites: creates and appends that meet on the names    *)
(* "foo" and "foo-2".  A stem is a sequence, so that NoteFileName builds   *)
(* <<"foo", 2>> for "foo-2.md".                                            *)
(***************************************************************************)
EXTENDS InboxSafety, TLC

CONSTANTS c1, c2, a1, a2

foo == <<"foo">>
foo2 == <<"foo", 2>>

\* Creates of "foo" that may have to go on to "foo-2", and appends to "foo".
MCStem == [c \in Creators |-> foo]
MCTarget == [a \in Appenders |-> foo]
MCNames == {foo, foo2}
MCNamesOne == {foo}

\* Appends to one note are alike, and so are creates with one stem.
InodeSymmetry == Permutations(Inodes)
AppendSymmetry == InodeSymmetry \union Permutations(Appenders)
CreateSymmetry == InodeSymmetry \union Permutations(Creators)
=============================================================================
