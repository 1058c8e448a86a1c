----------------------------- MODULE BytesProofs -----------------------------
(***************************************************************************)
(* Theorems about AppendBytes: what a reader sees of a note, for texts and *)
(* notes of any length.                                                    *)
(* What the text operators compute is proved by induction on the texts.    *)
(***************************************************************************)
EXTENDS AppendBytes, SequenceLemmas

-----------------------------------------------------------------------------
(* Texts.                                                                  *)

Text == Seq(Chars)

\* What a character becomes behind a text.
Piece(s, c) ==
    IF c = "LF" /\ s # <<>> /\ s[Len(s)] = "CR" THEN <<>>
    ELSE IF c = "CR" THEN <<"LF">> ELSE <<c>>

LEMMA AppendFacts ==
    ASSUME NEW s \in Text, NEW c \in Chars
    PROVE  /\ Append(s, c) \in Text /\ Len(Append(s, c)) = Len(s) + 1 /\ Len(s) \in Nat
           /\ Append(s, c)[Len(s) + 1] = c
           /\ \A i \in 1..Len(s) : Append(s, c)[i] = s[i]
           /\ Len(s) = 0 <=> s = <<>>
BY AppendProperties, LenProperties, EmptySeq DEF Text

LEMMA NormalisedNone == Normalised(<<>>) = <<>>
<1> DEFINE ss == [k \in 1..Len(<<>>) |->
                  IF <<>>[k] = "LF" /\ k > 1 /\ <<>>[k - 1] = "CR" THEN <<>>
                  ELSE IF <<>>[k] = "CR" THEN <<"LF">> ELSE <<(<<>>[k])>>]
<1>1. ss = <<>>
    BY EmptySeq
<1> QED
    BY <1>1, FlattenNone DEF Normalised

LEMMA NormalisedAppend ==
    ASSUME NEW s \in Text, NEW c \in Chars
    PROVE  Normalised(Append(s, c)) = Normalised(s) \o Piece(s, c)
<1> DEFINE At(t, k) == IF t[k] = "LF" /\ k > 1 /\ t[k - 1] = "CR" THEN <<>>
                       ELSE IF t[k] = "CR" THEN <<"LF">> ELSE <<t[k]>>
           t == Append(s, c)
           ss == [k \in 1..Len(s) |-> At(s, k)]
           tt == [k \in 1..Len(t) |-> At(t, k)]
<1>1. t \in Text /\ Len(t) = Len(s) + 1 /\ Len(s) \in Nat /\ t[Len(s) + 1] = c
      /\ (\A i \in 1..Len(s) : t[i] = s[i]) /\ (Len(s) = 0 <=> s = <<>>)
    BY AppendFacts
<1>2. Normalised(s) = FlattenSeq(ss) /\ Normalised(t) = FlattenSeq(tt)
    BY DEF Normalised
<1> HIDE DEF t
<1>3. \A i \in 1..Len(s) : tt[i] = ss[i]
  <2> TAKE i \in 1..Len(s)
  <2>1. i \in 1..Len(t) /\ t[i] = s[i] /\ (i > 1 => t[i - 1] = s[i - 1])
      BY <1>1
  <2>2. At(t, i) = At(s, i)
      BY <2>1
  <2> HIDE DEF At
  <2> QED
      BY <2>1, <2>2
<1>4. tt[Len(s) + 1] = Piece(s, c)
    BY <1>1 DEF Piece
<1>5. Len(ss) = Len(s) /\ Len(tt) = Len(s) + 1
    BY <1>1
<1>6. Len(ss) = 0 => ss = <<>>
    BY <1>5
<1>7. Piece(s, c) \in Text
  <2>1. <<>> \in Text /\ <<"LF">> \in Text /\ <<c>> \in Text
      BY EmptySeq DEF Text, Chars
  <2> QED
      BY <2>1 DEF Piece
<1> HIDE DEF ss, tt
<1>8. FlattenSeq(tt) = FlattenSeq(ss) \o Piece(s, c)
  <2>1. Len(ss) \in Nat /\ Len(tt) = Len(ss) + 1 /\ tt[Len(ss) + 1] = Piece(s, c)
        /\ \A i \in 1..Len(ss) : tt[i] = ss[i]
      BY <1>1, <1>3, <1>4, <1>5
  <2> QED
      BY <1>6, <1>7, <2>1, FlattenOneMore DEF Text
<1> QED
    BY <1>2, <1>8 DEF t

\* What a character becomes with a line ending of the file's.
Ended(terminator, c) == IF c = "LF" THEN terminator ELSE <<c>>
Terminators == {<<"LF">>, <<"CR", "LF">>}

LEMMA WithTerminatorNone == \A terminator : WithTerminator(<<>>, terminator) = <<>>
<1> TAKE terminator
<1> DEFINE ss == [k \in 1..Len(<<>>) |-> IF <<>>[k] = "LF" THEN terminator ELSE <<(<<>>[k])>>]
<1>1. ss = <<>>
    BY EmptySeq
<1> QED
    BY <1>1, FlattenNone DEF WithTerminator

LEMMA WithTerminatorAppend ==
    ASSUME NEW s \in Text, NEW c \in Chars, NEW terminator \in Terminators
    PROVE  WithTerminator(Append(s, c), terminator)
             = WithTerminator(s, terminator) \o Ended(terminator, c)
<1> DEFINE t == Append(s, c)
           ss == [k \in 1..Len(s) |-> IF s[k] = "LF" THEN terminator ELSE <<s[k]>>]
           tt == [k \in 1..Len(t) |-> IF t[k] = "LF" THEN terminator ELSE <<t[k]>>]
<1>1. t \in Text /\ Len(t) = Len(s) + 1 /\ Len(s) \in Nat /\ t[Len(s) + 1] = c
      /\ (\A i \in 1..Len(s) : t[i] = s[i]) /\ (Len(s) = 0 <=> s = <<>>)
    BY AppendFacts
<1>2. WithTerminator(s, terminator) = FlattenSeq(ss)
      /\ WithTerminator(t, terminator) = FlattenSeq(tt)
    BY DEF WithTerminator
<1> HIDE DEF t
<1>3. \A i \in 1..Len(s) : tt[i] = ss[i]
    BY <1>1
<1>4. tt[Len(s) + 1] = Ended(terminator, c)
    BY <1>1 DEF Ended
<1>5. Len(ss) = Len(s) /\ Len(tt) = Len(s) + 1
    BY <1>1
<1>6. Len(ss) = 0 => ss = <<>>
    BY <1>5
<1>7. Ended(terminator, c) \in Text
  <2>1. <<"LF">> \in Text /\ <<"CR", "LF">> \in Text /\ <<c>> \in Text
      BY DEF Text, Chars
  <2> QED
      BY <2>1 DEF Ended, Terminators
<1> HIDE DEF ss, tt
<1>8. FlattenSeq(tt) = FlattenSeq(ss) \o Ended(terminator, c)
  <2>1. Len(ss) \in Nat /\ Len(tt) = Len(ss) + 1 /\ tt[Len(ss) + 1] = Ended(terminator, c)
        /\ \A i \in 1..Len(ss) : tt[i] = ss[i]
      BY <1>1, <1>3, <1>4, <1>5
  <2> QED
      BY <1>6, <1>7, <2>1, FlattenOneMore DEF Text
<1> QED
    BY <1>2, <1>8 DEF t

-----------------------------------------------------------------------------
(* What a reader sees has no CR.                                           *)

Lines == Seq({"x", "LF"})

LEMMA PieceFacts ==
    ASSUME NEW s \in Text, NEW c \in Chars
    PROVE  Piece(s, c) \in Lines /\ Piece(s, c) \in {<<>>, <<"LF">>, <<"x">>}
<1>1. <<>> \in Lines /\ <<"LF">> \in Lines /\ <<"x">> \in Lines
    BY EmptySeq DEF Lines
<1>2. Piece(s, c) \in {<<>>, <<"LF">>, <<"x">>}
    BY DEF Piece, Chars
<1> QED
    BY <1>1, <1>2

LEMMA NormalisedIsLines == \A s \in Text : Normalised(s) \in Lines
<1> DEFINE P == {s \in Text : Normalised(s) \in Lines}
<1>1. <<>> \in P
    BY NormalisedNone, EmptySeq DEF Text, Lines
<1>2. ASSUME NEW s \in Text, s \in P, NEW c \in Chars PROVE Append(s, c) \in P
  <2>1. Normalised(s) \o Piece(s, c) \in Lines
      BY <1>2, PieceFacts, ConcatProperties DEF Lines
  <2> QED
      BY <2>1, NormalisedAppend, AppendFacts
<1> HIDE DEF P
<1>3. \A s \in Text : s \in P
    BY <1>1, <1>2, SequenceInduction DEF Text
<1> QED
    BY <1>3 DEF P

LEMMA LinesAreText == Lines \subseteq Text
BY SeqMonotonic DEF Lines, Text, Chars

LEMMA TextIsAppend ==
    ASSUME NEW s \in Text, s # <<>>
    PROVE  \E t \in Text, c \in Chars : s = Append(t, c) /\ s[Len(s)] = c /\ Len(s) = Len(t) + 1
<1>1. PICK t \in Text, c \in Chars : s = Append(t, c)
    BY SequenceEmptyOrAppend DEF Text
<1> QED
    BY <1>1, AppendFacts

LEMMA ConcatAppend ==
    ASSUME NEW a \in Text, NEW b \in Text, NEW c \in Chars
    PROVE  a \o Append(b, c) = Append(a \o b, c) /\ a \o b \in Text
<1>1. a \o b \in Text /\ <<c>> \in Text
    BY ConcatProperties DEF Text
<1>2. Append(b, c) = b \o <<c>> /\ Append(a \o b, c) = (a \o b) \o <<c>>
    BY <1>1, AppendIsConcat DEF Text
<1>3. a \o (b \o <<c>>) = (a \o b) \o <<c>>
    BY <1>1, ConcatAssociative DEF Text
<1> QED
    BY <1>1, <1>2, <1>3

\* How a concatenation begins and ends.
LEMMA ConcatEnds ==
    ASSUME NEW a \in Text, NEW b \in Text, b # <<>>
    PROVE  /\ a \o b # <<>> /\ (a \o b)[Len(a \o b)] = b[Len(b)]
           /\ a # <<>> => (a \o b)[1] = a[1]
<1>1. Len(a) \in Nat /\ Len(b) \in Nat \ {0} /\ a \o b \in Text /\ Len(a \o b) = Len(a) + Len(b)
      /\ (a # <<>> => Len(a) # 0)
    BY EmptySeq, LenProperties, ConcatProperties DEF Text
<1>2. \A i \in 1..(Len(a) + Len(b)) : (a \o b)[i] = IF i <= Len(a) THEN a[i] ELSE b[i - Len(a)]
    BY ConcatProperties DEF Text
<1>3. Len(a) + Len(b) \in 1..(Len(a) + Len(b)) /\ 1 \in 1..(Len(a) + Len(b))
      /\ (Len(a) + Len(b)) - Len(a) = Len(b) /\ ~(Len(a) + Len(b) <= Len(a))
    BY <1>1
<1> QED
    BY <1>1, <1>2, <1>3, EmptySeq

\* Where a text may be cut without cutting a CRLF.
Parts(a, b) == ~(a # <<>> /\ a[Len(a)] = "CR" /\ b # <<>> /\ b[1] = "LF")

\* Normalising does not look beyond the character before.
LEMMA NormalisedConcat ==
    ASSUME NEW a \in Text
    PROVE  \A b \in Text : Parts(a, b) => Normalised(a \o b) = Normalised(a) \o Normalised(b)
<1> DEFINE P == {b \in Text : Parts(a, b) => Normalised(a \o b) = Normalised(a) \o Normalised(b)}
<1>1. <<>> \in P
  <2>1. a \o <<>> = a /\ Normalised(a) \o <<>> = Normalised(a)
      BY ConcatEmptySeq, NormalisedIsLines DEF Text, Lines
  <2> QED
      BY <2>1, NormalisedNone, EmptySeq DEF Text
<1>2. ASSUME NEW b \in Text, b \in P, NEW c \in Chars, Parts(a, Append(b, c))
      PROVE  Normalised(a \o Append(b, c)) = Normalised(a) \o Normalised(Append(b, c))
  <2>1. a \o Append(b, c) = Append(a \o b, c) /\ a \o b \in Text
      BY ConcatAppend
  <2>2. Piece(a \o b, c) = Piece(b, c)
    <3>1. CASE b = <<>>
      <4>1. a \o b = a /\ Len(b) = 0
          BY <3>1, ConcatEmptySeq, EmptySeq DEF Text
      <4>2. Append(b, c) # <<>> /\ Append(b, c)[1] = c
          BY <4>1, AppendFacts, EmptySeq
      <4> QED
          BY <1>2, <3>1, <4>1, <4>2 DEF Piece, Parts
    <3>2. CASE b # <<>>
      <4>1. (a \o b) # <<>> /\ (a \o b)[Len(a \o b)] = b[Len(b)]
          BY <3>2, ConcatEnds
      <4> QED
          BY <3>2, <4>1 DEF Piece
    <3> QED
        BY <3>1, <3>2
  <2>3. Parts(a, b)
    <3>1. b # <<>> => Append(b, c) # <<>> /\ Append(b, c)[1] = b[1]
        BY AppendFacts, EmptySeq DEF Text
    <3> QED
        BY <1>2, <3>1 DEF Parts
  <2>4. Normalised(Append(a \o b, c)) = Normalised(a \o b) \o Piece(a \o b, c)
      BY <2>1, NormalisedAppend
  <2>5. Normalised(Append(b, c)) = Normalised(b) \o Piece(b, c)
      BY NormalisedAppend
  <2>6. (Normalised(a) \o Normalised(b)) \o Piece(b, c)
          = Normalised(a) \o (Normalised(b) \o Piece(b, c))
    <3>1. Normalised(a) \in Lines /\ Normalised(b) \in Lines /\ Piece(b, c) \in Lines
        BY NormalisedIsLines, PieceFacts
    <3> QED
        BY <3>1, ConcatAssociative DEF Lines
  <2> QED
      BY <1>2, <2>1, <2>2, <2>3, <2>4, <2>5, <2>6
<1> HIDE DEF P
<1>3. \A b \in Text : b \in P
  <2>1. ASSUME NEW b \in Text, b \in P, NEW c \in Chars PROVE Append(b, c) \in P
      BY <1>2, <2>1, AppendFacts DEF P
  <2> QED
      BY <1>1, <2>1, SequenceInduction DEF Text
<1> QED
    BY <1>3 DEF P

\* Something is seen of a text that is not empty; a last line break of any kind
\* is seen as one.
LEMMA NormalisedEnds ==
    ASSUME NEW s \in Text, s # <<>>
    PROVE  /\ Normalised(s) # <<>>
           /\ Normalised(s)[Len(Normalised(s))] = IF s[Len(s)] = "x" THEN "x" ELSE "LF"
<1>1. ASSUME NEW t \in Text, NEW c \in Chars, Piece(t, c) # <<>>
      PROVE  /\ Normalised(Append(t, c)) # <<>>
             /\ Normalised(Append(t, c))[Len(Normalised(Append(t, c)))]
                  = IF c = "x" THEN "x" ELSE "LF"
  <2>1. Normalised(t) \in Text /\ Piece(t, c) \in Text
      BY NormalisedIsLines, PieceFacts, LinesAreText
  <2>2. Piece(t, c)[Len(Piece(t, c))] = IF c = "x" THEN "x" ELSE "LF"
      BY <1>1 DEF Piece, Chars
  <2>3. Normalised(Append(t, c)) = Normalised(t) \o Piece(t, c)
      BY NormalisedAppend
  <2> DEFINE n == Normalised(t)
             p == Piece(t, c)
  <2> HIDE DEF n, p
  <2>4. n \o p # <<>> /\ (n \o p)[Len(n \o p)] = p[Len(p)]
      BY <1>1, <2>1, ConcatEnds DEF n, p
  <2> QED
      BY <2>2, <2>3, <2>4 DEF n, p
<1>2. PICK t \in Text, c \in Chars : s = Append(t, c) /\ s[Len(s)] = c
    BY TextIsAppend
<1>3. CASE Piece(t, c) # <<>>
    BY <1>1, <1>2, <1>3
<1>4. CASE Piece(t, c) = <<>>
  <2>1. c = "LF" /\ t # <<>> /\ t[Len(t)] = "CR"
      BY <1>4 DEF Piece
  <2>2. PICK u \in Text, d \in Chars : t = Append(u, d) /\ t[Len(t)] = d
      BY <2>1, TextIsAppend
  <2>3. Piece(u, d) # <<>>
      BY <2>1, <2>2 DEF Piece
  <2>4. Normalised(s) = Normalised(t)
    <3>1. Normalised(t) \o <<>> = Normalised(t)
        BY NormalisedIsLines, ConcatEmptySeq DEF Lines
    <3> QED
        BY <1>2, <1>4, <3>1, NormalisedAppend
  <2> QED
      BY <1>1, <1>2, <2>1, <2>2, <2>3, <2>4
<1> QED
    BY <1>3, <1>4

-----------------------------------------------------------------------------
(* The end of a text.                                                      *)

\* The first elements.
LEMMA Beginnings ==
    ASSUME NEW s \in Text
    PROVE  /\ Len(s) >= 1 => SubSeq(s, 1, 1) = <<s[1]>>
           /\ Len(s) >= 2 => SubSeq(s, 1, 2) = <<s[1], s[2]>>
<1>1. Len(s) \in Nat /\ \A i \in 1..Len(s) : s[i] \in Chars
    BY LenProperties, ElementOfSeq DEF Text
<1>2. ASSUME NEW n \in 1..2, Len(s) >= n
      PROVE  /\ SubSeq(s, 1, n) \in Text /\ Len(SubSeq(s, 1, n)) = n
             /\ \A i \in 1..n : SubSeq(s, 1, n)[i] = s[i]
  <2>1. \A i \in 1..n : s[i] \in Chars
      BY <1>1, <1>2
  <2>2. 1 \in Int /\ n \in Int /\ 1 <= n /\ (n - 1) + 1 = n
      OBVIOUS
  <2>3. /\ SubSeq(s, 1, n) \in Seq(Chars)
        /\ Len(SubSeq(s, 1, n)) = IF 1 <= n THEN (n - 1) + 1 ELSE 0
        /\ \A i \in 1..((n - 1) + 1) : SubSeq(s, 1, n)[i] = s[(1 + i) - 1]
      BY <2>1, <2>2, SubSeqProperties
  <2> QED
      BY <2>2, <2>3 DEF Text
<1>3. ASSUME Len(s) >= 1 PROVE SubSeq(s, 1, 1) = <<s[1]>>
  <2>1. /\ SubSeq(s, 1, 1) \in Seq(Chars) /\ Len(SubSeq(s, 1, 1)) = 1
        /\ SubSeq(s, 1, 1)[1] = s[1]
      BY <1>2, <1>3 DEF Text
  <2>2. s[1] \in Chars
      BY <1>1, <1>3
  <2>3. <<s[1]>> \in Seq(Chars) /\ Len(<<s[1]>>) = 1 /\ <<s[1]>>[1] = s[1]
      BY <2>2
  <2>4. \A i \in 1..1 : SubSeq(s, 1, 1)[i] = <<s[1]>>[i]
      BY <2>1
  <2> QED
      BY <2>1, <2>3, <2>4, SeqEqual
<1>4. ASSUME Len(s) >= 2 PROVE SubSeq(s, 1, 2) = <<s[1], s[2]>>
  <2>1. /\ SubSeq(s, 1, 2) \in Seq(Chars) /\ Len(SubSeq(s, 1, 2)) = 2
        /\ SubSeq(s, 1, 2)[1] = s[1] /\ SubSeq(s, 1, 2)[2] = s[2]
      BY <1>2, <1>4 DEF Text
  <2>2. s[1] \in Chars /\ s[2] \in Chars
      BY <1>1, <1>4
  <2>3. <<s[1], s[2]>> \in Seq(Chars) /\ Len(<<s[1], s[2]>>) = 2
      BY <2>2
  <2>4. \A i \in 1..2 : SubSeq(s, 1, 2)[i] = <<s[1], s[2]>>[i]
      BY <2>1
  <2> QED
      BY <2>1, <2>3, <2>4, SeqEqual
<1> QED
    BY <1>3, <1>4

LEMMA EndsInLf ==
    ASSUME NEW s \in Text
    PROVE  EndsIn(s, <<"LF">>) <=> s # <<>> /\ s[Len(s)] = "LF"
<1>1. Len(s) \in Nat /\ (Len(s) = 0 <=> s = <<>>) /\ \A i \in 1..Len(s) : s[i] \in Chars
    BY LenProperties, EmptySeq, ElementOfSeq DEF Text
<1>2. Len(Reverse(s)) = Len(s) /\ Reverse(s) \in Text
      /\ \A i \in 1..Len(s) : Reverse(s)[i] = s[(Len(s) - i) + 1]
    BY <1>1 DEF Reverse, Text
<1>3. Reverse(<<"LF">>) = <<"LF">>
    BY DEF Reverse
<1>4. SubSeq(<<"LF">>, 1, 1) = <<"LF">>
  <2>1. <<"LF">> \in Text /\ Len(<<"LF">>) >= 1 /\ <<"LF">>[1] = "LF"
      BY DEF Text, Chars
  <2> QED
      BY <2>1, Beginnings
<1>5. Len(s) >= 1 => (SubSeq(Reverse(s), 1, 1) = <<"LF">> <=> s[Len(s)] = "LF")
  <2> SUFFICES ASSUME Len(s) >= 1
               PROVE  SubSeq(Reverse(s), 1, 1) = <<"LF">> <=> s[Len(s)] = "LF"
      OBVIOUS
  <2>1. SubSeq(Reverse(s), 1, 1) = <<Reverse(s)[1]>>
      BY <1>2, Beginnings
  <2>2. Reverse(s)[1] = s[Len(s)]
      BY <1>1, <1>2
  <2> QED
      BY <2>1, <2>2
<1>6. EndsIn(s, <<"LF">>)
        <=> 1 <= Len(s) /\ SubSeq(<<"LF">>, 1, 1) = SubSeq(Reverse(s), 1, 1)
    BY <1>2, <1>3 DEF EndsIn, IsSuffix, IsPrefix
<1>7. EndsIn(s, <<"LF">>) <=> Len(s) >= 1 /\ SubSeq(Reverse(s), 1, 1) = <<"LF">>
    BY <1>1, <1>4, <1>6
<1>8. Len(s) >= 1 <=> s # <<>>
    BY <1>1
<1> QED
    BY <1>5, <1>7, <1>8

LEMMA EndsInCrlf ==
    ASSUME NEW s \in Text
    PROVE  EndsIn(s, <<"CR", "LF">>)
             <=> Len(s) >= 2 /\ s[Len(s)] = "LF" /\ s[Len(s) - 1] = "CR"
<1>1. Len(s) \in Nat /\ \A i \in 1..Len(s) : s[i] \in Chars
    BY LenProperties, ElementOfSeq DEF Text
<1>2. Len(Reverse(s)) = Len(s) /\ Reverse(s) \in Text
      /\ \A i \in 1..Len(s) : Reverse(s)[i] = s[(Len(s) - i) + 1]
    BY <1>1 DEF Reverse, Text
<1>3. Reverse(<<"CR", "LF">>) = <<"LF", "CR">>
    BY DEF Reverse
<1>4. SubSeq(<<"LF", "CR">>, 1, 2) = <<"LF", "CR">>
  <2>1. <<"LF", "CR">> \in Text /\ Len(<<"LF", "CR">>) >= 2
        /\ <<"LF", "CR">>[1] = "LF" /\ <<"LF", "CR">>[2] = "CR"
      BY DEF Text, Chars
  <2> QED
      BY <2>1, Beginnings
<1>5. Len(s) >= 2 => (SubSeq(Reverse(s), 1, 2) = <<"LF", "CR">>
                        <=> s[Len(s)] = "LF" /\ s[Len(s) - 1] = "CR")
  <2> SUFFICES ASSUME Len(s) >= 2
               PROVE  SubSeq(Reverse(s), 1, 2) = <<"LF", "CR">>
                        <=> s[Len(s)] = "LF" /\ s[Len(s) - 1] = "CR"
      OBVIOUS
  <2>1. SubSeq(Reverse(s), 1, 2) = <<Reverse(s)[1], Reverse(s)[2]>>
      BY <1>2, Beginnings
  <2>2. Reverse(s)[1] = s[Len(s)] /\ Reverse(s)[2] = s[Len(s) - 1]
      BY <1>1, <1>2
  <2> QED
      BY <2>1, <2>2
<1>6. EndsIn(s, <<"CR", "LF">>)
        <=> 2 <= Len(s) /\ SubSeq(<<"LF", "CR">>, 1, 2) = SubSeq(Reverse(s), 1, 2)
    BY <1>2, <1>3 DEF EndsIn, IsSuffix, IsPrefix
<1> QED
    BY <1>1, <1>4, <1>5, <1>6

LEMMA LineEndedIsLines == \A t \in Lines : LineEnded(t) \in Lines
BY AppendProperties DEF Lines, LineEnded

-----------------------------------------------------------------------------
(* One line ending throughout.                                             *)

\* No CR without its LF, and no line ending but the one given.
Clean(s, terminator) ==
    /\ ~BareCr(s)
    /\ terminator = <<"LF">> => \A k \in 1..Len(s) : s[k] # "CR"
    /\ terminator = <<"CR", "LF">> => ~BareLf(s)

LEMMA CleanEnd ==
    ASSUME NEW s \in Text, ~BareCr(s), s # <<>>
    PROVE  s[Len(s)] # "CR"
BY EmptySeq DEF BareCr, Text

LEMMA CleanConcat ==
    ASSUME NEW terminator \in Terminators, NEW a \in Text, NEW b \in Text,
           Clean(a, terminator), Clean(b, terminator)
    PROVE  Clean(a \o b, terminator) /\ a \o b \in Text
<1>1. Len(a) \in Nat /\ Len(b) \in Nat /\ a \o b \in Text /\ Len(a \o b) = Len(a) + Len(b)
    BY LenProperties, ConcatProperties DEF Text
<1>2. \A i \in 1..(Len(a) + Len(b)) : (a \o b)[i] = IF i <= Len(a) THEN a[i] ELSE b[i - Len(a)]
    BY ConcatProperties DEF Text
<1>3. ~BareCr(a \o b)
  <2> SUFFICES ASSUME NEW k \in 1..(Len(a) + Len(b)), (a \o b)[k] = "CR"
               PROVE  k # Len(a) + Len(b) /\ (a \o b)[k + 1] = "LF"
      BY <1>1 DEF BareCr
  <2>1. CASE k <= Len(a)
    <3>1. k \in 1..Len(a) /\ a[k] = "CR"
        BY <1>1, <1>2, <2>1
    <3>2. k # Len(a) /\ a[k + 1] = "LF"
        BY <3>1 DEF Clean, BareCr
    <3>3. k + 1 \in 1..(Len(a) + Len(b)) /\ k + 1 <= Len(a)
        BY <1>1, <3>1, <3>2
    <3> QED
        BY <1>1, <1>2, <3>2, <3>3
  <2>2. CASE ~(k <= Len(a))
    <3>1. k - Len(a) \in 1..Len(b) /\ b[k - Len(a)] = "CR"
        BY <1>1, <1>2, <2>2
    <3>2. k - Len(a) # Len(b) /\ b[(k - Len(a)) + 1] = "LF"
        BY <3>1 DEF Clean, BareCr
    <3>3. k + 1 \in 1..(Len(a) + Len(b)) /\ ~(k + 1 <= Len(a))
          /\ (k + 1) - Len(a) = (k - Len(a)) + 1
        BY <1>1, <2>2, <3>1, <3>2
    <3> QED
        BY <1>1, <1>2, <3>2, <3>3
  <2> QED
      BY <2>1, <2>2
<1>4. ASSUME terminator = <<"LF">>, NEW k \in 1..(Len(a) + Len(b)) PROVE (a \o b)[k] # "CR"
  <2>1. CASE k <= Len(a)
    <3>1. k \in 1..Len(a)
        BY <1>1, <2>1
    <3> QED
        BY <1>2, <1>4, <2>1, <3>1 DEF Clean
  <2>2. CASE ~(k <= Len(a))
    <3>1. k - Len(a) \in 1..Len(b)
        BY <1>1, <2>2
    <3> QED
        BY <1>2, <1>4, <2>2, <3>1 DEF Clean
  <2> QED
      BY <2>1, <2>2
<1>5. ASSUME terminator = <<"CR", "LF">> PROVE ~BareLf(a \o b)
  <2> SUFFICES ASSUME NEW k \in 1..(Len(a) + Len(b)), (a \o b)[k] = "LF"
               PROVE  k # 1 /\ (a \o b)[k - 1] = "CR"
      BY <1>1 DEF BareLf
  <2>1. CASE k <= Len(a)
    <3>1. k \in 1..Len(a) /\ a[k] = "LF"
        BY <1>1, <1>2, <2>1
    <3>2. k # 1 /\ a[k - 1] = "CR"
        BY <1>5, <3>1 DEF Clean, BareLf
    <3>3. k - 1 \in 1..(Len(a) + Len(b)) /\ k - 1 <= Len(a)
        BY <1>1, <3>1, <3>2
    <3> QED
        BY <1>2, <3>2, <3>3
  <2>2. CASE ~(k <= Len(a))
    <3>1. k - Len(a) \in 1..Len(b) /\ b[k - Len(a)] = "LF"
        BY <1>1, <1>2, <2>2
    <3>2. k - Len(a) # 1 /\ b[(k - Len(a)) - 1] = "CR"
        BY <1>5, <3>1 DEF Clean, BareLf
    <3>3. k - 1 \in 1..(Len(a) + Len(b)) /\ ~(k - 1 <= Len(a))
          /\ (k - 1) - Len(a) = (k - Len(a)) - 1 /\ k # 1
        BY <1>1, <2>2, <3>1, <3>2
    <3> QED
        BY <1>2, <3>2, <3>3
  <2> QED
      BY <2>1, <2>2
<1> QED
    BY <1>1, <1>3, <1>4, <1>5 DEF Clean

\* The line ending itself, and one character with the file's line ending.
LEMMA EndingFacts ==
    ASSUME NEW terminator \in Terminators, NEW c \in {"x", "LF"}
    PROVE  /\ Ended(terminator, c) \in Text /\ Clean(Ended(terminator, c), terminator)
           /\ Ended(terminator, c) # <<>>
           /\ Normalised(Ended(terminator, c)) = <<c>>
<1>1. \A d \in Chars : Normalised(<<d>>) = Piece(<<>>, d) /\ <<d>> \in Text
  <2> TAKE d \in Chars
  <2>1. <<>> \in Text /\ Append(<<>>, d) = <<d>>
      BY EmptySeq DEF Text
  <2>2. <<>> \o Piece(<<>>, d) = Piece(<<>>, d)
      BY <2>1, PieceFacts, ConcatEmptySeq DEF Lines
  <2>3. Normalised(Append(<<>>, d)) = Normalised(<<>>) \o Piece(<<>>, d)
      BY <2>1, NormalisedAppend
  <2>4. Normalised(<<d>>) = Piece(<<>>, d)
      BY <2>1, <2>2, <2>3, NormalisedNone
  <2>5. <<d>> \in Text
      BY DEF Text
  <2> QED
      BY <2>4, <2>5
<1>2. Normalised(<<"CR", "LF">>) = <<"LF">>
  <2>1. <<"CR">> \in Text /\ "CR" \in Chars /\ "LF" \in Chars
      BY DEF Text, Chars
  <2>5. Append(<<"CR">>, "LF") = <<"CR", "LF">>
    <3> DEFINE t == Append(<<"CR">>, "LF")
    <3>1. t \in Seq(Chars) /\ Len(t) = 2 /\ t[1] = "CR" /\ t[2] = "LF"
        BY <2>1, AppendProperties DEF Text
    <3>2. <<"CR", "LF">> \in Seq(Chars)
        BY <2>1
    <3> HIDE DEF t
    <3>3. t = <<"CR", "LF">>
        BY <3>1, <3>2, SeqEqual
    <3> QED
        BY <3>3 DEF t
  <2>6. Normalised(Append(<<"CR">>, "LF")) = Normalised(<<"CR">>) \o Piece(<<"CR">>, "LF")
      BY <2>1, NormalisedAppend
  <2>2. Normalised(<<"CR">>) = <<"LF">>
      BY <1>1, <2>1 DEF Piece
  <2>3. Piece(<<"CR">>, "LF") = <<>>
      BY DEF Piece
  <2>4. <<"LF">> \o <<>> = <<"LF">>
      OBVIOUS
  <2> QED
      BY <2>2, <2>3, <2>4, <2>5, <2>6
<1>3. Normalised(<<"x">>) = <<"x">> /\ Normalised(<<"LF">>) = <<"LF">>
    BY <1>1 DEF Piece, Chars
<1>4. <<"x">> \in Text /\ <<"LF">> \in Text /\ <<"CR", "LF">> \in Text
    BY DEF Text, Chars
<1>5. Clean(<<"x">>, <<"LF">>) /\ Clean(<<"LF">>, <<"LF">>) /\ Clean(<<"x">>, <<"CR", "LF">>)
    BY DEF Clean, BareCr, BareLf
<1>6. Clean(<<"CR", "LF">>, <<"CR", "LF">>)
    BY DEF Clean, BareCr, BareLf
<1> QED
    BY <1>2, <1>3, <1>4, <1>5, <1>6 DEF Ended, Terminators

\* Lines with the file's line ending have no other, and are read as the lines.
LEMMA WithTerminatorFacts ==
    ASSUME NEW terminator \in Terminators
    PROVE  \A t \in Lines :
             /\ WithTerminator(t, terminator) \in Text
             /\ Clean(WithTerminator(t, terminator), terminator)
             /\ Normalised(WithTerminator(t, terminator)) = t
<1> DEFINE Good(t) == /\ WithTerminator(t, terminator) \in Text
                      /\ Clean(WithTerminator(t, terminator), terminator)
                      /\ Normalised(WithTerminator(t, terminator)) = t
           P == {t \in Lines : Good(t)}
<1>1. Good(<<>>) /\ <<>> \in Lines
  <2>1. <<>> \in Text /\ <<>> \in Lines
      BY EmptySeq DEF Text, Lines
  <2>2. Clean(<<>>, terminator)
      BY DEF Clean, BareCr, BareLf
  <2> QED
      BY <2>1, <2>2, WithTerminatorNone, NormalisedNone
<1>2. ASSUME NEW t \in Lines, Good(t), NEW c \in {"x", "LF"}
      PROVE  Append(t, c) \in Lines /\ Good(Append(t, c))
  <2> DEFINE w == WithTerminator(t, terminator)
             e == Ended(terminator, c)
  <2>1. t \in Text /\ c \in Chars
      BY LinesAreText DEF Chars
  <2>2. WithTerminator(Append(t, c), terminator) = w \o e
      BY <2>1, WithTerminatorAppend
  <2>3. w \in Text /\ Clean(w, terminator) /\ Normalised(w) = t
      BY <1>2
  <2>4. e \in Text /\ Clean(e, terminator) /\ Normalised(e) = <<c>>
      BY EndingFacts
  <2> HIDE DEF w, e
  <2>5. w \o e \in Text /\ Clean(w \o e, terminator)
      BY <2>3, <2>4, CleanConcat
  <2>6. Parts(w, e)
      BY <2>3, CleanEnd DEF Parts, Clean
  <2>7. Normalised(w \o e) = t \o <<c>>
      BY <2>3, <2>4, <2>6, NormalisedConcat
  <2>8. Append(t, c) = t \o <<c>> /\ Append(t, c) \in Lines
      BY AppendIsConcat, AppendProperties DEF Lines
  <2> QED
      BY <2>2, <2>5, <2>7, <2>8
<1>3. \A t \in Lines : t \in P
  <2>1. <<>> \in P
      BY <1>1
  <2>2. \A t \in Lines : t \in P => \A c \in {"x", "LF"} : Append(t, c) \in P
      BY <1>2
  <2> HIDE DEF P
  <2> QED
      BY <2>1, <2>2, SequenceInduction DEF Lines
<1> QED
    BY <1>3

-----------------------------------------------------------------------------
(* One append.                                                             *)

LEMMA TerminatorFacts ==
    ASSUME NEW s \in Text, Uniform(s)
    PROVE  Terminator(s) \in Terminators /\ Clean(s, Terminator(s))
<1>1. Terminator(s) \in Terminators
    BY DEF Terminator, Terminators
<1>2. CASE HasCrlf(s)
  <2>1. Terminator(s) = <<"CR", "LF">> /\ <<"CR", "LF">> # <<"LF">>
      BY <1>2 DEF Terminator
  <2> QED
      BY <1>1, <1>2, <2>1 DEF Clean, Uniform
<1>3. CASE ~HasCrlf(s)
  <2>1. Terminator(s) = <<"LF">> /\ <<"CR", "LF">> # <<"LF">>
      BY <1>3 DEF Terminator
  <2>2. ASSUME NEW k \in 1..Len(s), s[k] = "CR" PROVE FALSE
    <3>1. Len(s) \in Nat
        BY LenProperties DEF Text
    <3>2. k # Len(s) /\ s[k + 1] = "LF"
        BY <2>2 DEF Uniform, BareCr
    <3>3. k + 1 \in 2..Len(s) /\ (k + 1) - 1 = k
        BY <3>1, <3>2
    <3> QED
        BY <1>3, <2>2, <3>2, <3>3 DEF HasCrlf
  <2> QED
      BY <1>1, <2>1, <2>2 DEF Clean, Uniform
<1> QED
    BY <1>2, <1>3

LEMMA CleanIsUniform ==
    ASSUME NEW s \in Text, NEW terminator \in Terminators, Clean(s, terminator)
    PROVE  Uniform(s) /\ (HasCrlf(s) => terminator = <<"CR", "LF">>)
<1>1. ASSUME HasCrlf(s) PROVE terminator = <<"CR", "LF">>
  <2>1. PICK k \in 2..Len(s) : s[k - 1] = "CR"
      BY <1>1 DEF HasCrlf
  <2>2. k - 1 \in 1..Len(s)
      BY LenProperties DEF Text
  <2> QED
      BY <2>1, <2>2 DEF Clean, Terminators
<1> QED
    BY <1>1 DEF Clean, Uniform

\* A file, with what closes its last line: whole lines, as a reader sees them.
LEMMA ClosedFile ==
    ASSUME NEW s \in Text, Uniform(s)
    PROVE  /\ s \o Separator(s) \in Text /\ Clean(s \o Separator(s), Terminator(s))
           /\ Normalised(s \o Separator(s))
                = IF Normalised(s) = <<>> THEN <<>> ELSE LineEnded(Normalised(s))
           /\ Separator(s) \in Text
<1> DEFINE T == Terminator(s)
           n == Normalised(s)
<1>1. T \in Terminators /\ Clean(s, T) /\ ~BareCr(s)
    BY TerminatorFacts DEF Uniform
<1>2. n \in Lines /\ n \in Text
    BY NormalisedIsLines, LinesAreText
<1>3. T \in Text /\ Clean(T, T) /\ T # <<>> /\ Normalised(T) = <<"LF">>
  <2>1. Ended(T, "LF") = T
      BY DEF Ended
  <2> HIDE DEF T
  <2> QED
      BY <1>1, <2>1, EndingFacts
<1>4. s \o <<>> = s /\ <<>> \in Text
    BY ConcatEmptySeq, EmptySeq DEF Text
<1>5. CASE s = <<>>
  <2>1. Separator(s) = <<>> /\ n = <<>>
      BY <1>5, NormalisedNone DEF Separator
  <2> QED
      BY <1>1, <1>4, <2>1
<1>6. CASE s # <<>> /\ EndsIn(s, T)
  <2>1. Separator(s) = <<>>
      BY <1>6 DEF Separator
  <2>2. s[Len(s)] = "LF"
      BY <1>1, <1>6, EndsInLf, EndsInCrlf DEF Terminators
  <2>3. n # <<>> /\ n[Len(n)] = "LF"
      BY <1>6, <2>2, NormalisedEnds
  <2>4. LineEnded(n) = n
      BY <1>2, <2>3, EndsInLf DEF LineEnded
  <2> QED
      BY <1>1, <1>4, <2>1, <2>3, <2>4
<1>7. CASE s # <<>> /\ ~EndsIn(s, T)
  <2>1. Separator(s) = T
      BY <1>7 DEF Separator
  <2>2. s[Len(s)] # "CR"
      BY <1>1, <1>7, CleanEnd
  <2>3. s[Len(s)] # "LF"
    <3>1. Len(s) \in Nat \ {0}
        BY <1>7, EmptySeq DEF Text
    <3>2. CASE T = <<"LF">>
        BY <1>7, <3>2, EndsInLf
    <3>3. CASE T = <<"CR", "LF">>
      <4>1. ~BareLf(s)
          BY <1>1, <3>3 DEF Clean
      <4> SUFFICES ASSUME s[Len(s)] = "LF" PROVE FALSE
          OBVIOUS
      <4>2. Len(s) # 1 /\ s[Len(s) - 1] = "CR"
          BY <3>1, <4>1 DEF BareLf
      <4>3. Len(s) >= 2
        <5>1. PICK m \in Nat \ {0} : m = Len(s)
            BY <3>1
        <5>2. m # 1
            BY <4>2, <5>1
        <5>3. m >= 2
            BY <5>1, <5>2
        <5> QED
            BY <5>1, <5>3
      <4> QED
          BY <1>7, <3>3, <4>2, <4>3, EndsInCrlf
    <3> QED
        BY <1>1, <3>2, <3>3 DEF Terminators
  <2>4. n # <<>> /\ n[Len(n)] = "x"
    <3>1. s[Len(s)] \in Chars
      <4>1. PICK t \in Text, c \in Chars : s[Len(s)] = c
          BY <1>7, TextIsAppend
      <4> QED
          BY <4>1
    <3> QED
        BY <1>7, <2>2, <2>3, <3>1, NormalisedEnds DEF Chars
  <2>5. LineEnded(n) = n \o <<"LF">>
    <3>1. ~EndsIn(n, <<"LF">>)
        BY <1>2, <2>4, EndsInLf
    <3>2. Append(n, "LF") = n \o <<"LF">>
        BY <1>2, AppendIsConcat DEF Lines
    <3> QED
        BY <3>1, <3>2 DEF LineEnded
  <2> HIDE DEF T, n
  <2>6. s \o T \in Text /\ Clean(s \o T, T)
      BY <1>1, <1>3, CleanConcat
  <2>7. Parts(s, T)
      BY <2>2 DEF Parts
  <2>8. Normalised(s \o T) = Normalised(s) \o <<"LF">>
      BY <1>3, <2>7, NormalisedConcat
  <2> QED
      BY <1>3, <2>1, <2>4, <2>5, <2>6, <2>8 DEF T, n
<1> QED
    BY <1>5, <1>6, <1>7

LEMMA OneAppend ==
    ASSUME NEW s \in Text, Uniform(s), NEW content \in Text
    PROVE  /\ s \o Appended(content, s) \in Text
           /\ Appended(content, s) \in Text
           /\ Uniform(s \o Appended(content, s))
           /\ HasCrlf(s \o Appended(content, s)) => HasCrlf(s)
           /\ Normalised(s \o Appended(content, s))
                = (IF Normalised(s) = <<>> THEN <<>> ELSE LineEnded(Normalised(s)))
                  \o LineEnded(Normalised(content))
<1> DEFINE T == Terminator(s)
           sep == Separator(s)
           lines == LineEnded(Normalised(content))
           body == WithTerminator(lines, T)
<1>1. T \in Terminators /\ (T = <<"CR", "LF">> => HasCrlf(s))
  <2>1. <<"CR", "LF">> # <<"LF">>
      OBVIOUS
  <2> QED
      BY <2>1, TerminatorFacts DEF Terminator
<1>2. lines \in Lines
    BY NormalisedIsLines, LineEndedIsLines
<1>3. Appended(content, s) = sep \o body
    BY DEF Appended, Body
<1>4. /\ s \o sep \in Text /\ Clean(s \o sep, T) /\ sep \in Text
      /\ Normalised(s \o sep) = IF Normalised(s) = <<>> THEN <<>> ELSE LineEnded(Normalised(s))
    BY ClosedFile
<1> HIDE DEF T, lines, sep
<1>5. body \in Text /\ Clean(body, T) /\ Normalised(body) = lines
    BY <1>1, <1>2, WithTerminatorFacts
<1> HIDE DEF body
<1>6. s \o (sep \o body) = (s \o sep) \o body /\ sep \o body \in Text
  <2>1. s \in Seq(Chars) /\ sep \in Seq(Chars) /\ body \in Seq(Chars)
      BY <1>4, <1>5 DEF Text
  <2>2. s \o (sep \o body) = (s \o sep) \o body
      BY <2>1, ConcatAssociative
  <2>3. sep \o body \in Seq(Chars)
      BY <2>1, ConcatProperties
  <2> QED
      BY <2>2, <2>3 DEF Text
<1>7. (s \o sep) \o body \in Text /\ Clean((s \o sep) \o body, T)
    BY <1>1, <1>4, <1>5, CleanConcat
<1>8. Parts(s \o sep, body)
    BY <1>4, CleanEnd DEF Parts, Clean
<1>9. Normalised((s \o sep) \o body) = Normalised(s \o sep) \o lines
    BY <1>4, <1>5, <1>8, NormalisedConcat
<1>10. Uniform((s \o sep) \o body) /\ (HasCrlf((s \o sep) \o body) => T = <<"CR", "LF">>)
    BY <1>1, <1>7, CleanIsUniform
<1> QED
    BY <1>1, <1>3, <1>4, <1>6, <1>7, <1>9, <1>10 DEF lines

-----------------------------------------------------------------------------
(* Notes of any line endings.                                              *)

\* What closes the last line of s: at most an empty line more, for a reader.
Seam(s) == \E gap \in Gaps(s) : Normalised(s \o Separator(s)) = Closed(Normalised(s)) \o gap

LEMMA ClosedAnyFile ==
    ASSUME NEW s \in Text
    PROVE  /\ Separator(s) \in Text /\ s \o Separator(s) \in Text
           /\ s \o Separator(s) # <<>> => (s \o Separator(s))[Len(s \o Separator(s))] = "LF"
           /\ Seam(s)
<1> DEFINE T == Terminator(s)
           n == Normalised(s)
<1>1. T \in Terminators /\ (T = <<"CR", "LF">> => HasCrlf(s))
  <2>1. <<"CR", "LF">> # <<"LF">>
      OBVIOUS
  <2> QED
      BY <2>1 DEF Terminator, Terminators
<1>2. n \in Lines /\ n \in Text
    BY NormalisedIsLines, LinesAreText
<1>3. T \in Text /\ T # <<>> /\ Normalised(T) = <<"LF">> /\ T[Len(T)] = "LF"
  <2>1. Ended(T, "LF") = T
      BY DEF Ended
  <2>2. T[Len(T)] = "LF"
      BY <1>1 DEF Terminators
  <2> HIDE DEF T
  <2> QED
      BY <1>1, <2>1, <2>2, EndingFacts
<1>4. /\ s \o <<>> = s /\ <<>> \in Text /\ n \o <<>> = n
      /\ Closed(n) \o <<>> = Closed(n)
  <2>1. Closed(n) \in Lines
      BY <1>2, LineEndedIsLines DEF Closed
  <2> QED
      BY <1>2, <2>1, ConcatEmptySeq, EmptySeq DEF Text, Lines
<1>5. <<>> \in Gaps(s) /\ (Mixed(s) => <<"LF">> \in Gaps(s))
    BY DEF Gaps
<1>6. ASSUME s # <<>>, s[Len(s)] \in {"CR", "LF"} PROVE Closed(n) = n
  <2>1. n # <<>> /\ n[Len(n)] = "LF"
      BY <1>6, NormalisedEnds
  <2> QED
      BY <1>2, <2>1, EndsInLf DEF LineEnded, Closed
<1>7. CASE s = <<>>
  <2>1. Separator(s) = <<>> /\ n = <<>> /\ Closed(n) = <<>>
      BY <1>7, NormalisedNone DEF Separator, Closed
  <2> QED
      BY <1>4, <1>5, <1>7, <2>1 DEF Seam
<1>8. CASE s # <<>> /\ EndsIn(s, T)
  <2>1. Separator(s) = <<>>
      BY <1>8 DEF Separator
  <2>2. s[Len(s)] = "LF"
      BY <1>1, <1>8, EndsInLf, EndsInCrlf DEF Terminators
  <2> QED
      BY <1>4, <1>5, <1>6, <1>8, <2>1, <2>2 DEF Seam
<1>9. CASE s # <<>> /\ ~EndsIn(s, T)
  <2>1. Separator(s) = T
      BY <1>9 DEF Separator
  <2>2. s \o T \in Text /\ s \o T # <<>> /\ (s \o T)[Len(s \o T)] = "LF"
    <3> HIDE DEF T
    <3>1. s \o T \in Text
        BY <1>3, ConcatProperties DEF Text
    <3> QED
        BY <1>3, <3>1, ConcatEnds
  <2>3. s[Len(s)] \in Chars
    <3>1. PICK t \in Text, c \in Chars : s[Len(s)] = c
        BY <1>9, TextIsAppend
    <3> QED
        BY <3>1
  <2>4. ASSUME Parts(s, T) PROVE Normalised(s \o T) = n \o <<"LF">>
    <3> HIDE DEF T, n
    <3> QED
        BY <1>3, <2>4, NormalisedConcat DEF n
  <2>5. CASE s[Len(s)] = "x"
    <3>1. Parts(s, T)
        BY <2>5 DEF Parts
    <3>2. n # <<>> /\ n[Len(n)] = "x"
        BY <1>9, <2>5, NormalisedEnds
    <3>3. Closed(n) = n \o <<"LF">>
      <4>1. ~EndsIn(n, <<"LF">>)
          BY <1>2, <3>2, EndsInLf
      <4>2. Append(n, "LF") = n \o <<"LF">>
          BY <1>2, AppendIsConcat DEF Lines
      <4> QED
          BY <3>2, <4>1, <4>2 DEF LineEnded, Closed
    <3> QED
        BY <1>3, <1>4, <1>5, <2>1, <2>2, <2>4, <3>1, <3>3 DEF Seam
  <2>6. CASE s[Len(s)] = "CR" /\ T = <<"LF">>
    <3>1. Append(s, "LF") = s \o <<"LF">> /\ "LF" \in Chars
        BY AppendIsConcat DEF Text, Chars
    <3>2. Normalised(s \o <<"LF">>) = n \o Piece(s, "LF")
        BY <3>1, NormalisedAppend
    <3>3. Piece(s, "LF") = <<>>
        BY <1>9, <2>6 DEF Piece
    <3>4. Normalised(s \o T) = n
        BY <1>4, <2>6, <3>2, <3>3
    <3> QED
        BY <1>3, <1>4, <1>5, <1>6, <1>9, <2>1, <2>2, <2>6, <3>4 DEF Seam
  <2>7. CASE s[Len(s)] = "CR" /\ T = <<"CR", "LF">>
    <3>1. Parts(s, T)
        BY <2>7 DEF Parts
    <3>2. BareCr(s)
      <4>1. Len(s) \in Nat \ {0}
          BY <1>9, EmptySeq DEF Text
      <4> QED
          BY <2>7, <4>1 DEF BareCr
    <3>3. Mixed(s)
        BY <1>1, <2>7, <3>2 DEF Mixed
    <3> QED
        BY <1>3, <1>5, <1>6, <1>9, <2>1, <2>2, <2>4, <2>7, <3>1, <3>3 DEF Seam
  <2>8. CASE s[Len(s)] = "LF"
    <3>1. T = <<"CR", "LF">>
        BY <1>1, <1>9, <2>8, EndsInLf DEF Terminators
    <3>2. Parts(s, T)
        BY <2>8 DEF Parts
    <3>3. BareLf(s)
      <4>1. PICK m \in Nat \ {0} : m = Len(s)
          BY <1>9, EmptySeq DEF Text
      <4>2. ~(m >= 2 /\ s[m - 1] = "CR")
          BY <1>9, <2>8, <3>1, <4>1, EndsInCrlf
      <4>3. m \in 1..Len(s) /\ s[m] = "LF" /\ (m = 1 \/ s[m - 1] # "CR")
          BY <2>8, <4>1, <4>2
      <4> QED
          BY <4>3 DEF BareLf
    <3>4. Mixed(s)
        BY <1>1, <3>1, <3>3 DEF Mixed
    <3> QED
        BY <1>3, <1>5, <1>6, <1>9, <2>1, <2>2, <2>4, <2>8, <3>2, <3>4 DEF Seam
  <2> QED
      BY <1>1, <2>3, <2>5, <2>6, <2>7, <2>8 DEF Chars, Terminators
<1> QED
    BY <1>7, <1>8, <1>9

LEMMA AnyAppend ==
    ASSUME NEW s \in Text, NEW content \in Text
    PROVE  /\ s \o Appended(content, s) \in Text
           /\ Normalised(s \o Appended(content, s)) \in Views(Normalised(s), content, s)
<1> DEFINE T == Terminator(s)
           sep == Separator(s)
           lines == LineEnded(Normalised(content))
           body == WithTerminator(lines, T)
<1>1. T \in Terminators
    BY DEF Terminator, Terminators
<1>2. lines \in Lines
    BY NormalisedIsLines, LineEndedIsLines
<1>3. Appended(content, s) = sep \o body
    BY DEF Appended, Body
<1>4. /\ s \o sep \in Text /\ sep \in Text
      /\ s \o sep # <<>> => (s \o sep)[Len(s \o sep)] = "LF"
      /\ Seam(s)
    BY ClosedAnyFile
<1>5. PICK gap \in Gaps(s) : Normalised(s \o sep) = Closed(Normalised(s)) \o gap
    BY <1>4 DEF Seam
<1> HIDE DEF T, lines, sep
<1>6. body \in Text /\ Normalised(body) = lines
    BY <1>1, <1>2, WithTerminatorFacts
<1> HIDE DEF body
<1>7. s \o (sep \o body) = (s \o sep) \o body /\ (s \o sep) \o body \in Text
  <2>1. s \in Seq(Chars) /\ sep \in Seq(Chars) /\ body \in Seq(Chars) /\ s \o sep \in Seq(Chars)
      BY <1>4, <1>6 DEF Text
  <2>2. s \o (sep \o body) = (s \o sep) \o body
      BY <2>1, ConcatAssociative
  <2>3. (s \o sep) \o body \in Seq(Chars)
      BY <2>1, ConcatProperties
  <2> QED
      BY <2>2, <2>3 DEF Text
<1>8. Parts(s \o sep, body)
    BY <1>4 DEF Parts
<1>9. Normalised((s \o sep) \o body) = Normalised(s \o sep) \o lines
    BY <1>4, <1>6, <1>8, NormalisedConcat
<1> QED
    BY <1>3, <1>5, <1>7, <1>9 DEF Views, lines

-----------------------------------------------------------------------------
(* The theorems.                                                           *)

BytesInv == /\ file \in Text /\ appends \in Nat
            /\ NotesReadAsWritten /\ MixedNotesReadInOrder

LEMMA TextsAreText == \A n \in Nat : Texts(n) \subseteq Text
<1> SUFFICES ASSUME NEW n \in Nat, NEW t \in Texts(n) PROVE t \in Text
    OBVIOUS
<1>1. PICK k \in 0..n : t \in [1..k -> Chars]
    BY DEF Texts
<1>2. k \in Nat
    OBVIOUS
<1> QED
    BY <1>1, <1>2, SeqDef DEF Text

LEMMA InitBytes == Init => BytesInv
<1> SUFFICES ASSUME Init PROVE BytesInv
    OBVIOUS
<1>1. file \in Text
  <2>1. CASE file \in Texts(MaxFileLength)
      BY <2>1, TextsAreText, BytesAssumption
  <2>2. CASE file \in {Rendered(c) : c \in Texts(MaxContentLength)}
    <3>1. PICK c \in Texts(MaxContentLength) : file = Rendered(c)
        BY <2>2
    <3>2. Normalised(c) \in Lines
        BY TextsAreText, NormalisedIsLines, BytesAssumption
    <3>3. file \in Lines
        BY <3>1, <3>2, LineEndedIsLines DEF Rendered
    <3> QED
        BY <3>3, LinesAreText
  <2> QED
      BY <2>1, <2>2 DEF Init
<1> QED
    BY <1>1 DEF Init, BytesInv, NotesReadAsWritten, MixedNotesReadInOrder

\* To a note of one line ending there is one way to append.
LEMMA UniformViews ==
    ASSUME NEW s \in Text, Uniform(s), NEW content \in Text
    PROVE  Views(Normalised(s), content, s)
             = {(IF Normalised(s) = <<>> THEN <<>> ELSE LineEnded(Normalised(s)))
                  \o LineEnded(Normalised(content))}
<1>1. Gaps(s) = {<<>>}
    BY DEF Uniform, Mixed, Gaps
<1>2. Normalised(s) \in Lines
    BY NormalisedIsLines
<1>3. Closed(Normalised(s)) \in Lines
    BY <1>2, LineEndedIsLines DEF Closed
<1>4. Closed(Normalised(s)) \o <<>> = Closed(Normalised(s))
    BY <1>3, ConcatEmptySeq DEF Lines
<1> QED
    BY <1>1, <1>4 DEF Views, Closed

LEMMA AppendKeepsBytes ==
    ASSUME BytesInv, NEW content \in Contents, AppendNote(content)
    PROVE  BytesInv'
<1>1. content \in Text
    BY TextsAreText, BytesAssumption DEF Contents
<1>2. file \in Text /\ NotesReadAsWritten /\ MixedNotesReadInOrder
    BY DEF BytesInv
<1>3. /\ file' = file \o Appended(content, file) /\ made' = made
      /\ readers' = UNION {Views(r, content, file) : r \in readers}
      /\ appends' \in Nat
    BY DEF AppendNote, BytesInv
<1>4. PICK s : s = file
    OBVIOUS
<1>5. file' \in Text /\ Normalised(file)' \in Views(Normalised(s), content, s)
    BY <1>1, <1>2, <1>3, <1>4, AnyAppend
<1>6. MixedNotesReadInOrder'
  <2>1. Normalised(s) \in readers
      BY <1>2, <1>4 DEF MixedNotesReadInOrder
  <2>2. Views(Normalised(s), content, s) \subseteq readers'
      BY <1>3, <1>4, <2>1
  <2> QED
      BY <1>5, <2>2 DEF MixedNotesReadInOrder
<1>7. NotesReadAsWritten'
  <2> SUFFICES ASSUME Uniform(made)
               PROVE  /\ Uniform(file)' /\ (HasCrlf(file)' => HasCrlf(made))
                      /\ readers' = {Normalised(file)'}
      BY <1>3 DEF NotesReadAsWritten
  <2>1. Uniform(s) /\ (HasCrlf(s) => HasCrlf(made)) /\ readers = {Normalised(s)}
      BY <1>2, <1>4 DEF NotesReadAsWritten
  <2>2. readers' = Views(Normalised(s), content, s)
      BY <1>3, <1>4, <2>1
  <2>3. Uniform(file)' /\ (HasCrlf(file)' => HasCrlf(s))
      BY <1>1, <1>2, <1>3, <1>4, <2>1, OneAppend
  <2>4. readers' = {Normalised(file)'}
    <3>1. \E v : readers' = {v}
        BY <1>1, <1>2, <1>4, <2>1, <2>2, UniformViews
    <3> QED
        BY <1>5, <2>2, <3>1
  <2> QED
      BY <2>1, <2>3, <2>4
<1> QED
    BY <1>3, <1>5, <1>6, <1>7 DEF BytesInv

LEMMA BytesInvariance == Spec => []BytesInv
<1>1. BytesInv /\ [Next]_vars => BytesInv'
  <2> SUFFICES ASSUME BytesInv, [Next]_vars PROVE BytesInv'
      OBVIOUS
  <2>1. CASE \E c \in Contents : AppendNote(c)
      BY <2>1, AppendKeepsBytes
  <2>2. CASE UNCHANGED vars
      BY <2>2 DEF vars, BytesInv, NotesReadAsWritten, MixedNotesReadInOrder
  <2> QED
      BY <2>1, <2>2 DEF Next, Refused
<1> QED
    BY <1>1, InitBytes, PTL DEF Spec

\* For texts of any length and any number of appends: a note of one line ending
\* keeps it, and a reader sees every text on lines of its own
\* (inbox_service._append_bytes, _render_note).
THEOREM NotesAlwaysReadAsWritten == Spec => []NotesReadAsWritten
<1>1. BytesInv => NotesReadAsWritten
    BY DEF BytesInv
<1> QED
    BY <1>1, BytesInvariance, PTL

\* For notes of any length and any line endings, and any number of appends: the
\* texts are read in their order, on lines of their own, with at most an empty
\* line where a note of mixed endings is closed (inbox_service._append_bytes).
THEOREM AnyNoteReadsInOrder == Spec => []MixedNotesReadInOrder
<1>1. BytesInv => MixedNotesReadInOrder
    BY DEF BytesInv
<1> QED
    BY <1>1, BytesInvariance, PTL
=============================================================================
