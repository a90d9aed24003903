---------------------------- MODULE ParserProofs ----------------------------
(***************************************************************************)
(* What the parsers keep and find, for texts and tables of every length:   *)
(* parse_vn_number keeps the digits and the sign of a text and reads what  *)
(* is printed in Vietnamese notation, _TableRowParser keeps the cells of a *)
(* row together and finds every row, find_table_html every table.          *)
(*                                                                         *)
(* The parsers are recursive functions.  A proof about one first shows     *)
(* that a function with that equation exists, which its definition only    *)
(* chooses, and then goes by induction.  Induction is over a set, Good, of *)
(* the numbers or sequences for which the claim holds.                     *)
(***************************************************************************)
EXTENDS NumberParser, TableRows, SequenceTheorems, WellFoundedInduction, TLAPS

-----------------------------------------------------------------------------
(* Induction                                                               *)

\* A set of numbers has a smallest one.
LEMMA SmallestNumber ==
    ASSUME NEW Bad \in SUBSET Nat, Bad # {}
    PROVE  \E n \in Bad : \A m \in Bad : n <= m
  <1>1. \E n \in Bad : \A m \in Bad : ~(<<m, n>> \in OpToRel(<, Nat))
    BY NatLessThanWellFounded, WFMin, Zenon
  <1>2. \E n \in Bad : \A m \in Bad : ~(m < n)
    BY <1>1, Zenon DEF OpToRel
  <1> QED
    BY <1>2

\* Induction over the numbers.
LEMMA NumberInduction ==
    ASSUME NEW Good, 0 \in Good, \A n \in Nat : n \in Good => n + 1 \in Good
    PROVE  Nat \subseteq Good
  <1> DEFINE Bad == Nat \ Good
  <1>1. ASSUME Bad # {}
        PROVE  FALSE
    <2>1. PICK n \in Bad : \A m \in Bad : n <= m
      <3>1. Bad \in SUBSET Nat
        OBVIOUS
      <3> HIDE DEF Bad
      <3> QED
        BY <1>1, <3>1, SmallestNumber
    <2>2. n # 0 /\ n - 1 \in Nat /\ n - 1 \notin Bad
      BY <2>1
    <2>3. (n - 1) + 1 \in Good
      BY <2>2
    <2> QED
      BY <2>1, <2>3
  <1> QED
    BY <1>1

\* Induction over the sequences.
LEMMA SequenceInduction ==
    ASSUME NEW X, NEW Good, <<>> \in Good,
           \A s \in Seq(X), x \in X : s \in Good => Append(s, x) \in Good
    PROVE  Seq(X) \subseteq Good
  <1> DEFINE Done == {n \in Nat : \A s \in Seq(X) : Len(s) = n => s \in Good}
  <1>1. 0 \in Done
    BY EmptySeq
  <1>2. ASSUME NEW n \in Nat, n \in Done
        PROVE  n + 1 \in Done
    <2>1. ASSUME NEW s \in Seq(X), Len(s) = n + 1
          PROVE  s \in Good
      <3>1. s # <<>>
        BY <2>1, EmptySeq
      <3>2. PICK t \in Seq(X), x \in X : s = Append(t, x)
        BY <3>1, SequenceEmptyOrAppend
      <3>3. Len(t) = n
        BY <2>1, <3>2, AppendProperties, LenProperties
      <3> QED
        BY <1>2, <3>2, <3>3
    <2> QED
      BY <2>1
  <1>3. Nat \subseteq Done
    <2> HIDE DEF Done
    <2> QED
      BY <1>1, <1>2, NumberInduction
  <1>4. ASSUME NEW s \in Seq(X)
        PROVE  s \in Good
    BY <1>3, LenProperties
  <1> QED
    BY <1>4

-----------------------------------------------------------------------------
(* Only                                                                    *)

\* g has what is kept of the first n elements, for every n up to m.
Kept(seq, S, m, g) ==
    /\ g[0] = <<>>
    /\ \A n \in 1 .. m : g[n] = IF seq[n] \in S THEN Append(g[n - 1], seq[n]) ELSE g[n - 1]

KeptFunction(seq, S, m, g) ==
    g = [n \in 0 .. m |->
           IF n = 0 THEN <<>>
           ELSE IF seq[n] \in S THEN Append(g[n - 1], seq[n]) ELSE g[n - 1]]

\* A function with the equation of Only has its values.
LEMMA KeptEquation ==
    ASSUME NEW seq, NEW S, NEW m \in Nat, NEW g, KeptFunction(seq, S, m, g)
    PROVE  Kept(seq, S, m, g)
  <1> DEFINE body(n) == IF n = 0 THEN <<>>
                        ELSE IF seq[n] \in S THEN Append(g[n - 1], seq[n]) ELSE g[n - 1]
  <1>1. g = [n \in 0 .. m |-> body(n)]
    BY Zenon DEF KeptFunction
  <1>2. \A n \in 0 .. m : g[n] = body(n)
    <2> HIDE DEF body
    <2> QED
      BY <1>1
  <1>3. 0 \in 0 .. m /\ \A n \in 1 .. m : n \in 0 .. m /\ n # 0
    OBVIOUS
  <1> QED
    BY <1>2, <1>3, Zenon DEF Kept

\* The function that the definition of Only chooses exists.
LEMMA KeptExists ==
    ASSUME NEW seq, NEW S, NEW m \in Nat
    PROVE  \E g : KeptFunction(seq, S, m, g)
  <1> DEFINE Good == {n \in Nat : \E g : KeptFunction(seq, S, n, g)}
  <1>1. 0 \in Good
    <2>1. KeptFunction(seq, S, 0, [n \in 0 .. 0 |-> <<>>])
      BY DEF KeptFunction
    <2> QED
      BY <2>1
  <1>2. ASSUME NEW n \in Nat, n \in Good
        PROVE  n + 1 \in Good
    <2>1. PICK g : KeptFunction(seq, S, n, g)
      BY <1>2
    <2>2. Kept(seq, S, n, g)
      BY <2>1, KeptEquation
    <2> DEFINE last == IF seq[n + 1] \in S THEN Append(g[n], seq[n + 1]) ELSE g[n]
               h    == [i \in 0 .. n + 1 |-> IF i = n + 1 THEN last ELSE g[i]]
    <2>3. ASSUME NEW i \in 0 .. n + 1
          PROVE  h[i] = IF i = 0 THEN <<>>
                        ELSE IF seq[i] \in S THEN Append(h[i - 1], seq[i]) ELSE h[i - 1]
      <3>1. CASE i = 0
        BY <2>2, <3>1 DEF Kept
      <3>2. CASE i \in 1 .. n
        BY <2>2, <3>2 DEF Kept
      <3>3. CASE i = n + 1
        BY <3>3
      <3> QED
        BY <3>1, <3>2, <3>3
    <2>4. h = [i \in 0 .. n + 1 |-> h[i]]
      OBVIOUS
    <2>5. KeptFunction(seq, S, n + 1, h)
      <3> HIDE DEF h
      <3> QED
        BY <2>3, <2>4 DEF KeptFunction
    <2> QED
      BY <2>5
  <1> HIDE DEF Good
  <1>3. Nat \subseteq Good
    BY <1>1, <1>2, NumberInduction
  <1> QED
    BY <1>3 DEF Good

\* The definition of Only as an equation.
LEMMA OnlyKeeps ==
    ASSUME NEW seq, NEW S, Len(seq) \in Nat
    PROVE  \E g : Kept(seq, S, Len(seq), g) /\ Only(seq, S) = g[Len(seq)]
  <1> DEFINE g == CHOOSE h : KeptFunction(seq, S, Len(seq), h)
  <1>1. Only(seq, S) = g[Len(seq)]
    BY DEF Only, KeptFunction
  <1>2. KeptFunction(seq, S, Len(seq), g)
    BY KeptExists
  <1> HIDE DEF g
  <1>3. Kept(seq, S, Len(seq), g)
    BY <1>2, KeptEquation
  <1> QED
    BY <1>1, <1>3

\* Nothing is kept of nothing.
LEMMA OnlyEmpty ==
    ASSUME NEW S
    PROVE  Only(<<>>, S) = <<>>
  <1>1. Len(<<>>) = 0
    BY EmptySeq
  <1>2. PICK g : Kept(<<>>, S, Len(<<>>), g) /\ Only(<<>>, S) = g[Len(<<>>)]
    BY <1>1, OnlyKeeps
  <1> QED
    BY <1>1, <1>2 DEF Kept

\* An element more is kept or dropped.
LEMMA OnlyAppend ==
    ASSUME NEW X, NEW seq \in Seq(X), NEW x \in X, NEW S
    PROVE  Only(Append(seq, x), S) =
             IF x \in S THEN Append(Only(seq, S), x) ELSE Only(seq, S)
  <1> DEFINE m    == Len(seq)
             more == Append(seq, x)
  <1>1. m \in Nat /\ Len(more) = m + 1 /\ more[m + 1] = x /\ \A n \in 1 .. m : more[n] = seq[n]
    BY AppendProperties, LenProperties
  <1> HIDE DEF m, more
  <1>2. PICK g : Kept(seq, S, m, g) /\ Only(seq, S) = g[m]
    BY <1>1, OnlyKeeps DEF m
  <1>3. PICK k : Kept(more, S, m + 1, k) /\ Only(more, S) = k[m + 1]
    <2>1. Len(more) \in Nat
      BY <1>1
    <2> QED
      BY <1>1, <2>1, OnlyKeeps
  <1>4. g[m] = k[m]
    <2> DEFINE Good == {n \in Nat : n <= m => g[n] = k[n]}
    <2>1. 0 \in Good
      BY <1>2, <1>3 DEF Kept
    <2>2. ASSUME NEW n \in Nat, n \in Good
          PROVE  n + 1 \in Good
      BY <1>1, <1>2, <1>3, <2>2 DEF Kept
    <2> HIDE DEF Good
    <2>3. Nat \subseteq Good
      BY <2>1, <2>2, NumberInduction
    <2> QED
      BY <1>1, <2>3 DEF Good
  <1> QED
    BY <1>1, <1>2, <1>3, <1>4 DEF more, Kept

\* What is kept is in S and of the type it was.
LEMMA OnlyType ==
    ASSUME NEW X, NEW S, NEW seq \in Seq(X)
    PROVE  Only(seq, S) \in Seq(X \cap S)
  <1> DEFINE Good == {s \in Seq(X) : Only(s, S) \in Seq(X \cap S)}
  <1>1. <<>> \in Good
    BY OnlyEmpty, EmptySeq
  <1>2. ASSUME NEW s \in Seq(X), NEW x \in X, s \in Good
        PROVE  Append(s, x) \in Good
    <2>1. Append(s, x) \in Seq(X)
      BY AppendProperties
    <2>2. CASE x \in S
      <3>1. Append(Only(s, S), x) \in Seq(X \cap S)
        <4>1. x \in X \cap S /\ Only(s, S) \in Seq(X \cap S)
          BY <1>2, <2>2
        <4> QED
          BY <4>1, AppendProperties
      <3>2. Only(Append(s, x), S) = Append(Only(s, S), x)
        BY <2>2, OnlyAppend
      <3> QED
        BY <2>1, <3>1, <3>2
    <2>3. CASE x \notin S
      BY <1>2, <2>1, <2>3, OnlyAppend
    <2> QED
      BY <2>2, <2>3
  <1> HIDE DEF Good
  <1>3. Seq(X) \subseteq Good
    BY <1>1, <1>2, SequenceInduction
  <1> QED
    BY <1>3 DEF Good

\* What is kept is a sequence.
LEMMA OnlyIsSeq ==
    ASSUME NEW X, NEW S, NEW seq \in Seq(X)
    PROVE  Only(seq, S) \in Seq(X) /\ Len(Only(seq, S)) \in Nat
  <1>1. Only(seq, S) \in Seq(X \cap S) /\ X \cap S \subseteq X
    BY OnlyType
  <1>2. Only(seq, S) \in Seq(X)
    BY <1>1, SeqMonotonic
  <1> QED
    BY <1>2, LenProperties

\* What is kept depends on which of its elements are in S only.
LEMMA OnlyCongruence ==
    ASSUME NEW X, NEW S, NEW T, NEW seq \in Seq(X),
           \A i \in DOMAIN seq : seq[i] \in S <=> seq[i] \in T
    PROVE  Only(seq, S) = Only(seq, T)
  <1> DEFINE Same(s) == \A i \in DOMAIN s : s[i] \in S <=> s[i] \in T
             Good    == {s \in Seq(X) : Same(s) => Only(s, S) = Only(s, T)}
  <1>1. <<>> \in Good
    BY OnlyEmpty, EmptySeq
  <1>2. ASSUME NEW s \in Seq(X), NEW x \in X, s \in Good
        PROVE  Append(s, x) \in Good
    <2>1. /\ Append(s, x) \in Seq(X) /\ DOMAIN Append(s, x) = 1 .. Len(s) + 1
          /\ Append(s, x)[Len(s) + 1] = x /\ \A i \in 1 .. Len(s) : Append(s, x)[i] = s[i]
          /\ DOMAIN s = 1 .. Len(s) /\ Len(s) \in Nat
      BY AppendProperties, LenProperties
    <2>2. ASSUME Same(Append(s, x))
          PROVE  Same(s) /\ (x \in S <=> x \in T)
      BY <2>1, <2>2
    <2>3. ASSUME Same(Append(s, x))
          PROVE  Only(Append(s, x), S) = Only(Append(s, x), T)
      <3>1. Only(s, S) = Only(s, T) /\ (x \in S <=> x \in T)
        BY <1>2, <2>2, <2>3
      <3>2. Only(Append(s, x), S) = IF x \in S THEN Append(Only(s, S), x) ELSE Only(s, S)
        BY OnlyAppend
      <3>3. Only(Append(s, x), T) = IF x \in T THEN Append(Only(s, T), x) ELSE Only(s, T)
        BY OnlyAppend
      <3> QED
        BY <3>1, <3>2, <3>3
    <2> QED
      BY <2>1, <2>3
  <1> HIDE DEF Good
  <1>3. Seq(X) \subseteq Good
    BY <1>1, <1>2, SequenceInduction
  <1> QED
    BY <1>3 DEF Good

\* Two sequences one after the other.
LEMMA OnlyConcat ==
    ASSUME NEW X, NEW S, NEW left \in Seq(X), NEW right \in Seq(X)
    PROVE  Only(left \o right, S) = Only(left, S) \o Only(right, S)
  <1> DEFINE Good == {s \in Seq(X) : Only(left \o s, S) = Only(left, S) \o Only(s, S)}
  <1>1. <<>> \in Good
    <2>1. left \o <<>> = left
      BY ConcatEmptySeq
    <2>2. Only(left, S) \o <<>> = Only(left, S)
      BY OnlyIsSeq, ConcatEmptySeq
    <2>3. <<>> \in Seq(X)
      BY EmptySeq
    <2> QED
      BY <2>1, <2>2, <2>3, OnlyEmpty
  <1>2. ASSUME NEW s \in Seq(X), NEW x \in X, s \in Good
        PROVE  Append(s, x) \in Good
    <2>1. left \o Append(s, x) = Append(left \o s, x) /\ left \o s \in Seq(X)
      OBVIOUS
    <2>2. Only(left, S) \in Seq(X) /\ Only(s, S) \in Seq(X)
      BY OnlyIsSeq
    <2>3. Only(left, S) \o Append(Only(s, S), x) = Append(Only(left, S) \o Only(s, S), x)
      BY <2>2
    <2>4. Only(left \o Append(s, x), S) = Only(left, S) \o Only(Append(s, x), S)
      <3>1. Only(left \o s, S) = Only(left, S) \o Only(s, S)
        BY <1>2
      <3>2. Only(Append(left \o s, x), S) =
              IF x \in S THEN Append(Only(left \o s, S), x) ELSE Only(left \o s, S)
        BY <2>1, OnlyAppend
      <3>3. Only(Append(s, x), S) = IF x \in S THEN Append(Only(s, S), x) ELSE Only(s, S)
        BY OnlyAppend
      <3> QED
        BY <2>1, <2>3, <3>1, <3>2, <3>3
    <2> QED
      BY <2>4, AppendProperties
  <1> HIDE DEF Good
  <1>3. Seq(X) \subseteq Good
    BY <1>1, <1>2, SequenceInduction
  <1> QED
    BY <1>3 DEF Good

\* A sequence over S is kept whole.
LEMMA OnlyAll ==
    ASSUME NEW S, NEW seq \in Seq(S)
    PROVE  Only(seq, S) = seq
  <1> DEFINE Good == {s \in Seq(S) : Only(s, S) = s}
  <1>1. <<>> \in Good
    BY OnlyEmpty, EmptySeq
  <1>2. ASSUME NEW s \in Seq(S), NEW x \in S, s \in Good
        PROVE  Append(s, x) \in Good
    BY <1>2, OnlyAppend, AppendProperties
  <1> HIDE DEF Good
  <1>3. Seq(S) \subseteq Good
    BY <1>1, <1>2, SequenceInduction
  <1> QED
    BY <1>3 DEF Good

\* Nothing is kept where nothing is in S, and only there.
LEMMA OnlyNone ==
    ASSUME NEW X, NEW S, NEW seq \in Seq(X)
    PROVE  Only(seq, S) = <<>> <=> \A i \in DOMAIN seq : seq[i] \notin S
  <1> DEFINE Good == {s \in Seq(X) : Only(s, S) = <<>> <=> \A i \in DOMAIN s : s[i] \notin S}
  <1>1. <<>> \in Good
    BY OnlyEmpty, EmptySeq
  <1>2. ASSUME NEW s \in Seq(X), NEW x \in X, s \in Good
        PROVE  Append(s, x) \in Good
    <2>1. /\ Append(s, x) \in Seq(X) /\ DOMAIN Append(s, x) = 1 .. Len(s) + 1
          /\ Append(s, x)[Len(s) + 1] = x /\ \A i \in 1 .. Len(s) : Append(s, x)[i] = s[i]
          /\ DOMAIN s = 1 .. Len(s) /\ Len(s) \in Nat
      BY AppendProperties, LenProperties
    <2>2. CASE x \in S
      <3>1. Only(Append(s, x), S) # <<>>
        <4>1. Only(s, S) \in Seq(X)
          BY OnlyIsSeq
        <4> QED
          BY <2>2, <4>1, OnlyAppend, AppendProperties
      <3>2. Len(s) + 1 \in DOMAIN Append(s, x)
        BY <2>1
      <3> QED
        BY <2>1, <2>2, <3>1, <3>2
    <2>3. CASE x \notin S
      <3>1. Only(Append(s, x), S) = Only(s, S)
        BY <2>3, OnlyAppend
      <3>2. (\A i \in DOMAIN Append(s, x) : Append(s, x)[i] \notin S)
              <=> \A i \in DOMAIN s : s[i] \notin S
        BY <2>1, <2>3
      <3> QED
        BY <1>2, <2>1, <3>1, <3>2
    <2> QED
      BY <2>2, <2>3
  <1> HIDE DEF Good
  <1>3. Seq(X) \subseteq Good
    BY <1>1, <1>2, SequenceInduction
  <1> QED
    BY <1>3 DEF Good

\* Keeping T of what was kept.
LEMMA OnlyTwice ==
    ASSUME NEW X, NEW S, NEW T, NEW seq \in Seq(X), \A x \in X : x \in T => x \in S
    PROVE  Only(Only(seq, S), T) = Only(seq, T)
  <1> DEFINE Good == {s \in Seq(X) : Only(Only(s, S), T) = Only(s, T)}
  <1>1. <<>> \in Good
    BY OnlyEmpty, EmptySeq
  <1>2. ASSUME NEW s \in Seq(X), NEW x \in X, s \in Good
        PROVE  Append(s, x) \in Good
    <2>1. Only(s, S) \in Seq(X)
      BY OnlyIsSeq
    <2>2. Only(Append(s, x), S) = IF x \in S THEN Append(Only(s, S), x) ELSE Only(s, S)
      BY OnlyAppend
    <2>3. Only(Append(s, x), T) = IF x \in T THEN Append(Only(s, T), x) ELSE Only(s, T)
      BY OnlyAppend
    <2>4. Only(Append(Only(s, S), x), T) =
            IF x \in T THEN Append(Only(Only(s, S), T), x) ELSE Only(Only(s, S), T)
      BY <2>1, OnlyAppend
    <2>5. Only(Only(s, S), T) = Only(s, T) /\ Append(s, x) \in Seq(X)
      BY <1>2, AppendProperties
    <2> QED
      BY <2>2, <2>3, <2>4, <2>5
  <1> HIDE DEF Good
  <1>3. Seq(X) \subseteq Good
    BY <1>1, <1>2, SequenceInduction
  <1> QED
    BY <1>3 DEF Good

\* A sequence is kept piece by piece.
LEMMA OnlyCut ==
    ASSUME NEW X, NEW S, NEW seq \in Seq(X), NEW m \in 0 .. Len(seq)
    PROVE  /\ SubSeq(seq, 1, m) \in Seq(X) /\ SubSeq(seq, m + 1, Len(seq)) \in Seq(X)
           /\ Only(seq, S) = Only(SubSeq(seq, 1, m), S) \o Only(SubSeq(seq, m + 1, Len(seq)), S)
  <1> DEFINE n     == Len(seq)
             left  == SubSeq(seq, 1, m)
             right == SubSeq(seq, m + 1, n)
  <1>1. n \in Nat /\ m \in Int /\ m + 1 \in Int /\ DOMAIN seq = 1 .. n
    BY LenProperties
  <1>2. \A i \in 1 .. n : seq[i] \in X
    BY ElementOfSeq
  <1>3. left \in Seq(X) /\ right \in Seq(X)
    <2>1. \A i \in 1 .. m : seq[i] \in X
      BY <1>1, <1>2
    <2>2. left \in Seq(X)
      BY <1>1, <2>1, SubSeqProperties
    <2>3. \A i \in m + 1 .. n : seq[i] \in X
      BY <1>1, <1>2
    <2>4. right \in Seq(X)
      BY <1>1, <2>3, SubSeqProperties
    <2> QED
      BY <2>2, <2>4
  <1>4. left \o right = seq
    <2>1. 1 \in 1 .. n + 1 /\ m \in 1 - 1 .. n /\ n \in m .. n
      BY <1>1
    <2>2. left \o right = SubSeq(seq, 1, n)
      BY <2>1, ConcatAdjacentSubSeq
    <2> QED
      BY <2>2, SubSeqFull
  <1> HIDE DEF left, right
  <1>5. Only(left \o right, S) = Only(left, S) \o Only(right, S)
    BY <1>3, OnlyConcat
  <1> QED
    BY <1>3, <1>4, <1>5 DEF left, right

\* Where nothing outside a .. b is kept, the piece from a to b keeps everything.
LEMMA OnlyMiddle ==
    ASSUME NEW X, NEW S, NEW seq \in Seq(X), NEW a \in 1 .. Len(seq) + 1, NEW b \in 0 .. Len(seq),
           a <= b + 1, \A i \in DOMAIN seq : i < a \/ i > b => seq[i] \notin S
    PROVE  SubSeq(seq, a, b) \in Seq(X) /\ Only(SubSeq(seq, a, b), S) = Only(seq, S)
  <1> DEFINE n      == Len(seq)
             before == SubSeq(seq, 1, b)
             after  == SubSeq(seq, b + 1, n)
             start  == SubSeq(before, 1, a - 1)
             middle == SubSeq(before, a, Len(before))
  <1>1. n \in Nat /\ DOMAIN seq = 1 .. n /\ a \in Int /\ b \in Int /\ b + 1 \in Int
        /\ \A i \in 1 .. n : seq[i] \in X
    BY LenProperties, ElementOfSeq
  <1>2. /\ before \in Seq(X) /\ after \in Seq(X)
        /\ Only(seq, S) = Only(before, S) \o Only(after, S)
    BY OnlyCut
  <1>3. Len(before) = b /\ \A i \in 1 .. b : before[i] = seq[i]
    <2>1. \A i \in 1 .. b : seq[i] \in X
      BY <1>1
    <2>2. /\ Len(before) = IF 1 <= b THEN b - 1 + 1 ELSE 0
          /\ \A i \in 1 .. b - 1 + 1 : before[i] = seq[1 + i - 1]
      BY <1>1, <2>1, SubSeqProperties
    <2> QED
      BY <1>1, <2>2
  <1>4. Len(after) \in Nat /\ \A i \in 1 .. Len(after) : after[i] \notin S
    <2>1. \A i \in b + 1 .. n : seq[i] \in X
      BY <1>1
    <2>2. /\ Len(after) = IF b + 1 <= n THEN n - (b + 1) + 1 ELSE 0
          /\ \A i \in 1 .. n - (b + 1) + 1 : after[i] = seq[b + 1 + i - 1]
      BY <1>1, <2>1, SubSeqProperties
    <2> QED
      BY <1>1, <2>2
  <1>5. Only(after, S) = <<>>
    <2>1. \A i \in DOMAIN after : after[i] \notin S
      BY <1>2, <1>4, LenProperties
    <2> HIDE DEF after
    <2> QED
      BY <1>2, <2>1, OnlyNone
  <1>6. Only(before, S) = Only(seq, S)
    <2>1. Only(before, S) \in Seq(X)
      BY <1>2, OnlyIsSeq
    <2> QED
      BY <1>2, <1>5, <2>1, ConcatEmptySeq
  <1>7. /\ start \in Seq(X) /\ middle \in Seq(X)
        /\ Only(before, S) = Only(start, S) \o Only(middle, S)
    <2>1. a - 1 \in 0 .. Len(before) /\ (a - 1) + 1 = a
      BY <1>1, <1>3
    <2> HIDE DEF before
    <2> QED
      BY <1>2, <2>1, OnlyCut
  <1>8. Only(start, S) = <<>>
    <2>1. \A i \in 1 .. a - 1 : before[i] \in X
      BY <1>1, <1>3
    <2>2. /\ Len(start) = IF 1 <= a - 1 THEN (a - 1) - 1 + 1 ELSE 0
          /\ \A i \in 1 .. (a - 1) - 1 + 1 : start[i] = before[1 + i - 1]
      <3> HIDE DEF before
      <3>1. a - 1 \in Int
        BY <1>1
      <3> QED
        BY <2>1, <3>1, SubSeqProperties
    <2>3. Len(start) \in Nat /\ \A i \in 1 .. Len(start) : start[i] \notin S
      BY <1>1, <1>3, <2>2
    <2>4. \A i \in DOMAIN start : start[i] \notin S
      BY <1>7, <2>3, LenProperties
    <2> HIDE DEF start
    <2> QED
      BY <1>7, <2>4, OnlyNone
  <1>9. Only(middle, S) = Only(seq, S)
    <2>1. Only(middle, S) \in Seq(X)
      BY <1>7, OnlyIsSeq
    <2> QED
      BY <1>6, <1>7, <1>8, <2>1, ConcatEmptySeq
  <1>10. middle = SubSeq(seq, a, b)
    <2>1. \A i \in a .. b : seq[i] \in X
      BY <1>1
    <2>2. /\ SubSeq(seq, a, b) \in Seq(X)
          /\ Len(SubSeq(seq, a, b)) = IF a <= b THEN b - a + 1 ELSE 0
          /\ \A i \in 1 .. b - a + 1 : SubSeq(seq, a, b)[i] = seq[a + i - 1]
      BY <1>1, <2>1, SubSeqProperties
    <2>3. \A i \in a .. b : before[i] \in X
      BY <1>1, <1>3
    <2>4. /\ Len(middle) = IF a <= b THEN b - a + 1 ELSE 0
          /\ \A i \in 1 .. b - a + 1 : middle[i] = before[a + i - 1]
      <3> HIDE DEF before
      <3> QED
        BY <1>1, <1>3, <2>3, SubSeqProperties
    <2>5. ASSUME NEW i \in 1 .. Len(middle)
          PROVE  middle[i] = SubSeq(seq, a, b)[i]
      BY <1>1, <1>3, <2>2, <2>4
    <2> HIDE DEF middle
    <2> QED
      BY <1>7, <2>2, <2>4, <2>5, SeqEqual
  <1> QED
    BY <1>7, <1>9, <1>10

-----------------------------------------------------------------------------
(* The digits and the sign of an amount                                    *)

\* The first and the last of some positions.
LEMMA MinMax ==
    ASSUME NEW n \in Nat, NEW I \in SUBSET (1 .. n), I # {}
    PROVE  /\ Min(I) \in I /\ \A i \in I : Min(I) <= i
           /\ Max(I) \in I /\ \A i \in I : i <= Max(I)
  <1>1. \E x \in I : \A y \in I : x <= y
    <2>1. I \in SUBSET Nat
      OBVIOUS
    <2> QED
      BY <2>1, SmallestNumber
  <1>2. \E x \in I : \A y \in I : x >= y
    <2> DEFINE Room == {n - i : i \in I}
    <2>1. Room \in SUBSET Nat /\ Room # {}
      <3>1. \A i \in I : n - i \in Nat
        OBVIOUS
      <3>2. \A i \in I : n - i \in Room
        OBVIOUS
      <3>3. \A r \in Room : r \in Nat
        BY <3>1
      <3> HIDE DEF Room
      <3> QED
        BY <3>2, <3>3
    <2>2. PICK r \in Room : \A s \in Room : r <= s
      <3> HIDE DEF Room
      <3> QED
        BY <2>1, SmallestNumber
    <2>3. PICK x \in I : r = n - x
      BY <2>2
    <2>4. ASSUME NEW y \in I
          PROVE  x >= y
      <3>1. n - y \in Room
        OBVIOUS
      <3>2. r <= n - y
        BY <2>2, <3>1
      <3> QED
        BY <2>3, <3>2
    <2> QED
      BY <2>4
  <1>3. Min(I) \in I /\ \A i \in I : Min(I) <= i
    BY <1>1 DEF Min
  <1>4. Max(I) \in I /\ \A i \in I : Max(I) >= i
    BY <1>2 DEF Max
  <1> QED
    BY <1>3, <1>4

\* White space around a text is not kept.
LEMMA OnlyStrip ==
    ASSUME NEW X, NEW S, NEW text \in Seq(X), S \cap Space = {}
    PROVE  strip(text) \in Seq(X) /\ Only(strip(text), S) = Only(text, S)
  <1> DEFINE ink == {i \in DOMAIN text : text[i] \notin Space}
  <1>1. Len(text) \in Nat /\ DOMAIN text = 1 .. Len(text)
    BY LenProperties
  <1>2. \A i \in DOMAIN text : i \notin ink => text[i] \notin S
    OBVIOUS
  <1>3. CASE ink = {}
    <2>1. strip(text) = <<>>
      BY <1>3 DEF strip
    <2>2. Only(text, S) = <<>>
      BY <1>2, <1>3, OnlyNone
    <2> QED
      BY <2>1, <2>2, OnlyEmpty, EmptySeq
  <1>4. CASE ink # {}
    <2>1. strip(text) = SubSeq(text, Min(ink), Max(ink))
      BY <1>4 DEF strip
    <2>2. ink \in SUBSET (1 .. Len(text))
      BY <1>1
    <2> HIDE DEF ink
    <2>3. /\ Min(ink) \in ink /\ \A i \in ink : Min(ink) <= i
          /\ Max(ink) \in ink /\ \A i \in ink : i <= Max(ink)
      BY <1>1, <1>4, <2>2, MinMax
    <2>4. /\ Min(ink) \in 1 .. Len(text) + 1 /\ Max(ink) \in 0 .. Len(text)
          /\ Min(ink) <= Max(ink) + 1
      <3>1. Min(ink) \in 1 .. Len(text) /\ Max(ink) \in 1 .. Len(text) /\ Min(ink) <= Max(ink)
        BY <2>2, <2>3
      <3> QED
        BY <1>1, <3>1
    <2>5. \A i \in DOMAIN text : i < Min(ink) \/ i > Max(ink) => text[i] \notin S
      <3>1. ASSUME NEW i \in DOMAIN text, i \in ink
            PROVE  ~(i < Min(ink) \/ i > Max(ink))
        BY <1>1, <2>2, <2>3, <3>1
      <3> QED
        BY <1>2, <3>1
    <2> QED
      BY <2>1, <2>4, <2>5, OnlyMiddle
  <1> QED
    BY <1>3, <1>4

\* Without what is not kept anyway.
LEMMA OnlyWithout ==
    ASSUME NEW X, NEW S, NEW seq \in Seq(X), NEW x, x \notin S
    PROVE  Without(seq, x) \in Seq(X) /\ Only(Without(seq, x), S) = Only(seq, S)
  <1>1. Len(seq) \in Nat /\ DOMAIN seq = 1 .. Len(seq)
        /\ \A i \in 1 .. Len(seq) : seq[i] \in X
    BY LenProperties, ElementOfSeq
  <1>2. Without(seq, x) \in Seq(X)
    BY OnlyIsSeq DEF Without
  <1>3. Only(seq, ToSet(seq) \ {x}) = Only(seq, X \ {x})
    <2>1. \A i \in DOMAIN seq : seq[i] \in ToSet(seq) \ {x} <=> seq[i] \in X \ {x}
      BY <1>1 DEF ToSet
    <2> QED
      BY <2>1, OnlyCongruence
  <1>4. Only(Only(seq, X \ {x}), S) = Only(seq, S)
    <2>1. \A y \in X : y \in S => y \in X \ {x}
      OBVIOUS
    <2> QED
      BY <2>1, OnlyTwice
  <1> QED
    BY <1>2, <1>3, <1>4 DEF Without

\* Without an ornament at the start.
LEMMA OnlyWithoutStart ==
    ASSUME NEW X, NEW S, NEW text \in Seq(X), NEW x, x \notin S \/ ~Starts(text, x)
    PROVE  WithoutStart(text, x) \in Seq(X) /\ Only(WithoutStart(text, x), S) = Only(text, S)
  <1>1. Len(text) \in Nat /\ DOMAIN text = 1 .. Len(text)
    BY LenProperties
  <1>2. CASE ~Starts(text, x)
    BY <1>2 DEF WithoutStart
  <1>3. CASE Starts(text, x)
    <2>1. text # <<>> /\ text[1] = x /\ WithoutStart(text, x) = Tail(text)
      BY <1>3 DEF WithoutStart, Starts
    <2>2. Tail(text) = SubSeq(text, 2, Len(text)) /\ Len(text) # 0
      BY <1>1, <2>1, TailIsSubSeq, EmptySeq
    <2>3. 2 \in 1 .. Len(text) + 1 /\ Len(text) \in 0 .. Len(text) /\ 2 <= Len(text) + 1
      BY <1>1, <2>2
    <2>4. \A i \in DOMAIN text : i < 2 \/ i > Len(text) => text[i] \notin S
      <3>1. \A i \in DOMAIN text : i < 2 \/ i > Len(text) => i = 1
        BY <1>1
      <3> QED
        BY <1>3, <2>1, <3>1
    <2>5. SubSeq(text, 2, Len(text)) \in Seq(X)
          /\ Only(SubSeq(text, 2, Len(text)), S) = Only(text, S)
      BY <2>3, <2>4, OnlyMiddle
    <2> QED
      BY <2>1, <2>2, <2>5
  <1> QED
    BY <1>2, <1>3

\* The ten digits.
LEMMA DigitIs == Digit = {"0", "1", "2", "3", "4", "5", "6", "7", "8", "9"}
  <1>1. DOMAIN Digits = {1, 2, 3, 4, 5, 6, 7, 8, 9, 10}
    BY DEF Digits
  <1> QED
    BY <1>1 DEF Digit, Digits

Ornament == {" ", "nbsp", ".", ","}
Sign     == {"-", "("}

\* A set of characters that no step of the parser drops.
Plain(S) == S \cap Ornament = {}

\* Neither digits nor signs are what the parser drops.
LEMMA NoOrnament == Plain(Digit) /\ Plain(Sign) /\ Digit \cap Sign = {}
                    /\ "(" \notin Digit /\ ")" \notin Digit /\ "-" \notin Digit
  BY DigitIs DEF Ornament, Sign, Plain

\* The parts of a number, as parse_vn_number cuts it at its last comma.
Commas(number)   == {i \in DOMAIN number : number[i] = ","}
Point(number)    == IF Commas(number) = {} THEN Len(number) + 1 ELSE Max(Commas(number))
Whole(number)    == Without(SubSeq(number, 1, Point(number) - 1), ".")
Fraction(number) == SubSeq(number, Point(number) + 1, Len(number))

\* The parts of a number have, together, what is plain in it.
LEMMA OnlyParts ==
    ASSUME NEW X, NEW S, NEW number \in Seq(X), Plain(S)
    PROVE  /\ Whole(number) \in Seq(X) /\ Fraction(number) \in Seq(X)
           /\ Only(Whole(number) \o Fraction(number), S) = Only(number, S)
  <1> DEFINE n     == Len(number)
             p     == Point(number)
             left  == SubSeq(number, 1, p - 1)
             right == SubSeq(number, p + 1, n)
  <1>1. n \in Nat /\ DOMAIN number = 1 .. n /\ \A i \in 1 .. n : number[i] \in X
    BY LenProperties, ElementOfSeq
  <1>2. p \in 1 .. n + 1 /\ (p <= n => number[p] \notin S)
    <2>1. CASE Commas(number) = {}
      BY <1>1, <2>1 DEF Point
    <2>2. CASE Commas(number) # {}
      <3>1. Commas(number) \subseteq DOMAIN number
        BY Zenon DEF Commas
      <3>2. Commas(number) \in SUBSET (1 .. n)
        BY <1>1, <3>1
      <3>3. Max(Commas(number)) \in Commas(number)
        BY <1>1, <2>2, <3>2, MinMax
      <3>4. \A i \in Commas(number) : number[i] \notin S
        <4>1. "," \notin S
          BY Zenon DEF Plain, Ornament
        <4> QED
          BY <4>1, Zenon DEF Commas
      <3> QED
        BY <1>1, <2>2, <3>2, <3>3, <3>4 DEF Point
    <2> QED
      BY <2>1, <2>2
  <1> HIDE DEF p
  <1>3. left \in Seq(X) /\ right \in Seq(X)
    <2>1. \A i \in 1 .. p - 1 : number[i] \in X
      BY <1>1, <1>2
    <2>2. left \in Seq(X)
      BY <1>1, <1>2, <2>1, SubSeqProperties
    <2>3. \A i \in p + 1 .. n : number[i] \in X
      BY <1>1, <1>2
    <2>4. right \in Seq(X)
      BY <1>1, <1>2, <2>3, SubSeqProperties
    <2> QED
      BY <2>2, <2>4
  <1>4. Only(number, S) = Only(left, S) \o Only(right, S)
    <2>1. /\ SubSeq(number, p, n) \in Seq(X)
          /\ Only(number, S) = Only(left, S) \o Only(SubSeq(number, p, n), S)
      <3>1. p - 1 \in 0 .. n /\ (p - 1) + 1 = p
        BY <1>1, <1>2
      <3> QED
        BY <3>1, OnlyCut
    <2>2. Only(right, S) = Only(SubSeq(number, p, n), S)
      <3>1. CASE p = n + 1
        <4>1. right = <<>> /\ SubSeq(number, p, n) = <<>>
          BY <1>1, <3>1, SubSeqEmpty
        <4> QED
          BY <4>1
      <3>2. CASE p <= n
        <4>1. SubSeq(number, p, n) = <<number[p]>> \o right
          BY <1>1, <1>2, <3>2, SubSeqRecursiveFirst
        <4>2. Only(<<number[p]>>, S) = <<>>
          <5>1. <<number[p]>> \in Seq(X) /\ DOMAIN <<number[p]>> = {1}
            BY <1>1, <1>2, <3>2
          <5>2. \A i \in DOMAIN <<number[p]>> : <<number[p]>>[i] \notin S
            BY <1>2, <3>2, <5>1
          <5> QED
            BY <5>1, <5>2, OnlyNone
        <4>3. Only(<<number[p]>> \o right, S) = Only(<<number[p]>>, S) \o Only(right, S)
          <5>1. <<number[p]>> \in Seq(X)
            BY <1>1, <1>2, <3>2
          <5> HIDE DEF right
          <5> QED
            BY <1>3, <5>1, OnlyConcat
        <4>4. Only(right, S) \in Seq(X)
          BY <1>3, OnlyIsSeq
        <4> QED
          BY <4>1, <4>2, <4>3, <4>4, ConcatEmptySeq
      <3> QED
        BY <1>1, <1>2, <3>1, <3>2
    <2> QED
      BY <2>1, <2>2
  <1>5. Without(left, ".") \in Seq(X) /\ Only(Without(left, "."), S) = Only(left, S)
    <2>1. "." \notin S
      BY Zenon DEF Plain, Ornament
    <2> HIDE DEF left
    <2> QED
      BY <1>3, <2>1, OnlyWithout
  <1>6. Whole(number) = Without(left, ".") /\ Fraction(number) = right
    BY DEF Whole, Fraction, p
  <1>7. Only(Without(left, ".") \o right, S) = Only(Without(left, "."), S) \o Only(right, S)
    <2> HIDE DEF left, right
    <2> QED
      BY <1>3, <1>5, OnlyConcat
  <1> QED
    BY <1>3, <1>4, <1>5, <1>6, <1>7

\* What is left of a text when it is stripped of parentheses, spaces and sign.
Enclosed(text) == Starts(text, "(") /\ Ends(text, ")")
Inner(text) ==
    Without(IF Enclosed(text) THEN strip(SubSeq(text, 2, Len(text) - 1)) ELSE text, " ")

\* Without the parentheses and spaces a text has what was plain in it; its parentheses
\* are a sign, so of an enclosed text only the digits.
LEMMA OnlyInner ==
    ASSUME NEW X, NEW S, NEW text \in Seq(X), Plain(S),
           Enclosed(text) => S = Digit
    PROVE  Inner(text) \in Seq(X) /\ Only(Inner(text), S) = Only(text, S)
  <1> DEFINE inside == SubSeq(text, 2, Len(text) - 1)
             gap    == " "
             bare   == IF Enclosed(text) THEN strip(inside) ELSE text
  <1>1. S \cap Space = {} /\ gap \notin S
    BY Zenon DEF Plain, Ornament, Space
  <1>2. bare \in Seq(X) /\ Only(bare, S) = Only(text, S)
    <2>1. CASE Enclosed(text)
      <3>1. Len(text) \in Nat /\ DOMAIN text = 1 .. Len(text)
        BY LenProperties
      <3>2. Len(text) \in Nat \ {0} /\ text[1] = "(" /\ text[Len(text)] = ")"
        BY <2>1, EmptySeq DEF Enclosed, Starts, Ends
      <3>3. Len(text) # 1
        BY <3>2
      <3>4. 2 \in 1 .. Len(text) + 1 /\ Len(text) - 1 \in 0 .. Len(text) /\ 2 <= (Len(text) - 1) + 1
        BY <3>1, <3>2, <3>3
      <3>5. "(" \notin S /\ ")" \notin S
        BY <2>1, NoOrnament
      <3>6. \A i \in DOMAIN text : i < 2 \/ i > Len(text) - 1 => text[i] \notin S
        BY <3>1, <3>2, <3>5
      <3>7. inside \in Seq(X) /\ Only(inside, S) = Only(text, S)
        BY <3>4, <3>6, OnlyMiddle
      <3>8. strip(inside) \in Seq(X) /\ Only(strip(inside), S) = Only(inside, S)
        <4> HIDE DEF inside
        <4> QED
          BY <1>1, <3>7, OnlyStrip
      <3> QED
        BY <2>1, <3>7, <3>8
    <2>2. CASE ~Enclosed(text)
      BY <2>2
    <2> QED
      BY <2>1, <2>2
  <1>3. Inner(text) = Without(bare, gap)
    BY DEF Inner
  <1> HIDE DEF bare, gap
  <1> QED
    BY <1>1, <1>2, <1>3, OnlyWithout

Number(text) == WithoutStart(Inner(text), "-")

\* The result of parse_vn_number by its parts.
LEMMA ParsedAmount ==
    ASSUME NEW raw, NEW amount \in parse_vn_number(raw)
    PROVE  /\ amount.negative <=> Enclosed(strip(raw)) \/ Starts(Inner(strip(raw)), "-")
           /\ amount.negative \in BOOLEAN
           /\ amount.parts.whole = Whole(Number(strip(raw)))
           /\ amount.parts.fraction = Fraction(Number(strip(raw)))
           /\ ConsistsOf(amount.parts.whole \o amount.parts.fraction, Digit)
  <1> DEFINE text   == strip(raw)
             number == Number(text)
             read   == /\ ~Blank(text) /\ LooksNumeric(text) /\ Whole(number) # <<>>
                       /\ ConsistsOf(Whole(number) \o Fraction(number), Digit)
             signed == Enclosed(text) \/ Starts(Inner(text), "-")
  <1>1. parse_vn_number(raw) =
          IF read THEN {[negative |-> signed, parts |-> Parts(Whole(number), Fraction(number))]}
          ELSE {}
    BY Zenon DEF parse_vn_number, Number, Inner, Enclosed, Whole, Fraction, Point, Commas
  <1> HIDE DEF read, signed
  <1>2. read /\ amount = [negative |-> signed, parts |-> Parts(Whole(number), Fraction(number))]
    BY <1>1, Zenon
  <1>3. /\ amount.negative = signed
        /\ amount.parts.whole = Whole(number) /\ amount.parts.fraction = Fraction(number)
    BY <1>2 DEF Parts
  <1>4. signed \in BOOLEAN
    BY Zenon DEF signed, Enclosed, Starts, Ends
  <1> QED
    BY <1>2, <1>3, <1>4, Zenon DEF read, signed

\* A sequence has the type of its elements.
LEMMA TypedSeq ==
    ASSUME NEW X, NEW S, NEW seq \in Seq(X), \A i \in 1 .. Len(seq) : seq[i] \in S
    PROVE  seq \in Seq(S)
  <1>1. Len(seq) \in Nat /\ seq \in [1 .. Len(seq) -> X]
    BY LenProperties
  <1>2. seq \in [1 .. Len(seq) -> S]
    BY <1>1
  <1> QED
    BY <1>1, <1>2, SeqDef

\* A sign is seen in a text where it is seen in what is kept of it.
LEMMA Signed ==
    ASSUME NEW X, NEW raw \in Seq(X), NEW part \in Seq(X), Only(part, Sign) = Only(raw, Sign),
           NEW i \in DOMAIN part, part[i] \in Sign
    PROVE  \E k \in DOMAIN raw : raw[k] \in Sign
  <1>1. Only(part, Sign) # <<>>
    BY OnlyNone
  <1> QED
    BY <1>1, OnlyNone

\* An amount has the digits of its text, all and in order, and is negative where the
\* text has a minus sign or an opening parenthesis.
LEMMA AmountOfText ==
    ASSUME NEW X, NEW raw \in Seq(X), NEW amount \in parse_vn_number(raw)
    PROVE  /\ amount.parts.whole \in Seq(Digit) /\ amount.parts.fraction \in Seq(Digit)
           /\ amount.parts.whole \o amount.parts.fraction = Only(raw, Digit)
           /\ amount.negative <=> \E k \in DOMAIN raw : raw[k] \in {"-", "("}
  <1> DEFINE text   == strip(raw)
             inner  == Inner(text)
             number == Number(text)
             whole    == amount.parts.whole
             fraction == amount.parts.fraction
             signed   == \E k \in DOMAIN raw : raw[k] \in Sign
  <1>1. text \in Seq(X) /\ \A S : Plain(S) => Only(text, S) = Only(raw, S)
    <2>1. \A S : Plain(S) => S \cap Space = {}
      BY Zenon DEF Plain, Ornament, Space
    <2>2. ASSUME NEW S, Plain(S)
          PROVE  Only(text, S) = Only(raw, S)
      BY <2>1, <2>2, OnlyStrip
    <2>3. text \in Seq(X)
      <3>1. {} \cap Space = {}
        OBVIOUS
      <3> QED
        BY <3>1, OnlyStrip
    <2> QED
      BY <2>2, <2>3, Zenon
  <1>2. whole = Whole(number) /\ fraction = Fraction(number) /\ ConsistsOf(whole \o fraction, Digit)
    BY ParsedAmount, Zenon
  <1>3. inner \in Seq(X) /\ Only(inner, Digit) = Only(raw, Digit)
    <2> HIDE DEF text
    <2>1. inner \in Seq(X) /\ Only(inner, Digit) = Only(text, Digit)
      BY <1>1, NoOrnament, OnlyInner
    <2> QED
      BY <1>1, <2>1, NoOrnament, Zenon
  <1>4. number \in Seq(X) /\ Only(number, Digit) = Only(inner, Digit)
    <2>1. number = WithoutStart(inner, "-")
      BY Zenon DEF Number
    <2> HIDE DEF inner, number
    <2> QED
      BY <1>3, <2>1, NoOrnament, OnlyWithoutStart
  <1>5. whole \in Seq(X) /\ fraction \in Seq(X)
        /\ \A S : Plain(S) => Only(whole \o fraction, S) = Only(number, S)
    <2> HIDE DEF number
    <2>1. \A S : Plain(S) => Only(Whole(number) \o Fraction(number), S) = Only(number, S)
      BY <1>4, OnlyParts
    <2>2. Whole(number) \in Seq(X) /\ Fraction(number) \in Seq(X)
      BY <1>4, NoOrnament, OnlyParts
    <2> QED
      BY <1>2, <2>1, <2>2, Zenon
  <1> HIDE DEF number, inner, text, whole, fraction
  <1>6. /\ whole \o fraction \in Seq(X) /\ whole \o fraction \in Seq(Digit)
        /\ whole \in Seq(Digit) /\ fraction \in Seq(Digit)
    <2>1. /\ Len(whole) \in Nat /\ Len(fraction) \in Nat
          /\ whole \o fraction \in Seq(X) /\ Len(whole \o fraction) = Len(whole) + Len(fraction)
          /\ \A i \in 1 .. Len(whole) + Len(fraction) :
               (whole \o fraction)[i] = IF i <= Len(whole) THEN whole[i] ELSE fraction[i - Len(whole)]
      BY <1>5, ConcatProperties, LenProperties
    <2>2. \A i \in 1 .. Len(whole) + Len(fraction) : (whole \o fraction)[i] \in Digit
      BY <1>2, <2>1, LenProperties DEF ConsistsOf
    <2>3. /\ \A i \in 1 .. Len(whole) : whole[i] \in Digit
          /\ \A i \in 1 .. Len(fraction) : fraction[i] \in Digit
      <3>1. ASSUME NEW i \in 1 .. Len(whole)
            PROVE  whole[i] \in Digit
        <4>1. i \in 1 .. Len(whole) + Len(fraction)
          BY <2>1
        <4> QED
          BY <2>1, <2>2, <4>1
      <3>2. ASSUME NEW i \in 1 .. Len(fraction)
            PROVE  fraction[i] \in Digit
        <4>1. Len(whole) + i \in 1 .. Len(whole) + Len(fraction) /\ ~(Len(whole) + i <= Len(whole))
              /\ (Len(whole) + i) - Len(whole) = i
          BY <2>1
        <4> QED
          BY <2>1, <2>2, <4>1
      <3> QED
        BY <3>1, <3>2
    <2>4. whole \in Seq(Digit)
      BY <1>5, <2>1, <2>3, TypedSeq
    <2>5. fraction \in Seq(Digit)
      BY <1>5, <2>1, <2>3, TypedSeq
    <2> QED
      BY <2>1, <2>4, <2>5, ConcatProperties
  <1>7. whole \o fraction = Only(raw, Digit)
    <2>1. Only(whole \o fraction, Digit) = whole \o fraction
      BY <1>6, OnlyAll
    <2> QED
      BY <1>3, <1>4, <1>5, <2>1, NoOrnament, Zenon
  <1>8. amount.negative => signed
    <2>1. CASE Enclosed(text)
      <3>1. text # <<>> /\ text[1] = "("
        BY <2>1 DEF Enclosed, Starts
      <3>2. 1 \in DOMAIN text /\ text[1] \in Sign
        BY <1>1, <3>1, EmptySeq, LenProperties DEF Sign
      <3> QED
        BY <1>1, <3>2, NoOrnament, Signed
    <2>2. CASE ~Enclosed(text) /\ Starts(inner, "-")
      <3>1. inner # <<>> /\ inner[1] = "-"
        BY <2>2 DEF Starts
      <3>2. 1 \in DOMAIN inner /\ inner[1] \in Sign
        BY <1>3, <3>1, EmptySeq, LenProperties DEF Sign
      <3>3. Only(inner, Sign) = Only(text, Sign)
        BY <1>1, <2>2, NoOrnament, OnlyInner DEF inner
      <3>4. Only(inner, Sign) = Only(raw, Sign)
        BY <1>1, <3>3, NoOrnament, Zenon
      <3> QED
        BY <1>3, <3>2, <3>4, Signed
    <2> QED
      BY <2>1, <2>2, ParsedAmount, Zenon DEF text, inner
  <1>9. ~amount.negative => ~signed
    <2> SUFFICES ASSUME ~amount.negative PROVE ~signed
      OBVIOUS
    <2>1. ~Enclosed(text) /\ ~Starts(inner, "-")
      BY ParsedAmount, Zenon DEF text, inner
    <2>2. Only(inner, Sign) = Only(raw, Sign)
      <3>1. Only(inner, Sign) = Only(text, Sign)
        BY <1>1, <2>1, NoOrnament, OnlyInner DEF inner
      <3> QED
        BY <1>1, <3>1, NoOrnament, Zenon
    <2>3. number = inner
      BY <2>1, Zenon DEF number, inner, Number, WithoutStart
    <2>4. Only(whole \o fraction, Sign) = Only(raw, Sign)
      BY <1>5, <2>2, <2>3, NoOrnament, Zenon
    <2>5. Only(whole \o fraction, Sign) = <<>>
      <3>1. \A i \in DOMAIN (whole \o fraction) : (whole \o fraction)[i] \notin Sign
        BY <1>2, NoOrnament DEF ConsistsOf
      <3> QED
        BY <1>6, <3>1, OnlyNone
    <2> QED
      BY <2>4, <2>5, OnlyNone
  <1> QED
    BY <1>6, <1>7, <1>8, <1>9, Zenon DEF whole, fraction, Sign

-----------------------------------------------------------------------------
(* The value of an amount is a number                                      *)

ReadFunction(digits, m, g) ==
    g = [n \in 0 .. m |-> IF n = 0 THEN 0 ELSE 10 * g[n - 1] + DigitValue(digits[n])]

\* A function with the equation of NaturalOf exists.
LEMMA ReadExists ==
    ASSUME NEW digits, NEW m \in Nat
    PROVE  \E g : ReadFunction(digits, m, g)
  <1> DEFINE Good == {n \in Nat : \E g : ReadFunction(digits, n, g)}
  <1>1. 0 \in Good
    <2>1. ReadFunction(digits, 0, [n \in 0 .. 0 |-> 0])
      BY DEF ReadFunction
    <2> QED
      BY <2>1
  <1>2. ASSUME NEW n \in Nat, n \in Good
        PROVE  n + 1 \in Good
    <2>1. PICK g : ReadFunction(digits, n, g)
      BY <1>2
    <2> DEFINE last == 10 * g[n] + DigitValue(digits[n + 1])
               h    == [i \in 0 .. n + 1 |-> IF i = n + 1 THEN last ELSE g[i]]
    <2>2. \A i \in 0 .. n : g[i] = IF i = 0 THEN 0 ELSE 10 * g[i - 1] + DigitValue(digits[i])
      BY <2>1 DEF ReadFunction
    <2>3. ASSUME NEW i \in 0 .. n + 1
          PROVE  h[i] = IF i = 0 THEN 0 ELSE 10 * h[i - 1] + DigitValue(digits[i])
      <3>1. CASE i \in 0 .. n
        <4>1. h[i] = g[i] /\ (i # 0 => h[i - 1] = g[i - 1])
          BY <3>1
        <4> HIDE DEF h
        <4> QED
          BY <2>2, <3>1, <4>1
      <3>2. CASE i = n + 1
        <4>1. h[i] = last /\ h[i - 1] = g[n] /\ i # 0
          BY <3>2
        <4> HIDE DEF h
        <4> QED
          BY <3>2, <4>1
      <3> QED
        BY <3>1, <3>2
    <2>4. h = [i \in 0 .. n + 1 |-> h[i]]
      OBVIOUS
    <2>5. ReadFunction(digits, n + 1, h)
      <3> HIDE DEF h
      <3> QED
        BY <2>3, <2>4 DEF ReadFunction
    <2> QED
      BY <2>5
  <1> HIDE DEF Good
  <1>3. Nat \subseteq Good
    BY <1>1, <1>2, NumberInduction
  <1> QED
    BY <1>3 DEF Good

\* A digit has a value.
LEMMA DigitValueType ==
    ASSUME NEW digit \in Digit
    PROVE  DigitValue(digit) \in 0 .. 9
  <1>1. PICK i \in DOMAIN Digits : Digits[i] = digit
    BY DEF Digit
  <1>2. i \in 1 .. 10
    BY DEF Digits
  <1>3. i - 1 \in 0 .. 9 /\ Digits[(i - 1) + 1] = digit
    BY <1>1, <1>2
  <1> QED
    BY <1>3 DEF DigitValue

\* Digits are read as a natural number.
LEMMA NaturalOfType ==
    ASSUME NEW digits \in Seq(Digit)
    PROVE  NaturalOf(digits) \in Nat
  <1> DEFINE m == Len(digits)
             g == CHOOSE h : ReadFunction(digits, m, h)
  <1>1. m \in Nat /\ \A n \in 1 .. m : digits[n] \in Digit
    BY LenProperties, ElementOfSeq
  <1>2. NaturalOf(digits) = g[m]
    BY DEF NaturalOf, ReadFunction
  <1>3. ReadFunction(digits, m, g)
    BY <1>1, ReadExists
  <1> HIDE DEF g, m
  <1>4. \A n \in 0 .. m : g[n] = IF n = 0 THEN 0 ELSE 10 * g[n - 1] + DigitValue(digits[n])
    BY <1>3 DEF ReadFunction
  <1>5. \A n \in 1 .. m : DigitValue(digits[n]) \in 0 .. 9
    BY <1>1, DigitValueType
  <1> DEFINE Good == {n \in Nat : n <= m => g[n] \in Nat}
  <1>6. 0 \in Good
    BY <1>1, <1>4
  <1>7. ASSUME NEW n \in Nat, n \in Good
        PROVE  n + 1 \in Good
    <2>1. ASSUME n + 1 <= m
          PROVE  g[n + 1] \in Nat
      <3>1. n + 1 \in 1 .. m /\ n + 1 \in 0 .. m /\ (n + 1) - 1 = n /\ n + 1 # 0 /\ g[n] \in Nat
        BY <1>1, <1>7, <2>1
      <3>2. g[n + 1] = 10 * g[n] + DigitValue(digits[n + 1])
        BY <1>4, <3>1
      <3>3. DigitValue(digits[n + 1]) \in Nat
        BY <1>5, <3>1
      <3> QED
        BY <3>1, <3>2, <3>3
    <2> QED
      BY <2>1
  <1> HIDE DEF Good
  <1>8. Nat \subseteq Good
    BY <1>6, <1>7, NumberInduction
  <1> QED
    BY <1>1, <1>2, <1>8 DEF Good

\* Hundredths of an amount that was read from a text.
LEMMA HundredthsType ==
    ASSUME NEW X, NEW raw \in Seq(X), NEW amount \in parse_vn_number(raw)
    PROVE  Hundredths(amount) \in Int
  <1> DEFINE whole    == amount.parts.whole
             padded   == amount.parts.fraction \o <<"0", "0">>
             cents    == SubSeq(padded, 1, 2)
             size     == NaturalOf(whole \o cents)
  <1>1. whole \in Seq(Digit) /\ amount.parts.fraction \in Seq(Digit)
    BY AmountOfText
  <1>2. padded \in Seq(Digit) /\ Len(padded) \in Nat /\ Len(padded) >= 2
    <2>1. <<"0", "0">> \in Seq(Digit) /\ Len(<<"0", "0">>) = 2
      BY DigitIs
    <2> QED
      BY <1>1, <2>1, ConcatProperties, LenProperties
  <1>3. cents \in Seq(Digit)
    <2>1. \A i \in 1 .. 2 : padded[i] \in Digit
      BY <1>2, ElementOfSeq
    <2> HIDE DEF padded
    <2> QED
      BY <2>1, SubSeqProperties
  <1>4. whole \o cents \in Seq(Digit)
    <2> HIDE DEF cents
    <2> QED
      BY <1>1, <1>3, ConcatProperties
  <1>5. size \in Nat
    <2> HIDE DEF cents
    <2> QED
      BY <1>4, NaturalOfType
  <1>6. Hundredths(amount) = IF amount.negative THEN -size ELSE size
    BY Zenon DEF Hundredths
  <1> HIDE DEF size
  <1> QED
    BY <1>5, <1>6

-----------------------------------------------------------------------------
(* The rows of a table                                                     *)

ParserType ==
    [rows : Seq(Seq(Pieces)), row : SUBSET Seq(Pieces), cell : SUBSET Pieces]

\* strip returns a text.
LEMMA StripType ==
    ASSUME NEW X, NEW text \in Seq(X)
    PROVE  strip(text) \in Seq(X)
  <1>1. {} \cap Space = {}
    OBVIOUS
  <1> QED
    BY <1>1, OnlyStrip

\* A token leads from a state of the row parser to another.
LEMMA FeedType ==
    ASSUME NEW parser \in ParserType, NEW token \in Tokens
    PROVE  Feed(parser, token) \in ParserType
  <1>1. ASSUME NEW tag \in STRING
        PROVE  handle_starttag(parser, tag) \in ParserType
    <2>1. <<>> \in Seq(Pieces) /\ NoText \in Pieces
      <3>1. <<>> \in Seq(Pieces) /\ <<>> \in Seq(STRING)
        BY EmptySeq
      <3> QED
        BY <3>1 DEF NoText, NoCode, Pieces
    <2> QED
      BY <2>1 DEF handle_starttag, ParserType
  <1>2. ASSUME NEW data \in Pieces
        PROVE  handle_data(parser, data) \in ParserType
    <2>1. ASSUME NEW cell \in Pieces
          PROVE  [data EXCEPT !.text = cell.text \o @] \in Pieces
      <3>1. cell.text \o data.text \in Seq(STRING)
        BY ConcatProperties DEF Pieces
      <3> QED
        BY <3>1 DEF Pieces
    <2>2. {[data EXCEPT !.text = cell.text \o @] : cell \in parser.cell} \in SUBSET Pieces
      BY <2>1 DEF ParserType
    <2> QED
      BY <2>2 DEF handle_data, ParserType
  <1>3. ASSUME NEW tag \in STRING
        PROVE  handle_endtag(parser, tag) \in ParserType
    <2>1. CASE tag \in CellTags /\ parser.cell # {}
      <3> DEFINE cell == [TheOnly(parser.cell) EXCEPT !.text = strip(@)]
      <3>1. TheOnly(parser.cell) \in Pieces
        BY <2>1 DEF TheOnly, ParserType
      <3>2. strip(TheOnly(parser.cell).text) \in Seq(STRING)
        BY <3>1, StripType DEF Pieces
      <3>3. cell \in Pieces
        BY <3>1, <3>2 DEF Pieces
      <3>4. handle_endtag(parser, tag) =
              [parser EXCEPT !.row = {Append(row, cell) : row \in parser.row}, !.cell = {}]
        BY <2>1 DEF handle_endtag
      <3> HIDE DEF cell
      <3>5. {Append(row, cell) : row \in parser.row} \in SUBSET Seq(Pieces)
        BY <3>3, AppendProperties DEF ParserType
      <3> QED
        BY <3>4, <3>5 DEF ParserType
    <2>2. CASE ~(tag \in CellTags /\ parser.cell # {}) /\ tag = "tr" /\ parser.row # {}
      <3>1. TheOnly(parser.row) \in Seq(Pieces)
        BY <2>2 DEF TheOnly, ParserType
      <3>2. Append(parser.rows, TheOnly(parser.row)) \in Seq(Seq(Pieces))
        BY <3>1, AppendProperties DEF ParserType
      <3>3. handle_endtag(parser, tag) =
              [parser EXCEPT !.rows = Append(@, TheOnly(parser.row)), !.row = {}]
        BY <2>2 DEF handle_endtag
      <3> QED
        BY <3>2, <3>3 DEF ParserType
    <2>3. CASE ~(tag \in CellTags /\ parser.cell # {}) /\ ~(tag = "tr" /\ parser.row # {})
      BY <2>3 DEF handle_endtag
    <2> QED
      BY <2>1, <2>2, <2>3
  <1>4. token.type \in {"start", "data", "end"} /\ token.tag \in STRING /\ token.data \in Pieces
    BY DEF Tokens
  <1> QED
    BY <1>1, <1>2, <1>3, <1>4 DEF Feed

\* The cell has its place from the data of token i.
Placed(cell, table, i) ==
    /\ i \in DOMAIN table /\ IsData(table[i])
    /\ cell.row = table[i].data.row /\ cell.col = table[i].data.col

\* After n tokens the open cell, if it was printed, has text of its own.
OpenCell(table, n, cell) ==
    Printed(cell) => \E i \in 1 .. n : Placed(cell, table, i) /\ SameCell(table, i, n)

\* The cells of the open row have text from this row, and from before the open cell.
OpenRow(table, n, row, open) ==
    /\ InOneRow(row)
    /\ \A k \in DOMAIN row : Printed(row[k]) =>
         \E i \in 1 .. n : /\ Placed(row[k], table, i) /\ SameRow(table, i, n)
                           /\ open => ~SameCell(table, i, n)

RowSoFar(table, n, parser) ==
    /\ \A k \in DOMAIN parser.rows : InOneRow(parser.rows[k])
    /\ \A row \in parser.row : OpenRow(table, n, row, parser.cell # {})
    /\ \A cell \in parser.cell : OpenCell(table, n, cell)

\* One more token goes on in the row, or the cell, unless it starts one.
LEMMA SameStep ==
    ASSUME NEW table, NEW n \in Nat, NEW i \in 1 .. n
    PROVE  /\ SameRow(table, i, n + 1) <=> SameRow(table, i, n) /\ ~StartsRow(table[n + 1])
           /\ SameCell(table, i, n + 1) <=> SameCell(table, i, n) /\ ~StartsCell(table[n + 1])
  <1>1. \A j \in i .. n + 1 : j \in i .. n \/ j = n + 1
    OBVIOUS
  <1>2. n + 1 \in i .. n + 1 /\ \A j \in i .. n : j \in i .. n + 1
    OBVIOUS
  <1> QED
    BY <1>1, <1>2, Zenon DEF SameRow, SameCell

\* An open cell stays sound until a cell starts.
LEMMA LaterCell ==
    ASSUME NEW table, NEW n \in Nat, NEW cell, OpenCell(table, n, cell), ~StartsCell(table[n + 1])
    PROVE  OpenCell(table, n + 1, cell)
  <1> SUFFICES ASSUME Printed(cell)
               PROVE  \E i \in 1 .. n + 1 : Placed(cell, table, i) /\ SameCell(table, i, n + 1)
    BY Zenon DEF OpenCell
  <1>1. PICK i \in 1 .. n : Placed(cell, table, i) /\ SameCell(table, i, n)
    BY Zenon DEF OpenCell
  <1>2. i \in 1 .. n + 1 /\ SameCell(table, i, n + 1)
    BY <1>1, SameStep
  <1> QED
    BY <1>1, <1>2, Zenon

\* An open row stays sound until a row starts.
LEMMA LaterRow ==
    ASSUME NEW table, NEW n \in Nat, NEW row, NEW open, NEW more,
           OpenRow(table, n, row, open), ~StartsRow(table[n + 1]),
           more => open \/ StartsCell(table[n + 1])
    PROVE  OpenRow(table, n + 1, row, more)
  <1> SUFFICES ASSUME NEW k \in DOMAIN row, Printed(row[k])
               PROVE  \E i \in 1 .. n + 1 : /\ Placed(row[k], table, i) /\ SameRow(table, i, n + 1)
                                            /\ more => ~SameCell(table, i, n + 1)
    BY Zenon DEF OpenRow
  <1>1. PICK i \in 1 .. n : /\ Placed(row[k], table, i) /\ SameRow(table, i, n)
                            /\ open => ~SameCell(table, i, n)
    BY Zenon DEF OpenRow
  <1>2. /\ SameRow(table, i, n + 1) <=> SameRow(table, i, n) /\ ~StartsRow(table[n + 1])
        /\ SameCell(table, i, n + 1) <=> SameCell(table, i, n) /\ ~StartsCell(table[n + 1])
    BY SameStep
  <1>3. i \in 1 .. n + 1
    OBVIOUS
  <1> QED
    BY <1>1, <1>2, <1>3, Zenon

\* An open cell that ends goes to the end of its row.
LEMMA EndedCell ==
    ASSUME NEW table \in Seq(Tokens), FollowsTheSource(table), NEW n \in Nat, n + 1 \in DOMAIN table,
           EndsCell(table[n + 1]), NEW row \in Seq(Pieces), OpenRow(table, n, row, TRUE),
           NEW cell \in Pieces, OpenCell(table, n, cell)
    PROVE  OpenRow(table, n + 1, Append(row, cell), FALSE)
  <1> DEFINE more == Append(row, cell)
             last == Len(row) + 1
  <1>1. /\ DOMAIN row = 1 .. Len(row) /\ DOMAIN more = 1 .. last /\ Len(row) \in Nat
        /\ more[last] = cell /\ \A k \in 1 .. Len(row) : more[k] = row[k]
    BY AppendProperties, LenProperties
  <1>2. DOMAIN table = 1 .. Len(table) /\ Len(table) \in Nat
    BY LenProperties
  <1>3. ~StartsRow(table[n + 1]) /\ ~StartsCell(table[n + 1])
    BY DEF EndsCell, StartsRow, StartsCell
  <1>4. ASSUME NEW k \in 1 .. Len(row), Printed(row[k]), Printed(cell)
        PROVE  row[k].row = cell.row /\ row[k].col < cell.col
    <2>1. PICK i \in 1 .. n : /\ Placed(row[k], table, i) /\ SameRow(table, i, n)
                              /\ ~SameCell(table, i, n)
      BY <1>1, <1>4, Zenon DEF OpenRow
    <2>2. PICK h \in 1 .. n : Placed(cell, table, h) /\ SameCell(table, h, n)
      BY <1>4, Zenon DEF OpenCell
    <2>3. PICK j \in i .. n : StartsCell(table[j])
      BY <2>1 DEF SameCell
    <2>4. ~(h <= j)
      BY <2>2, <2>3 DEF SameCell
    <2>5. i < h /\ h \in i + 1 .. Len(table) /\ j \in i .. h
      BY <1>2, <2>1, <2>2, <2>3, <2>4 DEF Placed
    <2>6. SameRow(table, i, h) /\ ~SameCell(table, i, h)
      BY <2>1, <2>3, <2>5 DEF SameRow, SameCell
    <2>7. table[i].data.row = table[h].data.row /\ table[i].data.col < table[h].data.col
      BY <2>1, <2>2, <2>5, <2>6 DEF FollowsTheSource, Placed
    <2> QED
      BY <2>1, <2>2, <2>7 DEF Placed
  <1>5. InOneRow(more)
    <2> SUFFICES ASSUME NEW i \in DOMAIN more, NEW k \in DOMAIN more, i < k,
                        Printed(more[i]), Printed(more[k])
                 PROVE  more[i].row = more[k].row /\ more[i].col < more[k].col
      BY Zenon DEF InOneRow
    <2>1. i \in 1 .. Len(row) /\ more[i] = row[i]
      BY <1>1
    <2>2. CASE k = last
      BY <1>1, <1>4, <2>1, <2>2
    <2>3. CASE k \in 1 .. Len(row)
      <3>1. more[k] = row[k] /\ InOneRow(row)
        BY <1>1, <2>3 DEF OpenRow
      <3> QED
        BY <1>1, <2>1, <2>3, <3>1 DEF InOneRow
    <2> QED
      BY <1>1, <2>2, <2>3
  <1>6. ASSUME NEW k \in DOMAIN more, Printed(more[k])
        PROVE  \E i \in 1 .. n + 1 : Placed(more[k], table, i) /\ SameRow(table, i, n + 1)
    <2>1. CASE k = last
      <3>1. PICK h \in 1 .. n : Placed(cell, table, h) /\ SameCell(table, h, n)
        BY <1>1, <1>6, <2>1, Zenon DEF OpenCell
      <3>2. ASSUME ~SameRow(table, h, n)
            PROVE  FALSE
        <4>1. PICK j \in h .. n : StartsRow(table[j])
          BY <3>2 DEF SameRow
        <4>2. j \in DOMAIN table /\ n + 1 \in j + 1 .. Len(table)
          BY <1>2
        <4>3. ~SameCell(table, j, n + 1)
          BY <4>1, <4>2 DEF FollowsTheSource
        <4> QED
          BY <1>3, <3>1, <4>3 DEF SameCell
      <3>3. SameRow(table, h, n + 1) /\ h \in 1 .. n + 1
        BY <1>3, <3>2, SameStep
      <3> QED
        BY <1>1, <2>1, <3>1, <3>3
    <2>2. CASE k \in 1 .. Len(row)
      <3>1. PICK i \in 1 .. n : Placed(row[k], table, i) /\ SameRow(table, i, n)
        BY <1>1, <1>6, <2>2, Zenon DEF OpenRow
      <3>2. SameRow(table, i, n + 1) /\ i \in 1 .. n + 1
        BY <1>3, <3>1, SameStep
      <3> QED
        BY <1>1, <2>2, <3>1, <3>2
    <2> QED
      BY <1>1, <2>1, <2>2
  <1> HIDE DEF more
  <1>7. OpenRow(table, n + 1, more, FALSE)
    BY <1>5, <1>6, Zenon DEF OpenRow
  <1> QED
    BY <1>7 DEF more

\* Every token keeps the invariant of the row parser.
LEMMA FeedInRow ==
    ASSUME NEW table \in Seq(Tokens), FollowsTheSource(table), NEW n \in Nat, n + 1 \in DOMAIN table,
           NEW parser \in ParserType, RowSoFar(table, n, parser)
    PROVE  RowSoFar(table, n + 1, Feed(parser, table[n + 1]))
  <1> DEFINE token == table[n + 1]
             later == Feed(parser, token)
  <1>1. token \in Tokens
    BY LenProperties, ElementOfSeq
  <1>2. /\ token.type \in {"start", "data", "end"} /\ token.data \in Pieces
        /\ later = CASE token.type = "start" -> handle_starttag(parser, token.tag)
                     [] token.type = "data"  -> handle_data(parser, token.data)
                     [] token.type = "end"   -> handle_endtag(parser, token.tag)
    BY <1>1 DEF Tokens, Feed
  <1>3. /\ parser.rows \in Seq(Seq(Pieces)) /\ parser.row \in SUBSET Seq(Pieces)
        /\ parser.cell \in SUBSET Pieces
    BY DEF ParserType
  <1>4. /\ \A k \in DOMAIN parser.rows : InOneRow(parser.rows[k])
        /\ \A row \in parser.row : OpenRow(table, n, row, parser.cell # {})
        /\ \A cell \in parser.cell : OpenCell(table, n, cell)
    BY Zenon DEF RowSoFar
  <1> SUFFICES RowSoFar(table, n + 1, later)
    OBVIOUS
  <1> HIDE DEF later
  <1>5. CASE StartsRow(token)
    <2>1. later.rows = parser.rows /\ later.row = {<<>>} /\ later.cell = parser.cell
      BY <1>2, <1>5 DEF StartsRow, handle_starttag, ParserType
    <2>2. OpenRow(table, n + 1, <<>>, later.cell # {})
      BY DEF OpenRow, InOneRow
    <2>3. ~StartsCell(token)
      BY <1>5 DEF StartsRow, StartsCell, CellTags
    <2>4. \A cell \in parser.cell : OpenCell(table, n + 1, cell)
      BY <1>4, <2>3, LaterCell
    <2> QED
      BY <1>4, <2>1, <2>2, <2>4 DEF RowSoFar
  <1>6. CASE StartsCell(token)
    <2>1. later.rows = parser.rows /\ later.row = parser.row /\ later.cell = {NoText}
      BY <1>2, <1>6 DEF StartsCell, CellTags, handle_starttag, ParserType
    <2>2. ~StartsRow(token)
      BY <1>6 DEF StartsRow, StartsCell, CellTags
    <2>3. \A row \in parser.row : OpenRow(table, n + 1, row, later.cell # {})
      BY <1>4, <1>6, <2>2, LaterRow
    <2>4. OpenCell(table, n + 1, NoText)
      BY DEF OpenCell, Printed, NoText
    <2> QED
      BY <1>4, <2>1, <2>3, <2>4 DEF RowSoFar
  <1>7. CASE IsData(token)
    <2>1. /\ later.rows = parser.rows /\ later.row = parser.row
          /\ later.cell = {[token.data EXCEPT !.text = cell.text \o @] : cell \in parser.cell}
      BY <1>2, <1>7 DEF IsData, handle_data, ParserType
    <2>2. ~StartsRow(token) /\ ~StartsCell(token)
      BY <1>7 DEF IsData, StartsRow, StartsCell
    <2>3. later.cell # {} => parser.cell # {}
      BY <2>1
    <2>4. \A row \in parser.row : OpenRow(table, n + 1, row, later.cell # {})
      BY <1>4, <2>2, <2>3, LaterRow
    <2>5. ASSUME NEW cell \in later.cell
          PROVE  OpenCell(table, n + 1, cell)
      <3>1. cell.row = token.data.row /\ cell.col = token.data.col
        BY <1>2, <2>1 DEF Pieces
      <3>2. Placed(cell, table, n + 1)
        BY <1>7, <3>1 DEF Placed
      <3>3. SameCell(table, n + 1, n + 1) /\ n + 1 \in 1 .. n + 1
        BY <2>2 DEF SameCell
      <3> QED
        BY <3>2, <3>3, Zenon DEF OpenCell
    <2> QED
      BY <1>4, <2>1, <2>4, <2>5 DEF RowSoFar
  <1>8. CASE EndsCell(token) /\ parser.cell # {}
    <2> DEFINE cell == [TheOnly(parser.cell) EXCEPT !.text = strip(@)]
    <2>1. TheOnly(parser.cell) \in parser.cell
      BY <1>8 DEF TheOnly
    <2>2. cell \in Pieces /\ OpenCell(table, n, cell)
      <3>1. strip(TheOnly(parser.cell).text) \in Seq(STRING)
        BY <1>3, <2>1, StripType DEF Pieces
      <3>2. /\ cell \in Pieces
            /\ cell.row = TheOnly(parser.cell).row /\ cell.col = TheOnly(parser.cell).col
        BY <1>3, <2>1, <3>1 DEF Pieces
      <3>3. OpenCell(table, n, TheOnly(parser.cell))
        BY <1>4, <2>1
      <3> HIDE DEF cell
      <3> QED
        BY <3>2, <3>3 DEF OpenCell, Printed, Placed
    <2>3. /\ later.rows = parser.rows /\ later.cell = {}
          /\ later.row = {Append(row, cell) : row \in parser.row}
      BY <1>2, <1>8 DEF EndsCell, handle_endtag, ParserType
    <2> HIDE DEF cell
    <2>4. ASSUME NEW row \in parser.row
          PROVE  OpenRow(table, n + 1, Append(row, cell), FALSE)
      <3>1. OpenRow(table, n, row, TRUE)
        BY <1>4, <1>8
      <3> QED
        BY <1>3, <1>8, <2>2, <3>1, EndedCell
    <2>5. \A row \in later.row : OpenRow(table, n + 1, row, later.cell # {})
      BY <2>3, <2>4
    <2> QED
      BY <1>4, <2>3, <2>5 DEF RowSoFar
  <1>9. CASE /\ ~StartsRow(token) /\ ~StartsCell(token) /\ ~IsData(token)
             /\ ~(EndsCell(token) /\ parser.cell # {})
    <2>1. later.cell = parser.cell /\ later.row \subseteq parser.row
          /\ \A k \in DOMAIN later.rows : InOneRow(later.rows[k])
      <3>1. CASE token.type = "end" /\ token.tag = "tr" /\ parser.row # {}
        <4>1. /\ later.rows = Append(parser.rows, TheOnly(parser.row))
              /\ later.row = {} /\ later.cell = parser.cell
          BY <1>2, <1>9, <3>1 DEF EndsCell, handle_endtag, ParserType
        <4>2. TheOnly(parser.row) \in parser.row
          BY <3>1 DEF TheOnly
        <4>3. InOneRow(TheOnly(parser.row))
          BY <1>4, <4>2 DEF OpenRow
        <4>4. \A k \in DOMAIN later.rows : InOneRow(later.rows[k])
          BY <1>3, <1>4, <4>1, <4>2, <4>3, AppendProperties, LenProperties
        <4> QED
          BY <4>1, <4>4
      <3>2. CASE ~(token.type = "end" /\ token.tag = "tr" /\ parser.row # {})
        <4>1. later = parser
          BY <1>2, <1>9, <3>2 DEF EndsCell, StartsRow, StartsCell, IsData, handle_endtag,
            handle_starttag
        <4> QED
          BY <1>4, <4>1
      <3> QED
        BY <3>1, <3>2
    <2>2. \A row \in later.row : OpenRow(table, n + 1, row, later.cell # {})
      BY <1>4, <1>9, <2>1, LaterRow
    <2>3. \A cell \in later.cell : OpenCell(table, n + 1, cell)
      BY <1>4, <1>9, <2>1, LaterCell
    <2> QED
      BY <2>1, <2>2, <2>3 DEF RowSoFar
  <1> QED
    BY <1>5, <1>6, <1>7, <1>8, <1>9

ParsedFunction(table, m, g) ==
    g = [n \in 0 .. m |-> IF n = 0 THEN {NewParser} ELSE {Feed(p, table[n]) : p \in g[n - 1]}]

\* A function with the equation of parse_html_rows exists.
LEMMA ParsedExists ==
    ASSUME NEW table, NEW m \in Nat
    PROVE  \E g : ParsedFunction(table, m, g)
  <1> DEFINE Good == {n \in Nat : \E g : ParsedFunction(table, n, g)}
  <1>1. 0 \in Good
    <2>1. ParsedFunction(table, 0, [n \in 0 .. 0 |-> {NewParser}])
      BY DEF ParsedFunction
    <2> QED
      BY <2>1
  <1>2. ASSUME NEW n \in Nat, n \in Good
        PROVE  n + 1 \in Good
    <2>1. PICK g : ParsedFunction(table, n, g)
      BY <1>2
    <2> DEFINE last == {Feed(p, table[n + 1]) : p \in g[n]}
               h    == [i \in 0 .. n + 1 |-> IF i = n + 1 THEN last ELSE g[i]]
    <2>2. \A i \in 0 .. n :
            g[i] = IF i = 0 THEN {NewParser} ELSE {Feed(p, table[i]) : p \in g[i - 1]}
      BY <2>1 DEF ParsedFunction
    <2>3. ASSUME NEW i \in 0 .. n + 1
          PROVE  h[i] = IF i = 0 THEN {NewParser} ELSE {Feed(p, table[i]) : p \in h[i - 1]}
      <3>1. CASE i \in 0 .. n
        <4>1. h[i] = g[i] /\ (i # 0 => h[i - 1] = g[i - 1])
          BY <3>1
        <4> HIDE DEF h
        <4> QED
          BY <2>2, <3>1, <4>1
      <3>2. CASE i = n + 1
        <4>1. h[i] = last /\ h[i - 1] = g[n] /\ i # 0
          BY <3>2
        <4> HIDE DEF h
        <4> QED
          BY <3>2, <4>1
      <3> QED
        BY <3>1, <3>2
    <2>4. h = [i \in 0 .. n + 1 |-> h[i]]
      OBVIOUS
    <2>5. ParsedFunction(table, n + 1, h)
      <3> HIDE DEF h
      <3> QED
        BY <2>3, <2>4 DEF ParsedFunction
    <2> QED
      BY <2>5
  <1> HIDE DEF Good
  <1>3. Nat \subseteq Good
    BY <1>1, <1>2, NumberInduction
  <1> QED
    BY <1>3 DEF Good

\* Whichever end tags a table lacks, its rows are rows of the source.
LEMMA RowsOfTable ==
    ASSUME NEW table \in Seq(Tokens)
    PROVE  /\ parse_html_rows(table) \in Seq(Seq(Pieces))
           /\ FollowsTheSource(table) =>
                \A k \in DOMAIN parse_html_rows(table) : InOneRow(parse_html_rows(table)[k])
  <1> DEFINE m == Len(table)
             g == CHOOSE h : ParsedFunction(table, m, h)
             Fine(n, p) == p \in ParserType /\ (FollowsTheSource(table) => RowSoFar(table, n, p))
  <1>1. m \in Nat /\ DOMAIN table = 1 .. m /\ \A n \in 1 .. m : table[n] \in Tokens
    BY LenProperties, ElementOfSeq
  <1>2. parse_html_rows(table) = TheOnly(g[m]).rows
    BY DEF parse_html_rows, ParsedFunction
  <1>3. ParsedFunction(table, m, g)
    BY <1>1, ParsedExists
  <1> HIDE DEF g, m
  <1>4. \A n \in 0 .. m :
          g[n] = IF n = 0 THEN {NewParser} ELSE {Feed(p, table[n]) : p \in g[n - 1]}
    BY <1>3 DEF ParsedFunction
  <1> DEFINE Good == {n \in Nat : n <= m => g[n] # {} /\ \A p \in g[n] : Fine(n, p)}
  <1>5. 0 \in Good
    <2>1. g[0] = {NewParser}
      <3>1. 0 \in 0 .. m
        BY <1>1
      <3> QED
        BY <1>4, <3>1, Zenon
    <2>2. NewParser \in ParserType
      <3>1. <<>> \in Seq(Seq(Pieces))
        BY EmptySeq
      <3> QED
        BY <3>1 DEF NewParser, ParserType
    <2>3. RowSoFar(table, 0, NewParser)
      BY DEF RowSoFar, NewParser
    <2> QED
      BY <2>1, <2>2, <2>3
  <1>6. ASSUME NEW n \in Nat, n \in Good
        PROVE  n + 1 \in Good
    <2>1. ASSUME n + 1 <= m
          PROVE  g[n + 1] # {} /\ \A p \in g[n + 1] : Fine(n + 1, p)
      <3>1. n + 1 \in 1 .. m /\ n + 1 \in 0 .. m /\ n <= m /\ (n + 1) - 1 = n /\ n + 1 # 0
        BY <1>1, <2>1
      <3>2. g[n] # {} /\ \A p \in g[n] : Fine(n, p)
        BY <1>6, <3>1
      <3>3. g[n + 1] = {Feed(p, table[n + 1]) : p \in g[n]}
        BY <1>4, <3>1
      <3>4. table[n + 1] \in Tokens /\ n + 1 \in DOMAIN table
        BY <1>1, <3>1
      <3>5. ASSUME NEW p \in g[n]
            PROVE  Fine(n + 1, Feed(p, table[n + 1]))
        <4>1. p \in ParserType /\ (FollowsTheSource(table) => RowSoFar(table, n, p))
          BY <3>2
        <4>2. Feed(p, table[n + 1]) \in ParserType
          BY <3>4, <4>1, FeedType
        <4>3. FollowsTheSource(table) => RowSoFar(table, n + 1, Feed(p, table[n + 1]))
          BY <3>4, <4>1, FeedInRow
        <4> QED
          BY <4>2, <4>3
      <3> HIDE DEF Fine
      <3> QED
        BY <3>2, <3>3, <3>5
    <2> QED
      BY <2>1
  <1> HIDE DEF Good
  <1>7. Nat \subseteq Good
    BY <1>5, <1>6, NumberInduction
  <1>8. g[m] # {} /\ \A p \in g[m] : Fine(m, p)
    BY <1>1, <1>7 DEF Good
  <1>9. TheOnly(g[m]) \in g[m]
    BY <1>8 DEF TheOnly
  <1>10. TheOnly(g[m]).rows \in Seq(Seq(Pieces))
    BY <1>8, <1>9 DEF ParserType
  <1>11. FollowsTheSource(table) =>
           \A k \in DOMAIN TheOnly(g[m]).rows : InOneRow(TheOnly(g[m]).rows[k])
    BY <1>8, <1>9, Zenon DEF RowSoFar
  <1> QED
    BY <1>2, <1>10, <1>11, Zenon

-----------------------------------------------------------------------------
(* The tables of a result                                                  *)

FlatFunction(seqs, m, g) == g = [i \in 1 .. m |-> IF i = 1 THEN seqs[i] ELSE g[i - 1] \o seqs[i]]

\* A function with the equation of FlattenSeq exists.
LEMMA FlatExists ==
    ASSUME NEW seqs, NEW m \in Nat
    PROVE  \E g : FlatFunction(seqs, m, g)
  <1> DEFINE Good == {n \in Nat : \E g : FlatFunction(seqs, n, g)}
  <1>1. 0 \in Good
    <2>1. FlatFunction(seqs, 0, [i \in 1 .. 0 |-> <<>>])
      BY DEF FlatFunction
    <2> QED
      BY <2>1
  <1>2. ASSUME NEW n \in Nat, n \in Good
        PROVE  n + 1 \in Good
    <2>1. PICK g : FlatFunction(seqs, n, g)
      BY <1>2
    <2> DEFINE last == IF n + 1 = 1 THEN seqs[n + 1] ELSE g[n] \o seqs[n + 1]
               h    == [i \in 1 .. n + 1 |-> IF i = n + 1 THEN last ELSE g[i]]
    <2>2. \A i \in 1 .. n : g[i] = IF i = 1 THEN seqs[i] ELSE g[i - 1] \o seqs[i]
      BY <2>1 DEF FlatFunction
    <2>3. ASSUME NEW i \in 1 .. n + 1
          PROVE  h[i] = IF i = 1 THEN seqs[i] ELSE h[i - 1] \o seqs[i]
      <3>1. CASE i \in 1 .. n
        <4>1. h[i] = g[i] /\ (i # 1 => h[i - 1] = g[i - 1])
          BY <3>1
        <4> HIDE DEF h
        <4> QED
          BY <2>2, <3>1, <4>1
      <3>2. CASE i = n + 1
        <4>1. h[i] = last /\ (i # 1 => h[i - 1] = g[n])
          BY <3>2
        <4> HIDE DEF h
        <4> QED
          BY <3>2, <4>1
      <3> QED
        BY <3>1, <3>2
    <2>4. h = [i \in 1 .. n + 1 |-> h[i]]
      OBVIOUS
    <2>5. FlatFunction(seqs, n + 1, h)
      <3> HIDE DEF h
      <3> QED
        BY <2>3, <2>4 DEF FlatFunction
    <2> QED
      BY <2>5
  <1> HIDE DEF Good
  <1>3. Nat \subseteq Good
    BY <1>1, <1>2, NumberInduction
  <1> QED
    BY <1>3 DEF Good

\* A concatenation has the type of its parts.
LEMMA FlattenType ==
    ASSUME NEW X, NEW seqs \in Seq(Seq(X))
    PROVE  FlattenSeq(seqs) \in Seq(X)
  <1> DEFINE m == Len(seqs)
             g == CHOOSE h : FlatFunction(seqs, m, h)
  <1>1. m \in Nat /\ \A i \in 1 .. m : seqs[i] \in Seq(X)
    BY LenProperties, ElementOfSeq
  <1>2. CASE m = 0
    <2>1. seqs = <<>>
      BY <1>2, EmptySeq
    <2>2. <<>> \in Seq(X)
      BY EmptySeq
    <2> QED
      BY <1>2, <2>1, <2>2 DEF FlattenSeq
  <1>3. CASE m # 0
    <2>1. FlattenSeq(seqs) = g[m]
      BY <1>3 DEF FlattenSeq, FlatFunction
    <2>2. FlatFunction(seqs, m, g)
      BY <1>1, FlatExists
    <2> HIDE DEF g, m
    <2>3. \A i \in 1 .. m : g[i] = IF i = 1 THEN seqs[i] ELSE g[i - 1] \o seqs[i]
      BY <2>2 DEF FlatFunction
    <2> DEFINE Good == {n \in Nat : n \in 1 .. m => g[n] \in Seq(X)}
    <2>4. 0 \in Good
      OBVIOUS
    <2>5. ASSUME NEW n \in Nat, n \in Good
          PROVE  n + 1 \in Good
      <3>1. CASE n = 0
        BY <1>1, <2>3, <3>1
      <3>2. ASSUME n # 0, n + 1 \in 1 .. m
            PROVE  g[n + 1] \in Seq(X)
        <4>1. g[n] \in Seq(X) /\ seqs[n + 1] \in Seq(X) /\ g[n + 1] = g[n] \o seqs[n + 1]
          <5>1. n \in 1 .. m /\ (n + 1) - 1 = n /\ n + 1 # 1
            BY <1>1, <3>2
          <5>2. g[n] \in Seq(X)
            BY <2>5, <5>1
          <5>3. g[n + 1] = g[(n + 1) - 1] \o seqs[n + 1]
            BY <2>3, <3>2, <5>1
          <5> QED
            BY <1>1, <3>2, <5>1, <5>2, <5>3
        <4> QED
          BY <4>1, ConcatProperties
      <3> QED
        BY <3>1, <3>2
    <2> HIDE DEF Good
    <2>6. Nat \subseteq Good
      BY <2>4, <2>5, NumberInduction
    <2>7. m \in 1 .. m
      BY <1>1, <1>3
    <2> QED
      BY <1>1, <2>1, <2>6, <2>7 DEF Good
  <1> QED
    BY <1>2, <1>3

\* The tables below a node, when g has those of its children.
Below(result, n, g) ==
    FlattenSeq([k \in DOMAIN SearchedBelow(result[n]) |-> g[SearchedBelow(result[n])[k]]])

FoundFrom(result, m, g) ==
    \A n \in m .. Len(result) : g[n] = TablesOf(result[n]) \o Below(result, n, g)

FoundFunction(result, g) ==
    g = [n \in DOMAIN result |->
           TablesOf(result[n]) \o
           FlattenSeq([k \in DOMAIN SearchedBelow(result[n]) |->
                           g[SearchedBelow(result[n])[k]]])]

\* What is below a node depends on the nodes after it only.
LEMMA BelowSame ==
    ASSUME NEW result \in Seq(Nodes), NEW n \in DOMAIN result, NEW g, NEW h,
           \A i \in n + 1 .. Len(result) : g[i] = h[i], Tree(result)
    PROVE  Below(result, n, g) = Below(result, n, h)
  <1> DEFINE kids == SearchedBelow(result[n])
  <1>1. \A k \in DOMAIN kids : kids[k] \in n + 1 .. Len(result)
    BY DEF Tree, SearchedBelow
  <1> HIDE DEF kids
  <1>2. \A k \in DOMAIN kids : g[kids[k]] = h[kids[k]]
    BY <1>1
  <1>3. [k \in DOMAIN kids |-> g[kids[k]]] = [k \in DOMAIN kids |-> h[kids[k]]]
    BY <1>2
  <1> QED
    BY <1>3, Zenon DEF Below, kids

\* A function with the equation of find_table_html exists, from the last node back.
LEMMA FoundExists ==
    ASSUME NEW result \in Seq(Nodes), Tree(result)
    PROVE  \E g : FoundFunction(result, g)
  <1> DEFINE N    == Len(result)
             Good == {n \in Nat : n <= N => \E g : FoundFrom(result, N - n + 1, g)}
  <1>1. N \in Nat /\ DOMAIN result = 1 .. N
    BY LenProperties
  <1>2. 0 \in Good
    <2>1. FoundFrom(result, N - 0 + 1, <<>>)
      BY <1>1 DEF FoundFrom
    <2> QED
      BY <2>1
  <1>3. ASSUME NEW n \in Nat, n \in Good
        PROVE  n + 1 \in Good
    <2> SUFFICES ASSUME n + 1 <= N PROVE \E h : FoundFrom(result, N - (n + 1) + 1, h)
      OBVIOUS
    <2> DEFINE m == N - n
    <2>1. m \in 1 .. N /\ N - n + 1 = m + 1 /\ N - (n + 1) + 1 = m
      BY <1>1
    <2>2. PICK g : FoundFrom(result, m + 1, g)
      BY <1>1, <1>3, <2>1
    <2> HIDE DEF m, N
    <2> DEFINE first == TablesOf(result[m]) \o Below(result, m, g)
               h     == [i \in 1 .. N |-> IF i = m THEN first ELSE g[i]]
    <2>3. h[m] = first /\ \A i \in m + 1 .. N : h[i] = g[i]
      BY <1>1, <2>1
    <2> HIDE DEF h
    <2>4. ASSUME NEW i \in m .. N
          PROVE  h[i] = TablesOf(result[i]) \o Below(result, i, h)
      <3>1. i \in DOMAIN result /\ \A j \in i + 1 .. N : g[j] = h[j]
        BY <1>1, <2>1, <2>3
      <3>2. Below(result, i, g) = Below(result, i, h)
        BY <3>1, BelowSame DEF N
      <3>3. h[i] = TablesOf(result[i]) \o Below(result, i, g)
        <4>1. CASE i = m
          BY <2>3, <4>1
        <4>2. CASE i # m
          <5>1. i \in m + 1 .. N
            BY <1>1, <2>1, <4>2
          <5> QED
            BY <2>2, <2>3, <5>1, Zenon DEF FoundFrom, N
        <4> QED
          BY <4>1, <4>2
      <3> QED
        BY <3>2, <3>3
    <2>5. FoundFrom(result, m, h)
      BY <2>4 DEF FoundFrom, N
    <2> QED
      BY <2>1, <2>5, Zenon
  <1>4. PICK g : FoundFrom(result, 1, g)
    <2> HIDE DEF Good
    <2>1. Nat \subseteq Good
      BY <1>2, <1>3, NumberInduction
    <2>2. N \in Good /\ N <= N /\ N - N + 1 = 1
      BY <1>1, <2>1
    <2> QED
      BY <2>2 DEF Good
  <1> HIDE DEF N, Good
  <1> DEFINE h == [n \in DOMAIN result |-> TablesOf(result[n]) \o Below(result, n, g)]
  <1>5. \A n \in 1 .. N : h[n] = g[n]
    BY <1>1, <1>4 DEF FoundFrom, N
  <1>6. ASSUME NEW n \in DOMAIN result
        PROVE  Below(result, n, g) = Below(result, n, h)
    <2> HIDE DEF h
    <2>1. \A i \in n + 1 .. Len(result) : i \in 1 .. N
      BY <1>1 DEF N
    <2>2. \A i \in n + 1 .. Len(result) : g[i] = h[i]
      BY <1>5, <2>1
    <2> QED
      BY <2>2, BelowSame
  <1>7. h = [n \in DOMAIN result |-> TablesOf(result[n]) \o Below(result, n, h)]
    BY <1>6, Zenon
  <1> HIDE DEF h
  <1>8. FoundFunction(result, h)
    BY <1>7, Zenon DEF FoundFunction, Below
  <1> QED
    BY <1>8

\* What is found below each node: g has the tables of every node and those below it.
FoundIn(result, T, g) ==
    /\ find_table_html(result) = g[1]
    /\ \A n \in DOMAIN result : g[n] \in Seq(T) /\ TablesOf(result[n]) \in Seq(T)
    /\ \A n \in DOMAIN result : g[n] = TablesOf(result[n]) \o Below(result, n, g)

\* find_table_html by its parts, with their types.
LEMMA FoundParts ==
    ASSUME NEW T, NEW result \in Seq(Nodes), Tree(result),
           \A n \in DOMAIN result : \A k \in 1 .. 3 : result[n].html[TableKeys[k]] \in T
    PROVE  \E g : FoundIn(result, T, g)
  <1> DEFINE N == Len(result)
             g == CHOOSE h : FoundFunction(result, h)
  <1>1. N \in Nat /\ DOMAIN result = 1 .. N /\ 1 \in 1 .. N
    BY LenProperties, EmptySeq DEF Tree
  <1>2. find_table_html(result) = g[1]
    BY Zenon DEF find_table_html, FoundFunction
  <1>3. FoundFunction(result, g)
    BY FoundExists
  <1> HIDE DEF g
  <1>4. \A n \in 1 .. N : g[n] = TablesOf(result[n]) \o Below(result, n, g)
    BY <1>1, <1>3, Zenon DEF FoundFunction, Below
  <1>5. ASSUME NEW n \in 1 .. N
        PROVE  TablesOf(result[n]) \in Seq(T)
    <2> DEFINE held == [k \in 1 .. 3 |-> result[n].html[TableKeys[k]]]
    <2>1. held \in [1 .. 3 -> T]
      BY <1>1
    <2>2. held \in Seq(T)
      <3> HIDE DEF held
      <3> QED
        BY <2>1, SeqDef
    <2>3. TablesOf(result[n]) = Only(held, ToSet(held) \ {NoTable})
      BY Zenon DEF TablesOf, Without
    <2> HIDE DEF held
    <2> QED
      BY <2>2, <2>3, OnlyIsSeq
  <1> DEFINE Good == {n \in Nat : \A i \in 1 .. N : N - i < n => g[i] \in Seq(T)}
  <1>6. 0 \in Good
    BY <1>1
  <1>7. ASSUME NEW n \in Nat, n \in Good
        PROVE  n + 1 \in Good
    <2> SUFFICES ASSUME NEW i \in 1 .. N, N - i < n + 1 PROVE g[i] \in Seq(T)
      OBVIOUS
    <2> DEFINE kids == SearchedBelow(result[i])
               kept == [k \in DOMAIN kids |-> g[kids[k]]]
    <2>1. kids \in Seq(Nat)
      <3>1. result[i] \in Nodes
        BY ElementOfSeq
      <3>2. result[i].kids \in Seq(Nat)
        BY <3>1, Zenon DEF Nodes
      <3> QED
        BY <3>2 DEF SearchedBelow
    <2>2. \A k \in DOMAIN kids : kids[k] \in i + 1 .. N
      BY <1>1 DEF SearchedBelow, Tree
    <2> HIDE DEF kids
    <2>3. DOMAIN kids = 1 .. Len(kids) /\ Len(kids) \in Nat
      BY <2>1, LenProperties
    <2>4. ASSUME NEW k \in DOMAIN kids
          PROVE  g[kids[k]] \in Seq(T)
      <3>1. kids[k] \in 1 .. N /\ N - kids[k] < n
        BY <1>1, <2>2
      <3> QED
        BY <1>7, <3>1
    <2>5. kept \in [1 .. Len(kids) -> Seq(T)]
      BY <2>3, <2>4
    <2>6. kept \in Seq(Seq(T))
      <3> HIDE DEF kept
      <3> QED
        BY <2>3, <2>5, SeqDef
    <2>7. Below(result, i, g) = FlattenSeq(kept)
      BY Zenon DEF Below, kids
    <2>8. Below(result, i, g) \in Seq(T)
      <3> HIDE DEF kept
      <3> QED
        BY <2>6, <2>7, FlattenType
    <2> QED
      BY <1>4, <1>5, <2>8, ConcatProperties
  <1> HIDE DEF Good
  <1>8. Nat \subseteq Good
    BY <1>6, <1>7, NumberInduction
  <1>9. ASSUME NEW n \in 1 .. N
        PROVE  g[n] \in Seq(T)
    <2>1. N \in Good /\ N - n < N
      BY <1>1, <1>8
    <2> QED
      BY <2>1 DEF Good
  <1>10. FoundIn(result, T, g)
    BY <1>1, <1>2, <1>4, <1>5, <1>9, Zenon DEF FoundIn
  <1> QED
    BY <1>10

\* What is found in a result is what its nodes hold.
LEMMA FoundTables ==
    ASSUME NEW T, NEW result \in Seq(Nodes), Tree(result),
           \A n \in DOMAIN result : \A k \in 1 .. 3 : result[n].html[TableKeys[k]] \in T
    PROVE  find_table_html(result) \in Seq(T)
  <1>1. PICK g : FoundIn(result, T, g)
    BY FoundParts
  <1>2. 1 \in DOMAIN result
    BY LenProperties, EmptySeq DEF Tree
  <1> QED
    BY <1>1, <1>2 DEF FoundIn

-----------------------------------------------------------------------------
(* Positions                                                               *)

\* A piece of a sequence.
LEMMA Piece ==
    ASSUME NEW X, NEW seq \in Seq(X), NEW a \in 1 .. Len(seq) + 1, NEW b \in a - 1 .. Len(seq)
    PROVE  /\ SubSeq(seq, a, b) \in Seq(X) /\ Len(SubSeq(seq, a, b)) = b - a + 1
           /\ DOMAIN SubSeq(seq, a, b) = 1 .. b - a + 1
           /\ \A i \in 1 .. b - a + 1 : SubSeq(seq, a, b)[i] = seq[a + i - 1]
  <1>1. Len(seq) \in Nat /\ \A i \in 1 .. Len(seq) : seq[i] \in X
    BY LenProperties, ElementOfSeq
  <1>2. a \in Int /\ b \in Int /\ \A i \in a .. b : seq[i] \in X
    BY <1>1
  <1>3. SubSeq(seq, a, b) \in Seq(X) /\ Len(SubSeq(seq, a, b)) = IF a <= b THEN b - a + 1 ELSE 0
    BY <1>2, SubSeqProperties
  <1>4. Len(SubSeq(seq, a, b)) = b - a + 1
    BY <1>1, <1>2, <1>3
  <1>5. \A i \in 1 .. b - a + 1 : SubSeq(seq, a, b)[i] = seq[a + i - 1]
    BY <1>2, SubSeqProperties
  <1> QED
    BY <1>3, <1>4, <1>5, LenProperties

\* A text with ink at both ends is left as it is.
LEMMA StripNothing ==
    ASSUME NEW X, NEW text \in Seq(X), text # <<>>,
           text[1] \notin Space, text[Len(text)] \notin Space
    PROVE  strip(text) = text
  <1> DEFINE ink == {i \in DOMAIN text : text[i] \notin Space}
             n   == Len(text)
  <1>1. n \in Nat /\ DOMAIN text = 1 .. n /\ n # 0
    BY LenProperties, EmptySeq
  <1>2. 1 \in ink /\ n \in ink /\ ink \in SUBSET (1 .. n)
    BY <1>1
  <1>3. strip(text) = SubSeq(text, Min(ink), Max(ink))
    BY <1>2 DEF strip
  <1> HIDE DEF ink
  <1>4. /\ Min(ink) \in ink /\ \A i \in ink : Min(ink) <= i
        /\ Max(ink) \in ink /\ \A i \in ink : i <= Max(ink)
    BY <1>1, <1>2, MinMax
  <1>5. Min(ink) = 1 /\ Max(ink) = n
    <2>1. Min(ink) \in 1 .. n /\ Max(ink) \in 1 .. n /\ Min(ink) <= 1 /\ n <= Max(ink)
      BY <1>2, <1>4
    <2> QED
      BY <1>1, <2>1
  <1> QED
    BY <1>3, <1>5, SubSeqFull

\* What is kept is kept in order, and nothing that is to be kept is left out.
LEMMA OnlyPositions ==
    ASSUME NEW X, NEW S, NEW seq \in Seq(X)
    PROVE  \E f \in [1 .. Len(Only(seq, S)) -> DOMAIN seq] :
             /\ \A i, j \in 1 .. Len(Only(seq, S)) : i < j => f[i] < f[j]
             /\ \A i \in 1 .. Len(Only(seq, S)) : Only(seq, S)[i] = seq[f[i]] /\ seq[f[i]] \in S
             /\ \A k \in DOMAIN seq : seq[k] \in S => \E i \in 1 .. Len(Only(seq, S)) : f[i] = k
  <1> DEFINE Places(s, f) ==
               /\ f \in [1 .. Len(Only(s, S)) -> DOMAIN s]
               /\ \A i, j \in 1 .. Len(Only(s, S)) : i < j => f[i] < f[j]
               /\ \A i \in 1 .. Len(Only(s, S)) : Only(s, S)[i] = s[f[i]] /\ s[f[i]] \in S
               /\ \A k \in DOMAIN s : s[k] \in S => \E i \in 1 .. Len(Only(s, S)) : f[i] = k
             Good == {s \in Seq(X) : \E f : Places(s, f)}
  <1>1. <<>> \in Good
    <2>1. <<>> \in Seq(X) /\ Only(<<>>, S) = <<>> /\ Len(<<>>) = 0 /\ DOMAIN <<>> = {}
      BY OnlyEmpty, EmptySeq
    <2>2. 1 .. Len(Only(<<>>, S)) = {}
      BY <2>1
    <2>3. Places(<<>>, [i \in {} |-> 0])
      BY <2>1, <2>2
    <2> QED
      BY <2>1, <2>3
  <1>2. ASSUME NEW s \in Seq(X), NEW x \in X, s \in Good
        PROVE  Append(s, x) \in Good
    <2> DEFINE more == Append(s, x)
               n    == Len(s)
               kept == Only(s, S)
               m    == Len(kept)
    <2>1. PICK f : Places(s, f)
      BY <1>2
    <2>2. /\ n \in Nat /\ DOMAIN s = 1 .. n /\ more \in Seq(X) /\ DOMAIN more = 1 .. n + 1
          /\ more[n + 1] = x /\ \A i \in 1 .. n : more[i] = s[i]
      BY AppendProperties, LenProperties
    <2>3. kept \in Seq(X) /\ m \in Nat
      BY OnlyIsSeq
    <2>4. Only(more, S) = IF x \in S THEN Append(kept, x) ELSE kept
      BY OnlyAppend
    <2>5. /\ f \in [1 .. m -> 1 .. n]
          /\ \A i, j \in 1 .. m : i < j => f[i] < f[j]
          /\ \A i \in 1 .. m : kept[i] = s[f[i]] /\ s[f[i]] \in S
          /\ \A k \in 1 .. n : s[k] \in S => \E i \in 1 .. m : f[i] = k
      BY <2>1, <2>2
    <2> HIDE DEF Places, kept, m, n, more
    <2>6. CASE x \notin S
      <3>1. Only(more, S) = kept /\ Len(Only(more, S)) = m
        BY <2>4, <2>6 DEF m
      <3>2. f \in [1 .. m -> 1 .. n + 1]
        BY <2>2, <2>5
      <3>3. \A i \in 1 .. m : f[i] \in 1 .. n /\ more[f[i]] = s[f[i]]
        BY <2>2, <2>5
      <3>4. \A k \in 1 .. n + 1 : more[k] \in S => \E i \in 1 .. m : f[i] = k
        BY <2>2, <2>5, <2>6
      <3>5. Places(more, f)
        BY <2>2, <2>5, <3>1, <3>2, <3>3, <3>4 DEF Places
      <3> QED
        BY <2>2, <3>5 DEF more
    <2>7. CASE x \in S
      <3> DEFINE g == [i \in 1 .. m + 1 |-> IF i = m + 1 THEN n + 1 ELSE f[i]]
      <3>1. /\ Only(more, S) = Append(kept, x) /\ Len(Append(kept, x)) = m + 1
            /\ Append(kept, x)[m + 1] = x /\ \A i \in 1 .. m : Append(kept, x)[i] = kept[i]
        BY <2>3, <2>4, <2>7, AppendProperties DEF m
      <3>2. g[m + 1] = n + 1 /\ \A i \in 1 .. m : g[i] = f[i] /\ f[i] \in 1 .. n
        BY <2>3, <2>5
      <3>3. g \in [1 .. m + 1 -> 1 .. n + 1]
        BY <2>2, <2>3, <2>5
      <3> HIDE DEF g
      <3>4. \A i, j \in 1 .. m + 1 : i < j => g[i] < g[j]
        <4>1. ASSUME NEW i \in 1 .. m + 1, NEW j \in 1 .. m + 1, i < j
              PROVE  g[i] < g[j]
          <5>1. i \in 1 .. m
            BY <2>3, <4>1
          <5>2. CASE j = m + 1
            BY <2>2, <3>2, <5>1, <5>2
          <5>3. CASE j \in 1 .. m
            BY <2>5, <3>2, <4>1, <5>1, <5>3
          <5> QED
            BY <2>3, <5>2, <5>3
        <4> QED
          BY <4>1
      <3>5. \A i \in 1 .. m + 1 : Append(kept, x)[i] = more[g[i]] /\ more[g[i]] \in S
        <4>1. \A i \in 1 .. m : Append(kept, x)[i] = more[g[i]] /\ more[g[i]] \in S
          BY <2>2, <2>5, <3>1, <3>2
        <4>2. Append(kept, x)[m + 1] = more[g[m + 1]] /\ more[g[m + 1]] \in S
          BY <2>2, <2>7, <3>1, <3>2
        <4>3. \A i \in 1 .. m + 1 : i \in 1 .. m \/ i = m + 1
          BY <2>3
        <4> QED
          BY <4>1, <4>2, <4>3, Zenon
      <3>6. \A k \in 1 .. n + 1 : more[k] \in S => \E i \in 1 .. m + 1 : g[i] = k
        <4>1. ASSUME NEW k \in 1 .. n, more[k] \in S
              PROVE  \E i \in 1 .. m + 1 : g[i] = k
          <5>1. PICK i \in 1 .. m : f[i] = k
            BY <2>2, <2>5, <4>1
          <5>2. i \in 1 .. m + 1 /\ g[i] = k
            BY <2>3, <3>2, <5>1
          <5> QED
            BY <5>2
        <4>2. m + 1 \in 1 .. m + 1
          BY <2>3
        <4>3. \A k \in 1 .. n + 1 : k \in 1 .. n \/ k = n + 1
          BY <2>2
        <4> QED
          BY <3>2, <4>1, <4>2, <4>3
      <3>7. Places(more, g)
        BY <2>2, <3>1, <3>3, <3>4, <3>5, <3>6 DEF Places
      <3> QED
        BY <2>2, <3>7 DEF more
    <2> QED
      BY <2>6, <2>7
  <1>3. ASSUME NEW s \in Seq(X)
        PROVE  s \in Good
    <2> HIDE DEF Good
    <2> QED
      BY <1>1, <1>2, SequenceInduction
  <1>4. \E f : Places(seq, f)
    BY <1>3
  <1>5. PICK f : Places(seq, f)
    BY <1>4
  <1> QED
    BY <1>5, Zenon

\* f has the positions of the elements that Only keeps.
Positions(seq, S, kept, f) ==
    /\ f \in [1 .. Len(kept) -> DOMAIN seq]
    /\ \A a, b \in 1 .. Len(kept) : a < b => f[a] < f[b]
    /\ \A a \in 1 .. Len(kept) : kept[a] = seq[f[a]] /\ seq[f[a]] \in S
    /\ \A k \in DOMAIN seq : seq[k] \in S => \E a \in 1 .. Len(kept) : f[a] = k

\* The elements that Only keeps have positions.
LEMMA KeptPositions ==
    ASSUME NEW X, NEW S, NEW seq \in Seq(X)
    PROVE  \E f : Positions(seq, S, Only(seq, S), f)
  <1> DEFINE m == Len(Only(seq, S))
  <1>1. PICK f \in [1 .. m -> DOMAIN seq] :
          /\ \A i, j \in 1 .. m : i < j => f[i] < f[j]
          /\ \A i \in 1 .. m : Only(seq, S)[i] = seq[f[i]] /\ seq[f[i]] \in S
          /\ \A k \in DOMAIN seq : seq[k] \in S => \E i \in 1 .. m : f[i] = k
    BY OnlyPositions
  <1>2. Positions(seq, S, Only(seq, S), f)
    BY <1>1, Zenon DEF Positions
  <1> QED
    BY <1>2

\* An increasing list of two positions.
LEMMA TwoPositions ==
    ASSUME NEW m \in Nat, NEW D \in SUBSET Nat, NEW f \in [1 .. m -> D], NEW j \in D, NEW h \in D, j < h,
           \A a, b \in 1 .. m : a < b => f[a] < f[b],
           \A a \in 1 .. m : f[a] = j \/ f[a] = h,
           (\E a \in 1 .. m : f[a] = j) /\ (\E a \in 1 .. m : f[a] = h)
    PROVE  m = 2 /\ f[1] = j /\ f[2] = h
  <1>1. PICK a \in 1 .. m : f[a] = j
    OBVIOUS
  <1>2. PICK b \in 1 .. m : f[b] = h
    OBVIOUS
  <1>3. \A x, y \in 1 .. m : f[x] = f[y] => x = y
    <2> SUFFICES ASSUME NEW x \in 1 .. m, NEW y \in 1 .. m, f[x] = f[y] PROVE x = y
      OBVIOUS
    <2>1. f[x] \in Nat
      OBVIOUS
    <2>2. ~(x < y) /\ ~(y < x)
      BY <2>1
    <2> QED
      BY <2>2
  <1>4. a < b
    <2>1. j \in Nat /\ h \in Nat
      OBVIOUS
    <2>2. b < a => h < j
      BY <1>1, <1>2
    <2>3. a # b
      BY <1>1, <1>2, <2>1
    <2> QED
      BY <2>1, <2>2, <2>3
  <1>5. \A x \in 1 .. m : x = a \/ x = b
    BY <1>1, <1>2, <1>3
  <1>6. 1 \in 1 .. m /\ 2 \in 1 .. m /\ m \in 1 .. m
    BY <1>4
  <1>7. a = 1 /\ b = 2 /\ m = 2
    BY <1>4, <1>5, <1>6
  <1> QED
    BY <1>1, <1>2, <1>7

-----------------------------------------------------------------------------
(* The notation of amounts, and names                                      *)

Comma == ","

\* A number without a comma is all whole, one with a single comma is cut at it.
LEMMA PartsAtComma ==
    ASSUME NEW X, Comma \in X, NEW left \in Seq(X), NEW right \in Seq(X),
           \A i \in DOMAIN left : left[i] # Comma, \A i \in DOMAIN right : right[i] # Comma
    PROVE  /\ Whole(left) = Without(left, ".") /\ Fraction(left) = <<>>
           /\ Whole(left \o <<Comma>> \o right) = Without(left, ".")
           /\ Fraction(left \o <<Comma>> \o right) = right
  <1> DEFINE m      == Len(left)
             n      == Len(right)
             front  == left \o <<Comma>>
             number == front \o right
  <1>1. m \in Nat /\ n \in Nat /\ DOMAIN left = 1 .. m /\ DOMAIN right = 1 .. n
    BY LenProperties
  <1>2. \A s : Commas(s) = {i \in DOMAIN s : s[i] = Comma}
    BY Zenon DEF Commas, Comma
  <1>5. /\ front \in Seq(X) /\ Len(front) = m + 1
        /\ front[m + 1] = Comma /\ \A i \in 1 .. m : front[i] = left[i]
    BY <1>1
  <1> HIDE DEF m, n, front
  <1>6. /\ number \in Seq(X) /\ Len(number) = m + 1 + n /\ DOMAIN number = 1 .. m + 1 + n
        /\ \A i \in 1 .. m + 1 : number[i] = front[i]
        /\ \A i \in m + 2 .. m + 1 + n : number[i] = right[i - (m + 1)]
    <2>1. /\ number \in Seq(X) /\ Len(number) = m + 1 + n
          /\ \A i \in 1 .. m + 1 + n : number[i] = IF i <= m + 1 THEN front[i] ELSE right[i - (m + 1)]
      <3>1. /\ front \o right \in Seq(X) /\ Len(front \o right) = Len(front) + Len(right)
            /\ \A i \in 1 .. Len(front) + Len(right) :
                 (front \o right)[i] = IF i <= Len(front) THEN front[i] ELSE right[i - Len(front)]
        BY <1>5, ConcatProperties
      <3>2. Len(front) = m + 1 /\ Len(right) = n
        BY <1>5 DEF n
      <3> QED
        BY <3>1, <3>2, Zenon
    <2>2. DOMAIN number = 1 .. m + 1 + n
      BY <2>1, LenProperties
    <2>3. \A i \in 1 .. m + 1 : i \in 1 .. m + 1 + n /\ i <= m + 1
      BY <1>1
    <2>4. \A i \in m + 2 .. m + 1 + n : i \in 1 .. m + 1 + n /\ ~(i <= m + 1)
      BY <1>1
    <2> HIDE DEF number
    <2> QED
      BY <2>1, <2>2, <2>3, <2>4
  <1> HIDE DEF number
  <1>7. number[m + 1] = Comma /\ \A i \in 1 .. m : number[i] = left[i]
    BY <1>1, <1>5, <1>6
  <1>8. Whole(left) = Without(left, ".") /\ Fraction(left) = <<>>
    <2>1. Commas(left) = {}
      BY <1>2
    <2>2. Point(left) = m + 1
      BY <2>1, Zenon DEF Point, m
    <2>3. SubSeq(left, 1, (m + 1) - 1) = left
      BY <1>1, SubSeqFull DEF m
    <2>4. SubSeq(left, (m + 1) + 1, Len(left)) = <<>>
      BY <1>1, SubSeqEmpty DEF m
    <2> QED
      BY <2>2, <2>3, <2>4, Zenon DEF Whole, Fraction
  <1>9. Point(number) = m + 1
    <2>1. m + 1 \in Commas(number)
      BY <1>1, <1>2, <1>6, <1>7
    <2>2. \A i \in Commas(number) : i = m + 1
      <3>1. ASSUME NEW i \in 1 .. m + 1 + n, number[i] = Comma
            PROVE  i = m + 1
        <4>1. i \in 1 .. m \/ i = m + 1 \/ (i \in m + 2 .. m + 1 + n /\ i - (m + 1) \in 1 .. n)
          BY <1>1
        <4> QED
          BY <1>1, <1>6, <1>7, <3>1, <4>1
      <3> QED
        BY <1>2, <1>6, <3>1
    <2>3. Commas(number) \in SUBSET (1 .. m + 1 + n) /\ m + 1 + n \in Nat
      BY <1>1, <1>2, <1>6
    <2>4. Max(Commas(number)) \in Commas(number)
      BY <2>1, <2>3, MinMax
    <2> QED
      BY <2>1, <2>2, <2>4 DEF Point
  <1>10. SubSeq(number, 1, m) = left /\ SubSeq(number, m + 2, m + 1 + n) = right
    <2>1. /\ SubSeq(number, 1, m) \in Seq(X) /\ Len(SubSeq(number, 1, m)) = m - 1 + 1
          /\ \A i \in 1 .. m - 1 + 1 : SubSeq(number, 1, m)[i] = number[1 + i - 1]
      <3>1. 1 \in 1 .. Len(number) + 1 /\ m \in 1 - 1 .. Len(number)
        BY <1>1, <1>6
      <3> QED
        BY <1>6, <3>1, Piece
    <2>2. SubSeq(number, 1, m) = left
      <3>1. Len(SubSeq(number, 1, m)) = Len(left) /\ \A i \in 1 .. Len(left) : SubSeq(number, 1, m)[i] = left[i]
        BY <1>1, <1>7, <2>1 DEF m
      <3> QED
        BY <2>1, <3>1, SeqEqual
    <2>3. /\ SubSeq(number, m + 2, m + 1 + n) \in Seq(X)
          /\ Len(SubSeq(number, m + 2, m + 1 + n)) = (m + 1 + n) - (m + 2) + 1
          /\ \A i \in 1 .. (m + 1 + n) - (m + 2) + 1 :
               SubSeq(number, m + 2, m + 1 + n)[i] = number[(m + 2) + i - 1]
      <3>1. m + 2 \in 1 .. Len(number) + 1 /\ m + 1 + n \in (m + 2) - 1 .. Len(number)
        BY <1>1, <1>6
      <3> QED
        BY <1>6, <3>1, Piece
    <2>4. SubSeq(number, m + 2, m + 1 + n) = right
      <3>1. Len(SubSeq(number, m + 2, m + 1 + n)) = Len(right)
        BY <1>1, <2>3 DEF n
      <3>2. \A i \in 1 .. n : SubSeq(number, m + 2, m + 1 + n)[i] = right[i]
        <4>1. ASSUME NEW i \in 1 .. n
              PROVE  SubSeq(number, m + 2, m + 1 + n)[i] = right[i]
          <5>1. /\ i \in 1 .. (m + 1 + n) - (m + 2) + 1 /\ (m + 2) + i - 1 \in m + 2 .. m + 1 + n
                /\ ((m + 2) + i - 1) - (m + 1) = i
            BY <1>1
          <5> QED
            BY <1>6, <2>3, <5>1
        <4> QED
          BY <4>1
      <3> QED
        BY <2>3, <3>1, <3>2, SeqEqual DEF n
    <2> QED
      BY <2>2, <2>4
  <1>11. Whole(number) = Without(left, ".") /\ Fraction(number) = right
    <2>1. (m + 1) - 1 = m /\ (m + 1) + 1 = m + 2
      BY <1>1
    <2> QED
      BY <1>6, <1>9, <1>10, <2>1, Zenon DEF Whole, Fraction
  <1> QED
    BY <1>8, <1>11, Zenon DEF number, front

Dot == "."
Gap == " "

Cents(fraction) == SubSeq(fraction \o <<"0", "0">>, 1, 2)

\* The characters between digits are no digits and differ.
LEMMA Characters ==
    /\ {Comma, Dot, Gap} \cap Digit = {}
    /\ Comma # Dot /\ Comma # Gap /\ Dot # Gap /\ Separator = {Dot, Gap}
  <1>1. {Comma, Dot, Gap} \subseteq Ornament
    BY Zenon DEF Comma, Dot, Gap, Ornament
  <1>2. Digit \cap Ornament = {}
    BY NoOrnament, Zenon DEF Plain
  <1>3. Comma # Dot /\ Comma # Gap /\ Dot # Gap /\ Separator = {Dot, Gap}
    BY Zenon DEF Comma, Dot, Gap, Separator
  <1> QED
    BY <1>1, <1>2, <1>3

\* Without a character all others are kept.
LEMMA WithoutIs ==
    ASSUME NEW X, NEW seq \in Seq(X), NEW x
    PROVE  Without(seq, x) = Only(seq, X \ {x})
  <1>1. \A i \in DOMAIN seq : seq[i] \in X
    BY LenProperties, ElementOfSeq
  <1>2. \A i \in DOMAIN seq : seq[i] \in ToSet(seq) \ {x} <=> seq[i] \in X \ {x}
    BY <1>1 DEF ToSet
  <1> QED
    BY <1>2, OnlyCongruence DEF Without

\* A printed number of a size, without its spaces, is cut into the digits of the size.
LEMMA SizeParts ==
    ASSUME NEW X, NEW text \in Seq(X), NEW size, PrintsSize(text, size)
    PROVE  \E whole, fraction \in Seq(Digit) :
             /\ whole # <<>> /\ size = NaturalOf(whole \o Cents(fraction))
             /\ Whole(Without(text, Gap)) = whole /\ Fraction(Without(text, Gap)) = fraction
  <1> DEFINE n == Len(text)
             S == X \ {Gap}
             C == Digit \cup Separator
             Cut(m, front, fraction) ==
               /\ front = SubSeq(text, 1, m) /\ fraction = SubSeq(text, m + 2, n)
               /\ ConsistsOf(front, C) /\ text[1] \in Digit
               /\ m < n => text[m + 1] = Comma
               /\ ConsistsOf(fraction, Digit)
               /\ size = NaturalOf(Only(front, Digit) \o Cents(fraction))
  <1>1. PICK m \in DOMAIN text : Cut(m, SubSeq(text, 1, m), SubSeq(text, m + 2, n))
    BY Zenon DEF PrintsSize, Comma, Cents
  <1>2. PICK front, fraction : Cut(m, front, fraction)
    BY <1>1, Zenon
  <1>3. n \in Nat /\ m \in 1 .. n /\ DOMAIN text = 1 .. n
    BY LenProperties
  <1>4. /\ front = SubSeq(text, 1, m) /\ fraction = SubSeq(text, m + 2, n)
        /\ ConsistsOf(front, C) /\ text[1] \in Digit
        /\ m < n => text[m + 1] = Comma
        /\ ConsistsOf(fraction, Digit)
        /\ size = NaturalOf(Only(front, Digit) \o Cents(fraction))
    BY <1>2, Zenon
  <1> HIDE DEF Cut, n
  <1>5. /\ front \in Seq(X) /\ Len(front) = m /\ front[1] = text[1] /\ front \in Seq(C)
    <2>1. 1 \in 1 .. Len(text) + 1 /\ m \in 1 - 1 .. Len(text)
      BY <1>3 DEF n
    <2>2. /\ front \in Seq(X) /\ Len(front) = m - 1 + 1 /\ DOMAIN front = 1 .. m - 1 + 1
          /\ \A i \in 1 .. m - 1 + 1 : front[i] = text[1 + i - 1]
      BY <1>4, <2>1, Piece
    <2>3. Len(front) = m /\ front[1] = text[1] /\ \A i \in 1 .. Len(front) : front[i] \in C
      <3>1. m - 1 + 1 = m /\ 1 \in 1 .. m /\ 1 + 1 - 1 = 1
        BY <1>3
      <3>2. Len(front) = m /\ DOMAIN front = 1 .. m /\ front[1] = text[1]
        BY <2>2, <3>1
      <3>3. \A i \in DOMAIN front : front[i] \in C
        BY <1>4, Zenon DEF ConsistsOf
      <3> QED
        BY <3>2, <3>3
    <2> HIDE DEF C
    <2>4. front \in Seq(C)
      BY <2>2, <2>3, TypedSeq
    <2> QED
      BY <2>2, <2>3, <2>4
  <1>6. fraction \in Seq(X) /\ fraction \in Seq(Digit) /\ (m = n => fraction = <<>>)
    <2>1. CASE m = n
      BY <1>3, <1>4, <2>1, SubSeqEmpty, EmptySeq
    <2>2. CASE m < n
      <3>1. m + 2 \in 1 .. Len(text) + 1 /\ n \in (m + 2) - 1 .. Len(text)
        BY <1>3, <2>2 DEF n
      <3>2. fraction \in Seq(X)
        BY <1>4, <3>1, Piece
      <3>3. \A i \in 1 .. Len(fraction) : fraction[i] \in Digit
        BY <1>4, <3>2, LenProperties DEF ConsistsOf
      <3> QED
        BY <2>2, <3>2, <3>3, TypedSeq
    <2> QED
      BY <1>3, <2>1, <2>2
  <1> DEFINE left  == Only(front, S)
             whole == Only(front, Digit)
  <1>7. left \in Seq(X) /\ left \in Seq(C \cap S)
    BY <1>5, OnlyIsSeq, OnlyType
  <1>8. Without(left, Dot) = whole
    <2>1. \A x \in C \cap S : x \in (C \cap S) \ {Dot} <=> x \in Digit
      BY Characters
    <2>2. \A x \in X : x \in Digit => x \in S
      BY Characters
    <2> HIDE DEF C, S
    <2>3. Only(left, Digit) = Only(front, Digit)
      <3>1. front \in Seq(X)
        BY <1>5
      <3>2. Only(Only(front, S), Digit) = Only(front, Digit)
        <4> HIDE DEF left, whole
        <4> QED
          BY <2>2, <3>1, OnlyTwice
      <3> QED
        BY <3>2
    <2>4. Without(left, Dot) = Only(left, (C \cap S) \ {Dot})
      BY <1>7, WithoutIs
    <2>5. \A i \in DOMAIN left : left[i] \in (C \cap S) \ {Dot} <=> left[i] \in Digit
      BY <1>7, <2>1, LenProperties, ElementOfSeq
    <2> HIDE DEF left
    <2>6. Only(left, (C \cap S) \ {Dot}) = Only(left, Digit)
      BY <1>7, <2>5, OnlyCongruence
    <2> QED
      BY <2>3, <2>4, <2>6
  <1>9. Without(text, Gap) = IF m = n THEN left ELSE left \o <<Comma>> \o fraction
    <2>1. Without(text, Gap) = Only(text, S)
      BY WithoutIs
    <2>2. CASE m = n
      <3>1. front = text
        BY <1>4, <2>2, SubSeqFull DEF n
      <3> QED
        BY <2>1, <2>2, <3>1
    <2>3. CASE m < n
      <3> DEFINE tail == SubSeq(text, m + 1, n)
      <3>1. tail \in Seq(X) /\ Only(text, S) = left \o Only(tail, S)
        <4>1. m \in 0 .. Len(text)
          BY <1>3 DEF n
        <4> HIDE DEF S
        <4> QED
          BY <1>4, <4>1, OnlyCut DEF n
      <3>2. tail = <<Comma>> \o fraction
        <4>1. SubSeq(text, m + 1, n) = <<text[m + 1]>> \o SubSeq(text, (m + 1) + 1, n)
          <5>1. m + 1 \in 1 .. Len(text) /\ n \in m + 1 .. Len(text)
            BY <1>3, <2>3 DEF n
          <5> QED
            BY <5>1, SubSeqRecursiveFirst
        <4>2. (m + 1) + 1 = m + 2
          BY <1>3
        <4> QED
          BY <1>4, <2>3, <4>1, <4>2
      <3> HIDE DEF tail
      <3>3. tail \in Seq(S)
        <4>1. Comma \in S /\ Digit \cap X \subseteq S
          <5>1. m + 1 \in 1 .. Len(text) /\ text[m + 1] = Comma
            BY <1>3, <1>4, <2>3 DEF n
          <5>2. Comma \in X
            BY <5>1, ElementOfSeq
          <5> QED
            BY <5>2, Characters
        <4>2. <<Comma>> \in Seq(S)
          <5> HIDE DEF S
          <5> QED
            BY <4>1
        <4>3. \A i \in 1 .. Len(fraction) : fraction[i] \in S
          BY <1>6, <4>1, ElementOfSeq
        <4> HIDE DEF S
        <4>4. fraction \in Seq(S)
          BY <1>6, <4>3, TypedSeq
        <4> QED
          BY <3>2, <4>2, <4>4, ConcatProperties
      <3>4. Only(tail, S) = tail
        <4> HIDE DEF S
        <4> QED
          BY <3>3, OnlyAll
      <3>5. left \o (<<Comma>> \o fraction) = left \o <<Comma>> \o fraction
        <4> DEFINE Y == X \cup {Comma}
        <4>3. Comma \in Y /\ X \subseteq Y
          OBVIOUS
        <4> HIDE DEF left, Y
        <4>1. <<Comma>> \in Seq(Y) /\ X \subseteq Y
          BY <4>3
        <4>2. left \in Seq(Y) /\ fraction \in Seq(Y)
          BY <1>6, <1>7, <4>1, SeqMonotonic
        <4> QED
          BY <4>1, <4>2, ConcatAssociative
      <3>6. m # n
        BY <1>3, <2>3
      <3> QED
        BY <2>1, <3>1, <3>2, <3>4, <3>5, <3>6, Zenon
    <2>4. m = n \/ m < n
      BY <1>3
    <2> QED
      BY <2>2, <2>3, <2>4, Zenon
  <1>10. Whole(Without(text, Gap)) = whole /\ Fraction(Without(text, Gap)) = fraction
    <2>1. \A i \in DOMAIN left : left[i] # Comma
      <3>1. Comma \notin C
        BY Characters
      <3> HIDE DEF C, S, left
      <3> QED
        BY <1>7, <3>1, LenProperties, ElementOfSeq
    <2>2. \A i \in DOMAIN fraction : fraction[i] # Comma
      BY <1>6, Characters, LenProperties, ElementOfSeq
    <2> DEFINE Y == X \cup {Comma}
    <2>3. Comma \in Y /\ X \subseteq Y
      OBVIOUS
    <2> HIDE DEF left, Y
    <2>6. left \in Seq(Y) /\ fraction \in Seq(Y)
      BY <1>6, <1>7, <2>3, SeqMonotonic
    <2>4. /\ Whole(left) = Without(left, ".") /\ Fraction(left) = <<>>
          /\ Whole(left \o <<Comma>> \o fraction) = Without(left, ".")
          /\ Fraction(left \o <<Comma>> \o fraction) = fraction
      BY <2>1, <2>2, <2>3, <2>6, PartsAtComma
    <2>5. Without(left, ".") = whole
      BY <1>8, Zenon DEF Dot
    <2> QED
      BY <1>6, <1>9, <2>4, <2>5, Zenon
  <1>11. whole \in Seq(Digit) /\ whole # <<>>
    <2>1. whole \in Seq(X \cap Digit) /\ X \cap Digit \subseteq Digit
      BY <1>5, OnlyType
    <2>2. 1 \in DOMAIN front /\ front[1] \in Digit
      BY <1>3, <1>4, <1>5, LenProperties
    <2>3. Only(front, Digit) # <<>>
      BY <1>5, <2>2, OnlyNone
    <2> HIDE DEF whole
    <2>4. whole \in Seq(Digit)
      BY <2>1, SeqMonotonic
    <2> QED
      BY <2>3, <2>4 DEF whole
  <1>12. size = NaturalOf(whole \o Cents(fraction))
    BY <1>4
  <1> QED
    BY <1>6, <1>10, <1>11, <1>12, Zenon

\* A printed number starts and ends with a digit and has no sign.
LEMMA PrintedCharacters ==
    ASSUME NEW X, NEW text \in Seq(X), NEW size, PrintsSize(text, size)
    PROVE  /\ text # <<>> /\ text[1] \in Digit /\ text[Len(text)] \in Digit
           /\ ConsistsOf(text, Digit \cup Ornament)
  <1> DEFINE n == Len(text)
             A == Digit \cup Ornament
             Cut(m, front, fraction) ==
               /\ front = SubSeq(text, 1, m) /\ fraction = SubSeq(text, m + 2, n)
               /\ ConsistsOf(front, Digit \cup Separator) /\ text[1] \in Digit /\ text[m] \in Digit
               /\ m < n => text[m + 1] = Comma /\ Len(fraction) \in 1 .. 2
               /\ ConsistsOf(fraction, Digit)
  <1>1. PICK m \in DOMAIN text : Cut(m, SubSeq(text, 1, m), SubSeq(text, m + 2, n))
    BY Zenon DEF PrintsSize, Comma
  <1>2. PICK front, fraction : Cut(m, front, fraction)
    BY <1>1, Zenon
  <1>3. n \in Nat /\ m \in 1 .. n /\ DOMAIN text = 1 .. n
    BY LenProperties
  <1>4. /\ front = SubSeq(text, 1, m) /\ fraction = SubSeq(text, m + 2, n)
        /\ ConsistsOf(front, Digit \cup Separator) /\ text[1] \in Digit /\ text[m] \in Digit
        /\ m < n => text[m + 1] = Comma /\ Len(fraction) \in 1 .. 2
        /\ ConsistsOf(fraction, Digit)
    BY <1>2, Zenon
  <1>5. Digit \subseteq A /\ Digit \cup Separator \subseteq A /\ Comma \in A
    BY Zenon DEF Separator, Comma, Ornament
  <1> HIDE DEF Cut, n, A
  <1>6. \A i \in 1 .. m : text[i] \in A
    <2>1. 1 \in 1 .. Len(text) + 1 /\ m \in 1 - 1 .. Len(text)
      BY <1>3 DEF n
    <2>2. /\ DOMAIN front = 1 .. m - 1 + 1 /\ \A i \in 1 .. m - 1 + 1 : front[i] = text[1 + i - 1]
      BY <1>4, <2>1, Piece
    <2>3. \A i \in 1 .. m : i \in DOMAIN front /\ front[i] = text[i]
      <3>1. \A i \in 1 .. m : i \in 1 .. m - 1 + 1 /\ 1 + i - 1 = i
        BY <1>3
      <3> QED
        BY <2>2, <3>1
    <2>4. \A i \in DOMAIN front : front[i] \in Digit \cup Separator
      BY <1>4, Zenon DEF ConsistsOf
    <2> QED
      BY <1>5, <2>3, <2>4
  <1>7. CASE m = n
    <2>1. \A i \in DOMAIN text : text[i] \in A
      BY <1>3, <1>6, <1>7
    <2>2. ConsistsOf(text, A)
      BY <2>1, Zenon DEF ConsistsOf
    <2>3. text # <<>>
      BY <1>3, EmptySeq DEF n
    <2> QED
      BY <1>4, <1>7, <2>2, <2>3 DEF A, n
  <1>8. CASE m < n
    <2> DEFINE q == m + 2
    <2>1. q \in 1 .. Len(text) + 1 /\ n \in q - 1 .. Len(text) /\ fraction = SubSeq(text, q, n)
      <3>1. fraction = SubSeq(text, q, n)
        BY <1>4
      <3>2. q \in 1 .. Len(text) + 1 /\ n \in q - 1 .. Len(text)
        BY <1>3, <1>8 DEF n
      <3> QED
        BY <3>1, <3>2
    <2> HIDE DEF q
    <2>2. /\ Len(fraction) = n - q + 1 /\ DOMAIN fraction = 1 .. n - q + 1
          /\ \A i \in 1 .. n - q + 1 : fraction[i] = text[q + i - 1]
      BY <2>1, Piece
    <2>3. ASSUME NEW i \in m + 2 .. n
          PROVE  text[i] \in Digit
      <3>1. i - (m + 1) \in 1 .. n - q + 1 /\ q + (i - (m + 1)) - 1 = i
        BY <1>3 DEF q
      <3>2. fraction[i - (m + 1)] = text[i] /\ i - (m + 1) \in DOMAIN fraction
        BY <2>2, <3>1
      <3>3. \A k \in DOMAIN fraction : fraction[k] \in Digit
        BY <1>4, Zenon DEF ConsistsOf
      <3> QED
        BY <3>2, <3>3
    <2>4. n \in m + 2 .. n
      <3>1. n - q + 1 \in 1 .. 2
        BY <1>4, <1>8, <2>2
      <3> QED
        BY <1>3, <3>1 DEF q
    <2>5. \A i \in DOMAIN text : text[i] \in A
      <3>1. \A i \in 1 .. n : i \in 1 .. m \/ i = m + 1 \/ i \in m + 2 .. n
        BY <1>3
      <3>2. text[m + 1] \in A
        BY <1>4, <1>5, <1>8
      <3> QED
        BY <1>3, <1>5, <1>6, <2>3, <3>1, <3>2
    <2>6. ConsistsOf(text, A)
      BY <2>5, Zenon DEF ConsistsOf
    <2>7. text # <<>>
      BY <1>3, EmptySeq DEF n
    <2> QED
      BY <1>4, <2>3, <2>4, <2>6, <2>7 DEF A, n
  <1> QED
    BY <1>3, <1>7, <1>8

\* A text that is numeric and has whole digits is an amount.
LEMMA ParsedText ==
    ASSUME NEW raw, NEW text, text = strip(raw), ~Blank(text), LooksNumeric(text),
           NEW whole \in Seq(Digit), NEW fraction \in Seq(Digit), whole # <<>>,
           Whole(Number(text)) = whole, Fraction(Number(text)) = fraction
    PROVE  parse_vn_number(raw) =
             {[negative |-> Enclosed(text) \/ Starts(Inner(text), "-"), parts |-> Parts(whole, fraction)]}
  <1> DEFINE number == Number(text)
             read   == /\ ~Blank(text) /\ LooksNumeric(text)
                       /\ Whole(number) # <<>> /\ ConsistsOf(Whole(number) \o Fraction(number), Digit)
             signed == Enclosed(text) \/ Starts(Inner(text), "-")
  <1>1. parse_vn_number(raw) =
          IF read THEN {[negative |-> signed, parts |-> Parts(Whole(number), Fraction(number))]}
          ELSE {}
    BY Zenon DEF parse_vn_number, Number, Inner, Enclosed, Whole, Fraction, Point, Commas
  <1>2. ConsistsOf(whole \o fraction, Digit)
    <2>1. whole \o fraction \in Seq(Digit)
      BY ConcatProperties
    <2> QED
      BY <2>1, LenProperties, ElementOfSeq DEF ConsistsOf
  <1> QED
    BY <1>1, <1>2, Zenon

\* Hundredths of an amount that consists of its sign and its parts.
LEMMA HundredthsOfParts ==
    ASSUME NEW whole, NEW fraction, NEW negative
    PROVE  Hundredths([negative |-> negative, parts |-> Parts(whole, fraction)]) =
             IF negative THEN -NaturalOf(whole \o Cents(fraction)) ELSE NaturalOf(whole \o Cents(fraction))
  <1> DEFINE amount == [negative |-> negative, parts |-> Parts(whole, fraction)]
  <1>1. /\ amount.negative = negative
        /\ amount.parts.whole = whole /\ amount.parts.fraction = fraction
    BY DEF Parts
  <1> HIDE DEF amount
  <1>2. Hundredths(amount) =
          IF negative THEN -NaturalOf(whole \o Cents(fraction)) ELSE NaturalOf(whole \o Cents(fraction))
    BY <1>1, Zenon DEF Hundredths, Cents
  <1> QED
    BY <1>2 DEF amount

\* What is left of a text without its sign looks numeric.
LEMMA NumericBody ==
    ASSUME NEW text, NEW body, body = WithoutEnd(WithoutStart(WithoutStart(text, "("), "-"), ")"),
           body # <<>>, ConsistsOf(body, Digit \cup Ornament)
    PROVE  LooksNumeric(text)
  BY Zenon DEF LooksNumeric, ConsistsOf, Ornament, Space

\* Digits are neither blanks nor dashes, and no sign or parenthesis is either or a blank.
LEMMA DigitsShow ==
    /\ (Digit \cup {"-", "(", ")"}) \cap Space = {} /\ Digit \cap Dash = {}
    /\ {"-", "(", ")"} \cap (Digit \cup Ornament) = {}
  <1>1. {"-", "(", ")"} \cap Space = {} /\ {"-", "(", ")"} \cap Ornament = {} /\ Space \subseteq Ornament
    BY Zenon DEF Space, Ornament
  <1>2. Digit \cap Ornament = {}
    BY NoOrnament, Zenon DEF Plain
  <1>3. Digit \cap Dash = {}
    BY DigitIs DEF Dash
  <1> QED
    BY <1>1, <1>2, <1>3, NoOrnament, Zenon

\* A text with a digit is not blank.
LEMMA DigitNotBlank ==
    ASSUME NEW text, NEW i \in DOMAIN text, text[i] \in Digit
    PROVE  ~Blank(text)
  BY DigitsShow DEF Blank, ConsistsOf
\* A text that is not empty has a first character.
LEMMA FirstPosition ==
    ASSUME NEW X, NEW text \in Seq(X), text # <<>>
    PROVE  1 \in DOMAIN text
  BY EmptySeq, LenProperties

\* Without spaces a text without a sign has none.
LEMMA UnsignedBare ==
    ASSUME NEW X, NEW text \in Seq(X), ConsistsOf(text, Digit \cup Ornament)
    PROVE  ~Starts(Without(text, Gap), "-")
  <1> DEFINE A    == Digit \cup Ornament
             bare == Without(text, Gap)
  <1>1. \A i \in 1 .. Len(text) : text[i] \in A
    BY LenProperties DEF ConsistsOf
  <1>2. "-" \notin A
    BY DigitsShow, Zenon
  <1> HIDE DEF A
  <1>3. text \in Seq(A)
    BY <1>1, TypedSeq
  <1>4. bare \in Seq(A)
    BY <1>3, OnlyIsSeq DEF Without
  <1> HIDE DEF bare
  <1>5. bare # <<>> => bare[1] \in A
    BY <1>4, FirstPosition, LenProperties, ElementOfSeq
  <1> QED
    BY <1>2, <1>5 DEF Starts, bare

\* A first character that is not a space stays in front.
LEMMA WithoutFirst ==
    ASSUME NEW X, NEW text \in Seq(X), text # <<>>, text[1] = "-"
    PROVE  /\ Without(text, Gap) = <<text[1]>> \o Without(Tail(text), Gap)
           /\ Without(Tail(text), Gap) \in Seq(X)
  <1> DEFINE S == X \ {Gap}
             t == Tail(text)
             first == <<text[1]>>
  <1>1. 1 \in DOMAIN text /\ Len(text) \in Nat /\ text[1] \in X
    BY FirstPosition, LenProperties, ElementOfSeq
  <1>2. "-" # Gap
    BY Zenon DEF Gap
  <1>3. text[1] \in S
    BY <1>1, <1>2, Zenon
  <1>4. t \in Seq(X) /\ text = first \o t
    BY <1>1
  <1>5. first \in Seq(X) /\ first \in Seq(S)
    <2> HIDE DEF S
    <2> QED
      BY <1>1, <1>3
  <1>6. Without(text, Gap) = Only(text, S) /\ Without(t, Gap) = Only(t, S) /\ Only(t, S) \in Seq(X)
    BY <1>4, WithoutIs, OnlyIsSeq
  <1> HIDE DEF S, t, first
  <1>7. Only(text, S) = Only(first, S) \o Only(t, S)
    BY <1>4, <1>5, OnlyConcat
  <1>8. Only(first, S) = first
    BY <1>5, OnlyAll
  <1> QED
    BY <1>6, <1>7, <1>8, Zenon DEF t, first

\* The number of a sheet is read with its amount.
LEMMA PrintedIsRead ==
    ASSUME NEW X, NEW raw \in Seq(X), NEW amount \in Int, Prints(raw, amount)
    PROVE  \E n : parse_vn_number(raw) = {n} /\ Hundredths(n) = amount
  <1>1. ASSUME NEW t \in Seq(X), NEW size, PrintsSize(t, size), NEW negative,
               strip(raw) = raw, \E i \in DOMAIN raw : raw[i] \in Digit, LooksNumeric(raw),
               Number(raw) = Without(t, Gap),
               negative = (Enclosed(raw) \/ Starts(Inner(raw), "-"))
        PROVE  \E n : /\ parse_vn_number(raw) = {n}
                      /\ Hundredths(n) = IF negative THEN -size ELSE size
    <2>1. PICK whole, fraction \in Seq(Digit) :
            /\ whole # <<>> /\ size = NaturalOf(whole \o Cents(fraction))
            /\ Whole(Without(t, Gap)) = whole /\ Fraction(Without(t, Gap)) = fraction
      BY <1>1, SizeParts
    <2>2. ~Blank(raw)
      BY <1>1, DigitNotBlank
    <2> DEFINE n == [negative |-> negative, parts |-> Parts(whole, fraction)]
    <2>3. parse_vn_number(raw) = {n}
      <3>1. Whole(Number(raw)) = whole /\ Fraction(Number(raw)) = fraction
        BY <1>1, <2>1
      <3>2. parse_vn_number(raw) =
              {[negative |-> Enclosed(raw) \/ Starts(Inner(raw), "-"), parts |-> Parts(whole, fraction)]}
        BY <1>1, <2>1, <2>2, <3>1, ParsedText
      <3> QED
        BY <1>1, <3>2, Zenon
    <2>4. Hundredths(n) = IF negative THEN -size ELSE size
      BY <2>1, HundredthsOfParts, Zenon
    <2> QED
      BY <2>3, <2>4, Zenon
  <1>2. CASE PrintsSize(raw, amount)
    <2>1. /\ raw # <<>> /\ raw[1] \in Digit /\ raw[Len(raw)] \in Digit
          /\ ConsistsOf(raw, Digit \cup Ornament)
      BY <1>2, PrintedCharacters
    <2>2. ~Starts(raw, "(") /\ ~Starts(raw, "-") /\ ~Ends(raw, ")")
      BY <2>1, NoOrnament, Zenon DEF Starts, Ends
    <2>3. strip(raw) = raw
      <3>1. raw[1] \notin Space /\ raw[Len(raw)] \notin Space
        BY <2>1, DigitsShow, Zenon
      <3> QED
        BY <2>1, <3>1, StripNothing
    <2>4. Inner(raw) = Without(raw, Gap)
      BY <2>2, Zenon DEF Inner, Enclosed, Gap
    <2>5. ~Starts(Without(raw, Gap), "-")
      BY <2>1, UnsignedBare
    <2>6. Number(raw) = Without(raw, Gap)
      BY <2>4, <2>5, Zenon DEF Number, WithoutStart
    <2>7. LooksNumeric(raw)
      <3>1. WithoutEnd(WithoutStart(WithoutStart(raw, "("), "-"), ")") = raw
        BY <2>2, Zenon DEF WithoutStart, WithoutEnd
      <3> QED
        BY <2>1, <3>1, NumericBody, Zenon
    <2>8. \E i \in DOMAIN raw : raw[i] \in Digit
      BY <2>1, FirstPosition
    <2>9. ~(Enclosed(raw) \/ Starts(Inner(raw), "-"))
      BY <2>2, <2>4, <2>5, Zenon DEF Enclosed
    <2>10. \E n : /\ parse_vn_number(raw) = {n}
                  /\ Hundredths(n) = IF Enclosed(raw) \/ Starts(Inner(raw), "-") THEN -amount ELSE amount
      BY <1>1, <1>2, <2>3, <2>6, <2>7, <2>8, Zenon
    <2> QED
      BY <2>9, <2>10, Zenon
  <1>3. CASE Starts(raw, "-") /\ PrintsSize(Tail(raw), -amount)
    <2> DEFINE t == Tail(raw)
    <2>1. raw # <<>> /\ raw[1] = "-" /\ Len(raw) \in Nat /\ DOMAIN raw = 1 .. Len(raw)
      BY <1>3, LenProperties DEF Starts
    <2>2. t \in Seq(X) /\ Len(t) = Len(raw) - 1 /\ \A i \in 1 .. Len(t) : t[i] = raw[i + 1]
      BY <2>1, HeadTailProperties
    <2> HIDE DEF t
    <2>3. /\ t # <<>> /\ t[1] \in Digit /\ t[Len(t)] \in Digit
          /\ ConsistsOf(t, Digit \cup Ornament) /\ PrintsSize(t, -amount)
      BY <1>3, <2>2, PrintedCharacters DEF t
    <2>4. Len(t) \in Nat \ {0} /\ raw[2] = t[1] /\ raw[Len(raw)] = t[Len(t)] /\ 2 \in DOMAIN raw
      <3>1. Len(t) \in Nat \ {0}
        BY <2>2, <2>3, EmptySeq, LenProperties
      <3> QED
        BY <2>1, <2>2, <3>1
    <2>5. ~Starts(raw, "(") /\ ~Ends(raw, ")") /\ ~Ends(t, ")") /\ Starts(raw, "-")
      BY <1>3, <2>1, <2>3, <2>4, NoOrnament, Zenon DEF Starts, Ends
    <2>6. strip(raw) = raw
      <3>1. raw[1] \notin Space /\ raw[Len(raw)] \notin Space
        BY <2>1, <2>3, <2>4, DigitsShow, Zenon
      <3> QED
        BY <2>1, <3>1, StripNothing
    <2>7. Inner(raw) = Without(raw, Gap)
      BY <2>5, Zenon DEF Inner, Enclosed, Gap
    <2>8. Without(raw, Gap) = <<raw[1]>> \o Without(t, Gap) /\ Without(t, Gap) \in Seq(X)
      BY <2>1, WithoutFirst DEF t
    <2>9. Starts(Inner(raw), "-") /\ Tail(Inner(raw)) = Without(t, Gap)
      <3> DEFINE rest == Without(t, Gap)
      <3> HIDE DEF rest
      <3>1. Inner(raw) = <<raw[1]>> \o rest /\ rest \in Seq(X) /\ raw[1] \in X
        BY <2>1, <2>4, <2>7, <2>8, ElementOfSeq DEF rest
      <3>2. Inner(raw) # <<>> /\ Inner(raw)[1] = raw[1] /\ Tail(Inner(raw)) = rest
        BY <3>1
      <3> QED
        BY <2>1, <3>2 DEF Starts, rest
    <2>10. Number(raw) = Without(t, Gap)
      BY <2>9, Zenon DEF Number, WithoutStart
    <2>11. LooksNumeric(raw)
      <3>1. WithoutEnd(WithoutStart(WithoutStart(raw, "("), "-"), ")") = t
        BY <2>5, Zenon DEF WithoutStart, WithoutEnd, t
      <3> QED
        BY <2>3, <3>1, NumericBody, Zenon
    <2>12. \E i \in DOMAIN raw : raw[i] \in Digit
      BY <2>3, <2>4
    <2>13. \E n : /\ parse_vn_number(raw) = {n}
                  /\ Hundredths(n) = IF Enclosed(raw) \/ Starts(Inner(raw), "-")
                                      THEN -(-amount) ELSE -amount
      BY <1>1, <2>2, <2>3, <2>6, <2>10, <2>11, <2>12, Zenon
    <2>14. -(-amount) = amount
      OBVIOUS
    <2> QED
      BY <2>9, <2>13, <2>14, Zenon
  <1>4. CASE /\ Starts(raw, "(") /\ Ends(raw, ")")
             /\ PrintsSize(SubSeq(raw, 2, Len(raw) - 1), -amount)
    <2> DEFINE t == SubSeq(raw, 2, Len(raw) - 1)
    <2>1. /\ raw # <<>> /\ raw[1] = "(" /\ raw[Len(raw)] = ")"
          /\ Len(raw) \in Nat /\ DOMAIN raw = 1 .. Len(raw)
      BY <1>4, LenProperties DEF Starts, Ends
    <2>2. Len(raw) >= 2
      <3>1. Len(raw) # 0 /\ Len(raw) # 1
        BY <2>1, EmptySeq
      <3> QED
        BY <2>1, <3>1
    <2>3. /\ t \in Seq(X) /\ Len(t) = Len(raw) - 2
          /\ \A i \in 1 .. Len(raw) - 2 : t[i] = raw[i + 1]
      <3> DEFINE last == Len(raw) - 1
      <3>1. 2 \in 1 .. Len(raw) + 1 /\ last \in 2 - 1 .. Len(raw)
        BY <2>1, <2>2
      <3> HIDE DEF last
      <3>2. /\ SubSeq(raw, 2, last) \in Seq(X) /\ Len(SubSeq(raw, 2, last)) = last - 2 + 1
            /\ \A i \in 1 .. last - 2 + 1 : SubSeq(raw, 2, last)[i] = raw[2 + i - 1]
        BY <3>1, Piece
      <3>3. last - 2 + 1 = Len(raw) - 2 /\ \A i \in 1 .. Len(raw) - 2 : 2 + i - 1 = i + 1
        BY <2>1 DEF last
      <3> QED
        BY <3>2, <3>3 DEF last
    <2> HIDE DEF t
    <2>4. /\ t # <<>> /\ t[1] \in Digit /\ t[Len(t)] \in Digit
          /\ ConsistsOf(t, Digit \cup Ornament) /\ PrintsSize(t, -amount)
      BY <1>4, <2>3, PrintedCharacters DEF t
    <2>5. Len(raw) >= 3 /\ raw[2] = t[1] /\ 2 \in DOMAIN raw
      <3>1. Len(t) # 0
        BY <2>3, <2>4, EmptySeq
      <3> QED
        BY <2>1, <2>2, <2>3, <3>1
    <2>6. strip(raw) = raw /\ strip(t) = t
      <3>1. /\ raw[1] \notin Space /\ raw[Len(raw)] \notin Space
            /\ t[1] \notin Space /\ t[Len(t)] \notin Space
        BY <2>1, <2>4, DigitsShow, Zenon
      <3> QED
        BY <2>1, <2>3, <2>4, <3>1, StripNothing
    <2>7. Enclosed(raw) /\ Inner(raw) = Without(t, Gap)
      BY <1>4, <2>6, Zenon DEF Inner, Enclosed, Gap, t
    <2>8. ~Starts(Without(t, Gap), "-")
      BY <2>3, <2>4, UnsignedBare
    <2>9. Number(raw) = Without(t, Gap)
      BY <2>7, <2>8, Zenon DEF Number, WithoutStart
    <2>10. LooksNumeric(raw)
      <3> DEFINE tail == Tail(raw)
      <3>1. /\ tail \in Seq(X) /\ Len(tail) = Len(raw) - 1
            /\ \A i \in 1 .. Len(raw) - 1 : tail[i] = raw[i + 1]
        BY <2>1, HeadTailProperties
      <3> HIDE DEF tail
      <3>2. tail # <<>> /\ tail[1] = t[1] /\ tail[Len(tail)] = ")"
        <4>1. Len(raw) - 1 \in 1 .. Len(raw) - 1 /\ 1 \in 1 .. Len(raw) - 1 /\ (Len(raw) - 1) + 1 = Len(raw)
          BY <2>1, <2>5
        <4> QED
          BY <2>1, <2>5, <3>1, <4>1, EmptySeq
      <3>3. Front(tail) = t
        <4>1. Front(tail) = SubSeq(tail, 1, Len(tail) - 1)
          BY DEF Front
        <4> DEFINE last == Len(tail) - 1
        <4>2. last \in 1 - 1 .. Len(tail) /\ 1 \in 1 .. Len(tail) + 1 /\ last = Len(t)
          BY <2>1, <2>3, <2>5, <3>1
        <4> HIDE DEF last
        <4>3. /\ SubSeq(tail, 1, last) \in Seq(X) /\ Len(SubSeq(tail, 1, last)) = last - 1 + 1
              /\ \A i \in 1 .. last - 1 + 1 : SubSeq(tail, 1, last)[i] = tail[1 + i - 1]
          BY <3>1, <4>2, Piece
        <4>4. Len(SubSeq(tail, 1, last)) = Len(t) /\ \A i \in 1 .. Len(t) : SubSeq(tail, 1, last)[i] = t[i]
          BY <2>1, <2>3, <2>5, <3>1, <4>2, <4>3
        <4>5. SubSeq(tail, 1, last) = t
          BY <2>3, <4>3, <4>4, SeqEqual
        <4> QED
          BY <4>1, <4>5 DEF last
      <3>4. ~Starts(tail, "-") /\ Ends(tail, ")")
        BY <2>4, <3>2, NoOrnament, Zenon DEF Starts, Ends
      <3>5. WithoutEnd(WithoutStart(WithoutStart(raw, "("), "-"), ")") = t
        BY <1>4, <3>3, <3>4, Zenon DEF WithoutStart, WithoutEnd, tail
      <3> QED
        BY <2>4, <3>5, NumericBody, Zenon
    <2>11. \E i \in DOMAIN raw : raw[i] \in Digit
      BY <2>4, <2>5
    <2>12. \E n : /\ parse_vn_number(raw) = {n}
                  /\ Hundredths(n) = IF Enclosed(raw) \/ Starts(Inner(raw), "-")
                                      THEN -(-amount) ELSE -amount
      BY <1>1, <2>3, <2>4, <2>6, <2>9, <2>10, <2>11, Zenon
    <2>13. -(-amount) = amount
      OBVIOUS
    <2> QED
      BY <2>7, <2>12, <2>13, Zenon
  <1> QED
    BY <1>2, <1>3, <1>4, Zenon DEF Prints

\* Without an ornament at the end.
LEMMA OnlyWithoutEnd ==
    ASSUME NEW X, NEW S, NEW text \in Seq(X), NEW x, x \notin S
    PROVE  WithoutEnd(text, x) \in Seq(X) /\ Only(WithoutEnd(text, x), S) = Only(text, S)
  <1>1. Len(text) \in Nat /\ DOMAIN text = 1 .. Len(text)
    BY LenProperties
  <1>2. CASE ~Ends(text, x)
    BY <1>2 DEF WithoutEnd
  <1>3. CASE Ends(text, x)
    <2>1. text # <<>> /\ text[Len(text)] = x /\ WithoutEnd(text, x) = SubSeq(text, 1, Len(text) - 1)
      BY <1>3 DEF WithoutEnd, Ends, Front
    <2> DEFINE last == Len(text) - 1
    <2>2. 1 \in 1 .. Len(text) + 1 /\ last \in 0 .. Len(text) /\ 1 <= last + 1
      BY <1>1, <2>1, EmptySeq
    <2>3. \A i \in DOMAIN text : i < 1 \/ i > last => text[i] \notin S
      <3>1. \A i \in DOMAIN text : i < 1 \/ i > last => i = Len(text)
        BY <1>1
      <3> QED
        BY <2>1, <3>1
    <2> HIDE DEF last
    <2>4. SubSeq(text, 1, last) \in Seq(X) /\ Only(SubSeq(text, 1, last), S) = Only(text, S)
      BY <2>2, <2>3, OnlyMiddle
    <2> QED
      BY <2>1, <2>4 DEF last
  <1> QED
    BY <1>2, <1>3

\* A name is not a number, and has characters that are no digits.
LEMMA NamesAreNoNumbers ==
    ASSUME NEW X, NEW text \in Seq(X), HasLetter(text)
    PROVE  /\ parse_vn_number(text) = {} /\ ~ConsistsOf(text, Digit)
           /\ Len(text) \in Nat \ {0}
  <1>1. PICK p \in DOMAIN text :
          text[p] \notin Digit \cup Space \cup Dash \cup {".", ",", "(", ")"}
    BY Zenon DEF HasLetter
  <1> DEFINE S     == {text[p]}
             t     == strip(text)
             one   == WithoutStart(t, "(")
             two   == WithoutStart(one, "-")
             body  == WithoutEnd(two, ")")
             allow == Digit \cup Space \cup {".", ","}
  <1>2. /\ S \cap Space = {} /\ S \cap allow = {} /\ S \cap Digit = {}
        /\ "(" \notin S /\ "-" \notin S /\ ")" \notin S
    BY <1>1, Zenon DEF Dash
  <1>3. LooksNumeric(t) => ConsistsOf(body, allow)
    BY Zenon DEF LooksNumeric
  <1>4. parse_vn_number(text) # {} => LooksNumeric(t)
    BY Zenon DEF parse_vn_number
  <1> HIDE DEF allow
  <1>5. Only(text, S) # <<>>
    BY OnlyNone
  <1> HIDE DEF S
  <1>6. t \in Seq(X) /\ Only(t, S) = Only(text, S)
    BY <1>2, OnlyStrip
  <1> HIDE DEF t
  <1>7. one \in Seq(X) /\ Only(one, S) = Only(t, S)
    BY <1>2, <1>6, OnlyWithoutStart
  <1> HIDE DEF one
  <1>8. two \in Seq(X) /\ Only(two, S) = Only(one, S)
    BY <1>2, <1>7, OnlyWithoutStart
  <1> HIDE DEF two
  <1>9. body \in Seq(X) /\ Only(body, S) = Only(two, S)
    BY <1>2, <1>8, OnlyWithoutEnd
  <1> HIDE DEF body
  <1>10. ASSUME ConsistsOf(body, allow)
         PROVE  FALSE
    <2>1. \A i \in DOMAIN body : body[i] \notin S
      BY <1>2, <1>10, Zenon DEF ConsistsOf
    <2>2. Only(body, S) = <<>>
      BY <1>9, <2>1, OnlyNone
    <2> QED
      BY <1>5, <1>6, <1>7, <1>8, <1>9, <2>2
  <1>11. ~ConsistsOf(text, Digit)
    BY <1>1, Zenon DEF ConsistsOf
  <1>12. Len(text) \in Nat \ {0}
    BY LenProperties
  <1> QED
    BY <1>3, <1>4, <1>10, <1>11, <1>12, Zenon

-----------------------------------------------------------------------------
(* The cells and the rows of a table                                       *)

TextFunction(table, i, m, g) ==
    g = [k \in i .. m |->
           IF k = i THEN NoText
           ELSE IF IsData(table[k]) THEN [table[k].data EXCEPT !.text = g[k - 1].text \o @]
           ELSE g[k - 1]]

\* A function with the equation of TextFrom exists.
LEMMA TextExists ==
    ASSUME NEW table, NEW i \in Nat, NEW m \in Nat
    PROVE  \E g : TextFunction(table, i, i + m, g)
  <1> DEFINE Next(k, c) == IF IsData(table[k]) THEN [table[k].data EXCEPT !.text = c.text \o @] ELSE c
             Text(n, g) == g = [k \in i .. i + n |-> IF k = i THEN NoText ELSE Next(k, g[k - 1])]
             Good == {n \in Nat : \E g : Text(n, g)}
  <1> HIDE DEF Next
  <1>1. 0 \in Good
    <2> DEFINE g == [k \in i .. i + 0 |-> NoText]
    <2>1. g = [k \in i .. i + 0 |-> IF k = i THEN NoText ELSE Next(k, g[k - 1])]
      <3>1. \A k \in i .. i + 0 : k = i
        OBVIOUS
      <3> QED
        BY <3>1
    <2> QED
      BY <2>1
  <1>2. ASSUME NEW n \in Nat, n \in Good
        PROVE  n + 1 \in Good
    <2>1. PICK g : Text(n, g)
      BY <1>2
    <2> DEFINE last == Next(i + n + 1, g[i + n])
               h    == [k \in i .. i + (n + 1) |-> IF k = i + n + 1 THEN last ELSE g[k]]
    <2>2. \A k \in i .. i + n : g[k] = IF k = i THEN NoText ELSE Next(k, g[k - 1])
      BY <2>1
    <2>3. ASSUME NEW k \in i .. i + (n + 1)
          PROVE  h[k] = IF k = i THEN NoText ELSE Next(k, h[k - 1])
      <3>1. CASE k \in i .. i + n
        <4>1. h[k] = g[k] /\ (k # i => h[k - 1] = g[k - 1])
          BY <3>1
        <4> HIDE DEF h
        <4> QED
          BY <2>2, <3>1, <4>1
      <3>2. CASE k = i + n + 1
        <4>1. h[k] = last /\ k - 1 = i + n /\ h[k - 1] = g[i + n] /\ k # i
          BY <3>2
        <4> HIDE DEF h
        <4> QED
          BY <3>2, <4>1
      <3> QED
        BY <3>1, <3>2
    <2>4. h = [k \in i .. i + (n + 1) |-> h[k]]
      OBVIOUS
    <2>5. Text(n + 1, h)
      <3> HIDE DEF h
      <3> QED
        BY <2>3, <2>4
    <2> HIDE DEF h, Text
    <2>6. \E f : Text(n + 1, f)
      BY <2>5, Zenon
    <2>7. n + 1 \in Nat
      OBVIOUS
    <2> QED
      BY <2>6, <2>7, Zenon
  <1> HIDE DEF Good
  <1>3. Nat \subseteq Good
    BY <1>1, <1>2, NumberInduction
  <1>4. PICK g : Text(m, g)
    BY <1>3 DEF Good
  <1>5. TextFunction(table, i, i + m, g)
    BY <1>4, Zenon DEF TextFunction, Next
  <1> QED
    BY <1>5

\* The pieces of text are put together one by one.
LEMMA TextStep ==
    ASSUME NEW table, Len(table) \in Nat, NEW i \in 1 .. Len(table)
    PROVE  /\ TextFrom(table, i)[i] = NoText
           /\ \A k \in i + 1 .. Len(table) :
                TextFrom(table, i)[k] =
                  IF IsData(table[k])
                    THEN [table[k].data EXCEPT !.text = TextFrom(table, i)[k - 1].text \o @]
                  ELSE TextFrom(table, i)[k - 1]
  <1> DEFINE m == Len(table)
             Next(k, c) == IF IsData(table[k]) THEN [table[k].data EXCEPT !.text = c.text \o @] ELSE c
             g == CHOOSE h : TextFunction(table, i, m, h)
  <1>1. TextFrom(table, i) = g
    BY Zenon DEF TextFrom, TextFunction
  <1>2. TextFunction(table, i, m, g)
    <2>1. m - i \in Nat /\ i \in Nat /\ i + (m - i) = m
      OBVIOUS
    <2>2. \E h : TextFunction(table, i, i + (m - i), h)
      BY <2>1, TextExists
    <2> QED
      BY <2>1, <2>2
  <1> HIDE DEF g
  <1>3. g = [k \in i .. m |-> IF k = i THEN NoText ELSE Next(k, g[k - 1])]
    BY <1>2, Zenon DEF TextFunction
  <1> HIDE DEF Next
  <1>4. \A k \in i .. m : g[k] = IF k = i THEN NoText ELSE Next(k, g[k - 1])
    BY <1>3
  <1>5. g[i] = NoText /\ \A k \in i + 1 .. m : g[k] = Next(k, g[k - 1])
    <2>1. i \in i .. m /\ \A k \in i + 1 .. m : k \in i .. m /\ k # i
      OBVIOUS
    <2> QED
      BY <1>4, <2>1
  <1> QED
    BY <1>1, <1>5, Zenon DEF Next

-----------------------------------------------------------------------------
\* A row, or a cell, has started at a token and not ended n tokens into the table.
RowOpen(table, a, n)  ==
    StartsRow(table[a]) /\ \A j \in a + 1 .. n : ~StartsRow(table[j]) /\ ~EndsRow(table[j])
CellOpen(table, i, n) ==
    StartsCell(table[i]) /\ \A j \in i + 1 .. n : ~StartsCell(table[j]) /\ ~EndsCell(table[j])

\* The cell between its two tags.
CellText(table, i, e) == [TextFrom(table, i)[e] EXCEPT !.text = strip(@)]

\* One token more in an open row or cell.
LEMMA OpenStep ==
    ASSUME NEW table, NEW n \in Nat, NEW i \in 1 .. n
    PROVE  /\ RowOpen(table, i, n + 1) <=>
                RowOpen(table, i, n) /\ ~StartsRow(table[n + 1]) /\ ~EndsRow(table[n + 1])
           /\ CellOpen(table, i, n + 1) <=>
                CellOpen(table, i, n) /\ ~StartsCell(table[n + 1]) /\ ~EndsCell(table[n + 1])
           /\ RowAt(table, i, n + 1) <=> RowOpen(table, i, n) /\ EndsRow(table[n + 1])
           /\ CellAt(table, i, n + 1) <=> CellOpen(table, i, n) /\ EndsCell(table[n + 1])
  <1>1. \A j \in i + 1 .. n + 1 : j \in i + 1 .. n \/ j = n + 1
    OBVIOUS
  <1>2. n + 1 \in i + 1 .. n + 1 /\ \A j \in i + 1 .. n : j \in i + 1 .. n + 1
    OBVIOUS
  <1>3. (n + 1) - 1 = n /\ i < n + 1
    OBVIOUS
  <1> QED
    BY <1>1, <1>2, <1>3, Zenon DEF RowOpen, CellOpen, RowAt, CellAt

\* What has just started.
LEMMA OpenNow ==
    ASSUME NEW table, NEW n \in Nat
    PROVE  /\ RowOpen(table, n + 1, n + 1) <=> StartsRow(table[n + 1])
           /\ CellOpen(table, n + 1, n + 1) <=> StartsCell(table[n + 1])
           /\ ~RowAt(table, n + 1, n + 1) /\ ~CellAt(table, n + 1, n + 1)
  <1>1. (n + 1) + 1 .. n + 1 = {} /\ ~(n + 1 < n + 1)
    OBVIOUS
  <1> QED
    BY <1>1, Zenon DEF RowOpen, CellOpen, RowAt, CellAt

\* The cells of a stretch, by their tags.
LEMMA CellsInIs ==
    ASSUME NEW table, NEW a, NEW b, NEW cell
    PROVE  cell \in CellsIn(table, a, b) <=>
             \E i, e \in a .. b : CellAt(table, i, e) /\ cell = CellText(table, i, e)
  <1> DEFINE P == {q \in (a .. b) \X (a .. b) : CellAt(table, q[1], q[2])}
  <1>1. cell \in CellsIn(table, a, b) <=> \E p \in P : cell = CellText(table, p[1], p[2])
    BY Zenon DEF CellsIn, CellText
  <1>2. ASSUME NEW p \in P
        PROVE  p[1] \in a .. b /\ p[2] \in a .. b /\ CellAt(table, p[1], p[2])
    <2> HIDE DEF P
    <2>1. p \in (a .. b) \X (a .. b) /\ CellAt(table, p[1], p[2])
      BY Zenon DEF P
    <2> QED
      BY <2>1
  <1>3. ASSUME NEW i \in a .. b, NEW e \in a .. b, CellAt(table, i, e)
        PROVE  <<i, e>> \in P /\ <<i, e>>[1] = i /\ <<i, e>>[2] = e
    BY <1>3
  <1> HIDE DEF P
  <1>4. ASSUME cell \in CellsIn(table, a, b)
        PROVE  \E i, e \in a .. b : CellAt(table, i, e) /\ cell = CellText(table, i, e)
    <2>1. PICK p \in P : cell = CellText(table, p[1], p[2])
      BY <1>1, <1>4
    <2> QED
      BY <1>2, <2>1, Zenon
  <1>5. ASSUME NEW i \in a .. b, NEW e \in a .. b, CellAt(table, i, e), cell = CellText(table, i, e)
        PROVE  cell \in CellsIn(table, a, b)
    <2> DEFINE p == <<i, e>>
    <2>1. p \in P /\ p[1] = i /\ p[2] = e
      BY <1>3, <1>5
    <2> HIDE DEF p
    <2>2. cell = CellText(table, p[1], p[2])
      BY <1>5, <2>1, Zenon
    <2> QED
      BY <1>1, <2>1, <2>2, Zenon
  <1> QED
    BY <1>4, <1>5, Zenon

\* The rows of a table, by their tags.
LEMMA RowsInIs ==
    ASSUME NEW table, NEW cells
    PROVE  cells \in RowsIn(table) <=>
             \E a, b \in DOMAIN table : RowAt(table, a, b) /\ cells = CellsIn(table, a, b)
  <1> DEFINE D == DOMAIN table
             P == {q \in D \X D : RowAt(table, q[1], q[2])}
  <1>1. cells \in RowsIn(table) <=> \E p \in P : cells = CellsIn(table, p[1], p[2])
    BY Zenon DEF RowsIn
  <1> HIDE DEF D
  <1>2. ASSUME NEW p \in P
        PROVE  p[1] \in D /\ p[2] \in D /\ RowAt(table, p[1], p[2])
    <2> HIDE DEF P
    <2>1. p \in D \X D /\ RowAt(table, p[1], p[2])
      BY Zenon DEF P
    <2> QED
      BY <2>1
  <1>3. ASSUME NEW a \in D, NEW b \in D, RowAt(table, a, b)
        PROVE  <<a, b>> \in P /\ <<a, b>>[1] = a /\ <<a, b>>[2] = b
    BY <1>3
  <1> HIDE DEF P
  <1>4. ASSUME cells \in RowsIn(table)
        PROVE  \E a, b \in D : RowAt(table, a, b) /\ cells = CellsIn(table, a, b)
    <2>1. PICK p \in P : cells = CellsIn(table, p[1], p[2])
      BY <1>1, <1>4
    <2> QED
      BY <1>2, <2>1, Zenon
  <1>5. ASSUME NEW a \in D, NEW b \in D, RowAt(table, a, b), cells = CellsIn(table, a, b)
        PROVE  cells \in RowsIn(table)
    <2> DEFINE p == <<a, b>>
    <2>1. p \in P /\ p[1] = a /\ p[2] = b
      BY <1>3, <1>5
    <2> HIDE DEF p
    <2>2. cells = CellsIn(table, p[1], p[2])
      BY <1>5, <2>1, Zenon
    <2> QED
      BY <1>1, <2>1, <2>2, Zenon
  <1> QED
    BY <1>4, <1>5, Zenon DEF D

\* A token adds the cells that it ends.
LEMMA CellsStep ==
    ASSUME NEW table, NEW n \in Nat, NEW a \in 1 .. n, NEW cell
    PROVE  cell \in CellsIn(table, a, n + 1) <=>
             \/ cell \in CellsIn(table, a, n)
             \/ /\ EndsCell(table[n + 1])
                /\ \E i \in a .. n : CellOpen(table, i, n) /\ cell = CellText(table, i, n + 1)
  <1>1. /\ \A i \in a .. n : i \in a .. n + 1 /\ i \in 1 .. n
        /\ \A i \in a .. n + 1 : i \in a .. n \/ i = n + 1
        /\ n + 1 \in a .. n + 1
    OBVIOUS
  <1>2. cell \in CellsIn(table, a, n + 1) <=>
          \E i, e \in a .. n + 1 : CellAt(table, i, e) /\ cell = CellText(table, i, e)
    BY CellsInIs
  <1>3. cell \in CellsIn(table, a, n) <=>
          \E i, e \in a .. n : CellAt(table, i, e) /\ cell = CellText(table, i, e)
    BY CellsInIs
  <1>4. \A i \in a .. n : CellAt(table, i, n + 1) <=> CellOpen(table, i, n) /\ EndsCell(table[n + 1])
    BY <1>1, OpenStep
  <1>5. \A e \in a .. n + 1 : ~CellAt(table, n + 1, e)
    <2>1. \A e \in a .. n + 1 : ~(n + 1 < e)
      OBVIOUS
    <2> QED
      BY <2>1, Zenon DEF CellAt
  <1> QED
    BY <1>1, <1>2, <1>3, <1>4, <1>5, Zenon

\* What a token does to the rows, the open row and the open cell.
LEMMA FeedIs ==
    ASSUME NEW parser \in ParserType, NEW token \in Tokens
    PROVE  /\ Feed(parser, token).cell =
                IF StartsCell(token) THEN {NoText}
                ELSE IF IsData(token)
                  THEN {[token.data EXCEPT !.text = cell.text \o @] : cell \in parser.cell}
                ELSE IF EndsCell(token) THEN {}
                ELSE parser.cell
           /\ Feed(parser, token).row =
                IF StartsRow(token) THEN {<<>>}
                ELSE IF EndsCell(token) /\ parser.cell # {}
                  THEN {Append(row, [TheOnly(parser.cell) EXCEPT !.text = strip(@)]) :
                          row \in parser.row}
                ELSE IF EndsRow(token) THEN {}
                ELSE parser.row
           /\ Feed(parser, token).rows =
                IF EndsRow(token) /\ parser.row # {}
                  THEN Append(parser.rows, TheOnly(parser.row))
                ELSE parser.rows
  <1> DEFINE cell == [TheOnly(parser.cell) EXCEPT !.text = strip(@)]
             last == TheOnly(parser.row)
             later == Feed(parser, token)
             text == {[token.data EXCEPT !.text = c.text \o @] : c \in parser.cell}
             row == {Append(r, cell) : r \in parser.row}
  <1>1. /\ token.type \in {"start", "data", "end"}
        /\ later = CASE token.type = "start" -> handle_starttag(parser, token.tag)
                     [] token.type = "data"  -> handle_data(parser, token.data)
                     [] token.type = "end"   -> handle_endtag(parser, token.tag)
    BY DEF Tokens, Feed
  <1> SUFFICES /\ later.cell = IF StartsCell(token) THEN {NoText} ELSE IF IsData(token) THEN text
                               ELSE IF EndsCell(token) THEN {} ELSE parser.cell
               /\ later.row = IF StartsRow(token) THEN {<<>>}
                              ELSE IF EndsCell(token) /\ parser.cell # {} THEN row
                              ELSE IF EndsRow(token) THEN {} ELSE parser.row
               /\ later.rows = IF EndsRow(token) /\ parser.row # {} THEN Append(parser.rows, last)
                               ELSE parser.rows
    OBVIOUS
  <1>2. CASE token.type = "start"
    <2>1. later = handle_starttag(parser, token.tag)
      BY <1>1, <1>2
    <2> HIDE DEF cell, last, later, text, row
    <2> QED
      BY <1>2, <2>1 DEF handle_starttag, ParserType, StartsCell, IsData, EndsCell, StartsRow, EndsRow,
        CellTags
  <1>3. CASE token.type = "data"
    <2>1. later = [parser EXCEPT !.cell = text]
      BY <1>1, <1>3 DEF handle_data
    <2> HIDE DEF cell, last, later, text, row
    <2> QED
      BY <1>3, <2>1 DEF ParserType, StartsCell, IsData, EndsCell, StartsRow, EndsRow
  <1>4. CASE token.type = "end"
    <2>1. later = IF token.tag \in CellTags /\ parser.cell # {}
                    THEN [parser EXCEPT !.row = row, !.cell = {}]
                  ELSE IF token.tag = "tr" /\ parser.row # {}
                    THEN [parser EXCEPT !.rows = Append(@, last), !.row = {}]
                  ELSE parser
      BY <1>1, <1>4 DEF handle_endtag
    <2> HIDE DEF cell, last, later, text, row
    <2> QED
      BY <1>4, <2>1 DEF ParserType, StartsCell, IsData, EndsCell, StartsRow, EndsRow, CellTags
  <1> QED
    BY <1>1, <1>2, <1>3, <1>4

\* A token is of one kind only.
LEMMA OneKind ==
    ASSUME NEW token
    PROVE  /\ StartsRow(token) => ~StartsCell(token) /\ ~IsData(token) /\ ~EndsCell(token) /\ ~EndsRow(token)
           /\ StartsCell(token) => ~IsData(token) /\ ~EndsCell(token) /\ ~EndsRow(token)
           /\ IsData(token) => ~EndsCell(token) /\ ~EndsRow(token)
           /\ EndsCell(token) => ~EndsRow(token)
  BY DEF StartsRow, StartsCell, IsData, EndsCell, EndsRow, CellTags

-----------------------------------------------------------------------------
\* After n tokens the parser has the rows that have ended, the cells so far of the
\* row that is open, and the text so far of the cell that is open.
RowsRead(table, n, rows) ==
    /\ \A k \in DOMAIN rows : \E a, b \in 1 .. n :
         RowAt(table, a, b) /\ ToSet(rows[k]) = CellsIn(table, a, b)
    /\ \A a, b \in 1 .. n : RowAt(table, a, b) =>
         \E k \in DOMAIN rows : ToSet(rows[k]) = CellsIn(table, a, b)
RowRead(table, n, open) ==
    /\ open # {} <=> \E a \in 1 .. n : RowOpen(table, a, n)
    /\ \A row \in open : \A a \in 1 .. n : RowOpen(table, a, n) => ToSet(row) = CellsIn(table, a, n)
CellRead(table, n, open) ==
    /\ open # {} <=> \E i \in 1 .. n : CellOpen(table, i, n)
    /\ \A cell \in open : \A i \in 1 .. n : CellOpen(table, i, n) => cell = TextFrom(table, i)[n]

ReadSoFar(table, n, parser) ==
    RowsRead(table, n, parser.rows) /\ RowRead(table, n, parser.row) /\ CellRead(table, n, parser.cell)

\* The open cell goes on, ends, or is another one.
LEMMA CellReadStep ==
    ASSUME NEW table \in Seq(Tokens), NEW n \in Nat, n + 1 \in DOMAIN table,
           NEW parser \in ParserType, CellRead(table, n, parser.cell)
    PROVE  CellRead(table, n + 1, Feed(parser, table[n + 1]).cell)
  <1> DEFINE token == table[n + 1]
             m == n + 1
             open == parser.cell
             later == Feed(parser, token).cell
             Data(cell) == [token.data EXCEPT !.text = cell.text \o @]
  <1>1. token \in Tokens /\ Len(table) \in Nat /\ m \in 1 .. Len(table)
    BY LenProperties, ElementOfSeq
  <1>2. later = IF StartsCell(token) THEN {NoText}
                ELSE IF IsData(token) THEN {Data(cell) : cell \in open}
                ELSE IF EndsCell(token) THEN {} ELSE open
    BY <1>1, FeedIs
  <1>3. /\ open # {} <=> \E i \in 1 .. n : CellOpen(table, i, n)
        /\ \A cell \in open : \A i \in 1 .. n :
             CellOpen(table, i, n) => cell = TextFrom(table, i)[n]
    BY Zenon DEF CellRead
  <1>4. \A i \in 1 .. n :
          CellOpen(table, i, m) <=> CellOpen(table, i, n) /\ ~StartsCell(token) /\ ~EndsCell(token)
    BY OpenStep
  <1>5. CellOpen(table, m, m) <=> StartsCell(token)
    BY OpenNow
  <1>6. /\ \A i \in 1 .. m : i \in 1 .. n \/ i = m
        /\ m \in 1 .. m /\ \A i \in 1 .. n : i \in 1 .. m /\ i # m
    OBVIOUS
  <1>7. \A i \in 1 .. n : i \in 1 .. Len(table) /\ m \in i + 1 .. Len(table) /\ m - 1 = n
    BY <1>1
  <1>8. /\ TextFrom(table, m)[m] = NoText
        /\ \A i \in 1 .. n : TextFrom(table, i)[m] =
             IF IsData(token) THEN Data(TextFrom(table, i)[n]) ELSE TextFrom(table, i)[n]
    <2>1. TextFrom(table, m)[m] = NoText
      BY <1>1, TextStep
    <2>2. ASSUME NEW i \in 1 .. n
          PROVE  TextFrom(table, i)[m] =
                   IF IsData(token) THEN Data(TextFrom(table, i)[n]) ELSE TextFrom(table, i)[n]
      <3>1. \A k \in i + 1 .. Len(table) :
              TextFrom(table, i)[k] =
                IF IsData(table[k])
                  THEN [table[k].data EXCEPT !.text = TextFrom(table, i)[k - 1].text \o @]
                ELSE TextFrom(table, i)[k - 1]
        BY <1>1, <1>7, TextStep
      <3>2. m \in i + 1 .. Len(table) /\ m - 1 = n
        BY <1>7
      <3> HIDE DEF m
      <3> QED
        BY <3>1, <3>2, Zenon DEF m
    <2> QED
      BY <2>1, <2>2
  <1>9. StartsCell(token) => ~IsData(token) /\ ~EndsCell(token)
    BY OneKind
  <1>10. IsData(token) => ~EndsCell(token)
    BY OneKind
  <1> HIDE DEF token, later, m, Data, open
  <1>11. CASE StartsCell(token)
    BY <1>2, <1>4, <1>5, <1>6, <1>8, <1>11, Zenon DEF CellRead, m, later, token
  <1>12. CASE ~StartsCell(token) /\ IsData(token)
    <2>1. later = {Data(cell) : cell \in open}
      BY <1>2, <1>12
    <2>2. \A i \in 1 .. m : CellOpen(table, i, m) => i \in 1 .. n /\ CellOpen(table, i, n)
      BY <1>4, <1>5, <1>6, <1>12
    <2>3. later # {} <=> open # {}
      BY <2>1
    <2>4. ASSUME NEW cell \in later, NEW i \in 1 .. m, CellOpen(table, i, m)
          PROVE  cell = TextFrom(table, i)[m]
      <3>1. PICK c \in open : cell = Data(c)
        BY <2>1
      <3>2. c = TextFrom(table, i)[n]
        BY <1>3, <2>2, <2>4
      <3> QED
        BY <1>8, <1>12, <2>2, <2>4, <3>1, <3>2
    <2>5. open # {} <=> \E i \in 1 .. m : CellOpen(table, i, m)
      BY <1>3, <1>4, <1>6, <1>10, <1>12, <2>2, Zenon
    <2> QED
      BY <2>3, <2>4, <2>5, Zenon DEF CellRead, m, later, token
  <1>13. CASE ~StartsCell(token) /\ ~IsData(token) /\ EndsCell(token)
    BY <1>2, <1>4, <1>5, <1>6, <1>13, Zenon DEF CellRead, m, later, token
  <1>14. CASE ~StartsCell(token) /\ ~IsData(token) /\ ~EndsCell(token)
    <2>1. later = open
      BY <1>2, <1>14
    <2>2. \A i \in 1 .. m : CellOpen(table, i, m) => i \in 1 .. n /\ CellOpen(table, i, n)
      BY <1>4, <1>5, <1>6, <1>14
    <2>3. \A i \in 1 .. n : CellOpen(table, i, n) => CellOpen(table, i, m)
      BY <1>4, <1>14
    <2>4. \A i \in 1 .. n : TextFrom(table, i)[m] = TextFrom(table, i)[n]
      BY <1>8, <1>14
    <2>5. open # {} <=> \E i \in 1 .. m : CellOpen(table, i, m)
      BY <1>3, <1>6, <2>2, <2>3, Zenon
    <2>6. ASSUME NEW cell \in open, NEW i \in 1 .. m, CellOpen(table, i, m)
          PROVE  cell = TextFrom(table, i)[m]
      BY <1>3, <2>2, <2>4, <2>6
    <2> QED
      BY <2>1, <2>5, <2>6, Zenon DEF CellRead, m, later, token
  <1> QED
    BY <1>11, <1>12, <1>13, <1>14

\* An element at the end is in the set of the elements.
LEMMA SetOfAppend ==
    ASSUME NEW X, NEW seq \in Seq(X), NEW x \in X
    PROVE  ToSet(Append(seq, x)) = ToSet(seq) \cup {x}
  <1> DEFINE more == Append(seq, x)
             m == Len(seq)
  <1>1. /\ DOMAIN seq = 1 .. m /\ DOMAIN more = 1 .. m + 1 /\ m \in Nat
        /\ more[m + 1] = x /\ \A k \in 1 .. m : more[k] = seq[k]
    BY AppendProperties, LenProperties
  <1> HIDE DEF more, m
  <1>2. /\ \A i \in 1 .. m + 1 : i \in 1 .. m \/ i = m + 1
        /\ m + 1 \in 1 .. m + 1 /\ \A i \in 1 .. m : i \in 1 .. m + 1
    BY <1>1
  <1>3. ToSet(more) = {more[i] : i \in DOMAIN more} /\ ToSet(seq) = {seq[i] : i \in DOMAIN seq}
    BY Zenon DEF ToSet
  <1>4. ToSet(more) = ToSet(seq) \cup {x}
    BY <1>1, <1>2, <1>3
  <1> QED
    BY <1>4 DEF more

\* The cells of an open row are the cells so far and the one that ends.
LEMMA CellsSoFar ==
    ASSUME NEW table \in Seq(Tokens), FollowsTheSource(table), NEW n \in Nat, n + 1 \in DOMAIN table,
           NEW open, CellRead(table, n, open), NEW a \in 1 .. n, RowOpen(table, a, n)
    PROVE  CellsIn(table, a, n + 1) =
             CellsIn(table, a, n) \cup
             (IF EndsCell(table[n + 1]) /\ open # {}
                THEN {[TheOnly(open) EXCEPT !.text = strip(@)]} ELSE {})
  <1> DEFINE m == n + 1
             token == table[m]
             S == CellsIn(table, a, n)
             T == CellsIn(table, a, m)
             ended == [TheOnly(open) EXCEPT !.text = strip(@)]
  <1>1. \A cell : cell \in T <=>
          \/ cell \in S
          \/ EndsCell(token) /\ \E i \in a .. n : CellOpen(table, i, n) /\ cell = CellText(table, i, m)
    BY CellsStep
  <1>2. /\ open # {} <=> \E i \in 1 .. n : CellOpen(table, i, n)
        /\ \A cell \in open : \A i \in 1 .. n :
             CellOpen(table, i, n) => cell = TextFrom(table, i)[n]
    BY Zenon DEF CellRead
  <1>3. \A i \in a .. n : i \in 1 .. n
    OBVIOUS
  <1>4. Len(table) \in Nat /\ DOMAIN table = 1 .. Len(table)
    BY LenProperties
  <1>5. ASSUME EndsCell(token), NEW i \in 1 .. n, CellOpen(table, i, n)
        PROVE  i \in a .. n /\ CellText(table, i, m) = ended
    <2>1. StartsRow(table[a]) /\ \A j \in i + 1 .. n : ~StartsCell(table[j])
      BY <1>5 DEF RowOpen, CellOpen
    <2>2. ~SameCell(table, a, m)
      <3>1. a \in DOMAIN table /\ m \in a + 1 .. Len(table)
        BY <1>4
      <3> QED
        BY <1>5, <2>1, <3>1 DEF FollowsTheSource
    <2>3. PICK j \in a .. m : StartsCell(table[j])
      BY <2>2 DEF SameCell
    <2>4. j # m
      BY <1>5, <2>3, OneKind
    <2>5. ~(i < j)
      <3>1. i < j => j \in i + 1 .. n
        BY <2>4
      <3> QED
        BY <2>1, <2>3, <3>1
    <2>6. i \in a .. n
      BY <2>3, <2>5
    <2>7. TheOnly(open) = TextFrom(table, i)[n]
      <3>1. TheOnly(open) \in open
        BY <1>2, <1>5 DEF TheOnly
      <3> QED
        BY <1>2, <1>5, <3>1
    <2>8. TextFrom(table, i)[m] = TextFrom(table, i)[n]
      <3>1. \A k \in i + 1 .. Len(table) :
              TextFrom(table, i)[k] =
                IF IsData(table[k])
                  THEN [table[k].data EXCEPT !.text = TextFrom(table, i)[k - 1].text \o @]
                ELSE TextFrom(table, i)[k - 1]
        <4>1. i \in 1 .. Len(table)
          BY <1>4
        <4> QED
          BY <1>4, <4>1, TextStep
      <3>2. m \in i + 1 .. Len(table) /\ m - 1 = n
        BY <1>4
      <3>3. ~IsData(token)
        BY <1>5, OneKind
      <3> HIDE DEF m
      <3> QED
        BY <3>1, <3>2, <3>3
    <2>9. CellText(table, i, m) = [TextFrom(table, i)[m] EXCEPT !.text = strip(@)]
      BY Zenon DEF CellText
    <2> HIDE DEF m
    <2>10. CellText(table, i, m) = ended
      BY <2>7, <2>8, <2>9, Zenon
    <2> QED
      BY <2>6, <2>10
  <1> HIDE DEF m, token, S, T, ended
  <1>6. CASE EndsCell(token) /\ open # {}
    <2>1. PICK i \in 1 .. n : CellOpen(table, i, n)
      BY <1>2, <1>6
    <2>2. i \in a .. n /\ CellText(table, i, m) = ended
      BY <1>5, <1>6, <2>1
    <2>3. T = S \cup {ended}
      BY <1>1, <1>3, <1>5, <1>6, <2>1, <2>2
    <2> QED
      BY <1>6, <2>3 DEF m, token, S, T, ended
  <1>7. CASE ~(EndsCell(token) /\ open # {})
    <2>1. T = S
      BY <1>1, <1>2, <1>3, <1>7
    <2> QED
      BY <1>7, <2>1 DEF m, token, S, T, ended
  <1> QED
    BY <1>6, <1>7

\* The open row goes on, ends, or is another one.
LEMMA RowReadStep ==
    ASSUME NEW table \in Seq(Tokens), FollowsTheSource(table), NEW n \in Nat, n + 1 \in DOMAIN table,
           NEW parser \in ParserType, CellRead(table, n, parser.cell), RowRead(table, n, parser.row)
    PROVE  RowRead(table, n + 1, Feed(parser, table[n + 1]).row)
  <1> DEFINE m == n + 1
             token == table[m]
             open == parser.row
             later == Feed(parser, token).row
             cell == [TheOnly(parser.cell) EXCEPT !.text = strip(@)]
  <1>1. token \in Tokens
    BY LenProperties, ElementOfSeq
  <1>2. later = IF StartsRow(token) THEN {<<>>}
                ELSE IF EndsCell(token) /\ parser.cell # {} THEN {Append(row, cell) : row \in open}
                ELSE IF EndsRow(token) THEN {} ELSE open
    BY <1>1, FeedIs
  <1>3. /\ open # {} <=> \E a \in 1 .. n : RowOpen(table, a, n)
        /\ \A row \in open : \A a \in 1 .. n :
             RowOpen(table, a, n) => ToSet(row) = CellsIn(table, a, n)
    BY Zenon DEF RowRead
  <1>4. \A a \in 1 .. n :
          RowOpen(table, a, m) <=> RowOpen(table, a, n) /\ ~StartsRow(token) /\ ~EndsRow(token)
    BY OpenStep
  <1>5. RowOpen(table, m, m) <=> StartsRow(token)
    BY OpenNow
  <1>6. /\ \A a \in 1 .. m : a \in 1 .. n \/ a = m
        /\ m \in 1 .. m /\ \A a \in 1 .. n : a \in 1 .. m
    OBVIOUS
  <1>7. \A a \in 1 .. n : RowOpen(table, a, n) =>
          CellsIn(table, a, m) = CellsIn(table, a, n) \cup
            (IF EndsCell(token) /\ parser.cell # {} THEN {cell} ELSE {})
    BY CellsSoFar
  <1>8. /\ StartsRow(token) => ~EndsCell(token) /\ ~EndsRow(token)
        /\ EndsCell(token) => ~EndsRow(token)
    BY OneKind
  <1>9. CASE StartsRow(token)
    <2>1. later = {<<>>}
      BY <1>2, <1>9
    <2>2. ToSet(<<>>) = {}
      BY DEF ToSet
    <2>3. CellsIn(table, m, m) = {}
      <3>1. \A i, e \in m .. m : ~(i < e)
        OBVIOUS
      <3>2. \A i, e \in m .. m : ~CellAt(table, i, e)
        BY <3>1, Zenon DEF CellAt
      <3>3. \A c : c \notin CellsIn(table, m, m)
        BY <3>2, CellsInIs
      <3> QED
        BY <3>3
    <2>4. \A a \in 1 .. m : RowOpen(table, a, m) => a = m
      BY <1>4, <1>6, <1>9, Zenon
    <2>5. \A row \in later : row = <<>>
      BY <2>1
    <2>6. later # {}
      BY <2>1
    <2> HIDE DEF later, m, token
    <2>7. \A row \in later : \A a \in 1 .. m : RowOpen(table, a, m) => ToSet(row) = CellsIn(table, a, m)
      BY <2>2, <2>3, <2>4, <2>5, Zenon
    <2>8. \E a \in 1 .. m : RowOpen(table, a, m)
      BY <1>5, <1>6, <1>9, Zenon
    <2> QED
      BY <2>6, <2>7, <2>8, Zenon DEF RowRead, later, m, token
  <1>10. CASE ~StartsRow(token) /\ EndsRow(token)
    <2>1. later = {}
      BY <1>2, <1>8, <1>10
    <2>2. \A a \in 1 .. m : ~RowOpen(table, a, m)
      BY <1>4, <1>5, <1>6, <1>10, Zenon
    <2> HIDE DEF later
    <2> QED
      BY <2>1, <2>2, Zenon DEF RowRead, later
  <1>11. CASE ~StartsRow(token) /\ ~EndsRow(token)
    <2> DEFINE ends == EndsCell(token) /\ parser.cell # {}
    <2>1. later = IF ends THEN {Append(row, cell) : row \in open} ELSE open
      BY <1>2, <1>11
    <2>2. \A a \in 1 .. m : RowOpen(table, a, m) => a \in 1 .. n /\ RowOpen(table, a, n)
      BY <1>4, <1>5, <1>6, <1>11, Zenon
    <2>3. later # {} <=> open # {}
      BY <2>1
    <2>4. later # {} <=> \E a \in 1 .. m : RowOpen(table, a, m)
      BY <1>3, <1>4, <1>6, <1>11, <2>2, <2>3, Zenon
    <2>5. ASSUME NEW row \in later, NEW a \in 1 .. m, RowOpen(table, a, m)
          PROVE  ToSet(row) = CellsIn(table, a, m)
      <3>1. a \in 1 .. n /\ RowOpen(table, a, n)
        BY <2>2, <2>5
      <3>2. CASE ends
        <4>1. PICK r \in open : row = Append(r, cell)
          BY <2>1, <2>5, <3>2
        <4>2. ToSet(r) = CellsIn(table, a, n)
          BY <1>3, <3>1
        <4>3. r \in Seq(Pieces) /\ cell \in Pieces
          <5>1. TheOnly(parser.cell) \in Pieces
            BY <3>2 DEF TheOnly, ParserType
          <5>2. strip(TheOnly(parser.cell).text) \in Seq(STRING)
            BY <5>1, StripType DEF Pieces
          <5> QED
            BY <5>1, <5>2 DEF ParserType, Pieces
        <4> HIDE DEF cell
        <4>4. ToSet(row) = ToSet(r) \cup {cell}
          BY <4>1, <4>3, SetOfAppend
        <4>5. CellsIn(table, a, m) = CellsIn(table, a, n) \cup {cell}
          BY <1>7, <3>1, <3>2
        <4> QED
          BY <4>2, <4>4, <4>5
      <3>3. CASE ~ends
        <4>1. ToSet(row) = CellsIn(table, a, n)
          BY <1>3, <2>1, <2>5, <3>1, <3>3
        <4>2. CellsIn(table, a, m) = CellsIn(table, a, n)
          BY <1>7, <3>1, <3>3
        <4> QED
          BY <4>1, <4>2
      <3> QED
        BY <3>2, <3>3
    <2> HIDE DEF later, m, token
    <2> QED
      BY <2>4, <2>5, Zenon DEF RowRead, later, m, token
  <1> QED
    BY <1>9, <1>10, <1>11

\* A row that ends goes to the end of the rows.
LEMMA RowsReadStep ==
    ASSUME NEW table \in Seq(Tokens), FollowsTheSource(table), NEW n \in Nat, n + 1 \in DOMAIN table,
           NEW parser \in ParserType, ReadSoFar(table, n, parser)
    PROVE  RowsRead(table, n + 1, Feed(parser, table[n + 1]).rows)
  <1> DEFINE m == n + 1
             token == table[m]
             open == parser.row
             rows == parser.rows
             later == Feed(parser, token).rows
             ended == TheOnly(open)
             Is(row, a, b) == RowAt(table, a, b) /\ ToSet(row) = CellsIn(table, a, b)
  <1>1. token \in Tokens
    BY LenProperties, ElementOfSeq
  <1>2. later = IF EndsRow(token) /\ open # {} THEN Append(rows, ended) ELSE rows
    BY <1>1, FeedIs
  <1>3. RowsRead(table, n, rows) /\ RowRead(table, n, open) /\ CellRead(table, n, parser.cell)
    BY Zenon DEF ReadSoFar
  <1>4. /\ \A k \in DOMAIN rows : \E a, b \in 1 .. n : Is(rows[k], a, b)
        /\ \A a, b \in 1 .. n : RowAt(table, a, b) => \E k \in DOMAIN rows : Is(rows[k], a, b)
    BY <1>3, Zenon DEF RowsRead
  <1>5. /\ open # {} <=> \E a \in 1 .. n : RowOpen(table, a, n)
        /\ \A row \in open : \A a \in 1 .. n :
             RowOpen(table, a, n) => ToSet(row) = CellsIn(table, a, n)
    BY <1>3, Zenon DEF RowRead
  <1>6. \A a \in 1 .. n : RowAt(table, a, m) <=> RowOpen(table, a, n) /\ EndsRow(token)
    BY OpenStep
  <1>7. \A a \in 1 .. n : RowOpen(table, a, n) /\ EndsRow(token) =>
          CellsIn(table, a, m) = CellsIn(table, a, n)
    <2>1. EndsRow(token) => ~EndsCell(token)
      BY OneKind
    <2>2. \A a \in 1 .. n : RowOpen(table, a, n) =>
            CellsIn(table, a, m) = CellsIn(table, a, n) \cup
              (IF EndsCell(token) /\ parser.cell # {}
                 THEN {[TheOnly(parser.cell) EXCEPT !.text = strip(@)]} ELSE {})
      BY <1>3, CellsSoFar
    <2> HIDE DEF m, token
    <2> QED
      BY <2>1, <2>2
  <1>8. \A a, b \in 1 .. m : RowAt(table, a, b) => a \in 1 .. n /\ (b \in 1 .. n \/ b = m)
    <2>1. \A a, b \in 1 .. m : a < b => a \in 1 .. n /\ (b \in 1 .. n \/ b = m)
      OBVIOUS
    <2> QED
      BY <2>1, Zenon DEF RowAt
  <1>9. m \in 1 .. m /\ \A a \in 1 .. n : a \in 1 .. m
    OBVIOUS
  <1>10. rows \in Seq(Seq(Pieces)) /\ open \in SUBSET Seq(Pieces)
    BY DEF ParserType
  <1> SUFFICES RowsRead(table, m, later)
    OBVIOUS
  <1> HIDE DEF later, token
  <1>11. CASE EndsRow(token) /\ open # {}
    <2> DEFINE last == Len(rows) + 1
    <2>1. ended \in open /\ ended \in Seq(Pieces)
      BY <1>10, <1>11 DEF TheOnly
    <2> HIDE DEF ended
    <2>2. /\ later = Append(rows, ended) /\ DOMAIN rows = 1 .. Len(rows) /\ Len(rows) \in Nat
          /\ DOMAIN later = 1 .. last /\ later[last] = ended
          /\ \A k \in 1 .. Len(rows) : later[k] = rows[k]
      BY <1>2, <1>10, <1>11, <2>1, AppendProperties, LenProperties
    <2>3. /\ \A k \in DOMAIN later : k \in DOMAIN rows \/ k = last
          /\ last \in DOMAIN later /\ \A k \in DOMAIN rows : k \in DOMAIN later /\ later[k] = rows[k]
      BY <2>2
    <2>4. \A a \in 1 .. n : RowOpen(table, a, n) => Is(ended, a, m)
      BY <1>5, <1>6, <1>7, <1>11, <2>1
    <2> HIDE DEF m, last
    <2>5. ASSUME NEW k \in DOMAIN later
          PROVE  \E a, b \in 1 .. m : Is(later[k], a, b)
      <3>1. CASE k \in DOMAIN rows
        <4>1. later[k] = rows[k] /\ \E a, b \in 1 .. n : Is(rows[k], a, b)
          BY <1>4, <2>3, <3>1, Zenon
        <4> HIDE DEF Is
        <4> QED
          BY <1>9, <4>1
      <3>2. CASE k = last
        <4>1. PICK a \in 1 .. n : RowOpen(table, a, n)
          BY <1>5, <1>11
        <4>2. Is(ended, a, m) /\ a \in 1 .. m /\ m \in 1 .. m
          BY <1>9, <2>4, <4>1
        <4>3. later[k] = ended
          BY <2>2, <3>2
        <4> HIDE DEF Is
        <4> QED
          BY <4>2, <4>3, Zenon
      <3> QED
        BY <2>3, <3>1, <3>2
    <2>6. ASSUME NEW a \in 1 .. m, NEW b \in 1 .. m, RowAt(table, a, b)
          PROVE  \E k \in DOMAIN later : Is(later[k], a, b)
      <3>1. a \in 1 .. n /\ (b \in 1 .. n \/ b = m)
        BY <1>8, <2>6
      <3>2. CASE b \in 1 .. n
        <4>1. PICK k \in DOMAIN rows : Is(rows[k], a, b)
          BY <1>4, <2>6, <3>1, <3>2
        <4>2. k \in DOMAIN later /\ later[k] = rows[k]
          BY <2>3, <4>1
        <4> HIDE DEF Is
        <4> QED
          BY <4>1, <4>2, Zenon
      <3>3. CASE b = m
        <4>1. RowOpen(table, a, n)
          BY <1>6, <2>6, <3>1, <3>3
        <4>2. Is(ended, a, m)
          BY <2>4, <3>1, <4>1
        <4> HIDE DEF Is
        <4> QED
          BY <2>2, <2>3, <3>3, <4>2, Zenon
      <3> QED
        BY <3>1, <3>2, <3>3
    <2> QED
      BY <2>5, <2>6, Zenon DEF RowsRead
  <1>12. CASE ~(EndsRow(token) /\ open # {})
    <2>1. later = rows
      BY <1>2, <1>12
    <2>2. ASSUME NEW a \in 1 .. m, NEW b \in 1 .. m, RowAt(table, a, b)
          PROVE  a \in 1 .. n /\ b \in 1 .. n
      BY <1>5, <1>6, <1>8, <1>12, <2>2
    <2> HIDE DEF m
    <2>3. \A k \in DOMAIN later : \E a, b \in 1 .. m : Is(later[k], a, b)
      BY <1>4, <1>9, <2>1, Zenon
    <2>4. \A a, b \in 1 .. m : RowAt(table, a, b) => \E k \in DOMAIN later : Is(later[k], a, b)
      BY <1>4, <2>1, <2>2, Zenon
    <2> QED
      BY <2>3, <2>4, Zenon DEF RowsRead
  <1> QED
    BY <1>11, <1>12

\* The rows that parse_html_rows returns are the rows of the table that have both of
\* their tags, each with its cells: nothing is lost, added or put in another row,
\* wherever end tags are missing.
THEOREM RowsAreRead ==
    ASSUME NEW table \in Seq(Tokens), FollowsTheSource(table)
    PROVE  {ToSet(parse_html_rows(table)[n]) : n \in DOMAIN parse_html_rows(table)} = RowsIn(table)
  <1> DEFINE m == Len(table)
             g == CHOOSE h : ParsedFunction(table, m, h)
             Fine(n, p) == p \in ParserType /\ ReadSoFar(table, n, p)
             rows == parse_html_rows(table)
  <1>1. m \in Nat /\ DOMAIN table = 1 .. m /\ \A n \in 1 .. m : table[n] \in Tokens
    BY LenProperties, ElementOfSeq
  <1>2. rows = TheOnly(g[m]).rows
    BY DEF parse_html_rows, ParsedFunction
  <1>3. ParsedFunction(table, m, g)
    BY <1>1, ParsedExists
  <1> HIDE DEF g, m, rows
  <1>4. \A n \in 0 .. m :
          g[n] = IF n = 0 THEN {NewParser} ELSE {Feed(p, table[n]) : p \in g[n - 1]}
    BY <1>3 DEF ParsedFunction
  <1> DEFINE Good == {n \in Nat : n <= m => g[n] # {} /\ \A p \in g[n] : Fine(n, p)}
  <1>5. 0 \in Good
    <2>1. g[0] = {NewParser}
      <3>1. 0 \in 0 .. m
        BY <1>1
      <3> QED
        BY <1>4, <3>1, Zenon
    <2>2. NewParser \in ParserType
      <3>1. <<>> \in Seq(Seq(Pieces))
        BY EmptySeq
      <3> QED
        BY <3>1 DEF NewParser, ParserType
    <2>3. ReadSoFar(table, 0, NewParser)
      BY DEF ReadSoFar, RowsRead, RowRead, CellRead, NewParser
    <2> QED
      BY <2>1, <2>2, <2>3
  <1>6. ASSUME NEW n \in Nat, n \in Good
        PROVE  n + 1 \in Good
    <2>1. ASSUME n + 1 <= m
          PROVE  g[n + 1] # {} /\ \A p \in g[n + 1] : Fine(n + 1, p)
      <3>1. n + 1 \in 1 .. m /\ n + 1 \in 0 .. m /\ n <= m /\ (n + 1) - 1 = n /\ n + 1 # 0
        BY <1>1, <2>1
      <3>2. g[n] # {} /\ \A p \in g[n] : Fine(n, p)
        BY <1>6, <3>1
      <3>3. g[n + 1] = {Feed(p, table[n + 1]) : p \in g[n]}
        BY <1>4, <3>1
      <3>4. table[n + 1] \in Tokens /\ n + 1 \in DOMAIN table
        BY <1>1, <3>1
      <3>5. ASSUME NEW p \in g[n]
            PROVE  Fine(n + 1, Feed(p, table[n + 1]))
        <4>1. p \in ParserType /\ ReadSoFar(table, n, p)
          BY <3>2
        <4>2. Feed(p, table[n + 1]) \in ParserType
          BY <3>4, <4>1, FeedType
        <4>3. RowRead(table, n, p.row) /\ CellRead(table, n, p.cell)
          BY <4>1, Zenon DEF ReadSoFar
        <4>4. RowsRead(table, n + 1, Feed(p, table[n + 1]).rows)
          BY <3>4, <4>1, RowsReadStep
        <4>5. RowRead(table, n + 1, Feed(p, table[n + 1]).row)
          BY <3>4, <4>1, <4>3, RowReadStep
        <4>6. CellRead(table, n + 1, Feed(p, table[n + 1]).cell)
          BY <3>4, <4>1, <4>3, CellReadStep
        <4> QED
          BY <4>2, <4>4, <4>5, <4>6, Zenon DEF ReadSoFar
      <3> HIDE DEF Fine
      <3> QED
        BY <3>2, <3>3, <3>5
    <2> QED
      BY <2>1
  <1> HIDE DEF Good
  <1>7. Nat \subseteq Good
    BY <1>5, <1>6, NumberInduction
  <1>8. g[m] # {} /\ \A p \in g[m] : Fine(m, p)
    BY <1>1, <1>7 DEF Good
  <1>9. TheOnly(g[m]) \in g[m]
    BY <1>8 DEF TheOnly
  <1>10. RowsRead(table, m, rows)
    BY <1>2, <1>8, <1>9, Zenon DEF ReadSoFar
  <1>11. /\ \A k \in DOMAIN rows : \E a, b \in DOMAIN table :
              RowAt(table, a, b) /\ ToSet(rows[k]) = CellsIn(table, a, b)
         /\ \A a, b \in DOMAIN table : RowAt(table, a, b) =>
              \E k \in DOMAIN rows : ToSet(rows[k]) = CellsIn(table, a, b)
    <2> DEFINE D == DOMAIN table
    <2>1. 1 .. m = D
      BY <1>1
    <2>2. /\ \A k \in DOMAIN rows : \E a, b \in 1 .. m :
               RowAt(table, a, b) /\ ToSet(rows[k]) = CellsIn(table, a, b)
          /\ \A a, b \in 1 .. m : RowAt(table, a, b) =>
               \E k \in DOMAIN rows : ToSet(rows[k]) = CellsIn(table, a, b)
      BY <1>10, Zenon DEF RowsRead
    <2> HIDE DEF D
    <2>3. /\ \A k \in DOMAIN rows : \E a, b \in D :
               RowAt(table, a, b) /\ ToSet(rows[k]) = CellsIn(table, a, b)
          /\ \A a, b \in D : RowAt(table, a, b) =>
               \E k \in DOMAIN rows : ToSet(rows[k]) = CellsIn(table, a, b)
      BY <2>1, <2>2
    <2> QED
      BY <2>3 DEF D
  <1>12. \A k \in DOMAIN rows : ToSet(rows[k]) \in RowsIn(table)
    BY <1>11, RowsInIs
  <1>13. \A cells \in RowsIn(table) : \E k \in DOMAIN rows : cells = ToSet(rows[k])
    BY <1>11, RowsInIs
  <1>14. {ToSet(rows[k]) : k \in DOMAIN rows} = RowsIn(table)
    BY <1>12, <1>13
  <1> QED
    BY <1>14 DEF rows

-----------------------------------------------------------------------------
(* The elements of sequences, and all the tables of a result               *)

\* What a sequence has, by its positions.
LEMMA HasElement ==
    ASSUME NEW seq, NEW x
    PROVE  x \in ToSet(seq) <=> \E i \in DOMAIN seq : seq[i] = x
  BY DEF ToSet

\* Only keeps the elements of S, and all of them.
LEMMA SetOfOnly ==
    ASSUME NEW X, NEW S, NEW seq \in Seq(X)
    PROVE  ToSet(Only(seq, S)) = ToSet(seq) \cap S
  <1> DEFINE kept == Only(seq, S)
             m == Len(kept)
             P(f) == /\ f \in [1 .. m -> DOMAIN seq]
                     /\ \A i, j \in 1 .. m : i < j => f[i] < f[j]
                     /\ \A i \in 1 .. m : kept[i] = seq[f[i]] /\ seq[f[i]] \in S
                     /\ \A k \in DOMAIN seq : seq[k] \in S => \E i \in 1 .. m : f[i] = k
  <1>1. \E f : P(f)
    BY OnlyPositions
  <1>2. PICK f : P(f)
    BY <1>1, Zenon
  <1>3. DOMAIN kept = 1 .. m
    <2>1. kept \in Seq(X)
      BY OnlyIsSeq
    <2> QED
      BY <2>1, LenProperties
  <1> HIDE DEF kept, m
  <1>4. ASSUME NEW x
        PROVE  x \in ToSet(kept) <=> x \in ToSet(seq) \cap S
    <2>1. x \in ToSet(kept) => \E i \in 1 .. m : kept[i] = x
      BY <1>3, HasElement
    <2>2. x \in ToSet(kept) => x \in ToSet(seq) \cap S
      BY <1>2, <2>1, HasElement
    <2>3. ASSUME x \in ToSet(seq), x \in S
          PROVE  x \in ToSet(kept)
      <3>1. PICK k \in DOMAIN seq : seq[k] = x
        BY <2>3, HasElement
      <3>2. PICK i \in 1 .. m : f[i] = k
        BY <1>2, <2>3, <3>1
      <3>3. kept[i] = x
        BY <1>2, <3>1, <3>2
      <3> QED
        BY <1>3, <3>3, HasElement
    <2> QED
      BY <2>2, <2>3
  <1> QED
    BY <1>4 DEF kept

\* The elements of a concatenation are those of both parts.
LEMMA SetOfConcat ==
    ASSUME NEW X, NEW a \in Seq(X), NEW b \in Seq(X)
    PROVE  ToSet(a \o b) = ToSet(a) \cup ToSet(b)
  <1> DEFINE c == a \o b
             m == Len(a)
             n == Len(b)
  <1>1. /\ m \in Nat /\ n \in Nat /\ DOMAIN a = 1 .. m /\ DOMAIN b = 1 .. n
        /\ c \in Seq(X) /\ Len(c) = m + n /\ DOMAIN c = 1 .. m + n
        /\ \A i \in 1 .. m + n : c[i] = IF i <= m THEN a[i] ELSE b[i - m]
    BY ConcatProperties, LenProperties
  <1> HIDE DEF c, m, n
  <1>2. \A i \in 1 .. m : i \in 1 .. m + n /\ c[i] = a[i]
    BY <1>1
  <1>3. \A i \in 1 .. n : m + i \in 1 .. m + n /\ c[m + i] = b[i]
    BY <1>1
  <1>4. \A i \in 1 .. m + n : i \in 1 .. m \/ (i - m \in 1 .. n /\ c[i] = b[i - m])
    BY <1>1
  <1>5. \A x : x \in ToSet(c) <=> x \in ToSet(a) \/ x \in ToSet(b)
    <2>1. \A x : x \in ToSet(c) => x \in ToSet(a) \/ x \in ToSet(b)
      BY <1>1, <1>2, <1>4, HasElement
    <2>2. \A x : x \in ToSet(a) => x \in ToSet(c)
      BY <1>1, <1>2, HasElement
    <2>3. \A x : x \in ToSet(b) => x \in ToSet(c)
      BY <1>1, <1>3, HasElement
    <2> QED
      BY <2>1, <2>2, <2>3
  <1> QED
    BY <1>5 DEF c

\* The elements of a sequence that is not empty are the first and those after it.
LEMMA SetOfTail ==
    ASSUME NEW X, NEW seq \in Seq(X), seq # <<>>
    PROVE  ToSet(seq) = {Head(seq)} \cup ToSet(Tail(seq))
  <1> DEFINE n == Len(seq)
             t == Tail(seq)
  <1>1. /\ n \in Nat /\ n # 0 /\ DOMAIN seq = 1 .. n /\ Head(seq) = seq[1]
        /\ DOMAIN t = 1 .. n - 1 /\ \A i \in 1 .. n - 1 : t[i] = seq[i + 1]
    <2>1. n \in Nat /\ n # 0 /\ DOMAIN seq = 1 .. n
      BY LenProperties, EmptySeq
    <2>2. Head(seq) = seq[1]
      OBVIOUS
    <2>3. t \in Seq(X) /\ Len(t) = n - 1 /\ \A i \in 1 .. n - 1 : t[i] = seq[i + 1]
      BY HeadTailProperties
    <2> HIDE DEF t
    <2>4. DOMAIN t = 1 .. n - 1
      BY <2>3, LenProperties
    <2> QED
      BY <2>1, <2>2, <2>3, <2>4
  <1> HIDE DEF n, t
  <1>2. \A x : x \in ToSet(seq) => x = seq[1] \/ x \in ToSet(t)
    <2> SUFFICES ASSUME NEW x, x \in ToSet(seq) PROVE x = seq[1] \/ x \in ToSet(t)
      OBVIOUS
    <2>1. PICK i \in 1 .. n : seq[i] = x
      BY <1>1, HasElement
    <2>2. CASE i = 1
      BY <2>1, <2>2
    <2>3. CASE i # 1
      <3>1. i - 1 \in 1 .. n - 1 /\ (i - 1) + 1 = i
        BY <1>1, <2>3
      <3>2. t[i - 1] = x
        BY <1>1, <2>1, <3>1
      <3> QED
        BY <1>1, <3>1, <3>2, HasElement
    <2> QED
      BY <2>2, <2>3
  <1>3. seq[1] \in ToSet(seq)
    BY <1>1, HasElement
  <1>4. \A x : x \in ToSet(t) => x \in ToSet(seq)
    <2> SUFFICES ASSUME NEW x, x \in ToSet(t) PROVE x \in ToSet(seq)
      OBVIOUS
    <2>1. PICK i \in 1 .. n - 1 : t[i] = x
      BY <1>1, HasElement
    <2>2. i + 1 \in 1 .. n /\ seq[i + 1] = x
      BY <1>1, <2>1
    <2> QED
      BY <1>1, <2>2, HasElement
  <1> QED
    BY <1>1, <1>2, <1>3, <1>4 DEF t

\* The elements of a concatenation of many are those of its parts.
LEMMA SetOfFlatten ==
    ASSUME NEW X, NEW seqs \in Seq(Seq(X)), NEW x
    PROVE  x \in ToSet(FlattenSeq(seqs)) <=> \E k \in DOMAIN seqs : x \in ToSet(seqs[k])
  <1> DEFINE m == Len(seqs)
             g == CHOOSE h : FlatFunction(seqs, m, h)
  <1>1. m \in Nat /\ DOMAIN seqs = 1 .. m /\ \A i \in 1 .. m : seqs[i] \in Seq(X)
    BY LenProperties, ElementOfSeq
  <1>2. CASE m = 0
    <2>1. seqs = <<>>
      BY <1>2, EmptySeq
    <2>2. FlattenSeq(<<>>) = <<>> /\ ToSet(<<>>) = {} /\ DOMAIN <<>> = {}
      BY DEF FlattenSeq, ToSet
    <2> QED
      BY <2>1, <2>2
  <1>3. CASE m # 0
    <2>1. FlattenSeq(seqs) = g[m]
      BY <1>3 DEF FlattenSeq, FlatFunction
    <2>2. FlatFunction(seqs, m, g)
      BY <1>1, FlatExists
    <2> HIDE DEF g, m
    <2>3. \A i \in 1 .. m : g[i] = IF i = 1 THEN seqs[i] ELSE g[i - 1] \o seqs[i]
      BY <2>2 DEF FlatFunction
    <2> DEFINE Right(n) == /\ g[n] \in Seq(X)
                           /\ x \in ToSet(g[n]) <=> \E k \in 1 .. n : x \in ToSet(seqs[k])
               Good == {n \in Nat : n \in 1 .. m => Right(n)}
    <2>4. 0 \in Good
      OBVIOUS
    <2>5. ASSUME NEW n \in Nat, n \in Good
          PROVE  n + 1 \in Good
      <3>1. ASSUME n = 0, n + 1 \in 1 .. m
            PROVE  Right(n + 1)
        <4>1. g[1] = seqs[1] /\ 1 \in 1 .. m
          BY <2>3, <3>1
        <4>2. 1 .. 1 = {1}
          OBVIOUS
        <4>3. Right(1)
          BY <1>1, <4>1, <4>2
        <4> QED
          BY <3>1, <4>3
      <3>2. ASSUME n # 0, n + 1 \in 1 .. m
            PROVE  Right(n + 1)
        <4>1. n \in 1 .. m /\ (n + 1) - 1 = n /\ n + 1 # 1
          BY <1>1, <3>2
        <4>2. Right(n)
          BY <2>5, <4>1
        <4>3. g[n + 1] = g[(n + 1) - 1] \o seqs[n + 1] /\ seqs[n + 1] \in Seq(X)
          BY <1>1, <2>3, <3>2, <4>1
        <4> DEFINE a == g[n]
                   b == seqs[n + 1]
                   c == g[n + 1]
        <4>4. c = a \o b /\ a \in Seq(X) /\ b \in Seq(X)
          BY <4>1, <4>2, <4>3
        <4>5. x \in ToSet(a) <=> \E k \in 1 .. n : x \in ToSet(seqs[k])
          BY <4>2
        <4> HIDE DEF a, b, c
        <4>6. c \in Seq(X) /\ ToSet(c) = ToSet(a) \cup ToSet(b)
          BY <4>4, SetOfConcat, ConcatProperties
        <4>7. /\ \A k \in 1 .. n + 1 : k \in 1 .. n \/ k = n + 1
              /\ n + 1 \in 1 .. n + 1 /\ \A k \in 1 .. n : k \in 1 .. n + 1
          OBVIOUS
        <4>8. x \in ToSet(c) <=> x \in ToSet(a) \/ x \in ToSet(b)
          BY <4>6
        <4>9. x \in ToSet(c) <=> \E k \in 1 .. n + 1 : x \in ToSet(seqs[k])
          BY <4>5, <4>7, <4>8, Zenon DEF b
        <4> QED
          BY <4>6, <4>9 DEF c
      <3> HIDE DEF Right
      <3> QED
        BY <2>5, <3>1, <3>2
    <2> HIDE DEF Good
    <2>6. Nat \subseteq Good
      BY <2>4, <2>5, NumberInduction
    <2>7. m \in 1 .. m
      BY <1>1, <1>3
    <2>8. x \in ToSet(g[m]) <=> \E k \in 1 .. m : x \in ToSet(seqs[k])
      BY <1>1, <2>6, <2>7 DEF Good
    <2> QED
      BY <1>1, <2>1, <2>8, Zenon
  <1> QED
    BY <1>2, <1>3

\* The tables of a result, one by one.
LEMMA AllTablesAre ==
    ASSUME NEW result, NEW table
    PROVE  table \in AllTables(result) <=>
             \E n \in DOMAIN result : \E k \in 1 .. 3 : table = result[n].html[TableKeys[k]]
  BY DEF AllTables

\* The tables that a node has.
HeldBy(node) == {node.html[TableKeys[k]] : k \in 1 .. 3} \ {NoTable}

\* TablesOf has the tables of a node.
LEMMA SetOfTables ==
    ASSUME NEW node \in Nodes
    PROVE  TablesOf(node) \in Seq(Seq(Tokens)) /\ ToSet(TablesOf(node)) = HeldBy(node)
  <1> DEFINE held == [k \in 1 .. 3 |-> node.html[TableKeys[k]]]
  <1>1. held \in Seq(Seq(Tokens))
    <2>1. node.html \in [{TableKeys[k] : k \in 1 .. 3} -> Seq(Tokens)]
      BY Zenon DEF Nodes
    <2>2. held \in [1 .. 3 -> Seq(Tokens)]
      BY <2>1
    <2> DEFINE T == Seq(Tokens)
    <2>3. held \in [1 .. 3 -> T]
      BY <2>2
    <2> HIDE DEF held, T
    <2>4. held \in Seq(T)
      BY <2>3, SeqDef
    <2> QED
      BY <2>4 DEF T
  <1>2. ToSet(held) = {node.html[TableKeys[k]] : k \in 1 .. 3}
    BY DEF ToSet
  <1>3. TablesOf(node) = Only(held, ToSet(held) \ {NoTable})
    BY Zenon DEF TablesOf, Without
  <1> HIDE DEF held
  <1>4. /\ Only(held, ToSet(held) \ {NoTable}) \in Seq(Seq(Tokens))
        /\ ToSet(Only(held, ToSet(held) \ {NoTable})) = ToSet(held) \cap (ToSet(held) \ {NoTable})
    BY <1>1, OnlyIsSeq, SetOfOnly
  <1>5. ToSet(held) \cap (ToSet(held) \ {NoTable}) = HeldBy(node)
    BY <1>2 DEF HeldBy
  <1> QED
    BY <1>3, <1>4, <1>5

\* What is found from a node on is what it has and what is found from its children.
LEMMA FoundFromNode ==
    ASSUME NEW result \in Seq(Nodes), NEW g, FoundIn(result, Seq(Tokens), g), Tree(result),
           NEW n \in DOMAIN result, NEW table
    PROVE  table \in ToSet(g[n]) <=>
             \/ table \in HeldBy(result[n])
             \/ \E k \in DOMAIN result[n].kids : table \in ToSet(g[result[n].kids[k]])
  <1> DEFINE T == Seq(Tokens)
             kids == result[n].kids
             seqs == [k \in DOMAIN kids |-> g[kids[k]]]
             own == TablesOf(result[n])
             below == FlattenSeq(seqs)
  <1>1. result[n] \in Nodes
    BY LenProperties, ElementOfSeq
  <1>2. ToSet(own) = HeldBy(result[n])
    BY <1>1, SetOfTables
  <1> HIDE DEF T
  <1>3. /\ \A i \in DOMAIN result : g[i] \in Seq(T) /\ TablesOf(result[i]) \in Seq(T)
        /\ g[n] = own \o Below(result, n, g)
    BY Zenon DEF FoundIn, T
  <1>4. Below(result, n, g) = below
    BY Zenon DEF Below, SearchedBelow
  <1>5. kids \in Seq(Nat)
    BY <1>1, Zenon DEF Nodes
  <1>6. \A k \in DOMAIN kids : kids[k] \in DOMAIN result
    <2>1. DOMAIN result = 1 .. Len(result) /\ Len(result) \in Nat
      BY LenProperties
    <2>2. \A k \in DOMAIN kids : kids[k] \in n + 1 .. Len(result)
      BY DEF Tree
    <2> HIDE DEF kids
    <2> QED
      BY <2>1, <2>2
  <1> HIDE DEF kids
  <1>7. seqs \in Seq(Seq(T))
    <2>1. DOMAIN kids = 1 .. Len(kids) /\ Len(kids) \in Nat
      BY <1>5, LenProperties
    <2>2. seqs \in [1 .. Len(kids) -> Seq(T)]
      BY <1>3, <1>6, <2>1
    <2> HIDE DEF seqs
    <2> QED
      BY <2>1, <2>2, SeqDef
  <1>8. DOMAIN seqs = DOMAIN kids /\ \A k \in DOMAIN kids : seqs[k] = g[kids[k]]
    OBVIOUS
  <1> HIDE DEF seqs
  <1>9. below \in Seq(T)
    BY <1>7, FlattenType
  <1>10. table \in ToSet(below) <=> \E k \in DOMAIN seqs : table \in ToSet(seqs[k])
    BY <1>7, SetOfFlatten
  <1> HIDE DEF below
  <1>11. own \in Seq(T)
    BY <1>3
  <1> HIDE DEF own
  <1>12. ToSet(own \o below) = ToSet(own) \cup ToSet(below)
    BY <1>9, <1>11, SetOfConcat
  <1>13. ToSet(g[n]) = ToSet(own) \cup ToSet(below)
    BY <1>3, <1>4, <1>12, Zenon
  <1>14. table \in ToSet(g[n]) <=> table \in ToSet(own) \/ table \in ToSet(below)
    BY <1>13
  <1> QED
    BY <1>2, <1>8, <1>10, <1>14, Zenon DEF kids

\* Whatever the recognition nests a table in and whichever of the keys it is under,
\* _find_table_html finds it, and it finds nothing else.
THEOREM TablesAreFound ==
    ASSUME NEW result \in Seq(Nodes), Tree(result)
    PROVE  ToSet(find_table_html(result)) = AllTables(result) \ {NoTable}
  <1> DEFINE N == Len(result)
             held == UNION {HeldBy(result[n]) : n \in DOMAIN result}
  <1>1. N \in Nat /\ DOMAIN result = 1 .. N /\ 1 \in 1 .. N
    BY LenProperties, EmptySeq DEF Tree
  <1>2. PICK g : FoundIn(result, Seq(Tokens), g)
    <2>1. ASSUME NEW n \in DOMAIN result, NEW k \in 1 .. 3
          PROVE  result[n].html[TableKeys[k]] \in Seq(Tokens)
      <3>1. result[n] \in Nodes
        BY LenProperties, ElementOfSeq
      <3>2. result[n].html \in [{TableKeys[i] : i \in 1 .. 3} -> Seq(Tokens)]
        BY <3>1, Zenon DEF Nodes
      <3> QED
        BY <3>2
    <2> QED
      BY <2>1, FoundParts
  <1>3. find_table_html(result) = g[1]
    BY <1>2, Zenon DEF FoundIn
  <1>4. \A n \in 1 .. N : \A table : table \in ToSet(g[n]) <=>
          \/ table \in HeldBy(result[n])
          \/ \E k \in DOMAIN result[n].kids : table \in ToSet(g[result[n].kids[k]])
    BY <1>1, <1>2, FoundFromNode
  <1>5. \A n \in 1 .. N : \A k \in DOMAIN result[n].kids : result[n].kids[k] \in n + 1 .. N
    BY <1>1 DEF Tree
  <1>6. \A n \in 2 .. N : \E p \in 1 .. N : \E k \in DOMAIN result[p].kids : result[p].kids[k] = n
    <2>1. \A n \in 2 .. N : \E p \in 1 .. N : n \in ToSet(result[p].kids)
      BY <1>1, Zenon DEF Tree
    <2>2. ASSUME NEW n \in 2 .. N
          PROVE  \E p \in 1 .. N : \E k \in DOMAIN result[p].kids : result[p].kids[k] = n
      <3>1. PICK p \in 1 .. N : n \in ToSet(result[p].kids)
        BY <2>1
      <3>2. \E k \in DOMAIN result[p].kids : result[p].kids[k] = n
        BY <3>1, HasElement
      <3> QED
        BY <3>2
    <2> QED
      BY <2>2
  <1>7. ASSUME NEW table, table \in ToSet(g[1])
        PROVE  table \in held
    <2> DEFINE Bad == {d \in 0 .. N : \E n \in 1 .. N : /\ N - n = d /\ table \in ToSet(g[n])
                                                       /\ table \notin held}
    <2>1. ASSUME Bad # {}
          PROVE  FALSE
      <3>1. Bad \in SUBSET Nat
        OBVIOUS
      <3>2. PICK d \in Bad : \A c \in Bad : d <= c
        <4> HIDE DEF Bad
        <4> QED
          BY <2>1, <3>1, SmallestNumber
      <3>3. PICK n \in 1 .. N : N - n = d /\ table \in ToSet(g[n]) /\ table \notin held
        BY <3>2
      <3>4. table \notin HeldBy(result[n])
        BY <1>1, <3>3
      <3>5. PICK k \in DOMAIN result[n].kids : table \in ToSet(g[result[n].kids[k]])
        BY <1>4, <3>3, <3>4
      <3> DEFINE kid == result[n].kids[k]
      <3>6. kid \in n + 1 .. N
        BY <1>5, <3>5
      <3>7. table \in ToSet(g[kid])
        BY <3>5
      <3> HIDE DEF kid
      <3>8. kid \in 1 .. N /\ N - kid \in 0 .. N /\ N - kid < d
        <4>1. n \in 1 .. N /\ N - n = d
          BY <3>3
        <4> HIDE DEF N, held, Bad
        <4> QED
          BY <1>1, <3>6, <4>1
      <3>9. N - kid \in Bad
        BY <3>3, <3>7, <3>8
      <3> HIDE DEF Bad
      <3>10. d <= N - kid /\ d \in Nat
        BY <3>1, <3>2, <3>9
      <3> QED
        BY <1>1, <3>6, <3>8, <3>10
    <2>2. N - 1 \in 0 .. N
      BY <1>1
    <2> QED
      BY <1>1, <1>7, <2>1, <2>2
  <1>8. ASSUME NEW table, table \in held
        PROVE  table \in ToSet(g[1])
    <2> DEFINE Bad == {n \in 1 .. N : table \in ToSet(g[n]) /\ table \notin ToSet(g[1])}
    <2>1. ASSUME Bad # {}
          PROVE  FALSE
      <3>1. Bad \in SUBSET Nat
        BY <1>1
      <3>2. PICK n \in Bad : \A c \in Bad : n <= c
        <4> HIDE DEF Bad
        <4> QED
          BY <2>1, <3>1, SmallestNumber
      <3>3. n \in 2 .. N
        BY <1>1, <3>2
      <3>4. PICK p \in 1 .. N : \E k \in DOMAIN result[p].kids : result[p].kids[k] = n
        BY <1>6, <3>3
      <3>5. PICK k \in DOMAIN result[p].kids : result[p].kids[k] = n
        BY <3>4
      <3>6. n \in p + 1 .. N
        BY <1>5, <3>5
      <3>7. table \in ToSet(g[p])
        BY <1>4, <3>2, <3>5
      <3>8. p \in Bad
        BY <3>2, <3>7
      <3> QED
        BY <1>1, <3>2, <3>6, <3>8
    <2>2. PICK n \in 1 .. N : table \in HeldBy(result[n])
      BY <1>1, <1>8
    <2>3. table \in ToSet(g[n])
      BY <1>4, <2>2
    <2> QED
      BY <2>1, <2>3
  <1>9. held = AllTables(result) \ {NoTable}
    <2>1. \A table : table \in held <=> table \in AllTables(result) /\ table # NoTable
      BY AllTablesAre DEF HeldBy
    <2> HIDE DEF held
    <2> QED
      BY <2>1
  <1>10. ToSet(g[1]) = held
    <2> HIDE DEF held
    <2> QED
      BY <1>7, <1>8
  <1> QED
    BY <1>3, <1>9, <1>10
=============================================================================
