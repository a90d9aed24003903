------------------------- MODULE BalanceSheetProofs -------------------------
(***************************************************************************)
(* What holds of the data and of the flags of a balance sheet, for every   *)
(* document, catalogue and rule set: the rules judge what is reported, an  *)
(* amount has the digits of its cell, a row is a row of the source, an     *)
(* item is filed under the code or the name of its row, every printed row  *)
(* becomes an item with its amounts, a sheet that is read right is flagged *)
(* only where its amounts differ, and one amount that is read wrong is.    *)
(*                                                                         *)
(* The comparison of two sums rests on their being sums whatever the order *)
(* in which MapThenSumSet, by a CHOOSE, takes the elements.  Induction over*)
(* the finite sets is the choice of a smallest counterexample: the set of  *)
(* the subsets where a claim fails has an element without a strict subset  *)
(* in it.                                                                  *)
(***************************************************************************)
EXTENDS BalanceSheet, ParserProofs, FiniteSetTheorems

\* The two accumulators of extract_bctc: a sequence of items, and the values of the
\* last item of each code.
Accumulated == (\E Items : chi_tieu \in Seq(Items)) /\ JudgedAsReported

-----------------------------------------------------------------------------

\* Nothing is accumulated at the start.
LEMMA AccumulatedInit == Init => Accumulated
<1> SUFFICES ASSUME Init PROVE Accumulated
  OBVIOUS
<1>1. chi_tieu \in Seq({})
  BY EmptySeq DEF Init
<1>2. DOMAIN values = {} /\ DOMAIN chi_tieu = {}
  BY DEF Init
<1> QED
  BY <1>1, <1>2 DEF Accumulated, JudgedAsReported

\* Recording an amount and appending its item keeps the accumulators together.
LEMMA AccumulatedAppend ==
    ASSUME Accumulated, NEW item, Record(item.ma_so, item.so_cuoi_ky),
           chi_tieu' = Append(chi_tieu, item)
    PROVE  Accumulated'
<1> DEFINE n == Len(chi_tieu) + 1
<1>1. PICK Items : chi_tieu \in Seq(Items)
  BY DEF Accumulated
<1>2. chi_tieu \in Seq(Items \cup {item})
  BY <1>1, SeqMonotonic
<1>3. chi_tieu' \in Seq(Items \cup {item})
  BY <1>2, AppendProperties
<1>4. /\ n \in Nat /\ DOMAIN chi_tieu = 1 .. n - 1 /\ DOMAIN chi_tieu' = 1 .. n
      /\ chi_tieu'[n] = item
      /\ \A i \in 1 .. n - 1 : chi_tieu'[i] = chi_tieu[i]
  BY <1>2, AppendProperties, LenProperties
<1>5. /\ DOMAIN values' = DOMAIN values \cup {item.ma_so}
      /\ \A c \in DOMAIN values' :
            values'[c] = IF c = item.ma_so THEN item.so_cuoi_ky ELSE values[c]
  BY DEF Record
<1>6. ASSUME NEW i \in DOMAIN chi_tieu'
      PROVE  chi_tieu'[i].ma_so \in DOMAIN values'
  BY <1>4, <1>5 DEF Accumulated, JudgedAsReported
<1>7. ASSUME NEW c \in DOMAIN values'
      PROVE  \E i \in DOMAIN chi_tieu' :
               /\ chi_tieu'[i].ma_so = c /\ chi_tieu'[i].so_cuoi_ky = values'[c]
               /\ \A k \in DOMAIN chi_tieu' : k > i => chi_tieu'[k].ma_so # c
  <2>1. CASE c = item.ma_so
    <3>1. n \in DOMAIN chi_tieu' /\ \A k \in DOMAIN chi_tieu' : ~(k > n)
      BY <1>4
    <3> QED
      BY <2>1, <3>1, <1>4, <1>5
  <2>2. CASE c # item.ma_so
    <3>1. PICK i \in DOMAIN chi_tieu :
            /\ chi_tieu[i].ma_so = c /\ chi_tieu[i].so_cuoi_ky = values[c]
            /\ \A k \in DOMAIN chi_tieu : k > i => chi_tieu[k].ma_so # c
      BY <2>2, <1>5 DEF Accumulated, JudgedAsReported
    <3>2. i \in DOMAIN chi_tieu' /\ chi_tieu'[i] = chi_tieu[i] /\ values'[c] = values[c]
      BY <2>2, <3>1, <1>4, <1>5
    <3>3. ASSUME NEW k \in DOMAIN chi_tieu', k > i
          PROVE  chi_tieu'[k].ma_so # c
      BY <2>2, <3>1, <3>3, <1>4
    <3> QED
      BY <3>1, <3>2, <3>3
  <2> QED
    BY <2>1, <2>2
<1> QED
  BY <1>3, <1>6, <1>7 DEF Accumulated, JudgedAsReported

\* A step keeps the two accumulators in agreement.
LEMMA AccumulatedStep == Accumulated /\ [Next]_vars => Accumulated'
<1> SUFFICES ASSUME Accumulated, [Next]_vars PROVE Accumulated'
  OBVIOUS
<1>1. CASE UNCHANGED <<values, chi_tieu>>
  BY <1>1 DEF Accumulated, JudgedAsReported
<1>2. CASE ReadRow
  <2> DEFINE cells   == Head(rows)
             numbers == extract_numbers(cells)
             item    == [ma_so |-> match_ma_so(cells), so_cuoi_ky |-> numbers[1],
                         so_dau_ky |-> SubSeq(numbers, 2, Min({2, Len(numbers)})),
                         cell |-> NumberCells(cells)[1]]
  <2>1. CASE ~UNCHANGED <<values, chi_tieu>>
    <3>1. Record(item.ma_so, item.so_cuoi_ky) /\ chi_tieu' = Append(chi_tieu, item)
      BY <1>2, <2>1 DEF ReadRow
    <3> HIDE DEF item
    <3> QED
      BY <3>1, AccumulatedAppend
  <2> QED
    BY <1>1, <2>1
<1>3. CASE DetectTables \/ ParseTable \/ load_rules \/ Evaluate \/ Returned \/ UNCHANGED vars
  BY <1>1, <1>3 DEF DetectTables, ParseTable, load_rules, Evaluate, Returned,
    vars, readVars, resultVars
<1> QED
  BY <1>2, <1>3 DEF Next

\* The rules judge the values of the items that are returned.
THEOREM JudgedIsReported == Spec => []JudgedAsReported
<1>1. Init => Accumulated
  BY AccumulatedInit
<1>2. Accumulated /\ [Next]_vars => Accumulated'
  BY AccumulatedStep
<1>3. Accumulated => JudgedAsReported
  BY DEF Accumulated
<1> QED
  BY <1>1, <1>2, <1>3, PTL DEF Spec

-----------------------------------------------------------------------------
(* The data                                                                *)

SourceTables == {table \in Seq(Tokens) : FollowsTheSource(table)}
SourceRows   == {cells \in Seq(Pieces) : InOneRow(cells)}
ReadAmounts  == UNION {parse_vn_number(text) : text \in Seq(STRING)}

ReadItem(item) == item.cell \in Pieces /\ item.so_cuoi_ky \in parse_vn_number(item.cell.text)

\* What is read is read from the source.
SheetRead ==
    /\ doc \in Documents /\ page \in 0 .. Len(doc.pages)
    /\ tables \in Seq(SourceTables) /\ rows \in Seq(SourceRows)
    /\ (\E Items : chi_tieu \in Seq(Items)) /\ \A i \in DOMAIN chi_tieu : ReadItem(chi_tieu[i])
    /\ \A c \in DOMAIN values : values[c] \in ReadAmounts

\* The tables found in a page are sequences of tokens that follow the source.
LEMMA PagesAreTyped ==
    ASSUME NEW d \in Documents
    PROVE  /\ d.pages \in Seq(Seq(Nodes)) /\ Len(d.pages) \in Nat
           /\ \A p \in 1 .. Len(d.pages) : find_table_html(d.pages[p]) \in Seq(SourceTables)
  <1>1. d.pages \in Seq(Seq(Nodes)) /\ Len(d.pages) \in Nat /\ DOMAIN d.pages = 1 .. Len(d.pages)
    BY DocumentsAssumption, LenProperties
  <1>2. ASSUME NEW p \in 1 .. Len(d.pages)
        PROVE  find_table_html(d.pages[p]) \in Seq(SourceTables)
    <2> DEFINE result == d.pages[p]
    <2>1. result \in Seq(Nodes)
      BY <1>1, ElementOfSeq
    <2>2. /\ Tree(result)
          /\ \A n \in DOMAIN result : \A k \in 1 .. 3 : FollowsTheSource(result[n].html[TableKeys[k]])
      BY <1>1, DocumentsAssumption
    <2> HIDE DEF result
    <2>3. ASSUME NEW n \in DOMAIN result, NEW k \in 1 .. 3
          PROVE  result[n].html[TableKeys[k]] \in SourceTables
      <3>1. result[n] \in Nodes
        BY <2>1, LenProperties, ElementOfSeq
      <3>2. result[n].html \in [{TableKeys[i] : i \in 1 .. 3} -> Seq(Tokens)]
        BY <3>1, Zenon DEF Nodes
      <3>3. result[n].html[TableKeys[k]] \in Seq(Tokens)
        BY <3>2
      <3> QED
        BY <2>2, <3>3 DEF SourceTables
    <2> QED
      BY <2>1, <2>2, <2>3, FoundTables DEF result
  <1> QED
    BY <1>1, <1>2

\* A table that follows the source is parsed into rows of the source.
LEMMA ParsedSourceRows ==
    ASSUME NEW table \in SourceTables
    PROVE  parse_html_rows(table) \in Seq(SourceRows)
  <1> DEFINE parsed == parse_html_rows(table)
  <1>1. parsed \in Seq(Seq(Pieces)) /\ \A k \in DOMAIN parsed : InOneRow(parsed[k])
    BY RowsOfTable DEF SourceTables
  <1> HIDE DEF parsed
  <1>2. \A k \in 1 .. Len(parsed) : parsed[k] \in SourceRows
    BY <1>1, LenProperties, ElementOfSeq DEF SourceRows
  <1>3. parsed \in Seq(SourceRows)
    BY <1>1, <1>2, TypedSeq
  <1> QED
    BY <1>3 DEF parsed

\* The first number of a row is the amount of its first cell with one.
LEMMA ReadCell ==
    ASSUME NEW cells \in Seq(Pieces), extract_numbers(cells) # <<>>
    PROVE  /\ NumberCells(cells)[1] \in Pieces
           /\ extract_numbers(cells)[1] \in parse_vn_number(NumberCells(cells)[1].text)
  <1> DEFINE readable == {cells[i] : i \in {k \in DOMAIN cells : parse_vn_number(cells[k].text) # {}}}
             kept     == NumberCells(cells)
  <1>1. kept \in Seq(Pieces \cap readable)
    BY OnlyType DEF NumberCells
  <1>2. \A cell \in readable : parse_vn_number(cell.text) # {}
    OBVIOUS
  <1> HIDE DEF readable, kept
  <1>3. extract_numbers(cells) = [i \in DOMAIN kept |-> TheOnly(parse_vn_number(kept[i].text))]
    BY DEF extract_numbers, kept
  <1>4. kept # <<>>
    BY <1>3
  <1>5. 1 \in DOMAIN kept /\ kept[1] \in Pieces \cap readable
    BY <1>1, <1>4, EmptySeq, LenProperties, ElementOfSeq
  <1>6. extract_numbers(cells)[1] = TheOnly(parse_vn_number(kept[1].text))
    BY <1>3, <1>5
  <1>7. parse_vn_number(kept[1].text) # {}
    BY <1>2, <1>5
  <1>8. TheOnly(parse_vn_number(kept[1].text)) \in parse_vn_number(kept[1].text)
    BY <1>7, Zenon DEF TheOnly
  <1> QED
    BY <1>5, <1>6, <1>8 DEF kept

\* At the start nothing is read.
LEMMA SheetReadInit == Init => SheetRead
  <1> SUFFICES ASSUME Init PROVE SheetRead
    OBVIOUS
  <1>1. doc \in Documents /\ page = 0 /\ tables = <<>> /\ rows = <<>> /\ values = <<>> /\ chi_tieu = <<>>
    BY DEF Init
  <1>2. page \in 0 .. Len(doc.pages)
    BY <1>1, PagesAreTyped
  <1>3. tables \in Seq(SourceTables) /\ rows \in Seq(SourceRows) /\ chi_tieu \in Seq({})
    BY <1>1, EmptySeq
  <1>4. DOMAIN values = {} /\ DOMAIN chi_tieu = {}
    BY <1>1
  <1> QED
    BY <1>1, <1>2, <1>3, <1>4, Zenon DEF SheetRead

\* A row adds an amount that was read from a cell, or nothing.
LEMMA SheetReadRow ==
    ASSUME SheetRead, ReadRow
    PROVE  SheetRead'
  <1> DEFINE cells   == Head(rows)
             numbers == extract_numbers(cells)
             item    == [ma_so |-> match_ma_so(cells), so_cuoi_ky |-> numbers[1],
                         so_dau_ky |-> SubSeq(numbers, 2, Min({2, Len(numbers)})),
                         cell |-> NumberCells(cells)[1]]
  <1>1. rows # <<>> /\ rows' = Tail(rows) /\ UNCHANGED <<doc, page, tables>>
    BY DEF ReadRow
  <1>2. cells \in SourceRows /\ rows' \in Seq(SourceRows)
    BY <1>1, HeadTailProperties DEF SheetRead
  <1>3. CASE UNCHANGED <<values, chi_tieu>>
    BY <1>1, <1>2, <1>3 DEF SheetRead
  <1>4. CASE ~UNCHANGED <<values, chi_tieu>>
    <2>1. numbers # <<>> /\ Record(item.ma_so, item.so_cuoi_ky) /\ chi_tieu' = Append(chi_tieu, item)
      BY <1>4 DEF ReadRow
    <2>2. NumberCells(cells)[1] \in Pieces
          /\ numbers[1] \in parse_vn_number(NumberCells(cells)[1].text)
      <3> HIDE DEF cells
      <3> QED
        BY <1>2, <2>1, ReadCell DEF SourceRows
    <2>3. ReadItem(item) /\ item.so_cuoi_ky = numbers[1]
      BY <2>2 DEF ReadItem
    <2>4. numbers[1] \in ReadAmounts
      BY <2>2 DEF ReadAmounts, Pieces
    <2> HIDE DEF item, numbers
    <2>5. \A c \in DOMAIN values' : values'[c] \in ReadAmounts
      BY <2>1, <2>3, <2>4 DEF SheetRead, Record
    <2>6. PICK Items : chi_tieu \in Seq(Items)
      BY DEF SheetRead
    <2>7. chi_tieu \in Seq(Items \cup {item})
      BY <2>6, SeqMonotonic
    <2>8. /\ chi_tieu' \in Seq(Items \cup {item})
          /\ DOMAIN chi_tieu = 1 .. Len(chi_tieu) /\ DOMAIN chi_tieu' = 1 .. Len(chi_tieu) + 1
          /\ Len(chi_tieu) \in Nat /\ chi_tieu'[Len(chi_tieu) + 1] = item
          /\ \A i \in 1 .. Len(chi_tieu) : chi_tieu'[i] = chi_tieu[i]
      BY <2>1, <2>7, AppendProperties, LenProperties
    <2>9. ASSUME NEW i \in DOMAIN chi_tieu'
          PROVE  ReadItem(chi_tieu'[i])
      <3>1. CASE i \in DOMAIN chi_tieu
        BY <2>8, <3>1 DEF SheetRead
      <3>2. CASE i = Len(chi_tieu) + 1
        BY <2>3, <2>8, <3>2
      <3> QED
        BY <2>8, <3>1, <3>2
    <2> QED
      BY <1>1, <1>2, <2>5, <2>8, <2>9, Zenon DEF SheetRead
  <1> QED
    BY <1>3, <1>4

\* The invariant is inductive.
LEMMA SheetReadStep == SheetRead /\ [Next]_vars => SheetRead'
  <1> SUFFICES ASSUME SheetRead, [Next]_vars PROVE SheetRead'
    OBVIOUS
  <1>1. CASE UNCHANGED <<doc, page, tables, rows, values, chi_tieu>>
    BY <1>1 DEF SheetRead
  <1>2. CASE DetectTables
    <2>1. /\ page < Len(doc.pages) /\ page' = page + 1
          /\ tables' = find_table_html(doc.pages[page + 1])
          /\ UNCHANGED <<doc, rows, values, chi_tieu>>
      BY <1>2 DEF DetectTables, resultVars
    <2>2. page \in 0 .. Len(doc.pages) /\ doc \in Documents
      BY DEF SheetRead
    <2>3. Len(doc.pages) \in Nat /\ \A p \in 1 .. Len(doc.pages) :
            find_table_html(doc.pages[p]) \in Seq(SourceTables)
      BY <2>2, PagesAreTyped
    <2>4. page + 1 \in 1 .. Len(doc.pages) /\ page + 1 \in 0 .. Len(doc.pages)
      BY <2>1, <2>2, <2>3
    <2> QED
      BY <2>1, <2>3, <2>4 DEF SheetRead
  <1>3. CASE ParseTable
    <2>1. /\ tables # <<>> /\ tables' = Tail(tables) /\ rows' = parse_html_rows(Head(tables))
          /\ UNCHANGED <<doc, page, values, chi_tieu>>
      BY <1>3 DEF ParseTable, resultVars
    <2>2. Head(tables) \in SourceTables /\ tables' \in Seq(SourceTables)
      BY <2>1, HeadTailProperties DEF SheetRead
    <2>3. rows' \in Seq(SourceRows)
      BY <2>1, <2>2, ParsedSourceRows
    <2> QED
      BY <2>1, <2>2, <2>3 DEF SheetRead
  <1>4. CASE ReadRow
    BY <1>4, SheetReadRow
  <1>5. CASE load_rules \/ Evaluate \/ Returned \/ UNCHANGED vars
    BY <1>1, <1>5 DEF load_rules, Evaluate, Returned, vars, readVars, resultVars
  <1> QED
    BY <1>2, <1>3, <1>4, <1>5 DEF Next

\* At every moment what was read comes from the tables of the document (extract_bctc).
THEOREM SheetReadAlways == Spec => []SheetRead
  <1> QED
    BY SheetReadInit, SheetReadStep, PTL DEF Spec

\* "A wrong digit is the most serious error": an amount that is reported has the digits
\* of the cell it was read from, all and in order, and its sign (parse_vn_number), for
\* texts of every length and of any characters.
THEOREM DigitsAreKept == Spec => []AmountKeepsItsDigits
  <1>1. ASSUME SheetRead
        PROVE  AmountKeepsItsDigits
    <2> SUFFICES ASSUME NEW i \in DOMAIN chi_tieu
                 PROVE  LET amount == chi_tieu[i].so_cuoi_ky
                            text   == chi_tieu[i].cell.text
                        IN  /\ amount.parts.whole \o amount.parts.fraction = Only(text, Digit)
                            /\ amount.negative <=> \E k \in DOMAIN text : text[k] \in {"-", "("}
      BY Zenon DEF AmountKeepsItsDigits
    <2>1. /\ chi_tieu[i].cell.text \in Seq(STRING)
          /\ chi_tieu[i].so_cuoi_ky \in parse_vn_number(chi_tieu[i].cell.text)
      BY <1>1 DEF SheetRead, ReadItem, Pieces
    <2> QED
      BY <2>1, AmountOfText, Zenon
  <1> QED
    BY <1>1, SheetReadAlways, PTL

\* Whichever end tags the recognition leaves out, the rows that are read are rows of
\* the source (_TableRowParser), for tables of every size.
THEOREM RowsAreSourceRows == Spec => []CellsStayInTheirRow
  <1>1. ASSUME SheetRead
        PROVE  CellsStayInTheirRow
    <2>1. \A n \in DOMAIN rows : rows[n] \in SourceRows
      BY <1>1, LenProperties, ElementOfSeq DEF SheetRead
    <2> QED
      BY <2>1 DEF CellsStayInTheirRow, SourceRows
  <1> QED
    BY <1>1, SheetReadAlways, PTL

-----------------------------------------------------------------------------
(* Sums                                                                    *)

First(s) == CHOOSE x \in s : TRUE

\* g has the sum of every subset of S.
Sums(f, S, g) ==
    g = [s \in SUBSET S |-> IF s = {} THEN 0 ELSE f[First(s)] + g[s \ {First(s)}]]

\* The sum as the value of a function over the subsets.
LEMMA SumUnfolded ==
    ASSUME NEW f, NEW S
    PROVE  Sum(f, S) = (CHOOSE g : Sums(f, S, g))[S]
  BY DEF Sum, MapThenSumSet, MapThenFoldSet, Sums, First

\* The element that is taken first is one.
LEMMA FirstIsElement ==
    ASSUME NEW s, s # {}
    PROVE  First(s) \in s
  BY DEF First

\* A set of subsets of a finite set has a smallest one.
LEMMA SmallestSubset ==
    ASSUME NEW S, IsFiniteSet(S), NEW Bad \in SUBSET (SUBSET S), Bad # {}
    PROVE  \E U \in Bad : \A V \in Bad : V \subseteq U => V = U
  <1>1. IsWellFoundedOn(StrictSubsetOrdering(S), SUBSET S)
    BY FS_StrictSubsetOrderingWellFounded, FS_FiniteSubsetsOfFinite
  <1>2. PICK U \in Bad : \A V \in Bad : ~(<<V, U>> \in StrictSubsetOrdering(S))
    BY <1>1, WFMin
  <1>3. ASSUME NEW V \in Bad, V \subseteq U, V # U
        PROVE  FALSE
    BY <1>2, <1>3 DEF StrictSubsetOrdering
  <1> QED
    BY <1>2, <1>3

\* Two such functions agree wherever both are defined.
LEMMA SumsAgree ==
    ASSUME NEW f, NEW S, NEW T, NEW g, NEW h, Sums(f, S, g), Sums(f, T, h),
           NEW W \in SUBSET S, W \subseteq T, IsFiniteSet(W)
    PROVE  g[W] = h[W]
  <1> DEFINE Bad == {s \in SUBSET W : g[s] # h[s]}
  <1>1. ASSUME Bad # {}
        PROVE  FALSE
    <2>1. PICK U \in Bad : \A V \in Bad : V \subseteq U => V = U
      <3>1. Bad \in SUBSET (SUBSET W)
        OBVIOUS
      <3> HIDE DEF Bad
      <3> QED
        BY <1>1, <3>1, SmallestSubset
    <2>2. /\ g[U] = IF U = {} THEN 0 ELSE f[First(U)] + g[U \ {First(U)}]
          /\ h[U] = IF U = {} THEN 0 ELSE f[First(U)] + h[U \ {First(U)}]
      BY DEF Sums
    <2>3. U # {}
      BY <2>2
    <2>4. U \ {First(U)} \in SUBSET W /\ U \ {First(U)} # U
      BY <2>3, FirstIsElement
    <2>5. g[U \ {First(U)}] = h[U \ {First(U)}]
      BY <2>1, <2>4
    <2> QED
      BY <2>2, <2>5
  <1> QED
    BY <1>1

\* The sums of the subsets of a finite set exist.
LEMMA SumsExist ==
    ASSUME NEW f, NEW S, IsFiniteSet(S)
    PROVE  \E g : Sums(f, S, g)
  <1> DEFINE Bad == {s \in SUBSET S : ~\E g : Sums(f, s, g)}
  <1>1. ASSUME Bad # {}
        PROVE  FALSE
    <2>1. PICK U \in Bad : \A V \in Bad : V \subseteq U => V = U
      <3>1. Bad \in SUBSET (SUBSET S)
        OBVIOUS
      <3> HIDE DEF Bad
      <3> QED
        BY <1>1, <3>1, SmallestSubset
    <2> DEFINE rest(s) == s \ {First(s)}
               part(s) == CHOOSE g : Sums(f, s, g)
               all     == [s \in SUBSET U |->
                             IF s = {} THEN 0 ELSE f[First(s)] + part(rest(s))[rest(s)]]
    <2>2. ASSUME NEW s \in SUBSET U, s # U
          PROVE  Sums(f, s, part(s))
      BY <2>1, <2>2
    <2>3. ASSUME NEW s \in SUBSET U, s # {}
          PROVE  rest(s) \in SUBSET U /\ rest(s) # U /\ rest(s) \subseteq s
      BY <2>3, FirstIsElement
    <2>4. ASSUME NEW s \in SUBSET U, s # U
          PROVE  all[s] = part(s)[s]
      <3>1. part(s)[s] = IF s = {} THEN 0 ELSE f[First(s)] + part(s)[rest(s)]
        <4> HIDE DEF part
        <4> QED
          BY <2>2, <2>4 DEF Sums
      <3>2. CASE s = {}
        BY <3>1, <3>2
      <3>3. CASE s # {}
        <4>1. rest(s) \in SUBSET U /\ rest(s) # U /\ rest(s) \subseteq s
          BY <2>3, <3>3
        <4>2. IsFiniteSet(rest(s))
          BY <4>1, FS_Subset
        <4>3. Sums(f, s, part(s)) /\ Sums(f, rest(s), part(rest(s)))
          BY <2>2, <2>4, <4>1
        <4>4. part(s)[rest(s)] = part(rest(s))[rest(s)]
          <5> HIDE DEF part, rest
          <5> QED
            BY <4>1, <4>2, <4>3, SumsAgree
        <4> QED
          BY <3>1, <3>3, <4>4
      <3> QED
        BY <3>2, <3>3
    <2>5. ASSUME NEW s \in SUBSET U
          PROVE  all[s] = IF s = {} THEN 0 ELSE f[First(s)] + all[rest(s)]
      <3>1. CASE s = {}
        BY <3>1
      <3>2. CASE s # {}
        <4>1. all[rest(s)] = part(rest(s))[rest(s)]
          BY <2>3, <2>4, <3>2
        <4> QED
          BY <3>2, <4>1
      <3> QED
        BY <3>1, <3>2
    <2>6. Sums(f, U, all)
      <3>1. all = [s \in SUBSET U |-> all[s]]
        OBVIOUS
      <3> HIDE DEF all
      <3> QED
        BY <2>5, <3>1 DEF Sums
    <2> QED
      BY <2>6
  <1> QED
    BY <1>1

-----------------------------------------------------------------------------
(* The sum                                                                 *)

\* The sum over no codes.
LEMMA SumEmpty ==
    ASSUME NEW f
    PROVE  Sum(f, {}) = 0
  <1>1. IsFiniteSet({})
    BY FS_EmptySet
  <1>2. PICK g : Sums(f, {}, g)
    BY <1>1, SumsExist
  <1>3. Sums(f, {}, CHOOSE h : Sums(f, {}, h))
    BY <1>2
  <1> QED
    BY <1>3, SumUnfolded DEF Sums

\* The sum is that of the element taken first and the rest.
LEMMA SumFirst ==
    ASSUME NEW f, NEW S, IsFiniteSet(S), S # {}
    PROVE  Sum(f, S) = f[First(S)] + Sum(f, S \ {First(S)})
  <1> DEFINE R    == S \ {First(S)}
             g(s) == CHOOSE h : Sums(f, s, h)
  <1>1. IsFiniteSet(R) /\ R \subseteq S
    BY FS_Subset
  <1>2. Sums(f, S, g(S)) /\ Sums(f, R, g(R))
    <2>1. (\E h : Sums(f, S, h)) /\ (\E h : Sums(f, R, h))
      BY <1>1, SumsExist
    <2> QED
      BY <2>1
  <1>3. g(S)[R] = g(R)[R]
    <2> HIDE DEF g, R
    <2> QED
      BY <1>1, <1>2, SumsAgree
  <1>4. g(S)[S] = f[First(S)] + g(S)[R]
    <2> HIDE DEF g
    <2> QED
      BY <1>2 DEF Sums
  <1> QED
    BY <1>3, <1>4, SumUnfolded

\* The sum of integers is an integer.
LEMMA SumType ==
    ASSUME NEW S, IsFiniteSet(S), NEW f, \A c \in S : f[c] \in Int
    PROVE  Sum(f, S) \in Int
  <1> DEFINE Bad == {s \in SUBSET S : Sum(f, s) \notin Int}
  <1>1. ASSUME Bad # {}
        PROVE  FALSE
    <2>1. Bad \in SUBSET (SUBSET S)
      OBVIOUS
    <2>2. PICK U \in Bad : \A V \in Bad : V \subseteq U => V = U
      <3> HIDE DEF Bad
      <3> QED
        BY <1>1, <2>1, SmallestSubset
    <2>3. U # {}
      BY SumEmpty
    <2>4. IsFiniteSet(U) /\ First(U) \in U
      BY <2>3, FS_Subset, FirstIsElement
    <2>5. Sum(f, U \ {First(U)}) \in Int
      BY <2>2, <2>4
    <2> QED
      BY <2>3, <2>4, <2>5, SumFirst
  <1> QED
    BY <1>1

\* The sum of natural numbers is one.
LEMMA SumNatural ==
    ASSUME NEW S, IsFiniteSet(S), NEW f, \A c \in S : f[c] \in Nat
    PROVE  Sum(f, S) \in Nat
  <1> DEFINE Bad == {s \in SUBSET S : Sum(f, s) \notin Nat}
  <1>1. ASSUME Bad # {}
        PROVE  FALSE
    <2>1. Bad \in SUBSET (SUBSET S)
      OBVIOUS
    <2>2. PICK U \in Bad : \A V \in Bad : V \subseteq U => V = U
      <3> HIDE DEF Bad
      <3> QED
        BY <1>1, <2>1, SmallestSubset
    <2>3. U # {}
      BY SumEmpty
    <2>4. IsFiniteSet(U) /\ First(U) \in U
      BY <2>3, FS_Subset, FirstIsElement
    <2>5. Sum(f, U \ {First(U)}) \in Nat
      BY <2>2, <2>4
    <2>6. f[First(U)] \in Nat /\ Sum(f, U) = f[First(U)] + Sum(f, U \ {First(U)})
      <3>1. \A c \in U : f[c] \in Int
        OBVIOUS
      <3> QED
        BY <2>3, <2>4, <3>1, SumFirst
    <2>7. Sum(f, U) \in Nat
      BY <2>5, <2>6
    <2> QED
      BY <2>7
  <1> QED
    BY <1>1

\* Whichever element is taken out, the sum is the element and the rest.
LEMMA SumTakeOut ==
    ASSUME NEW S, IsFiniteSet(S), NEW f, \A c \in S : f[c] \in Int, NEW x \in S
    PROVE  Sum(f, S) = f[x] + Sum(f, S \ {x})
  <1> DEFINE Good(s) == \A c \in s : Sum(f, s) = f[c] + Sum(f, s \ {c})
             Bad     == {s \in SUBSET S : ~Good(s)}
  <1>1. ASSUME Bad # {}
        PROVE  FALSE
    <2>1. Bad \in SUBSET (SUBSET S)
      OBVIOUS
    <2>2. PICK U \in Bad : \A V \in Bad : V \subseteq U => V = U
      <3> HIDE DEF Bad
      <3> QED
        BY <1>1, <2>1, SmallestSubset
    <2>3. PICK z \in U : Sum(f, U) # f[z] + Sum(f, U \ {z})
      OBVIOUS
    <2> DEFINE y == First(U)
               V == (U \ {y}) \ {z}
    <2>4. IsFiniteSet(U) /\ U \subseteq S /\ y \in U
      BY <2>3, FS_Subset, FirstIsElement
    <2>5. Sum(f, U) = f[y] + Sum(f, U \ {y})
      BY <2>3, <2>4, SumFirst
    <2>6. y # z
      BY <2>3, <2>5
    <2>7. Good(U \ {y}) /\ Good(U \ {z})
      BY <2>2, <2>3, <2>4
    <2>8. Sum(f, U \ {y}) = f[z] + Sum(f, V)
      BY <2>3, <2>6, <2>7
    <2>9. Sum(f, U \ {z}) = f[y] + Sum(f, V)
      <3>1. (U \ {z}) \ {y} = V
        OBVIOUS
      <3> QED
        BY <2>4, <2>6, <2>7, <3>1
    <2>10. f[y] \in Int /\ f[z] \in Int /\ Sum(f, V) \in Int
      <3>1. IsFiniteSet(V) /\ V \subseteq S
        BY <2>4, FS_Subset
      <3> QED
        BY <2>3, <2>4, <3>1, SumType
    <2> HIDE DEF y, V
    <2> QED
      BY <2>3, <2>5, <2>8, <2>9, <2>10
  <1> QED
    BY <1>1

\* The sum depends on the numbers of the set only.
LEMMA SumCongruence ==
    ASSUME NEW S, IsFiniteSet(S), NEW f, NEW g, \A c \in S : f[c] = g[c]
    PROVE  Sum(f, S) = Sum(g, S)
  <1> DEFINE Bad == {s \in SUBSET S : Sum(f, s) # Sum(g, s)}
  <1>1. ASSUME Bad # {}
        PROVE  FALSE
    <2>1. Bad \in SUBSET (SUBSET S)
      OBVIOUS
    <2>2. PICK U \in Bad : \A V \in Bad : V \subseteq U => V = U
      <3> HIDE DEF Bad
      <3> QED
        BY <1>1, <2>1, SmallestSubset
    <2>3. U # {}
      BY SumEmpty
    <2>4. IsFiniteSet(U) /\ U \subseteq S /\ First(U) \in U
      BY <2>3, FS_Subset, FirstIsElement
    <2>5. Sum(f, U \ {First(U)}) = Sum(g, U \ {First(U)})
      BY <2>2, <2>4
    <2> QED
      BY <2>3, <2>4, <2>5, SumFirst
  <1> QED
    BY <1>1

\* One number that changes changes the sum by the same amount.
LEMMA SumChange ==
    ASSUME NEW S, IsFiniteSet(S), NEW f, NEW g, NEW x \in S,
           \A c \in S : f[c] \in Int /\ g[c] \in Int,
           \A c \in S \ {x} : f[c] = g[c]
    PROVE  Sum(g, S) - Sum(f, S) = g[x] - f[x]
  <1>1. IsFiniteSet(S \ {x})
    BY FS_Subset
  <1>2. Sum(f, S \ {x}) = Sum(g, S \ {x})
    BY <1>1, SumCongruence
  <1>3. Sum(f, S) = f[x] + Sum(f, S \ {x}) /\ Sum(g, S) = g[x] + Sum(g, S \ {x})
    BY SumTakeOut
  <1>4. Sum(f, S \ {x}) \in Int
    BY <1>1, SumType
  <1> QED
    BY <1>2, <1>3, <1>4

\* An element that is put in adds its number.
LEMMA SumPutIn ==
    ASSUME NEW S, IsFiniteSet(S), NEW f, \A c \in S : f[c] \in Int,
           NEW x, x \notin S, f[x] \in Int
    PROVE  Sum(f, S \cup {x}) = f[x] + Sum(f, S)
  <1> DEFINE U == S \cup {x}
  <1>1. IsFiniteSet(U)
    BY FS_AddElement
  <1>2. x \in U /\ U \ {x} = S /\ \A c \in U : f[c] \in Int
    OBVIOUS
  <1> HIDE DEF U
  <1>3. Sum(f, U) = f[x] + Sum(f, U \ {x})
    BY <1>1, <1>2, SumTakeOut
  <1> QED
    BY <1>2, <1>3 DEF U

\* The sum of a union without common elements is that of its parts.
LEMMA SumUnion ==
    ASSUME NEW S, NEW T, IsFiniteSet(S), IsFiniteSet(T), S \cap T = {},
           NEW f, \A c \in S \cup T : f[c] \in Int
    PROVE  Sum(f, S \cup T) = Sum(f, S) + Sum(f, T)
  <1> DEFINE Bad == {s \in SUBSET T : Sum(f, S \cup s) # Sum(f, S) + Sum(f, s)}
  <1>1. ASSUME Bad # {}
        PROVE  FALSE
    <2>1. Bad \in SUBSET (SUBSET T)
      OBVIOUS
    <2>2. PICK U \in Bad : \A V \in Bad : V \subseteq U => V = U
      <3> HIDE DEF Bad
      <3> QED
        BY <1>1, <2>1, SmallestSubset
    <2>3. Sum(f, S) \in Int
      BY SumType
    <2>4. U # {}
      <3>1. ASSUME U = {}
            PROVE  FALSE
        <4>1. Sum(f, S \cup U) # Sum(f, S) + Sum(f, U)
          OBVIOUS
        <4>2. S \cup U = S /\ Sum(f, U) = 0
          BY <3>1, SumEmpty
        <4>3. Sum(f, S) # Sum(f, S) + 0
          BY <4>1, <4>2, Zenon
        <4> QED
          BY <2>3, <4>3
      <3> QED
        BY <3>1
    <2> DEFINE x == First(U)
               V == U \ {x}
    <2>5. x \in U /\ U \subseteq T
      BY <2>4, FirstIsElement
    <2>6. IsFiniteSet(V) /\ V \subseteq T /\ V # U /\ V \subseteq U
      BY <2>5, FS_Subset
    <2>7. Sum(f, S \cup V) = Sum(f, S) + Sum(f, V)
      <3>1. V \notin Bad
        BY <2>2, <2>6
      <3> QED
        BY <2>6, <3>1
    <2>8. x \in T /\ x \notin S /\ x \notin V /\ U = V \cup {x} /\ S \cup U = (S \cup V) \cup {x}
      BY <2>5
    <2>9. Sum(f, S \cup U) # Sum(f, S) + Sum(f, U)
      OBVIOUS
    <2> HIDE DEF x, V, Bad
    <2>10. Sum(f, V \cup {x}) = f[x] + Sum(f, V)
      BY <2>6, <2>8, SumPutIn
    <2>11. IsFiniteSet(S \cup V)
      BY <2>6, FS_Union
    <2>12. Sum(f, (S \cup V) \cup {x}) = f[x] + Sum(f, S \cup V)
      BY <2>6, <2>8, <2>11, SumPutIn
    <2>13. Sum(f, V) \in Int /\ f[x] \in Int
      BY <2>6, <2>8, SumType
    <2>14. f[x] + Sum(f, S \cup V) # Sum(f, S) + (f[x] + Sum(f, V))
      BY <2>8, <2>9, <2>10, <2>12, Zenon
    <2> QED
      BY <2>3, <2>7, <2>13, <2>14
  <1>2. T \notin Bad
    BY <1>1
  <1> QED
    BY <1>2

-----------------------------------------------------------------------------
(* The rules                                                               *)

\* The two sides that a rule compares.
Left(r)  == IF r.form = "sum" THEN {r.target} ELSE r.components
Right(r) == IF r.form = "sum" THEN r.components ELSE {r.target}

\* A rule compares the sums over two finite sides that share no code.
LEMMA Sides ==
    ASSUME NEW r \in Rules
    PROVE  /\ IsFiniteSet(Left(r)) /\ IsFiniteSet(Right(r))
           /\ Left(r) \cup Right(r) = Codes(r) /\ Left(r) \cap Right(r) = {}
           /\ \A amounts : Delta(r, amounts) = Sum(amounts, Left(r)) - Sum(amounts, Right(r))
  <1>1. r.components \subseteq MaSo /\ r.target \notin r.components
    BY RulesAssumption
  <1>2. IsFiniteSet(r.components)
    <2> DEFINE lowest == 100
               highest == 999
    <2>1. MaSo \subseteq lowest .. highest
      BY CodesAssumption, Zenon
    <2>2. lowest \in Int /\ highest \in Int
      OBVIOUS
    <2> HIDE DEF lowest, highest
    <2>3. IsFiniteSet(lowest .. highest)
      BY <2>2, FS_Interval
    <2>4. r.components \subseteq lowest .. highest
      BY <1>1, <2>1, Zenon
    <2> QED
      BY <2>3, <2>4, FS_Subset
  <1>3. IsFiniteSet({r.target})
    BY FS_Singleton
  <1>4. \A amounts : Delta(r, amounts) = Sum(amounts, Left(r)) - Sum(amounts, Right(r))
    BY Zenon DEF Delta, Actual, Expected, Left, Right
  <1> QED
    BY <1>1, <1>2, <1>3, <1>4 DEF Left, Right, Codes

\* Equal amounts compare alike.
LEMMA SameDelta ==
    ASSUME NEW r \in Rules, NEW f, NEW g, \A c \in Codes(r) : f[c] = g[c]
    PROVE  Delta(r, f) = Delta(r, g)
  <1>1. (\A c \in Left(r) : f[c] = g[c]) /\ (\A c \in Right(r) : f[c] = g[c])
    BY Sides
  <1>2. Sum(f, Left(r)) = Sum(g, Left(r))
    BY <1>1, Sides, SumCongruence
  <1>3. Sum(f, Right(r)) = Sum(g, Right(r))
    BY <1>1, Sides, SumCongruence
  <1> QED
    BY <1>2, <1>3, Sides, Zenon

\* Two numbers differ as two others do.
Follows(x, y, u, v) == x \in Int /\ y \in Int /\ (y - x = v - u \/ y - x = u - v)

\* When one amount of a rule changes, so does what the rule compares, by as much.
LEMMA ChangedDelta ==
    ASSUME NEW r \in Rules, NEW f, NEW g, NEW c \in Codes(r),
           \A d \in Codes(r) : f[d] \in Int /\ g[d] \in Int,
           \A d \in Codes(r) \ {c} : f[d] = g[d]
    PROVE  Follows(Delta(r, f), Delta(r, g), f[c], g[c])
  <1> DEFINE L == Left(r)
             R == Right(r)
  <1>1. IsFiniteSet(L) /\ IsFiniteSet(R) /\ L \cup R = Codes(r) /\ L \cap R = {}
    BY Sides
  <1>2. Delta(r, f) = Sum(f, L) - Sum(f, R) /\ Delta(r, g) = Sum(g, L) - Sum(g, R)
    BY Sides, Zenon
  <1> HIDE DEF L, R
  <1>3. (\A d \in L : f[d] \in Int /\ g[d] \in Int) /\ (\A d \in R : f[d] \in Int /\ g[d] \in Int)
    BY <1>1
  <1>4. Sum(f, L) \in Int /\ Sum(g, L) \in Int
    BY <1>1, <1>3, SumType
  <1>5. Sum(f, R) \in Int /\ Sum(g, R) \in Int
    BY <1>1, <1>3, SumType
  <1>6. CASE c \in L
    <2>1. (\A d \in L \ {c} : f[d] = g[d]) /\ (\A d \in R : f[d] = g[d])
      BY <1>1, <1>6
    <2>2. Sum(g, L) - Sum(f, L) = g[c] - f[c]
      BY <1>1, <1>3, <1>6, <2>1, SumChange
    <2>3. Sum(f, R) = Sum(g, R)
      BY <1>1, <2>1, SumCongruence
    <2>4. f[c] \in Int /\ g[c] \in Int
      OBVIOUS
    <2> QED
      BY <1>2, <1>4, <1>5, <2>2, <2>3, <2>4 DEF Follows
  <1>7. CASE c \in R
    <2>1. (\A d \in R \ {c} : f[d] = g[d]) /\ (\A d \in L : f[d] = g[d])
      BY <1>1, <1>7
    <2>2. Sum(g, R) - Sum(f, R) = g[c] - f[c]
      BY <1>1, <1>3, <1>7, <2>1, SumChange
    <2>3. Sum(f, L) = Sum(g, L)
      BY <1>1, <2>1, SumCongruence
    <2>4. f[c] \in Int /\ g[c] \in Int
      OBVIOUS
    <2> QED
      BY <1>2, <1>4, <1>5, <2>2, <2>3, <2>4 DEF Follows
  <1> QED
    BY <1>1, <1>6, <1>7

\* What a rule compares is a number.
LEMMA DeltaType ==
    ASSUME NEW r \in Rules, NEW f, \A c \in Codes(r) : f[c] \in Int
    PROVE  Delta(r, f) \in Int
  <1>1. (\A c \in Left(r) : f[c] \in Int) /\ (\A c \in Right(r) : f[c] \in Int)
    BY Sides
  <1>2. Sum(f, Left(r)) \in Int /\ Sum(f, Right(r)) \in Int
    BY <1>1, Sides, SumType
  <1> QED
    BY <1>2, Sides

\* The sides of a rule are one finite set of codes.
LEMMA CodesAreFinite ==
    ASSUME NEW r \in Rules
    PROVE  IsFiniteSet(Codes(r)) /\ Cardinality(Codes(r)) \in Nat
  <1>1. IsFiniteSet(Left(r) \cup Right(r)) /\ Left(r) \cup Right(r) = Codes(r)
    BY Sides, FS_Union
  <1> QED
    BY <1>1, FS_CardinalityType

\* A natural number divided by a positive one is a natural number.
LEMMA QuotientType ==
    ASSUME NEW n \in Nat, NEW m \in Nat \ {0}
    PROVE  n \div m \in Nat
  BY SMT

\* By how much the doubles may be off is a natural number.
LEMMA RoundingErrorType ==
    ASSUME NEW r \in Rules, NEW f, \A c \in Codes(r) : f[c] \in Int
    PROVE  RoundingError(r, f) \in Nat
  <1> DEFINE sizes == [c \in Codes(r) |-> Magnitude(f[c])]
             size  == Size(r, f)
             n     == Cardinality(Codes(r))
             large == size \div Half
             whole == (1 + n) * (1 + large)
             share == whole \div (2 * Half)
  <1>1. size \in Nat
    <2>1. \A c \in Codes(r) : sizes[c] \in Nat
      BY DEF Magnitude
    <2>2. size = Sum(sizes, Codes(r))
      BY Zenon DEF Size
    <2> HIDE DEF sizes, size
    <2> QED
      BY <2>1, <2>2, CodesAreFinite, SumNatural
  <1>2. n \in Nat
    BY CodesAreFinite
  <1>3. Half \in Nat \ {0} /\ 2 * Half \in Nat \ {0}
    BY SMT DEF Half
  <1>4. RoundingError(r, f) = IF IsExact(r, f) THEN 0 ELSE 1 + share
    BY Zenon DEF RoundingError
  <1> HIDE DEF size, n
  <1>5. large \in Nat
    BY <1>1, <1>3, QuotientType
  <1> HIDE DEF large
  <1>6. whole \in Nat
    BY <1>2, <1>5
  <1> HIDE DEF whole
  <1>7. share \in Nat
    BY <1>3, <1>6, QuotientType
  <1> HIDE DEF share
  <1> QED
    BY <1>4, <1>7

\* Equal amounts are rounded alike.
LEMMA SameRounding ==
    ASSUME NEW r \in Rules, NEW f, NEW g, \A c \in Codes(r) : f[c] = g[c]
    PROVE  RoundingError(r, f) = RoundingError(r, g)
  <1>1. Size(r, f) = Size(r, g)
    <2>1. [c \in Codes(r) |-> Magnitude(f[c])] = [c \in Codes(r) |-> Magnitude(g[c])]
      OBVIOUS
    <2> QED
      BY <2>1, Zenon DEF Size
  <1>2. (\A c \in Codes(r) : f[c] % 25 = 0) <=> (\A c \in Codes(r) : g[c] % 25 = 0)
    OBVIOUS
  <1>3. IsExact(r, f) <=> IsExact(r, g)
    BY <1>1, <1>2, Zenon DEF IsExact
  <1> QED
    BY <1>1, <1>3, Zenon DEF RoundingError

\* The doubles are off by less than the rounding error.
LEMMA OffsetIsSmall ==
    ASSUME NEW r, NEW f, RoundingError(r, f) \in Nat, NEW offset \in Offsets(r, f)
    PROVE  /\ offset \in Int
           /\ offset = 0 \/ (offset < 2 * RoundingError(r, f) /\ -offset < 2 * RoundingError(r, f))
  <1> DEFINE e == RoundingError(r, f)
  <1>1. offset \in {0} \cup 1 - 2 * e .. 2 * e - 1
    BY Zenon DEF Offsets
  <1> HIDE DEF e
  <1>2. e \in Nat
    BY DEF e
  <1>3. offset \in Int /\ (offset = 0 \/ (offset < 2 * e /\ -offset < 2 * e))
    BY <1>1, <1>2
  <1> QED
    BY <1>3 DEF e

\* Two amounts differ by more than what two roundings to a unit and the doubles explain;
\* an offset is within an error.
IsOff(a, b, e) == b - a > 2 * Tolerance + e \/ a - b > 2 * Tolerance + e
Within(offset, e) == offset \in Int /\ (offset = 0 \/ (offset < 2 * e /\ -offset < 2 * e))

\* When one amount changes by more than that, a rule that was kept is broken.
LEMMA ChangeBreaks ==
    ASSUME NEW r \in Rules, NEW f, NEW g, NEW c \in Codes(r),
           \A d \in Codes(r) : f[d] \in Int /\ g[d] \in Int,
           \A d \in Codes(r) \ {c} : f[d] = g[d],
           Delta(r, f) \in -Tolerance .. Tolerance,
           NEW e \in Nat, IsOff(f[c], g[c], e), NEW offset, Within(offset, e)
    PROVE  Broken(r, g, offset)
  <1> DEFINE before == Delta(r, f)
             after  == Delta(r, g)
  <1>1. /\ before \in Int /\ after \in Int
        /\ after - before = g[c] - f[c] \/ after - before = f[c] - g[c]
    <2>1. Follows(Delta(r, f), Delta(r, g), f[c], g[c])
      BY ChangedDelta, Zenon
    <2> QED
      BY <2>1, Zenon DEF Follows
  <1>2. before \in -100 .. 100
    BY DEF Tolerance
  <1>3. f[c] \in Int /\ g[c] \in Int
    OBVIOUS
  <1>4. g[c] - f[c] > 200 + e \/ f[c] - g[c] > 200 + e
    BY DEF IsOff, Tolerance
  <1>5. offset \in Int /\ (offset = 0 \/ (offset < 2 * e /\ -offset < 2 * e))
    BY DEF Within
  <1> HIDE DEF before, after
  <1>6. 2 * after + offset > 2 * 100 \/ 2 * after + offset < -2 * 100
    BY <1>1, <1>2, <1>3, <1>4, <1>5
  <1> QED
    BY <1>6 DEF Broken, Tolerance, after

\* The flags are those of the values that are reported with them.
RulesJudged ==
    phase = "done" =>
        /\ flags \in evaluate_rules(Amounts(values))
        /\ review = (tables_found = 0 \/ \E r \in flags : r.severity = "error")

\* Nothing changes the values once they are judged.
LEMMA RulesJudgedAlways == Spec => []RulesJudged
  <1>1. Init => RulesJudged
    BY DEF Init, RulesJudged
  <1>2. RulesJudged /\ [Next]_vars => RulesJudged'
    <2> SUFFICES ASSUME RulesJudged, [Next]_vars PROVE RulesJudged'
      OBVIOUS
    <2>1. CASE DetectTables \/ ParseTable \/ ReadRow \/ load_rules
      <3>1. phase' # "done"
        BY <2>1 DEF DetectTables, ParseTable, ReadRow, load_rules
      <3> QED
        BY <3>1 DEF RulesJudged
    <2>2. CASE Evaluate
      <3>1. /\ flags' \in evaluate_rules(Amounts(values)) /\ UNCHANGED <<values, tables_found>>
            /\ review' = (tables_found = 0 \/ \E r \in flags' : r.severity = "error")
        BY <2>2, Zenon DEF Evaluate, readVars
      <3>2. Amounts(values') = Amounts(values)
        BY <3>1
      <3> QED
        BY <3>1, <3>2, Zenon DEF RulesJudged
    <2>3. CASE UNCHANGED vars
      <3>1. UNCHANGED <<phase, flags, values, review, tables_found>>
        BY <2>3 DEF vars, readVars, resultVars
      <3> QED
        BY <3>1, Zenon DEF RulesJudged
    <2> QED
      BY <2>1, <2>2, <2>3 DEF Next, Returned
  <1> QED
    BY <1>1, <1>2, PTL DEF Spec

\* A rule that applies is flagged if and only if its difference, up to the rounding of
\* the doubles, exceeds the tolerance.
LEMMA FlaggedIsBroken ==
    ASSUME RulesJudged, phase = "done", NEW r \in Rules
    PROVE  /\ r \in flags => Applies(r, Amounts(values))
           /\ Applies(r, Amounts(values)) =>
                \E offset \in Offsets(r, Amounts(values)) :
                    r \in flags <=> Broken(r, Amounts(values), offset)
  <1> DEFINE read == Amounts(values)
             compared == {s \in Rules : Applies(s, read)}
  <1>1. flags \in evaluate_rules(read)
    BY DEF RulesJudged
  <1> HIDE DEF read
  <1>2. /\ flags \in SUBSET compared
        /\ \A s \in compared : \E offset \in Offsets(s, read) : s \in flags <=> Broken(s, read, offset)
    BY <1>1 DEF evaluate_rules
  <1>3. r \in compared <=> Applies(r, read)
    OBVIOUS
  <1> HIDE DEF compared
  <1>4. r \in flags => Applies(r, read)
    BY <1>2, <1>3
  <1>5. Applies(r, read) => \E offset \in Offsets(r, read) : r \in flags <=> Broken(r, read, offset)
    BY <1>2, <1>3, Zenon
  <1> QED
    BY <1>4, <1>5, Zenon DEF read

\* The flags are rules.
LEMMA FlagsAreRules ==
    ASSUME RulesJudged, phase = "done"
    PROVE  flags \subseteq Rules
  BY DEF RulesJudged, evaluate_rules

\* The values that the rules get are numbers.
LEMMA ValuesAreNumbers ==
    ASSUME SheetRead, NEW c \in DOMAIN values
    PROVE  /\ Amounts(values)[c] = ValueOf(c) /\ ValueOf(c) \in Int
           /\ DOMAIN Amounts(values) = DOMAIN values
  <1>1. PICK text \in Seq(STRING) : values[c] \in parse_vn_number(text)
    BY DEF SheetRead, ReadAmounts
  <1>2. Hundredths(values[c]) \in Int
    BY <1>1, HundredthsType
  <1> QED
    BY <1>2 DEF Amounts, ValueOf

\* A code that is printed has an amount.
LEMMA PrintedIsANumber ==
    ASSUME NEW d \in Documents, NEW c \in PrintedCodes(d)
    PROVE  /\ PrintedAmount(d, c) \in Int
           /\ \E i \in LinesOf(d, c) : PrintedAmount(d, c) = d.printed[i].amount
  <1>1. LinesOf(d, c) # {}
    BY DEF LinesOf, PrintedCodes
  <1>2. TheOnly(LinesOf(d, c)) \in LinesOf(d, c)
    BY <1>1, Zenon DEF TheOnly
  <1>3. d.printed \in Seq(PrintedRow)
    BY DocumentsAssumption
  <1>4. ASSUME NEW i \in LinesOf(d, c)
        PROVE  d.printed[i].amount \in Int
    <2>1. i \in 1 .. Len(d.printed)
      BY <1>3, LenProperties DEF LinesOf
    <2>2. d.printed[i] \in PrintedRow
      BY <1>3, <2>1, ElementOfSeq
    <2> QED
      BY <2>2 DEF PrintedRow
  <1> QED
    BY <1>2, <1>4, Zenon DEF PrintedAmount

\* A code that is not wrong has the amount that is printed for it.
LEMMA ReadAsPrinted ==
    ASSUME SheetRead, NEW r \in Rules, NEW c \in Codes(r), c \in DOMAIN values, c \notin WrongCodes
    PROVE  /\ c \in PrintedCodes(doc)
           /\ Codes(r) \subseteq PrintedCodes(doc) => ValueOf(c) = PrintedAmount(doc, c)
  <1>1. PICK i \in LinesOf(doc, c) : ValueOf(c) = doc.printed[i].amount
    BY Zenon DEF WrongCodes, PrintedFor
  <1>2. c \in PrintedCodes(doc)
    BY <1>1 DEF LinesOf, PrintedCodes
  <1>3. doc \in Documents
    BY DEF SheetRead
  <1>4. Codes(r) \subseteq PrintedCodes(doc) => doc.printed[i].amount = PrintedAmount(doc, c)
    BY <1>1, <1>3, BalanceAssumption, Zenon
  <1> QED
    BY <1>1, <1>2, <1>4

\* What a balance sheet prints is within the tolerance of every rule.
LEMMA PrintedBalances ==
    ASSUME NEW d \in Documents, NEW r \in Rules, Codes(r) \subseteq PrintedCodes(d)
    PROVE  Delta(r, [c \in Codes(r) |-> PrintedAmount(d, c)]) \in -Tolerance .. Tolerance
  BY BalanceAssumption

\* "The cross-check of formulas is the first line of defence": one amount of a balance
\* sheet that is read wrong, by more than the rounding of the sheet and of the doubles can
\* hide, sends it to review when a rule that uses the amount has all of its codes.
THEOREM MisreadingIsCaught == Spec => []MisreadIsReviewed
  <1>1. ASSUME SheetRead, RulesJudged
        PROVE  MisreadIsReviewed
    <2> SUFFICES ASSUME phase = "done", NEW c \in WrongCodes, WrongCodes = {c},
                        PrintedFor(c) # {},
                        NEW r \in Rules, r.severity = "error", c \in Codes(r),
                        Applies(r, Amounts(values)),
                        OffBy(c, 2 * Tolerance + RoundingError(r, Amounts(values)))
                 PROVE  review
      BY Zenon DEF MisreadIsReviewed
    <2> DEFINE read    == Amounts(values)
               printed == [d \in Codes(r) |-> PrintedAmount(doc, d)]
    <2>1. Codes(r) \subseteq DOMAIN values /\ doc \in Documents
      BY <1>1 DEF Applies, Amounts, SheetRead
    <2>2. c \in PrintedCodes(doc)
      BY DEF PrintedFor, LinesOf, PrintedCodes
    <2>3. Codes(r) \subseteq PrintedCodes(doc)
      <3>1. \A d \in Codes(r) \ {c} : d \in PrintedCodes(doc)
        BY <1>1, <2>1, ReadAsPrinted
      <3> QED
        BY <2>2, <3>1
    <2>4. Delta(r, printed) \in -Tolerance .. Tolerance
      BY <2>1, <2>3, PrintedBalances
    <2> DEFINE e     == RoundingError(r, read)
               limit == 2 * Tolerance + e
    <2>5. ASSUME NEW d \in Codes(r)
          PROVE  /\ read[d] = ValueOf(d) /\ read[d] \in Int
                 /\ printed[d] = PrintedAmount(doc, d) /\ printed[d] \in Int
      <3>1. read[d] = ValueOf(d) /\ ValueOf(d) \in Int
        BY <1>1, <2>1, ValuesAreNumbers
      <3>2. PrintedAmount(doc, d) \in Int
        BY <2>1, <2>3, PrintedIsANumber
      <3> QED
        BY <3>1, <3>2
    <2>6. ASSUME NEW d \in Codes(r) \ {c}
          PROVE  printed[d] = read[d]
      <3>1. ValueOf(d) = PrintedAmount(doc, d)
        BY <1>1, <2>1, <2>3, ReadAsPrinted
      <3> QED
        BY <2>5, <3>1
    <2>7. read[c] - printed[c] > limit \/ printed[c] - read[c] > limit
      <3>1. PICK i \in LinesOf(doc, c) : PrintedAmount(doc, c) = doc.printed[i].amount
        BY <2>1, <2>2, PrintedIsANumber
      <3>2. PrintedAmount(doc, c) \in PrintedFor(c)
        BY <3>1, Zenon DEF PrintedFor
      <3>3. ValueOf(c) - PrintedAmount(doc, c) > limit \/ PrintedAmount(doc, c) - ValueOf(c) > limit
        BY <3>2, Zenon DEF OffBy
      <3> QED
        BY <2>5, <3>3, Zenon
    <2>8. e \in Nat
      BY <2>5, RoundingErrorType
    <2> HIDE DEF read, printed, e, limit
    <2>9. PICK offset \in Offsets(r, read) : r \in flags <=> Broken(r, read, offset)
      <3>1. \E offset \in Offsets(r, Amounts(values)) :
              r \in flags <=> Broken(r, Amounts(values), offset)
        BY <1>1, FlaggedIsBroken
      <3> QED
        BY <3>1, Zenon DEF read
    <2>10. offset \in Int /\ (offset = 0 \/ (offset < 2 * e /\ -offset < 2 * e))
      <3>1. RoundingError(r, read) \in Nat
        BY <2>8 DEF e
      <3> QED
        BY <2>9, <3>1, OffsetIsSmall, Zenon DEF e
    <2>11. Broken(r, read, offset)
      <3>1. \A d \in Codes(r) : printed[d] \in Int /\ read[d] \in Int
        BY <2>5
      <3>2. \A d \in Codes(r) \ {c} : printed[d] = read[d]
        BY <2>6
      <3>3. IsOff(printed[c], read[c], e)
        BY <2>7, Zenon DEF IsOff, limit
      <3>4. Within(offset, e)
        BY <2>10, Zenon DEF Within
      <3> QED
        BY <2>4, <2>8, <3>1, <3>2, <3>3, <3>4, ChangeBreaks, Zenon
    <2>12. r \in flags
      BY <2>9, <2>11
    <2> QED
      BY <1>1, <2>12 DEF RulesJudged
  <1> QED
    BY <1>1, SheetReadAlways, RulesJudgedAlways, PTL
-----------------------------------------------------------------------------
(* The tables                                                              *)

\* A concatenation is as long as its parts, each of which is counted once.
LEMMA FlattenLength ==
    ASSUME NEW X, NEW seqs \in Seq(Seq(X)), NEW f, NEW s, DOMAIN s = DOMAIN seqs,
           IsInjective(s), \A i \in DOMAIN seqs : f[s[i]] = Len(seqs[i])
    PROVE  /\ IsFiniteSet(ToSet(s))
           /\ Len(FlattenSeq(seqs)) = Sum(f, ToSet(s))
  <1> DEFINE m       == Len(seqs)
             g       == CHOOSE h : FlatFunction(seqs, m, h)
             part(n) == {s[i] : i \in 1 .. n}
  <1>1. m \in Nat /\ DOMAIN seqs = 1 .. m /\ \A i \in 1 .. m : seqs[i] \in Seq(X)
    BY LenProperties, ElementOfSeq
  <1>2. ToSet(s) = part(m)
    BY <1>1 DEF ToSet
  <1>3. FlatFunction(seqs, m, g)
    BY <1>1, FlatExists
  <1>4. m # 0 => FlattenSeq(seqs) = g[m]
    BY DEF FlattenSeq, FlatFunction
  <1>5. m = 0 => FlattenSeq(seqs) = <<>>
    BY EmptySeq DEF FlattenSeq
  <1>6. part(0) = {} /\ \A n \in Nat : part(n + 1) = part(n) \cup {s[n + 1]}
    <2>1. ASSUME NEW n \in Nat
          PROVE  1 .. n + 1 = (1 .. n) \cup {n + 1}
      OBVIOUS
    <2> QED
      BY <2>1
  <1>7. ASSUME NEW n \in Nat, n + 1 \in 1 .. m
        PROVE  s[n + 1] \notin part(n)
    <2> SUFFICES ASSUME NEW i \in 1 .. n PROVE s[i] # s[n + 1]
      OBVIOUS
    <2>1. i \in DOMAIN s /\ n + 1 \in DOMAIN s /\ i # n + 1
      BY <1>1, <1>7
    <2> QED
      BY <2>1 DEF IsInjective
  <1>8. \A n \in 0 .. m : \A c \in part(n) : f[c] \in Nat
    <2>1. \A i \in 1 .. m : f[s[i]] \in Nat
      BY <1>1, LenProperties
    <2>2. \A n \in 0 .. m : 1 .. n \subseteq 1 .. m
      BY <1>1
    <2> QED
      BY <2>1, <2>2
  <1> HIDE DEF g, m, part
  <1>9. \A i \in 1 .. m : g[i] = IF i = 1 THEN seqs[i] ELSE g[i - 1] \o seqs[i]
    BY <1>3 DEF FlatFunction
  <1> DEFINE Sized(n) == /\ IsFiniteSet(part(n))
                         /\ n # 0 => g[n] \in Seq(X) /\ Len(g[n]) = Sum(f, part(n))
             Good     == {n \in Nat : n <= m => Sized(n)}
  <1>10. 0 \in Good
    BY <1>6, FS_EmptySet
  <1>11. ASSUME NEW n \in Nat, n \in Good
         PROVE  n + 1 \in Good
    <2> SUFFICES ASSUME n + 1 <= m PROVE Sized(n + 1)
      OBVIOUS
    <2>1. n \in 0 .. m /\ n <= m /\ n + 1 \in 1 .. m /\ (n + 1) - 1 = n /\ n + 1 # 0
      BY <1>1
    <2>2. Sized(n)
      BY <1>11, <2>1
    <2>3. part(n + 1) = part(n) \cup {s[n + 1]} /\ s[n + 1] \notin part(n)
      BY <1>6, <1>7, <2>1
    <2>4. IsFiniteSet(part(n + 1))
      BY <2>2, <2>3, FS_AddElement
    <2>5. /\ seqs[n + 1] \in Seq(X) /\ f[s[n + 1]] = Len(seqs[n + 1])
          /\ Len(seqs[n + 1]) \in Nat
      BY <1>1, <2>1, LenProperties
    <2>6. Sum(f, part(n + 1)) = f[s[n + 1]] + Sum(f, part(n))
      <3>1. \A c \in part(n) : f[c] \in Int
        BY <1>8, <2>1
      <3> QED
        BY <2>2, <2>3, <2>5, <3>1, SumPutIn
    <2>7. g[n + 1] = IF n + 1 = 1 THEN seqs[n + 1] ELSE g[n] \o seqs[n + 1]
      BY <1>9, <2>1
    <2>8. g[n + 1] \in Seq(X) /\ Len(g[n + 1]) = Sum(f, part(n + 1))
      <3>1. CASE n = 0
        <4>1. Sum(f, part(n)) = 0
          BY <1>6, <3>1, SumEmpty
        <4>2. g[n + 1] = seqs[n + 1]
          BY <2>7, <3>1
        <4> QED
          BY <2>5, <2>6, <4>1, <4>2
      <3>2. CASE n # 0
        <4>1. g[n] \in Seq(X) /\ Len(g[n]) = Sum(f, part(n))
          BY <2>2, <3>2
        <4>2. g[n + 1] = g[n] \o seqs[n + 1]
          <5>1. n + 1 # 1
            BY <3>2
          <5> QED
            BY <2>7, <5>1, Zenon
        <4>3. g[n + 1] \in Seq(X) /\ Len(g[n + 1]) = Len(g[n]) + Len(seqs[n + 1])
          <5>1. /\ g[n] \o seqs[n + 1] \in Seq(X)
                /\ Len(g[n] \o seqs[n + 1]) = Len(g[n]) + Len(seqs[n + 1])
            BY <2>5, <4>1, ConcatProperties
          <5> QED
            BY <4>2, <5>1, Zenon
        <4>4. Len(g[n]) \in Nat
          BY <4>1, LenProperties
        <4> QED
          BY <2>5, <2>6, <4>1, <4>3, <4>4
      <3> QED
        BY <3>1, <3>2
    <2> QED
      BY <2>4, <2>8
  <1> HIDE DEF Good
  <1>12. m \in Good
    BY <1>1, <1>10, <1>11, NumberInduction
  <1>13. Sized(m)
    BY <1>1, <1>12 DEF Good
  <1>14. CASE m = 0
    <2>1. Len(FlattenSeq(seqs)) = 0
      BY <1>5, <1>14, EmptySeq
    <2>2. Sum(f, part(m)) = 0
      BY <1>6, <1>14, SumEmpty
    <2> QED
      BY <1>2, <1>13, <2>1, <2>2
  <1>15. CASE m # 0
    BY <1>2, <1>4, <1>13, <1>15
  <1> QED
    BY <1>14, <1>15

\* In a tree, a number that each node passes up, its own w and those of its children,
\* arrives at the root as the sum of all w.
LEMMA EveryNodeCounts ==
    ASSUME NEW result \in Seq(Nodes), Tree(result), NEW f, NEW w,
           \A n \in DOMAIN result :
             /\ f[n] \in Int /\ w[n] \in Int /\ IsFiniteSet(ToSet(result[n].kids))
             /\ f[n] = w[n] + Sum(f, ToSet(result[n].kids))
    PROVE  f[1] = Sum(w, DOMAIN result)
  <1> DEFINE N    == Len(result)
             K(n) == ToSet(result[n].kids)
             U(j) == UNION {K(n) : n \in 1 .. j}
  <1>1. N \in Nat /\ DOMAIN result = 1 .. N /\ 1 \in 1 .. N
    BY LenProperties, EmptySeq DEF Tree
  <1>2. \A n \in 1 .. N : K(n) \subseteq 2 .. N
    BY <1>1 DEF Tree, ToSet
  <1>3. \A n, m \in 1 .. N : n # m => K(n) \cap K(m) = {}
    BY <1>1 DEF Tree
  <1>4. \A m \in 2 .. N : \E n \in 1 .. N : m \in K(n)
    BY <1>1 DEF Tree
  <1>5. \A n \in 1 .. N : /\ f[n] \in Int /\ w[n] \in Int /\ IsFiniteSet(K(n))
                          /\ f[n] = w[n] + Sum(f, K(n))
    BY <1>1
  <1> HIDE DEF K, N
  <1>6. U(0) = {} /\ \A j \in Nat : U(j + 1) = U(j) \cup K(j + 1)
    <2>1. ASSUME NEW n \in Nat
          PROVE  1 .. n + 1 = (1 .. n) \cup {n + 1}
      OBVIOUS
    <2> QED
      BY <2>1
  <1>7. \A j \in Nat : j + 1 \in 1 .. N => U(j) \cap K(j + 1) = {}
    BY <1>1, <1>3
  <1>8. U(N) = 2 .. N
    BY <1>1, <1>2, <1>4
  <1> HIDE DEF U
  <1> DEFINE Even(j) == /\ IsFiniteSet(U(j)) /\ U(j) \subseteq 2 .. N
                        /\ Sum(f, 1 .. j) = Sum(w, 1 .. j) + Sum(f, U(j))
             Good    == {j \in Nat : j <= N => Even(j)}
  <1>9. 0 \in Good
    <2>1. Sum(f, 1 .. 0) = 0 /\ Sum(w, 1 .. 0) = 0 /\ Sum(f, U(0)) = 0
      <3>1. 1 .. 0 = {}
        OBVIOUS
      <3> QED
        BY <1>6, <3>1, SumEmpty
    <2>2. Sum(f, 1 .. 0) = Sum(w, 1 .. 0) + Sum(f, U(0))
      BY <2>1
    <2>3. IsFiniteSet(U(0)) /\ U(0) \subseteq 2 .. N
      BY <1>6, FS_EmptySet
    <2>4. Even(0)
      BY <2>2, <2>3
    <2> QED
      BY <2>4
  <1>10. ASSUME NEW j \in Nat, j \in Good
         PROVE  j + 1 \in Good
    <2> SUFFICES ASSUME j + 1 <= N PROVE Even(j + 1)
      OBVIOUS
    <2> DEFINE i == j + 1
    <2>1. /\ j <= N /\ i \in 1 .. N /\ i \notin 1 .. j
          /\ 1 .. i = (1 .. j) \cup {i} /\ 1 .. j \subseteq 1 .. N
      BY <1>1
    <2>2. Even(j)
      BY <1>10, <2>1
    <2>3. /\ U(i) = U(j) \cup K(i) /\ U(j) \cap K(i) = {} /\ K(i) \subseteq 2 .. N
          /\ IsFiniteSet(K(i)) /\ f[i] = w[i] + Sum(f, K(i)) /\ f[i] \in Int /\ w[i] \in Int
      BY <1>2, <1>5, <1>6, <1>7, <2>1
    <2>4. IsFiniteSet(1 .. j)
      <3>1. 1 \in Int /\ j \in Int
        OBVIOUS
      <3> QED
        BY <3>1, FS_Interval
    <2>5. \A c \in 1 .. j : f[c] \in Int /\ w[c] \in Int
      BY <1>5, <2>1
    <2>6. 2 .. N \subseteq 1 .. N
      BY <1>1
    <2>7. \A c \in U(j) \cup K(i) : f[c] \in Int
      BY <1>5, <2>2, <2>3, <2>6
    <2> HIDE DEF i
    <2>8. Sum(f, 1 .. i) = f[i] + Sum(f, 1 .. j)
      BY <2>1, <2>3, <2>4, <2>5, SumPutIn
    <2>9. Sum(w, 1 .. i) = w[i] + Sum(w, 1 .. j)
      BY <2>1, <2>3, <2>4, <2>5, SumPutIn
    <2>10. Sum(f, U(i)) = Sum(f, U(j)) + Sum(f, K(i))
      BY <2>2, <2>3, <2>7, SumUnion
    <2>11. IsFiniteSet(U(i))
      BY <2>2, <2>3, FS_Union
    <2>12. Sum(w, 1 .. j) \in Int /\ Sum(f, 1 .. j) \in Int
      BY <2>4, <2>5, SumType
    <2>13. Sum(f, U(j)) \in Int /\ Sum(f, K(i)) \in Int
      <3>1. (\A c \in U(j) : f[c] \in Int) /\ (\A c \in K(i) : f[c] \in Int)
        BY <2>7
      <3> QED
        BY <2>2, <2>3, <3>1, SumType
    <2>14. Sum(f, 1 .. i) = Sum(w, 1 .. i) + Sum(f, U(i))
      BY <2>2, <2>3, <2>8, <2>9, <2>10, <2>12, <2>13
    <2>15. U(i) \subseteq 2 .. N
      BY <2>2, <2>3
    <2>16. Even(i)
      BY <2>11, <2>14, <2>15
    <2> QED
      BY <2>16 DEF i
  <1> HIDE DEF Good
  <1>11. N \in Good
    BY <1>1, <1>9, <1>10, NumberInduction
  <1>12. Sum(f, 1 .. N) = Sum(w, 1 .. N) + Sum(f, 2 .. N)
    BY <1>1, <1>8, <1>11 DEF Good
  <1>13. IsFiniteSet(1 .. N) /\ IsFiniteSet(2 .. N)
    <2>1. 1 \in Int /\ 2 \in Int /\ N \in Int
      BY <1>1
    <2> QED
      BY <2>1, FS_Interval
  <1>14. 1 .. N = (2 .. N) \cup {1} /\ 1 \notin 2 .. N
    BY <1>1
  <1>15. Sum(f, 1 .. N) = f[1] + Sum(f, 2 .. N)
    <2>1. (\A c \in 2 .. N : f[c] \in Int) /\ f[1] \in Int
      BY <1>1, <1>5, <1>14
    <2> QED
      BY <1>13, <1>14, <2>1, SumPutIn
  <1>16. Sum(f, 2 .. N) \in Int /\ Sum(w, 1 .. N) \in Int
    <2>1. (\A c \in 2 .. N : f[c] \in Int) /\ (\A c \in 1 .. N : w[c] \in Int)
      BY <1>1, <1>5, <1>14
    <2> QED
      BY <1>13, <2>1, SumType
  <1>17. f[1] \in Int
    BY <1>1, <1>5
  <1> QED
    BY <1>1, <1>12, <1>15, <1>16, <1>17

\* Every page of a document is a tree of nodes.
LEMMA SequencesOfPages ==
    ASSUME NEW d \in Documents
    PROVE  /\ Len(d.pages) \in Nat /\ DOMAIN d.pages = 1 .. Len(d.pages)
           /\ \A p \in 1 .. Len(d.pages) : d.pages[p] \in Seq(Nodes) /\ Tree(d.pages[p])
  <1>1. d.pages \in Seq(Seq(Nodes)) /\ Len(d.pages) \in Nat /\ DOMAIN d.pages = 1 .. Len(d.pages)
    BY DocumentsAssumption, LenProperties
  <1>2. \A p \in 1 .. Len(d.pages) : d.pages[p] \in Seq(Nodes)
    BY <1>1, ElementOfSeq
  <1>3. \A p \in 1 .. Len(d.pages) : Tree(d.pages[p])
    BY <1>1, DocumentsAssumption
  <1> QED
    BY <1>1, <1>2, <1>3

\* As many tables are found in a result as its nodes have.
LEMMA AllTablesFound ==
    ASSUME NEW result \in Seq(Nodes), Tree(result)
    PROVE  Len(find_table_html(result)) = TablesOn(result) /\ TablesOn(result) \in Nat
  <1> DEFINE T == Seq(Tokens)
  <1>1. /\ 1 \in DOMAIN result
        /\ \A n \in DOMAIN result : result[n] \in Nodes
    BY LenProperties, EmptySeq, ElementOfSeq DEF Tree
  <1>2. \A n \in DOMAIN result : \A k \in 1 .. 3 : result[n].html[TableKeys[k]] \in T
    <2> SUFFICES ASSUME NEW n \in DOMAIN result, NEW k \in 1 .. 3
                 PROVE  result[n].html[TableKeys[k]] \in T
      OBVIOUS
    <2>1. result[n].html \in [{TableKeys[i] : i \in 1 .. 3} -> T]
      BY <1>1, Zenon DEF Nodes
    <2> QED
      BY <2>1
  <1> HIDE DEF T
  <1>3. PICK g : FoundIn(result, T, g)
    BY <1>2, FoundParts
  <1> DEFINE f == [n \in DOMAIN result |-> Len(g[n])]
             w == [n \in DOMAIN result |-> Len(TablesOf(result[n]))]
  <1>4. ASSUME NEW n \in DOMAIN result
        PROVE  /\ f[n] \in Nat /\ w[n] \in Nat /\ IsFiniteSet(ToSet(result[n].kids))
               /\ f[n] = w[n] + Sum(f, ToSet(result[n].kids))
    <2> DEFINE kids == result[n].kids
               seqs == [k \in DOMAIN kids |-> g[kids[k]]]
    <2>1. /\ g[n] \in Seq(T) /\ TablesOf(result[n]) \in Seq(T)
          /\ g[n] = TablesOf(result[n]) \o Below(result, n, g)
      BY <1>3 DEF FoundIn
    <2>2. f[n] = Len(g[n]) /\ w[n] = Len(TablesOf(result[n])) /\ Len(g[n]) \in Nat
          /\ Len(TablesOf(result[n])) \in Nat
      BY <2>1, LenProperties
    <2>3. kids \in Seq(Nat)
      BY <1>1, Zenon DEF Nodes
    <2>4. IsInjective(kids) /\ \A k \in DOMAIN kids : kids[k] \in n + 1 .. Len(result)
      BY DEF Tree
    <2>5. Below(result, n, g) = FlattenSeq(seqs)
      BY Zenon DEF Below, SearchedBelow
    <2> HIDE DEF kids
    <2>6. DOMAIN kids = 1 .. Len(kids) /\ Len(kids) \in Nat
      BY <2>3, LenProperties
    <2>7. \A k \in DOMAIN kids : kids[k] \in DOMAIN result
      <3>1. DOMAIN result = 1 .. Len(result) /\ Len(result) \in Nat
        BY LenProperties
      <3> QED
        BY <2>4, <3>1
    <2>8. seqs \in [1 .. Len(kids) -> Seq(T)]
      BY <1>3, <2>6, <2>7 DEF FoundIn
    <2>9. \A k \in DOMAIN kids : f[kids[k]] = Len(seqs[k])
      BY <2>7
    <2>10. DOMAIN seqs = DOMAIN kids
      OBVIOUS
    <2> HIDE DEF seqs, f, w
    <2>11. seqs \in Seq(Seq(T))
      BY <2>6, <2>8, SeqDef
    <2>12. IsFiniteSet(ToSet(kids)) /\ Len(FlattenSeq(seqs)) = Sum(f, ToSet(kids))
      BY <2>4, <2>9, <2>10, <2>11, FlattenLength
    <2>13. FlattenSeq(seqs) \in Seq(T)
      BY <2>11, FlattenType
    <2>14. Len(TablesOf(result[n]) \o FlattenSeq(seqs))
             = Len(TablesOf(result[n])) + Len(FlattenSeq(seqs))
      BY <2>1, <2>13, ConcatProperties
    <2>15. f[n] = w[n] + Sum(f, ToSet(kids))
      BY <2>1, <2>2, <2>5, <2>12, <2>14, Zenon
    <2> QED
      BY <2>2, <2>12, <2>15 DEF kids
  <1>5. TablesOn(result) = Sum(w, DOMAIN result)
    BY DEF TablesOn
  <1>6. f[1] = Len(find_table_html(result))
    BY <1>1, <1>3 DEF FoundIn
  <1> HIDE DEF f, w
  <1>7. f[1] = Sum(w, DOMAIN result)
    <2>1. \A n \in DOMAIN result :
            /\ f[n] \in Int /\ w[n] \in Int /\ IsFiniteSet(ToSet(result[n].kids))
            /\ f[n] = w[n] + Sum(f, ToSet(result[n].kids))
      BY <1>4
    <2> QED
      BY <2>1, EveryNodeCounts
  <1> QED
    BY <1>1, <1>4, <1>5, <1>6, <1>7

PageTables == [p \in DOMAIN doc.pages |-> TablesOn(doc.pages[p])]

\* The tables parsed and those still to parse are those of the pages so far.
TablesAccounted ==
    /\ tables_found \in Nat
    /\ tables_found + Len(tables) = Sum(PageTables, 1 .. page)
    /\ phase \in {"rules", "done"} => page = Len(doc.pages) /\ tables = <<>>

\* The account of the tables is inductive next to SheetRead.
LEMMA TablesAccountedStep == SheetRead /\ TablesAccounted /\ [Next]_vars => TablesAccounted'
  <1> SUFFICES ASSUME SheetRead, TablesAccounted, [Next]_vars PROVE TablesAccounted'
    OBVIOUS
  <1>1. doc \in Documents /\ page \in 0 .. Len(doc.pages) /\ tables \in Seq(SourceTables)
    BY DEF SheetRead
  <1>2. Len(tables) \in Nat
    BY <1>1, LenProperties
  <1>3. CASE DetectTables
    <2> DEFINE next == page + 1
               T    == PageTables
    <2>1. /\ phase' = "reading" /\ tables = <<>> /\ page < Len(doc.pages) /\ page' = next
          /\ tables' = find_table_html(doc.pages[next]) /\ UNCHANGED <<doc, tables_found>>
      BY <1>3 DEF DetectTables
    <2>2. /\ Len(doc.pages) \in Nat /\ DOMAIN doc.pages = 1 .. Len(doc.pages)
          /\ \A p \in 1 .. Len(doc.pages) : doc.pages[p] \in Seq(Nodes) /\ Tree(doc.pages[p])
      BY <1>1, SequencesOfPages
    <2>3. /\ page \in Nat /\ next \in 1 .. Len(doc.pages) /\ 1 .. page \subseteq 1 .. Len(doc.pages)
          /\ 1 .. next = (1 .. page) \cup {next} /\ next \notin 1 .. page
      BY <1>1, <2>1, <2>2
    <2>4. \A p \in 1 .. Len(doc.pages) : /\ TablesOn(doc.pages[p]) \in Nat
                                         /\ Len(find_table_html(doc.pages[p])) = TablesOn(doc.pages[p])
      BY <2>2, AllTablesFound
    <2>5. \A p \in 1 .. Len(doc.pages) : T[p] = TablesOn(doc.pages[p])
      BY <2>2 DEF PageTables
    <2> HIDE DEF T, next
    <2>6. Len(tables') = T[next] /\ T[next] \in Nat
      BY <2>1, <2>3, <2>4, <2>5
    <2>7. IsFiniteSet(1 .. page) /\ \A p \in 1 .. page : T[p] \in Int
      <3>1. 1 \in Int /\ page \in Int
        BY <2>3
      <3>2. \A p \in 1 .. Len(doc.pages) : T[p] \in Int
        BY <2>4, <2>5
      <3>3. \A p \in 1 .. page : T[p] \in Int
        BY <2>3, <3>2, Zenon
      <3> QED
        BY <3>1, <3>3, FS_Interval
    <2>8. Sum(T, (1 .. page) \cup {next}) = T[next] + Sum(T, 1 .. page)
      <3> DEFINE before == 1 .. page
      <3>1. /\ IsFiniteSet(before) /\ next \notin before
            /\ (\A p \in before : T[p] \in Int) /\ T[next] \in Int
        BY <2>3, <2>6, <2>7
      <3> HIDE DEF before
      <3> QED
        BY <3>1, SumPutIn DEF before
    <2>9. tables_found + 0 = Sum(T, 1 .. page) /\ tables_found \in Nat
      BY <2>1, EmptySeq DEF TablesAccounted, T
    <2>10. tables_found + Len(tables') = Sum(T, 1 .. next)
      <3>1. Sum(T, 1 .. next) = T[next] + Sum(T, 1 .. page)
        BY <2>3, <2>8, Zenon
      <3>2. Sum(T, 1 .. page) = tables_found
        BY <2>9
      <3>3. Sum(T, 1 .. next) = T[next] + tables_found
        BY <3>1, <3>2, Zenon
      <3> QED
        BY <2>6, <2>9, <3>3
    <2>11. PageTables' = T
      BY <2>1 DEF PageTables, T
    <2>12. tables_found' + Len(tables') = Sum(PageTables', 1 .. page')
      BY <2>1, <2>10, <2>11, Zenon
    <2> QED
      BY <2>1, <2>9, <2>12 DEF TablesAccounted
  <1>4. CASE ParseTable
    <2>1. /\ phase' = "reading" /\ tables # <<>> /\ tables' = Tail(tables)
          /\ tables_found' = tables_found + 1 /\ UNCHANGED <<doc, page>>
      BY <1>4 DEF ParseTable
    <2>2. Len(tables') = Len(tables) - 1
      BY <1>1, <2>1, HeadTailProperties
    <2>3. PageTables' = PageTables /\ 1 .. page' = 1 .. page
      BY <2>1 DEF PageTables
    <2>4. tables_found' + Len(tables') = tables_found + Len(tables) /\ tables_found' \in Nat
      BY <1>2, <2>1, <2>2 DEF TablesAccounted
    <2>5. Sum(PageTables', 1 .. page') = Sum(PageTables, 1 .. page)
      BY <2>3, Zenon
    <2> QED
      BY <2>1, <2>4, <2>5 DEF TablesAccounted
  <1>5. ASSUME UNCHANGED <<doc, page, tables, tables_found>>,
               phase' \in {"rules", "done"} => page = Len(doc.pages) /\ tables = <<>>
        PROVE  TablesAccounted'
    <2>1. PageTables' = PageTables
      BY <1>5 DEF PageTables
    <2>2. Sum(PageTables', 1 .. page') = Sum(PageTables, 1 .. page)
      BY <1>5, <2>1, Zenon
    <2> QED
      BY <1>5, <2>2 DEF TablesAccounted
  <1>6. CASE ReadRow \/ UNCHANGED vars \/ Returned \/ Evaluate
    BY <1>5, <1>6 DEF ReadRow, Returned, Evaluate, vars, readVars, TablesAccounted
  <1>7. CASE load_rules
    BY <1>5, <1>7 DEF load_rules, readVars
  <1> QED
    BY <1>3, <1>4, <1>6, <1>7 DEF Next

\* No table is overlooked, however deep in the result it is nested (_find_table_html,
\* extract_bctc): when the document is done, as many were parsed as all pages have.
THEOREM AllTablesAreRead == Spec => []EveryTableIsRead
  <1>1. Init => TablesAccounted
    <2> SUFFICES ASSUME Init PROVE TablesAccounted
      OBVIOUS
    <2>1. page = 0 /\ tables = <<>> /\ tables_found = 0 /\ phase = "reading"
      BY DEF Init
    <2>2. Sum(PageTables, 1 .. page) = 0
      <3>1. 1 .. page = {}
        BY <2>1
      <3> QED
        BY <3>1, SumEmpty
    <2> QED
      BY <2>1, <2>2, EmptySeq DEF TablesAccounted
  <1>2. ASSUME SheetRead, TablesAccounted
        PROVE  EveryTableIsRead
    <2> SUFFICES ASSUME phase = "done"
                 PROVE  tables_found = Sum(PageTables, DOMAIN doc.pages)
      BY DEF EveryTableIsRead, PageTables
    <2>1. DOMAIN doc.pages = 1 .. Len(doc.pages)
      BY <1>2, SequencesOfPages DEF SheetRead
    <2>2. page = Len(doc.pages) /\ tables = <<>> /\ tables_found \in Nat
          /\ tables_found + Len(tables) = Sum(PageTables, 1 .. page)
      BY <1>2 DEF TablesAccounted
    <2>3. tables_found + Len(tables) = tables_found
      BY <2>2, EmptySeq
    <2> QED
      BY <2>1, <2>2, <2>3, Zenon
  <1> QED
    BY <1>1, <1>2, TablesAccountedStep, SheetReadAlways, PTL DEF Spec

-----------------------------------------------------------------------------
(* The rows of the sheet                                                   *)

\* A row of a table that is about the k-th row r of the sheet and is read well.
WellReadRow(cells, k, r) ==
    /\ cells \in Seq(Pieces) /\ InOneRow(cells) /\ k \in Nat \ {0} /\ r \in PrintedRow
    /\ {1, 2, 3} \subseteq {cell.col : cell \in ToSet(cells)}
    /\ \A cell \in ToSet(cells) : ReadWell(cell, k, r)

\* Its cells i, j and h are those of its first three columns.
Columns(cells, k, r, i, j, h) ==
    /\ i \in DOMAIN cells /\ j \in DOMAIN cells /\ h \in DOMAIN cells
    /\ cells[i].col = 1 /\ cells[j].col = 2 /\ cells[h].col = 3 /\ i < j /\ j < h
    /\ \A n \in DOMAIN cells : \/ cells[n] = NoText
                               \/ /\ cells[n].row = k /\ cells[n].col >= 1
                                  /\ ReadWell(cells[n], k, r) /\ cells[n] # NoText
                                  /\ cells[n].col = 1 => n = i
                                  /\ cells[n].col = 2 => n = j
                                  /\ cells[n].col = 3 => n = h

\* A row that is read well has its three columns, each once and in order.
LEMMA RowColumns ==
    ASSUME NEW cells, NEW k, NEW r, WellReadRow(cells, k, r)
    PROVE  \E i, j, h : Columns(cells, k, r, i, j, h)
  <1>1. /\ cells \in Seq(Pieces) /\ DOMAIN cells = 1 .. Len(cells) /\ Len(cells) \in Nat
        /\ \A n \in DOMAIN cells : cells[n] \in Pieces
    BY LenProperties, ElementOfSeq DEF WellReadRow
  <1>2. k \in Nat \ {0} /\ InOneRow(cells)
    BY DEF WellReadRow
  <1>3. ASSUME NEW n \in DOMAIN cells, cells[n] # NoText
        PROVE  cells[n].row = k /\ cells[n].col >= 1 /\ ReadWell(cells[n], k, r)
    <2>1. ReadWell(cells[n], k, r)
      BY HasElement DEF WellReadRow
    <2> QED
      BY <1>3, <2>1 DEF ReadWell
  <1>4. ASSUME NEW c \in {1, 2, 3}
        PROVE  \E n \in DOMAIN cells : cells[n].col = c
    <2>1. c \in {cell.col : cell \in ToSet(cells)}
      BY Zenon DEF WellReadRow
    <2>2. PICK cell \in ToSet(cells) : cell.col = c
      BY <2>1
    <2> QED
      BY <2>2, HasElement
  <1>5. NoText.col = 0
    BY DEF NoText
  <1>6. ASSUME NEW n \in DOMAIN cells, NEW m \in DOMAIN cells, n < m,
               cells[n] # NoText, cells[m] # NoText
        PROVE  cells[n].col < cells[m].col
    <2>1. Printed(cells[n]) /\ Printed(cells[m])
      BY <1>2, <1>3, <1>6 DEF Printed
    <2> QED
      BY <1>2, <1>6, <2>1 DEF InOneRow
  <1>7. ASSUME NEW n \in DOMAIN cells, NEW m \in DOMAIN cells,
               cells[n] # NoText, cells[m] # NoText
        PROVE  /\ cells[n].col = cells[m].col => n = m
               /\ cells[n].col < cells[m].col => n < m
    <2>1. cells[n].col \in Nat /\ cells[m].col \in Nat /\ n \in Nat /\ m \in Nat
      <3>1. cells[n] \in Pieces /\ cells[m] \in Pieces
        BY <1>1, Zenon
      <3>2. cells[n].col \in Nat /\ cells[m].col \in Nat
        BY <3>1 DEF Pieces
      <3>3. n \in 1 .. Len(cells) /\ m \in 1 .. Len(cells) /\ Len(cells) \in Nat
        BY <1>1, Zenon
      <3>4. n \in Nat /\ m \in Nat
        BY <3>3
      <3> QED
        BY <3>2, <3>4
    <2>2. /\ n < m => cells[n].col < cells[m].col
          /\ m < n => cells[m].col < cells[n].col
      BY <1>6, <1>7
    <2> QED
      BY <2>1, <2>2
  <1>8. PICK i \in DOMAIN cells : cells[i].col = 1
    BY <1>4
  <1>9. PICK j \in DOMAIN cells : cells[j].col = 2
    BY <1>4
  <1>10. PICK h \in DOMAIN cells : cells[h].col = 3
    BY <1>4
  <1>11. cells[i] # NoText /\ cells[j] # NoText /\ cells[h] # NoText
    BY <1>5, <1>8, <1>9, <1>10
  <1>12. i < j /\ j < h
    BY <1>7, <1>8, <1>9, <1>10, <1>11
  <1>13. \A n \in DOMAIN cells : cells[n] # NoText =>
           /\ cells[n].col = 1 => n = i
           /\ cells[n].col = 2 => n = j
           /\ cells[n].col = 3 => n = h
    BY <1>7, <1>8, <1>9, <1>10, <1>11
  <1>14. Columns(cells, k, r, i, j, h)
    BY <1>3, <1>8, <1>9, <1>10, <1>12, <1>13, Zenon DEF Columns
  <1> QED
    BY <1>14

\* A cell without text is neither a number nor a code.
LEMMA EmptyCell == parse_vn_number(NoText.text) = {} /\ ~ReadsAsCode(NoText.text)
  <1>1. NoText.text = <<>>
    BY DEF NoText
  <1>2. Len(<<>>) # 3
    BY EmptySeq
  <1>3. strip(<<>>) = <<>>
    <2>1. {n \in DOMAIN <<>> : <<>>[n] \notin Space} = {}
      BY EmptySeq
    <2> QED
      BY <2>1, Zenon DEF strip
  <1>4. Blank(<<>>)
    BY EmptySeq DEF Blank, ConsistsOf
  <1>5. parse_vn_number(<<>>) = {}
    BY <1>3, <1>4, Zenon DEF parse_vn_number
  <1> QED
    BY <1>1, <1>2, <1>5, Zenon DEF ReadsAsCode

\* A blank text is not a number.
LEMMA BlankIsNoNumber ==
    ASSUME NEW X, NEW text \in Seq(X), Blank(text)
    PROVE  parse_vn_number(text) = {}
  <1> DEFINE B == Space \cup Dash
  <1>1. \A i \in DOMAIN text : text[i] \in B
    BY Zenon DEF Blank, ConsistsOf
  <1> HIDE DEF B
  <1>2. text \in Seq(B)
    <2>1. DOMAIN text = 1 .. Len(text) /\ Len(text) \in Nat
      BY LenProperties
    <2>2. text \in [1 .. Len(text) -> X]
      BY LenProperties, SeqDef
    <2>3. text \in [1 .. Len(text) -> B]
      BY <1>1, <2>1, <2>2
    <2> QED
      BY <2>1, <2>3, SeqDef
  <1> DEFINE t == strip(text)
  <1>3. t \in Seq(B)
    BY <1>2, StripType
  <1> HIDE DEF t
  <1>4. \A i \in DOMAIN t : t[i] \in B
    BY <1>3, LenProperties, ElementOfSeq
  <1>5. Blank(t)
    BY <1>4, Zenon DEF Blank, ConsistsOf, B
  <1> QED
    BY <1>5, Zenon DEF parse_vn_number, t

\* A row whose amounts were lost has no number.
LEMMA LostRow ==
    ASSUME NEW cells, NEW k, NEW r, WellReadRow(cells, k, r), r.how = "lost",
           NEW cell \in ToSet(cells)
    PROVE  parse_vn_number(cell.text) = {}
  <1>1. ReadWell(cell, k, r)
    BY DEF WellReadRow
  <1>2. cell.text \in Seq(STRING)
    <2>1. cells \in Seq(Pieces)
      BY DEF WellReadRow
    <2>2. PICK n \in DOMAIN cells : cells[n] = cell
      BY HasElement
    <2>3. cell \in Pieces
      BY <2>1, <2>2, LenProperties, ElementOfSeq
    <2> QED
      BY <2>3 DEF Pieces
  <1>3. cell = NoText \/ HasLetter(cell.text) \/ Blank(cell.text)
    BY <1>1 DEF ReadWell
  <1> QED
    BY <1>2, <1>3, EmptyCell, NamesAreNoNumbers, BlankIsNoNumber

\* A row that prints its code is about the item of the code.
LEMMA CodedRow ==
    ASSUME NEW cells, NEW k, NEW r, WellReadRow(cells, k, r), r.how = "coded"
    PROVE  match_ma_so(cells) = r.ma_so
  <1>1. PICK i, j, h : Columns(cells, k, r, i, j, h)
    BY RowColumns
  <1>2. /\ cells \in Seq(Pieces) /\ DOMAIN cells = 1 .. Len(cells) /\ Len(cells) \in Nat
        /\ \A n \in DOMAIN cells : cells[n] \in Pieces
    BY LenProperties, ElementOfSeq DEF WellReadRow
  <1>3. /\ j \in DOMAIN cells /\ cells[j].col = 2 /\ cells[j] # NoText /\ ReadWell(cells[j], k, r)
        /\ \A n \in DOMAIN cells : cells[n].col = 2 /\ cells[n] # NoText => n = j
    BY <1>1 DEF Columns, NoText
  <1>4. ReadsAsCode(cells[j].text) /\ NaturalOf(cells[j].text) = r.ma_so
    BY <1>3 DEF ReadWell
  <1>5. ASSUME NEW n \in CodeCells(cells)
        PROVE  n \in DOMAIN cells /\ j <= n
    <2>1. n \in DOMAIN cells /\ ReadsAsCode(cells[n].text)
      BY DEF CodeCells
    <2>2. cells[n] # NoText
      BY <2>1, EmptyCell
    <2>3. cells[n].row = k /\ cells[n].col >= 1 /\ ReadWell(cells[n], k, r)
      BY <1>1, <2>1, <2>2 DEF Columns
    <2>4. cells[n].col # 1
      <3>1. cells[n].col = 1 => HasLetter(cells[n].text)
        BY <2>2, <2>3 DEF ReadWell
      <3>2. cells[n].text \in Seq(STRING)
        BY <1>2, <2>1 DEF Pieces
      <3>3. HasLetter(cells[n].text) => ~ConsistsOf(cells[n].text, Digit)
        BY <3>2, NamesAreNoNumbers
      <3> QED
        BY <2>1, <3>1, <3>3 DEF ReadsAsCode
    <2>5. ~(n < j)
      <3>1. ASSUME n < j
            PROVE  cells[n].col < 2
        <4>1. Printed(cells[n]) /\ Printed(cells[j])
          BY <1>1, <1>3, <2>1, <2>3 DEF Columns, Printed, WellReadRow
        <4> QED
          BY <1>3, <2>1, <3>1, <4>1 DEF WellReadRow, InOneRow
      <3>2. cells[n].col \in Nat
        BY <1>2, <2>1 DEF Pieces
      <3> QED
        BY <2>3, <2>4, <3>1, <3>2
    <2> QED
      BY <1>2, <1>3, <2>1, <2>5
  <1>6. j \in CodeCells(cells)
    BY <1>3, <1>4 DEF CodeCells
  <1>7. Min(CodeCells(cells)) = j
    <2> DEFINE C == CodeCells(cells)
               N == Len(cells)
    <2>1. C \in SUBSET (1 .. N) /\ N \in Nat /\ C # {}
      BY <1>2, <1>5, <1>6
    <2>2. j \in C /\ \A n \in C : j <= n
      BY <1>5, <1>6
    <2> HIDE DEF C, N
    <2>3. Min(C) \in C /\ \A n \in C : Min(C) <= n
      BY <2>1, MinMax
    <2> DEFINE least == Min(C)
    <2>4. least \in C /\ least <= j
      BY <2>2, <2>3
    <2> HIDE DEF least
    <2>5. least \in Nat /\ j \in Nat /\ j <= least
      BY <2>1, <2>2, <2>4
    <2>6. least = j
      BY <2>4, <2>5
    <2> QED
      BY <2>6 DEF C, least
  <1>8. CodeCells(cells) # {}
    BY <1>6
  <1>9. match_ma_so(cells) = NaturalOf(cells[Min(CodeCells(cells))].text)
    BY <1>8, Zenon DEF match_ma_so
  <1> QED
    BY <1>4, <1>7, <1>9, Zenon

\* What the parser reads in a cell is an amount in hundredths.
Shows(cell, amount) == \E n : parse_vn_number(cell.text) = {n} /\ Hundredths(n) = amount

\* The name is in the column of the cell i, the amounts are those of j and h.
CleanRead(cells, k, r, i, j, h) ==
    /\ CodeCells(cells) = {}
    /\ parse_vn_number(cells[i].text) = {} /\ Len(cells[i].text) \in Nat \ {0}
    /\ cells[i].item = r.ma_so /\ cells[j].row = k
    /\ Shows(cells[j], r.amount) /\ Shows(cells[h], r.opening)
    /\ \A n \in DOMAIN cells : n \in {i, j, h} \/ cells[n] = NoText

\* A row in Vietnamese notation has amounts in its second and third column only, and
\* a name in its first.
LEMMA CleanCells ==
    ASSUME NEW cells, NEW k, NEW r, WellReadRow(cells, k, r), r.how = "clean",
           NEW i, NEW j, NEW h, Columns(cells, k, r, i, j, h)
    PROVE  CleanRead(cells, k, r, i, j, h)
  <1>1. \A n \in DOMAIN cells : cells[n] \in Pieces
    BY LenProperties, ElementOfSeq DEF WellReadRow
  <1>2. \A n \in DOMAIN cells : cells[n].text \in Seq(STRING) /\ cells[n].col \in Nat
    BY <1>1 DEF Pieces
  <1>3. /\ i \in DOMAIN cells /\ j \in DOMAIN cells /\ h \in DOMAIN cells
        /\ cells[i].col = 1 /\ cells[j].col = 2 /\ cells[h].col = 3
    BY DEF Columns
  <1>4. \A n \in DOMAIN cells : cells[n] # NoText =>
          /\ cells[n].row = k /\ cells[n].col >= 1 /\ ReadWell(cells[n], k, r)
          /\ cells[n].col = 1 => n = i
          /\ cells[n].col = 2 => n = j
          /\ cells[n].col = 3 => n = h
    BY Zenon DEF Columns
  <1>5. cells[i] # NoText /\ cells[j] # NoText /\ cells[h] # NoText
    BY <1>3 DEF NoText
  <1>6. \A n \in DOMAIN cells : cells[n] # NoText =>
          /\ cells[n].col <= 3 /\ ~ReadsAsCode(cells[n].text)
          /\ cells[n].col = 1 => HasLetter(cells[n].text) /\ cells[n].item = r.ma_so
          /\ cells[n].col = 2 => Prints(cells[n].text, r.amount)
          /\ cells[n].col = 3 => Prints(cells[n].text, r.opening)
    BY <1>4, Zenon DEF ReadWell
  <1>7. CodeCells(cells) = {}
    <2>1. ASSUME NEW n \in CodeCells(cells)
          PROVE  FALSE
      BY <1>6, EmptyCell DEF CodeCells
    <2> QED
      BY <2>1
  <1>8. parse_vn_number(cells[i].text) = {} /\ Len(cells[i].text) \in Nat \ {0}
    BY <1>2, <1>3, <1>5, <1>6, NamesAreNoNumbers
  <1>9. r.amount \in Int /\ r.opening \in Int
    BY DEF WellReadRow, PrintedRow
  <1>10. Shows(cells[j], r.amount)
    <2>1. Prints(cells[j].text, r.amount) /\ cells[j].text \in Seq(STRING)
      BY <1>2, <1>3, <1>5, <1>6
    <2> QED
      BY <1>9, <2>1, PrintedIsRead DEF Shows
  <1>11. Shows(cells[h], r.opening)
    <2>1. Prints(cells[h].text, r.opening) /\ cells[h].text \in Seq(STRING)
      BY <1>2, <1>3, <1>5, <1>6
    <2> QED
      BY <1>9, <2>1, PrintedIsRead DEF Shows
  <1>12. ASSUME NEW n \in DOMAIN cells, cells[n] # NoText
         PROVE  n \in {i, j, h}
    <2>1. cells[n].col = 1 \/ cells[n].col = 2 \/ cells[n].col = 3
      BY <1>2, <1>4, <1>6, <1>12
    <2> QED
      BY <1>4, <1>12, <2>1
  <1> QED
    <2>1. cells[i].item = r.ma_so /\ cells[j].row = k
      BY <1>3, <1>4, <1>5, <1>6
    <2>2. \A n \in DOMAIN cells : n \in {i, j, h} \/ cells[n] = NoText
      BY <1>12
    <2> QED
      BY <1>7, <1>8, <1>10, <1>11, <2>1, <2>2, Zenon DEF CleanRead

\* Such a row is about the first item of its name.
LEMMA CleanRow ==
    ASSUME NEW cells, NEW k, NEW r, WellReadRow(cells, k, r), r.how = "clean", r.ma_so \in MaSo
    PROVE  match_ma_so(cells) = NamesakeOf[r.ma_so]
  <1>1. PICK i, j, h : Columns(cells, k, r, i, j, h)
    BY RowColumns
  <1>2. /\ i \in DOMAIN cells /\ j \in DOMAIN cells /\ h \in DOMAIN cells
        /\ DOMAIN cells = 1 .. Len(cells) /\ Len(cells) \in Nat
    BY <1>1, LenProperties DEF Columns, WellReadRow
  <1>3. /\ CodeCells(cells) = {}
        /\ parse_vn_number(cells[i].text) = {} /\ Len(cells[i].text) \in Nat \ {0}
        /\ cells[i].item = r.ma_so
        /\ Shows(cells[j], r.amount) /\ Shows(cells[h], r.opening)
        /\ \A n \in DOMAIN cells : n \in {i, j, h} \/ cells[n] = NoText
    <2>1. CleanRead(cells, k, r, i, j, h)
      BY <1>1, CleanCells
    <2> QED
      BY <2>1, Zenon DEF CleanRead
  <1> DEFINE texts   == {n \in DOMAIN cells : parse_vn_number(cells[n].text) = {}}
             longest == {n \in texts : \A m \in texts : Len(cells[m].text) <= Len(cells[n].text)}
  <1>4. match_ma_so(cells) =
          IF cells[Min(longest)].item \in MaSo THEN NamesakeOf[cells[Min(longest)].item] ELSE NoCode
    <2>1. i \in texts
      BY <1>2, <1>3
    <2>2. cells[i].text # <<>>
      <3>1. Len(<<>>) = 0
        BY EmptySeq
      <3> QED
        BY <1>3, <3>1
    <2>3. ~\A n \in texts : cells[n].text = <<>>
      BY <2>1, <2>2, Zenon
    <2> QED
      BY <1>3, <2>3, Zenon DEF match_ma_so
  <1>5. longest = {i}
    <2>1. \A n \in texts : n = i \/ cells[n] = NoText
      BY <1>3 DEF Shows
    <2>2. i \in texts
      BY <1>2, <1>3
    <2>3. Len(NoText.text) = 0
      <3>1. NoText.text = <<>>
        BY DEF NoText
      <3> QED
        BY <3>1, EmptySeq
    <2> HIDE DEF texts
    <2>4. \A n \in texts : n = i \/ Len(cells[n].text) = 0
      BY <2>1, <2>3
    <2>5. \A n \in texts : Len(cells[n].text) <= Len(cells[i].text)
      BY <1>3, <2>4
    <2>6. \A n \in texts : n # i => ~(Len(cells[i].text) <= Len(cells[n].text))
      BY <1>3, <2>4
    <2> QED
      BY <2>2, <2>5, <2>6
  <1> HIDE DEF texts, longest
  <1>6. Min(longest) = i
    <2>1. longest \in SUBSET (1 .. Len(cells)) /\ longest # {}
      BY <1>2, <1>5
    <2>2. Min(longest) \in longest
      BY <1>2, <2>1, MinMax
    <2> QED
      BY <1>5, <2>2
  <1> QED
    BY <1>3, <1>4, <1>6

\* Such a row has two amounts: the closing one, with which it is filed, then the opening one.
LEMMA CleanNumbers ==
    ASSUME NEW cells, NEW k, NEW r, WellReadRow(cells, k, r), r.how = "clean"
    PROVE  /\ NumberCells(cells)[1].row = k
           /\ extract_numbers(cells) # <<>> /\ Len(extract_numbers(cells)) = 2
           /\ Hundredths(extract_numbers(cells)[1]) = r.amount
           /\ Hundredths(extract_numbers(cells)[2]) = r.opening
  <1>1. PICK i, j, h : Columns(cells, k, r, i, j, h)
    BY RowColumns
  <1>2. /\ i \in DOMAIN cells /\ j \in DOMAIN cells /\ h \in DOMAIN cells /\ j < h
        /\ DOMAIN cells = 1 .. Len(cells) /\ Len(cells) \in Nat /\ cells \in Seq(Pieces)
    BY <1>1, LenProperties DEF Columns, WellReadRow
  <1>3. /\ parse_vn_number(cells[i].text) = {} /\ cells[j].row = k
        /\ Shows(cells[j], r.amount)
        /\ Shows(cells[h], r.opening)
        /\ \A n \in DOMAIN cells : n \in {i, j, h} \/ cells[n] = NoText
    <2>1. CleanRead(cells, k, r, i, j, h)
      BY <1>1, CleanCells
    <2> QED
      BY <2>1, Zenon DEF CleanRead
  <1> DEFINE readable == {cells[n] : n \in {q \in DOMAIN cells : parse_vn_number(cells[q].text) # {}}}
             kept == Only(cells, readable)
             m == Len(kept)
  <1>4. NumberCells(cells) = kept
    BY Zenon DEF NumberCells
  <1>5. \A cell \in readable : parse_vn_number(cell.text) # {}
    OBVIOUS
  <1>6. cells[j] \in readable /\ cells[h] \in readable
    BY <1>2, <1>3 DEF Shows
  <1> HIDE DEF readable
  <1>7. kept \in Seq(Pieces)
    BY <1>2, OnlyIsSeq
  <1>8. DOMAIN kept = 1 .. m /\ m \in Nat
    <2> HIDE DEF kept
    <2> QED
      BY <1>7, LenProperties
  <1>9. PICK f : Positions(cells, readable, kept, f)
    BY <1>2, KeptPositions
  <1> HIDE DEF kept
  <1>10. /\ f \in [1 .. m -> DOMAIN cells]
         /\ \A a, b \in 1 .. m : a < b => f[a] < f[b]
         /\ \A a \in 1 .. m : kept[a] = cells[f[a]] /\ cells[f[a]] \in readable
         /\ \A n \in DOMAIN cells : cells[n] \in readable => \E a \in 1 .. m : f[a] = n
    BY <1>9, Zenon DEF Positions
  <1> HIDE DEF m
  <1>11. m = 2 /\ f[1] = j /\ f[2] = h
    <2> DEFINE D == DOMAIN cells
    <2>1. D \in SUBSET Nat /\ f \in [1 .. m -> D] /\ j \in D /\ h \in D
      BY <1>2, <1>10
    <2>2. \A a, b \in 1 .. m : a < b => f[a] < f[b]
      BY <1>10
    <2>3. ASSUME NEW a \in 1 .. m
          PROVE  f[a] = j \/ f[a] = h
      <3>1. f[a] \in DOMAIN cells /\ cells[f[a]] \in readable
        BY <1>10
      <3>2. parse_vn_number(cells[f[a]].text) # {}
        BY <1>5, <3>1
      <3>3. f[a] # i /\ cells[f[a]] # NoText
        BY <1>3, <3>2, EmptyCell
      <3> QED
        BY <1>3, <3>1, <3>3
    <2>4. (\E a \in 1 .. m : f[a] = j) /\ (\E a \in 1 .. m : f[a] = h)
      BY <1>2, <1>6, <1>10
    <2>5. m \in Nat /\ j < h
      BY <1>2, <1>8
    <2> HIDE DEF D
    <2> QED
      BY <2>1, <2>2, <2>3, <2>4, <2>5, TwoPositions
  <1>12. kept[1] = cells[j] /\ kept[2] = cells[h]
    BY <1>10, <1>11
  <1>13. extract_numbers(cells) = [n \in 1 .. 2 |-> TheOnly(parse_vn_number(kept[n].text))]
    BY <1>4, <1>8, <1>11 DEF extract_numbers
  <1>14. PICK x : parse_vn_number(cells[j].text) = {x} /\ Hundredths(x) = r.amount
    BY <1>3, Zenon DEF Shows
  <1>15. PICK y : parse_vn_number(cells[h].text) = {y} /\ Hundredths(y) = r.opening
    BY <1>3, Zenon DEF Shows
  <1>16. TheOnly({x}) = x /\ TheOnly({y}) = y
    BY DEF TheOnly
  <1> DEFINE numbers == extract_numbers(cells)
  <1>17. numbers[1] = x /\ numbers[2] = y
    BY <1>12, <1>13, <1>14, <1>15, <1>16
  <1>18. DOMAIN numbers = 1 .. 2 /\ numbers \in Seq({x, y})
    <2>1. DOMAIN numbers = 1 .. 2
      BY <1>13
    <2>2. numbers \in [1 .. 2 -> {x, y}]
      BY <1>12, <1>13, <1>14, <1>15, <1>16
    <2> DEFINE n == 2
               T == {x, y}
    <2>3. numbers \in [1 .. n -> T] /\ n \in Nat
      BY <2>2
    <2> HIDE DEF n, T, numbers
    <2>4. numbers \in Seq(T)
      BY <2>3, SeqDef
    <2> QED
      BY <2>1, <2>4 DEF T
  <1> HIDE DEF numbers
  <1>19. Len(numbers) = 2
    BY <1>18, LenProperties
  <1>20. numbers # <<>>
    BY <1>19, EmptySeq
  <1> QED
    BY <1>3, <1>4, <1>12, <1>14, <1>15, <1>17, <1>19, <1>20 DEF numbers

\* The amounts of a row are a sequence.
LEMMA NumbersAreListed ==
    ASSUME NEW cells \in Seq(Pieces)
    PROVE  \E X : extract_numbers(cells) \in Seq(X)
  <1> DEFINE kept == NumberCells(cells)
             m == Len(kept)
             numbers == [i \in DOMAIN kept |-> TheOnly(parse_vn_number(kept[i].text))]
             X == {TheOnly(parse_vn_number(kept[i].text)) : i \in DOMAIN kept}
  <1>1. kept \in Seq(Pieces)
    BY OnlyIsSeq, Zenon DEF NumberCells
  <1>2. DOMAIN kept = 1 .. m /\ m \in Nat
    <2> HIDE DEF kept
    <2> QED
      BY <1>1, LenProperties
  <1>3. numbers \in [1 .. m -> X]
    <2> HIDE DEF kept, m
    <2> QED
      BY <1>2
  <1>4. extract_numbers(cells) = numbers
    BY Zenon DEF extract_numbers
  <1> HIDE DEF kept, m, numbers, X
  <1>5. numbers \in Seq(X)
    BY <1>2, <1>3, SeqDef
  <1> QED
    BY <1>4, <1>5

\* The item of a row.
ItemOf(cells) ==
    [ma_so |-> match_ma_so(cells), so_cuoi_ky |-> extract_numbers(cells)[1],
     so_dau_ky |-> SubSeq(extract_numbers(cells), 2, Min({2, Len(extract_numbers(cells))})),
     cell |-> NumberCells(cells)[1]]

\* The item is filed as the printed row it is read from says, with its closing amount; no
\* row without amounts has one.
Filed(d, item) ==
    LET r == d.printed[item.cell.row]
    IN  /\ item.cell.row \in DOMAIN d.printed /\ r.how # "lost"
        /\ r.how = "coded" => item.ma_so = r.ma_so
        /\ r.how = "clean" => /\ r.ma_so \in MaSo /\ item.ma_so = NamesakeOf[r.ma_so]
                              /\ Hundredths(item.so_cuoi_ky) = r.amount

\* The item has the amounts of the printed row k.
Extracted(d, item, k) ==
    /\ item.cell.row = k /\ Hundredths(item.so_cuoi_ky) = d.printed[k].amount
    /\ Len(item.so_dau_ky) = 1 /\ Hundredths(item.so_dau_ky[1]) = d.printed[k].opening

\* A row of the tables that is about a properly printed row is read well.
LEMMA RowIsReadWell ==
    ASSUME NEW d \in Documents, NEW cells \in SourceRows, ToSet(cells) \in RowsOf(d),
           NEW k \in DOMAIN d.printed, d.printed[k].how \in Proper,
           IsAbout(ToSet(cells), k)
    PROVE  WellReadRow(cells, k, d.printed[k]) /\ d.printed[k].ma_so \in MaSo
  <1>1. d.printed \in Seq(PrintedRow)
    BY DocumentsAssumption
  <1>2. k \in Nat \ {0} /\ d.printed[k] \in PrintedRow
    BY <1>1, LenProperties, ElementOfSeq
  <1>3. /\ d.printed[k].ma_so \in MaSo
        /\ {1, 2, 3} \subseteq {cell.col : cell \in ToSet(cells)}
        /\ \A cell \in ToSet(cells) : ReadWell(cell, k, d.printed[k])
    <2>1. k \in {n \in DOMAIN d.printed : d.printed[n].how \in Proper}
      OBVIOUS
    <2> QED
      BY <2>1, ReadingAssumption, Zenon
  <1>4. cells \in Seq(Pieces) /\ InOneRow(cells)
    BY DEF SourceRows
  <1> QED
    BY <1>2, <1>3, <1>4, Zenon DEF WellReadRow

\* A row that is about a clean row becomes an item with its amounts.
LEMMA RowIsExtracted ==
    ASSUME NEW d \in Documents, NEW cells \in SourceRows, ToSet(cells) \in RowsOf(d),
           NEW k \in DOMAIN d.printed, d.printed[k].how = "clean", IsAbout(ToSet(cells), k)
    PROVE  /\ match_ma_so(cells) # NoCode /\ extract_numbers(cells) # <<>>
           /\ Extracted(d, ItemOf(cells), k)
  <1> DEFINE r == d.printed[k]
             numbers == extract_numbers(cells)
             rest == SubSeq(numbers, 2, Min({2, Len(numbers)}))
  <1>1. WellReadRow(cells, k, r) /\ r.ma_so \in MaSo
    BY RowIsReadWell DEF Proper
  <1>2. match_ma_so(cells) # NoCode
    <2>1. match_ma_so(cells) = NamesakeOf[r.ma_so]
      BY <1>1, CleanRow
    <2>2. NamesakeOf[r.ma_so] \in MaSo
      BY <1>1, CodesAssumption
    <2>3. 0 \notin MaSo
      BY CodesAssumption
    <2> QED
      BY <2>1, <2>2, <2>3 DEF NoCode
  <1>3. /\ NumberCells(cells)[1].row = k
        /\ numbers # <<>> /\ Len(numbers) = 2
        /\ Hundredths(numbers[1]) = r.amount /\ Hundredths(numbers[2]) = r.opening
    BY <1>1, CleanNumbers
  <1>4. PICK X : numbers \in Seq(X)
    BY NumbersAreListed DEF SourceRows
  <1> HIDE DEF numbers
  <1>5. Min({2, Len(numbers)}) = 2
    <2> DEFINE I == {2, Len(numbers)}
    <2>1. I = {2} /\ I \in SUBSET (1 .. 2) /\ 2 \in Nat /\ I # {}
      BY <1>3
    <2> HIDE DEF I
    <2>2. Min(I) \in I
      BY <2>1, MinMax
    <2>3. Min(I) = 2
      BY <2>1, <2>2
    <2> QED
      BY <2>3 DEF I
  <1>6. Len(rest) = 1 /\ rest[1] = numbers[2]
    <2>1. 2 \in 1 .. Len(numbers) + 1 /\ 2 \in 2 - 1 .. Len(numbers)
      BY <1>3
    <2>2. /\ Len(SubSeq(numbers, 2, 2)) = 2 - 2 + 1
          /\ \A i \in 1 .. 2 - 2 + 1 : SubSeq(numbers, 2, 2)[i] = numbers[2 + i - 1]
      BY <1>4, <2>1, Piece
    <2>3. 2 - 2 + 1 = 1 /\ 2 + 1 - 1 = 2 /\ 1 \in 1 .. 2 - 2 + 1
      OBVIOUS
    <2> QED
      BY <1>5, <2>2, <2>3
  <1>7. /\ ItemOf(cells).cell = NumberCells(cells)[1] /\ ItemOf(cells).so_cuoi_ky = numbers[1]
        /\ ItemOf(cells).so_dau_ky = rest
    BY DEF ItemOf, numbers
  <1> HIDE DEF rest
  <1>8. Extracted(d, ItemOf(cells), k)
    BY <1>3, <1>6, <1>7, Zenon DEF Extracted
  <1> QED
    BY <1>2, <1>3, <1>8 DEF numbers

\* The item of a row with an amount is filed as the row it is read from says.
LEMMA ItemIsFiled ==
    ASSUME NEW d \in Documents, NEW cells \in SourceRows, ToSet(cells) \in RowsOf(d),
           extract_numbers(cells) # <<>>
    PROVE  Filed(d, ItemOf(cells))
  <1> DEFINE kept == NumberCells(cells)
             cell == kept[1]
             k    == cell.row
             readable == {cells[i] : i \in {q \in DOMAIN cells : parse_vn_number(cells[q].text) # {}}}
  <1>1. cells \in Seq(Pieces)
    BY DEF SourceRows
  <1>2. extract_numbers(cells)[1] \in parse_vn_number(cell.text)
    BY <1>1, ReadCell
  <1>3. cell \in ToSet(cells)
    <2>1. kept = Only(cells, readable)
      BY Zenon DEF NumberCells
    <2> HIDE DEF readable
    <2>2. ToSet(Only(cells, readable)) = ToSet(cells) \cap readable /\ Only(cells, readable) \in Seq(Pieces)
      BY <1>1, SetOfOnly, OnlyIsSeq
    <2>3. DOMAIN extract_numbers(cells) = DOMAIN kept
      BY Zenon DEF extract_numbers
    <2> HIDE DEF kept
    <2>4. kept \in Seq(Pieces)
      BY <2>1, <2>2, Zenon
    <2>5. 1 \in DOMAIN kept
      <3>1. PICK X : extract_numbers(cells) \in Seq(X)
        BY <1>1, NumbersAreListed
      <3>2. 1 \in DOMAIN extract_numbers(cells)
        BY <3>1, FirstPosition
      <3> QED
        BY <2>3, <3>2
    <2>6. cell \in ToSet(kept)
      BY <2>5, HasElement
    <2> QED
      BY <2>1, <2>2, <2>6
  <1> HIDE DEF kept, cell
  <1>4. cell.text # <<>>
    <2>1. NoText.text = <<>>
      BY DEF NoText
    <2> QED
      BY <1>2, <2>1, EmptyCell
  <1>5. k \in DOMAIN d.printed
    BY <1>3, <1>4, ReadingAssumption, Zenon
  <1>6. IsAbout(ToSet(cells), k)
    BY <1>3 DEF IsAbout
  <1>7. ItemOf(cells).cell.row = k /\ ItemOf(cells).ma_so = match_ma_so(cells)
    BY DEF ItemOf, cell, kept
  <1> HIDE DEF k
  <1> DEFINE r == d.printed[k]
  <1>8. ASSUME r.how \in Proper
        PROVE  WellReadRow(cells, k, r) /\ r.ma_so \in MaSo
    BY <1>5, <1>6, <1>8, RowIsReadWell
  <1>9. r.how = "coded" => match_ma_so(cells) = r.ma_so
    BY <1>8, CodedRow DEF Proper
  <1>10. r.how = "clean" => /\ r.ma_so \in MaSo /\ match_ma_so(cells) = NamesakeOf[r.ma_so]
                            /\ Hundredths(ItemOf(cells).so_cuoi_ky) = r.amount
    <2> SUFFICES ASSUME r.how = "clean"
                 PROVE  /\ r.ma_so \in MaSo /\ match_ma_so(cells) = NamesakeOf[r.ma_so]
                        /\ Hundredths(ItemOf(cells).so_cuoi_ky) = r.amount
      OBVIOUS
    <2>1. r.ma_so \in MaSo /\ match_ma_so(cells) = NamesakeOf[r.ma_so]
      BY <1>8, CleanRow DEF Proper
    <2>2. Extracted(d, ItemOf(cells), k)
      BY <1>5, <1>6, RowIsExtracted
    <2> QED
      BY <2>1, <2>2, Zenon DEF Extracted
  <1>11. r.how # "lost"
    <2> SUFFICES ASSUME r.how = "lost" PROVE FALSE
      OBVIOUS
    <2>1. WellReadRow(cells, k, r)
      BY <1>8 DEF Proper
    <2>2. parse_vn_number(cell.text) = {}
      BY <1>3, <2>1, LostRow
    <2> QED
      BY <1>2, <2>2
  <1> QED
    BY <1>5, <1>7, <1>9, <1>10, <1>11, Zenon DEF Filed

\* What is read is of the document, and every item is filed as its row says.
SheetFiled ==
    /\ ToSet(tables) \subseteq TablesIn(doc)
    /\ \A row \in ToSet(rows) : ToSet(row) \in RowsOf(doc)
    /\ \A item \in ToSet(chi_tieu) : Filed(doc, item)

\* A table, a page, has a row about the printed row k.
HasRow(table, k) == \E cells \in RowsIn(table) : IsAbout(cells, k)
PageHas(d, p, k) ==
    \E n \in DOMAIN d.pages[p], c \in 1 .. 3 : HasRow(d.pages[p][n].html[TableKeys[c]], k)

\* The printed row k is an item, or is still to come.
Accounted(k) ==
    \/ \E p \in page + 1 .. Len(doc.pages) : PageHas(doc, p, k)
    \/ \E table \in ToSet(tables) : HasRow(table, k)
    \/ \E row \in ToSet(rows) : IsAbout(ToSet(row), k)
    \/ \E item \in ToSet(chi_tieu) : Extracted(doc, item, k)

Clean(d) == {k \in DOMAIN d.printed : d.printed[k].how = "clean"}

RowsAccounted ==
    /\ \A k \in Clean(doc) : Accounted(k)
    /\ phase \in {"rules", "done"} => page = Len(doc.pages) /\ tables = <<>> /\ rows = <<>>

\* The tables found on a page are of the document, and none with a row is left out.
LEMMA TablesOfPage ==
    ASSUME NEW d \in Documents, NEW p \in 1 .. Len(d.pages)
    PROVE  /\ ToSet(find_table_html(d.pages[p])) \subseteq TablesIn(d)
           /\ \A k : PageHas(d, p, k) =>
                \E table \in ToSet(find_table_html(d.pages[p])) : HasRow(table, k)
  <1> DEFINE result == d.pages[p]
             Held == AllTables(result)
             found == ToSet(find_table_html(result))
  <1>1. result \in Seq(Nodes) /\ Tree(result) /\ DOMAIN d.pages = 1 .. Len(d.pages)
    BY SequencesOfPages
  <1>2. found = Held \ {NoTable}
    <2> HIDE DEF result
    <2> QED
      BY <1>1, TablesAreFound
  <1>3. Held \subseteq TablesIn(d)
    BY <1>1 DEF TablesIn
  <1>4. \A k : ~HasRow(NoTable, k)
    <2>1. DOMAIN NoTable = {}
      BY DEF NoTable
    <2>2. \A cells : cells \notin RowsIn(NoTable)
      BY <2>1, RowsInIs
    <2> QED
      BY <2>2 DEF HasRow
  <1>5. ASSUME NEW k, PageHas(d, p, k)
        PROVE  \E table \in found : HasRow(table, k)
    <2>1. PICK n \in DOMAIN result, c \in 1 .. 3 : HasRow(result[n].html[TableKeys[c]], k)
      BY <1>5, Zenon DEF PageHas
    <2> DEFINE table == result[n].html[TableKeys[c]]
    <2>2. table \in Held /\ HasRow(table, k)
      <3> HIDE DEF result
      <3> QED
        BY <2>1, AllTablesAre
    <2> HIDE DEF table, found, Held
    <2>3. table \in found
      BY <1>2, <1>4, <2>2
    <2> QED
      BY <2>2, <2>3
  <1> QED
    BY <1>2, <1>3, <1>5

\* The rows parsed from a table are its rows.
LEMMA RowsOfParsed ==
    ASSUME NEW table \in SourceTables
    PROVE  /\ \A row \in ToSet(parse_html_rows(table)) : ToSet(row) \in RowsIn(table)
           /\ \A k : HasRow(table, k) =>
                \E row \in ToSet(parse_html_rows(table)) : IsAbout(ToSet(row), k)
  <1> DEFINE parsed == parse_html_rows(table)
  <1>1. {ToSet(parsed[n]) : n \in DOMAIN parsed} = RowsIn(table)
    BY RowsAreRead DEF SourceTables
  <1> HIDE DEF parsed
  <1>2. ASSUME NEW row \in ToSet(parsed)
        PROVE  ToSet(row) \in RowsIn(table)
    BY <1>1, HasElement
  <1>3. ASSUME NEW k, HasRow(table, k)
        PROVE  \E row \in ToSet(parsed) : IsAbout(ToSet(row), k)
    <2>1. PICK cells \in RowsIn(table) : IsAbout(cells, k)
      BY <1>3 DEF HasRow
    <2>2. PICK n \in DOMAIN parsed : ToSet(parsed[n]) = cells
      BY <1>1
    <2>3. parsed[n] \in ToSet(parsed)
      BY HasElement
    <2> QED
      BY <2>1, <2>2, <2>3
  <1> QED
    BY <1>2, <1>3 DEF parsed

\* A row becomes an item, or has no code or no amount.
LEMMA ReadRowEffect ==
    ASSUME ReadRow
    PROVE  /\ rows # <<>> /\ rows' = Tail(rows) /\ UNCHANGED <<doc, page, tables, phase>>
           /\ phase = "reading"
           /\ \/ /\ chi_tieu' = chi_tieu
                 /\ match_ma_so(Head(rows)) = NoCode \/ extract_numbers(Head(rows)) = <<>>
              \/ /\ chi_tieu' = Append(chi_tieu, ItemOf(Head(rows)))
                 /\ extract_numbers(Head(rows)) # <<>>
  <1>1. rows # <<>> /\ rows' = Tail(rows) /\ UNCHANGED <<doc, page, tables, phase>> /\ phase = "reading"
    BY DEF ReadRow
  <1>2. \/ /\ UNCHANGED <<values, chi_tieu>>
           /\ match_ma_so(Head(rows)) = NoCode \/ extract_numbers(Head(rows)) = <<>>
        \/ /\ chi_tieu' = Append(chi_tieu, ItemOf(Head(rows)))
           /\ ~(match_ma_so(Head(rows)) = NoCode \/ extract_numbers(Head(rows)) = <<>>)
    BY Zenon DEF ReadRow, ItemOf
  <1> QED
    BY <1>1, <1>2

\* At the start nothing is filed and every row is on a page to come.
LEMMA RowsAccountedInit == Init => SheetFiled /\ RowsAccounted
  <1> SUFFICES ASSUME Init PROVE SheetFiled /\ RowsAccounted
    OBVIOUS
  <1>1. /\ doc \in Documents /\ page = 0 /\ tables = <<>> /\ rows = <<>> /\ chi_tieu = <<>>
        /\ phase = "reading"
    BY DEF Init
  <1>2. ToSet(<<>>) = {}
    BY DEF ToSet
  <1>3. SheetFiled
    BY <1>1, <1>2 DEF SheetFiled
  <1>4. ASSUME NEW k \in Clean(doc)
        PROVE  Accounted(k)
    <2>1. PICK cells \in RowsOf(doc) : IsAbout(cells, k)
      <3>1. k \in DOMAIN doc.printed /\ doc.printed[k].how \in Proper
        BY DEF Clean, Proper
      <3> QED
        BY <1>1, <3>1, ReadingAssumption, Zenon
    <2>2. PICK table \in TablesIn(doc) : cells \in RowsIn(table)
      BY DEF RowsOf
    <2>3. PICK p \in DOMAIN doc.pages :
            \E n \in DOMAIN doc.pages[p], c \in 1 .. 3 : table = doc.pages[p][n].html[TableKeys[c]]
      <3>1. PICK p \in DOMAIN doc.pages : table \in AllTables(doc.pages[p])
        BY <2>2 DEF TablesIn
      <3>2. \E n \in DOMAIN doc.pages[p] : \E c \in 1 .. 3 :
              table = doc.pages[p][n].html[TableKeys[c]]
        BY <3>1, AllTablesAre
      <3> QED
        BY <3>2
    <2>4. HasRow(table, k)
      BY <2>1, <2>2 DEF HasRow
    <2>5. PageHas(doc, p, k)
      BY <2>3, <2>4, Zenon DEF PageHas
    <2>6. p \in page + 1 .. Len(doc.pages)
      <3>1. DOMAIN doc.pages = 1 .. Len(doc.pages) /\ page + 1 = 1
        BY <1>1, SequencesOfPages
      <3> QED
        BY <3>1
    <2> QED
      BY <2>5, <2>6, Zenon DEF Accounted
  <1> QED
    BY <1>1, <1>3, <1>4 DEF RowsAccounted

\* The detection of a page brings its tables.
LEMMA DetectAccounted ==
    ASSUME SheetRead, SheetFiled, RowsAccounted, DetectTables
    PROVE  SheetFiled' /\ RowsAccounted'
  <1> DEFINE next == page + 1
  <1>1. /\ tables = <<>> /\ rows = <<>> /\ page < Len(doc.pages) /\ page' = next
        /\ tables' = find_table_html(doc.pages[next])
        /\ UNCHANGED <<doc, rows, chi_tieu, phase>> /\ phase = "reading"
    BY DEF DetectTables, resultVars
  <1>2. doc \in Documents /\ page \in 0 .. Len(doc.pages) /\ Len(doc.pages) \in Nat
    BY SequencesOfPages DEF SheetRead
  <1>3. next \in 1 .. Len(doc.pages) /\ \A p \in page + 1 .. Len(doc.pages) : p = next \/ p \in next + 1 .. Len(doc.pages)
    BY <1>1, <1>2
  <1> HIDE DEF next
  <1>4. /\ ToSet(tables') \subseteq TablesIn(doc)
        /\ \A k : PageHas(doc, next, k) => \E table \in ToSet(tables') : HasRow(table, k)
    BY <1>1, <1>2, <1>3, TablesOfPage
  <1>5. SheetFiled'
    BY <1>1, <1>4 DEF SheetFiled
  <1>6. ASSUME NEW k \in Clean(doc)
        PROVE  Accounted(k)'
    <2>1. ToSet(<<>>) = {}
      BY DEF ToSet
    <2>2. Accounted(k)
      BY Zenon DEF RowsAccounted
    <2>3. \/ \E p \in page + 1 .. Len(doc.pages) : PageHas(doc, p, k)
          \/ \E item \in ToSet(chi_tieu) : Extracted(doc, item, k)
      BY <1>1, <2>1, <2>2 DEF Accounted
    <2>4. \/ PageHas(doc, next, k)
          \/ \E p \in next + 1 .. Len(doc.pages) : PageHas(doc, p, k)
          \/ \E item \in ToSet(chi_tieu) : Extracted(doc, item, k)
      BY <1>3, <2>3
    <2> QED
      BY <1>1, <1>4, <2>4 DEF Accounted
  <1> QED
    BY <1>1, <1>5, <1>6 DEF RowsAccounted

\* A table that is parsed leaves its rows.
LEMMA ParseAccounted ==
    ASSUME SheetRead, SheetFiled, RowsAccounted, ParseTable
    PROVE  SheetFiled' /\ RowsAccounted'
  <1> DEFINE table == Head(tables)
  <1>1. /\ tables # <<>> /\ rows = <<>> /\ tables' = Tail(tables) /\ rows' = parse_html_rows(table)
        /\ UNCHANGED <<doc, page, chi_tieu, phase>> /\ phase = "reading"
    BY DEF ParseTable, resultVars
  <1>2. tables \in Seq(SourceTables)
    BY DEF SheetRead
  <1>3. table \in SourceTables
    BY <1>1, <1>2, HeadTailProperties
  <1>4. ToSet(tables) = {table} \cup ToSet(tables')
    BY <1>1, <1>2, SetOfTail
  <1> HIDE DEF table
  <1>5. /\ \A row \in ToSet(rows') : ToSet(row) \in RowsIn(table)
        /\ \A k : HasRow(table, k) => \E row \in ToSet(rows') : IsAbout(ToSet(row), k)
    BY <1>1, <1>3, RowsOfParsed
  <1>6. RowsIn(table) \subseteq RowsOf(doc)
    BY <1>4 DEF SheetFiled, RowsOf
  <1>7. SheetFiled'
    BY <1>1, <1>4, <1>5, <1>6 DEF SheetFiled
  <1>8. ASSUME NEW k \in Clean(doc)
        PROVE  Accounted(k)'
    <2>1. ToSet(<<>>) = {}
      BY DEF ToSet
    <2>2. Accounted(k)
      BY Zenon DEF RowsAccounted
    <2>3. \/ \E p \in page + 1 .. Len(doc.pages) : PageHas(doc, p, k)
          \/ \E t \in ToSet(tables) : HasRow(t, k)
          \/ \E item \in ToSet(chi_tieu) : Extracted(doc, item, k)
      BY <1>1, <2>1, <2>2 DEF Accounted
    <2>4. \/ \E p \in page + 1 .. Len(doc.pages) : PageHas(doc, p, k)
          \/ HasRow(table, k)
          \/ \E t \in ToSet(tables') : HasRow(t, k)
          \/ \E item \in ToSet(chi_tieu) : Extracted(doc, item, k)
      BY <1>4, <2>3
    <2> QED
      BY <1>1, <1>5, <2>4 DEF Accounted
  <1> QED
    BY <1>1, <1>7, <1>8 DEF RowsAccounted

\* A row that is read leaves its item.
LEMMA RowAccounted ==
    ASSUME SheetRead, SheetFiled, RowsAccounted, ReadRow
    PROVE  SheetFiled' /\ RowsAccounted'
  <1> DEFINE cells == Head(rows)
             item == ItemOf(cells)
             Old == ToSet(chi_tieu)
  <1>1. /\ rows # <<>> /\ rows' = Tail(rows) /\ UNCHANGED <<doc, page, tables, phase>>
        /\ phase = "reading"
        /\ \/ chi_tieu' = chi_tieu /\ (match_ma_so(cells) = NoCode \/ extract_numbers(cells) = <<>>)
           \/ chi_tieu' = Append(chi_tieu, item) /\ extract_numbers(cells) # <<>>
    BY ReadRowEffect
  <1>2. rows \in Seq(SourceRows) /\ doc \in Documents
    BY DEF SheetRead
  <1>3. cells \in SourceRows
    BY <1>1, <1>2, HeadTailProperties
  <1>4. ToSet(rows) = {cells} \cup ToSet(rows')
    BY <1>1, <1>2, SetOfTail
  <1>5. chi_tieu' = Append(chi_tieu, item) => ToSet(chi_tieu') = Old \cup {item}
    <2>1. PICK Items : chi_tieu \in Seq(Items)
      BY DEF SheetRead
    <2> DEFINE X == Items \cup {item}
    <2>2. chi_tieu \in Seq(X) /\ item \in X
      BY <2>1, SeqMonotonic
    <2> HIDE DEF X, item
    <2>3. ToSet(Append(chi_tieu, item)) = ToSet(chi_tieu) \cup {item}
      BY <2>2, SetOfAppend
    <2> QED
      BY <2>3
  <1> HIDE DEF cells, item
  <1>6. ToSet(cells) \in RowsOf(doc)
    BY <1>4 DEF SheetFiled
  <1>7. extract_numbers(cells) # <<>> => Filed(doc, item)
    BY <1>2, <1>3, <1>6, ItemIsFiled DEF item
  <1>8. SheetFiled'
    <2>1. ToSet(tables') \subseteq TablesIn(doc) /\ \A row \in ToSet(rows') : ToSet(row) \in RowsOf(doc)
      BY <1>1, <1>4 DEF SheetFiled
    <2>2. \A i \in ToSet(chi_tieu') : Filed(doc, i)
      BY <1>1, <1>5, <1>7 DEF SheetFiled
    <2> QED
      BY <1>1, <2>1, <2>2, Zenon DEF SheetFiled
  <1>9. ASSUME NEW k \in Clean(doc)
        PROVE  Accounted(k)'
    <2>1. Accounted(k)
      BY Zenon DEF RowsAccounted
    <2>2. k \in DOMAIN doc.printed /\ doc.printed[k].how = "clean"
      BY DEF Clean
    <2>3. IsAbout(ToSet(cells), k) =>
            /\ match_ma_so(cells) # NoCode /\ extract_numbers(cells) # <<>> /\ Extracted(doc, item, k)
      BY <1>2, <1>3, <1>6, <2>2, RowIsExtracted DEF item
    <2>4. IsAbout(ToSet(cells), k) => \E i \in ToSet(chi_tieu') : Extracted(doc, i, k)
      BY <1>1, <1>5, <2>3
    <2>5. Old \subseteq ToSet(chi_tieu')
      BY <1>1, <1>5
    <2>6. \/ \E p \in page + 1 .. Len(doc.pages) : PageHas(doc, p, k)
          \/ \E t \in ToSet(tables) : HasRow(t, k)
          \/ \E row \in ToSet(rows') : IsAbout(ToSet(row), k)
          \/ \E i \in ToSet(chi_tieu') : Extracted(doc, i, k)
      BY <1>4, <2>1, <2>4, <2>5 DEF Accounted
    <2> QED
      BY <1>1, <2>6 DEF Accounted
  <1> QED
    BY <1>1, <1>8, <1>9 DEF RowsAccounted

\* The invariant is inductive next to SheetRead.
LEMMA RowsAccountedStep ==
    SheetRead /\ SheetFiled /\ RowsAccounted /\ [Next]_vars => SheetFiled' /\ RowsAccounted'
  <1> SUFFICES ASSUME SheetRead, SheetFiled, RowsAccounted, [Next]_vars
               PROVE  SheetFiled' /\ RowsAccounted'
    OBVIOUS
  <1>1. CASE DetectTables
    BY <1>1, DetectAccounted
  <1>2. CASE ParseTable
    BY <1>2, ParseAccounted
  <1>3. CASE ReadRow
    BY <1>3, RowAccounted
  <1>4. ASSUME UNCHANGED <<doc, page, tables, rows, chi_tieu>>,
               phase' \in {"rules", "done"} => page = Len(doc.pages) /\ tables = <<>> /\ rows = <<>>
        PROVE  SheetFiled' /\ RowsAccounted'
    <2>1. SheetFiled'
      BY <1>4 DEF SheetFiled
    <2>2. \A k \in Clean(doc) : Accounted(k)'
      BY <1>4 DEF RowsAccounted, Accounted
    <2> QED
      BY <1>4, <2>1, <2>2 DEF RowsAccounted
  <1>5. CASE UNCHANGED vars \/ Returned \/ Evaluate
    BY <1>4, <1>5 DEF Returned, Evaluate, vars, readVars, resultVars, RowsAccounted
  <1>6. CASE load_rules
    BY <1>4, <1>6 DEF load_rules, readVars, resultVars
  <1> QED
    BY <1>1, <1>2, <1>3, <1>5, <1>6 DEF Next

\* At every moment the printed rows are accounted for and the items are filed.
LEMMA RowsAccountedAlways == Spec => [](SheetFiled /\ RowsAccounted)
  BY RowsAccountedInit, RowsAccountedStep, SheetReadAlways, PTL DEF Spec

\* An item is filed under the code that its row prints, or else under an item that has
\* its name (_match_ma_so), for every catalogue and every document whose clean and coded
\* rows are read without error.
THEOREM ItemsAreFiled == Spec => []FiledUnderItsCode
  <1>1. ASSUME SheetFiled
        PROVE  FiledUnderItsCode
    <2> SUFFICES ASSUME NEW i \in DOMAIN chi_tieu
                 PROVE  LET row == Source(chi_tieu[i])
                        IN  /\ row.how = "coded" => chi_tieu[i].ma_so = row.ma_so
                            /\ row.how = "clean" =>
                                 NamesakeOf[chi_tieu[i].ma_so] = NamesakeOf[row.ma_so]
      BY Zenon DEF FiledUnderItsCode
    <2>1. chi_tieu[i] \in ToSet(chi_tieu)
      BY HasElement
    <2>2. Filed(doc, chi_tieu[i])
      BY <1>1, <2>1 DEF SheetFiled
    <2> DEFINE row == Source(chi_tieu[i])
    <2>3. /\ row.how = "coded" => chi_tieu[i].ma_so = row.ma_so
          /\ row.how = "clean" => row.ma_so \in MaSo /\ chi_tieu[i].ma_so = NamesakeOf[row.ma_so]
      BY <2>2, Zenon DEF Filed, Source
    <2> HIDE DEF row
    <2>4. row.how = "clean" => NamesakeOf[chi_tieu[i].ma_so] = NamesakeOf[row.ma_so]
      <3>1. \A c \in MaSo : NamesakeOf[NamesakeOf[c]] = NamesakeOf[c]
        BY CodesAssumption
      <3>2. ASSUME row.how = "clean" PROVE row.ma_so \in MaSo
        BY <2>3, <3>2
      <3>3. ASSUME row.how = "clean" PROVE chi_tieu[i].ma_so = NamesakeOf[row.ma_so]
        BY <2>3, <3>3
      <3> QED
        BY <3>1, <3>2, <3>3
    <2> QED
      BY <2>3, <2>4 DEF row
  <1> QED
    BY <1>1, RowsAccountedAlways, PTL

\* When every row is clean or lost and the items that share a name agree, no value is
\* wrong: a value is that of an item, an item is of a clean row, and has its amount.
LEMMA NothingIsWrong ==
    ASSUME SheetFiled, JudgedAsReported, IsRead(doc, {"clean", "lost"}), NamesAgree(doc)
    PROVE  WrongCodes = {}
  <1> SUFFICES ASSUME NEW c \in DOMAIN values PROVE ValueOf(c) \in PrintedFor(c)
    BY DEF WrongCodes
  <1>1. PICK i \in DOMAIN chi_tieu : chi_tieu[i].ma_so = c /\ chi_tieu[i].so_cuoi_ky = values[c]
    BY DEF JudgedAsReported
  <1> DEFINE item == chi_tieu[i]
             k    == item.cell.row
             r    == doc.printed[k]
  <1>2. Filed(doc, item)
    <2>1. item \in ToSet(chi_tieu)
      BY HasElement
    <2> QED
      BY <2>1 DEF SheetFiled
  <1>3. k \in DOMAIN doc.printed /\ r.how # "lost"
    BY <1>2, Zenon DEF Filed
  <1>4. r.how = "clean"
    BY <1>3 DEF IsRead
  <1>5. c = NamesakeOf[r.ma_so] /\ Hundredths(values[c]) = r.amount
    BY <1>1, <1>2, <1>4, Zenon DEF Filed
  <1>6. PICK n \in LinesOf(doc, NamesakeOf[r.ma_so]) : doc.printed[n].amount = r.amount
    BY <1>3, <1>4, Zenon DEF NamesAgree
  <1>7. n \in LinesOf(doc, c) /\ ValueOf(c) = doc.printed[n].amount
    BY <1>5, <1>6, Zenon DEF ValueOf
  <1> QED
    BY <1>7, Zenon DEF PrintedFor

\* No false alarm: the rules that flag a sheet that is read without error are those that
\* its printed amounts break, up to the rounding of the doubles (evaluate_rules), for
\* every rule set and whichever of its rows are missing, blank or filed under another
\* item with the same name and amount.
THEOREM NoFalseAlarm == Spec => []OnlyImbalanceIsFlagged
  <1>1. ASSUME SheetRead, RulesJudged, SheetFiled, JudgedAsReported
        PROVE  OnlyImbalanceIsFlagged
    <2> SUFFICES ASSUME phase = "done", IsRead(doc, {"clean", "lost"}), NamesAgree(doc),
                        NEW r \in flags
                 PROVE  LET printed == [c \in Codes(r) |-> PrintedAmount(doc, c)]
                        IN  Magnitude(Delta(r, printed)) + RoundingError(r, printed) > Tolerance
      BY Zenon DEF OnlyImbalanceIsFlagged
    <2> DEFINE read    == Amounts(values)
               printed == [c \in Codes(r) |-> PrintedAmount(doc, c)]
               e       == RoundingError(r, read)
               delta   == Delta(r, read)
    <2>1. r \in Rules /\ WrongCodes = {}
      BY <1>1, FlagsAreRules, NothingIsWrong
    <2>2. Codes(r) \subseteq DOMAIN values
      <3>1. Applies(r, read)
        BY <1>1, <2>1, FlaggedIsBroken
      <3> QED
        BY <3>1 DEF Applies, Amounts
    <2>3. Codes(r) \subseteq PrintedCodes(doc)
      BY <1>1, <2>1, <2>2, ReadAsPrinted
    <2>4. ASSUME NEW c \in Codes(r)
          PROVE  read[c] = printed[c] /\ read[c] \in Int
      <3>1. ValueOf(c) = PrintedAmount(doc, c)
        BY <1>1, <2>1, <2>2, <2>3, ReadAsPrinted
      <3>2. read[c] = ValueOf(c) /\ ValueOf(c) \in Int
        BY <1>1, <2>2, ValuesAreNumbers
      <3> QED
        BY <3>1, <3>2
    <2>5. PICK offset \in Offsets(r, read) : Broken(r, read, offset)
      <3>1. Applies(r, read)
        BY <1>1, <2>1, FlaggedIsBroken
      <3>2. \E offset \in Offsets(r, Amounts(values)) :
              r \in flags <=> Broken(r, Amounts(values), offset)
        BY <1>1, <2>1, <3>1, FlaggedIsBroken
      <3> QED
        BY <3>2, Zenon
    <2> HIDE DEF read, printed
    <2>6. delta = Delta(r, printed) /\ e = RoundingError(r, printed)
      BY <2>1, <2>4, SameDelta, SameRounding
    <2>7. delta \in Int /\ e \in Nat
      BY <2>1, <2>4, DeltaType, RoundingErrorType
    <2>8. offset \in Int /\ (offset = 0 \/ (offset < 2 * e /\ -offset < 2 * e))
      BY <2>5, <2>7, OffsetIsSmall
    <2>9. 2 * delta + offset > 200 \/ 2 * delta + offset < -200
      BY <2>5 DEF Broken, Tolerance
    <2> HIDE DEF delta, e
    <2>10. Magnitude(delta) + e > Tolerance
      BY <2>7, <2>8, <2>9 DEF Magnitude, Tolerance
    <2> QED
      BY <2>6, <2>10, Zenon DEF printed
  <1> QED
    BY <1>1, SheetReadAlways, RulesJudgedAlways, RowsAccountedAlways, JudgedIsReported, PTL

\* Every clean row of the sheet becomes an item with both of its amounts, whatever
\* notation they are in, and however its tables are nested, split over pages, repeated
\* or left without end tags (extract_bctc).
THEOREM RowsAreExtracted == Spec => []PrintedRowsAreExtracted
  <1>1. ASSUME SheetRead, RowsAccounted
        PROVE  PrintedRowsAreExtracted
    <2> SUFFICES ASSUME phase = "done", NEW k \in Clean(doc)
                 PROVE  \E i \in DOMAIN chi_tieu : Extracted(doc, chi_tieu[i], k)
      BY Zenon DEF PrintedRowsAreExtracted, Clean, Extracted
    <2>1. page = Len(doc.pages) /\ tables = <<>> /\ rows = <<>> /\ Accounted(k)
      BY <1>1 DEF RowsAccounted
    <2>2. page + 1 .. Len(doc.pages) = {}
      <3>1. Len(doc.pages) \in Nat
        BY <1>1, SequencesOfPages DEF SheetRead
      <3> QED
        BY <2>1, <3>1
    <2>3. ToSet(<<>>) = {}
      BY DEF ToSet
    <2>4. PICK item \in ToSet(chi_tieu) : Extracted(doc, item, k)
      BY <2>1, <2>2, <2>3 DEF Accounted
    <2>5. PICK i \in DOMAIN chi_tieu : chi_tieu[i] = item
      BY HasElement
    <2> QED
      BY <2>4, <2>5
  <1> QED
    BY <1>1, RowsAccountedAlways, SheetReadAlways, PTL
=============================================================================
