--------------------------- MODULE MCBalanceSheet ---------------------------
(* Documents for BalanceSheet: balance sheets with the codes of the shipped  *)
(* rules, and small tables with every short text, end tags left out, codes   *)
(* for amounts, or items that share a name.                                  *)
EXTENDS BalanceSheet, Catalogue

CONSTANT TextLength   \* bound: length of the odd texts

-----------------------------------------------------------------------------
(* Amounts, in hundredths, and their notations                             *)

Dec[n \in Nat] == IF n < 10 THEN <<Digits[n + 1]>> ELSE Dec[n \div 10] \o <<Digits[(n % 10) + 1]>>
Padded(n)  == <<Digits[((n \div 10) % 10) + 1], Digits[(n % 10) + 1]>>

Grouped(n, sep) ==
    LET group[k \in Nat] ==
            IF k < 1000 THEN Dec[k]
            ELSE group[k \div 1000] \o <<sep, Digits[((k % 1000) \div 100) + 1]>> \o Padded(k)
    IN  group[n]

Notations == {"dots", "spaces", "brackets"}

Text(a, notation) ==
    LET size == IF a < 0 THEN -a ELSE a
        body == Grouped(size \div 100, IF notation = "spaces" THEN " " ELSE ".")
                \o (IF size % 100 = 0 THEN <<>> ELSE <<",">> \o Padded(size))
    IN  IF a >= 0 THEN body
        ELSE IF notation = "brackets" THEN <<"(">> \o body \o <<")">> ELSE <<"-">> \o body

-----------------------------------------------------------------------------
(* Tables                                                                  *)

Cell(text, item, row, col) == [text |-> text, item |-> item, row |-> row, col |-> col]
Start(tag)  == [type |-> "start", tag |-> tag, data |-> NoText]
End(tag)    == [type |-> "end", tag |-> tag, data |-> NoText]
Data(cell)  == [type |-> "data", tag |-> "", data |-> cell]

\* A printed row r with its texts: name, code if it has one, closing, opening amount.
CellsOf(k, r) ==
    LET texts == <<<<"x", "x", "x", "x">>>>
                 \o (IF r.how = "coded" THEN <<Dec[r.ma_so]>> ELSE <<>>)
                 \o <<r.text, IF r.how = "lost" THEN <<"-">> ELSE <<"9", ".", "0", "0", "0">>>>
    IN  [c \in DOMAIN texts |-> Cell(texts[c], IF c = 1 THEN r.ma_so ELSE NoCode, k, c)]

\* The text of a cell: in the first rows with white space around it and split by a
\* nested tag.
TextTokens(cell) ==
    LET half == Len(cell.text) \div 2
        part(a, b) == Data([cell EXCEPT !.text = SubSeq(@, a, b)])
    IN  IF cell.row > 2 THEN <<Data(cell)>>
        ELSE <<Data([cell EXCEPT !.text = <<" ">>]), part(1, half), Start("b"),
               part(half + 1, Len(cell.text)), End("b")>>

CellTokens(cell, tag, ended) ==
    <<Start(tag)>> \o TextTokens(cell) \o (IF ended THEN <<End(tag)>> ELSE <<>>)

RowTokens(k, r, unended) ==
    <<Start("tr")>>
    \o FlattenSeq([c \in DOMAIN CellsOf(k, r) |->
                     CellTokens(CellsOf(k, r)[c], IF c = 1 THEN "th" ELSE "td",
                                <<k, c>> \notin unended)])
    \o (IF <<k, 0>> \in unended THEN <<>> ELSE <<End("tr")>>)

Table(printed, from, to, unended) ==
    FlattenSeq([i \in 1 .. to - from + 1 |-> RowTokens(from + i - 1, printed[from + i - 1], unended)])

NoTables == [k \in {"html", "pred_html", "table_html"} |-> NoTable]
NodeOf(html, kids) == [html |-> html, kids |-> kids]

\* The table in a list of the result, under one key or two of them, or two tables in
\* two branches.
Page(table)  == <<NodeOf(NoTables, <<2>>), NodeOf(NoTables, <<3>>),
                  NodeOf([NoTables EXCEPT !["pred_html"] = table], <<>>)>>
Twice(table) == <<NodeOf([NoTables EXCEPT !["html"] = table, !["table_html"] = table], <<2>>),
                  NodeOf([NoTables EXCEPT !["html"] = table], <<>>)>>
Forked(table, next) ==
    <<NodeOf(NoTables, <<2, 3>>),
      NodeOf([NoTables EXCEPT !["table_html"] = table], <<4>>),
      NodeOf([NoTables EXCEPT !["html"] = next], <<>>), NodeOf(NoTables, <<>>)>>
Empty        == <<NodeOf(NoTables, <<>>)>>

Doc(pages, printed) == [pages |-> pages, printed |-> printed]

\* Seven rows to a page.
Paged(printed) ==
    LET pages == (Len(printed) + 6) \div 7
        last(p) == IF p = pages THEN Len(printed) ELSE 7 * p
    IN  Doc([p \in 1 .. pages |-> Page(Table(printed, 7 * p - 6, last(p), {}))], printed)

Row(c, a, how, text) ==
    [ma_so |-> c, amount |-> a, opening |-> 900000, how |-> how, text |-> text]
CleanRow(c, a, notation) == Row(c, a, "clean", Text(a, notation))

-----------------------------------------------------------------------------
(* Balance sheets: 421 makes up the difference between the two sides       *)

Order == <<100, 110, 120, 130, 140, 150, 200, 210, 220, 230, 240, 250, 260, 270,
           300, 310, 330, 400, 410, 430, 440>>

\* The leaves of `none` are 0: without funds, 400 is 410.
Sheet(a, none) ==
    LET amount(plug) ==
            LET of[c \in MA_SO_200] ==
                    IF c \in DOMAIN SUBTOTAL_COMPONENTS
                      THEN MapThenSumSet(LAMBDA d : of[d], SUBTOTAL_COMPONENTS[c])
                    ELSE IF c = 421 THEN plug
                    ELSE IF c \in none THEN 0 ELSE a * c * 1000
            IN  of
        assets == amount(0)[270]
    IN  amount(assets - amount(0)[440])

Funds  == {431, 432}
SheetA == Sheet(1, Funds)
SheetB == Sheet(7, {})

\* A cell without an amount reads as a dash.
BlankRow(c, a, how) == Row(c, a, how, <<"-">>)

CleanRows(s, notation) == [i \in DOMAIN Order |-> CleanRow(Order[i], s[Order[i]], notation)]
Changed(rs, k, row)    == [rs EXCEPT ![k] = row]
Shifted(c, a, d, how)  == Row(c, a, how, Text(a + d, "dots"))

\* The two items that make up the inventories, 140, one of them with the same name.
Inventories(provision) ==
    LET rs == CleanRows(SheetA, "dots")
    IN  SubSeq(rs, 1, 5)
        \o <<CleanRow(141, SheetA[140] + provision, "dots"),
             IF provision = 0 THEN BlankRow(149, 0, "lost") ELSE CleanRow(149, -provision, "brackets")>>
        \o SubSeq(rs, 6, Len(rs))

\* A difference of one unit, in amounts that a double does not hold exactly.
Rounded == {Paged(<<CleanRow(270, 220, "dots"), CleanRow(440, 120, "dots")>>)}

\* One item with an opening amount only.
ClosedSheet(c) ==
    LET s == Sheet(1, Funds \cup {c})
    IN  [i \in DOMAIN Order |-> IF Order[i] = c THEN BlankRow(c, 0, "closed")
                                ELSE CleanRow(Order[i], s[Order[i]], "dots")]

Closed   == {Paged(ClosedSheet(c)) : c \in {120, 240}}
Provided == {Paged(Inventories(5000000))}

\* A sheet in order whose inventories, 140, are a gross amount and a provision and whose
\* 240 is blank at closing; the column of the codes was recognized on the second page,
\* that of the funds, only.
ReadSheet ==
    LET rs     == ClosedSheet(240)
        assets == SubSeq(rs, 1, 5) \o SubSeq(Inventories(5000000), 6, 7) \o SubSeq(rs, 6, 14)
        funds  == [i \in 1 .. 7 |-> [rs[14 + i] EXCEPT !.how = "coded"]]
        sheet  == assets \o funds
    IN  {Doc(<<Page(Table(sheet, 1, 16, {})), Page(Table(sheet, 17, 23, {}))>>, sheet)}

Balanced ==
    LET rs == CleanRows(SheetA, "dots") IN
    {Paged(CleanRows(s, n)) : s \in {SheetA, SheetB}, n \in Notations}
    \cup {Paged(Changed(rs, k, BlankRow(Order[k], SheetA[Order[k]], "lost"))) : k \in DOMAIN Order}
    \cup {Paged(Changed(rs, k, CleanRow(Order[k], SheetA[Order[k]] + d, "dots"))) :
             k \in DOMAIN Order, d \in {-100, 60, 100}}
    \cup {Doc(<<Page(Table(rs, 1, 7, {})), Empty, Twice(Table(rs, 8, k, {})),
                Forked(Table(rs, k + 1, 18, {}), Table(rs, 19, 21, {}))>>, rs) : k \in {8, 14}}
    \cup {Doc(<<>>, <<>>), Doc(<<Empty>>, <<>>), Paged(Inventories(0))}
    \cup Rounded

Misread ==
    LET rs == CleanRows(SheetA, "dots")
        wrong(k, d) == Shifted(Order[k], SheetA[Order[k]], d, "spoiled")
    IN  {Paged(Changed(rs, k, wrong(k, d))) : k \in DOMAIN Order, d \in {-300, 260, 7000000}}
        \cup {Paged(Changed(rs, k, BlankRow(Order[k], SheetA[Order[k]], "spoiled"))) : k \in DOMAIN Order}
        \cup {Paged(Append(rs, wrong(k, 300))) : k \in DOMAIN Order}
        \cup {Paged(Changed(rs, k, wrong(k, 300)) \o <<rs[k]>>) : k \in DOMAIN Order}

-----------------------------------------------------------------------------
(* Small tables                                                            *)

Characters == {"0", "7", ".", ",", "(", ")", "-", " ", "nbsp", "endash", "x"}

OddTexts ==
    {Paged(<<Row(110, 0, "spoiled", t)>>) : t \in SeqOf(Characters, TextLength)}

TwoRows(how) == <<Row(110, 770000, how, Text(770000, "dots")),
                  Row(120, -550050, how, Text(-550050, "brackets"))>>

Torn == {Doc(<<Page(Table(TwoRows("spoiled"), 1, 2, unended))>>, TwoRows("spoiled")) :
            unended \in SUBSET ({1, 2} \X (0 .. 3))}

Coded == {Paged([i \in DOMAIN Order |->
             Row(Order[i], s[Order[i]], "coded", Text(s[Order[i]], "dots"))]) : s \in {SheetA, SheetB}}

\* A sheet in millions, and the items of the catalogue that have a name in common.
Small   == {Paged(<<Row(c, 100 * n, "small", Dec[n])>>) : c \in {110, 141}, n \in {77, 110, 270, 999}}
Details == {Paged(<<CleanRow(c, a, "spaces"), CleanRow(d, a - 990025, "brackets")>>) :
              c, d \in {110, 140, 141, 149, 232, 268, 400, 410}, a \in {880000, 990000}}

AllDocuments ==
    Balanced \cup Misread \cup OddTexts \cup Torn \cup Coded \cup Small \cup Details \cup Closed \cup Provided
    \cup ReadSheet
=============================================================================
