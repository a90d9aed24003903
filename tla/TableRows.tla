------------------------------ MODULE TableRows ------------------------------
(***************************************************************************)
(* From the result of the table recognition to rows of cells:              *)
(* _find_table_html (ocr/table.py) and _TableRowParser (extractors/bctc.py)*)
(*                                                                         *)
(* A result is a sequence of nodes, the root first and every node before   *)
(* its children: a node has the table under each of the three keys, if any,*)
(* and its children in order.  A table is the sequence of the tokens that  *)
(* HTMLParser (outside src/) calls the handlers with.                      *)
(*                                                                         *)
(* A piece of text carries, beside its characters, the item of the         *)
(* catalogue that it names (NoCode when it names none), and the row and the*)
(* column of the source it was printed in, which no code reads.            *)
(***************************************************************************)
EXTENDS NumberParser

NoCode  == 0
NoTable == <<>>
NoText  == [text |-> <<>>, item |-> NoCode, row |-> 0, col |-> 0]

TableKeys == <<"html", "pred_html", "table_html">>
CellTags  == {"td", "th"}

Pieces == [text : Seq(STRING), item : Nat, row : Nat, col : Nat]
Tokens == [type : {"start", "data", "end"}, tag : STRING, data : Pieces]
Nodes  == [html : [{TableKeys[k] : k \in 1 .. 3} -> Seq(Tokens)], kids : Seq(Nat)]

\* Every node but the root is the child of one node, once, and comes after it.
Tree(result) ==
    /\ result # <<>>
    /\ \A n \in DOMAIN result : \A k \in DOMAIN result[n].kids :
         result[n].kids[k] \in n + 1 .. Len(result)
    /\ \A m \in 2 .. Len(result) : \E n \in DOMAIN result : m \in ToSet(result[n].kids)
    /\ \A n \in DOMAIN result : /\ IsInjective(result[n].kids)
                               /\ \A m \in DOMAIN result \ {n} :
                                    ToSet(result[n].kids) \cap ToSet(result[m].kids) = {}

TablesOf(node) == Without([k \in 1 .. 3 |-> node.html[TableKeys[k]]], NoTable)

\* The tables under all keys of all nodes.
AllTables(result) == {result[n].html[TableKeys[k]] : n \in DOMAIN result, k \in 1 .. 3}

\* Mutant: a node that has a table is not searched further.
SearchLeaves(node) == IF TablesOf(node) = <<>> THEN node.kids ELSE <<>>

\* The values of a dict, the elements of a list.
SearchedBelow(node) == node.kids

\* The tables a node has under its keys, then those of its children.
find_table_html(result) ==
    LET found[n \in DOMAIN result] ==
            TablesOf(result[n]) \o
            FlattenSeq([k \in DOMAIN SearchedBelow(result[n]) |->
                            found[SearchedBelow(result[n])[k]]])
    IN  found[1]

-----------------------------------------------------------------------------
(* _TableRowParser: the rows so far, and {the open row}, {the open cell}   *)

NewParser == [rows |-> <<>>, row |-> {}, cell |-> {}]

TheOnly(S) == CHOOSE x \in S : TRUE

\* Mutant: a row that was not ended goes on.
StartTagContinues(parser, tag) ==
    IF tag = "tr" /\ parser.row = {} THEN [parser EXCEPT !.row = {<<>>}]
    ELSE IF tag \in CellTags THEN [parser EXCEPT !.cell = {NoText}]
    ELSE parser

\* An open row or cell without its end tag is dropped.
handle_starttag(parser, tag) ==
    IF tag = "tr" THEN [parser EXCEPT !.row = {<<>>}]
    ELSE IF tag \in CellTags THEN [parser EXCEPT !.cell = {NoText}]
    ELSE parser

handle_data(parser, data) ==
    [parser EXCEPT !.cell = {[data EXCEPT !.text = cell.text \o @] : cell \in parser.cell}]

handle_endtag(parser, tag) ==
    IF tag \in CellTags /\ parser.cell # {}
      THEN LET cell == [TheOnly(parser.cell) EXCEPT !.text = strip(@)]
           IN  [parser EXCEPT !.row = {Append(row, cell) : row \in parser.row}, !.cell = {}]
    ELSE IF tag = "tr" /\ parser.row # {}
      THEN [parser EXCEPT !.rows = Append(@, TheOnly(parser.row)), !.row = {}]
    ELSE parser

Feed(parser, token) ==
    CASE token.type = "start" -> handle_starttag(parser, token.tag)
      [] token.type = "data"  -> handle_data(parser, token.data)
      [] token.type = "end"   -> handle_endtag(parser, token.tag)

\* parsed[n] is {the parser after n tokens}.
parse_html_rows(table) ==
    LET parsed[n \in 0 .. Len(table)] ==
            IF n = 0 THEN {NewParser} ELSE {Feed(p, table[n]) : p \in parsed[n - 1]}
    IN  TheOnly(parsed[Len(table)]).rows

-----------------------------------------------------------------------------
(* What a recognised table keeps of the source, whichever end tags it lacks *)

IsData(token)     == token.type = "data"
StartsRow(token)  == token.type = "start" /\ token.tag = "tr"
StartsCell(token) == token.type = "start" /\ token.tag \in CellTags
EndsCell(token)   == token.type = "end" /\ token.tag \in CellTags
EndsRow(token)    == token.type = "end" /\ token.tag = "tr"

\* No row, or no cell, starts from the token i to the token k.
SameRow(table, i, k)  == \A j \in i .. k : ~StartsRow(table[j])
SameCell(table, i, k) == \A j \in i .. k : ~StartsCell(table[j])

\* Two pieces of text in one row are of one source row, and the one in a later cell
\* is further to the right; a cell that ends has started in its row.
FollowsTheSource(table) ==
    /\ \A i \in DOMAIN table : IsData(table[i]) =>
         \A k \in i + 1 .. Len(table) : IsData(table[k]) /\ SameRow(table, i, k) =>
            /\ table[i].data.row = table[k].data.row
            /\ ~SameCell(table, i, k) => table[i].data.col < table[k].data.col
    /\ \A i \in DOMAIN table : StartsRow(table[i]) =>
         \A k \in i + 1 .. Len(table) : EndsCell(table[k]) => ~SameCell(table, i, k)

\* The start tag i and the end tag e of a row, or of a cell, and no other between.
RowAt(table, i, e) ==
    /\ i < e /\ StartsRow(table[i]) /\ EndsRow(table[e])
    /\ \A j \in i + 1 .. e - 1 : ~StartsRow(table[j]) /\ ~EndsRow(table[j])
CellAt(table, i, e) ==
    /\ i < e /\ StartsCell(table[i]) /\ EndsCell(table[e])
    /\ \A j \in i + 1 .. e - 1 : ~StartsCell(table[j]) /\ ~EndsCell(table[j])

\* The pieces of text from the token i to each later one, as one cell.
TextFrom(table, i) ==
    LET text[k \in i .. Len(table)] ==
            IF k = i THEN NoText
            ELSE IF IsData(table[k]) THEN [table[k].data EXCEPT !.text = text[k - 1].text \o @]
            ELSE text[k - 1]
    IN  text

\* The rows of a table that have both tags, each the set of its cells.
CellsIn(table, a, b) ==
    {[TextFrom(table, p[1])[p[2]] EXCEPT !.text = strip(@)] :
        p \in {q \in (a .. b) \X (a .. b) : CellAt(table, q[1], q[2])}}
RowsIn(table) ==
    {CellsIn(table, p[1], p[2]) : p \in {q \in (DOMAIN table) \X (DOMAIN table) : RowAt(table, q[1], q[2])}}

\* Text that was printed is marked with its row, counted from 1.
Printed(cell) == cell.row # 0

\* The printed cells of a row are of one source row, from left to right.
InOneRow(cells) ==
    \A i, k \in DOMAIN cells :
        i < k /\ Printed(cells[i]) /\ Printed(cells[k])
          => cells[i].row = cells[k].row /\ cells[i].col < cells[k].col
=============================================================================
