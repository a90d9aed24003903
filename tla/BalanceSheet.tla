---------------------------- MODULE BalanceSheet ----------------------------
(***************************************************************************)
(* The pipeline of doc_type bctc (extractors/bctc.py, validation/engine.py,*)
(* workers/pipeline.py): the tables of every page are parsed into rows, the*)
(* rows are read one by one into the extracted data and into the values the*)
(* rules judge, then the rule file is loaded and the rules are evaluated.  *)
(*                                                                         *)
(* A document is [pages |-> what the recognition returns for each page,    *)
(*                printed |-> the rows the sheet really has]; a printed row*)
(* is [ma_so |-> its code, amount |-> its closing and opening |-> its      *)
(* opening amount in hundredths, how |-> how it is printed and was read]:  *)
(*   "clean"    name and amounts in Vietnamese notation, read without error*)
(*   "lost"     the same, but both amounts read as blank cells             *)
(*   "closed"   the same, but the closing cell alone is blank              *)
(*   "coded"    the same as clean with a column for the code               *)
(*              (ReadingAssumption says what these mean for the cells)     *)
(*   "small"    the same with amounts that are the code of an item         *)
(*   "spoiled"  a wrong, missing or odd amount, or a lost cell             *)
(* What is printed is used by the properties and assumptions only.         *)
(***************************************************************************)
EXTENDS NumberParser, TableRows, FiniteSets

CONSTANTS
    MaSo,        \* the codes of MA_SO_200
    NamesakeOf,  \* the first code that has the name of a code
    Rules,       \* the rules of rules_bctc.yaml
    RulesFile,   \* how the YAML file holds them: "list" or "mapping"
    Documents    \* the documents of the instance

Tolerance == 100   \* one unit

ASSUME CodesAssumption ==
    /\ MaSo \subseteq 100 .. 999 /\ NamesakeOf \in [MaSo -> MaSo]
    /\ \A c \in MaSo : NamesakeOf[NamesakeOf[c]] = NamesakeOf[c]
ASSUME RulesAssumption ==
    \A r \in Rules : r.components \subseteq MaSo /\ r.target \in MaSo \ r.components
ASSUME RulesFileAssumption == RulesFile \in {"list", "mapping"}

VARIABLES
    doc,           \* the document, never changed
    page,          \* the pages whose tables were detected
    tables,        \* tables of that page still to parse
    tables_found,
    rows,          \* rows of the last table still to read
    values,        \* ma_so_values
    chi_tieu,      \* the extracted items, in order
    flags,         \* validation_flags: the rules that are broken
    review,        \* review_required
    phase          \* "reading", "rules", "done" or "failed"

readVars   == <<page, tables, tables_found, rows>>
resultVars == <<values, chi_tieu, flags, review>>
vars       == <<doc, readVars, resultVars, phase>>

-----------------------------------------------------------------------------
(* A row                                                                   *)

\* _MA_SO_RE, and the code it reads.
ReadsAsCode(text) ==
    /\ Len(text) = 3 /\ ConsistsOf(text, Digit)
    /\ NaturalOf(text) \in MaSo

\* Mutant: the name decides, whatever code the row prints.
NameFirst(cells) == {}

\* The cells that are a code.
CodeCells(cells) == {i \in DOMAIN cells : ReadsAsCode(cells[i].text)}

\* The first cell that is a code decides.  Otherwise the longest without a number
\* does, if it has text whose best match in the catalogue is above the cut-off.
match_ma_so(cells) ==
    LET texts   == {i \in DOMAIN cells : parse_vn_number(cells[i].text) = {}}
        longest == {i \in texts : \A k \in texts : Len(cells[k].text) <= Len(cells[i].text)}
        named   == IF \A i \in texts : cells[i].text = <<>> THEN NoCode ELSE cells[Min(longest)].item
    IN  IF CodeCells(cells) # {} THEN NaturalOf(cells[Min(CodeCells(cells))].text)
        ELSE IF named \in MaSo THEN NamesakeOf[named]
        ELSE NoCode

\* The cells with a number, the cell of the code included, and their amounts.
NumberCells(cells) ==
    Only(cells, {cells[i] : i \in {k \in DOMAIN cells : parse_vn_number(cells[k].text) # {}}})
extract_numbers(cells) == [i \in DOMAIN NumberCells(cells) |->
                             TheOnly(parse_vn_number(NumberCells(cells)[i].text))]

-----------------------------------------------------------------------------
(* The rules                                                               *)

\* The values of the codes that were read, in hundredths.
Amounts(known) == [c \in DOMAIN known |-> Hundredths(known[c])]

Sum(amounts, codes) == MapThenSumSet(LAMBDA c : amounts[c], codes)

Codes(r) == r.components \cup {r.target}

\* sum(...) == target reports the target against the sum, a == b the left side
\* against the right one.
Actual(r, amounts)   == Sum(amounts, IF r.form = "sum" THEN {r.target} ELSE r.components)
Expected(r, amounts) == Sum(amounts, IF r.form = "sum" THEN r.components ELSE {r.target})
Delta(r, amounts)    == Actual(r, amounts) - Expected(r, amounts)

\* A rule that misses one of its codes is skipped.
Applies(r, amounts) == Codes(r) \subseteq DOMAIN amounts

\* The code computes in doubles.  Quarters of a unit and their sums are exact below
\* 2^51 units.  Other amounts, their sum and the difference are each rounded by
\* 2^-53 of their size, in all by less than RoundingError hundredths.
Half == 67108864   \* 2^26
Magnitude(n) == IF n < 0 THEN -n ELSE n
Size(r, amounts) == Sum([c \in Codes(r) |-> Magnitude(amounts[c])], Codes(r))
IsExact(r, amounts) ==
    /\ (Size(r, amounts) \div 100) \div Half < Half \div 2
    /\ \A c \in Codes(r) : amounts[c] % 25 = 0
RoundingError(r, amounts) ==
    IF IsExact(r, amounts) THEN 0
    ELSE 1 + ((1 + Cardinality(Codes(r))) * (1 + Size(r, amounts) \div Half)) \div (2 * Half)

\* By how many halves of a hundredth the difference of the doubles may be off.
Offsets(r, amounts) ==
    {0} \cup 1 - 2 * RoundingError(r, amounts) .. 2 * RoundingError(r, amounts) - 1

\* Mutant: a deficit is not reported.
BrokenByExcess(r, amounts, offset) == 2 * Delta(r, amounts) + offset > 2 * Tolerance

\* Mutant: a difference of one unit is reported as well.
BrokenAtLimit(r, amounts, offset) ==
    \/ 2 * Delta(r, amounts) + offset >= 2 * Tolerance
    \/ 2 * Delta(r, amounts) + offset <= -2 * Tolerance

Broken(r, amounts, offset) ==
    \/ 2 * Delta(r, amounts) + offset > 2 * Tolerance
    \/ 2 * Delta(r, amounts) + offset < -2 * Tolerance

\* The sets of rules that may be reported: which of the differences within rounding of
\* the tolerance are is decided by bits of the doubles that are left out here.
evaluate_rules(amounts) ==
    LET compared == {r \in Rules : Applies(r, amounts)}
    IN  {reported \in SUBSET compared :
           \A r \in compared : \E offset \in Offsets(r, amounts) :
               r \in reported <=> Broken(r, amounts, offset)}

-----------------------------------------------------------------------------
(* The documents                                                           *)

PrintedRow == [ma_so : Nat, amount : Int, opening : Int, how : STRING, text : Seq(STRING)]

\* What the recognition returns is JSON, one tree for every page, and its tables keep
\* the order of the source whichever end tags they lack.
ASSUME DocumentsAssumption ==
    \A d \in Documents :
        /\ d.printed \in Seq(PrintedRow) /\ d.pages \in Seq(Seq(Nodes))
        /\ \A p \in DOMAIN d.pages :
             /\ Tree(d.pages[p])
             /\ \A n \in DOMAIN d.pages[p] : \A k \in 1 .. 3 :
                  FollowsTheSource(d.pages[p][n].html[TableKeys[k]])

TablesIn(d) == UNION {AllTables(d.pages[p]) : p \in DOMAIN d.pages}
RowsOf(d) == UNION {RowsIn(table) : table \in TablesIn(d)}

\* A row of a table is about the printed row k.
IsAbout(cells, k) == \E cell \in cells : cell.row = k

\* A cell is empty, or has what the printed row r, the k-th, has in its column.
ReadWell(cell, k, r) ==
    \/ cell = NoText
    \/ /\ cell.row = k /\ cell.col >= 1
       /\ cell.col = 1 => HasLetter(cell.text) /\ cell.item = r.ma_so
       /\ r.how \in {"clean", "closed"} => cell.col <= 3 /\ ~ReadsAsCode(cell.text)
       /\ r.how = "clean" /\ cell.col = 2 => Prints(cell.text, r.amount)
       /\ r.how \in {"clean", "closed"} /\ cell.col = 3 => Prints(cell.text, r.opening)
       /\ r.how = "closed" /\ cell.col = 2 => Blank(cell.text)
       /\ r.how = "lost" /\ cell.col # 1 => Blank(cell.text)
       /\ r.how = "coded" /\ cell.col = 2 =>
            ReadsAsCode(cell.text) /\ NaturalOf(cell.text) = r.ma_so

\* The rows that are read without error, blank cells included.
Proper == {"clean", "lost", "closed", "coded"}

\* The rows of the tables that are about such a row of the sheet have what it prints,
\* and none of these rows is left out of all tables.
ASSUME ReadingAssumption ==
    \A d \in Documents :
        LET found  == RowsOf(d)
            proper == {k \in DOMAIN d.printed : d.printed[k].how \in Proper}
        IN  /\ \A cells \in found : \A cell \in cells :
                 cell.text # <<>> => cell.row \in DOMAIN d.printed
            /\ \A k \in proper : /\ d.printed[k].ma_so \in MaSo
                                  /\ \E cells \in found : IsAbout(cells, k)
            /\ \A cells \in found : \A k \in {n \in proper : IsAbout(cells, n)} :
                 /\ {1, 2, 3} \subseteq {cell.col : cell \in cells}
                 /\ \A cell \in cells : ReadWell(cell, k, d.printed[k])

LinesOf(d, c)       == {i \in DOMAIN d.printed : d.printed[i].ma_so = c}
PrintedCodes(d)     == {d.printed[i].ma_so : i \in DOMAIN d.printed}
PrintedAmount(d, c) == d.printed[TheOnly(LinesOf(d, c))].amount

\* A sheet is a balance sheet: within rounding, what it prints satisfies every rule
\* whose codes it prints, each of them with one amount.
ASSUME BalanceAssumption ==
    \A d \in Documents : \A r \in Rules : Codes(r) \subseteq PrintedCodes(d) =>
        /\ \A c \in Codes(r) : \A i \in LinesOf(d, c) : d.printed[i].amount = PrintedAmount(d, c)
        /\ Delta(r, [c \in Codes(r) |-> PrintedAmount(d, c)]) \in -Tolerance .. Tolerance

-----------------------------------------------------------------------------
(* extract_bctc                                                            *)

Init ==
    /\ doc \in Documents
    /\ page = 0 /\ tables = <<>> /\ tables_found = 0 /\ rows = <<>>
    /\ values = <<>> /\ chi_tieu = <<>>
    /\ flags = {} /\ review = FALSE
    /\ phase = "reading"

\* detect_tables_html on the next image
DetectTables ==
    /\ phase = "reading" /\ tables = <<>> /\ rows = <<>> /\ page < Len(doc.pages)
    /\ page' = page + 1
    /\ tables' = find_table_html(doc.pages[page'])
    /\ UNCHANGED <<doc, tables_found, rows, resultVars, phase>>

ParseTable ==
    /\ phase = "reading" /\ rows = <<>> /\ tables # <<>>
    /\ tables_found' = tables_found + 1
    /\ rows' = parse_html_rows(Head(tables))
    /\ tables' = Tail(tables)
    /\ UNCHANGED <<doc, page, resultVars, phase>>

\* Mutant: the first row of a code wins in the values, not the last.
KeepFirst(ma_so, amount) ==
    values' = [c \in DOMAIN values \cup {ma_so} |->
                 IF c \in DOMAIN values THEN values[c] ELSE amount]

\* ma_so_values[ma_so] = so_cuoi_ky
Record(ma_so, amount) ==
    values' = [c \in DOMAIN values \cup {ma_so} |-> IF c = ma_so THEN amount ELSE values[c]]

\* One iteration of the innermost loop.  A row without a code or a number is
\* skipped; a later row with the same code replaces its value, not its item.
\* (`cell`, from which the closing amount was read, is used by the properties only.)
ReadRow ==
    /\ phase = "reading" /\ rows # <<>>
    /\ rows' = Tail(rows)
    /\ LET cells   == Head(rows)
           ma_so   == match_ma_so(cells)
           numbers == extract_numbers(cells)
       IN  IF ma_so = NoCode \/ numbers = <<>>
             THEN UNCHANGED <<values, chi_tieu>>
             ELSE /\ Record(ma_so, numbers[1])
                  /\ chi_tieu' = Append(chi_tieu,
                       [ma_so |-> ma_so, so_cuoi_ky |-> numbers[1],
                        so_dau_ky |-> SubSeq(numbers, 2, Min({2, Len(numbers)})),
                        cell |-> NumberCells(cells)[1]])
    /\ UNCHANGED <<doc, page, tables, tables_found, flags, review, phase>>

\* load_rules iterates over what the YAML file holds and asks every element for
\* its doc_type: over a list those are the rules, over a mapping they are its
\* keys, which are strings and have no `get`.  The exception leaves the pipeline
\* (process_document then marks the job failed).
load_rules ==
    /\ phase = "reading" /\ tables = <<>> /\ rows = <<>> /\ page = Len(doc.pages)
    /\ phase' = IF RulesFile = "list" THEN "rules" ELSE "failed"
    /\ UNCHANGED <<doc, readVars, resultVars>>

\* evaluate_rules, review_required and the return of the result.
Evaluate ==
    /\ phase = "rules"
    /\ flags' \in evaluate_rules(Amounts(values))
    /\ review' = (tables_found = 0 \/ \E r \in flags' : r.severity = "error")
    /\ phase' = "done"
    /\ UNCHANGED <<doc, readVars, values, chi_tieu>>

Returned == phase \in {"done", "failed"} /\ UNCHANGED vars

Next == DetectTables \/ ParseTable \/ ReadRow \/ load_rules \/ Evaluate \/ Returned

Spec == Init /\ [][Next]_vars

-----------------------------------------------------------------------------
(* Properties                                                              *)

Source(item)   == doc.printed[item.cell.row]
ValueOf(c)     == Hundredths(values[c])
PrintedFor(c)  == {doc.printed[i].amount : i \in LinesOf(doc, c)}
WrongCodes     == {c \in DOMAIN values : ValueOf(c) \notin PrintedFor(c)}
OffBy(c, n)    == \A a \in PrintedFor(c) : ValueOf(c) - a > n \/ a - ValueOf(c) > n

\* The tables that the nodes of a result have.
TablesOn(result) ==
    Sum([n \in DOMAIN result |-> Len(TablesOf(result[n]))], DOMAIN result)

\* The rules judge the data that is returned: their codes are those of the
\* extracted items, and the value of a code is that of its last item, whatever
\* rows the tables repeat, continue on another page or hold twice (the two
\* accumulators of extract_bctc).
JudgedAsReported ==
    /\ \A i \in DOMAIN chi_tieu : chi_tieu[i].ma_so \in DOMAIN values
    /\ \A c \in DOMAIN values : \E i \in DOMAIN chi_tieu :
         /\ chi_tieu[i].ma_so = c /\ chi_tieu[i].so_cuoi_ky = values[c]
         /\ \A k \in DOMAIN chi_tieu : k > i => chi_tieu[k].ma_so # c

\* "The cross-check of formulas is the first line of defence" against misread
\* digits (extractors/ma_so_200.py, design/pipeline.md section 8.2): when one
\* amount that is printed is read wrong, beyond what rounding explains, on the sheet or
\* in the doubles, and some rule of severity "error" that uses it has all of its codes,
\* the document goes to review.
MisreadIsReviewed ==
    phase = "done" =>
        \A c \in WrongCodes :
            /\ WrongCodes = {c} /\ PrintedFor(c) # {}
            /\ \E r \in Rules : /\ r.severity = "error" /\ c \in Codes(r)
                                /\ Applies(r, Amounts(values))
                                /\ OffBy(c, 2 * Tolerance + RoundingError(r, Amounts(values)))
            => review

\* Every row is read without error or has no amount, and a row that is filed under
\* another item of its name has the amount of that item.
IsRead(d, kinds) == \A k \in DOMAIN d.printed : d.printed[k].how \in kinds
NamesAgree(d) ==
    \A k \in DOMAIN d.printed : d.printed[k].how = "clean" =>
        \E i \in LinesOf(d, NamesakeOf[d.printed[k].ma_so]) : d.printed[i].amount = d.printed[k].amount

\* No false alarm from the pipeline itself: a sheet that is read without error is
\* flagged only where the amounts it prints differ by more than the tolerance, up to the
\* rounding of the doubles, although some of its rows may be missing or blank
\* (validation/engine.py: a rule without all its codes has nothing to compare).
OnlyImbalanceIsFlagged ==
    phase = "done" /\ IsRead(doc, {"clean", "lost"}) /\ NamesAgree(doc) =>
        \A r \in flags :
            LET printed == [c \in Codes(r) |-> PrintedAmount(doc, c)]
            IN  Magnitude(Delta(r, printed)) + RoundingError(r, printed) > Tolerance

\* "A difference within the threshold of accounting rounding is not an error, to avoid
\* false positives" (validation/engine.py), a blank cell is no number (extractors/
\* number_parser.py), a row is not mapped wrong (extractors/bctc.py), and its amounts are
\* "from the remaining cells", those that are not its code (plans/phase2): so no balance
\* sheet that is read without error is flagged.
ReadSheetIsNotFlagged == phase = "done" /\ IsRead(doc, Proper) => flags = {}

\* A row that prints its code is filed under it, whatever its name and its amounts;
\* a row without one is filed under an item that has its name (_match_ma_so).  That can
\* be another item, see ReadSheetIsNotFlagged.
FiledUnderItsCode ==
    \A i \in DOMAIN chi_tieu :
        LET row == Source(chi_tieu[i]) IN
        /\ row.how = "coded" => chi_tieu[i].ma_so = row.ma_so
        /\ row.how = "clean" => NamesakeOf[chi_tieu[i].ma_so] = NamesakeOf[row.ma_so]

\* Every row that is printed and read properly becomes an item with its amounts,
\* whatever of the Vietnamese notations it uses (parse_vn_number: dots, spaces, a
\* decimal comma, a minus sign, parentheses) and however the recognition nests,
\* splits or repeats the table.
PrintedRowsAreExtracted ==
    phase = "done" =>
        \A k \in {n \in DOMAIN doc.printed : doc.printed[n].how = "clean"} :
            \E i \in DOMAIN chi_tieu :
                /\ chi_tieu[i].cell.row = k
                /\ Hundredths(chi_tieu[i].so_cuoi_ky) = doc.printed[k].amount
                /\ Len(chi_tieu[i].so_dau_ky) = 1
                /\ Hundredths(chi_tieu[i].so_dau_ky[1]) = doc.printed[k].opening

\* "A wrong digit is the most serious error": whatever text is taken for an amount,
\* the amount has its digits, all and in order, and is negative only if a sign or
\* parentheses say so.
AmountKeepsItsDigits ==
    \A i \in DOMAIN chi_tieu :
        LET amount == chi_tieu[i].so_cuoi_ky
            text   == chi_tieu[i].cell.text
        IN  /\ amount.parts.whole \o amount.parts.fraction
                 = Only(text, Digit)
            /\ amount.negative <=> \E k \in DOMAIN text : text[k] \in {"-", "("}

\* An amount is never filed in the row of another item: whichever end tags the
\* recognition leaves out, a parsed row has cells of one source row, in order.
CellsStayInTheirRow == \A n \in DOMAIN rows : InOneRow(rows[n])

\* No table is overlooked, wherever in the result it is nested and whichever of the
\* keys it is under (_find_table_html does not know the schema of PP-StructureV3).
EveryTableIsRead ==
    phase = "done" =>
        tables_found = Sum([p \in DOMAIN doc.pages |-> TablesOn(doc.pages[p])], DOMAIN doc.pages)

\* The pipeline of a bctc document runs to the end (design/pipeline.md,
\* section 8.2, "runs the whole flow").
DocumentIsProcessed == phase # "failed"
=============================================================================
