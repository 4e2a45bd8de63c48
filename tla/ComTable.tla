------------------------------ MODULE ComTable ------------------------------
(***************************************************************************)
(* ComTableWid (common/tabcom): the table of the display and what the      *)
(* classes derived from it may do with it.  A row is a sequence of cells;  *)
(* DisplayWid fills one row per outlet.  Rows and columns count from 0 in  *)
(* the code and in the arguments here.                                     *)
(***************************************************************************)
EXTENDS Integers, Sequences, SequencesExt

CONSTANTS
    Columns,   \* the number of headers
    Texts,     \* the texts of cells; Empty is one of them
    Empty,     \* the empty string
    Dashes,    \* what a cell without a text shows
    MaxRows    \* bound: rows of the table

ASSUME TableAssumption ==
    /\ Columns \in Nat \ {0} /\ MaxRows \in Nat
    /\ Empty \in Texts /\ Dashes \notin Texts

VARIABLES
    table,   \* the cells of the QTableWidget
    shown    \* the texts that the calls asked for
tableVars == <<table, shown>>

NewItem(text) == [text |-> text, color |-> "black", background |-> "none"]
Repeated(row, n) == [i \in 1..n |-> row]

-----------------------------------------------------------------------------
\* addInitRow: addRowContent with dashes for each column.
AddRowContent(t, list) == Append(t, [i \in 1..Len(list) |-> NewItem(list[i])])
AddInitRow(t) == AddRowContent(t, Repeated(Dashes, Columns))

\* A loop is the function of what it has done after n passes; here, when there are n rows.
AddTableRows(t, line) ==
    LET after[n \in 0..line] == IF n <= Len(t) THEN t ELSE AddInitRow(after[n - 1])
    IN  after[line]

\* Faulty: the rows are removed from the first one.
DelFirstRows(t, line) ==
    LET passes == Len(t) - line
        after[n \in 0..passes] == IF n = 0 THEN t ELSE RemoveAt(after[n - 1], 1)
    IN  IF passes > 0 THEN after[passes] ELSE t

\* delTableRows: the row behind the last one that stays is removed again and again.
DelTableRows(t, line) ==
    LET passes == Len(t) - line
        after[n \in 0..passes] == IF n = 0 THEN t ELSE RemoveAt(after[n - 1], line + 1)
    IN  IF passes > 0 THEN after[passes] ELSE t

InitTableWid(line) == AddTableRows(<<>>, line)

CheckTableRow(t, line) ==
    IF Len(t) # line THEN DelTableRows(AddTableRows(t, line), line) ELSE t

SetTableItem(t, id, column, str) ==
    LET u == AddTableRows(t, id + 1)
    IN  [u EXCEPT ![id + 1][column + 1].text = IF str = Empty THEN Dashes ELSE str]

SetTableRow(t, id, col, list) ==
    LET after[n \in 0..Len(list)] ==
            IF n = 0 THEN t ELSE SetTableItem(after[n - 1], id, col + (n - 1), list[n])
    IN  after[Len(list)]

SetBackgroundColor(t, id) ==
    [t EXCEPT ![id + 1] = [i \in 1..Columns |-> [@[i] EXCEPT !.background = "red"]]]

AppendTableRow(t, list, c) ==
    LET u == SetTableRow(t, Len(t), 0, list)
    IN  IF c THEN SetBackgroundColor(u, Len(t)) ELSE u

\* clearRow sets each item of the row to dashes.
ClearRow(t, row) == SetTableRow(t, row, 0, Repeated(Dashes, Columns))
ClearTable(t) ==
    LET after[n \in 0..Len(t)] == IF n = 0 THEN t ELSE ClearRow(after[n - 1], n - 1)
    IN  after[Len(t)]

SetItemColor(t, id, column, alarm) ==
    LET u == AddTableRows(t, id + 1)
    IN  IF alarm \in 0..2
        THEN [u EXCEPT ![id + 1][column + 1].color = <<"black", "orange", "red">>[alarm + 1]]
        ELSE u

\* getList: a header and the numbered rows; the caller gets their number only.
GetList(t) ==
    <<"header">> \o [i \in 1..Len(t) |-> <<i>> \o [j \in 1..Columns |-> t[i][j].text]]

-----------------------------------------------------------------------------
TableInit == table = InitTableWid(1) /\ shown = <<Repeated(Dashes, Columns)>>

\* The reference: the rows there are and the rows of dashes that are missing.
Padded(lines, count) ==
    [i \in 1..(IF Len(lines) < count THEN count ELSE Len(lines)) |->
        IF i <= Len(lines) THEN lines[i] ELSE Repeated(Dashes, Columns)]
Label(str) == IF str = Empty THEN Dashes ELSE str
Written(lines, id, col, list) ==
    [Padded(lines, id + 1) EXCEPT
        ![id + 1] = [j \in 1..Columns |->
                        IF j \in (col + 1)..(col + Len(list)) THEN Label(list[j - col]) ELSE @[j]]]

FillRow(id, col, list) ==
    /\ table' = SetTableRow(table, id, col, list)
    /\ shown' = Written(shown, id, col, list)

\* updateData of the display, when the outlet is not enabled.
BlankRow(id, number) ==
    /\ table' = SetTableRow(ClearRow(table, id), id, 0, <<number>>)
    /\ shown' = Written(Written(shown, id, 0, Repeated(Dashes, Columns)), id, 0, <<number>>)

AddRow(list, c) ==
    /\ Len(table) < MaxRows
    /\ table' = AppendTableRow(table, list, c)
    /\ shown' = Append(shown, [j \in 1..Columns |-> Label(list[j])])

Resize(line) ==
    /\ table' = CheckTableRow(table, line)
    /\ shown' = SubSeq(Padded(shown, line), 1, line)

Wipe ==
    /\ table' = ClearTable(table)
    /\ shown' = Repeated(Repeated(Dashes, Columns), Len(shown))

\* delTable
Drop == table' = <<>> /\ shown' = <<>>

ColorItem(id, column, alarm) ==
    /\ table' = SetItemColor(table, id, column, alarm)
    /\ shown' = Padded(shown, id + 1)

TableNext ==
    \/ \E id \in 0..(MaxRows - 1), col \in 0..(Columns - 1) :
          \E list \in UNION {[1..n -> Texts] : n \in 1..(Columns - col)} : FillRow(id, col, list)
    \/ \E id \in 0..(MaxRows - 1), number \in Texts : BlankRow(id, number)
    \/ \E list \in [1..Columns -> Texts], c \in BOOLEAN : AddRow(list, c)
    \/ \E line \in 0..MaxRows : Resize(line)
    \/ Wipe \/ Drop
    \/ \E id \in 0..(MaxRows - 1), column \in 0..(Columns - 1), alarm \in 0..3 :
          ColorItem(id, column, alarm)

TableSpec == TableInit /\ [][TableNext]_tableVars

-----------------------------------------------------------------------------
\* Whatever was written, appended, cleared and cut before, in any order: no cell is
\* missing in a row, so that no call meets a null item; the table shows what was
\* asked for, in its row, and dashes elsewhere; and a list of the table has all of it.
TableFits ==
    /\ \A i \in 1..Len(table) : Len(table[i]) = Columns
    /\ [i \in 1..Len(table) |-> [j \in 1..Len(table[i]) |-> table[i][j].text]] = shown
    /\ Len(GetList(table)) = Len(shown) + 1
    /\ \A i \in 1..Len(shown) : GetList(table)[i + 1] = <<i>> \o shown[i]
=============================================================================
