---------------------------- MODULE ResultFormat -----------------------------
(***************************************************************************)
(* The ASCII table of utils.py (format_query_results in "table" format,    *)
(* _format_as_table), measured in characters. A result row is a function   *)
(* from its column names to len(str(value)); nameLen[c] is len(c). The     *)
(* table is the sequence of its line lengths: header, separator, one line  *)
(* per row. "No results found." is the empty sequence. Column order        *)
(* (sorted) does not change any length and is left out.                   *)
(***************************************************************************)
EXTENDS Naturals, Integers, Sequences, FiniteSetsExt

(* all_columns: every key of every row (lines 68-71).                      *)
TableColumns(rs) == UNION {DOMAIN rs[i] : i \in DOMAIN rs}

(* len(str(row.get(col, ""))).                                              *)
CellLen(row, c) == IF c \in DOMAIN row THEN row[c] ELSE 0

(* int(w * (available / total)): truncation toward zero.                   *)
Scaled(w, available, total) ==
    IF available >= 0 THEN (w * available) \div total
    ELSE -((w * (-available)) \div total)

(* col_widths (lines 74-91): the longest of name and values, scaled down   *)
(* proportionally, to at least 5, when the table is wider than maxWidth.   *)
ColWidths(rs, nameLen, maxWidth) ==
    LET cols  == TableColumns(rs)
        n     == Cardinality(cols)
        w0    == [c \in cols |-> Max({nameLen[c]} \cup {CellLen(rs[i], c) : i \in DOMAIN rs})]
        total == MapThenSumSet(LAMBDA c : w0[c], cols)
    IN  IF total + n * 3 + 1 > maxWidth
        THEN [c \in cols |-> Max({5, Scaled(w0[c], maxWidth - n * 3 - 1, total)})]
        ELSE w0

(* len(s[:k]) for a string of length v, k possibly negative.               *)
PrefixLen(v, k) == IF k >= 0 THEN Min({v, k}) ELSE Max({0, v + k})

(* "|" + "|".join(" cell ") + "|" with cell padded to w: each part is the  *)
(* longer of cell and w, plus 2; n - 1 inner bars and 2 outer ones.        *)
LineLen(cellLen, w) ==
    LET cols == DOMAIN w IN
    MapThenSumSet(LAMBDA c : Max({cellLen[c], w[c]}) + 2, cols) + Cardinality(cols) + 1

(* Mutant: the truncated value keeps width - 2 characters before "...".    *)
ShownLenKeepsOneMore(v, w) == IF v > w THEN PrefixLen(v, w - 2) + 3 ELSE v

(* Lines 111-113: a longer value is cut to value_str[:width-3] + "...".    *)
ShownLen(v, w) == IF v > w THEN PrefixLen(v, w - 3) + 3 ELSE v

(* _format_as_table (62-123).                                               *)
FormatAsTable(rs, nameLen, maxWidth) ==
    LET w == ColWidths(rs, nameLen, maxWidth) IN
    IF rs = <<>> THEN <<>>
    ELSE << LineLen([c \in DOMAIN w |-> nameLen[c]], w),
            LineLen([c \in DOMAIN w |-> 0], w) >>
         \o [i \in DOMAIN rs |->
               LineLen([c \in DOMAIN w |-> ShownLen(CellLen(rs[i], c), w[c])], w)]

(* format_query_results(results, "table", max_rows, max_width) (14-59):    *)
(* `if max_rows:` keeps the first max_rows rows.                           *)
FormatQueryResults(rs, maxRows, nameLen, maxWidth) ==
    IF rs = <<>> THEN <<>>
    ELSE FormatAsTable(IF maxRows # 0 THEN SubSeq(rs, 1, Min({maxRows, Len(rs)})) ELSE rs,
                       nameLen, maxWidth)
=============================================================================
