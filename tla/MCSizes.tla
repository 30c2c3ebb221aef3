------------------------------- MODULE MCSizes -------------------------------
(***************************************************************************)
(* Small replies and listings for checking Sizes.tla.                      *)
(***************************************************************************)
EXTENDS Sizes, SequencesExt

Col(l2Id, code, displayCode, name, sales) ==
    [l2Id |-> l2Id, size |-> [code |-> code, displayCode |-> displayCode, name |-> name],
     sales |-> sales]

\* M in three colours, one of them not for sale; L with a code only or with a
\* display code; a row without a size code.
SmallRows == {Col("a", "S3", "003", "M", TRUE), Col("b", "S3", "003", "Medium", TRUE),
              Col("c", "S3", "", "", FALSE), Col("d", "S4", "004", "", TRUE),
              Col("e", "S4", "", "", TRUE), Col("a", "", "", "One", TRUE)}

Stock(status, quantity, disabled) ==
    [statusCode |-> status, quantity |-> quantity, disableSizeChip |-> disabled]

\* A stock row misses, or is good but for one field.
SmallStocks ==
    {Nothing} \cup
    [{"a", "c", "d"} -> {Stock("IN_STOCK", 1, FALSE), Stock("STOCK_OUT", 1, FALSE),
                         Stock("IN_STOCK", 0, FALSE), Stock("IN_STOCK", 1, TRUE)}]

SmallReplies ==
    {[rows |-> r, stocks |-> s] : r \in SeqOf(SmallRows, 3), s \in SmallStocks}

Listed(code, label) == [code |-> code, label |-> label, inStock |-> FALSE]

SmallListings ==
    SeqOf({Listed("S3", "M"), Listed("S3", ""), Listed("S4", "L"), Listed("", "One")}, 2)

=============================================================================
