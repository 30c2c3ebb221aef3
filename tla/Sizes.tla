-------------------------------- MODULE Sizes --------------------------------
(***************************************************************************)
(* The sizes of one deal, as enrichOne gets them: ResolveSizes of          *)
(* internal/source/uniqlo/detail.go asks the shop for the product's rows,  *)
(* one per colour and size, and collapses them; mergeLabels of             *)
(* internal/app/runner.go then puts the listing's labels over the result.  *)
(* One step is one iteration of a loop.  In Runner.tla the first half is   *)
(* any member of Answers and the second the operator MergeLabels.          *)
(***************************************************************************)
EXTENDS Models

CONSTANTS
    Replies,    \* the rows and stocks that the shop may answer with
    Listings    \* the sizes that the listing may have

ASSUME SizesAssumption ==
    /\ \A r \in Replies :
          /\ r.rows \in Seq(Colour)
          /\ \A id \in DOMAIN r.stocks : r.stocks[id] \in StockRow
    /\ Listings \subseteq Seq(Size)

VARIABLES
    pc,         \* the loop or call it is in
    listing,    \* the deal's sizes before
    rows, stocks, \* the shop's reply
    next,       \* the loop's index
    seen,       \* code -> its size, as the rows so far make it
    order,      \* the codes in the order they came
    sizes,      \* the result
    labelByCode \* mergeLabels' index of the listing

reply == <<rows, stocks>>
vars == <<pc, listing, reply, next, seen, order, sizes, labelByCode>>

Nothing == [k \in {} |-> 0]

Code == STRING \ {""}

TypeOK ==
    /\ pc \in {"request", "collapse", "index", "merge", "done", "failed"}
    /\ listing \in Seq(Size)
    /\ rows \in Seq(Colour)
    /\ \A id \in DOMAIN stocks : stocks[id] \in StockRow
    /\ next \in Nat \ {0}
    /\ DOMAIN seen \subseteq Code /\ \A c \in DOMAIN seen : seen[c] \in Size
    /\ order \in Seq(Code)
    /\ sizes \in Seq(Size)
    /\ \A c \in DOMAIN labelByCode : labelByCode[c] \in STRING

-----------------------------------------------------------------------------

Init ==
    /\ pc = "request" /\ next = 1
    /\ listing \in Listings
    /\ rows = << >> /\ stocks = Nothing
    /\ seen = Nothing /\ order = << >> /\ sizes = << >> /\ labelByCode = Nothing

\* A loop is left, the next one starts at the front.
EnterLoop(from, to) == pc = from /\ pc' = to /\ next' = 1

\* The loop over s visits s[next].
Visiting(loop, s) == pc = loop /\ next <= Len(s) /\ next' = next + 1 /\ UNCHANGED pc

\* ResolveSizes: the detail request

RequestFails ==
    /\ EnterLoop("request", "failed")
    /\ UNCHANGED <<listing, reply, seen, order, sizes, labelByCode>>

\* The reply has no result: no sizes, and no error.
NoResult ==
    /\ EnterLoop("request", "index")
    /\ UNCHANGED <<listing, reply, seen, order, sizes, labelByCode>>

Answered ==
    /\ EnterLoop("request", "collapse")
    /\ \E r \in Replies : rows' = r.rows /\ stocks' = r.stocks
    /\ UNCHANGED <<listing, seen, order, sizes, labelByCode>>

\* collapseSizes

IsStocked(row) ==
    /\ row.sales
    /\ row.l2Id \in DOMAIN stocks
    /\ stocks[row.l2Id].statusCode = "IN_STOCK"
    /\ stocks[row.l2Id].quantity > 0
    /\ ~stocks[row.l2Id].disableSizeChip

\* The size of the row's code, before the row's stock counts.
Entry(row) ==
    IF row.size.code \in DOMAIN seen THEN seen[row.size.code]
    ELSE [code |-> row.size.code, label |-> DisplayOrName(row.size), inStock |-> FALSE]

See(row, entry) ==
    /\ order' = IF row.size.code \in DOMAIN seen THEN order ELSE Append(order, row.size.code)
    /\ seen' = [c \in DOMAIN seen \cup {row.size.code} |->
                   IF c = row.size.code THEN entry ELSE seen[c]]

\* Fault: the colour that comes last decides.
CountStockLast(row) == See(row, [Entry(row) EXCEPT !.inStock = IsStocked(row)])

CountStock(row) ==
    See(row, [Entry(row) EXCEPT !.inStock = @ \/ IsStocked(row)])

\* Fault: a row without a size code is not skipped.
CollapseEvery ==
    /\ Visiting("collapse", rows)
    /\ CountStock(rows[next])
    /\ UNCHANGED <<listing, reply, sizes, labelByCode>>

Collapse ==
    /\ Visiting("collapse", rows)
    /\ IF rows[next].size.code = "" THEN UNCHANGED <<seen, order>> ELSE CountStock(rows[next])
    /\ UNCHANGED <<listing, reply, sizes, labelByCode>>

Collapsed ==
    /\ next > Len(rows)
    /\ EnterLoop("collapse", "index")
    /\ sizes' = [k \in DOMAIN order |-> seen[order[k]]]
    /\ UNCHANGED <<listing, reply, seen, order, labelByCode>>

\* mergeLabels

SetLabel(s) ==
    labelByCode' = [c \in DOMAIN labelByCode \cup {s.code} |->
                       IF c = s.code THEN s.label ELSE labelByCode[c]]

\* Fault: an empty label overwrites the one that was found.
IndexEvery ==
    /\ Visiting("index", listing)
    /\ SetLabel(listing[next])
    /\ UNCHANGED <<listing, reply, seen, order, sizes>>

Index ==
    /\ Visiting("index", listing)
    /\ IF listing[next].label = "" THEN UNCHANGED labelByCode ELSE SetLabel(listing[next])
    /\ UNCHANGED <<listing, reply, seen, order, sizes>>

Indexed ==
    /\ next > Len(listing)
    /\ EnterLoop("index", "merge")
    /\ UNCHANGED <<listing, reply, seen, order, sizes, labelByCode>>

Merge ==
    /\ Visiting("merge", sizes)
    /\ sizes' = IF sizes[next].code \in DOMAIN labelByCode
                THEN [sizes EXCEPT ![next].label = labelByCode[sizes[next].code]]
                ELSE sizes
    /\ UNCHANGED <<listing, reply, seen, order, labelByCode>>

Merged ==
    /\ next > Len(sizes)
    /\ EnterLoop("merge", "done")
    /\ UNCHANGED <<listing, reply, seen, order, sizes, labelByCode>>

Next ==
    \/ RequestFails \/ NoResult \/ Answered
    \/ Collapse \/ Collapsed \/ Index \/ Indexed \/ Merge \/ Merged

Spec == Init /\ [][Next]_vars

-----------------------------------------------------------------------------

(***************************************************************************)
(* detail.go:10-12: "'in stock in ANY color' wins", whatever the order of  *)
(* the rows.  Each size code of the reply is one size, no other is.        *)
(***************************************************************************)
RowsOf(code) == {i \in DOMAIN rows : rows[i].size.code = code}

StockOfAnyColour ==
    pc = "done" =>
        /\ {sizes[k].code : k \in DOMAIN sizes} =
               {rows[i].size.code : i \in DOMAIN rows} \ {""}
        /\ \A k, m \in DOMAIN sizes : sizes[k].code = sizes[m].code => k = m
        /\ \A k \in DOMAIN sizes :
              sizes[k].inStock <=> \E i \in RowsOf(sizes[k].code) : IsStocked(rows[i])

(***************************************************************************)
(* The size filter and the mail go by the label: it is the listing's, as   *)
(* the pipeline's MergeLabels says, or else that of the code's first row.  *)
(* It is never empty.                                                      *)
(***************************************************************************)
IsFirstRow(i, code) == i \in RowsOf(code) /\ \A j \in RowsOf(code) : i <= j

LabelsAsListed ==
    pc = "done" =>
        \A k \in DOMAIN sizes :
            /\ sizes[k].label # ""
            /\ \E i \in DOMAIN rows :
                  /\ IsFirstRow(i, sizes[k].code)
                  /\ sizes[k].label =
                        LabelOf(listing, [sizes[k] EXCEPT !.label = DisplayOrName(rows[i].size)])

=============================================================================
