-------------------------------- MODULE Store -------------------------------
(***************************************************************************)
(* The SQLite store of internal/store/sqlite.  rows is the table           *)
(* notified_deals: a function from the primary key (product, promo cents)  *)
(* to the row's other columns.  One SQL statement is one atomic step: the  *)
(* handle holds a single connection, and SQLite serialises the statements  *)
(* of two processes on one file (busy_timeout makes the second one wait).  *)
(* An unpersisted store (":memory:") is a new empty table in each process. *)
(***************************************************************************)
EXTENDS Deal

CONSTANT Persistent

VARIABLE rows

Row == [ruleName : STRING, notifiedAt : Nat]

NoRows == [k \in {} |-> 0]

StoreInit == rows = NoRows

\* Fault: the default path is a file, or the memory is shared between processes.
OpenStoreOnAFile == UNCHANGED rows

\* Open: the schema is CREATE IF NOT EXISTS, so a file keeps its rows.
OpenStore == rows' = IF Persistent THEN rows ELSE NoRows

IsNew(k) == k \notin DOMAIN rows

\* An upsert: a second mark of a key overwrites rule and time.
MarkSeen(d, ruleName, at) ==
    rows' = [k \in DOMAIN rows \cup {Key(d)} |->
                IF k = Key(d) THEN [ruleName |-> ruleName, notifiedAt |-> at]
                ELSE rows[k]]

\* Fault: DELETE ... WHERE notified_at <= olderThan
PruneInclusive(olderThan) ==
    rows' = [k \in {k \in DOMAIN rows : rows[k].notifiedAt > olderThan} |-> rows[k]]

\* DELETE ... WHERE notified_at < olderThan
Prune(olderThan) ==
    rows' = [k \in {k \in DOMAIN rows : rows[k].notifiedAt >= olderThan} |-> rows[k]]

=============================================================================
