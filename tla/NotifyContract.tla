--------------------------- MODULE NotifyContract ---------------------------
(***************************************************************************)
(* What one call of Notify promises, as Runner.tla relies on it: the       *)
(* digest reaches every recipient or none, and nil is only returned after  *)
(* it reached them.  An error promises nothing: the digest may have        *)
(* arrived, or may still arrive.                                           *)
(***************************************************************************)
CONSTANT Recipients

VARIABLES
    mailbox,    \* the recipients who have the digest
    result      \* "none" while the call runs, then "nil" or "error"

call == <<mailbox, result>>

Init == mailbox = {} /\ result = "none"

ReachEveryone ==
    /\ mailbox = {} /\ mailbox' = Recipients
    /\ UNCHANGED result

ReturnNil ==
    /\ result = "none" /\ mailbox = Recipients
    /\ result' = "nil"
    /\ UNCHANGED mailbox

ReturnError ==
    /\ result = "none"
    /\ result' = "error"
    /\ UNCHANGED mailbox

Next == ReachEveryone \/ ReturnNil \/ ReturnError

Spec == Init /\ [][Next]_call

=============================================================================
