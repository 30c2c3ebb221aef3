---------------------------- MODULE FetchContract ----------------------------
(***************************************************************************)
(* What the pipeline relies on when it asks the shop something: a call     *)
(* sends at most Attempts requests for what it is asked, and it returns    *)
(* nil only with an answer in hand.  It may fail at any time.              *)
(***************************************************************************)
EXTENDS Naturals

CONSTANT Attempts

VARIABLES
    sent,       \* the requests of the current call
    served,     \* whether one of them got a usable answer
    result      \* "none" while the call runs, then "nil" or "error"

call == <<sent, served, result>>

Init == sent = 0 /\ served = FALSE /\ result = "none"

Begin == result # "none" /\ sent' = 0 /\ served' = FALSE /\ result' = "none"

Request ==
    /\ result = "none" /\ ~served /\ sent < Attempts
    /\ sent' = sent + 1
    /\ UNCHANGED <<served, result>>

Serve ==
    /\ result = "none" /\ sent > 0
    /\ served' = TRUE
    /\ UNCHANGED <<sent, result>>

ReturnNil == result = "none" /\ served /\ result' = "nil" /\ UNCHANGED <<sent, served>>

ReturnError == result = "none" /\ result' = "error" /\ UNCHANGED <<sent, served>>

Next == Begin \/ Request \/ Serve \/ ReturnNil \/ ReturnError

Spec == Init /\ [][Next]_call

=============================================================================
