------------------------------- MODULE Ledger -------------------------------
(***************************************************************************)
(* What the program promises its users, without pods, stages or a clock:   *)
(* a ledger of announced deals.  A digest handed to the mail server names  *)
(* no deal the ledger knows; the ledger only learns a deal from a digest   *)
(* that arrived; it may forget deals (retention) and a digest may get lost *)
(* on its way.  Between arriving and being learnt a deal may be handed out *)
(* again: that is the at-least-once window the program cannot close.       *)
(***************************************************************************)
EXTENDS Deal

VARIABLES
    known,      \* the keys the ledger holds
    handed,     \* digests handed to the mail server
    announced   \* digests that arrived

ledger == <<known, handed, announced>>

KeysOf(d) == {Key(d.lines[i].deal) : i \in DOMAIN d.lines}

Init == known = {} /\ handed = {} /\ announced = {}

Hand ==
    /\ \E d \in handed' : handed' = handed \cup {d} /\ KeysOf(d) \cap known = {}
    /\ UNCHANGED <<known, announced>>

Arrive ==
    /\ \E d \in handed : handed' = handed \ {d} /\ announced' = announced \cup {d}
    /\ UNCHANGED known

Drop ==
    /\ \E d \in handed : handed' = handed \ {d}
    /\ UNCHANGED <<known, announced>>

Learn ==
    /\ \E d \in announced : \E k \in KeysOf(d) : known' = known \cup {k}
    /\ UNCHANGED <<handed, announced>>

Forget ==
    /\ known' \subseteq known
    /\ UNCHANGED <<handed, announced>>

Next == Hand \/ Arrive \/ Drop \/ Learn \/ Forget

Spec == Init /\ [][Next]_ledger

=============================================================================
