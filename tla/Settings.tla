------------------------------ MODULE Settings ------------------------------
(***************************************************************************)
(* What the parts of the program take for granted of a loaded              *)
(* configuration.  Startup.tla shows that a process which got past         *)
(* config.Load keeps it; the other modules assume it of their constants.   *)
(* A compiled regex is the set of the names it matches, NoRegex is Go's    *)
(* nil.                                                                    *)
(***************************************************************************)
EXTENDS Integers, Sequences

CONSTANT NoRegex

\* A zero maxPrice or minDiscount is "not set", as in the code.
Rule == [name : STRING \ {""}, nameRegex : {NoRegex} \cup SUBSET STRING,
         sizes : SUBSET STRING, maxPrice : Int, minDiscount : 0 .. 100]

ValidRules(rules) == rules \in Seq(Rule) /\ rules # << >>

\* A number for which applyDefaults has a default is never 0, but any other:
\* validate looks at none of them.
SetNumber == Int \ {0}

=============================================================================
