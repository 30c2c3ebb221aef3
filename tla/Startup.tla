------------------------------- MODULE Startup -------------------------------
(***************************************************************************)
(* The start of a process: config.Load (internal/config/config.go) and     *)
(* run and assemble (cmd/uniqlo-deal-hunter/main.go), up to the call of    *)
(* the pipeline.  The YAML decoder yields some configuration or an error;  *)
(* applyDefaults and validate change it in place.                          *)
(*                                                                         *)
(* Of a field that validate only accepts or refuses, the model keeps which *)
(* it is (unfit); of the credentials, whether they are set.                *)
(***************************************************************************)
EXTENDS Settings

CONSTANTS
    FileUnfit,   \* the sets of unfit fields that a file may have
    FileRules,   \* the rule lists that a file may hold
    FileNumbers, \* the numbers that a file may hold
    Regex        \* pattern that compiles -> the names it matches

VARIABLES
    pc,         \* the function the process is in
    unfit,      \* the fields of the configuration that validate refuses
    numbers,    \* its numbers that have a default
    rules,      \* its rules
    auth,       \* which of username and passwordFile it sets
    next,       \* the index of validateRules' loop
    password,   \* what the notifier took from the password file
    broken      \* whether a file could not be used

config == <<unfit, numbers, rules, auth>>
vars == <<pc, config, next, password, broken>>

SourceField == {"source.kind", "baseURL", "region", "language", "segment", "clientID"}
NotifierField == {"notifier.kind", "host", "port", "from", "to"}
StoreField == {"store.kind", "path"}
Field == SourceField \cup NotifierField \cup StoreField

Default == [timeout |-> 15, maxRetries |-> 3, requestsPerSecond |-> 1,
            smtpTimeout |-> 15, retentionDays |-> 90]

FileRule == [name : STRING, namePattern : STRING, sizes : SUBSET STRING, maxPrice : Int,
             minDiscount : Int, compiled : {NoRegex} \cup SUBSET STRING]

ASSUME StartupAssumption ==
    /\ FileUnfit \subseteq SUBSET Field
    /\ FileRules \subseteq Seq(FileRule)
    /\ \A rs \in FileRules : \A i \in DOMAIN rs : rs[i].compiled = NoRegex
    /\ FileNumbers \subseteq [DOMAIN Default -> Int]
    /\ \A pattern \in DOMAIN Regex : Regex[pattern] \in SUBSET STRING
    /\ "" \notin DOMAIN Regex

Place == {"decode", "defaults", "source", "rules", "notifier", "store", "password",
          "open", "running", "failed"}

TypeOK ==
    /\ pc \in Place
    /\ unfit \subseteq Field
    /\ numbers \in [DOMAIN Default -> Int]
    /\ rules \in Seq(FileRule)
    /\ auth \subseteq {"username", "passwordFile"}
    /\ next \in 1 .. Len(rules) + 1
    /\ password \in {"none", "contents"}
    /\ broken \in BOOLEAN

-----------------------------------------------------------------------------

\* The configuration is the file's from the start; nothing looks at it before
\* it is decoded.
Init ==
    /\ pc = "decode"
    /\ unfit \in FileUnfit
    /\ numbers \in FileNumbers
    /\ rules \in FileRules
    /\ auth \in SUBSET {"username", "passwordFile"}
    /\ next = 1 /\ password = "none" /\ broken = FALSE

\* A step from one function to the next, or to the process's end.
Proceed(from, ok, to) == pc = from /\ pc' = IF ok THEN to ELSE "failed"

Decode ==
    /\ Proceed("decode", TRUE, "defaults")
    /\ UNCHANGED <<config, next, password, broken>>

\* The file is missing or not YAML, has an unknown field or a value of a wrong
\* type; the password file cannot be read; the store cannot be opened.
CannotUse(place) ==
    /\ Proceed(place, FALSE, "failed")
    /\ broken' = TRUE
    /\ UNCHANGED <<config, next, password>>

ApplyDefaults ==
    /\ Proceed("defaults", TRUE, "source")
    /\ numbers' = [n \in DOMAIN Default |-> IF numbers[n] = 0 THEN Default[n] ELSE numbers[n]]
    /\ UNCHANGED <<unfit, rules, auth, next, password, broken>>

ValidateSource ==
    /\ Proceed("source", unfit \cap SourceField = {}, "rules")
    /\ UNCHANGED <<config, next, password, broken>>

(* validateRules: a loop that compiles each pattern into the rule itself.  *)

RuleFits(r) ==
    /\ r.name # ""
    /\ r.namePattern \in {""} \cup DOMAIN Regex
    /\ r.minDiscount \in 0 .. 100

Compiled(r) == IF r.namePattern = "" THEN NoRegex ELSE Regex[r.namePattern]

\* Fault: the loop's variable is a copy of the rule.
ValidateCopyOfRule ==
    /\ next <= Len(rules) /\ RuleFits(rules[next])
    /\ Proceed("rules", TRUE, "rules")
    /\ next' = next + 1
    /\ UNCHANGED <<config, password, broken>>

ValidateRule ==
    /\ next <= Len(rules) /\ RuleFits(rules[next])
    /\ Proceed("rules", TRUE, "rules")
    /\ rules' = [rules EXCEPT ![next].compiled = Compiled(rules[next])]
    /\ next' = next + 1
    /\ UNCHANGED <<unfit, numbers, auth, password, broken>>

RefuseRule ==
    /\ next <= Len(rules) /\ ~RuleFits(rules[next])
    /\ Proceed("rules", FALSE, "rules")
    /\ UNCHANGED <<config, next, password, broken>>

RulesDone ==
    /\ next > Len(rules)
    /\ Proceed("rules", rules # << >>, "notifier")
    /\ UNCHANGED <<config, next, password, broken>>

\* Fault: a relay without authentication has to have a password, too.
ValidateNotifierWithPassword ==
    /\ Proceed("notifier", unfit \cap NotifierField = {} /\ "passwordFile" \in auth, "store")
    /\ UNCHANGED <<config, next, password, broken>>

ValidateNotifier ==
    /\ Proceed("notifier",
               unfit \cap NotifierField = {} /\ auth # {"username"}, "store")
    /\ UNCHANGED <<config, next, password, broken>>

ValidateStore ==
    /\ Proceed("store", unfit \cap StoreField = {}, "password")
    /\ UNCHANGED <<config, next, password, broken>>

(* assemble: smtpn.New, then sqlitestore.Open.                             *)

\* Fault: the path is taken for the password.
LoadPath ==
    /\ Proceed("password", TRUE, "open")
    /\ password' = IF "passwordFile" \in auth THEN "passwordFile" ELSE "none"
    /\ UNCHANGED <<config, next, broken>>

\* The password is what the file holds, trimmed; that may be nothing at all.
LoadPassword ==
    /\ Proceed("password", TRUE, "open")
    /\ password' = IF "passwordFile" \in auth THEN "contents" ELSE "none"
    /\ UNCHANGED <<config, next, broken>>

OpenStore ==
    /\ Proceed("open", TRUE, "running")
    /\ UNCHANGED <<config, next, password, broken>>

Next ==
    \/ Decode \/ ApplyDefaults \/ ValidateSource \/ ValidateRule \/ RefuseRule \/ RulesDone
    \/ ValidateNotifier \/ ValidateStore \/ LoadPassword \/ OpenStore
    \/ CannotUse("decode") \/ CannotUse("open")
    \/ "passwordFile" \in auth /\ CannotUse("password")

Spec == Init /\ [][Next]_vars

-----------------------------------------------------------------------------

\* The rules as the evaluator sees them.
Evaluated ==
    [i \in DOMAIN rules |->
        [name |-> rules[i].name, nameRegex |-> rules[i].compiled, sizes |-> rules[i].sizes,
         maxPrice |-> rules[i].maxPrice, minDiscount |-> rules[i].minDiscount]]

(***************************************************************************)
(* config.go:154-155, "guaranteed to have all required fields populated    *)
(* and any regex patterns compiled": a pipeline that runs has what the     *)
(* other modules assume of it (RulesAssumption, the number assumptions,    *)
(* SmtpAssumption), and every rule with a pattern filters by it.  A nil    *)
(* regex matches every name.                                               *)
(***************************************************************************)
RunsAsAssumed ==
    pc = "running" =>
        /\ unfit = {}
        /\ ValidRules(Evaluated)
        /\ \A i \in DOMAIN rules :
              rules[i].namePattern # "" => Evaluated[i].nameRegex = Regex[rules[i].namePattern]
        /\ \A n \in DOMAIN Default : numbers[n] \in SetNumber
        /\ "username" \in auth => password = "contents"

(***************************************************************************)
(* A process that does not start has a reason outside itself: a field that *)
(* is unfit, a rule that is, no rule, a user without a password file, or a *)
(* file that cannot be used.  TestLoad_NoAuth_Allowed is one case of it.   *)
(***************************************************************************)
FailsForAReason ==
    pc = "failed" =>
        \/ broken \/ unfit # {} \/ rules = << >> \/ auth = {"username"}
        \/ \E i \in DOMAIN rules : ~RuleFits(rules[i])

=============================================================================
