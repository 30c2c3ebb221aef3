---------------------------- MODULE StartupProofs ----------------------------
(***************************************************************************)
(* TLAPS proofs about Startup.tla, for every configuration file: typing,   *)
(* what a process that runs may assume, and why one fails to start.        *)
(***************************************************************************)
EXTENDS Startup, TLAPS

\* The rules that the loop has passed fit and are compiled.
RulesInv ==
    /\ \A i \in 1 .. next - 1 : RuleFits(rules[i]) /\ rules[i].compiled = Compiled(rules[i])
    /\ pc \in {"notifier", "store", "password", "open", "running"} =>
          next = Len(rules) + 1 /\ rules # << >>

\* What each validation has left behind.
FieldsInv ==
    /\ pc \notin {"decode", "defaults", "failed"} => \A n \in DOMAIN Default : numbers[n] # 0
    /\ pc \in {"rules", "notifier", "store", "password", "open", "running"} =>
          unfit \cap SourceField = {}
    /\ pc \in {"store", "password", "open", "running"} =>
          unfit \cap NotifierField = {} /\ auth # {"username"}
    /\ pc \in {"password", "open", "running"} => unfit \cap StoreField = {}
    /\ pc \in {"open", "running"} /\ "passwordFile" \in auth => password = "contents"

IInv == TypeOK /\ RulesInv /\ FieldsInv /\ FailsForAReason

LEMMA RuleRecord ==
    ASSUME NEW name \in STRING, name # "", NEW nameRegex \in {NoRegex} \cup SUBSET STRING,
           NEW sizes \in SUBSET STRING, NEW maxPrice \in Int, NEW minDiscount \in 0 .. 100
    PROVE  [name |-> name, nameRegex |-> nameRegex, sizes |-> sizes,
            maxPrice |-> maxPrice, minDiscount |-> minDiscount] \in Rule
BY DEF Rule

LEMMA InitIInv == Init => IInv
<1> SUFFICES ASSUME Init PROVE IInv
  OBVIOUS
<1>1. rules \in Seq(FileRule) /\ unfit \subseteq Field /\ numbers \in [DOMAIN Default -> Int]
  BY StartupAssumption DEF Init
<1>2. next \in 1 .. Len(rules) + 1
  BY <1>1 DEF Init
<1>4. TypeOK
  BY <1>1, <1>2 DEF Init, TypeOK, Place
<1>3. RulesInv /\ FieldsInv /\ FailsForAReason
  BY DEF Init, RulesInv, FieldsInv, FailsForAReason
<1> QED
  BY <1>3, <1>4 DEF IInv

(***************************************************************************)
(* Compiling into the rule of the loop keeps the list's type and the       *)
(* rules that the loop has passed, and adds one to them.                   *)
(***************************************************************************)
LEMMA CompiledInPlace ==
    ASSUME IInv, next \in 1 .. Len(rules), RuleFits(rules[next]),
           rules' = [rules EXCEPT ![next].compiled = Compiled(rules[next])],
           next' = next + 1
    PROVE  /\ rules' \in Seq(FileRule) /\ Len(rules') = Len(rules)
           /\ \A i \in 1 .. next' - 1 :
                 RuleFits(rules[i])' /\ rules'[i].compiled = Compiled(rules[i])'
<1>1. rules \in Seq(FileRule) /\ rules[next] \in FileRule
  BY DEF IInv, TypeOK
<1> DEFINE new == [rules[next] EXCEPT !.compiled = Compiled(rules[next])]
<1>2. Compiled(rules[next]) \in {NoRegex} \cup SUBSET STRING
  <2>1. CASE rules[next].namePattern = ""
    BY <2>1 DEF Compiled
  <2>2. CASE rules[next].namePattern # ""
    BY <2>2, StartupAssumption DEF Compiled, RuleFits
  <2> QED
    BY <2>1, <2>2
<1>3. /\ new \in FileRule
      /\ new.name = rules[next].name /\ new.namePattern = rules[next].namePattern
      /\ new.minDiscount = rules[next].minDiscount
      /\ new.compiled = Compiled(rules[next])
  BY <1>1, <1>2 DEF FileRule
<1>4. rules' = [rules EXCEPT ![next] = new]
  BY <1>1 DEF FileRule
<1> HIDE DEF new
<1>5. rules' \in Seq(FileRule) /\ Len(rules') = Len(rules)
  BY <1>1, <1>3, <1>4
<1>6. ASSUME NEW i \in 1 .. next
      PROVE  RuleFits(rules[i])' /\ rules'[i].compiled = Compiled(rules[i])'
  <2>1. CASE i = next
    <3>1. rules'[i] = new
      BY <1>1, <1>4, <2>1
    <3> QED
      BY <1>3, <2>1, <3>1 DEF RuleFits, Compiled
  <2>2. CASE i # next
    <3>1. rules'[i] = rules[i]
      BY <1>1, <1>4, <2>2
    <3>2. i \in 1 .. next - 1
      BY <1>1, <2>2
    <3> QED
      BY <3>1, <3>2 DEF IInv, RulesInv, RuleFits, Compiled
  <2> QED
    BY <2>1, <2>2
<1>7. 1 .. next' - 1 = 1 .. next
  BY <1>1
<1> QED
  BY <1>5, <1>6, <1>7

LEMMA NextIInv == IInv /\ [Next]_vars => IInv'
<1> SUFFICES ASSUME IInv, [Next]_vars PROVE IInv'
  OBVIOUS
<1> USE DEF Proceed, config
<1>1. CASE ValidateRule
  <2>1. /\ next \in 1 .. Len(rules) /\ RuleFits(rules[next])
        /\ pc = "rules" /\ pc' = "rules" /\ next' = next + 1
        /\ rules' = [rules EXCEPT ![next].compiled = Compiled(rules[next])]
    BY <1>1 DEF ValidateRule, IInv, TypeOK
  <2>2. /\ rules' \in Seq(FileRule) /\ Len(rules') = Len(rules)
        /\ \A i \in 1 .. next' - 1 :
              RuleFits(rules[i])' /\ rules'[i].compiled = Compiled(rules[i])'
    BY <2>1, CompiledInPlace
  <2>3. TypeOK'
    BY <1>1, <2>1, <2>2 DEF ValidateRule, IInv, TypeOK
  <2>4. RulesInv' /\ FieldsInv' /\ FailsForAReason'
    BY <1>1, <2>1, <2>2 DEF ValidateRule, IInv, RulesInv, FieldsInv, FailsForAReason
  <2> QED
    BY <2>3, <2>4 DEF IInv
<1>9. CASE RefuseRule
  <2>1. /\ next \in DOMAIN rules /\ ~RuleFits(rules[next])
        /\ pc' = "failed" /\ UNCHANGED <<config, next, password, broken>>
    BY <1>9 DEF RefuseRule, IInv, TypeOK
  <2>2. TypeOK' /\ FieldsInv'
    BY <2>1 DEF IInv, TypeOK, Place, FieldsInv
  <2>3. RulesInv'
    BY <2>1 DEF IInv, RulesInv, RuleFits, Compiled
  <2>4. FailsForAReason'
    BY <2>1 DEF FailsForAReason, RuleFits
  <2> QED
    BY <2>2, <2>3, <2>4 DEF IInv
<1>2. CASE ApplyDefaults
  BY <1>2 DEF ApplyDefaults, Default, IInv, TypeOK, Place, RulesInv, FieldsInv, FailsForAReason
<1>3. CASE Decode \/ ValidateSource
  BY <1>3 DEF Decode, ValidateSource, IInv, TypeOK, Place, RulesInv, FieldsInv, FailsForAReason
<1>8. CASE RulesDone
  BY <1>8 DEF RulesDone, IInv, TypeOK, Place, RulesInv, FieldsInv, FailsForAReason
<1>4. CASE ValidateNotifier \/ ValidateStore
  BY <1>4 DEF ValidateNotifier, ValidateStore, IInv, TypeOK, Place, RulesInv, FieldsInv,
              FailsForAReason
<1>5. CASE LoadPassword \/ OpenStore
  BY <1>5 DEF LoadPassword, OpenStore, IInv, TypeOK, Place, RulesInv, FieldsInv,
              FailsForAReason
<1>6. ASSUME NEW place \in {"decode", "password", "open"}, CannotUse(place) PROVE IInv'
  BY <1>6 DEF CannotUse, IInv, TypeOK, Place, RulesInv, FieldsInv, FailsForAReason
<1>7. CASE UNCHANGED vars
  <2>1. TypeOK' /\ FieldsInv'
    BY <1>7 DEF vars, IInv, TypeOK, FieldsInv
  <2>2. RulesInv'
    BY <1>7 DEF vars, IInv, RulesInv, RuleFits, Compiled
  <2>3. FailsForAReason'
    BY <1>7 DEF vars, IInv, FailsForAReason, RuleFits
  <2> QED
    BY <2>1, <2>2, <2>3 DEF IInv
<1> QED
  BY <1>1, <1>2, <1>3, <1>4, <1>5, <1>6, <1>7, <1>8, <1>9 DEF Next

LEMMA IInvAlways == Spec => []IInv
BY InitIInv, NextIInv, PTL DEF Spec

(***************************************************************************)
(* Loading keeps the configuration well-typed and the loop in its bounds.  *)
(***************************************************************************)
THEOREM StartupTypeCorrect == Spec => []TypeOK
<1>1. IInv => TypeOK
  BY DEF IInv
<1> QED
  BY <1>1, IInvAlways, PTL

(***************************************************************************)
(* A pipeline that runs finds in its configuration what the other modules  *)
(* assume of it, and every pattern compiled (config.go:154-155).           *)
(***************************************************************************)
THEOREM RunningIsConfigured == Spec => []RunsAsAssumed
<1>1. ASSUME IInv, pc = "running" PROVE RunsAsAssumed
  <2>1. rules \in Seq(FileRule) /\ next - 1 = Len(rules) /\ rules # << >>
    BY <1>1 DEF IInv, TypeOK, RulesInv
  <2>2. \A i \in 1 .. Len(rules) :
           RuleFits(rules[i]) /\ rules[i].compiled = Compiled(rules[i])
    BY <1>1, <2>1 DEF IInv, RulesInv
  <2>3. unfit = {}
    BY <1>1 DEF IInv, TypeOK, FieldsInv, Field
  <2>4. ValidRules(Evaluated)
    <3>1. \A i \in 1 .. Len(rules) : Evaluated[i] \in Rule
      <4> TAKE i \in 1 .. Len(rules)
      <4>1. rules[i] \in FileRule /\ RuleFits(rules[i])
        BY <2>1, <2>2
      <4>2. /\ rules[i].name \in STRING /\ rules[i].sizes \in SUBSET STRING
            /\ rules[i].maxPrice \in Int /\ rules[i].compiled \in {NoRegex} \cup SUBSET STRING
        BY <4>1 DEF FileRule
      <4>3. rules[i].name # "" /\ rules[i].minDiscount \in 0 .. 100
        BY <4>1 DEF RuleFits
      <4>4. Evaluated[i] = [name |-> rules[i].name, nameRegex |-> rules[i].compiled,
                            sizes |-> rules[i].sizes, maxPrice |-> rules[i].maxPrice,
                            minDiscount |-> rules[i].minDiscount]
        BY <2>1 DEF Evaluated
      <4> HIDE DEF Evaluated
      <4>5. [name |-> rules[i].name, nameRegex |-> rules[i].compiled,
             sizes |-> rules[i].sizes, maxPrice |-> rules[i].maxPrice,
             minDiscount |-> rules[i].minDiscount] \in Rule
        BY ONLY <4>2, <4>3, RuleRecord
      <4> QED
        BY <4>4, <4>5
    <3>2. DOMAIN Evaluated = 1 .. Len(rules) /\ Len(rules) \in Nat /\ Len(rules) # 0
      BY <2>1 DEF Evaluated
    <3>3. Evaluated = [i \in 1 .. Len(rules) |-> Evaluated[i]]
      BY <2>1 DEF Evaluated
    <3> HIDE DEF Evaluated
    <3>4. Evaluated \in Seq(Rule)
      BY <3>1, <3>2, <3>3
    <3> QED
      BY <3>2, <3>4 DEF ValidRules
  <2>5. \A i \in DOMAIN rules :
           rules[i].namePattern # "" => Evaluated[i].nameRegex = Regex[rules[i].namePattern]
    <3> TAKE i \in DOMAIN rules
    <3>1. rules[i].compiled = Compiled(rules[i])
      BY <2>1, <2>2
    <3> QED
      BY <3>1 DEF Evaluated, Compiled
  <2>6. \A n \in DOMAIN Default : numbers[n] \in SetNumber
    BY <1>1 DEF IInv, TypeOK, FieldsInv, SetNumber
  <2>7. "username" \in auth => password = "contents"
    BY <1>1 DEF IInv, TypeOK, FieldsInv
  <2> QED
    BY <2>3, <2>4, <2>5, <2>6, <2>7 DEF RunsAsAssumed
<1>2. IInv => RunsAsAssumed
  BY <1>1 DEF RunsAsAssumed
<1> QED
  BY <1>2, IInvAlways, PTL

(***************************************************************************)
(* No configuration is refused without a reason in it, and no start fails  *)
(* without one in the configuration or in a file it names.                 *)
(***************************************************************************)
THEOREM FailuresHaveReasons == Spec => []FailsForAReason
<1>1. IInv => FailsForAReason
  BY DEF IInv
<1> QED
  BY <1>1, IInvAlways, PTL

=============================================================================
