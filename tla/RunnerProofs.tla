---------------------------- MODULE RunnerProofs ----------------------------
(***************************************************************************)
(* TLAPS proofs about Runner.tla, for every shop, rule list, set of pods,  *)
(* concurrency policy and bound.                                           *)
(***************************************************************************)
EXTENDS RunnerProperties, TLAPS, SequenceTheorems, WellFoundedInduction

-----------------------------------------------------------------------------
(* The operators the model is built from.                                  *)

(***************************************************************************)
(* A non-empty set of naturals has a least element: the "first rule" that  *)
(* filter.go:32-40 returns exists whenever some rule matches.              *)
(***************************************************************************)
LEMMA LeastExists ==
    ASSUME NEW S \in SUBSET Nat, S # {}
    PROVE  \E i \in S : \A j \in S : i <= j
<1>1. \E x \in S : \A y \in S : <<y, x>> \notin OpToRel(<, Nat)
  BY NatLessThanWellFounded, WFMin, Zenon
<1>2. PICK x \in S : \A y \in S : <<y, x>> \notin OpToRel(<, Nat)
  BY <1>1
<1>3. \A y \in S : ~(y < x)
  BY <1>2 DEF OpToRel
<1> QED
  BY <1>3

(***************************************************************************)
(* A non-empty set of positions of a sequence has a greatest element: the  *)
(* "last label" that the map in runner.go:134-139 keeps exists.            *)
(***************************************************************************)
LEMMA GreatestExists ==
    ASSUME NEW n \in Nat, NEW S \in SUBSET (1 .. n), S # {}
    PROVE  \E i \in S : \A j \in S : j <= i
<1> DEFINE T == {n - i : i \in S}
<1>1. T \in SUBSET Nat /\ T # {}
  <2>1. \A i \in S : n - i \in Nat
    OBVIOUS
  <2> QED
    BY <2>1
<1>2. PICK t \in T : \A u \in T : t <= u
  BY <1>1, LeastExists
<1>3. PICK i \in S : t = n - i
  OBVIOUS
<1>4. ASSUME NEW j \in S PROVE j <= i
  <2>1. n - j \in T
    OBVIOUS
  <2> QED
    BY <2>1, <1>2, <1>3
<1> QED
  BY <1>4

(***************************************************************************)
(* Match returns nil or a rule of the list that matches (filter.go:32-40). *)
(***************************************************************************)
LEMMA MatchIsARule ==
    ASSUME NEW d, Match(d) # 0
    PROVE  Match(d) \in DOMAIN Rules /\ RuleMatches(Rules[Match(d)], d)
<1>1. MatchingRules(d) \in SUBSET Nat
  BY RulesAssumption DEF ValidRules, MatchingRules
<1>2. MatchingRules(d) # {}
  BY DEF Match
<1>3. \E i \in MatchingRules(d) : \A j \in MatchingRules(d) : i <= j
  BY <1>1, <1>2, LeastExists
<1>4. Match(d) \in MatchingRules(d)
  BY <1>2, <1>3 DEF Match
<1> QED
  BY <1>4 DEF MatchingRules

LEMMA MatchHasAName ==
    ASSUME NEW d, Match(d) # 0
    PROVE  Rules[Match(d)].name \in STRING
<1>1. Match(d) \in DOMAIN Rules
  BY MatchIsARule
<1>2. Rules[Match(d)] \in Rule
  BY <1>1, RulesAssumption DEF ValidRules
<1> QED
  BY <1>2 DEF Rule

LEMMA KeyType == \A c \in Candidate : Key(c) \in DealKey
BY DEF Candidate, Key, DealKey

LEMMA LabelType ==
    ASSUME NEW listing \in Seq(Size), NEW s \in Size
    PROVE  LabelOf(listing, s) \in STRING
<1> DEFINE named == {i \in DOMAIN listing : listing[i].code = s.code /\ listing[i].label # ""}
<1>1. CASE named = {}
  BY <1>1 DEF LabelOf, Size
<1>2. CASE named # {}
  <2> DEFINE last == CHOOSE i \in named : \A j \in named : j <= i
  <2>1. DOMAIN listing = 1 .. Len(listing) /\ Len(listing) \in Nat
    BY LenProperties
  <2>2. named \in SUBSET (1 .. Len(listing))
    BY <2>1
  <2>3. \E i \in named : \A j \in named : j <= i
    <3> HIDE DEF named
    <3> QED
      BY <2>1, <2>2, <1>2, GreatestExists
  <2>4. last \in DOMAIN listing
    BY <2>3
  <2>5. LabelOf(listing, s) = listing[last].label
    BY <1>2, Zenon DEF LabelOf
  <2>6. listing[last] \in Size
    <3> HIDE DEF last, named
    <3> QED
      BY <2>1, <2>4, ElementOfSeq
  <2> QED
    BY <2>5, <2>6 DEF Size
<1> QED
  BY <1>1, <1>2

(***************************************************************************)
(* Merging labels keeps the authoritative sizes' number, codes and stock   *)
(* (runner.go:133-146), so a size sold out at the shop stays sold out.     *)
(***************************************************************************)
LEMMA MergeLabelsType ==
    ASSUME NEW listing \in Seq(Size), NEW auth \in Seq(Size)
    PROVE  /\ MergeLabels(listing, auth) \in Seq(Size)
           /\ DOMAIN MergeLabels(listing, auth) = DOMAIN auth
           /\ \A i \in DOMAIN auth :
                 /\ MergeLabels(listing, auth)[i].code = auth[i].code
                 /\ MergeLabels(listing, auth)[i].inStock = auth[i].inStock
<1>1. \A i \in DOMAIN auth : auth[i] \in Size /\ LabelOf(listing, auth[i]) \in STRING
  BY LabelType
<1>2. \A i \in DOMAIN auth :
         [auth[i] EXCEPT !.label = LabelOf(listing, auth[i])] \in Size
  BY <1>1 DEF Size
<1>3. MergeLabels(listing, auth) \in [1 .. Len(auth) -> Size]
  BY <1>2 DEF MergeLabels
<1>4. MergeLabels(listing, auth) \in Seq(Size)
  BY <1>3, SeqDef, LenProperties
<1> QED
  BY <1>1, <1>4 DEF MergeLabels, Size

LEMMA AnswersType == \A c : AnswersFor(c) \subseteq Seq(Size)
BY RunnerAssumption, EmptySeq DEF AnswersFor

LEMMA EnrichedType ==
    ASSUME NEW m \in MatchedDeal, NEW sizes \in AnswersFor(m.deal)
    PROVE  Enriched(m, sizes) \in Candidate
<1>1. m.deal \in Candidate /\ m.deal.sizes \in Seq(Size) /\ sizes \in Seq(Size)
  BY AnswersType DEF MatchedDeal, Candidate
<1>2. MergeLabels(m.deal.sizes, sizes) \in Seq(Size)
  BY <1>1, MergeLabelsType
<1> QED
  BY <1>1, <1>2 DEF Enriched, Candidate

-----------------------------------------------------------------------------
(* Type correctness.                                                       *)

LEMMA InitType == Init => TypeOK
<1> SUFFICES ASSUME Init PROVE TypeOK
  OBVIOUS
<1>1. << >> \in Seq(MatchedDeal)
  BY EmptySeq
<1>2. NoDigest \in Digest
  BY <1>1 DEF NoDigest, Digest
<1>3. RowsTyped
  BY DEF Init, StoreInit, NoRows, RowsTyped
<1>4. MailTyped /\ CountersTyped
  BY RunnerAssumption DEF Init, MailTyped, CountersTyped
<1>5. PodsTyped
  BY <1>1, <1>2 DEF Init, PodsTyped, TodoType, Stage
<1> QED
  BY <1>3, <1>4, <1>5 DEF TypeOK

\* A loop that visits an item leaves a well-typed rest behind.
LEMMA VisitingType ==
    ASSUME TypeOK, NEW p \in Pods, NEW stage \in Stage, Visiting(p, stage),
           DOMAIN out' = Pods, \A q \in Pods : out'[q] \in Seq(MatchedDeal)
    PROVE  PodsTyped' /\ MailTyped' /\ now' \in 0 .. MaxTime
<1>1. MailTyped' /\ now' \in 0 .. MaxTime
  BY DEF TypeOK, MailTyped, CountersTyped, Visiting, mail
<1>2. Tail(todo[p]) \in TodoType(p)
  BY HeadTailProperties DEF TypeOK, PodsTyped, TodoType, Visiting
<1>3. \A q \in Pods : todo'[q] \in TodoType(q) /\ TodoType(q)' = TodoType(q)
  BY <1>2 DEF TypeOK, PodsTyped, TodoType, Visiting
<1> QED
  BY <1>1, <1>3 DEF TypeOK, PodsTyped, Visiting

\* What a loop keeps is a sequence of matches.
LEMMA KeepType ==
    ASSUME TypeOK, NEW p \in Pods, NEW m \in MatchedDeal,
           Keep(p, m) \/ UNCHANGED out
    PROVE  DOMAIN out' = Pods /\ \A q \in Pods : out'[q] \in Seq(MatchedDeal)
<1>1. Append(out[p], m) \in Seq(MatchedDeal)
  BY AppendProperties DEF TypeOK, PodsTyped
<1> QED
  BY <1>1 DEF TypeOK, PodsTyped, Keep

\* An ended process leaves empty memory behind.
LEMMA ExitType ==
    ASSUME TypeOK, NEW p \in Pods, Exit(p)
    PROVE  PodsTyped'
<1>1. << >> \in Seq(MatchedDeal)
  BY EmptySeq
<1>2. NoDigest \in Digest
  BY <1>1 DEF NoDigest, Digest
<1>3. pc' \in [Pods -> Stage] /\ digest' \in [Pods -> Digest]
      /\ ctxDone' \in [Pods -> BOOLEAN] /\ markAt' \in [Pods -> Nat]
  BY <1>2 DEF TypeOK, PodsTyped, Exit, Goto, Stage
<1>4. DOMAIN todo' = Pods /\ DOMAIN out' = Pods
  BY DEF TypeOK, PodsTyped, Exit
<1>5. \A q \in Pods : todo'[q] \in TodoType(q)' /\ out'[q] \in Seq(MatchedDeal)
  BY <1>1 DEF TypeOK, PodsTyped, TodoType, Exit, Goto
<1> QED
  BY <1>3, <1>4, <1>5 DEF PodsTyped

LEMMA FaultsType ==
    ASSUME TypeOK, NEW p \in Pods, Succeeds(p) \/ Fails(p) \/ UNCHANGED faults
    PROVE  faults' \in 0 .. MaxFaults
BY RunnerAssumption DEF TypeOK, CountersTyped, Succeeds, Fails

\* Rows stay typed when the store is opened, marked or pruned.
LEMMA StoreType ==
    ASSUME TypeOK
    PROVE  /\ OpenStore => RowsTyped'
           /\ \A d \in Candidate, r \in STRING, at \in Nat : MarkSeen(d, r, at) => RowsTyped'
           /\ \A t : Prune(t) => RowsTyped'
           /\ UNCHANGED rows => RowsTyped'
<1>1. OpenStore => RowsTyped'
  BY DEF TypeOK, RowsTyped, OpenStore, NoRows
<1>2. ASSUME NEW d \in Candidate, NEW r \in STRING, NEW at \in Nat, MarkSeen(d, r, at)
      PROVE  RowsTyped'
  <2>1. Key(d) \in DealKey
    BY KeyType
  <2>2. [ruleName |-> r, notifiedAt |-> at] \in Row
    BY DEF Row
  <2> QED
    BY <1>2, <2>1, <2>2 DEF TypeOK, RowsTyped, MarkSeen
<1>3. ASSUME NEW t, Prune(t) PROVE RowsTyped'
  BY <1>3 DEF TypeOK, RowsTyped, Prune
<1> QED
  BY <1>1, <1>2, <1>3 DEF TypeOK, RowsTyped

\* The steps of a pod's program, one by one.
LEMMA StepType ==
    ASSUME TypeOK, NEW p \in Pods, Step(p)
    PROVE  TypeOK'
<1> USE DEF mail
<1>1. CASE FetchDeals(p)
  <2>1. PICK listing \in Listings : todo' = [todo EXCEPT ![p] = listing]
    BY <1>1 DEF FetchDeals
  <2>2. listing \in Seq(Candidate)
    BY RunnerAssumption
  <2>3. PodsTyped'
    <3>1. pc' = [pc EXCEPT ![p] = "filter"]
      BY <1>1 DEF FetchDeals, Goto
    <3>2. \A q \in Pods : todo'[q] \in TodoType(q)' /\ out'[q] \in Seq(MatchedDeal)
      BY <1>1, <2>1, <2>2, <3>1 DEF FetchDeals, TypeOK, PodsTyped, TodoType
    <3> QED
      BY <1>1, <2>1, <3>1, <3>2 DEF FetchDeals, TypeOK, PodsTyped, Stage
  <2> QED
    BY <1>1, <2>3, StoreType, FaultsType
    DEF FetchDeals, TypeOK, MailTyped, CountersTyped
<1>2. CASE FetchDealsFails(p) \/ NotifyFails(p) \/ PruneFails(p) \/ PruneOff(p)
  BY <1>2, ExitType, StoreType, FaultsType
  DEF FetchDealsFails, NotifyFails, PruneFails, PruneOff, TypeOK, MailTyped, CountersTyped
<1>3. CASE FilterCandidate(p)
  <2> DEFINE c == Head(todo[p])
             m == [deal |-> c, ruleName |-> Rules[Match(c)].name]
  <2>1. todo[p] \in Seq(Candidate) /\ todo[p] # << >>
    BY <1>3 DEF FilterCandidate, Visiting, TypeOK, PodsTyped, TodoType
  <2>2. c \in Candidate
    BY <2>1, HeadTailProperties
  <2>3. CASE Match(c) # 0
    <3>1. m \in MatchedDeal
      BY <2>2, <2>3, MatchHasAName DEF MatchedDeal
    <3>2. Keep(p, m)
      BY <1>3, <2>3 DEF FilterCandidate
    <3>3. DOMAIN out' = Pods /\ \A q \in Pods : out'[q] \in Seq(MatchedDeal)
      BY <3>1, <3>2, KeepType
    <3> QED
      BY <1>3, <3>3, VisitingType, StoreType, FaultsType
      DEF FilterCandidate, TypeOK, CountersTyped, Stage
  <2>4. CASE Match(c) = 0
    BY <1>3, <2>4, VisitingType, StoreType, FaultsType
    DEF FilterCandidate, TypeOK, CountersTyped, PodsTyped, Stage
  <2> QED
    BY <2>3, <2>4
<1>4. CASE EnrichOne(p)
  <2> DEFINE m == Head(todo[p])
  <2>1. todo[p] \in Seq(MatchedDeal) /\ todo[p] # << >>
    BY <1>4 DEF EnrichOne, Visiting, TypeOK, PodsTyped, TodoType
  <2>2. m \in MatchedDeal
    BY <2>1, HeadTailProperties
  <2>3. PICK sizes \in AnswersFor(m.deal) :
           LET d == Enriched(m, sizes) IN
           IF InStockSizes(d) # {} /\ Match(d) # 0
           THEN Keep(p, [deal |-> d, ruleName |-> Rules[Match(d)].name])
           ELSE UNCHANGED out
    BY <1>4 DEF EnrichOne
  <2> DEFINE d == Enriched(m, sizes)
             kept == [deal |-> d, ruleName |-> Rules[Match(d)].name]
  <2>4. d \in Candidate
    BY <2>2, EnrichedType
  <2>5. DOMAIN out' = Pods /\ \A q \in Pods : out'[q] \in Seq(MatchedDeal)
    <3>1. CASE InStockSizes(d) # {} /\ Match(d) # 0
      <4>1. kept \in MatchedDeal
        BY <2>4, <3>1, MatchHasAName DEF MatchedDeal
      <4>2. Keep(p, kept)
        BY <2>3, <3>1
      <4> QED
        BY <4>1, <4>2, KeepType
    <3>2. CASE UNCHANGED out
      BY <3>2 DEF TypeOK, PodsTyped
    <3> QED
      BY <2>3, <3>1, <3>2
  <2> QED
    BY <1>4, <2>5, VisitingType, StoreType, FaultsType
    DEF EnrichOne, TypeOK, CountersTyped, Stage
<1>5. CASE LookUp(p)
  <2>1. Head(todo[p]) \in MatchedDeal
    BY <1>5, HeadTailProperties DEF LookUp, Visiting, TypeOK, PodsTyped, TodoType
  <2>2. DOMAIN out' = Pods /\ \A q \in Pods : out'[q] \in Seq(MatchedDeal)
    BY <1>5, <2>1, KeepType DEF LookUp
  <2> QED
    BY <1>5, <2>2, VisitingType, StoreType, FaultsType
    DEF LookUp, TypeOK, CountersTyped, Stage
<1>6. CASE EnrichFails(p) \/ LookUpFails(p) \/ MarkFails(p)
  BY <1>6, VisitingType, StoreType, FaultsType
  DEF EnrichFails, LookUpFails, MarkFails, TypeOK, CountersTyped, PodsTyped, Stage
<1>7. CASE NothingFresh(p)
  BY <1>7, StoreType
  DEF NothingFresh, Goto, TypeOK, MailTyped, CountersTyped, PodsTyped, TodoType, Stage
<1>8. CASE CallNotify(p)
  <2>1. [id |-> sends + 1, lines |-> out[p], sentAt |-> now] \in Digest
    BY DEF TypeOK, MailTyped, CountersTyped, PodsTyped, Digest
  <2>2. digest' = [digest EXCEPT ![p] = [id |-> sends + 1, lines |-> out[p], sentAt |-> now]]
    BY <1>8 DEF CallNotify
  <2>3. digest' \in [Pods -> Digest]
    BY <2>1, <2>2 DEF TypeOK, PodsTyped
  <2>4. MailTyped'
    BY <1>8, <2>3 DEF CallNotify, TypeOK, MailTyped
  <2>5. \A q \in Pods : todo'[q] \in TodoType(q)' /\ out'[q] \in Seq(MatchedDeal)
    BY <1>8, EmptySeq DEF CallNotify, Goto, TypeOK, PodsTyped, TodoType
  <2> QED
    BY <1>8, <2>3, <2>4, <2>5, StoreType
    DEF CallNotify, Goto, TypeOK, CountersTyped, PodsTyped, Stage
<1>9. CASE NotifyReturnsNil(p)
  BY <1>9, StoreType
  DEF NotifyReturnsNil, Goto, TypeOK, MailTyped, CountersTyped, PodsTyped, TodoType, Stage
<1>10. CASE Mark(p)
  <2>1. Head(todo[p]) \in MatchedDeal
    BY <1>10, HeadTailProperties DEF Mark, Visiting, TypeOK, PodsTyped, TodoType
  <2>2. RowsTyped'
    BY <1>10, <2>1, StoreType DEF Mark, MatchedDeal, TypeOK, PodsTyped
  <2> QED
    BY <1>10, <2>2, VisitingType, FaultsType
    DEF Mark, TypeOK, CountersTyped, PodsTyped, Stage
<1>11. CASE PruneOld(p)
  BY <1>11, ExitType, StoreType, FaultsType
  DEF PruneOld, TypeOK, MailTyped, CountersTyped
<1>12. CASE EndOfLoop(p)
  <2>1. PICK from \in Stage, to \in Stage \ {"filter"} : NextStage(p, from, to)
    BY <1>12 DEF EndOfLoop, Stage
  <2>2. \A q \in Pods : todo'[q] \in TodoType(q)' /\ out'[q] \in Seq(MatchedDeal)
    BY <2>1, EmptySeq DEF NextStage, Goto, TypeOK, PodsTyped, TodoType
  <2> QED
    BY <2>1, <2>2, StoreType
    DEF NextStage, Goto, TypeOK, MailTyped, CountersTyped, PodsTyped
<1> QED
  BY <1>1, <1>2, <1>3, <1>4, <1>5, <1>6, <1>7, <1>8, <1>9, <1>10, <1>11, <1>12 DEF Step

LEMMA NextType == TypeOK /\ [Next]_vars => TypeOK'
<1> SUFFICES ASSUME TypeOK, [Next]_vars PROVE TypeOK'
  OBVIOUS
<1> USE DEF mail
<1>1. ASSUME NEW p \in Pods, StartRun(p) PROVE TypeOK'
  BY <1>1, StoreType
  DEF StartRun, CreatePod, Goto, TypeOK, MailTyped, CountersTyped, PodsTyped, TodoType, Stage
<1>2. ASSUME NEW p \in Pods, Step(p) PROVE TypeOK'
  BY <1>2, StepType
<1>3. ASSUME NEW p \in Pods, Signal(p) PROVE TypeOK'
  BY <1>3, StoreType, RunnerAssumption
  DEF Signal, TypeOK, MailTyped, CountersTyped, PodsTyped, TodoType
<1>4. ASSUME NEW p \in Pods, Kill(p) PROVE TypeOK'
  BY <1>4, StoreType, ExitType, RunnerAssumption
  DEF Kill, TypeOK, MailTyped, CountersTyped
<1>5. ASSUME NEW d \in inflight, Accept(d) \/ Lose(d) PROVE TypeOK'
  BY <1>5, StoreType
  DEF Accept, Lose, TypeOK, MailTyped, CountersTyped, PodsTyped, TodoType
<1>6. CASE Tick
  BY <1>6, StoreType, RunnerAssumption
  DEF Tick, TypeOK, MailTyped, CountersTyped, PodsTyped, TodoType
<1>7. CASE UNCHANGED vars
  BY <1>7, StoreType
  DEF vars, TypeOK, MailTyped, CountersTyped, PodsTyped, TodoType
<1>8. ASSUME NEW p \in Pods, StartRunFails(p) PROVE TypeOK'
  BY <1>8, StoreType, RunnerAssumption
  DEF StartRunFails, CreatePod, TypeOK, MailTyped, CountersTyped, PodsTyped, TodoType
<1> QED
  BY <1>1, <1>2, <1>3, <1>4, <1>5, <1>6, <1>7, <1>8 DEF Next

(***************************************************************************)
(* Every reachable state of the pipeline is well-typed: every pod's loops  *)
(* hold what their stage works on, and the counters stay in their bounds.  *)
(***************************************************************************)
THEOREM TypeCorrect == Spec => []TypeOK
BY InitType, NextType, PTL DEF Spec

=============================================================================
