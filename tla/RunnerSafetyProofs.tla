------------------------- MODULE RunnerSafetyProofs -------------------------
(***************************************************************************)
(* TLAPS proofs of the pipeline's safety properties that need no policy:   *)
(* every row stands for delivered mail, every line of mail is buyable.     *)
(***************************************************************************)
EXTENDS RunnerProofs

-----------------------------------------------------------------------------
(* Rows stand for delivered mail.                                          *)

Lists(d, m) == \E i \in DOMAIN d.lines : d.lines[i] = m

\* What a pod still has to mark is in the digest it sent, and that digest
\* has arrived before the first mark.
MarksItsDigest(p) ==
    /\ pc[p] = "sending" => todo[p] = digest[p].lines
    /\ pc[p] = "persist" =>
          /\ digest[p] \in inbox
          /\ \A i \in DOMAIN todo[p] : Lists(digest[p], todo[p][i])

DeliveredInv == RecordedWasDelivered /\ \A p \in Pods : MarksItsDigest(p)

LEMMA TailElements ==
    ASSUME NEW S, NEW s \in Seq(S), s # << >>
    PROVE  /\ 1 \in DOMAIN s /\ Head(s) = s[1]
           /\ \A i \in DOMAIN Tail(s) : i + 1 \in DOMAIN s /\ Tail(s)[i] = s[i + 1]
BY HeadTailProperties, LenProperties

LEMMA AppendElements ==
    ASSUME NEW S, NEW s \in Seq(S), NEW e \in S, NEW i \in DOMAIN Append(s, e)
    PROVE  (i \in DOMAIN s /\ Append(s, e)[i] = s[i]) \/ Append(s, e)[i] = e
BY AppendProperties, LenProperties

\* Dropping rows and adding mail keeps every row's witness.
LEMMA RowsKeepWitness ==
    ASSUME RecordedWasDelivered, inbox \subseteq inbox',
           DOMAIN rows' \subseteq DOMAIN rows,
           \A k \in DOMAIN rows' : rows'[k] = rows[k]
    PROVE  RecordedWasDelivered'
BY DEF RecordedWasDelivered

LEMMA StoreShrinks ==
    /\ OpenStore \/ UNCHANGED rows \/ (\E t : Prune(t)) =>
          DOMAIN rows' \subseteq DOMAIN rows /\ \A k \in DOMAIN rows' : rows'[k] = rows[k]
BY DEF OpenStore, NoRows, Prune

LEMMA MarkKeepsDelivered ==
    ASSUME TypeOK, DeliveredInv, NEW p \in Pods, Mark(p)
    PROVE  DeliveredInv'
<1> DEFINE m == Head(todo[p])
<1>1. todo[p] \in Seq(MatchedDeal) /\ todo[p] # << >> /\ pc[p] = "persist"
  BY DEF Mark, Visiting, TypeOK, PodsTyped, TodoType
<1>2. digest[p] \in inbox /\ Lists(digest[p], m)
  BY <1>1, TailElements DEF DeliveredInv, MarksItsDigest
<1>3. RecordedWasDelivered'
  <2>1. inbox' = inbox
    BY DEF Mark, Visiting, mail
  <2>2. ASSUME NEW k \in DOMAIN rows'
        PROVE  \E d \in inbox : \E i \in DOMAIN d.lines :
                  Key(d.lines[i].deal) = k /\ d.lines[i].ruleName = rows'[k].ruleName
    <3>1. CASE k = Key(m.deal)
      <4>1. rows'[k].ruleName = m.ruleName
        BY <3>1 DEF Mark, MarkSeen
      <4> QED
        BY <1>2, <3>1, <4>1 DEF Lists
    <3>2. CASE k # Key(m.deal)
      <4>1. k \in DOMAIN rows /\ rows'[k] = rows[k]
        BY <2>2, <3>2 DEF Mark, MarkSeen
      <4> QED
        BY <4>1 DEF DeliveredInv, RecordedWasDelivered
    <3> QED
      BY <3>1, <3>2
  <2> QED
    BY <2>1, <2>2 DEF RecordedWasDelivered
<1>4. ASSUME NEW q \in Pods PROVE MarksItsDigest(q)'
  <2>1. pc' = pc /\ digest' = digest /\ inbox' = inbox
        /\ todo' = [todo EXCEPT ![p] = Tail(todo[p])]
    BY DEF Mark, Visiting, mail
  <2>2. CASE q = p
    <3>1. todo'[q] = Tail(todo[p])
      BY <2>1, <2>2 DEF TypeOK, PodsTyped
    <3>2. \A i \in DOMAIN Tail(todo[p]) : Lists(digest[p], Tail(todo[p])[i])
      BY <1>1, TailElements DEF DeliveredInv, MarksItsDigest
    <3> QED
      BY <1>1, <2>1, <2>2, <3>1, <3>2 DEF DeliveredInv, MarksItsDigest, Lists
  <2>3. CASE q # p
    BY <2>1, <2>3 DEF DeliveredInv, MarksItsDigest, Lists, TypeOK, PodsTyped
  <2> QED
    BY <2>2, <2>3
<1> QED
  BY <1>3, <1>4 DEF DeliveredInv

\* A step that only drops rows and leaves the senders' and markers' memory.
LEMMA QuietKeepsDelivered ==
    ASSUME TypeOK, DeliveredInv, inbox \subseteq inbox',
           OpenStore \/ UNCHANGED rows \/ \E t : Prune(t),
           \A q \in Pods : \/ pc'[q] \notin {"sending", "persist"}
                           \/ UNCHANGED <<pc[q], todo[q], digest[q]>>
    PROVE  DeliveredInv'
<1>1. RecordedWasDelivered'
  BY RowsKeepWitness, StoreShrinks DEF DeliveredInv
<1>2. \A q \in Pods : MarksItsDigest(q)'
  BY DEF DeliveredInv, MarksItsDigest, Lists
<1> QED
  BY <1>1, <1>2 DEF DeliveredInv

LEMMA MarkFailsKeepsDelivered ==
    ASSUME TypeOK, DeliveredInv, NEW p \in Pods, MarkFails(p)
    PROVE  DeliveredInv'
<1>1. todo[p] \in Seq(MatchedDeal) /\ todo[p] # << >> /\ pc[p] = "persist"
  BY DEF MarkFails, Visiting, TypeOK, PodsTyped, TodoType
<1>2. pc' = pc /\ digest' = digest /\ inbox' = inbox /\ rows' = rows
      /\ todo' = [todo EXCEPT ![p] = Tail(todo[p])]
  BY DEF MarkFails, Visiting, mail
<1>3. RecordedWasDelivered'
  BY <1>2, RowsKeepWitness DEF DeliveredInv
<1>4. \A i \in DOMAIN Tail(todo[p]) : Lists(digest[p], Tail(todo[p])[i])
  BY <1>1, TailElements DEF DeliveredInv, MarksItsDigest
<1>5. \A q \in Pods : MarksItsDigest(q)'
  BY <1>1, <1>2, <1>4 DEF DeliveredInv, MarksItsDigest, Lists, TypeOK, PodsTyped
<1> QED
  BY <1>3, <1>5 DEF DeliveredInv

LEMMA StepKeepsDelivered ==
    ASSUME TypeOK, DeliveredInv, NEW p \in Pods, Step(p)
    PROVE  DeliveredInv'
<1> USE DEF mail
<1>1. CASE FetchDeals(p)
  BY <1>1, QuietKeepsDelivered DEF FetchDeals, Goto, TypeOK, PodsTyped
<1>2. CASE FetchDealsFails(p) \/ NotifyFails(p) \/ PruneFails(p) \/ PruneOff(p)
  BY <1>2, QuietKeepsDelivered
  DEF FetchDealsFails, NotifyFails, PruneFails, PruneOff, Exit, Goto, TypeOK, PodsTyped
<1>3. CASE \/ FilterCandidate(p) \/ EnrichOne(p) \/ EnrichFails(p)
           \/ LookUp(p) \/ LookUpFails(p)
  BY <1>3, QuietKeepsDelivered
  DEF FilterCandidate, EnrichOne, EnrichFails, LookUp, LookUpFails, Visiting, TypeOK, PodsTyped
<1>4. CASE NothingFresh(p)
  BY <1>4, QuietKeepsDelivered DEF NothingFresh, Goto, TypeOK, PodsTyped
<1>5. CASE CallNotify(p)
  <2>1. RecordedWasDelivered'
    BY <1>5, RowsKeepWitness DEF CallNotify, DeliveredInv
  <2>2. todo'[p] = digest'[p].lines /\ pc'[p] = "sending"
    BY <1>5 DEF CallNotify, Goto, TypeOK, PodsTyped
  <2>3. \A q \in Pods \ {p} : UNCHANGED <<pc[q], todo[q], digest[q]>>
    BY <1>5 DEF CallNotify, Goto, TypeOK, PodsTyped
  <2>4. inbox' = inbox
    BY <1>5 DEF CallNotify
  <2>5. \A q \in Pods : MarksItsDigest(q)'
    BY <2>2, <2>3, <2>4 DEF DeliveredInv, MarksItsDigest, Lists
  <2> QED
    BY <2>1, <2>5 DEF DeliveredInv
<1>6. CASE NotifyReturnsNil(p)
  <2>1. RecordedWasDelivered'
    BY <1>6, RowsKeepWitness DEF NotifyReturnsNil, DeliveredInv
  <2>2. todo[p] = digest[p].lines /\ digest[p] \in inbox
    BY <1>6 DEF NotifyReturnsNil, DeliveredInv, MarksItsDigest
  <2>3. todo' = todo /\ digest' = digest /\ inbox' = inbox
        /\ pc' = [pc EXCEPT ![p] = "persist"]
    BY <1>6 DEF NotifyReturnsNil, Goto
  <2>4. \A q \in Pods : MarksItsDigest(q)'
    BY <2>2, <2>3 DEF DeliveredInv, MarksItsDigest, Lists, TypeOK, PodsTyped
  <2> QED
    BY <2>1, <2>4 DEF DeliveredInv
<1>7. CASE Mark(p) \/ MarkFails(p)
  BY <1>7, MarkKeepsDelivered, MarkFailsKeepsDelivered
<1>8. CASE PruneOld(p)
  BY <1>8, QuietKeepsDelivered DEF PruneOld, Exit, Goto, TypeOK, PodsTyped
<1>9. CASE EndOfLoop(p)
  BY <1>9, QuietKeepsDelivered DEF EndOfLoop, NextStage, Goto, TypeOK, PodsTyped
<1> QED
  BY <1>1, <1>2, <1>3, <1>4, <1>5, <1>6, <1>7, <1>8, <1>9 DEF Step

LEMMA NextKeepsDelivered == TypeOK /\ DeliveredInv /\ [Next]_vars => DeliveredInv'
<1> SUFFICES ASSUME TypeOK, DeliveredInv, [Next]_vars PROVE DeliveredInv'
  OBVIOUS
<1> USE DEF mail
<1>1. ASSUME NEW p \in Pods, StartRun(p) \/ StartRunFails(p) PROVE DeliveredInv'
  BY <1>1, QuietKeepsDelivered DEF StartRun, StartRunFails, CreatePod, Goto, TypeOK, PodsTyped
<1>2. ASSUME NEW p \in Pods, Step(p) PROVE DeliveredInv'
  BY <1>2, StepKeepsDelivered
<1>3. ASSUME NEW p \in Pods, Signal(p) \/ Kill(p) PROVE DeliveredInv'
  BY <1>3, QuietKeepsDelivered DEF Signal, Kill, Exit, Goto, TypeOK, PodsTyped
<1>4. ASSUME NEW d \in inflight, Accept(d) \/ Lose(d) PROVE DeliveredInv'
  BY <1>4, QuietKeepsDelivered DEF Accept, Lose
<1>5. CASE Tick \/ UNCHANGED vars
  BY <1>5, QuietKeepsDelivered DEF Tick, vars
<1> QED
  BY <1>1, <1>2, <1>3, <1>4, <1>5 DEF Next

(***************************************************************************)
(* The store never records a deal that was not delivered: every row's key  *)
(* and rule are on a line of a digest the mail server accepted, whatever   *)
(* fails, dies or overlaps (runner.go:168-185, notifier.go:19-21).         *)
(***************************************************************************)
THEOREM DeliveredBeforeRecorded == Spec => []RecordedWasDelivered
<1>1. Init => DeliveredInv
  BY DEF Init, StoreInit, NoRows, DeliveredInv, RecordedWasDelivered, MarksItsDigest
<1>2. TypeOK /\ DeliveredInv /\ [Next]_vars => DeliveredInv'
  BY NextKeepsDelivered
<1>3. DeliveredInv => RecordedWasDelivered
  BY DEF DeliveredInv
<1> QED
  BY <1>1, <1>2, <1>3, TypeCorrect, PTL DEF Spec

-----------------------------------------------------------------------------
(* Lines are buyable.                                                      *)

BuyableMatch(m) ==
    \E r \in DOMAIN Rules : Rules[r].name = m.ruleName /\ Buyable(Rules[r], m.deal)

AllBuyable(s) == \A i \in DOMAIN s : BuyableMatch(s[i])

\* From enrichment on, a pod only keeps and visits buyable matches.
KeepsBuyable(p) ==
    /\ pc[p] \in {"enrich", "dedup"} => AllBuyable(out[p])
    /\ pc[p] = "dedup" => AllBuyable(todo[p])

BuyableInv == LinesAreBuyable /\ \A p \in Pods : KeepsBuyable(p)

(***************************************************************************)
(* What enrichOne lets through is buyable: with an in-stock size at hand   *)
(* the evaluator cannot fall back to sizes whose stock is unknown.         *)
(***************************************************************************)
LEMMA EnrichedIsBuyable ==
    ASSUME NEW d, InStockSizes(d) # {}, Match(d) # 0
    PROVE  BuyableMatch([deal |-> d, ruleName |-> Rules[Match(d)].name])
<1>1. Match(d) \in DOMAIN Rules /\ RuleMatches(Rules[Match(d)], d)
  BY MatchIsARule
<1>2. ASSUME NEW r, RuleMatches(r, d) PROVE Buyable(r, d)
  <2>1. MatchesName(r, d) /\ MatchesMaxPrice(r, d) /\ MatchesMinDiscount(r, d) /\ MatchesSizes(r, d)
    BY <1>2 DEF RuleMatches
  <2>2. \E i \in InStockSizes(d) :
           r.sizes = {} \/ {d.sizes[i].label, d.sizes[i].code} \cap r.sizes # {}
    BY <2>1, Zenon DEF MatchesSizes
  <2> QED
    BY <2>1, <2>2 DEF Buyable
<1> QED
  BY <1>1, <1>2 DEF BuyableMatch

LEMMA AppendBuyable ==
    ASSUME NEW s \in Seq(MatchedDeal), AllBuyable(s), NEW m \in MatchedDeal, BuyableMatch(m)
    PROVE  AllBuyable(Append(s, m))
BY AppendElements DEF AllBuyable

LEMMA TailBuyable ==
    ASSUME NEW s \in Seq(MatchedDeal), AllBuyable(s), s # << >>
    PROVE  BuyableMatch(Head(s)) /\ AllBuyable(Tail(s))
BY TailElements DEF AllBuyable

\* A step after which a pod is as it was, or in a stage that promises nothing.
LEMMA QuietKeepsBuyable ==
    ASSUME BuyableInv, inflight' \cup inbox' \subseteq inflight \cup inbox,
           \A q \in Pods : \/ pc'[q] \notin {"enrich", "dedup"}
                           \/ UNCHANGED <<pc[q], todo[q], out[q]>>
    PROVE  BuyableInv'
<1>1. LinesAreBuyable'
  BY DEF BuyableInv, LinesAreBuyable, Mails
<1>2. \A q \in Pods : KeepsBuyable(q)'
  BY DEF BuyableInv, KeepsBuyable, AllBuyable, BuyableMatch
<1> QED
  BY <1>1, <1>2 DEF BuyableInv

\* A step of one pod's loop, given what that pod promises after it.
LEMMA LoopKeepsBuyable ==
    ASSUME TypeOK, BuyableInv, NEW p \in Pods, NEW stage, Visiting(p, stage),
           (\E m : Keep(p, m)) \/ UNCHANGED out, KeepsBuyable(p)'
    PROVE  BuyableInv'
<1>1. LinesAreBuyable'
  BY DEF BuyableInv, LinesAreBuyable, Mails, Visiting, mail
<1>2. \A q \in Pods \ {p} : UNCHANGED <<pc[q], todo[q], out[q]>>
  BY DEF Visiting, Keep, TypeOK, PodsTyped
<1>3. \A q \in Pods : KeepsBuyable(q)'
  BY <1>2 DEF BuyableInv, KeepsBuyable, AllBuyable, BuyableMatch
<1> QED
  BY <1>1, <1>3 DEF BuyableInv

LEMMA StepKeepsBuyable ==
    ASSUME TypeOK, BuyableInv, NEW p \in Pods, Step(p)
    PROVE  BuyableInv'
<1> USE DEF mail
<1>1. CASE FetchDeals(p)
  BY <1>1, QuietKeepsBuyable DEF FetchDeals, Goto, TypeOK, PodsTyped
<1>2. CASE \/ FetchDealsFails(p) \/ NotifyFails(p)
           \/ PruneFails(p) \/ PruneOff(p) \/ PruneOld(p)
  BY <1>2, QuietKeepsBuyable
  DEF FetchDealsFails, NotifyFails, PruneFails, PruneOff, PruneOld, Exit, Goto, TypeOK, PodsTyped
<1>3. CASE FilterCandidate(p) \/ Mark(p) \/ MarkFails(p)
  BY <1>3, QuietKeepsBuyable
  DEF FilterCandidate, Mark, MarkFails, Visiting, Keep, TypeOK, PodsTyped
<1>4. CASE EnrichOne(p)
  <2> DEFINE m == Head(todo[p])
  <2>1. m \in MatchedDeal
    BY <1>4, HeadTailProperties DEF EnrichOne, Visiting, TypeOK, PodsTyped, TodoType
  <2>2. PICK sizes \in AnswersFor(m.deal) :
           LET d == Enriched(m, sizes) IN
           IF InStockSizes(d) # {} /\ Match(d) # 0
           THEN Keep(p, [deal |-> d, ruleName |-> Rules[Match(d)].name])
           ELSE UNCHANGED out
    BY <1>4 DEF EnrichOne
  <2> DEFINE d == Enriched(m, sizes)
             kept == [deal |-> d, ruleName |-> Rules[Match(d)].name]
  <2>3. pc[p] = "enrich" /\ pc' = pc /\ AllBuyable(out[p]) /\ out[p] \in Seq(MatchedDeal)
    BY <1>4 DEF EnrichOne, Visiting, BuyableInv, KeepsBuyable, TypeOK, PodsTyped
  <2>4. AllBuyable(out'[p])
    <3>1. CASE InStockSizes(d) # {} /\ Match(d) # 0
      <4>1. kept \in MatchedDeal
        BY <2>1, <3>1, EnrichedType, MatchHasAName DEF MatchedDeal
      <4>2. BuyableMatch(kept)
        BY <3>1, EnrichedIsBuyable
      <4>3. out'[p] = Append(out[p], kept)
        BY <2>2, <3>1 DEF Keep, TypeOK, PodsTyped
      <4> QED
        BY <2>3, <4>1, <4>2, <4>3, AppendBuyable
    <3>2. CASE UNCHANGED out
      BY <2>3, <3>2
    <3> QED
      BY <2>2, <3>1, <3>2
  <2>5. KeepsBuyable(p)'
    BY <2>3, <2>4 DEF KeepsBuyable, AllBuyable, BuyableMatch
  <2>6. (\E x : Keep(p, x)) \/ UNCHANGED out
    BY <2>2
  <2> QED
    BY <1>4, <2>5, <2>6, LoopKeepsBuyable DEF EnrichOne
<1>5. CASE EnrichFails(p)
  <2>1. KeepsBuyable(p)'
    BY <1>5 DEF EnrichFails, Visiting, BuyableInv, KeepsBuyable, AllBuyable, BuyableMatch
  <2> QED
    BY <1>5, <2>1, LoopKeepsBuyable DEF EnrichFails
<1>6. CASE LookUp(p) \/ LookUpFails(p)
  <2>1. Visiting(p, "dedup")
    BY <1>6 DEF LookUp, LookUpFails
  <2>2. /\ todo[p] \in Seq(MatchedDeal) /\ todo[p] # << >> /\ out[p] \in Seq(MatchedDeal)
        /\ pc[p] = "dedup" /\ pc' = pc /\ todo'[p] = Tail(todo[p])
    BY <2>1 DEF Visiting, TypeOK, PodsTyped, TodoType
  <2>3. BuyableMatch(Head(todo[p])) /\ AllBuyable(Tail(todo[p])) /\ AllBuyable(out[p])
    BY <2>2, TailBuyable DEF BuyableInv, KeepsBuyable
  <2>4. out'[p] = out[p] \/ out'[p] = Append(out[p], Head(todo[p]))
    BY <1>6 DEF LookUp, LookUpFails, Keep, TypeOK, PodsTyped
  <2>5. AllBuyable(out'[p])
    BY <2>2, <2>3, <2>4, AppendBuyable, HeadTailProperties
  <2>6. KeepsBuyable(p)'
    BY <2>2, <2>3, <2>5 DEF KeepsBuyable, AllBuyable, BuyableMatch
  <2>7. (\E m : Keep(p, m)) \/ UNCHANGED out
    BY <1>6 DEF LookUp, LookUpFails
  <2> QED
    BY <2>1, <2>6, <2>7, LoopKeepsBuyable
<1>7. CASE NothingFresh(p) \/ NotifyReturnsNil(p)
  BY <1>7, QuietKeepsBuyable DEF NothingFresh, NotifyReturnsNil, Goto, TypeOK, PodsTyped
<1>8. CASE CallNotify(p)
  <2>1. inflight' = inflight \cup {digest'[p]} /\ inbox' = inbox /\ digest'[p].lines = out[p]
    BY <1>8 DEF CallNotify, TypeOK, PodsTyped
  <2>2. AllBuyable(out[p])
    BY <1>8 DEF CallNotify, BuyableInv, KeepsBuyable
  <2>3. LinesAreBuyable'
    BY <2>1, <2>2 DEF BuyableInv, LinesAreBuyable, Mails, AllBuyable, BuyableMatch
  <2>4. \A q \in Pods : \/ pc'[q] \notin {"enrich", "dedup"}
                        \/ UNCHANGED <<pc[q], todo[q], out[q]>>
    BY <1>8 DEF CallNotify, Goto, TypeOK, PodsTyped
  <2>5. \A q \in Pods : KeepsBuyable(q)'
    BY <2>4 DEF BuyableInv, KeepsBuyable, AllBuyable, BuyableMatch
  <2> QED
    BY <2>3, <2>5 DEF BuyableInv
<1>9. CASE EndOfLoop(p)
  <2>1. \A q \in Pods \ {p} : UNCHANGED <<pc[q], todo[q], out[q]>>
    BY <1>9 DEF EndOfLoop, NextStage, Goto, TypeOK, PodsTyped
  <2>2. out'[p] = << >> /\ todo'[p] = out[p]
    BY <1>9 DEF EndOfLoop, NextStage, TypeOK, PodsTyped
  <2>3. pc'[p] = "dedup" => AllBuyable(out[p])
    BY <1>9 DEF EndOfLoop, NextStage, Goto, TypeOK, PodsTyped, BuyableInv, KeepsBuyable
  <2>4. \A q \in Pods : KeepsBuyable(q)'
    BY <2>1, <2>2, <2>3 DEF BuyableInv, KeepsBuyable, AllBuyable, BuyableMatch
  <2>5. LinesAreBuyable'
    BY <1>9 DEF EndOfLoop, NextStage, BuyableInv, LinesAreBuyable, Mails
  <2> QED
    BY <2>4, <2>5 DEF BuyableInv
<1> QED
  BY <1>1, <1>2, <1>3, <1>4, <1>5, <1>6, <1>7, <1>8, <1>9 DEF Step

LEMMA NextKeepsBuyable == TypeOK /\ BuyableInv /\ [Next]_vars => BuyableInv'
<1> SUFFICES ASSUME TypeOK, BuyableInv, [Next]_vars PROVE BuyableInv'
  OBVIOUS
<1> USE DEF mail
<1>1. ASSUME NEW p \in Pods, StartRun(p) \/ StartRunFails(p) PROVE BuyableInv'
  BY <1>1, QuietKeepsBuyable DEF StartRun, StartRunFails, CreatePod, Goto, TypeOK, PodsTyped
<1>2. ASSUME NEW p \in Pods, Step(p) PROVE BuyableInv'
  BY <1>2, StepKeepsBuyable
<1>3. ASSUME NEW p \in Pods, Signal(p) \/ Kill(p) PROVE BuyableInv'
  BY <1>3, QuietKeepsBuyable DEF Signal, Kill, Exit, Goto, TypeOK, PodsTyped
<1>4. ASSUME NEW d \in inflight, Accept(d) \/ Lose(d) PROVE BuyableInv'
  BY <1>4, QuietKeepsBuyable DEF Accept, Lose
<1>5. CASE Tick \/ UNCHANGED vars
  BY <1>5, QuietKeepsBuyable DEF Tick, vars
<1> QED
  BY <1>1, <1>2, <1>3, <1>4, <1>5 DEF Next

(***************************************************************************)
(* No digest ever lists a deal the user cannot buy as the named rule asks: *)
(* in a wanted size that is in stock, within its price and discount        *)
(* (runner.go:110-129, filter.go:61-93).                                   *)
(***************************************************************************)
THEOREM DigestsAreBuyable == Spec => []LinesAreBuyable
<1>1. Init => BuyableInv
  BY DEF Init, BuyableInv, LinesAreBuyable, Mails, KeepsBuyable
<1>2. TypeOK /\ BuyableInv /\ [Next]_vars => BuyableInv'
  BY NextKeepsBuyable
<1>3. BuyableInv => LinesAreBuyable
  BY DEF BuyableInv
<1> QED
  BY <1>1, <1>2, <1>3, TypeCorrect, PTL DEF Spec

=============================================================================
