------------------------- MODULE RunnerLedgerProofs -------------------------
(***************************************************************************)
(* TLAPS proofs of what the store is for, under the policies and settings  *)
(* that give it: pruning spares the young rows; with policy Forbid the     *)
(* store and the mail implement Ledger.tla; what is announced again has a  *)
(* reason, with one pod at a time and with pods that overlap; a run        *)
(* without faults leaves out nothing that is wanted.                       *)
(***************************************************************************)
EXTENDS RunnerSafetyProofs, FiniteSetTheorems

\* What prune removes is older than the retention.
LEMMA PrunedIsOld ==
    ASSUME RetentionDays * Day <= HalfRange, TypeOK, NEW p \in Pods, PruneOld(p),
           NEW k \in DOMAIN rows \ DOMAIN rows'
    PROVE  RetentionDays > 0 /\ now - rows[k].notifiedAt > RetentionDays * Day
<1> DEFINE span == RetentionDays * Day
<1>1. RetentionDays > 0 /\ span \in Nat
  BY RunnerAssumption DEF PruneOld, SetNumber
<1>2. now \in Int /\ rows[k].notifiedAt \in Nat
  BY DEF TypeOK, CountersTyped, RowsTyped, Row
<1>3. Cutoff = now - span
  <2>1. -span \in -HalfRange .. HalfRange - 1
    BY <1>1, RunnerAssumption
  <2>2. Wrap(-RetentionDays * Day) = -span
    BY <2>1 DEF Wrap
  <2> QED
    BY <1>1, <1>2, <2>2 DEF Cutoff
<1>4. rows[k].notifiedAt < Cutoff
  BY <1>1, <1>2, <1>3 DEF PruneOld, Prune
<1> QED
  BY <1>1, <1>2, <1>3, <1>4

\* What may happen to the rows.
LEMMA NextRows ==
    ASSUME TypeOK, [Next]_vars
    PROVE  \/ UNCHANGED rows
           \/ \E p \in Pods : Mark(p) \/ PruneOld(p) \/ (StartRun(p) /\ ~Persistent)
<1> USE DEF mail
<1>1. ASSUME NEW p \in Pods, Step(p), ~Mark(p), ~PruneOld(p) PROVE UNCHANGED rows
  BY <1>1
  DEF Step, FetchDeals, FetchDealsFails, FilterCandidate, EnrichOne, EnrichFails,
      LookUp, LookUpFails, NothingFresh, CallNotify, NotifyReturnsNil, NotifyFails,
      MarkFails, PruneOff, PruneFails, EndOfLoop, NextStage
<1>2. ASSUME NEW p \in Pods,
             \/ StartRun(p) /\ Persistent
             \/ StartRunFails(p) \/ Signal(p) \/ Kill(p)
      PROVE  UNCHANGED rows
  BY <1>2 DEF StartRun, OpenStore, StartRunFails, Signal, Kill
<1>3. ASSUME NEW d \in inflight, Accept(d) \/ Lose(d) PROVE UNCHANGED rows
  BY <1>3 DEF Accept, Lose
<1>4. CASE Tick \/ UNCHANGED vars
  BY <1>4 DEF Tick, vars
<1> QED
  BY <1>1, <1>2, <1>3, <1>4 DEF Next

(***************************************************************************)
(* Rows leave a persistent store only in prune, and only older than the    *)
(* retention (runner.go:189-202, sqlite.go:109-117), provided the          *)
(* retention fits into a time.Duration.                                    *)
(***************************************************************************)
THEOREM PruningSparesTheYoung ==
    ASSUME Persistent, RetentionDays * Day <= HalfRange
    PROVE  Spec => PrunesOnlyExpired
<1>1. ASSUME TypeOK, [Next]_vars, NEW k \in DOMAIN rows \ DOMAIN rows'
      PROVE  now - rows[k].notifiedAt > RetentionDays * Day
  <2>1. \A p \in Pods : ~Mark(p)
    BY <1>1 DEF Mark, MarkSeen
  <2> QED
    BY <1>1, <2>1, NextRows, PrunedIsOld
<1>2. TypeOK /\ [Next]_vars =>
         [\A k \in DOMAIN rows \ DOMAIN rows' :
             now - rows[k].notifiedAt > RetentionDays * Day]_vars
  BY <1>1
<1> QED
  BY <1>2, TypeCorrect, PTL DEF Spec, PrunesOnlyExpired

-----------------------------------------------------------------------------
(* One pod at a time makes the lookup's answer last until the send.        *)

Alone == \A p, q \in Pods : pc[p] # "idle" /\ pc[q] # "idle" => p = q

\* What a pod's lookups kept is still unknown to the store.
StillFresh(p) ==
    pc[p] = "dedup" => \A i \in DOMAIN out[p] : Key(out[p][i].deal) \notin DOMAIN rows

FreshInv == Alone /\ \A p \in Pods : StillFresh(p)

\* A step of a pod that leaves dedup, or is not in it, with the others idle.
LEMMA QuietKeepsFresh ==
    ASSUME TypeOK, FreshInv, NEW p \in Pods, pc[p] # "idle", pc'[p] # "dedup",
           \A q \in Pods \ {p} : pc'[q] = pc[q]
    PROVE  FreshInv'
<1>1. \A q \in Pods \ {p} : pc[q] = "idle" /\ pc'[q] = "idle"
  BY DEF FreshInv, Alone
<1> QED
  BY <1>1 DEF FreshInv, Alone, StillFresh

LEMMA StepKeepsFresh ==
    ASSUME TypeOK, FreshInv, NEW p \in Pods, Step(p)
    PROVE  FreshInv'
<1> USE DEF mail
<1>1. CASE FetchDeals(p) \/ FetchDealsFails(p)
  BY <1>1, QuietKeepsFresh DEF FetchDeals, FetchDealsFails, Exit, Goto, TypeOK, PodsTyped
<1>2. CASE FilterCandidate(p) \/ EnrichOne(p) \/ EnrichFails(p)
  BY <1>2, QuietKeepsFresh
  DEF FilterCandidate, EnrichOne, EnrichFails, Visiting, TypeOK, PodsTyped
<1>3. CASE LookUp(p) \/ LookUpFails(p)
  <2> DEFINE m == Head(todo[p])
  <2>1. /\ pc' = pc /\ rows' = rows /\ pc[p] = "dedup"
        /\ todo[p] \in Seq(MatchedDeal) /\ todo[p] # << >> /\ out[p] \in Seq(MatchedDeal)
    BY <1>3 DEF LookUp, LookUpFails, Visiting, TypeOK, PodsTyped, TodoType
  <2>2. \A q \in Pods \ {p} : out'[q] = out[q]
    BY <1>3 DEF LookUp, LookUpFails, Keep, TypeOK, PodsTyped
  <2>3. \/ out'[p] = out[p]
        \/ out'[p] = Append(out[p], m) /\ Key(m.deal) \notin DOMAIN rows
    BY <1>3 DEF LookUp, LookUpFails, Keep, IsNew, TypeOK, PodsTyped
  <2>4. m \in MatchedDeal
    BY <2>1, HeadTailProperties
  <2>5. \A i \in DOMAIN out'[p] : Key(out'[p][i].deal) \notin DOMAIN rows
    <3>1. \A i \in DOMAIN out[p] : Key(out[p][i].deal) \notin DOMAIN rows
      BY <2>1 DEF FreshInv, StillFresh
    <3> DEFINE s == out[p]
    <3>2. CASE out'[p] = Append(s, m) /\ Key(m.deal) \notin DOMAIN rows
      <4>1. \A i \in DOMAIN Append(s, m) :
               (i \in DOMAIN s /\ Append(s, m)[i] = s[i]) \/ Append(s, m)[i] = m
        BY <2>1, <2>4, AppendElements
      <4> QED
        BY <3>1, <3>2, <4>1
    <3> QED
      BY <2>3, <3>1, <3>2
  <2>6. \A q \in Pods \ {p} : StillFresh(q)'
    BY <2>1, <2>2 DEF FreshInv, StillFresh
  <2>7. StillFresh(p)'
    BY <2>1, <2>5 DEF StillFresh
  <2>8. Alone'
    BY <2>1 DEF FreshInv, Alone
  <2> QED
    BY <2>6, <2>7, <2>8 DEF FreshInv
<1>4. CASE NothingFresh(p) \/ CallNotify(p) \/ NotifyReturnsNil(p) \/ NotifyFails(p)
  BY <1>4, QuietKeepsFresh
  DEF NothingFresh, CallNotify, NotifyReturnsNil, NotifyFails, Exit, Goto, TypeOK, PodsTyped
<1>5. CASE Mark(p) \/ MarkFails(p)
  BY <1>5, QuietKeepsFresh DEF Mark, MarkFails, Visiting, TypeOK, PodsTyped
<1>6. CASE PruneOff(p) \/ PruneOld(p) \/ PruneFails(p)
  BY <1>6, QuietKeepsFresh DEF PruneOff, PruneOld, PruneFails, Exit, Goto, TypeOK, PodsTyped
<1>7. CASE EndOfLoop(p)
  <2>1. /\ \A q \in Pods \ {p} : pc'[q] = pc[q] /\ out'[q] = out[q]
        /\ pc[p] # "idle" /\ out'[p] = << >> /\ rows' = rows
    BY <1>7 DEF EndOfLoop, NextStage, Goto, TypeOK, PodsTyped
  <2> QED
    BY <2>1 DEF FreshInv, Alone, StillFresh
<1> QED
  BY <1>1, <1>2, <1>3, <1>4, <1>5, <1>6, <1>7 DEF Step

LEMMA NextKeepsFresh ==
    ASSUME ConcurrencyPolicy = "Forbid"
    PROVE  TypeOK /\ FreshInv /\ [Next]_vars => FreshInv'
<1> SUFFICES ASSUME TypeOK, FreshInv, [Next]_vars PROVE FreshInv'
  OBVIOUS
<1> USE DEF mail
<1>1. ASSUME NEW p \in Pods, StartRun(p) PROVE FreshInv'
  BY <1>1 DEF StartRun, CreatePod, Goto, FreshInv, Alone, StillFresh, TypeOK, PodsTyped
<1>2. ASSUME NEW p \in Pods, Step(p) PROVE FreshInv'
  BY <1>2, StepKeepsFresh
<1>3. ASSUME NEW p \in Pods, Kill(p) PROVE FreshInv'
  BY <1>3, QuietKeepsFresh DEF Kill, Exit, Goto, TypeOK, PodsTyped
<1>4. CASE UNCHANGED <<pc, out, rows>>
  BY <1>4 DEF FreshInv, Alone, StillFresh
<1>5. ASSUME NEW d \in inflight, Accept(d) \/ Lose(d) PROVE FreshInv'
  BY <1>4, <1>5 DEF Accept, Lose
<1>6. ASSUME NEW p \in Pods, StartRunFails(p) \/ Signal(p) PROVE FreshInv'
  BY <1>4, <1>6 DEF StartRunFails, Signal
<1>7. CASE Tick \/ UNCHANGED vars
  BY <1>4, <1>7 DEF Tick, vars
<1> QED
  BY <1>1, <1>2, <1>3, <1>5, <1>6, <1>7 DEF Next

-----------------------------------------------------------------------------
(* The refinement: every step of the pipeline is one of the ledger.        *)

LEMMA StepRefinesLedger ==
    ASSUME TypeOK, DeliveredInv, FreshInv, NEW p \in Pods, Step(p)
    PROVE  [L!Next]_(L!ledger)
<1> USE DEF mail
<1>1. CASE CallNotify(p)
  <2>1. inflight' = inflight \cup {digest'[p]} /\ inbox' = inbox /\ rows' = rows
        /\ digest'[p].lines = out[p]
    BY <1>1 DEF CallNotify, TypeOK, PodsTyped
  <2>2. \A i \in DOMAIN out[p] : Key(out[p][i].deal) \notin DOMAIN rows
    BY <1>1 DEF CallNotify, FreshInv, StillFresh
  <2>3. L!KeysOf(digest'[p]) \cap DOMAIN rows = {}
    BY <2>1, <2>2 DEF L!KeysOf, L!Key, Key
  <2>4. L!Hand
    BY <2>1, <2>3 DEF L!Hand
  <2> QED
    BY <2>4 DEF L!Next
<1>2. CASE Mark(p)
  <2> DEFINE m == Head(todo[p])
  <2>1. /\ todo[p] \in Seq(MatchedDeal) /\ todo[p] # << >> /\ pc[p] = "persist"
        /\ inflight' = inflight /\ inbox' = inbox
    BY <1>2 DEF Mark, Visiting, TypeOK, PodsTyped, TodoType
  <2>2. digest[p] \in inbox /\ Lists(digest[p], m)
    BY <2>1, TailElements DEF DeliveredInv, MarksItsDigest
  <2>3. Key(m.deal) \in L!KeysOf(digest[p])
    BY <2>2 DEF Lists, L!KeysOf, L!Key, Key
  <2>4. DOMAIN rows' = DOMAIN rows \cup {Key(m.deal)}
    BY <1>2 DEF Mark, MarkSeen
  <2>5. L!Learn
    BY <2>1, <2>2, <2>3, <2>4 DEF L!Learn
  <2> QED
    BY <2>5 DEF L!Next
<1>3. CASE PruneOld(p)
  <2>1. DOMAIN rows' \subseteq DOMAIN rows
    BY <1>3 DEF PruneOld, Prune
  <2>2. L!Forget
    BY <1>3, <2>1 DEF PruneOld, L!Forget
  <2> QED
    BY <2>2 DEF L!Next
<1>4. CASE ~CallNotify(p) /\ ~Mark(p) /\ ~PruneOld(p)
  <2>1. UNCHANGED <<rows, inflight, inbox>>
    BY <1>4
    DEF Step, FetchDeals, FetchDealsFails, FilterCandidate, EnrichOne, EnrichFails,
        LookUp, LookUpFails, NothingFresh, NotifyReturnsNil, NotifyFails,
        MarkFails, PruneOff, PruneFails, EndOfLoop, NextStage, Visiting
  <2> QED
    BY <2>1 DEF L!ledger
<1> QED
  BY <1>1, <1>2, <1>3, <1>4

LEMMA NextRefinesLedger ==
    TypeOK /\ DeliveredInv /\ FreshInv /\ [Next]_vars => [L!Next]_(L!ledger)
<1> SUFFICES ASSUME TypeOK, DeliveredInv, FreshInv, [Next]_vars
             PROVE  [L!Next]_(L!ledger)
  OBVIOUS
<1> USE DEF mail
<1>1. ASSUME NEW p \in Pods, StartRun(p) PROVE [L!Next]_(L!ledger)
  <2>1. DOMAIN rows' \subseteq DOMAIN rows /\ inflight' = inflight /\ inbox' = inbox
    BY <1>1, StoreShrinks DEF StartRun
  <2> QED
    BY <2>1 DEF L!Next, L!Forget
<1>2. ASSUME NEW p \in Pods, Step(p) PROVE [L!Next]_(L!ledger)
  BY <1>2, StepRefinesLedger
<1>3. ASSUME NEW d \in inflight, Accept(d) PROVE [L!Next]_(L!ledger)
  BY <1>3 DEF Accept, L!Next, L!Arrive
<1>4. ASSUME NEW d \in inflight, Lose(d) PROVE [L!Next]_(L!ledger)
  BY <1>4 DEF Lose, L!Next, L!Drop
<1>5. CASE (\E p \in Pods : StartRunFails(p) \/ Signal(p) \/ Kill(p)) \/ Tick \/ UNCHANGED vars
  BY <1>5 DEF StartRunFails, Signal, Kill, Tick, vars, L!ledger
<1> QED
  BY <1>1, <1>2, <1>3, <1>4, <1>5 DEF Next

(***************************************************************************)
(* With policy Forbid the pipeline implements the ledger: no digest names  *)
(* a deal the store knows at the moment of sending, and the store learns   *)
(* deals only from digests that arrived.                                   *)
(***************************************************************************)
THEOREM ImplementsLedger ==
    ASSUME ConcurrencyPolicy = "Forbid"
    PROVE  Spec => KeepsTheLedger
<1>1. Init => L!Init /\ FreshInv /\ DeliveredInv
  BY DEF Init, StoreInit, NoRows, L!Init, FreshInv, Alone, StillFresh,
         DeliveredInv, RecordedWasDelivered, MarksItsDigest
<1>2. TypeOK /\ DeliveredInv /\ [Next]_vars => DeliveredInv'
  BY NextKeepsDelivered
<1>3. TypeOK /\ FreshInv /\ [Next]_vars => FreshInv'
  BY NextKeepsFresh
<1>4. TypeOK /\ DeliveredInv /\ FreshInv /\ [Next]_vars => [L!Next]_(L!ledger)
  BY NextRefinesLedger
<1> QED
  BY <1>1, <1>2, <1>3, <1>4, TypeCorrect, PTL DEF Spec, KeepsTheLedger, L!Spec

-----------------------------------------------------------------------------
(* Sequences.                                                              *)

\* Where the elements of a sequence are in its tail and in its extension.
LEMMA TailPositions ==
    ASSUME NEW S, NEW s \in Seq(S), s # << >>
    PROVE  \A i \in DOMAIN s : \/ i = 1 /\ s[i] = Head(s)
                               \/ i - 1 \in DOMAIN Tail(s) /\ Tail(s)[i - 1] = s[i]
BY HeadTailProperties, LenProperties

LEMMA AppendPositions ==
    ASSUME NEW S, NEW s \in Seq(S), NEW e \in S
    PROVE  /\ \A i \in DOMAIN s : i \in DOMAIN Append(s, e) /\ Append(s, e)[i] = s[i]
           /\ Len(s) + 1 \in DOMAIN Append(s, e) /\ Append(s, e)[Len(s) + 1] = e
BY AppendProperties, LenProperties

-----------------------------------------------------------------------------
(* Counting what was sent: repeats.                                        *)

KeysIn(s) == {Key(s[i].deal) : i \in DOMAIN s}

Sent(k) == {d \in Mails : k \in KeysOf(d)}

\* The pod sent k and its mark is still to come, or never comes because the
\* context is cancelled.
Owes(p, k) ==
    /\ pc[p] \in {"sending", "persist", "prune"} /\ k \in KeysOf(digest[p])
    /\ ctxDone[p] \/ (pc[p] # "prune" /\ k \in KeysIn(todo[p]))

Owing(k) == {p \in Pods : Owes(p, k)}

Cancelled == {p \in Pods : ctxDone[p]}

\* The faults that can have cost a mark so far; the one that cancelled a
\* context has not until its pod ends.
Credit == faults - Cardinality(Cancelled)

\* How many of the digests sent with k may lack a mark.
Debt(k) == Cardinality(Owing(k)) + Credit

Bit(b) == IF b THEN 1 ELSE 0

LEMMA Divide ==
    ASSUME NEW t \in Nat, NEW n \in Nat \ {0}
    PROVE  t \div n \in Nat /\ n * (t \div n) <= t /\ t < n * (t \div n) + n
OBVIOUS

\* The later, the more rows can have expired.
LEMMA ExpiriesGrow ==
    ASSUME NEW t \in Nat, NEW u \in Nat, t <= u
    PROVE  /\ ExpiriesBy(t) \in Nat /\ ExpiriesBy(t) <= ExpiriesBy(u)
           /\ RetentionDays > 0 /\ u - t > RetentionDays * Day =>
                 ExpiriesBy(t) + 1 <= ExpiriesBy(u)
<1>1. CASE RetentionDays < 0
  BY <1>1, RunnerAssumption DEF ExpiriesBy, SetNumber
<1>2. CASE RetentionDays > 0
  <2> DEFINE P == RetentionDays * Day + 1
             a == t \div P
             b == u \div P
  <2>1. P \in Nat \ {0}
    <3>1. RetentionDays \in Nat /\ Day \in Nat
      BY <1>2, RunnerAssumption DEF SetNumber
    <3>2. RetentionDays * Day \in Nat
      BY <3>1
    <3> QED
      BY <3>2
  <2>2. ExpiriesBy(t) = a /\ ExpiriesBy(u) = b
    BY <1>2, RunnerAssumption DEF ExpiriesBy, SetNumber
  <2>3. RetentionDays * Day = P - 1
    <3>1. RetentionDays * Day \in Int
      BY RunnerAssumption DEF SetNumber
    <3> QED
      BY <3>1
  <2> HIDE DEF P
  <2>4. a \in Nat /\ P * a <= t /\ b \in Nat /\ u < P * b + P
    BY <2>1, Divide
  <2>5. ASSUME NEW c \in Nat, NEW d \in Nat, P * c < P * d + P PROVE c <= d
    <3>1. CASE c >= d + 1
      <4>1. P * c >= P * (d + 1)
        BY <2>1, <3>1
      <4> QED
        BY <2>1, <2>5, <4>1
    <3> QED
      BY <3>1
  <2> HIDE DEF a, b
  <2>6. a <= b
    <3>1. P * a < P * b + P
      BY <2>1, <2>4
    <3> QED
      BY <2>4, <2>5, <3>1
  <2>7. ASSUME u - t > P - 1 PROVE a + 1 <= b
    <3>1. P * (a + 1) = P * a + P
      BY <2>1, <2>4
    <3>2. P * (a + 1) < P * b + P
      BY <2>1, <2>4, <2>7, <3>1
    <3> QED
      BY <2>4, <2>5, <3>2
  <2> QED
    BY <2>2, <2>3, <2>4, <2>6, <2>7
<1> QED
  BY <1>1, <1>2, RunnerAssumption DEF SetNumber

LEMMA CountWithout ==
    ASSUME NEW S, IsFiniteSet(S), NEW p
    PROVE  /\ Cardinality(S) \in Nat /\ Cardinality(S \ {p}) \in Nat
           /\ Cardinality(S) = Cardinality(S \ {p}) + Bit(p \in S)
<1>1. Cardinality(S) \in Nat
  BY FS_CardinalityType
<1>2. Cardinality(S \ {p}) = IF p \in S THEN Cardinality(S) - 1 ELSE Cardinality(S)
  BY FS_RemoveElement
<1>3. Cardinality(S \ {p}) \in Nat
  BY FS_RemoveElement, FS_CardinalityType
<1> QED
  BY <1>1, <1>2, <1>3 DEF Bit

\* What a pod does leaves the others' memory alone.
LEMMA OthersRest ==
    ASSUME TypeOK, NEW p \in Pods, Step(p) \/ Signal(p) \/ Kill(p), NEW q \in Pods \ {p}
    PROVE  UNCHANGED <<pc[q], todo[q], out[q], digest[q], ctxDone[q], markAt[q]>>
<1> USE DEF TypeOK, PodsTyped, Goto, mail
<1>1. CASE Signal(p) \/ Kill(p) \/ FetchDealsFails(p) \/ NotifyFails(p) \/ PruneOff(p)
           \/ PruneOld(p) \/ PruneFails(p)
  BY <1>1 DEF Signal, Kill, FetchDealsFails, NotifyFails, PruneOff, PruneOld, PruneFails, Exit
<1>2. CASE \/ FilterCandidate(p) \/ EnrichOne(p) \/ EnrichFails(p) \/ LookUp(p)
           \/ LookUpFails(p) \/ Mark(p) \/ MarkFails(p)
  BY <1>2 DEF FilterCandidate, EnrichOne, EnrichFails, LookUp, LookUpFails, Mark, MarkFails,
              Visiting, Keep
<1>3. CASE FetchDeals(p) \/ NothingFresh(p) \/ CallNotify(p) \/ NotifyReturnsNil(p) \/ EndOfLoop(p)
  BY <1>3 DEF FetchDeals, NothingFresh, CallNotify, NotifyReturnsNil, EndOfLoop, NextStage
<1> QED
  BY <1>1, <1>2, <1>3 DEF Step

LEMMA OnePodMoves ==
    ASSUME IsFiniteSet(Pods), TypeOK, TypeOK', NEW k, NEW p \in Pods,
           \A q \in Pods \ {p} : UNCHANGED <<pc[q], todo[q], digest[q], ctxDone[q]>>
    PROVE  /\ Credit \in Int /\ Debt(k) \in Int /\ Cardinality(Owing(k)) \in Nat
           /\ Credit' = Credit + (faults' - faults) + Bit(ctxDone[p]) - Bit(ctxDone'[p])
           /\ Debt(k)' = Debt(k) + (Credit' - Credit) + Bit(Owes(p, k)') - Bit(Owes(p, k))
<1>1. /\ IsFiniteSet(Cancelled) /\ IsFiniteSet(Cancelled')
      /\ IsFiniteSet(Owing(k)) /\ IsFiniteSet(Owing(k)')
  BY FS_Subset DEF Cancelled, Owing
<1>2. Cancelled' \ {p} = Cancelled \ {p} /\ (p \in Cancelled <=> ctxDone[p])
      /\ (p \in Cancelled' <=> ctxDone'[p])
  BY DEF Cancelled
<1>3. Owing(k)' \ {p} = Owing(k) \ {p} /\ (p \in Owing(k) <=> Owes(p, k))
      /\ (p \in Owing(k)' <=> Owes(p, k)')
  BY DEF Owing, Owes
<1>4. faults \in Int /\ faults' \in Int
  BY DEF TypeOK, CountersTyped
<1>5. /\ Cardinality(Cancelled) = Cardinality(Cancelled \ {p}) + Bit(ctxDone[p])
      /\ Cardinality(Cancelled') = Cardinality(Cancelled \ {p}) + Bit(ctxDone'[p])
      /\ Cardinality(Cancelled \ {p}) \in Nat
  BY <1>1, <1>2, CountWithout DEF Bit
<1>6. /\ Cardinality(Owing(k)) = Cardinality(Owing(k) \ {p}) + Bit(Owes(p, k))
      /\ Cardinality(Owing(k)') = Cardinality(Owing(k) \ {p}) + Bit(Owes(p, k)')
      /\ Cardinality(Owing(k) \ {p}) \in Nat
  BY <1>1, <1>3, CountWithout DEF Bit
<1>7. Bit(ctxDone[p]) \in 0 .. 1 /\ Bit(ctxDone'[p]) \in 0 .. 1
      /\ Bit(Owes(p, k)) \in 0 .. 1 /\ Bit(Owes(p, k)') \in 0 .. 1
  BY DEF Bit
<1>8. Credit = faults - Cardinality(Cancelled) /\ Credit' = faults' - Cardinality(Cancelled')
      /\ Debt(k) = Cardinality(Owing(k)) + Credit /\ Debt(k)' = Cardinality(Owing(k)') + Credit'
  BY DEF Credit, Debt
<1> QED
  BY <1>4, <1>5, <1>6, <1>7, <1>8

(***************************************************************************)
(* A pod never drops an unmarked key for free: a fault pays for it, now or *)
(* when the pod's context was cancelled.                                   *)
(***************************************************************************)
LEMMA PodPays ==
    ASSUME IsFiniteSet(Pods), TypeOK, TypeOK', NEW k, NEW p \in Pods,
           \A q \in Pods \ {p} : UNCHANGED <<pc[q], todo[q], digest[q], ctxDone[q]>>,
           faults <= faults',
           ctxDone'[p] => ctxDone[p] \/ faults < faults'
    PROVE  /\ Credit <= Credit'
           /\ \/ ~Owes(p, k) \/ Owes(p, k)'
              \/ ~ctxDone'[p] /\ (ctxDone[p] \/ faults < faults')
              => Debt(k) <= Debt(k)'
<1>1. faults \in Int /\ faults' \in Int /\ ctxDone[p] \in BOOLEAN /\ ctxDone'[p] \in BOOLEAN
  BY DEF TypeOK, CountersTyped, PodsTyped
<1>2. /\ Credit \in Int /\ Debt(k) \in Int
      /\ Credit' = Credit + (faults' - faults) + Bit(ctxDone[p]) - Bit(ctxDone'[p])
      /\ Debt(k)' = Debt(k) + (Credit' - Credit) + Bit(Owes(p, k)') - Bit(Owes(p, k))
  BY OnePodMoves
<1> DEFINE before == ctxDone[p]
           after == ctxDone'[p]
<1>3. Credit' \in Int /\ Credit <= Credit'
  <2>1. CASE after => before
    <3>1. Bit(before) \in 0 .. 1 /\ Bit(after) \in 0 .. 1 /\ Bit(after) <= Bit(before)
      BY <2>1 DEF Bit
    <3> QED
      BY <1>1, <1>2, <3>1
  <2>2. CASE faults < faults'
    <3>1. Bit(before) \in 0 .. 1 /\ Bit(after) \in 0 .. 1
      BY DEF Bit
    <3> QED
      BY <1>1, <1>2, <2>2, <3>1
  <2> QED
    BY <2>1, <2>2
<1>4. ASSUME ~Owes(p, k) \/ Owes(p, k)' PROVE Debt(k) <= Debt(k)'
  <2>1. Bit(Owes(p, k)) \in 0 .. 1 /\ Bit(Owes(p, k)') \in 0 .. 1
        /\ Bit(Owes(p, k)) <= Bit(Owes(p, k)')
    BY <1>4 DEF Bit
  <2> QED
    BY <1>2, <1>3, <2>1
<1>5. ASSUME ~ctxDone'[p], ctxDone[p] \/ faults < faults' PROVE Debt(k) <= Debt(k)'
  <2>1. Bit(Owes(p, k)) \in 0 .. 1 /\ Bit(Owes(p, k)') \in 0 .. 1
    BY DEF Bit
  <2>2. Credit' >= Credit + 1
    <3>1. Bit(after) = 0 /\ Bit(before) \in 0 .. 1 /\ (before => Bit(before) = 1)
      BY <1>5 DEF Bit
    <3> QED
      BY <1>1, <1>2, <1>5, <3>1
  <2> QED
    BY <1>2, <1>3, <2>1, <2>2
<1> QED
  BY <1>3, <1>4, <1>5

LEMMA TailKeys ==
    ASSUME NEW s \in Seq(MatchedDeal), s # << >>
    PROVE  /\ KeysIn(Tail(s)) \subseteq KeysIn(s)
           /\ KeysIn(s) \subseteq KeysIn(Tail(s)) \cup {Key(Head(s).deal)}
           /\ Key(Head(s).deal) \in KeysIn(s)
<1>1. /\ 1 \in DOMAIN s /\ Head(s) = s[1]
      /\ \A i \in DOMAIN Tail(s) : i + 1 \in DOMAIN s /\ Tail(s)[i] = s[i + 1]
  BY TailElements
<1>2. \A i \in DOMAIN s : i = 1 \/ (i - 1 \in DOMAIN Tail(s) /\ Tail(s)[i - 1] = s[i])
  BY HeadTailProperties, LenProperties
<1>3. KeysIn(Tail(s)) \subseteq KeysIn(s)
  BY <1>1 DEF KeysIn
<1>4. KeysIn(s) \subseteq KeysIn(Tail(s)) \cup {Key(Head(s).deal)}
  <2>1. ASSUME NEW i \in DOMAIN s PROVE Key(s[i].deal) \in KeysIn(Tail(s)) \cup {Key(Head(s).deal)}
    BY <1>1, <1>2 DEF KeysIn
  <2> QED
    BY <2>1 DEF KeysIn
<1> QED
  BY <1>1, <1>3, <1>4 DEF KeysIn

LEMMA StepPays ==
    ASSUME IsFiniteSet(Pods), TypeOK, TypeOK', NEW k, NEW p \in Pods, Step(p)
    PROVE  /\ Credit <= Credit'
           /\ ~(Mark(p) /\ k = Key(Head(todo[p]).deal)) => Debt(k) <= Debt(k)'
<1> USE DEF mail
<1>1. \A q \in Pods \ {p} : UNCHANGED <<pc[q], todo[q], digest[q], ctxDone[q]>>
  BY OthersRest
<1>2. faults \in Int
  BY DEF TypeOK, CountersTyped
<1>3. CASE FetchDeals(p) \/ FetchDealsFails(p)
  <2>1. pc[p] = "fetch" /\ faults <= faults' /\ (ctxDone'[p] => ctxDone[p])
    BY <1>2, <1>3 DEF FetchDeals, FetchDealsFails, Succeeds, Fails, Exit, TypeOK, PodsTyped
  <2> QED
    BY <1>1, <2>1, PodPays DEF Owes
<1>4. CASE FilterCandidate(p) \/ EnrichOne(p) \/ EnrichFails(p) \/ LookUp(p) \/ LookUpFails(p)
  <2>1. pc[p] \in {"filter", "enrich", "dedup"} /\ faults <= faults' /\ ctxDone'[p] = ctxDone[p]
    BY <1>2, <1>4 DEF FilterCandidate, EnrichOne, EnrichFails, LookUp, LookUpFails,
                      Visiting, Succeeds, Fails
  <2> QED
    BY <1>1, <2>1, PodPays DEF Owes
<1>5. CASE NothingFresh(p) \/ CallNotify(p)
  <2>1. pc[p] = "dedup" /\ faults <= faults' /\ ctxDone'[p] = ctxDone[p]
    BY <1>2, <1>5 DEF NothingFresh, CallNotify
  <2> QED
    BY <1>1, <2>1, PodPays DEF Owes
<1>6. CASE NotifyReturnsNil(p)
  <2>1. /\ UNCHANGED <<todo, digest, ctxDone, faults>> /\ pc[p] = "sending"
        /\ pc'[p] = "persist"
    BY <1>6 DEF NotifyReturnsNil, Goto, TypeOK, PodsTyped
  <2>2. Owes(p, k) => Owes(p, k)'
    BY <2>1 DEF Owes
  <2> QED
    BY <1>1, <1>2, <2>1, <2>2, PodPays
<1>7. CASE NotifyFails(p)
  <2>1. ~ctxDone'[p] /\ faults <= faults' /\ (ctxDone[p] \/ faults < faults')
    BY <1>2, <1>7 DEF NotifyFails, Exit, Fails, TypeOK, PodsTyped
  <2> QED
    BY <1>1, <2>1, PodPays
<1>8. CASE Mark(p) \/ MarkFails(p)
  <2>1. /\ pc[p] = "persist" /\ pc' = pc /\ UNCHANGED <<digest, ctxDone>>
        /\ todo[p] \in Seq(MatchedDeal) /\ todo[p] # << >> /\ todo'[p] = Tail(todo[p])
        /\ faults <= faults'
    BY <1>2, <1>8 DEF Mark, MarkFails, Visiting, Succeeds, Fails, TypeOK, PodsTyped, TodoType
  <2>2. ASSUME Owes(p, k), ~Owes(p, k)' PROVE k = Key(Head(todo[p]).deal) /\ ~ctxDone[p]
    <3>1. k \in KeysIn(todo[p]) \ KeysIn(Tail(todo[p])) /\ ~ctxDone[p]
      BY <2>1, <2>2 DEF Owes
    <3> QED
      BY <2>1, <3>1, TailKeys
  <2>3. CASE Mark(p)
    BY <1>1, <2>1, <2>2, <2>3, PodPays
  <2>4. CASE MarkFails(p)
    <3>1. ~ctxDone[p] => faults < faults'
      BY <1>2, <2>4 DEF MarkFails, Fails
    <3> QED
      BY <1>1, <2>1, <2>2, <3>1, PodPays
  <2> QED
    BY <1>8, <2>3, <2>4
<1>9. CASE PruneOff(p) \/ PruneOld(p) \/ PruneFails(p)
  <2>1. pc[p] = "prune" /\ ~ctxDone'[p] /\ faults <= faults'
    BY <1>2, <1>9 DEF PruneOff, PruneOld, PruneFails, Exit, Succeeds, Fails, TypeOK, PodsTyped
  <2>2. Owes(p, k) => ctxDone[p]
    BY <2>1 DEF Owes
  <2> QED
    BY <1>1, <2>1, <2>2, PodPays
<1>10. CASE EndOfLoop(p)
  <2>1. /\ UNCHANGED <<digest, ctxDone, faults>> /\ todo[p] = << >>
        /\ pc[p] \in {"filter", "enrich"} \/ (pc[p] = "persist" /\ pc'[p] = "prune")
    BY <1>10 DEF EndOfLoop, NextStage, Goto, TypeOK, PodsTyped
  <2>2. KeysIn(todo[p]) = {}
    BY <2>1 DEF KeysIn
  <2>3. Owes(p, k) => Owes(p, k)'
    BY <2>1, <2>2 DEF Owes
  <2> QED
    BY <1>1, <1>2, <2>1, <2>3, PodPays
<1> QED
  BY <1>3, <1>4, <1>5, <1>6, <1>7, <1>8, <1>9, <1>10 DEF Step

LEMMA NextPays ==
    ASSUME IsFiniteSet(Pods), ConcurrencyPolicy # "Replace", TypeOK, TypeOK', NEW k, [Next]_vars
    PROVE  /\ Credit <= Credit'
           /\ \/ \E p \in Pods : Mark(p) /\ k = Key(Head(todo[p]).deal)
              \/ Debt(k) <= Debt(k)'
<1> USE DEF mail
<1>1. faults \in Int
  BY DEF TypeOK, CountersTyped
<1>2. ASSUME NEW p \in Pods, StartRun(p) \/ StartRunFails(p)
      PROVE  Credit <= Credit' /\ Debt(k) <= Debt(k)'
  <2>1. /\ pc[p] = "idle" /\ UNCHANGED <<todo, digest>> /\ faults <= faults'
        /\ \A q \in Pods : ctxDone'[q] = ctxDone[q] /\ (q # p => pc'[q] = pc[q])
    BY <1>1, <1>2 DEF StartRun, StartRunFails, CreatePod, Goto, TypeOK, PodsTyped
  <2>2. \A q \in Pods \ {p} : UNCHANGED <<pc[q], todo[q], digest[q], ctxDone[q]>>
    BY <2>1
  <2> QED
    BY <2>1, <2>2, PodPays DEF Owes
<1>3. ASSUME NEW p \in Pods, Signal(p)
      PROVE  Credit <= Credit' /\ Debt(k) <= Debt(k)'
  <2>1. /\ UNCHANGED <<pc, todo, digest>> /\ faults < faults' /\ ctxDone'[p]
    BY <1>1, <1>3 DEF Signal, TypeOK, PodsTyped
  <2>2. \A q \in Pods \ {p} : UNCHANGED <<pc[q], todo[q], digest[q], ctxDone[q]>>
    BY <1>3, OthersRest
  <2>3. Owes(p, k) => Owes(p, k)'
    BY <2>1 DEF Owes
  <2>4. faults <= faults'
    BY <1>3, <1>1 DEF Signal
  <2> QED
    BY <2>1, <2>2, <2>3, <2>4, PodPays
<1>4. ASSUME NEW p \in Pods, Kill(p)
      PROVE  Credit <= Credit' /\ Debt(k) <= Debt(k)'
  <2>1. faults < faults' /\ faults <= faults' /\ ~ctxDone'[p]
    BY <1>1, <1>4 DEF Kill, Exit, TypeOK, PodsTyped
  <2>2. \A q \in Pods \ {p} : UNCHANGED <<pc[q], todo[q], digest[q], ctxDone[q]>>
    BY <1>4, OthersRest
  <2> QED
    BY <2>1, <2>2, PodPays
<1>5. ASSUME UNCHANGED <<faults, pc, todo, digest, ctxDone>>
      PROVE  Credit <= Credit' /\ Debt(k) <= Debt(k)'
  <2>1. Credit \in Int /\ Debt(k) \in Int
    <3>1. IsFiniteSet(Cancelled) /\ IsFiniteSet(Owing(k))
      BY FS_Subset DEF Cancelled, Owing
    <3> QED
      BY <1>1, <3>1, FS_CardinalityType DEF Credit, Debt
  <2>2. Cancelled' = Cancelled /\ Owing(k)' = Owing(k)
    BY <1>5 DEF Cancelled, Owing, Owes
  <2> QED
    BY <1>5, <2>1, <2>2 DEF Credit, Debt
<1>6. ASSUME NEW d \in inflight, Accept(d) \/ Lose(d)
      PROVE  Credit <= Credit' /\ Debt(k) <= Debt(k)'
  BY <1>5, <1>6 DEF Accept, Lose
<1>7. CASE Tick \/ UNCHANGED vars
  BY <1>5, <1>7 DEF Tick, vars
<1> QED
  BY <1>2, <1>3, <1>4, <1>6, <1>7, StepPays DEF Next

(***************************************************************************)
(* Only Notify's call adds a digest (runner.go:173).  k counts once more   *)
(* if the pod's lookups kept it, and then the pod owes its mark.           *)
(***************************************************************************)
LEMMA NotifyOwes ==
    ASSUME IsFiniteSet(Pods), TypeOK, TypeOK', NEW k, NEW p \in Pods, CallNotify(p),
           k \in KeysIn(out[p])
    PROVE  Credit' = Credit /\ Debt(k)' = Debt(k) + 1
<1>1. /\ UNCHANGED <<faults, ctxDone>> /\ pc[p] = "dedup" /\ pc'[p] = "sending"
      /\ digest'[p].lines = out[p] /\ todo'[p] = out[p]
  BY DEF CallNotify, Goto, TypeOK, PodsTyped
<1>2. ~Owes(p, k) /\ Owes(p, k)'
  BY <1>1 DEF Owes, KeysOf, KeysIn
<1>3. \A q \in Pods \ {p} : UNCHANGED <<pc[q], todo[q], digest[q], ctxDone[q]>>
  BY OthersRest DEF Step
<1>4. faults \in Int
  BY DEF TypeOK, CountersTyped
<1>5. /\ Credit \in Int /\ Debt(k) \in Int
      /\ Credit' = Credit + (faults' - faults) + Bit(ctxDone[p]) - Bit(ctxDone'[p])
      /\ Debt(k)' = Debt(k) + (Credit' - Credit) + Bit(Owes(p, k)') - Bit(Owes(p, k))
  BY <1>3, OnePodMoves
<1>6. Credit' = Credit
  <2>1. Bit(ctxDone[p]) \in Int /\ ctxDone'[p] = ctxDone[p]
    BY <1>1 DEF Bit
  <2> QED
    BY <1>1, <1>4, <1>5, <2>1
<1>7. Bit(Owes(p, k)') = 1 /\ Bit(Owes(p, k)) = 0
  BY <1>2 DEF Bit
<1> QED
  BY <1>5, <1>6, <1>7

LEMMA NextSends ==
    ASSUME TypeOK, [Next]_vars
    PROVE  \/ Mails' \subseteq Mails
           \/ \E p \in Pods : CallNotify(p) /\ digest'[p].lines = out[p]
                              /\ Mails' = Mails \cup {digest'[p]}
<1> USE DEF mail
<1>1. CASE UNCHANGED <<inflight, inbox>>
  BY <1>1 DEF Mails
<1>2. ASSUME NEW p \in Pods, CallNotify(p)
      PROVE  digest'[p].lines = out[p] /\ Mails' = Mails \cup {digest'[p]}
  BY <1>2 DEF CallNotify, Mails, TypeOK, PodsTyped
<1>3. ASSUME NEW p \in Pods, Step(p), ~CallNotify(p) PROVE UNCHANGED <<inflight, inbox>>
  BY <1>3
  DEF Step, FetchDeals, FetchDealsFails, FilterCandidate, EnrichOne, EnrichFails,
      LookUp, LookUpFails, NothingFresh, NotifyReturnsNil, NotifyFails, Mark,
      MarkFails, PruneOff, PruneOld, PruneFails, EndOfLoop, NextStage, Visiting
<1>4. ASSUME NEW p \in Pods, StartRun(p) \/ StartRunFails(p) \/ Signal(p) \/ Kill(p)
      PROVE  UNCHANGED <<inflight, inbox>>
  BY <1>4 DEF StartRun, StartRunFails, Signal, Kill
<1>5. ASSUME NEW d \in inflight, Accept(d) \/ Lose(d) PROVE Mails' \subseteq Mails
  BY <1>5 DEF Accept, Lose, Mails
<1>6. CASE Tick \/ UNCHANGED vars
  BY <1>1, <1>6 DEF Tick, vars
<1> QED
  BY <1>1, <1>2, <1>3, <1>4, <1>5, <1>6 DEF Next

LEMMA SentGrows ==
    ASSUME TypeOK, IsFiniteSet(Mails), [Next]_vars, NEW k
    PROVE  /\ IsFiniteSet(Mails') /\ Cardinality(Sent(k)) \in Nat /\ Cardinality(Sent(k)') \in Nat
           /\ \/ Cardinality(Sent(k)') <= Cardinality(Sent(k))
              \/ \E p \in Pods : CallNotify(p) /\ k \in KeysIn(out[p])
                                 /\ Cardinality(Sent(k)') <= Cardinality(Sent(k)) + 1
<1>1. IsFiniteSet(Sent(k)) /\ Cardinality(Sent(k)) \in Nat
  BY FS_Subset, FS_CardinalityType DEF Sent
<1>2. CASE Mails' \subseteq Mails
  <2>1. Sent(k)' \subseteq Sent(k)
    BY <1>2 DEF Sent
  <2>2. IsFiniteSet(Mails')
    BY <1>2, FS_Subset
  <2>3. IsFiniteSet(Sent(k)') /\ Cardinality(Sent(k)') <= Cardinality(Sent(k))
    BY <1>1, <2>1, FS_Subset
  <2> QED
    BY <1>1, <2>2, <2>3, FS_CardinalityType
<1>3. ASSUME NEW p \in Pods, CallNotify(p), digest'[p].lines = out[p],
             Mails' = Mails \cup {digest'[p]}
      PROVE  /\ IsFiniteSet(Mails') /\ Cardinality(Sent(k)') \in Nat
             /\ \/ Cardinality(Sent(k)') <= Cardinality(Sent(k))
                \/ /\ k \in KeysIn(out[p])
                   /\ Cardinality(Sent(k)') <= Cardinality(Sent(k)) + 1
  <2>1. IsFiniteSet(Mails')
    BY <1>3, FS_AddElement
  <2>2. Sent(k)' \subseteq Sent(k) \cup {digest'[p]}
    BY <1>3 DEF Sent
  <2>3. k \notin KeysIn(out[p]) => Sent(k)' \subseteq Sent(k)
    BY <1>3 DEF Sent, KeysOf, KeysIn
  <2>4. /\ IsFiniteSet(Sent(k) \cup {digest'[p]})
        /\ Cardinality(Sent(k) \cup {digest'[p]}) \in Nat
        /\ Cardinality(Sent(k) \cup {digest'[p]}) <= Cardinality(Sent(k)) + 1
    <3>1. /\ IsFiniteSet(Sent(k) \cup {digest'[p]})
          /\ Cardinality(Sent(k) \cup {digest'[p]}) =
                IF digest'[p] \in Sent(k) THEN Cardinality(Sent(k)) ELSE Cardinality(Sent(k)) + 1
      BY <1>1, FS_AddElement
    <3> QED
      BY <1>1, <3>1, FS_CardinalityType
  <2>5. /\ IsFiniteSet(Sent(k)')
        /\ Cardinality(Sent(k)') <= Cardinality(Sent(k) \cup {digest'[p]})
        /\ k \notin KeysIn(out[p]) => Cardinality(Sent(k)') <= Cardinality(Sent(k))
    BY <1>1, <2>2, <2>3, <2>4, FS_Subset
  <2>6. Cardinality(Sent(k)') \in Nat
    BY <2>5, FS_CardinalityType
  <2> QED
    BY <1>1, <2>1, <2>4, <2>5, <2>6
<1> QED
  BY <1>1, <1>2, <1>3, NextSends

-----------------------------------------------------------------------------
(* The time of a row.                                                      *)

\* No row is from the future, and a pod that marks brings the latest time.
LatestMark(p) ==
    pc[p] = "persist" =>
        markAt[p] <= now /\ \A k \in DOMAIN rows : rows[k].notifiedAt <= markAt[p]

TimesInv ==
    /\ \A k \in DOMAIN rows : rows[k].notifiedAt <= now
    /\ \A p \in Pods : LatestMark(p)

\* Only the clock changes the time.
LEMMA NextTick == ASSUME [Next]_vars, now' # now PROVE Tick
<1> USE DEF mail
<1>1. ASSUME NEW p \in Pods, Step(p) PROVE now' = now
  BY <1>1
  DEF Step, FetchDeals, FetchDealsFails, FilterCandidate, EnrichOne, EnrichFails,
      LookUp, LookUpFails, NothingFresh, CallNotify, NotifyReturnsNil, NotifyFails, Mark,
      MarkFails, PruneOff, PruneOld, PruneFails, EndOfLoop, NextStage, Visiting
<1>2. ASSUME NEW p \in Pods, StartRun(p) \/ StartRunFails(p) \/ Signal(p) \/ Kill(p)
      PROVE  now' = now
  BY <1>2 DEF StartRun, StartRunFails, Signal, Kill
<1>3. CASE UNCHANGED vars \/ \E d \in inflight : Accept(d) \/ Lose(d)
  BY <1>3 DEF vars, Accept, Lose
<1> QED
  BY <1>1, <1>2, <1>3 DEF Next

\* How a pod can be in its marking loop after a step.
LEMMA NextPersist ==
    ASSUME TypeOK, [Next]_vars
    PROVE  /\ now <= now'
           /\ \A q \in Pods : pc'[q] = "persist" =>
                 \/ /\ NotifyReturnsNil(q) /\ markAt'[q] = now /\ todo'[q] = todo[q]
                    /\ UNCHANGED <<now, rows>>
                 \/ /\ pc[q] = "persist" /\ markAt'[q] = markAt[q]
                    /\ KeysIn(todo'[q]) \subseteq KeysIn(todo[q])
                    /\ ctxDone[q] => ctxDone'[q]
<1> USE DEF mail
<1>1. now \in Int
  BY DEF TypeOK, CountersTyped
<1>2. ASSUME NEW p \in Pods, Step(p), NEW q \in Pods, pc'[q] = "persist"
      PROVE  \/ /\ NotifyReturnsNil(q) /\ markAt'[q] = now /\ todo'[q] = todo[q]
                /\ UNCHANGED <<now, rows>>
             \/ /\ pc[q] = "persist" /\ markAt'[q] = markAt[q]
                /\ KeysIn(todo'[q]) \subseteq KeysIn(todo[q])
                /\ ctxDone[q] => ctxDone'[q]
  <2>1. CASE q # p
    <3>1. UNCHANGED <<pc[q], todo[q], markAt[q], ctxDone[q]>>
      BY <1>2, <2>1, OthersRest
    <3> QED
      BY <1>2, <3>1
  <2>2. CASE q = p /\ NotifyReturnsNil(p)
    BY <2>2 DEF NotifyReturnsNil, TypeOK, PodsTyped
  <2>3. CASE q = p /\ (Mark(p) \/ MarkFails(p))
    <3>1. /\ pc[p] = "persist" /\ UNCHANGED <<markAt, ctxDone>>
          /\ todo[p] \in Seq(MatchedDeal)
          /\ todo[p] # << >> /\ todo'[p] = Tail(todo[p])
      BY <2>3 DEF Mark, MarkFails, Visiting, TypeOK, PodsTyped, TodoType
    <3> QED
      BY <2>3, <3>1, TailKeys
  <2>4. CASE q = p /\ ~NotifyReturnsNil(p) /\ ~Mark(p) /\ ~MarkFails(p)
    BY <1>2, <2>4
    DEF Step, FetchDeals, FetchDealsFails, FilterCandidate, EnrichOne, EnrichFails,
        LookUp, LookUpFails, NothingFresh, CallNotify, NotifyFails, PruneOff,
        PruneOld, PruneFails, EndOfLoop, NextStage, Visiting, Exit, Goto, TypeOK, PodsTyped
  <2> QED
    BY <2>1, <2>2, <2>3, <2>4
<1>3. ASSUME NEW p \in Pods, StartRun(p) \/ StartRunFails(p) \/ Signal(p) \/ Kill(p)
      PROVE  now' = now /\ \A q \in Pods : pc'[q] = "persist" =>
                /\ pc[q] = "persist" /\ markAt'[q] = markAt[q] /\ todo'[q] = todo[q]
                /\ ctxDone[q] => ctxDone'[q]
  BY <1>3
  DEF StartRun, StartRunFails, CreatePod, Signal, Kill, Exit, Goto, TypeOK, PodsTyped
<1>4. now <= now'
  BY <1>1, NextTick DEF Tick
<1>5. CASE Tick \/ UNCHANGED vars \/ \E d \in inflight : Accept(d) \/ Lose(d)
  BY <1>1, <1>5 DEF Tick, vars, Accept, Lose
<1> QED
  BY <1>1, <1>2, <1>3, <1>4, <1>5 DEF Next

LEMMA NextKeepsTimes ==
    ASSUME TypeOK, TypeOK', Alone, TimesInv, [Next]_vars
    PROVE  TimesInv'
<1>1. /\ \A k \in DOMAIN rows : rows[k].notifiedAt \in Nat
      /\ now \in Nat /\ now' \in Nat /\ \A p \in Pods : markAt[p] \in Nat
  BY DEF TypeOK, RowsTyped, Row, CountersTyped, PodsTyped
<1>2. CASE DOMAIN rows' \subseteq DOMAIN rows /\ \A k \in DOMAIN rows' : rows'[k] = rows[k]
  <2>1. \A k \in DOMAIN rows' : rows'[k].notifiedAt <= now'
    BY <1>1, <1>2, NextPersist DEF TimesInv
  <2>2. ASSUME NEW q \in Pods PROVE LatestMark(q)'
    BY <1>1, <1>2, NextPersist DEF TimesInv, LatestMark
  <2> QED
    BY <2>1, <2>2 DEF TimesInv
<1>3. ASSUME NEW p \in Pods, Mark(p) PROVE TimesInv'
  <2>1. /\ pc' = pc /\ markAt' = markAt /\ now' = now /\ pc[p] = "persist"
        /\ \A k \in DOMAIN rows' : rows'[k].notifiedAt = markAt[p]
                                   \/ (k \in DOMAIN rows /\ rows'[k] = rows[k])
    BY <1>3 DEF Mark, MarkSeen, Visiting
  <2>2. \A q \in Pods : pc[q] = "persist" => q = p
    BY <2>1 DEF Alone
  <2> QED
    BY <1>1, <2>1, <2>2 DEF TimesInv, LatestMark
<1> QED
  BY <1>2, <1>3, NextRows, StoreShrinks DEF PruneOld, StartRun

-----------------------------------------------------------------------------
(* Repeats, with one pod at a time.                                        *)

\* How often k was sent: when it has no row, when it has one, when a pod is
\* about to mark it.
CountInv(k) ==
    /\ k \notin DOMAIN rows => Cardinality(Sent(k)) <= ExpiriesBy(now) + Debt(k)
    /\ k \in DOMAIN rows =>
          Cardinality(Sent(k)) <= 1 + ExpiriesBy(rows[k].notifiedAt) + Credit
    /\ \A p \in Pods : pc[p] = "persist" /\ k \in KeysIn(todo[p]) =>
          Cardinality(Sent(k)) <= 1 + ExpiriesBy(markAt[p]) + Credit

RepeatInv == IsFiniteSet(Mails) /\ \A k \in DealKey : CountInv(k)

LEMMA DebtType ==
    ASSUME IsFiniteSet(Pods), NEW k
    PROVE  /\ TypeOK => /\ Credit \in Int /\ Cardinality(Owing(k)) \in Nat
                        /\ Credit <= faults /\ Debt(k) = Cardinality(Owing(k)) + Credit
           /\ TypeOK' => /\ Credit' \in Int /\ Cardinality(Owing(k)') \in Nat
                         /\ Debt(k)' = Cardinality(Owing(k)') + Credit'
<1>1. /\ IsFiniteSet(Cancelled) /\ IsFiniteSet(Cancelled')
      /\ IsFiniteSet(Owing(k)) /\ IsFiniteSet(Owing(k)')
  BY FS_Subset DEF Cancelled, Owing
<1>2. /\ Cardinality(Cancelled) \in Nat /\ Cardinality(Cancelled') \in Nat
      /\ Cardinality(Owing(k)) \in Nat /\ Cardinality(Owing(k)') \in Nat
  BY <1>1, FS_CardinalityType
<1>3. (TypeOK => faults \in Nat) /\ (TypeOK' => faults' \in Nat)
  BY DEF TypeOK, CountersTyped
<1> QED
  BY <1>2, <1>3 DEF Credit, Debt

LEMMA OneOwes ==
    ASSUME Alone, NEW k
    PROVE  Cardinality(Owing(k)) <= 1
<1>1. CASE Owing(k) = {}
  BY <1>1, FS_EmptySet
<1>2. CASE Owing(k) # {}
  <2>1. PICK p \in Owing(k) : TRUE
    BY <1>2
  <2>2. Owing(k) = {p}
    BY <2>1 DEF Alone, Owing, Owes
  <2>3. Cardinality({p}) = 1
    BY FS_Singleton
  <2> QED
    BY <2>2, <2>3
<1> QED
  BY <1>1, <1>2

\* Whatever the store and the pods answer for.
LEMMA CountBound ==
    ASSUME IsFiniteSet(Pods), TypeOK, Alone, TimesInv, IsFiniteSet(Mails), NEW k, CountInv(k)
    PROVE  Cardinality(Sent(k)) <= 1 + ExpiriesBy(now) + Credit
<1>1. Cardinality(Sent(k)) \in Nat
  BY FS_Subset, FS_CardinalityType DEF Sent
<1>2. now \in Nat /\ \A j \in DOMAIN rows : rows[j].notifiedAt \in Nat
  BY DEF TypeOK, CountersTyped, RowsTyped, Row
<1>3. CASE k \notin DOMAIN rows
  BY <1>1, <1>2, <1>3, OneOwes, DebtType, ExpiriesGrow DEF CountInv
<1>4. CASE k \in DOMAIN rows
  <2> DEFINE t == rows[k].notifiedAt
  <2>1. t \in Nat /\ t <= now
    BY <1>2, <1>4 DEF TimesInv
  <2>2. ExpiriesBy(t) \in Nat /\ ExpiriesBy(now) \in Nat /\ ExpiriesBy(t) <= ExpiriesBy(now)
    BY <1>2, <2>1, ExpiriesGrow
  <2>3. Cardinality(Sent(k)) <= 1 + ExpiriesBy(t) + Credit
    BY <1>4 DEF CountInv
  <2> QED
    BY <1>1, <2>2, <2>3, DebtType
<1> QED
  BY <1>3, <1>4

\* A step that sends k adds to the pod's debt, for the store does not know k.
LEMMA SendingKeepsCount ==
    ASSUME IsFiniteSet(Pods), TypeOK, TypeOK', FreshInv, FreshInv', IsFiniteSet(Mails),
           NEW k, CountInv(k), NEW p \in Pods, CallNotify(p), k \in KeysIn(out[p]),
           Cardinality(Sent(k)') <= Cardinality(Sent(k)) + 1,
           Cardinality(Sent(k)) \in Nat, Cardinality(Sent(k)') \in Nat
    PROVE  CountInv(k)'
<1>1. UNCHANGED <<rows, now>> /\ pc[p] = "dedup" /\ pc'[p] = "sending"
  BY DEF CallNotify, Goto, TypeOK, PodsTyped
<1>2. k \notin DOMAIN rows
  BY <1>1 DEF FreshInv, StillFresh, KeysIn
<1>3. \A q \in Pods : pc'[q] # "persist"
  BY <1>1 DEF FreshInv, Alone
<1>4. ExpiriesBy(now) \in Nat
  BY ExpiriesGrow DEF TypeOK, CountersTyped
<1>5. Debt(k) \in Int /\ Debt(k)' = Debt(k) + 1
  BY NotifyOwes, DebtType
<1>6. Cardinality(Sent(k)) <= ExpiriesBy(now) + Debt(k)
  BY <1>2 DEF CountInv
<1>7. ExpiriesBy(now)' = ExpiriesBy(now)
  BY <1>1 DEF ExpiriesBy
<1> QED
  BY <1>1, <1>2, <1>3, <1>4, <1>5, <1>6, <1>7 DEF CountInv

\* A step that does not.
LEMMA OthersKeepCount ==
    ASSUME IsFiniteSet(Pods), ConcurrencyPolicy # "Replace", Persistent,
           RetentionDays * Day <= HalfRange, TypeOK, TypeOK', Alone, TimesInv,
           IsFiniteSet(Mails), [Next]_vars, NEW k, CountInv(k),
           Cardinality(Sent(k)') <= Cardinality(Sent(k)),
           Cardinality(Sent(k)) \in Nat, Cardinality(Sent(k)') \in Nat
    PROVE  CountInv(k)'
<1> DEFINE n == Cardinality(Sent(k))
           nn == Cardinality(Sent(k)')
<1>1. /\ Credit \in Int /\ Debt(k) \in Int /\ Credit' \in Int /\ Debt(k)' \in Int
      /\ Credit' <= Debt(k)' /\ Credit <= Credit' /\ n \in Nat /\ nn \in Nat /\ nn <= n
  BY DebtType, NextPays
<1>2. now \in Nat /\ now' \in Nat /\ now <= now' /\ \A p \in Pods : markAt[p] \in Nat
  BY NextPersist DEF TypeOK, CountersTyped, PodsTyped
<1>3. ExpiriesBy(now) \in Nat /\ ExpiriesBy(now') \in Nat /\ ExpiriesBy(now) <= ExpiriesBy(now')
  BY <1>2, ExpiriesGrow
<1>4. ASSUME NEW j \in DOMAIN rows
      PROVE  /\ rows[j].notifiedAt \in Nat /\ rows[j].notifiedAt <= now
             /\ ExpiriesBy(rows[j].notifiedAt) \in Nat
  BY ExpiriesGrow DEF TypeOK, RowsTyped, Row, TimesInv
<1>5. ASSUME k \notin DOMAIN rows' PROVE nn <= ExpiriesBy(now') + Debt(k)'
  <2>1. \A p \in Pods : ~(Mark(p) /\ k = Key(Head(todo[p]).deal))
    BY <1>5 DEF Mark, MarkSeen
  <2>2. CASE k \notin DOMAIN rows
    <3>1. n <= ExpiriesBy(now) + Debt(k) /\ Debt(k) <= Debt(k)'
      BY <2>1, <2>2, NextPays DEF CountInv
    <3> HIDE DEF n, nn
    <3> QED
      BY <1>1, <1>3, <3>1
  <2>3. CASE k \in DOMAIN rows
    <3> DEFINE t == rows[k].notifiedAt
    <3>1. PICK p \in Pods : PruneOld(p)
      BY <1>5, <2>3, NextRows DEF Mark, MarkSeen
    <3>2. RetentionDays > 0 /\ now - t > RetentionDays * Day
      BY <1>5, <2>3, <3>1, PrunedIsOld
    <3>3. ExpiriesBy(t) \in Nat /\ ExpiriesBy(t) + 1 <= ExpiriesBy(now)
      BY <1>2, <1>4, <2>3, <3>2, ExpiriesGrow
    <3>4. n <= 1 + ExpiriesBy(t) + Credit
      BY <2>3 DEF CountInv
    <3> HIDE DEF n, nn, t
    <3> QED
      BY <1>1, <1>3, <3>3, <3>4
  <2> QED
    BY <2>2, <2>3
<1>6. ASSUME k \in DOMAIN rows' PROVE nn <= 1 + ExpiriesBy(rows'[k].notifiedAt) + Credit'
  <2>1. CASE k \in DOMAIN rows /\ rows'[k] = rows[k]
    <3>1. n <= 1 + ExpiriesBy(rows[k].notifiedAt) + Credit
      BY <2>1 DEF CountInv
    <3> HIDE DEF n, nn
    <3> QED
      BY <1>1, <1>4, <2>1, <3>1
  <2>2. ASSUME NEW p \in Pods, Mark(p), k = Key(Head(todo[p]).deal)
        PROVE  nn <= 1 + ExpiriesBy(rows'[k].notifiedAt) + Credit'
    <3>1. rows'[k].notifiedAt = markAt[p]
      BY <2>2 DEF Mark, MarkSeen
    <3>2. pc[p] = "persist" /\ k \in KeysIn(todo[p])
      BY <2>2, TailKeys DEF Mark, Visiting, TypeOK, PodsTyped, TodoType
    <3>3. n <= 1 + ExpiriesBy(markAt[p]) + Credit
      BY <3>2 DEF CountInv
    <3>4. ExpiriesBy(markAt[p]) \in Nat
      BY <1>2, ExpiriesGrow
    <3> HIDE DEF n, nn
    <3> QED
      BY <1>1, <3>1, <3>3, <3>4
  <2> QED
    BY <1>6, <2>1, <2>2, NextRows DEF Mark, MarkSeen, PruneOld, Prune
<1>7. ASSUME NEW q \in Pods, pc'[q] = "persist", k \in KeysIn(todo'[q])
      PROVE  nn <= 1 + ExpiriesBy(markAt'[q]) + Credit'
  <2>1. CASE markAt'[q] = now
    <3>1. n <= 1 + ExpiriesBy(now) + Credit
      BY CountBound
    <3> HIDE DEF n, nn
    <3> QED
      BY <1>1, <1>3, <2>1, <3>1
  <2>2. CASE pc[q] = "persist" /\ markAt'[q] = markAt[q] /\ KeysIn(todo'[q]) \subseteq KeysIn(todo[q])
    <3>1. n <= 1 + ExpiriesBy(markAt[q]) + Credit
      BY <1>7, <2>2 DEF CountInv
    <3>2. ExpiriesBy(markAt[q]) \in Nat
      BY <1>2, ExpiriesGrow
    <3> HIDE DEF n, nn
    <3> QED
      BY <1>1, <2>2, <3>1, <3>2
  <2> QED
    BY <1>7, <2>1, <2>2, NextPersist
<1>8. \A t : ExpiriesBy(t)' = ExpiriesBy(t')
  BY DEF ExpiriesBy
<1> QED
  BY <1>5, <1>6, <1>7, <1>8 DEF CountInv

\* What was accepted of k was sent.
LEMMA AcceptedWasSent ==
    ASSUME IsFiniteSet(Mails), NEW k
    PROVE  /\ Cardinality(Accepted(k)) \in Nat /\ Cardinality(Sent(k)) \in Nat
           /\ Cardinality(Accepted(k)) <= Cardinality(Sent(k))
<1>1. Accepted(k) \subseteq Sent(k) /\ Sent(k) \subseteq Mails
  BY DEF Accepted, Sent, Mails
<1>2. IsFiniteSet(Sent(k)) /\ IsFiniteSet(Accepted(k))
      /\ Cardinality(Accepted(k)) <= Cardinality(Sent(k))
  BY <1>1, FS_Subset
<1> QED
  BY <1>2, FS_CardinalityType

LEMMA AnnouncedKeysType == TypeOK => AnnouncedKeys \subseteq DealKey
<1> SUFFICES ASSUME TypeOK, NEW d \in inbox, NEW i \in DOMAIN d.lines
             PROVE  Key(d.lines[i].deal) \in DealKey
  BY DEF AnnouncedKeys, KeysOf
<1>1. d.lines \in Seq(MatchedDeal)
  BY DEF TypeOK, MailTyped, Digest
<1>2. d.lines[i] \in MatchedDeal
  BY <1>1, ElementOfSeq, LenProperties
<1> QED
  BY <1>2, KeyType DEF MatchedDeal

LEMMA InitNothingSent ==
    ASSUME Init, IsFiniteSet(Pods), NEW k
    PROVE  /\ IsFiniteSet(Mails) /\ Cardinality(Sent(k)) = 0 /\ DOMAIN rows = {}
           /\ Credit = 0 /\ Debt(k) = 0 /\ \A p \in Pods : pc[p] = "idle"
<1>1. Mails = {} /\ Sent(k) = {} /\ Cancelled = {} /\ Owing(k) = {} /\ faults = 0
  BY DEF Init, Mails, Sent, Cancelled, Owing, Owes
<1>2. Cardinality({}) = 0 /\ IsFiniteSet({})
  BY FS_EmptySet
<1>3. DOMAIN rows = {} /\ \A p \in Pods : pc[p] = "idle"
  BY DEF Init, StoreInit, NoRows
<1> QED
  BY <1>1, <1>2, <1>3 DEF Credit, Debt

(***************************************************************************)
(* With policy Forbid no deal is announced more often than once, and once  *)
(* more per retention that has passed and per fault (runner.go:152-182),   *)
(* for any number of deals, faults and runs.                               *)
(***************************************************************************)
THEOREM OnePodRepeatsForAReason ==
    ASSUME ConcurrencyPolicy = "Forbid", Persistent, IsFiniteSet(Pods),
           RetentionDays * Day <= HalfRange
    PROVE  Spec => []RepeatsHaveAReason
<1>1. ASSUME Init PROVE FreshInv /\ TimesInv /\ RepeatInv
  <2>1. FreshInv /\ TimesInv
    BY <1>1 DEF Init, StoreInit, NoRows, FreshInv, Alone, StillFresh, TimesInv, LatestMark
  <2>2. ASSUME NEW k \in DealKey PROVE CountInv(k)
    <3>1. now = 0 /\ ExpiriesBy(0) \in Nat
      BY <1>1, ExpiriesGrow DEF Init
    <3> QED
      BY <1>1, <3>1, InitNothingSent DEF CountInv
  <2>3. IsFiniteSet(Mails)
    BY <1>1, InitNothingSent
  <2> QED
    BY <2>1, <2>2, <2>3 DEF RepeatInv
<1>2. TypeOK /\ FreshInv /\ [Next]_vars => FreshInv'
  BY NextKeepsFresh
<1>3. TypeOK /\ TypeOK' /\ FreshInv /\ TimesInv /\ [Next]_vars => TimesInv'
  BY NextKeepsTimes DEF FreshInv
<1>4. ASSUME TypeOK, TypeOK', FreshInv, FreshInv', TimesInv, RepeatInv, [Next]_vars
      PROVE  RepeatInv'
  <2>1. IsFiniteSet(Mails')
    BY <1>4, SentGrows DEF RepeatInv
  <2>2. ASSUME NEW k \in DealKey PROVE CountInv(k)'
    <3>1. IsFiniteSet(Mails) /\ CountInv(k) /\ Alone
      BY <1>4 DEF RepeatInv, FreshInv
    <3>2. Cardinality(Sent(k)) \in Nat /\ Cardinality(Sent(k)') \in Nat
      BY <1>4, <3>1, SentGrows
    <3>3. CASE Cardinality(Sent(k)') <= Cardinality(Sent(k))
      BY <1>4, <3>1, <3>2, <3>3, OthersKeepCount
    <3>4. ASSUME NEW p \in Pods, CallNotify(p), k \in KeysIn(out[p]),
                 Cardinality(Sent(k)') <= Cardinality(Sent(k)) + 1
          PROVE  CountInv(k)'
      BY <1>4, <3>1, <3>2, <3>4, SendingKeepsCount
    <3> QED
      BY <1>4, <3>1, <3>3, <3>4, SentGrows
  <2> QED
    BY <2>1, <2>2 DEF RepeatInv
<1>5. ASSUME TypeOK, FreshInv, TimesInv, RepeatInv PROVE RepeatsHaveAReason
  <2>1. ASSUME NEW k \in AnnouncedKeys
        PROVE  Cardinality(Accepted(k)) <= 1 + ExpiriesBy(now) + faults
    <3>1. CountInv(k) /\ IsFiniteSet(Mails) /\ Alone
      BY <1>5, AnnouncedKeysType DEF RepeatInv, FreshInv
    <3>2. Cardinality(Sent(k)) <= 1 + ExpiriesBy(now) + Credit
      BY <1>5, <3>1, CountBound
    <3>3. Credit \in Int /\ Credit <= faults
      BY <1>5, DebtType
    <3>4. faults \in Nat /\ now \in Nat
      BY <1>5 DEF TypeOK, CountersTyped
    <3>5. ExpiriesBy(now) \in Nat
      BY <3>4, ExpiriesGrow
    <3> QED
      BY <3>1, <3>2, <3>3, <3>4, <3>5, AcceptedWasSent
  <2>2. PodsTogether = 1 /\ RepeatsPerExpiry = 1
    BY DEF PodsTogether, RepeatsPerExpiry
  <2>3. ExpiriesBy(now) \in Nat
    BY <1>5, ExpiriesGrow DEF TypeOK, CountersTyped
  <2> QED
    BY <2>1, <2>2, <2>3 DEF RepeatsHaveAReason
<1> QED
  BY <1>1, <1>2, <1>3, <1>4, <1>5, TypeCorrect, PTL DEF Spec

-----------------------------------------------------------------------------
(* Listings that name a key once: neither does a pod's loop.               *)

ListingsNameKeysOnce ==
    \A s \in Listings : \A i, j \in DOMAIN s : Key(s[i]) = Key(s[j]) => i = j

CandidateKey == [c \in Candidate |-> Key(c)]

MatchKey == [m \in MatchedDeal |-> Key(m.deal)]

\* What is still to visit, whose keys K tells, and what was kept are all of
\* different keys.
NamedOnce(K, s, kept) ==
    /\ \A i, j \in DOMAIN s : K[s[i]] = K[s[j]] => i = j
    /\ \A i, j \in DOMAIN kept : MatchKey[kept[i]] = MatchKey[kept[j]] => i = j
    /\ \A i \in DOMAIN s, j \in DOMAIN kept : K[s[i]] # MatchKey[kept[j]]

TodoKey(p) == IF pc[p] = "filter" THEN CandidateKey ELSE MatchKey

KeysOnce(p) ==
    /\ NamedOnce(TodoKey(p), todo[p], out[p])
    /\ pc[p] \notin {"filter", "enrich", "dedup"} => out[p] = << >>

LEMMA NothingKept ==
    ASSUME NEW K, NEW s
    PROVE  NamedOnce(K, s, << >>) <=> \A i, j \in DOMAIN s : K[s[i]] = K[s[j]] => i = j
BY DEF NamedOnce

LEMMA VisitKeepsOnce ==
    ASSUME NEW S, NEW s \in Seq(S), s # << >>, NEW kept \in Seq(MatchedDeal), NEW K,
           NamedOnce(K, s, kept), NEW t,
           t = kept \/ \E m \in MatchedDeal : MatchKey[m] = K[Head(s)] /\ t = Append(kept, m)
    PROVE  NamedOnce(K, Tail(s), t)
<1>1. /\ 1 \in DOMAIN s /\ Head(s) = s[1] /\ DOMAIN s \subseteq Nat /\ DOMAIN Tail(s) \subseteq Nat \ {0}
      /\ \A i \in DOMAIN Tail(s) : i + 1 \in DOMAIN s /\ Tail(s)[i] = s[i + 1]
  BY TailElements, HeadTailProperties, LenProperties
<1>2. \A i, j \in DOMAIN Tail(s) : K[Tail(s)[i]] = K[Tail(s)[j]] => i = j
  <2> SUFFICES ASSUME NEW i \in DOMAIN Tail(s), NEW j \in DOMAIN Tail(s),
                      K[Tail(s)[i]] = K[Tail(s)[j]]
               PROVE  i = j
    OBVIOUS
  <2>1. /\ i + 1 \in DOMAIN s /\ j + 1 \in DOMAIN s /\ i \in Nat /\ j \in Nat
        /\ K[s[i + 1]] = K[s[j + 1]]
    BY <1>1
  <2>2. i + 1 = j + 1
    BY <2>1 DEF NamedOnce
  <2> QED
    BY <2>1, <2>2
<1>3. \A i \in DOMAIN Tail(s) : K[Tail(s)[i]] # K[Head(s)]
  <2> SUFFICES ASSUME NEW i \in DOMAIN Tail(s), K[Tail(s)[i]] = K[Head(s)] PROVE FALSE
    OBVIOUS
  <2>1. i + 1 = 1
    <3>1. i + 1 \in DOMAIN s /\ 1 \in DOMAIN s /\ K[s[i + 1]] = K[s[1]]
      BY <1>1
    <3> QED
      BY <3>1 DEF NamedOnce
  <2> QED
    BY <1>1, <2>1
<1>4. \A i \in DOMAIN Tail(s), j \in DOMAIN kept : K[Tail(s)[i]] # MatchKey[kept[j]]
  BY <1>1 DEF NamedOnce
<1>5. \A j \in DOMAIN kept : K[Head(s)] # MatchKey[kept[j]]
  BY <1>1 DEF NamedOnce
<1>6. CASE t = kept
  BY <1>2, <1>4, <1>6 DEF NamedOnce
<1>7. ASSUME NEW m \in MatchedDeal, MatchKey[m] = K[Head(s)], t = Append(kept, m)
      PROVE  NamedOnce(K, Tail(s), t)
  <2>1. /\ \A i \in DOMAIN t : (i \in DOMAIN kept /\ t[i] = kept[i])
                               \/ (i = Len(kept) + 1 /\ t[i] = m)
    BY <1>7, AppendProperties, LenProperties
  <2>2. \A i, j \in DOMAIN t : MatchKey[t[i]] = MatchKey[t[j]] => i = j
    BY <1>5, <1>7, <2>1 DEF NamedOnce
  <2>3. \A i \in DOMAIN Tail(s), j \in DOMAIN t : K[Tail(s)[i]] # MatchKey[t[j]]
    BY <1>3, <1>4, <1>7, <2>1
  <2> QED
    BY <1>2, <2>2, <2>3 DEF NamedOnce
<1> QED
  BY <1>6, <1>7

\* What a loop visits it keeps under the key it had, or not at all.
LEMMA StepKeepsOnce ==
    ASSUME TypeOK, ListingsNameKeysOnce, NEW p \in Pods, Step(p), KeysOnce(p)
    PROVE  KeysOnce(p)'
<1>1. /\ todo[p] \in TodoType(p) /\ out[p] \in Seq(MatchedDeal)
      /\ NamedOnce(TodoKey(p), todo[p], out[p])
  BY DEF TypeOK, PodsTyped, KeysOnce
<1>2. CASE FetchDealsFails(p) \/ NotifyFails(p) \/ PruneOff(p) \/ PruneOld(p) \/ PruneFails(p)
  <2>1. todo'[p] = << >> /\ out'[p] = << >>
    BY <1>2 DEF FetchDealsFails, NotifyFails, PruneOff, PruneOld, PruneFails, Exit,
                TypeOK, PodsTyped
  <2> QED
    BY <2>1, NothingKept DEF KeysOnce
<1>3. CASE FetchDeals(p)
  <2>1. /\ pc'[p] = "filter" /\ todo'[p] \in Listings /\ out'[p] = << >>
    BY <1>3 DEF FetchDeals, Goto, KeysOnce, TypeOK, PodsTyped
  <2>2. todo'[p] \in Seq(Candidate)
    BY <2>1, RunnerAssumption
  <2>3. \A i \in DOMAIN todo'[p] : CandidateKey[todo'[p][i]] = Key(todo'[p][i])
    BY <2>2, ElementOfSeq, LenProperties DEF CandidateKey
  <2> QED
    BY <2>1, <2>3, NothingKept DEF KeysOnce, TodoKey, ListingsNameKeysOnce
<1>4. ASSUME NEW S, todo[p] \in Seq(S), todo[p] # << >>, UNCHANGED pc, todo'[p] = Tail(todo[p]),
             \/ out'[p] = out[p]
             \/ /\ pc[p] \in {"filter", "enrich", "dedup"}
                /\ \E m \in MatchedDeal : /\ Key(m.deal) = TodoKey(p)[Head(todo[p])]
                                         /\ out'[p] = Append(out[p], m)
      PROVE  KeysOnce(p)'
  <2>1. TodoKey(p)' = TodoKey(p)
    BY <1>4 DEF TodoKey
  <2>2. \A m \in MatchedDeal : MatchKey[m] = Key(m.deal)
    BY DEF MatchKey
  <2>3. NamedOnce(TodoKey(p), Tail(todo[p]), out'[p])
    BY <1>1, <1>4, <2>2, VisitKeepsOnce
  <2> QED
    BY <1>4, <2>1, <2>3 DEF KeysOnce
<1>5. CASE FilterCandidate(p)
  <2> DEFINE c == Head(todo[p])
             m == [deal |-> c, ruleName |-> Rules[Match(c)].name]
  <2>1. /\ todo[p] \in Seq(Candidate) /\ todo[p] # << >> /\ UNCHANGED pc /\ pc[p] = "filter"
        /\ todo'[p] = Tail(todo[p])
    BY <1>1, <1>5 DEF FilterCandidate, Visiting, TodoType, TypeOK, PodsTyped
  <2>2. c \in Candidate /\ TodoKey(p)[c] = Key(c)
    BY <2>1, HeadTailProperties DEF TodoKey, CandidateKey
  <2>3. out'[p] = out[p] \/ (m \in MatchedDeal /\ out'[p] = Append(out[p], m))
    BY <1>5, <2>2, MatchHasAName DEF FilterCandidate, Keep, MatchedDeal, TypeOK, PodsTyped
  <2> QED
    BY <1>4, <2>1, <2>2, <2>3
<1>6. ASSUME todo[p] \in Seq(MatchedDeal), todo[p] # << >>, pc[p] # "filter"
      PROVE  Head(todo[p]) \in MatchedDeal /\ TodoKey(p)[Head(todo[p])] = Key(Head(todo[p]).deal)
  BY <1>6, HeadTailProperties DEF TodoKey, MatchKey
<1>7. CASE EnrichOne(p)
  <2> DEFINE m == Head(todo[p])
  <2>1. /\ todo[p] \in Seq(MatchedDeal) /\ todo[p] # << >> /\ UNCHANGED pc /\ pc[p] = "enrich"
        /\ todo'[p] = Tail(todo[p])
    BY <1>1, <1>7 DEF EnrichOne, Visiting, TodoType, TypeOK, PodsTyped
  <2>2. m \in MatchedDeal /\ TodoKey(p)[m] = Key(m.deal)
    BY <1>6, <2>1
  <2>3. PICK sizes \in AnswersFor(m.deal) :
           LET d == Enriched(m, sizes) IN
           \/ out' = out
           \/ Match(d) # 0 /\ Keep(p, [deal |-> d, ruleName |-> Rules[Match(d)].name])
    BY <1>7 DEF EnrichOne
  <2> DEFINE d == Enriched(m, sizes)
             e == [deal |-> d, ruleName |-> Rules[Match(d)].name]
  <2>4. d \in Candidate /\ Key(d) = Key(m.deal)
    BY <2>2, EnrichedType DEF Enriched, Key, MatchedDeal, Candidate
  <2>5. out'[p] = out[p] \/ (e \in MatchedDeal /\ out'[p] = Append(out[p], e))
    BY <2>3, <2>4, MatchHasAName DEF Keep, MatchedDeal, TypeOK, PodsTyped
  <2>6. e.deal = d
    OBVIOUS
  <2> HIDE DEF d, e
  <2> QED
    BY <1>4, <2>1, <2>2, <2>4, <2>5, <2>6
<1>8. CASE EnrichFails(p) \/ LookUp(p) \/ LookUpFails(p) \/ Mark(p) \/ MarkFails(p)
  <2>1. /\ todo[p] \in Seq(MatchedDeal) /\ todo[p] # << >> /\ UNCHANGED pc
        /\ pc[p] \in {"enrich", "dedup", "persist"} /\ todo'[p] = Tail(todo[p])
    BY <1>1, <1>8
    DEF EnrichFails, LookUp, LookUpFails, Mark, MarkFails, Visiting, TodoType, TypeOK, PodsTyped
  <2>2. \/ out'[p] = out[p]
        \/ pc[p] = "dedup" /\ out'[p] = Append(out[p], Head(todo[p]))
    BY <1>8
    DEF EnrichFails, LookUp, LookUpFails, Mark, MarkFails, Visiting, Keep, TypeOK, PodsTyped
  <2>3. Head(todo[p]) \in MatchedDeal /\ TodoKey(p)[Head(todo[p])] = Key(Head(todo[p]).deal)
    BY <1>6, <2>1
  <2> QED
    BY <1>4, <2>1, <2>2, <2>3
<1>9. CASE NothingFresh(p) \/ NotifyReturnsNil(p)
  <2>1. /\ UNCHANGED <<todo, out>> /\ pc[p] # "filter" /\ pc'[p] # "filter"
        /\ pc[p] = "dedup" => out[p] = << >>
        /\ pc[p] \notin {"filter", "enrich"} 
    BY <1>9 DEF NothingFresh, NotifyReturnsNil, Goto, TypeOK, PodsTyped
  <2>2. TodoKey(p)' = TodoKey(p)
    BY <2>1 DEF TodoKey
  <2> QED
    BY <2>1, <2>2 DEF KeysOnce
<1>10. CASE CallNotify(p) \/ EndOfLoop(p)
  <2>1. todo'[p] = out[p] /\ out'[p] = << >> /\ pc'[p] # "filter"
    BY <1>10 DEF CallNotify, EndOfLoop, NextStage, Goto, TypeOK, PodsTyped
  <2>2. TodoKey(p)' = MatchKey
    BY <2>1 DEF TodoKey
  <2>3. NamedOnce(MatchKey, out[p], << >>)
    BY <1>1, NothingKept DEF NamedOnce
  <2> QED
    BY <2>1, <2>2, <2>3 DEF KeysOnce
<1> QED
  BY <1>2, <1>3, <1>5, <1>7, <1>8, <1>9, <1>10 DEF Step

LEMMA NextKeepsOnce ==
    ASSUME TypeOK, ListingsNameKeysOnce, [Next]_vars, NEW q \in Pods, KeysOnce(q)
    PROVE  KeysOnce(q)'
<1> USE DEF mail
<1>1. ASSUME UNCHANGED <<pc[q], todo[q], out[q]>> PROVE KeysOnce(q)'
  <2>1. TodoKey(q)' = TodoKey(q)
    BY <1>1 DEF TodoKey
  <2> QED
    BY <1>1, <2>1 DEF KeysOnce
<1>2. ASSUME NEW p \in Pods, Step(p) PROVE KeysOnce(q)'
  <2>1. CASE q = p
    BY <1>2, <2>1, StepKeepsOnce
  <2>2. CASE q # p
    BY <1>1, <1>2, <2>2, OthersRest
  <2> QED
    BY <2>1, <2>2
<1>3. ASSUME NEW p \in Pods, StartRun(p) PROVE KeysOnce(q)'
  <2>1. UNCHANGED <<todo, out>> /\ (q # p => pc'[q] = pc[q])
        /\ (q = p => pc[q] = "idle" /\ pc'[q] = "fetch")
    BY <1>3 DEF StartRun, CreatePod, Goto, TypeOK, PodsTyped
  <2>2. TodoKey(q)' = TodoKey(q)
    BY <2>1 DEF TodoKey
  <2> QED
    BY <2>1, <2>2 DEF KeysOnce
<1>4. ASSUME NEW p \in Pods, Kill(p) PROVE KeysOnce(q)'
  <2>1. CASE q = p
    <3>1. todo'[q] = << >> /\ out'[q] = << >>
      BY <1>4, <2>1 DEF Kill, Exit, TypeOK, PodsTyped
    <3> QED
      BY <3>1, NothingKept DEF KeysOnce
  <2>2. CASE q # p
    BY <1>1, <1>4, <2>2, OthersRest
  <2> QED
    BY <2>1, <2>2
<1>5. ASSUME NEW p \in Pods, StartRunFails(p) \/ Signal(p) PROVE KeysOnce(q)'
  BY <1>1, <1>5 DEF StartRunFails, Signal
<1>6. CASE Tick \/ UNCHANGED vars \/ \E d \in inflight : Accept(d) \/ Lose(d)
  BY <1>1, <1>6 DEF Tick, vars, Accept, Lose
<1> QED
  BY <1>2, <1>3, <1>4, <1>5, <1>6 DEF Next

-----------------------------------------------------------------------------
(* Repeats, with pods that overlap.                                        *)

\* Pods whose lookup answered "new" for k and that have not sent it.
Prospects(k) == {p \in Pods : pc[p] = "dedup" /\ k \in KeysIn(out[p])}

\* A pod that owes k is no prospect, so both together are at most the pods.
LEMMA ProspectsOweNothing ==
    ASSUME IsFiniteSet(Pods), NEW k
    PROVE  /\ Cardinality(Prospects(k)) \in Nat /\ Cardinality(Prospects(k)') \in Nat
           /\ Cardinality(Pods) \in Nat /\ Cardinality(Owing(k)) \in Nat
           /\ Cardinality(Owing(k)) + Cardinality(Prospects(k)) <= Cardinality(Pods)
<1>1. Prospects(k) \subseteq Pods /\ Prospects(k)' \subseteq Pods /\ Owing(k) \subseteq Pods
  BY DEF Prospects, Owing
<1>2. IsFiniteSet(Prospects(k)) /\ IsFiniteSet(Prospects(k)') /\ IsFiniteSet(Owing(k))
  BY <1>1, FS_Subset
<1>3. /\ Cardinality(Prospects(k)) \in Nat /\ Cardinality(Prospects(k)') \in Nat
      /\ Cardinality(Pods) \in Nat /\ Cardinality(Owing(k)) \in Nat
  BY <1>2, FS_CardinalityType
<1>4. Owing(k) \cap Prospects(k) = {}
  BY DEF Owing, Owes, Prospects
<1>5. Cardinality(Owing(k) \cap Prospects(k)) = 0
  BY <1>4, FS_EmptySet
<1>6. Cardinality(Owing(k) \cup Prospects(k)) =
         Cardinality(Owing(k)) + Cardinality(Prospects(k)) - Cardinality(Owing(k) \cap Prospects(k))
  BY <1>2, FS_Union
<1>7. Cardinality(Owing(k) \cup Prospects(k)) <= Cardinality(Pods)
  <2>1. Owing(k) \cup Prospects(k) \in SUBSET Pods
    BY <1>1
  <2> QED
    BY <2>1, FS_Subset
<1> QED
  BY <1>3, <1>5, <1>6, <1>7

\* Once the store knows k, no lookup makes a pod a prospect any more.
LEMMA NoNewProspects ==
    ASSUME TypeOK, [Next]_vars, NEW k \in DOMAIN rows
    PROVE  /\ Prospects(k)' \subseteq Prospects(k)
           /\ \A p \in Pods : CallNotify(p) => p \notin Prospects(k)'
<1> USE DEF mail
<1>1. ASSUME NEW p \in Pods, Step(p), NEW q \in Prospects(k)' PROVE q \in Prospects(k)
  <2>1. CASE q # p
    <3>1. UNCHANGED <<pc[q], out[q]>>
      BY <1>1, <2>1, OthersRest DEF Prospects
    <3> QED
      BY <1>1, <3>1 DEF Prospects
  <2>2. CASE q = p /\ (LookUp(p) \/ LookUpFails(p))
    <3>1. /\ pc[p] = "dedup" /\ todo[p] \in Seq(MatchedDeal) /\ todo[p] # << >>
          /\ out[p] \in Seq(MatchedDeal)
      BY <2>2 DEF LookUp, LookUpFails, Visiting, TypeOK, PodsTyped, TodoType
    <3> DEFINE m == Head(todo[p])
               s == out[p]
    <3>2. \/ out'[p] = s
          \/ out'[p] = Append(s, m) /\ Key(m.deal) # k
      BY <2>2 DEF LookUp, LookUpFails, Keep, IsNew, TypeOK, PodsTyped
    <3>3. m \in MatchedDeal
      BY <3>1, HeadTailProperties
    <3>4. k \in KeysIn(out'[p])
      BY <1>1, <2>2 DEF Prospects
    <3>5. k \in KeysIn(s)
      <4>1. CASE out'[p] = Append(s, m) /\ Key(m.deal) # k
        <5>1. \A i \in DOMAIN Append(s, m) :
                 (i \in DOMAIN s /\ Append(s, m)[i] = s[i]) \/ Append(s, m)[i] = m
          BY <3>1, <3>3, AppendElements
        <5>2. PICK i \in DOMAIN Append(s, m) : k = Key(Append(s, m)[i].deal)
          BY <3>4, <4>1 DEF KeysIn
        <5> QED
          BY <4>1, <5>1, <5>2 DEF KeysIn
      <4> QED
        BY <3>2, <3>4, <4>1
    <3> QED
      BY <2>2, <3>1, <3>5 DEF Prospects
  <2>3. CASE q = p /\ EndOfLoop(p)
    <3>1. out'[p] = << >>
      BY <2>3 DEF EndOfLoop, NextStage, TypeOK, PodsTyped
    <3> QED
      BY <1>1, <2>3, <3>1 DEF Prospects, KeysIn
  <2>4. CASE q = p /\ ~LookUp(p) /\ ~LookUpFails(p) /\ ~EndOfLoop(p)
    <3>1. pc'[p] # "dedup"
      BY <1>1, <2>4
      DEF Step, FetchDeals, FetchDealsFails, FilterCandidate, EnrichOne, EnrichFails,
          NothingFresh, CallNotify, NotifyReturnsNil, NotifyFails, Mark, MarkFails,
          PruneOff, PruneOld, PruneFails, Visiting, Exit, Goto, TypeOK, PodsTyped
    <3> QED
      BY <1>1, <2>4, <3>1 DEF Prospects
  <2> QED
    BY <2>1, <2>2, <2>3, <2>4
<1>2. ASSUME NEW p \in Pods, StartRun(p) \/ StartRunFails(p) \/ Signal(p) \/ Kill(p)
      PROVE  Prospects(k)' \subseteq Prospects(k)
  BY <1>2
  DEF StartRun, StartRunFails, Signal, Kill, Exit, Goto, Prospects, KeysIn, TypeOK, PodsTyped
<1>3. ASSUME UNCHANGED <<pc, out>> PROVE Prospects(k)' \subseteq Prospects(k)
  BY <1>3 DEF Prospects
<1>4. CASE Tick \/ UNCHANGED vars \/ \E d \in inflight : Accept(d) \/ Lose(d)
  <2>1. UNCHANGED <<pc, out>>
    BY <1>4 DEF Tick, vars, Accept, Lose
  <2>2. \A p \in Pods : ~CallNotify(p)
    BY <2>1 DEF CallNotify, Goto, TypeOK, PodsTyped
  <2> QED
    BY <1>3, <2>1, <2>2
<1>5. \A p \in Pods : CallNotify(p) => p \notin Prospects(k)'
  BY DEF CallNotify, Goto, Prospects, TypeOK, PodsTyped
<1> QED
  BY <1>1, <1>2, <1>4, <1>5 DEF Next

-----------------------------------------------------------------------------
(* Repeats, with pods that overlap: windows of one expiry.                 *)

\* The row of k was marked with a time of the current window.
Live(k) == k \in DOMAIN rows /\ ExpiriesBy(rows[k].notifiedAt) = ExpiriesBy(now)

\* Pods whose mark of k is still to come and brings a time of an earlier window.
Late(k) ==
    {p \in Pods : /\ pc[p] = "persist" /\ ~ctxDone[p] /\ k \in KeysIn(todo[p])
                  /\ ExpiriesBy(markAt[p]) < ExpiriesBy(now)}

\* What s late marks can cost in the current window.
Reruns(s) == (s * (2 * Cardinality(Pods) - s + 1)) \div 2

(***************************************************************************)
(* While no row of this window stands, every announcement of the window is *)
(* still owed; once one stands, only the prospects can announce again.     *)
(* A late mark takes the row back and lets all other pods announce again.  *)
(***************************************************************************)
WindowInv(k) ==
    /\ ~Live(k) =>
          Cardinality(Sent(k)) + Reruns(Cardinality(Late(k)))
             <= RepeatsPerExpiry * ExpiriesBy(now) + Debt(k)
    /\ Live(k) =>
          Cardinality(Sent(k)) + Cardinality(Prospects(k)) + Reruns(Cardinality(Late(k)))
             <= Cardinality(Pods) + RepeatsPerExpiry * ExpiriesBy(now) + Credit

OverlapInv ==
    /\ IsFiniteSet(Mails)
    /\ \A p \in Pods : KeysOnce(p) \/ RetentionDays < 0
    /\ \A k \in DOMAIN rows : rows[k].notifiedAt <= now
    /\ \A p \in Pods : pc[p] = "persist" => markAt[p] <= now
    /\ \A k \in DealKey : WindowInv(k)

LEMMA HalfOf ==
    ASSUME NEW a \in Int, NEW b \in Int
    PROVE  /\ a \div 2 \in Int
           /\ a <= b => a \div 2 <= b \div 2
           /\ \A c \in Int : a = b + 2 * c => a \div 2 = b \div 2 + c
OBVIOUS

LEMMA ProductSign == ASSUME NEW a \in Nat, NEW b \in Nat PROVE a * b \in Nat
OBVIOUS

LEMMA RerunsAddUp ==
    ASSUME IsFiniteSet(Pods), ConcurrencyPolicy # "Forbid"
    PROVE  /\ RepeatsPerExpiry \in Nat /\ Reruns(0) = 0
           /\ \A s \in 0 .. Cardinality(Pods) :
                 /\ Reruns(s) \in Nat
                 /\ Reruns(s) + Cardinality(Pods) - s <= RepeatsPerExpiry
                 /\ s > 0 => Reruns(s) = Reruns(s - 1) + Cardinality(Pods) - s + 1
                 /\ \A t \in 0 .. s : Reruns(t) <= Reruns(s)
<1> DEFINE n == Cardinality(Pods)
           area(s) == s * (2 * n - s + 1)
<1>1. n \in Nat
  BY FS_CardinalityType
<1>2. RepeatsPerExpiry = (n * (n + 1)) \div 2 /\ \A s : Reruns(s) = area(s) \div 2
  BY DEF RepeatsPerExpiry, PodsTogether, Reruns
<1> HIDE DEF n
<1>3. \A s \in Int : area(s) \in Int
  BY <1>1
<1>4. ASSUME NEW s \in 0 .. n, NEW t \in 0 .. s PROVE area(t) <= area(s)
  <2>1. s - t \in Nat /\ 2 * n + 1 - s - t \in Nat
    BY <1>1
  <2>2. (s - t) * (2 * n + 1 - s - t) \in Nat
    BY <2>1, ProductSign
  <2>3. area(s) = area(t) + (s - t) * (2 * n + 1 - s - t)
    BY <1>1
  <2> QED
    BY <1>3, <2>2, <2>3
<1>5. ASSUME NEW s \in 0 .. n PROVE area(s) + 2 * (n - s) <= n * (n + 1)
  <2> DEFINE d == n - s
  <2>1. d \in Nat
    BY <1>1
  <2>2. d * (d - 1) \in Nat
    <3>1. CASE d = 0
      BY <3>1
    <3>2. CASE d # 0
      <4>1. d - 1 \in Nat
        BY <2>1, <3>2
      <4> HIDE DEF d
      <4> QED
        BY <2>1, <4>1, ProductSign
    <3> QED
      BY <3>1, <3>2
  <2>3. n * (n + 1) = area(s) + 2 * (n - s) + d * (d - 1)
    BY <1>1
  <2>4. area(s) \in Int /\ n - s \in Int
    BY <1>1, <1>3
  <2> HIDE DEF d, area
  <2> QED
    BY <2>2, <2>3, <2>4
<1>6. ASSUME NEW s \in 0 .. n, s > 0 PROVE area(s) = area(s - 1) + 2 * (n - s + 1)
  BY <1>1, <1>6
<1>7. area(0) = 0 /\ n * (n + 1) \in Nat
  BY <1>1
<1> HIDE DEF area
<1>8. Reruns(0) = 0 /\ RepeatsPerExpiry \in Nat
  BY <1>2, <1>7
<1>9. ASSUME NEW s \in 0 .. n
      PROVE  /\ Reruns(s) \in Nat
             /\ Reruns(s) + n - s <= RepeatsPerExpiry
             /\ s > 0 => Reruns(s) = Reruns(s - 1) + n - s + 1
             /\ \A t \in 0 .. s : Reruns(t) <= Reruns(s)
  <2>1. s \in Int /\ s - 1 \in Int /\ n - s \in Int /\ n - s + 1 \in Int /\ 0 \in 0 .. s
    BY <1>1
  <2>2. \A t \in 0 .. s : Reruns(t) <= Reruns(s)
    <3> SUFFICES ASSUME NEW t \in 0 .. s PROVE Reruns(t) <= Reruns(s)
      OBVIOUS
    <3>1. area(t) \in Int /\ area(s) \in Int /\ area(t) <= area(s)
      BY <1>3, <1>4
    <3> QED
      BY <1>2, <3>1, HalfOf
  <2>3. Reruns(s) \in Nat
    <3>1. Reruns(s) \in Int /\ Reruns(0) <= Reruns(s)
      BY <1>2, <1>3, <2>1, <2>2, HalfOf
    <3> QED
      BY <1>8, <3>1
  <2>4. s > 0 => Reruns(s) = Reruns(s - 1) + n - s + 1
    <3>1. s > 0 => area(s) \div 2 = area(s - 1) \div 2 + (n - s + 1)
      BY <1>3, <1>6, <2>1, HalfOf
    <3>2. area(s - 1) \div 2 \in Int
      BY <1>3, <2>1, HalfOf
    <3> QED
      BY <1>1, <1>2, <3>1, <3>2
  <2>5. Reruns(s) + n - s <= RepeatsPerExpiry
    <3> DEFINE big == area(s) + 2 * (n - s)
    <3>1. big \in Int /\ area(s) \in Int /\ n * (n + 1) \in Int /\ big <= n * (n + 1)
      BY <1>3, <1>5, <1>7, <2>1
    <3>2. big \div 2 = area(s) \div 2 + (n - s)
      BY <2>1, <3>1, HalfOf
    <3>3. big \div 2 <= (n * (n + 1)) \div 2
      <4> HIDE DEF big
      <4> QED
        BY <3>1, HalfOf
    <3> QED
      BY <1>1, <1>2, <2>3, <3>2, <3>3
  <2> QED
    BY <2>2, <2>3, <2>4, <2>5
<1> QED
  BY <1>8, <1>9 DEF n

\* A late pod still owes its mark, so the late ones are among those that do.
LEMMA WindowCounts ==
    ASSUME IsFiniteSet(Pods), ConcurrencyPolicy # "Forbid", NEW k
    PROVE  /\ DeliveredInv =>
                 /\ IsFiniteSet(Late(k)) /\ Cardinality(Late(k)) \in 0 .. Cardinality(Owing(k))
                 /\ Cardinality(Owing(k)) \in 0 .. Cardinality(Pods)
                 /\ Reruns(Cardinality(Late(k))) \in Nat
           /\ DeliveredInv' =>
                 /\ Cardinality(Late(k)') \in 0 .. Cardinality(Owing(k)')
                 /\ Cardinality(Owing(k)') \in 0 .. Cardinality(Pods)
                 /\ Reruns(Cardinality(Late(k)')) \in Nat
<1>1. /\ Owing(k) \subseteq Pods /\ Owing(k)' \subseteq Pods
      /\ Late(k) \subseteq Pods /\ Late(k)' \subseteq Pods
  BY DEF Owing, Late
<1>2. /\ IsFiniteSet(Owing(k)) /\ IsFiniteSet(Owing(k)')
      /\ IsFiniteSet(Late(k)) /\ IsFiniteSet(Late(k)')
  BY <1>1, FS_Subset
<1>3. /\ Cardinality(Owing(k)) \in Nat /\ Cardinality(Owing(k)') \in Nat
      /\ Cardinality(Late(k)) \in Nat /\ Cardinality(Late(k)') \in Nat
      /\ Cardinality(Pods) \in Nat
  BY <1>2, FS_CardinalityType
<1>4. Cardinality(Owing(k)) <= Cardinality(Pods) /\ Cardinality(Owing(k)') <= Cardinality(Pods)
  BY <1>1, FS_Subset
<1>5. DeliveredInv => Late(k) \subseteq Owing(k)
  BY DEF DeliveredInv, MarksItsDigest, Lists, Late, Owing, Owes, KeysIn, KeysOf
<1>6. DeliveredInv' => Late(k)' \subseteq Owing(k)'
  BY DEF DeliveredInv, MarksItsDigest, Lists, Late, Owing, Owes, KeysIn, KeysOf
<1>7. /\ DeliveredInv => Cardinality(Late(k)) <= Cardinality(Owing(k))
      /\ DeliveredInv' => Cardinality(Late(k)') <= Cardinality(Owing(k)')
  BY <1>2, <1>5, <1>6, FS_Subset
<1>8. /\ DeliveredInv => Cardinality(Late(k)) \in 0 .. Cardinality(Pods)
      /\ DeliveredInv' => Cardinality(Late(k)') \in 0 .. Cardinality(Pods)
  BY <1>3, <1>4, <1>7
<1> QED
  BY <1>2, <1>3, <1>4, <1>7, <1>8, RerunsAddUp

\* Whatever window it is and whatever the store and the pods answer for.
LEMMA WindowBound ==
    ASSUME IsFiniteSet(Pods), ConcurrencyPolicy # "Forbid", TypeOK, DeliveredInv,
           IsFiniteSet(Mails), NEW k, WindowInv(k)
    PROVE  Cardinality(Sent(k)) <= Cardinality(Pods) + RepeatsPerExpiry * ExpiriesBy(now) + Credit
<1> DEFINE n == Cardinality(Sent(k))
           a == Cardinality(Prospects(k))
           o == Cardinality(Owing(k))
           r == Reruns(Cardinality(Late(k)))
           all == Cardinality(Pods)
           paid == RepeatsPerExpiry * ExpiriesBy(now)
           c == Credit
<1>1. /\ a \in Nat /\ o \in Nat /\ all \in Nat /\ o + a <= all
      /\ r \in Nat /\ c \in Int /\ Debt(k) = o + c /\ n \in Nat
  BY ProspectsOweNothing, WindowCounts, DebtType, AcceptedWasSent
<1>2. paid \in Nat
  <2>1. RepeatsPerExpiry \in Nat /\ ExpiriesBy(now) \in Nat
    BY RerunsAddUp, ExpiriesGrow DEF TypeOK, CountersTyped
  <2> QED
    BY <2>1, ProductSign
<1>3. n + r <= paid + Debt(k) \/ n + a + r <= all + paid + c
  BY DEF WindowInv
<1> HIDE DEF n, a, o, r, all, paid, c
<1>4. n <= all + paid + c
  BY <1>1, <1>2, <1>3
<1> QED
  BY <1>4 DEF n, all, paid, c

\* When a window ends, no row is of the new one and every mark to come is late.
LEMMA TickKeepsWindow ==
    ASSUME IsFiniteSet(Pods), ConcurrencyPolicy # "Forbid", TypeOK, TypeOK', DeliveredInv,
           DeliveredInv', OverlapInv, Tick, ExpiriesBy(now) < ExpiriesBy(now'),
           NEW k \in DealKey
    PROVE  WindowInv(k)'
<1> USE DEF mail
<1> DEFINE E == ExpiriesBy(now)
           EE == ExpiriesBy(now')
           M == RepeatsPerExpiry
           n == Cardinality(Sent(k))
           o == Cardinality(Owing(k))
           all == Cardinality(Pods)
           c == Credit
<1>1. /\ Sent(k)' = Sent(k) /\ Owing(k)' = Owing(k) /\ Credit' = Credit
      /\ rows' = rows /\ ExpiriesBy(now)' = EE
  BY DEF Tick, Sent, Mails, Owing, Owes, Credit, Cancelled, ExpiriesBy
<1>2. /\ o \in 0 .. all /\ all \in Nat /\ c \in Int /\ n \in Nat /\ M \in Nat
      /\ Cardinality(Late(k)') \in 0 .. o
  BY <1>1, WindowCounts, ProspectsOweNothing, DebtType, AcceptedWasSent, RerunsAddUp DEF OverlapInv
<1>3. E \in Nat /\ EE \in Nat /\ E + 1 <= EE
  BY ExpiriesGrow DEF TypeOK, CountersTyped
<1>4. ~Live(k)'
  <2>1. SUFFICES ASSUME k \in DOMAIN rows, ExpiriesBy(rows[k].notifiedAt) = EE PROVE FALSE
    BY <1>1 DEF Live, ExpiriesBy
  <2>2. rows[k].notifiedAt \in Nat /\ now \in Nat /\ rows[k].notifiedAt <= now
    BY <2>1 DEF TypeOK, RowsTyped, Row, CountersTyped, OverlapInv
  <2>3. ExpiriesBy(rows[k].notifiedAt) <= E
    BY <2>2, ExpiriesGrow
  <2> QED
    BY <1>3, <2>1, <2>3
<1>5. Reruns(Cardinality(Late(k)')) + all - o <= M /\ Reruns(Cardinality(Late(k)')) \in Nat
  <2>1. /\ Reruns(Cardinality(Late(k)')) <= Reruns(o) /\ Reruns(o) + all - o <= M
        /\ Reruns(Cardinality(Late(k)')) \in Nat /\ Reruns(o) \in Nat
    BY <1>2, RerunsAddUp, WindowCounts
  <2> QED
    BY <1>2, <2>1
<1>6. n <= all + M * E + c
  BY WindowBound DEF OverlapInv
<1>7. M * E + M <= M * EE /\ M * E \in Nat /\ M * EE \in Nat
  <2>1. EE - E - 1 \in Nat
    BY <1>3
  <2>2. M * (EE - E - 1) \in Nat /\ M * E \in Nat /\ M * EE \in Nat
    BY <1>2, <1>3, <2>1, ProductSign
  <2>3. M * EE = M * E + M + M * (EE - E - 1)
    BY <1>2, <1>3
  <2> HIDE DEF E, EE, M
  <2> QED
    BY <1>2, <2>2, <2>3
<1> DEFINE rr == Reruns(Cardinality(Late(k)'))
           before == M * E
           after == M * EE
<1>8. n + rr <= after + o + c
  <2>1. /\ before + M <= after /\ before \in Nat /\ after \in Nat
        /\ n <= all + before + c /\ rr + all - o <= M /\ rr \in Nat
    BY <1>5, <1>6, <1>7
  <2> HIDE DEF rr, before, after, n, o, all, c, M
  <2> QED
    BY <1>2, <2>1
<1>9. Debt(k)' = o + c
  BY <1>1, DebtType
<1>10. WindowInv(k)' <=> Cardinality(Sent(k)') + Reruns(Cardinality(Late(k)'))
                            <= RepeatsPerExpiry * ExpiriesBy(now)' + Debt(k)'
  BY <1>4 DEF WindowInv, Reruns, RepeatsPerExpiry, PodsTogether
<1>11. rr = Reruns(Cardinality(Late(k)')) /\ after = RepeatsPerExpiry * ExpiriesBy(now)'
  BY <1>1
<1> HIDE DEF rr, after
<1>12. n + rr <= after + (o + c)
  BY <1>2, <1>7, <1>5, <1>8, <1>11
<1> QED
  BY <1>1, <1>9, <1>10, <1>11, <1>12

LEMMA LateShrinks ==
    ASSUME TypeOK, [Next]_vars, ExpiriesBy(now') = ExpiriesBy(now), NEW k
    PROVE  Late(k)' \subseteq Late(k)
<1> SUFFICES ASSUME NEW q \in Late(k)' PROVE q \in Late(k)
  OBVIOUS
<1>1. /\ q \in Pods /\ pc'[q] = "persist" /\ ~ctxDone'[q] /\ k \in KeysIn(todo'[q])
      /\ ExpiriesBy(markAt'[q]) < ExpiriesBy(now)
  BY DEF Late, ExpiriesBy, KeysIn
<1>2. ExpiriesBy(now) \in Nat
  BY ExpiriesGrow DEF TypeOK, CountersTyped
<1>3. markAt'[q] # now
  BY <1>1, <1>2
<1>4. /\ pc[q] = "persist" /\ markAt'[q] = markAt[q] /\ ~ctxDone[q]
      /\ k \in KeysIn(todo[q])
  BY <1>1, <1>3, NextPersist
<1> QED
  BY <1>1, <1>4 DEF Late

\* Only a mark changes whether the row is of this window.
LEMMA LiveStays ==
    ASSUME Persistent, RetentionDays * Day <= HalfRange, TypeOK, OverlapInv, [Next]_vars,
           ExpiriesBy(now') = ExpiriesBy(now), NEW k,
           \A p \in Pods : ~(Mark(p) /\ k = Key(Head(todo[p]).deal))
    PROVE  Live(k)' <=> Live(k)
<1>1. ASSUME k \in DOMAIN rows, rows'[k] = rows[k], k \in DOMAIN rows' PROVE Live(k)' <=> Live(k)
  BY <1>1 DEF Live, ExpiriesBy
<1>2. CASE UNCHANGED rows \/ \E p \in Pods : Mark(p)
  <2>1. k \in DOMAIN rows <=> k \in DOMAIN rows'
    BY <1>2 DEF Mark, MarkSeen
  <2>2. k \in DOMAIN rows => rows'[k] = rows[k]
    BY <1>2 DEF Mark, MarkSeen
  <2> QED
    BY <1>1, <2>1, <2>2 DEF Live
<1>3. ASSUME NEW p \in Pods, PruneOld(p) PROVE Live(k)' <=> Live(k)
  <2>1. DOMAIN rows' \subseteq DOMAIN rows /\ \A j \in DOMAIN rows' : rows'[j] = rows[j]
    BY <1>3, StoreShrinks DEF PruneOld
  <2>2. ASSUME k \in DOMAIN rows \ DOMAIN rows' PROVE ~Live(k)
    <3> DEFINE t == rows[k].notifiedAt
    <3>1. t \in Nat /\ now \in Nat /\ t <= now
      BY <2>2 DEF TypeOK, RowsTyped, Row, CountersTyped, OverlapInv
    <3>2. RetentionDays > 0 /\ now - t > RetentionDays * Day
      BY <1>3, <2>2, PrunedIsOld
    <3>3. ExpiriesBy(t) \in Nat /\ ExpiriesBy(t) + 1 <= ExpiriesBy(now)
      BY <3>1, <3>2, ExpiriesGrow
    <3>4. ExpiriesBy(now) \in Nat
      BY <3>1, ExpiriesGrow
    <3> QED
      BY <3>3, <3>4 DEF Live
  <2> QED
    BY <1>1, <2>1, <2>2 DEF Live
<1> QED
  BY <1>2, <1>3, NextRows

\* A step that does not mark k sends it at most as its pod's debt or as a
\* prospect of this window.
LEMMA OthersKeepWindow ==
    ASSUME IsFiniteSet(Pods), ConcurrencyPolicy = "Allow", Persistent,
           RetentionDays * Day <= HalfRange, TypeOK, TypeOK', DeliveredInv, DeliveredInv',
           OverlapInv, [Next]_vars, ExpiriesBy(now') = ExpiriesBy(now), NEW k \in DealKey,
           \A p \in Pods : ~(Mark(p) /\ k = Key(Head(todo[p]).deal))
    PROVE  WindowInv(k)'
<1> DEFINE n == Cardinality(Sent(k))
           nn == Cardinality(Sent(k)')
           a == Cardinality(Prospects(k))
           aa == Cardinality(Prospects(k)')
           r == Reruns(Cardinality(Late(k)))
           rr == Reruns(Cardinality(Late(k)'))
           all == Cardinality(Pods)
           paid == RepeatsPerExpiry * ExpiriesBy(now)
           c == Credit
           cc == Credit'
           d == Debt(k)
           dd == Debt(k)'
<1>1. WindowInv(k) /\ IsFiniteSet(Mails)
  BY DEF OverlapInv
<1>2. /\ n \in Nat /\ nn \in Nat /\ a \in Nat /\ aa \in Nat /\ all \in Nat /\ r \in Nat /\ rr \in Nat
      /\ c \in Int /\ cc \in Int /\ c <= cc /\ d \in Int /\ dd \in Int /\ d <= dd
  BY <1>1, SentGrows, ProspectsOweNothing, WindowCounts, DebtType, NextPays
<1>3. rr <= r
  <2>1. Cardinality(Late(k)') <= Cardinality(Late(k))
    BY LateShrinks, WindowCounts, FS_Subset
  <2>2. /\ Cardinality(Late(k)) \in 0 .. all /\ Cardinality(Late(k)') \in 0 .. Cardinality(Late(k))
    BY <1>2, <2>1, WindowCounts
  <2> QED
    BY <2>2, RerunsAddUp
<1>4. paid \in Nat
  <2>1. RepeatsPerExpiry \in Nat /\ ExpiriesBy(now) \in Nat
    BY RerunsAddUp, ExpiriesGrow DEF TypeOK, CountersTyped
  <2> QED
    BY <2>1, ProductSign
<1>5. ASSUME ~Live(k) PROVE nn + rr <= paid + dd
  <2>1. n + r <= paid + d
    BY <1>1, <1>5 DEF WindowInv
  <2>2. ASSUME NEW p \in Pods, CallNotify(p), k \in KeysIn(out[p]), nn <= n + 1
        PROVE  nn + rr <= paid + dd
    <3>1. dd = d + 1
      BY <2>2, NotifyOwes
    <3> HIDE DEF n, nn, r, rr, paid, d, dd
    <3> QED
      BY <1>2, <1>3, <1>4, <2>1, <2>2, <3>1
  <2>3. CASE nn <= n
    <3> HIDE DEF n, nn, r, rr, paid, d, dd
    <3> QED
      BY <1>2, <1>3, <1>4, <2>1, <2>3
  <2> QED
    BY <1>1, <2>2, <2>3, SentGrows
<1>6. ASSUME Live(k) PROVE nn + aa + rr <= all + paid + cc
  <2>1. n + a + r <= all + paid + c
    BY <1>1, <1>6 DEF WindowInv
  <2>2. /\ Prospects(k)' \subseteq Prospects(k) /\ IsFiniteSet(Prospects(k))
        /\ \A p \in Pods : CallNotify(p) => p \notin Prospects(k)'
    BY <1>6, NoNewProspects, FS_Subset DEF Live, Prospects
  <2>3. nn + aa <= n + a
    <3>1. ASSUME NEW p \in Pods, CallNotify(p), k \in KeysIn(out[p]), nn <= n + 1
          PROVE  nn + aa <= n + a
      <4>1. p \in Prospects(k) /\ Prospects(k)' \subseteq Prospects(k) \ {p}
        BY <2>2, <3>1 DEF CallNotify, Prospects
      <4>2. IsFiniteSet(Prospects(k) \ {p}) /\ Cardinality(Prospects(k) \ {p}) = a - 1
        BY <2>2, <4>1, FS_RemoveElement
      <4>3. aa <= a - 1
        BY <4>1, <4>2, FS_Subset
      <4> HIDE DEF n, nn, a, aa
      <4> QED
        BY <1>2, <3>1, <4>3
    <3>2. CASE nn <= n
      <4>1. aa <= a
        BY <2>2, FS_Subset
      <4> HIDE DEF n, nn, a, aa
      <4> QED
        BY <1>2, <3>2, <4>1
    <3> QED
      BY <1>1, <3>1, <3>2, SentGrows
  <2> HIDE DEF n, nn, a, aa, r, rr, all, paid, c, cc
  <2> QED
    BY <1>2, <1>3, <1>4, <2>1, <2>3
<1>7. Live(k)' <=> Live(k)
  BY LiveStays
<1>8. paid = RepeatsPerExpiry * ExpiriesBy(now)'
  BY DEF ExpiriesBy
<1>9. /\ ~Live(k)' => nn + rr <= RepeatsPerExpiry * ExpiriesBy(now)' + dd
      /\ Live(k)' => nn + aa + rr <= all + RepeatsPerExpiry * ExpiriesBy(now)' + cc
  BY <1>5, <1>6, <1>7, <1>8
<1> QED
  BY <1>9 DEF WindowInv, Reruns, RepeatsPerExpiry, PodsTogether

\* A mark of k from this window leaves the prospects to announce it; a late
\* one uses itself up.
LEMMA MarkKeepsWindow ==
    ASSUME IsFiniteSet(Pods), ConcurrencyPolicy = "Allow", TypeOK, TypeOK', DeliveredInv,
           DeliveredInv', OverlapInv, NEW k \in DealKey,
           NEW p \in Pods, Mark(p), k = Key(Head(todo[p]).deal)
    PROVE  WindowInv(k)'
<1> USE DEF mail
<1> DEFINE E == ExpiriesBy(now)
           n == Cardinality(Sent(k))
           a == Cardinality(Prospects(k))
           o == Cardinality(Owing(k))
           oo == Cardinality(Owing(k)')
           l == Cardinality(Late(k))
           r == Reruns(l)
           rr == Reruns(Cardinality(Late(k)'))
           all == Cardinality(Pods)
           paid == RepeatsPerExpiry * ExpiriesBy(now)
           c == Credit
           cc == Credit'
<1>1. /\ WindowInv(k) /\ IsFiniteSet(Mails) /\ [Next]_vars
      /\ UNCHANGED <<now, pc, out, inflight, inbox, ctxDone, markAt, digest>>
      /\ pc[p] = "persist" /\ ~ctxDone[p] /\ k \in KeysIn(todo[p])
      /\ todo[p] \in Seq(MatchedDeal) /\ todo[p] # << >>
      /\ todo' = [todo EXCEPT ![p] = Tail(todo[p])]
      /\ k \in DOMAIN rows' /\ rows'[k].notifiedAt = markAt[p]
  <2>1. todo[p] \in Seq(MatchedDeal) /\ todo[p] # << >>
    BY DEF Mark, Visiting, TypeOK, PodsTyped, TodoType
  <2> QED
    BY <2>1, TailKeys DEF OverlapInv, Next, Step, Mark, MarkSeen, Succeeds, Visiting
<1>2. Sent(k)' = Sent(k) /\ Prospects(k)' = Prospects(k)
  BY <1>1 DEF Sent, Mails, Prospects
<1>3. /\ n \in Nat /\ a \in Nat /\ o \in 0 .. all /\ o + a <= all /\ all \in Nat
      /\ l \in 0 .. o /\ r \in Nat /\ rr \in Nat /\ oo \in Nat
      /\ c \in Int /\ cc \in Int /\ c <= cc /\ Debt(k) = o + c /\ Debt(k)' = oo + cc
  BY <1>1, AcceptedWasSent, ProspectsOweNothing, WindowCounts, DebtType, NextPays
<1>4. paid \in Nat /\ E \in Nat
  <2>1. RepeatsPerExpiry \in Nat /\ E \in Nat
    BY RerunsAddUp, ExpiriesGrow DEF TypeOK, CountersTyped
  <2> QED
    BY <2>1, ProductSign
<1>5. ExpiriesBy(markAt[p]) \in Nat /\ ExpiriesBy(markAt[p]) <= E
  <2>1. markAt[p] \in Nat /\ now \in Nat /\ markAt[p] <= now
    BY <1>1 DEF TypeOK, PodsTyped, CountersTyped, OverlapInv
  <2> QED
    BY <2>1, ExpiriesGrow
<1>6. oo >= o - 1
  <2>1. Owing(k) \ {p} \subseteq Owing(k)'
    BY <1>1 DEF Owing, Owes, TypeOK, PodsTyped
  <2>2. IsFiniteSet(Owing(k)) /\ IsFiniteSet(Owing(k)')
    BY FS_Subset DEF Owing
  <2>3. Cardinality(Owing(k) \ {p}) \in Nat /\ Cardinality(Owing(k) \ {p}) >= o - 1
    <3>1. /\ o \in Nat /\ Cardinality(Owing(k) \ {p}) \in Nat
          /\ o = Cardinality(Owing(k) \ {p}) + Bit(p \in Owing(k))
      BY <2>2, CountWithout
    <3>2. Bit(p \in Owing(k)) \in 0 .. 1
      BY DEF Bit
    <3> HIDE DEF o
    <3> QED
      BY <3>1, <3>2
  <2>4. Cardinality(Owing(k) \ {p}) <= oo
    BY <2>1, <2>2, FS_Subset
  <2> QED
    BY <1>3, <2>3, <2>4
<1>7. Late(k)' \subseteq Late(k) /\ rr <= r
  <2>1. Late(k)' \subseteq Late(k)
    BY <1>1, LateShrinks
  <2>2. Cardinality(Late(k)') <= l
    BY <2>1, WindowCounts, FS_Subset
  <2>3. l \in 0 .. all /\ Cardinality(Late(k)') \in 0 .. l
    BY <1>3, <2>2, WindowCounts
  <2> QED
    BY <2>1, <2>3, RerunsAddUp
<1>8. CASE ExpiriesBy(markAt[p]) = E
  <2>1. Live(k)'
    BY <1>1, <1>8 DEF Live, ExpiriesBy
  <2>2. n + r <= paid + (o + c) \/ n + a + r <= all + paid + c
    BY <1>1, <1>3 DEF WindowInv
  <2>3. n + a + rr <= all + paid + cc
    <3> HIDE DEF n, a, o, r, rr, all, paid, c, cc
    <3> QED
      BY <1>3, <1>4, <1>7, <2>2
  <2>4. paid = RepeatsPerExpiry * ExpiriesBy(now)'
    BY <1>1 DEF ExpiriesBy
  <2>5. Cardinality(Sent(k)') + Cardinality(Prospects(k)') + Reruns(Cardinality(Late(k)'))
           <= Cardinality(Pods) + RepeatsPerExpiry * ExpiriesBy(now)' + Credit'
    BY <1>2, <2>3, <2>4
  <2> QED
    BY <2>1, <2>5 DEF WindowInv, Reruns, RepeatsPerExpiry, PodsTogether
<1>9. CASE ExpiriesBy(markAt[p]) < E
  <2>1. ~Live(k)'
    BY <1>1, <1>4, <1>5, <1>9 DEF Live, ExpiriesBy
  <2>2. p \in Late(k)
    BY <1>1, <1>9 DEF Late
  <2>3. p \notin Late(k)'
    <3>1. RetentionDays >= 0
      BY <1>9, RunnerAssumption DEF ExpiriesBy, SetNumber
    <3>2. NamedOnce(MatchKey, todo[p], out[p])
      BY <1>1, <3>1, RunnerAssumption DEF OverlapInv, KeysOnce, TodoKey, SetNumber
    <3>3. k \notin KeysIn(Tail(todo[p]))
      <4> SUFFICES ASSUME NEW i \in DOMAIN Tail(todo[p]), Key(Tail(todo[p])[i].deal) = k
                   PROVE  FALSE
        BY DEF KeysIn
      <4>1. /\ 1 \in DOMAIN todo[p] /\ Head(todo[p]) = todo[p][1]
            /\ i + 1 \in DOMAIN todo[p] /\ Tail(todo[p])[i] = todo[p][i + 1]
            /\ i \in Nat \ {0}
        BY <1>1, TailElements, HeadTailProperties, LenProperties
      <4>2. todo[p][1] \in MatchedDeal /\ todo[p][i + 1] \in MatchedDeal
        BY <1>1, <4>1, ElementOfSeq, LenProperties
      <4>3. MatchKey[todo[p][1]] = k /\ MatchKey[todo[p][i + 1]] = k
        BY <4>1, <4>2 DEF MatchKey
      <4>4. i + 1 = 1
        BY <3>2, <4>1, <4>3 DEF NamedOnce
      <4> QED
        BY <4>1, <4>4
    <3> QED
      BY <1>1, <3>3 DEF Late, TypeOK, PodsTyped
  <2>4. rr <= Reruns(l - 1) /\ l > 0
    <3>1. /\ IsFiniteSet(Late(k)) /\ IsFiniteSet(Late(k) \ {p})
          /\ Cardinality(Late(k) \ {p}) = l - 1 /\ l - 1 \in Nat
      <4>1. IsFiniteSet(Late(k))
        BY WindowCounts
      <4>2. IsFiniteSet(Late(k) \ {p}) /\ Cardinality(Late(k) \ {p}) = l - 1
        BY <2>2, <4>1, FS_RemoveElement
      <4>3. Cardinality(Late(k) \ {p}) \in Nat
        BY <4>2, FS_CardinalityType
      <4> HIDE DEF l
      <4> QED
        BY <4>1, <4>2, <4>3
    <3>2. Late(k)' \subseteq Late(k) \ {p}
      BY <1>7, <2>3
    <3>3. Cardinality(Late(k)') <= l - 1
      BY <3>1, <3>2, FS_Subset
    <3>4. l - 1 \in 0 .. all /\ Cardinality(Late(k)') \in 0 .. l - 1
      BY <1>3, <3>1, <3>3, WindowCounts
    <3> QED
      BY <1>3, <3>1, <3>4, RerunsAddUp
  <2>5. r = Reruns(l - 1) + all - l + 1 /\ Reruns(l - 1) \in Nat
    <3>1. l \in 0 .. all /\ l - 1 \in 0 .. all
      BY <1>3, <2>4
    <3> QED
      BY <2>4, <3>1, RerunsAddUp
  <2>6. n + r <= paid + (o + c) \/ n + a + r <= all + paid + c
    BY <1>1, <1>3 DEF WindowInv
  <2>7. n + rr <= paid + (oo + cc)
    <3> DEFINE s == Reruns(l - 1)
    <3>1. rr <= s /\ r = s + all - l + 1 /\ s \in Nat
      BY <2>4, <2>5
    <3> HIDE DEF n, a, o, oo, l, r, rr, s, all, paid, c, cc
    <3> QED
      BY <1>3, <1>4, <1>6, <2>6, <3>1
  <2>8. paid = RepeatsPerExpiry * ExpiriesBy(now)'
    BY <1>1 DEF ExpiriesBy
  <2>9. Cardinality(Sent(k)') + Reruns(Cardinality(Late(k)'))
           <= RepeatsPerExpiry * ExpiriesBy(now)' + Debt(k)'
    BY <1>2, <1>3, <2>7, <2>8
  <2> QED
    BY <2>1, <2>9 DEF WindowInv, Reruns, RepeatsPerExpiry, PodsTogether
<1> QED
  BY <1>4, <1>5, <1>8, <1>9

LEMMA NextKeepsOverlap ==
    ASSUME IsFiniteSet(Pods), ConcurrencyPolicy = "Allow", Persistent,
           RetentionDays * Day <= HalfRange, RetentionDays < 0 \/ ListingsNameKeysOnce,
           TypeOK, TypeOK', DeliveredInv, DeliveredInv', OverlapInv, [Next]_vars
    PROVE  OverlapInv'
<1>1. IsFiniteSet(Mails')
  BY SentGrows DEF OverlapInv
<1>2. \A p \in Pods : KeysOnce(p)' \/ RetentionDays < 0
  BY NextKeepsOnce DEF OverlapInv
<1>3. /\ now \in Nat /\ now' \in Nat /\ now <= now' /\ \A p \in Pods : markAt[p] \in Nat
      /\ \A k \in DOMAIN rows : rows[k].notifiedAt \in Nat /\ rows[k].notifiedAt <= now
  BY NextPersist DEF TypeOK, CountersTyped, PodsTyped, RowsTyped, Row, OverlapInv
<1>4. ASSUME NEW k \in DOMAIN rows' PROVE rows'[k].notifiedAt <= now'
  <2>1. CASE k \in DOMAIN rows /\ rows'[k] = rows[k]
    BY <1>3, <2>1
  <2>2. ASSUME NEW p \in Pods, Mark(p), k = Key(Head(todo[p]).deal)
        PROVE  rows'[k].notifiedAt <= now'
    <3>1. rows'[k].notifiedAt = markAt[p] /\ pc[p] = "persist"
      BY <2>2 DEF Mark, MarkSeen, Visiting
    <3> QED
      BY <1>3, <3>1 DEF OverlapInv
  <2> QED
    BY <1>4, <2>1, <2>2, NextRows DEF Mark, MarkSeen, PruneOld, Prune
<1>5. ASSUME NEW p \in Pods, pc'[p] = "persist" PROVE markAt'[p] <= now'
  BY <1>3, <1>5, NextPersist DEF OverlapInv
<1>6. ASSUME NEW k \in DealKey PROVE WindowInv(k)'
  <2>1. ExpiriesBy(now) \in Nat /\ ExpiriesBy(now') \in Nat /\ ExpiriesBy(now) <= ExpiriesBy(now')
    BY <1>3, ExpiriesGrow
  <2>2. ASSUME NEW p \in Pods, Mark(p), k = Key(Head(todo[p]).deal) PROVE WindowInv(k)'
    BY <2>2, MarkKeepsWindow
  <2>3. CASE ExpiriesBy(now) < ExpiriesBy(now')
    <3>1. Tick
      BY <2>1, <2>3, NextTick
    <3> QED
      BY <2>3, <3>1, TickKeepsWindow
  <2>4. CASE ExpiriesBy(now') = ExpiriesBy(now)
    BY <2>2, <2>4, OthersKeepWindow
  <2> QED
    BY <2>1, <2>3, <2>4
<1> QED
  BY <1>1, <1>2, <1>4, <1>5, <1>6 DEF OverlapInv

(***************************************************************************)
(* With policy Allow a deal is announced at most once per pod that can     *)
(* look it up before another one's mark (runner.go:152-182), once more per *)
(* fault, and per retention that has passed as often as pods with late     *)
(* marks allow, for any number of deals, pods, faults and runs: whether    *)
(* nothing is pruned or the shop's listing names no key twice.             *)
(***************************************************************************)
THEOREM OverlappingPodsRepeatForAReason ==
    ASSUME ConcurrencyPolicy = "Allow", Persistent, IsFiniteSet(Pods),
           RetentionDays * Day <= HalfRange, RetentionDays < 0 \/ ListingsNameKeysOnce
    PROVE  Spec => []RepeatsHaveAReason
<1>1. ASSUME Init PROVE OverlapInv
  <2>1. /\ DOMAIN rows = {} /\ now = 0 /\ \A p \in Pods : KeysOnce(p) /\ pc[p] = "idle"
    BY <1>1 DEF Init, StoreInit, NoRows, KeysOnce, NamedOnce
  <2>2. ASSUME NEW k \in DealKey PROVE WindowInv(k)
    <3>1. Late(k) = {} /\ Reruns(Cardinality(Late(k))) = 0 /\ ~Live(k)
      BY <2>1, RerunsAddUp, FS_EmptySet DEF Late, Live
    <3>2. RepeatsPerExpiry * ExpiriesBy(now) \in Nat
      <4>1. RepeatsPerExpiry \in Nat /\ ExpiriesBy(now) \in Nat
        BY <2>1, RerunsAddUp, ExpiriesGrow
      <4> QED
        BY <4>1, ProductSign
    <3> QED
      BY <1>1, <3>1, <3>2, InitNothingSent DEF WindowInv
  <2>3. IsFiniteSet(Mails)
    BY <1>1, InitNothingSent
  <2> QED
    BY <2>1, <2>2, <2>3 DEF OverlapInv
<1>2. Init => DeliveredInv
  BY DEF Init, StoreInit, NoRows, DeliveredInv, RecordedWasDelivered, MarksItsDigest
<1>3. TypeOK /\ DeliveredInv /\ [Next]_vars => DeliveredInv'
  BY NextKeepsDelivered
<1>4. TypeOK /\ TypeOK' /\ DeliveredInv /\ DeliveredInv' /\ OverlapInv /\ [Next]_vars => OverlapInv'
  BY NextKeepsOverlap
<1>5. ASSUME TypeOK, DeliveredInv, OverlapInv PROVE RepeatsHaveAReason
  <2>1. ASSUME NEW k \in AnnouncedKeys
        PROVE  Cardinality(Accepted(k)) <= PodsTogether + RepeatsPerExpiry * ExpiriesBy(now) + faults
    <3> DEFINE paid == RepeatsPerExpiry * ExpiriesBy(now)
    <3>1. WindowInv(k) /\ IsFiniteSet(Mails)
      BY <1>5, AnnouncedKeysType DEF OverlapInv
    <3>2. Cardinality(Sent(k)) <= PodsTogether + paid + Credit
      BY <1>5, <3>1, WindowBound DEF PodsTogether
    <3>3. paid \in Nat /\ PodsTogether \in Nat
      <4>1. RepeatsPerExpiry \in Nat /\ ExpiriesBy(now) \in Nat
        BY <1>5, RerunsAddUp, ExpiriesGrow DEF TypeOK, CountersTyped
      <4>2. PodsTogether \in Nat
        BY FS_CardinalityType DEF PodsTogether
      <4> QED
        BY <4>1, <4>2, ProductSign
    <3>4. Credit \in Int /\ Credit <= faults /\ faults \in Nat
      BY <1>5, DebtType DEF TypeOK, CountersTyped
    <3>5. Cardinality(Sent(k)) \in Nat /\ Cardinality(Accepted(k)) \in Nat
          /\ Cardinality(Accepted(k)) <= Cardinality(Sent(k))
      BY <3>1, AcceptedWasSent
    <3> HIDE DEF paid
    <3>6. Cardinality(Accepted(k)) <= PodsTogether + paid + faults
      BY <3>2, <3>3, <3>4, <3>5
    <3> QED
      BY <3>6 DEF paid
  <2> QED
    BY <2>1 DEF RepeatsHaveAReason
<1> QED
  BY <1>1, <1>2, <1>3, <1>4, <1>5, TypeCorrect, PTL DEF Spec

-----------------------------------------------------------------------------
(* Without faults a run leaves nothing out.                                *)

\* The shop lists the same and answers the same all the time.
SteadyShop ==
    /\ \A s, t \in Listings : s = t
    /\ \A e \in DOMAIN Answers : \A a, b \in Answers[e] : a = b

\* The evaluator admits, by its listed sizes, what is wanted in sizes in stock.
ListedSizesSuffice == \A c \in Listed : WantedDeal(c) => Match(c) # 0

Undisturbed == faults = 0 /\ MaxFaults = 0 /\ \A p \in Pods : ~ctxDone[p]

WantedIn(s) == {Key(s[i]) : i \in {j \in DOMAIN s : WantedDeal(s[j])}}

WantedMatches(s) == {Key(s[i].deal) : i \in {j \in DOMAIN s : WantedDeal(s[j].deal)}}

\* In each of its stages a pod still holds every wanted deal, or the store does.
CarriesWanted(p) ==
    /\ pc[p] = "filter" =>
          /\ \A i \in DOMAIN todo[p] : todo[p][i] \in Listed
          /\ Wanted \subseteq WantedIn(todo[p]) \cup WantedMatches(out[p])
    /\ pc[p] = "enrich" => Wanted \subseteq WantedMatches(todo[p]) \cup KeysIn(out[p])
    /\ pc[p] = "dedup" => Wanted \subseteq KeysIn(todo[p]) \cup KeysIn(out[p]) \cup DOMAIN rows
    /\ pc[p] \in {"sending", "persist"} => Wanted \subseteq KeysIn(todo[p]) \cup DOMAIN rows
    /\ pc[p] = "prune" => Wanted \subseteq DOMAIN rows

LEMMA SomeRuleMatches ==
    ASSUME NEW d, NEW r \in MatchingRules(d)
    PROVE  Match(d) # 0
<1>1. MatchingRules(d) \in SUBSET Nat /\ 0 \notin MatchingRules(d)
  BY RulesAssumption DEF ValidRules, MatchingRules
<1>2. \E i \in MatchingRules(d) : \A j \in MatchingRules(d) : i <= j
  BY <1>1, LeastExists
<1>3. Match(d) \in MatchingRules(d)
  BY <1>2 DEF Match
<1> QED
  BY <1>1, <1>3

(***************************************************************************)
(* What the user wants in the sizes in stock passes the second evaluation  *)
(* (runner.go:110-129), under the same dedup key.                          *)
(***************************************************************************)
LEMMA WantedPassesEnrichment ==
    ASSUME SteadyShop, NEW m \in MatchedDeal, WantedDeal(m.deal),
           NEW sizes \in AnswersFor(m.deal)
    PROVE  /\ InStockSizes(Enriched(m, sizes)) # {} /\ Match(Enriched(m, sizes)) # 0
           /\ Key(Enriched(m, sizes)) = Key(m.deal)
<1> DEFINE d == Enriched(m, sizes)
<1>1. PICK other \in AnswersFor(m.deal), r \in DOMAIN Rules :
         Buyable(Rules[r], [m.deal EXCEPT !.sizes = MergeLabels(m.deal.sizes, other)])
  BY DEF WantedDeal
<1>2. other = sizes
  <2>1. CASE Endpoint(m.deal) \in DOMAIN Answers
    BY <2>1 DEF AnswersFor, SteadyShop
  <2>2. CASE Endpoint(m.deal) \notin DOMAIN Answers
    BY <2>2 DEF AnswersFor
  <2> QED
    BY <2>1, <2>2
<1>3. Buyable(Rules[r], d)
  BY <1>1, <1>2 DEF Enriched
<1>4. InStockSizes(d) # {} /\ InStockSizes(d) \subseteq DOMAIN d.sizes
  BY <1>3 DEF Buyable, InStockSizes
<1>5. RuleMatches(Rules[r], d)
  <2>1. MatchesSizes(Rules[r], d)
    BY <1>3, <1>4, Zenon DEF Buyable, MatchesSizes
  <2> QED
    BY <1>3, <2>1 DEF Buyable, RuleMatches
<1>6. Match(d) # 0
  BY <1>5, SomeRuleMatches DEF MatchingRules
<1>7. Key(d) = Key(m.deal)
  BY DEF Enriched, Key, MatchedDeal, Candidate
<1> QED
  BY <1>4, <1>6, <1>7

LEMMA AppendKeys ==
    ASSUME NEW s \in Seq(MatchedDeal), NEW m \in MatchedDeal
    PROVE  /\ KeysIn(s) \cup {Key(m.deal)} \subseteq KeysIn(Append(s, m))
           /\ WantedMatches(s) \subseteq WantedMatches(Append(s, m))
           /\ WantedDeal(m.deal) => Key(m.deal) \in WantedMatches(Append(s, m))
<1> DEFINE t == Append(s, m)
           n == Len(s) + 1
<1>1. /\ \A i \in DOMAIN s : i \in DOMAIN t /\ t[i] = s[i]
      /\ n \in DOMAIN t /\ t[n] = m
  BY AppendPositions
<1> HIDE DEF t, n
<1>2. KeysIn(s) \cup {Key(m.deal)} \subseteq KeysIn(t)
  BY <1>1 DEF KeysIn
<1>3. WantedMatches(s) \subseteq WantedMatches(t)
  <2>1. ASSUME NEW i \in DOMAIN s, WantedDeal(s[i].deal) PROVE Key(s[i].deal) \in WantedMatches(t)
    BY <1>1, <2>1 DEF WantedMatches
  <2> QED
    BY <2>1 DEF WantedMatches
<1>4. WantedDeal(m.deal) => Key(m.deal) \in WantedMatches(t)
  BY <1>1 DEF WantedMatches
<1> QED
  BY <1>2, <1>3, <1>4 DEF t

LEMMA TailWanted ==
    ASSUME NEW k
    PROVE  /\ \A s \in Seq(Candidate) : s # << >> /\ k \in WantedIn(s) =>
                 k \in WantedIn(Tail(s)) \/ (k = Key(Head(s)) /\ WantedDeal(Head(s)))
           /\ \A s \in Seq(MatchedDeal) : s # << >> /\ k \in WantedMatches(s) =>
                 \/ k \in WantedMatches(Tail(s))
                 \/ k = Key(Head(s).deal) /\ WantedDeal(Head(s).deal)
<1>1. ASSUME NEW s \in Seq(Candidate), s # << >>, k \in WantedIn(s), k \notin WantedIn(Tail(s))
      PROVE  k = Key(Head(s)) /\ WantedDeal(Head(s))
  <2>1. PICK i \in DOMAIN s : WantedDeal(s[i]) /\ k = Key(s[i])
    BY <1>1 DEF WantedIn
  <2>2. ~(i - 1 \in DOMAIN Tail(s) /\ Tail(s)[i - 1] = s[i])
    BY <1>1, <2>1 DEF WantedIn
  <2> QED
    BY <1>1, <2>1, <2>2, TailPositions
<1>2. ASSUME NEW s \in Seq(MatchedDeal), s # << >>, k \in WantedMatches(s),
             k \notin WantedMatches(Tail(s))
      PROVE  k = Key(Head(s).deal) /\ WantedDeal(Head(s).deal)
  <2>1. PICK i \in DOMAIN s : WantedDeal(s[i].deal) /\ k = Key(s[i].deal)
    BY <1>2 DEF WantedMatches
  <2>2. ~(i - 1 \in DOMAIN Tail(s) /\ Tail(s)[i - 1] = s[i])
    BY <1>2, <2>1 DEF WantedMatches
  <2> QED
    BY <1>2, <2>1, <2>2, TailPositions
<1> QED
  BY <1>1, <1>2

\* What each loop of an undisturbed pod does with a wanted deal.
LEMMA LoopCarriesWanted ==
    ASSUME TypeOK, Undisturbed, SteadyShop, ListedSizesSuffice, NEW p \in Pods, CarriesWanted(p),
           FilterCandidate(p) \/ EnrichOne(p) \/ LookUp(p) \/ Mark(p)
    PROVE  CarriesWanted(p)'
<1> DEFINE x == Head(todo[p])
           rest == Tail(todo[p])
<1>1. /\ pc' = pc /\ todo'[p] = rest /\ todo[p] # << >> /\ out[p] \in Seq(MatchedDeal)
      /\ todo[p] \in TodoType(p)
  BY DEF FilterCandidate, EnrichOne, LookUp, Mark, Visiting, TypeOK, PodsTyped
<1>2. CASE FilterCandidate(p)
  <2>1. pc[p] = "filter" /\ todo[p] \in Seq(Candidate) /\ x \in Candidate
    BY <1>1, <1>2, HeadTailProperties DEF FilterCandidate, Visiting, TodoType
  <2>2. x \in Listed /\ \A i \in DOMAIN rest : rest[i] \in Listed
    BY <1>1, <2>1, TailElements DEF CarriesWanted
  <2>3. WantedMatches(out[p]) \subseteq WantedMatches(out'[p])
        /\ (WantedDeal(x) => Key(x) \in WantedMatches(out'[p]))
    <3> DEFINE m == [deal |-> x, ruleName |-> Rules[Match(x)].name]
    <3>1. CASE Match(x) # 0
      <4>1. m \in MatchedDeal /\ m.deal = x
        BY <2>1, <3>1, MatchHasAName DEF MatchedDeal
      <4>2. out'[p] = Append(out[p], m)
        BY <1>2, <3>1 DEF FilterCandidate, Keep, TypeOK, PodsTyped
      <4> QED
        BY <1>1, <4>1, <4>2, AppendKeys
    <3>2. CASE Match(x) = 0
      BY <1>2, <2>2, <3>2 DEF FilterCandidate, ListedSizesSuffice
    <3> QED
      BY <3>1, <3>2
  <2>4. ASSUME NEW k \in Wanted PROVE k \in WantedIn(rest) \cup WantedMatches(out'[p])
    <3>1. k \in WantedIn(todo[p]) \cup WantedMatches(out[p])
      BY <2>1 DEF CarriesWanted
    <3> QED
      BY <1>1, <2>1, <2>3, <3>1, TailWanted
  <2> QED
    BY <1>1, <2>1, <2>2, <2>4 DEF CarriesWanted
<1>3. CASE EnrichOne(p)
  <2>1. pc[p] = "enrich" /\ todo[p] \in Seq(MatchedDeal) /\ x \in MatchedDeal
    BY <1>1, <1>3, HeadTailProperties DEF EnrichOne, Visiting, TodoType
  <2>2. PICK sizes \in AnswersFor(x.deal) :
           LET d == Enriched(x, sizes) IN
           IF InStockSizes(d) # {} /\ Match(d) # 0
           THEN Keep(p, [deal |-> d, ruleName |-> Rules[Match(d)].name])
           ELSE UNCHANGED out
    BY <1>3 DEF EnrichOne
  <2> DEFINE d == Enriched(x, sizes)
             m == [deal |-> d, ruleName |-> Rules[Match(d)].name]
  <2>3. KeysIn(out[p]) \subseteq KeysIn(out'[p]) /\ (WantedDeal(x.deal) => Key(x.deal) \in KeysIn(out'[p]))
    <3>1. CASE InStockSizes(d) # {} /\ Match(d) # 0
      <4>1. m \in MatchedDeal
        BY <2>1, <3>1, EnrichedType, MatchHasAName DEF MatchedDeal
      <4>2. out'[p] = Append(out[p], m)
        BY <2>2, <3>1 DEF Keep, TypeOK, PodsTyped
      <4>3. KeysIn(out[p]) \cup {Key(d)} \subseteq KeysIn(out'[p])
        BY <1>1, <4>1, <4>2, AppendKeys
      <4> QED
        BY <2>1, <4>3, WantedPassesEnrichment
    <3>2. CASE ~(InStockSizes(d) # {} /\ Match(d) # 0)
      BY <2>1, <2>2, <3>2, WantedPassesEnrichment
    <3> QED
      BY <3>1, <3>2
  <2>4. ASSUME NEW k \in Wanted PROVE k \in WantedMatches(rest) \cup KeysIn(out'[p])
    <3>1. k \in WantedMatches(todo[p]) \cup KeysIn(out[p])
      BY <2>1 DEF CarriesWanted
    <3> QED
      BY <1>1, <2>1, <2>3, <3>1, TailWanted
  <2> QED
    BY <1>1, <2>1, <2>4 DEF CarriesWanted
<1>4. CASE LookUp(p)
  <2>1. /\ pc[p] = "dedup" /\ todo[p] \in Seq(MatchedDeal) /\ x \in MatchedDeal /\ rows' = rows
    BY <1>1, <1>4, HeadTailProperties DEF LookUp, Visiting, TodoType
  <2>2. \/ out'[p] = out[p] /\ Key(x.deal) \in DOMAIN rows
        \/ out'[p] = Append(out[p], x)
    BY <1>4 DEF LookUp, IsNew, Keep, TypeOK, PodsTyped
  <2>3. KeysIn(out[p]) \cup {Key(x.deal)} \subseteq KeysIn(out'[p]) \cup DOMAIN rows
    BY <1>1, <2>1, <2>2, AppendKeys
  <2>4. KeysIn(todo[p]) \subseteq KeysIn(rest) \cup {Key(x.deal)}
    BY <1>1, <2>1, TailKeys
  <2>5. Wanted \subseteq KeysIn(todo[p]) \cup KeysIn(out[p]) \cup DOMAIN rows
    BY <2>1 DEF CarriesWanted
  <2>6. Wanted \subseteq KeysIn(rest) \cup KeysIn(out'[p]) \cup DOMAIN rows
    BY <2>3, <2>4, <2>5
  <2> QED
    BY <1>1, <2>1, <2>6 DEF CarriesWanted
<1>5. CASE Mark(p)
  <2>1. pc[p] = "persist" /\ todo[p] \in Seq(MatchedDeal)
    BY <1>1, <1>5 DEF Mark, Visiting, TodoType
  <2>2. DOMAIN rows' = DOMAIN rows \cup {Key(x.deal)}
    BY <1>5 DEF Mark, MarkSeen
  <2>3. KeysIn(todo[p]) \subseteq KeysIn(rest) \cup {Key(x.deal)}
    BY <1>1, <2>1, TailKeys
  <2>4. Wanted \subseteq KeysIn(todo[p]) \cup DOMAIN rows
    BY <2>1 DEF CarriesWanted
  <2> QED
    BY <1>1, <2>1, <2>2, <2>3, <2>4 DEF CarriesWanted
<1> QED
  BY <1>2, <1>3, <1>4, <1>5

LEMMA StepCarriesWanted ==
    ASSUME TypeOK, Undisturbed, SteadyShop, ListedSizesSuffice, NEW p \in Pods, CarriesWanted(p),
           Step(p)
    PROVE  CarriesWanted(p)'
<1>1. ~Fails(p)
  BY DEF Fails, Undisturbed
<1>2. CASE FetchDeals(p)
  <2>1. PICK listing \in Listings : todo' = [todo EXCEPT ![p] = listing]
    BY <1>2 DEF FetchDeals
  <2>2. pc'[p] = "filter" /\ todo'[p] = listing
    BY <1>2, <2>1 DEF FetchDeals, Goto, TypeOK, PodsTyped
  <2>3. \A i \in DOMAIN listing : listing[i] \in Listed
    BY DEF Listed
  <2>4. Wanted \subseteq WantedIn(listing)
    BY DEF Wanted, Listed, WantedIn, SteadyShop
  <2> QED
    BY <2>2, <2>3, <2>4 DEF CarriesWanted
<1>3. CASE FilterCandidate(p) \/ EnrichOne(p) \/ LookUp(p) \/ Mark(p)
  BY <1>3, LoopCarriesWanted
<1>4. CASE NothingFresh(p)
  <2>1. /\ pc[p] = "dedup" /\ pc'[p] = "prune" /\ rows' = rows
        /\ todo[p] = << >> /\ out[p] = << >>
    BY <1>4 DEF NothingFresh, Goto, TypeOK, PodsTyped
  <2>2. KeysIn(todo[p]) = {} /\ KeysIn(out[p]) = {}
    BY <2>1 DEF KeysIn
  <2> QED
    BY <2>1, <2>2 DEF CarriesWanted
<1>5. CASE CallNotify(p)
  <2>1. /\ pc[p] = "dedup" /\ pc'[p] = "sending" /\ rows' = rows
        /\ todo[p] = << >> /\ todo'[p] = out[p]
    BY <1>5 DEF CallNotify, Goto, TypeOK, PodsTyped
  <2>2. KeysIn(todo[p]) = {}
    BY <2>1 DEF KeysIn
  <2> QED
    BY <2>1, <2>2 DEF CarriesWanted
<1>6. CASE NotifyReturnsNil(p)
  BY <1>6 DEF NotifyReturnsNil, Goto, CarriesWanted, TypeOK, PodsTyped
<1>7. CASE PruneOff(p) \/ PruneOld(p)
  <2>1. pc'[p] = "idle"
    BY <1>7 DEF PruneOff, PruneOld, Exit, Goto, TypeOK, PodsTyped
  <2> QED
    BY <2>1 DEF CarriesWanted
<1>8. CASE EndOfLoop(p)
  <2>1. PICK from \in Stage, to \in Stage : NextStage(p, from, to) /\
           <<from, to>> \in {<<"filter", "enrich">>, <<"enrich", "dedup">>, <<"persist", "prune">>}
    BY <1>8 DEF EndOfLoop, Stage
  <2>2. /\ pc[p] = from /\ pc'[p] = to /\ rows' = rows
        /\ todo[p] = << >> /\ todo'[p] = out[p]
    BY <2>1 DEF NextStage, Goto, TypeOK, PodsTyped
  <2>3. KeysIn(todo[p]) = {} /\ WantedIn(todo[p]) = {} /\ WantedMatches(todo[p]) = {}
    BY <2>2 DEF KeysIn, WantedIn, WantedMatches
  <2> QED
    BY <2>1, <2>2, <2>3 DEF CarriesWanted
<1> QED
  BY <1>1, <1>2, <1>3, <1>4, <1>5, <1>6, <1>7, <1>8
  DEF Step, FetchDealsFails, EnrichFails, LookUpFails, NotifyFails, MarkFails, PruneFails

LEMMA NextStaysUndisturbed ==
    ASSUME TypeOK, TypeOK', Undisturbed, [Next]_vars,
           ConcurrencyPolicy # "Replace" \/ \A p, q \in Pods : p = q
    PROVE  Undisturbed'
<1> USE DEF mail
<1>1. faults' = 0
  BY DEF TypeOK, CountersTyped, Undisturbed
<1>2. ASSUME NEW p \in Pods, StartRun(p) \/ StartRunFails(p) PROVE \A q \in Pods : ~ctxDone'[q]
  BY <1>2 DEF StartRun, StartRunFails, CreatePod, Undisturbed
<1>3. ASSUME NEW p \in Pods, Step(p), NEW q \in Pods PROVE ~ctxDone'[q]
  BY <1>3
  DEF Step, FetchDeals, FetchDealsFails, FilterCandidate, EnrichOne, EnrichFails,
      LookUp, LookUpFails, NothingFresh, CallNotify, NotifyReturnsNil, NotifyFails, Mark,
      MarkFails, PruneOff, PruneOld, PruneFails, EndOfLoop, NextStage, Visiting, Exit,
      Undisturbed, TypeOK, PodsTyped
<1>4. ASSUME NEW p \in Pods, Signal(p) \/ Kill(p) PROVE FALSE
  BY <1>4 DEF Signal, Kill, Undisturbed
<1>5. CASE Tick \/ UNCHANGED vars \/ \E d \in inflight : Accept(d) \/ Lose(d)
  BY <1>1, <1>5 DEF Tick, vars, Accept, Lose, Undisturbed
<1> QED
  BY <1>1, <1>2, <1>3, <1>4, <1>5 DEF Next, Undisturbed

\* No pod is replaced or shares the store in the step, or nothing is ever
\* dropped from the store.
NobodyForgets == (Alone /\ Alone') \/ (Persistent /\ RetentionDays < 0)

\* While a pod runs, no other takes rows from the store.
LEMMA RowsStay ==
    ASSUME TypeOK, [Next]_vars, NobodyForgets,
           NEW q \in Pods, pc[q] # "idle", pc'[q] # "idle"
    PROVE  DOMAIN rows \subseteq DOMAIN rows'
<1>1. ASSUME NEW p \in Pods, Mark(p) PROVE DOMAIN rows \subseteq DOMAIN rows'
  BY <1>1 DEF Mark, MarkSeen
<1>2. ASSUME NEW p \in Pods, PruneOld(p) PROVE FALSE
  <2>1. pc[p] = "prune" /\ pc'[p] = "idle" /\ RetentionDays > 0
    BY <1>2 DEF PruneOld, Exit, Goto, TypeOK, PodsTyped
  <2> QED
    BY <2>1, RunnerAssumption DEF Alone, SetNumber, NobodyForgets
<1>3. ASSUME NEW p \in Pods, StartRun(p), ~Persistent PROVE FALSE
  <2>1. pc[p] = "idle" /\ pc'[p] = "fetch"
    BY <1>3 DEF StartRun, CreatePod, Goto, TypeOK, PodsTyped
  <2> QED
    BY <1>3, <2>1 DEF Alone, NobodyForgets
<1> QED
  BY <1>1, <1>2, <1>3, NextRows

LEMMA NextCarriesWanted ==
    ASSUME TypeOK, Undisturbed, SteadyShop, ListedSizesSuffice, [Next]_vars,
           NobodyForgets,
           \A p \in Pods : CarriesWanted(p), NEW q \in Pods
    PROVE  CarriesWanted(q)'
<1> USE DEF mail
<1>1. CASE pc[q] # "idle" /\ pc'[q] # "idle" /\ UNCHANGED <<pc[q], todo[q], out[q]>>
  <2>1. DOMAIN rows \subseteq DOMAIN rows'
    BY <1>1, RowsStay
  <2>2. CarriesWanted(q)
    OBVIOUS
  <2> QED
    BY <1>1, <2>1, <2>2 DEF CarriesWanted
<1>2. CASE pc'[q] \in {"idle", "fetch"}
  BY <1>2 DEF CarriesWanted
<1>3. ASSUME NEW p \in Pods, Step(p) PROVE CarriesWanted(q)'
  <2>1. CASE p = q
    BY <1>3, <2>1, StepCarriesWanted
  <2>2. CASE p # q
    <3>1. UNCHANGED <<pc[q], todo[q], out[q]>>
      BY <1>3, <2>2, OthersRest
    <3> QED
      BY <1>1, <1>2, <3>1
  <2> QED
    BY <2>1, <2>2
<1>4. ASSUME NEW p \in Pods, StartRun(p) \/ StartRunFails(p) PROVE CarriesWanted(q)'
  <2>1. UNCHANGED <<todo, out>> /\ (pc'[q] = pc[q] \/ pc'[q] = "fetch")
    BY <1>4 DEF StartRun, StartRunFails, Goto, TypeOK, PodsTyped
  <2> QED
    BY <1>1, <1>2, <2>1
<1>5. ASSUME NEW p \in Pods, Signal(p) \/ Kill(p) PROVE FALSE
  BY <1>5 DEF Signal, Kill, Undisturbed
<1>6. CASE Tick \/ UNCHANGED vars \/ \E d \in inflight : Accept(d) \/ Lose(d)
  <2>1. UNCHANGED <<pc, todo, out>>
    BY <1>6 DEF Tick, vars, Accept, Lose
  <2> QED
    BY <1>1, <1>2, <2>1
<1> QED
  BY <1>3, <1>4, <1>5, <1>6 DEF Next

LEMMA InitCarriesWanted ==
    ASSUME Init, MaxFaults = 0
    PROVE  Undisturbed /\ Alone /\ \A p \in Pods : CarriesWanted(p)
BY DEF Init, Undisturbed, Alone, CarriesWanted

(***************************************************************************)
(* Without faults, with a steady shop whose listed sizes get the wanted    *)
(* deals past the first evaluation, a run that reaches its prune leaves no *)
(* wanted deal unrecorded (runner.go:55-91): what the run "sparse" refutes *)
(* fails for the listed sizes and nothing else.                            *)
(***************************************************************************)
THEOREM FaultlessRunsRecordTheWanted ==
    ASSUME MaxFaults = 0, Persistent, SteadyShop, ListedSizesSuffice,
           \/ ConcurrencyPolicy = "Forbid"
           \/ ConcurrencyPolicy = "Allow" /\ RetentionDays < 0
    PROVE  Spec => []ListingSizesAreNotTrusted
<1> DEFINE Carrying == Undisturbed /\ \A p \in Pods : CarriesWanted(p)
           OneRuns == ConcurrencyPolicy = "Forbid" => FreshInv
<1>1. Init => Carrying /\ OneRuns
  BY InitCarriesWanted DEF Init, FreshInv, StillFresh
<1>2. TypeOK /\ OneRuns /\ [Next]_vars => OneRuns'
  BY NextKeepsFresh
<1>3. ASSUME TypeOK, TypeOK', OneRuns, OneRuns', Carrying, [Next]_vars PROVE Carrying'
  <2>1. Undisturbed'
    BY <1>3, NextStaysUndisturbed
  <2>2. NobodyForgets
    <3>1. CASE ConcurrencyPolicy = "Forbid"
      <4>1. FreshInv /\ FreshInv'
        BY <1>3, <3>1
      <4> QED
        BY <4>1 DEF FreshInv, NobodyForgets
    <3> QED
      BY <3>1 DEF NobodyForgets
  <2>3. ASSUME NEW q \in Pods PROVE CarriesWanted(q)'
    BY <1>3, <2>2, NextCarriesWanted
  <2> QED
    BY <2>1, <2>3
<1>4. Carrying => ListingSizesAreNotTrusted
  BY DEF CarriesWanted, ListingSizesAreNotTrusted
<1> HIDE DEF Carrying, OneRuns
<1> QED
  BY <1>1, <1>2, <1>3, <1>4, TypeCorrect, PTL DEF Spec

\* A store in memory is empty up to the first mark, and what was sent of the
\* wanted deals stays in the digest.
SendsAll(p) ==
    /\ pc[p] \in {"fetch", "filter", "enrich", "dedup", "sending"} => DOMAIN rows = {}
    /\ pc[p] \in {"sending", "persist", "prune"} => Wanted \subseteq KeysOf(digest[p])

LEMMA StepSendsAll ==
    ASSUME TypeOK, Undisturbed, NEW p \in Pods, CarriesWanted(p), SendsAll(p), Step(p)
    PROVE  SendsAll(p)'
<1>1. ~Fails(p)
  BY DEF Fails, Undisturbed
<1>2. CASE \/ FetchDeals(p) \/ FilterCandidate(p) \/ EnrichOne(p) \/ LookUp(p)
           \/ NextStage(p, "filter", "enrich") \/ NextStage(p, "enrich", "dedup")
  <2>1. /\ pc[p] \in {"fetch", "filter", "enrich", "dedup"} /\ rows' = rows
        /\ pc'[p] \in {"filter", "enrich", "dedup"}
    BY <1>2 DEF FetchDeals, FilterCandidate, EnrichOne, LookUp, NextStage, Visiting, Goto,
                TypeOK, PodsTyped
  <2> QED
    BY <2>1 DEF SendsAll
<1>3. CASE NothingFresh(p)
  <2>1. /\ pc[p] = "dedup" /\ pc'[p] = "prune" /\ todo[p] = << >> /\ out[p] = << >>
    BY <1>3 DEF NothingFresh, Goto, TypeOK, PodsTyped
  <2>2. Wanted = {}
    BY <2>1 DEF CarriesWanted, SendsAll, KeysIn
  <2> QED
    BY <2>1, <2>2 DEF SendsAll
<1>4. CASE CallNotify(p)
  <2>1. /\ pc[p] = "dedup" /\ pc'[p] = "sending" /\ rows' = rows
        /\ todo[p] = << >> /\ digest'[p].lines = out[p]
    BY <1>4 DEF CallNotify, Goto, TypeOK, PodsTyped
  <2>2. KeysOf(digest'[p]) = KeysIn(out[p]) /\ KeysIn(todo[p]) = {}
    BY <2>1 DEF KeysOf, KeysIn
  <2>3. Wanted \subseteq KeysOf(digest'[p])
    BY <2>1, <2>2 DEF CarriesWanted, SendsAll
  <2> QED
    BY <2>1, <2>3 DEF SendsAll
<1>5. CASE NotifyReturnsNil(p) \/ Mark(p) \/ NextStage(p, "persist", "prune")
  <2>1. /\ pc[p] \in {"sending", "persist"} /\ pc'[p] \in {"persist", "prune"}
        /\ digest' = digest
    BY <1>5 DEF NotifyReturnsNil, Mark, NextStage, Visiting, Goto, TypeOK, PodsTyped
  <2> QED
    BY <2>1 DEF SendsAll
<1>6. CASE PruneOff(p) \/ PruneOld(p)
  <2>1. pc'[p] = "idle"
    BY <1>6 DEF PruneOff, PruneOld, Exit, Goto, TypeOK, PodsTyped
  <2> QED
    BY <2>1 DEF SendsAll
<1> QED
  BY <1>1, <1>2, <1>3, <1>4, <1>5, <1>6
  DEF Step, EndOfLoop, FetchDealsFails, EnrichFails, LookUpFails, NotifyFails, MarkFails, PruneFails

(***************************************************************************)
(* With a store in memory (sqlite.go:46-65) and no faults, a run that      *)
(* reaches its prune has sent every wanted deal of a steady shop, however  *)
(* many runs sent it before (values.yaml:181).                             *)
(***************************************************************************)
THEOREM MemoryRunsRenotify ==
    ASSUME MaxFaults = 0, ~Persistent, SteadyShop, ListedSizesSuffice
    PROVE  Spec => []MemoryRenotifies
<1>1. \A p, q \in Pods : p = q
  BY RunnerAssumption
<1> DEFINE Carrying == Undisturbed /\ \A p \in Pods : CarriesWanted(p) /\ SendsAll(p)
<1>2. Init => Carrying
  BY InitCarriesWanted DEF Init, SendsAll
<1>3. ASSUME TypeOK, TypeOK', Carrying, [Next]_vars PROVE Carrying'
  <2>1. Undisturbed'
    BY <1>1, <1>3, NextStaysUndisturbed
  <2>2. NobodyForgets
    BY <1>1 DEF Alone, NobodyForgets
  <2>3. ASSUME NEW p \in Pods PROVE CarriesWanted(p)'
    BY <1>3, <2>2, NextCarriesWanted
  <2>4. ASSUME NEW p \in Pods PROVE SendsAll(p)'
    <3>1. CASE Step(p)
      BY <1>3, <3>1, StepSendsAll
    <3>2. CASE StartRun(p)
      <4>1. pc'[p] = "fetch" /\ DOMAIN rows' = {}
        BY <1>3, <3>2 DEF StartRun, Goto, OpenStore, NoRows, TypeOK, PodsTyped
      <4> QED
        BY <4>1 DEF SendsAll
    <3>3. ASSUME UNCHANGED <<rows, pc, digest>> PROVE SendsAll(p)'
      BY <1>3, <3>3 DEF SendsAll
    <3>4. CASE StartRunFails(p) \/ Tick \/ UNCHANGED vars \/ \E d \in inflight : Accept(d) \/ Lose(d)
      BY <3>3, <3>4 DEF StartRunFails, Tick, vars, Accept, Lose
    <3>5. CASE Signal(p) \/ Kill(p)
      BY <1>3, <3>5 DEF Signal, Kill, Undisturbed
    <3> QED
      BY <1>1, <1>3, <3>1, <3>2, <3>4, <3>5 DEF Next
  <2> QED
    BY <2>1, <2>3, <2>4
<1>4. Carrying => MemoryRenotifies
  BY DEF SendsAll, MemoryRenotifies
<1> HIDE DEF Carrying
<1> QED
  BY <1>2, <1>3, <1>4, TypeCorrect, PTL DEF Spec

=============================================================================
