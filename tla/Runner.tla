------------------------------- MODULE Runner -------------------------------
(***************************************************************************)
(* internal/app/runner.go: one pass of the pipeline                        *)
(*                                                                         *)
(*   fetch -> filter -> enrich -> dedup -> notify -> persist -> prune      *)
(*                                                                         *)
(* run by the pods of a Kubernetes CronJob against one store and one mail  *)
(* server.  A pod is a process: what it holds dies with it, the store and  *)
(* the mail do not.  The shop answers anything in Listings and Answers;    *)
(* every call may fail, a pod may get SIGTERM (its context is cancelled)   *)
(* or be killed between two steps, and all of these draw on one budget of  *)
(* MaxFaults.  A call made with a cancelled context fails for free.        *)
(*                                                                         *)
(* The mail server accepts a digest at some moment between Notify's call   *)
(* and its nil return or, if Notify failed or its process died first, at   *)
(* any later moment or never.  SmtpNotifier.tla models that call.          *)
(***************************************************************************)
EXTENDS Filter, Store

CONSTANTS
    Pods,               \* names of the pods that may run
    ConcurrencyPolicy,  \* of the CronJob: "Forbid", "Allow" or "Replace"
    Listings,           \* what FetchDeals may return
    Answers,            \* <<product, price group>> -> what ResolveSizes may return
    RetentionDays,      \* store.retentionDays; negative switches pruning off
    Day,                \* 24 hours, in units of the clock
    HalfRange,          \* a time.Duration holds -HalfRange .. HalfRange - 1
    MaxFaults, MaxTime, MaxSends    \* bounds of the model

ASSUME RunnerAssumption ==
    /\ ConcurrencyPolicy \in {"Forbid", "Allow", "Replace"}
    /\ Persistent \in BOOLEAN
    /\ Persistent \/ \A p, q \in Pods : p = q
    /\ Listings \subseteq Seq(Candidate)
    /\ \A e \in DOMAIN Answers : Answers[e] \subseteq Seq(Size)
    /\ RetentionDays \in SetNumber
    /\ Day \in Nat \ {0} /\ HalfRange \in Nat \ {0}
    /\ MaxFaults \in Nat /\ MaxTime \in Nat /\ MaxSends \in Nat

VARIABLES
    now,      \* the clock
    inflight, \* digests handed to the mail server, not accepted so far
    inbox,    \* digests the mail server accepted for the recipients
    sends,    \* how often Notify was called, the number of the last digest
    faults,   \* how much of the fault budget is used
    pc,       \* pod -> the loop or call it is in
    todo,     \* pod -> what its loop still has to visit
    out,      \* pod -> what its loop has kept
    digest,   \* pod -> the digest it sent
    ctxDone,  \* pod -> whether its context is cancelled
    markAt    \* pod -> the timestamp it marks deals with

mail == <<inflight, inbox, sends>>
vars == <<rows, now, mail, faults, pc, todo, out, digest, ctxDone, markAt>>

-----------------------------------------------------------------------------

Stage == {"idle", "fetch", "filter", "enrich", "dedup", "sending", "persist", "prune"}

MatchedDeal == [deal : Candidate, ruleName : STRING]

Digest == [id : Nat, lines : Seq(MatchedDeal), sentAt : Nat]

NoDigest == [id |-> 0, lines |-> << >>, sentAt |-> 0]

Endpoint(c) ==
    <<c.productID, IF c.providerRef = "" THEN "00" ELSE c.providerRef>>

\* A detail endpoint the shop has nothing for answers with no sizes.
AnswersFor(c) ==
    IF Endpoint(c) \in DOMAIN Answers THEN Answers[Endpoint(c)] ELSE {<< >>}

\* time.Duration arithmetic is that of a signed machine word.
Wrap(d) ==
    IF d \in -HalfRange .. HalfRange - 1 THEN d
    ELSE ((d + HalfRange) % (2 * HalfRange)) - HalfRange

Cutoff == now + Wrap(-RetentionDays * Day)

-----------------------------------------------------------------------------
(* Steps of a pod's program.                                               *)

Goto(p, stage) == pc' = [pc EXCEPT ![p] = stage]

\* A stage's loop is through: what it kept is what the next one visits.
NextStage(p, from, to) ==
    /\ pc[p] = from /\ todo[p] = << >>
    /\ Goto(p, to)
    /\ todo' = [todo EXCEPT ![p] = out[p]]
    /\ out' = [out EXCEPT ![p] = << >>]
    /\ UNCHANGED <<rows, now, mail, faults, digest, ctxDone, markAt>>

\* The loop of a stage visits the next item.
Visiting(p, stage) ==
    /\ pc[p] = stage /\ todo[p] # << >>
    /\ todo' = [todo EXCEPT ![p] = Tail(todo[p])]
    /\ UNCHANGED <<now, mail, pc, digest, ctxDone, markAt>>

Keep(p, item) == out' = [out EXCEPT ![p] = Append(out[p], item)]

Succeeds(p) == ~ctxDone[p] /\ UNCHANGED faults

Fails(p) ==
    \/ ctxDone[p] /\ UNCHANGED faults
    \/ faults < MaxFaults /\ faults' = faults + 1

\* The process ends and what it holds is gone.
Exit(p) ==
    /\ Goto(p, "idle")
    /\ todo' = [todo EXCEPT ![p] = << >>]
    /\ out' = [out EXCEPT ![p] = << >>]
    /\ digest' = [digest EXCEPT ![p] = NoDigest]
    /\ ctxDone' = [ctxDone EXCEPT ![p] = FALSE]
    /\ markAt' = [markAt EXCEPT ![p] = 0]

-----------------------------------------------------------------------------

Init ==
    /\ StoreInit
    /\ now = 0 /\ faults = 0
    /\ inflight = {} /\ inbox = {} /\ sends = 0
    /\ pc = [p \in Pods |-> "idle"]
    /\ todo = [p \in Pods |-> << >>]
    /\ out = [p \in Pods |-> << >>]
    /\ digest = [p \in Pods |-> NoDigest]
    /\ ctxDone = [p \in Pods |-> FALSE]
    /\ markAt = [p \in Pods |-> 0]

\* The CronJob, or a Job that retries, creates a pod.  Forbid waits for the
\* running pod to end, Replace sends it SIGTERM.
CreatePod(p) ==
    /\ pc[p] = "idle" /\ sends < MaxSends
    /\ ConcurrencyPolicy = "Forbid" => \A q \in Pods : pc[q] = "idle"
    /\ ctxDone' = [q \in Pods |->
          ctxDone[q] \/ (ConcurrencyPolicy = "Replace" /\ pc[q] # "idle")]

\* The process gets to the pipeline, as Startup.tla describes.
StartRun(p) ==
    /\ CreatePod(p)
    /\ Goto(p, "fetch")
    /\ OpenStore
    /\ UNCHANGED <<now, mail, faults, todo, out, digest, markAt>>

\* It does not: a file cannot be used.
StartRunFails(p) ==
    /\ CreatePod(p)
    /\ faults < MaxFaults /\ faults' = faults + 1
    /\ UNCHANGED <<rows, now, mail, pc, todo, out, digest, markAt>>

FetchDeals(p) ==
    /\ pc[p] = "fetch" /\ Succeeds(p)
    /\ \E listing \in Listings : todo' = [todo EXCEPT ![p] = listing]
    /\ Goto(p, "filter")
    /\ UNCHANGED <<rows, now, mail, out, digest, ctxDone, markAt>>

FetchDealsFails(p) ==
    /\ pc[p] = "fetch" /\ Fails(p)
    /\ Exit(p)
    /\ UNCHANGED <<rows, now, mail>>

\* Fault: the match does not say which rule admitted it.
FilterCandidateUnnamed(p) ==
    /\ Visiting(p, "filter")
    /\ LET c == Head(todo[p]) IN
          IF Match(c) # 0
          THEN Keep(p, [deal |-> c])
          ELSE UNCHANGED out
    /\ UNCHANGED <<rows, faults>>

\* filterCandidates
FilterCandidate(p) ==
    /\ Visiting(p, "filter")
    /\ LET c == Head(todo[p]) IN
          IF Match(c) # 0
          THEN Keep(p, [deal |-> c, ruleName |-> Rules[Match(c)].name])
          ELSE UNCHANGED out
    /\ UNCHANGED <<rows, faults>>

\* Fault: mergeLabels gets its two lists in the wrong order.
EnrichedSwapped(m, sizes) == [m.deal EXCEPT !.sizes = MergeLabels(sizes, m.deal.sizes)]

\* enrichOne, for the match m and the sizes the shop answers with
Enriched(m, sizes) == [m.deal EXCEPT !.sizes = MergeLabels(m.deal.sizes, sizes)]

\* Fault: a product without any size in stock goes back to the evaluator.
EnrichOneSoldOut(p) ==
    /\ Visiting(p, "enrich") /\ Succeeds(p)
    /\ \E sizes \in AnswersFor(Head(todo[p]).deal) :
          LET d == Enriched(Head(todo[p]), sizes) IN
          IF Match(d) # 0
          THEN Keep(p, [deal |-> d, ruleName |-> Rules[Match(d)].name])
          ELSE UNCHANGED out
    /\ UNCHANGED rows

EnrichOne(p) ==
    /\ Visiting(p, "enrich") /\ Succeeds(p)
    /\ \E sizes \in AnswersFor(Head(todo[p]).deal) :
          LET d == Enriched(Head(todo[p]), sizes) IN
          IF InStockSizes(d) # {} /\ Match(d) # 0
          THEN Keep(p, [deal |-> d, ruleName |-> Rules[Match(d)].name])
          ELSE UNCHANGED out
    /\ UNCHANGED rows

EnrichFails(p) == Visiting(p, "enrich") /\ Fails(p) /\ UNCHANGED <<rows, out>>

\* filterNew
LookUp(p) ==
    /\ Visiting(p, "dedup") /\ Succeeds(p)
    /\ IF IsNew(Key(Head(todo[p]).deal)) THEN Keep(p, Head(todo[p])) ELSE UNCHANGED out
    /\ UNCHANGED rows

\* Fault: a deal whose lookup fails counts as new.
LookUpFailsOpen(p) ==
    Visiting(p, "dedup") /\ Fails(p) /\ Keep(p, Head(todo[p])) /\ UNCHANGED rows

LookUpFails(p) == Visiting(p, "dedup") /\ Fails(p) /\ UNCHANGED <<rows, out>>

\* notifyAndPersist, first half: nothing fresh means no mail and no marks.
NothingFresh(p) ==
    /\ pc[p] = "dedup" /\ todo[p] = << >> /\ out[p] = << >>
    /\ Goto(p, "prune")
    /\ UNCHANGED <<rows, now, mail, faults, todo, out, digest, ctxDone, markAt>>

CallNotify(p) ==
    /\ pc[p] = "dedup" /\ todo[p] = << >> /\ out[p] # << >>
    /\ Goto(p, "sending")
    /\ sends' = sends + 1
    /\ digest' = [digest EXCEPT ![p] = [id |-> sends + 1, lines |-> out[p], sentAt |-> now]]
    /\ inflight' = inflight \cup {digest'[p]}
    /\ todo' = [todo EXCEPT ![p] = out[p]]
    /\ out' = [out EXCEPT ![p] = << >>]
    /\ UNCHANGED <<rows, now, inbox, faults, ctxDone, markAt>>

\* Fault: the marking loop starts at the second deal.
NotifyReturnsNilSkipping(p) ==
    /\ pc[p] = "sending" /\ digest[p] \in inbox
    /\ Goto(p, "persist")
    /\ todo' = [todo EXCEPT ![p] = Tail(todo[p])]
    /\ markAt' = [markAt EXCEPT ![p] = now]
    /\ UNCHANGED <<rows, now, mail, faults, out, digest, ctxDone>>

NotifyReturnsNil(p) ==
    /\ pc[p] = "sending" /\ digest[p] \in inbox
    /\ Goto(p, "persist")
    /\ markAt' = [markAt EXCEPT ![p] = now]
    /\ UNCHANGED <<rows, now, mail, faults, todo, out, digest, ctxDone>>

\* Fault: a Notify error is logged and passed over, and the deals are marked.
NotifyFailsMarking(p) ==
    /\ pc[p] = "sending" /\ Fails(p)
    /\ Goto(p, "persist")
    /\ markAt' = [markAt EXCEPT ![p] = now]
    /\ UNCHANGED <<rows, now, mail, todo, out, digest, ctxDone>>

NotifyFails(p) ==
    /\ pc[p] = "sending" /\ Fails(p)
    /\ Exit(p)
    /\ UNCHANGED <<rows, now, mail>>

\* notifyAndPersist, second half: a mark that fails is logged and passed over.
Mark(p) ==
    /\ Visiting(p, "persist") /\ Succeeds(p)
    /\ LET m == Head(todo[p]) IN MarkSeen(m.deal, m.ruleName, markAt[p])
    /\ UNCHANGED out

MarkFails(p) == Visiting(p, "persist") /\ Fails(p) /\ UNCHANGED <<rows, out>>

\* prune, the last call of Run, and the process's end
PruneOff(p) ==
    /\ pc[p] = "prune" /\ RetentionDays <= 0
    /\ Exit(p)
    /\ UNCHANGED <<rows, now, mail, faults>>

PruneOld(p) ==
    /\ pc[p] = "prune" /\ RetentionDays > 0 /\ Succeeds(p)
    /\ Prune(Cutoff)
    /\ Exit(p)
    /\ UNCHANGED <<now, mail>>

PruneFails(p) ==
    /\ pc[p] = "prune" /\ RetentionDays > 0 /\ Fails(p)
    /\ Exit(p)
    /\ UNCHANGED <<rows, now, mail>>

EndOfLoop(p) ==
    \/ NextStage(p, "filter", "enrich")
    \/ NextStage(p, "enrich", "dedup")
    \/ NextStage(p, "persist", "prune")

Step(p) ==
    \/ FetchDeals(p) \/ FetchDealsFails(p)
    \/ FilterCandidate(p)
    \/ EnrichOne(p) \/ EnrichFails(p)
    \/ LookUp(p) \/ LookUpFails(p)
    \/ NothingFresh(p) \/ CallNotify(p)
    \/ NotifyReturnsNil(p) \/ NotifyFails(p)
    \/ Mark(p) \/ MarkFails(p)
    \/ PruneOff(p) \/ PruneOld(p) \/ PruneFails(p)
    \/ EndOfLoop(p)

-----------------------------------------------------------------------------
(* What happens around a pod.                                              *)

\* SIGINT or SIGTERM: signal.NotifyContext cancels the run's context.
Signal(p) ==
    /\ pc[p] # "idle" /\ ~ctxDone[p] /\ faults < MaxFaults
    /\ ctxDone' = [ctxDone EXCEPT ![p] = TRUE]
    /\ faults' = faults + 1
    /\ UNCHANGED <<rows, now, mail, pc, todo, out, digest, markAt>>

\* SIGKILL, an eviction or the node's death.
Kill(p) ==
    /\ pc[p] # "idle" /\ faults < MaxFaults
    /\ faults' = faults + 1
    /\ Exit(p)
    /\ UNCHANGED <<rows, now, mail>>

Accept(d) ==
    /\ inflight' = inflight \ {d} /\ inbox' = inbox \cup {d}
    /\ UNCHANGED <<rows, now, sends, faults, pc, todo, out, digest, ctxDone, markAt>>

\* A digest nobody waits for any more may be lost.
Lose(d) ==
    /\ \A p \in Pods : digest[p] # d
    /\ inflight' = inflight \ {d}
    /\ UNCHANGED <<rows, now, inbox, sends, faults, pc, todo, out, digest, ctxDone, markAt>>

Tick ==
    /\ now < MaxTime
    /\ now' = now + 1
    /\ UNCHANGED <<rows, mail, faults, pc, todo, out, digest, ctxDone, markAt>>

Next ==
    \/ \E p \in Pods : StartRun(p) \/ StartRunFails(p) \/ Step(p) \/ Signal(p) \/ Kill(p)
    \/ \E d \in inflight : Accept(d) \/ Lose(d)
    \/ Tick

Spec == Init /\ [][Next]_vars

\* A pod that runs makes progress, the schedule keeps firing and the mail
\* server answers: it accepts a digest whose sender waits for it.
Fairness ==
    /\ \A p \in Pods : WF_vars(StartRun(p)) /\ WF_vars(Step(p))
    /\ WF_vars(\E p \in Pods : digest[p] \in inflight /\ Accept(digest[p]))

FairSpec == Spec /\ Fairness

=============================================================================
