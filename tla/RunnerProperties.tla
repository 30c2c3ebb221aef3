-------------------------- MODULE RunnerProperties --------------------------
(***************************************************************************)
(* What the pipeline of Runner.tla must never do, and what it must get     *)
(* done in the end.                                                        *)
(***************************************************************************)
EXTENDS Runner

Mails == inflight \cup inbox

KeysOf(d) == {Key(d.lines[i].deal) : i \in DOMAIN d.lines}

Accepted(k) == {d \in inbox : k \in KeysOf(d)}

AnnouncedKeys == UNION {KeysOf(d) : d \in inbox}

(***************************************************************************)
(* Types.  The filter loop visits candidates, the later ones matches.      *)
(***************************************************************************)
RowsTyped ==
    DOMAIN rows \subseteq DealKey /\ \A k \in DOMAIN rows : rows[k] \in Row

MailTyped == inflight \subseteq Digest /\ inbox \subseteq Digest /\ sends \in Nat

CountersTyped == now \in 0 .. MaxTime /\ faults \in 0 .. MaxFaults

TodoType(p) == IF pc[p] = "filter" THEN Seq(Candidate) ELSE Seq(MatchedDeal)

PodsTyped ==
    /\ pc \in [Pods -> Stage]
    /\ DOMAIN todo = Pods /\ DOMAIN out = Pods
    /\ \A p \in Pods : todo[p] \in TodoType(p) /\ out[p] \in Seq(MatchedDeal)
    /\ digest \in [Pods -> Digest]
    /\ ctxDone \in [Pods -> BOOLEAN]
    /\ markAt \in [Pods -> Nat]

TypeOK == RowsTyped /\ MailTyped /\ CountersTyped /\ PodsTyped

(***************************************************************************)
(* A row of the store always stands for mail that arrived: some accepted   *)
(* digest lists the row's key under the row's rule.  Otherwise a failed or *)
(* killed Notify (runner.go:166, "those deals must re-appear next time")   *)
(* would lose its deals for good, and so would an upsert that pairs one    *)
(* rule's mark with another rule's digest.                                 *)
(***************************************************************************)
RecordedWasDelivered ==
    \A k \in DOMAIN rows :
        \E d \in inbox : \E i \in DOMAIN d.lines :
            Key(d.lines[i].deal) = k /\ d.lines[i].ruleName = rows[k].ruleName

(***************************************************************************)
(* Every line of every digest, sent or arrived, is a deal the user can buy *)
(* and asked for: an IN-STOCK size is one the named rule wants (the        *)
(* evaluator's "stock unknown" fallback of filter.go:61 must never decide) *)
(* and price and discount are within that rule.  A listing's match must    *)
(* not survive the shop's later answer.                                    *)
(***************************************************************************)
Buyable(r, d) ==
    /\ MatchesName(r, d) /\ MatchesMaxPrice(r, d) /\ MatchesMinDiscount(r, d)
    /\ \E i \in InStockSizes(d) :
          r.sizes = {} \/ {d.sizes[i].label, d.sizes[i].code} \cap r.sizes # {}

LinesAreBuyable ==
    \A d \in Mails : \A i \in DOMAIN d.lines :
        \E r \in DOMAIN Rules :
            Rules[r].name = d.lines[i].ruleName /\ Buyable(Rules[r], d.lines[i].deal)

(***************************************************************************)
(* An announcement is repeated only for a reason, and a reason buys a      *)
(* bounded number of repeats: a fault between the mail server's acceptance *)
(* and the mark buys one; so does every other pod that looks the key up    *)
(* before the mark (policy Allow); and when a retention has passed, all    *)
(* pods may announce the key again.  Overlapping pods may do so more than  *)
(* once per retention, since the upsert compares nothing: a pod that is    *)
(* late to mark puts the time it read before its loop over a newer one     *)
(* (runner.go:176, sqlite.go:91-106), and the next prune forgets the row   *)
(* too early.  Each late mark does that once, and a pod that is late has   *)
(* not announced the key in the meantime.                                  *)
(*                                                                         *)
(* For Allow with pruning, if no listing names a key twice: a late pod     *)
(* would then have two such marks.  Not for Replace, whose cancelled pods  *)
(* cost nothing.                                                           *)
(***************************************************************************)
ExpiriesBy(t) ==
    IF RetentionDays < 0 THEN 0 ELSE t \div (RetentionDays * Day + 1)

PodsTogether == IF ConcurrencyPolicy = "Forbid" THEN 1 ELSE Cardinality(Pods)

\* With i late pods left the other ones announce: 1 + 2 + ... + PodsTogether.
RepeatsPerExpiry == (PodsTogether * (PodsTogether + 1)) \div 2

RepeatsHaveAReason ==
    \A k \in AnnouncedKeys :
        Cardinality(Accepted(k)) <= PodsTogether + RepeatsPerExpiry * ExpiriesBy(now) + faults

(***************************************************************************)
(* Pruning removes only rows that are older than the retention             *)
(* (values.yaml:199, "Days of state to retain before pruning old rows").   *)
(***************************************************************************)
PrunesOnlyExpired ==
    [][\A k \in DOMAIN rows \ DOMAIN rows' :
          now - rows[k].notifiedAt > RetentionDays * Day]_vars

(***************************************************************************)
(* Read as a ledger, the store and the mail behave as Ledger.tla promises. *)
(***************************************************************************)
L == INSTANCE Ledger WITH known <- DOMAIN rows, handed <- inflight, announced <- inbox

KeepsTheLedger == L!Spec

(***************************************************************************)
(* Once the faults stop, every deal that the shop lists and that a rule    *)
(* wants in the sizes in stock gets announced and recorded, again and      *)
(* again if need be: a failed lookup, enrichment, mail or mark, a signal   *)
(* or a kill is made good by a later run, and what was pruned comes back.  *)
(* For a shop with one listing and one answer per endpoint.                *)
(***************************************************************************)
Listed == UNION {{s[i] : i \in DOMAIN s} : s \in Listings}

WantedDeal(c) ==
    \E sizes \in AnswersFor(c) : \E r \in DOMAIN Rules :
        Buyable(Rules[r], [c EXCEPT !.sizes = MergeLabels(c.sizes, sizes)])

Wanted == {Key(c) : c \in {c \in Listed : WantedDeal(c)}}

EventuallyRecorded == \A k \in Wanted : []<>(k \in DOMAIN rows)

(***************************************************************************)
(* Without persistence (store.path ":memory:") a run knows no earlier run: *)
(* "Every deal still in stock will be re-notified when the next CronJob    *)
(* run fires" (values.yaml:181).  A faultless run that reached its prune   *)
(* sent every wanted deal, however many runs sent it before.               *)
(***************************************************************************)
MemoryRenotifies ==
    \A p \in Pods : pc[p] = "prune" => Wanted \subseteq KeysOf(digest[p])

(***************************************************************************)
(* README.md:7-8: "the same deal is never announced twice".                *)
(***************************************************************************)
AnnouncedLines == UNION {{<<d, i>> : i \in DOMAIN d.lines} : d \in inbox}

NeverAnnouncedTwice ==
    \A m, n \in AnnouncedLines :
        Key(m[1].lines[m[2]].deal) = Key(n[1].lines[n[2]].deal) => m = n

(***************************************************************************)
(* deal.go:48-50: the listing's sizes are "deliberately not trusted for    *)
(* the size filter".  A faultless run over the shop's one listing leaves   *)
(* no wanted deal unrecorded.                                              *)
(***************************************************************************)
ListingSizesAreNotTrusted ==
    \A p \in Pods : pc[p] = "prune" => Wanted \subseteq DOMAIN rows

(***************************************************************************)
(* runner.go:204-206: ErrRunFailed "is returned by Run when the pipeline   *)
(* could not complete", so that main exits non-zero and the Job is tried   *)
(* again.  For a shop with one listing and one answer per endpoint: a run  *)
(* that is cancelled and ends with nil has recorded what it is there for.  *)
(***************************************************************************)
NilMeansComplete ==
    \A p \in Pods : pc[p] = "prune" /\ ctxDone[p] => Wanted \subseteq DOMAIN rows

=============================================================================
