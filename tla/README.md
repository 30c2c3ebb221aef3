# uniqlo-deal-hunter in TLA+

`uniqlo-deal-hunter` is a one-shot Go program that a Kubernetes CronJob runs
twice a day. One run fetches a shop's discounted items, keeps those a
configured rule wants, asks the shop which sizes are in stock, drops what an
SQLite table says was announced before, mails the rest as one digest and
records it. This directory holds its formal model: TLA+ modules, TLC
configurations that check them on small instances, and TLAPS proofs of the
main theorems for all values of the parameters.

Paths below are relative to the repository root. Line numbers refer to the
modelled commit.

## 1. Inventory

| Part | State it keeps | Operations | Talks to |
|---|---|---|---|
| Runner, `internal/app/runner.go` | none between runs; in a run the list each stage hands to the next | `Run`: `filterCandidates`, `enrichAndReconfirm`, `filterNew`, `notifyAndPersist`, `prune` | source, evaluator, store, notifier (calls) |
| Deal, `internal/deal` | none (values) | `Key`, `DiscountPercent`, `InStockSizeLabels`, `Validate` | used by all |
| Evaluator, `internal/filter` | the rules | `Match` and its four conditions | pure |
| Store, `internal/store/sqlite` | table `notified_deals` (product, cents) -> (rule, time) | `Open`, `IsNew`, `MarkSeen`, `Prune`, `Close` | a file shared by all pods, or the process's memory |
| Notifier contract, `internal/notifier` | - | `Notify`: all recipients and nil, or an error | - |
| SMTP notifier, `internal/notifier/smtp` | during a call: a goroutine, a channel of capacity 1, a context with a timeout | `Notify`, `sendWithContext`, `send`, `negotiate`, `writeEnvelope`, `writeBody` | the mail server |
| Uniqlo client, `internal/source/uniqlo/client.go` | the rate limiter's tokens, a retry counter, a backoff | `getJSON`, `doOnce`, `isRetryable`, `sleep` | the shop's API |
| Listing and detail, `listing.go`, `detail.go`, `mapper.go` | the page offset | `FetchDeals`, `ResolveSizes`, `collapseSizes`, `mapItem` | the client |
| Header caches, `version.go`, `useragent.go` | a value resolved once per process | `Get`, `Resolve` | the shop's page, a user agent list |
| Configuration, `internal/config` | the `Config` that `Load` changes in place, fixed afterwards | `Load`, `applyDefaults`, `validate` and its four sections | read once by all |
| Process, `cmd`, and chart, `charts/` | pods | `run`, `assemble`, SIGTERM, kill, concurrency policy, retries | loads the configuration, runs the runner |
| Logging, `internal/logging` | - | - | - |

What makes it hard:

* **Two resources, no transaction.** The mail server's acceptance and the
  store's upserts are separate steps, one upsert per deal. A kill, a SIGTERM,
  a failed upsert or a mail timeout between any two of them must lead to a
  repeated mail at worst, never to a lost deal.
* **Overlapping pods.** The policy `Allow` or a manual job lets two runs
  interleave between lookup, mail, mark and prune; `Replace` cancels a run in
  mid-stage while the next one already works.
* **Stale data.** The listing's sizes and the rule it matched are replaced by a
  second request's answer; the evaluator has a "stock unknown" mode that must
  not decide a digest.
* **Cancellation as a partial failure.** Every enrichment, lookup and mark of a
  cancelled run fails and is passed over, and the run still ends as a success.
* **A blocking library in a goroutine.** `net/smtp` has no deadline of its own;
  the select in `sendWithContext` abandons the goroutine, which goes on.
* **Numbers.** Rounding to cents, truncation of the discount, a retention
  multiplied into a 64-bit duration, a boundary compared with `<`, settings of
  which zero means "default" and a negative value means whatever it means
  downstream.
* **A shop that moves.** Pages are positions of a listing that changes between
  two requests, and the offset trusts the counts the shop sends.
* **Loops over maps.** `collapseSizes` and `mergeLabels` must not depend on the
  order of the rows.

What makes each part correct:

* runner: a recorded deal was delivered; what is announced can be bought and
  was asked for; a repeat has a cause; what failed is made good later;
* store: keys are looked up, marked and pruned as one table, pruning spares
  what is younger than the retention;
* evaluator: the first rule all of whose conditions hold;
* notifier: everyone or no one, nil only after everyone, always returns;
* client: at most `MaxRetries + 1` requests, none after cancellation, errors
  are never reported as success;
* listing and detail: every mappable item of the listing once, candidates that
  the rest can compute with, a size in stock iff some colour has it, under the
  label of the listing;
* configuration: what `validate` accepts is what the other parts assume, and
  nothing is refused without a reason.

## 2. Modules

```
Settings --+
Deal ------+- Filter --+                        Ledger (abstract)
           |           +-- Runner -- RunnerProperties -- MCRunner
           +- Store ---+                  |
           |                       RunnerProofs -- RunnerSafetyProofs -- RunnerLedgerProofs
           +- Models --+-- Listing -- MCListing, ListingProofs
                       +-- Sizes ---- MCSizes, SizesProofs

Settings -- Startup -- MCStartup, StartupProofs

NotifyContract (abstract) <-- SmtpNotifier -- SmtpNotifierProofs

FetchContract (abstract) <-- HttpClient -- HttpClientProofs, MCHttpClient
```

**`Settings`** is the seam to the configuration: what a valid rule list is, and
which numbers remain once zero has been replaced. `Filter` assumes it of its
constants, `Startup` shows it of every process that runs.

**`Startup`** is `config.Load`, `run` and `assemble`, function by function:
decode, defaults, the four validations with the loop over the rules, the
password file, the store. `rules` is the list that the loop writes the compiled
patterns into, `numbers` the five settings with a default, `unfit` the fields
that `validate` would refuse (of those the model keeps only which), `auth`
which of username and password file are set. `CannotUse` is a file that cannot
be read, decoded or opened.

**`Deal`, `Filter`, `Store`** are the operators and the table the runner is
built from. Prices are natural numbers of mills (a tenth of a cent), one digit
finer than the cents of the key, so `Key` rounds and `DiscountPercent`
truncates as the code does. A compiled regular expression is the set of the
names it matches. `Match` returns the first matching rule's position, 0 for
nil. `Store` has one variable, `rows`, a function from the primary key to rule
name and time; each SQL statement is one atomic action, because the handle has
one connection and SQLite serialises writers on one file.

**`Runner`** is the pipeline. A pod is a process with a program counter `pc`,
the items its current loop still visits (`todo`), the items it has kept
(`out`), the digest it sent, its context's state and the time it marks with.
One action is one loop iteration with the one call it makes (`FilterCandidate`,
`EnrichOne`, `LookUp`, `Mark`), each call has its failing twin (`EnrichFails`,
`LookUpFails`, `MarkFails`, `NotifyFails`, `FetchDealsFails`, `PruneFails`)
that does what the code's error path does: skip the item, or end the run.
`CreatePod` is the CronJob under one of its three policies; the process it
creates gets to the pipeline (`StartRun`) or not (`StartRunFails`), as
`Startup` describes. Retries of a Job and restarts of a pod are pods created at
any time: the chart's `backoffLimit` only makes for fewer of them.
`activeDeadlineSeconds` and evictions are `Signal` and `Kill`. `Signal` is SIGTERM
(every later call of that pod fails), `Kill` ends a process between any two
steps. `Accept` is the mail server taking a digest over: at any time after
`CallNotify`, necessarily before `NotifyReturnsNil`, possibly after Notify has
failed or the process has died; `Lose` is a digest that never arrives. `Wrap`
is two's-complement arithmetic of a `time.Duration`, used in `Cutoff`.

**`RunnerProperties`** states what must hold of it; **`Ledger`** is the
abstract specification: a set of known keys and two sets of digests, handed
over and arrived. **`MCRunner`** holds the small shops and rule lists.

**`SmtpNotifier`** is one call of `Notify`: `caller` (render, select), `sender`
(the goroutine's place in the SMTP dialogue), `errCh`, and a server that does,
refuses or never answers each command, over a connection that may break before
or after the command took effect. **`NotifyContract`** is what `Runner` assumes
of that call; it is the same protocol as `CallNotify`, `Accept`, `Lose`,
`NotifyReturnsNil` and `NotifyFails`.

**`HttpClient`** is a sequence of `getJSON` calls of one process: the retry
loop (`EnterLoop`, `GiveUp`, `BackOff`), the limiter and the sleep, each a
select between its own end and the context's, the two header caches that
`doOnce` fills on first use, and the round trip. A cache is filled by one probe
per process: the user agent's asks the Chromium dashboard, the version's asks
the shop, under the configured user agent and without a version, whether or not
the live user agent is known by then. `shown` remembers which two headers the
last request to the shop had, `sent` counts the requests to the API, the probes
aside. `FetchContract` is what the runner assumes of a call: an answer or an error, after a bounded number of
requests. `MaxRetries` and `positive` are what a configuration may hold after
`applyDefaults` (0 is no value of `MaxRetries`, but -1 is): `positive` is
chosen in the initial state and says whether the timeout and the request rate
are above zero. A timeout that is not is none; at a rate that is not, the
limiter may grant nothing.

**`Models`** holds the shop's replies as `models.go` decodes them (an optional
price is a set of at most one) and `mapItem` with `pickPrice`,
`mapListingSizes` and `Candidate.Validate`: the candidate of an item, or none.

**`Listing`** is one `FetchDeals` call: a page request, then the loop over the
page's items, then the offset's step and the decision to go on (`PageMapped`),
with the shop inserting and removing items between pages. The page carries the
total of that moment and its own count, unless the shop leaves counts out
(`counts`). `stayed`, `insertions` and `removals` are history variables for the
properties.

**`Sizes`** is what `enrichOne` does to one deal's sizes: `ResolveSizes` with
the loop of `collapseSizes`, then the two loops of `mergeLabels`, one iteration
a step. Go's map of pointers is the function `seen`, its insertion order the
sequence `order`. `Runner` takes the result of the first for any member of
`Answers` and of the second for the operator `MergeLabels`; `LabelsAsListed`
says that the loops compute that operator.

The contracts are the seams: `Runner`'s `FetchDeals`/`FetchDealsFails` and
`EnrichOne`/`EnrichFails` are a call of `FetchContract`, its
`CallNotify`..`NotifyFails` one of `NotifyContract`; `Listing` says which
sequences `FetchDeals` may put into `todo` when the shop changes under it,
`Sizes` what `EnrichOne` makes of an answer, `Startup` which constants a run
can have.

Operators named after a fault (`NotifyFailsMarking`, `PruneInclusive`, ...)
stand beside the definition they distort. No specification uses them; each
shows one property to be sensitive to one plausible bug.

## 3. Runs

| Run | Instance | Checks | Shows |
|---|---|---|---|
| `forbid` | 2 pods, Forbid, 3 listed products (2 wanted), changing stock, retention 1 day, 2 faults, clock 0..2, 4 mails | `TypeOK`, `RecordedWasDelivered`, `LinesAreBuyable`, `RepeatsHaveAReason`, `PrunesOnlyExpired`, `KeepsTheLedger` | the pipeline's safety under the chart's default policy |
| `allow` | 2 pods, Allow, 1 product, retention 1 day, 1 fault, clock 0..2, 7 mails, fairness | `RecordedWasDelivered`, `RepeatsHaveAReason`, `EventuallyRecorded` | overlap loses nothing, and late marks and pruning cost no more repeats than counted below; every wanted deal is recorded again and again |
| `memory` | 1 pod, no persistence, a negative retention (no pruning), 3 mails | `MemoryRenotifies` | each run announces everything anew |
| `smtp` | 3 recipients, STARTTLS and AUTH, fairness | `TypeOK`, `HonoursContract`, `NotifyReturns`, `VerdictIsTaken` | the SMTP call keeps its contract and returns |
| `http` | 2 calls, 2 retries, timeout and rate positive or not, cancellation, fairness | `TypeOK`, `IdentitySettles`, `KeepsContract`, `CallsReturn`, `CancelEndsCalls` | the retry loop's outcomes; from the first API request on the shop sees the same headers; a timeout and a positive rate end a call although the shop is silent, and SIGTERM ends it without either |
| `listing` | all listings of at most 4 of 6 items (three map; one has no promo price, one a blank name, one a negative price), pages of 2, 2 changes, with or without counts, fairness | `TypeOK`, `MissesNeedRemovals`, `RepeatsNeedInsertions`, `OnlyValidDeals`, `FetchEnds` | pagination loses or repeats an item only for a change, one per change, returns valid candidates only, and ends |
| `sizes` | all replies of at most 3 of 6 kinds of rows, 65 stock maps, all listings of at most 2 of 4 sizes | `TypeOK`, `StockOfAnyColour`, `LabelsAsListed` | the loops compute "any colour" and the listing's labels, in every order of rows |
| `startup` | at most one unfit field, all lists of at most 2 of 7 rules, all numbers -1, 0 or 7, all credentials, every file usable or not | `TypeOK`, `RunsAsAssumed`, `FailsForAReason` | what runs is configured as the other modules assume, what does not run has a reason |

Four runs end in a counterexample. They check what a document or comment says
and the code does not do:

| Run | What is said | What happens |
|---|---|---|
| `colours` | README.md:7-8, "the same deal is never announced twice", and deal.go:78-79 | a product in two price groups at one price is two candidates with one key, both pass the store's lookup, one digest has both |
| `sparse` | deal.go:48-50, listing sizes are "deliberately not trusted" | a product whose listing lacks the wanted size is dropped before the detail endpoint is asked |
| `http_no_attempt` | config.go:1-3, "the run loop can assume every field is well-formed" | `maxRetries: -1` passes the validation, no request is made and the call returns nil: the run succeeds with an empty listing |
| `silent_cancel` | runner.go:204-206, `ErrRunFailed` "is returned by Run when the pipeline could not complete" | a SIGTERM after the fetch makes every later call fail and be skipped; `Run` returns nil, the Job is not tried again |

Four more statements of the documents are weaker in the code, and the passing
runs say by how much. "Until every item has been retrieved" (listing.go:11-12):
an item may slip onto a page already read when another one leaves the listing,
one per removal and no more (`MissesNeedRemovals`). "Atomic" (notifier.go:19-21): a
timeout after acceptance, or a failed QUIT, is an error for a delivered digest;
`NotifyContract` allows it, and `RepeatsHaveAReason` counts it as a fault.
"Days of state to retain" (values.yaml:199): above 106751 days the duration
wraps around, so `PrunesOnlyExpired` needs `RetentionDays * Day <= HalfRange`,
the assumption of its theorem. "Used ONLY as a fallback" (config.go:140-142):
the version's probe always carries the configured user agent
(version.go:52, client.go:62), so the shop may see a second one, before the
first API request and never after it (`IdentitySettles`).

### Bounds, and why they are enough

* `MaxFaults` is a budget shared by failed calls, signals and kills. Two let a
  fault hit a run and then the run that repairs it.
* `MaxSends` bounds the mails, and so the runs that matter: the CronJob stops
  once it is used up. Four mails cover a first announcement, two repeats by
  faults and one by retention. `allow` has seven, one more than the six its
  `RepeatsHaveAReason` grants. Because the system stops there (and when the
  clock reaches `MaxTime`), deadlock is not checked.
* `MaxTime = 2` with a retention of 1 day reaches an age below, at and above
  the boundary of `Prune`, and in `allow` a mark that is two days late.
* One product is enough for `allow`: `RepeatsHaveAReason` counts one key at a
  time.
* Two pods are what an overlap needs; symmetric in runs without liveness.
* The shop has a product both rules want, one that is exactly at the second
  rule's discount bound and has no price group, and one nobody wants. The first
  rule asks for size M; the detail endpoint answers M in stock, only L in
  stock (the second rule takes over) and nothing in stock.
* Two calls of the client show that the caches survive a call and the loop's
  state does not; two retries have a first, a middle and a last attempt.
* Pages of two with up to six items give full pages, a short one, an empty one
  and lengths on either side of a page boundary; two changes are two
  insertions, two removals or a move. Three items that map and one for each of
  three reasons not to.
* Three rows hold one size in three colours, or two sizes with one of them
  twice, in every order. Stock is missing, good, or bad in one of its three
  fields. A listing of two sizes names one code twice, once without a label.
* One unfit field refuses a configuration; two would be refused for the first.
  Two rules are a first and a second iteration. The numbers of one file are
  alike, as no step relates one to another.
* Three recipients: a first, a middle and a last `RCPT`.

### Fairness

`allow` assumes weak fairness of a pod's start (the schedule keeps firing), of
a pod's steps (the process is scheduled; loops and calls end, a call that fails
is a step too) and of the mail server accepting a digest whose sender waits.
`smtp` assumes weak fairness of the caller, of the timeout and of the
goroutine, and nothing at all of the server: `sendWithContext` promises to
return without it. `http` assumes it of the process's own steps and nothing of
the shop; `StepIsDue` takes from it the wait for a token at a rate that is not
positive, which only the context ends. `listing` assumes what `CallsReturn`
shows, that a page request returns (`Advancing`); it does not count on its
failure to end a loop that gets nowhere. `sizes` and `startup` check safety
only.

### How the properties read

* `RepeatsHaveAReason` counts, for every key, the accepted digests that list
  it (digests, not lines: `colours` is about two lines of one digest). There
  may be one per pod that can look up together (`PodsTogether`, 1 under
  Forbid), and one more per fault. For each retention period that has passed
  (`ExpiriesBy(now)`; a deal listed for longer than the retention is pruned and
  announced again) there may be `1 + 2 + ... + PodsTogether` more: the upsert
  compares nothing, so a pod that is late to mark puts its older time over a
  newer one, the row is pruned before its time, and the pods that are not late
  announce the key again. Under Allow with pruning the bound needs listings
  that name no key twice: a late pod with two lines of one key has two such
  marks, and TLC finds one mail more than the bound for the two colours of
  `colours`. `Replace` has no such bound.
* `EventuallyRecorded` is `[]<>(k \in DOMAIN rows)` for every wanted key of a
  shop that stays as it is: also a row that was pruned comes back.
* `LinesAreBuyable` restates the rule without the evaluator's "stock unknown"
  mode: some size is in stock *and* wanted. It relates the digest to the rule
  it names, not to the code path that chose it.
* `RunsAsAssumed` is the other side of the assumptions that the modules make of
  their constants: valid rules, no zero among the numbers, a password for every
  user. Nothing says that the numbers are positive; `http_no_attempt` and
  `positive` show what follows.
* `MissesNeedRemovals` compares what the call returns with the items listed all
  the time: those it lacks are at most as many as the items removed. It speaks
  of shops that count their pages; without counts the call ends after one page
  (`FetchEnds`).
* `StockOfAnyColour` and `LabelsAsListed` state the result of the loops from
  the reply and the listing alone, without the loops' variables.
* `KeepsTheLedger` is refinement: `known` is the set of the rows' keys,
  `handed` and `announced` are the mails. It is a theorem for Forbid only;
  with overlapping pods a digest may name a key that the other pod has marked
  in the meantime.

## 4. Theorems

All are for arbitrary rules, listings, answers, pods and bounds, from the
assumptions `RulesAssumption` (what `Startup` establishes), `RunnerAssumption`,
`SmtpAssumption`, `HttpAssumption`, `StartupAssumption`, `SizesAssumption` and
`ListingAssumption`. No run uses the policy `Replace`; the first four theorems
cover it.

| Theorem | States | Argument |
|---|---|---|
| `TypeCorrect` | `Spec => []TypeOK` | `TypeOK` is inductive; the filter loop visits candidates, later loops matches, which is why `TodoType` depends on `pc` |
| `DeliveredBeforeRecorded` | `Spec => []RecordedWasDelivered` | inductive with: in `persist`, `todo` is a suffix of the lines of an accepted digest; digests in `inbox` never leave |
| `DigestsAreBuyable` | `Spec => []LinesAreBuyable` | inductive with: what `enrich` keeps, and `dedup` visits and keeps, is buyable; the lemma is that `Match` with a size in stock implies `Buyable` |
| `PruningSparesTheYoung` | `Spec => PrunesOnlyExpired` | for a persistent store and `RetentionDays * Day <= HalfRange`; then `Wrap` is the identity on the cutoff |
| `OnePodRepeatsForAReason` | `Spec => []RepeatsHaveAReason` under Forbid, for a persistent store, finitely many pods and `RetentionDays * Day <= HalfRange` | the accounts below |
| `OverlappingPodsRepeatForAReason` | `Spec => []RepeatsHaveAReason` under Allow, for a persistent store, finitely many pods, `RetentionDays * Day <= HalfRange`, and pruning off or listings that name no key twice | the accounts below |
| `FaultlessRunsRecordTheWanted` | `Spec => []ListingSizesAreNotTrusted` without faults, for a persistent store, a steady shop, and listed sizes that let the wanted deals pass (`ListedSizesSuffice`); under Forbid, or under Allow with pruning off | inductive with `CarriesWanted`: every wanted key is in the store or in one of the two lists a stage reads and writes; a step moves it from the first to the second, and a mark into the store. It is what `sparse` refutes with its listed sizes put right |
| `MemoryRunsRenotify` | `Spec => []MemoryRenotifies` without faults, for the same shop | `CarriesWanted`, and up to the first mark the store is empty, so no wanted key is dropped and the digest has them all |
| `ImplementsLedger` | `Spec => KeepsTheLedger` under Forbid | inductive with: at most one pod runs, and what `dedup` has kept is not in the store; each step maps to a ledger step or a stutter |
| `SmtpTypeCorrect` | `Spec => []TypeOK` | part of the invariant below |
| `ImplementsContract` | `Spec => HonoursContract` | inductive with: the server knows each recipient the goroutine has named, hence all of them once `DATA` is due; a nil verdict, wherever it is, means the mailbox is full |
| `HttpTypeCorrect` | `Spec => []TypeOK` for `MaxRetries >= 0` | with the invariant below; contains `attempt <= MaxRetries` |
| `IdentityStays` | `Spec => IdentitySettles` for `MaxRetries >= 0` | inductive with: once a request has shown both headers, they are the cached ones; a cached header never changes and is probed no more |
| `ImplementsFetch` | `Spec => KeepsContract` for `MaxRetries >= 0` | inductive with: before its request an attempt has sent at most `attempt` requests; only a reply of the current attempt can be usable |
| `StartupTypeCorrect`, `RunningIsConfigured`, `FailuresHaveReasons` | `Spec => []P` for `Startup`'s `TypeOK`, `RunsAsAssumed`, `FailsForAReason` | one invariant: the rules before `next` fit and are compiled; each place in the sequence knows what the validations before it have left |
| `SizesTypeCorrect`, `AnyColourCounts`, `ListedLabelsWin` | `Spec => []P` for `Sizes`' `TypeOK`, `StockOfAnyColour`, `LabelsAsListed` | three loop invariants. After `n` rows (`SeenFor`): `seen` has exactly their codes, each with the stock of any of them and the first one's label, and `order` lists them once. After `n` listed sizes (`LabelsFor`): `labelByCode` has the last label that is not empty. After `n` sizes (`SizesFor`): these are relabelled, the others not |
| `ListingTypeCorrect` | `Spec => []TypeOK` for `Listing` | part of the invariant below |
| `RemovalsBoundLosses` | `Spec => []MissesNeedRemovals` | up to the front (the offset, or the item that is mapped) at most `removals` items that stayed are missing; a removal before the front moves one unread item behind it, an insertion none; at the end the front is the listing's length |
| `InsertionsBoundRepeats` | `Spec => []RepeatsNeedInsertions` | the repeats so far and the items ahead of the front that were read already are at most `insertions` together: an insertion before the front pushes one read item ahead, mapping it again turns it into a repeat |
| `CandidatesAreValid` | `Spec => []OnlyValidDeals` | the call returns mappable items only; a lemma says what `MapItem` makes of one |

The two bounds on repeats are counting arguments over the whole history of
mails, one account per key. `Sent(k)` are the digests with the key, on their
way or accepted. A pod owes a key (`Owes`) from the moment it hands over the
digest until it marks the key; a cancelled pod owes what it sent until it ends.
`Credit` is the number of faults, less the cancelled pods: their faults count
once the pod is gone. `Debt(k)`, the pods that owe the key and the credit, is
the number of sent digests that may lack a mark. Under Forbid (`CountInv`), a
key without a row was sent at most `ExpiriesBy(now) + Debt(k)` times; one with
a row at most `1 + ExpiriesBy(notifiedAt) + Credit` times, `notifiedAt` being
the time of its row; and a pod that is about to mark has the same bound for the
time it will write. `TimesInv` relates these times: at most one pod runs, no row
is later than now, and what a pod marks is no older than any row; so a pruned
row has paid for one more expiry.

Under Allow a mark may bring an older time, so the argument (`WindowInv`) is by
windows: the times with the same `ExpiriesBy`. A row is `Live` if its time is of
the current window, a pod is `Late` for a key if its mark is still to come and
brings a time of an earlier one. While no row of this window stands, whatever
the window has sent is still owed. Once one stands, only the pods that looked
the key up before (`Prospects`) can announce it again, and nobody joins them.
The row falls only to a late mark, which lets the other pods announce the key
once more, but with one late pod less: `Reruns(n)` is what `n` late pods can
still cost, and each of them has kept back an announcement of its own. A new
window can make every pod late, and pays for all of them with
`RepeatsPerExpiry`. That a late pod has one such mark per key is `KeysOnce`,
which follows from the listing through the loops of every stage; with pruning
off nobody is late and it is not needed.

Both arguments rest on `NextPays`: no step but the key's mark lowers its debt,
and none the credit. `Replace` is left out: its cancellations are no faults,
and it gives no such bound.

No hypothesis of the pipeline's theorems is out of the code's reach. `forbid`
is an instance of those about Forbid and, without its faults and with a steady
shop, of `FaultlessRunsRecordTheWanted`; `allow` is one of
`OverlappingPodsRepeatForAReason` and `memory` of `MemoryRunsRenotify`.

What stays with TLC: the liveness properties (`EventuallyRecorded`,
`NotifyReturns`, `VerdictIsTaken`, `CallsReturn`, `CancelEndsCalls`,
`FetchEnds`; fairness is out of the prover's reach), and the four
counterexamples. Every invariant and action property of a passing run is a
theorem.

## 5. Not modelled, and the plan

Left out for good: logging, the digest's layout and MIME encoding, URL
building, the YAML and JSON decoders (each decodes or fails), the regular
expression engine, TLS and AUTH beyond "done or failed", SQLite's internals.

There is no clock in the client: the limiter's rate and the backoff's length
are left out, a token comes and a sleep ends at any moment. What a limiter does
at a negative rate is not taken from its source; the model lets it grant a
token or never grant one.

`Runner` keeps no count of a Job's restarts: `CreatePod` may create a pod at
any time the policy allows, which is more than the chart's `backoffLimit` lets
happen. Properties of the schedule itself, such as a schedule under `Replace`
that leaves a run no time to finish, depend on its intervals, not on the code.

Planned: the composition of `Runner` with `Sizes` in place of `Answers`, and of
`HttpClient` with `Listing`, as refinements of the steps they stand for.
