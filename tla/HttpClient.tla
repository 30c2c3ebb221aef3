----------------------------- MODULE HttpClient -----------------------------
(***************************************************************************)
(* internal/source/uniqlo/client.go, version.go and useragent.go: the      *)
(* getJSON calls of one process, one after the other.  A call makes up to  *)
(* MaxRetries + 1 attempts; an attempt waits for the rate limiter, fills   *)
(* in two headers, sends the request and judges the reply; between two     *)
(* attempts it sleeps.  A header is what one probe per process finds out:  *)
(* the user agent's asks the Chromium dashboard, the client version's asks *)
(* the shop, under the configured user agent and without a version.        *)
(* The run's context may be cancelled (SIGTERM) at any moment.  The shop   *)
(* may answer, refuse, break off or stay silent.                           *)
(*                                                                         *)
(* Time is left out: the limiter grants its token and a sleep ends at any  *)
(* moment.  Where a select has two cases ready, either may be taken.       *)
(***************************************************************************)
EXTENDS Integers

CONSTANTS
    MaxRetries, \* source.maxRetries, after the defaults; not validated
    MaxCalls    \* bound of the model

ASSUME HttpAssumption ==
    MaxRetries \in Int \ {0} /\ MaxCalls \in Nat

VARIABLES
    positive,   \* the settings of the client that are positive; not validated
    ctxDone,    \* whether the run's context is cancelled
    calls,      \* how many calls were made
    pc,         \* where the current call is, "idle" between two calls
    attempt,    \* the loop's counter
    lastErr,    \* "nil" or "error"
    header,     \* the cached user agent and client version
    sent,       \* how many requests the call has sent, the probes not counted
    reply,      \* the outcome of the last request
    result,     \* what the call returned
    shown       \* history: the headers of the last request to the shop

callVars == <<calls, attempt, lastErr, sent, reply, result>>
vars == <<positive, ctxDone, callVars, pc, header, shown>>

Header == {"agent", "version"}

\* Where the call waits for the answer to a header's probe.
Probe == [agent |-> "agent probe", version |-> "version probe"]

\* A timeout that is not positive is none; a limiter whose rate is not
\* positive may let a call wait for ever.
Setting == {"timeout", "requestsPerSecond"}

Failure == {"refused", "busy", "broken", "cancelled"}

Place ==
    Header \cup {Probe[h] : h \in Header}
    \cup {"idle", "head", "waiting", "request", "inflight", "replied", "sleep"}

Headers == [Header -> {"unset", "live", "fallback"}]

TypeOK ==
    /\ positive \subseteq Setting /\ ctxDone \in BOOLEAN /\ calls \in 0 .. MaxCalls
    /\ pc \in Place
    /\ attempt \in 0 .. MaxRetries
    /\ lastErr \in {"nil", "error"}
    /\ header \in Headers /\ shown \in Headers
    /\ sent \in 0 .. MaxRetries + 1
    /\ reply \in Failure \cup {"none", "ok", "garbled"}
    /\ result \in {"none", "nil", "error"}

-----------------------------------------------------------------------------

Init ==
    /\ positive \in SUBSET Setting /\ ctxDone = FALSE /\ calls = 0
    /\ pc = "idle" /\ attempt = 0 /\ lastErr = "nil"
    /\ header = [h \in Header |-> "unset"]
    /\ sent = 0 /\ reply = "none" /\ result = "none"
    /\ shown = header

Goto(from, to) == pc = from /\ pc' = to

Return(r) == pc' = "idle" /\ result' = r

\* The loop's condition before attempt n.  It can only be false before the
\* first attempt: after the last one the loop is left by GiveUp.
EnterLoop(n) ==
    /\ attempt' = n
    /\ IF n <= MaxRetries THEN pc' = "head" /\ result' = "none" ELSE Return(lastErr')

Begin ==
    /\ calls < MaxCalls /\ calls' = calls + 1
    /\ pc = "idle"
    /\ lastErr' = "nil"
    /\ EnterLoop(0)
    /\ sent' = 0 /\ reply' = "none"
    /\ UNCHANGED <<positive, ctxDone, header, shown>>

(* The limiter looks at the context before it waits for the token, and     *)
(* waits for whichever comes first.                                        *)

EnterWait ==
    /\ ~ctxDone
    /\ Goto("head", "waiting")
    /\ UNCHANGED <<positive, ctxDone, callVars, header, shown>>

TokenGranted ==
    /\ Goto("waiting", "agent")
    /\ UNCHANGED <<positive, ctxDone, callVars, header, shown>>

WaitFails ==
    /\ pc \in {"head", "waiting"} /\ ctxDone
    /\ Return("error")
    /\ UNCHANGED <<positive, ctxDone, calls, attempt, lastErr, sent, reply,
                   header, shown>>

(* doOnce: the headers, then the request.                                  *)

AfterHeader(h) == IF h = "agent" THEN "version" ELSE "request"

HeaderCached(h) ==
    /\ header[h] # "unset"
    /\ Goto(h, AfterHeader(h))
    /\ UNCHANGED <<positive, ctxDone, callVars, header, shown>>

\* What the version's probe shows the shop (version.go:52, client.go:62): the
\* configured user agent, even if the live one is known, and no version.
ProbeIdentity == [agent |-> "fallback", version |-> "unset"]

ShowProbe(h) == IF h = "version" THEN shown' = ProbeIdentity ELSE UNCHANGED shown

\* Fault: a probe that failed is tried again by the next request.
SendProbeUnlessLive(h) ==
    /\ header[h] # "live" /\ ~ctxDone
    /\ Goto(h, Probe[h])
    /\ ShowProbe(h)
    /\ UNCHANGED <<positive, ctxDone, callVars, header>>

SendProbe(h) ==
    /\ header[h] = "unset" /\ ~ctxDone
    /\ Goto(h, Probe[h])
    /\ ShowProbe(h)
    /\ UNCHANGED <<positive, ctxDone, callVars, header>>

HeaderResolved(h) ==
    /\ Goto(Probe[h], AfterHeader(h))
    /\ header' = [header EXCEPT ![h] = "live"]
    /\ UNCHANGED <<positive, ctxDone, callVars, shown>>

\* The probe cannot be sent, fails, runs out of its five seconds or is
\* cancelled.
HeaderFallsBack(h) ==
    /\ header[h] = "unset"
    /\ \E from \in {h, Probe[h]} : Goto(from, AfterHeader(h))
    /\ header' = [header EXCEPT ![h] = "fallback"]
    /\ UNCHANGED <<positive, ctxDone, callVars, shown>>

Send ==
    /\ ~ctxDone
    /\ Goto("request", "inflight")
    /\ sent' = sent + 1
    /\ shown' = header
    /\ UNCHANGED <<positive, ctxDone, calls, attempt, lastErr, reply, result, header>>

\* What ends a round trip, and with which outcome.
RoundTripEnds(from, outcome) ==
    /\ Goto(from, "replied")
    /\ reply' = outcome
    /\ UNCHANGED <<positive, ctxDone, calls, attempt, lastErr, sent,
                   result, header, shown>>

\* "ok" and "garbled" have a status below 400, "busy" is 429 or 5xx, "refused"
\* any other status; "broken" is an error of the connection or the body.
ShopAnswers ==
    \E outcome \in {"ok", "garbled", "refused", "busy", "broken"} :
        RoundTripEnds("inflight", outcome)

\* Fault: the timeout is spent on the first attempt.
TimesOutOnce == "timeout" \in positive /\ attempt = 0 /\ RoundTripEnds("inflight", "broken")

TimesOut == "timeout" \in positive /\ RoundTripEnds("inflight", "broken")

\* Fault: only the first request carries the context.
RequestCancelledOnce == ctxDone /\ attempt = 0 /\ RoundTripEnds("inflight", "cancelled")

RequestCancelled ==
    ctxDone /\ \E from \in {"request", "inflight"} : RoundTripEnds(from, "cancelled")

(* What getJSON makes of the reply.                                        *)

\* Fault: the decoder's error is dropped.
DecodeLeniently ==
    /\ pc = "replied" /\ reply \in {"ok", "garbled"}
    /\ Return("nil")
    /\ UNCHANGED <<positive, ctxDone, calls, attempt, lastErr, sent, reply,
                   header, shown>>

Decode ==
    /\ pc = "replied" /\ reply \in {"ok", "garbled"}
    /\ Return(IF reply = "ok" THEN "nil" ELSE "error")
    /\ UNCHANGED <<positive, ctxDone, calls, attempt, lastErr, sent, reply,
                   header, shown>>

Retryable == reply \in {"busy", "broken", "cancelled"}

\* Fault: the last attempt is told apart one attempt too late.
MayRetryOnceMore == Retryable /\ attempt # MaxRetries + 1

MayRetry == Retryable /\ attempt # MaxRetries

GiveUp ==
    /\ pc = "replied" /\ reply \in Failure /\ ~MayRetry
    /\ Return("error")
    /\ lastErr' = "error"
    /\ UNCHANGED <<positive, ctxDone, calls, attempt, sent, reply, header, shown>>

BackOff ==
    /\ MayRetry
    /\ Goto("replied", "sleep")
    /\ lastErr' = "error"
    /\ UNCHANGED <<positive, ctxDone, calls, attempt, sent, reply, result,
                   header, shown>>

SleepEnds ==
    /\ pc = "sleep"
    /\ UNCHANGED lastErr
    /\ EnterLoop(attempt + 1)
    /\ UNCHANGED <<positive, ctxDone, calls, sent, reply, header, shown>>

SleepCancelled ==
    /\ pc = "sleep" /\ ctxDone
    /\ Return("error")
    /\ UNCHANGED <<positive, ctxDone, calls, attempt, lastErr, sent, reply,
                   header, shown>>

Cancel ==
    /\ ~ctxDone /\ ctxDone' = TRUE
    /\ UNCHANGED <<positive, callVars, pc, header, shown>>

FillIn(h) == HeaderCached(h) \/ SendProbe(h) \/ HeaderResolved(h) \/ HeaderFallsBack(h)

Step ==
    \/ EnterWait \/ TokenGranted \/ WaitFails
    \/ \E h \in Header : FillIn(h)
    \/ Send \/ TimesOut \/ RequestCancelled
    \/ Decode \/ GiveUp \/ BackOff
    \/ SleepEnds \/ SleepCancelled

Next == Begin \/ Step \/ ShopAnswers \/ Cancel

Spec == Init /\ [][Next]_vars

\* The wait for a token ends on its own only at a positive rate.
StepIsDue == pc = "waiting" => ctxDone \/ "requestsPerSecond" \in positive

\* The process is scheduled and its timers fire; of the shop nothing is assumed.
FairSpec == Spec /\ WF_vars(StepIsDue /\ Step)

-----------------------------------------------------------------------------

(***************************************************************************)
(* A call implements what the pipeline relies on: at most MaxRetries + 1   *)
(* requests, and nil only for a reply that could be decoded.               *)
(***************************************************************************)
Contract == INSTANCE FetchContract WITH Attempts <- MaxRetries + 1, served <- reply = "ok"

KeepsContract == Contract!Spec

(***************************************************************************)
(* version.go:20-21 and useragent.go:27-28: a header is resolved at most   *)
(* once per process.  From the first API request on, which carries both    *)
(* headers, the shop sees the same two for good: neither a retry nor a     *)
(* later call brings other ones or another probe, whatever failed or was   *)
(* cancelled when they were resolved.                                      *)
(***************************************************************************)
Settled == \A h \in Header : shown[h] # "unset"

IdentitySettles == [][Settled => UNCHANGED shown]_vars

(***************************************************************************)
(* With a request timeout and a positive rate a call returns whatever the  *)
(* shop does or leaves undone.                                             *)
(***************************************************************************)
CallsReturn == positive = Setting /\ pc # "idle" ~> pc = "idle"

(***************************************************************************)
(* source.go:15-16, "They MUST honour context cancellation": even without  *)
(* a timeout or with a limiter that grants nothing more, a cancelled call  *)
(* returns though the shop stays silent.                                   *)
(***************************************************************************)
CancelEndsCalls == ctxDone /\ pc # "idle" ~> pc = "idle"

(***************************************************************************)
(* config.go:1-3: "All validation happens at load time so that the run     *)
(* loop can assume every field is well-formed."  Nil means that the shop   *)
(* was asked and has answered.                                             *)
(***************************************************************************)
NilMeansAnswered == result = "nil" => reply = "ok"

=============================================================================
