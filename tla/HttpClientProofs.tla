-------------------------- MODULE HttpClientProofs --------------------------
(***************************************************************************)
(* TLAPS proofs about HttpClient.tla for every number of retries that is   *)
(* not negative: typing, the contract of a call, and a settled identity.   *)
(***************************************************************************)
EXTENDS HttpClient, TLAPS

\* The places before the request of an attempt.
Preparing ==
    {"head", "waiting", "agent", "agent probe", "version", "version probe", "request"}

\* An attempt sends at most one request, and only a finished round trip of the
\* current attempt can have brought a usable reply.
CallInv ==
    /\ pc \in Preparing => sent <= attempt
    /\ pc \in {"inflight", "replied", "sleep"} => sent <= attempt + 1
    /\ pc = "sleep" => attempt < MaxRetries
    /\ pc = "inflight" => sent > 0
    /\ pc \notin {"idle", "replied"} => reply # "ok"
    /\ pc # "idle" => result = "none"
    /\ pc = "idle" /\ result = "none" => sent = 0 /\ reply # "ok"

\* A header is resolved before the request needs it, and no probe is on its way
\* for one that is.
HeaderInv ==
    /\ pc \in {"version", "version probe", "request"} => header["agent"] # "unset"
    /\ pc = "request" => header["version"] # "unset"
    /\ \A h \in Header : pc = Probe[h] => header[h] = "unset"
    /\ Settled => shown = header

IInv == TypeOK /\ CallInv /\ HeaderInv

LEMMA ProbePlaces == Probe["agent"] = "agent probe" /\ Probe["version"] = "version probe"
  BY DEF Probe

LEMMA InitIInv == ASSUME MaxRetries >= 0 PROVE Init => IInv
<1> SUFFICES ASSUME Init PROVE IInv
  OBVIOUS
<1>1. TypeOK
  <2>1. header \in Headers /\ shown = header
    BY DEF Init, Headers
  <2>2. attempt \in 0 .. MaxRetries /\ sent \in 0 .. MaxRetries + 1 /\ calls \in 0 .. MaxCalls
    BY HttpAssumption DEF Init, HttpAssumption
  <2> QED
    BY <2>1, <2>2 DEF Init, TypeOK, Place
<1>2. CallInv
  BY DEF Init, CallInv, Preparing
<1>3. HeaderInv
  <2>1. pc = "idle" /\ shown = header
    BY DEF Init
  <2> QED
    BY <2>1, ProbePlaces DEF HeaderInv, Header
<1> QED
  BY <1>1, <1>2, <1>3 DEF IInv

\* Most steps leave the headers alone and are not under way to the request.
LEMMA HeadersUntouched ==
  ASSUME HeaderInv, UNCHANGED <<header, shown>>,
         pc' \notin {"agent probe", "version", "version probe", "request"}
  PROVE  HeaderInv'
  BY ProbePlaces DEF HeaderInv, Settled, Header

LEMMA LoopKeepsIInv ==
  ASSUME MaxRetries >= 0, IInv,
         Begin \/ EnterWait \/ TokenGranted \/ WaitFails \/ SleepEnds \/ SleepCancelled \/ Cancel
  PROVE  IInv'
<1> USE HttpAssumption DEF HttpAssumption, callVars
<1>1. CASE Begin
  <2>1. /\ pc' = "head" /\ attempt' = 0 /\ lastErr' = "nil" /\ result' = "none"
        /\ sent' = 0 /\ reply' = "none" /\ calls' \in 0 .. MaxCalls
        /\ UNCHANGED <<positive, ctxDone, header, shown>>
    BY <1>1 DEF Begin, EnterLoop, IInv, TypeOK
  <2>2. TypeOK'
    BY <2>1 DEF IInv, TypeOK, Place
  <2>3. CallInv'
    BY <2>1 DEF CallInv, Preparing
  <2>4. HeaderInv'
    BY <2>1, HeadersUntouched DEF IInv
  <2> QED
    BY <2>2, <2>3, <2>4 DEF IInv
<1>2. CASE EnterWait \/ TokenGranted
  <2>1. /\ \/ pc = "head" /\ pc' = "waiting"
           \/ pc = "waiting" /\ pc' = "agent"
        /\ UNCHANGED <<positive, ctxDone, callVars, header, shown>>
    BY <1>2 DEF EnterWait, TokenGranted, Goto
  <2>2. TypeOK'
    BY <2>1 DEF IInv, TypeOK, Place, Header
  <2>3. CallInv'
    BY <2>1 DEF IInv, CallInv, Preparing
  <2>4. HeaderInv'
    BY <2>1, HeadersUntouched DEF IInv
  <2> QED
    BY <2>2, <2>3, <2>4 DEF IInv
<1>3. CASE WaitFails \/ SleepCancelled
  <2>1. /\ pc' = "idle" /\ result' = "error"
        /\ UNCHANGED <<positive, ctxDone, calls, attempt, lastErr, sent, reply, header, shown>>
    BY <1>3 DEF WaitFails, SleepCancelled, Return
  <2>2. TypeOK'
    BY <2>1 DEF IInv, TypeOK, Place
  <2>3. CallInv'
    BY <2>1 DEF IInv, CallInv, Preparing
  <2>4. HeaderInv'
    BY <2>1, HeadersUntouched DEF IInv
  <2> QED
    BY <2>2, <2>3, <2>4 DEF IInv
<1>4. CASE SleepEnds
  <2>1. pc = "sleep" /\ attempt < MaxRetries /\ attempt \in Nat
    BY <1>4 DEF SleepEnds, IInv, TypeOK, CallInv
  <2>2. /\ pc' = "head" /\ attempt' = attempt + 1 /\ result' = "none"
        /\ UNCHANGED <<positive, ctxDone, calls, lastErr, sent, reply, header, shown>>
    BY <1>4, <2>1 DEF SleepEnds, EnterLoop
  <2>3. TypeOK'
    BY <2>1, <2>2 DEF IInv, TypeOK, Place
  <2>4. CallInv'
    BY <2>1, <2>2 DEF IInv, CallInv, Preparing
  <2>5. HeaderInv'
    BY <2>2, HeadersUntouched DEF IInv
  <2> QED
    BY <2>3, <2>4, <2>5 DEF IInv
<1>5. CASE Cancel
  <2>1. /\ ctxDone' = TRUE
        /\ UNCHANGED <<positive, calls, pc, attempt, lastErr, header, sent, reply, result, shown>>
    BY <1>5 DEF Cancel
  <2>2. TypeOK'
    BY <2>1 DEF IInv, TypeOK
  <2>3. CallInv'
    BY <2>1 DEF IInv, CallInv
  <2>4. HeaderInv'
    BY <2>1 DEF IInv, HeaderInv, Settled
  <2> QED
    BY <2>2, <2>3, <2>4 DEF IInv
<1> QED
  BY <1>1, <1>2, <1>3, <1>4, <1>5

LEMMA HeadersKeepIInv ==
  ASSUME MaxRetries >= 0, IInv, NEW h \in Header, FillIn(h)
  PROVE  IInv'
<1> USE HttpAssumption DEF HttpAssumption, callVars
<1>1. /\ pc \in {h, Probe[h]} /\ pc' \in {Probe[h], AfterHeader(h)}
      /\ header' \in Headers /\ shown' \in Headers
      /\ UNCHANGED <<positive, ctxDone, callVars>>
  <2>1. /\ pc \in {h, Probe[h]} /\ pc' \in {Probe[h], AfterHeader(h)}
        /\ UNCHANGED <<positive, ctxDone, callVars>>
    BY DEF FillIn, HeaderCached, SendProbe, HeaderResolved, HeaderFallsBack, Goto
  <2>2. header' \in Headers
    BY DEF FillIn, HeaderCached, SendProbe, HeaderResolved, HeaderFallsBack, IInv, TypeOK, Headers
  <2>3. ProbeIdentity \in Headers
    BY DEF ProbeIdentity, Headers, Header
  <2>4. shown' \in Headers
    BY <2>3
    DEF FillIn, HeaderCached, SendProbe, ShowProbe, HeaderResolved, HeaderFallsBack, IInv, TypeOK
  <2> QED
    BY <2>1, <2>2, <2>4
<1>2. TypeOK'
  BY <1>1 DEF IInv, TypeOK, Place, AfterHeader, Header
<1>3. CallInv'
  BY <1>1, ProbePlaces DEF IInv, CallInv, Preparing, AfterHeader, Header
<1>4. HeaderInv'
  <2>1. CASE HeaderCached(h)
    <3>1. /\ pc = h /\ pc' = AfterHeader(h) /\ header[h] # "unset"
          /\ UNCHANGED <<header, shown>>
      BY <2>1 DEF HeaderCached, Goto
    <3> QED
      BY <3>1, ProbePlaces DEF IInv, HeaderInv, Settled, AfterHeader, Header
  <2>2. CASE SendProbe(h)
    <3>1. pc = h /\ pc' = Probe[h] /\ header[h] = "unset" /\ header' = header /\ ~Settled
      BY <2>2 DEF SendProbe, Goto, IInv, HeaderInv, Settled
    <3>2. ~Settled'
      BY <2>2, <3>1 DEF SendProbe, ShowProbe, ProbeIdentity, Settled, Header
    <3> QED
      BY <3>1, <3>2, ProbePlaces DEF IInv, HeaderInv, Header
  <2>3. CASE HeaderResolved(h) \/ HeaderFallsBack(h)
    <3>1. /\ pc \in {h, Probe[h]} /\ pc' = AfterHeader(h) /\ header[h] = "unset"
          /\ shown' = shown
      BY <2>3 DEF HeaderResolved, HeaderFallsBack, Goto, IInv, HeaderInv
    <3>2. header'[h] # "unset" /\ \A g \in Header \ {h} : header'[g] = header[g]
      BY <2>3 DEF HeaderResolved, HeaderFallsBack, IInv, TypeOK, Headers
    <3>3. ~Settled'
      BY <3>1 DEF IInv, HeaderInv, Settled
    <3> QED
      BY <3>1, <3>2, <3>3, ProbePlaces DEF IInv, HeaderInv, AfterHeader, Header
  <2> QED
    BY <2>1, <2>2, <2>3 DEF FillIn
<1> QED
  BY <1>2, <1>3, <1>4 DEF IInv

LEMMA SendKeepsIInv ==
  ASSUME MaxRetries >= 0, IInv, Send
  PROVE  IInv'
<1> USE HttpAssumption DEF HttpAssumption
<1>1. /\ pc = "request" /\ pc' = "inflight" /\ sent' = sent + 1 /\ shown' = header
      /\ UNCHANGED <<positive, ctxDone, calls, attempt, lastErr, reply, result, header>>
  BY DEF Send, Goto
<1>2. sent <= attempt /\ sent \in Nat /\ attempt \in Nat /\ attempt <= MaxRetries
  BY <1>1 DEF IInv, TypeOK, CallInv, Preparing
<1>3. TypeOK'
  BY <1>1, <1>2 DEF IInv, TypeOK, Place
<1>4. CallInv'
  BY <1>1, <1>2 DEF IInv, CallInv, Preparing
<1>5. HeaderInv'
  BY <1>1, ProbePlaces DEF HeaderInv, Header
<1> QED
  BY <1>3, <1>4, <1>5 DEF IInv

LEMMA ReplyKeepsIInv ==
  ASSUME MaxRetries >= 0, IInv, ShopAnswers \/ TimesOut \/ RequestCancelled
  PROVE  IInv'
<1> USE HttpAssumption DEF HttpAssumption
<1>1. /\ pc \in {"request", "inflight"} /\ pc' = "replied"
      /\ reply' \in Failure \cup {"ok", "garbled"}
      /\ UNCHANGED <<positive, ctxDone, calls, attempt, lastErr, sent, result, header, shown>>
  BY DEF ShopAnswers, TimesOut, RequestCancelled, RoundTripEnds, Goto, Failure
<1>2. TypeOK'
  BY <1>1 DEF IInv, TypeOK, Place
<1>3. CallInv'
  <2>1. sent \in Int /\ attempt \in Int
    BY DEF IInv, TypeOK
  <2>2. (pc \in Preparing => sent <= attempt) /\ (pc = "inflight" => sent <= attempt + 1)
        /\ (pc # "idle" => result = "none")
    BY DEF IInv, CallInv
  <2>3. pc = "request" => sent <= attempt
    BY <2>2 DEF Preparing
  <2>4. sent <= attempt + 1 /\ result = "none"
    BY <1>1, <2>1, <2>2, <2>3
  <2> QED
    BY <1>1, <2>1, <2>4 DEF CallInv, Preparing
<1>4. HeaderInv'
  BY <1>1, HeadersUntouched DEF IInv
<1> QED
  BY <1>2, <1>3, <1>4 DEF IInv

LEMMA JudgementKeepsIInv ==
  ASSUME MaxRetries >= 0, IInv, Decode \/ GiveUp \/ BackOff
  PROVE  IInv'
<1> USE HttpAssumption DEF HttpAssumption
<1>1. CASE Decode \/ GiveUp
  <2>1. /\ pc' = "idle" /\ result' \in {"nil", "error"} /\ lastErr' \in {"nil", "error"}
        /\ UNCHANGED <<positive, ctxDone, calls, attempt, sent, reply, header, shown>>
    BY <1>1 DEF Decode, GiveUp, Return, IInv, TypeOK
  <2>2. TypeOK'
    BY <2>1 DEF IInv, TypeOK, Place
  <2>3. CallInv'
    BY <2>1 DEF IInv, CallInv, Preparing
  <2>4. HeaderInv'
    BY <2>1, HeadersUntouched DEF IInv
  <2> QED
    BY <2>2, <2>3, <2>4 DEF IInv
<1>2. CASE BackOff
  <2>1. /\ pc = "replied" /\ pc' = "sleep" /\ lastErr' = "error"
        /\ reply # "ok" /\ attempt # MaxRetries
        /\ UNCHANGED <<positive, ctxDone, calls, attempt, sent, reply, result, header, shown>>
    BY <1>2 DEF BackOff, MayRetry, Retryable, Goto
  <2>2. TypeOK'
    BY <2>1 DEF IInv, TypeOK, Place
  <2>3. CallInv'
    BY <2>1 DEF IInv, TypeOK, CallInv, Preparing
  <2>4. HeaderInv'
    BY <2>1, HeadersUntouched DEF IInv
  <2> QED
    BY <2>2, <2>3, <2>4 DEF IInv
<1> QED
  BY <1>1, <1>2

LEMMA NextKeepsIInv == ASSUME MaxRetries >= 0 PROVE IInv /\ [Next]_vars => IInv'
<1>1. IInv /\ UNCHANGED vars => IInv'
  BY DEF vars, callVars, IInv, TypeOK, CallInv, HeaderInv, Settled
<1> QED
  BY <1>1, LoopKeepsIInv, HeadersKeepIInv, SendKeepsIInv, ReplyKeepsIInv, JudgementKeepsIInv
  DEF Next, Step

(***************************************************************************)
(* Every reachable state of the client is well-typed; in particular a call *)
(* makes at most MaxRetries + 1 attempts (client.go:117-128).              *)
(***************************************************************************)
THEOREM HttpTypeCorrect == ASSUME MaxRetries >= 0 PROVE Spec => []TypeOK
<1>1. IInv => TypeOK
  BY DEF IInv
<1> QED
  BY <1>1, InitIInv, NextKeepsIInv, PTL DEF Spec

(***************************************************************************)
(* Once an API request has shown the shop both headers, no request changes *)
(* them and no probe is sent any more (version.go:87-106,                  *)
(* useragent.go:96-115).                                                   *)
(***************************************************************************)
THEOREM IdentityStays == ASSUME MaxRetries >= 0 PROVE Spec => IdentitySettles
<1>1. IInv /\ [Next]_vars => [Settled => UNCHANGED shown]_vars
  <2> SUFFICES ASSUME IInv, Next, Settled PROVE shown' = shown
    BY DEF vars
  <2>1. shown = header /\ \A h \in Header : header[h] # "unset"
    BY DEF IInv, HeaderInv, Settled
  <2>2. CASE Send
    BY <2>1, <2>2 DEF Send
  <2>3. CASE \E h \in Header : FillIn(h)
    BY <2>1, <2>3 DEF FillIn, HeaderCached, SendProbe, HeaderResolved, HeaderFallsBack
  <2>4. CASE Begin \/ ShopAnswers \/ Cancel
    BY <2>4 DEF Begin, ShopAnswers, RoundTripEnds, Cancel
  <2>5. CASE EnterWait \/ TokenGranted \/ WaitFails \/ TimesOut \/ RequestCancelled
    BY <2>5 DEF EnterWait, TokenGranted, WaitFails, TimesOut, RequestCancelled, RoundTripEnds
  <2>6. CASE Decode \/ GiveUp \/ BackOff \/ SleepEnds \/ SleepCancelled
    BY <2>6 DEF Decode, GiveUp, BackOff, SleepEnds, SleepCancelled
  <2> QED
    BY <2>2, <2>3, <2>4, <2>5, <2>6 DEF Next, Step
<1> QED
  BY <1>1, InitIInv, NextKeepsIInv, PTL DEF Spec, IdentitySettles

LEMMA NextRefinesContract ==
  ASSUME MaxRetries >= 0
  PROVE  IInv /\ [Next]_vars => [Contract!Next]_(Contract!call)
<1> SUFFICES ASSUME IInv, [Next]_vars PROVE [Contract!Next]_(Contract!call)
  OBVIOUS
<1> USE HttpAssumption DEF HttpAssumption, callVars
<1>1. CASE Begin
  <2>1. pc = "idle" /\ sent' = 0 /\ reply' = "none" /\ result' = "none"
    BY <1>1 DEF Begin, EnterLoop
  <2>2. CASE result = "none"
    BY <2>1, <2>2 DEF IInv, CallInv, Contract!call
  <2>3. CASE result # "none"
    BY <2>1, <2>3 DEF Contract!Next, Contract!Begin
  <2> QED
    BY <2>2, <2>3
<1>2. CASE WaitFails \/ SleepCancelled \/ GiveUp
  BY <1>2 DEF WaitFails, SleepCancelled, GiveUp, Return, IInv, CallInv, Contract!Next, Contract!ReturnError
<1>3. CASE Decode
  <2>1. /\ pc = "replied" /\ reply \in {"ok", "garbled"} /\ UNCHANGED <<sent, reply>>
        /\ result' = IF reply = "ok" THEN "nil" ELSE "error"
    BY <1>3 DEF Decode, Return
  <2> QED
    BY <2>1 DEF IInv, CallInv, Contract!Next, Contract!ReturnNil, Contract!ReturnError
<1>4. CASE Send
  <2>1. pc = "request" /\ sent' = sent + 1 /\ UNCHANGED <<reply, result>>
    BY <1>4 DEF Send, Goto
  <2>2. sent < MaxRetries + 1
    BY <2>1 DEF IInv, TypeOK, CallInv, Preparing
  <2> QED
    BY <2>1, <2>2 DEF IInv, CallInv, Contract!Next, Contract!Request
<1>5. CASE ShopAnswers \/ TimesOut \/ RequestCancelled
  <2>1. /\ UNCHANGED <<sent, result>> /\ reply # "ok" /\ result = "none"
        /\ reply' = "ok" => sent > 0
    BY <1>5
    DEF ShopAnswers, TimesOut, RequestCancelled, RoundTripEnds, Goto, IInv, CallInv
  <2>2. CASE reply' = "ok"
    BY <2>1, <2>2 DEF Contract!Next, Contract!Serve
  <2>3. CASE reply' # "ok"
    BY <2>1, <2>3 DEF Contract!call
  <2> QED
    BY <2>2, <2>3
<1>6. CASE EnterWait \/ TokenGranted \/ BackOff \/ Cancel \/ UNCHANGED vars
  BY <1>6 DEF EnterWait, TokenGranted, BackOff, Cancel, vars, Contract!call
<1>7. CASE SleepEnds
  BY <1>7 DEF SleepEnds, EnterLoop, IInv, TypeOK, CallInv, Contract!call
<1>8. CASE \E h \in Header : FillIn(h)
  BY <1>8 DEF FillIn, HeaderCached, SendProbe, HeaderResolved, HeaderFallsBack, Contract!call
<1> QED
  BY <1>1, <1>2, <1>3, <1>4, <1>5, <1>6, <1>7, <1>8 DEF Next, Step

(***************************************************************************)
(* A getJSON call sends at most MaxRetries + 1 requests and returns nil    *)
(* only for a reply it could decode, provided MaxRetries is not negative   *)
(* (client.go:114-135), which the configuration does not check.            *)
(***************************************************************************)
THEOREM ImplementsFetch == ASSUME MaxRetries >= 0 PROVE Spec => KeepsContract
<1>1. Init => Contract!Init
  BY DEF Init, Contract!Init
<1> QED
  BY <1>1, InitIInv, NextKeepsIInv, NextRefinesContract, PTL
  DEF Spec, KeepsContract, Contract!Spec

=============================================================================
