------------------------- MODULE SmtpNotifierProofs -------------------------
(***************************************************************************)
(* TLAPS proof that one call of Notify implements NotifyContract.tla, for  *)
(* every set of recipients and either setting of STARTTLS and AUTH.        *)
(***************************************************************************)
EXTENDS SmtpNotifier, TLAPS, SequenceTheorems

\* Everybody has the digest.
Reached == mailbox = Recipients

BeforeRcpt == {"unborn", "dial", "starttls", "auth", "mail"}

AfterRcpt == {"data", "body", "end", "quit"}

\* The server knows every recipient the goroutine has named, and all of them
\* once DATA is due.
EnvelopeInv ==
    /\ sender \in BeforeRcpt => pending = Recipients
    /\ sender = "rcpt" => Recipients \ pending \subseteq envelope
    /\ sender = "rcpt" /\ wire = "ok" => current \subseteq envelope
    /\ sender \in AfterRcpt => envelope = Recipients

\* A success that any party knows of means that everybody has the digest.
VerdictInv ==
    /\ mailbox \in {{}, Recipients}
    /\ sender = "end" /\ wire = "ok" => Reached
    /\ sender = "quit" => Reached
    /\ verdict = "nil" => Reached
    /\ \A i \in DOMAIN errCh : errCh[i] = "nil" => Reached

\* Notify returns once; a goroutine that reports has something to report.
OnceInv ==
    /\ caller # "returned" => result = "none"
    /\ caller = "rendering" => sender = "unborn"
    /\ sender = "reporting" => verdict # "none"

IInv == TypeOK /\ EnvelopeInv /\ VerdictInv /\ OnceInv

LEMMA InitIInv == Init => IInv
<1> SUFFICES ASSUME Init PROVE IInv
  OBVIOUS
<1>1. errCh \in Seq({"nil", "error"}) /\ DOMAIN errCh = {}
  BY EmptySeq DEF Init
<1> QED
  BY <1>1 DEF Init, IInv, TypeOK, EnvelopeInv, VerdictInv, OnceInv, BeforeRcpt, AfterRcpt

LEMMA CallKeepsIInv == IInv /\ (Call \/ ContextEnds \/ Die) => IInv'
<1> SUFFICES ASSUME IInv, Call \/ ContextEnds \/ Die PROVE IInv'
  OBVIOUS
<1> USE DEF theSender, theServer, theCaller
<1>1. CASE RenderFails \/ ReturnCtxErr \/ ContextEnds \/ Die
  <2>1. UNCHANGED <<theSender, errCh, wire, theServer>>
    BY <1>1 DEF RenderFails, ReturnCtxErr, ContextEnds, Die
  <2>2. /\ alive' \in BOOLEAN /\ ctxDone' \in BOOLEAN
        /\ \/ caller' = "returned" /\ result' = "error"
           \/ UNCHANGED <<caller, result>>
    BY <1>1 DEF RenderFails, ReturnCtxErr, ContextEnds, Die, Return, IInv, TypeOK
  <2>3. TypeOK'
    BY <2>1, <2>2 DEF IInv, TypeOK
  <2>4. EnvelopeInv' /\ VerdictInv'
    BY <2>1 DEF IInv, EnvelopeInv, VerdictInv, Reached
  <2>5. OnceInv'
    BY <2>1, <2>2 DEF IInv, OnceInv
  <2> QED
    BY <2>3, <2>4, <2>5 DEF IInv
<1>2. CASE StartSend
  <2>1. /\ caller' = "selecting" /\ sender = "unborn" /\ sender' = "dial"
        /\ UNCHANGED <<alive, result, ctxDone, pending, current, verdict, errCh, wire, theServer>>
        /\ caller = "rendering"
    BY <1>2 DEF StartSend, IInv, OnceInv
  <2>2. TypeOK'
    BY <2>1 DEF IInv, TypeOK, Command
  <2>3. EnvelopeInv'
    BY <2>1 DEF IInv, EnvelopeInv, BeforeRcpt, AfterRcpt
  <2>4. VerdictInv'
    BY <2>1 DEF IInv, VerdictInv, Reached
  <2>5. OnceInv'
    BY <2>1 DEF IInv, OnceInv
  <2> QED
    BY <2>2, <2>3, <2>4, <2>5 DEF IInv
<1>3. CASE ReturnVerdict
  <2>1. /\ Head(errCh) \in {"nil", "error"} /\ Tail(errCh) \in Seq({"nil", "error"})
        /\ \A i \in DOMAIN Tail(errCh) : i + 1 \in DOMAIN errCh /\ Tail(errCh)[i] = errCh[i + 1]
    BY <1>3, HeadTailProperties, LenProperties DEF ReturnVerdict, IInv, TypeOK
  <2>2. errCh' = Tail(errCh) /\ result' = Head(errCh) /\ caller' = "returned"
    BY <1>3 DEF ReturnVerdict, Return
  <2>3. UNCHANGED <<alive, ctxDone, theSender, wire, theServer>>
    BY <1>3 DEF ReturnVerdict
  <2>4. TypeOK'
    BY <2>1, <2>2, <2>3 DEF IInv, TypeOK
  <2>5. EnvelopeInv'
    BY <2>3 DEF IInv, EnvelopeInv
  <2>6. VerdictInv'
    BY <2>1, <2>2, <2>3 DEF IInv, VerdictInv, Reached
  <2>7. OnceInv'
    BY <2>2, <2>3 DEF IInv, OnceInv
  <2> QED
    BY <2>4, <2>5, <2>6, <2>7 DEF IInv
<1> QED
  BY <1>1, <1>2, <1>3 DEF Call

LEMMA SendKeepsIInv == IInv /\ Send => IInv'
<1> SUFFICES ASSUME IInv, Send PROVE IInv'
  OBVIOUS
<1> USE DEF theSender, theServer, theCaller
<1>1. CASE Ask
  BY <1>1 DEF Ask, IInv, TypeOK, EnvelopeInv, VerdictInv, OnceInv, Reached
<1>2. CASE Proceed
  <2>1. /\ Follows(sender, sender') /\ sender \in Command /\ wire = "ok" /\ wire' = "quiet"
        /\ pending' = IF sender = "rcpt" THEN pending \ current ELSE pending
        /\ verdict' = IF sender = "quit" THEN "nil" ELSE verdict
        /\ UNCHANGED <<alive, theCaller, current, errCh, theServer>>
    BY <1>2 DEF Proceed
  <2>2. TypeOK'
    BY <2>1 DEF IInv, TypeOK, Follows, Login, Command
  <2>3. EnvelopeInv'
    <3>1. CASE sender \in {"dial", "starttls", "auth"}
      BY <2>1, <3>1 DEF Follows, Login, IInv, EnvelopeInv, BeforeRcpt, AfterRcpt
    <3>2. CASE sender = "mail"
      BY <2>1, <3>2 DEF Follows, Login, IInv, EnvelopeInv, BeforeRcpt, AfterRcpt
    <3>3. CASE sender = "rcpt"
      <4>1. Recipients \ pending \subseteq envelope /\ current \subseteq envelope
            /\ envelope \subseteq Recipients
        BY <2>1, <3>3 DEF IInv, TypeOK, EnvelopeInv
      <4>2. CASE pending \subseteq current
        <5>1. sender' = "data"
          BY <2>1, <3>3, <4>2 DEF Follows, Login
        <5>2. envelope = Recipients
          BY <4>1, <4>2
        <5> QED
          BY <2>1, <5>1, <5>2 DEF EnvelopeInv, BeforeRcpt
      <4>3. CASE ~(pending \subseteq current)
        <5>1. sender' = "rcpt"
          BY <2>1, <3>3, <4>3 DEF Follows, Login
        <5> QED
          BY <2>1, <3>3, <4>1, <5>1 DEF EnvelopeInv, BeforeRcpt, AfterRcpt
      <4> QED
        BY <4>2, <4>3
    <3>4. CASE sender \in {"data", "body", "end", "quit"}
      BY <2>1, <3>4 DEF Follows, Login, IInv, EnvelopeInv, BeforeRcpt, AfterRcpt
    <3> QED
      BY <2>1, <3>1, <3>2, <3>3, <3>4 DEF Command
  <2>4. VerdictInv'
    <3>1. sender' = "quit" => Reached
      BY <2>1 DEF Follows, Login, Command, IInv, VerdictInv
    <3>2. verdict' = "nil" => Reached
      BY <2>1 DEF IInv, VerdictInv
    <3> QED
      BY <2>1, <3>1, <3>2 DEF IInv, VerdictInv, Reached
  <2>5. OnceInv'
    BY <2>1 DEF IInv, OnceInv, Follows, Login, Command
  <2> QED
    BY <2>2, <2>3, <2>4, <2>5 DEF IInv
<1>3. CASE GiveUp
  <2>1. /\ sender' = "reporting" /\ verdict' = "error" /\ wire' = "quiet"
        /\ sender \in Command
        /\ UNCHANGED <<alive, theCaller, pending, current, errCh, theServer>>
    BY <1>3 DEF GiveUp
  <2>2. TypeOK'
    BY <2>1 DEF IInv, TypeOK
  <2>3. EnvelopeInv'
    BY <2>1 DEF EnvelopeInv, BeforeRcpt, AfterRcpt
  <2>4. VerdictInv'
    BY <2>1 DEF IInv, VerdictInv, Reached
  <2>5. OnceInv'
    BY <2>1 DEF IInv, OnceInv, Command
  <2> QED
    BY <2>2, <2>3, <2>4, <2>5 DEF IInv
<1>4. CASE Report
  <2>1. errCh' = Append(errCh, verdict) /\ sender' = "done"
        /\ UNCHANGED <<alive, theCaller, pending, current, verdict, wire, theServer>>
    BY <1>4 DEF Report
  <2>2. verdict \in {"nil", "error"}
    BY <1>4 DEF Report, IInv, TypeOK, OnceInv
  <2>3. /\ Append(errCh, verdict) \in Seq({"nil", "error"})
        /\ \A i \in DOMAIN Append(errCh, verdict) :
              \/ i \in DOMAIN errCh /\ Append(errCh, verdict)[i] = errCh[i]
              \/ Append(errCh, verdict)[i] = verdict
    BY <2>2, AppendProperties, LenProperties DEF IInv, TypeOK
  <2>4. TypeOK'
    BY <2>1, <2>3 DEF IInv, TypeOK
  <2>5. EnvelopeInv'
    BY <2>1 DEF EnvelopeInv, BeforeRcpt, AfterRcpt
  <2>6. \A i \in DOMAIN errCh' : errCh'[i] = "nil" => Reached
    BY <2>1, <2>3 DEF IInv, VerdictInv
  <2>7. VerdictInv'
    BY <2>1, <2>6 DEF IInv, VerdictInv, Reached
  <2>8. OnceInv'
    BY <1>4, <2>1 DEF Report, IInv, OnceInv
  <2> QED
    BY <2>4, <2>5, <2>7, <2>8 DEF IInv
<1> QED
  BY <1>1, <1>2, <1>3, <1>4 DEF Send

LEMMA ServerKeepsIInv == IInv /\ (ServerDoes \/ CommandFails) => IInv'
<1> SUFFICES ASSUME IInv, ServerDoes \/ CommandFails PROVE IInv'
  OBVIOUS
<1> USE DEF theSender, theServer, theCaller
<1>1. CASE ServerDoes
  <2>1. /\ wire = "asked" /\ wire' = "ok"
        /\ envelope' = IF sender = "mail" THEN {} ELSE envelope \cup current
        /\ mailbox' = IF sender = "end" THEN envelope ELSE mailbox
        /\ UNCHANGED <<alive, theCaller, theSender, errCh>>
    BY <1>1 DEF ServerDoes
  <2>2. TypeOK'
    BY <2>1 DEF IInv, TypeOK
  <2>3. EnvelopeInv'
    BY <2>1 DEF IInv, TypeOK, EnvelopeInv, BeforeRcpt, AfterRcpt
  <2>4. Reached => Reached'
    BY <2>1 DEF IInv, EnvelopeInv, AfterRcpt, Reached
  <2>5. VerdictInv'
    BY <2>1, <2>4 DEF IInv, EnvelopeInv, VerdictInv, AfterRcpt, Reached
  <2>6. OnceInv'
    BY <2>1 DEF IInv, OnceInv
  <2> QED
    BY <2>2, <2>3, <2>5, <2>6 DEF IInv
<1>2. CASE CommandFails
  BY <1>2 DEF CommandFails, IInv, TypeOK, EnvelopeInv, VerdictInv, OnceInv, Reached
<1> QED
  BY <1>1, <1>2

LEMMA NextKeepsIInv == IInv /\ [Next]_vars => IInv'
<1>1. IInv /\ UNCHANGED vars => IInv'
  BY DEF vars, theSender, theServer, theCaller, IInv, TypeOK, EnvelopeInv, VerdictInv, OnceInv, Reached
<1> QED
  BY <1>1, CallKeepsIInv, SendKeepsIInv, ServerKeepsIInv DEF Next

(***************************************************************************)
(* Every reachable state of a Notify call is well-typed.                   *)
(***************************************************************************)
THEOREM SmtpTypeCorrect == Spec => []TypeOK
<1>1. IInv => TypeOK
  BY DEF IInv
<1> QED
  BY <1>1, InitIInv, NextKeepsIInv, PTL DEF Spec

LEMMA NextRefinesContract == IInv /\ [Next]_vars => [Contract!Next]_(Contract!call)
<1> SUFFICES ASSUME IInv, [Next]_vars PROVE [Contract!Next]_(Contract!call)
  OBVIOUS
<1> USE DEF theSender, theServer, theCaller
<1>1. CASE RenderFails \/ ReturnCtxErr
  BY <1>1
  DEF RenderFails, ReturnCtxErr, Return, IInv, OnceInv, Contract!Next, Contract!ReturnError
<1>2. CASE ReturnVerdict
  <2>1. result = "none" /\ result' = Head(errCh) /\ mailbox' = mailbox
    BY <1>2 DEF ReturnVerdict, Return, IInv, OnceInv
  <2>2. Head(errCh) \in {"nil", "error"} /\ 1 \in DOMAIN errCh /\ Head(errCh) = errCh[1]
    BY <1>2, HeadTailProperties, LenProperties DEF ReturnVerdict, IInv, TypeOK
  <2>3. Head(errCh) = "nil" => mailbox = Recipients
    BY <2>2 DEF IInv, VerdictInv, Reached
  <2> QED
    BY <2>1, <2>2, <2>3 DEF Contract!Next, Contract!ReturnNil, Contract!ReturnError
<1>3. CASE ServerDoes
  <2>1. result' = result /\ mailbox' = IF sender = "end" THEN Recipients ELSE mailbox
    BY <1>3 DEF ServerDoes, IInv, EnvelopeInv, AfterRcpt
  <2>2. mailbox \in {{}, Recipients}
    BY DEF IInv, VerdictInv
  <2> QED
    BY <2>1, <2>2 DEF Contract!Next, Contract!ReachEveryone, Contract!call
<1>4. CASE StartSend \/ ContextEnds \/ Send \/ CommandFails \/ Die \/ UNCHANGED vars
  BY <1>4
  DEF StartSend, ContextEnds, Send, Ask, Proceed, GiveUp, Report, CommandFails, Die, vars, Contract!call
<1> QED
  BY <1>1, <1>2, <1>3, <1>4 DEF Next, Call

(***************************************************************************)
(* One call of Notify implements the contract the pipeline relies on: the  *)
(* digest reaches everyone or no one, and nil means everyone               *)
(* (smtp.go:100-180, notifier.go:19-21).                                   *)
(***************************************************************************)
THEOREM ImplementsContract == Spec => HonoursContract
<1>1. Init => Contract!Init
  BY DEF Init, Contract!Init
<1> QED
  BY <1>1, InitIInv, NextKeepsIInv, NextRefinesContract, PTL DEF Spec, HonoursContract, Contract!Spec

=============================================================================
