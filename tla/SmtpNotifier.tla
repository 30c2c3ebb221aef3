---------------------------- MODULE SmtpNotifier ----------------------------
(***************************************************************************)
(* internal/notifier/smtp/smtp.go: one call of Notify with a non-empty     *)
(* digest.  Three parties: the caller, which renders the message and then  *)
(* selects between its context and a channel; the goroutine of             *)
(* sendWithContext, which talks SMTP and puts its verdict into the channel;*)
(* and the mail server, which may do, refuse or never answer a command and *)
(* whose connection may break, before or after it did what it was asked.   *)
(* The process may die at any moment, the server then still works off what *)
(* it was asked.                                                           *)
(*                                                                         *)
(* The dialogue is net/smtp's: one command at a time, each answered.       *)
(***************************************************************************)
EXTENDS Naturals, Sequences

CONSTANTS
    Recipients, \* smtp.to
    StartTLS,   \* smtp.startTLS
    HasUsername \* whether smtp.username is set

ASSUME SmtpAssumption ==
    Recipients # {} /\ StartTLS \in BOOLEAN /\ HasUsername \in BOOLEAN

VARIABLES
    alive,      \* whether the process lives
    caller,     \* "rendering", "selecting" or "returned"
    result,     \* what Notify returned
    ctxDone,    \* whether sendCtx is done: timeout, or the run's cancellation
    sender,     \* the goroutine's place in send
    pending,    \* the recipients it has not named to the server so far
    current,    \* the recipients of the last RCPT: none or one
    verdict,    \* what send returned
    errCh,      \* the channel
    wire,       \* the command's fate: "quiet", "asked", "ok" or "failed"
    envelope,   \* the recipients the server took from the RCPTs
    mailbox     \* the recipients the server accepted the digest for

theCaller == <<caller, result, ctxDone>>
theSender == <<sender, pending, current, verdict>>
theServer == <<envelope, mailbox>>
vars == <<alive, theCaller, theSender, errCh, wire, theServer>>

Command == {"dial", "starttls", "auth", "mail", "rcpt", "data", "body", "end", "quit"}

TypeOK ==
    /\ alive \in BOOLEAN
    /\ caller \in {"rendering", "selecting", "returned"}
    /\ result \in {"none", "nil", "error"} /\ ctxDone \in BOOLEAN
    /\ sender \in Command \cup {"unborn", "reporting", "done"}
    /\ pending \subseteq Recipients /\ current \subseteq Recipients
    /\ verdict \in {"none", "nil", "error"}
    /\ errCh \in Seq({"nil", "error"})
    /\ wire \in {"quiet", "asked", "ok", "failed"}
    /\ envelope \subseteq Recipients /\ mailbox \subseteq Recipients

\* make(chan error, 1)
ErrChCapacity == 1

-----------------------------------------------------------------------------

Init ==
    /\ alive = TRUE
    /\ caller = "rendering" /\ result = "none" /\ ctxDone = FALSE
    /\ sender = "unborn" /\ pending = Recipients /\ current = {} /\ verdict = "none"
    /\ errCh = << >>
    /\ wire = "quiet"
    /\ envelope = {} /\ mailbox = {}

(* The caller.                                                             *)

Return(r) == caller' = "returned" /\ result' = r

RenderFails ==
    /\ alive /\ caller = "rendering"
    /\ Return("error")
    /\ UNCHANGED <<alive, ctxDone, theSender, errCh, wire, theServer>>

\* The message is rendered: sendCtx is made and the goroutine started.
StartSend ==
    /\ alive /\ caller = "rendering"
    /\ caller' = "selecting" /\ sender' = "dial"
    /\ UNCHANGED <<alive, result, ctxDone, pending, current, verdict, errCh, wire, theServer>>

\* Fault: the timeout only covers an established connection.
ContextEndsOnceDialed ==
    /\ alive /\ caller = "selecting" /\ ~ctxDone /\ sender # "dial"
    /\ ctxDone' = TRUE
    /\ UNCHANGED <<alive, caller, result, theSender, errCh, wire, theServer>>

\* smtp.timeout is over, or SIGTERM cancels the run's context.
ContextEnds ==
    /\ alive /\ caller = "selecting" /\ ~ctxDone
    /\ ctxDone' = TRUE
    /\ UNCHANGED <<alive, caller, result, theSender, errCh, wire, theServer>>

\* The two cases of the select; when both are ready, either is taken.
ReturnCtxErr ==
    /\ alive /\ caller = "selecting" /\ ctxDone
    /\ Return("error")
    /\ UNCHANGED <<alive, ctxDone, theSender, errCh, wire, theServer>>

ReturnVerdict ==
    /\ alive /\ caller = "selecting" /\ errCh # << >>
    /\ Return(Head(errCh))
    /\ errCh' = Tail(errCh)
    /\ UNCHANGED <<alive, ctxDone, theSender, wire, theServer>>

(* The goroutine.                                                          *)

\* Where send goes after a command that went well.
Login == IF HasUsername THEN "auth" ELSE "mail"

Follows(command, next) ==
    \/ command = "dial" /\ next = IF StartTLS THEN "starttls" ELSE Login
    \/ command = "starttls" /\ next = Login
    \/ command = "auth" /\ next = "mail"
    \/ command = "mail" /\ next = "rcpt"
    \/ command = "rcpt" /\ next = IF pending \subseteq current THEN "data" ELSE "rcpt"
    \/ command = "data" /\ next = "body"
    \/ command = "body" /\ next = "end"
    \/ command = "end" /\ next = "quit"
    \/ command = "quit" /\ next = "reporting"

Ask ==
    /\ alive /\ sender \in Command /\ wire = "quiet"
    /\ wire' = "asked"
    /\ IF sender = "rcpt" THEN \E r \in pending : current' = {r} ELSE current' = {}
    /\ UNCHANGED <<alive, theCaller, sender, pending, verdict, errCh, theServer>>

Proceed ==
    /\ alive /\ sender \in Command /\ wire = "ok"
    /\ wire' = "quiet"
    /\ \E next \in Command \cup {"reporting"} : Follows(sender, next) /\ sender' = next
    /\ pending' = IF sender = "rcpt" THEN pending \ current ELSE pending
    /\ verdict' = IF sender = "quit" THEN "nil" ELSE verdict
    /\ UNCHANGED <<alive, theCaller, current, errCh, theServer>>

\* Fault: send hands on the command that failed for the error.
GiveUpWithTheCommand ==
    /\ alive /\ sender \in Command /\ wire = "failed"
    /\ wire' = "quiet"
    /\ sender' = "reporting" /\ verdict' = sender
    /\ UNCHANGED <<alive, theCaller, pending, current, errCh, theServer>>

\* Fault: a recipient the server refuses is passed over.
GiveUpOnTheRecipient ==
    /\ alive /\ sender = "rcpt" /\ wire = "failed"
    /\ wire' = "quiet"
    /\ sender' = IF pending \subseteq current THEN "data" ELSE "rcpt"
    /\ pending' = pending \ current
    /\ UNCHANGED <<alive, theCaller, current, verdict, errCh, theServer>>

\* Every failed command ends send with its error, QUIT's included.  After a body
\* that could not be written, send closes the writer and drops that error: the
\* connection's writer has failed, so the final dot is not sent, and the wait
\* for a reply is part of the wait for the body to fail.
GiveUp ==
    /\ alive /\ sender \in Command /\ wire = "failed"
    /\ wire' = "quiet"
    /\ sender' = "reporting" /\ verdict' = "error"
    /\ UNCHANGED <<alive, theCaller, pending, current, errCh, theServer>>

\* Fault: the channel has no buffer, a send waits for the receiver.
ReportToReceiver ==
    /\ alive /\ sender = "reporting" /\ caller = "selecting" /\ errCh = << >>
    /\ errCh' = Append(errCh, verdict)
    /\ sender' = "done"
    /\ UNCHANGED <<alive, theCaller, pending, current, verdict, wire, theServer>>

Report ==
    /\ alive /\ sender = "reporting" /\ Len(errCh) < ErrChCapacity
    /\ errCh' = Append(errCh, verdict)
    /\ sender' = "done"
    /\ UNCHANGED <<alive, theCaller, pending, current, verdict, wire, theServer>>

(* The server and the connection.                                          *)

ServerDoes ==
    /\ wire = "asked" /\ wire' = "ok"
    /\ envelope' = IF sender = "mail" THEN {} ELSE envelope \cup current
    /\ mailbox' = IF sender = "end" THEN envelope ELSE mailbox
    /\ UNCHANGED <<alive, theCaller, theSender, errCh>>

\* A refusal, or the connection breaks before the answer is read.
CommandFails ==
    /\ wire \in {"asked", "ok"} /\ wire' = "failed"
    /\ UNCHANGED <<alive, theCaller, theSender, errCh, theServer>>

(* The process.                                                            *)

Die ==
    /\ alive /\ alive' = FALSE
    /\ UNCHANGED <<theCaller, theSender, errCh, wire, theServer>>

Call == RenderFails \/ StartSend \/ ReturnCtxErr \/ ReturnVerdict

Send == Ask \/ Proceed \/ GiveUp \/ Report

Next == Call \/ ContextEnds \/ Send \/ ServerDoes \/ CommandFails \/ Die

Spec == Init /\ [][Next]_vars

\* The process is scheduled and its timer fires; of the server nothing is
\* assumed, it may leave any command unanswered.
FairSpec == Spec /\ WF_vars(Call) /\ WF_vars(ContextEnds) /\ WF_vars(Send)

-----------------------------------------------------------------------------

(***************************************************************************)
(* The call implements the contract Runner.tla relies on: the digest goes  *)
(* to all recipients or to none (a refused RCPT ends the dialogue before   *)
(* DATA), and nil is returned only once the server took the whole body.    *)
(***************************************************************************)
Contract == INSTANCE NotifyContract

HonoursContract == Contract!Spec

(***************************************************************************)
(* smtp.go:98-99: "a hanging SMTP server cannot pin the CronJob forever".  *)
(* Whatever the server does or leaves undone, Notify returns.              *)
(***************************************************************************)
NotifyReturns == <>(caller = "returned" \/ ~alive)

(***************************************************************************)
(* A goroutine with a verdict gets rid of it even when its caller has left *)
(* on a timeout: the channel's buffer keeps it from blocking for good.     *)
(***************************************************************************)
VerdictIsTaken == sender = "reporting" ~> (sender = "done" \/ ~alive)

=============================================================================
