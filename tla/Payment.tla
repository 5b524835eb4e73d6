------------------------------- MODULE Payment -------------------------------
(***************************************************************************)
(* Payments of one suspended step (package payment/).  A checkout writes   *)
(* its transaction ahead, opens a session at the gateway and saves the     *)
(* row again, from the copy that it made.  The gateway reports by          *)
(* webhooks, maybe before the checkout has returned, and repeats each      *)
(* until it is answered; a webhook settles the transaction under a row     *)
(* lock, and completes the step outside of it.                             *)
(***************************************************************************)
EXTENDS Integers, FiniteSets

CONSTANTS
    Checkouts,  \* the calls of CreateCheckoutSession for the step
    Refs,       \* the references of transactions
    Offered,    \* those that the host's generator may give to each checkout
    Repeated,   \* those whose payment the gateway reports until it is answered
    Handlers,   \* the webhook requests that are served at one time
    MaxNotes,   \* bound: reports on their way at one time
    Faults      \* the failures that may happen, of AllFaults

\* session: the gateway fails to open a session, or its answer is lost; write: the
\* database fails a write; lost: the answer to a webhook is lost; advance: the call
\* that completes the step fails, or the server stops before it.
AllFaults == {"session", "write", "lost", "advance"}

ASSUME PaymentAssumption ==
    /\ Offered \in [Checkouts -> SUBSET Refs]
    /\ Repeated \subseteq Refs
    /\ MaxNotes \in Nat
    /\ Faults \subseteq AllFaults

NoRef == "no reference"
ASSUME RefsAssumption == NoRef \notin Refs

Terminal == {"SUCCESS", "FAILED"}
Statuses == Terminal \cup {"none", "PENDING"}

\* What a gateway may report; MISMATCH is a success with another amount or currency.
Reports == Terminal \cup {"PENDING", "MISMATCH"}
Note == [ref : Refs, report : Reports]

VARIABLES
    status,     \* the status of each transaction row
    checkout,   \* where each checkout is, and the reference it took
    session,    \* the references for which the gateway has opened a session
    notes,      \* reports that the gateway still has to deliver
    handler,    \* what each webhook request does
    earned,     \* history: how often a reference earned the right to advance the step
    overwritten,\* history: references whose checkout saved its copy over a settled row
    step        \* the step: open, moved on by others, or told a status of a reference

payVars == <<status, checkout, session, notes, handler, earned, overwritten, step>>

NoHandler == [pc |-> "idle", ref |-> NoRef, report |-> "PENDING"]

PayTypeOK ==
    /\ status \in [Refs -> Statuses]
    /\ checkout \in [Checkouts -> [pc : {"idle", "session", "save", "mark", "done", "failed"},
                                   ref : Refs \cup {NoRef}]]
    /\ session \subseteq Refs
    /\ notes \subseteq Note
    /\ handler \in [Handlers -> [pc : {"idle", "settle", "advance"},
                                 ref : Refs \cup {NoRef}, report : Reports]]
    /\ earned \in [Refs -> Nat]
    /\ overwritten \subseteq Refs
    /\ step \in [told : Terminal \cup {"open", "moved"}, by : Refs \cup {NoRef}]

PayInit ==
    /\ status = [r \in Refs |-> "none"]
    /\ checkout = [k \in Checkouts |-> [pc |-> "idle", ref |-> NoRef]]
    /\ session = {}
    /\ notes = {}
    /\ handler = [h \in Handlers |-> NoHandler]
    /\ earned = [r \in Refs |-> 0]
    /\ overwritten = {}
    /\ step = [told |-> "open", by |-> NoRef]

-----------------------------------------------------------------------------
(***************************************************************************)
(* CreateCheckoutSession.                                                  *)
(***************************************************************************)
CheckoutGoes(k, pc) == checkout' = [checkout EXCEPT ![k].pc = pc]

\* The gateway is asked first, and the row written with the answer.
CheckoutCreatesLater(k) ==
    /\ checkout[k].pc = "idle"
    /\ \E r \in Offered[k] :
          /\ status[r] = "none"
          /\ checkout' = [checkout EXCEPT ![k] = [pc |-> "session", ref |-> r]]
    /\ UNCHANGED <<status, session, notes, handler, earned, overwritten, step>>

\* Write-ahead: the row is PENDING before the gateway hears of it.  A reference
\* that another transaction holds fails the insert.
CheckoutCreates(k) ==
    /\ checkout[k].pc = "idle"
    /\ \/ \E r \in Offered[k] :
             /\ status[r] = "none"
             /\ status' = [status EXCEPT ![r] = "PENDING"]
             /\ checkout' = [checkout EXCEPT ![k] = [pc |-> "session", ref |-> r]]
       \/ /\ "write" \in Faults \/ \E r \in Offered[k] : status[r] # "none"
          /\ CheckoutGoes(k, "failed")
          /\ UNCHANGED status
    /\ UNCHANGED <<session, notes, handler, earned, overwritten, step>>

\* CreateSession.  A gateway that gives no session id leaves nothing to save; one
\* that answers nothing fails the checkout with its row left PENDING.
CheckoutOpensSession(k) ==
    LET r == checkout[k].ref IN
    /\ checkout[k].pc = "session"
    /\ \/ \E pc \in {"save", "done"} : CheckoutGoes(k, pc) /\ session' = session \cup {r}
       \/ /\ "session" \in Faults
          /\ \E pc \in {"mark", "failed"} : CheckoutGoes(k, pc)
          /\ \E opened \in {{}, {r}} : session' = session \cup opened
    /\ UNCHANGED <<status, notes, handler, earned, overwritten, step>>

\* Update saves every column of the row as the checkout made it, whatever has become of
\* the row meanwhile.
Update(k, s) ==
    LET r == checkout[k].ref IN
    /\ status' = [status EXCEPT ![r] = s]
    /\ overwritten' = IF status[r] \in Terminal THEN overwritten \cup {r} ELSE overwritten

CheckoutSaves(k) ==
    /\ checkout[k].pc = "save"
    /\ \/ Update(k, "PENDING") /\ CheckoutGoes(k, "done")
       \/ "write" \in Faults /\ CheckoutGoes(k, "failed") /\ UNCHANGED <<status, overwritten>>
    /\ UNCHANGED <<session, notes, handler, earned, step>>

CheckoutMarksFailed(k) ==
    /\ checkout[k].pc = "mark"
    /\ \/ Update(k, "FAILED")
       \/ "write" \in Faults /\ UNCHANGED <<status, overwritten>>
    /\ CheckoutGoes(k, "failed")
    /\ UNCHANGED <<session, notes, handler, earned, step>>

-----------------------------------------------------------------------------
(***************************************************************************)
(* The gateway, and ProcessWebhook.                                        *)
(***************************************************************************)

\* The gateway has something to report of a session, for the first time or again, and
\* whether or not the checkout has returned.
GatewayReports(n) ==
    /\ n.ref \in session
    /\ n \notin notes /\ Cardinality(notes) < MaxNotes
    /\ notes' = notes \cup {n}
    /\ UNCHANGED <<status, checkout, session, handler, earned, overwritten, step>>

WebhookArrives(h, n) ==
    /\ handler[h].pc = "idle"
    /\ n \in notes
    /\ handler' = [handler EXCEPT ![h] = [pc |-> "settle", ref |-> n.ref, report |-> n.report]]
    /\ UNCHANGED <<status, checkout, session, notes, earned, overwritten, step>>

\* The request ends with an answer that lets the gateway stop, or that makes it
\* report again.
Acknowledges(h) ==
    /\ handler' = [handler EXCEPT ![h] = NoHandler]
    /\ \/ notes' = notes \ {[ref |-> handler[h].ref, report |-> handler[h].report]}
       \/ "lost" \in Faults /\ UNCHANGED notes
AsksNever(h) == Acknowledges(h)
AsksAgain(h) == handler' = [handler EXCEPT ![h] = NoHandler] /\ UNCHANGED notes

\* The reports that a row in status s takes: one that is settled ignores them all,
\* an unknown reference and a wrong amount are refused for good.
TakesAnyway(s, report) == s # "none" /\ report # "MISMATCH"
Takes(s, report) == s = "PENDING" /\ report # "MISMATCH"

\* The database transaction, with the row locked from its read to its write.
WebhookSettles(h) ==
    LET r == handler[h].ref
        report == handler[h].report IN
    /\ handler[h].pc = "settle"
    /\ IF Takes(status[r], report)
         THEN /\ status' = [status EXCEPT ![r] = report]
              /\ IF report \in Terminal
                   THEN /\ handler' = [handler EXCEPT ![h].pc = "advance"]
                        /\ earned' = [earned EXCEPT ![r] = earned[r] + 1]
                        /\ UNCHANGED notes
                   ELSE Acknowledges(h) /\ UNCHANGED earned
         ELSE Acknowledges(h) /\ UNCHANGED <<status, earned>>
    /\ UNCHANGED <<checkout, session, overwritten, step>>

WebhookSettleErrs(h) ==
    /\ "write" \in Faults
    /\ handler[h].pc = "settle"
    /\ AsksAgain(h)
    /\ UNCHANGED <<status, checkout, session, earned, overwritten, step>>

\* CompleteTaskStepByToken: a step that is no longer open refuses, and that is an
\* error of the webhook too.
WebhookAdvances(h) ==
    /\ handler[h].pc = "advance"
    /\ IF step.told = "open"
         THEN step' = [told |-> handler[h].report, by |-> handler[h].ref] /\ Acknowledges(h)
         ELSE AsksAgain(h) /\ UNCHANGED step
    /\ UNCHANGED <<status, checkout, session, earned, overwritten>>

WebhookAdvanceErrs(h) ==
    /\ "advance" \in Faults
    /\ handler[h].pc = "advance"
    /\ AsksAgain(h)
    /\ UNCHANGED <<status, checkout, session, earned, overwritten, step>>

\* Another caller, an admin or a cancellation takes the step.
StepMovesOn ==
    /\ step.told = "open"
    /\ step' = [step EXCEPT !.told = "moved"]
    /\ UNCHANGED <<status, checkout, session, notes, handler, earned, overwritten>>

-----------------------------------------------------------------------------
Serves(h) == WebhookSettles(h) \/ WebhookSettleErrs(h) \/ WebhookAdvances(h) \/ WebhookAdvanceErrs(h)

PayNext ==
    \/ \E k \in Checkouts : \/ CheckoutCreates(k) \/ CheckoutOpensSession(k)
                            \/ CheckoutSaves(k) \/ CheckoutMarksFailed(k)
    \/ \E n \in Note : GatewayReports(n)
    \/ \E h \in Handlers : \/ \E n \in notes : WebhookArrives(h, n)
                           \/ Serves(h)
    \/ StepMovesOn

\* Requests that arrived are served.  A gateway repeats the report of a payment, at least
\* of those that are Repeated, until it is answered, and the database does not fail that
\* report for ever.
PayFairness ==
    /\ WF_payVars(\E h \in Handlers : Serves(h))
    /\ \A r \in Repeated :
          LET n == [ref |-> r, report |-> "SUCCESS"] IN
          /\ SF_payVars(\E h \in Handlers : WebhookArrives(h, n))
          /\ SF_payVars(\E h \in Handlers :
                handler[h].ref = r /\ handler[h].report = "SUCCESS" /\ WebhookSettles(h))

PaySpec == PayInit /\ [][PayNext]_payVars
PayFairSpec == PaySpec /\ PayFairness

-----------------------------------------------------------------------------
(***************************************************************************)
(* Properties.                                                             *)
(***************************************************************************)

\* A session at the gateway always has its transaction row, whichever write fails,
\* so no report of it meets an unknown reference (the write-ahead of
\* CreateCheckoutSession).
NoOrphanSession == \A r \in session : status[r] # "none"

\* However many reports of a payment are delivered, repeated or in flight at once, it
\* earns the right to advance the step once per settlement: once, and once more only if
\* its checkout, still under way when the first report came, saved its PENDING copy over
\* the settled row.  (ProcessWebhook has it that "only the first one past PENDING updates
\* it and earns the right to advance the workflow".)
EarnedPerSettlement ==
    \A r \in Refs : earned[r] <= (IF r \in overwritten THEN 2 ELSE 1)

\* What the step was told of a payment is what its row says, even with two checkouts
\* for the step and reports that contradict each other, unless the payment's own
\* checkout saved its copy over the row that was settled (ProcessWebhook,
\* CreateCheckoutSession).
StepToldTheRow ==
    step.told \in Terminal => /\ step.by \in Refs
                              /\ status[step.by] = step.told \/ step.by \in overwritten

\* A checkout that has not returned has its row to itself, but for the reports of the
\* session that it opened.  It saves its copy once.
CheckoutHoldsRow ==
    /\ \A k \in Checkouts :
          /\ checkout[k].pc = "idle" => checkout[k].ref = NoRef
          /\ checkout[k].ref \in Refs => status[checkout[k].ref] # "none"
          /\ checkout[k].pc \in {"session", "save", "mark"} =>
               /\ checkout[k].ref \in Refs
               /\ checkout[k].ref \notin overwritten
          /\ checkout[k].pc = "session" => checkout[k].ref \notin session
    /\ \A k, l \in Checkouts :
          k # l /\ checkout[k].ref \in Refs => checkout[k].ref # checkout[l].ref

\* Reports are of sessions that were opened, and a request that completes the step does
\* so with the status on the row, unless the checkout saved its copy meanwhile.
ReportedIsOpened ==
    /\ \A n \in notes : n.ref \in session
    /\ \A h \in Handlers :
          /\ handler[h].pc # "idle" => handler[h].ref \in session
          /\ handler[h].pc = "advance" =>
               /\ handler[h].report \in Terminal
               /\ status[handler[h].ref] = handler[h].report \/ handler[h].ref \in overwritten

\* A transaction earns the right to advance its step when it leaves PENDING, where only
\* its checkout can put it back.
EarnedWhenSettled ==
    \A r \in Refs :
        /\ status[r] = "none" => r \notin overwritten
        /\ status[r] \notin Terminal => earned[r] <= (IF r \in overwritten THEN 1 ELSE 0)

\* The inductive invariant of payments: a settled row is written once more at most, by
\* the checkout that made it.
PayInv ==
    /\ PayTypeOK /\ NoOrphanSession /\ EarnedPerSettlement /\ StepToldTheRow
    /\ CheckoutHoldsRow /\ ReportedIsOpened /\ EarnedWhenSettled

\* A transaction that is settled stays as it was settled, whatever is reported of it
\* later.  Only the checkout that made it, while it is still under way, changes it, and
\* no more than once (CreateCheckoutSession, ProcessWebhook).
SettledIsFinal ==
    [][\A r \in Refs : status[r] \in Terminal /\ status'[r] # status[r] =>
          /\ r \notin overwritten /\ r \in overwritten'
          /\ \E k \in Checkouts : checkout[k].ref = r /\ checkout[k].pc \in {"save", "mark"}]_payVars

\* A payment that the gateway reports as made is settled, although writes fail and
\* answers are lost (the errors that HandleWebhook answers with a 500), whatever becomes
\* of the reports of other payments.  A row that its checkout put back to PENDING may stay
\* so: the gateway has had its answer.
PaymentSettles ==
    \A r \in Repeated : [ref |-> r, report |-> "SUCCESS"] \in notes
                      ~> status[r] \in Terminal \/ r \in overwritten

-----------------------------------------------------------------------------
(***************************************************************************)
(* What the code's comments say and the code does not do.                  *)
(***************************************************************************)

\* Of all deliveries "only the first one past PENDING updates it and earns the right to
\* advance the workflow" (ProcessWebhook).
AdvanceEarnedOnce == \A r \in Refs : earned[r] <= 1

\* A payment that the gateway reports as made completes the step, unless the
\* transaction was settled as failed before: after a failure the service lets "the
\* gateway retry drive a re-attempt" (ProcessWebhook).
PaymentReachesStep ==
    \A r \in Repeated : [ref |-> r, report |-> "SUCCESS"] \in notes
                      ~> step.told # "open" \/ status[r] = "FAILED"

=============================================================================
