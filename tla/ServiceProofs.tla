---------------------------- MODULE ServiceProofs ----------------------------
(***************************************************************************)
(* Proofs about components that are called concurrently.  Payment: a       *)
(* transaction is settled by one report, and once more only if its         *)
(* checkout saved its copy over the settlement.  Remote, for any number of *)
(* callers, any sequence of reloads and any retries: a call is made with a *)
(* configuration that is at least as new as the call, its token has not    *)
(* expired when it arrives if the buffer covers the timeouts, and every    *)
(* response body is closed once.  TaskClaim, for any number of callers,    *)
(* holders, attempts and changes: a claim only passes by its release, and  *)
(* a call gives up only after as many changes as it made attempts.         *)
(***************************************************************************)
EXTENDS Payment, Remote, TaskClaim, TLAPS

-----------------------------------------------------------------------------
(***************************************************************************)
(* Payment.                                                                *)
(***************************************************************************)

\* The initial state satisfies the invariant.
LEMMA PayInvInit == PayInit => PayInv
BY RefsAssumption
   DEF PayInit, PayInv, PayTypeOK, NoOrphanSession, EarnedPerSettlement, StepToldTheRow,
       CheckoutHoldsRow, ReportedIsOpened, EarnedWhenSettled, NoHandler, Terminal, Statuses,
       Reports, Note

\* The two ways in which a webhook request ends keep the handlers and the reports
\* typed, and add neither a request nor a report.
LEMMA RequestEnds ==
    ASSUME PayTypeOK, NEW h \in Handlers, Acknowledges(h) \/ AsksAgain(h)
    PROVE  /\ handler' \in [Handlers -> [pc : {"idle", "settle", "advance"},
                                         ref : Refs \cup {NoRef}, report : Reports]]
           /\ notes' \subseteq notes
           /\ \A g \in Handlers : handler'[g].pc = "idle" \/ handler'[g] = handler[g]
BY DEF Acknowledges, AsksAgain, PayTypeOK, NoHandler, Reports

\* A checkout that goes on keeps its reference, and leaves the other checkouts alone.
LEMMA CheckoutMoves ==
    ASSUME PayTypeOK, NEW k \in Checkouts, NEW pc \in {"save", "mark", "done", "failed"},
           CheckoutGoes(k, pc)
    PROVE  /\ checkout' \in [Checkouts -> [pc : {"idle", "session", "save", "mark", "done", "failed"},
                                            ref : Refs \cup {NoRef}]]
           /\ \A l \in Checkouts : checkout'[l].ref = checkout[l].ref
           /\ checkout'[k].pc = pc
           /\ \A l \in Checkouts \ {k} : checkout'[l] = checkout[l]
BY ZenonT(30) DEF CheckoutGoes, PayTypeOK

\* A checkout that inserts its row preserves the invariant, and so does one that fails to.
LEMMA CheckoutCreatesStep ==
    ASSUME PayInv, NEW k \in Checkouts, CheckoutCreates(k)
    PROVE  PayInv'
<1>1. ASSUME CheckoutGoes(k, "failed"), UNCHANGED status PROVE PayInv'
  <2>1. /\ checkout' \in [Checkouts -> [pc : {"idle", "session", "save", "mark", "done", "failed"},
                                         ref : Refs \cup {NoRef}]]
        /\ \A l \in Checkouts : checkout'[l].ref = checkout[l].ref
        /\ checkout'[k].pc = "failed"
        /\ \A l \in Checkouts \ {k} : checkout'[l] = checkout[l]
    BY <1>1, CheckoutMoves, Zenon DEF PayInv
  <2>2. checkout[k].ref = NoRef
    BY Zenon DEF CheckoutCreates, PayInv, CheckoutHoldsRow
  <2>3. CheckoutHoldsRow'
    BY <1>1, <2>1, <2>2, RefsAssumption DEF CheckoutCreates, PayInv, CheckoutHoldsRow
  <2> QED BY <1>1, <2>1, <2>3, Zenon
    DEF CheckoutCreates, PayInv, PayTypeOK, NoOrphanSession, EarnedPerSettlement,
        StepToldTheRow, ReportedIsOpened, EarnedWhenSettled
<1>2. ASSUME NEW q \in Refs, status[q] = "none",
             status' = [status EXCEPT ![q] = "PENDING"],
             checkout' = [checkout EXCEPT ![k] = [pc |-> "session", ref |-> q]]
      PROVE  PayInv'
  <2>1. /\ status' \in [Refs -> Statuses] /\ status'[q] = "PENDING"
        /\ \A p \in Refs \ {q} : status'[p] = status[p]
    BY <1>2, Zenon DEF PayInv, PayTypeOK, Statuses
  <2>2. /\ checkout' \in [Checkouts -> [pc : {"idle", "session", "save", "mark", "done", "failed"},
                                         ref : Refs \cup {NoRef}]]
        /\ checkout'[k].pc = "session" /\ checkout'[k].ref = q
        /\ \A l \in Checkouts \ {k} : checkout'[l] = checkout[l]
    BY <1>2, Zenon DEF PayInv, PayTypeOK
  <2>3. q \notin session /\ q \notin overwritten
    BY <1>2, Zenon DEF PayInv, NoOrphanSession, EarnedWhenSettled
  <2>4. \A l \in Checkouts : checkout[l].ref # q
    BY <1>2, Zenon DEF PayInv, CheckoutHoldsRow
  <2>5. UNCHANGED <<session, notes, handler, earned, overwritten, step>>
    BY Zenon DEF CheckoutCreates
  <2>6. CheckoutHoldsRow'
    BY <1>2, <2>1, <2>2, <2>3, <2>4, <2>5 DEF PayInv, CheckoutHoldsRow
  <2>7. NoOrphanSession' /\ StepToldTheRow' /\ ReportedIsOpened'
    BY <1>2, <2>1, <2>3, <2>5
       DEF PayInv, ReportedIsOpened, NoOrphanSession, StepToldTheRow, Terminal
  <2>8. EarnedPerSettlement' /\ EarnedWhenSettled'
    BY <1>2, <2>1, <2>3, <2>5 DEF PayInv, EarnedPerSettlement, EarnedWhenSettled, Terminal
  <2>9. PayTypeOK'
    BY <2>1, <2>2, <2>5, Zenon DEF PayInv, PayTypeOK
  <2> QED BY <2>6, <2>7, <2>8, <2>9, Zenon DEF PayInv
<1>3. \A q \in Offered[k] : q \in Refs
  BY PaymentAssumption
<1> QED BY <1>1, <1>2, <1>3, Zenon DEF CheckoutCreates

\* A checkout that asks the gateway for a session preserves the invariant.
LEMMA CheckoutOpensStep ==
    ASSUME PayInv, NEW k \in Checkouts, CheckoutOpensSession(k)
    PROVE  PayInv'
<1> DEFINE r == checkout[k].ref
<1>1. r \in Refs /\ status[r] # "none" /\ r \notin overwritten
  BY Zenon DEF CheckoutOpensSession, PayInv, CheckoutHoldsRow
<1>2. PICK pc \in {"save", "mark", "done", "failed"}, opened \in {{}, {r}} :
          CheckoutGoes(k, pc) /\ session' = session \cup opened
  BY Zenon DEF CheckoutOpensSession
<1>3. UNCHANGED <<status, notes, handler, earned, overwritten, step>>
  BY Zenon DEF CheckoutOpensSession
<1>4. /\ checkout' \in [Checkouts -> [pc : {"idle", "session", "save", "mark", "done", "failed"},
                                       ref : Refs \cup {NoRef}]]
      /\ \A l \in Checkouts : checkout'[l].ref = checkout[l].ref
      /\ checkout'[k].pc = pc
      /\ \A l \in Checkouts \ {k} : checkout'[l] = checkout[l]
  BY <1>2, CheckoutMoves, Zenon DEF PayInv
<1>5. /\ session' \subseteq Refs /\ session \subseteq session'
      /\ \A q \in session' : q \in session \/ q = r
  BY <1>1, <1>2, Zenon DEF PayInv, PayTypeOK
<1>6. CheckoutHoldsRow'
  BY <1>1, <1>3, <1>4, <1>5 DEF PayInv, CheckoutHoldsRow
<1>7. NoOrphanSession' /\ ReportedIsOpened' /\ StepToldTheRow'
  BY <1>1, <1>3, <1>5, Zenon DEF PayInv, NoOrphanSession, ReportedIsOpened, StepToldTheRow
<1>8. PayTypeOK' /\ EarnedPerSettlement' /\ EarnedWhenSettled'
  BY <1>3, <1>4, <1>5, Zenon DEF PayInv, PayTypeOK, EarnedPerSettlement, EarnedWhenSettled
<1> QED BY <1>6, <1>7, <1>8, Zenon DEF PayInv

\* A checkout that saves its row and returns preserves the invariant, whether or not a
\* report has settled the row meanwhile, and so does one whose save fails.
LEMMA CheckoutReturnsStep ==
    ASSUME PayInv, NEW k \in Checkouts, CheckoutSaves(k) \/ CheckoutMarksFailed(k)
    PROVE  PayInv'
<1> DEFINE r == checkout[k].ref
<1>1. r \in Refs /\ status[r] # "none" /\ r \notin overwritten
  BY Zenon DEF CheckoutSaves, CheckoutMarksFailed, PayInv, CheckoutHoldsRow
<1>2. UNCHANGED <<session, notes, handler, earned, step>>
  BY Zenon DEF CheckoutSaves, CheckoutMarksFailed
<1>3. PICK pc \in {"done", "failed"} : CheckoutGoes(k, pc)
  BY Zenon DEF CheckoutSaves, CheckoutMarksFailed
<1>4. /\ checkout' \in [Checkouts -> [pc : {"idle", "session", "save", "mark", "done", "failed"},
                                       ref : Refs \cup {NoRef}]]
      /\ \A l \in Checkouts : checkout'[l].ref = checkout[l].ref
      /\ checkout'[k].pc = pc
      /\ \A l \in Checkouts \ {k} : checkout'[l] = checkout[l]
  BY <1>3, CheckoutMoves, Zenon DEF PayInv
<1>5. ASSUME UNCHANGED <<status, overwritten>> PROVE PayInv'
  <2>1. CheckoutHoldsRow'
    BY <1>1, <1>2, <1>4, <1>5 DEF PayInv, CheckoutHoldsRow
  <2> QED BY <1>2, <1>4, <1>5, <2>1, Zenon
    DEF PayInv, PayTypeOK, NoOrphanSession, EarnedPerSettlement, StepToldTheRow,
        ReportedIsOpened, EarnedWhenSettled
<1>6. ASSUME NEW st \in {"PENDING", "FAILED"}, Update(k, st) PROVE PayInv'
  <2>1. /\ status' \in [Refs -> Statuses] /\ status'[r] = st
        /\ \A q \in Refs \ {r} : status'[q] = status[q]
    BY <1>1, <1>6, Zenon DEF Update, PayInv, PayTypeOK, Statuses, Terminal
  <2>2. /\ overwritten' \subseteq Refs /\ overwritten \subseteq overwritten'
        /\ \A q \in overwritten' : q \in overwritten \/ q = r
        /\ status[r] \in Terminal => r \in overwritten'
        /\ status[r] \notin Terminal => overwritten' = overwritten
    BY <1>1, <1>6, Zenon DEF Update, PayInv, PayTypeOK
  <2>3. CheckoutHoldsRow'
    BY <1>1, <1>2, <1>4, <2>1, <2>2 DEF PayInv, CheckoutHoldsRow
  <2>4. NoOrphanSession'
    BY <1>1, <1>2, <2>1, Zenon DEF PayInv, PayTypeOK, NoOrphanSession
  <2>5. StepToldTheRow'
    BY <1>1, <1>2, <2>1, <2>2, Zenon DEF PayInv, StepToldTheRow
  <2>6. ReportedIsOpened'
    BY <1>1, <1>2, <2>1, <2>2, Zenon DEF PayInv, PayTypeOK, ReportedIsOpened
  <2>7. EarnedPerSettlement' /\ EarnedWhenSettled'
    BY <1>1, <1>2, <2>1, <2>2
       DEF PayInv, PayTypeOK, Statuses, EarnedPerSettlement, EarnedWhenSettled
  <2>8. PayTypeOK'
    BY <1>2, <1>4, <2>1, <2>2, Zenon DEF PayInv, PayTypeOK
  <2> QED BY <2>3, <2>4, <2>5, <2>6, <2>7, <2>8, Zenon DEF PayInv
<1> QED BY <1>5, <1>6, Zenon DEF CheckoutSaves, CheckoutMarksFailed

\* Every step of a webhook request preserves the invariant: it settles a row that is
\* PENDING, for the first time or because its checkout put it back.
LEMMA WebhookStep ==
    ASSUME PayInv, NEW h \in Handlers, Serves(h)
    PROVE  PayInv'
<1> DEFINE r == handler[h].ref
           report == handler[h].report
<1>0. r \in Refs /\ report \in Reports /\ r \in session
  BY Zenon DEF Serves, WebhookSettles, WebhookSettleErrs, WebhookAdvances, WebhookAdvanceErrs,
         PayInv, PayTypeOK, ReportedIsOpened
<1>1. ASSUME Acknowledges(h) \/ AsksAgain(h),
             UNCHANGED <<status, checkout, session, earned, overwritten>>,
             step' \in [told : Terminal \cup {"open", "moved"}, by : Refs \cup {NoRef}],
             StepToldTheRow'
      PROVE  PayInv'
  <2>1. PayTypeOK'
    BY <1>1, RequestEnds, Zenon DEF PayInv, PayTypeOK
  <2>2. ReportedIsOpened'
    BY <1>1, RequestEnds DEF PayInv, ReportedIsOpened
  <2> QED BY <1>1, <2>1, <2>2, Zenon
    DEF PayInv, NoOrphanSession, EarnedPerSettlement, CheckoutHoldsRow, EarnedWhenSettled
<1>2. ASSUME WebhookSettles(h), Takes(status[r], report), report \in Terminal PROVE PayInv'
  <2>1. /\ status[r] = "PENDING"
        /\ status' = [status EXCEPT ![r] = report]
        /\ handler' = [handler EXCEPT ![h].pc = "advance"]
        /\ earned' = [earned EXCEPT ![r] = earned[r] + 1]
        /\ UNCHANGED <<notes, checkout, session, overwritten, step>>
    BY <1>0, <1>2, Zenon DEF WebhookSettles, Takes
  <2>2. /\ status' \in [Refs -> Statuses] /\ status'[r] = report
        /\ \A q \in Refs \ {r} : status'[q] = status[q]
    BY <1>0, <1>2, <2>1, Zenon DEF PayInv, PayTypeOK, Statuses
  <2>3. /\ handler' \in [Handlers -> [pc : {"idle", "settle", "advance"},
                                       ref : Refs \cup {NoRef}, report : Reports]]
        /\ handler'[h].pc = "advance" /\ handler'[h].ref = r /\ handler'[h].report = report
        /\ \A g \in Handlers \ {h} : handler'[g] = handler[g]
    BY <2>1 DEF PayInv, PayTypeOK
  <2>4. /\ earned' \in [Refs -> Nat] /\ earned'[r] = earned[r] + 1
        /\ \A q \in Refs \ {r} : earned'[q] = earned[q]
    BY <1>0, <2>1 DEF PayInv, PayTypeOK
  <2>5. PayTypeOK'
    BY <2>1, <2>2, <2>3, <2>4, Zenon DEF PayInv, PayTypeOK
  <2>6. CheckoutHoldsRow'
    BY <1>0, <1>2, <2>1, <2>2 DEF PayInv, CheckoutHoldsRow, Terminal
  <2>7. ReportedIsOpened'
    BY <1>0, <1>2, <2>1, <2>2, <2>3 DEF PayInv, PayTypeOK, ReportedIsOpened, Terminal
  <2>8. NoOrphanSession' /\ StepToldTheRow'
    BY <1>0, <1>2, <2>1, <2>2 DEF PayInv, PayTypeOK, NoOrphanSession, StepToldTheRow, Terminal
  <2>9. EarnedPerSettlement' /\ EarnedWhenSettled'
    BY <1>0, <1>2, <2>1, <2>2, <2>4
       DEF PayInv, PayTypeOK, EarnedPerSettlement, EarnedWhenSettled, Terminal
  <2> QED BY <2>5, <2>6, <2>7, <2>8, <2>9, Zenon DEF PayInv
<1>3. ASSUME WebhookSettles(h), ~(Takes(status[r], report) /\ report \in Terminal) PROVE PayInv'
  <2>1. status' = status
    BY <1>0, <1>3 DEF WebhookSettles, Takes, Reports, Terminal, PayInv, PayTypeOK
  <2> QED BY <1>1, <1>3, <2>1, Zenon DEF WebhookSettles, PayInv, PayTypeOK, StepToldTheRow
<1>4. ASSUME WebhookAdvances(h) PROVE PayInv'
  <2>1. report \in Terminal /\ (status[r] = report \/ r \in overwritten)
    BY <1>4, Zenon DEF WebhookAdvances, PayInv, ReportedIsOpened
  <2> QED BY <1>0, <1>1, <1>4, <2>1 DEF WebhookAdvances, PayInv, PayTypeOK, StepToldTheRow
<1>5. CASE WebhookSettleErrs(h) \/ WebhookAdvanceErrs(h)
  <2>1. AsksAgain(h) /\ UNCHANGED <<status, checkout, session, earned, overwritten, step>>
    BY <1>5, Zenon DEF WebhookSettleErrs, WebhookAdvanceErrs
  <2> QED BY <1>1, <2>1, Zenon DEF PayInv, PayTypeOK, StepToldTheRow
<1> QED BY <1>2, <1>3, <1>4, <1>5, Zenon DEF Serves

\* Every step preserves the invariant.
LEMMA PayInvStep ==
    ASSUME PayInv, [PayNext]_payVars
    PROVE  PayInv'
<1>1. ASSUME NEW n \in Note, GatewayReports(n) PROVE PayInv'
  <2>1. n.ref \in session /\ notes' = notes \cup {n}
    BY <1>1, Zenon DEF GatewayReports
  <2> QED BY <1>1, <2>1
    DEF GatewayReports, PayInv, PayTypeOK, NoOrphanSession, EarnedPerSettlement, StepToldTheRow,
        CheckoutHoldsRow, ReportedIsOpened, EarnedWhenSettled
<1>2. ASSUME NEW h \in Handlers, NEW n \in notes, WebhookArrives(h, n) PROVE PayInv'
  <2>1. n.ref \in Refs /\ n.report \in Reports /\ n.ref \in session
    BY Zenon DEF PayInv, PayTypeOK, Note, ReportedIsOpened
  <2>2. /\ handler' \in [Handlers -> [pc : {"idle", "settle", "advance"},
                                       ref : Refs \cup {NoRef}, report : Reports]]
        /\ handler'[h].pc = "settle" /\ handler'[h].ref = n.ref
        /\ \A g \in Handlers \ {h} : handler'[g] = handler[g]
    BY <1>2, <2>1, Zenon DEF WebhookArrives, PayInv, PayTypeOK
  <2>3. ReportedIsOpened'
    BY <1>2, <2>1, <2>2, Zenon DEF WebhookArrives, PayInv, ReportedIsOpened
  <2>4. UNCHANGED <<status, session, checkout, earned, overwritten, step>> /\ notes' \in SUBSET notes
    BY <1>2, Zenon DEF WebhookArrives
  <2>5. PayTypeOK'
    BY <2>2, <2>4, Zenon DEF PayInv, PayTypeOK
  <2>6. NoOrphanSession' /\ EarnedPerSettlement' /\ StepToldTheRow' /\ CheckoutHoldsRow' /\ EarnedWhenSettled'
    BY <2>4, Zenon DEF PayInv, NoOrphanSession, EarnedPerSettlement, StepToldTheRow, CheckoutHoldsRow, EarnedWhenSettled
  <2> QED BY <2>3, <2>5, <2>6, Zenon DEF PayInv
<1>3. CASE StepMovesOn
  BY <1>3
     DEF StepMovesOn, PayInv, PayTypeOK, NoOrphanSession, EarnedPerSettlement, StepToldTheRow,
         CheckoutHoldsRow, ReportedIsOpened, EarnedWhenSettled, Terminal
<1>4. CASE UNCHANGED payVars
  BY <1>4
     DEF payVars, PayInv, PayTypeOK, NoOrphanSession, EarnedPerSettlement, StepToldTheRow,
         CheckoutHoldsRow, ReportedIsOpened, EarnedWhenSettled
<1> QED BY <1>1, <1>2, <1>3, <1>4, CheckoutCreatesStep, CheckoutOpensStep, CheckoutReturnsStep,
           WebhookStep, Zenon DEF PayNext

\* Every state satisfies the invariant, for any number of checkouts, references and
\* requests, under every failure, and whenever the gateway reports.
THEOREM PaymentInvariance == PaySpec => []PayInv
<1>1. PayInv /\ [PayNext]_payVars => PayInv'
  BY PayInvStep, Zenon
<1> QED BY <1>1, PayInvInit, PTL DEF PaySpec

\* The right to advance the step is earned once for each settlement of a transaction, and
\* a transaction is settled again only after its checkout saved its copy over the first
\* settlement (ProcessWebhook, CreateCheckoutSession).
THEOREM AdvancedPerSettlement == PaySpec => []EarnedPerSettlement
<1>1. PayInv => EarnedPerSettlement
  BY Zenon DEF PayInv
<1> QED BY <1>1, PaymentInvariance, PTL

\* The step is told what the row of its payment says, unless the payment's checkout saved
\* its copy over the settled row.
THEOREM StepIsToldTheRow == PaySpec => []StepToldTheRow
<1>1. PayInv => StepToldTheRow
  BY Zenon DEF PayInv
<1> QED BY <1>1, PaymentInvariance, PTL

\* A settled transaction stays as it was settled: no later report changes it, and its own
\* checkout no more than once (the locked read of ProcessWebhook, and the save of
\* CreateCheckoutSession, which takes no lock).
THEOREM SettlementsAreFinal == PaySpec => SettledIsFinal
<1> DEFINE Rewrites(r) ==
      /\ r \notin overwritten /\ r \in overwritten'
      /\ \E k \in Checkouts : checkout[k].ref = r /\ checkout[k].pc \in {"save", "mark"}
<1>1. ASSUME PayInv, [PayNext]_payVars, NEW r \in Refs, status[r] \in Terminal
      PROVE  status'[r] = status[r] \/ Rewrites(r)
  <2>1. ASSUME NEW k \in Checkouts, CheckoutCreates(k) PROVE status'[r] = status[r]
    BY <1>1, <2>1, Zenon DEF CheckoutCreates, PayInv, PayTypeOK, Terminal
  <2>2. ASSUME NEW k \in Checkouts, CheckoutSaves(k) \/ CheckoutMarksFailed(k)
        PROVE  status'[r] = status[r] \/ Rewrites(r)
    <3>1. /\ checkout[k].pc \in {"save", "mark"}
          /\ checkout[k].ref \in Refs /\ checkout[k].ref \notin overwritten
      BY <1>1, <2>2, Zenon DEF CheckoutSaves, CheckoutMarksFailed, PayInv, CheckoutHoldsRow
    <3>2. CASE UNCHANGED <<status, overwritten>>
      BY <3>2, Zenon
    <3>3. ASSUME NEW st \in Statuses, Update(k, st) PROVE status'[r] = status[r] \/ Rewrites(r)
      BY <1>1, <3>1, <3>3, Zenon DEF Update, PayInv, PayTypeOK
    <3> QED BY <2>2, <3>2, <3>3, Zenon DEF CheckoutSaves, CheckoutMarksFailed, Statuses, Terminal
  <2>3. ASSUME NEW h \in Handlers, WebhookSettles(h) PROVE status'[r] = status[r]
    BY <1>1, <2>3, Zenon DEF WebhookSettles, Takes, PayInv, PayTypeOK, Terminal
  <2> QED BY <1>1, <2>1, <2>2, <2>3, Zenon
    DEF PayNext, payVars, CheckoutOpensSession, GatewayReports, WebhookArrives, Serves,
        WebhookSettleErrs, WebhookAdvances, WebhookAdvanceErrs, StepMovesOn
<1>2. PayInv /\ [PayNext]_payVars
        => [\A r \in Refs : status[r] \in Terminal /\ status'[r] # status[r] => Rewrites(r)]_payVars
  BY <1>1, Zenon
<1> QED BY <1>2, PaymentInvariance, PTL DEF PaySpec, SettledIsFinal

-----------------------------------------------------------------------------
(***************************************************************************)
(* Remote.                                                                 *)
(***************************************************************************)

Fields == {"pc", "since", "gen", "cfg", "retry", "path", "attempt", "backoff", "left", "token"}

\* What the proofs need to know of the values that the variables take.
Shape ==
    /\ services.gen \in Nat
    /\ DOMAIN caller = Calls
    /\ \A c \in Calls : /\ DOMAIN caller[c] = Fields
                        /\ caller[c].since \in Nat
                        /\ caller[c].gen \in Nat
    /\ DOMAIN open = Calls

\* The cached client is built from the registered configuration, and no call is ahead of it.
ClientIsNew ==
    /\ client \in {NoClient, services}
    /\ \A c \in Calls : caller[c].since <= services.gen

RemoteIInv == Shape /\ ClientIsNew /\ CallsUseNewConfig /\ BodiesAreClosed

\* What a step of one caller leaves of RemoteIInv to be shown: the others are as before.
OwnStep(c) ==
    /\ DOMAIN caller' = Calls
    /\ \A d \in Calls \ {c} : caller'[d] = caller[d]
    /\ DOMAIN open' = Calls
    /\ \A d \in Calls \ {c} : open'[d] = open[d]

\* The caller keeps the configuration that it began with.
KeepsConfig(c) ==
    /\ DOMAIN caller'[c] = Fields
    /\ caller'[c].since = caller[c].since
    /\ caller'[c].gen = caller[c].gen

\* The state of a call that is over, or that has not begun.
LEMMA NoCallShape ==
    /\ DOMAIN NoCall = Fields
    /\ NoCall.pc = "idle" /\ NoCall.since = 0 /\ NoCall.gen = 0
BY Zenon DEF NoCall, Begun, NoClient, Fields

\* What Begun leaves in the record of a call.
LEMMA BegunFields ==
    ASSUME NEW pc, NEW since, NEW k, NEW retry, NEW path
    PROVE  LET r == Begun(pc, since, k, retry, path) IN
           /\ DOMAIN r = Fields /\ r.pc = pc /\ r.since = since
           /\ r.gen = k.gen /\ r.cfg = k.cfg /\ r.token = NoToken
BY Zenon DEF Begun, Fields

\* The initial state.
LEMMA InitRemoteIInv == RemoteInit => RemoteIInv
<1> SUFFICES ASSUME RemoteInit PROVE RemoteIInv
    BY Zenon
<1>1. \A c \in Calls : caller[c] = NoCall
    BY Zenon DEF RemoteInit
<1>2. Shape
    BY <1>1, NoCallShape DEF RemoteInit, Shape
<1>3. ClientIsNew
    BY <1>1, NoCallShape DEF RemoteInit, ClientIsNew
<1>4. CallsUseNewConfig /\ BodiesAreClosed
    BY <1>1, NoCallShape, Zenon DEF RemoteInit, CallsUseNewConfig, BodiesAreClosed, CallerAt
<1> QED BY <1>2, <1>3, <1>4, Zenon DEF RemoteIInv

\* A step of a caller that keeps its configuration, or ends the call, and that opens a
\* body just when there is a response to be read.
LEMMA CallerKeeps ==
    ASSUME RemoteIInv, NEW c \in Calls, OwnStep(c), UNCHANGED <<services, client>>,
           \/ KeepsConfig(c) /\ caller[c].pc \notin {"idle", "lock"}
           \/ caller'[c] = NoCall,
           open'[c] = IF caller'[c].pc = "read" THEN 1 ELSE 0
    PROVE  RemoteIInv'
<1>1. Shape'
    BY NoCallShape DEF RemoteIInv, Shape, OwnStep, KeepsConfig
<1>2. ClientIsNew'
    BY NoCallShape DEF RemoteIInv, Shape, ClientIsNew, OwnStep, KeepsConfig
<1>3. CallsUseNewConfig'
    BY NoCallShape, Zenon DEF RemoteIInv, Shape, CallsUseNewConfig, OwnStep, KeepsConfig
<1>4. BodiesAreClosed'
    BY NoCallShape, Zenon DEF RemoteIInv, BodiesAreClosed, OwnStep, CallerAt
<1> QED BY <1>1, <1>2, <1>3, <1>4, Zenon DEF RemoteIInv

\* The end of an attempt, of a caller that is in the middle of one.
LEMMA ConcludesKeeps ==
    ASSUME RemoteIInv, NEW c \in Calls, NEW st, Concludes(c, st), UNCHANGED <<services, client>>,
           caller[c].pc \notin {"idle", "lock", "read"}
    PROVE  RemoteIInv'
<1>1. DOMAIN caller = Calls /\ DOMAIN caller[c] = Fields /\ DOMAIN open = Calls
    BY Zenon DEF RemoteIInv, Shape
<1>2. open[c] = 0
    BY Zenon DEF RemoteIInv, BodiesAreClosed, CallerAt
<1>3. OwnStep(c)
    BY <1>1, Zenon DEF Concludes, ClosesBody, Goes, Ends, OwnStep
<1>4. KeepsConfig(c) \/ caller'[c] = NoCall
    BY <1>1 DEF Concludes, Goes, Ends, KeepsConfig, Fields
<1>5. open'[c] = IF caller'[c].pc = "read" THEN 1 ELSE 0
    BY <1>1, <1>2, NoCallShape DEF Concludes, ClosesBody, Goes, Ends, Fields
<1> QED BY <1>3, <1>4, <1>5, CallerKeeps, Zenon

\* A step that ends the call of a caller, without a response.
LEMMA EndsKeeps ==
    ASSUME RemoteIInv, NEW c \in Calls, Ends(c), UNCHANGED <<services, client, open>>, caller[c].pc # "read"
    PROVE  RemoteIInv'
<1>1. DOMAIN caller = Calls /\ DOMAIN open = Calls
    BY Zenon DEF RemoteIInv, Shape
<1>2. caller'[c] = NoCall /\ OwnStep(c)
    BY <1>1, Zenon DEF Ends, OwnStep
<1>3. open'[c] = 0
    BY Zenon DEF RemoteIInv, BodiesAreClosed, CallerAt
<1> QED BY <1>2, <1>3, NoCallShape, CallerKeeps, Zenon

\* A step from the middle of an attempt to another place in it.
LEMMA MovesKeeps ==
    ASSUME RemoteIInv, NEW c \in Calls, OwnStep(c), KeepsConfig(c), UNCHANGED <<services, client, open>>,
           caller[c].pc \notin {"idle", "lock", "read"}, caller'[c].pc # "read"
    PROVE  RemoteIInv'
<1>1. open'[c] = 0
    BY Zenon DEF RemoteIInv, BodiesAreClosed, CallerAt
<1> QED BY <1>1, CallerKeeps, Zenon

\* A reload: the cached client goes, and the calls are behind the new configuration.
LEMMA SetServicesKeeps ==
    ASSUME RemoteIInv, NEW cfg, SetServices(cfg)
    PROVE  RemoteIInv'
<1>1. services'.gen \in Nat /\ services'.gen >= services.gen /\ client' \in {NoClient, services'}
    BY DEF RemoteIInv, Shape, ClientIsNew, SetServices, DropsClient
<1>2. UNCHANGED <<caller, open>>
    BY Zenon DEF SetServices
<1>3. Shape'
    BY <1>1, <1>2, Zenon DEF RemoteIInv, Shape
<1>4. ClientIsNew'
    BY <1>1, <1>2 DEF RemoteIInv, Shape, ClientIsNew
<1>5. CallsUseNewConfig' /\ BodiesAreClosed'
    BY <1>2, Zenon DEF RemoteIInv, CallsUseNewConfig, BodiesAreClosed, CallerAt
<1> QED BY <1>3, <1>4, <1>5, Zenon DEF RemoteIInv

\* Time passes for all callers, and moves none of them.
LEMMA TickKeeps ==
    ASSUME RemoteIInv, RemoteTick
    PROVE  RemoteIInv'
<1>1. UNCHANGED <<services, client, open>>
    BY Zenon DEF RemoteTick
<1>2. DOMAIN caller' = Calls
    BY Zenon DEF RemoteTick
<1>3. ASSUME NEW c \in Calls
      PROVE  /\ DOMAIN caller'[c] = Fields
             /\ caller'[c].pc = caller[c].pc
             /\ caller'[c].since = caller[c].since
             /\ caller'[c].gen = caller[c].gen
    BY Zenon DEF RemoteIInv, Shape, RemoteTick, Fields
<1>4. Shape'
    BY <1>1, <1>2, <1>3, Zenon DEF RemoteIInv, Shape
<1>5. ClientIsNew'
    BY <1>1, <1>3, Zenon DEF RemoteIInv, ClientIsNew
<1>6. CallsUseNewConfig' /\ BodiesAreClosed'
    BY <1>1, <1>3, Zenon DEF RemoteIInv, CallsUseNewConfig, BodiesAreClosed, CallerAt
<1> QED BY <1>4, <1>5, <1>6, Zenon DEF RemoteIInv

\* A call begins, with the cached client or without one.
LEMMA CallKeeps ==
    ASSUME RemoteIInv, NEW c \in Calls, NEW retry, NEW path, Call(c, retry, path)
    PROVE  RemoteIInv'
<1> DEFINE pc == IF client # NoClient THEN "attempt" ELSE "lock"
<1>1. DOMAIN caller = Calls /\ DOMAIN open = Calls /\ services.gen \in Nat
    BY Zenon DEF RemoteIInv, Shape
<1>2. UNCHANGED <<services, client, open>>
    BY Zenon DEF Call
<1>3. OwnStep(c) /\ caller'[c] = Begun(pc, services.gen, client, retry, path)
    BY <1>1, <1>2, Zenon DEF Call, OwnStep
<1>4. /\ DOMAIN caller'[c] = Fields
      /\ caller'[c].pc = pc
      /\ caller'[c].since = services.gen
      /\ caller'[c].gen = client.gen
    BY <1>3, BegunFields
<1>5. client.gen \in Nat /\ (client # NoClient => client.gen = services.gen)
  <2>1. client \in {NoClient, services}
      BY Zenon DEF RemoteIInv, ClientIsNew
  <2>2. NoClient.gen = 0
      BY Zenon DEF NoClient
  <2> QED BY <1>1, <2>1, <2>2
<1>6. open[c] = 0
    BY Zenon DEF RemoteIInv, BodiesAreClosed, Call, CallerAt
<1> HIDE DEF pc
<1>7. Shape'
    BY <1>1, <1>2, <1>3, <1>4, <1>5, Zenon DEF RemoteIInv, Shape, OwnStep
<1>8. ClientIsNew'
    BY <1>1, <1>2, <1>3, <1>4, SMTT(20) DEF RemoteIInv, ClientIsNew, OwnStep
<1>9. CallsUseNewConfig'
    BY <1>1, <1>3, <1>4, <1>5, SMTT(20) DEF RemoteIInv, CallsUseNewConfig, OwnStep, pc
<1>10. BodiesAreClosed'
    BY <1>2, <1>3, <1>4, <1>6, Zenon DEF RemoteIInv, BodiesAreClosed, OwnStep, CallerAt, pc
<1> QED BY <1>7, <1>8, <1>9, <1>10, Zenon DEF RemoteIInv

\* A caller gets the client, which another may have built since, or builds it.
LEMMA GetClientKeeps ==
    ASSUME RemoteIInv, NEW c \in Calls, GetClient(c)
    PROVE  RemoteIInv'
<1>1. /\ DOMAIN caller = Calls /\ DOMAIN open = Calls /\ DOMAIN caller[c] = Fields
      /\ services.gen \in Nat
    BY Zenon DEF RemoteIInv, Shape
<1>2. UNCHANGED <<services, open>> /\ caller[c].pc = "lock"
    BY Zenon DEF GetClient, CallerAt
<1>3. CASE Ends(c) /\ UNCHANGED client
    BY <1>2, <1>3, EndsKeeps, Zenon
<1>4. CASE /\ client' = IF client = NoClient THEN services ELSE client
           /\ caller' = [caller EXCEPT ![c].pc = "attempt", ![c].gen = client'.gen, ![c].cfg = client'.cfg]
  <2>1. client' = services
      BY <1>4, Zenon DEF RemoteIInv, ClientIsNew
  <2>2. OwnStep(c)
      BY <1>1, <1>2, <1>4, Zenon DEF OwnStep
  <2>3. /\ DOMAIN caller'[c] = Fields
        /\ caller'[c].pc = "attempt"
        /\ caller'[c].since = caller[c].since
        /\ caller'[c].gen = services.gen
      BY <1>1, <1>4, <2>1, Zenon DEF Fields
  <2>4. open[c] = 0
      BY <1>2, Zenon DEF RemoteIInv, BodiesAreClosed, CallerAt
  <2>5. Shape'
      BY <1>1, <1>2, <2>2, <2>3, Zenon DEF RemoteIInv, Shape, OwnStep
  <2>6. ClientIsNew'
      BY <1>2, <2>1, <2>2, <2>3, Zenon DEF RemoteIInv, ClientIsNew, OwnStep
  <2>7. CallsUseNewConfig'
      BY <1>2, <2>2, <2>3, Zenon DEF RemoteIInv, ClientIsNew, CallsUseNewConfig, OwnStep
  <2>8. BodiesAreClosed'
      BY <1>2, <2>2, <2>3, <2>4 DEF RemoteIInv, BodiesAreClosed, OwnStep, CallerAt
  <2> QED BY <2>5, <2>6, <2>7, <2>8, Zenon DEF RemoteIInv
<1> QED BY <1>3, <1>4, Zenon DEF GetClient

\* The other steps of a caller.
CallerGoesOn(c) ==
    \/ executeOnce(c) \/ ContextEnds(c) \/ Arrives(c) \/ RequestFails(c)
    \/ \E st \in {"ok", "client error", "busy"} : ServiceResponds(c, st)
    \/ Retry(c) \/ Request(c)
    \/ getToken(c) \/ refreshToken(c) \/ RefreshFails(c)
    \/ \E life \in Lives : Issues(c, life)

\* Each step of a call keeps the invariant (Manager.Call, executeWithRetry, getToken).
LEMMA CallerGoesOnKeeps ==
    ASSUME RemoteIInv, NEW c \in Calls, CallerGoesOn(c)
    PROVE  RemoteIInv'
<1>1. DOMAIN caller = Calls /\ DOMAIN open = Calls /\ DOMAIN caller[c] = Fields
    BY Zenon DEF RemoteIInv, Shape
<1>2. CASE executeOnce(c)
  <2>1. UNCHANGED <<services, client>> /\ caller[c].pc = "attempt"
      BY <1>2, Zenon DEF executeOnce, CallerAt
  <2>2. CASE caller[c].path = "other host"
      BY <1>2, <2>1, <2>2, ConcludesKeeps, Zenon DEF executeOnce
  <2>3. CASE caller[c].path # "other host"
    <3> DEFINE to == IF caller[c].cfg.auth = "oauth2" THEN "token" ELSE "sent"
               left == Timeout(caller[c].cfg)
    <3>1. caller' = [caller EXCEPT ![c].pc = to, ![c].left = left] /\ open' = open
        BY <1>2, <2>3, Zenon DEF executeOnce
    <3>2. to \notin {"read"}
        BY Zenon
    <3> HIDE DEF to, left
    <3>3. OwnStep(c) /\ KeepsConfig(c) /\ caller'[c].pc = to
        BY <1>1, <3>1, Zenon DEF OwnStep, KeepsConfig, Fields
    <3> QED BY <2>1, <3>1, <3>2, <3>3, MovesKeeps, Zenon
  <2> QED BY <2>2, <2>3, Zenon
<1>3. CASE ContextEnds(c)
    BY <1>3, EndsKeeps, Zenon DEF ContextEnds
<1>4. CASE Arrives(c)
  <2>1. OwnStep(c) /\ KeepsConfig(c) /\ caller'[c].pc = "arrived"
      BY <1>1, <1>4, Zenon DEF Arrives, Goes, OwnStep, KeepsConfig, Fields
  <2> QED BY <1>4, <2>1, MovesKeeps, Zenon DEF Arrives, CallerAt
<1>5. CASE RequestFails(c)
    BY <1>5, ConcludesKeeps, Zenon DEF RequestFails
<1>6. CASE \E st \in {"ok", "client error", "busy"} : ServiceResponds(c, st)
    BY <1>6, ConcludesKeeps, Zenon DEF ServiceResponds, CallerAt
<1>7. CASE Retry(c)
  <2>1. OwnStep(c) /\ KeepsConfig(c) /\ caller'[c].pc = "attempt"
      BY <1>1, <1>7, Zenon DEF Retry, OwnStep, KeepsConfig, Fields
  <2> QED BY <1>7, <2>1, MovesKeeps, Zenon DEF Retry, CallerAt
<1>8. CASE Request(c)
  <2>1. open[c] = 1
      BY <1>8, Zenon DEF Request, RemoteIInv, BodiesAreClosed
  <2>2. OwnStep(c) /\ caller'[c] = NoCall /\ open'[c] = 0
      BY <1>1, <1>8, <2>1 DEF Request, Ends, OwnStep
  <2> QED BY <1>8, <2>2, NoCallShape, CallerKeeps, Zenon DEF Request
<1>9. CASE getToken(c)
  <2>1. OwnStep(c) /\ KeepsConfig(c) /\ caller'[c].pc \in {"sent", "refresh"}
      BY <1>1, <1>9 DEF getToken, OwnStep, KeepsConfig, Fields
  <2> QED BY <1>9, <2>1, MovesKeeps, Zenon DEF getToken, CallerAt
<1>10. CASE refreshToken(c)
  <2>1. OwnStep(c) /\ KeepsConfig(c) /\ caller'[c].pc = "sent"
      BY <1>1, <1>10, Zenon DEF refreshToken, OwnStep, KeepsConfig, Fields
  <2> QED BY <1>10, <2>1, MovesKeeps, Zenon DEF refreshToken, CallerAt
<1>11. CASE RefreshFails(c)
    BY <1>11, ConcludesKeeps, Zenon DEF RefreshFails
<1>12. CASE \E life \in Lives : Issues(c, life)
  <2>1. OwnStep(c) /\ KeepsConfig(c) /\ caller'[c].pc = "issued"
      BY <1>1, <1>12 DEF Issues, OwnStep, KeepsConfig, Fields
  <2> QED BY <1>12, <2>1, MovesKeeps, Zenon DEF Issues, CallerAt
<1> QED BY <1>2, <1>3, <1>4, <1>5, <1>6, <1>7, <1>8, <1>9, <1>10, <1>11, <1>12, Zenon DEF CallerGoesOn

\* Reloads and the steps of all calls keep the invariant.
LEMMA NextRemoteIInv == RemoteIInv /\ [RemoteNext]_remoteVars => RemoteIInv'
<1> SUFFICES ASSUME RemoteIInv, [RemoteNext]_remoteVars PROVE RemoteIInv'
    BY Zenon
<1>1. CASE \E cfg \in Configs : SetServices(cfg)
    BY <1>1, SetServicesKeeps, Zenon
<1>2. CASE RemoteTick
    BY <1>2, TickKeeps, Zenon
<1>3. CASE \E c \in Calls, retry \in Retries, path \in {"relative", "other host"} : Call(c, retry, path)
    BY <1>3, CallKeeps, Zenon
<1>4. CASE \E c \in Calls : GetClient(c)
    BY <1>4, GetClientKeeps, Zenon
<1>5. CASE \E c \in Calls : CallerGoesOn(c)
    BY <1>5, CallerGoesOnKeeps, Zenon
<1>6. CASE UNCHANGED remoteVars
    BY <1>6, Zenon DEF remoteVars, RemoteIInv, Shape, ClientIsNew, CallsUseNewConfig, BodiesAreClosed, CallerAt
<1> QED BY <1>1, <1>2, <1>3, <1>4, <1>5, <1>6, Zenon DEF RemoteNext, CallerGoesOn

\* The inductive invariant: the client that is cached is the one of the configuration
\* that is registered, and a call is not ahead of the configuration (GetClient,
\* SetServices).
THEOREM RemoteInvariance == RemoteSpec => []RemoteIInv
BY InitRemoteIInv, NextRemoteIInv, PTL DEF RemoteSpec

\* No call is made with a configuration that had been replaced when it began, although
\* the client is looked for under the read lock and built under another
\* (GetClient, SetServices).
THEOREM CallsAreUpToDate == RemoteSpec => []CallsUseNewConfig
<1>1. RemoteIInv => CallsUseNewConfig
    BY Zenon DEF RemoteIInv
<1> QED BY <1>1, RemoteInvariance, PTL

\* Every response body is closed once, however many attempts a call makes and however
\* each of them ends (executeWithRetry, Request).
THEOREM BodiesClose == RemoteSpec => []BodiesAreClosed
<1>1. RemoteIInv => BodiesAreClosed
    BY Zenon DEF RemoteIInv
<1> QED BY <1>1, RemoteInvariance, PTL
\* A token, and how long its lifetime is counted beyond the time that it has: the time
\* that the answer was under way.
TokenRecords == [real : Nat, left : Nat, life : Nat]
AuthOk(a) ==
    DOMAIN a = {"token", "holder"} /\ a.token \in TokenRecords /\ a.token.left <= a.token.real + tokenTimeout

\* What is known of a call at each place.  A request that is under way has less time than
\* its token, if both timeouts are within the buffer and the token outlives them.
Delays(r) == tokenTimeout + Timeout(r.cfg)
CallOk(r) ==
    /\ r.token \in TokenRecords
    /\ r.pc \notin {"idle", "lock"} => r.gen \in DOMAIN Reloads /\ r.cfg \in Configs
    /\ r.pc \in {"refresh", "issued"} => r.left \in 0 .. tokenTimeout
    /\ r.pc = "issued" => r.token.left = 0 /\ r.token.life + r.left <= r.token.real + tokenTimeout
    /\ r.pc \in {"sent", "arrived"} =>
          /\ r.left \in Nat
          /\ r.cfg.auth = "oauth2" /\ Delays(r) <= buffer /\ r.token.life > Delays(r) => r.token.real > r.left

Registered(s) == s.gen \in DOMAIN Reloads /\ s.cfg \in Configs

TokenInv ==
    /\ services = NoClient \/ Registered(services)
    /\ DOMAIN auths = DOMAIN Reloads
    /\ \A g \in DOMAIN Reloads : AuthOk(auths[g])
    /\ \A c \in Calls : CallOk(caller[c])

\* No token, and no call.
LEMMA NothingOk == NoToken \in TokenRecords /\ CallOk(NoCall)
<1>1. NoToken \in TokenRecords
    BY Zenon DEF NoToken, TokenRecords
<1>2. NoCall.token = NoToken /\ NoCall.pc = "idle"
    BY BegunFields DEF NoCall
<1> QED BY <1>1, <1>2, Zenon DEF CallOk

\* A configured timeout, or the one that a configuration without one has.
LEMMA TimeoutIsNat ==
    ASSUME NEW cfg \in Configs
    PROVE  Timeout(cfg) \in Nat
BY RemoteAssumption, Zenon DEF Timeout

\* A call that goes on to a place where neither a time nor its token matters.
LEMMA PassesOk ==
    ASSUME NEW r, NEW q, CallOk(r), r.pc \notin {"idle", "lock"},
           q.gen = r.gen, q.cfg = r.cfg, q.token \in TokenRecords, q.pc \in {"attempt", "wait", "read", "token"}
    PROVE  CallOk(q)
BY Zenon DEF CallOk

\* A token ages in both of its counts.
LEMMA AgedToken ==
    ASSUME NEW t \in TokenRecords
    PROVE  /\ Aged(t) \in TokenRecords
           /\ Aged(t).life = t.life /\ Aged(t).real = Less(t.real) /\ Aged(t).left = Less(t.left)
<1>1. ASSUME NEW x \in Nat, NEW y \in Nat
      PROVE  LET u == [t EXCEPT !.real = x, !.left = y] IN
             u \in TokenRecords /\ u.life = t.life /\ u.real = x /\ u.left = y
    BY Zenon DEF TokenRecords
<1>2. Less(t.real) \in Nat /\ Less(t.left) \in Nat
    BY DEF TokenRecords, Less
<1> QED BY <1>1, <1>2, Zenon DEF Aged

\* Time passes for the token of an authenticator.
LEMMA TickAuth ==
    ASSUME NEW a, AuthOk(a)
    PROVE  AuthOk([a EXCEPT !.token = Aged(@)])
<1> DEFINE b == [a EXCEPT !.token = Aged(@)]
<1>1. DOMAIN b = {"token", "holder"} /\ b.token = Aged(a.token)
    BY Zenon DEF AuthOk
<1>2. a.token.left \in Nat /\ a.token.real \in Nat /\ a.token.left <= a.token.real + tokenTimeout
    BY Zenon DEF AuthOk, TokenRecords
<1>3. Less(a.token.left) <= Less(a.token.real) + tokenTimeout
    BY <1>2, RemoteAssumption DEF Less
<1> HIDE DEF b
<1> QED BY <1>1, <1>3, AgedToken, Zenon DEF AuthOk

\* Time passes for a call: it has time left, and so its token keeps ahead of it.
LEMMA TickCall ==
    ASSUME NEW r, NEW q, DOMAIN r = Fields, CallOk(r), r.pc \in Timed \ {"wait"} => r.left > 0,
           q = [r EXCEPT !.token = Aged(@), !.left = IF r.pc \in Timed THEN Less(@) ELSE @]
    PROVE  CallOk(q)
<1>1. /\ q.pc = r.pc /\ q.gen = r.gen /\ q.cfg = r.cfg /\ q.token = Aged(r.token)
      /\ r.pc \in Timed => q.left = Less(r.left)
    BY Zenon DEF Fields
<1>2. r.token \in TokenRecords /\ r.token.real \in Nat /\ r.token.left \in Nat /\ r.token.life \in Nat
    BY Zenon DEF CallOk, TokenRecords
<1>3. /\ q.token \in TokenRecords /\ q.token.life = r.token.life
      /\ q.token.real = Less(r.token.real) /\ q.token.left = Less(r.token.left)
    BY <1>1, <1>2, AgedToken
<1>4. ASSUME r.pc \in {"refresh", "issued"}
      PROVE  /\ q.left \in 0 .. tokenTimeout
             /\ r.pc = "issued" => q.token.left = 0 /\ q.token.life + q.left <= q.token.real + tokenTimeout
  <2>1. q.left = r.left - 1 /\ r.left \in 1 .. tokenTimeout
      BY <1>1, <1>4, RemoteAssumption DEF CallOk, Timed, Less
  <2>2. ASSUME r.pc = "issued"
        PROVE  q.token.left = 0 /\ q.token.life + q.left <= q.token.real + tokenTimeout
    <3>1. r.token.left = 0 /\ r.token.life + r.left <= r.token.real + tokenTimeout
        BY <2>2, Zenon DEF CallOk
    <3>2. tokenTimeout \in Nat /\ r.left \in Nat
        BY <2>1, RemoteAssumption
    <3>3. q.token.left = 0
        BY <1>3, <3>1 DEF Less
    <3>4. r.token.life + (r.left - 1) <= Less(r.token.real) + tokenTimeout
        BY <1>2, <3>1, <3>2 DEF Less
    <3> QED BY <1>3, <2>1, <3>3, <3>4, Zenon
  <2> QED BY <2>1, <2>2, RemoteAssumption
<1>5. ASSUME r.pc \in {"sent", "arrived"}
      PROVE  /\ q.left \in Nat
             /\ q.cfg.auth = "oauth2" /\ Delays(q) <= buffer /\ q.token.life > Delays(q) => q.token.real > q.left
  <2>1. q.left = r.left - 1 /\ r.left \in Nat \ {0}
      BY <1>1, <1>5 DEF CallOk, Timed, Less
  <2>2. Delays(q) = Delays(r)
      BY <1>1, Zenon DEF Delays
  <2>3. r.token.real > r.left => q.token.real > q.left
      BY <1>2, <1>3, <2>1 DEF Less
  <2> QED BY <1>1, <1>3, <1>5, <2>1, <2>2, <2>3 DEF CallOk
<1>6. q.pc \notin {"idle", "lock"} => q.gen \in DOMAIN Reloads /\ q.cfg \in Configs
    BY <1>1, Zenon DEF CallOk
<1> QED BY <1>1, <1>3, <1>4, <1>5, <1>6, Zenon DEF CallOk

\* The initial state.
LEMMA InitTokenInv == RemoteInit => TokenInv
<1> SUFFICES ASSUME RemoteInit PROVE TokenInv
    BY Zenon
<1>1. NewOAuth2.token = NoToken /\ DOMAIN NewOAuth2 = {"token", "holder"} /\ NoToken.left = 0 /\ NoToken.real = 0
    BY Zenon DEF NewOAuth2, NoToken
<1>2. AuthOk(NewOAuth2)
    BY <1>1, NothingOk, RemoteAssumption DEF AuthOk
<1> QED BY <1>2, NothingOk, Zenon DEF RemoteInit, TokenInv, NoClient

\* A reload registers a configuration, and drops authenticators.
LEMMA SetServicesOk ==
    ASSUME RemoteIInv, TokenInv, NEW cfg, SetServices(cfg)
    PROVE  TokenInv'
<1>1. UNCHANGED caller
    BY Zenon DEF SetServices
<1>2. services' = services \/ (services'.gen = services.gen + 1 /\ services'.cfg = cfg)
    BY DEF SetServices
<1>3. services.gen + 1 \in DOMAIN Reloads /\ cfg \in Configs
  <2>1. services.gen \in Nat /\ services.gen < Len(Reloads)
      BY Zenon DEF SetServices, RemoteIInv, Shape
  <2>2. services.gen + 1 \in DOMAIN Reloads
      BY <2>1, RemoteAssumption
  <2> QED BY <2>2, Zenon DEF SetServices, Configs
<1>4. \A g \in DOMAIN Reloads : auths'[g] = auths[g] \/ auths'[g] = NewOAuth2
    BY Zenon DEF SetServices, TokenInv
<1>5. DOMAIN auths' = DOMAIN Reloads
    BY Zenon DEF SetServices, TokenInv
<1>6. AuthOk(NewOAuth2)
  <2>1. NewOAuth2.token = NoToken /\ DOMAIN NewOAuth2 = {"token", "holder"} /\ NoToken.left = 0 /\ NoToken.real = 0
      BY Zenon DEF NewOAuth2, NoToken
  <2> QED BY <2>1, NothingOk, RemoteAssumption DEF AuthOk
<1>7. services' = NoClient \/ Registered(services')
    BY <1>2, <1>3, Zenon DEF TokenInv, Registered
<1> QED BY <1>1, <1>4, <1>5, <1>6, <1>7, Zenon DEF TokenInv

\* Time passes.
LEMMA TickOk ==
    ASSUME RemoteIInv, TokenInv, RemoteTick
    PROVE  TokenInv'
<1>1. \A g \in DOMAIN Reloads : auths'[g] = [auths[g] EXCEPT !.token = Aged(@)]
    BY Zenon DEF RemoteTick, TokenInv
<1>2. DOMAIN auths' = DOMAIN Reloads /\ services' = services
    BY Zenon DEF RemoteTick, TokenInv
<1>3. ASSUME NEW c \in Calls PROVE CallOk(caller'[c])
  <2>1. caller'[c] = [caller[c] EXCEPT !.token = Aged(@), !.left = IF caller[c].pc \in Timed THEN Less(@) ELSE @]
      BY Zenon DEF RemoteTick
  <2>2. caller[c].pc \in Timed \ {"wait"} => caller[c].left > 0
      BY Zenon DEF RemoteTick
  <2>3. DOMAIN caller[c] = Fields /\ CallOk(caller[c])
      BY Zenon DEF RemoteIInv, Shape, TokenInv
  <2> QED BY <2>1, <2>2, <2>3, TickCall, Zenon
<1>4. ASSUME NEW g \in DOMAIN Reloads PROVE AuthOk(auths'[g])
    BY <1>1, TickAuth, Zenon DEF TokenInv
<1> QED BY <1>2, <1>3, <1>4, Zenon DEF TokenInv

\* A step of one caller that leaves the authenticators alone.
LEMMA OwnCallOk ==
    ASSUME TokenInv, NEW c \in Calls, OwnStep(c), UNCHANGED <<services, auths>>, CallOk(caller'[c])
    PROVE  TokenInv'
BY Zenon DEF TokenInv, OwnStep

\* A step of one caller that changes its authenticator.
LEMMA OwnAuthOk ==
    ASSUME TokenInv, NEW c \in Calls, OwnStep(c), UNCHANGED services, CallOk(caller'[c]),
           NEW g \in DOMAIN Reloads, NEW a, AuthOk(a), auths' = [auths EXCEPT ![g] = a]
    PROVE  TokenInv'
<1>1. DOMAIN auths' = DOMAIN Reloads /\ \A h \in DOMAIN Reloads : auths'[h] = IF h = g THEN a ELSE auths[h]
    BY Zenon DEF TokenInv
<1> QED BY <1>1, Zenon DEF TokenInv, OwnStep

\* A call begins, with the cached client or without one.
LEMMA CallBeginsOk ==
    ASSUME RemoteIInv, TokenInv, NEW c \in Calls, NEW retry, NEW path, Call(c, retry, path)
    PROVE  TokenInv'
<1> DEFINE pc == IF client # NoClient THEN "attempt" ELSE "lock"
           q == Begun(pc, services.gen, client, retry, path)
<1>1. DOMAIN caller = Calls /\ DOMAIN open = Calls
    BY Zenon DEF RemoteIInv, Shape
<1>2. client # NoClient => Registered(client)
    BY Zenon DEF RemoteIInv, ClientIsNew, TokenInv
<1>3. caller' = [caller EXCEPT ![c] = q] /\ UNCHANGED <<services, auths, open>>
    BY Zenon DEF Call
<1>4. q.pc = pc /\ q.gen = client.gen /\ q.cfg = client.cfg /\ q.token = NoToken
    BY BegunFields, SMTT(20)
<1> HIDE DEF q
<1>5. CallOk(q)
    BY <1>2, <1>4, NothingOk, Zenon DEF CallOk, Registered
<1>6. OwnStep(c) /\ caller'[c] = q
    BY <1>1, <1>3, Zenon DEF OwnStep
<1> QED BY <1>3, <1>5, <1>6, OwnCallOk, Zenon

\* A call gets its client.
LEMMA GetClientOk ==
    ASSUME RemoteIInv, TokenInv, NEW c \in Calls, GetClient(c)
    PROVE  TokenInv'
<1>1. DOMAIN caller = Calls /\ DOMAIN open = Calls /\ DOMAIN caller[c] = Fields /\ CallOk(caller[c])
    BY Zenon DEF RemoteIInv, Shape, TokenInv
<1>2. client # NoClient => client = services /\ Registered(services)
    BY Zenon DEF RemoteIInv, ClientIsNew, TokenInv
<1>3. UNCHANGED <<services, auths, open>>
    BY Zenon DEF GetClient
<1>4. CASE Ends(c)
  <2>1. OwnStep(c) /\ caller'[c] = NoCall
      BY <1>1, <1>3, <1>4, Zenon DEF Ends, OwnStep
  <2> QED BY <1>3, <2>1, NothingOk, OwnCallOk, Zenon
<1>5. CASE /\ client # NoClient \/ services.cfg # NoService
           /\ client' = IF client = NoClient THEN services ELSE client
           /\ caller' = [caller EXCEPT ![c].pc = "attempt", ![c].gen = client'.gen, ![c].cfg = client'.cfg]
  <2>1. client' = services
      BY <1>2, <1>5, Zenon
  <2>2. NoClient.cfg = NoService
      BY Zenon DEF NoClient
  <2>3. Registered(services)
      BY <1>2, <1>5, <2>2, Zenon DEF TokenInv
  <2>4. OwnStep(c)
      BY <1>1, <1>3, <1>5, Zenon DEF OwnStep
  <2>5. /\ caller'[c].pc = "attempt" /\ caller'[c].gen = services.gen /\ caller'[c].cfg = services.cfg
        /\ caller'[c].token = caller[c].token
      BY <1>1, <1>5, <2>1, Zenon DEF Fields
  <2>6. CallOk(caller'[c])
      BY <1>1, <2>3, <2>5, Zenon DEF CallOk, Registered
  <2> QED BY <1>3, <2>4, <2>6, OwnCallOk, Zenon
<1> QED BY <1>4, <1>5, Zenon DEF GetClient

\* The end of an attempt.
LEMMA ConcludesOk ==
    ASSUME RemoteIInv, NEW c \in Calls, NEW st, Concludes(c, st), caller[c].pc \notin {"idle", "lock"},
           CallOk(caller[c])
    PROVE  OwnStep(c) /\ CallOk(caller'[c])
<1>1. DOMAIN caller = Calls /\ DOMAIN caller[c] = Fields /\ DOMAIN open = Calls
    BY Zenon DEF RemoteIInv, Shape
<1>2. OwnStep(c)
    BY <1>1, Zenon DEF Concludes, ClosesBody, Goes, Ends, OwnStep
<1>3. \/ caller' = [caller EXCEPT ![c].pc = "wait", ![c].left = caller[c].backoff, ![c].token = NoToken]
      \/ Goes(c, "read") \/ Ends(c)
    BY Zenon DEF Concludes
<1>4. CASE Ends(c)
    BY <1>1, <1>2, <1>4, NothingOk, Zenon DEF Ends
<1>5. CASE Goes(c, "read")
  <2>1. /\ caller'[c].pc = "read" /\ caller'[c].gen = caller[c].gen /\ caller'[c].cfg = caller[c].cfg
        /\ caller'[c].token = caller[c].token
      BY <1>1, <1>5, Zenon DEF Goes, Fields
  <2>2. caller'[c].token \in TokenRecords
      BY <2>1, Zenon DEF CallOk
  <2> QED BY <1>2, <2>1, <2>2, PassesOk, Zenon
<1>6. CASE caller' = [caller EXCEPT ![c].pc = "wait", ![c].left = caller[c].backoff, ![c].token = NoToken]
  <2>1. /\ caller'[c].pc = "wait" /\ caller'[c].gen = caller[c].gen /\ caller'[c].cfg = caller[c].cfg
        /\ caller'[c].token = NoToken
      BY <1>1, <1>6, Zenon DEF Fields
  <2> QED BY <1>2, <2>1, NothingOk, PassesOk, Zenon
<1> QED BY <1>2, <1>3, <1>4, <1>5, <1>6, Zenon

\* A cached token is used: what is left of it by its own count covers the time that it
\* was under way and the time of the request.  Otherwise the caller goes for a new one.
LEMMA GetTokenOk ==
    ASSUME RemoteIInv, TokenInv, NEW c \in Calls, getToken(c)
    PROVE  TokenInv'
<1> DEFINE r == caller[c]
           g == caller[c].gen
           a == auths[g]
<1>1. DOMAIN caller = Calls /\ DOMAIN open = Calls /\ DOMAIN r = Fields
    BY Zenon DEF RemoteIInv, Shape
<1>2. r.pc = "token" /\ CallOk(r) /\ g \in DOMAIN Reloads /\ r.cfg \in Configs
    BY Zenon DEF getToken, CallerAt, TokenInv, CallOk
<1>3. AuthOk(a) /\ DOMAIN auths = DOMAIN Reloads
    BY <1>2, Zenon DEF TokenInv
<1>4. UNCHANGED <<services, open>>
    BY Zenon DEF getToken
<1>5. CASE /\ EnoughLeft(a.token)
           /\ caller' = [caller EXCEPT ![c].pc = "sent", ![c].token = a.token, ![c].left = Timeout(caller[c].cfg)]
           /\ UNCHANGED auths
  <2> DEFINE q == caller'[c]
  <2>1. OwnStep(c)
      BY <1>1, <1>4, <1>5, Zenon DEF OwnStep
  <2>2. /\ q.pc = "sent" /\ q.gen = g /\ q.cfg = r.cfg
        /\ q.token = a.token /\ q.left = Timeout(r.cfg)
      BY <1>1, <1>5, Zenon DEF Fields
  <2>3. Timeout(r.cfg) \in Nat
      BY <1>2, TimeoutIsNat, Zenon
  <2>4. /\ a.token \in TokenRecords /\ a.token.real \in Nat /\ a.token.left \in Nat
        /\ a.token.left <= a.token.real + tokenTimeout /\ a.token.left > buffer
      BY <1>3, <1>5, Zenon DEF AuthOk, EnoughLeft, TokenRecords
  <2>5. tokenTimeout + Timeout(r.cfg) <= buffer => a.token.real > Timeout(r.cfg)
    <3>1. tokenTimeout \in Nat /\ buffer \in Nat
        BY RemoteAssumption, Zenon
    <3> QED BY <2>3, <2>4, <3>1
  <2> HIDE DEF q, a
  <2>6. CallOk(q)
      BY <1>2, <2>2, <2>3, <2>4, <2>5, Zenon DEF CallOk, Delays
  <2> QED BY <1>4, <1>5, <2>1, <2>6, OwnCallOk, Zenon DEF q
<1>6. CASE /\ caller' = [caller EXCEPT ![c].pc = "refresh", ![c].left = tokenTimeout]
           /\ auths' = [auths EXCEPT ![g].holder = c]
  <2>1. OwnStep(c)
      BY <1>1, <1>4, <1>6, Zenon DEF OwnStep
  <2>2. /\ caller'[c].pc = "refresh" /\ caller'[c].gen = g /\ caller'[c].cfg = r.cfg
        /\ caller'[c].token = r.token /\ caller'[c].left = tokenTimeout
      BY <1>1, <1>6, Zenon DEF Fields
  <2>3. tokenTimeout \in 0 .. tokenTimeout
      BY RemoteAssumption
  <2>4. CallOk(caller'[c])
      BY <1>2, <2>2, <2>3, Zenon DEF CallOk
  <2>5. AuthOk([a EXCEPT !.holder = c])
      BY <1>3, Zenon DEF AuthOk
  <2>6. auths' = [auths EXCEPT ![g] = [a EXCEPT !.holder = c]]
      BY <1>6, Zenon
  <2> QED BY <1>2, <1>4, <2>1, <2>4, <2>5, <2>6, OwnAuthOk, Zenon
<1> QED BY <1>5, <1>6, Zenon DEF getToken

\* A token is issued, and the caller still has time to wait for it.
LEMMA IssuesOk ==
    ASSUME RemoteIInv, TokenInv, NEW c \in Calls, NEW life \in Lives, Issues(c, life)
    PROVE  TokenInv'
<1> DEFINE t == [real |-> life, left |-> 0, life |-> life]
<1>1. DOMAIN caller = Calls /\ DOMAIN open = Calls /\ DOMAIN caller[c] = Fields
    BY Zenon DEF RemoteIInv, Shape
<1>2. caller[c].pc = "refresh" /\ CallOk(caller[c])
    BY Zenon DEF Issues, CallerAt, TokenInv
<1>3. UNCHANGED <<services, auths, open>> /\ OwnStep(c)
    BY <1>1, Zenon DEF Issues, OwnStep
<1>4. /\ caller'[c].pc = "issued" /\ caller'[c].gen = caller[c].gen /\ caller'[c].cfg = caller[c].cfg
      /\ caller'[c].token = t /\ caller'[c].left = caller[c].left
    BY <1>1, Zenon DEF Issues, Fields
<1>5. life \in Nat /\ t \in TokenRecords /\ t.left = 0 /\ t.life = life /\ t.real = life
    BY RemoteAssumption, Zenon DEF TokenRecords
<1> HIDE DEF t
<1>6. caller[c].left \in 0 .. tokenTimeout /\ life + caller[c].left <= life + tokenTimeout
    BY <1>2, <1>5, RemoteAssumption DEF CallOk
<1>7. CallOk(caller'[c])
    BY <1>2, <1>4, <1>5, <1>6, Zenon DEF CallOk
<1> QED BY <1>3, <1>7, OwnCallOk, Zenon

\* The token arrives: its lifetime is counted from now on, at most tokenTimeout late.
LEMMA RefreshOk ==
    ASSUME RemoteIInv, TokenInv, NEW c \in Calls, refreshToken(c)
    PROVE  TokenInv'
<1> DEFINE r == caller[c]
           t == r.token
           u == [t EXCEPT !.left = @ + t.life]
           a == [token |-> u, holder |-> Unlocked]
           left == Timeout(r.cfg)
<1>1. DOMAIN caller = Calls /\ DOMAIN open = Calls /\ DOMAIN r = Fields
    BY Zenon DEF RemoteIInv, Shape
<1>2. r.pc = "issued" /\ CallOk(r)
    BY Zenon DEF refreshToken, CallerAt, TokenInv
<1>3. UNCHANGED <<services, open>> /\ OwnStep(c)
    BY <1>1, Zenon DEF refreshToken, OwnStep
<1>4. auths' = [auths EXCEPT ![r.gen] = a]
    BY Zenon DEF refreshToken
<1>5. /\ caller'[c].pc = "sent" /\ caller'[c].gen = r.gen /\ caller'[c].cfg = r.cfg
      /\ caller'[c].token = u /\ caller'[c].left = left
    BY <1>1, Zenon DEF refreshToken, Fields
<1>6. /\ r.gen \in DOMAIN Reloads /\ r.cfg \in Configs
      /\ t \in TokenRecords /\ t.left = 0 /\ t.life + r.left <= t.real + tokenTimeout
      /\ r.left \in 0 .. tokenTimeout
    BY <1>2, Zenon DEF CallOk
<1>7. left \in Nat
    BY <1>6, TimeoutIsNat, Zenon
<1>8. /\ t.real \in Nat /\ t.life \in Nat
      /\ u \in TokenRecords /\ u.left = t.life /\ u.real = t.real /\ u.life = t.life
    BY <1>6 DEF TokenRecords
<1> HIDE DEF u, left, t
<1>9. t.life <= t.real + tokenTimeout
  <2>1. tokenTimeout \in Nat
      BY RemoteAssumption, Zenon
  <2> QED BY <1>6, <1>8, <2>1
<1>10. AuthOk(a)
    BY <1>8, <1>9, Zenon DEF AuthOk
<1>11. t.life > tokenTimeout + left => t.real > left
    BY <1>7, <1>8, <1>9, RemoteAssumption
<1>12. CallOk(caller'[c])
  <2>1. Delays(caller'[c]) = tokenTimeout + left
      BY <1>5, Zenon DEF Delays, left
  <2> QED BY <1>5, <1>6, <1>7, <1>8, <1>11, <2>1, Zenon DEF CallOk
<1> HIDE DEF a
<1> QED BY <1>3, <1>4, <1>6, <1>10, <1>12, OwnAuthOk, Zenon

\* The other steps of a caller.
LEMMA CallerGoesOnOk ==
    ASSUME RemoteIInv, TokenInv, NEW c \in Calls, CallerGoesOn(c)
    PROVE  TokenInv'
<1> DEFINE r == caller[c]
<1>1. DOMAIN caller = Calls /\ DOMAIN open = Calls /\ DOMAIN r = Fields /\ CallOk(r) /\ r.token \in TokenRecords
    BY Zenon DEF RemoteIInv, Shape, TokenInv, CallOk
<1>2. ASSUME Ends(c), UNCHANGED <<services, auths>>, \A d \in Calls \ {c} : open'[d] = open[d], DOMAIN open' = Calls
      PROVE  TokenInv'
  <2>1. OwnStep(c) /\ caller'[c] = NoCall
      BY <1>1, <1>2, Zenon DEF Ends, OwnStep
  <2> QED BY <1>2, <2>1, NothingOk, OwnCallOk, Zenon
<1>3. ASSUME NEW st, Concludes(c, st), UNCHANGED <<services, auths>>, r.pc \notin {"idle", "lock"}
      PROVE  TokenInv'
    BY <1>1, <1>3, ConcludesOk, OwnCallOk, Zenon
<1>4. CASE executeOnce(c)
  <2>1. UNCHANGED <<services, auths>> /\ r.pc = "attempt"
      BY <1>4, Zenon DEF executeOnce, CallerAt
  <2>2. CASE caller[c].path = "other host"
      BY <1>3, <1>4, <2>1, <2>2, Zenon DEF executeOnce
  <2>3. CASE caller[c].path # "other host"
    <3> DEFINE to == IF caller[c].cfg.auth = "oauth2" THEN "token" ELSE "sent"
               left == Timeout(caller[c].cfg)
    <3>1. caller' = [caller EXCEPT ![c].pc = to, ![c].left = left] /\ open' = open
        BY <1>4, <2>3, Zenon DEF executeOnce
    <3>2. r.gen \in DOMAIN Reloads /\ r.cfg \in Configs /\ left \in Nat
        BY <1>1, <2>1, TimeoutIsNat, Zenon DEF CallOk
    <3>3. to = "token" \/ (to = "sent" /\ r.cfg.auth # "oauth2")
        BY Zenon
    <3> HIDE DEF to, left
    <3>4. OwnStep(c)
        BY <1>1, <3>1, Zenon DEF OwnStep
    <3>5. /\ caller'[c].pc = to /\ caller'[c].left = left /\ caller'[c].token = r.token
          /\ caller'[c].gen = r.gen /\ caller'[c].cfg = r.cfg
        BY <1>1, <3>1, Zenon DEF Fields
    <3>6. CallOk(caller'[c])
        BY <1>1, <3>2, <3>3, <3>5, Zenon DEF CallOk
    <3> QED BY <2>1, <3>4, <3>6, OwnCallOk, Zenon
  <2> QED BY <2>2, <2>3, Zenon
<1>5. CASE ContextEnds(c)
    BY <1>1, <1>2, <1>5, Zenon DEF ContextEnds
<1>6. CASE Arrives(c)
  <2>1. UNCHANGED <<services, auths, open>> /\ r.pc = "sent" /\ OwnStep(c)
      BY <1>1, <1>6, Zenon DEF Arrives, CallerAt, Goes, OwnStep
  <2>2. /\ caller'[c].pc = "arrived" /\ caller'[c].left = r.left /\ caller'[c].token = r.token
        /\ caller'[c].gen = r.gen /\ caller'[c].cfg = r.cfg
      BY <1>1, <1>6, Zenon DEF Arrives, Goes, Fields
  <2>3. CallOk(caller'[c])
      BY <1>1, <2>1, <2>2, Zenon DEF CallOk, Delays
  <2> QED BY <2>1, <2>3, OwnCallOk, Zenon
<1>7. CASE RequestFails(c)
    BY <1>3, <1>7, Zenon DEF RequestFails
<1>8. ASSUME NEW st, ServiceResponds(c, st) PROVE TokenInv'
    BY <1>3, <1>8, Zenon DEF ServiceResponds, CallerAt
<1>9. CASE Retry(c)
  <2>1. UNCHANGED <<services, auths, open>> /\ r.pc = "wait" /\ OwnStep(c)
      BY <1>1, <1>9, Zenon DEF Retry, CallerAt, OwnStep
  <2>2. /\ caller'[c].pc = "attempt" /\ caller'[c].token = r.token
        /\ caller'[c].gen = r.gen /\ caller'[c].cfg = r.cfg
      BY <1>1, <1>9, Zenon DEF Retry, Fields
  <2>3. CallOk(caller'[c])
      BY <1>1, <2>1, <2>2, PassesOk, Zenon
  <2> QED BY <2>1, <2>3, OwnCallOk, Zenon
<1>10. CASE Request(c)
    BY <1>1, <1>2, <1>10, Zenon DEF Request
<1>11. CASE getToken(c)
    BY <1>11, GetTokenOk, Zenon
<1>12. CASE refreshToken(c)
    BY <1>12, RefreshOk, Zenon
<1>13. CASE RefreshFails(c)
  <2> DEFINE a == auths[r.gen]
  <2>1. r.pc \in {"refresh", "issued"} /\ Concludes(c, "error") /\ UNCHANGED services
      BY <1>13, Zenon DEF RefreshFails
  <2>2. OwnStep(c) /\ CallOk(caller'[c])
      BY <1>1, <2>1, ConcludesOk, Zenon
  <2>3. r.gen \in DOMAIN Reloads
      BY <1>1, <2>1, Zenon DEF CallOk
  <2>4. AuthOk(a)
      BY <2>3, Zenon DEF TokenInv
  <2>5. AuthOk([a EXCEPT !.holder = Unlocked])
      BY <2>4, Zenon DEF AuthOk
  <2>6. auths' = [auths EXCEPT ![r.gen] = [a EXCEPT !.holder = Unlocked]]
      BY <1>13, Zenon DEF RefreshFails
  <2> QED BY <2>1, <2>2, <2>3, <2>5, <2>6, OwnAuthOk, Zenon
<1>14. ASSUME NEW life \in Lives, Issues(c, life) PROVE TokenInv'
    BY <1>14, IssuesOk, Zenon
<1> QED BY <1>4, <1>5, <1>6, <1>7, <1>8, <1>9, <1>10, <1>11, <1>12, <1>13, <1>14, Zenon DEF CallerGoesOn

\* Reloads, time and the steps of all calls keep the invariant of the tokens.
LEMMA NextTokenInv == RemoteIInv /\ TokenInv /\ [RemoteNext]_remoteVars => TokenInv'
<1> SUFFICES ASSUME RemoteIInv, TokenInv, [RemoteNext]_remoteVars PROVE TokenInv'
    BY Zenon
<1>1. CASE \E cfg \in Configs : SetServices(cfg)
    BY <1>1, SetServicesOk, Zenon
<1>2. CASE RemoteTick
    BY <1>2, TickOk, Zenon
<1>3. CASE \E c \in Calls, retry \in Retries, path \in {"relative", "other host"} : Call(c, retry, path)
    BY <1>3, CallBeginsOk, Zenon
<1>4. CASE \E c \in Calls : GetClient(c)
    BY <1>4, GetClientOk, Zenon
<1>5. CASE \E c \in Calls : CallerGoesOn(c)
    BY <1>5, CallerGoesOnOk, Zenon
<1>6. CASE UNCHANGED remoteVars
    BY <1>6, Zenon DEF remoteVars, TokenInv
<1> QED BY <1>1, <1>2, <1>3, <1>4, <1>5, <1>6, Zenon DEF RemoteNext, CallerGoesOn

\* A token that arrives with a request has not expired, for any number of callers that
\* share it, any lifetimes and any timeouts, if both timeouts are within the buffer and
\* the token outlives them (getToken, refreshToken).
THEOREM TokensArriveAlive == RemoteSpec => []TokenLivesToArrive
<1>1. ASSUME TokenInv PROVE TokenLivesToArrive
  <2> SUFFICES ASSUME NEW c \in Calls, caller[c].pc = "arrived", caller[c].cfg.auth = "oauth2",
                      tokenTimeout + Timeout(caller[c].cfg) <= buffer,
                      caller[c].token.life > tokenTimeout + Timeout(caller[c].cfg)
               PROVE  caller[c].token.real > 0
      BY Zenon DEF TokenLivesToArrive, CallerAt
  <2>1. caller[c].left \in Nat /\ caller[c].token.real > caller[c].left /\ caller[c].token.real \in Nat
      BY <1>1, Zenon DEF TokenInv, CallOk, Delays, TokenRecords
  <2> QED BY <2>1
<1> QED BY <1>1, RemoteInvariance, InitTokenInv, NextTokenInv, PTL DEF RemoteSpec

-----------------------------------------------------------------------------
(***************************************************************************)
(* TaskClaim.                                                              *)
(***************************************************************************)

ClaimRows == [state : {"OPEN"} \cup Ended, by : Holders \cup {Nobody}, at : 0 .. MaxChanges]
ClaimCalls == [op : {"none", "claim", "release"}, holder : Holders \cup {Nobody},
          pc : {"write", "read", "done"}, tries : 0 .. claimAttempts - 1,
          seen : 0 .. MaxChanges, answer : Answers]

\* Whether the guarded write of call r would match the row.
Matches(r) == IF r.op = "claim" THEN CanClaimTask(r.holder) ELSE CanReleaseTask(r.holder)

\* The exception for cancelled tasks.
Cancelled(r) == r.op = "claim" /\ task.state = "CANCELLED"

\* How many changes a call has seen at each point.  At its read the write has failed: the
\* row still does not match, or it has changed once more.
Counted(r) ==
    \/ Cancelled(r)
    \/ /\ r.pc = "write" => changes - r.seen >= r.tries
       /\ r.pc = "read" => \/ changes - r.seen >= r.tries + 1
                           \/ changes - r.seen >= r.tries /\ ~Matches(r)
       /\ r.answer = "kept changing" => r.pc = "done" /\ changes - r.seen >= claimAttempts

ClaimIInv == ClaimTypeOK /\ \A c \in Callers : Counted(call[c])

\* The type invariant, with its sets of records named.
LEMMA ClaimTypes ==
  ClaimTypeOK <=> task \in ClaimRows /\ call \in [Callers -> ClaimCalls] /\ changes \in 0 .. MaxChanges
  BY Zenon DEF ClaimTypeOK, ClaimRows, ClaimCalls

\* At first no call has begun.
LEMMA InitClaimIInv == ClaimInit => ClaimIInv
  <1> SUFFICES ASSUME ClaimInit PROVE ClaimIInv
    BY Zenon
  <1> USE ClaimAssumption DEF ClaimInit
  <1>1. Idle \in ClaimCalls
    BY DEF Idle, NewCall, ClaimCalls, Answers
  <1>2. ClaimTypeOK
    BY <1>1, ClaimTypes DEF ClaimRows
  <1>3. \A c \in Callers : Counted(call[c])
    <2>1. /\ Idle.pc = "write" /\ Idle.answer = "none"
          /\ changes - Idle.seen >= Idle.tries
      BY DEF Idle, NewCall
    <2>2. Counted(Idle)
      BY <2>1, Zenon DEF Counted
    <2> QED
      BY <2>2, Zenon
  <1> QED
    BY <1>2, <1>3, Zenon DEF ClaimIInv

\* One call moves on and the row stays as it is.
LEMMA CallMoves ==
  ASSUME ClaimIInv, NEW c \in Callers, NEW r \in ClaimCalls, Counted(r),
         call' = [call EXCEPT ![c] = r], UNCHANGED <<task, changes>>
  PROVE  ClaimIInv'
  <1>1. ClaimTypeOK'
    BY ClaimTypes, Zenon DEF ClaimIInv, ClaimTypeOK, ClaimCalls
  <1>2. \A d \in Callers : Counted(call'[d])
    BY ClaimTypes, Zenon DEF ClaimIInv
  <1>3. \A d \in Callers : Counted(call'[d]) => Counted(call[d])'
    BY Zenon DEF Counted, Cancelled, Matches, CanClaimTask, CanReleaseTask
  <1> QED
    BY <1>1, <1>2, <1>3, Zenon DEF ClaimIInv

\* A count that was large enough is so after one more change.
LEMMA OneMore ==
  ASSUME NEW n \in Nat, NEW seen \in Nat, NEW k \in Nat, n - seen >= k
  PROVE  n + 1 - seen >= k + 1 /\ n + 1 - seen >= k
  OBVIOUS

\* The row changes, and every call that waits sees one change more.
LEMMA RowChanges ==
  ASSUME ClaimIInv, NEW t \in ClaimRows, task' = t, changes < MaxChanges, changes' = changes + 1,
         task.state = "CANCELLED" => t.state = "CANCELLED",
         NEW r \in ClaimCalls
  PROVE  Counted(r) => Counted(r)'
  <1>1. /\ changes \in Nat /\ changes' = changes + 1
        /\ r.seen \in Nat /\ r.tries \in Nat /\ claimAttempts \in Nat
    BY ClaimTypes, ClaimAssumption DEF ClaimIInv, ClaimCalls
  <1>2. Cancelled(r) => Cancelled(r)'
    BY Zenon DEF Cancelled
  <1>3. ASSUME Counted(r), ~Cancelled(r) PROVE Counted(r)'
    <2>1. /\ r.pc = "write" => changes - r.seen >= r.tries
          /\ r.pc = "read" => changes - r.seen >= r.tries + 1 \/ changes - r.seen >= r.tries
          /\ r.answer = "kept changing" => r.pc = "done" /\ changes - r.seen >= claimAttempts
      BY <1>3, Zenon DEF Counted
    <2>2. changes - r.seen >= r.tries => changes' - r.seen >= r.tries + 1 /\ changes' - r.seen >= r.tries
      BY <1>1, OneMore
    <2>3. changes - r.seen >= r.tries + 1 => changes' - r.seen >= r.tries + 1
      <3>1. r.tries + 1 \in Nat
        BY <1>1
      <3> QED
        BY <3>1, <1>1, OneMore
    <2>4. changes - r.seen >= claimAttempts => changes' - r.seen >= claimAttempts
      BY <1>1, OneMore
    <2> QED
      BY <2>1, <2>2, <2>3, <2>4, Zenon DEF Counted
  <1> QED
    BY <1>2, <1>3, Zenon DEF Counted

\* What is left of a call that is answered.
LEMMA AnsweredCall ==
  ASSUME ClaimIInv, NEW c \in Callers, NEW a \in Answers, Answer(c, a)
  PROVE  /\ call' \in [Callers -> ClaimCalls]
         /\ \A d \in Callers \ {c} : call'[d] = call[d]
         /\ call'[c].pc = "done" /\ call'[c].answer = a
         /\ call'[c].op = call[c].op /\ call'[c].seen = call[c].seen
  <1> DEFINE r == [call[c] EXCEPT !.answer = a, !.pc = "done"]
  <1>1. call[c] \in ClaimCalls /\ call \in [Callers -> ClaimCalls]
    BY ClaimTypes, Zenon DEF ClaimIInv
  <1>2. r \in ClaimCalls /\ r.pc = "done" /\ r.answer = a /\ r.op = call[c].op /\ r.seen = call[c].seen
    BY <1>1, Zenon DEF ClaimCalls
  <1>3. call' = [call EXCEPT ![c] = r]
    BY <1>1, Zenon DEF Answer
  <1> HIDE DEF r
  <1> QED
    BY <1>1, <1>2, <1>3, Zenon

\* A call that is answered otherwise than with a last retry.
LEMMA AnsweredIsCounted ==
  ASSUME NEW r, r.pc = "done", r.answer # "kept changing"
  PROVE  Counted(r) /\ Counted(r)'
  BY Zenon DEF Counted

\* A call that is answered, other than by giving up, needs no count (ClaimTask, ReleaseTask).
LEMMA AnswersPreserve ==
  ASSUME ClaimIInv, NEW c \in Callers, NEW a \in Answers \ {"kept changing"}, Answer(c, a),
         UNCHANGED <<task, changes>>
  PROVE  ClaimIInv'
  <1>1. call' \in [Callers -> ClaimCalls] /\ call'[c].pc = "done" /\ call'[c].answer = a
    BY AnsweredCall, Zenon
  <1>2. \A d \in Callers \ {c} : call'[d] = call[d]
    BY AnsweredCall, Zenon
  <1>3. Counted(call'[c])
    BY <1>1, AnsweredIsCounted, Zenon
  <1>4. call' = [call EXCEPT ![c] = call'[c]]
    BY <1>1, <1>2, ClaimTypes, Zenon DEF ClaimIInv
  <1>5. call'[c] \in ClaimCalls
    BY <1>1, Zenon
  <1> QED
    BY <1>3, <1>4, <1>5, CallMoves, Zenon

\* The next attempt of a call, or its end.
LEMMA TriesAgainPreserves ==
  ASSUME ClaimIInv, NEW c \in Callers, call[c].pc = "read", TriesAgain(c),
         Cancelled(call[c]) \/ Matches(call[c]), UNCHANGED <<task, changes>>
  PROVE  ClaimIInv'
  <1>1. call \in [Callers -> ClaimCalls] /\ call[c] \in ClaimCalls /\ Counted(call[c])
    BY ClaimTypes, Zenon DEF ClaimIInv
  <1>2. Cancelled(call[c]) \/ changes - call[c].seen >= call[c].tries + 1
    BY <1>1, Zenon DEF Counted
  <1>3. CASE call[c].tries + 1 = claimAttempts
    <2>1. Answer(c, "kept changing")
      BY <1>3, Zenon DEF TriesAgain
    <2>2. /\ call' \in [Callers -> ClaimCalls] /\ \A d \in Callers \ {c} : call'[d] = call[d]
          /\ call'[c].pc = "done" /\ call'[c].op = call[c].op /\ call'[c].seen = call[c].seen
      BY <2>1, AnsweredCall, Zenon DEF Answers
    <2>3. Cancelled(call'[c]) \/ changes - call'[c].seen >= claimAttempts
      BY <1>2, <1>3, <2>2, Zenon DEF Cancelled
    <2>4. Counted(call'[c])
      BY <2>2, <2>3, Zenon DEF Counted
    <2>5. call' = [call EXCEPT ![c] = call'[c]] /\ call'[c] \in ClaimCalls
      BY <2>2, <1>1, Zenon
    <2> QED
      BY <2>4, <2>5, CallMoves, Zenon
  <1>4. CASE call[c].tries + 1 # claimAttempts
    <2> DEFINE r == [call[c] EXCEPT !.pc = "write", !.tries = @ + 1]
    <2>1. call[c].tries + 1 \in 0 .. claimAttempts - 1
      BY <1>1, <1>4, ClaimAssumption DEF ClaimCalls
    <2>2. /\ r \in ClaimCalls /\ r.pc = "write" /\ r.tries = call[c].tries + 1
          /\ r.op = call[c].op /\ r.seen = call[c].seen /\ r.answer = call[c].answer
      BY <1>1, <2>1, Zenon DEF ClaimCalls
    <2>3. call' = [call EXCEPT ![c] = r]
      BY <1>1, <1>4, Zenon DEF TriesAgain
    <2> HIDE DEF r
    <2>4. call[c].answer # "kept changing" \/ Cancelled(call[c])
      BY <1>1, Zenon DEF Counted
    <2>5. Cancelled(call[c]) => Cancelled(r)
      BY <2>2, Zenon DEF Cancelled
    <2>6. Counted(r)
      BY <1>2, <2>2, <2>4, <2>5, Zenon DEF Counted
    <2> QED
      BY <2>2, <2>3, <2>6, CallMoves, Zenon
  <1> QED
    BY <1>3, <1>4, Zenon

\* The row that a claim or a release writes.
LEMMA WrittenRow ==
  ASSUME ClaimIInv, changes < MaxChanges, NEW h \in Holders \cup {Nobody}
  PROVE  /\ Claimed(h) \in ClaimRows /\ Claimed(h).state = task.state
         /\ Claimed(h).by = h
         /\ task.by = h => Claimed(h) = task
         /\ Released \in ClaimRows /\ Released.state = task.state /\ Released.by = Nobody
  <1>1. task \in ClaimRows /\ changes + 1 \in 0 .. MaxChanges
    BY ClaimTypes, ClaimAssumption DEF ClaimIInv
  <1> DEFINE claimed == [task EXCEPT !.by = h, !.at = changes + 1]
             released == [task EXCEPT !.by = Nobody, !.at = 0]
  <1>2. claimed \in ClaimRows /\ claimed.state = task.state /\ claimed.by = h
    BY <1>1, Zenon DEF ClaimRows
  <1>3. 0 \in 0 .. MaxChanges
    BY ClaimAssumption
  <1>4. released \in ClaimRows /\ released.state = task.state /\ released.by = Nobody
    BY <1>1, <1>3, Zenon DEF ClaimRows
  <1>5. Claimed(h) = (IF task.by = h THEN task ELSE claimed) /\ Released = released
    BY Zenon DEF Claimed, Released
  <1> HIDE DEF claimed, released
  <1> QED
    BY <1>1, <1>2, <1>4, <1>5, Zenon

\* The guarded UPDATE: it changes the row and answers, or it did not match (store.ClaimTask).
LEMMA WritesPreserves ==
  ASSUME ClaimIInv, NEW c \in Callers, Writes(c)
  PROVE  ClaimIInv'
  <1>1. /\ call \in [Callers -> ClaimCalls] /\ call[c] \in ClaimCalls
        /\ task \in ClaimRows /\ changes \in 0 .. MaxChanges
    BY ClaimTypes, Zenon DEF ClaimIInv
  <1>2. call[c].op # "none" /\ call[c].pc = "write" /\ call[c].holder \in Holders \cup {Nobody}
    BY <1>1, Zenon DEF Writes, ClaimCalls
  <1> DEFINE after == IF call[c].op = "claim" THEN Claimed(call[c].holder) ELSE Released
  <1>3. CASE Matches(call[c])
    <2>1. /\ after # task => changes < MaxChanges
          /\ changes' = IF after = task THEN changes ELSE changes + 1
          /\ task' = after
          /\ Answer(c, "ok")
      BY <1>3, Zenon DEF Writes, Matches
    <2>2. CASE after = task
      BY <2>1, <2>2, AnswersPreserve, Zenon DEF Answers
    <2>3. CASE after # task
      <3>1. /\ after \in ClaimRows /\ after.state = task.state /\ task' = after
            /\ changes < MaxChanges /\ changes' = changes + 1
        BY <2>1, <2>3, <1>2, WrittenRow, Zenon
      <3>2. /\ call' \in [Callers -> ClaimCalls] /\ \A d \in Callers \ {c} : call'[d] = call[d]
            /\ call'[c].pc = "done" /\ call'[c].answer = "ok"
        BY <2>1, AnsweredCall, Zenon DEF Answers
      <3> HIDE DEF after
      <3>3. ClaimTypeOK'
        <4>1. changes' \in 0 .. MaxChanges
          BY <3>1, <1>1, ClaimAssumption
        <4> QED
          BY <3>1, <3>2, <4>1, Zenon DEF ClaimTypeOK, ClaimRows, ClaimCalls
      <3>4. ASSUME NEW d \in Callers PROVE Counted(call[d])'
        <4>1. CASE d = c
          BY <4>1, <3>2, Zenon DEF Counted
        <4>2. CASE d # c
          <5>1. Counted(call[d]) /\ call[d] \in ClaimCalls /\ call'[d] = call[d]
            BY <4>2, <3>2, <1>1, Zenon DEF ClaimIInv
          <5>2. ASSUME NEW r \in ClaimCalls, r = call[d] PROVE Counted(r)'
            BY <5>1, <5>2, <3>1, RowChanges, Zenon
          <5>3. PICK r \in ClaimCalls : r = call[d]
            BY <5>1, Zenon
          <5>4. Counted(r)'
            BY <5>2, <5>3, Zenon
          <5> QED
            BY <5>1, <5>3, <5>4, Zenon DEF Counted, Cancelled, Matches, CanClaimTask, CanReleaseTask
        <4> QED
          BY <4>1, <4>2, Zenon
      <3> QED
        BY <3>3, <3>4, Zenon DEF ClaimIInv
    <2> QED
      BY <2>2, <2>3, Zenon
  <1>4. CASE ~Matches(call[c])
    <2>1. call' = [call EXCEPT ![c].pc = "read"] /\ UNCHANGED <<task, changes>>
      BY <1>4, Zenon DEF Writes, Matches
    <2> DEFINE r == [call[c] EXCEPT !.pc = "read"]
    <2>2. /\ r \in ClaimCalls /\ r.pc = "read" /\ r.tries = call[c].tries /\ r.holder = call[c].holder
          /\ r.op = call[c].op /\ r.seen = call[c].seen /\ r.answer = call[c].answer
      BY <1>1, Zenon DEF ClaimCalls
    <2>3. call' = [call EXCEPT ![c] = r]
      BY <2>1, <1>1, Zenon
    <2> HIDE DEF r
    <2>4. Counted(call[c])
      BY Zenon DEF ClaimIInv
    <2>5. ~Matches(r)
      BY <1>4, <2>2, Zenon DEF Matches
    <2>6. Cancelled(call[c]) => Cancelled(r)
      BY <2>2, Zenon DEF Cancelled
    <2>7. Counted(r)
      BY <2>2, <2>4, <2>5, <2>6, <1>2, Zenon DEF Counted
    <2> QED
      BY <2>1, <2>2, <2>3, <2>7, CallMoves, Zenon
  <1> QED
    BY <1>3, <1>4, Zenon

\* A call that begins has tried nothing and seen no change.
LEMMA BeginsPreserves ==
  ASSUME ClaimIInv, NEW c \in Callers, NEW op \in {"claim", "release"}, NEW h \in Holders, Begins(c, op, h)
  PROVE  ClaimIInv'
  <1> DEFINE r == NewCall(op, h, changes)
  <1>1. changes \in 0 .. MaxChanges /\ call \in [Callers -> ClaimCalls] /\ 0 \in 0 .. claimAttempts - 1
    BY ClaimTypes, ClaimAssumption DEF ClaimIInv
  <1>2. r = [op |-> op, holder |-> h, pc |-> "write", tries |-> 0, seen |-> changes, answer |-> "none"]
    BY Zenon DEF NewCall
  <1>3. r \in ClaimCalls
    <2>1. "none" \in Answers /\ op \in {"none", "claim", "release"} /\ h \in Holders \cup {Nobody}
      BY Zenon DEF Answers
    <2> QED
      BY <1>1, <2>1, Zenon DEF NewCall, ClaimCalls
  <1>4. r.pc = "write" /\ r.answer = "none" /\ changes - r.seen >= r.tries
    <2>1. r.pc = "write" /\ r.answer = "none" /\ r.seen = changes /\ r.tries = 0
      BY <1>2
    <2>2. changes - changes >= 0
      BY <1>1, ClaimAssumption
    <2> QED
      BY <2>1, <2>2, Zenon
  <1>5. call' = [call EXCEPT ![c] = r] /\ UNCHANGED <<task, changes>>
    BY Zenon DEF Begins
  <1> HIDE DEF r
  <1>6. Counted(r)
    BY <1>4, Zenon DEF Counted
  <1> QED
    BY <1>3, <1>5, <1>6, CallMoves, Zenon

\* The read after an UPDATE without effect answers, or the row has changed in between.
LEMMA ReadsPreserves ==
  ASSUME ClaimIInv, NEW c \in Callers, Reads(c)
  PROVE  ClaimIInv'
  <1>1. call[c].pc = "read" /\ UNCHANGED <<task, changes>>
    BY Zenon DEF Reads
  <1>2. CASE \E a \in Answers \ {"kept changing"} : Answer(c, a)
    BY <1>1, <1>2, AnswersPreserve, Zenon
  <1>3. CASE ExplainsClaim(c) /\ call[c].op = "claim" /\ TriesAgain(c) /\ task.state # "COMPLETED"
             /\ task.by \in {Nobody, call[c].holder}
    <2>1. task.state \in {"OPEN", "COMPLETED", "CANCELLED"}
      BY Zenon DEF ClaimIInv, ClaimTypeOK, Ended
    <2>2. Cancelled(call[c]) \/ Matches(call[c])
      BY <1>3, <2>1, Zenon DEF Cancelled, Matches, CanClaimTask, Ended
    <2> QED
      BY <1>1, <1>3, <2>2, TriesAgainPreserves, Zenon
  <1>4. CASE ExplainsRelease(c) /\ call[c].op # "claim" /\ TriesAgain(c) /\ task.by = call[c].holder
    <2>1. Matches(call[c])
      BY <1>4, Zenon DEF Matches, CanReleaseTask
    <2> QED
      BY <1>1, <1>4, <2>1, TriesAgainPreserves, Zenon
  <1> QED
    BY <1>2, <1>3, <1>4, Zenon DEF Reads, ExplainsClaim, ExplainsRelease, Answers

\* The end of the task is a change of the row.
LEMMA TaskEndsPreserves ==
  ASSUME ClaimIInv, NEW state \in Ended, TaskEnds(state)
  PROVE  ClaimIInv'
  <1> DEFINE t == [task EXCEPT !.state = state]
  <1>1. task \in ClaimRows /\ call \in [Callers -> ClaimCalls] /\ changes \in 0 .. MaxChanges
    BY ClaimTypes, Zenon DEF ClaimIInv
  <1>2. t \in ClaimRows
    BY <1>1, Zenon DEF ClaimRows
  <1>3. task' = t /\ changes < MaxChanges /\ changes' = changes + 1 /\ task.state = "OPEN" /\ call' = call
    BY Zenon DEF TaskEnds
  <1> HIDE DEF t
  <1>4. ClaimTypeOK'
    <2>1. changes' \in 0 .. MaxChanges
      BY <1>1, <1>3, ClaimAssumption
    <2> QED
      BY <1>1, <1>2, <1>3, <2>1, Zenon DEF ClaimTypeOK, ClaimRows, ClaimCalls
  <1>5. ASSUME NEW d \in Callers PROVE Counted(call[d])'
    <2>1. PICK r \in ClaimCalls : r = call[d]
      BY <1>1, Zenon
    <2>2. Counted(r)
      BY <2>1, Zenon DEF ClaimIInv
    <2>3. Counted(r)'
      BY <2>2, <1>2, <1>3, RowChanges, Zenon
    <2> QED
      BY <1>3, <2>1, <2>3, Zenon DEF Counted, Cancelled, Matches, CanClaimTask, CanReleaseTask
  <1> QED
    BY <1>4, <1>5, Zenon DEF ClaimIInv

\* The inductive invariant of claims (orchestrator.ClaimTask, orchestrator.ReleaseTask).
THEOREM ClaimInvariance == ClaimSpec => []ClaimIInv
  <1>1. ASSUME ClaimIInv, [ClaimNext]_claimVars
        PROVE  ClaimIInv'
    <2>1. CASE UNCHANGED claimVars
      BY <1>1, <2>1, Zenon
         DEF ClaimIInv, ClaimTypeOK, Counted, Cancelled, Matches, CanClaimTask, CanReleaseTask, claimVars
    <2>2. ASSUME NEW c \in Callers, WriteErrs(c) PROVE ClaimIInv'
      BY <1>1, <2>2, AnswersPreserve, Zenon DEF WriteErrs, Answers
    <2> QED
      BY <1>1, <2>1, <2>2, BeginsPreserves, WritesPreserves, ReadsPreserves, TaskEndsPreserves, Zenon DEF ClaimNext
  <1> QED
    BY <1>1, InitClaimIInv, PTL DEF ClaimSpec

\* A call of ClaimTask or ReleaseTask gives up only after the row changed once for each of
\* its attempts, or after the task was cancelled (the loop of claimAttempts).
THEOREM GivingUpTakesChanges == ClaimSpec => []GivesUpAfterChanges
  <1>1. ClaimIInv => GivesUpAfterChanges
    BY Zenon DEF ClaimIInv, Counted, Cancelled, GivesUpAfterChanges
  <1> QED
    BY <1>1, ClaimInvariance, PTL

\* A claim passes only by its release, keeps its time, and is not given out for a task that
\* has ended: the guards of store.ClaimTask and store.ReleaseTask.
THEOREM ClaimsPassByRelease == ClaimSpec => ClaimPassesByRelease
  <1> DEFINE A == /\ task'.by # task.by => Nobody \in {task.by, task'.by}
                  /\ (task.by # Nobody /\ task'.by = task.by) => task'.at = task.at
                  /\ (task.state \in Ended /\ task'.by # task.by) => task'.by = Nobody
  <1>1. ASSUME ClaimIInv, [ClaimNext]_claimVars
        PROVE  [A]_claimVars
    <2>1. CASE UNCHANGED task
      BY <2>1, Zenon
    <2>2. ASSUME NEW c \in Callers, Writes(c), task' # task PROVE A
      <3>1. call[c].holder \in Holders \cup {Nobody}
        BY <1>1, ClaimTypes, Zenon DEF ClaimIInv, ClaimCalls
      <3>2. CASE call[c].op = "claim"
        <4>1. /\ task.by \in {Nobody, call[c].holder} /\ task.state \notin Ended
              /\ task' = Claimed(call[c].holder) /\ changes < MaxChanges
          BY <2>2, <3>2, Zenon DEF Writes, CanClaimTask
        <4> QED
          BY <1>1, <2>2, <3>1, <4>1, WrittenRow, Zenon
      <3>3. CASE call[c].op # "claim"
        <4>1. task' = Released /\ changes < MaxChanges
          BY <2>2, <3>3, Zenon DEF Writes
        <4> QED
          BY <1>1, <3>1, <4>1, WrittenRow, Zenon
      <3> QED
        BY <3>2, <3>3, Zenon
    <2>3. ASSUME NEW state \in Ended, TaskEnds(state) PROVE A
      <3>1. task \in ClaimRows
        BY <1>1, ClaimTypes, Zenon DEF ClaimIInv
      <3> QED
        BY <2>3, <3>1, Zenon DEF TaskEnds, ClaimRows
    <2> QED
      BY <1>1, <2>1, <2>2, <2>3, Zenon DEF ClaimNext, Begins, WriteErrs, Reads, claimVars
  <1>2. ClaimPassesByRelease <=> [][A]_claimVars
    BY PTL DEF ClaimPassesByRelease
  <1> QED
    BY <1>1, <1>2, ClaimInvariance, PTL DEF ClaimSpec

=============================================================================
