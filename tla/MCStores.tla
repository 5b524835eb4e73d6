------------------------------ MODULE MCStores ------------------------------
(***************************************************************************)
(* What concurrent calls keep: the claim of a task, the counters of        *)
(* reference IDs and the files of the local disk.  The modules have no     *)
(* variable in common, so a behaviour is one of one of them, with the      *)
(* others at rest.                                                         *)
(***************************************************************************)
EXTENDS TaskClaim, RefId, Storage

Lit == [type |-> "literal", value |-> <<"L">>]
Param == [type |-> "param", param |-> "p", pattern |-> {<<"x">>, <<"x", "1">>}]
List(name) == [type |-> "list", param |-> "p", list |-> name]
Date(y, m, d) == [type |-> "date", format |-> <<DateRun("y", y), DateRun("M", m), DateRun("d", d)>>]
Sequence(scope) == [type |-> "sequence", scopeKey |-> scope, padding |-> 1]
Random(scope) == [type |-> "random", scopeKey |-> scope, charset |-> "alpha", maxAttempts |-> 2]
Format(idType, timezone, segments) ==
    [issuer |-> "I", idType |-> idType, timezone |-> timezone, segments |-> segments]

\* Two formats that share a daily counter in two timezones, two that share a counter's
\* prefix, two kinds of random IDs, an unpadded date; then configurations that are refused.
MCConfigs == {
    <<Format("a", "UTC", <<Date(4, 2, 2), Sequence(<<"{yyyyMMdd}">>)>>),
      Format("b", "Colombo", <<Param, Sequence(<<"{yyyyMMdd}">>), Date(4, 2, 2)>>)>>,
    <<Format("a", "", <<Lit, Param, Sequence(<<"{issuer}", "p">>)>>),
      Format("b", "", <<Param, Sequence(<<"{issuer}", "{idType}">>)>>)>>,
    <<Format("a", "Colombo", <<List("codes"), Random(<<"p", "{yyyyMM}">>), Date(4, 2, 1)>>)>>,
    <<Format("a", "", <<List("codes"), Random(<<"p">>)>>)>>,
    <<Format("a", "UTC", <<Date(2, 1, 1), Sequence(<<"{yyyyMMdd}">>)>>)>>,
    <<Format("a", "", <<Sequence(<<"{issuer}">>), Random(<<"{idType}">>)>>)>>,
    <<Format("a", "", <<Lit>>), Format("a", "", <<Lit>>)>>,
    <<Format("a", "", <<Date(4, 2, 2)>>)>>,
    <<Format("a", "", <<Sequence(<<"{yyyy}">>)>>)>>,
    <<Format("a", "Mars", <<Lit>>)>>,
    <<Format("a", "", <<List("none")>>)>>,
    <<Format("a", "UTC", <<Date(4, 3, 2)>>)>> }
MCLists == [codes |-> {<<"x">>, <<"y">>}]
MCCharsets == [alpha |-> {<<"r">>, <<"s">>}]
MCZones == [UTC |-> 0, Colombo |-> 1]
\* 11 January and 1 November are alike without padding.
MCDays == <<[y |-> 2026, M |-> 1, d |-> 11], [y |-> 2026, M |-> 11, d |-> 1], [y |-> 2027, M |-> 1, d |-> 11]>>
MCParams == {[p |-> <<"x">>], [p |-> <<"x", "1">>], [q |-> <<"x">>]}

\* The second is refused: clients may upload a type that opens in the browser.
MCServices == {
    [allowed |-> {"pdf"}, inline |-> {"pdf"}, extensions |-> [pdf |-> <<".pdf">>]],
    [allowed |-> {"html", "pdf"}, inline |-> {"html"}, extensions |-> [pdf |-> <<".pdf">>]]}

ClaimAtRest ==
    /\ task = [state |-> "CANCELLED", by |-> Nobody, at |-> 0]
    /\ call = [c \in Callers |-> [Idle EXCEPT !.op = "rest", !.pc = "rest"]]
    /\ changes = 0

RefIdAtRest ==
    /\ config = <<>>
    /\ registry = "rest"
    /\ today = Len(Days)
    /\ gen = [c \in Generators |-> NotGenerating]
    /\ generated = 0
    /\ counters = [key \in {} |-> 0]
    /\ reserved = {} /\ issued = {} /\ lost = {}

StorageAtRest ==
    /\ service = [state |-> "rest"]
    /\ clock = 0 /\ saves = 0
    /\ urls = {} /\ torn = {}
    /\ keys = <<>> /\ disk = <<>> /\ answered = <<>>
    /\ req = [r \in Requests |-> NoRequest]

MCInit ==
    \/ ClaimInit /\ RefIdAtRest /\ StorageAtRest
    \/ ClaimAtRest /\ RefInit /\ StorageAtRest
    \/ ClaimAtRest /\ RefIdAtRest /\ StorageInit

MCNext ==
    \/ ClaimNext /\ UNCHANGED <<refVars, storageVars>>
    \/ RefNext /\ UNCHANGED <<claimVars, storageVars>>
    \/ StorageNext /\ UNCHANGED <<claimVars, refVars>>

MCSpec == MCInit /\ [][MCNext]_<<claimVars, refVars, storageVars>>

=============================================================================
