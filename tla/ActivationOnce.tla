--------------------------- MODULE ActivationOnce ---------------------------
(***************************************************************************)
(* What the engine promises about the steps of one workflow, to the host   *)
(* that completes them: steps open one at a time and in order, an open     *)
(* step is answered at most once, by one answer, and a step that was       *)
(* closed is never open again.                                             *)
(***************************************************************************)
EXTENDS Integers

CONSTANTS Steps, AllAnswers

VARIABLES step, answer

onceVars == <<step, answer>>

OnceInit ==
    /\ step = [a \in Steps |-> "none"]
    /\ answer = [a \in Steps |-> "unset"]

Live(a) == step[a] \in {"open", "answered"}

\* A step opens only when it is later than every step that has been opened.
Opens(a) == \A b \in Steps : b >= a => step[b] = "none"

Open(a) ==
    /\ Opens(a)
    /\ \A b \in Steps : ~Live(b)
    /\ step' = [step EXCEPT ![a] = "open"]
    /\ UNCHANGED answer

GiveAnswer(a, v) ==
    /\ step[a] = "open"
    /\ step' = [step EXCEPT ![a] = "answered"]
    /\ answer' = [answer EXCEPT ![a] = v]

\* The workflow leaves the step, answered or not.
Close(a) ==
    /\ Live(a)
    /\ step' = [step EXCEPT ![a] = "closed"]
    /\ UNCHANGED answer

\* It leaves a step and opens the next one at once.
Pass(a, b) ==
    /\ Live(a)
    /\ Opens(b)
    /\ \A c \in Steps \ {a} : ~Live(c)
    /\ step' = [step EXCEPT ![a] = "closed", ![b] = "open"]
    /\ UNCHANGED answer

OnceNext ==
    \E a \in Steps :
        \/ Open(a) \/ Close(a)
        \/ \E v \in AllAnswers : GiveAnswer(a, v)
        \/ \E b \in Steps : Pass(a, b)

OnceSpec == OnceInit /\ [][OnceNext]_onceVars

=============================================================================
