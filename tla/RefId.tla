------------------------------- MODULE RefId -------------------------------
(***************************************************************************)
(* Reference IDs (package refid).  The registry compiles all formats when  *)
(* it is built.  Generate reads the clock once, checks all segments of a   *)
(* format and renders one after the other; a sequence or a random segment  *)
(* goes to a store that all calls and all formats share.                   *)
(*                                                                         *)
(* What can be told apart once texts are joined is the point, so a text is *)
(* a sequence of characters.  A pattern is the set of texts it matches, a  *)
(* date format a sequence of runs [letter, n], a scope key template a      *)
(* sequence of placeholders.  The clock counts days: hours, minutes and    *)
(* seconds are fields like the day.                                        *)
(***************************************************************************)
EXTENDS Integers, Sequences, FiniteSetsExt, TLC

CONSTANTS
    Configs,        \* the configurations: sequences of formats
    Lists,          \* the lists of values: a function to sets of texts
    Charsets,       \* the texts that a random segment draws, for each charset
    Zones,          \* the known timezones: how many days ahead each is
    Days,           \* the calendar: a sequence of [y, M, d]
    ParamSets,      \* parameters that callers pass: functions to texts
    Radix,          \* the base of a counter's digits: 10 in the code
    Generators,     \* concurrent calls
    MaxGenerated    \* bound: calls of Generate

\* A configuration lists its formats, and a format its segments.
ASSUME ConfigsAssumption ==
    \A cfg \in Configs :
        /\ cfg \in Seq(Range(cfg))
        /\ \A k \in DOMAIN cfg : cfg[k].segments \in Seq(Range(cfg[k].segments))

VARIABLES
    config,     \* the configuration
    registry,   \* "building", "refused" or "built"
    today,      \* the day in UTC, an index of Days
    gen,        \* the calls of Generate under way
    generated,  \* the calls made
    counters,   \* the sequence store: the counter of each scope key
    reserved,   \* the random store: pairs of a scope key and a value
    issued,     \* the IDs returned, each with its call, its format and what it took from a store
    lost        \* what a store gave out with an answer that did not arrive

refVars == <<config, registry, today, gen, generated, counters, reserved, issued, lost>>

NotGenerating == [call |-> 0, format |-> 0, params |-> <<>>, now |-> 1, seg |-> 1, text |-> <<>>,
                  attempts |-> 0, took |-> {}]

-----------------------------------------------------------------------------
(***************************************************************************)
(* Date formats.                                                           *)
(***************************************************************************)

\* The letters, and how often each can be repeated.
dateFields == [y |-> {2, 4}, M |-> {1, 2}, d |-> {1, 2}]

Literal(run) == run.letter = "'"
fieldForRun(run) == run.letter \in DOMAIN dateFields /\ run.n \in dateFields[run.letter]

\* Whether a format is understood.  It has a field.
compileDateFormat(format) ==
    /\ \A k \in DOMAIN format : Literal(format[k]) \/ fieldForRun(format[k])
    /\ \E k \in DOMAIN format : ~Literal(format[k])

\* Several texts in a row.
Joined(texts) == MapThenFoldSet(LAMBDA last, before : before \o last, <<>>, LAMBDA k : texts[k], Max, DOMAIN texts)

\* The digits of n in a base, at least width of them.
Digit(k) == <<"0", "1", "2", "3", "4", "5", "6", "7", "8", "9">>[k + 1]
intPart(n, base, width) ==
    LET len == Max({width} \cup {k \in 1 .. 4 : n >= base ^ (k - 1)}) IN
    [k \in 1 .. len |-> Digit((n \div base ^ (len - k)) % base)]

yearOfCentury(day) == Days[day].y % 100

RenderDate(format, day) ==
    Joined([k \in DOMAIN format |->
        LET run == format[k] IN
        IF Literal(run) THEN <<"'">>
        ELSE intPart(IF run.letter = "y" /\ run.n = 2 THEN yearOfCentury(day) ELSE Days[day][run.letter],
                     10, run.n)])

-----------------------------------------------------------------------------
(***************************************************************************)
(* Scope keys.                                                             *)
(***************************************************************************)
DateRun(letter, n) == [letter |-> letter, n |-> n]
dateScopeTokens ==
    ("{yyyy}" :> <<DateRun("y", 4)>>) @@
    ("{yyyyMM}" :> <<DateRun("y", 4), DateRun("M", 2)>>) @@
    ("{yyyyMMdd}" :> <<DateRun("y", 4), DateRun("M", 2), DateRun("d", 2)>>)
FormatTokens == {"{issuer}", "{idType}"}

scopeKeyUsesDate(template) == Range(template) \cap DOMAIN dateScopeTokens # {}

\* A placeholder that is left over makes the key invalid.
Resolvable(template, params) ==
    Range(template) \subseteq FormatTokens \cup DOMAIN dateScopeTokens \cup DOMAIN params

\* The key: all values in a row.  The format's own placeholders go before parameters.
resolveScopeKey(f, template, params, day) ==
    Joined([k \in DOMAIN template |->
        LET token == template[k] IN
        CASE token = "{issuer}" -> <<f.issuer>>
          [] token = "{idType}" -> <<f.idType>>
          [] token \in DOMAIN dateScopeTokens -> RenderDate(dateScopeTokens[token], day)
          [] OTHER -> params[token]])

-----------------------------------------------------------------------------
(***************************************************************************)
(* Building the registry.                                                  *)
(***************************************************************************)
newLiteralSegment(sg) == sg.value # <<>>
newListSegment(sg) == sg.list \in DOMAIN Lists /\ sg.param # "" /\ Lists[sg.list] # {}
newParamSegment(sg) == sg.param # "" /\ sg.pattern # {}
newDateSegment(sg) == sg.format # <<>> /\ compileDateFormat(sg.format)
newSequenceSegment(sg) == sg.scopeKey # <<>> /\ sg.padding \in 1 .. 18
newRandomSegment(sg) == sg.scopeKey # <<>> /\ sg.charset \in DOMAIN Charsets /\ sg.maxAttempts \in 0 .. 100

compileSegment(sg) ==
    CASE sg.type = "literal" -> newLiteralSegment(sg)
      [] sg.type = "list" -> newListSegment(sg)
      [] sg.type = "param" -> newParamSegment(sg)
      [] sg.type = "date" -> newDateSegment(sg)
      [] sg.type = "sequence" -> newSequenceSegment(sg)
      [] sg.type = "random" -> newRandomSegment(sg)
      [] OTHER -> FALSE

isStateful(sg) == sg.type \in {"sequence", "random"}

formatUsesDate(f) ==
    \E k \in DOMAIN f.segments :
        LET sg == f.segments[k] IN sg.type = "date" \/ (isStateful(sg) /\ scopeKeyUsesDate(sg.scopeKey))

resolveTimezone(f) == IF f.timezone = "" THEN ~formatUsesDate(f) ELSE f.timezone \in DOMAIN Zones

\* At most one segment of a format leaves something in a store.
AnyStateful(f) == TRUE
OneStateful(f) ==
    \A j, k \in DOMAIN f.segments : isStateful(f.segments[j]) /\ isStateful(f.segments[k]) => j = k

compileFormat(f) ==
    /\ f.segments # <<>>
    /\ \A k \in DOMAIN f.segments : compileSegment(f.segments[k])
    /\ OneStateful(f)
    /\ resolveTimezone(f)

NewRegistry ==
    /\ registry = "building"
    /\ registry' = IF /\ \A k \in DOMAIN config : config[k].issuer # "" /\ config[k].idType # ""
                      /\ \A j, k \in DOMAIN config : j # k =>
                            <<config[j].issuer, config[j].idType>> # <<config[k].issuer, config[k].idType>>
                      /\ \A k \in DOMAIN config : compileFormat(config[k])
                   THEN "built" ELSE "refused"
    /\ UNCHANGED <<config, today, gen, generated, counters, reserved, issued, lost>>

-----------------------------------------------------------------------------
(***************************************************************************)
(* Generate.                                                               *)
(***************************************************************************)

\* The day in the timezone of a format; UTC when it has none.
Now(f) == today + (IF f.timezone = "" THEN 0 ELSE Zones[f.timezone])

\* A parameter that is given and is not empty.
Given(params, name) == name \in DOMAIN params /\ params[name] # <<>>
ValidateList(sg, params) == Given(params, sg.param) /\ params[sg.param] \in Lists[sg.list]
ValidateParam(sg, params) == Given(params, sg.param) /\ params[sg.param] \in sg.pattern

validate(sg, params) ==
    CASE sg.type = "list" -> ValidateList(sg, params)
      [] sg.type = "param" -> ValidateParam(sg, params)
      [] isStateful(sg) -> Resolvable(sg.scopeKey, params)
      [] OTHER -> TRUE

\* A call reads the clock and checks all segments before it renders the first.
Generate(c, k, params) ==
    /\ registry = "built"
    /\ gen[c].format = 0
    /\ generated < MaxGenerated
    /\ generated' = generated + 1
    /\ gen' = IF \A j \in DOMAIN config[k].segments : validate(config[k].segments[j], params)
              THEN [gen EXCEPT ![c] = [NotGenerating EXCEPT !.call = generated', !.format = k,
                                                             !.params = params, !.now = Now(config[k])]]
              ELSE gen
    /\ UNCHANGED <<config, registry, today, counters, reserved, issued, lost>>

FormatOf(c) == config[gen[c].format]
Segment(c) == FormatOf(c).segments[gen[c].seg]
Rendering(c, types) == gen[c].format # 0 /\ Segment(c).type \in types

\* The text of the next segment, with what it took from a store.  The last makes the ID.
Joins(c, text, took) ==
    LET id == gen[c].text \o text
        all == gen[c].took \cup took
    IN  IF gen[c].seg = Len(FormatOf(c).segments)
        THEN /\ issued' = issued \cup {[call |-> gen[c].call, format |-> gen[c].format, id |-> id, took |-> all]}
             /\ gen' = [gen EXCEPT ![c] = NotGenerating]
        ELSE /\ gen' = [gen EXCEPT ![c].seg = @ + 1, ![c].text = id, ![c].took = all]
             /\ UNCHANGED issued

\* The call ends with an error.
Fails(c) == gen' = [gen EXCEPT ![c] = NotGenerating] /\ UNCHANGED issued

RenderLiteral(c) == /\ Rendering(c, {"literal"})
                    /\ Joins(c, Segment(c).value, {})
                    /\ UNCHANGED <<config, registry, today, generated, counters, reserved, lost>>
RenderParam(c) == /\ Rendering(c, {"list", "param"})
                  /\ Joins(c, gen[c].params[Segment(c).param], {})
                  /\ UNCHANGED <<config, registry, today, generated, counters, reserved, lost>>
RenderDateOf(c) == /\ Rendering(c, {"date"})
                   /\ Joins(c, RenderDate(Segment(c).format, gen[c].now), {})
                   /\ UNCHANGED <<config, registry, today, generated, counters, reserved, lost>>

\* The scope key is resolved for the instant that the call began with.
ScopeKeyOf(c) == resolveScopeKey(FormatOf(c), Segment(c).scopeKey, gen[c].params, gen[c].now)

maxValue(c) == Radix ^ Segment(c).padding - 1
Counter(key) == IF key \in DOMAIN counters THEN counters[key] ELSE 0

\* One statement creates the counter or adds one to it, unless it is at its maximum.
NextAllowed(key, max) == key \in DOMAIN counters => counters[key] < max
Increments(key) ==
    counters' = [k \in DOMAIN counters \cup {key} |-> IF k = key THEN Counter(key) + 1 ELSE counters[k]]

\* What the two stores give out: a count, or a value that was not reserved before.
Counted(key, n) == <<"sequence", key, n>>
Drawn(entry) == <<"random", entry[1], entry[2]>>

RenderSequence(c) ==
    LET key == ScopeKeyOf(c)
        n == Counter(key) + 1
    IN  /\ Rendering(c, {"sequence"})
        /\ \/ /\ NextAllowed(key, maxValue(c))
              /\ Increments(key)
              /\ \/ Joins(c, intPart(n, Radix, Segment(c).padding), {Counted(key, n)}) /\ UNCHANGED lost
                 \/ Fails(c) /\ lost' = lost \cup {Counted(key, n)}
           \/ Fails(c) /\ UNCHANGED <<counters, lost>>
        /\ UNCHANGED <<config, registry, today, generated, reserved>>

maxAttempts(c) == IF Segment(c).maxAttempts = 0 THEN 10 ELSE Segment(c).maxAttempts

\* The INSERT of the random store, which changes no row when the value is there already.
ReserveAgain(entry) == reserved' = reserved \cup {entry}
Reserve(entry) == entry \notin reserved /\ reserved' = reserved \cup {entry}

\* One statement adds the value that was drawn, unless it is there.
RenderRandom(c, value) ==
    LET entry == <<ScopeKeyOf(c), value>> IN
    /\ Rendering(c, {"random"})
    /\ value \in Charsets[Segment(c).charset]
    /\ \/ /\ Reserve(entry)
          /\ \/ Joins(c, value, {Drawn(entry)}) /\ UNCHANGED lost
             \/ Fails(c) /\ lost' = lost \cup {Drawn(entry)}
       \/ /\ entry \in reserved
          /\ gen[c].attempts + 1 < maxAttempts(c)
          /\ gen' = [gen EXCEPT ![c].attempts = @ + 1]
          /\ UNCHANGED <<reserved, issued, lost>>
       \/ /\ entry \in reserved
          /\ gen[c].attempts + 1 = maxAttempts(c)
          /\ Fails(c)
          /\ UNCHANGED <<reserved, lost>>
       \/ Fails(c) /\ UNCHANGED <<reserved, lost>>
    /\ UNCHANGED <<config, registry, today, generated, counters>>

Midnight ==
    /\ today + Max(Range(Zones)) < Len(Days)
    /\ today' = today + 1
    /\ UNCHANGED <<config, registry, gen, generated, counters, reserved, issued, lost>>

RefInit ==
    /\ config \in Configs
    /\ registry = "building"
    /\ today = 1
    /\ gen = [c \in Generators |-> NotGenerating]
    /\ generated = 0
    /\ counters = [key \in {} |-> 0]
    /\ reserved = {}
    /\ issued = {}
    /\ lost = {}

RefNext ==
    \/ NewRegistry
    \/ Midnight
    \/ \E c \in Generators :
          \/ \E k \in DOMAIN config, params \in ParamSets : Generate(c, k, params)
          \/ RenderLiteral(c)
          \/ RenderParam(c)
          \/ RenderDateOf(c)
          \/ RenderSequence(c)
          \/ \E value \in UNION Range(Charsets) : RenderRandom(c, value)

RefSpec == RefInit /\ [][RefNext]_refVars

-----------------------------------------------------------------------------
(***************************************************************************)
(* Properties.                                                             *)
(***************************************************************************)
RefTypeOK ==
    /\ config \in Configs
    /\ registry \in {"building", "refused", "built"}
    /\ today \in DOMAIN Days
    /\ \A c \in Generators :
          gen[c].format # 0 =>
              /\ gen[c].format \in DOMAIN config
              /\ gen[c].seg \in DOMAIN FormatOf(c).segments
              /\ gen[c].params \in ParamSets
              /\ gen[c].now \in DOMAIN Days
    /\ generated \in 0 .. MaxGenerated
    /\ \A key \in DOMAIN counters : counters[key] \in 1 .. MaxGenerated
    /\ {entry[2] : entry \in reserved} \subseteq UNION Range(Charsets)
    /\ {x.format : x \in issued} \subseteq DOMAIN config

\* What the author of a format has to see to: it counts or draws, what its scope key
\* depends on is in the ID, dates are padded (registry.go: "Unpadded fields make IDs
\* variable-width"), and no more than one segment is a parameter.
CoversItsScope(f) ==
    LET these(types) == {f.segments[k] : k \in {j \in DOMAIN f.segments : f.segments[j].type \in types}}
        runs == UNION {Range(sg.format) : sg \in these({"date"})}
        named == {sg.param : sg \in these({"list", "param"})}
    IN  /\ Cardinality({k \in DOMAIN f.segments : f.segments[k].type \in {"list", "param"}}) <= 1
        /\ \A run \in runs : run.n # 1
        /\ \E sg \in these({"sequence", "random"}) :
              \A token \in Range(sg.scopeKey) \ FormatTokens :
                 IF token \in DOMAIN dateScopeTokens
                 THEN Range(dateScopeTokens[token]) \subseteq runs ELSE token \in named

\* A format that covers its scope never gives one ID to two calls, whatever their days
\* and parameters and however they interleave with each other, with calls for other
\* formats of the same counter, and with midnight (Generate: "so the date in the ID and
\* the counter's scope cannot disagree").
IdsAreDistinct ==
    \A x, y \in issued : x.call # y.call /\ x.format = y.format /\ CoversItsScope(config[x.format]) =>
        x.id # y.id

\* What has become of a store's values: they are in an ID, with a call that is under way,
\* or were lost with the answer.
Accounted == (UNION {x.took : x \in issued}) \cup (UNION {gen[c].took : c \in Generators}) \cup lost

\* A store's value is used up only by an ID, by a call still under way, or by an answer
\* that was lost: no call takes one and then fails for another reason (compileFormat:
\* "if a stateful segment's store call commits ... and a later segment then fails, the
\* earlier side effect is permanently orphaned").
NothingIsOrphaned ==
    /\ \A key \in DOMAIN counters : \A n \in 1 .. counters[key] : Counted(key, n) \in Accounted
    /\ \A entry \in reserved : Drawn(entry) \in Accounted

=============================================================================
