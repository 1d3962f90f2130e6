---------------------------- MODULE WaterBudget ----------------------------
(***************************************************************************)
(* Requests for the Water-Budget watering scale                             *)
(* (routes/adjustmentMethods/WaterBudgetAdjustmentMethod.ts) over the rain- *)
(* bank model and the state store.                                          *)
(*                                                                          *)
(* A request is one call of calculateWaterBudgetScale.  It gives way to     *)
(* other requests at the awaits that leave the event loop: the weather      *)
(* provider's getEToData and the baseline file read of getBaselineDailyETo. *)
(* The store's get and set settle without input or output of their own, so  *)
(* a request runs from one of those two awaits to the next in one step.     *)
(***************************************************************************)
EXTENDS SoilMoistureModel

CONSTANTS
    Locations,        \* state keys: coordinates rounded to four decimals
    Requests,         \* bound: calls that can be in flight at once
    Providers,        \* weather providers a request can be served by
    LeastLag, MostLag,
                      \* [Providers -> Nat]: how many days before the request a
                      \* provider's data window starts
    MillisProviders,  \* providers whose periodStartTime is in milliseconds
    TicksPerDay,      \* requests of one day can differ by this many ticks
    MaxDay,           \* bound: the last day of the clock
    MaxSteps,         \* bound: model steps of one process for one location
    Etos, Precips,    \* a day's evapotranspiration and rain, NaN included
    Baselines,        \* daily averages in the baseline file
    DefaultRefEto,    \* BUDGET_DEFAULT_REF_ETO
    SeasonKcs,        \* coefficients the plant and crop settings resolve to
    OverrideKcs,      \* budgetKc of a request, after clampKc
    Ceilings,         \* budgetMaxScale of a request
    None              \* an option that is absent, no job, no answer

ASSUME RequestAssumption ==
    /\ LeastLag \in [Providers -> Nat]
    /\ MostLag \in [Providers -> Nat]
    /\ \A p \in Providers : LeastLag[p] <= MostLag[p]
    /\ MillisProviders \subseteq Providers
    /\ TicksPerDay \in Nat \ {0}
    /\ MaxDay \in Nat
    /\ MaxSteps \in Nat
    /\ Etos \subseteq Int \cup {NaN}
    /\ Precips \subseteq Int \cup {NaN}
    /\ Baselines \subseteq Nat
    /\ DefaultRefEto \in Nat \ {0}
    /\ SeasonKcs \subseteq Nat \ {0}
    /\ OverrideKcs \subseteq Nat \ {0}
    /\ Ceilings \subseteq Nat \ {0}
    /\ None \notin Int

VARIABLES
    clock,           \* time in ticks, TicksPerDay to the local day
    window,          \* [Providers -> the date a window asked for now starts on]
    up, mem, disk,   \* the state store
    pc,              \* [Requests -> what the call waits for]
    job,             \* [Requests -> what the call holds across the wait]
    answer,          \* [Requests -> the response to its last call]
    charged          \* history: [Locations -> [day -> model steps this process
                     \* stored for windows fixed on that day or before]]

storeVars == <<up, mem, disk>>
budgetVars == <<clock, window, up, mem, disk, pc, job, answer, charged>>

Days == 0 .. MaxDay
Day == clock \div TicksPerDay

\* The dates the windows may start on.  A provider that asks for the hours before
\* the request, or for a date in another zone, moves on within the local day.
Windows(day) ==
    LET Range(p) == (day - MostLag[p]) .. (day - LeastLag[p])
    IN  {w \in [Providers -> UNION {Range(p) : p \in Providers}] :
            \A p \in Providers : w[p] \in Range(p)}

Store == INSTANCE SnapshotStore WITH Keys <- Locations

Jobs ==
    [loc : Locations, kc : OverrideKcs \cup {None}, mx : Ceilings \cup {None},
     begun : Days, today : Int, eto : Int \cup {NaN}, precip : Int \cup {NaN},
     prev : States \cup {NoState}]

Answers ==
    [kind : {"error", "held", "cached", "locked", "advanced"}, scale : Nat]

ASSUME NoneAssumption == None \notin Jobs

TypeOK ==
    /\ clock \in 0 .. (TicksPerDay * (MaxDay + 1) - 1)
    /\ window \in Windows(Day)
    /\ Store!SnapshotTypeOK
    /\ pc \in [Requests -> {"idle", "weather", "baseline"}]
    /\ job \in [Requests -> Jobs \cup {None}]
    /\ \A r \in Requests : job[r] = None <=> pc[r] = "idle"
    /\ answer \in [Requests -> Answers \cup {None}]
    /\ charged \in [Locations -> [Days -> Nat]]

\* The label of an instant that is read as seconds but counts milliseconds: it
\* lies tens of thousands of years ahead and moves on by a day every 86
\* seconds, less than a tick.
FarFuture == 1000000
FarDate == FarFuture + clock

\* localDateString(periodStartTime) of the window of a request made now.
WindowDate(p) == IF p \in MillisProviders THEN FarDate ELSE window[p]

\* daysBetween: Date.parse may read a year of five digits or refuse it (NaN).
Gaps(prev, today) ==
    IF prev = NoState THEN {0}
    ELSE LET days == today - prev.lastUpdated
         IN  IF today >= FarFuture \/ prev.lastUpdated >= FarFuture
             THEN {days, NaN} ELSE {days}

\* clampDown: the request's ceiling lowers the returned scale, nothing else.
clampDown(scale, mx) == IF mx = None THEN scale ELSE Atmost(scale, mx)

\* Mutant: the ceiling is forgotten on the stale path.
HeldUnclamped(s, mx) ==
    IF s = NoState
    THEN [kind |-> "error", scale |-> 0]
    ELSE [kind |-> "held", scale |-> s.lastScale]

\* The last scale is held while the weather is unusable; a location without
\* one gets a coded error.
Held(s, mx) ==
    IF s = NoState
    THEN [kind |-> "error", scale |-> 0]
    ELSE [kind |-> "held", scale |-> clampDown(s.lastScale, mx)]

\* Mutant: a late coefficient is not reported.
CachedSilently(s, kc, mx) ==
    [kind |-> "cached", scale |-> clampDown(s.lastScale, mx)]

\* A same-day re-poll returns the stored decision and says when the requested
\* coefficient is not the one it was made with.
Cached(s, kc, mx) ==
    [kind |-> IF kc # None /\ kc # LastDecision(s).demandKc THEN "locked" ELSE "cached",
     scale |-> clampDown(s.lastScale, mx)]

Advanced(s, mx) ==
    [kind |-> "advanced", scale |-> clampDown(s.lastScale, mx)]

Incomplete(eto, precip) == eto = NaN \/ precip = NaN

\* The stored state is dated like the request's window (and has a decision, as
\* every stored state does).
DecidedOn(s, today) == s # NoState /\ s.lastUpdated = today

\* What a call gives the model: its own coefficient before the season's.
InputOf(j, referenceEto, seasonKc, gap) ==
    [today |-> j.today, eto |-> j.eto, precip |-> j.precip,
     referenceEto |-> referenceEto, gap |-> gap,
     kc |-> IF j.kc # None THEN j.kc ELSE seasonKc]

Respond(r, a) ==
    /\ pc' = [pc EXCEPT ![r] = "idle"]
    /\ job' = [job EXCEPT ![r] = None]
    /\ answer' = [answer EXCEPT ![r] = a]
----------------------------------------------------------------------------
Init ==
    /\ clock = 0
    /\ window \in Windows(0)
    /\ Store!SnapshotInit
    /\ pc = [r \in Requests |-> "idle"]
    /\ job = [r \in Requests |-> None]
    /\ answer = [r \in Requests |-> None]
    /\ charged = [l \in Locations |-> [d \in Days |-> 0]]

\* A call starts: its options are read and the provider is asked.  This is the
\* moment its window is fixed: AccuWeather's service does so as it answers.
Begin(r, l, p, kc, mx) ==
    /\ up
    /\ pc[r] = "idle"
    /\ pc' = [pc EXCEPT ![r] = "weather"]
    /\ job' = [job EXCEPT ![r] =
                 [loc |-> l, kc |-> kc, mx |-> mx, begun |-> Day, today |-> WindowDate(p),
                  eto |-> NaN, precip |-> NaN, prev |-> NoState]]
    /\ answer' = [answer EXCEPT ![r] = None]
    /\ UNCHANGED <<clock, window, storeVars, charged>>

\* getEToData rejects.
WeatherFails(r) ==
    /\ pc[r] = "weather"
    /\ Respond(r, Held(mem[job[r].loc], job[r].mx))
    /\ UNCHANGED <<clock, window, storeVars, charged>>

\* getEToData resolves and the stored state is read.  Incomplete weather holds
\* the last scale; a state of the same date answers the request; otherwise the
\* call keeps the state it read and waits for the baseline.
WeatherArrives(r, eto, precip) ==
    LET prev == mem[job[r].loc]
    IN  /\ pc[r] = "weather"
        /\ \/ /\ Incomplete(eto, precip)
              /\ Respond(r, Held(prev, job[r].mx))
           \/ /\ ~Incomplete(eto, precip)
              /\ DecidedOn(prev, job[r].today)
              /\ Respond(r, Cached(prev, job[r].kc, job[r].mx))
           \/ /\ ~Incomplete(eto, precip)
              /\ ~DecidedOn(prev, job[r].today)
              /\ pc' = [pc EXCEPT ![r] = "baseline"]
              /\ job' = [job EXCEPT ![r].eto = eto, ![r].precip = precip, ![r].prev = prev]
              /\ UNCHANGED answer
        /\ UNCHANGED <<clock, window, storeVars, charged>>

\* The baseline arrives, or its failure is replaced by the default; the model
\* steps from the state read before the wait and the result is stored and
\* returned.  safeSet swallows a failed write.
Advance(r, referenceEto, seasonKc) ==
    LET j == job[r]
    IN  /\ pc[r] = "baseline"
        /\ charged[j.loc][MaxDay] < MaxSteps
        /\ \E gap \in Gaps(j.prev, j.today) :
             LET s == step(j.prev, InputOf(j, referenceEto, seasonKc, gap))
             IN  /\ Store!Put(j.loc, s)
                 /\ Respond(r, Advanced(s, j.mx))
        /\ charged' = [charged EXCEPT ![j.loc] =
                         [d \in Days |-> IF d >= j.begun THEN @[d] + 1 ELSE @[d]]]
        /\ UNCHANGED <<clock, window>>

Tick ==
    /\ clock < TicksPerDay * (MaxDay + 1) - 1
    /\ clock' = clock + 1
    /\ window' \in Windows(Day')
    /\ \A p \in Providers : window'[p] >= window[p]
    /\ UNCHANGED <<storeVars, pc, job, answer, charged>>

\* A process starts and loads its state file, or fails to.
Boot ==
    /\ Store!Start
    /\ UNCHANGED <<clock, window, pc, job, answer, charged>>

\* The process dies with every call in flight.
Crash ==
    /\ up
    /\ Store!Stop
    /\ pc' = [r \in Requests |-> "idle"]
    /\ job' = [r \in Requests |-> None]
    /\ answer' = [r \in Requests |-> None]
    /\ charged' = [l \in Locations |-> [d \in Days |-> 0]]
    /\ UNCHANGED <<clock, window>>

Next ==
    \/ \E r \in Requests, l \in Locations, p \in Providers,
          kc \in OverrideKcs \cup {None}, mx \in Ceilings \cup {None} :
          Begin(r, l, p, kc, mx)
    \/ \E r \in Requests : WeatherFails(r)
    \/ \E r \in Requests, eto \in Etos, precip \in Precips : WeatherArrives(r, eto, precip)
    \/ \E r \in Requests, referenceEto \in Baselines \cup {DefaultRefEto},
          seasonKc \in SeasonKcs : Advance(r, referenceEto, seasonKc)
    \/ Tick
    \/ Boot
    \/ Crash

Spec == Init /\ [][Next]_budgetVars
----------------------------------------------------------------------------
(* Properties of any number of overlapping requests *)

Stored == {mem[l] : l \in Locations} \cup {disk[l] : l \in Locations}

\* Banked rain is used before any watering: a location with rain in the bank
\* has a scale of 0, and the bank never exceeds the cap of the decision that
\* filled it, as far as its rounded record tells the cap.
BankedRainComesFirst ==
    \A s \in Stored \ {NoState} :
        /\ s.rainBank > 0 => s.lastScale = 0
        /\ 2 * s.rainBank <= RainBankCapDays * (2 * LastDecision(s).referenceEtc + Cent)

\* The stored history accounts for the stored bank and scale: the last decision
\* is the one in force, its scale is the one of its depths before they were
\* rounded and before any request's ceiling, and each decision starts from the
\* bank the one before it left, or from 0 after a gap.  No state mixes the
\* results of two requests.
HistoryExplainsBank ==
    \A s \in Stored \ {NoState} :
        LET h    == s.history
            last == LastDecision(s)
        IN  /\ s.lastUpdated = last.date
            /\ last.rainBankAfter = round2(s.rainBank)
            /\ s.lastScale = last.scale
            /\ \E unmet \in Readings(last.unmetDemand), reference \in Readings(last.referenceEtc) :
                  s.lastScale = ScaleFor(unmet, reference)
            /\ \A i \in 1 .. (Len(h) - 1) :
                  h[i + 1].rainBankBefore \in {0, h[i].rainBankAfter}

\* No day on record leaves more in the bank than it found there and than rained,
\* less the demand it met, to the decision after it or to the stored bank: five
\* rounded depths, so five halves of a hundredth.
RainIsNotInvented ==
    \A s \in Stored \ {NoState} :
        LET h       == s.history
            left(i) == IF i < Len(h) THEN h[i + 1].rainBankBefore ELSE s.rainBank
        IN  \A i \in 1 .. Len(h) :
               2 * (left(i) - h[i].rainBankBefore - h[i].effectiveRain
                      + (h[i].etc - h[i].unmetDemand)) <= 5 * Cent

\* Every scale that is returned is the one stored for the location when it is
\* returned, lowered to the request's ceiling if it has one, on every path:
\* held, cached or advanced.  An answer whose coefficient is not reported as
\* locked rests on a decision made with the requested one.
AnswersAgreeWithStore ==
    [][\A r \in Requests :
         (pc[r] # "idle" /\ answer'[r] # None) =>
            LET s == mem'[job[r].loc]
                a == answer'[r]
            IN  /\ a.kind = "error" <=> s = NoState
                /\ s # NoState =>
                     /\ a.scale = clampDown(s.lastScale, job[r].mx)
                     /\ (a.kind \notin {"held", "locked"} /\ job[r].kc # None) =>
                          LastDecision(s).demandKc = job[r].kc]_budgetVars
----------------------------------------------------------------------------
(* Properties of requests that do not overlap, served by one provider or by *)
(* providers whose windows start on the same date *)

\* The steps stored for windows that were fixed on the days from first to last.
ChargedFrom(l, first, last) ==
    charged[l][last] - IF first = 0 THEN 0 ELSE charged[l][first - 1]

\* docs/water-budget.md: the budget advances once per day, however often a
\* location is polled.  It does while windows always start the same number of
\* days back; a provider whose window moves within the day adds to any run of
\* days as many steps as its lag varies by, once and not every day.
AdvancesKeepPace ==
    \A l \in Locations, first \in Days, last \in Days : first <= last =>
        \A p \in Providers :
            ChargedFrom(l, first, last)
              <= (last - first + 1) + (MostLag[p] - LeastLag[p])

\* docs/v1-api.md and docs/per-plant-kc.md: once a day is decided it is locked.
\* While the process lives, a stored state is only ever replaced by one of a
\* later date.
DayIsLocked ==
    [][\A l \in Locations :
         (up' /\ mem[l] # NoState /\ mem'[l] # mem[l]) =>
            mem'[l].lastUpdated > mem[l].lastUpdated]_budgetVars

\* Across crashes and lost writes too, no day's rain is banked twice: the dates
\* of a stored history increase.
NoDateChargedTwice ==
    \A s \in Stored \ {NoState} :
        \A i \in 1 .. (Len(s.history) - 1) : s.history[i].date < s.history[i + 1].date
============================================================================
