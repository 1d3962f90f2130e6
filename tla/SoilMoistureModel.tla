------------------------- MODULE SoilMoistureModel -------------------------
(***************************************************************************)
(* The open-loop rain bank of routes/adjustmentMethods/SoilMoistureModel.ts *)
(* as operators: no clock, no input or output.                              *)
(*                                                                          *)
(* Depths are integers.  Crop coefficients and the runoff factor are in     *)
(* tenths, so a depth that was multiplied by one of them (etc,              *)
(* referenceEtc, effectiveRain and everything computed from them) is in     *)
(* tenths of the unit of eto and precip, and every sum below is exact.      *)
(* The unit is finer than a hundredth of an inch, to which the record of a  *)
(* decision is rounded while the bank and the scale are not: Cent units are *)
(* one hundredth.                                                           *)
(***************************************************************************)
EXTENDS Integers, Sequences

CONSTANTS
    NaN,              \* a weather field that is missing or not a finite number
    NoState,          \* no budget stored for a location (undefined)
    Cent,             \* a hundredth of an inch, in units of etc
    BaseKc,           \* BUDGET_KC in tenths: the reference crop coefficient
    MaxScale,         \* BUDGET_MAX_SCALE in percent
    RunoffFactor,     \* BUDGET_RUNOFF in tenths
    RainBankCapDays,  \* BUDGET_RAINBANK_CAP_DAYS
    GapResetDays,     \* BUDGET_GAP_RESET
    HISTORY_CAP       \* decisions kept per location (90 in the code)

\* resolveParams forces each setting into these ranges; the code allows any
\* positive real where the model has integers.
ASSUME BudgetAssumption ==
    /\ NaN \notin Int
    /\ Cent \in Nat \ {0}
    /\ BaseKc \in Nat \ {0}
    /\ MaxScale \in Nat \ {0}
    /\ RunoffFactor \in 0..10
    /\ RainBankCapDays \in Nat \ {0}
    /\ GapResetDays \in Nat \ {0}
    /\ HISTORY_CAP \in Nat \ {0}

\* DecisionRecord, without the fields that only repeat a request's inputs.
Decisions ==
    [date : Int, scale : 0 .. MaxScale, etc : Nat, effectiveRain : Nat,
     unmetDemand : Nat, rainBankBefore : Nat, rainBankAfter : Nat,
     referenceEtc : Nat, demandKc : Nat]

\* BudgetState.  Every stored state was made by step, so it has a decision.
States ==
    [rainBank : Nat, lastUpdated : Int, lastScale : 0 .. MaxScale,
     history : Seq(Decisions) \ {<<>>}]

\* The weather and settings of one step; gap is daysBetween the stored date and
\* today, or NaN when one of the two is not a date that Date.parse reads.
Inputs ==
    [today : Int, eto : Int \cup {NaN}, precip : Int \cup {NaN},
     referenceEto : Int, gap : Int \cup {NaN}, kc : Nat]

ASSUME AbsentAssumption == NoState \notin States

LastDecision(s) == s.history[Len(s.history)]

Atmost(v, hi) == IF v > hi THEN hi ELSE v
Atleast(v, lo) == IF v < lo THEN lo ELSE v

clamp(v, lo, hi) == Atleast(Atmost(v, hi), lo)

\* fin: a missing field counts as 0.
fin(v) == IF v = NaN THEN 0 ELSE v

\* max(0, fin(v)): negative evapotranspiration or rain counts as none.
NonNegative(v) == Atleast(fin(v), 0)

\* The nearest whole hundredth, the higher one of two (Math.round).
round2(v) == ((2 * v + Cent) \div (2 * Cent)) * Cent

\* Math.round(100 * unmet / reference) for reference > 0.
RoundedPercent(unmet, reference) == (200 * unmet + reference) \div (2 * reference)

\* Mutant: the upper clamp is missing.
UncappedScale(unmet, reference) ==
    IF reference > 0 THEN Atleast(RoundedPercent(unmet, reference), 0) ELSE 0

ScaleFor(unmet, reference) ==
    IF reference > 0 THEN clamp(RoundedPercent(unmet, reference), 0, MaxScale) ELSE 0

\* Mutant: slice(0, n) keeps the oldest decisions.
FirstOf(s, n) == IF Len(s) <= n THEN s ELSE SubSeq(s, 1, n)

\* Array.slice(-n) for n > 0.
LastOf(s, n) == IF Len(s) <= n THEN s ELSE SubSeq(s, Len(s) - n + 1, Len(s))

Demand(eto, kc) == NonNegative(eto) * kc
ReferenceEtc(referenceEto) == NonNegative(referenceEto) * BaseKc
EffectiveRain(precip) == NonNegative(precip) * RunoffFactor

\* Mutants: a bank without a cap, one that is emptied when it is over the cap,
\* and one that the day's demand does not drain.
UncappedBank(available, metByRain, reference) == Atleast(available - metByRain, 0)
EmptiedBank(available, metByRain, reference) ==
    IF available - metByRain > RainBankCapDays * reference THEN 0
    ELSE Atleast(available - metByRain, 0)
UndrainedBank(available, metByRain, reference) ==
    clamp(available, 0, RainBankCapDays * reference)

BankAfter(available, metByRain, reference) ==
    clamp(available - metByRain, 0, RainBankCapDays * reference)

\* The bank a step starts from: 0 on a cold start and after a gap of more than
\* GapResetDays; NaN > n is false.
BankBefore(prev, gap) ==
    IF prev = NoState THEN 0
    ELSE IF gap # NaN /\ gap > GapResetDays THEN 0
    ELSE fin(prev.rainBank)

\* One day's result, as it is computed.
Outcome(before, in) ==
    LET etc       == Demand(in.eto, in.kc)
        reference == ReferenceEtc(in.referenceEto)
        available == before + EffectiveRain(in.precip)
        metByRain == Atmost(available, etc)
        unmet     == Atleast(etc - metByRain, 0)
    IN  [etc           |-> etc,
         effectiveRain |-> EffectiveRain(in.precip),
         unmetDemand   |-> unmet,
         rainBankAfter |-> BankAfter(available, metByRain, reference),
         referenceEtc  |-> reference,
         scale         |-> ScaleFor(unmet, reference)]

\* The record of the day's decision: its depths are rounded.  Coefficients in
\* whole tenths are whole hundredths.
Decision(before, in) ==
    LET o == Outcome(before, in)
    IN  [date            |-> in.today,
         scale           |-> o.scale,
         etc             |-> round2(o.etc),
         effectiveRain   |-> round2(o.effectiveRain),
         unmetDemand     |-> round2(o.unmetDemand),
         rainBankBefore  |-> round2(before),
         rainBankAfter   |-> round2(o.rainBankAfter),
         referenceEtc    |-> round2(o.referenceEtc),
         demandKc        |-> in.kc]

\* The state after the decision for in.today: the bank it carries on is the one
\* that was computed, not the one on record.
Decided(prev, in) ==
    LET before == BankBefore(prev, in.gap)
        past   == IF prev = NoState THEN <<>> ELSE prev.history
    IN  [rainBank    |-> Outcome(before, in).rainBankAfter,
         lastUpdated |-> in.today,
         lastScale   |-> Outcome(before, in).scale,
         history     |-> LastOf(Append(past, Decision(before, in)), HISTORY_CAP)]

\* Mutant: the date of the state is not moved on.
StepKeepsDate(prev, in) ==
    [Decided(prev, in) EXCEPT
       !.lastUpdated = IF prev = NoState THEN @ ELSE prev.lastUpdated]

\* step: a state already dated today is returned as it is.
step(prev, in) ==
    IF prev # NoState /\ prev.lastUpdated = in.today THEN prev ELSE Decided(prev, in)
----------------------------------------------------------------------------
(* Reading a record *)

\* The depths that a recorded depth may have been rounded from.
Readings(recorded) == {v \in 0 .. (recorded + Cent) : round2(v) = recorded}

\* v is at most n half-hundredths away from 0.
WithinHalves(v, n) == -(n * Cent) <= 2 * v /\ 2 * v <= n * Cent
============================================================================
