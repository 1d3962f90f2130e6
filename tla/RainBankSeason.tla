--------------------------- MODULE RainBankSeason ---------------------------
(***************************************************************************)
(* Two rain banks over the same days (routes/adjustmentMethods/             *)
(* SoilMoistureModel.ts): they see the same evapotranspiration, coefficient, *)
(* baseline and gaps between polls, and the first never gets less rain than  *)
(* the second.  Comparing two runs of step shows what no single run can:     *)
(* how its answer depends on the weather.                                    *)
(***************************************************************************)
EXTENDS SoilMoistureModel

CONSTANTS
    SeasonEtos, SeasonRains,    \* weather of a day, NaN included
    SeasonReferences,           \* baseline daily averages
    SeasonCoefficients,         \* coefficients in tenths
    SeasonGaps,                 \* days from one poll to the next
    LastDate                    \* bound: the last date

ASSUME SeasonAssumption ==
    /\ SeasonEtos \subseteq Int \cup {NaN}
    /\ SeasonRains \subseteq Int \cup {NaN}
    /\ SeasonReferences \subseteq Int
    /\ SeasonCoefficients \subseteq Nat
    /\ SeasonGaps \subseteq Nat \ {0}
    /\ LastDate \in Nat

VARIABLES wet, dry   \* stored states of the two banks
seasonVars == <<wet, dry>>

SeasonInit ==
    /\ wet = NoState
    /\ dry = NoState

\* One poll of each bank, gap days after the last.
Poll(eto, more, less, reference, kc, gap) ==
    LET today == IF wet = NoState THEN 1 ELSE wet.lastUpdated + gap
        input(rain) == [today |-> today, eto |-> eto, precip |-> rain,
                        referenceEto |-> reference, gap |-> gap, kc |-> kc]
    IN  /\ today <= LastDate
        /\ fin(less) <= fin(more)
        /\ wet' = step(wet, input(more))
        /\ dry' = step(dry, input(less))

SeasonNext ==
    \E eto \in SeasonEtos, more \in SeasonRains, less \in SeasonRains,
       reference \in SeasonReferences, kc \in SeasonCoefficients, gap \in SeasonGaps :
       Poll(eto, more, less, reference, kc, gap)

SeasonSpec == SeasonInit /\ [][SeasonNext]_seasonVars
----------------------------------------------------------------------------
\* No negative or missing depth survives a step, the scale is a percentage
\* within its ceiling, and a state always has the decision that made it.
SeasonTypeOK == {wet, dry} \subseteq States \cup {NoState}

\* More rain never leads to more watering, now or on any later day: the bank
\* that got at least as much rain every day holds at least as much and asks for
\* no higher scale.
MoreRainNeverWatersMore ==
    wet # NoState =>
        /\ dry # NoState
        /\ wet.rainBank >= dry.rainBank
        /\ wet.lastScale <= dry.lastScale

\* What a decision did, told drop by drop: demand is served while there is
\* water, what is left is kept while there is room, and the rest runs off.  The
\* record tells it to the hundredth, so a sum of four of its depths is known to
\* four halves of one, and the cap to one for each of its days.
RunsOff(d, bank) == d.rainBankBefore + d.effectiveRain - (d.etc - d.unmetDemand) - bank
WaterBalance ==
    \A s \in {wet, dry} \ {NoState} :
        LET d    == LastDecision(s)
            lost == RunsOff(d, s.rainBank)
            full == RainBankCapDays * d.referenceEtc
        IN  /\ d.unmetDemand <= d.etc
            /\ 2 * lost >= -(4 * Cent)
            /\ d.unmetDemand > 0 => s.rainBank = 0 /\ WithinHalves(lost, 4)
            /\ 2 * lost > 4 * Cent => WithinHalves(s.rainBank - full, RainBankCapDays)
============================================================================
