---------------------- MODULE SoilMoistureModel_proofs ----------------------
(***************************************************************************)
(* Facts about one step of the rain bank, for every setting, every weather  *)
(* and every stored state; then the proof that more rain never leads to     *)
(* more watering, over any number of days.                                  *)
(***************************************************************************)
EXTENDS RainBankSeason, TLAPS

LEMMA ProductIsNat == \A a, b \in Nat : a * b \in Nat
OBVIOUS

LEMMA NonNegativeIsNat == \A v \in Int \cup {NaN} : NonNegative(v) \in Nat
BY BudgetAssumption DEF NonNegative, fin, Atleast

LEMMA DivisionIsNat == \A a \in Nat, c \in Nat \ {0} : a \div c \in Nat
OBVIOUS

LEMMA ProductIsMonotone == \A a, b, c \in Nat : a <= b => a * c <= b * c
<1> SUFFICES ASSUME NEW a \in Nat, NEW b \in Nat, NEW c \in Nat, a <= b
             PROVE  a * c <= b * c
  OBVIOUS
<1>1. b - a \in Nat /\ (b - a) * c \in Nat
  BY ProductIsNat
<1> QED
  BY <1>1

LEMMA DivisionIsMonotone ==
    \A a, b \in Nat, c \in Nat \ {0} : a <= b => a \div c <= b \div c
OBVIOUS

LEMMA ScaleType ==
    ASSUME NEW unmet \in Nat, NEW reference \in Nat
    PROVE  ScaleFor(unmet, reference) \in 0 .. MaxScale
<1>1. reference > 0 => RoundedPercent(unmet, reference) \in Nat
  <2> SUFFICES ASSUME reference > 0 PROVE RoundedPercent(unmet, reference) \in Nat
    OBVIOUS
  <2>1. 200 * unmet + reference \in Nat /\ 2 * reference \in Nat \ {0}
    OBVIOUS
  <2> QED
    BY <2>1, DivisionIsNat DEF RoundedPercent
<1> QED
  BY <1>1, BudgetAssumption DEF ScaleFor, clamp, Atmost, Atleast

LEMMA BankType ==
    ASSUME NEW available \in Nat, NEW metByRain \in Nat, NEW reference \in Nat
    PROVE  /\ BankAfter(available, metByRain, reference) \in Nat
           /\ BankAfter(available, metByRain, reference) <= RainBankCapDays * reference
<1>1. RainBankCapDays * reference \in Nat
  BY BudgetAssumption, ProductIsNat
<1> QED
  BY <1>1 DEF BankAfter, clamp, Atmost, Atleast

LEMMA BankBeforeType ==
    ASSUME NEW prev \in States \cup {NoState}, NEW gap \in Int \cup {NaN}
    PROVE  BankBefore(prev, gap) \in {0} \cup (IF prev = NoState THEN {} ELSE {prev.rainBank})
BY BudgetAssumption DEF BankBefore, States, fin

LEMMA DepthsAreNat ==
    ASSUME NEW in \in Inputs
    PROVE  /\ Demand(in.eto, in.kc) \in Nat
           /\ ReferenceEtc(in.referenceEto) \in Nat
           /\ EffectiveRain(in.precip) \in Nat
<1>1. in.eto \in Int \cup {NaN} /\ in.precip \in Int \cup {NaN}
      /\ in.referenceEto \in Int /\ in.kc \in Nat
  BY DEF Inputs
<1>2. BaseKc \in Nat /\ RunoffFactor \in Nat
  BY BudgetAssumption
<1> QED
  BY <1>1, <1>2, NonNegativeIsNat, ProductIsNat DEF Demand, ReferenceEtc, EffectiveRain

LEMMA DivisionFacts ==
    \A a \in Nat, c \in Nat \ {0} :
       /\ (a \div c) * c <= a
       /\ a < (a \div c) * c + c
OBVIOUS

\* A rounded depth is a depth, at most half a hundredth away, and rounding keeps
\* depths in their order.
LEMMA RoundFacts ==
    ASSUME NEW v \in Nat
    PROVE  /\ round2(v) \in Nat
           /\ 2 * round2(v) <= 2 * v + Cent
           /\ 2 * v <= 2 * round2(v) + Cent
           /\ round2(0) = 0
<1> DEFINE a == 2 * v + Cent
           c == 2 * Cent
           q == a \div c
<1>1. Cent \in Nat \ {0} /\ a \in Nat /\ c \in Nat \ {0}
  BY BudgetAssumption
<1>2. q \in Nat /\ q * c <= a /\ a < q * c + c
  <2> HIDE DEF a, c
  <2> QED
    BY <1>1, DivisionIsNat, DivisionFacts
<1>3. round2(v) = q * Cent
  BY DEF round2
<1>4. Cent \div c = 0
  BY <1>1
<1>5. round2(0) = 0
  BY <1>1, <1>4 DEF round2
<1> HIDE DEF q
<1>6. q * c = 2 * (q * Cent) /\ q * Cent \in Nat
  BY <1>1, <1>2
<1> QED
  BY <1>1, <1>2, <1>3, <1>5, <1>6

LEMMA RoundIsMonotone ==
    ASSUME NEW v \in Nat, NEW w \in Nat, v <= w
    PROVE  round2(v) <= round2(w)
<1>1. /\ 2 * v + Cent \in Nat /\ 2 * w + Cent \in Nat /\ 2 * Cent \in Nat \ {0}
      /\ 2 * v + Cent <= 2 * w + Cent /\ Cent \in Nat
  BY BudgetAssumption
<1>2. (2 * v + Cent) \div (2 * Cent) <= (2 * w + Cent) \div (2 * Cent)
  BY <1>1, DivisionIsMonotone
<1> QED
  BY <1>1, <1>2, DivisionIsNat, ProductIsMonotone DEF round2

LEMMA RoundIsRead == ASSUME NEW v \in Nat PROVE v \in Readings(round2(v))
BY RoundFacts, BudgetAssumption DEF Readings

\* What one day computes: its scale is the one of its unmet demand, water left
\* in the bank means that the demand was met, and only a full bank runs off.
LEMMA OutcomeFacts ==
    ASSUME NEW before \in Nat, NEW in \in Inputs
    PROVE  LET o    == Outcome(before, in)
               lost == before + o.effectiveRain - (o.etc - o.unmetDemand) - o.rainBankAfter
               full == RainBankCapDays * o.referenceEtc
           IN  /\ o.etc \in Nat /\ o.effectiveRain \in Nat /\ o.unmetDemand \in Nat
               /\ o.rainBankAfter \in Nat /\ o.referenceEtc \in Nat
               /\ o.scale \in 0 .. MaxScale
               /\ o.scale = ScaleFor(o.unmetDemand, o.referenceEtc)
               /\ o.rainBankAfter <= full
               /\ o.rainBankAfter > 0 => o.scale = 0
               /\ o.unmetDemand <= o.etc
               /\ lost >= 0
               /\ o.unmetDemand > 0 => o.rainBankAfter = 0 /\ lost = 0
               /\ lost > 0 => o.rainBankAfter = full
<1> DEFINE etc       == Demand(in.eto, in.kc)
           reference == ReferenceEtc(in.referenceEto)
           rain      == EffectiveRain(in.precip)
           available == before + rain
           metByRain == Atmost(available, etc)
           unmet     == Atleast(etc - metByRain, 0)
           after     == BankAfter(available, metByRain, reference)
           full      == RainBankCapDays * reference
           o         == Outcome(before, in)
<1>1. etc \in Nat /\ reference \in Nat /\ rain \in Nat /\ full \in Nat
  BY DepthsAreNat, ProductIsNat, BudgetAssumption
<1>2. /\ o.etc = etc /\ o.effectiveRain = rain /\ o.referenceEtc = reference
      /\ o.unmetDemand = unmet /\ o.rainBankAfter = after
      /\ o.scale = ScaleFor(unmet, reference)
  BY DEF Outcome
<1> HIDE DEF etc, reference, rain, o
<1>3. available \in Nat /\ metByRain \in Nat /\ unmet \in Nat
  BY <1>1 DEF Atmost, Atleast
<1>4. after \in Nat /\ after <= full
  BY <1>1, <1>3, BankType
<1>5. /\ unmet = etc - metByRain
      /\ available - metByRain - after >= 0
      /\ unmet > 0 => after = 0 /\ available - metByRain - after = 0
      /\ available - metByRain - after > 0 => after = full
  BY <1>1 DEF Atmost, Atleast, BankAfter, clamp
<1>6. ScaleFor(unmet, reference) \in 0 .. MaxScale
  BY <1>1, <1>3, ScaleType
<1>7. unmet = 0 => ScaleFor(unmet, reference) = 0
  <2>1. reference > 0 => RoundedPercent(0, reference) = 0
    BY <1>1 DEF RoundedPercent
  <2> QED
    BY <1>1, <2>1, BudgetAssumption DEF ScaleFor, clamp, Atmost, Atleast
<1>8. available = before + rain
  OBVIOUS
<1> HIDE DEF available, metByRain, unmet, after, full
<1>9. etc - unmet = metByRain /\ unmet <= etc
  BY <1>1, <1>3, <1>5
<1>10. o.referenceEtc = reference /\ full = RainBankCapDays * reference
  BY <1>2 DEF full
<1> QED
  BY <1>1, <1>2, <1>3, <1>4, <1>5, <1>6, <1>7, <1>8, <1>9, <1>10 DEF o

\* What a decision on record says of its own water: the demand it met, from the
\* bank it started from and the day's rain, leaves no more than it banked.
Balanced(d) ==
    /\ d.unmetDemand <= d.etc
    /\ 2 * (d.rainBankAfter - d.rainBankBefore - d.effectiveRain
              + (d.etc - d.unmetDemand)) <= 5 * Cent

\* What it says of the bank it computed, before that was rounded.
Drained(d, bank) ==
    LET lost == RunsOff(d, bank)
        full == RainBankCapDays * d.referenceEtc
    IN  /\ d.unmetDemand <= d.etc
        /\ 2 * lost >= -(4 * Cent)
        /\ d.unmetDemand > 0 => bank = 0 /\ WithinHalves(lost, 4)
        /\ 2 * lost > 4 * Cent => WithinHalves(bank - full, RainBankCapDays)

\* A decision records what was computed: its fields are depths, and its scale and
\* its water are those of the depths it rounds.
LEMMA DecisionFacts ==
    ASSUME NEW before \in Nat, NEW in \in Inputs
    PROVE  LET d == Decision(before, in)
               o == Outcome(before, in)
           IN  /\ d \in Decisions
               /\ d.date = in.today
               /\ d.rainBankBefore = round2(before)
               /\ d.rainBankAfter = round2(o.rainBankAfter)
               /\ d.scale = o.scale
               /\ \E unmet \in Readings(d.unmetDemand), reference \in Readings(d.referenceEtc) :
                     o.scale = ScaleFor(unmet, reference)
               /\ 2 * o.rainBankAfter <= RainBankCapDays * (2 * d.referenceEtc + Cent)
               /\ Balanced(d)
               /\ Drained(d, o.rainBankAfter)
<1> DEFINE d == Decision(before, in)
           o == Outcome(before, in)
           etc == o.etc
           rain == o.effectiveRain
           unmet == o.unmetDemand
           after == o.rainBankAfter
           reference == o.referenceEtc
           lost == before + rain - (etc - unmet) - after
           full == RainBankCapDays * reference
<1>1. /\ etc \in Nat /\ rain \in Nat /\ unmet \in Nat /\ after \in Nat /\ reference \in Nat
      /\ o.scale \in 0 .. MaxScale
      /\ o.scale = ScaleFor(unmet, reference)
      /\ after <= full /\ unmet <= etc /\ lost >= 0
      /\ unmet > 0 => after = 0 /\ lost = 0
      /\ lost > 0 => after = full
  BY OutcomeFacts
<1>2. d = [date |-> in.today, scale |-> o.scale, etc |-> round2(etc),
           effectiveRain |-> round2(rain), unmetDemand |-> round2(unmet),
           rainBankBefore |-> round2(before), rainBankAfter |-> round2(after),
           referenceEtc |-> round2(reference), demandKc |-> in.kc]
  BY DEF Decision
<1> HIDE DEF o, d
<1>3. in.today \in Int /\ in.kc \in Nat
  BY DEF Inputs
<1>4. Cent \in Nat \ {0} /\ RainBankCapDays \in Nat \ {0}
  BY BudgetAssumption
<1>5. /\ round2(etc) \in Nat /\ 2 * round2(etc) <= 2 * etc + Cent /\ 2 * etc <= 2 * round2(etc) + Cent
      /\ round2(rain) \in Nat /\ 2 * round2(rain) <= 2 * rain + Cent /\ 2 * rain <= 2 * round2(rain) + Cent
      /\ round2(unmet) \in Nat /\ 2 * round2(unmet) <= 2 * unmet + Cent /\ 2 * unmet <= 2 * round2(unmet) + Cent
      /\ round2(before) \in Nat /\ 2 * round2(before) <= 2 * before + Cent /\ 2 * before <= 2 * round2(before) + Cent
      /\ round2(after) \in Nat /\ 2 * round2(after) <= 2 * after + Cent
      /\ round2(reference) \in Nat /\ 2 * round2(reference) <= 2 * reference + Cent
      /\ 2 * reference <= 2 * round2(reference) + Cent
      /\ round2(0) = 0
  <2> HIDE DEF etc, rain, unmet, after, reference
  <2> QED
    BY <1>1, RoundFacts
<1>6. d \in Decisions
  BY <1>1, <1>2, <1>3, <1>5 DEF Decisions
<1>7. round2(unmet) <= round2(etc)
  <2> HIDE DEF etc, unmet
  <2> QED
    BY <1>1, RoundIsMonotone
\* The cap of the recorded reference against the cap that was used.
<1>8. /\ 2 * full <= RainBankCapDays * (2 * round2(reference) + Cent)
      /\ -(RainBankCapDays * Cent) <= 2 * (full - RainBankCapDays * round2(reference))
      /\ 2 * (full - RainBankCapDays * round2(reference)) <= RainBankCapDays * Cent
  <2> DEFINE R == round2(reference)
  <2>1. R \in Nat /\ reference \in Nat
    BY <1>1, <1>5
  <2>2. 2 * reference <= 2 * R + Cent /\ 2 * R <= 2 * reference + Cent
    BY <1>5
  <2> HIDE DEF R, reference
  <2>3. /\ (2 * reference) * RainBankCapDays <= (2 * R + Cent) * RainBankCapDays
        /\ (2 * R) * RainBankCapDays <= (2 * reference + Cent) * RainBankCapDays
    BY <1>4, <2>1, <2>2, ProductIsMonotone
  <2>4. /\ (2 * reference) * RainBankCapDays = 2 * (RainBankCapDays * reference)
        /\ (2 * R + Cent) * RainBankCapDays = RainBankCapDays * (2 * R + Cent)
        /\ RainBankCapDays * (2 * R + Cent) = 2 * (RainBankCapDays * R) + RainBankCapDays * Cent
        /\ (2 * R) * RainBankCapDays = 2 * (RainBankCapDays * R)
        /\ (2 * reference + Cent) * RainBankCapDays
             = 2 * (RainBankCapDays * reference) + RainBankCapDays * Cent
    BY <1>4, <2>1
  <2>5. /\ RainBankCapDays * reference \in Nat /\ RainBankCapDays * R \in Nat
        /\ RainBankCapDays * Cent \in Nat
    BY <1>4, <2>1, ProductIsNat
  <2> QED
    BY <2>3, <2>4, <2>5 DEF R
<1>9. full \in Nat
  BY <1>1, <1>4, ProductIsNat
<1> HIDE DEF full, etc, rain, unmet, after, reference
<1>10. 2 * after <= RainBankCapDays * (2 * d.referenceEtc + Cent)
  <2>1. RainBankCapDays * (2 * round2(reference) + Cent) \in Nat
    BY <1>4, <1>5, ProductIsNat
  <2> QED
    BY <1>1, <1>2, <1>8, <1>9, <2>1
<1>11. Balanced(d)
  BY <1>1, <1>2, <1>4, <1>5, <1>7 DEF Balanced
<1>12. Drained(d, after)
  <2> DEFINE told == RunsOff(d, after)
             bank == after - RainBankCapDays * d.referenceEtc
  <2>1. told = round2(before) + round2(rain) - (round2(etc) - round2(unmet)) - after
    BY <1>2 DEF RunsOff
  <2>2. -(4 * Cent) <= 2 * told - 2 * lost /\ 2 * told - 2 * lost <= 4 * Cent /\ told \in Int
    BY <1>1, <1>4, <1>5, <2>1
  <2>3. lost \in Int
    BY <1>1
  <2>4. unmet = 0 => round2(unmet) = 0
    BY <1>5
  <2>5. after = full => WithinHalves(bank, RainBankCapDays)
    BY <1>2, <1>8 DEF WithinHalves
  <2>6. d.unmetDemand = round2(unmet) /\ d.etc = round2(etc)
    BY <1>2
  <2> HIDE DEF told, lost, bank
  <2>7. /\ 2 * told >= -(4 * Cent)
        /\ round2(unmet) > 0 => after = 0 /\ WithinHalves(told, 4)
        /\ 2 * told > 4 * Cent => after = full
    BY <1>1, <1>4, <1>5, <2>2, <2>3, <2>4 DEF WithinHalves, lost
  <2> QED
    BY <1>7, <2>5, <2>6, <2>7 DEF Drained, told, bank
<1>13. \E u \in Readings(d.unmetDemand), r \in Readings(d.referenceEtc) : o.scale = ScaleFor(u, r)
  <2>1. unmet \in Readings(d.unmetDemand) /\ reference \in Readings(d.referenceEtc)
    BY <1>1, <1>2, RoundIsRead
  <2> QED
    BY <1>1, <2>1
<1> QED
  BY <1>2, <1>6, <1>10, <1>11, <1>12, <1>13 DEF o, d, after

\* What a stored state says of itself: banked rain comes before watering and
\* stays under the cap of the decision that filled it ...
Banked(s) ==
    LET d == LastDecision(s)
    IN  /\ s.rainBank > 0 => s.lastScale = 0
        /\ 2 * s.rainBank <= RainBankCapDays * (2 * d.referenceEtc + Cent)

\* ... the history explains the bank and the scale, and accounts for its water ...
Explained(s) ==
    LET d == LastDecision(s)
    IN  /\ s.lastUpdated = d.date
        /\ d.rainBankAfter = round2(s.rainBank)
        /\ s.lastScale = d.scale
        /\ \E unmet \in Readings(d.unmetDemand), reference \in Readings(d.referenceEtc) :
              s.lastScale = ScaleFor(unmet, reference)
        /\ Drained(d, s.rainBank)
        /\ \A i \in 1 .. (Len(s.history) - 1) :
              s.history[i + 1].rainBankBefore \in {0, s.history[i].rainBankAfter}
        /\ \A i \in 1 .. Len(s.history) : Balanced(s.history[i])

\* ... and no date is decided twice.
Dated(s) ==
    \A i \in 1 .. (Len(s.history) - 1) : s.history[i].date < s.history[i + 1].date

\* LastOf keeps a suffix with the last element.
LEMMA LastOfFacts ==
    ASSUME NEW S, NEW s \in Seq(S) \ {<<>>}, NEW n \in Nat \ {0}
    PROVE  LET t == LastOf(s, n)
           IN  /\ t \in Seq(S) \ {<<>>}
               /\ \E k \in Nat : /\ Len(s) = k + Len(t)
                                /\ \A i \in 1 .. Len(t) : t[i] = s[k + i]
<1> DEFINE t == LastOf(s, n)
<1>1. Len(s) \in Nat /\ Len(s) >= 1
  OBVIOUS
<1>2. CASE Len(s) <= n
  <2>1. t = s
    BY <1>2 DEF LastOf
  <2>2. Len(s) = 0 + Len(t) /\ \A i \in 1 .. Len(t) : t[i] = s[0 + i]
    BY <1>1, <2>1
  <2> QED
    BY <2>1, <2>2
<1>3. CASE Len(s) > n
  <2> DEFINE k == Len(s) - n
  <2>1. t = SubSeq(s, k + 1, Len(s))
    BY <1>1, <1>3 DEF LastOf
  <2>2. k \in Nat /\ k + 1 <= Len(s)
    BY <1>1, <1>3
  <2>3. t \in Seq(S) /\ Len(t) = n /\ \A i \in 1 .. n : t[i] = s[k + i]
    BY <1>1, <2>1, <2>2
  <2>4. Len(s) = k + Len(t) /\ t # <<>>
    BY <1>1, <2>3
  <2> QED
    BY <2>2, <2>3, <2>4
<1> QED
  BY <1>1, <1>2, <1>3

\* A step that is not a same-day re-poll appends the decision of the day to the
\* history and takes its bank and scale.
LEMMA FreshStepFacts ==
    ASSUME NEW prev \in States \cup {NoState}, NEW in \in Inputs,
           ~(prev # NoState /\ prev.lastUpdated = in.today),
           prev # NoState => Banked(prev) /\ Explained(prev)
    PROVE  LET s == step(prev, in)
           IN  /\ s \in States
               /\ s.lastUpdated = in.today
               /\ LastDecision(s) = Decision(BankBefore(prev, in.gap), in)
               /\ BankBefore(prev, in.gap) \in Nat
               /\ Banked(s) /\ Explained(s)
               /\ (prev # NoState => Dated(prev) /\ prev.lastUpdated < in.today) => Dated(s)
<1> DEFINE bank == BankBefore(prev, in.gap)
           d    == Decision(bank, in)
           o    == Outcome(bank, in)
           past == IF prev = NoState THEN <<>> ELSE prev.history
           all  == Append(past, d)
           h    == LastOf(all, HISTORY_CAP)
           s    == step(prev, in)
<1>1. bank \in Nat /\ bank \in {0} \cup (IF prev = NoState THEN {} ELSE {prev.rainBank})
  <2>1. in.gap \in Int \cup {NaN}
    BY DEF Inputs
  <2>2. bank \in {0} \cup (IF prev = NoState THEN {} ELSE {prev.rainBank})
    BY <2>1, BankBeforeType
  <2>3. prev # NoState => prev.rainBank \in Nat
    BY DEF States
  <2> QED
    BY <2>2, <2>3
<1> HIDE DEF bank
<1>2. /\ d \in Decisions
      /\ d.date = in.today
      /\ d.rainBankBefore = round2(bank)
      /\ d.rainBankAfter = round2(o.rainBankAfter)
      /\ d.scale = o.scale
      /\ \E unmet \in Readings(d.unmetDemand), reference \in Readings(d.referenceEtc) :
            o.scale = ScaleFor(unmet, reference)
      /\ 2 * o.rainBankAfter <= RainBankCapDays * (2 * d.referenceEtc + Cent)
      /\ Balanced(d)
      /\ Drained(d, o.rainBankAfter)
  BY <1>1, DecisionFacts
<1>2b. o.rainBankAfter \in Nat /\ o.scale \in 0 .. MaxScale /\ (o.rainBankAfter > 0 => o.scale = 0)
  BY <1>1, OutcomeFacts
<1>3. s = [rainBank |-> o.rainBankAfter, lastUpdated |-> in.today,
           lastScale |-> o.scale, history |-> h]
  BY DEF step, Decided, bank
<1> HIDE DEF d, o, s
<1>4. past \in Seq(Decisions)
  BY DEF States
<1> HIDE DEF past
<1>5. /\ all \in Seq(Decisions) \ {<<>>}
      /\ Len(all) = Len(past) + 1 /\ all[Len(all)] = d
      /\ \A i \in 1 .. Len(past) : all[i] = past[i]
  BY <1>2, <1>4
<1> HIDE DEF all
<1>6. HISTORY_CAP \in Nat \ {0}
  BY BudgetAssumption
<1>7. /\ h \in Seq(Decisions) \ {<<>>}
      /\ \E k \in Nat : /\ Len(all) = k + Len(h)
                       /\ \A i \in 1 .. Len(h) : h[i] = all[k + i]
  <2>1. all \in Seq(Decisions) \ {<<>>}
    BY <1>5
  <2> QED
    BY <2>1, <1>6, LastOfFacts
<1> HIDE DEF h
<1>8. PICK k \in Nat : /\ Len(all) = k + Len(h)
                       /\ \A i \in 1 .. Len(h) : h[i] = all[k + i]
  BY <1>7
<1>9. Len(h) \in Nat /\ Len(h) >= 1 /\ Len(past) \in Nat /\ h[Len(h)] = d
  <2>1. Len(h) \in Nat /\ Len(h) >= 1 /\ Len(past) \in Nat
    BY <1>4, <1>7
  <2> QED
    BY <2>1, <1>5, <1>8
\* Neighbours in the new history are neighbours in the old one, or its last
\* decision and the new one.
<1>10. ASSUME NEW i \in 1 .. (Len(h) - 1)
       PROVE  /\ k + i # Len(past) => /\ k + i \in 1 .. (Len(past) - 1)
                                      /\ h[i] = past[k + i] /\ h[i + 1] = past[k + i + 1]
              /\ k + i = Len(past) => h[i] = past[Len(past)] /\ h[i + 1] = d
  <2>1. h[i] = all[k + i] /\ h[i + 1] = all[k + i + 1]
    <3>1. i \in 1 .. Len(h) /\ i + 1 \in 1 .. Len(h) /\ k + (i + 1) = k + i + 1
      BY <1>9
    <3> QED
      BY <3>1, <1>8
  <2>2. k + i \in 1 .. Len(past) /\ k + i + 1 \in 1 .. Len(all)
    BY <1>5, <1>8, <1>9
  <2>3. CASE k + i = Len(past)
    BY <1>5, <1>9, <2>1, <2>2, <2>3
  <2>4. CASE k + i # Len(past)
    <3>1. k + i \in 1 .. (Len(past) - 1) /\ k + i + 1 \in 1 .. Len(past)
      BY <1>9, <2>2, <2>4
    <3> QED
      BY <1>5, <2>1, <2>2, <2>4, <3>1
  <2> QED
    BY <2>3, <2>4
<1>11. past # <<>> => prev # NoState /\ past = prev.history
  BY DEF past
<1>12. s \in States /\ s.lastUpdated = in.today
  <2>1. in.today \in Int
    BY DEF Inputs
  <2> QED
    BY <1>2b, <1>3, <1>7, <2>1 DEF States
<1>13. Banked(s)
  BY <1>2, <1>2b, <1>3, <1>9 DEF Banked, LastDecision
<1>14. Explained(s)
  <2>1. ASSUME NEW i \in 1 .. (Len(h) - 1)
        PROVE  h[i + 1].rainBankBefore \in {0, h[i].rainBankAfter}
    <3>1. CASE k + i = Len(past)
      <4>1. prev # NoState /\ past = prev.history
        BY <1>8, <1>9, <1>11, <3>1
      <4>2. h[i] = past[Len(past)] /\ h[i + 1] = d
        BY <1>10, <3>1
      <4>3. round2(prev.rainBank) = h[i].rainBankAfter
        BY <4>1, <4>2 DEF Explained, LastDecision
      <4>4. round2(0) = 0
        BY RoundFacts
      <4> QED
        BY <1>1, <1>2, <4>1, <4>2, <4>3, <4>4
    <3>2. CASE k + i # Len(past)
      <4>1. k + i \in 1 .. (Len(past) - 1) /\ h[i] = past[k + i] /\ h[i + 1] = past[k + i + 1]
        BY <1>10, <3>2
      <4>2. prev # NoState /\ past = prev.history
        BY <1>9, <1>11, <4>1
      <4> QED
        BY <4>1, <4>2 DEF Explained, LastDecision
    <3> QED
      BY <3>1, <3>2
  <2>2. ASSUME NEW i \in 1 .. Len(h)
        PROVE  Balanced(h[i])
    <3>1. h[i] = all[k + i] /\ k + i \in 1 .. Len(past) + 1
      BY <1>5, <1>8, <1>9
    <3>2. CASE k + i = Len(past) + 1
      BY <1>2, <1>5, <3>1, <3>2
    <3>3. CASE k + i # Len(past) + 1
      <4>1. k + i \in 1 .. Len(past) /\ h[i] = past[k + i]
        BY <1>5, <1>9, <3>1, <3>3
      <4>2. prev # NoState /\ past = prev.history
        BY <1>9, <1>11, <4>1
      <4> QED
        BY <4>1, <4>2 DEF Explained
    <3> QED
      BY <3>2, <3>3
  <2> QED
    BY <1>2, <1>3, <1>9, <2>1, <2>2 DEF Explained, LastDecision
<1>15. ASSUME prev # NoState => Dated(prev) /\ prev.lastUpdated < in.today
       PROVE  Dated(s)
  <2>1. ASSUME NEW i \in 1 .. (Len(h) - 1)
        PROVE  h[i].date < h[i + 1].date
    <3>1. CASE k + i = Len(past)
      <4>1. prev # NoState /\ past = prev.history
        BY <1>8, <1>9, <1>11, <3>1
      <4>2. h[i] = past[Len(past)] /\ h[i + 1] = d
        BY <1>10, <3>1
      <4>3. prev.lastUpdated = h[i].date
        BY <4>1, <4>2 DEF Explained, LastDecision
      <4> QED
        BY <1>2, <1>15, <4>1, <4>2, <4>3
    <3>2. CASE k + i # Len(past)
      <4>1. k + i \in 1 .. (Len(past) - 1) /\ h[i] = past[k + i] /\ h[i + 1] = past[k + i + 1]
        BY <1>10, <3>2
      <4>2. prev # NoState /\ past = prev.history
        BY <1>9, <1>11, <4>1
      <4> QED
        BY <1>15, <4>1, <4>2 DEF Dated
    <3> QED
      BY <3>1, <3>2
  <2> QED
    BY <1>3, <2>1 DEF Dated
<1>16. LastDecision(s) = d /\ bank \in Nat
  BY <1>1, <1>3, <1>9 DEF LastDecision
<1> QED
  BY <1>12, <1>13, <1>14, <1>15, <1>16 DEF s, d, bank
-----------------------------------------------------------------------------
(* Two banks over the same days *)

LEMMA ScaleIsMonotone ==
    ASSUME NEW low \in Nat, NEW high \in Nat, NEW reference \in Nat, low <= high
    PROVE  ScaleFor(low, reference) <= ScaleFor(high, reference)
<1>1. CASE reference > 0
  <2>1. /\ 200 * low + reference \in Nat /\ 200 * high + reference \in Nat
        /\ 2 * reference \in Nat \ {0}
        /\ 200 * low + reference <= 200 * high + reference
    BY <1>1
  <2>2. /\ RoundedPercent(low, reference) \in Nat /\ RoundedPercent(high, reference) \in Nat
        /\ RoundedPercent(low, reference) <= RoundedPercent(high, reference)
    BY <2>1, DivisionIsNat, DivisionIsMonotone DEF RoundedPercent
  <2> QED
    BY <1>1, <2>2, BudgetAssumption DEF ScaleFor, clamp, Atmost, Atleast
<1>2. CASE ~(reference > 0)
  BY <1>2 DEF ScaleFor
<1> QED
  BY <1>1, <1>2

\* One decision: more water to start with leaves more in the bank and asks for
\* no higher scale, whatever the demand.
LEMMA OutcomeIsMonotone ==
    ASSUME NEW high \in Nat, NEW low \in Nat, low <= high,
           NEW more \in Inputs, NEW less \in Inputs,
           more = [less EXCEPT !.precip = more.precip],
           fin(less.precip) <= fin(more.precip)
    PROVE  /\ Outcome(low, less).rainBankAfter <= Outcome(high, more).rainBankAfter
           /\ Outcome(high, more).scale <= Outcome(low, less).scale
<1> DEFINE etc       == Demand(less.eto, less.kc)
           reference == ReferenceEtc(less.referenceEto)
           cap       == RainBankCapDays * reference
           wetter    == high + EffectiveRain(more.precip)
           drier     == low + EffectiveRain(less.precip)
           unmet(available) == Atleast(etc - Atmost(available, etc), 0)
           after(available) == BankAfter(available, Atmost(available, etc), reference)
<1>1. /\ Demand(more.eto, more.kc) = etc
      /\ ReferenceEtc(more.referenceEto) = reference
  BY DEF Inputs
<1>2. /\ Outcome(high, more).rainBankAfter = after(wetter)
      /\ Outcome(high, more).scale = ScaleFor(unmet(wetter), reference)
      /\ Outcome(low, less).rainBankAfter = after(drier)
      /\ Outcome(low, less).scale = ScaleFor(unmet(drier), reference)
  BY <1>1 DEF Outcome
<1>3. etc \in Nat /\ reference \in Nat /\ cap \in Nat
  BY DepthsAreNat, ProductIsNat, BudgetAssumption
<1>4. drier \in Nat /\ wetter \in Nat /\ drier <= wetter
  <2>1. /\ NonNegative(less.precip) \in Nat /\ NonNegative(more.precip) \in Nat
        /\ NonNegative(less.precip) <= NonNegative(more.precip)
    <3>1. less.precip \in Int \cup {NaN} /\ more.precip \in Int \cup {NaN}
      BY DEF Inputs
    <3> QED
      BY <3>1, NonNegativeIsNat, BudgetAssumption DEF NonNegative, Atleast, fin
  <2>2. RunoffFactor \in Nat
    BY BudgetAssumption
  <2>3. EffectiveRain(less.precip) <= EffectiveRain(more.precip)
    BY <2>1, <2>2, ProductIsMonotone DEF EffectiveRain
  <2> QED
    BY <2>3, DepthsAreNat
<1> HIDE DEF etc, reference, wetter, drier
<1>5. unmet(wetter) \in Nat /\ unmet(drier) \in Nat /\ unmet(wetter) <= unmet(drier)
  BY <1>3, <1>4 DEF Atmost, Atleast
<1>6. after(drier) <= after(wetter)
  BY <1>3, <1>4 DEF BankAfter, clamp, Atmost, Atleast
<1>7. ScaleFor(unmet(wetter), reference) <= ScaleFor(unmet(drier), reference)
  BY <1>3, <1>5, ScaleIsMonotone
<1> QED
  BY <1>2, <1>6, <1>7
-----------------------------------------------------------------------------
\* The two banks are polled on the same dates, and hold sound states.
SeasonInv ==
    /\ SeasonTypeOK
    /\ wet = NoState <=> dry = NoState
    /\ wet # NoState =>
         /\ wet.lastUpdated = dry.lastUpdated
         /\ Banked(wet) /\ Explained(wet)
         /\ Banked(dry) /\ Explained(dry)
         /\ dry.rainBank <= wet.rainBank
         /\ wet.lastScale <= dry.lastScale

LEMMA SeasonStarts == SeasonInit => SeasonInv
BY DEF SeasonInit, SeasonInv, SeasonTypeOK

LEMMA SeasonStep == SeasonInv /\ [SeasonNext]_seasonVars => SeasonInv'
<1> SUFFICES ASSUME SeasonInv, [SeasonNext]_seasonVars PROVE SeasonInv'
  OBVIOUS
<1>1. CASE UNCHANGED seasonVars
  BY <1>1 DEF seasonVars, SeasonInv, SeasonTypeOK
<1>2. CASE SeasonNext
  <2>1. PICK eto \in SeasonEtos, more \in SeasonRains, less \in SeasonRains,
             reference \in SeasonReferences, kc \in SeasonCoefficients, gap \in SeasonGaps :
             Poll(eto, more, less, reference, kc, gap)
    BY <1>2 DEF SeasonNext
  <2> DEFINE today == IF wet = NoState THEN 1 ELSE wet.lastUpdated + gap
             input(rain) == [today |-> today, eto |-> eto, precip |-> rain,
                             referenceEto |-> reference, gap |-> gap, kc |-> kc]
             high == BankBefore(wet, gap)
             low  == BankBefore(dry, gap)
  <2>2. fin(less) <= fin(more) /\ wet' = step(wet, input(more)) /\ dry' = step(dry, input(less))
    BY <2>1 DEF Poll
  <2>3. wet \in States \cup {NoState} /\ dry \in States \cup {NoState}
    BY DEF SeasonInv, SeasonTypeOK
  <2>4. gap \in Nat \ {0} /\ today \in Int
    BY <2>3, SeasonAssumption DEF States
  <2>5. input(more) \in Inputs /\ input(less) \in Inputs
    BY <2>4, SeasonAssumption DEF Inputs
  <2>6. ~(wet # NoState /\ wet.lastUpdated = today) /\ ~(dry # NoState /\ dry.lastUpdated = today)
    BY <2>3, <2>4 DEF SeasonInv, States
  <2>7. /\ wet' \in States /\ wet'.lastUpdated = today /\ Banked(wet') /\ Explained(wet')
        /\ dry' \in States /\ dry'.lastUpdated = today /\ Banked(dry') /\ Explained(dry')
    <3>1. input(more).today = today /\ input(less).today = today
      OBVIOUS
    <3>2. /\ wet # NoState => Banked(wet) /\ Explained(wet)
          /\ dry # NoState => Banked(dry) /\ Explained(dry)
      BY DEF SeasonInv
    <3>3. /\ step(wet, input(more)) \in States
          /\ step(wet, input(more)).lastUpdated = today
          /\ Banked(step(wet, input(more))) /\ Explained(step(wet, input(more)))
      <4> HIDE DEF today, input
      <4> QED
        BY <2>3, <2>5, <2>6, <3>1, <3>2, FreshStepFacts
    <3>4. /\ step(dry, input(less)) \in States
          /\ step(dry, input(less)).lastUpdated = today
          /\ Banked(step(dry, input(less))) /\ Explained(step(dry, input(less)))
      <4> HIDE DEF today, input
      <4> QED
        BY <2>3, <2>5, <2>6, <3>1, <3>2, FreshStepFacts
    <3> QED
      BY <2>2, <3>3, <3>4
  <2>8. high \in Nat /\ low \in Nat /\ low <= high
    BY <2>3, <2>4, BudgetAssumption DEF SeasonInv, BankBefore, fin, States
  <2>9. /\ wet'.rainBank = Outcome(high, input(more)).rainBankAfter
        /\ wet'.lastScale = Outcome(high, input(more)).scale
        /\ dry'.rainBank = Outcome(low, input(less)).rainBankAfter
        /\ dry'.lastScale = Outcome(low, input(less)).scale
    BY <2>2, <2>6 DEF step, Decided
  <2>10. /\ dry'.rainBank <= wet'.rainBank
         /\ wet'.lastScale <= dry'.lastScale
    <3>1. /\ input(more) = [input(less) EXCEPT !.precip = input(more).precip]
          /\ fin(input(less).precip) <= fin(input(more).precip)
      BY <2>2
    <3> HIDE DEF input, high, low
    <3> QED
      BY <2>5, <2>8, <2>9, <3>1, OutcomeIsMonotone
  <2> QED
    BY <2>7, <2>10, AbsentAssumption DEF SeasonInv, SeasonTypeOK
<1> QED
  BY <1>1, <1>2

LEMMA SeasonInvariant == SeasonSpec => []SeasonInv
BY SeasonStarts, SeasonStep, PTL DEF SeasonSpec

\* Whatever fields the weather lacks and whatever their signs, no stored state
\* ever holds a negative depth or a scale outside its range
\* (SoilMoistureModel.ts:66-68, 101-126).
THEOREM SeasonTypeCorrect == SeasonSpec => []SeasonTypeOK
<1>1. SeasonInv => SeasonTypeOK
  BY DEF SeasonInv
<1> QED
  BY SeasonInvariant, <1>1, PTL

\* More rain never leads to more watering, on the day it falls or on any later
\* day, whatever the demand, the baseline and the gaps between polls: banked
\* rain is carried, capped and dropped alike (SoilMoistureModel.ts:111-126).
THEOREM MoreRainIsSafe == SeasonSpec => []MoreRainNeverWatersMore
<1>1. SeasonInv => MoreRainNeverWatersMore
  BY DEF SeasonInv, SeasonTypeOK, States, MoreRainNeverWatersMore
<1> QED
  BY SeasonInvariant, <1>1, PTL

\* A decision neither invents nor loses water, as far as its rounded record
\* tells: demand is met while there is water, the rest is banked while there is
\* room, and only a full bank runs off (SoilMoistureModel.ts:119-123, 133-140).
THEOREM WaterIsBalanced == SeasonSpec => []WaterBalance
<1>1. SeasonInv => WaterBalance
  <2> SUFFICES ASSUME SeasonInv, NEW s \in {wet, dry} \ {NoState}
               PROVE  Drained(LastDecision(s), s.rainBank)
    BY DEF WaterBalance, Drained
  <2> QED
    BY DEF SeasonInv, Explained
<1> QED
  BY SeasonInvariant, <1>1, PTL
=============================================================================
