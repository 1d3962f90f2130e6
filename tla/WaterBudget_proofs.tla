------------------------- MODULE WaterBudget_proofs -------------------------
(***************************************************************************)
(* Proofs about WaterBudget, for any number of locations and of requests in *)
(* flight, any providers and any length of time.                            *)
(***************************************************************************)
EXTENDS WaterBudget, SoilMoistureModel_proofs

Sound(s) == s = NoState \/ (Banked(s) /\ Explained(s))

\* A request that waits for the baseline holds a sound state of another date,
\* or none, and a request in flight has not answered.
RequestInv ==
    \A r \in Requests :
        /\ pc[r] # "idle" => answer[r] = None
        /\ pc[r] = "baseline" => Sound(job[r].prev) /\ ~DecidedOn(job[r].prev, job[r].today)

BudgetInv ==
    /\ TypeOK
    /\ \A l \in Locations : Sound(mem[l]) /\ Sound(disk[l])
    /\ RequestInv

LEMMA DayIsInRange ==
    \A c \in 0 .. (TicksPerDay * (MaxDay + 1) - 1) : c \div TicksPerDay \in Days
<1> SUFFICES ASSUME NEW c \in 0 .. (TicksPerDay * (MaxDay + 1) - 1)
             PROVE  c \div TicksPerDay \in Days
  OBVIOUS
<1>1. TicksPerDay \in Nat \ {0} /\ MaxDay \in Nat
  BY RequestAssumption
<1>2. TicksPerDay * (MaxDay + 1) \in Nat
  BY <1>1
<1>3. c \in Nat /\ c < TicksPerDay * (MaxDay + 1)
  BY <1>2
<1>4. c \div TicksPerDay \in Nat /\ TicksPerDay * (c \div TicksPerDay) <= c
  BY <1>1, <1>3
<1>5. c \div TicksPerDay < MaxDay + 1
  BY <1>1, <1>3, <1>4
<1> QED
  BY <1>1, <1>4, <1>5 DEF Days

\* A window starts on a date, within its provider's range of the day's.
LEMMA WindowFacts ==
    ASSUME NEW day \in Int, NEW w \in Windows(day), NEW p \in Providers
    PROVE  /\ LeastLag[p] \in Nat /\ MostLag[p] \in Nat
           /\ w[p] \in Int
           /\ day - MostLag[p] <= w[p] /\ w[p] <= day - LeastLag[p]
<1>1. LeastLag[p] \in Nat /\ MostLag[p] \in Nat
  BY RequestAssumption
<1>2. w[p] \in (day - MostLag[p]) .. (day - LeastLag[p])
  BY DEF Windows
<1> QED
  BY <1>1, <1>2

LEMMA EmptyStore == Store!Empty \in Store!Snapshots /\ \A l \in Locations : Sound(Store!Empty[l])
BY DEF Store!Empty, Store!Snapshots, Sound

LEMMA BudgetInit == Init => BudgetInv
<1> SUFFICES ASSUME Init PROVE BudgetInv
  OBVIOUS
<1>1. TicksPerDay * (MaxDay + 1) \in Nat \ {0}
  BY RequestAssumption
<1>2. TypeOK
  <2>1. clock \in 0 .. (TicksPerDay * (MaxDay + 1) - 1)
    BY <1>1 DEF Init
  <2>4. window \in Windows(Day)
    <3>1. Day = 0
      BY RequestAssumption DEF Init, Day
    <3> QED
      BY <3>1 DEF Init
  <2>2. Store!SnapshotTypeOK
    BY EmptyStore DEF Init, Store!SnapshotInit, Store!SnapshotTypeOK
  <2>3. /\ pc \in [Requests -> {"idle", "weather", "baseline"}]
        /\ job \in [Requests -> Jobs \cup {None}]
        /\ \A r \in Requests : job[r] = None <=> pc[r] = "idle"
        /\ answer \in [Requests -> Answers \cup {None}]
        /\ charged \in [Locations -> [Days -> Nat]]
    BY DEF Init
  <2> QED
    BY <2>1, <2>2, <2>3, <2>4 DEF TypeOK
<1> QED
  BY <1>2, EmptyStore DEF Init, BudgetInv, RequestInv, Store!SnapshotInit

LEMMA ClampedIsNat ==
    ASSUME NEW scale \in Nat, NEW mx \in Ceilings \cup {None}
    PROVE  clampDown(scale, mx) \in Nat
BY RequestAssumption DEF clampDown, Atmost

\* What a request in flight holds.
LEMMA JobFacts ==
    ASSUME TypeOK, NEW r \in Requests, pc[r] # "idle"
    PROVE  /\ job[r] \in Jobs
           /\ job[r].loc \in Locations /\ job[r].mx \in Ceilings \cup {None}
           /\ job[r].kc \in OverrideKcs \cup {None}
           /\ job[r].begun \in Days /\ job[r].today \in Int
           /\ job[r].eto \in Int \cup {NaN} /\ job[r].precip \in Int \cup {NaN}
           /\ job[r].prev \in States \cup {NoState}
<1>1. job[r] \in Jobs
  BY DEF TypeOK
<1> QED
  BY <1>1 DEF Jobs

LEMMA StoredFacts ==
    ASSUME TypeOK, NEW l \in Locations
    PROVE  mem[l] \in States \cup {NoState} /\ disk[l] \in States \cup {NoState}
BY DEF TypeOK, Store!SnapshotTypeOK, Store!Snapshots

\* The model steps from a sound state of another date to a sound state of the
\* request's date.
LEMMA AdvanceFacts ==
    ASSUME BudgetInv, NEW r \in Requests, pc[r] = "baseline",
           NEW referenceEto \in Baselines \cup {DefaultRefEto}, NEW seasonKc \in SeasonKcs,
           NEW gap \in Gaps(job[r].prev, job[r].today)
    PROVE  LET in == InputOf(job[r], referenceEto, seasonKc, gap)
               s  == step(job[r].prev, in)
           IN  /\ s \in States /\ s # NoState
               /\ s.lastUpdated = job[r].today
               /\ Banked(s) /\ Explained(s)
               /\ job[r].kc # None => LastDecision(s).demandKc = job[r].kc
               /\ (job[r].prev # NoState =>
                     Dated(job[r].prev) /\ job[r].prev.lastUpdated < job[r].today)
                  => Dated(s)
<1> DEFINE prev == job[r].prev
           in   == InputOf(job[r], referenceEto, seasonKc, gap)
           s    == step(prev, in)
<1>1. /\ job[r].kc \in OverrideKcs \cup {None} /\ job[r].today \in Int
      /\ job[r].eto \in Int \cup {NaN} /\ job[r].precip \in Int \cup {NaN}
      /\ prev \in States \cup {NoState}
  BY JobFacts DEF BudgetInv
<1>2. gap \in Int \cup {NaN}
  <2>1. prev # NoState => prev.lastUpdated \in Int
    BY <1>1 DEF States
  <2> QED
    BY <1>1, <2>1 DEF Gaps
<1>3. in \in Inputs /\ in.today = job[r].today /\ (job[r].kc # None => in.kc = job[r].kc)
  <2>1. referenceEto \in Int
    BY RequestAssumption
  <2>2. (IF job[r].kc # None THEN job[r].kc ELSE seasonKc) \in Nat
    BY <1>1, RequestAssumption
  <2> QED
    BY <1>1, <1>2, <2>1, <2>2 DEF InputOf, Inputs
<1>4. ~(prev # NoState /\ prev.lastUpdated = in.today)
      /\ (prev # NoState => Banked(prev) /\ Explained(prev))
  BY <1>3 DEF BudgetInv, RequestInv, Sound, DecidedOn
<1> HIDE DEF in, prev
<1>5. /\ s \in States
      /\ s.lastUpdated = in.today
      /\ LastDecision(s) = Decision(BankBefore(prev, in.gap), in)
      /\ Banked(s) /\ Explained(s)
      /\ (prev # NoState => Dated(prev) /\ prev.lastUpdated < in.today) => Dated(s)
  BY <1>1, <1>3, <1>4, FreshStepFacts
<1>6. LastDecision(s).demandKc = in.kc
  BY <1>5 DEF Decision
<1> QED
  BY <1>3, <1>5, <1>6, AbsentAssumption DEF in, prev

-----------------------------------------------------------------------------
\* A request that answers: its entry is free again.
LEMMA RespondFacts ==
    ASSUME BudgetInv, NEW r \in Requests, NEW a \in Answers, Respond(r, a)
    PROVE  /\ pc' \in [Requests -> {"idle", "weather", "baseline"}]
           /\ job' \in [Requests -> Jobs \cup {None}]
           /\ \A q \in Requests : job'[q] = None <=> pc'[q] = "idle"
           /\ answer' \in [Requests -> Answers \cup {None}]
           /\ RequestInv'
<1>1. /\ pc' = [pc EXCEPT ![r] = "idle"]
      /\ job' = [job EXCEPT ![r] = None]
      /\ answer' = [answer EXCEPT ![r] = a]
  BY DEF Respond
<1>2. /\ pc \in [Requests -> {"idle", "weather", "baseline"}]
      /\ job \in [Requests -> Jobs \cup {None}]
      /\ \A q \in Requests : job[q] = None <=> pc[q] = "idle"
      /\ answer \in [Requests -> Answers \cup {None}]
  BY DEF BudgetInv, TypeOK
<1>3. RequestInv'
  BY <1>1, <1>2 DEF BudgetInv, RequestInv
<1> QED
  BY <1>1, <1>2, <1>3

LEMMA AnswerType ==
    ASSUME NEW s \in States, NEW mx \in Ceilings \cup {None}, NEW kc \in OverrideKcs \cup {None}
    PROVE  /\ Held(s, mx) \in Answers /\ Held(NoState, mx) \in Answers
           /\ Cached(s, kc, mx) \in Answers
           /\ Advanced(s, mx) \in Answers
<1>1. s.lastScale \in Nat
  BY BudgetAssumption DEF States
<1>2. clampDown(s.lastScale, mx) \in Nat
  BY <1>1, ClampedIsNat
<1> QED
  BY <1>2 DEF Held, Cached, Advanced, Answers

LEMMA HeldType ==
    ASSUME NEW s \in States \cup {NoState}, NEW mx \in Ceilings \cup {None}
    PROVE  Held(s, mx) \in Answers
<1>1. CASE s = NoState
  BY <1>1 DEF Held, Answers
<1>2. CASE s \in States
  BY <1>2, AnswerType
<1> QED
  BY <1>1, <1>2

\* Every action keeps the invariant.
LEMMA BeginKeeps ==
    ASSUME BudgetInv, NEW r \in Requests, NEW l \in Locations, NEW p \in Providers,
           NEW kc \in OverrideKcs \cup {None}, NEW mx \in Ceilings \cup {None},
           Begin(r, l, p, kc, mx)
    PROVE  BudgetInv'
<1> DEFINE j == [loc |-> l, kc |-> kc, mx |-> mx, begun |-> Day, today |-> WindowDate(p),
                 eto |-> NaN, precip |-> NaN, prev |-> NoState]
<1>1. j \in Jobs /\ j # None
  <2>1. clock \in Int /\ Day \in Days
    BY DayIsInRange DEF BudgetInv, TypeOK, Day
  <2>2. Day \in Int /\ window[p] \in Int
    BY <2>1, WindowFacts DEF BudgetInv, TypeOK, Days
  <2>3. WindowDate(p) \in Int
    BY <2>1, <2>2 DEF WindowDate, FarDate, FarFuture
  <2>4. j \in Jobs
    BY <2>1, <2>3 DEF Jobs
  <2> QED
    BY <2>4, NoneAssumption
<1> HIDE DEF j
<1>2. /\ pc' = [pc EXCEPT ![r] = "weather"] /\ job' = [job EXCEPT ![r] = j]
      /\ answer' = [answer EXCEPT ![r] = None]
      /\ UNCHANGED <<clock, window, up, mem, disk, charged>>
  BY DEF Begin, j, storeVars
<1>3. TypeOK'
  BY <1>1, <1>2 DEF BudgetInv, TypeOK, Store!SnapshotTypeOK, Day
<1>4. RequestInv'
  BY <1>2 DEF BudgetInv, TypeOK, RequestInv
<1> QED
  BY <1>2, <1>3, <1>4 DEF BudgetInv

LEMMA WeatherFailsKeeps ==
    ASSUME BudgetInv, NEW r \in Requests, WeatherFails(r)
    PROVE  BudgetInv'
<1>1. TypeOK /\ pc[r] # "idle"
  BY DEF BudgetInv, WeatherFails
<1>2. Held(mem[job[r].loc], job[r].mx) \in Answers
  BY <1>1, JobFacts, StoredFacts, HeldType
<1>3. Respond(r, Held(mem[job[r].loc], job[r].mx)) /\ UNCHANGED <<clock, window, up, mem, disk, charged>>
  BY DEF WeatherFails, storeVars
<1>4. TypeOK' /\ RequestInv'
  BY <1>2, <1>3, RespondFacts DEF BudgetInv, TypeOK, Store!SnapshotTypeOK, Day
<1> QED
  BY <1>3, <1>4 DEF BudgetInv

LEMMA WeatherArrivesKeeps ==
    ASSUME BudgetInv, NEW r \in Requests, NEW eto \in Etos, NEW precip \in Precips,
           WeatherArrives(r, eto, precip)
    PROVE  BudgetInv'
<1> DEFINE prev == mem[job[r].loc]
<1>1. TypeOK /\ pc[r] = "weather" /\ UNCHANGED <<clock, window, up, mem, disk, charged>>
  BY DEF BudgetInv, WeatherArrives, storeVars
<1>2. /\ job[r] \in Jobs /\ job[r].loc \in Locations /\ job[r].mx \in Ceilings \cup {None}
      /\ job[r].kc \in OverrideKcs \cup {None} /\ prev \in States \cup {NoState}
  BY <1>1, JobFacts, StoredFacts
<1>3. ASSUME NEW a \in Answers, Respond(r, a)
      PROVE  BudgetInv'
  <2>1. TypeOK' /\ RequestInv'
    BY <1>1, <1>3, RespondFacts DEF TypeOK, Store!SnapshotTypeOK, Day
  <2> QED
    BY <1>1, <2>1 DEF BudgetInv
<1>4. CASE Respond(r, Held(prev, job[r].mx))
  BY <1>2, <1>3, <1>4, HeldType
<1>5. CASE DecidedOn(prev, job[r].today) /\ Respond(r, Cached(prev, job[r].kc, job[r].mx))
  BY <1>2, <1>3, <1>5, AnswerType DEF DecidedOn
<1>6. CASE /\ ~DecidedOn(prev, job[r].today)
           /\ pc' = [pc EXCEPT ![r] = "baseline"]
           /\ job' = [job EXCEPT ![r].eto = eto, ![r].precip = precip, ![r].prev = prev]
           /\ UNCHANGED answer
  <2> DEFINE j == [job[r] EXCEPT !.eto = eto, !.precip = precip, !.prev = prev]
  <2>1. job' = [job EXCEPT ![r] = j]
    BY <1>1, <1>2, <1>6 DEF TypeOK
  <2>2. j \in Jobs /\ j.prev = prev /\ j.today = job[r].today
    <3>1. eto \in Int \cup {NaN} /\ precip \in Int \cup {NaN}
      BY RequestAssumption
    <3> QED
      BY <1>2, <3>1 DEF Jobs
  <2>3. j # None
    BY <2>2, NoneAssumption
  <2> HIDE DEF j
  <2>4. TypeOK'
    <3>1. /\ pc \in [Requests -> {"idle", "weather", "baseline"}]
          /\ job \in [Requests -> Jobs \cup {None}]
          /\ \A q \in Requests : job[q] = None <=> pc[q] = "idle"
      BY <1>1 DEF TypeOK
    <3>2. pc' \in [Requests -> {"idle", "weather", "baseline"}]
      BY <1>6, <3>1
    <3>3. job' \in [Requests -> Jobs \cup {None}]
      BY <2>1, <2>2, <3>1
    <3>4. \A q \in Requests : job'[q] = None <=> pc'[q] = "idle"
      BY <1>6, <2>1, <2>3, <3>1
    <3> QED
      BY <1>1, <1>6, <3>2, <3>3, <3>4 DEF TypeOK, Store!SnapshotTypeOK, Day
  <2>5. Sound(prev)
    BY <1>2 DEF BudgetInv
  <2>6. RequestInv'
    BY <1>1, <1>6, <2>1, <2>2, <2>5 DEF BudgetInv, TypeOK, RequestInv
  <2> QED
    BY <1>1, <2>4, <2>6 DEF BudgetInv
<1> QED
  BY <1>4, <1>5, <1>6 DEF WeatherArrives

\* The steps on record after one for a window fixed on the day j.begun.
Charge(j) ==
    [charged EXCEPT ![j.loc] = [d \in Days |-> IF d >= j.begun THEN @[d] + 1 ELSE @[d]]]

LEMMA AdvanceKeeps ==
    ASSUME BudgetInv, NEW r \in Requests, NEW referenceEto \in Baselines \cup {DefaultRefEto},
           NEW seasonKc \in SeasonKcs, Advance(r, referenceEto, seasonKc)
    PROVE  BudgetInv'
<1> DEFINE j == job[r]
<1>1. TypeOK /\ pc[r] = "baseline" /\ UNCHANGED <<clock, window>>
  BY DEF BudgetInv, Advance
<1>2. j.loc \in Locations /\ j.mx \in Ceilings \cup {None} /\ j.begun \in Days
  BY <1>1, JobFacts
<1>3. PICK gap \in Gaps(j.prev, j.today) :
        LET s == step(j.prev, InputOf(j, referenceEto, seasonKc, gap))
        IN  /\ Store!Put(j.loc, s)
            /\ Respond(r, Advanced(s, j.mx))
            /\ charged' = Charge(j)
  BY DEF Advance, Charge
<1> DEFINE s == step(j.prev, InputOf(j, referenceEto, seasonKc, gap))
<1>4. s \in States /\ Sound(s)
  BY <1>1, AdvanceFacts DEF Sound
<1> HIDE DEF s
<1>5. /\ UNCHANGED up /\ mem' = [mem EXCEPT ![j.loc] = s] /\ disk' \in {disk, mem'}
      /\ Respond(r, Advanced(s, j.mx))
      /\ charged' = Charge(j)
  BY <1>3 DEF s, Store!Put
<1> HIDE DEF j
<1>6. Store!SnapshotTypeOK' /\ \A l \in Locations : Sound(mem'[l]) /\ Sound(disk'[l])
  <2>1. up \in BOOLEAN /\ mem \in Store!Snapshots /\ disk \in Store!Snapshots
    BY <1>1 DEF TypeOK, Store!SnapshotTypeOK
  <2>2. mem' \in Store!Snapshots
    BY <1>4, <1>5, <2>1 DEF Store!Snapshots
  <2>3. \A l \in Locations : mem'[l] = mem[l] \/ mem'[l] = s
    BY <1>5, <2>1 DEF Store!Snapshots
  <2>4. \A l \in Locations : Sound(mem'[l]) /\ Sound(disk'[l])
    <3>1. \A l \in Locations : Sound(mem[l]) /\ Sound(disk[l])
      BY DEF BudgetInv
    <3>2. \A l \in Locations : Sound(mem'[l])
      BY <1>4, <2>3, <3>1
    <3> QED
      BY <1>5, <3>1, <3>2
  <2> QED
    BY <1>5, <2>1, <2>2, <2>4 DEF Store!SnapshotTypeOK
<1>7. charged' \in [Locations -> [Days -> Nat]]
  <2> DEFINE counted == [d \in Days |-> IF d >= j.begun THEN charged[j.loc][d] + 1
                                        ELSE charged[j.loc][d]]
  <2>1. charged \in [Locations -> [Days -> Nat]]
    BY <1>1 DEF TypeOK
  <2>2. counted \in [Days -> Nat]
    BY <1>2, <2>1
  <2>3. charged' = [charged EXCEPT ![j.loc] = counted]
    BY <1>5 DEF Charge
  <2> HIDE DEF counted
  <2> QED
    BY <2>1, <2>2, <2>3
<1>8. TypeOK' /\ RequestInv'
  BY <1>1, <1>2, <1>4, <1>5, <1>6, <1>7, AnswerType, RespondFacts, NoneAssumption DEF TypeOK, Day
<1> QED
  BY <1>6, <1>8 DEF BudgetInv

LEMMA BootKeeps == BudgetInv /\ Boot => BudgetInv'
BY EmptyStore DEF Boot, BudgetInv, RequestInv, TypeOK, Store!Start, Store!SnapshotTypeOK, Day

LEMMA TickKeeps == BudgetInv /\ Tick => BudgetInv'
<1> SUFFICES ASSUME BudgetInv, Tick PROVE BudgetInv'
  OBVIOUS
<1>1. TicksPerDay * (MaxDay + 1) \in Nat \ {0}
  BY RequestAssumption
<1>2. clock' \in 0 .. (TicksPerDay * (MaxDay + 1) - 1)
  BY <1>1 DEF Tick, BudgetInv, TypeOK
<1>3. TypeOK'
  BY <1>2 DEF Tick, storeVars, BudgetInv, TypeOK, Store!SnapshotTypeOK
<1> QED
  BY <1>3 DEF Tick, storeVars, BudgetInv, RequestInv

LEMMA CrashKeeps == BudgetInv /\ Crash => BudgetInv'
<1> SUFFICES ASSUME BudgetInv, Crash PROVE BudgetInv'
  OBVIOUS
<1>1. /\ pc' \in [Requests -> {"idle", "weather", "baseline"}]
      /\ job' \in [Requests -> Jobs \cup {None}]
      /\ \A r \in Requests : job'[r] = None <=> pc'[r] = "idle"
      /\ answer' \in [Requests -> Answers \cup {None}]
      /\ charged' \in [Locations -> [Days -> Nat]]
  BY DEF Crash
<1>2. Store!SnapshotTypeOK' /\ \A l \in Locations : Sound(mem'[l]) /\ Sound(disk'[l])
  BY EmptyStore DEF Crash, Store!Stop, BudgetInv, TypeOK, Store!SnapshotTypeOK
<1>3. TypeOK'
  BY <1>1, <1>2 DEF Crash, BudgetInv, TypeOK, Day
<1>4. RequestInv'
  BY DEF Crash, RequestInv
<1> QED
  BY <1>2, <1>3, <1>4 DEF BudgetInv

LEMMA BudgetStep == BudgetInv /\ [Next]_budgetVars => BudgetInv'
<1> SUFFICES ASSUME BudgetInv, [Next]_budgetVars PROVE BudgetInv'
  OBVIOUS
<1>1. CASE UNCHANGED budgetVars
  BY <1>1 DEF budgetVars, BudgetInv, RequestInv, TypeOK, Store!SnapshotTypeOK, Day
<1> QED
  BY <1>1, BeginKeeps, WeatherFailsKeeps, WeatherArrivesKeeps, AdvanceKeeps, TickKeeps,
     BootKeeps, CrashKeeps DEF Next

LEMMA BudgetInvariant == Spec => []BudgetInv
BY BudgetInit, BudgetStep, PTL DEF Spec

\* Whatever overlaps, fails or restarts, what is stored and what a request in
\* flight holds are well-formed states with depths that are not negative.
THEOREM BudgetTypeCorrect == Spec => []TypeOK
<1>1. BudgetInv => TypeOK
  BY DEF BudgetInv
<1> QED
  BY BudgetInvariant, <1>1, PTL

\* A location with rain in the bank is not watered, and its bank is within the
\* cap, in memory and on disk, however many requests overlap
\* (SoilMoistureModel.ts:119-126).
THEOREM BankFirst == Spec => []BankedRainComesFirst
<1>1. BudgetInv => BankedRainComesFirst
  BY DEF BudgetInv, BankedRainComesFirst, Stored, Sound, Banked
<1> QED
  BY BudgetInvariant, <1>1, PTL

\* The stored history explains the stored bank and scale: overlapping requests
\* may lose each other's decision but never mix two
\* (WaterBudgetAdjustmentMethod.ts:160-228, SoilMoistureModel.ts:133-146).
THEOREM HistoryIsSound == Spec => []HistoryExplainsBank
<1>1. BudgetInv => HistoryExplainsBank
  BY DEF BudgetInv, HistoryExplainsBank, Stored, Sound, Explained
<1> QED
  BY BudgetInvariant, <1>1, PTL

LEMMA LeavesNoMore ==
    ASSUME NEW d \in Decisions, NEW left \in Int,
           \/ left <= d.rainBankAfter /\ Balanced(d)
           \/ 2 * RunsOff(d, left) >= -(4 * Cent)
    PROVE  2 * (left - d.rainBankBefore - d.effectiveRain + (d.etc - d.unmetDemand)) <= 5 * Cent
<1> DEFINE b == d.rainBankBefore
           r == d.effectiveRain
           m == d.etc - d.unmetDemand
           a == d.rainBankAfter
<1>1. a \in Int /\ b \in Int /\ r \in Int /\ m \in Int /\ Cent \in Nat
  BY BudgetAssumption DEF Decisions
<1>2. \/ left <= a /\ 2 * (a - b - r + m) <= 5 * Cent
      \/ 2 * (b + r - m - left) >= -(4 * Cent)
  BY DEF Balanced, RunsOff
<1> HIDE DEF a, b, r, m
<1>3. 2 * (left - b - r + m) <= 5 * Cent
  BY <1>1, <1>2
<1> QED
  BY <1>3 DEF b, r, m

\* A sound state's history conserves water: each decision leaves at most what it
\* started with and what fell, less what it met, and the next starts from that.
LEMMA SoundConserves ==
    ASSUME NEW s \in States, Explained(s), NEW i \in 1 .. Len(s.history)
    PROVE  LET h == s.history
               left == IF i < Len(h) THEN h[i + 1].rainBankBefore ELSE s.rainBank
           IN  2 * (left - h[i].rainBankBefore - h[i].effectiveRain
                      + (h[i].etc - h[i].unmetDemand)) <= 5 * Cent
<1> DEFINE h == s.history
           d == h[i]
           left == IF i < Len(h) THEN h[i + 1].rainBankBefore ELSE s.rainBank
<1>1. /\ h \in Seq(Decisions) /\ Len(h) \in Nat /\ i \in 1 .. Len(h)
      /\ d \in Decisions /\ s.rainBank \in Nat
  BY DEF States
<1>2. d.rainBankAfter \in Nat
  BY <1>1 DEF Decisions
<1>3. CASE i < Len(h)
  <2>1. left \in {0, d.rainBankAfter} /\ Balanced(d)
    BY <1>1, <1>3 DEF Explained
  <2>2. left \in Int /\ left <= d.rainBankAfter
    BY <1>2, <2>1
  <2> HIDE DEF d, left
  <2>3. 2 * (left - d.rainBankBefore - d.effectiveRain + (d.etc - d.unmetDemand)) <= 5 * Cent
    BY <1>1, <2>1, <2>2, LeavesNoMore
  <2> QED
    BY <2>3 DEF d, left
<1>4. CASE ~(i < Len(h))
  <2>1. left = s.rainBank /\ d = LastDecision(s)
    BY <1>1, <1>4 DEF LastDecision
  <2>2. left \in Int /\ 2 * RunsOff(d, left) >= -(4 * Cent)
    BY <1>1, <2>1 DEF Explained, Drained
  <2> HIDE DEF d, left
  <2>3. 2 * (left - d.rainBankBefore - d.effectiveRain + (d.etc - d.unmetDemand)) <= 5 * Cent
    BY <1>1, <2>2, LeavesNoMore
  <2> QED
    BY <2>3 DEF d, left
<1> QED
  BY <1>3, <1>4

\* No day of a history leaves more water than it found and than fell and was not
\* used, but for the rounding of its five depths on record, whatever overlaps
\* (SoilMoistureModel.ts:111-146).
THEOREM NoRainIsInvented == Spec => []RainIsNotInvented
<1>1. BudgetInv => RainIsNotInvented
  <2> SUFFICES ASSUME BudgetInv, NEW s \in Stored \ {NoState}
               PROVE  s \in States /\ Explained(s)
    BY SoundConserves DEF RainIsNotInvented
  <2> QED
    BY StoredFacts DEF BudgetInv, Stored, Sound
<1> QED
  BY BudgetInvariant, <1>1, PTL

\* Every answer states the scale that is stored for its location when it is
\* given, lowered to the request's ceiling, and an answer that does not report
\* its coefficient as locked rests on a decision made with it, also when
\* another request has changed the state in between
\* (WaterBudgetAdjustmentMethod.ts:139-195, 224-255).
THEOREM AnswersAgree == Spec => AnswersAgreeWithStore
<1> DEFINE Agrees(r) ==
             (pc[r] # "idle" /\ answer'[r] # None) =>
                LET s == mem'[job[r].loc]
                    a == answer'[r]
                IN  /\ a.kind = "error" <=> s = NoState
                    /\ s # NoState =>
                         /\ a.scale = clampDown(s.lastScale, job[r].mx)
                         /\ (a.kind \notin {"held", "locked"} /\ job[r].kc # None) =>
                              LastDecision(s).demandKc = job[r].kc
<1>1. BudgetInv /\ [Next]_budgetVars => [\A r \in Requests : Agrees(r)]_budgetVars
  <2> SUFFICES ASSUME BudgetInv, Next, NEW r \in Requests, pc[r] # "idle", answer'[r] # None
               PROVE  Agrees(r)
    OBVIOUS
  <2>1. answer[r] = None /\ TypeOK
    BY DEF BudgetInv, RequestInv
  <2>2. ASSUME NEW q \in Requests, NEW a, Respond(q, a)
        PROVE  q = r /\ answer'[r] = a
    BY <2>1, <2>2 DEF Respond, TypeOK
  <2>3. ASSUME NEW q \in Requests, WeatherFails(q)
        PROVE  Agrees(r)
    <3>1. q = r /\ answer'[r] = Held(mem[job[r].loc], job[r].mx) /\ mem' = mem
      BY <2>2, <2>3 DEF WeatherFails, storeVars
    <3> QED
      BY <3>1 DEF Held
  <2>4. ASSUME NEW q \in Requests, NEW eto \in Etos, NEW precip \in Precips,
               WeatherArrives(q, eto, precip)
        PROVE  Agrees(r)
    <3>1. mem' = mem /\ answer' # answer
      BY <2>1, <2>4 DEF WeatherArrives, storeVars
    <3>2. CASE Respond(q, Held(mem[job[q].loc], job[q].mx))
      <4>1. q = r /\ answer'[r] = Held(mem[job[r].loc], job[r].mx)
        BY <2>2, <3>2
      <4> QED
        BY <3>1, <4>1 DEF Held
    <3>3. CASE /\ DecidedOn(mem[job[q].loc], job[q].today)
               /\ Respond(q, Cached(mem[job[q].loc], job[q].kc, job[q].mx))
      <4>1. q = r /\ answer'[r] = Cached(mem[job[r].loc], job[r].kc, job[r].mx)
        BY <2>2, <3>3
      <4>2. mem[job[r].loc] # NoState
        BY <3>3, <4>1 DEF DecidedOn
      <4> QED
        BY <3>1, <4>1, <4>2 DEF Cached
    <3> QED
      BY <2>4, <3>1, <3>2, <3>3 DEF WeatherArrives
  <2>5. ASSUME NEW q \in Requests, NEW referenceEto \in Baselines \cup {DefaultRefEto},
               NEW seasonKc \in SeasonKcs, Advance(q, referenceEto, seasonKc)
        PROVE  Agrees(r)
    <3>1. PICK gap \in Gaps(job[q].prev, job[q].today) :
            LET s == step(job[q].prev, InputOf(job[q], referenceEto, seasonKc, gap))
            IN  Store!Put(job[q].loc, s) /\ Respond(q, Advanced(s, job[q].mx))
      BY <2>5 DEF Advance
    <3> DEFINE s == step(job[q].prev, InputOf(job[q], referenceEto, seasonKc, gap))
    <3>2. pc[q] = "baseline" /\ job[q].loc \in Locations
      BY <2>1, <2>5, JobFacts DEF Advance
    <3>3. s # NoState /\ (job[q].kc # None => LastDecision(s).demandKc = job[q].kc)
      BY <3>2, AdvanceFacts
    <3> HIDE DEF s
    <3>4. q = r /\ answer'[r] = Advanced(s, job[q].mx)
      BY <2>2, <3>1 DEF s
    <3>5. mem'[job[q].loc] = s
      BY <2>1, <3>1, <3>2 DEF s, Store!Put, TypeOK, Store!SnapshotTypeOK, Store!Snapshots
    <3> QED
      BY <3>3, <3>4, <3>5 DEF Advanced
  <2>6. ASSUME NEW q \in Requests, NEW l \in Locations, NEW p \in Providers,
               NEW kc \in OverrideKcs \cup {None}, NEW mx \in Ceilings \cup {None},
               Begin(q, l, p, kc, mx)
        PROVE  FALSE
    BY <2>1, <2>6 DEF Begin, TypeOK
  <2>7. ~Tick /\ ~Boot /\ ~Crash
    BY <2>1 DEF Tick, Boot, Crash
  <2> QED
    BY <2>3, <2>4, <2>5, <2>6, <2>7 DEF Next
<1> QED
  BY BudgetInvariant, <1>1, PTL DEF Spec, AnswersAgreeWithStore

-----------------------------------------------------------------------------
\* One request at a time, served by one provider, or by several that always date
\* their windows alike: what the day lock needs.  Without the first part the run
\* of MCWaterBudgetRace breaks the lock.
Sequential ==
    /\ \A q, r \in Requests : q = r
    /\ \A p, q \in Providers : p # q =>
          /\ LeastLag[p] = MostLag[p] /\ LeastLag[q] = MostLag[q]
          /\ LeastLag[p] = LeastLag[q]
    /\ MillisProviders = {}

\* A stored state has an ordered history and no later date than a window of now.
Below(s, w) ==
    s = NoState \/ (Dated(s) /\ \A p \in Providers : s.lastUpdated <= w[p])

\* The state in memory is not later than the window of the request in flight,
\* which holds that state; the window was one of the day it was fixed on, and a
\* window of now is not earlier.
InFlight(r) ==
    LET j == job[r]
    IN  /\ up
        /\ j.begun <= Day
        /\ \A p \in Providers :
              /\ j.today <= window[p]
              /\ j.begun - MostLag[p] <= j.today /\ j.today <= j.begun - LeastLag[p]
        /\ \A l \in Locations : mem[l] # NoState => mem[l].lastUpdated <= j.today
        /\ pc[r] = "baseline" => j.prev = mem[j.loc]

\* Each step stored for the windows of some days moved the state on by a date at
\* least, from the earliest that such a window can have, so the steps are no
\* more than such dates.
Charged(l, first, last) ==
    LET n == ChargedFrom(l, first, last)
    IN  /\ n >= 0
        /\ \A p \in Providers : n <= (last - first + 1) + (MostLag[p] - LeastLag[p])
        /\ n > 0 => /\ up /\ mem[l] # NoState
                    /\ \A p \in Providers : mem[l].lastUpdated >= (first - MostLag[p]) + n - 1

SequentialInv ==
    /\ BudgetInv
    /\ ~up => mem = Store!Empty
    /\ \A l \in Locations : Below(mem[l], window) /\ Below(disk[l], window)
    /\ \A r \in Requests : pc[r] # "idle" => InFlight(r)
    /\ \A l \in Locations, first, last \in Days : first <= last => Charged(l, first, last)

LEMMA LagsAreNat ==
    \A p \in Providers : LeastLag[p] \in Nat /\ MostLag[p] \in Nat /\ LeastLag[p] <= MostLag[p]
BY RequestAssumption

\* Providers that may take turns have windows of the same dates.
LEMMA WindowsAlike ==
    ASSUME Sequential, TypeOK, NEW p \in Providers, NEW q \in Providers
    PROVE  /\ LeastLag[p] = LeastLag[q] /\ MostLag[p] = MostLag[q]
           /\ window[p] = window[q] /\ window[p] \in Int
           /\ Day - MostLag[p] <= window[p] /\ window[p] <= Day - LeastLag[p]
           /\ Day \in Nat
<1>1. Day \in Nat
  <2>1. Day \in Days
    BY DayIsInRange DEF TypeOK, Day
  <2> QED
    BY <2>1 DEF Days
<1>2. window \in Windows(Day)
  BY DEF TypeOK
<1>3. /\ window[p] \in Int /\ Day - MostLag[p] <= window[p] /\ window[p] <= Day - LeastLag[p]
      /\ window[q] \in Int /\ Day - MostLag[q] <= window[q] /\ window[q] <= Day - LeastLag[q]
  BY <1>1, <1>2, WindowFacts
<1>4. CASE p = q
  BY <1>1, <1>3, <1>4
<1>5. CASE p # q
  <2>1. LeastLag[p] = MostLag[p] /\ LeastLag[q] = MostLag[q] /\ LeastLag[p] = LeastLag[q]
    BY <1>5 DEF Sequential
  <2> QED
    BY <1>1, <1>3, <2>1, LagsAreNat
<1> QED
  BY <1>4, <1>5

LEMMA SequentialInit == Init => SequentialInv
<1> SUFFICES ASSUME Init PROVE SequentialInv
  OBVIOUS
<1>1. BudgetInv /\ \A l \in Locations : mem[l] = NoState /\ disk[l] = NoState
  BY BudgetInit DEF Init, Store!SnapshotInit, Store!Empty
<1>2. ASSUME NEW l \in Locations, NEW first \in Days, NEW last \in Days, first <= last
      PROVE  Charged(l, first, last)
  <2>1. ChargedFrom(l, first, last) = 0
    BY <1>2, RequestAssumption DEF Init, ChargedFrom, Days
  <2> QED
    BY <1>2, <2>1, LagsAreNat, RequestAssumption DEF Charged, Days
<1> QED
  BY <1>1, <1>2 DEF Init, SequentialInv, Store!SnapshotInit, Below

\* The call that advances the budget moves its location to a later date.
LEMMA SequentialAdvance ==
    ASSUME Sequential, SequentialInv, NEW r \in Requests,
           NEW referenceEto \in Baselines \cup {DefaultRefEto}, NEW seasonKc \in SeasonKcs,
           Advance(r, referenceEto, seasonKc)
    PROVE  /\ up /\ mem[job[r].loc] = job[r].prev
           /\ \E s \in States :
                 /\ mem' = [mem EXCEPT ![job[r].loc] = s] /\ disk' \in {disk, mem'}
                 /\ s.lastUpdated = job[r].today /\ Dated(s)
                 /\ job[r].prev # NoState => job[r].prev.lastUpdated < job[r].today
                 /\ charged' = Charge(job[r])
<1> DEFINE j == job[r]
<1>1. TypeOK /\ BudgetInv /\ pc[r] = "baseline" /\ InFlight(r)
  BY DEF SequentialInv, BudgetInv, Advance
<1>2. j.loc \in Locations /\ j.today \in Int /\ j.prev \in States \cup {NoState}
  BY <1>1, JobFacts
<1>3. up /\ j.prev = mem[j.loc]
  BY <1>1 DEF InFlight
<1>4. j.prev # NoState => Dated(j.prev) /\ j.prev.lastUpdated < j.today
  <2> SUFFICES ASSUME j.prev # NoState PROVE Dated(j.prev) /\ j.prev.lastUpdated < j.today
    OBVIOUS
  <2>1. Dated(j.prev)
    BY <1>2, <1>3 DEF SequentialInv, Below
  <2>2. j.prev.lastUpdated <= j.today /\ j.prev.lastUpdated # j.today
    BY <1>1, <1>2, <1>3 DEF InFlight, BudgetInv, RequestInv, DecidedOn
  <2>3. j.prev.lastUpdated \in Int
    BY <1>2 DEF States
  <2> QED
    BY <1>2, <2>1, <2>2, <2>3
<1>5. PICK gap \in Gaps(j.prev, j.today) :
        LET s == step(j.prev, InputOf(j, referenceEto, seasonKc, gap))
        IN  Store!Put(j.loc, s) /\ charged' = Charge(j)
  BY DEF Advance, Charge
<1> DEFINE s == step(j.prev, InputOf(j, referenceEto, seasonKc, gap))
<1>6. s \in States /\ s # NoState /\ s.lastUpdated = j.today /\ Dated(s)
  BY <1>1, <1>4, AdvanceFacts
<1> HIDE DEF s
<1>7. /\ mem' = [mem EXCEPT ![j.loc] = s] /\ disk' \in {disk, mem'}
      /\ charged' = Charge(j)
  BY <1>5 DEF s, Store!Put
<1> QED
  BY <1>3, <1>4, <1>6, <1>7

\* One more step counts for the ranges of days its window was fixed in.
LEMMA ChargeCounts ==
    ASSUME TypeOK, NEW r \in Requests, pc[r] # "idle", charged' = Charge(job[r]),
           NEW l \in Locations, NEW first \in Days, NEW last \in Days, first <= last
    PROVE  LET within == l = job[r].loc /\ first <= job[r].begun /\ job[r].begun <= last
           IN  /\ ChargedFrom(l, first, last) \in Int
               /\ ChargedFrom(l, first, last)'
                     = ChargedFrom(l, first, last) + IF within THEN 1 ELSE 0
<1> DEFINE j == job[r]
           before(d) == IF d = 0 THEN 0 ELSE charged[l][d - 1]
           after(d)  == IF d = 0 THEN 0 ELSE charged'[l][d - 1]
<1>1. j.loc \in Locations /\ j.begun \in Days
  BY JobFacts
<1>2. first \in Nat /\ last \in Nat /\ j.begun \in Nat /\ (first # 0 => first - 1 \in Days)
  BY <1>1, RequestAssumption DEF Days
<1>3. charged[l] \in [Days -> Nat]
  BY DEF TypeOK
<1>4. ASSUME NEW d \in Days
      PROVE  /\ charged[l][d] \in Nat
             /\ charged'[l][d] = charged[l][d] + IF l = j.loc /\ d >= j.begun THEN 1 ELSE 0
  <2>1. CASE l = j.loc
    <3>1. charged'[l] = [e \in Days |-> IF e >= j.begun THEN charged[l][e] + 1 ELSE charged[l][e]]
      BY <1>1, <2>1 DEF Charge, TypeOK
    <3> QED
      BY <1>3, <1>4, <2>1, <3>1
  <2>2. CASE l # j.loc
    <3>1. charged'[l] = charged[l]
      BY <1>1, <2>2 DEF Charge, TypeOK
    <3> QED
      BY <1>3, <1>4, <2>2, <3>1
  <2> QED
    BY <2>1, <2>2
<1>5. ChargedFrom(l, first, last) = charged[l][last] - before(first)
      /\ ChargedFrom(l, first, last)' = charged'[l][last] - after(first)
  BY DEF ChargedFrom
<1>6. before(first) \in Nat
      /\ after(first) = before(first) + IF l = j.loc /\ first > j.begun THEN 1 ELSE 0
  <2>1. CASE first = 0
    BY <1>2, <2>1
  <2>2. CASE first # 0
    <3>1. first - 1 >= j.begun <=> first > j.begun
      BY <1>2
    <3> QED
      BY <1>2, <1>4, <2>2, <3>1
  <2> QED
    BY <2>1, <2>2
<1>7. charged[l][last] \in Nat
      /\ charged'[l][last] = charged[l][last] + IF l = j.loc /\ last >= j.begun THEN 1 ELSE 0
  BY <1>4
<1> HIDE DEF before, after
<1> QED
  BY <1>2, <1>5, <1>6, <1>7

LEMMA SequentialAdvanceKeeps ==
    ASSUME Sequential, SequentialInv, BudgetInv', NEW r \in Requests,
           NEW referenceEto \in Baselines \cup {DefaultRefEto}, NEW seasonKc \in SeasonKcs,
           Advance(r, referenceEto, seasonKc)
    PROVE  SequentialInv'
<1> DEFINE j == job[r]
<1>1. /\ TypeOK /\ pc[r] = "baseline" /\ InFlight(r)
      /\ UNCHANGED <<clock, window>> /\ UNCHANGED up
  BY DEF SequentialInv, BudgetInv, Advance, Store!Put
<1>2. /\ j.loc \in Locations /\ j.today \in Int /\ j.begun \in Days /\ j.begun \in Nat
      /\ j.prev \in States \cup {NoState}
  BY <1>1, JobFacts DEF Days
<1>3. PICK s \in States :
        /\ mem' = [mem EXCEPT ![j.loc] = s] /\ disk' \in {disk, mem'}
        /\ s.lastUpdated = j.today /\ Dated(s)
        /\ j.prev # NoState => j.prev.lastUpdated < j.today
        /\ charged' = Charge(j)
  BY SequentialAdvance
<1>4. up /\ mem[j.loc] = j.prev
  BY SequentialAdvance
<1>5. \A p \in Providers :
         /\ j.today <= window[p]
         /\ j.begun - MostLag[p] <= j.today /\ j.today <= j.begun - LeastLag[p]
  BY <1>1 DEF InFlight
<1>6. mem \in [Locations -> States \cup {NoState}]
  BY <1>1 DEF TypeOK, Store!SnapshotTypeOK, Store!Snapshots
<1>7. \A l \in Locations : Below(mem'[l], window') /\ Below(disk'[l], window')
  <2>1. Below(s, window)
    BY <1>3, <1>5 DEF Below
  <2>2. \A l \in Locations : Below(mem[l], window) /\ Below(disk[l], window)
    BY DEF SequentialInv
  <2>3. \A l \in Locations : mem'[l] = mem[l] \/ mem'[l] = s
    BY <1>3, <1>6
  <2>4. \A l \in Locations : Below(mem'[l], window)
    BY <2>1, <2>2, <2>3
  <2> QED
    BY <1>1, <1>3, <2>2, <2>4
<1>8. \A q \in Requests : pc'[q] = "idle"
  BY <1>1 DEF Advance, Respond, Sequential, TypeOK
<1>9. ASSUME NEW l \in Locations, NEW first \in Days, NEW last \in Days, first <= last
      PROVE  Charged(l, first, last)'
  <2> DEFINE n == ChargedFrom(l, first, last)
             m == ChargedFrom(l, first, last)'
             within == l = j.loc /\ first <= j.begun /\ j.begun <= last
  <2>1. /\ n >= 0
        /\ \A p \in Providers : n <= (last - first + 1) + (MostLag[p] - LeastLag[p])
        /\ n > 0 => /\ up /\ mem[l] # NoState
                    /\ \A p \in Providers : mem[l].lastUpdated >= (first - MostLag[p]) + n - 1
    BY <1>9 DEF SequentialInv, Charged
  <2>2. n \in Int /\ m = n + (IF within THEN 1 ELSE 0)
    BY <1>1, <1>3, <1>9, ChargeCounts
  <2>3. first \in Nat /\ last \in Nat
    BY DEF Days
  <2>4. l = j.loc => mem'[l] = s /\ s # NoState /\ mem[l] = j.prev
    BY <1>2, <1>3, <1>4, <1>6, AbsentAssumption
  <2>5. l # j.loc => mem'[l] = mem[l]
    BY <1>3, <1>6
  <2>6. j.prev # NoState => j.prev.lastUpdated \in Int
    BY <1>2 DEF States
  <2>7. m >= 0 /\ (m > 0 => up' /\ mem'[l] # NoState)
    BY <1>1, <1>4, <2>1, <2>2, <2>4, <2>5
  <2>8. ASSUME NEW p \in Providers
        PROVE  /\ m <= (last - first + 1) + (MostLag[p] - LeastLag[p])
               /\ m > 0 => mem'[l].lastUpdated >= (first - MostLag[p]) + m - 1
    <3>1. LeastLag[p] \in Nat /\ MostLag[p] \in Nat /\ LeastLag[p] <= MostLag[p]
      BY LagsAreNat
    <3>2. j.begun - MostLag[p] <= j.today /\ j.today <= j.begun - LeastLag[p]
      BY <1>5
    <3>3. CASE l # j.loc
      BY <2>1, <2>2, <2>5, <3>3
    <3>4. CASE l = j.loc /\ ~within
      <4>1. m = n /\ mem'[l].lastUpdated = j.today
        BY <1>3, <2>2, <2>4, <3>4
      <4>2. n > 0 => j.today >= (first - MostLag[p]) + n - 1
        <5> SUFFICES ASSUME n > 0 PROVE j.today >= (first - MostLag[p]) + n - 1
          OBVIOUS
        <5>1. j.prev # NoState /\ j.prev.lastUpdated >= (first - MostLag[p]) + n - 1
          BY <2>1, <2>4, <3>4
        <5> HIDE DEF n, j
        <5> QED
          BY <1>2, <1>3, <2>2, <2>3, <2>6, <3>1, <5>1
      <4> QED
        BY <2>1, <4>1, <4>2
    <3>5. CASE within
      <4>1. m = n + 1 /\ mem'[l].lastUpdated = j.today
        BY <1>3, <2>2, <2>4, <3>5
      <4>2. first <= j.begun /\ j.begun <= last
        BY <3>5
      <4>3. j.today >= (first - MostLag[p]) + n
        <5>1. CASE n > 0
          <6>1. j.prev # NoState /\ j.prev.lastUpdated >= (first - MostLag[p]) + n - 1
            BY <2>1, <2>4, <3>5, <5>1
          <6> HIDE DEF n, j
          <6> QED
            BY <1>2, <1>3, <2>2, <2>3, <2>6, <3>1, <6>1
        <5>2. CASE n = 0
          <6> HIDE DEF n, j
          <6> QED
            BY <1>2, <2>3, <3>1, <3>2, <4>2, <5>2
        <5> QED
          BY <2>1, <2>2, <5>1, <5>2
      <4> HIDE DEF n, m, j
      <4> QED
        BY <1>2, <2>2, <2>3, <3>1, <3>2, <4>1, <4>2, <4>3
    <3> QED
      BY <3>3, <3>4, <3>5
  <2> QED
    BY <2>7, <2>8 DEF Charged
<1> QED
  BY <1>1, <1>4, <1>7, <1>8, <1>9 DEF SequentialInv

LEMMA DayGrows ==
    ASSUME TypeOK, NEW c \in {clock, clock + 1}
    PROVE  Day \in Nat /\ Day <= c \div TicksPerDay /\ c \div TicksPerDay \in Nat
<1>1. TicksPerDay * (MaxDay + 1) \in Nat /\ TicksPerDay \in Nat \ {0}
  BY RequestAssumption
<1>2. clock \in Nat /\ c \in Nat /\ clock <= c
  BY <1>1 DEF TypeOK
<1> QED
  BY <1>1, <1>2, DivisionIsNat, DivisionIsMonotone DEF Day

LEMMA SequentialTick == SequentialInv /\ BudgetInv' /\ Tick => SequentialInv'
<1> SUFFICES ASSUME SequentialInv, BudgetInv', Tick PROVE SequentialInv'
  OBVIOUS
<1>1. /\ TypeOK /\ UNCHANGED <<up, mem, disk, pc, job, charged>> /\ clock' = clock + 1
      /\ window' \in Windows(Day') /\ \A p \in Providers : window'[p] >= window[p]
  BY DEF SequentialInv, BudgetInv, Tick, storeVars
<1>2. Day \in Int /\ Day' \in Int /\ Day <= Day'
  BY <1>1, DayGrows DEF Day
<1>3. \A p \in Providers : window[p] \in Int /\ window'[p] \in Int /\ window[p] <= window'[p]
  <2>1. window \in Windows(Day)
    BY <1>1 DEF TypeOK
  <2> QED
    BY <1>1, <1>2, <2>1, WindowFacts
<1>4. ASSUME NEW t \in States \cup {NoState}, Below(t, window)
      PROVE  Below(t, window')
  <2>1. t # NoState => t.lastUpdated \in Int
    BY DEF States
  <2> QED
    BY <1>3, <1>4, <2>1 DEF Below
<1>5. \A l \in Locations : Below(mem'[l], window') /\ Below(disk'[l], window')
  BY <1>1, <1>4, StoredFacts DEF SequentialInv
<1>6. ASSUME NEW r \in Requests, pc'[r] # "idle"
      PROVE  InFlight(r)'
  <2>1. InFlight(r) /\ job[r].begun \in Int /\ job[r].today \in Int
    BY <1>1, <1>6, JobFacts DEF SequentialInv, Days
  <2>2. job[r].begun <= Day' /\ \A p \in Providers : job[r].today <= window'[p]
    BY <1>2, <1>3, <2>1 DEF InFlight
  <2> QED
    BY <1>1, <2>1, <2>2 DEF InFlight
<1>7. \A l \in Locations, first, last \in Days : first <= last => Charged(l, first, last)'
  BY <1>1 DEF SequentialInv, Charged, ChargedFrom
<1> QED
  BY <1>1, <1>5, <1>6, <1>7 DEF SequentialInv

LEMMA SequentialBegin ==
    ASSUME Sequential, SequentialInv, BudgetInv',
           NEW r \in Requests, NEW l \in Locations, NEW p \in Providers,
           NEW kc \in OverrideKcs \cup {None}, NEW mx \in Ceilings \cup {None},
           Begin(r, l, p, kc, mx)
    PROVE  SequentialInv'
<1>1. TypeOK /\ up /\ UNCHANGED <<clock, window, up, mem, disk, charged>> /\ Day' = Day
  BY DEF SequentialInv, BudgetInv, Begin, storeVars, Day
<1>2. /\ pc' = [pc EXCEPT ![r] = "weather"]
      /\ job'[r] = [loc |-> l, kc |-> kc, mx |-> mx, begun |-> Day, today |-> window[p],
                    eto |-> NaN, precip |-> NaN, prev |-> NoState]
  BY <1>1 DEF Begin, TypeOK, Sequential, WindowDate
<1>3. InFlight(r)'
  <2>1. job'[r].begun = Day /\ job'[r].today = window[p] /\ pc'[r] = "weather"
    BY <1>1, <1>2 DEF TypeOK
  <2>2. Day <= Day
    BY <1>1, DayGrows
  <2>3. \A q \in Providers :
           /\ window[p] <= window[q]
           /\ Day - MostLag[q] <= window[p] /\ window[p] <= Day - LeastLag[q]
    <3> TAKE q \in Providers
    <3>1. window[p] = window[q] /\ MostLag[p] = MostLag[q] /\ LeastLag[p] = LeastLag[q]
          /\ window[p] \in Int /\ Day - MostLag[p] <= window[p] /\ window[p] <= Day - LeastLag[p]
      BY <1>1, WindowsAlike
    <3> QED
      BY <3>1
  <2>4. \A k \in Locations : mem[k] # NoState => mem[k].lastUpdated <= window[p]
    BY DEF SequentialInv, Below
  <2> QED
    BY <1>1, <2>1, <2>2, <2>3, <2>4 DEF InFlight
<1>4. \A q \in Requests : q = r
  BY DEF Sequential
<1>5. \A k \in Locations, first, last \in Days : first <= last => Charged(k, first, last)'
  BY <1>1 DEF SequentialInv, Charged, ChargedFrom
<1> QED
  BY <1>1, <1>3, <1>4, <1>5 DEF SequentialInv

LEMMA SequentialWeather ==
    ASSUME Sequential, SequentialInv, BudgetInv', NEW r \in Requests,
           WeatherFails(r) \/ \E eto \in Etos, precip \in Precips : WeatherArrives(r, eto, precip)
    PROVE  SequentialInv'
<1>1. TypeOK /\ UNCHANGED <<clock, window, up, mem, disk, charged>> /\ pc[r] = "weather" /\ Day' = Day
  BY DEF SequentialInv, BudgetInv, WeatherFails, WeatherArrives, storeVars, Day
<1>2. InFlight(r)
  BY <1>1 DEF SequentialInv
<1>3. ASSUME pc'[r] # "idle"
      PROVE  InFlight(r)'
  <2>1. PICK eto \in Etos, precip \in Precips :
          job' = [job EXCEPT ![r].eto = eto, ![r].precip = precip, ![r].prev = mem[job[r].loc]]
    BY <1>1, <1>3, ZenonT(60) DEF WeatherFails, WeatherArrives, Respond, TypeOK
  <2>2. job[r] \in Jobs
    BY <1>1, JobFacts
  <2>3. /\ job'[r].loc = job[r].loc /\ job'[r].begun = job[r].begun
        /\ job'[r].today = job[r].today /\ job'[r].prev = mem[job[r].loc]
    BY <1>1, <2>1, <2>2 DEF TypeOK, Jobs
  <2> QED
    BY <1>1, <1>2, <2>3 DEF InFlight
<1>4. \A q \in Requests : q = r
  BY DEF Sequential
<1>5. \A l \in Locations, first, last \in Days : first <= last => Charged(l, first, last)'
  BY <1>1 DEF SequentialInv, Charged, ChargedFrom
<1> QED
  BY <1>1, <1>3, <1>4, <1>5 DEF SequentialInv

LEMMA SequentialRestart ==
    ASSUME SequentialInv, BudgetInv', Boot \/ Crash
    PROVE  SequentialInv'
<1>1. TypeOK /\ UNCHANGED <<clock, window, disk>>
  BY DEF SequentialInv, BudgetInv, Boot, Crash, Store!Start, Store!Stop
<1>2. \A l \in Locations : Below(Store!Empty[l], window)
  BY DEF Store!Empty, Below
<1>3. CASE Boot
  <2>1. ~up /\ mem = Store!Empty /\ mem' \in {disk, Store!Empty} /\ UNCHANGED <<pc, job, charged>>
    BY <1>3 DEF Boot, Store!Start, SequentialInv
  <2>2. \A r \in Requests : pc'[r] = "idle"
    BY <2>1 DEF SequentialInv, InFlight
  <2>3. \A l \in Locations : Below(mem'[l], window') /\ Below(disk'[l], window')
    BY <1>1, <1>2, <2>1 DEF SequentialInv
  <2>4. \A l \in Locations, first, last \in Days : first <= last => Charged(l, first, last)'
    BY <2>1 DEF SequentialInv, Charged, ChargedFrom
  <2>5. up'
    BY <1>3 DEF Boot, Store!Start
  <2> QED
    BY <2>2, <2>3, <2>4, <2>5 DEF SequentialInv
<1>4. CASE Crash
  <2>1. /\ ~up' /\ mem' = Store!Empty
        /\ \A r \in Requests : pc'[r] = "idle"
        /\ \A l \in Locations, d \in Days : charged'[l][d] = 0
    BY <1>4 DEF Crash, Store!Stop
  <2>2. \A l \in Locations : Below(mem'[l], window') /\ Below(disk'[l], window')
    BY <1>1, <1>2, <2>1 DEF SequentialInv
  <2>3. ASSUME NEW l \in Locations, NEW first \in Days, NEW last \in Days, first <= last
        PROVE  Charged(l, first, last)'
    <3>1. first \in Nat /\ last \in Nat /\ (first # 0 => first - 1 \in Days)
      BY RequestAssumption DEF Days
    <3>2. ChargedFrom(l, first, last)' = 0
      BY <2>1, <3>1 DEF ChargedFrom
    <3> QED
      BY <2>3, <3>1, <3>2, LagsAreNat DEF Charged
  <2> QED
    BY <2>1, <2>2, <2>3 DEF SequentialInv
<1> QED
  BY <1>3, <1>4

LEMMA SequentialStep ==
    ASSUME Sequential, SequentialInv, [Next]_budgetVars
    PROVE  SequentialInv'
<1>1. BudgetInv'
  BY BudgetStep DEF SequentialInv
<1>2. CASE UNCHANGED budgetVars
  BY <1>1, <1>2 DEF budgetVars, SequentialInv, InFlight, Charged, ChargedFrom, Day
<1> QED
  BY <1>1, <1>2, SequentialBegin, SequentialWeather, SequentialAdvanceKeeps, SequentialTick,
     SequentialRestart DEF Next

LEMMA SequentialInvariant ==
    ASSUME Sequential
    PROVE  Spec => []SequentialInv
<1>1. SequentialInv /\ [Next]_budgetVars => SequentialInv'
  BY SequentialStep
<1> QED
  BY SequentialInit, <1>1, PTL DEF Spec

\* With one request at a time and one provider, or several that date their windows
\* alike, the budget of a location advances once per day of any run of days,
\* however often it is polled, and beyond that at most by the days its provider's
\* windows move (WaterBudgetAdjustmentMethod.ts:181-195).
THEOREM SequentialPace ==
    ASSUME Sequential
    PROVE  Spec => []AdvancesKeepPace
<1>1. SequentialInv => AdvancesKeepPace
  BY DEF SequentialInv, Charged, AdvancesKeepPace
<1> QED
  BY SequentialInvariant, <1>1, PTL

\* Under the same conditions no date is decided twice in any stored history,
\* crashes and lost writes included: a day whose write was lost is decided
\* again from the state before it.
THEOREM SequentialDates ==
    ASSUME Sequential
    PROVE  Spec => []NoDateChargedTwice
<1>1. SequentialInv => NoDateChargedTwice
  BY DEF SequentialInv, Below, Dated, NoDateChargedTwice, Stored
<1> QED
  BY SequentialInvariant, <1>1, PTL

\* Under the same conditions a decided day is locked: while the process lives a
\* stored state is only replaced by one of a later date.
THEOREM SequentialLock ==
    ASSUME Sequential
    PROVE  Spec => DayIsLocked
<1> DEFINE Moves(l) == (up' /\ mem[l] # NoState /\ mem'[l] # mem[l]) =>
                          mem'[l].lastUpdated > mem[l].lastUpdated
<1>1. SequentialInv /\ [Next]_budgetVars => [\A l \in Locations : Moves(l)]_budgetVars
  <2> SUFFICES ASSUME SequentialInv, Next, NEW l \in Locations,
                      up', mem[l] # NoState, mem'[l] # mem[l]
               PROVE  mem'[l].lastUpdated > mem[l].lastUpdated
    OBVIOUS
  <2>1. ~Boot
    BY DEF Boot, Store!Start, SequentialInv, Store!Empty
  <2>2. PICK r \in Requests, referenceEto \in Baselines \cup {DefaultRefEto},
             seasonKc \in SeasonKcs : Advance(r, referenceEto, seasonKc)
    BY <2>1 DEF Next, Begin, WeatherFails, WeatherArrives, Tick, Crash, Store!Stop, storeVars
  <2>3. PICK s \in States :
          /\ mem' = [mem EXCEPT ![job[r].loc] = s]
          /\ s.lastUpdated = job[r].today
          /\ job[r].prev # NoState => job[r].prev.lastUpdated < job[r].today
    BY <2>2, SequentialAdvance
  <2>4. mem[job[r].loc] = job[r].prev
    BY <2>2, SequentialAdvance
  <2>5. l = job[r].loc /\ mem'[l] = s
    BY <2>3 DEF SequentialInv, BudgetInv, TypeOK, Store!SnapshotTypeOK, Store!Snapshots
  <2>6. mem[l].lastUpdated \in Int /\ s.lastUpdated \in Int
    BY StoredFacts DEF SequentialInv, BudgetInv, States
  <2> QED
    BY <2>3, <2>4, <2>5, <2>6
<1> QED
  BY SequentialInvariant, <1>1, PTL DEF Spec, DayIsLocked
==============================================================================
