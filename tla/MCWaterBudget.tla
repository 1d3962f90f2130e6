--------------------------- MODULE MCWaterBudget ---------------------------
(***************************************************************************)
(* Instances of WaterBudget for TLC.  Depths: a day's evapotranspiration is  *)
(* 2 or unknown; rain is none or 6, of which 0.8 are effective; the           *)
(* coefficients are 0.9 and 1.2; the bank holds one day or two.  With five    *)
(* units to a hundredth most of these depths are rounded on record.           *)
(***************************************************************************)
EXTENDS WaterBudget, TLC

CONSTANTS
    om,   \* a provider asked for the date of yesterday
    st    \* one whose window starts up to 24 hours ago: the local station

Since == [p \in {om, st} |-> IF p = om THEN 1 ELSE 0]

LagsFrom == [p \in Providers |-> Since[p]]
LagsTo == [p \in Providers |-> 1]

OneEto == {2}
AnyEtos == {2, NaN}
Rains == {0, 6}
Symmetry == Permutations(Requests)

============================================================================
