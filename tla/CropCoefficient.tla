---------------------------- MODULE CropCoefficient ----------------------------
(***************************************************************************)
(* The crop coefficient of the ETo method: resolveCropCoefficient           *)
(* (PlantCoefficients.ts) and the turfgrass tables behind it                *)
(* (TurfgrassManager in EToAdjustmentMethod.ts).                            *)
(*                                                                          *)
(* A coefficient is in hundredths, rain in hundredths of an inch and a      *)
(* temperature in degrees Fahrenheit.  The turfgrass factors are all        *)
(* multiples of a twentieth or a tenth, so their product is exact before it *)
(* is cut to hundredths.                                                    *)
(***************************************************************************)
EXTENDS Integers, Sequences

CONSTANTS
    Warmth(_),   \* the seasonal cosine of a day, in hundredths
    None

Least(a, b) == IF a < b THEN a ELSE b
Most(a, b) == IF a > b THEN a ELSE b
Clamp(low, high, x) == Most(low, Least(high, x))
----------------------------------------------------------------------------
(* Plants *)

Plant(dormantKc, peakKc) == [dormantKc |-> dormantKc, peakKc |-> peakKc]

PLANT_KC_CATALOG ==
    [plant \in {"trees", "shrubs", "groundcover", "perennials", "annual-flowers",
                "vegetable-garden", "native"} |->
        CASE plant = "trees" -> Plant(40, 65)
          [] plant \in {"shrubs", "groundcover"} -> Plant(30, 50)
          [] plant = "perennials" -> Plant(20, 50)
          [] plant = "annual-flowers" -> Plant(20, 80)
          [] plant = "vegetable-garden" -> Plant(30, 100)
          [] plant = "native" -> Plant(15, 30)]

\* Between the winter's coefficient and the summer's, rounded.
getPlantKc(plantType, day) ==
    LET plant == PLANT_KC_CATALOG[plantType]
    IN  plant.dormantKc + ((plant.peakKc - plant.dormantKc) * Warmth(day) + 50) \div 100

\* None is a value that is not a finite number.
clampKc(value) == IF value = None THEN None ELSE Clamp(10, 150, value)
----------------------------------------------------------------------------
(* Turfgrass *)

\* The days of the last and the first frost, and of the summer's stress.
Zone(lastFrost, summerStart, summerEnd, firstFrost) ==
    [lastFrost |-> lastFrost, summerStart |-> summerStart,
     summerEnd |-> summerEnd, firstFrost |-> firstFrost]

\* The zones 3a to 8b.
USDA_ZONE_DATA ==
    <<Zone(120, 180, 240, 270), Zone(115, 180, 240, 275), Zone(110, 170, 245, 280),
      Zone(105, 170, 245, 285), Zone(100, 165, 250, 290), Zone(95, 165, 250, 295),
      Zone(90, 160, 255, 300), Zone(85, 160, 255, 305), Zone(75, 150, 265, 315),
      Zone(70, 150, 265, 320), Zone(60, 140, 275, 330), Zone(55, 140, 275, 335)>>

\* An unknown zone is 5b.
ZoneOf(zone) == USDA_ZONE_DATA[IF zone \in DOMAIN USDA_ZONE_DATA THEN zone ELSE 6]

\* In twentieths; the varieties are of their own season only.
getBaseKc(grass, variety) ==
    CASE grass = "native" -> 6
      [] grass = "cool-season" /\ variety \in DOMAIN [kentucky |-> 16, fescue |-> 13, rye |-> 15, fine |-> 11] ->
            [kentucky |-> 16, fescue |-> 13, rye |-> 15, fine |-> 11][variety]
      [] grass = "warm-season" /\ variety \in DOMAIN [bermuda |-> 15, zoysia |-> 12, augustine |-> 16, centipede |-> 10, buffalo |-> 8] ->
            [bermuda |-> 15, zoysia |-> 12, augustine |-> 16, centipede |-> 10, buffalo |-> 8][variety]
      [] OTHER -> 14

managementMultiplier(level) ==
    CASE level = "low" -> 17 [] level = "high" -> 23 [] OTHER -> 20

\* In tenths.  The days between a cool season's green-up and its summer fall to
\* the last branch, late fall's.
getSeasonalKc(grass, day, z) ==
    CASE grass = "cool-season" ->
            (CASE day < z.lastFrost -> 3
               [] day >= z.lastFrost /\ day < z.lastFrost + 60 -> 12
               [] day >= z.lastFrost + 60 /\ day \in z.summerStart .. z.summerEnd -> 7
               [] day >= z.lastFrost + 60 /\ day > z.summerEnd /\ day < z.firstFrost -> 11
               [] OTHER -> 4)
      [] grass = "warm-season" ->
            (CASE day < z.lastFrost + 30 -> 2
               [] day >= z.lastFrost + 30 /\ day < z.lastFrost + 90 -> 11
               [] day >= z.lastFrost + 90 /\ day \in z.summerStart .. z.summerEnd -> 12
               [] day > z.firstFrost - 30 -> 5
               [] OTHER -> 9)
      [] OTHER -> 10

\* In twentieths.
getTemperatureStressAdjustment(grass, temp) ==
    CASE grass = "cool-season" ->
            (CASE temp > 85 -> 26
               [] temp \in 81 .. 85 -> 23
               [] temp < 40 -> 6
               [] temp \in 40 .. 49 -> 12
               [] OTHER -> 20)
      [] grass = "warm-season" ->
            (CASE temp > 95 -> 24
               [] temp \in 86 .. 95 -> 22
               [] temp < 45 -> 2
               [] temp \in 45 .. 59 -> 8
               [] OTHER -> 20)
      [] OTHER -> 20

\* In tenths.
getMoistureAdjustment(precip) ==
    CASE precip > 100 -> 6
      [] precip \in 51 .. 100 -> 8
      [] precip \in 26 .. 50 -> 9
      [] OTHER -> 11

\* In twentieths.
getGrowthStageAdjustment(grass, day, z, temp) ==
    CASE grass = "cool-season" /\ day \in z.lastFrost .. z.lastFrost + 45 -> 24
      [] grass = "cool-season" /\ day \in z.summerEnd .. z.summerEnd + 45 -> 23
      [] grass = "cool-season" /\ temp > 80 /\ day \in z.summerStart .. z.summerEnd - 1 -> 16
      [] OTHER -> 20

calculateCropCoefficient(options, weather) ==
    LET z == ZoneOf(options.zone)
        product == getBaseKc(options.grass, options.variety)
                     * managementMultiplier(options.level)
                     * getSeasonalKc(options.grass, weather.day, z)
                     * getTemperatureStressAdjustment(options.grass, weather.temp)
                     * getMoistureAdjustment(weather.precip)
                     * getGrowthStageAdjustment(options.grass, weather.day, z, weather.temp)
    IN  Clamp(10, 120, product \div 160000)

\* A finite override, then a known plant, then the grass.
resolveCropCoefficient(options, weather) ==
    IF clampKc(options.custom) # None THEN clampKc(options.custom)
    ELSE IF options.plant \in DOMAIN PLANT_KC_CATALOG THEN getPlantKc(options.plant, weather.day)
    ELSE calculateCropCoefficient(options, weather)
=============================================================================
