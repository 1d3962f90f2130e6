---------------------------- MODULE MCEToAdjustment ----------------------------
(* Values for checking EToAdjustment. *)
EXTENDS EToAdjustment, TLC

\* The calls are alike.
Alike == Permutations(Calls)

\* (1 + cos(2 pi (day - 196) / 365)) / 2, in hundredths, for the days below.
Cosine(day) == CASE day = 196 -> 100 [] day = 120 -> 63 [] day = 255 -> 77

Two == <<"local", "OpenMeteo">>
SomeChains == {Two, <<"other", "OpenMeteo">>, <<"other">>}

Weather(eto, precip, temp, day) == [eto |-> eto, precip |-> precip, temp |-> temp, day |-> day]
SomeDays == {Weather(30, 5, 82, 196), Weather(20, 30, 55, 255)}

Forecast(kind, eto, rain) == [kind |-> kind, eto |-> eto, rain |-> rain]
SomeForecasts ==
    {Forecast("high", 28, 12), Forecast("medium", 10, 20), Forecast("gaps", 0, 9),
     Forecast("empty", 0, 0)}

Setting(baseETo, crop, custom, plant, grass, variety, level, system) ==
    [baseETo |-> baseETo, crop |-> crop, custom |-> custom, plant |-> plant, grass |-> grass,
     variety |-> variety, zone |-> 6, level |-> level, system |-> system]
SomeSettings ==
    {Setting(25, TRUE, None, "none", "cool-season", "fescue", "high", "sprinkler"),
     Setting(25, TRUE, None, "shrubs", "native", "none", "low", "drip"),
     Setting(0, TRUE, 200, "none", "mixed", "none", "low", "manual")}
=============================================================================
