------------------------- MODULE MCRainBankSeason -------------------------
(* Three polls of two banks, with missing, negative and zero fields. *)
EXTENDS RainBankSeason

MCEtos == {-1, 0, 2, NaN}
MCRains == {-1, 0, 3, 5, NaN}
=============================================================================
