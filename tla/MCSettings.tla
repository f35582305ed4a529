----------------------------- MODULE MCSettings -----------------------------
(***************************************************************************)
(* SettingsManager with two admin requests, and patches that touch one     *)
(* field or several: a good and a bad value for the range, a blank and a   *)
(* new one for the texts.                                                  *)
(***************************************************************************)
EXTENDS SettingsManager

MCTexts == {"", "proxy", "x"}

MCPatches == {[interval |-> 0],
              [interval |-> 5],
              [key |-> "x"],
              [key |-> "", proxyPass |-> "", adminUser |-> "x"],
              [interval |-> 7, proxyPass |-> "x", adminUser |-> ""],
              [adminUser |-> "x", adminPass |-> "x"]}

=============================================================================
