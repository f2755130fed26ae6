---------------------------- MODULE MC_RulesParser ----------------------------
(* Model-checking instance of RulesParser: two name characters, texts of   *)
(* up to seven characters (six for the strict run).                      *)
EXTENDS RulesParser

MCIdentChars == {"a", "b"}

=============================================================================
