---------------------------- MODULE MCConfiguration ----------------------------
(* Two inverters, of models with different firmware versions, at two hosts,   *)
(* and two tabs.  "House" and "house" make the same prefix.                   *)
EXTENDS Configuration, TLC

CONSTANTS left, right

MCTabs == {left, right}
TabsAlike == Permutations(MCTabs)

MCAttached == [near |-> "KH", far |-> "H1_G2"]
MCSlug == [n \in {"House", "house", ""} |-> IF n = "" THEN "" ELSE "house"]
================================================================================
