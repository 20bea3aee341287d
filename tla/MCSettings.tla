------------------------------- MODULE MCSettings -------------------------------
(* A period that starts at midnight, one that does not, one disabled, one that *)
(* only the app can set.                                                      *)
EXTENDS Settings

At(hour, minute) == hour * 256 + minute
Night    == [start |-> 0, end |-> At(5, 30), grid |-> 1]
Morning  == [start |-> At(2, 0), end |-> At(6, 59), grid |-> 0]
Disabled == [start |-> 0, end |-> 0, grid |-> 0]
Garbled  == [start |-> At(24, 0), end |-> At(1, 60), grid |-> 0]

MCCharges == {Night, Morning, Disabled, Garbled}
MCAppCharges == {Garbled}
MCNumbers == {0, 9}
================================================================================
