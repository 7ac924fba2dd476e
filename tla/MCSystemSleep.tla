--------------------------- MODULE MCSystemSleep ---------------------------
(* SystemSleep for TLC: the devices are interchangeable, and a sleep of    *)
(* which the properties promise nothing is not followed any further.       *)
EXTENDS SystemSleep, TLC

Interchangeable == Permutations(Devices)
PromisedSleeps  == power # "up" => ~raced /\ ~troubled
=============================================================================
