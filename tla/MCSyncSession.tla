--------------------------- MODULE MCSyncSession ---------------------------
(* Small instances of SyncSession: a desktop (1) and a phone (2).          *)
EXTENDS SyncInvariant, TLC

CONSTANTS a, b, none, s1, s2

Pair == {<<2, 1>>}
Both == {<<2, 1>>, <<1, 2>>}
Star == {<<2, 1>>, <<3, 1>>}
NoDefaults == [k \in {} |-> a]
Defaults2 == [k \in {2} |-> a]
Defaults3 == [k \in {2, 3} |-> a]
AllBodies == [d \in Device |-> {}]
PhoneKnowsNoB == [d \in Device |-> IF d = 2 THEN {b} ELSE {}]
Slots == Permutations(Slot)
=============================================================================
