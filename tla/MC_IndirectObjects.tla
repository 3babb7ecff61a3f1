----------------------- MODULE MC_IndirectObjects -----------------------
(***************************************************************************)
(* Class c1 replaced c2 (hot code replace); each has its own class object  *)
(* (k1, k2) and one static (s1, s2). Every object may start in evacuate,  *)
(* survivor or tenure space.                                               *)
(***************************************************************************)
EXTENDS IndirectObjects, TLC

CONSTANTS c1, c2, k1, k2, s1, s2

MCReplacedClass == [c \in {c1, c2} |-> IF c = c1 THEN c2 ELSE Null]
MCClassObject == [c \in {c1, c2} |-> IF c = c1 THEN k1 ELSE k2]
MCStatics == [c \in {c1, c2} |-> IF c = c1 THEN {s1} ELSE {s2}]

=============================================================================
