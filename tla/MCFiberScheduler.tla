-------------------------- MODULE MCFiberScheduler --------------------------
(* Small instances of FiberScheduler for TLC.                              *)
EXTENDS FiberScheduler

OneSlot == [c \in Channel |-> 1]
SlotsApart == [c \in Channel |-> IF c = CHOOSE d \in Channel : TRUE THEN 1 ELSE 2]
=============================================================================
