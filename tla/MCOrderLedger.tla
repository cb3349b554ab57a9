--------------------------- MODULE MCOrderLedger ---------------------------
(***************************************************************************)
(* Small instances of OrderLedger.                                         *)
(***************************************************************************)
EXTENDS OrderLedger

CONSTANTS o1, o2, m1, m2

OneMarket  == [o \in Orders |-> m1]
============================================================================
