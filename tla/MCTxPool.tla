------------------------------ MODULE MCTxPool ------------------------------
(***************************************************************************)
(* Two accounts; Alice has two transactions for number 0.  Heads: g, a     *)
(* with one of them, and the heavier fork b, c.                            *)
(***************************************************************************)
EXTENDS TxPool

MCAccount == {"alice", "bob"}

MCTxn == {"a0", "A0", "a1", "b0"}

MCSender == [x \in MCTxn |-> IF x = "b0" THEN "bob" ELSE "alice"]

MCSequenceNumber == [x \in MCTxn |-> IF x = "a1" THEN 1 ELSE 0]

MCGasPrice == [x \in MCTxn |-> CASE x = "A0" -> 3 [] x = "b0" -> 2 [] OTHER -> 1]

MCExpiration == [x \in MCTxn |-> IF x = "b0" THEN 2 ELSE 9]

MCHead == {"g", "a", "b", "c"}

MCPath == [h \in MCHead |-> CASE h = "g" -> {} [] h = "a" -> {"A"} [] h = "b" -> {"B"} [] OTHER -> {"B", "C"}]

MCBody == [k \in {"A", "B", "C"} |-> CASE k = "A" -> {"a0", "b0"} [] k = "B" -> {} [] OTHER -> {"a0"}]

MCTimestamp == [h \in MCHead |-> IF h = "c" THEN 2 ELSE 1]

MCWeight == [h \in MCHead |-> CASE h = "g" -> 0 [] h = "a" -> 1 [] h = "b" -> 2 [] OTHER -> 3]
=============================================================================
