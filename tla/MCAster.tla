------------------------------- MODULE MCAster -------------------------------
(* Small instances of Aster for TLC.                                        *)
EXTENDS Aster

Accounts == {"a0", "b0", "a1", "x"}
MCDigit == [a \in Accounts |->
    CASE a = "a0" -> 0 [] a = "b0" -> 2 [] a = "a1" -> 1 [] a = "x" -> -1]

\* With two followers t1 stays on follower 0 and t2 and t3 cross; an account
\* that starts with 3 cannot pay t1 and t2; t4 has an address that is not hex.
MCSender == [t \in Tx |->
    CASE t = 1 -> "a0" [] t = 2 -> "a0" [] t = 3 -> "a1" [] t = 4 -> "x"]
MCRecipient == [t \in Tx |->
    CASE t = 1 -> "b0" [] t = 2 -> "a1" [] t = 3 -> "b0" [] t = 4 -> "a0"]
MCValue == [t \in Tx |-> IF t = 2 THEN 3 ELSE 2]
List12 == <<1, 2>>
List1243 == <<1, 2, 4, 3>>
=============================================================================
