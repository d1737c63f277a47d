----------------------------- MODULE MCRefundMatch -----------------------------
EXTENDS RefundMatch

CONSTANTS r1, r2, r3, p1, j1

At(a, d, m) == [amount |-> a, day |-> d, card |-> "card", merchant |-> m, group |-> nothing]

(* Two refunds of a merchant and a credit-back; a staged purchase and one   *)
(* that only Firefly has.                                                   *)
MCAbout == [x \in Refund \cup Purchase |->
    CASE x = p1 -> At(2, 100, "shop")
      [] x = j1 -> At(2, 101, "shop")
      [] x = r1 -> At(2, 104, "shop")
      [] x = r2 -> At(1, 105, "shop")
      [] x = r3 -> At(2, 106, nothing)]
=============================================================================
