------------------------------- MODULE MCCardKind -------------------------------
EXTENDS Ladder

(* Two accounts of the person's, and one that only the past has until the     *)
(* mirror has it, and that is archived and renamed; a payee and a payer of   *)
(* one name; a payee called like a card.                                    *)
MCAccount == {"bank", "card", "wallet", "shop", "payer", "twin", "friend"}
MCName == {"Bank", "Card", "Wallet", "Purse", "Shop", "Friend", "New"}
MCNameOf == [a \in MCAccount |->
    CASE a = "bank" -> "Bank" [] a \in {"card", "twin"} -> "Card" [] a = "wallet" -> "Wallet"
      [] a \in {"shop", "payer"} -> "Shop" [] a = "friend" -> "Friend"]
MCKindOf == [a \in MCAccount |->
    IF a \in {"bank", "card", "wallet"} THEN "asset"
    ELSE IF a \in {"shop", "twin"} THEN "expense" ELSE "revenue"]
MCUnseen == {"wallet"}
MCClosing == {"wallet"}
MCRenames == {<<"wallet", "Purse">>}
MCUsed == {"bank", "shop", "friend", "twin", "wallet"}
MCTyped == {"", "Bank", "Shop", "New"}

(* Fold names one of the accounts, or the new one, or none.  A refund's shop  *)
(* is a payer already, or not.                                              *)
MCFoldName == {"", "Bank", "Wallet"}
MCShops == {"Shop", "New"}

(* The lookup points at a payee from one of the accounts.  Money out went to *)
(* another, and money in came from a payer once, and twice without one.  The   *)
(* model may be sure of a payee, of a new one, of a transfer (rightly or      *)
(* not), say an account that does not exist on that side, say a type that is  *)
(* none, or be unsure.                                                      *)
MCLookups == {NoHint, [src |-> "card", dst |-> "shop"], [src |-> "card", dst |-> "wallet"]}
MCBooked(i, t, src, dst) == [id |-> i, type |-> t, src |-> src, dst |-> dst]
MCHistory == {MCBooked(1, "withdrawal", "bank", "twin"), MCBooked(2, "deposit", "friend", "bank"),
              MCBooked(3, "deposit", NoId, "bank"), MCBooked(4, "deposit", NoId, "bank")}
MCSays(t, s, src, dst, n) == [type |-> t, sure |-> s, src |-> src, dst |-> dst, name |-> n]
MCAnswers == [d \in {"in", "out"} |->
    {MCSays(t, FALSE, NoId, NoId, "") : t \in {"no model", "error"}} \cup
    IF d = "in"
    THEN {MCSays(t, s, src, "card", "") : t \in {"deposit", "transfer"}, s \in BOOLEAN, src \in {"payer", "friend", "card", "shop", NoId}}
    ELSE {MCSays(t, s, NoId, dst, "New") : t \in {"none", "transfer"}, s \in BOOLEAN, dst \in {"shop", "twin", "card", "payer", NoId}}]
=============================================================================
