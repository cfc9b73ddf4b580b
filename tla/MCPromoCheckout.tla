--------------------------- MODULE MCPromoCheckout --------------------------
(* PromoCheckout with two users, a scarce and a free discount code and an    *)
(* instant one, and a Stars and an external order.                           *)
EXTENDS PromoCheckout, TLC

CONSTANTS u1, u2, scarce, plenty, gift, p1, p2, s1, s2

MCLimit == scarce :> 1 @@ plenty :> 3 @@ gift :> 2
MCUserLimit == scarce :> 1 @@ plenty :> 2 @@ gift :> 1
MCFits == {scarce, plenty} \X {p1, p2} \ {<<plenty, p2>>}
Interchangeable == Permutations(Users) \cup Permutations(Sessions)
=============================================================================
