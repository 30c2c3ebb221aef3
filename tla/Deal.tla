-------------------------------- MODULE Deal --------------------------------
(***************************************************************************)
(* The domain of internal/deal: sizes, candidates, the discount, the       *)
(* dedup key and the candidate's validity.  Prices are decimals in EUR;    *)
(* here a price is a natural number of mills (a tenth of a cent), so that  *)
(* the rounding in Key and the truncation in DiscountPercent are visible.  *)
(* The fields that only the digest's layout shows (URL, 30-day low, fetch  *)
(* time) are left out.                                                     *)
(***************************************************************************)
EXTENDS Integers, Sequences

Size == [code : STRING, label : STRING, inStock : BOOLEAN]

Candidate == [productID : STRING, name : STRING, basePrice : Nat,
              promoPrice : Nat, sizes : Seq(Size), providerRef : STRING]

DealKey == [productID : STRING, promoCents : Nat]

\* Round(0) of a non-negative decimal rounds a half away from zero.
Key(c) == [productID |-> c.productID, promoCents |-> (c.promoPrice + 5) \div 10]

DiscountPercent(c) ==
    IF c.basePrice = 0 \/ c.promoPrice >= c.basePrice
    THEN 0
    ELSE ((c.basePrice - c.promoPrice) * 100) \div c.basePrice

\* The positions of the sizes whose labels InStockSizeLabels returns.
InStockSizes(c) == {i \in DOMAIN c.sizes : c.sizes[i].inStock}

\* The listing's label of a size code: the last listed label that is not empty.
LabelOf(listing, s) ==
    LET named == {i \in DOMAIN listing : listing[i].code = s.code /\ listing[i].label # ""}
    IN  IF named = {} THEN s.label
        ELSE listing[CHOOSE i \in named : \A j \in named : j <= i].label

MergeLabels(listing, authoritative) ==
    [i \in DOMAIN authoritative |->
        [authoritative[i] EXCEPT !.label = LabelOf(listing, authoritative[i])]]

=============================================================================
