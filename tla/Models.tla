------------------------------- MODULE Models -------------------------------
(***************************************************************************)
(* The shop's replies, as internal/source/uniqlo/models.go decodes them,   *)
(* and mapItem of mapper.go, which makes a candidate of a listed item.  An *)
(* optional price is a set: empty for Go's nil, or the one price, in the   *)
(* mills of Deal.tla.                                                      *)
(***************************************************************************)
EXTENDS Deal

ShopSize == [code : STRING, displayCode : STRING, name : STRING]

Item == [productID : STRING, name : STRING, base : SUBSET Int, promo : SUBSET Int,
         sizes : Seq(ShopSize), priceGroup : STRING]

AtMostOne(price) == \A p, q \in price : p = q

Colour == [l2Id : STRING, size : ShopSize, sales : BOOLEAN]

StockRow == [statusCode : STRING, quantity : Int, disableSizeChip : BOOLEAN]

-----------------------------------------------------------------------------

DisplayOrName(s) ==
    IF s.name # "" THEN s.name ELSE IF s.displayCode # "" THEN s.displayCode ELSE s.code

\* What strings.TrimSpace empties, of the names used here.
Blank == {"", " "}

\* Candidate.Validate.  The URL that mapItem builds is never blank.
Valid(c) ==
    /\ c.productID \notin Blank /\ c.name \notin Blank
    /\ c.promoPrice >= 0 /\ c.basePrice >= 0

\* The listing says nothing of the stock.
MapListingSizes(sizes) ==
    [k \in DOMAIN sizes |->
        [code |-> sizes[k].code, label |-> DisplayOrName(sizes[k]), inStock |-> FALSE]]

\* The candidates with the prices that pickPrice returns.
Priced(it) ==
    {[productID |-> it.productID, name |-> it.name, basePrice |-> base, promoPrice |-> promo,
      sizes |-> MapListingSizes(it.sizes), providerRef |-> it.priceGroup] :
        base \in it.base, promo \in it.promo}

\* Fault: the candidate is not validated.
PricedItem(it) == Priced(it)

\* What mapItem makes of an item: one candidate, or none when it returns an error.
MapItem(it) == {c \in Priced(it) : Valid(c)}

=============================================================================
