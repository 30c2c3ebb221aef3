------------------------------ MODULE MCListing ------------------------------
(***************************************************************************)
(* A small shop for checking Listing.tla: items that map, and items that   *)
(* mapItem refuses for one reason each.                                    *)
(***************************************************************************)
EXTENDS Listing

It(id, name, base, promo) ==
    [productID |-> id, name |-> name, base |-> base, promo |-> promo,
     sizes |-> << [code |-> "S3", displayCode |-> "", name |-> ""] >>, priceGroup |-> "00"]

Good == {It("E1", "Tee", {19900}, {9900}), It("E2", "Parka", {99900}, {0}),
         It("E3", "Belt", {14900}, {14900})}

SmallItems ==
    Good \cup {It("E4", "Cap", {14900}, {}), It("E5", " ", {14900}, {9900}),
               It("E6", "Sock", {4900}, {-1})}

=============================================================================
