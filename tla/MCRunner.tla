------------------------------ MODULE MCRunner ------------------------------
(***************************************************************************)
(* Small shops and rule lists for checking Runner.tla.                     *)
(***************************************************************************)
EXTENDS RunnerProperties, TLC

In(code, label) == [code |-> code, label |-> label, inStock |-> TRUE]
Off(code, label) == [code |-> code, label |-> label, inStock |-> FALSE]

\* Half off, so both rules want it; listed in M and L.
Shirt == [productID |-> "E1", name |-> "Linen Shirt", basePrice |-> 39900,
          promoPrice |-> 19900, providerRef |-> "01",
          sizes |-> <<Off("S3", "M"), Off("S4", "L")>>]

\* Exactly half off; the listing gives no price group.
Socks == [productID |-> "E2", name |-> "Socks", basePrice |-> 5000,
          promoPrice |-> 2500, providerRef |-> "", sizes |-> <<Off("S9", "27-29")>>]

\* No rule wants it.
Coat == [productID |-> "E3", name |-> "Coat", basePrice |-> 99900,
         promoPrice |-> 79900, providerRef |-> "01", sizes |-> <<Off("S3", "M")>>]

\* The shirt in another colour range, at the same price.
OtherColour == [Shirt EXCEPT !.providerRef = "02"]

\* Listed without M, which the detail endpoint has in stock.
SparselyListed == [Shirt EXCEPT !.sizes = <<Off("S4", "L")>>]

ShirtsInM == [name |-> "shirts in M", nameRegex |-> {"Linen Shirt"},
              sizes |-> {"M"}, maxPrice |-> 20000, minDiscount |-> 0]

HalfOff == [name |-> "half off", nameRegex |-> NoRegex,
            sizes |-> {}, maxPrice |-> 0, minDiscount |-> 50]

TwoRules == <<ShirtsInM, HalfOff>>
OnlyShirtsInM == <<ShirtsInM>>

\* The shop's stock changes between and during runs.
CoreListing == {<<Shirt, Coat, Socks>>}
ShirtOnly == {<<Shirt>>}
ChangingAnswers ==
    <<"E1", "01">> :> {<<In("S3", ""), Off("S4", "")>>, <<Off("S3", ""), In("S4", "")>>,
                       <<Off("S3", ""), Off("S4", "")>>}
    @@ <<"E2", "00">> :> {<<In("S9", "27")>>}

OneListing == {<<Shirt, Socks>>}
TwoColours == {<<Shirt, OtherColour>>}
SparseListing == {<<SparselyListed>>}
InStockAnswers ==
    [e \in {<<"E1", "01">>, <<"E1", "02">>} |-> {<<In("S3", "M"), Off("S4", "L")>>}]
    @@ <<"E2", "00">> :> {<<In("S9", "27")>>}

NoPruning == -1

PodSymmetry == Permutations(Pods)

=============================================================================
