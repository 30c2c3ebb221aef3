------------------------------- MODULE Filter -------------------------------
(***************************************************************************)
(* The rule evaluator of internal/filter.  Rules is the rule list of a     *)
(* loaded configuration (Settings.tla).                                    *)
(***************************************************************************)
EXTENDS Deal, Settings, FiniteSets

CONSTANT Rules

ASSUME RulesAssumption == ValidRules(Rules)

MatchesName(r, d) == r.nameRegex = NoRegex \/ d.name \in r.nameRegex

\* Whether some size of the deal is one the rule asks for, by label or code.
\* Stock only counts once it is known of at least one size.
MatchesSizes(r, d) ==
    \/ r.sizes = {}
    \/ \E i \in DOMAIN d.sizes :
          /\ InStockSizes(d) = {} \/ i \in InStockSizes(d)
          /\ {d.sizes[i].label, d.sizes[i].code} \cap r.sizes # {}

MatchesMaxPrice(r, d) == r.maxPrice = 0 \/ d.promoPrice <= r.maxPrice

MatchesMinDiscount(r, d) ==
    r.minDiscount = 0 \/ DiscountPercent(d) >= r.minDiscount

RuleMatches(r, d) ==
    /\ MatchesName(r, d)
    /\ MatchesSizes(r, d)
    /\ MatchesMaxPrice(r, d)
    /\ MatchesMinDiscount(r, d)

MatchingRules(d) == {i \in DOMAIN Rules : RuleMatches(Rules[i], d)}

\* The position of the first rule that matches, 0 for the code's nil.
Match(d) ==
    IF MatchingRules(d) = {} THEN 0
    ELSE CHOOSE i \in MatchingRules(d) : \A j \in MatchingRules(d) : i <= j

=============================================================================
