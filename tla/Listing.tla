------------------------------- MODULE Listing -------------------------------
(***************************************************************************)
(* internal/source/uniqlo/listing.go: one FetchDeals call, page by page    *)
(* and item by item, against a shop whose listing may change between two   *)
(* requests.  A page request answers or fails as HttpClient.tla says of    *)
(* getJSON; the shop answers with the items at the offset, the listing's   *)
(* length at that moment (Total) and the number of the items (Count),      *)
(* which a shop may also leave out.                                        *)
(*                                                                         *)
(* An item moved by the shop is an item removed and inserted again.  What  *)
(* happens before the first page and after the last does not matter, nor   *)
(* what happens while a page is mapped and not after it.                   *)
(***************************************************************************)
EXTENDS Models, SequencesExt

CONSTANTS
    Items,      \* what the shop may list
    PageSize,   \* the limit of a page request, and of a page
    MaxListed,  \* bound of the model: the listing's length at first
    MaxChanges  \* bound of the model

ASSUME ListingAssumption ==
    /\ \A it \in Items : it \in Item /\ AtMostOne(it.base) /\ AtMostOne(it.promo)
    /\ PageSize \in Nat \ {0} /\ MaxListed \in Nat /\ MaxChanges \in Nat

VARIABLES
    pc,         \* "fetch" or "map", then "done" or "failed"
    shop,       \* the listing now, a sequence without repetition
    counts,     \* whether the shop's pages carry their Count
    offset,     \* of the page that is fetched or mapped
    page,       \* its items
    next,       \* the item that is mapped
    count, total, \* the page's pagination
    out,        \* the items whose candidates the call has so far
    stayed,     \* the items listed at every moment of the call
    insertions, removals    \* how many of each the listing has seen

reply == <<page, count, total>>
shopVars == <<shop, counts, stayed, insertions, removals>>
vars == <<pc, offset, reply, next, out, shopVars>>

Mappable == {i \in Items : MapItem(i) # {}}

TypeOK ==
    /\ pc \in {"fetch", "map", "done", "failed"}
    /\ shop \in Seq(Items) /\ IsInjective(shop)
    /\ counts \in BOOLEAN
    /\ offset \in Nat /\ count \in Nat /\ total \in Nat /\ next \in Nat \ {0}
    /\ page \in Seq(Items) /\ out \in Seq(Mappable)
    /\ stayed \subseteq ToSet(shop)
    /\ insertions \in Nat /\ removals \in Nat

-----------------------------------------------------------------------------

Init ==
    /\ pc = "fetch" /\ offset = 0 /\ out = << >>
    /\ page = << >> /\ count = 0 /\ total = 0 /\ next = 1
    /\ shop \in {s \in SeqOf(Items, MaxListed) : IsInjective(s)}
    /\ counts \in BOOLEAN
    /\ stayed = ToSet(shop)
    /\ insertions = 0 /\ removals = 0

Smaller(a, b) == IF a < b THEN a ELSE b

\* SubSeq of a range beyond the end is empty, like the shop's page.
Page == SubSeq(shop, offset + 1, Smaller(offset + PageSize, Len(shop)))

EmptyPage ==
    /\ pc = "fetch" /\ Page = << >>
    /\ pc' = "done"
    /\ UNCHANGED <<offset, reply, next, out, shopVars>>

FetchPage ==
    /\ pc = "fetch" /\ Page # << >>
    /\ pc' = "map" /\ next' = 1
    /\ page' = Page /\ total' = Len(shop)
    /\ count' = IF counts THEN Len(Page) ELSE 0
    /\ UNCHANGED <<offset, out, shopVars>>

\* One failed page fails the call, what it has read is dropped.
FetchPageFails ==
    /\ pc = "fetch" /\ pc' = "failed"
    /\ out' = << >>
    /\ UNCHANGED <<offset, reply, next, shopVars>>

Visiting == pc = "map" /\ next <= Len(page) /\ next' = next + 1

\* Fault: malformed items are passed on.
AppendEvery ==
    /\ Visiting
    /\ out' = Append(out, page[next])
    /\ UNCHANGED <<pc, offset, reply, shopVars>>

\* A malformed item is skipped.
AppendMapped ==
    /\ Visiting
    /\ out' = IF page[next] \in Mappable THEN Append(out, page[next]) ELSE out
    /\ UNCHANGED <<pc, offset, reply, shopVars>>

\* The loop goes on with the offset, or is left.
Advance(by, more) ==
    /\ pc = "map" /\ next > Len(page)
    /\ offset' = offset + by
    /\ pc' = IF more THEN "fetch" ELSE "done"
    /\ UNCHANGED <<reply, next, out, shopVars>>

\* Fault: the offset counts the items kept, not the items listed.
PageMappedCountingKept ==
    LET kept == Cardinality({k \in DOMAIN page : page[k] \in Mappable})
    IN  Advance(Smaller(kept, count), offset + count < total /\ count # 0)

\* Fault: the last item is taken for the end of the listing.
PageMappedStoppingEarly == Advance(count, offset + count < total - 1 /\ count # 0)

\* Fault: a page without a Count is asked for again.
PageMappedUncounted == Advance(count, offset + count < total)

PageMapped == Advance(count, offset + count < total /\ count # 0)

(* The shop.                                                               *)

ShopInserts(i, at) ==
    /\ pc = "fetch" /\ insertions + removals < MaxChanges
    /\ i \notin ToSet(shop)
    /\ shop' = InsertAt(shop, at, i)
    /\ insertions' = insertions + 1
    /\ UNCHANGED <<pc, offset, reply, next, out, counts, stayed, removals>>

ShopRemoves(at) ==
    /\ pc = "fetch" /\ insertions + removals < MaxChanges
    /\ shop' = RemoveAt(shop, at)
    /\ stayed' = stayed \ {shop[at]}
    /\ removals' = removals + 1
    /\ UNCHANGED <<pc, offset, reply, next, out, counts, insertions>>

Advancing == EmptyPage \/ FetchPage \/ AppendMapped \/ PageMapped

ShopChanges ==
    \/ \E i \in Items, at \in 1 .. Len(shop) + 1 : ShopInserts(i, at)
    \/ \E at \in DOMAIN shop : ShopRemoves(at)

Next == Advancing \/ FetchPageFails \/ ShopChanges

Spec == Init /\ [][Next]_vars

\* A getJSON call returns (HttpClient.tla).  It need not fail: a loop that gets
\* nowhere is not saved by an error.
FairSpec == Spec /\ WF_vars(Advancing)

-----------------------------------------------------------------------------

(***************************************************************************)
(* What the call returns lacks an item that was listed throughout only     *)
(* because another one was removed before it, and one removal costs at     *)
(* most one item; a shop that only adds items is listed completely.  An    *)
(* item that cannot be mapped is dropped and costs no other.               *)
(***************************************************************************)
Missed == (stayed \cap Mappable) \ ToSet(out)

MissesNeedRemovals == pc = "done" /\ counts => Cardinality(Missed) <= removals

(***************************************************************************)
(* The call returns an item twice only because one was inserted before it, *)
(* and one insertion costs at most one repeat.  A repeat is two candidates *)
(* with one key, which the pipeline announces twice in one digest.         *)
(***************************************************************************)
RepeatsNeedInsertions == Len(out) - Cardinality(ToSet(out)) <= insertions

(***************************************************************************)
(* What the filter, the store and the mail compute with is a candidate of  *)
(* theirs: it has both prices, neither is negative, and it has a name.     *)
(***************************************************************************)
OnlyValidDeals ==
    \A k \in DOMAIN out : \E c \in MapItem(out[k]) :
        /\ c \in Candidate /\ {c.productID, c.name} \cap Blank = {}
        /\ \A i \in DOMAIN c.sizes : ~c.sizes[i].inStock

(***************************************************************************)
(* The loop ends, though the offset chases a listing that grows, and       *)
(* though the shop may not say how far a page goes.                        *)
(***************************************************************************)
FetchEnds == <>(pc \in {"done", "failed"})

=============================================================================
