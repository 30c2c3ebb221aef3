---------------------------- MODULE ListingProofs ----------------------------
(***************************************************************************)
(* TLAPS proofs about Listing.tla, for every shop, page size and number of *)
(* changes: what a listing that moves under the call can cost.             *)
(***************************************************************************)
EXTENDS Listing, SequenceTheorems, FiniteSetTheorems, TLAPS

\* The items of o that lie beyond position f of the listing s: they will be
\* returned again.
Ahead(s, o, f) == {x \in ToSet(o) : \E i \in DOMAIN s : i > f /\ s[i] = x}

\* The items of st that lie up to position f, and are not in o: the call has
\* passed them.
Lost(s, st, o, f) ==
    {x \in (st \cap Mappable) \ ToSet(o) : \E i \in DOMAIN s : i <= f /\ s[i] = x}

\* The positions of the listing that the call has read.
front == IF pc = "map" THEN offset + next - 1 ELSE offset

AtMost(S, n) == IsFiniteSet(S) /\ Cardinality(S) <= n

\* With what was returned and what will be again, the repeats are at most n.
RepeatsAtMost(s, o, f, n) ==
    /\ IsFiniteSet(ToSet(o)) /\ IsFiniteSet(Ahead(s, o, f))
    /\ Len(o) - Cardinality(ToSet(o)) + Cardinality(Ahead(s, o, f)) <= n

PageInv ==
    pc = "map" =>
        /\ offset + Len(page) <= Len(shop) /\ page # << >> /\ next <= Len(page) + 1
        /\ \A k \in DOMAIN page : page[k] = shop[offset + k]
        /\ total = Len(shop) /\ count = IF counts THEN Len(page) ELSE 0

RepeatInv ==
    /\ pc \in {"fetch", "map"} => RepeatsAtMost(shop, out, front, insertions)
    /\ RepeatsNeedInsertions

LossInv ==
    /\ pc \in {"fetch", "map"} => AtMost(Lost(shop, stayed, out, front), removals)
    /\ MissesNeedRemovals

IInv == TypeOK /\ PageInv /\ RepeatInv /\ LossInv

-----------------------------------------------------------------------------
(* Sets of at most n.                                                      *)

LEMMA AtMostSubset ==
    ASSUME NEW S, NEW n \in Nat, AtMost(S, n), NEW T \in SUBSET S
    PROVE  AtMost(T, n)
BY FS_Subset, FS_CardinalityType DEF AtMost

LEMMA AtMostOneMore ==
    ASSUME NEW S, NEW n \in Nat, AtMost(S, n), NEW x, NEW T \in SUBSET (S \cup {x})
    PROVE  AtMost(T, n + 1)
<1>1. IsFiniteSet(S \cup {x}) /\ Cardinality(S \cup {x}) <= n + 1
  <2>1. IsFiniteSet(S) /\ Cardinality(S) <= n
    BY DEF AtMost
  <2>2. Cardinality(S) \in Nat
    BY <2>1, FS_CardinalityType
  <2> QED
    BY <2>1, <2>2, FS_AddElement
<1> QED
  BY <1>1, FS_Subset, FS_CardinalityType DEF AtMost

-----------------------------------------------------------------------------
(* The listing.                                                            *)

Inserted(s, at, e, t) ==
    /\ t \in Seq(Items) /\ Len(t) = Len(s) + 1
    /\ \A i \in 1 .. Len(t) :
          t[i] = IF i < at THEN s[i] ELSE IF i = at THEN e ELSE s[i - 1]

Removed(s, at, t) ==
    /\ t \in Seq(Items) /\ Len(t) = Len(s) - 1
    /\ \A i \in 1 .. Len(t) : t[i] = IF i < at THEN s[i] ELSE s[i + 1]

LEMMA Concat ==
    ASSUME NEW a \in Seq(Items), NEW b \in Seq(Items)
    PROVE  /\ a \o b \in Seq(Items) /\ Len(a \o b) = Len(a) + Len(b)
           /\ \A i \in 1 .. Len(a) : (a \o b)[i] = a[i]
           /\ \A i \in Len(a) + 1 .. Len(a) + Len(b) : (a \o b)[i] = b[i - Len(a)]
<1>1. Len(a) \in Nat /\ Len(b) \in Nat
  OBVIOUS
<1>2. a \o b \in Seq(Items) /\ Len(a \o b) = Len(a) + Len(b)
  BY ConcatProperties
<1>3. \A i \in 1 .. Len(a) + Len(b) :
          (a \o b)[i] = IF i <= Len(a) THEN a[i] ELSE b[i - Len(a)]
  BY ConcatProperties
<1> QED
  BY <1>1, <1>2, <1>3

LEMMA InsertAtInserts ==
    ASSUME NEW s \in Seq(Items), NEW at \in 1 .. Len(s) + 1, NEW e \in Items
    PROVE  Inserted(s, at, e, InsertAt(s, at, e))
<1> DEFINE a == SubSeq(s, 1, at - 1)
           b == << e >>
           c == SubSeq(s, at, Len(s))
           t == InsertAt(s, at, e)
<1>1. a \in Seq(Items) /\ Len(a) = at - 1 /\ \A i \in 1 .. at - 1 : a[i] = s[i]
  BY SubSeqProperties
<1>2. c \in Seq(Items) /\ Len(c) = Len(s) + 1 - at
      /\ \A i \in 1 .. Len(s) + 1 - at : c[i] = s[at + i - 1]
  BY SubSeqProperties
<1>3. b \in Seq(Items) /\ Len(b) = 1 /\ b[1] = e
  OBVIOUS
<1>4. t = (a \o b) \o c
  BY DEF InsertAt
<1> HIDE DEF a, b, c, t
<1> DEFINE d == a \o b
<1>5. /\ d \in Seq(Items) /\ Len(d) = at
      /\ \A i \in 1 .. at - 1 : d[i] = s[i]
      /\ d[at] = e
  <2>1. at \in Int /\ at \in (at - 1) + 1 .. (at - 1) + 1 /\ at - (at - 1) = 1
    OBVIOUS
  <2>2. a \in Seq(Items) /\ b \in Seq(Items)
    BY <1>1, <1>3
  <2>3. /\ a \o b \in Seq(Items) /\ Len(a \o b) = Len(a) + Len(b)
        /\ \A i \in 1 .. Len(a) : (a \o b)[i] = a[i]
        /\ \A i \in Len(a) + 1 .. Len(a) + Len(b) : (a \o b)[i] = b[i - Len(a)]
    BY ONLY <2>2, Concat
  <2>4. /\ d \in Seq(Items) /\ Len(d) = Len(a) + Len(b)
        /\ \A i \in 1 .. Len(a) : d[i] = a[i]
        /\ d[at] = b[at - (at - 1)]
    BY <1>1, <1>3, <2>1, <2>3
  <2> HIDE DEF d
  <2>5. Len(d) = at /\ d[at] = e
    BY <1>1, <1>3, <2>1, <2>4
  <2>6. \A i \in 1 .. at - 1 : d[i] = s[i]
    BY <1>1, <2>4
  <2> QED
    BY <2>4, <2>5, <2>6
<1> HIDE DEF d
<1>6. /\ t \in Seq(Items) /\ Len(t) = Len(s) + 1
      /\ \A i \in 1 .. at : t[i] = d[i]
      /\ \A i \in at + 1 .. Len(s) + 1 : t[i] = c[i - at]
  <2>1. t = d \o c
    BY <1>4 DEF d
  <2>2. d \in Seq(Items) /\ c \in Seq(Items)
    BY <1>2, <1>5
  <2>3. /\ d \o c \in Seq(Items) /\ Len(d \o c) = Len(d) + Len(c)
        /\ \A i \in 1 .. Len(d) : (d \o c)[i] = d[i]
        /\ \A i \in Len(d) + 1 .. Len(d) + Len(c) : (d \o c)[i] = c[i - Len(d)]
    BY ONLY <2>2, Concat
  <2>4. /\ t \in Seq(Items) /\ Len(t) = Len(d) + Len(c)
        /\ \A i \in 1 .. Len(d) : t[i] = d[i]
        /\ \A i \in Len(d) + 1 .. Len(d) + Len(c) : t[i] = c[i - Len(d)]
    BY ONLY <2>1, <2>3
  <2>5. Len(d) = at /\ Len(d) + Len(c) = Len(s) + 1
    BY <1>2, <1>5
  <2> QED
    BY ONLY <2>4, <2>5
<1>7. ASSUME NEW i \in 1 .. Len(t)
      PROVE  t[i] = IF i < at THEN s[i] ELSE IF i = at THEN e ELSE s[i - 1]
  <2>1. CASE i < at
    <3>1. i \in 1 .. at - 1 /\ i \in 1 .. at
      BY <1>6, <2>1
    <3> QED
      BY <1>5, <1>6, <2>1, <3>1
  <2>2. CASE i = at
    BY <1>5, <1>6, <2>2
  <2>3. CASE i > at
    <3>1. i - at \in 1 .. Len(s) + 1 - at /\ at + (i - at) - 1 = i - 1
      BY <1>6, <2>3
    <3> QED
      BY <1>2, <1>6, <2>3, <3>1
  <2> QED
    BY <1>6, <2>1, <2>2, <2>3
<1> QED
  BY <1>6, <1>7 DEF Inserted, t

LEMMA RemoveAtRemoves ==
    ASSUME NEW s \in Seq(Items), NEW at \in 1 .. Len(s)
    PROVE  Removed(s, at, RemoveAt(s, at))
<1> DEFINE a == SubSeq(s, 1, at - 1)
           c == SubSeq(s, at + 1, Len(s))
           t == RemoveAt(s, at)
<1>1. a \in Seq(Items) /\ Len(a) = at - 1 /\ \A i \in 1 .. at - 1 : a[i] = s[i]
  BY SubSeqProperties
<1>2. c \in Seq(Items) /\ Len(c) = Len(s) - at
      /\ \A i \in 1 .. Len(s) - at : c[i] = s[at + i]
  BY SubSeqProperties
<1>3. t = a \o c
  BY DEF RemoveAt
<1> HIDE DEF a, c, t
<1>4. /\ t \in Seq(Items) /\ Len(t) = Len(s) - 1
      /\ \A i \in 1 .. at - 1 : t[i] = a[i]
      /\ \A i \in at .. Len(s) - 1 : t[i] = c[i - (at - 1)]
  <2>1. a \in Seq(Items) /\ c \in Seq(Items)
    BY <1>1, <1>2
  <2>2. /\ a \o c \in Seq(Items) /\ Len(a \o c) = Len(a) + Len(c)
        /\ \A i \in 1 .. Len(a) : (a \o c)[i] = a[i]
        /\ \A i \in Len(a) + 1 .. Len(a) + Len(c) : (a \o c)[i] = c[i - Len(a)]
    BY ONLY <2>1, Concat
  <2>3. /\ t \in Seq(Items) /\ Len(t) = Len(a) + Len(c)
        /\ \A i \in 1 .. Len(a) : t[i] = a[i]
        /\ \A i \in Len(a) + 1 .. Len(a) + Len(c) : t[i] = c[i - Len(a)]
    BY ONLY <1>3, <2>2
  <2>4. Len(a) = at - 1 /\ Len(a) + 1 = at /\ Len(a) + Len(c) = Len(s) - 1
    BY <1>1, <1>2
  <2> QED
    BY ONLY <2>3, <2>4
<1>5. ASSUME NEW i \in 1 .. Len(t)
      PROVE  t[i] = IF i < at THEN s[i] ELSE s[i + 1]
  <2>1. CASE i < at
    BY <1>1, <1>4, <2>1
  <2>2. CASE i >= at
    <3>1. i - (at - 1) \in 1 .. Len(s) - at /\ at + (i - (at - 1)) = i + 1
      BY <1>4, <2>2
    <3> QED
      BY <1>2, <1>4, <2>2, <3>1
  <2> QED
    BY <1>4, <2>1, <2>2
<1> QED
  BY <1>4, <1>5 DEF Removed, t

-----------------------------------------------------------------------------
(* An insertion brings at most one item before the call again, and lets it *)
(* pass none.                                                              *)

LEMMA InsertedItems ==
    ASSUME NEW s \in Seq(Items), IsInjective(s), NEW at \in 1 .. Len(s) + 1,
           NEW e \in Items, e \notin ToSet(s), NEW t, Inserted(s, at, e, t)
    PROVE  IsInjective(t) /\ ToSet(s) \subseteq ToSet(t)
<1>1. /\ \A i \in DOMAIN s : s[i] # e
      /\ \A i, j \in DOMAIN s : s[i] = s[j] => i = j
      /\ DOMAIN s = 1 .. Len(s) /\ Len(s) \in Nat
  BY DEF ToSet, IsInjective
<1>2. /\ DOMAIN t = 1 .. Len(s) + 1
      /\ \A i \in 1 .. Len(s) + 1 :
            t[i] = IF i < at THEN s[i] ELSE IF i = at THEN e ELSE s[i - 1]
  BY DEF Inserted
<1>3. ASSUME NEW i \in DOMAIN t, NEW j \in DOMAIN t, t[i] = t[j] PROVE i = j
  <2>1. /\ i < at => i \in DOMAIN s
        /\ i > at => i - 1 \in DOMAIN s
        /\ j < at => j \in DOMAIN s
        /\ j > at => j - 1 \in DOMAIN s
    BY <1>1, <1>2
  <2> QED
    BY <1>1, <1>2, <1>3, <2>1
<1>4. ASSUME NEW i \in DOMAIN s PROVE \E j \in DOMAIN t : t[j] = s[i]
  <2>1. CASE i < at
    BY <1>1, <1>2, <2>1
  <2>2. CASE i >= at
    <3>1. i + 1 \in DOMAIN t /\ i + 1 > at /\ (i + 1) - 1 = i
      BY <1>1, <1>2, <2>2
    <3> QED
      BY <1>2, <3>1
  <2> QED
    BY <1>1, <2>1, <2>2
<1> QED
  BY <1>3, <1>4 DEF IsInjective, ToSet

LEMMA InsertedAhead ==
    ASSUME NEW s \in Seq(Items), NEW at \in 1 .. Len(s) + 1,
           NEW e, NEW t, Inserted(s, at, e, t), NEW o, NEW f \in Nat
    PROVE  \E y : Ahead(t, o, f) \subseteq Ahead(s, o, f) \cup {y}
<1> DEFINE y == IF at > f THEN e ELSE s[f]
<1>1. /\ DOMAIN t = 1 .. Len(s) + 1 /\ DOMAIN s = 1 .. Len(s) /\ Len(s) \in Nat
      /\ \A i \in 1 .. Len(s) + 1 :
            t[i] = IF i < at THEN s[i] ELSE IF i = at THEN e ELSE s[i - 1]
  BY DEF Inserted
<1>2. ASSUME NEW i \in DOMAIN t, i > f, t[i] # y
      PROVE  \E j \in DOMAIN s : j > f /\ s[j] = t[i]
  <2>1. CASE i < at
    BY <1>1, <1>2, <2>1
  <2>2. CASE i = at
    BY <1>1, <1>2, <2>2
  <2>3. CASE i > at
    <3>1. t[i] = s[i - 1] /\ i - 1 \in DOMAIN s
      BY <1>1, <2>3
    <3>2. i - 1 # f
      BY <1>1, <1>2, <2>3, <3>1
    <3> QED
      BY <1>1, <1>2, <3>1, <3>2
  <2> QED
    BY <1>1, <2>1, <2>2, <2>3
<1> HIDE DEF y
<1>3. Ahead(t, o, f) \subseteq Ahead(s, o, f) \cup {y}
  BY <1>2 DEF Ahead
<1> QED
  BY <1>3

LEMMA InsertedLost ==
    ASSUME NEW s \in Seq(Items), NEW at \in 1 .. Len(s) + 1,
           NEW e, e \notin ToSet(s), NEW t, Inserted(s, at, e, t),
           NEW st \in SUBSET ToSet(s), NEW o, NEW f \in Nat
    PROVE  Lost(t, st, o, f) \subseteq Lost(s, st, o, f)
<1>1. /\ DOMAIN t = 1 .. Len(s) + 1 /\ DOMAIN s = 1 .. Len(s) /\ Len(s) \in Nat
      /\ \A i \in 1 .. Len(s) + 1 :
            t[i] = IF i < at THEN s[i] ELSE IF i = at THEN e ELSE s[i - 1]
  BY DEF Inserted
<1>2. ASSUME NEW i \in DOMAIN t, i <= f, t[i] # e
      PROVE  \E j \in DOMAIN s : j <= f /\ s[j] = t[i]
  <2>1. CASE i < at
    BY <1>1, <1>2, <2>1
  <2>2. CASE i > at
    <3>1. t[i] = s[i - 1] /\ i - 1 \in DOMAIN s /\ i - 1 <= f
      BY <1>1, <1>2, <2>2
    <3> QED
      BY <3>1
  <2> QED
    BY <1>1, <1>2, <2>1, <2>2
<1>3. e \notin st
  OBVIOUS
<1> QED
  BY <1>2, <1>3 DEF Lost

(* A removal brings none before the call again, and lets it pass at most   *)
(* one item.                                                               *)

LEMMA RemovedItems ==
    ASSUME NEW s \in Seq(Items), IsInjective(s), NEW at \in 1 .. Len(s),
           NEW t, Removed(s, at, t)
    PROVE  IsInjective(t) /\ ToSet(s) \ {s[at]} \subseteq ToSet(t)
<1>1. /\ \A i, j \in DOMAIN s : s[i] = s[j] => i = j
      /\ DOMAIN s = 1 .. Len(s) /\ Len(s) \in Nat
  BY DEF IsInjective
<1>2. /\ DOMAIN t = 1 .. Len(s) - 1
      /\ \A i \in 1 .. Len(s) - 1 : t[i] = IF i < at THEN s[i] ELSE s[i + 1]
  BY DEF Removed
<1>3. ASSUME NEW i \in DOMAIN t, NEW j \in DOMAIN t, t[i] = t[j] PROVE i = j
  <2>1. i \in DOMAIN s /\ i + 1 \in DOMAIN s /\ j \in DOMAIN s /\ j + 1 \in DOMAIN s
    BY <1>1, <1>2
  <2> QED
    BY <1>1, <1>2, <1>3, <2>1
<1>4. ASSUME NEW i \in DOMAIN s, i # at PROVE \E j \in DOMAIN t : t[j] = s[i]
  <2>1. CASE i < at
    BY <1>1, <1>2, <2>1
  <2>2. CASE i > at
    <3>1. i - 1 \in DOMAIN t /\ ~(i - 1 < at) /\ (i - 1) + 1 = i
      BY <1>1, <1>2, <2>2
    <3> QED
      BY <1>2, <3>1
  <2> QED
    BY <1>1, <1>4, <2>1, <2>2
<1> QED
  BY <1>3, <1>4 DEF IsInjective, ToSet

LEMMA RemovedAhead ==
    ASSUME NEW s \in Seq(Items), NEW at \in 1 .. Len(s), NEW t, Removed(s, at, t),
           NEW o, NEW f \in Nat
    PROVE  Ahead(t, o, f) \subseteq Ahead(s, o, f)
<1>1. /\ DOMAIN t = 1 .. Len(s) - 1 /\ DOMAIN s = 1 .. Len(s) /\ Len(s) \in Nat
      /\ \A i \in 1 .. Len(s) - 1 : t[i] = IF i < at THEN s[i] ELSE s[i + 1]
  BY DEF Removed
<1>2. ASSUME NEW i \in DOMAIN t, i > f PROVE \E j \in DOMAIN s : j > f /\ s[j] = t[i]
  <2>1. i \in DOMAIN s /\ i + 1 \in DOMAIN s /\ i + 1 > f
    BY <1>1, <1>2
  <2> QED
    BY <1>1, <1>2, <2>1
<1> QED
  BY <1>2 DEF Ahead

LEMMA RemovedLost ==
    ASSUME NEW s \in Seq(Items), NEW at \in 1 .. Len(s), NEW t, Removed(s, at, t),
           NEW st, NEW o, NEW f \in Nat
    PROVE  \E y : Lost(t, st \ {s[at]}, o, f) \subseteq Lost(s, st, o, f) \cup {y}
<1>1. /\ DOMAIN t = 1 .. Len(s) - 1 /\ DOMAIN s = 1 .. Len(s) /\ Len(s) \in Nat
      /\ \A i \in 1 .. Len(s) - 1 : t[i] = IF i < at THEN s[i] ELSE s[i + 1]
  BY DEF Removed
<1>2. ASSUME NEW i \in DOMAIN t, i <= f, t[i] # s[f + 1]
      PROVE  \E j \in DOMAIN s : j <= f /\ s[j] = t[i]
  <2>1. CASE i < at
    BY <1>1, <1>2, <2>1
  <2>2. CASE i >= at
    <3>1. t[i] = s[i + 1] /\ i + 1 \in DOMAIN s
      BY <1>1, <2>2
    <3>2. i # f
      BY <1>2, <3>1
    <3> QED
      BY <1>1, <1>2, <3>1, <3>2
  <2> QED
    BY <1>1, <2>1, <2>2
<1>3. Lost(t, st \ {s[at]}, o, f) \subseteq Lost(s, st, o, f) \cup {s[f + 1]}
  BY <1>2 DEF Lost
<1> QED
  BY <1>3

-----------------------------------------------------------------------------
(* An item read.                                                           *)

LEMMA AppendedItem ==
    ASSUME NEW o \in Seq(Mappable), NEW x \in Mappable, NEW p, p = Append(o, x)
    PROVE  p \in Seq(Mappable) /\ Len(p) = Len(o) + 1 /\ ToSet(p) = ToSet(o) \cup {x}
<1>1. /\ p \in Seq(Mappable) /\ Len(p) = Len(o) + 1 /\ Len(o) \in Nat
      /\ \A i \in 1 .. Len(o) : p[i] = o[i]
      /\ p[Len(o) + 1] = x
  BY AppendProperties
<1>2. DOMAIN o = 1 .. Len(o) /\ DOMAIN p = (1 .. Len(o)) \cup {Len(o) + 1}
  BY <1>1
<1> QED
  BY <1>1, <1>2 DEF ToSet

LEMMA ReadAgain ==
    ASSUME NEW s \in Seq(Items), IsInjective(s), NEW f \in Nat, f + 1 \in DOMAIN s,
           NEW o, NEW p, ToSet(p) = ToSet(o) \cup {s[f + 1]}
    PROVE  Ahead(s, p, f + 1) = Ahead(s, o, f) \ {s[f + 1]}
<1>1. \A i \in DOMAIN s : i \in Nat /\ (s[i] = s[f + 1] <=> i = f + 1)
  BY DEF IsInjective
<1>2. \A i \in DOMAIN s : i > f + 1 <=> i > f /\ i # f + 1
  BY <1>1
<1> QED
  BY <1>1, <1>2 DEF Ahead

LEMMA ReadSkipped ==
    ASSUME NEW s \in Seq(Items), NEW f \in Nat, NEW o
    PROVE  Ahead(s, o, f + 1) \subseteq Ahead(s, o, f)
<1>1. \A i \in DOMAIN s : i > f + 1 => i > f
  OBVIOUS
<1> QED
  BY <1>1 DEF Ahead

LEMMA ReadLost ==
    ASSUME NEW s \in Seq(Items), NEW f \in Nat, NEW o, NEW p, NEW st,
           ToSet(o) \subseteq ToSet(p),
           s[f + 1] \in Mappable => s[f + 1] \in ToSet(p)
    PROVE  Lost(s, st, p, f + 1) \subseteq Lost(s, st, o, f)
<1>1. \A i \in DOMAIN s : i <= f + 1 <=> i <= f \/ i = f + 1
  OBVIOUS
<1> QED
  BY <1>1 DEF Lost

(***************************************************************************)
(* An item appended is a repeat that was ahead, or new to the result.      *)
(***************************************************************************)
LEMMA AppendRepeats ==
    ASSUME NEW s \in Seq(Items), IsInjective(s), NEW f \in Nat, f + 1 \in DOMAIN s,
           NEW o \in Seq(Mappable), NEW n \in Nat, RepeatsAtMost(s, o, f, n),
           s[f + 1] \in Mappable, NEW p, p = Append(o, s[f + 1])
    PROVE  RepeatsAtMost(s, p, f + 1, n)
<1> DEFINE x == s[f + 1]
<1>1. Len(p) = Len(o) + 1 /\ ToSet(p) = ToSet(o) \cup {x} /\ Len(o) \in Nat
  <2>1. x \in Mappable /\ p = Append(o, x) /\ Len(o) \in Nat
    OBVIOUS
  <2> HIDE DEF x
  <2>2. Len(p) = Len(o) + 1 /\ ToSet(p) = ToSet(o) \cup {x}
    BY <2>1, AppendedItem
  <2> QED
    BY <2>1, <2>2
<1>2. Ahead(s, p, f + 1) = Ahead(s, o, f) \ {x}
  BY <1>1, ReadAgain
<1>3. /\ IsFiniteSet(ToSet(o)) /\ IsFiniteSet(Ahead(s, o, f))
      /\ Len(o) - Cardinality(ToSet(o)) + Cardinality(Ahead(s, o, f)) <= n
      /\ Cardinality(ToSet(o)) \in Nat /\ Cardinality(Ahead(s, o, f)) \in Nat
  BY FS_CardinalityType DEF RepeatsAtMost
<1>4. /\ IsFiniteSet(ToSet(p))
      /\ Cardinality(ToSet(p)) = IF x \in ToSet(o) THEN Cardinality(ToSet(o))
                                 ELSE Cardinality(ToSet(o)) + 1
  <2>1. /\ IsFiniteSet(ToSet(o) \cup {x})
        /\ Cardinality(ToSet(o) \cup {x}) = IF x \in ToSet(o) THEN Cardinality(ToSet(o))
                                            ELSE Cardinality(ToSet(o)) + 1
    BY <1>3, FS_AddElement
  <2> QED
    BY <1>1, <2>1
<1>5. /\ IsFiniteSet(Ahead(s, p, f + 1))
      /\ Cardinality(Ahead(s, p, f + 1)) =
            IF x \in Ahead(s, o, f) THEN Cardinality(Ahead(s, o, f)) - 1
            ELSE Cardinality(Ahead(s, o, f))
  <2>1. IsFiniteSet(Ahead(s, o, f))
    BY <1>3
  <2> HIDE DEF x
  <2>2. /\ IsFiniteSet(Ahead(s, o, f) \ {x})
        /\ Cardinality(Ahead(s, o, f) \ {x}) =
              IF x \in Ahead(s, o, f) THEN Cardinality(Ahead(s, o, f)) - 1
              ELSE Cardinality(Ahead(s, o, f))
    BY ONLY <2>1, FS_RemoveElement
  <2> QED
    BY <1>2, <2>2
<1>6. x \in ToSet(o) => x \in Ahead(s, o, f)
  <2>1. f + 1 > f
    OBVIOUS
  <2> QED
    BY <2>1 DEF Ahead
<1> HIDE DEF x
<1>7. Len(p) - Cardinality(ToSet(p)) + Cardinality(Ahead(s, p, f + 1)) <= n
  <2>1. CASE x \in ToSet(o)
    BY <1>1, <1>3, <1>4, <1>5, <1>6, <2>1
  <2>2. CASE x \notin ToSet(o)
    <3>1. Cardinality(Ahead(s, p, f + 1)) <= Cardinality(Ahead(s, o, f))
      BY <1>3, <1>5
    <3>2. Cardinality(ToSet(p)) = Cardinality(ToSet(o)) + 1
      BY <1>4, <2>2
    <3>3. Cardinality(Ahead(s, p, f + 1)) \in Int
      BY <1>3, <1>5
    <3> QED
      BY <1>1, <1>3, <3>1, <3>2, <3>3
  <2> QED
    BY <2>1, <2>2
<1> QED
  BY <1>4, <1>5, <1>7 DEF RepeatsAtMost

(***************************************************************************)
(* What is ahead may shrink, or grow by one item for one insertion.        *)
(***************************************************************************)
LEMMA FewerAhead ==
    ASSUME NEW s, NEW t, NEW o, NEW f, NEW g, NEW n \in Nat, Len(o) \in Nat,
           RepeatsAtMost(s, o, f, n), Ahead(t, o, g) \subseteq Ahead(s, o, f)
    PROVE  RepeatsAtMost(t, o, g, n)
<1>1. /\ IsFiniteSet(ToSet(o)) /\ IsFiniteSet(Ahead(s, o, f))
      /\ Len(o) - Cardinality(ToSet(o)) + Cardinality(Ahead(s, o, f)) <= n
      /\ Cardinality(ToSet(o)) \in Nat /\ Cardinality(Ahead(s, o, f)) \in Nat
  BY FS_CardinalityType DEF RepeatsAtMost
<1>2. /\ IsFiniteSet(Ahead(t, o, g)) /\ Cardinality(Ahead(t, o, g)) \in Nat
      /\ Cardinality(Ahead(t, o, g)) <= Cardinality(Ahead(s, o, f))
  BY <1>1, FS_Subset, FS_CardinalityType
<1> QED
  BY <1>1, <1>2 DEF RepeatsAtMost

LEMMA OneMoreAhead ==
    ASSUME NEW s, NEW t, NEW o, NEW f, NEW n \in Nat, Len(o) \in Nat,
           RepeatsAtMost(s, o, f, n), NEW y,
           Ahead(t, o, f) \subseteq Ahead(s, o, f) \cup {y}
    PROVE  RepeatsAtMost(t, o, f, n + 1)
<1>1. /\ IsFiniteSet(ToSet(o)) /\ IsFiniteSet(Ahead(s, o, f))
      /\ Len(o) - Cardinality(ToSet(o)) + Cardinality(Ahead(s, o, f)) <= n
      /\ Cardinality(ToSet(o)) \in Nat /\ Cardinality(Ahead(s, o, f)) \in Nat
  BY FS_CardinalityType DEF RepeatsAtMost
<1>2. AtMost(Ahead(s, o, f), Cardinality(Ahead(s, o, f)))
  BY <1>1 DEF AtMost
<1>3. AtMost(Ahead(t, o, f), Cardinality(Ahead(s, o, f)) + 1)
  BY <1>1, <1>2, AtMostOneMore
<1>4. IsFiniteSet(Ahead(t, o, f)) /\ Cardinality(Ahead(t, o, f)) \in Nat
      /\ Cardinality(Ahead(t, o, f)) <= Cardinality(Ahead(s, o, f)) + 1
  BY <1>3, FS_CardinalityType DEF AtMost
<1> QED
  BY <1>1, <1>4 DEF RepeatsAtMost

LEMMA RepeatsBound ==
    ASSUME NEW s, NEW o, NEW f, NEW n \in Nat, Len(o) \in Nat, RepeatsAtMost(s, o, f, n)
    PROVE  Len(o) - Cardinality(ToSet(o)) <= n
BY FS_CardinalityType DEF RepeatsAtMost

-----------------------------------------------------------------------------
(* The invariant.                                                          *)

LEMMA InitIInv == Init => IInv
<1> SUFFICES ASSUME Init PROVE IInv
  OBVIOUS
<1>1. shop \in Seq(Items) /\ IsInjective(shop)
  <2>1. shop \in UNION {[1 .. m -> Items] : m \in 0 .. MaxListed} /\ IsInjective(shop)
    BY DEF Init, SeqOf
  <2>2. PICK m \in Nat : shop \in [1 .. m -> Items]
    BY <2>1, ListingAssumption
  <2> QED
    BY <2>1, <2>2
<1>2. out = << >> /\ offset = 0 /\ pc = "fetch" /\ insertions = 0 /\ removals = 0
  BY DEF Init
<1>3. ToSet(out) = {} /\ Len(out) = 0 /\ out \in Seq(Mappable)
  BY <1>2 DEF ToSet
<1>4. TypeOK
  BY <1>1, <1>3 DEF Init, TypeOK
<1>5. front = 0
  BY <1>2 DEF front
<1>6. Ahead(shop, out, front) = {} /\ Lost(shop, stayed, out, front) = {}
  <2>1. \A i \in DOMAIN shop : ~(i <= 0)
    BY <1>1
  <2> QED
    BY <1>3, <1>5, <2>1 DEF Ahead, Lost
<1>7. RepeatInv
  <2>1. /\ IsFiniteSet(ToSet(out)) /\ Cardinality(ToSet(out)) = 0
        /\ IsFiniteSet(Ahead(shop, out, front)) /\ Cardinality(Ahead(shop, out, front)) = 0
    BY <1>3, <1>6, FS_EmptySet
  <2> QED
    BY <1>2, <1>3, <2>1 DEF RepeatInv, RepeatsAtMost, RepeatsNeedInsertions
<1>8. LossInv
  BY <1>2, <1>6, FS_EmptySet DEF LossInv, AtMost, MissesNeedRemovals
<1> QED
  BY <1>2, <1>4, <1>7, <1>8 DEF IInv, PageInv

(* What the steps of the call keep of the listing, and the shop's of the call. *)
LEMMA TypeFacts ==
    ASSUME TypeOK
    PROVE  /\ shop \in Seq(Items) /\ IsInjective(shop) /\ Len(shop) \in Nat
           /\ out \in Seq(Mappable) /\ Len(out) \in Nat
           /\ offset \in Nat /\ next \in Nat \ {0} /\ count \in Nat /\ total \in Nat
           /\ page \in Seq(Items) /\ Len(page) \in Nat
           /\ stayed \subseteq ToSet(shop)
           /\ insertions \in Nat /\ removals \in Nat
           /\ front \in Nat
BY DEF TypeOK, front

LEMMA PageFacts ==
    ASSUME TypeOK
    PROVE  /\ Page \in Seq(Items)
           /\ offset + Len(Page) <= Len(shop) \/ Page = << >>
           /\ Len(Page) = 0 => Len(shop) <= offset
           /\ \A k \in DOMAIN Page : Page[k] = shop[offset + k]
<1> DEFINE last == Smaller(offset + PageSize, Len(shop))
<1>1. shop \in Seq(Items) /\ offset \in Nat /\ PageSize \in Nat \ {0} /\ Len(shop) \in Nat
  BY ListingAssumption DEF TypeOK
<1>2. last \in Nat /\ last <= Len(shop) /\ (last < offset + 1 => Len(shop) <= offset)
  BY <1>1 DEF Smaller
<1>3. Page = SubSeq(shop, offset + 1, last)
  BY DEF Page
<1> HIDE DEF last
<1>4. \A i \in offset + 1 .. last : shop[i] \in Items
  BY <1>1, <1>2
<1>5. /\ Page \in Seq(Items)
      /\ Len(Page) = IF offset + 1 <= last THEN last - (offset + 1) + 1 ELSE 0
      /\ \A k \in 1 .. last - (offset + 1) + 1 : Page[k] = shop[(offset + 1) + k - 1]
  BY <1>1, <1>2, <1>3, <1>4, SubSeqProperties
<1>6. CASE offset + 1 <= last
  <2>1. Len(Page) = last - offset
    BY <1>1, <1>2, <1>5, <1>6
  <2>2. \A k \in DOMAIN Page : Page[k] = shop[offset + k]
    <3>1. \A k \in 1 .. last - offset : Page[k] = shop[(offset + 1) + k - 1]
      BY <1>1, <1>2, <1>5
    <3>2. \A k \in 1 .. last - offset : (offset + 1) + k - 1 = offset + k
      BY <1>1, <1>2
    <3>3. DOMAIN Page = 1 .. last - offset
      BY <1>5, <2>1
    <3> QED
      BY <3>1, <3>2, <3>3
  <2> QED
    BY <1>1, <1>2, <1>5, <1>6, <2>1, <2>2
<1>7. CASE ~(offset + 1 <= last)
  <2>1. Len(Page) = 0 /\ Page = << >>
    BY <1>5, <1>7
  <2> QED
    BY <1>1, <1>2, <1>5, <1>7, <2>1
<1> QED
  BY <1>6, <1>7

LEMMA EmptyPageStep == ASSUME IInv, EmptyPage PROVE IInv'
<1>1. TypeOK /\ pc = "fetch" /\ Page = << >> /\ pc' = "done"
      /\ UNCHANGED <<offset, reply, next, out, shopVars>>
  BY DEF IInv, EmptyPage
<1>2. TypeOK'
  BY <1>1 DEF TypeOK, reply, shopVars
<1>3. Len(shop) <= offset
  BY <1>1, PageFacts
<1>4. Missed \subseteq Lost(shop, stayed, out, front)
  <2>1. front = offset /\ DOMAIN shop = 1 .. Len(shop) /\ stayed \subseteq ToSet(shop)
    BY <1>1, TypeFacts DEF front
  <2>2. \A i \in DOMAIN shop : i <= front
    BY <1>1, <1>3, <2>1, TypeFacts
  <2> QED
    BY <2>1, <2>2 DEF Missed, Lost, ToSet
<1>5. AtMost(Missed, removals)
  BY <1>1, <1>4, AtMostSubset, TypeFacts DEF IInv, LossInv
<1>6. LossInv'
  BY <1>1, <1>5 DEF LossInv, MissesNeedRemovals, AtMost, Missed, shopVars
<1>7. RepeatInv'
  BY <1>1 DEF IInv, RepeatInv, RepeatsNeedInsertions, shopVars
<1> QED
  BY <1>1, <1>2, <1>6, <1>7 DEF IInv, PageInv

LEMMA FetchPageStep == ASSUME IInv, FetchPage PROVE IInv'
<1>1. TypeOK /\ pc = "fetch" /\ Page # << >> /\ pc' = "map" /\ next' = 1
      /\ page' = Page /\ total' = Len(shop)
      /\ count' = (IF counts THEN Len(Page) ELSE 0)
      /\ UNCHANGED <<offset, out, shopVars>>
  BY DEF IInv, FetchPage
<1>2. TypeOK'
  BY <1>1, PageFacts, TypeFacts DEF TypeOK, shopVars
<1>3. front' = front
  BY <1>1, TypeFacts DEF front
<1>4. PageInv'
  <2>1. Len(Page) \in Nat /\ Len(Page) # 0
    BY <1>1, PageFacts
  <2> QED
    BY <1>1, <2>1, PageFacts DEF PageInv, shopVars
<1>5. RepeatInv' /\ LossInv'
  BY <1>1, <1>3 DEF IInv, RepeatInv, RepeatsAtMost, RepeatsNeedInsertions, Ahead,
     LossInv, MissesNeedRemovals, Lost, shopVars
<1> QED
  BY <1>2, <1>4, <1>5 DEF IInv

LEMMA FetchPageFailsStep == ASSUME IInv, FetchPageFails PROVE IInv'
<1>1. TypeOK /\ pc' = "failed" /\ out' = << >> /\ UNCHANGED <<offset, reply, next, shopVars>>
  BY DEF IInv, FetchPageFails
<1>2. TypeOK'
  BY <1>1 DEF TypeOK, reply, shopVars
<1>3. RepeatsNeedInsertions'
  <2>1. ToSet(out') = {} /\ Len(out') = 0
    BY <1>1 DEF ToSet
  <2> QED
    <3>1. Cardinality(ToSet(out')) = 0
      BY <2>1, FS_EmptySet
    <3> QED
      BY <1>1, <2>1, <3>1, TypeFacts DEF RepeatsNeedInsertions, shopVars
<1> QED
  BY <1>1, <1>2, <1>3 DEF IInv, PageInv, RepeatInv, LossInv, MissesNeedRemovals

LEMMA AppendMappedStep == ASSUME IInv, AppendMapped PROVE IInv'
<1> DEFINE x == shop[front + 1]
<1>1. TypeOK /\ PageInv /\ pc = "map" /\ next <= Len(page) /\ next' = next + 1
      /\ out' = (IF page[next] \in Mappable THEN Append(out, page[next]) ELSE out)
      /\ UNCHANGED <<pc, offset, reply, shopVars>>
  BY DEF IInv, AppendMapped, Visiting
<1>2. front = offset + next - 1 /\ front' = front + 1 /\ front \in Nat
  <2>1. offset \in Nat /\ next \in Nat /\ front \in Nat
    BY <1>1, TypeFacts
  <2>2. pc = "map" /\ pc' = "map" /\ offset' = offset /\ next' = next + 1
    BY <1>1
  <2> QED
    BY ONLY <2>1, <2>2 DEF front
<1>3. page[next] = x /\ front + 1 \in DOMAIN shop
  <2>1. next \in DOMAIN page /\ front + 1 = offset + next /\ front + 1 \in 1 .. Len(shop)
    <3>1. offset + Len(page) <= Len(shop)
      BY <1>1 DEF PageInv
    <3>2. /\ offset \in Nat /\ next \in Nat \ {0} /\ Len(page) \in Nat /\ Len(shop) \in Nat
          /\ page \in Seq(Items)
      BY <1>1, TypeFacts
    <3> QED
      BY <1>1, <1>2, <3>1, <3>2
  <2>2. \A k \in DOMAIN page : page[k] = shop[offset + k]
    BY <1>1 DEF PageInv
  <2>3. page[next] = shop[offset + next]
    BY <2>1, <2>2
  <2>4. DOMAIN shop = 1 .. Len(shop)
    BY <1>1, TypeFacts
  <2> QED
    BY <2>1, <2>3, <2>4
<1>4. out' = IF x \in Mappable THEN Append(out, x) ELSE out
  BY <1>1, <1>3
<1> HIDE DEF x
<1>5. /\ out' \in Seq(Mappable) /\ ToSet(out) \subseteq ToSet(out') /\ Len(out') \in Nat
      /\ x \in Mappable => x \in ToSet(out')
  <2>1. CASE x \in Mappable
    <3>1. out \in Seq(Mappable) /\ out' = Append(out, x) /\ Len(out) \in Nat
      BY <1>1, <1>4, <2>1, TypeFacts
    <3>2. out' \in Seq(Mappable) /\ Len(out') = Len(out) + 1 /\ ToSet(out') = ToSet(out) \cup {x}
      BY <2>1, <3>1, AppendedItem
    <3> QED
      BY <3>1, <3>2
  <2>2. CASE x \notin Mappable
    BY <1>1, <1>4, <2>2, TypeFacts
  <2> QED
    BY <2>1, <2>2
<1>6. TypeOK'
  BY <1>1, <1>5, TypeFacts DEF TypeOK, reply, shopVars
<1>7. PageInv'
  BY <1>1, TypeFacts DEF PageInv, reply, shopVars
<1>8. RepeatsAtMost(shop, out, front, insertions)
  BY <1>1 DEF IInv, RepeatInv
<1>9. RepeatsAtMost(shop, out', front + 1, insertions)
  <2>1. CASE x \in Mappable
    BY <1>1, <1>2, <1>3, <1>4, <1>8, <2>1, TypeFacts, AppendRepeats DEF x
  <2>2. CASE x \notin Mappable
    <3>1. Ahead(shop, out, front + 1) \subseteq Ahead(shop, out, front)
      BY <1>1, <1>2, TypeFacts, ReadSkipped
    <3>2. RepeatsAtMost(shop, out, front + 1, insertions)
      BY <1>1, <1>8, <3>1, TypeFacts, FewerAhead
    <3> QED
      BY <1>4, <2>2, <3>2
  <2> QED
    BY <2>1, <2>2
<1>10. RepeatInv'
  <2>1. Len(out') - Cardinality(ToSet(out')) <= insertions
    BY <1>1, <1>5, <1>9, TypeFacts, RepeatsBound
  <2> QED
    BY <1>1, <1>2, <1>9, <2>1
       DEF RepeatInv, RepeatsNeedInsertions, RepeatsAtMost, Ahead, shopVars
<1>11. AtMost(Lost(shop, stayed, out', front + 1), removals)
  <2>1. Lost(shop, stayed, out', front + 1) \subseteq Lost(shop, stayed, out, front)
    BY <1>1, <1>2, <1>5, TypeFacts, ReadLost DEF x
  <2>2. AtMost(Lost(shop, stayed, out, front), removals)
    BY <1>1 DEF IInv, LossInv
  <2> QED
    BY <1>1, <2>1, <2>2, TypeFacts, AtMostSubset
<1>12. LossInv'
  BY <1>1, <1>2, <1>11 DEF LossInv, MissesNeedRemovals, AtMost, Lost, shopVars
<1> QED
  BY <1>6, <1>7, <1>10, <1>12 DEF IInv

LEMMA PageMappedStep == ASSUME IInv, PageMapped PROVE IInv'
<1>1. TypeOK /\ PageInv /\ pc = "map" /\ next > Len(page) /\ offset' = offset + count
      /\ pc' = (IF offset + count < total /\ count # 0 THEN "fetch" ELSE "done")
      /\ UNCHANGED <<reply, next, out, shopVars>>
  BY DEF IInv, PageMapped, Advance
<1>2. TypeOK'
  BY <1>1, TypeFacts DEF TypeOK, reply, shopVars
<1>3. front = offset + Len(page) /\ total = Len(shop) /\ Len(page) # 0
      /\ count = IF counts THEN Len(page) ELSE 0
  <2>1. page # << >> /\ next <= Len(page) + 1 /\ total = Len(shop)
        /\ count = IF counts THEN Len(page) ELSE 0
    BY <1>1 DEF PageInv
  <2>2. page \in Seq(Items) /\ next \in Nat /\ Len(page) \in Nat /\ offset \in Nat
    BY <1>1, TypeFacts
  <2>3. next = Len(page) + 1 /\ Len(page) # 0
    BY <1>1, <2>1, <2>2
  <2> QED
    BY <1>1, <2>1, <2>2, <2>3 DEF front
<1>4. /\ RepeatsAtMost(shop, out, front, insertions) /\ RepeatsNeedInsertions
      /\ AtMost(Lost(shop, stayed, out, front), removals)
  BY <1>1 DEF IInv, RepeatInv, LossInv
<1>5. CASE offset + count < total /\ count # 0
  <2>1. front' = front /\ pc' = "fetch"
    BY <1>1, <1>3, <1>5 DEF front
  <2> QED
    BY <1>1, <1>2, <1>4, <2>1
       DEF IInv, PageInv, RepeatInv, RepeatsAtMost, RepeatsNeedInsertions, Ahead,
           LossInv, MissesNeedRemovals, Lost, shopVars
<1>6. CASE ~(offset + count < total /\ count # 0)
  <2>1. pc' = "done"
    BY <1>1, <1>6
  <2>2. ASSUME counts PROVE Cardinality(Missed) <= removals
    <3>1. \A i \in DOMAIN shop : i <= front
      BY <1>1, <1>3, <1>6, <2>2, TypeFacts
    <3>2. Missed \subseteq Lost(shop, stayed, out, front)
      BY <1>1, <3>1, TypeFacts DEF Missed, Lost, ToSet
    <3> QED
      BY <1>1, <1>4, <3>2, TypeFacts, AtMostSubset DEF AtMost
  <2> QED
    BY <1>1, <1>2, <1>4, <2>1, <2>2
       DEF IInv, PageInv, RepeatInv, RepeatsNeedInsertions, LossInv, MissesNeedRemovals,
           Missed, shopVars
<1> QED
  BY <1>5, <1>6

LEMMA ShopInsertsStep ==
    ASSUME IInv, NEW i \in Items, NEW at \in 1 .. Len(shop) + 1, ShopInserts(i, at)
    PROVE  IInv'
<1>1. TypeOK /\ pc = "fetch" /\ i \notin ToSet(shop) /\ shop' = InsertAt(shop, at, i)
      /\ insertions' = insertions + 1
      /\ UNCHANGED <<pc, offset, reply, next, out, counts, stayed, removals>>
  BY DEF IInv, ShopInserts
<1>2. Inserted(shop, at, i, shop')
  BY <1>1, TypeFacts, InsertAtInserts
<1>3. IsInjective(shop') /\ ToSet(shop) \subseteq ToSet(shop') /\ shop' \in Seq(Items)
  <2>1. shop \in Seq(Items) /\ IsInjective(shop)
    BY <1>1, TypeFacts
  <2>2. IsInjective(shop') /\ ToSet(shop) \subseteq ToSet(shop')
    BY <1>1, <1>2, <2>1, InsertedItems
  <2>3. shop' \in Seq(Items)
    BY <1>2 DEF Inserted
  <2> QED
    BY <2>2, <2>3
<1>4. TypeOK'
  BY <1>1, <1>3, TypeFacts DEF TypeOK, reply
<1>5. front \in Nat /\ front' = front
  BY <1>1, TypeFacts DEF front
<1>6. /\ RepeatsAtMost(shop, out, front, insertions) /\ RepeatsNeedInsertions
      /\ AtMost(Lost(shop, stayed, out, front), removals)
  BY <1>1 DEF IInv, RepeatInv, LossInv
<1>7. RepeatsAtMost(shop', out, front, insertions + 1)
  <2>1. PICK y : Ahead(shop', out, front) \subseteq Ahead(shop, out, front) \cup {y}
    <3>1. shop \in Seq(Items)
      BY <1>1, TypeFacts
    <3>2. \E y : Ahead(shop', out, front) \subseteq Ahead(shop, out, front) \cup {y}
      BY <1>2, <1>5, <3>1, InsertedAhead
    <3> QED
      BY <3>2
  <2> QED
    BY <1>1, <1>6, <2>1, TypeFacts, OneMoreAhead
<1>8. Len(out) - Cardinality(ToSet(out)) <= insertions + 1
  BY <1>1, <1>7, TypeFacts, RepeatsBound
<1>9. RepeatInv'
  BY <1>1, <1>5, <1>7, <1>8 DEF RepeatInv, RepeatsNeedInsertions, RepeatsAtMost, Ahead
<1>10. AtMost(Lost(shop', stayed, out, front), removals)
  <2>1. Lost(shop', stayed, out, front) \subseteq Lost(shop, stayed, out, front)
    BY <1>1, <1>2, <1>5, TypeFacts, InsertedLost
  <2> QED
    BY <1>1, <1>6, <2>1, TypeFacts, AtMostSubset
<1>11. LossInv'
  BY <1>1, <1>5, <1>10 DEF LossInv, MissesNeedRemovals, AtMost, Lost
<1> QED
  BY <1>1, <1>4, <1>9, <1>11 DEF IInv, PageInv

LEMMA ShopRemovesStep ==
    ASSUME IInv, NEW at \in DOMAIN shop, ShopRemoves(at)
    PROVE  IInv'
<1>1. TypeOK /\ pc = "fetch" /\ shop' = RemoveAt(shop, at) /\ at \in 1 .. Len(shop)
      /\ stayed' = stayed \ {shop[at]} /\ removals' = removals + 1
      /\ UNCHANGED <<pc, offset, reply, next, out, counts, insertions>>
  BY TypeFacts DEF IInv, ShopRemoves
<1>2. Removed(shop, at, shop')
  BY <1>1, TypeFacts, RemoveAtRemoves
<1>3. IsInjective(shop') /\ ToSet(shop) \ {shop[at]} \subseteq ToSet(shop')
      /\ shop' \in Seq(Items)
  BY <1>1, <1>2, TypeFacts, RemovedItems DEF Removed
<1>4. TypeOK'
  BY <1>1, <1>3, TypeFacts DEF TypeOK, reply
<1>5. front \in Nat /\ front' = front
  BY <1>1, TypeFacts DEF front
<1>6. /\ RepeatsAtMost(shop, out, front, insertions) /\ RepeatsNeedInsertions
      /\ AtMost(Lost(shop, stayed, out, front), removals)
  BY <1>1 DEF IInv, RepeatInv, LossInv
<1>7. RepeatsAtMost(shop', out, front, insertions)
  <2>1. Ahead(shop', out, front) \subseteq Ahead(shop, out, front)
    BY <1>1, <1>2, <1>5, TypeFacts, RemovedAhead
  <2> QED
    BY <1>1, <1>6, <2>1, TypeFacts, FewerAhead
<1>8. RepeatInv'
  BY <1>1, <1>5, <1>6, <1>7 DEF RepeatInv, RepeatsNeedInsertions, RepeatsAtMost, Ahead
<1>9. AtMost(Lost(shop', stayed', out, front), removals + 1)
  <2>1. PICK y : Lost(shop', stayed \ {shop[at]}, out, front)
                     \subseteq Lost(shop, stayed, out, front) \cup {y}
    <3>1. shop \in Seq(Items)
      BY <1>1, TypeFacts
    <3>2. \E y : Lost(shop', stayed \ {shop[at]}, out, front)
                     \subseteq Lost(shop, stayed, out, front) \cup {y}
      BY <1>1, <1>2, <1>5, <3>1, RemovedLost
    <3> QED
      BY <3>2
  <2>2. AtMost(Lost(shop', stayed \ {shop[at]}, out, front), removals + 1)
    BY <1>1, <1>6, <2>1, TypeFacts, AtMostOneMore
  <2> QED
    BY <1>1, <2>2
<1>10. LossInv'
  BY <1>1, <1>5, <1>9 DEF LossInv, MissesNeedRemovals, AtMost, Lost
<1> QED
  BY <1>1, <1>4, <1>8, <1>10 DEF IInv, PageInv

LEMMA StutterStep == ASSUME IInv, UNCHANGED vars PROVE IInv'
<1> USE DEF vars, reply, shopVars
<1>1. TypeOK'
  BY DEF IInv, TypeOK
<1>2. PageInv'
  BY DEF IInv, PageInv
<1>3. RepeatInv'
  BY DEF IInv, RepeatInv, RepeatsAtMost, RepeatsNeedInsertions, Ahead, front
<1>4. LossInv'
  BY DEF IInv, LossInv, MissesNeedRemovals, AtMost, Lost, Missed, front
<1> QED
  BY <1>1, <1>2, <1>3, <1>4 DEF IInv

LEMMA StepIInv == IInv /\ [Next]_vars => IInv'
BY EmptyPageStep, FetchPageStep, FetchPageFailsStep, AppendMappedStep, PageMappedStep,
   ShopInsertsStep, ShopRemovesStep, StutterStep DEF Next, Advancing, ShopChanges

(***************************************************************************)
(* The types, for every listing.                                           *)
(***************************************************************************)
THEOREM ListingTypeCorrect == Spec => []TypeOK
<1>1. IInv => TypeOK
  BY DEF IInv
<1> QED
  BY <1>1, InitIInv, StepIInv, PTL DEF Spec

(***************************************************************************)
(* FetchDeals loses at most one item for every item that leaves the        *)
(* listing while it is read, for every listing and page size.              *)
(***************************************************************************)
THEOREM RemovalsBoundLosses == Spec => []MissesNeedRemovals
<1>1. IInv => MissesNeedRemovals
  BY DEF IInv, LossInv
<1> QED
  BY <1>1, InitIInv, StepIInv, PTL DEF Spec

(***************************************************************************)
(* FetchDeals returns at most one repeat for every item that enters the    *)
(* listing while it is read.                                               *)
(***************************************************************************)
THEOREM InsertionsBoundRepeats == Spec => []RepeatsNeedInsertions
<1>1. IInv => RepeatsNeedInsertions
  BY DEF IInv, RepeatInv
<1> QED
  BY <1>1, InitIInv, StepIInv, PTL DEF Spec

(***************************************************************************)
(* mapItem: what an item is mapped to is a candidate as the pipeline takes *)
(* it for granted, whatever the shop sends.                                *)
(***************************************************************************)
LEMMA SizesMapped ==
    ASSUME NEW s \in Seq(ShopSize)
    PROVE  /\ MapListingSizes(s) \in Seq(Size)
           /\ \A i \in DOMAIN MapListingSizes(s) : ~MapListingSizes(s)[i].inStock
<1>1. \A i \in 1 .. Len(s) : s[i].code \in STRING /\ DisplayOrName(s[i]) \in STRING
  <2> TAKE i \in 1 .. Len(s)
  <2>1. s[i] \in ShopSize
    OBVIOUS
  <2> QED
    BY <2>1 DEF ShopSize, DisplayOrName
<1> QED
  <2> DEFINE m == MapListingSizes(s)
  <2>1. m = [k \in 1 .. Len(s) |->
               [code |-> s[k].code, label |-> DisplayOrName(s[k]), inStock |-> FALSE]]
    BY DEF MapListingSizes
  <2> HIDE DEF m
  <2>2. \A k \in 1 .. Len(s) : m[k] \in Size /\ m[k].inStock = FALSE
    BY <1>1, <2>1 DEF Size
  <2>3. DOMAIN m = 1 .. Len(s) /\ m \in Seq(Size)
    BY <2>1, <2>2
  <2> QED
    BY <2>2, <2>3 DEF m

LEMMA ItemMapped ==
    ASSUME NEW it \in Item, NEW c \in MapItem(it)
    PROVE  /\ c \in Candidate /\ {c.productID, c.name} \cap Blank = {}
           /\ \A i \in DOMAIN c.sizes : ~c.sizes[i].inStock
<1>1. PICK base \in it.base, promo \in it.promo :
         c = [productID |-> it.productID, name |-> it.name, basePrice |-> base,
              promoPrice |-> promo, sizes |-> MapListingSizes(it.sizes),
              providerRef |-> it.priceGroup]
  BY DEF MapItem, Priced
<1>2. Valid(c)
  BY DEF MapItem
<1>3. /\ it.productID \in STRING /\ it.name \in STRING /\ it.priceGroup \in STRING
      /\ base \in Int /\ promo \in Int /\ it.sizes \in Seq(ShopSize)
  BY DEF Item
<1>4. MapListingSizes(it.sizes) \in Seq(Size)
      /\ \A i \in DOMAIN MapListingSizes(it.sizes) : ~MapListingSizes(it.sizes)[i].inStock
  BY <1>3, SizesMapped
<1>5. base \in Nat /\ promo \in Nat /\ it.productID \notin Blank /\ it.name \notin Blank
  BY <1>1, <1>2, <1>3 DEF Valid
<1>6. c \in Candidate
  BY <1>1, <1>3, <1>4, <1>5 DEF Candidate
<1> QED
  BY <1>1, <1>4, <1>5, <1>6

THEOREM CandidatesAreValid == Spec => []OnlyValidDeals
<1>1. TypeOK => OnlyValidDeals
  <2> SUFFICES ASSUME TypeOK, NEW k \in DOMAIN out
               PROVE  \E c \in MapItem(out[k]) :
                         /\ c \in Candidate /\ {c.productID, c.name} \cap Blank = {}
                         /\ \A i \in DOMAIN c.sizes : ~c.sizes[i].inStock
    BY DEF OnlyValidDeals
  <2>1. out[k] \in Items /\ MapItem(out[k]) # {}
    BY TypeFacts DEF Mappable
  <2>2. out[k] \in Item
    BY <2>1, ListingAssumption
  <2> QED
    BY <2>1, <2>2, ItemMapped
<1> QED
  BY <1>1, ListingTypeCorrect, PTL

=============================================================================
