----------------------------- MODULE SizesProofs -----------------------------
(***************************************************************************)
(* TLAPS proofs about Sizes.tla, for every reply and listing: what the     *)
(* loops of collapseSizes and mergeLabels compute.                         *)
(***************************************************************************)
EXTENDS Sizes, SequenceTheorems, TLAPS

\* What is known of a code's size s after n rows.
SeenRight(s, n, c) ==
    /\ s.code = c
    /\ s.inStock <=> \E i \in 1 .. n : rows[i].size.code = c /\ IsStocked(rows[i])
    /\ \E i \in 1 .. n :
          /\ rows[i].size.code = c /\ \A j \in 1 .. i - 1 : rows[j].size.code # c
          /\ s.label = DisplayOrName(rows[i].size)

\* The invariant of collapseSizes' loop.
SeenFor(s, o, n) ==
    /\ o \in Seq(Code) /\ DOMAIN s \subseteq Code
    /\ \A c \in DOMAIN s : s[c] \in Size
    /\ \A c \in Code : c \in DOMAIN s <=> \E i \in 1 .. n : rows[i].size.code = c
    /\ \A c \in DOMAIN s : SeenRight(s[c], n, c)
    /\ \A c \in DOMAIN s : \E k \in 1 .. Len(o) : o[k] = c
    /\ \A k \in 1 .. Len(o) : o[k] \in DOMAIN s
    /\ \A k, m \in 1 .. Len(o) : o[k] = o[m] => k = m

Updated(s, code, entry, s2) ==
    /\ DOMAIN s2 = DOMAIN s \cup {code} /\ s2[code] = entry
    /\ \A c \in DOMAIN s \ {code} : s2[c] = s[c]

Appended(o, code, o2) ==
    /\ o2 \in Seq(Code) /\ Len(o2) = Len(o) + 1 /\ o2[Len(o) + 1] = code
    /\ \A k \in 1 .. Len(o) : o2[k] = o[k]

Named(i, c) == listing[i].code = c /\ listing[i].label # ""

IsLastNamed(n, i, c) == Named(i, c) /\ \A j \in 1 .. n : Named(j, c) => j <= i

\* The invariant of mergeLabels' first loop, after n sizes of the listing.
LabelsFor(l, n) ==
    /\ \A i \in 1 .. n : listing[i].label # "" => listing[i].code \in DOMAIN l
    /\ \A c \in DOMAIN l :
          \E i \in 1 .. n : IsLastNamed(n, i, c) /\ l[c] = listing[i].label

MergedLabel(c) == IF c \in DOMAIN labelByCode THEN labelByCode[c] ELSE seen[c].label

\* The invariant of mergeLabels' second loop, after n sizes.
SizesFor(z, n) ==
    /\ Len(z) = Len(order)
    /\ \A k \in 1 .. Len(order) :
          /\ z[k].code = order[k] /\ z[k].inStock = seen[order[k]].inStock
          /\ z[k].label = IF k <= n THEN MergedLabel(order[k]) ELSE seen[order[k]].label

Bounds ==
    /\ pc = "collapse" => next - 1 <= Len(rows)
    /\ pc = "index" => next - 1 <= Len(listing)
    /\ pc = "merge" => next - 1 <= Len(sizes)

Untouched == rows = << >> /\ seen = Nothing /\ order = << >> /\ sizes = << >> /\ labelByCode = Nothing

LoopInv ==
    /\ pc = "request" => Untouched
    /\ pc = "collapse" => SeenFor(seen, order, next - 1) /\ labelByCode = Nothing
    /\ pc \in {"index", "merge", "done"} => SeenFor(seen, order, Len(rows))
    /\ pc = "index" => LabelsFor(labelByCode, next - 1) /\ SizesFor(sizes, 0)
    /\ pc \in {"merge", "done"} => LabelsFor(labelByCode, Len(listing))
    /\ pc = "merge" => SizesFor(sizes, next - 1)
    /\ pc = "done" => SizesFor(sizes, Len(sizes))

IInv == TypeOK /\ Bounds /\ LoopInv

-----------------------------------------------------------------------------
(* collapseSizes                                                           *)

LEMMA RowType ==
    ASSUME TypeOK, NEW i \in 1 .. Len(rows)
    PROVE  rows[i].size.code \in STRING /\ DisplayOrName(rows[i].size) \in STRING
<1>1. rows[i] \in Colour
  BY DEF TypeOK
<1> QED
  BY <1>1 DEF Colour, ShopSize, DisplayOrName

LEMMA UpTo == \A n \in Nat : \A j \in 1 .. n : j <= n
OBVIOUS

LEMMA NoneBefore == \A S : \A s \in Seq(S) : \A k \in 1 .. Len(s) : ~(k <= 0)
OBVIOUS

LEMMA Visited ==
    ASSUME NEW S, NEW s \in Seq(S), NEW n \in Nat \ {0}, n <= Len(s)
    PROVE  /\ n \in DOMAIN s /\ (n + 1) - 1 = n /\ n + 1 \in Nat \ {0}
           /\ \A i \in 1 .. n : s[i] \in S
OBVIOUS

LEMMA Greatest ==
    ASSUME NEW n \in Nat, NEW S \in SUBSET (1 .. n), NEW i \in S, \A j \in S : j <= i
    PROVE  (CHOOSE k \in S : \A j \in S : j <= k) = i
<1>1. \A k \in S : (\A j \in S : j <= k) => k = i
  OBVIOUS
<1> QED
  BY <1>1

LEMMA AppendedBy ==
    ASSUME NEW o \in Seq(Code), NEW code \in Code, NEW o2, o2 = Append(o, code)
    PROVE  Appended(o, code, o2)
BY AppendProperties DEF Appended

LEMMA OneMore == \A n \in Nat : 1 .. n + 1 = (1 .. n) \cup {n + 1}
OBVIOUS

(***************************************************************************)
(* A row changes nothing for the codes that are not its own.               *)
(***************************************************************************)
LEMMA OtherCode ==
    ASSUME NEW n \in Nat, NEW c, NEW s, SeenRight(s, n, c), rows[n + 1].size.code # c
    PROVE  SeenRight(s, n + 1, c)
<1>1. (\E i \in 1 .. n + 1 : rows[i].size.code = c /\ IsStocked(rows[i]))
      <=> \E i \in 1 .. n : rows[i].size.code = c /\ IsStocked(rows[i])
  BY OneMore
<1>2. 1 .. n \subseteq 1 .. n + 1
  BY OneMore
<1> QED
  BY <1>1, <1>2 DEF SeenRight

(***************************************************************************)
(* A row of a new code appends the code and opens its size.                *)
(***************************************************************************)
LEMMA NewCode ==
    ASSUME NEW n \in Nat, NEW s, NEW o, SeenFor(s, o, n),
           NEW code \in Code, rows[n + 1].size.code = code, code \notin DOMAIN s,
           NEW entry \in Size, entry.code = code,
           entry.label = DisplayOrName(rows[n + 1].size),
           entry.inStock <=> IsStocked(rows[n + 1]),
           NEW s2, Updated(s, code, entry, s2), NEW o2, Appended(o, code, o2)
    PROVE  SeenFor(s2, o2, n + 1)
<1>1. DOMAIN s2 = DOMAIN s \cup {code} /\ s2[code] = entry
      /\ \A c \in DOMAIN s : c # code /\ s2[c] = s[c]
  BY DEF Updated
<1>2. \A i \in 1 .. n : rows[i].size.code # code
  BY DEF SeenFor
<1>3. \A c \in Code : c \in DOMAIN s2 <=> \E i \in 1 .. n + 1 : rows[i].size.code = c
  BY <1>1, OneMore DEF SeenFor
<1>4. ASSUME NEW c \in DOMAIN s2 PROVE SeenRight(s2[c], n + 1, c)
  <2>1. CASE c # code
    BY <1>1, <2>1, OtherCode DEF SeenFor
  <2>2. CASE c = code
    <3>1. (\E i \in 1 .. n + 1 : rows[i].size.code = code /\ IsStocked(rows[i]))
          <=> IsStocked(rows[n + 1])
      BY <1>2, OneMore
    <3>2. n + 1 \in 1 .. n + 1 /\ (n + 1) - 1 = n
      OBVIOUS
    <3> QED
      BY <1>1, <1>2, <2>2, <3>1, <3>2 DEF SeenRight
  <2> QED
    BY <2>1, <2>2
<1>5. /\ o2 \in Seq(Code) /\ Len(o) \in Nat /\ Len(o2) = Len(o) + 1
      /\ o2[Len(o) + 1] = code /\ \A k \in 1 .. Len(o) : o2[k] = o[k]
  BY DEF SeenFor, Appended
<1>6. 1 .. Len(o2) = (1 .. Len(o)) \cup {Len(o) + 1}
  BY <1>5, OneMore
<1>7. /\ \A c \in DOMAIN s2 : \E k \in 1 .. Len(o2) : o2[k] = c
      /\ \A k \in 1 .. Len(o2) : o2[k] \in DOMAIN s2
  <2>1. \A c \in DOMAIN s : \E k \in 1 .. Len(o) : o[k] = c
    BY DEF SeenFor
  <2>2. \A k \in 1 .. Len(o) : o[k] \in DOMAIN s
    BY DEF SeenFor
  <2>3. \A k \in 1 .. Len(o2) : o2[k] \in DOMAIN s2
    BY <1>1, <1>5, <1>6, <2>2
  <2>4. ASSUME NEW c \in DOMAIN s2 PROVE \E k \in 1 .. Len(o2) : o2[k] = c
    <3>1. CASE c = code
      BY <1>5, <1>6, <3>1
    <3>2. CASE c \in DOMAIN s
      BY <1>5, <1>6, <2>1, <3>2
    <3> QED
      BY <1>1, <3>1, <3>2
  <2> QED
    BY <2>3, <2>4
<1>8. \A k, m \in 1 .. Len(o2) : o2[k] = o2[m] => k = m
  <2>1. \A k \in 1 .. Len(o) : o[k] # code
    BY DEF SeenFor
  <2>2. \A k, m \in 1 .. Len(o) : o[k] = o[m] => k = m
    BY DEF SeenFor
  <2> QED
    BY <1>5, <1>6, <2>1, <2>2
<1>9. DOMAIN s2 \subseteq Code /\ \A c \in DOMAIN s2 : s2[c] \in Size
  BY <1>1 DEF SeenFor
<1> QED
  BY <1>3, <1>4, <1>5, <1>7, <1>8, <1>9 DEF SeenFor

(***************************************************************************)
(* A row of a code that was seen adds its stock to the code's size.        *)
(***************************************************************************)
LEMMA KnownCode ==
    ASSUME NEW n \in Nat, NEW s, NEW o, SeenFor(s, o, n),
           NEW code \in DOMAIN s, rows[n + 1].size.code = code,
           NEW entry \in Size, entry.code = s[code].code, entry.label = s[code].label,
           entry.inStock <=> s[code].inStock \/ IsStocked(rows[n + 1]),
           NEW s2, Updated(s, code, entry, s2)
    PROVE  SeenFor(s2, o, n + 1)
<1>1. DOMAIN s2 = DOMAIN s /\ s2[code] = entry
      /\ \A c \in DOMAIN s : c # code => s2[c] = s[c]
  BY DEF Updated
<1>2. \A c \in Code : c \in DOMAIN s2 <=> \E i \in 1 .. n + 1 : rows[i].size.code = c
  <2>1. \A c \in Code : c \in DOMAIN s <=> \E i \in 1 .. n : rows[i].size.code = c
    BY DEF SeenFor
  <2> QED
    BY <1>1, <2>1, OneMore
<1>3. ASSUME NEW c \in DOMAIN s2 PROVE SeenRight(s2[c], n + 1, c)
  <2>1. CASE c # code
    BY <1>1, <2>1, OtherCode DEF SeenFor
  <2>2. CASE c = code
    <3>1. SeenRight(s[code], n, code)
      BY DEF SeenFor
    <3>2. (\E i \in 1 .. n + 1 : rows[i].size.code = code /\ IsStocked(rows[i]))
          <=> \/ \E i \in 1 .. n : rows[i].size.code = code /\ IsStocked(rows[i])
              \/ IsStocked(rows[n + 1])
      BY OneMore
    <3>3. entry.inStock
          <=> \E i \in 1 .. n + 1 : rows[i].size.code = code /\ IsStocked(rows[i])
      BY <3>1, <3>2 DEF SeenRight
    <3>4. 1 .. n \subseteq 1 .. n + 1
      BY OneMore
    <3> QED
      BY <1>1, <2>2, <3>1, <3>3, <3>4 DEF SeenRight
  <2> QED
    BY <2>1, <2>2
<1>4. DOMAIN s2 \subseteq Code /\ \A c \in DOMAIN s2 : s2[c] \in Size
  BY <1>1 DEF SeenFor
<1> QED
  BY <1>1, <1>2, <1>3, <1>4 DEF SeenFor

(***************************************************************************)
(* What the loops know of the reply stays while the reply does.            *)
(***************************************************************************)
LEMMA SeenStays ==
    ASSUME UNCHANGED reply
    PROVE  /\ SeenFor(seen, order, next - 1)' <=> SeenFor(seen', order', next' - 1)
           /\ SeenFor(seen, order, Len(rows))' <=> SeenFor(seen', order', Len(rows))
<1> rows' = rows /\ stocks' = stocks
  BY DEF reply
<1> QED
  BY DEF SeenFor, SeenRight, IsStocked

LEMMA NothingSeen == ASSUME Untouched PROVE SeenFor(seen, order, 0)
BY DEF Untouched, SeenFor, Nothing

LEMMA EntryType ==
    ASSUME TypeOK, NEW row \in Colour, row.size.code # ""
    PROVE  /\ [Entry(row) EXCEPT !.inStock = @ \/ IsStocked(row)] \in Size
           /\ Entry(row) \in Size
           /\ row.size.code \in Code
<1>1. row.size.code \in Code /\ DisplayOrName(row.size) \in STRING
  BY DEF Colour, ShopSize, Code, DisplayOrName
<1>2. Entry(row) \in Size
  BY <1>1 DEF Entry, TypeOK, Size, Code
<1> QED
  BY <1>1, <1>2 DEF Size

LEMMA NextRow ==
    ASSUME TypeOK, next \in DOMAIN rows
    PROVE  next - 1 \in Nat /\ (next - 1) + 1 = next /\ rows[next] \in Colour
<1>1. rows \in Seq(Colour) /\ next \in Nat \ {0}
  BY DEF TypeOK
<1> QED
  BY <1>1

LEMMA CollapseSees ==
    ASSUME TypeOK, next \in DOMAIN rows, SeenFor(seen, order, next - 1),
           rows[next].size.code # "", CountStock(rows[next])
    PROVE  SeenFor(seen', order', next)
<1> DEFINE row == rows[next]
           entry == [Entry(row) EXCEPT !.inStock = @ \/ IsStocked(row)]
<1>1. next - 1 \in Nat /\ (next - 1) + 1 = next /\ row \in Colour
  BY NextRow
<1>2. entry \in Size /\ Entry(row) \in Size /\ row.size.code \in Code
  BY <1>1, EntryType
<1>3. /\ entry.code = Entry(row).code /\ entry.label = Entry(row).label
      /\ entry.inStock <=> Entry(row).inStock \/ IsStocked(row)
  BY <1>2 DEF Size
<1>4. seen' = [c \in DOMAIN seen \cup {row.size.code} |->
                  IF c = row.size.code THEN entry ELSE seen[c]]
  BY DEF CountStock, See
<1>5. order' = IF row.size.code \in DOMAIN seen THEN order ELSE Append(order, row.size.code)
  BY DEF CountStock, See
<1>6. CASE row.size.code \in DOMAIN seen
  <2>1. Entry(row) = seen[row.size.code]
    BY <1>6 DEF Entry
  <2>2. order' = order
    BY <1>5, <1>6
  <2> DEFINE n == next - 1
             code == row.size.code
  <2>3. /\ n \in Nat /\ SeenFor(seen, order, n) /\ n + 1 = next /\ rows[n + 1] = row
        /\ code \in DOMAIN seen /\ entry \in Size
        /\ entry.code = seen[code].code /\ entry.label = seen[code].label
        /\ entry.inStock <=> seen[code].inStock \/ IsStocked(rows[n + 1])
        /\ Updated(seen, code, entry, seen')
        /\ rows[n + 1].size.code = code
    BY <1>1, <1>2, <1>3, <1>4, <1>6, <2>1 DEF Updated
  <2> HIDE DEF entry, row, n, code
  <2>4. SeenFor(seen', order, n + 1)
    BY <2>3, KnownCode
  <2> QED
    BY <2>2, <2>3, <2>4
<1>7. CASE row.size.code \notin DOMAIN seen
  <2>1. /\ Entry(row).code = row.size.code /\ Entry(row).label = DisplayOrName(row.size)
        /\ Entry(row).inStock = FALSE
    BY <1>7 DEF Entry
  <2>2. order' = Append(order, row.size.code)
    BY <1>5, <1>7
  <2> DEFINE n == next - 1
             code == row.size.code
  <2>3. /\ n \in Nat /\ SeenFor(seen, order, n) /\ n + 1 = next /\ rows[n + 1] = row
        /\ code \in Code /\ code \notin DOMAIN seen /\ entry \in Size
        /\ entry.code = code /\ entry.label = DisplayOrName(rows[n + 1].size)
        /\ entry.inStock <=> IsStocked(rows[n + 1])
        /\ Updated(seen, code, entry, seen')
        /\ rows[n + 1].size.code = code
    BY <1>1, <1>2, <1>3, <1>4, <1>7, <2>1 DEF Updated
  <2> HIDE DEF entry, row, n, code
  <2>4. Appended(order, code, order')
    <3>1. order \in Seq(Code) /\ order' = Append(order, code)
      BY <2>2 DEF TypeOK, code, row
    <3>2. code \in Code
      BY <2>3
    <3> QED
      BY <3>1, <3>2, AppendedBy
  <2>5. SeenFor(seen', order', n + 1)
    BY <2>3, <2>4, NewCode
  <2> QED
    BY <2>3, <2>5
<1> QED
  BY <1>6, <1>7

LEMMA CollapseSkips ==
    ASSUME TypeOK, next \in DOMAIN rows, SeenFor(seen, order, next - 1),
           rows[next].size.code = ""
    PROVE  SeenFor(seen, order, next)
<1>1. next - 1 \in Nat /\ (next - 1) + 1 = next
  BY NextRow
<1>2. \A c \in Code : (\E i \in 1 .. next : rows[i].size.code = c)
                      <=> \E i \in 1 .. next - 1 : rows[i].size.code = c
  BY <1>1, OneMore DEF Code
<1>3. \A c \in DOMAIN seen : SeenRight(seen[c], next, c)
  <2> TAKE c \in DOMAIN seen
  <2>1. c # "" /\ SeenRight(seen[c], next - 1, c)
    BY DEF SeenFor, Code
  <2> QED
    BY <1>1, <2>1, OtherCode
<1> QED
  BY <1>2, <1>3 DEF SeenFor

-----------------------------------------------------------------------------
(* mergeLabels                                                             *)

LEMMA NextListed ==
    ASSUME TypeOK, next \in DOMAIN listing
    PROVE  /\ next \in Nat /\ next - 1 \in Nat /\ 1 .. next = (1 .. next - 1) \cup {next}
           /\ listing[next] \in Size
<1>1. listing \in Seq(Size) /\ next \in Nat \ {0}
  BY DEF TypeOK
<1> QED
  BY <1>1

(***************************************************************************)
(* A size with a label is the last one named of its code, and of no other. *)
(***************************************************************************)
LEMMA IndexNames ==
    ASSUME TypeOK, next \in DOMAIN listing, LabelsFor(labelByCode, next - 1),
           listing[next].label # "", SetLabel(listing[next])
    PROVE  LabelsFor(labelByCode', next)
<1> DEFINE code == listing[next].code
<1>1. next \in Nat /\ next - 1 \in Nat /\ 1 .. next = (1 .. next - 1) \cup {next}
  BY NextListed
<1>2. /\ DOMAIN labelByCode' = DOMAIN labelByCode \cup {code}
      /\ labelByCode'[code] = listing[next].label
      /\ \A c \in DOMAIN labelByCode \ {code} : labelByCode'[c] = labelByCode[c]
  BY DEF SetLabel
<1>3. \A i \in 1 .. next : listing[i].label # "" => listing[i].code \in DOMAIN labelByCode'
  BY <1>1, <1>2 DEF LabelsFor
<1>4. ASSUME NEW c \in DOMAIN labelByCode'
      PROVE  \E i \in 1 .. next : IsLastNamed(next, i, c) /\ labelByCode'[c] = listing[i].label
  <2>1. CASE c = code
    <3>1. IsLastNamed(next, next, c)
      <4>1. Named(next, c)
        BY <2>1 DEF Named
      <4>2. \A j \in 1 .. next : j <= next
        BY <1>1, UpTo
      <4> QED
        BY <4>1, <4>2 DEF IsLastNamed
    <3> QED
      BY <1>1, <1>2, <2>1, <3>1
  <2>2. CASE c # code
    <3>1. PICK i \in 1 .. next - 1 :
             IsLastNamed(next - 1, i, c) /\ labelByCode[c] = listing[i].label
      BY <1>2, <2>2 DEF LabelsFor
    <3>2. IsLastNamed(next, i, c)
      BY <1>1, <2>2, <3>1 DEF IsLastNamed, Named
    <3> QED
      BY <1>1, <1>2, <2>2, <3>1, <3>2
  <2> QED
    BY <2>1, <2>2
<1> QED
  BY <1>3, <1>4 DEF LabelsFor

LEMMA IndexSkips ==
    ASSUME TypeOK, next \in DOMAIN listing, LabelsFor(labelByCode, next - 1), listing[next].label = ""
    PROVE  LabelsFor(labelByCode, next)
<1>1. next \in Nat /\ next - 1 \in Nat /\ 1 .. next = (1 .. next - 1) \cup {next}
  BY NextListed
<1>2. \A i, c : IsLastNamed(next - 1, i, c) => IsLastNamed(next, i, c)
  BY <1>1 DEF IsLastNamed, Named
<1> QED
  BY <1>1, <1>2 DEF LabelsFor

LEMMA SizesStay ==
    ASSUME UNCHANGED <<order, seen, labelByCode>>
    PROVE  /\ SizesFor(sizes, next - 1)' <=> SizesFor(sizes', next' - 1)
           /\ SizesFor(sizes, Len(sizes))' <=> SizesFor(sizes', Len(sizes'))
           /\ SizesFor(sizes, 0)' <=> SizesFor(sizes', 0)
BY DEF SizesFor, MergedLabel

LEMMA LabelsStay ==
    ASSUME listing' = listing
    PROVE  /\ LabelsFor(labelByCode, next - 1)' <=> LabelsFor(labelByCode', next' - 1)
           /\ LabelsFor(labelByCode, Len(listing))' <=> LabelsFor(labelByCode', Len(listing))
BY DEF LabelsFor, IsLastNamed, Named

(***************************************************************************)
(* With the whole listing indexed, the label over a code is LabelOf's.     *)
(***************************************************************************)
LEMMA IndexedLabel ==
    ASSUME TypeOK, LabelsFor(labelByCode, Len(listing)), NEW s
    PROVE  LabelOf(listing, s) =
               IF s.code \in DOMAIN labelByCode THEN labelByCode[s.code] ELSE s.label
<1> DEFINE named == {i \in DOMAIN listing : listing[i].code = s.code /\ listing[i].label # ""}
<1>1. DOMAIN listing = 1 .. Len(listing) /\ Len(listing) \in Nat
  BY DEF TypeOK
<1>2. CASE s.code \in DOMAIN labelByCode
  <2>1. PICK i \in 1 .. Len(listing) :
           IsLastNamed(Len(listing), i, s.code) /\ labelByCode[s.code] = listing[i].label
    BY <1>2 DEF LabelsFor
  <2>2. i \in named /\ \A j \in named : j <= i
    BY <1>1, <2>1 DEF IsLastNamed, Named
  <2>3. named \subseteq 1 .. Len(listing)
    BY <1>1
  <2> HIDE DEF named
  <2>4. (CHOOSE k \in named : \A j \in named : j <= k) = i
    BY <1>1, <2>2, <2>3, Greatest
  <2>5. named # {}
    BY <2>2
  <2> QED
    BY <1>2, <2>1, <2>4, <2>5 DEF LabelOf, named
<1>3. CASE s.code \notin DOMAIN labelByCode
  <2>1. named = {}
    BY <1>1, <1>3 DEF LabelsFor
  <2> QED
    BY <1>3, <2>1 DEF LabelOf
<1> QED
  BY <1>2, <1>3

Relabel(s, n, l) == [s EXCEPT ![n].label = l]

Relabels(s, n, l, t) ==
    /\ t \in Seq(Size) /\ Len(t) = Len(s)
    /\ t[n].code = s[n].code /\ t[n].inStock = s[n].inStock /\ t[n].label = l
    /\ \A k \in 1 .. Len(s) : k # n => t[k] = s[k]

LEMMA Relabelled ==
    ASSUME NEW s \in Seq(Size), NEW n \in 1 .. Len(s), NEW l \in STRING,
           NEW t, t = Relabel(s, n, l)
    PROVE  Relabels(s, n, l, t)
<1>1. s[n] \in Size
  OBVIOUS
<1>2. [s[n] EXCEPT !.label = l] \in Size
  BY <1>1 DEF Size
<1>3. t = [s EXCEPT ![n] = [s[n] EXCEPT !.label = l]]
  BY DEF Relabel
<1>4. t \in Seq(Size) /\ Len(t) = Len(s)
  BY <1>2, <1>3
<1> QED
  BY <1>1, <1>3, <1>4 DEF Size, Relabels

(***************************************************************************)
(* One size is relabelled, the others are as they were.                    *)
(***************************************************************************)
LEMMA MergeRelabels ==
    ASSUME TypeOK, next \in DOMAIN sizes, SizesFor(sizes, next - 1), Merge
    PROVE  SizesFor(sizes', next) /\ sizes' \in Seq(Size)
<1>1. /\ sizes \in Seq(Size) /\ next \in 1 .. Len(sizes) /\ Len(sizes) \in Nat
      /\ order' = order /\ seen' = seen /\ labelByCode' = labelByCode /\ next' = next + 1
  BY DEF TypeOK, Merge, Visiting
<1>2. \A k \in 1 .. Len(sizes) : k <= next <=> k = next \/ k <= next - 1
  BY <1>1
<1>3. Len(sizes) = Len(order)
  BY DEF SizesFor
<1>4. sizes[next] \in Size /\ sizes[next].code = order[next]
      /\ sizes[next].inStock = seen[order[next]].inStock
      /\ sizes[next].label = seen[order[next]].label
  BY <1>1, <1>3 DEF SizesFor
<1>5. CASE order[next] \in DOMAIN labelByCode
  <2>1. sizes' = Relabel(sizes, next, labelByCode[order[next]])
    BY <1>4, <1>5 DEF Merge, Relabel
  <2>2. labelByCode[order[next]] \in STRING
    BY <1>5 DEF TypeOK
  <2>3. /\ sizes' \in Seq(Size) /\ Len(sizes') = Len(sizes)
        /\ sizes'[next].code = sizes[next].code
        /\ sizes'[next].inStock = sizes[next].inStock
        /\ sizes'[next].label = labelByCode[order[next]]
        /\ \A k \in 1 .. Len(sizes) : k # next => sizes'[k] = sizes[k]
    <3>1. Relabels(sizes, next, labelByCode[order[next]], sizes')
      BY <1>1, <2>1, <2>2, Relabelled
    <3> QED
      BY <3>1 DEF Relabels
  <2>4. ASSUME NEW k \in 1 .. Len(order)
        PROVE  /\ sizes'[k].code = order[k] /\ sizes'[k].inStock = seen[order[k]].inStock
               /\ sizes'[k].label = IF k <= next THEN MergedLabel(order[k])
                                    ELSE seen[order[k]].label
    <3>1. CASE k = next
      BY <1>1, <1>4, <1>5, <2>3, <3>1 DEF MergedLabel
    <3>2. CASE k # next
      BY <1>1, <1>2, <1>3, <2>3, <3>2 DEF SizesFor
    <3> QED
      BY <3>1, <3>2
  <2> QED
    BY <1>3, <2>3, <2>4 DEF SizesFor
<1>6. CASE order[next] \notin DOMAIN labelByCode
  <2>1. sizes' = sizes
    BY <1>4, <1>6 DEF Merge
  <2>2. MergedLabel(order[next]) = seen[order[next]].label
    BY <1>6 DEF MergedLabel
  <2>3. ASSUME NEW k \in 1 .. Len(order)
        PROVE  /\ sizes[k].code = order[k] /\ sizes[k].inStock = seen[order[k]].inStock
               /\ sizes[k].label = IF k <= next THEN MergedLabel(order[k])
                                   ELSE seen[order[k]].label
    BY <1>1, <1>2, <1>3, <1>4, <2>2 DEF SizesFor
  <2>4. SizesFor(sizes, next)
    BY <1>3, <2>3 DEF SizesFor
  <2> QED
    BY <1>1, <2>1, <2>4
<1> QED
  BY <1>5, <1>6

-----------------------------------------------------------------------------
(* The invariant.                                                          *)

LEMMA InitIInv == Init => IInv
<1> SUFFICES ASSUME Init PROVE IInv
  OBVIOUS
<1>1. listing \in Seq(Size)
  BY SizesAssumption DEF Init
<1>2. TypeOK
  BY <1>1 DEF Init, TypeOK, Nothing
<1> QED
  BY <1>2 DEF Init, IInv, Bounds, LoopInv, Untouched

LEMMA NothingDone ==
    ASSUME Untouched, TypeOK
    PROVE  /\ SeenFor(seen, order, Len(rows)) /\ SizesFor(sizes, 0)
           /\ LabelsFor(labelByCode, 0)
<1>1. SeenFor(seen, order, Len(rows))
  BY NothingSeen DEF Untouched
<1> QED
  BY <1>1 DEF Untouched, SizesFor, LabelsFor, Nothing

LEMMA FailsStep == ASSUME IInv, RequestFails PROVE IInv'
<1>1. TypeOK'
  BY DEF IInv, TypeOK, RequestFails, EnterLoop, reply
<1> QED
  BY <1>1 DEF IInv, Bounds, LoopInv, RequestFails, EnterLoop

LEMMA NoResultStep == ASSUME IInv, NoResult PROVE IInv'
<1> USE DEF NoResult, EnterLoop, reply
<1>1. TypeOK'
  BY DEF IInv, TypeOK
<1>2. Untouched /\ TypeOK
  BY DEF IInv, LoopInv
<1>3. /\ SeenFor(seen', order', Len(rows)) /\ SizesFor(sizes', 0)
      /\ LabelsFor(labelByCode', next' - 1)
  BY <1>2, NothingDone
<1>4. next' - 1 = 0 /\ Len(listing) \in Nat
  BY DEF IInv, TypeOK
<1>5. /\ SeenFor(seen, order, Len(rows))' /\ SizesFor(sizes, 0)'
      /\ LabelsFor(labelByCode, next - 1)'
  BY <1>3, SeenStays, SizesStay, LabelsStay
<1> QED
  BY <1>1, <1>4, <1>5 DEF IInv, Bounds, LoopInv

LEMMA AnsweredStep == ASSUME IInv, Answered PROVE IInv'
<1> USE DEF Answered, EnterLoop
<1>1. rows' \in Seq(Colour) /\ \A id \in DOMAIN stocks' : stocks'[id] \in StockRow
  BY SizesAssumption
<1>2. TypeOK'
  BY <1>1 DEF IInv, TypeOK
<1>3. seen' = Nothing /\ order' = << >> /\ labelByCode' = Nothing
  BY DEF IInv, LoopInv, Untouched
<1>4. SeenFor(seen, order, next - 1)'
  BY <1>3 DEF SeenFor, Nothing
<1>5. next' - 1 <= Len(rows')
  BY <1>1
<1> QED
  BY <1>2, <1>3, <1>4, <1>5 DEF IInv, Bounds, LoopInv

LEMMA CollapseStep == ASSUME IInv, Collapse PROVE IInv'
<1> USE DEF Collapse, Visiting
<1>0. rows \in Seq(Colour) /\ next \in Nat \ {0} /\ next <= Len(rows) /\ next' = next + 1
  BY DEF IInv, TypeOK
<1>1. TypeOK /\ next \in DOMAIN rows /\ SeenFor(seen, order, next - 1)
      /\ UNCHANGED <<reply, listing, sizes, labelByCode, pc>> /\ pc = "collapse"
  BY <1>0, Visited DEF IInv, LoopInv
<1>2. SeenFor(seen', order', next)
  BY <1>1, CollapseSees, CollapseSkips
<1>3. next' - 1 = next /\ next' \in Nat \ {0} /\ next <= Len(rows)
  BY <1>0, Visited
<1>4. SeenFor(seen, order, next - 1)'
  BY <1>1, <1>2, <1>3, SeenStays
<1>5. TypeOK'
  <2>1. /\ order' \in Seq(Code) /\ DOMAIN seen' \subseteq Code
        /\ \A c \in DOMAIN seen' : seen'[c] \in Size
    BY <1>2 DEF SeenFor
  <2> QED
    BY <1>1, <1>3, <2>1 DEF TypeOK, reply
<1> QED
  BY <1>1, <1>3, <1>4, <1>5 DEF IInv, Bounds, LoopInv, reply

LEMMA CollapsedStep == ASSUME IInv, Collapsed PROVE IInv'
<1> USE DEF Collapsed, EnterLoop
<1>1. /\ TypeOK /\ SeenFor(seen, order, next - 1) /\ labelByCode = Nothing
      /\ next - 1 <= Len(rows)
  BY DEF IInv, LoopInv, Bounds
<1>2. next - 1 = Len(rows)
  BY <1>1 DEF TypeOK
<1>3. order \in Seq(Code) /\ \A k \in 1 .. Len(order) :
          /\ order[k] \in DOMAIN seen /\ seen[order[k]] \in Size
          /\ seen[order[k]].code = order[k]
  BY <1>1 DEF SeenFor, SeenRight
<1>4. sizes' \in Seq(Size) /\ Len(sizes') = Len(order)
      /\ \A k \in 1 .. Len(order) : sizes'[k] = seen[order[k]]
  BY <1>3
<1>5. SizesFor(sizes', 0)
  BY <1>3, <1>4 DEF SizesFor
<1>6. LabelsFor(labelByCode', 0)
  BY <1>1 DEF LabelsFor, Nothing
<1>7. next' - 1 = 0 /\ Len(listing) \in Nat
  BY <1>1 DEF TypeOK
<1>8. /\ SeenFor(seen, order, Len(rows))' /\ SizesFor(sizes, 0)'
      /\ LabelsFor(labelByCode, next - 1)'
  BY <1>1, <1>2, <1>5, <1>6, <1>7, SeenStays, SizesStay, LabelsStay
<1>9. TypeOK'
  BY <1>1, <1>4 DEF TypeOK, reply
<1> QED
  BY <1>7, <1>8, <1>9 DEF IInv, Bounds, LoopInv

LEMMA IndexStep == ASSUME IInv, Index PROVE IInv'
<1> USE DEF Index, Visiting
<1>0. listing \in Seq(Size) /\ next \in Nat \ {0} /\ next <= Len(listing) /\ next' = next + 1
  BY DEF IInv, TypeOK
<1>1. /\ TypeOK /\ next \in DOMAIN listing /\ LabelsFor(labelByCode, next - 1)
      /\ SizesFor(sizes, 0) /\ SeenFor(seen, order, Len(rows)) /\ pc = "index" /\ pc' = pc
  BY <1>0, Visited DEF IInv, LoopInv
<1>2. LabelsFor(labelByCode', next)
  BY <1>1, IndexNames, IndexSkips
<1>3. next' - 1 = next /\ next' \in Nat \ {0} /\ next <= Len(listing)
  BY <1>0, Visited
<1>4. LabelsFor(labelByCode, next - 1)' /\ SeenFor(seen, order, Len(rows))'
  BY <1>1, <1>2, <1>3, LabelsStay, SeenStays
<1>5. SizesFor(sizes, 0)'
  <2>1. \A k \in 1 .. Len(order) : ~(k <= 0)
    <3>1. order \in Seq(Code)
      BY <1>1 DEF TypeOK
    <3> QED
      BY <3>1, NoneBefore
  <2> QED
    BY <1>1, <2>1 DEF SizesFor
<1>6. \A c \in DOMAIN labelByCode' : labelByCode'[c] \in STRING
  <2> TAKE c \in DOMAIN labelByCode'
  <2>1. PICK i \in 1 .. next : labelByCode'[c] = listing[i].label
    BY <1>2 DEF LabelsFor
  <2>2. listing[i] \in Size
    BY <1>0, Visited
  <2> QED
    BY <2>1, <2>2 DEF Size
<1>7. TypeOK'
  BY <1>1, <1>3, <1>6 DEF TypeOK, reply
<1> QED
  BY <1>1, <1>3, <1>4, <1>5, <1>7 DEF IInv, Bounds, LoopInv

LEMMA IndexedStep == ASSUME IInv, Indexed PROVE IInv'
<1> USE DEF Indexed, EnterLoop
<1>1. /\ TypeOK /\ LabelsFor(labelByCode, next - 1) /\ next - 1 <= Len(listing)
      /\ SizesFor(sizes, 0) /\ SeenFor(seen, order, Len(rows))
  BY DEF IInv, LoopInv, Bounds
<1>2. next - 1 = Len(listing) /\ next' - 1 = 0 /\ Len(sizes) \in Nat
  BY <1>1 DEF TypeOK
<1>3. /\ LabelsFor(labelByCode, Len(listing))' /\ SeenFor(seen, order, Len(rows))'
      /\ SizesFor(sizes, next - 1)'
  BY <1>1, <1>2, LabelsStay, SeenStays, SizesStay
<1>4. TypeOK'
  BY <1>1 DEF TypeOK, reply
<1> QED
  BY <1>2, <1>3, <1>4 DEF IInv, Bounds, LoopInv

LEMMA MergeStep == ASSUME IInv, Merge PROVE IInv'
<1>1. /\ TypeOK /\ LabelsFor(labelByCode, Len(listing)) /\ pc = "merge" /\ pc' = pc
      /\ SizesFor(sizes, next - 1) /\ SeenFor(seen, order, Len(rows))
      /\ next \in DOMAIN sizes /\ next' = next + 1
      /\ UNCHANGED <<listing, reply, seen, order, labelByCode>>
  BY DEF IInv, LoopInv, TypeOK, Merge, Visiting
<1>2. SizesFor(sizes', next) /\ sizes' \in Seq(Size)
  BY <1>1, MergeRelabels
<1>3. Len(sizes') = Len(sizes)
  BY <1>1, <1>2 DEF SizesFor
<1>4. next' - 1 = next /\ next' \in Nat \ {0} /\ next <= Len(sizes')
  BY <1>1, <1>3 DEF TypeOK
<1>5. /\ LabelsFor(labelByCode, Len(listing))' /\ SeenFor(seen, order, Len(rows))'
      /\ SizesFor(sizes, next - 1)'
  BY <1>1, <1>2, <1>4, LabelsStay, SeenStays, SizesStay
<1>6. TypeOK'
  BY <1>1, <1>2, <1>4 DEF TypeOK, reply
<1> QED
  BY <1>1, <1>4, <1>5, <1>6 DEF IInv, Bounds, LoopInv

LEMMA MergedStep == ASSUME IInv, Merged PROVE IInv'
<1> USE DEF Merged, EnterLoop
<1>1. /\ TypeOK /\ LabelsFor(labelByCode, Len(listing)) /\ next - 1 <= Len(sizes)
      /\ SizesFor(sizes, next - 1) /\ SeenFor(seen, order, Len(rows))
  BY DEF IInv, LoopInv, Bounds
<1>2. next - 1 = Len(sizes)
  BY <1>1 DEF TypeOK
<1>3. /\ LabelsFor(labelByCode, Len(listing))' /\ SeenFor(seen, order, Len(rows))'
      /\ SizesFor(sizes, Len(sizes))'
  BY <1>1, <1>2, LabelsStay, SeenStays, SizesStay
<1>4. TypeOK'
  BY <1>1 DEF TypeOK, reply
<1> QED
  BY <1>3, <1>4 DEF IInv, Bounds, LoopInv

LEMMA StutterStep == ASSUME IInv, UNCHANGED vars PROVE IInv'
<1> USE DEF vars
<1>1. TypeOK'
  BY DEF IInv, TypeOK, reply
<1>2. Bounds'
  BY DEF IInv, Bounds, reply
<1>3. LoopInv'
  <2>1. /\ SeenFor(seen, order, next - 1)' <=> SeenFor(seen, order, next - 1)
        /\ SeenFor(seen, order, Len(rows))' <=> SeenFor(seen, order, Len(rows))
    BY SeenStays DEF reply
  <2>2. /\ SizesFor(sizes, next - 1)' <=> SizesFor(sizes, next - 1)
        /\ SizesFor(sizes, Len(sizes))' <=> SizesFor(sizes, Len(sizes))
        /\ SizesFor(sizes, 0)' <=> SizesFor(sizes, 0)
    BY SizesStay
  <2>3. /\ LabelsFor(labelByCode, next - 1)' <=> LabelsFor(labelByCode, next - 1)
        /\ LabelsFor(labelByCode, Len(listing))' <=> LabelsFor(labelByCode, Len(listing))
    BY LabelsStay
  <2> QED
    BY <2>1, <2>2, <2>3 DEF IInv, LoopInv, Untouched, reply
<1> QED
  BY <1>1, <1>2, <1>3 DEF IInv

LEMMA StepIInv == IInv /\ [Next]_vars => IInv'
BY FailsStep, NoResultStep, AnsweredStep, CollapseStep, CollapsedStep, IndexStep, IndexedStep,
   MergeStep, MergedStep, StutterStep DEF Next

THEOREM SizesTypeCorrect == Spec => []TypeOK
<1>1. IInv => TypeOK
  BY DEF IInv
<1> QED
  BY <1>1, InitIInv, StepIInv, PTL DEF Spec

-----------------------------------------------------------------------------
(***************************************************************************)
(* detail.go: a size is in stock exactly if one of its colours is, and the *)
(* sizes are the codes of the reply, each once, for every reply.           *)
(***************************************************************************)
THEOREM AnyColourCounts == Spec => []StockOfAnyColour
<1>1. ASSUME IInv, pc = "done" PROVE StockOfAnyColour
  <2>1. TypeOK /\ SeenFor(seen, order, Len(rows)) /\ SizesFor(sizes, Len(sizes))
    BY <1>1 DEF IInv, LoopInv
  <2>2. /\ DOMAIN sizes = 1 .. Len(order) /\ DOMAIN rows = 1 .. Len(rows)
        /\ \A k \in 1 .. Len(order) :
              sizes[k].code = order[k] /\ sizes[k].inStock = seen[order[k]].inStock
    BY <2>1 DEF TypeOK, SizesFor
  <2>3. \A i \in DOMAIN rows : rows[i].size.code \in STRING
    BY <2>1, <2>2, RowType
  <2>4. \A c \in Code :
           (\E k \in DOMAIN sizes : sizes[k].code = c) <=> \E i \in DOMAIN rows : rows[i].size.code = c
    <3> TAKE c \in Code
    <3>1. (\E k \in DOMAIN sizes : sizes[k].code = c) <=> c \in DOMAIN seen
      <4>1. c \in DOMAIN seen => \E k \in 1 .. Len(order) : order[k] = c
        BY <2>1 DEF SeenFor
      <4>2. \A k \in 1 .. Len(order) : order[k] \in DOMAIN seen
        BY <2>1 DEF SeenFor
      <4> QED
        BY <2>2, <4>1, <4>2
    <3>2. c \in DOMAIN seen <=> \E i \in DOMAIN rows : rows[i].size.code = c
      BY <2>1, <2>2 DEF SeenFor
    <3> QED
      BY <3>1, <3>2
  <2>5. \A k \in DOMAIN sizes : sizes[k].code \in Code
    BY <2>1, <2>2 DEF SeenFor
  <2>6. {sizes[k].code : k \in DOMAIN sizes} = {rows[i].size.code : i \in DOMAIN rows} \ {""}
    BY <2>3, <2>4, <2>5 DEF Code
  <2>7. \A k, m \in DOMAIN sizes : sizes[k].code = sizes[m].code => k = m
    BY <2>1, <2>2 DEF SeenFor
  <2>8. ASSUME NEW k \in DOMAIN sizes
        PROVE  sizes[k].inStock <=> \E i \in RowsOf(sizes[k].code) : IsStocked(rows[i])
    <3>1. SeenRight(seen[order[k]], Len(rows), order[k])
      BY <2>1, <2>2 DEF SeenFor
    <3>2. sizes[k].inStock <=> seen[order[k]].inStock
      BY <2>2
    <3>3. (\E i \in RowsOf(order[k]) : IsStocked(rows[i]))
          <=> \E i \in 1 .. Len(rows) : rows[i].size.code = order[k] /\ IsStocked(rows[i])
      BY <2>2 DEF RowsOf
    <3> QED
      BY <2>2, <3>1, <3>2, <3>3 DEF SeenRight
  <2> QED
    BY <2>6, <2>7, <2>8 DEF StockOfAnyColour
<1>2. IInv => StockOfAnyColour
  BY <1>1 DEF StockOfAnyColour
<1> QED
  BY <1>2, InitIInv, StepIInv, PTL DEF Spec

(***************************************************************************)
(* runner.go's mergeLabels: what it computes is the pipeline's LabelOf,    *)
(* for every listing.                                                      *)
(***************************************************************************)
THEOREM ListedLabelsWin == Spec => []LabelsAsListed
<1>1. ASSUME IInv, pc = "done" PROVE LabelsAsListed
  <2>1. /\ TypeOK /\ SeenFor(seen, order, Len(rows)) /\ SizesFor(sizes, Len(sizes))
        /\ LabelsFor(labelByCode, Len(listing))
    BY <1>1 DEF IInv, LoopInv
  <2>2. /\ sizes \in Seq(Size) /\ DOMAIN sizes = 1 .. Len(order) /\ Len(sizes) = Len(order)
        /\ DOMAIN rows = 1 .. Len(rows) /\ Len(rows) \in Nat /\ Len(sizes) \in Nat
    BY <2>1 DEF TypeOK, SizesFor
  <2>3. ASSUME NEW k \in DOMAIN sizes
        PROVE  /\ sizes[k].label # ""
               /\ \E i \in DOMAIN rows :
                     /\ IsFirstRow(i, sizes[k].code)
                     /\ sizes[k].label = LabelOf(listing,
                            [sizes[k] EXCEPT !.label = DisplayOrName(rows[i].size)])
    <3> DEFINE c == order[k]
    <3>1. sizes[k].code = c /\ sizes[k].label = MergedLabel(c) /\ sizes[k] \in Size
      BY <2>1, <2>2 DEF SizesFor
    <3>2. c \in DOMAIN seen /\ c \in Code /\ SeenRight(seen[c], Len(rows), c)
      <4>1. c \in DOMAIN seen
        BY <2>1, <2>2 DEF SeenFor
      <4>2. \A d \in DOMAIN seen : d \in Code /\ SeenRight(seen[d], Len(rows), d)
        BY <2>1 DEF SeenFor
      <4> QED
        BY <4>1, <4>2
    <3>3. PICK i \in 1 .. Len(rows) :
             /\ rows[i].size.code = c /\ \A j \in 1 .. i - 1 : rows[j].size.code # c
             /\ seen[c].label = DisplayOrName(rows[i].size)
      BY <3>2 DEF SeenRight
    <3>4. IsFirstRow(i, c)
      <4>1. \A j \in 1 .. Len(rows) : j \in 1 .. i - 1 \/ i <= j
        BY <2>2
      <4> QED
        BY <2>2, <3>3, <4>1 DEF IsFirstRow, RowsOf
    <3>5. DisplayOrName(rows[i].size) \in STRING /\ DisplayOrName(rows[i].size) # ""
      BY <2>1, <3>2, <3>3, RowType DEF DisplayOrName, Code
    <3> DEFINE s == [sizes[k] EXCEPT !.label = DisplayOrName(rows[i].size)]
    <3>6. s.code = c /\ s.label = seen[c].label
      BY <3>1, <3>3, <3>5 DEF Size
    <3> HIDE DEF s, c
    <3>7. LabelOf(listing, s) = MergedLabel(c)
      BY <2>1, <3>6, IndexedLabel DEF MergedLabel
    <3>8. MergedLabel(c) # ""
      <4>1. c \in DOMAIN labelByCode => labelByCode[c] # ""
        BY <2>1 DEF LabelsFor, IsLastNamed, Named
      <4> QED
        BY <3>3, <3>5, <4>1 DEF MergedLabel
    <3> QED
      BY <2>2, <3>1, <3>4, <3>7, <3>8 DEF s
  <2> QED
    BY <2>3 DEF LabelsAsListed
<1>2. IInv => LabelsAsListed
  BY <1>1 DEF LabelsAsListed
<1> QED
  BY <1>2, InitIInv, StepIInv, PTL DEF Spec

=============================================================================
