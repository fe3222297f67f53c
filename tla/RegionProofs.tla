------------------------------ MODULE RegionProofs ------------------------------
(***************************************************************************)
(* Proofs for every value of the constants: the lookup of RegionSearch is   *)
(* safe and right on every table; and RegionTable's initializer, killed as  *)
(* often as it may be, ends with the table the lookup needs.                *)
(***************************************************************************)
EXTENDS RegionTable, FiniteSetTheorems, TLAPS

Index == 0..(Len(regions) - 1)

\* The part of the table still searched.  When it is empty (upper is one below
\* lower), the region at lower begins above the address.
SearchedPart ==
  pc = "search" =>
    /\ regionCount > 0
    /\ At(0).addrbeg <= address
    /\ lower \in Index
    /\ upper <= regionCount - 1 /\ lower - 1 <= upper
    /\ upper = lower - 1 => At(lower).addrbeg > address

\* A region that covers the address is still in it, if the table is sorted.
CoveredStays ==
  Sorted /\ pc = "search" =>
    \A i \in DOMAIN regions :
      Covers(regions[i], address) => lower <= i - 1 /\ i - 1 <= upper

IInv ==
  /\ TypeOK
  /\ regionCount = Len(regions)
  /\ SearchedPart
  /\ CoveredStays
  /\ FoundCovers
  /\ CoveredIsFound

-------------------------------------------------------------------------------
\* Half of a number halves it, or leaves the -1 of an empty part at 0.
LEMMA HalfFacts ==
  ASSUME NEW n \in Int, n >= -1
  PROVE  /\ Half(n) \in Int
         /\ n = -1 => Half(n) = 0
         /\ n = 0 => Half(n) = 0
         /\ n > 0 => 0 <= Half(n) /\ Half(n) < n
BY SMT DEF Half

\* The middle lies in the table, and below upper unless the part is that small.
LEMMA MiddleFacts ==
  ASSUME IInv, pc = "search", lower # upper
  PROVE  /\ Middle \in Index
         /\ At(Middle) \in Region
         /\ upper = lower - 1 => Middle = lower
         /\ lower < upper => lower <= Middle /\ Middle < upper
<1>1. upper - lower \in Int /\ upper - lower >= -1 /\ regionCount = Len(regions)
      /\ Len(regions) \in Nat /\ lower \in Nat /\ upper \in Nat
  BY DEF IInv, TypeOK, SearchedPart
<1>2. /\ Half(upper - lower) \in Int
      /\ upper - lower = -1 => Half(upper - lower) = 0
      /\ upper - lower > 0 => 0 <= Half(upper - lower) /\ Half(upper - lower) < upper - lower
  BY <1>1, HalfFacts
<1>3. /\ upper = lower - 1 => Middle = lower
      /\ lower < upper => lower <= Middle /\ Middle < upper
  BY <1>1, <1>2 DEF Middle
<1>4. Middle \in Index
  BY <1>1, <1>2, <1>3 DEF IInv, SearchedPart, Middle, Index
<1>5. At(Middle) \in Region
  BY <1>4, <1>1 DEF At, Index, IInv, TypeOK
<1> QED
  BY <1>3, <1>4, <1>5

\* Before the first lookup there is only the table's length to get right.
LEMMA IdleIInv ==
  ASSUME TypeOK, regionCount = Len(regions), pc = "idle"
  PROVE  IInv
BY DEF IInv, SearchedPart, CoveredStays, FoundCovers, CoveredIsFound

LEMMA InitIInv ==
  Init => IInv
<1> SUFFICES ASSUME Init PROVE IInv
  OBVIOUS
<1>1. TypeOK
  BY TableAssumption DEF Init, LookupInit, TypeOK, Address
<1>2. pc = "idle" /\ regionCount = Len(regions)
  BY DEF Init, LookupInit
<1> QED
  BY <1>1, <1>2, IdleIInv

\* A lookup that returns, the table being unchanged.
LEMMA StepReturns ==
  ASSUME IInv, TypeOK', UNCHANGED tableVars, pc' = "done",
         FoundCovers', CoveredIsFound'
  PROVE  IInv'
<1>1. (regionCount = Len(regions))'
  BY DEF IInv, tableVars
<1>2. SearchedPart' /\ CoveredStays'
  BY DEF SearchedPart, CoveredStays
<1> QED
  BY <1>1, <1>2 DEF IInv

\* A lookup that goes on, the table being unchanged.
LEMMA StepSearches ==
  ASSUME IInv, TypeOK', UNCHANGED tableVars, pc' = "search",
         SearchedPart', CoveredStays'
  PROVE  IInv'
<1>1. (regionCount = Len(regions))'
  BY DEF IInv, tableVars
<1>2. FoundCovers' /\ CoveredIsFound'
  BY DEF FoundCovers, CoveredIsFound
<1> QED
  BY <1>1, <1>2 DEF IInv

LEMMA StartStep ==
  ASSUME IInv, NEW a \in Address, StartLookup(a)
  PROVE  IInv'
<1> USE TableAssumption
<1>0. /\ TypeOK /\ regionCount = Len(regions) /\ Len(regions) \in Nat
      /\ UNCHANGED tableVars /\ regions' = regions /\ regionCount' = regionCount
      /\ address' = a
  BY DEF IInv, TypeOK, StartLookup, tableVars
<1>1. CASE a \in Private /\ Returns(PN) /\ UNCHANGED <<lower, upper>>
  <2>1. TypeOK' /\ pc' = "done" /\ FoundCovers' /\ CoveredIsFound'
    BY <1>0, <1>1 DEF TypeOK, Returns, FoundCovers, CoveredIsFound
  <2> QED
    BY <2>1, <1>0, StepReturns
<1>2. CASE /\ a \notin Private /\ ~InsideTable(a)
           /\ Returns(NoCode) /\ UNCHANGED <<lower, upper>>
  <2>1. TypeOK' /\ pc' = "done" /\ FoundCovers'
    BY <1>0, <1>2 DEF TypeOK, Returns, FoundCovers
  <2>2. CoveredIsFound'
    <3> SUFFICES ASSUME Sorted, NEW i \in DOMAIN regions, Covers(regions[i], a)
                 PROVE  FALSE
      BY <1>0, <1>2, Zenon DEF CoveredIsFound, Sorted, Returns
    <3>1. /\ DOMAIN regions = 1..Len(regions) /\ i \in 1..Len(regions)
          /\ 1 \in DOMAIN regions /\ Len(regions) \in DOMAIN regions
      BY <1>0 DEF TypeOK
    <3>2. \A j \in DOMAIN regions : /\ regions[j].addrbeg \in Nat
                                    /\ regions[j].addrend \in Nat
      <4> TAKE j \in DOMAIN regions
      <4>1. regions \in Seq(Region)
        BY <1>0 DEF TypeOK
      <4>2. regions[j] \in Region
        BY <4>1, <3>1
      <4>3. regions[j].addrbeg \in Address /\ regions[j].addrend \in Address
        BY <4>2 DEF Region
      <4> QED
        BY <4>3 DEF Address
    <3>3. /\ regions[1].addrbeg <= regions[i].addrbeg
          /\ regions[i].addrend <= regions[Len(regions)].addrend
      <4>1. i \in Int /\ 1 <= i /\ i <= Len(regions) /\ Len(regions) \in Int
        BY <3>1, <1>0
      <4>2. regions[1].addrbeg <= regions[i].addrbeg
        <5>1. CASE i = 1
          BY <3>1, <3>2, <5>1
        <5>2. CASE 1 < i
          BY <3>1, <5>2 DEF Sorted
        <5> QED
          BY <4>1, <5>1, <5>2
      <4>3. regions[i].addrend <= regions[Len(regions)].addrend
        <5>1. CASE i = Len(regions)
          BY <3>1, <3>2, <5>1
        <5>2. CASE i < Len(regions)
          BY <3>1, <5>2 DEF Sorted
        <5> QED
          BY <4>1, <5>1, <5>2
      <4> QED
        BY <4>2, <4>3
    <3>4. regions[1].addrbeg <= a /\ a <= regions[Len(regions)].addrend
      BY <3>1, <3>2, <3>3 DEF Covers, Address
    <3> QED
      BY <3>1, <3>4, <1>0, <1>2 DEF InsideTable, At
  <2> QED
    BY <2>1, <2>2, <1>0, StepReturns
<1>3. CASE /\ a \notin Private /\ InsideTable(a)
           /\ lower' = 0 /\ upper' = LastIndex
           /\ pc' = "search" /\ result' = NoCode
  <2>1. TypeOK'
    BY <1>0, <1>3 DEF TypeOK, LastIndex, InsideTable
  <2>2. SearchedPart'
    BY <1>0, <1>3 DEF SearchedPart, InsideTable, LastIndex, Index, At
  <2>3. CoveredStays'
    BY <1>0, <1>3 DEF CoveredStays, LastIndex, TypeOK
  <2> QED
    BY <2>1, <2>2, <2>3, <1>0, <1>3, StepSearches
<1> QED
  BY <1>1, <1>2, <1>3 DEF StartLookup

LEMMA LastElementStep ==
  ASSUME IInv, pc = "search", LastElement, UNCHANGED <<regions, regionCount, address>>
  PROVE  IInv'
<1> USE TableAssumption
<1>0. /\ TypeOK /\ regionCount = Len(regions) /\ Len(regions) \in Nat
      /\ UNCHANGED tableVars /\ regions' = regions /\ address' = address
  BY DEF IInv, TypeOK, tableVars
<1>1. lower = upper /\ lower + 1 \in 1..Len(regions) /\ At(lower) = regions[lower + 1]
      /\ At(lower) \in Region
  BY <1>0 DEF IInv, SearchedPart, LastElement, Index, At, TypeOK
<1>2. TypeOK' /\ pc' = "done"
  BY <1>0, <1>1 DEF LastElement, Returns, TypeOK, Region
<1>3. FoundCovers'
  BY <1>0, <1>1 DEF LastElement, Returns, FoundCovers
<1>4. CoveredIsFound'
  <2> SUFFICES ASSUME Sorted, NEW i \in DOMAIN regions, Covers(regions[i], address)
               PROVE  result' \in Code
    BY <1>0, Zenon DEF CoveredIsFound, Sorted
  <2>1. lower <= i - 1 /\ i - 1 <= upper
    BY DEF IInv, CoveredStays
  <2>2. i = lower + 1
    BY <2>1, <1>0, <1>1 DEF TypeOK
  <2> QED
    BY <2>2, <1>1 DEF LastElement, Returns, Region
<1> QED
  BY <1>0, <1>2, <1>3, <1>4, StepReturns

LEMMA FoundStep ==
  ASSUME IInv, pc = "search", lower # upper, FoundInMiddle,
         UNCHANGED <<regions, regionCount, address>>
  PROVE  IInv'
<1>0. /\ TypeOK /\ regionCount = Len(regions) /\ Len(regions) \in Nat
      /\ UNCHANGED tableVars /\ regions' = regions /\ address' = address
  BY DEF IInv, TypeOK, tableVars
<1>1. Middle + 1 \in DOMAIN regions /\ At(Middle) = regions[Middle + 1]
      /\ At(Middle) \in Region
  BY <1>0, MiddleFacts DEF Index, At, TypeOK
<1>2. TypeOK' /\ pc' = "done" /\ result' \in Code
  BY <1>0, <1>1 DEF FoundInMiddle, Returns, TypeOK, Region
<1>3. FoundCovers'
  BY <1>0, <1>1 DEF FoundInMiddle, Returns, FoundCovers
<1>4. CoveredIsFound'
  BY <1>2 DEF CoveredIsFound
<1> QED
  BY <1>0, <1>2, <1>3, <1>4, StepReturns

LEMMA BelowStep ==
  ASSUME IInv, pc = "search", lower # upper, SearchBelow,
         UNCHANGED <<regions, regionCount, address>>
  PROVE  IInv'
<1>0. /\ TypeOK /\ regionCount = Len(regions) /\ Len(regions) \in Nat
      /\ UNCHANGED tableVars /\ regions' = regions /\ address' = address
      /\ regionCount' = regionCount /\ pc' = "search" /\ lower' = lower
      /\ lower \in Nat /\ upper \in Nat /\ address \in Nat
  BY DEF IInv, TypeOK, tableVars, SearchBelow, Address
<1>1. /\ Middle \in Index /\ At(Middle) \in Region
      /\ upper = lower - 1 => Middle = lower
      /\ lower < upper => lower <= Middle /\ Middle < upper
  BY MiddleFacts
<1>2. /\ regionCount > 0 /\ At(0).addrbeg <= address /\ lower \in Index
      /\ upper <= regionCount - 1 /\ lower - 1 <= upper
  BY DEF IInv, SearchedPart
<1>3. At(Middle).addrbeg > address /\ upper' = Middle - 1
  BY DEF SearchBelow
\* The first region begins at the address or below: the middle is not it.
<1>4. Middle > 0
  BY <1>0, <1>1, <1>2, <1>3 DEF Index, Region, Address
<1>5. TypeOK'
  BY <1>0, <1>1, <1>3, <1>4 DEF TypeOK, SearchBelow, Index
<1>6. SearchedPart'
  BY <1>0, <1>1, <1>2, <1>3 DEF SearchedPart, Index, At
<1>7. CoveredStays'
  <2> SUFFICES ASSUME Sorted, NEW i \in DOMAIN regions, Covers(regions[i], address)
               PROVE  lower <= i - 1 /\ i - 1 <= Middle - 1
    BY <1>0, <1>3 DEF CoveredStays, Sorted
  <2>1. lower <= i - 1 /\ i - 1 <= upper
    BY DEF IInv, CoveredStays
  <2>2. i \in 1..Len(regions) /\ Middle + 1 \in 1..Len(regions)
        /\ regions[i] \in Region /\ regions[Middle + 1] \in Region
    BY <1>0, <1>1 DEF Index, TypeOK
  <2>3. regions[i].addrbeg < regions[Middle + 1].addrbeg
    BY <2>2, <1>0, <1>3 DEF Covers, At, Region, Address
  <2>4. i < Middle + 1
    BY <2>2, <2>3 DEF Sorted, Region, Address
  <2> QED
    BY <2>1, <2>2, <2>4, <1>1 DEF Index
<1> QED
  BY <1>0, <1>5, <1>6, <1>7, StepSearches

LEMMA AboveStep ==
  ASSUME IInv, pc = "search", lower # upper, SearchAbove,
         UNCHANGED <<regions, regionCount, address>>
  PROVE  IInv'
<1>0. /\ TypeOK /\ regionCount = Len(regions) /\ Len(regions) \in Nat
      /\ UNCHANGED tableVars /\ regions' = regions /\ address' = address
      /\ regionCount' = regionCount /\ pc' = "search" /\ upper' = upper
      /\ lower \in Nat /\ upper \in Nat /\ address \in Nat
  BY DEF IInv, TypeOK, tableVars, SearchAbove, Address
<1>1. /\ Middle \in Index /\ At(Middle) \in Region
      /\ upper = lower - 1 => Middle = lower
      /\ lower < upper => lower <= Middle /\ Middle < upper
  BY MiddleFacts
<1>2. /\ regionCount > 0 /\ At(0).addrbeg <= address /\ lower \in Index
      /\ upper <= regionCount - 1 /\ lower - 1 <= upper
      /\ upper = lower - 1 => At(lower).addrbeg > address
  BY DEF IInv, SearchedPart
<1>3. /\ At(Middle).addrbeg <= address /\ At(Middle).addrend < address
      /\ lower' = Middle + 1
  BY DEF SearchAbove
\* The part searched is not empty, since the middle begins below the address.
<1>4. lower < upper
  <2>1. SUFFICES ASSUME upper = lower - 1 PROVE FALSE
    BY <2>1, <1>0, <1>2 DEF Index
  <2>2. Middle = lower /\ At(lower) \in Region
    BY <2>1, <1>1
  <2> QED
    BY <2>1, <2>2, <1>0, <1>2, <1>3 DEF Region, Address
<1>5. TypeOK'
  BY <1>0, <1>1, <1>3 DEF TypeOK, SearchAbove, Index
<1>6. SearchedPart'
  BY <1>0, <1>1, <1>2, <1>3, <1>4 DEF SearchedPart, Index, At
<1>7. CoveredStays'
  <2> SUFFICES ASSUME Sorted, NEW i \in DOMAIN regions, Covers(regions[i], address)
               PROVE  Middle + 1 <= i - 1 /\ i - 1 <= upper
    BY <1>0, <1>3 DEF CoveredStays, Sorted
  <2>1. lower <= i - 1 /\ i - 1 <= upper
    BY DEF IInv, CoveredStays
  <2>2. i \in 1..Len(regions) /\ Middle + 1 \in 1..Len(regions)
        /\ regions[i] \in Region /\ regions[Middle + 1] \in Region
    BY <1>0, <1>1 DEF Index, TypeOK
  <2>3. regions[Middle + 1].addrend < regions[i].addrend
    BY <2>2, <1>0, <1>3 DEF Covers, At, Region, Address
  <2>4. Middle + 1 < i
    BY <2>2, <2>3 DEF Sorted, Region, Address
  <2> QED
    BY <2>1, <2>2, <2>4, <1>1 DEF Index
<1> QED
  BY <1>0, <1>5, <1>6, <1>7, StepSearches

LEMMA NextIInv ==
  IInv /\ [Next]_vars => IInv'
<1> SUFFICES ASSUME IInv, [Next]_vars PROVE IInv'
  OBVIOUS
<1>1. ASSUME NEW a \in Address, StartLookup(a) PROVE IInv'
  BY <1>1, StartStep
<1>2. CASE Iterate
  <2>1. pc = "search" /\ UNCHANGED <<regions, regionCount, address>>
    BY <1>2 DEF Iterate
  <2>2. CASE LastElement
    BY <2>1, <2>2, LastElementStep
  <2>3. CASE lower # upper /\ SearchBelow
    BY <2>1, <2>3, BelowStep
  <2>4. CASE lower # upper /\ SearchAbove
    BY <2>1, <2>4, AboveStep
  <2>5. CASE lower # upper /\ FoundInMiddle
    BY <2>1, <2>5, FoundStep
  <2> QED
    BY <1>2, <2>2, <2>3, <2>4, <2>5 DEF Iterate
<1>3. CASE UNCHANGED vars
  BY <1>3 DEF vars, IInv, TypeOK, SearchedPart, CoveredStays, FoundCovers,
              CoveredIsFound, Sorted, Covers, At, Index
<1> QED
  BY <1>1, <1>2, <1>3 DEF Next, Lookup

THEOREM Invariance == Spec => []IInv
BY InitIInv, NextIInv, PTL DEF Spec

-------------------------------------------------------------------------------
\* The state of a lookup has its types; in particular upper never falls below
\* zero, where the code's signed index would leave the table.
THEOREM LookupTypes == Spec => []TypeOK
BY Invariance, PTL DEF IInv

\* countryCodeForIPAddress reads its table only inside its bounds, on every
\* table, sorted or not.
THEOREM LookupInTable == Spec => []InTable
<1>1. IInv => InTable
  BY MiddleFacts DEF IInv, SearchedPart, InTable, Index
<1> QED
  BY <1>1, Invariance, PTL

\* A country it returns is that of a region covering the address, on every
\* table.
THEOREM LookupFindsCovering == Spec => []FoundCovers
BY Invariance, PTL DEF IInv

\* On a sorted table, it misses no region covering the address.
THEOREM LookupMissesNone == Spec => []CoveredIsFound
BY Invariance, PTL DEF IInv

-------------------------------------------------------------------------------
(***************************************************************************)
(* The region database in the order of its keys.  The keys before that of  *)
(* a region are fewer than the regions, and more for a later one; so there *)
(* is one region for each number of keys.                                  *)
(***************************************************************************)
KeysDiffer == \A r, q \in regionDb : r.addrbeg = q.addrbeg => r = q

LEMMA RegionTypes ==
  ASSUME NEW r \in Region
  PROVE  /\ r.addrbeg \in Nat /\ r.addrend \in Nat /\ r.addrbeg \in Address /\ r.addrend \in Address
         /\ r.code \in Code
BY DEF Region, Address

Keys == Cardinality(regionDb)

Rank(r) == Cardinality(Before(r))

LEMMA RankIs ==
  ASSUME IsFiniteSet(regionDb), regionDb \subseteq Region, NEW r \in regionDb
  PROVE  /\ Keys \in Nat /\ Rank(r) \in 0..Keys - 1
         /\ IsFiniteSet(Before(r))
         /\ \A q \in regionDb : q.addrbeg < r.addrbeg => Rank(q) < Rank(r)
<1>1. \A q \in regionDb : q.addrbeg \in Nat
  BY RegionTypes
<1>2. Before(r) \subseteq regionDb \ {r}
  BY <1>1 DEF Before, Ascending
<1>3. IsFiniteSet(regionDb \ {r}) /\ Cardinality(regionDb \ {r}) = Cardinality(regionDb) - 1
  BY FS_RemoveElement
<1>4. IsFiniteSet(Before(r)) /\ Cardinality(Before(r)) <= Cardinality(regionDb \ {r})
  BY <1>2, <1>3, FS_Subset
<1>5. Cardinality(regionDb) \in Nat /\ Cardinality(Before(r)) \in Nat
  BY <1>4, FS_CardinalityType
<1>6. Keys \in Nat /\ Rank(r) \in 0..Keys - 1
  BY <1>3, <1>4, <1>5 DEF Keys, Rank
<1>7. ASSUME NEW q \in regionDb, q.addrbeg < r.addrbeg
      PROVE  Rank(q) < Rank(r)
  <2>1. q \in Before(r)
    BY <1>7 DEF Before, Ascending
  <2>2. Before(q) \subseteq Before(r) \ {q}
    BY <1>1, <1>7 DEF Before, Ascending
  <2>3. IsFiniteSet(Before(r) \ {q}) /\ Cardinality(Before(r) \ {q}) = Cardinality(Before(r)) - 1
    BY <1>4, <2>1, FS_RemoveElement
  <2>4. IsFiniteSet(Before(q)) /\ Cardinality(Before(q)) <= Cardinality(Before(r) \ {q})
    BY <2>2, <2>3, FS_Subset
  <2>5. Cardinality(Before(q)) \in Nat
    BY <2>4, FS_CardinalityType
  <2> QED
    BY <1>5, <2>3, <2>4, <2>5 DEF Rank
<1> QED
  BY <1>4, <1>6, <1>7

LEMMA EveryRank ==
  ASSUME IsFiniteSet(regionDb), regionDb \subseteq Region, KeysDiffer, NEW k \in 0..Keys - 1
  PROVE  \E r \in regionDb : Rank(r) = k
<1> DEFINE f == [r \in regionDb |-> Rank(r)]
<1>1. Keys \in Nat
  BY FS_CardinalityType DEF Keys
<1>2. \A r \in regionDb : Rank(r) \in 0..Keys - 1
  BY RankIs
<1>3. ASSUME NEW r \in regionDb, NEW q \in regionDb, Rank(r) = Rank(q)
      PROVE  r = q
  <2>1. ~(r.addrbeg < q.addrbeg) /\ ~(q.addrbeg < r.addrbeg)
    <3>1. Rank(r) \in Nat /\ Rank(q) \in Nat
      BY <1>1, <1>2
    <3>2. r.addrbeg < q.addrbeg => Rank(r) < Rank(q)
      BY RankIs
    <3>3. q.addrbeg < r.addrbeg => Rank(q) < Rank(r)
      BY RankIs
    <3> QED
      BY <1>3, <3>1, <3>2, <3>3
  <2>2. r.addrbeg \in Nat /\ q.addrbeg \in Nat
    BY RegionTypes
  <2>3. r.addrbeg = q.addrbeg
    BY <2>1, <2>2
  <2> QED
    BY <2>3 DEF KeysDiffer
<1>4. f \in Injection(regionDb, 0..Keys - 1)
  BY <1>2, <1>3 DEF Injection, IsInjective
<1>5. IsFiniteSet(0..Keys - 1) /\ Cardinality(0..Keys - 1) = Cardinality(regionDb)
  <2>1. IsFiniteSet(0..Keys - 1) /\ Cardinality(0..Keys - 1) = (IF 0 > Keys - 1 THEN 0 ELSE Keys - 1 - 0 + 1)
    BY <1>1, FS_Interval
  <2>2. (IF 0 > Keys - 1 THEN 0 ELSE Keys - 1 - 0 + 1) = Keys
    BY <1>1
  <2> QED
    BY <2>1, <2>2 DEF Keys
<1>6. f \in Surjection(regionDb, 0..Keys - 1)
  BY <1>4, <1>5, FS_Injection
<1> QED
  BY <1>6 DEF Surjection

\* The database in the order of its keys has each region once.
LEMMA KeyOrder ==
  ASSUME IsFiniteSet(regionDb), regionDb \subseteq Region, KeysDiffer
  PROVE  /\ Keys \in Nat /\ InKeyOrder \in [1..Keys -> regionDb]
         /\ \A i, j \in 1..Keys : i < j => InKeyOrder[i].addrbeg < InKeyOrder[j].addrbeg
         /\ \A r \in regionDb : \E i \in 1..Keys : InKeyOrder[i] = r
<1>1. Keys \in Nat
  BY FS_CardinalityType DEF Keys
<1>2. InKeyOrder = [i \in 1..Keys |-> CHOOSE r \in regionDb : Rank(r) = i - 1]
  BY DEF InKeyOrder, Keys, Rank
<1>3. ASSUME NEW i \in 1..Keys PROVE InKeyOrder[i] \in regionDb /\ Rank(InKeyOrder[i]) = i - 1
  <2>1. i - 1 \in 0..Keys - 1
    BY <1>1
  <2>2. \E r \in regionDb : Rank(r) = i - 1
    BY <2>1, EveryRank
  <2> QED
    BY <1>2, <2>2
<1>4. InKeyOrder \in [1..Keys -> regionDb]
  BY <1>2, <1>3
<1>5. \A r, q \in regionDb : Rank(r) < Rank(q) => r.addrbeg < q.addrbeg
  <2> SUFFICES ASSUME NEW r \in regionDb, NEW q \in regionDb, Rank(r) < Rank(q)
               PROVE  r.addrbeg < q.addrbeg
    OBVIOUS
  <2>1. r.addrbeg \in Nat /\ q.addrbeg \in Nat
    BY RegionTypes
  <2>2. Rank(r) \in 0..Keys - 1 /\ Rank(q) \in 0..Keys - 1
    BY RankIs
  <2>3. ~(q.addrbeg < r.addrbeg)
    <3>1. q.addrbeg < r.addrbeg => Rank(q) < Rank(r)
      BY RankIs
    <3> QED
      BY <1>1, <2>2, <3>1
  <2>4. r.addrbeg # q.addrbeg
    <3>1. r # q
      BY <1>1, <2>2
    <3> QED
      BY <3>1 DEF KeysDiffer
  <2> QED
    BY <2>1, <2>3, <2>4
<1>6. ASSUME NEW i \in 1..Keys, NEW j \in 1..Keys, i < j
      PROVE  InKeyOrder[i].addrbeg < InKeyOrder[j].addrbeg
  <2>1. Rank(InKeyOrder[i]) = i - 1 /\ Rank(InKeyOrder[j]) = j - 1
        /\ InKeyOrder[i] \in regionDb /\ InKeyOrder[j] \in regionDb
    BY <1>3
  <2>2. Rank(InKeyOrder[i]) < Rank(InKeyOrder[j])
    BY <1>1, <1>6, <2>1
  <2> QED
    BY <1>5, <2>1, <2>2
<1>7. ASSUME NEW r \in regionDb PROVE \E i \in 1..Keys : InKeyOrder[i] = r
  <2>1. Rank(r) \in 0..Keys - 1
    BY RankIs
  <2>2. PICK i : i = Rank(r) + 1
    OBVIOUS
  <2>3. i \in 1..Keys /\ i - 1 = Rank(r)
    BY <1>1, <2>1, <2>2
  <2>4. Rank(InKeyOrder[i]) = Rank(r) /\ InKeyOrder[i] \in regionDb
    BY <1>3, <2>3
  <2>5. InKeyOrder[i].addrbeg = r.addrbeg
    <3>1. InKeyOrder[i].addrbeg \in Nat /\ r.addrbeg \in Nat
      BY <2>4, RegionTypes
    <3>2. InKeyOrder[i].addrbeg < r.addrbeg => Rank(InKeyOrder[i]) < Rank(r)
      BY <2>4, RankIs
    <3>3. r.addrbeg < InKeyOrder[i].addrbeg => Rank(r) < Rank(InKeyOrder[i])
      BY <2>4, RankIs
    <3>4. Rank(r) \in Nat
      BY <1>1, <2>1
    <3> QED
      BY <2>4, <3>1, <3>2, <3>3, <3>4
  <2> QED
    BY <2>3, <2>4, <2>5 DEF KeysDiffer
<1> QED
  BY <1>1, <1>4, <1>6, <1>7

\* What the iterator delivers: all regions but the first.
LEMMA IterationIs ==
  ASSUME IsFiniteSet(regionDb), regionDb \subseteq Region, KeysDiffer
  PROVE  /\ Keys \in Nat /\ Iteration \in Seq(Region) /\ Len(Iteration) \in Nat
         /\ Len(Iteration) = (IF Keys = 0 THEN 0 ELSE Keys - 1)
         /\ \A i \in 1..Len(Iteration) : Iteration[i] \in regionDb
         /\ \A i, j \in 1..Len(Iteration) : i < j => Iteration[i].addrbeg < Iteration[j].addrbeg
         /\ \A r, q \in regionDb : q.addrbeg < r.addrbeg => \E i \in 1..Len(Iteration) : Iteration[i] = r
<1>1. /\ Keys \in Nat /\ InKeyOrder \in [1..Keys -> regionDb]
      /\ \A i, j \in 1..Keys : i < j => InKeyOrder[i].addrbeg < InKeyOrder[j].addrbeg
      /\ \A r \in regionDb : \E i \in 1..Keys : InKeyOrder[i] = r
  BY KeyOrder
<1>2. Keys = 0 <=> regionDb = {}
  BY FS_EmptySet DEF Keys
<1>3. CASE regionDb = {}
  BY <1>1, <1>2, <1>3 DEF Iteration
<1>4. CASE regionDb # {}
  <2> DEFINE q == InKeyOrder
  <2>1. q \in Seq(regionDb) /\ Len(q) = Keys /\ Keys > 0
    BY <1>1, <1>2, <1>4
  <2>2. /\ Tail(q) \in Seq(regionDb) /\ Len(Tail(q)) = Keys - 1
        /\ \A i \in 1..Keys - 1 : Tail(q)[i] = q[i + 1]
    BY <1>1, <2>1
  <2>3. Iteration = Tail(q)
    BY <1>4 DEF Iteration
  <2> HIDE DEF q
  <2>4. Iteration \in Seq(Region) /\ Len(Iteration) = Keys - 1 /\ Keys # 0
    BY <2>1, <2>2, <2>3
  <2>5. \A i \in 1..Keys - 1 : i + 1 \in 1..Keys /\ Iteration[i] = q[i + 1]
    BY <1>1, <2>2, <2>3
  <2>6. \A i \in 1..Keys - 1 : Iteration[i] \in regionDb
    BY <1>1, <2>5 DEF q
  <2>7. ASSUME NEW i \in 1..Keys - 1, NEW j \in 1..Keys - 1, i < j
        PROVE  Iteration[i].addrbeg < Iteration[j].addrbeg
    <3>1. i + 1 \in 1..Keys /\ j + 1 \in 1..Keys /\ i + 1 < j + 1
      BY <1>1, <2>7
    <3> QED
      BY <1>1, <2>5, <3>1 DEF q
  <2>8. ASSUME NEW r \in regionDb, NEW p \in regionDb, p.addrbeg < r.addrbeg
        PROVE  \E i \in 1..Keys - 1 : Iteration[i] = r
    <3>1. PICK j \in 1..Keys : q[j] = r
      BY <1>1 DEF q
    <3>2. PICK k \in 1..Keys : q[k] = p
      BY <1>1 DEF q
    <3>3. j # 1
      <4>1. ASSUME j = 1 PROVE FALSE
        <5>1. k = 1 \/ 1 < k
          BY <1>1
        <5>2. 1 < k => q[1].addrbeg < q[k].addrbeg
          BY <1>1, <4>1 DEF q
        <5>3. r.addrbeg \in Nat /\ p.addrbeg \in Nat
          BY RegionTypes
        <5> QED
          BY <2>8, <3>1, <3>2, <4>1, <5>1, <5>2, <5>3
      <4> QED
        BY <4>1
    <3>4. j - 1 \in 1..Keys - 1 /\ j - 1 + 1 = j
      BY <1>1, <3>3
    <3>5. Iteration[j - 1] = r
      BY <2>5, <3>1, <3>4
    <3> QED
      BY <3>4, <3>5
  <2> QED
    BY <1>1, <2>4, <2>6, <2>7, <2>8
<1> QED
  BY <1>3, <1>4

-------------------------------------------------------------------------------
(***************************************************************************)
(* The initializer.  Whenever it has counted, the database holds at most   *)
(* one region more than the count (the one the iterator skips), so that    *)
(* the loop that loads the table is not ended by the count.                *)
(***************************************************************************)
IsOfFile(r) == \E i \in DOMAIN file : file[i].code # NoCode /\ r = RegionOf(file[i])

StoredInv ==
  /\ file \in Files
  /\ IsFiniteSet(regionDb) /\ regionDb \subseteq Region
  /\ \A r \in regionDb : IsOfFile(r)
  /\ KeysDiffer

CountInv ==
  /\ line \in Nat /\ regionCount \in Nat
  /\ phase \in {"count", "reload", "load", "ready"}
  /\ phase \in {"reload", "load"} => Keys <= regionCount + 1

NoLookup == pc = "idle" /\ address = 0 /\ lower = 0 /\ upper = 0 /\ result = NoCode

LoadedInv ==
  /\ phase # "ready" => NoLookup /\ regions = <<>>
  /\ phase = "ready" => IInv /\ regions = Iteration

TableInv == StoredInv /\ CountInv /\ LoadedInv

LEMMA FileLines ==
  ASSUME file \in Files, NEW i \in DOMAIN file
  PROVE  file[i] \in Allocation
BY FilesAssumption

LEMMA RegionOfType ==
  ASSUME NEW alloc \in Allocation, alloc.code # NoCode
  PROVE  RegionOf(alloc) \in Region
<1>1. alloc.addr \in Nat /\ alloc.size \in Nat /\ alloc.code \in Code /\ alloc.addr \in Address
  BY TableAssumption DEF Allocation, Address
<1>2. Limit \in Nat /\ Limit > 0
  BY TableAssumption
<1>3. (alloc.addr + alloc.size) % Limit \in 0..Limit - 1
  BY <1>1, <1>2
<1> QED
  BY <1>1, <1>3 DEF RegionOf, Region, Address

LEMMA TableInitInv ==
  TableInit => TableInv
<1> SUFFICES ASSUME TableInit PROVE TableInv
  OBVIOUS
<1>1. StoredInv
  BY FS_EmptySet DEF TableInit, StoredInv, KeysDiffer
<1>2. CountInv /\ LoadedInv
  BY DEF TableInit, LookupInit, CountInv, LoadedInv, NoLookup
<1> QED
  BY <1>1, <1>2 DEF TableInv

LEMMA SameStored ==
  ASSUME StoredInv, UNCHANGED <<file, regionDb>>
  PROVE  StoredInv' /\ Keys' = Keys /\ Iteration' = Iteration
BY DEF StoredInv, IsOfFile, KeysDiffer, Keys, Iteration, InKeyOrder, Before

LEMMA PutStep ==
  ASSUME TableInv, NEW alloc \in Allocation, alloc.code # NoCode, NEW i \in DOMAIN file,
         alloc = file[i], file' = file, regionDb' = Put(regionDb, RegionOf(alloc))
  PROVE  StoredInv' /\ Keys' <= Keys + 1
<1> DEFINE r == RegionOf(alloc)
           kept == {q \in regionDb : q.addrbeg # r.addrbeg}
<1>1. r \in Region
  BY RegionOfType
<1>2. regionDb' = kept \cup {r}
  BY DEF Put
<1>3. IsFiniteSet(regionDb) /\ kept \subseteq regionDb
  BY DEF TableInv, StoredInv
<1> HIDE DEF kept
<1>4. IsFiniteSet(kept) /\ Cardinality(kept) <= Cardinality(regionDb)
  BY <1>3, FS_Subset
<1>5. IsFiniteSet(kept \cup {r}) /\ (Cardinality(kept \cup {r}) = Cardinality(kept)
        \/ Cardinality(kept \cup {r}) = Cardinality(kept) + 1)
  BY <1>4, FS_AddElement
<1>6. Cardinality(kept) \in Nat /\ Cardinality(regionDb) \in Nat
  BY <1>3, <1>4, FS_CardinalityType
<1>7. Keys' <= Keys + 1
  BY <1>2, <1>4, <1>5, <1>6 DEF Keys
<1>8. regionDb' \subseteq Region
  BY <1>1, <1>2, <1>3 DEF TableInv, StoredInv
<1>9. \A q \in regionDb' : IsOfFile(q)'
  <2>1. \A q \in regionDb : IsOfFile(q)
    BY DEF TableInv, StoredInv
  <2>2. \A q : IsOfFile(q)' <=> IsOfFile(q)
    BY DEF IsOfFile
  <2>3. IsOfFile(r)
    BY DEF IsOfFile
  <2> HIDE DEF r
  <2> QED
    BY <1>2, <1>3, <2>1, <2>2, <2>3
<1>10. KeysDiffer'
  <2>1. \A p, q \in regionDb : p.addrbeg = q.addrbeg => p = q
    BY DEF TableInv, StoredInv, KeysDiffer
  <2>2. \A q \in kept : q \in regionDb /\ q.addrbeg # r.addrbeg
    BY DEF kept
  <2> HIDE DEF r
  <2>3. \A p, q \in kept \cup {r} : p.addrbeg = q.addrbeg => p = q
    BY <2>1, <2>2
  <2> QED
    BY <1>2, <2>3 DEF KeysDiffer
<1>11. IsFiniteSet(regionDb')
  BY <1>2, <1>5
<1>12. (file \in Files)'
  BY DEF TableInv, StoredInv
<1> QED
  BY <1>7, <1>8, <1>9, <1>10, <1>11, <1>12 DEF StoredInv

LEMMA LoadStep ==
  ASSUME TableInv, LoadTable
  PROVE  TableInv'
<1>1. /\ phase = "load" /\ phase' = "ready" /\ UNCHANGED <<file, regionDb, line>>
      /\ UNCHANGED lookupVars
  BY DEF LoadTable
<1>2. StoredInv' /\ Keys' = Keys /\ Iteration' = Iteration
  BY <1>1, SameStored DEF TableInv
<1>3. Keys <= regionCount + 1 /\ regionCount \in Nat /\ line \in Nat
  BY <1>1 DEF TableInv, CountInv
<1>4. NoLookup
  BY <1>1 DEF TableInv, LoadedInv
<1>5. /\ Keys \in Nat /\ Iteration \in Seq(Region) /\ Len(Iteration) \in Nat
      /\ Len(Iteration) = (IF Keys = 0 THEN 0 ELSE Keys - 1)
  BY IterationIs DEF TableInv, StoredInv
<1>6. Len(Iteration) <= regionCount
  BY <1>3, <1>5
<1>7. /\ regions' = SubSeq(Iteration, 1, IF Len(Iteration) < regionCount THEN Len(Iteration) ELSE regionCount)
      /\ regionCount' = (IF Len(Iteration) > regionCount THEN regionCount + 1 ELSE Len(Iteration))
  BY DEF LoadTable
<1>8. regions' = SubSeq(Iteration, 1, Len(Iteration)) /\ regionCount' = Len(Iteration)
  BY <1>3, <1>5, <1>6, <1>7
<1>9. regions' = Iteration
  BY <1>5, <1>8
<1>10. NoLookup'
  BY <1>1, <1>4 DEF NoLookup, lookupVars
<1>11. TypeOK'
  BY <1>5, <1>8, <1>9, <1>10, TableAssumption DEF NoLookup, TypeOK, Address
<1>12. (regionCount = Len(regions))' /\ (pc = "idle")'
  BY <1>8, <1>9, <1>10 DEF NoLookup
<1>13. IInv'
  BY <1>11, <1>12 DEF IInv, SearchedPart, CoveredStays, FoundCovers, CoveredIsFound
<1>14. LoadedInv'
  BY <1>1, <1>2, <1>9, <1>13 DEF LoadedInv
<1>15. CountInv'
  BY <1>1, <1>3, <1>5, <1>8 DEF CountInv
<1> QED
  BY <1>2, <1>14, <1>15 DEF TableInv

LEMMA TableNextInv ==
  TableInv /\ [TableNext]_allVars => TableInv'
<1> SUFFICES ASSUME TableInv, [TableNext]_allVars PROVE TableInv'
  OBVIOUS
<1>0. StoredInv /\ CountInv /\ LoadedInv
  BY DEF TableInv
<1>1. CASE CountRegions
  <2>1. /\ phase = "count" /\ regionCount' = Len(Iteration) /\ line' = 0
        /\ phase' = (IF regionCount' = 0 THEN "reload" ELSE "load")
        /\ UNCHANGED <<file, regionDb, regions, lookupVars>>
    BY <1>1 DEF CountRegions
  <2>2. StoredInv' /\ Keys' = Keys /\ Iteration' = Iteration
    BY <1>0, <2>1, SameStored
  <2>3. /\ Keys \in Nat /\ Len(Iteration) \in Nat
        /\ Len(Iteration) = (IF Keys = 0 THEN 0 ELSE Keys - 1)
    BY <1>0, IterationIs DEF StoredInv
  <2>4. Keys' <= regionCount' + 1
    BY <2>1, <2>2, <2>3
  <2>5. CountInv'
    BY <2>1, <2>3, <2>4 DEF CountInv
  <2>6. LoadedInv'
    BY <1>0, <2>1 DEF LoadedInv, NoLookup, lookupVars
  <2> QED
    BY <2>2, <2>5, <2>6 DEF TableInv
<1>2. CASE ReloadLine
  <2> DEFINE alloc == file[line + 1]
  <2>1. /\ phase = "reload" /\ line < Len(file) /\ line' = line + 1 /\ file' = file
        /\ regionDb' = (IF alloc.code = NoCode THEN regionDb ELSE Put(regionDb, RegionOf(alloc)))
        /\ regionCount' = (IF alloc.code = NoCode THEN regionCount ELSE regionCount + 1)
        /\ phase' = phase /\ UNCHANGED <<regions, lookupVars>>
    BY <1>2 DEF ReloadLine, CountAfter
  <2>2. line + 1 \in DOMAIN file /\ line \in Nat /\ regionCount \in Nat
    BY <1>0, <2>1, FilesAssumption DEF CountInv, StoredInv
  <2>3. alloc \in Allocation
    BY <1>0, <2>2, FileLines DEF StoredInv
  <2>4. LoadedInv'
    BY <1>0, <2>1 DEF LoadedInv, NoLookup, lookupVars
  <2>5. Keys <= regionCount + 1 /\ Keys \in Nat
    BY <1>0, <2>1, FS_CardinalityType DEF CountInv, StoredInv, Keys
  <2>6. CASE alloc.code = NoCode
    <3>1. StoredInv' /\ Keys' = Keys
      BY <1>0, <2>1, <2>6, SameStored
    <3>2. CountInv'
      BY <2>1, <2>2, <2>5, <2>6, <3>1 DEF CountInv
    <3> QED
      BY <2>4, <3>1, <3>2 DEF TableInv
  <2>7. CASE alloc.code # NoCode
    <3>0. PICK a : a = alloc
      OBVIOUS
    <3>1. StoredInv' /\ Keys' <= Keys + 1
      BY <2>1, <2>2, <2>3, <2>7, PutStep
    <3>2. regionCount' = regionCount + 1 /\ phase' = "reload" /\ line' = line + 1
      BY <2>1, <2>7
    <3>3. Keys' \in Nat
      BY <3>1, FS_CardinalityType DEF StoredInv, Keys
    <3>4. Keys' <= regionCount' + 1
      BY <2>2, <2>5, <3>1, <3>2, <3>3
    <3>5. CountInv'
      BY <2>2, <3>2, <3>4 DEF CountInv
    <3> QED
      BY <2>4, <3>1, <3>5 DEF TableInv
  <2> QED
    BY <2>6, <2>7
<1>3. CASE ReloadEnds
  <2>1. /\ phase = "reload" /\ phase' = "load"
        /\ UNCHANGED <<file, regionDb, line, regions, regionCount, lookupVars>>
    BY <1>3 DEF ReloadEnds, tableVars
  <2>2. StoredInv' /\ Keys' = Keys
    BY <1>0, <2>1, SameStored
  <2>3. CountInv' /\ LoadedInv'
    BY <1>0, <2>1, <2>2 DEF CountInv, LoadedInv, NoLookup, lookupVars
  <2> QED
    BY <2>2, <2>3 DEF TableInv
<1>4. CASE LoadTable
  BY <1>4, LoadStep
<1>5. CASE Searching
  <2>1. phase = "ready" /\ Lookup /\ phase' = "ready" /\ UNCHANGED <<file, regionDb, line>>
    BY <1>5 DEF Searching, loadVars
  <2>2. StoredInv' /\ Iteration' = Iteration
    BY <1>0, <2>1, SameStored
  <2>3. IInv /\ regions = Iteration
    BY <1>0, <2>1 DEF LoadedInv
  <2>4. IInv'
    BY <2>1, <2>3, NextIInv DEF Next
  <2>5. UNCHANGED <<regions, regionCount>>
    BY <2>1 DEF Lookup, StartLookup, Iterate, tableVars
  <2>6. CountInv' /\ LoadedInv'
    BY <1>0, <2>1, <2>2, <2>3, <2>4, <2>5 DEF CountInv, LoadedInv
  <2> QED
    BY <2>2, <2>6 DEF TableInv
<1>6. CASE Crash
  <2>1. /\ phase' = "count" /\ line' = 0 /\ regions' = <<>> /\ regionCount' = 0 /\ NoLookup'
        /\ UNCHANGED <<file, regionDb>>
    BY <1>6 DEF Crash, NoLookup
  <2>2. StoredInv'
    BY <1>0, <2>1, SameStored
  <2>3. CountInv' /\ LoadedInv'
    BY <2>1 DEF CountInv, LoadedInv
  <2> QED
    BY <2>2, <2>3 DEF TableInv
<1>7. CASE UNCHANGED allVars
  <2>1. /\ UNCHANGED <<file, regionDb, line, phase>>
        /\ UNCHANGED <<regions, regionCount, pc, address, lower, upper, result>>
    BY <1>7 DEF allVars
  <2>2. StoredInv' /\ Keys' = Keys /\ Iteration' = Iteration
    BY <1>0, <2>1, SameStored
  <2>3. UNCHANGED vars
    BY <2>1 DEF vars
  <2>4. IInv => IInv'
    BY <2>3, NextIInv
  <2>5. CountInv' /\ LoadedInv'
    BY <1>0, <2>1, <2>2, <2>4 DEF CountInv, LoadedInv, NoLookup
  <2> QED
    BY <2>2, <2>5 DEF TableInv
<1> QED
  BY <1>1, <1>2, <1>3, <1>4, <1>5, <1>6, <1>7 DEF TableNext, Loading

LEMMA TableInvariance == TableSpec => []TableInv
BY TableInitInv, TableNextInv, PTL DEF TableSpec

-------------------------------------------------------------------------------
(***************************************************************************)
(* What the lookup then says of the registries' files.                     *)
(***************************************************************************)
\* The registries hand out no address twice, and not the last one.
Disjoint ==
  \A f \in Files : \A i, j \in DOMAIN f :
    f[i].code # NoCode /\ f[j].code # NoCode =>
      /\ f[i].addr + f[i].size < Limit
      /\ f[i].addr < f[j].addr => f[i].addr + f[i].size <= f[j].addr

LEMMA RegionIs ==
  ASSUME NEW alloc \in Allocation, alloc.code # NoCode, alloc.addr + alloc.size < Limit
  PROVE  /\ RegionOf(alloc).addrbeg = alloc.addr
         /\ RegionOf(alloc).addrend = alloc.addr + alloc.size
<1>1. alloc.addr \in Nat /\ alloc.size \in Nat /\ Limit \in Nat
  BY TableAssumption DEF Allocation, Address
<1>2. (alloc.addr + alloc.size) % Limit = alloc.addr + alloc.size
  BY <1>1
<1> QED
  BY <1>2 DEF RegionOf

LEMMA TableIsSorted ==
  ASSUME TableInv, Disjoint, phase = "ready"
  PROVE  Sorted
<1>1. /\ regions = Iteration /\ Iteration \in Seq(Region) /\ Len(Iteration) \in Nat
      /\ \A i \in 1..Len(Iteration) : Iteration[i] \in regionDb
      /\ \A i, j \in 1..Len(Iteration) : i < j => Iteration[i].addrbeg < Iteration[j].addrbeg
  BY IterationIs DEF TableInv, StoredInv, LoadedInv
<1>2. DOMAIN regions = 1..Len(Iteration)
  BY <1>1
<1> SUFFICES ASSUME NEW i \in 1..Len(Iteration), NEW j \in 1..Len(Iteration), i < j
             PROVE  /\ regions[i].addrbeg <= regions[j].addrbeg
                    /\ regions[i].addrend <= regions[j].addrend
  BY <1>2 DEF Sorted
<1>3. regions[i] \in regionDb /\ regions[j] \in regionDb /\ regions[i].addrbeg < regions[j].addrbeg
  BY <1>1
<1>4. IsOfFile(regions[i]) /\ IsOfFile(regions[j])
  BY <1>3 DEF TableInv, StoredInv
<1>5. PICK m \in DOMAIN file : file[m].code # NoCode /\ regions[i] = RegionOf(file[m])
  BY <1>4 DEF IsOfFile
<1>6. PICK n \in DOMAIN file : file[n].code # NoCode /\ regions[j] = RegionOf(file[n])
  BY <1>4 DEF IsOfFile
<1>7. /\ file[m].addr + file[m].size < Limit /\ file[n].addr + file[n].size < Limit
      /\ file[m].addr < file[n].addr => file[m].addr + file[m].size <= file[n].addr
  BY <1>5, <1>6 DEF Disjoint, TableInv, StoredInv
<1>8. file[m] \in Allocation /\ file[n] \in Allocation
  BY FileLines DEF TableInv, StoredInv
<1>9. /\ regions[i].addrbeg = file[m].addr /\ regions[i].addrend = file[m].addr + file[m].size
      /\ regions[j].addrbeg = file[n].addr /\ regions[j].addrend = file[n].addr + file[n].size
  BY <1>5, <1>6, <1>7, <1>8, RegionIs
<1>10. file[m].addr \in Nat /\ file[m].size \in Nat /\ file[n].addr \in Nat /\ file[n].size \in Nat
  BY <1>8 DEF Allocation, Address
<1> QED
  BY <1>3, <1>7, <1>9, <1>10

LEMMA FoundInFile ==
  ASSUME TableInv
  PROVE  FoundIsAllocated
<1> SUFFICES ASSUME phase = "ready", pc = "done", result \in Code
             PROVE  \E alloc \in Lines :
                      alloc.code = result /\ (Within(alloc, address) \/ Within(alloc, address - 1))
  BY DEF FoundIsAllocated
<1>1. /\ regions = Iteration /\ Iteration \in Seq(Region) /\ Len(Iteration) \in Nat
      /\ \A i \in 1..Len(Iteration) : Iteration[i] \in regionDb
  BY IterationIs DEF TableInv, StoredInv, LoadedInv
<1>2. FoundCovers /\ TypeOK
  BY DEF TableInv, LoadedInv, IInv
<1>3. PICK i \in DOMAIN regions : Covers(regions[i], address) /\ regions[i].code = result
  BY <1>2 DEF FoundCovers
<1>4. IsOfFile(regions[i])
  BY <1>1 DEF TableInv, StoredInv
<1>5. PICK m \in DOMAIN file : file[m].code # NoCode /\ regions[i] = RegionOf(file[m])
  BY <1>4 DEF IsOfFile
<1>6. file[m] \in Allocation /\ file[m] \in Lines
  BY FileLines DEF TableInv, StoredInv, Lines
<1> DEFINE alloc == file[m]
<1>7. /\ alloc.addr \in Nat /\ alloc.size \in Nat /\ alloc.addr < Limit
      /\ alloc.size > 0 /\ alloc.size <= Limit /\ Limit \in Nat /\ Limit > 0
      /\ address \in Nat /\ address < Limit
  BY <1>2, <1>6, TableAssumption DEF Allocation, Address, TypeOK
<1>8. /\ alloc.addr <= address /\ address <= (alloc.addr + alloc.size) % Limit
      /\ alloc.code = result
  BY <1>3, <1>5 DEF RegionOf, Covers
<1> HIDE DEF alloc
\* The end wraps round only for an allocation of all addresses from the first on.
<1>9. Within(alloc, address) \/ Within(alloc, address - 1)
  <2>1. CASE alloc.addr + alloc.size < Limit
    <3>1. (alloc.addr + alloc.size) % Limit = alloc.addr + alloc.size
      BY <1>7, <2>1
    <3> QED
      BY <1>7, <1>8, <3>1 DEF Within
  <2>2. CASE alloc.addr + alloc.size >= Limit
    BY <1>7, <1>8, <2>2 DEF Within
  <2> QED
    BY <1>7, <2>1, <2>2
<1> QED
  BY <1>6, <1>8, <1>9 DEF alloc

LEMMA StoredFound ==
  ASSUME TableInv, Disjoint
  PROVE  StoredIsFound
<1> SUFFICES ASSUME pc = "done", address \notin Private, NEW r \in regionDb, NEW q \in regionDb,
                    Covers(r, address), q.addrbeg < r.addrbeg
             PROVE  result \in Code
  BY DEF StoredIsFound
<1>1. phase = "ready"
  BY DEF TableInv, LoadedInv, NoLookup
<1>2. Sorted
  BY <1>1, TableIsSorted
<1>3. regions = Iteration /\ CoveredIsFound
  BY <1>1 DEF TableInv, LoadedInv, IInv
<1>4. /\ Iteration \in Seq(Region)
      /\ \E i \in 1..Len(Iteration) : Iteration[i] = r
  BY IterationIs DEF TableInv, StoredInv
<1>5. PICK i \in DOMAIN regions : regions[i] = r
  BY <1>3, <1>4
<1> QED
  BY <1>2, <1>3, <1>5 DEF CoveredIsFound

\* Whatever the registries' files hold and however often the process is killed
\* (SMGeocoder's initializer), the lookups on the table read it only inside its
\* bounds, and a country returned is that of a region covering the address.
THEOREM LoadedLookupIsSafe ==
  TableSpec => [](TypeOK /\ InTable /\ FoundCovers /\ CountIsLength /\ FoundIsAllocated)
<1>1. ASSUME TableInv PROVE InTable
  <2>1. CASE phase = "ready"
    <3>1. IInv
      BY <1>1, <2>1 DEF TableInv, LoadedInv
    <3> QED
      BY <3>1, MiddleFacts DEF IInv, SearchedPart, InTable, Index
  <2>2. CASE phase # "ready"
    BY <1>1, <2>2 DEF TableInv, LoadedInv, NoLookup, InTable
  <2> QED
    BY <2>1, <2>2
<1>2. TableInv => FoundCovers
  BY DEF TableInv, LoadedInv, NoLookup, FoundCovers, IInv
<1>3. TableInv => CountIsLength
  BY DEF TableInv, LoadedInv, CountIsLength, IInv
<1>4. TableInv => FoundIsAllocated
  BY FoundInFile
<1>5. ASSUME TableInv PROVE TypeOK
  <2>1. CASE phase = "ready"
    BY <1>5, <2>1 DEF TableInv, LoadedInv, IInv
  <2>2. CASE phase # "ready"
    BY <1>5, <2>2, TableAssumption
    DEF TableInv, CountInv, LoadedInv, NoLookup, TypeOK, Address
  <2> QED
    BY <2>1, <2>2
<1> QED
  BY <1>1, <1>2, <1>3, <1>4, <1>5, TableInvariance, PTL

\* Where the files' allocations do not overlap, in whatever order they are
\* listed, the initializer always ends with the sorted table that the binary
\* search needs, and no stored address but those of the first key is missed
\* (initWithCacheDb:regionDb:, reloadRegions and countryCodeForIPAddress:).
THEOREM LoadedLookupIsExact ==
  ASSUME Disjoint
  PROVE  TableSpec => []LookupIsExact
<1>1. TableInv => TableSorted
  BY TableIsSorted DEF TableSorted
<1>2. TableInv => FoundIsAllocated
  BY FoundInFile
<1>3. TableInv => StoredIsFound
  BY StoredFound
<1>4. TableInv => CountIsLength
  BY DEF TableInv, LoadedInv, CountIsLength, IInv
<1>5. TableInv => LookupIsExact
  BY <1>1, <1>2, <1>3, <1>4 DEF LookupIsExact
<1> QED
  BY <1>5, TableInvariance, PTL
===============================================================================
