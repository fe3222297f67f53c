------------------------------ MODULE RegionSearch ------------------------------
(***************************************************************************)
(* SMGeocoder's countryCodeForIPAddress: a binary search of the table of   *)
(* address regions.  Lookups run on a concurrent queue, but share only the *)
(* table, which none of them writes: one lookup stands for them all.  One  *)
(* iteration of its loop is one step.                                      *)
(***************************************************************************)
EXTENDS Integers, Sequences

CONSTANTS
  Limit,       \* addresses are the numbers below Limit (2^32 in the code)
  Private,     \* the addresses 127.x.x.x and 10.x.x.x
  Code,        \* country codes
  PN,          \* the code the lookup gives private addresses
  NoCode,      \* nil
  Tables       \* the tables a lookup is run on

Address == 0..(Limit - 1)
Region == [addrbeg : Address, addrend : Address, code : Code]

ASSUME TableAssumption ==
  /\ Limit \in Nat \ {0}
  /\ Private \subseteq Address
  /\ PN \notin Code /\ NoCode \notin Code
  /\ Tables \subseteq Seq(Region)

VARIABLES
  regions,       \* _regions, the table
  regionCount,   \* _regionCount, what the code takes for its length
  pc,            \* "idle", in the loop ("search"), or returned ("done")
  address,       \* the address asked for
  lower, upper,  \* bounds of the part still searched, counted from 0
  result         \* the code returned

tableVars == <<regions, regionCount>>
lookupVars == <<pc, address, lower, upper, result>>
vars == <<regions, regionCount, pc, address, lower, upper, result>>

TypeOK ==
  /\ regions \in Seq(Region)
  /\ regionCount \in Nat
  /\ pc \in {"idle", "search", "done"}
  /\ address \in Address
  /\ lower \in Nat /\ upper \in Nat
  /\ result \in Code \cup {PN, NoCode}

LookupInit ==
  /\ pc = "idle" /\ address = 0 /\ lower = 0 /\ upper = 0 /\ result = NoCode

Init ==
  /\ regions \in Tables
  /\ regionCount = Len(regions)
  /\ LookupInit

-------------------------------------------------------------------------------
\* The array's elements count from 0.
At(i) == regions[i + 1]

Covers(region, a) == region.addrbeg <= a /\ a <= region.addrend

Returns(code) == result' = code /\ pc' = "done"

LastIndex == regionCount - 1

\* Fault: the start of the table is not looked at.
BelowTable(a) ==
  /\ regionCount # 0
  /\ a <= At(regionCount - 1).addrend

\* Fault: the table's last address is left out.
ShortOfTable(a) ==
  /\ regionCount # 0
  /\ At(0).addrbeg <= a
  /\ a < At(regionCount - 1).addrend

\* The address lies between the ends of the table.
InsideTable(a) ==
  /\ regionCount # 0
  /\ At(0).addrbeg <= a
  /\ a <= At(regionCount - 1).addrend

StartLookup(a) ==
  /\ pc # "search"
  /\ address' = a
  /\ \/ /\ a \in Private
        /\ Returns(PN)
        /\ UNCHANGED <<lower, upper>>
     \/ /\ a \notin Private /\ ~InsideTable(a)
        /\ Returns(NoCode)
        /\ UNCHANGED <<lower, upper>>
     \/ /\ a \notin Private /\ InsideTable(a)
        /\ lower' = 0 /\ upper' = LastIndex
        /\ pc' = "search" /\ result' = NoCode
  /\ UNCHANGED tableVars

\* C's division rounds towards zero.
Half(n) == IF n < 0 THEN -((-n) \div 2) ELSE n \div 2

Middle == lower + Half(upper - lower)

\* Fault: the end of the last region is not looked at.
LastElementOpen ==
  /\ lower = upper
  /\ Returns(IF At(lower).addrbeg <= address THEN At(lower).code ELSE NoCode)
  /\ UNCHANGED <<lower, upper>>

\* One element left: it covers the address or nothing does.
LastElement ==
  /\ lower = upper
  /\ Returns(IF Covers(At(lower), address) THEN At(lower).code ELSE NoCode)
  /\ UNCHANGED <<lower, upper>>

SearchBelow ==
  /\ At(Middle).addrbeg > address
  /\ upper' = Middle - 1
  /\ UNCHANGED <<pc, lower, result>>

\* Fault: the middle element stays in the part searched.
SearchAboveMiddle ==
  /\ At(Middle).addrbeg <= address /\ At(Middle).addrend < address
  /\ lower' = Middle
  /\ UNCHANGED <<pc, upper, result>>

\* Fault: the element behind the middle is left out.
SearchAboveNext ==
  /\ At(Middle).addrbeg <= address /\ At(Middle).addrend < address
  /\ lower' = Middle + 2
  /\ UNCHANGED <<pc, upper, result>>

\* The middle region ends below the address.
SearchAbove ==
  /\ At(Middle).addrbeg <= address /\ At(Middle).addrend < address
  /\ lower' = Middle + 1
  /\ UNCHANGED <<pc, upper, result>>

FoundInMiddle ==
  /\ Covers(At(Middle), address)
  /\ Returns(At(Middle).code)
  /\ UNCHANGED <<lower, upper>>

Iterate ==
  /\ pc = "search"
  /\ \/ LastElement
     \/ lower # upper /\ (SearchBelow \/ SearchAbove \/ FoundInMiddle)
  /\ UNCHANGED <<regions, regionCount, address>>

Lookup == Iterate \/ \E a \in Address : StartLookup(a)

Next == Lookup

\* A thread of the queue runs the loop.
Spec == Init /\ [][Next]_vars /\ WF_vars(Iterate)

-------------------------------------------------------------------------------
\* Both ends grow from one region to the next.
Sorted ==
  \A i, j \in DOMAIN regions :
    i < j => /\ regions[i].addrbeg <= regions[j].addrbeg
             /\ regions[i].addrend <= regions[j].addrend

\* The loop reads the table only inside its bounds, whatever the table holds.
InTable ==
  pc = "search" =>
    (IF lower = upper THEN lower ELSE Middle) \in 0..(Len(regions) - 1)

\* A country code returned is that of a region covering the address, whatever
\* the order of the table.
FoundCovers ==
  pc = "done" /\ result \in Code =>
    \E i \in DOMAIN regions :
      Covers(regions[i], address) /\ regions[i].code = result

\* In a sorted table, a region covering a public address is never missed.
CoveredIsFound ==
  Sorted /\ pc = "done" /\ address \notin Private
    => \A i \in DOMAIN regions : Covers(regions[i], address) => result \in Code

\* ... and the search for it ends (countryCodeForIPAddress:'s loop).
CoveredReturns ==
  (/\ pc = "search" /\ Sorted
   /\ \E i \in DOMAIN regions : Covers(regions[i], address)) ~> pc # "search"
===============================================================================
