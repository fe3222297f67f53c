------------------------------ MODULE MCRegionTable ------------------------------
(***************************************************************************)
(* RegionTable on files of disjoint allocations, in any order, some of them *)
(* listed twice; and, where phase is "given", RegionSearch on every table   *)
(* of up to MaxTable regions in any order, which stays as it is.            *)
(***************************************************************************)
EXTENDS RegionTable

CONSTANTS c, d, MaxTable

Alloc(code, addr, size) == [code |-> code, addr |-> addr, size |-> size]

\* Allocations next to each other and apart, at both ends of the addresses.
Pool == {Alloc(c, 0, 1), Alloc(d, 1, 2), Alloc(c, 3, 1), Alloc(d, 6, 1),
         Alloc(c, 10, 1), Alloc(NoCode, 8, 1)}

Listings(n) == {f \in [1..n -> Pool] : \A i, j \in 1..n : f[i] = f[j] => i = j}

\* Files of every size, and one that lists its first allocation twice.
SmallFiles ==
  Listings(0) \cup Listings(1) \cup Listings(2) \cup Listings(5)
    \cup {Append(f, f[1]) : f \in Listings(3)}

\* Files of one order each are enough where only the table matters.
SortedFiles == {f \in Listings(5) : \A i, j \in 1..5 : i < j => f[i].addr < f[j].addr}

\* One code and few addresses: the lookup alone tells no more apart.
SmallTables ==
  UNION {[1..n -> [addrbeg : 0..4, addrend : 0..4, code : {c}]] : n \in 0..MaxTable}

GivenInit ==
  /\ Init
  /\ file = <<>> /\ regionDb = {} /\ phase = "given" /\ line = 0 /\ crashes = 0

GivenIterate == phase = "given" /\ Iterate /\ UNCHANGED loadVars
GivenNext == phase = "given" /\ Lookup /\ UNCHANGED loadVars

LoadedNext == phase # "given" /\ TableNext

EitherSpec ==
  /\ TableInit \/ GivenInit
  /\ [][LoadedNext \/ GivenNext]_allVars
  /\ WF_allVars(Loading)
  /\ WF_allVars(GivenIterate \/ (phase = "ready" /\ Iterate /\ UNCHANGED loadVars))
===============================================================================
