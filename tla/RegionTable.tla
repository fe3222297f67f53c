------------------------------- MODULE RegionTable -------------------------------
(***************************************************************************)
(* SMGeocoder's table of regions: initWithCacheDb:regionDb: counts the     *)
(* keys of the region database, fills it from the registries' allocation   *)
(* files if there are none (reloadRegions), and loads the table from it.   *)
(* The process may be killed at any point; the database stays as it is.    *)
(***************************************************************************)
EXTENDS RegionSearch, FiniteSets

CONSTANTS
  Files,        \* the contents of the allocation files, one after the other
  MaxCrashes    \* bound: times the process is killed

\* A line of a file: the country code (NoCode: not two letters), the first
\* address and the number of addresses of an allocation.
Allocation == [code : Code \cup {NoCode}, addr : Address, size : 1..Limit]

ASSUME FilesAssumption == Files \subseteq Seq(Allocation) /\ MaxCrashes \in Nat

VARIABLES
  file,       \* the allocation files
  regionDb,   \* the region database: a region for each key (first address)
  phase,      \* how far the initializer has come
  line,       \* lines of the files reloadRegions has handled
  crashes     \* history: times the process was killed

loadVars == <<file, regionDb, phase, line, crashes>>
allVars == <<regions, regionCount, pc, address, lower, upper, result,
             file, regionDb, phase, line, crashes>>

TableInit ==
  /\ file \in Files
  /\ regionDb = {} /\ phase = "count" /\ line = 0 /\ crashes = 0
  /\ regions = <<>> /\ regionCount = 0
  /\ LookupInit

-------------------------------------------------------------------------------
\* Fault: keys are not padded with zeros ("10" sorts between "1" and "2").
Unpadded(a) == IF a < 10 THEN 20 * a ELSE 2 * a + 1
AscendingUnpadded(r, q) == Unpadded(r.addrbeg) < Unpadded(q.addrbeg)

\* The order of zero-padded keys is that of the addresses.
Ascending(r, q) == r.addrbeg < q.addrbeg

Before(r) == {q \in regionDb : Ascending(q, r)}

\* The database's regions in the order of their keys.
InKeyOrder ==
  [i \in 1..Cardinality(regionDb) |-> CHOOSE r \in regionDb : Cardinality(Before(r)) = i - 1]

\* Fault: the iteration starts behind the second key.
IterationShort == IF Len(InKeyOrder) < 2 THEN <<>> ELSE Tail(Tail(InKeyOrder))

\* What nextKey delivers: an APLevelDBIterator stands on the first key from the
\* start, and nextKey moves before it reads.
Iteration == IF regionDb = {} THEN <<>> ELSE Tail(InKeyOrder)

CountRegions ==
  /\ phase = "count"
  /\ regionCount' = Len(Iteration)
  /\ phase' = IF regionCount' = 0 THEN "reload" ELSE "load"
  /\ line' = 0
  /\ UNCHANGED <<file, regionDb, crashes, regions, lookupVars>>

\* Fault: one address more.
RegionOver(alloc) ==
  [addrbeg |-> alloc.addr, addrend |-> (alloc.addr + alloc.size + 1) % Limit,
   code |-> alloc.code]

\* The region of an allocation; addrend is a uint32_t.
RegionOf(alloc) ==
  [addrbeg |-> alloc.addr, addrend |-> (alloc.addr + alloc.size) % Limit,
   code |-> alloc.code]

\* setData:forKey: replaces what was stored under the key.
Put(db, region) == {r \in db : r.addrbeg # region.addrbeg} \cup {region}

\* Fault: regions are not counted as they are stored.
CountStored(alloc) == regionCount

\* Each region stored counts, one stored over another too.
CountAfter(alloc) == IF alloc.code = NoCode THEN regionCount ELSE regionCount + 1

ReloadLine ==
  /\ phase = "reload"
  /\ line < Len(file)
  /\ LET alloc == file[line + 1] IN
     /\ regionDb' = IF alloc.code = NoCode THEN regionDb
                    ELSE Put(regionDb, RegionOf(alloc))
     /\ regionCount' = CountAfter(alloc)
  /\ line' = line + 1
  /\ UNCHANGED <<file, phase, crashes, regions, lookupVars>>

ReloadEnds ==
  /\ phase = "reload"
  /\ line = Len(file)
  /\ phase' = "load"
  /\ UNCHANGED <<file, regionDb, line, crashes, tableVars, lookupVars>>

\* while (nextKey && regionCount++ < _regionCount): when there are more keys
\* than were counted, the one that ends the loop is counted but not loaded.
LoadTable ==
  /\ phase = "load"
  /\ LET keys == Len(Iteration) IN
     /\ regions' = SubSeq(Iteration, 1, IF keys < regionCount THEN keys ELSE regionCount)
     /\ regionCount' = IF keys > regionCount THEN regionCount + 1 ELSE keys
  /\ phase' = "ready"
  /\ UNCHANGED <<file, regionDb, line, crashes, lookupVars>>

\* The process is killed and started again.
Crash ==
  /\ crashes < MaxCrashes
  /\ crashes' = crashes + 1
  /\ phase' = "count" /\ line' = 0
  /\ regions' = <<>> /\ regionCount' = 0
  /\ pc' = "idle" /\ address' = 0 /\ lower' = 0 /\ upper' = 0 /\ result' = NoCode
  /\ UNCHANGED <<file, regionDb>>

Loading == CountRegions \/ ReloadLine \/ ReloadEnds \/ LoadTable

Searching == phase = "ready" /\ Lookup /\ UNCHANGED loadVars

TableNext == Loading \/ Searching \/ Crash

TableSpec ==
  /\ TableInit /\ [][TableNext]_allVars
  /\ WF_allVars(Loading) /\ WF_allVars(phase = "ready" /\ Iterate /\ UNCHANGED loadVars)

-------------------------------------------------------------------------------
\* The count a lookup relies on is the length of the table it reads.
CountIsLength == phase = "ready" => regionCount = Len(regions)

\* The table is sorted, as the binary search needs, although the files are not:
\* the zero-padded keys order the database.
TableSorted == phase = "ready" => Sorted

Within(alloc, a) == alloc.addr <= a /\ a < alloc.addr + alloc.size
Lines == {file[i] : i \in DOMAIN file}

\* A code returned is of an allocation the address lies in, or just behind.
FoundIsAllocated ==
  phase = "ready" /\ pc = "done" /\ result \in Code =>
    \E alloc \in Lines :
      alloc.code = result /\ (Within(alloc, address) \/ Within(alloc, address - 1))

\* However often the process was killed while it filled the database, a lookup
\* for an address of an allocation that is stored finds a country, unless it
\* is the first one stored.
StoredIsFound ==
  pc = "done" /\ address \notin Private =>
    \A r \in regionDb :
      /\ Covers(r, address)
      /\ \E q \in regionDb : q.addrbeg < r.addrbeg
      => result \in Code

\* What a lookup relies on in the table, and what it then says of the files.
LookupIsExact ==
  /\ CountIsLength
  /\ TableSorted
  /\ FoundIsAllocated
  /\ StoredIsFound

\* The comment on __geocode: "look at the country for the ip address
\* assignment.  Then call google": the lookup returns.
LookupReturns == pc = "search" ~> pc = "done"
===============================================================================
