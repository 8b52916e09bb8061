--------------------------- MODULE HostnameCache ----------------------------
(***************************************************************************)
(* The per-worker cache of hostname to DPI filter index (hostname_cache.hpp): *)
(* open addressing with a bounded probe sequence and no deletion.          *)
(***************************************************************************)
EXTENDS Integers, FiniteSetsExt

CONSTANTS
    Hosts,           \* hostnames
    Slots,           \* kSlots: 4096
    MaxProbes,       \* kMaxProbes: 4
    Hash,            \* Hash32 of each host; an entry with hash 0 is empty
    Key,             \* the first 12 bytes of each host
    NoMatchIdx       \* kNoMatchIdx: 0xFFFF

ASSUME CacheAssumption ==
    /\ Slots \in Nat \ {0} /\ MaxProbes \in 1 .. Slots
    /\ Hash \in [Hosts -> Nat]

\* Two hosts with the same hash differ in their first 12 bytes; the code
\* relies on it ("False-positive probability ... ~ 0").
ASSUME HashesDistinguish ==
    \A h, k \in Hosts : Hash[h] = Hash[k] /\ Key[h] = Key[k] => h = k

\* StoreEntry, and the default-constructed Entry.
Entry(host, index, generation) ==
    [hash |-> Hash[host], key |-> Key[host], index |-> index, generation |-> generation]
EmptyEntry == [hash |-> 0, key |-> 0, index |-> NoMatchIdx, generation |-> 0]

\* The slots looked at for a host, in this order of p.
Probes == 0 .. MaxProbes - 1
SlotAt(host, p) == (Hash[host] + p) % Slots

\* KeyMatches, with the comparison of the hash that always precedes it.
KeyMatches(entry, host) == entry.hash = Hash[host] /\ entry.key = Key[host]

\* Mutant: entries of an earlier rule table are not told apart.
LookupAnyGeneration(cache, host, generation) ==
    LET hits == {p \in Probes : /\ cache[SlotAt(host, p)].hash # 0
                                /\ KeyMatches(cache[SlotAt(host, p)], host)}
    IN  IF hits = {} THEN NoMatchIdx ELSE cache[SlotAt(host, Min(hits))].index

Lookup(cache, host, generation) ==
    LET hits == {p \in Probes : /\ cache[SlotAt(host, p)].hash # 0
                                /\ cache[SlotAt(host, p)].generation = generation
                                /\ KeyMatches(cache[SlotAt(host, p)], host)}
    IN  IF hits = {} THEN NoMatchIdx ELSE cache[SlotAt(host, Min(hits))].index

\* Mutant: an entry of the host is looked for in its first slot only.
InsertAtFirstOrEmpty(cache, host, index, generation) ==
    LET usable == {p \in Probes : \/ cache[SlotAt(host, p)].hash = 0
                                  \/ p = 0 /\ KeyMatches(cache[SlotAt(host, 0)], host)}
    IN  IF usable = {} THEN cache
        ELSE [cache EXCEPT ![SlotAt(host, Min(usable))] = Entry(host, index, generation)]

\* Insert: the first probed slot that is empty or holds the host; when there
\* is none the result is not cached.
Insert(cache, host, index, generation) ==
    LET usable == {p \in Probes : \/ cache[SlotAt(host, p)].hash = 0
                                  \/ KeyMatches(cache[SlotAt(host, p)], host)}
    IN  IF usable = {} THEN cache
        ELSE [cache EXCEPT ![SlotAt(host, Min(usable))] = Entry(host, index, generation)]

=============================================================================
