-------------------------- MODULE DpiEngineProofs ---------------------------
(***************************************************************************)
(* Proofs about DpiEngine: what MatchDpi answers, from the hostname cache  *)
(* or from a scan, belongs to the active table whatever the reloads.       *)
(***************************************************************************)
EXTENDS DpiEngine, InductionLemmas, TLAPS

-----------------------------------------------------------------------------
(* The inductive invariant.                                                 *)

\* A compiled table: as many patterns as filters, in the same order when both
\* sorts are stable.
WellCompiled(t) ==
    /\ Len(t.filters) \in Nat /\ DOMAIN t.filters = 1 .. Len(t.filters)
    /\ Len(t.filters) < NoMatchIdx
    /\ DOMAIN t.patterns = DOMAIN t.filters
    /\ \A i \in DOMAIN t.filters : t.filters[i].priority \in Nat /\ t.filters[i] # None
    /\ Len(t.filters) <= SmallSort => t.patterns = t.filters

\* The generations tell the active table from all earlier ones.
Generations ==
    /\ loads \in 0 .. MaxLoads /\ newest \in Int /\ newest <= loads
    /\ restarted \in BOOLEAN /\ degraded \in BOOLEAN
    /\ table # None =>
        /\ WellCompiled(table) /\ table.generation \in 0 .. loads
        /\ ~restarted => table.generation = newest
    /\ DOMAIN cache = 0 .. Slots - 1
    /\ \A s \in DOMAIN cache :
        /\ cache[s].hash \in Nat /\ cache[s].index \in Indices /\ cache[s].generation \in Nat
        /\ cache[s].hash # 0 /\ ~restarted => cache[s].generation <= newest

\* The slots probed before the one that holds a host hold others.
ProbeChain ==
    \A h \in Hosts, p \in Probes :
        cache[SlotAt(h, p)].hash # 0 /\ KeyMatches(cache[SlotAt(h, p)], h) =>
            \A q \in Probes : q < p => /\ cache[SlotAt(h, q)].hash # 0
                                       /\ ~KeyMatches(cache[SlotAt(h, q)], h)

\* Index i stands for a filter that matches host: one of its group and its
\* priority has a pattern that does.
Stands(t, i, host) ==
    \E j \in DOMAIN t.filters :
        /\ t.filters[j].group = t.filters[i].group
        /\ t.filters[j].priority = t.filters[i].priority
        /\ PatternMatches(t.filters[j].pattern, host)

\* No pattern that matches host has a lower priority value.
Preferred(t, i, host) ==
    \A j \in DOMAIN t.filters :
        PatternMatches(t.filters[j].pattern, host) => t.filters[i].priority <= t.filters[j].priority

\* An entry of the active generation is a result of the active table.
CacheSound ==
    table # None /\ ~restarted =>
        \A s \in DOMAIN cache, h \in Hosts :
            /\ cache[s].hash # 0 /\ cache[s].generation = table.generation
            /\ KeyMatches(cache[s], h) /\ cache[s].index # NoMatchIdx
            => /\ cache[s].index \in DOMAIN table.filters
               /\ SortedStably => Stands(table, cache[s].index, h)
               /\ SortedStably /\ ~degraded => Preferred(table, cache[s].index, h)

AnswerSound == answer # None => table # None

DpiInv ==
    /\ Generations /\ ProbeChain /\ CacheSound /\ AnswerSound
    /\ VerdictMatches /\ VerdictPreferred /\ HitInRange /\ LinksBound

-----------------------------------------------------------------------------
(* Compiling: sorting a vector twice.                                       *)

\* A bijection of 1 .. n that is strictly increasing moves nothing.
LEMMA IncreasingIsIdentity ==
  ASSUME NEW n \in Nat, NEW p \in Bijection(1 .. n, 1 .. n),
         \A i, j \in 1 .. n : i < j => p[i] < p[j]
  PROVE  \A i \in 1 .. n : p[i] = i
  <1>1. /\ p \in [1 .. n -> 1 .. n]
        /\ \A t \in 1 .. n : \E i \in 1 .. n : p[i] = t
    BY Zenon DEF Bijection, Injection, Surjection
  <1> DEFINE T == {i \in 1 .. n : p[i] # i}
  <1> SUFFICES ASSUME T # {} PROVE FALSE
    OBVIOUS
  <1>2. PICK m \in T : \A k \in T : m <= k
    <2>1. T \subseteq Nat
      OBVIOUS
    <2> HIDE DEF T
    <2> QED BY <2>1, NatMin
  <1>3. \A k \in 1 .. n : k < m => p[k] = k
    BY <1>2
  <1>4. p[m] > m
    <2>1. CASE p[m] < m
      <3>1. p[m] \in 1 .. n /\ p[p[m]] = p[m]
        BY <1>1, <1>2, <1>3, <2>1
      <3> QED
        BY <1>2, <2>1, <3>1
    <2> QED
      BY <1>1, <1>2, <2>1
  <1>5. PICK i \in 1 .. n : p[i] = m
    BY <1>1, <1>2
  <1>6. CASE i < m
    BY <1>3, <1>5, <1>6
  <1>7. CASE i > m
    <2>1. p[m] < p[i]
      BY <1>2, <1>7
    <2> QED
      BY <1>1, <1>2, <1>4, <1>5, <2>1
  <1>8. CASE i = m
    BY <1>2, <1>5, <1>8
  <1> QED
    BY <1>2, <1>6, <1>7, <1>8

\* What one sort leaves: the same filters, in the order of their priorities.
Vector(filters) ==
    /\ filters \in Seq(Range(filters)) /\ DOMAIN filters = 1 .. Len(filters)
    /\ \A i \in DOMAIN filters : filters[i].priority \in Nat
SortOf(sorted, filters) ==
    /\ Vector(sorted) /\ Len(sorted) = Len(filters)
    /\ \A i \in DOMAIN sorted : \E k \in DOMAIN filters : sorted[i] = filters[k]
    /\ \A i, j \in DOMAIN sorted : i < j => sorted[i].priority <= sorted[j].priority

LEMMA SortFacts ==
  ASSUME NEW filters, Vector(filters), NEW sorted \in Sorts(filters)
  PROVE  SortOf(sorted, filters)
  <1> DEFINE n == Len(filters)
  <1>1. PICK p \in Bijection(1 .. n, 1 .. n) :
        /\ sorted = [i \in 1 .. n |-> filters[p[i]]]
        /\ \A i, j \in 1 .. n : i < j =>
               \/ filters[p[i]].priority < filters[p[j]].priority
               \/ filters[p[i]].priority = filters[p[j]].priority
    BY DEF Sorts
  <1>2. p \in [1 .. n -> 1 .. n]
    BY DEF Bijection, Injection
  <1>0. n \in Nat /\ DOMAIN filters = 1 .. n
    BY DEF Vector
  <1>3. sorted \in Seq(Range(sorted))
    <2>1. \A i \in 1 .. n : filters[p[i]] \in Range(sorted)
      BY <1>1, <1>2 DEF Range
    <2>2. sorted \in [1 .. n -> Range(sorted)]
      BY <1>1, <2>1
    <2> QED
      BY <1>0, <2>2, SeqOfValues
  <1>4. DOMAIN sorted = 1 .. n /\ Len(sorted) = n
    BY <1>0, <1>1, <1>3
  <1>5. \A i \in 1 .. n : p[i] \in DOMAIN filters /\ sorted[i] = filters[p[i]]
    BY <1>0, <1>1, <1>2
  <1>6. \A i \in 1 .. n : sorted[i].priority \in Nat
    BY <1>5 DEF Vector
  <1>7. \A i, j \in 1 .. n : i < j => sorted[i].priority <= sorted[j].priority
    BY <1>1, <1>5, <1>6
  <1> QED
    BY <1>3, <1>4, <1>5, <1>6, <1>7 DEF SortOf, Vector

\* A stable sort of a sorted vector changes nothing.
LEMMA SecondSort ==
  ASSUME NEW filters, NEW sorted, SortOf(sorted, filters), Len(sorted) <= SmallSort,
         NEW again \in Sorts(sorted)
  PROVE  again = sorted
  <1> DEFINE n == Len(sorted)
  <1>1. PICK p \in Bijection(1 .. n, 1 .. n) :
        /\ again = [i \in 1 .. n |-> sorted[p[i]]]
        /\ \A i, j \in 1 .. n : i < j =>
               \/ sorted[p[i]].priority < sorted[p[j]].priority
               \/ sorted[p[i]].priority = sorted[p[j]].priority /\ p[i] < p[j]
    BY DEF Sorts
  <1>0. /\ sorted \in Seq(Range(sorted)) /\ n \in Nat /\ DOMAIN sorted = 1 .. n
        /\ \A i \in 1 .. n : sorted[i].priority \in Nat
        /\ \A i, j \in 1 .. n : i < j => sorted[i].priority <= sorted[j].priority
    <2>1. sorted \in Seq(Range(sorted)) /\ DOMAIN sorted = 1 .. n
      BY DEF SortOf, Vector
    <2>2. n \in Nat
      BY <2>1
    <2> QED
      BY Zenon, <2>1, <2>2 DEF SortOf, Vector
  <1>2. /\ p \in [1 .. n -> 1 .. n] /\ \A i, j \in 1 .. n : p[i] = p[j] => i = j
    BY DEF Bijection, Injection, IsInjective
  <1>3. ASSUME NEW i \in 1 .. n, NEW j \in 1 .. n, i < j PROVE p[i] < p[j]
    <2>1. p[i] \in 1 .. n /\ p[j] \in 1 .. n /\ p[i] # p[j]
      BY <1>2, <1>3
    <2>2. CASE p[j] < p[i]
      <3>1. sorted[p[j]].priority <= sorted[p[i]].priority
        BY <1>0, <2>1, <2>2
      <3>2. sorted[p[i]].priority \in Nat /\ sorted[p[j]].priority \in Nat
        BY <1>0, <2>1
      <3> QED
        BY <1>1, <1>3, <2>1, <2>2, <3>1, <3>2
    <2> QED
      BY <2>1, <2>2
  <1>4. \A i \in 1 .. n : p[i] = i
    BY <1>0, <1>3, IncreasingIsIdentity
  <1>5. again = [i \in 1 .. n |-> sorted[i]]
    BY <1>1, <1>4
  <1>6. sorted = [i \in 1 .. n |-> sorted[i]]
    BY <1>0
  <1> QED
    BY <1>5, <1>6

\* What CompileDpiRuleTable returns.
LEMMA CompileFacts ==
  ASSUME NEW config \in Configs, NEW n, NEW t \in CompileDpiRuleTable(config.filters, n)
  PROVE  WellCompiled(t)
  <1> PICK f : f = config.filters
    OBVIOUS
  <1>1. Vector(f) /\ Len(f) \in Nat /\ Len(f) < NoMatchIdx /\ \A i \in DOMAIN f : f[i] # None
    <2>1. /\ f \in Seq(Range(f)) /\ Len(f) < NoMatchIdx /\ None \notin Range(f)
          /\ \A g \in Range(f) : g.priority \in Nat
      BY DpiAssumption
    <2>2. Len(f) \in Nat /\ DOMAIN f = 1 .. Len(f)
      BY <2>1
    <2>3. \A i \in DOMAIN f : f[i] \in Range(f)
      BY DEF Range
    <2> QED
      BY <2>1, <2>2, <2>3 DEF Vector
  <1>2. PICK sorted \in Sorts(f) :
          \E again \in Sorts(sorted) : t.patterns = sorted /\ t.filters = again
    BY DEF CompileDpiRuleTable
  <1>3. PICK again \in Sorts(sorted) : t.patterns = sorted /\ t.filters = again
    BY <1>2
  <1>4. SortOf(sorted, f)
    BY <1>1, SortFacts
  <1>5. SortOf(again, sorted)
    BY <1>4, SortFacts DEF SortOf
  <1>6. Len(f) <= SmallSort => again = sorted
    BY <1>4, SecondSort DEF SortOf
  <1>7. /\ Len(again) = Len(f) /\ DOMAIN again = 1 .. Len(f) /\ DOMAIN sorted = 1 .. Len(f)
        /\ \A i \in DOMAIN again : again[i].priority \in Nat
    BY <1>4, <1>5 DEF SortOf, Vector
  <1>8. \A i \in DOMAIN again : again[i] # None
    BY <1>1, <1>4, <1>5 DEF SortOf
  <1> QED
    BY <1>1, <1>3, <1>6, <1>7, <1>8 DEF WellCompiled

-----------------------------------------------------------------------------
(* Matching.                                                                *)

\* The domain key of a hostname is a suffix of it.
LEMMA DomainKeyIsSuffix ==
  ASSUME NEW host \in Hosts, ExtractDomainKey(host) # None
  PROVE  \E n \in 0 .. Len(host) : ExtractDomainKey(host) = SubSeq(host, n + 1, Len(host))
  <1>1. host \in Seq(Range(host)) /\ Len(host) \in Nat
    BY DpiAssumption
  <1>2. Len(host) >= 2 /\ ExtractDomainKey(host) = SubSeq(host, Len(host) - 1, Len(host))
    BY <1>1 DEF ExtractDomainKey
  <1>3. Len(host) - 2 \in 0 .. Len(host) /\ Len(host) - 2 + 1 = Len(host) - 1
    BY <1>1, <1>2
  <1> QED
    BY Zenon, <1>2, <1>3

\* The fallback tables find a filter whose pattern matches, or nothing.
LEMMA FallbackFacts ==
  ASSUME NEW t, WellCompiled(t), NEW host \in Hosts, NEW i \in MatchFallback(t, host),
         i # NoMatchIdx
  PROVE  i \in DOMAIN t.filters /\ PatternMatches(t.filters[i].pattern, host)
  <1> DEFINE Of(pattern) == {k \in DOMAIN t.filters : t.filters[k].pattern = pattern}
             exact == Of(<<"exact", host>>)
             suffix == IF ExtractDomainKey(host) = None THEN {}
                       ELSE Of(<<"suffix", ExtractDomainKey(host)>>)
             any == Of(<<"any">>)
  <1>0. Len(t.filters) \in Nat /\ DOMAIN t.filters = 1 .. Len(t.filters)
    BY DEF WellCompiled
  <1>1. \/ exact # {} /\ i = Min(exact)
        \/ suffix # {} /\ (i = Min(suffix) \/ i \in suffix)
        \/ any # {} /\ i = Max(any)
    BY Zenon DEF MatchFallback
  <1>2. /\ exact \subseteq Nat /\ suffix \subseteq Nat
        /\ any \subseteq 0 .. Len(t.filters)
    BY <1>0
  <1>3. i \in exact \/ i \in suffix \/ i \in any
    <2> HIDE DEF exact, suffix, any
    <2> QED BY Zenon, <1>0, <1>1, <1>2, MinFacts, MaxFacts
  <1>4. CASE i \in exact
    BY <1>4 DEF PatternMatches
  <1>5. CASE i \in suffix
    <2> DEFINE key == ExtractDomainKey(host)
    <2>1. key # None /\ i \in DOMAIN t.filters /\ t.filters[i].pattern = <<"suffix", key>>
      BY <1>5
    <2>2. \E n \in 0 .. Len(host) : key = SubSeq(host, n + 1, Len(host))
      BY <2>1, DomainKeyIsSuffix
    <2> HIDE DEF key
    <2> QED BY <2>1, <2>2 DEF PatternMatches
  <1>6. CASE i \in any
    BY <1>6 DEF PatternMatches
  <1> QED
    BY <1>3, <1>4, <1>5, <1>6

\* A scan finds a filter of the table; with stable sorts its pattern matches
\* and no other match is preferred to it; and it finds nothing only when
\* nothing matches.
LEMMA ScanFacts ==
  ASSUME NEW t, WellCompiled(t), NEW host, NEW i \in Scan(t, host)
  PROVE  /\ i # NoMatchIdx =>
              /\ i \in DOMAIN t.filters
              /\ Len(t.filters) <= SmallSort =>
                    PatternMatches(t.filters[i].pattern, host) /\ Preferred(t, i, host)
         /\ i = NoMatchIdx /\ Len(t.filters) <= SmallSort =>
              \A j \in DOMAIN t.filters : ~PatternMatches(t.filters[j].pattern, host)
  <1> DEFINE reported == {k \in DOMAIN t.patterns : PatternMatches(t.patterns[k].pattern, host)}
  <1>0. /\ Len(t.filters) \in Nat /\ DOMAIN t.filters = 1 .. Len(t.filters)
        /\ Len(t.filters) < NoMatchIdx /\ DOMAIN t.patterns = DOMAIN t.filters
        /\ Len(t.filters) <= SmallSort => t.patterns = t.filters
    BY DEF WellCompiled
  <1>1. CASE reported = {}
    BY <1>0, <1>1 DEF Scan
  <1>2. CASE reported # {}
    <2>1. /\ i \in reported
          /\ \A j \in reported : t.filters[i].priority <= t.filters[j].priority
      BY <1>2 DEF Scan, OnHyperscanMatch
    <2>2. i \in DOMAIN t.filters /\ i # NoMatchIdx
      BY <1>0, <2>1, DpiAssumption
    <2> QED
      BY <1>0, <2>1, <2>2 DEF Preferred
  <1> QED
    BY <1>1, <1>2

\* What Match finds.
MatchSound(t, found, host) ==
    /\ found.degraded \in BOOLEAN
    /\ found.index # NoMatchIdx =>
        /\ found.index \in DOMAIN t.filters
        /\ Len(t.filters) <= SmallSort => PatternMatches(t.filters[found.index].pattern, host)
    /\ ~found.degraded /\ Len(t.filters) <= SmallSort =>
        IF found.index = NoMatchIdx
        THEN \A j \in DOMAIN t.filters : ~PatternMatches(t.filters[j].pattern, host)
        ELSE Preferred(t, found.index, host)

LEMMA MatchFacts ==
  ASSUME NEW t, WellCompiled(t), NEW host \in Hosts, NEW found \in Match(t, host)
  PROVE  MatchSound(t, found, host)
  <1>1. /\ found.degraded \in BOOLEAN
        /\ \/ found.degraded = TRUE /\ found.index \in MatchFallback(t, host)
           \/ found.degraded = FALSE /\ found.index \in Scan(t, host)
           \/ found.degraded = TRUE /\ found.index \in Scan(t, host) \cup {NoMatchIdx}
    BY Zenon DEF Match
  <1>2. CASE found.degraded = TRUE /\ found.index \in MatchFallback(t, host)
    BY Zenon, <1>2, FallbackFacts DEF MatchSound
  <1>3. CASE found.degraded = FALSE /\ found.index \in Scan(t, host)
    BY Zenon, <1>3, ScanFacts DEF MatchSound
  <1>4. CASE found.degraded = TRUE /\ found.index \in Scan(t, host) \cup {NoMatchIdx}
    BY Zenon, <1>4, ScanFacts DEF MatchSound
  <1> QED
    BY Zenon, <1>1, <1>2, <1>3, <1>4

\* The index MatchDpi caches stands for the filter that Match found.
LEMMA CachedIndexFacts ==
  ASSUME NEW t, WellCompiled(t), NEW i \in DOMAIN t.filters
  PROVE  /\ CachedIndex(t, i) \in DOMAIN t.filters
         /\ t.filters[CachedIndex(t, i)].group = t.filters[i].group
         /\ t.filters[CachedIndex(t, i)].priority = t.filters[i].priority
  <1> DEFINE same == {j \in DOMAIN t.filters : /\ t.filters[j].group = t.filters[i].group
                                               /\ t.filters[j].priority = t.filters[i].priority}
  <1>0. /\ Len(t.filters) \in Nat /\ DOMAIN t.filters = 1 .. Len(t.filters)
        /\ Len(t.filters) < NoMatchIdx
    BY DEF WellCompiled
  <1>1. i # NoMatchIdx
    BY <1>0, DpiAssumption
  <1>2. CachedIndex(t, i) = Min(same)
    BY <1>1 DEF CachedIndex
  <1>3. i \in same /\ same \subseteq Nat
    BY <1>0
  <1>4. Min(same) \in same
    <2> HIDE DEF same
    <2> QED BY <1>3, MinFacts
  <1> QED
    BY Zenon, <1>2, <1>4

-----------------------------------------------------------------------------
(* The hostname cache.                                                      *)

LEMMA ProbeFacts ==
  ASSUME NEW h \in Hosts
  PROVE  /\ Probes \subseteq Nat
         /\ \A p \in Probes : SlotAt(h, p) \in 0 .. Slots - 1
         /\ \A p, q \in Probes : SlotAt(h, p) = SlotAt(h, q) => p = q
  <1>1. /\ Slots \in Nat /\ Slots > 0 /\ Hash[h] \in Nat /\ MaxProbes \in 1 .. Slots
        /\ Probes \subseteq 0 .. (Slots - 1) /\ Probes \subseteq Nat
    BY CacheAssumption DEF Probes
  <1>2. \A p \in Probes : SlotAt(h, p) \in 0 .. Slots - 1
    BY <1>1 DEF SlotAt
  <1>3. ASSUME NEW p \in Probes, NEW q \in Probes, SlotAt(h, p) = SlotAt(h, q)
        PROVE  p = q
    <2>1. (Hash[h] + p) % Slots = (Hash[h] + q) % Slots
      BY <1>3 DEF SlotAt
    <2>2. p \in 0 .. (Slots - 1) /\ q \in 0 .. (Slots - 1)
      BY <1>1
    <2> QED
      BY Zenon, <1>1, <2>1, <2>2, ModInjective
  <1> QED
    BY <1>1, <1>2, <1>3

\* Insert changes nothing, or the first probed slot that is empty or holds
\* the host.
LEMMA InsertFacts ==
  ASSUME NEW c, NEW host \in Hosts, NEW index, NEW generation
  PROVE  \/ Insert(c, host, index, generation) = c
         \/ \E p \in Probes :
              /\ Insert(c, host, index, generation)
                    = [c EXCEPT ![SlotAt(host, p)] = Entry(host, index, generation)]
              /\ c[SlotAt(host, p)].hash = 0 \/ KeyMatches(c[SlotAt(host, p)], host)
              /\ \A q \in Probes : q < p => /\ c[SlotAt(host, q)].hash # 0
                                            /\ ~KeyMatches(c[SlotAt(host, q)], host)
  <1> DEFINE usable == {p \in Probes : \/ c[SlotAt(host, p)].hash = 0
                                       \/ KeyMatches(c[SlotAt(host, p)], host)}
  <1>1. CASE usable = {}
    BY <1>1 DEF Insert
  <1>2. CASE usable # {}
    <2>1. usable \subseteq Nat /\ Probes \subseteq Nat
      BY ProbeFacts
    <2>2. Min(usable) \in usable /\ \A m \in usable : Min(usable) <= m
      <3> HIDE DEF usable
      <3> QED BY <1>2, <2>1, MinFacts
    <2>3. Insert(c, host, index, generation)
            = [c EXCEPT ![SlotAt(host, Min(usable))] = Entry(host, index, generation)]
      BY <1>2 DEF Insert
    <2>4. \A q \in Probes : q < Min(usable) => q \notin usable
      BY <2>1, <2>2
    <2>5. PICK p : p = Min(usable)
      OBVIOUS
    <2>6. p \in Probes /\ (c[SlotAt(host, p)].hash = 0 \/ KeyMatches(c[SlotAt(host, p)], host))
      BY <2>2, <2>5
    <2>7. \A q \in Probes : q < p => /\ c[SlotAt(host, q)].hash # 0
                                     /\ ~KeyMatches(c[SlotAt(host, q)], host)
      BY <2>4, <2>5
    <2> QED
      BY <2>3, <2>5, <2>6, <2>7
  <1> QED
    BY <1>1, <1>2

\* An index that Lookup finds comes from an entry of the host and generation.
LEMMA LookupFacts ==
  ASSUME NEW c, NEW host \in Hosts, NEW generation, Lookup(c, host, generation) # NoMatchIdx
  PROVE  \E s \in 0 .. Slots - 1 :
            /\ c[s].hash # 0 /\ c[s].generation = generation /\ KeyMatches(c[s], host)
            /\ Lookup(c, host, generation) = c[s].index
  <1> DEFINE hits == {p \in Probes : /\ c[SlotAt(host, p)].hash # 0
                                     /\ c[SlotAt(host, p)].generation = generation
                                     /\ KeyMatches(c[SlotAt(host, p)], host)}
  <1>1. hits # {} /\ Lookup(c, host, generation) = c[SlotAt(host, Min(hits))].index
    BY DEF Lookup
  <1>2. hits \subseteq Nat
    BY ProbeFacts
  <1>3. Min(hits) \in hits
    <2> HIDE DEF hits
    <2> QED BY <1>1, <1>2, MinFacts
  <1>4. SlotAt(host, Min(hits)) \in 0 .. Slots - 1
    BY <1>3, ProbeFacts
  <1> QED
    BY Zenon, <1>1, <1>3, <1>4

\* Insert keeps a host in one slot: it fills the first empty slot only after
\* all slots before it have turned out to hold other hosts.
LEMMA InsertKeepsChain ==
  ASSUME Generations, ProbeChain, NEW host \in Hosts, NEW index, NEW generation,
         cache' = Insert(cache, host, index, generation)
  PROVE  ProbeChain'
  <1>1. CASE cache' = cache
    BY <1>1 DEF ProbeChain
  <1>2. ASSUME NEW p \in Probes,
               cache' = [cache EXCEPT ![SlotAt(host, p)] = Entry(host, index, generation)],
               cache[SlotAt(host, p)].hash = 0 \/ KeyMatches(cache[SlotAt(host, p)], host),
               \A q \in Probes : q < p => /\ cache[SlotAt(host, q)].hash # 0
                                          /\ ~KeyMatches(cache[SlotAt(host, q)], host)
        PROVE  ProbeChain'
    <2> DEFINE s == SlotAt(host, p)
               new == Entry(host, index, generation)
    <2>1. /\ \A h \in Hosts, r \in Probes : SlotAt(h, r) \in DOMAIN cache
          /\ \A h \in Hosts : \A q, r \in Probes : SlotAt(h, q) = SlotAt(h, r) => q = r
          /\ s \in DOMAIN cache /\ Probes \subseteq Nat
      BY ProbeFacts DEF Generations
    <2>2. \A x \in DOMAIN cache : cache'[x] = IF x = s THEN new ELSE cache[x]
      BY <1>2, <2>1
    <2>3. new.hash = Hash[host] /\ new.key = Key[host]
      BY DEF Entry
    <2> HIDE DEF s, new
    <2> SUFFICES ASSUME NEW h \in Hosts, NEW r \in Probes,
                        cache'[SlotAt(h, r)].hash # 0, KeyMatches(cache'[SlotAt(h, r)], h),
                        NEW q \in Probes, q < r
                 PROVE  /\ cache'[SlotAt(h, q)].hash # 0
                        /\ ~KeyMatches(cache'[SlotAt(h, q)], h)
      BY DEF ProbeChain
    <2>4. CASE SlotAt(h, r) # s
      <3>1. /\ cache[SlotAt(h, q)].hash # 0 /\ ~KeyMatches(cache[SlotAt(h, q)], h)
        BY <2>1, <2>2, <2>4 DEF ProbeChain
      <3>2. CASE SlotAt(h, q) = s
        <4>1. new.hash = cache[s].hash /\ new.key = cache[s].key
          BY <1>2, <2>3, <3>1, <3>2 DEF s, KeyMatches
        <4> QED
          BY <2>1, <2>2, <3>1, <3>2, <4>1 DEF KeyMatches
      <3> QED
        BY <2>1, <2>2, <3>1, <3>2
    <2>5. CASE SlotAt(h, r) = s
      <3>1. h = host
        BY <2>1, <2>2, <2>3, <2>5, HashesDistinguish DEF KeyMatches
      <3>2. r = p /\ SlotAt(h, q) # s
        BY <2>1, <2>5, <3>1 DEF s
      <3> QED
        BY <1>2, <2>1, <2>2, <3>1, <3>2
    <2> QED
      BY <2>4, <2>5
  <1> QED
    BY <1>1, <1>2, InsertFacts

-----------------------------------------------------------------------------
(* The state machine.                                                       *)

\* The links of a table are bound in that table.
BoundIn(t, bound, names) ==
    \A g \in DOMAIN bound :
        IF names[g] = None THEN bound[g] = None
        ELSE /\ t # None /\ bound[g] \in DOMAIN t.filters
             /\ t.filters[bound[g]].group = names[g]

\* What Swap may publish for a table as it was compiled.
LEMMA StampFacts ==
  ASSUME NEW config \in Configs, NEW n \in 0 .. MaxLoads, NEW generation \in 0 .. MaxLoads,
         NEW t \in CompileDpiRuleTable(config.filters, n),
         NEW u, u = [t EXCEPT !.generation = generation]
  PROVE  /\ u # None /\ WellCompiled(u) /\ u.filters = t.filters /\ u.generation = generation
  <1>1. PICK p, f, d : t = [patterns |-> p, filters |-> f, db |-> d, generation |-> 0]
    BY DEF CompileDpiRuleTable
  <1>2. u.patterns = t.patterns /\ u.filters = t.filters /\ u.generation = generation
    BY <1>1
  <1>3. WellCompiled(t)
    BY CompileFacts
  <1>4. u # None
    BY TableAssumption
  <1> QED
    BY <1>2, <1>3, <1>4 DEF WellCompiled

LEMMA LinkFacts ==
  ASSUME NEW t, WellCompiled(t), t # None, NEW names, Resolvable(t, names)
  PROVE  BoundIn(t, ResolveDpiLinks(t, names), names)
  <1> SUFFICES ASSUME NEW g \in DOMAIN names, names[g] # None
               PROVE  /\ FindByFilterGroup(t.filters, names[g]) \in DOMAIN t.filters
                      /\ t.filters[FindByFilterGroup(t.filters, names[g])].group = names[g]
    BY DEF BoundIn, ResolveDpiLinks
  <1> DEFINE found == {i \in DOMAIN t.filters : t.filters[i].group = names[g]}
  <1>1. found # {} /\ FindByFilterGroup(t.filters, names[g]) = Min(found)
    BY DEF FindByFilterGroup, Resolvable
  <1>2. found \subseteq Nat
    BY DEF WellCompiled
  <1>3. Min(found) \in found
    <2> HIDE DEF found
    <2> QED BY <1>1, <1>2, MinFacts
  <1> QED
    BY <1>1, <1>3

\* A compiled configuration, stamped with a generation.
LEMMA CompiledFacts ==
  ASSUME NEW config \in Configs, NEW n \in 0 .. MaxLoads, NEW new \in Compiled(config, n)
  PROVE  \/ new.table = None /\ BoundIn(None, new.links, new.names)
         \/ \A generation \in 0 .. MaxLoads : \A u :
              u = [new.table EXCEPT !.generation = generation] =>
                /\ new.table # None /\ u # None /\ WellCompiled(u) /\ u.generation = generation
                /\ BoundIn(u, new.links, new.names)
  <1>1. CASE config.enabled
    <2>1. PICK t \in CompileDpiRuleTable(config.filters, n) :
            /\ Resolvable(t, config.links)
            /\ new = [table |-> t, links |-> ResolveDpiLinks(t, config.links), names |-> config.links]
      BY <1>1 DEF Compiled
    <2>2. t # None /\ WellCompiled(t)
      <3>1. PICK p, f, d : t = [patterns |-> p, filters |-> f, db |-> d, generation |-> 0]
        BY DEF CompileDpiRuleTable
      <3>2. [t EXCEPT !.generation = 0] = t /\ 0 \in 0 .. MaxLoads
        BY <3>1, DpiAssumption
      <3> QED
        BY <3>2, StampFacts
    <2>3. BoundIn(t, new.links, new.names)
      BY <2>1, <2>2, LinkFacts
    <2>4. ASSUME NEW generation \in 0 .. MaxLoads, NEW u,
                 u = [new.table EXCEPT !.generation = generation]
          PROVE  /\ new.table # None /\ u # None /\ WellCompiled(u) /\ u.generation = generation
                 /\ BoundIn(u, new.links, new.names)
      <3>1. /\ u # None /\ WellCompiled(u) /\ u.filters = t.filters /\ u.generation = generation
        BY <2>1, <2>4, StampFacts
      <3>2. BoundIn(u, new.links, new.names)
        BY <2>3, <3>1 DEF BoundIn
      <3> QED
        BY <2>1, <2>2, <3>1, <3>2
    <2> QED
      BY <2>4
  <1>2. CASE ~config.enabled
    BY <1>2 DEF Compiled, BoundIn
  <1> QED
    BY <1>1, <1>2

LEMMA DpiInit == Init => DpiInv
  <1> SUFFICES ASSUME Init PROVE DpiInv
    OBVIOUS
  <1>0. 0 \in 0 .. MaxLoads
    BY DpiAssumption
  <1> PICK config \in Configs : \E new \in Compiled(config, 0) :
        /\ table = new.table /\ links = new.links /\ declared = new.names
        /\ newest = IF new.table = None THEN -1 ELSE 0
    BY DEF Init
  <1>1. PICK new \in Compiled(config, 0) :
        /\ table = new.table /\ links = new.links /\ declared = new.names
        /\ newest = IF new.table = None THEN -1 ELSE 0
    OBVIOUS
  <1>2. table # None => /\ WellCompiled(table) /\ table.generation = 0
    <2> SUFFICES ASSUME table # None PROVE WellCompiled(table) /\ table.generation = 0
      OBVIOUS
    <2>1. PICK t \in CompileDpiRuleTable(config.filters, 0) : table = t
      BY <1>1 DEF Compiled
    <2>2. PICK p, f, d : t = [patterns |-> p, filters |-> f, db |-> d, generation |-> 0]
      BY DEF CompileDpiRuleTable
    <2> QED
      BY <2>1, <2>2, CompileFacts
  <1>3. BoundIn(table, links, declared)
    <2>1. CASE new.table = None /\ BoundIn(None, new.links, new.names)
      BY <1>1, <2>1
    <2>2. CASE \A generation \in 0 .. MaxLoads : \A u :
                 u = [new.table EXCEPT !.generation = generation] =>
                   /\ new.table # None /\ BoundIn(u, new.links, new.names)
      <3>1. new.table # None
        BY Zenon, <1>0, <2>2
      <3>2. PICK t \in CompileDpiRuleTable(config.filters, 0) : new.table = t
        BY <3>1 DEF Compiled
      <3>3. PICK p, f, d : t = [patterns |-> p, filters |-> f, db |-> d, generation |-> 0]
        BY DEF CompileDpiRuleTable
      <3>4. [new.table EXCEPT !.generation = 0] = new.table
        BY <3>2, <3>3
      <3> QED
        BY <1>0, <1>1, <2>2, <3>4
    <2> QED
      BY <1>0, <2>1, <2>2, CompiledFacts
  <1>4. Generations
    <2>1. /\ loads = 0 /\ restarted = FALSE /\ degraded = FALSE
          /\ cache = [s \in 0 .. Slots - 1 |-> EmptyEntry]
      BY DEF Init
    <2>2. \A s \in DOMAIN cache :
            /\ cache[s].hash = 0 /\ cache[s].index \in Indices /\ cache[s].generation = 0
      BY <2>1 DEF EmptyEntry, Indices
    <2>3. newest \in {-1, 0} /\ (table # None => newest = 0)
      BY <1>1
    <2>4. loads \in 0 .. MaxLoads /\ newest \in Int /\ newest <= loads
      BY <1>0, <2>1, <2>3
    <2>5. table # None => /\ WellCompiled(table) /\ table.generation \in 0 .. loads
                          /\ table.generation = newest
      BY <1>2, <2>1, <2>3
    <2>6. DOMAIN cache = 0 .. Slots - 1
      BY <2>1
    <2>7. restarted \in BOOLEAN /\ degraded \in BOOLEAN
      BY Zenon, <2>1
    <2>8. \A s \in DOMAIN cache :
            /\ cache[s].hash \in Nat /\ cache[s].index \in Indices /\ cache[s].generation \in Nat
            /\ cache[s].hash # 0 /\ ~restarted => cache[s].generation <= newest
      BY <2>2
    <2> QED
      BY <2>4, <2>5, <2>6, <2>7, <2>8 DEF Generations
  <1>5. ProbeChain
    <2>1. \A h \in Hosts, p \in Probes : SlotAt(h, p) \in 0 .. Slots - 1
      BY ProbeFacts
    <2> QED
      BY <2>1 DEF Init, ProbeChain, EmptyEntry
  <1>6. CacheSound
    BY DEF Init, CacheSound, EmptyEntry
  <1>7. AnswerSound /\ VerdictMatches /\ VerdictPreferred /\ HitInRange
    BY DEF Init, AnswerSound, VerdictMatches, VerdictPreferred, HitInRange
  <1>8. LinksBound
    BY <1>3 DEF LinksBound, BoundIn
  <1> QED
    BY <1>4, <1>5, <1>6, <1>7, <1>8 DEF DpiInv

\* A reload publishes a table with a generation that no entry of the cache
\* has, unless the generations begin again.
LEMMA ReloadStep ==
  ASSUME DpiInv, NEW config \in Configs, Reload(config)
  PROVE  DpiInv'
  <1> PICK new \in Compiled(config, loads + 1) : Publish(new)
    BY DEF Reload
  <1>0. /\ loads + 1 \in 0 .. MaxLoads /\ loads \in Nat /\ loads' = loads + 1 /\ newest \in Int
        /\ MaxLoads \in Nat
    BY DpiAssumption DEF Reload, Publish, DpiInv, Generations
  <1>1. UNCHANGED <<cache, degraded>> /\ answer' = None /\ links' = new.links /\ declared' = new.names
    BY DEF Publish
  <1>2. CASE new.table = None /\ BoundIn(None, new.links, new.names)
    <2>1. table' = None /\ newest' = newest /\ restarted' = restarted
      BY <1>2 DEF Publish, Swap, DpiInv, Generations
    <2>2. Generations'
      BY <1>0, <1>1, <2>1 DEF DpiInv, Generations
    <2>3. ProbeChain' /\ CacheSound' /\ AnswerSound'
      BY <1>1, <2>1 DEF DpiInv, ProbeChain, CacheSound, AnswerSound
    <2>4. VerdictMatches' /\ VerdictPreferred' /\ HitInRange'
      BY <1>1 DEF VerdictMatches, VerdictPreferred, HitInRange
    <2>5. LinksBound'
      BY <1>1, <1>2, <2>1 DEF LinksBound, BoundIn
    <2> QED
      BY <2>2, <2>3, <2>4, <2>5 DEF DpiInv
  <1>3. CASE \A generation \in 0 .. MaxLoads : \A u :
               u = [new.table EXCEPT !.generation = generation] =>
                 /\ new.table # None /\ u # None /\ WellCompiled(u) /\ u.generation = generation
                 /\ BoundIn(u, new.links, new.names)
    <2> DEFINE generation == IF table = None THEN 1 ELSE table.generation + 1
    <2>1. generation \in 1 .. (loads + 1) /\ generation \in 0 .. MaxLoads
      <3>1. CASE table = None
        BY <1>0, <3>1
      <3>2. CASE table # None
        <4>1. table.generation \in 0 .. loads
          BY <3>2 DEF DpiInv, Generations
        <4> QED
          BY <1>0, <3>2, <4>1
      <3> QED
        BY <3>1, <3>2
    <2>2. new.table # None
      BY Zenon, <1>3, <2>1
    <2>3. table' = [new.table EXCEPT !.generation = generation]
      BY <2>2 DEF Publish, Swap
    <2>4. /\ table' # None /\ WellCompiled(table') /\ table'.generation = generation
          /\ BoundIn(table', new.links, new.names)
      BY <1>3, <2>1, <2>3
    <2>5. /\ newest' = Max({newest, generation})
          /\ restarted' = (restarted \/ (table = None /\ newest >= 1))
      BY <2>4 DEF Publish
    <2>6. newest' \in {newest, generation} /\ newest' >= newest /\ newest' >= generation
      <3>1. generation \in Int
        BY <2>1
      <3>2. \E x \in {newest, generation} : \A y \in {newest, generation} : x >= y
        <4> HIDE DEF generation
        <4>1. newest >= generation \/ generation >= newest
          BY <1>0, <3>1
        <4>2. newest >= newest /\ generation >= generation
          BY <1>0, <3>1
        <4> QED BY <4>1, <4>2
      <3> HIDE DEF generation
      <3> QED
        BY <2>5, <3>2 DEF Max
    <2>7. restarted' \in BOOLEAN /\ (~restarted' => ~restarted)
      BY <2>5 DEF DpiInv, Generations
    <2>8. ~restarted' => newest < generation
      <3>1. ASSUME ~restarted' PROVE newest < generation
        <4>1. CASE table = None
          <5>1. ~(newest >= 1)
            BY <2>5, <3>1, <4>1, Zenon
          <5> QED
            BY <1>0, <4>1, <5>1
        <4>2. CASE table # None
          <5>1. table.generation = newest
            BY <2>7, <3>1, <4>2 DEF DpiInv, Generations
          <5> QED
            BY <1>0, <4>2, <5>1
        <4> QED
          BY <4>1, <4>2
      <3> QED
        BY <3>1
    <2> HIDE DEF generation
    <2>9. ~restarted' => newest' = generation
      BY <1>0, <2>1, <2>6, <2>8
    <2>10. \A s \in DOMAIN cache : cache[s].hash # 0 /\ ~restarted' => cache[s].generation < generation
      <3> SUFFICES ASSUME NEW s \in DOMAIN cache, cache[s].hash # 0, ~restarted'
                   PROVE  cache[s].generation < generation
        OBVIOUS
      <3>1. cache[s].generation \in Nat /\ cache[s].generation <= newest
        BY <2>7 DEF DpiInv, Generations
      <3> QED
        BY <1>0, <2>1, <2>8, <3>1
    <2>11. Generations'
      <3>1. newest' \in Int /\ newest' <= loads'
        BY <1>0, <2>1, <2>6 DEF DpiInv, Generations
      <3>2. \A s \in DOMAIN cache : /\ cache[s].hash \in Nat /\ cache[s].index \in Indices
                                    /\ cache[s].generation \in Nat
        BY DEF DpiInv, Generations
      <3>3. \A s \in DOMAIN cache : cache[s].hash # 0 /\ ~restarted' => cache[s].generation <= newest'
        BY <2>1, <2>9, <2>10, <3>2
      <3> QED
        BY <1>0, <1>1, <2>1, <2>4, <2>7, <2>9, <3>1, <3>2, <3>3 DEF DpiInv, Generations
    <2>12. CacheSound'
      <3>1. \A s \in DOMAIN cache : cache[s].generation \in Nat
        BY DEF DpiInv, Generations
      <3> QED
        BY <1>1, <2>1, <2>4, <2>10, <3>1 DEF CacheSound
    <2>13. ProbeChain' /\ AnswerSound' /\ VerdictMatches' /\ VerdictPreferred' /\ HitInRange'
      BY <1>1 DEF DpiInv, ProbeChain, AnswerSound, VerdictMatches, VerdictPreferred, HitInRange
    <2>14. LinksBound'
      BY <1>1, <2>4 DEF LinksBound, BoundIn
    <2> QED
      BY <2>11, <2>12, <2>13, <2>14 DEF DpiInv
  <1> QED
    BY <1>0, <1>2, <1>3, CompiledFacts

\* The priority values of the filters that match host.
Priorities(t, host) ==
    {t.filters[j].priority : j \in {j \in DOMAIN t.filters :
                                       PatternMatches(t.filters[j].pattern, host)}}

LEMMA PreferredIsMin ==
  ASSUME NEW t, WellCompiled(t), NEW host, NEW i \in DOMAIN t.filters,
         Stands(t, i, host), Preferred(t, i, host)
  PROVE  t.filters[i].priority = Min(Priorities(t, host))
  <1>1. PICK j \in DOMAIN t.filters :
          /\ t.filters[j].priority = t.filters[i].priority
          /\ PatternMatches(t.filters[j].pattern, host)
    BY DEF Stands
  <1> DEFINE P == Priorities(t, host)
             m == t.filters[i].priority
  <1>2. m \in P
    BY <1>1 DEF Priorities
  <1>3. \A y \in P : m <= y
    BY DEF Priorities, Preferred
  <1>4. P \subseteq Nat
    BY DEF Priorities, WellCompiled
  <1> HIDE DEF P, m
  <1>5. Min(P) \in P /\ \A y \in P : Min(P) <= y
    BY <1>2, <1>4, MinFacts
  <1> QED
    BY <1>2, <1>3, <1>4, <1>5 DEF P, m

\* An answer that stands for a matching filter, and is a preferred one when
\* nothing has degraded, has the properties.
LEMMA AnswerFacts ==
  ASSUME NEW t, WellCompiled(t), NEW host, NEW index \in DOMAIN t.filters, NEW hit \in BOOLEAN,
         table' = t, t # None,
         answer' = [host |-> host, index |-> index, hit |-> hit, filter |-> t.filters[index]],
         SortedStably' /\ ~restarted' => Stands(t, index, host),
         SortedStably' /\ ~restarted' /\ ~degraded' => Preferred(t, index, host)
  PROVE  VerdictMatches' /\ VerdictPreferred' /\ HitInRange' /\ AnswerSound'
  <1>1. /\ answer'.host = host /\ answer'.filter = t.filters[index] /\ answer'.index = index
        /\ answer'.filter # None
    BY DEF WellCompiled
  <1>2. VerdictMatches'
    BY <1>1 DEF VerdictMatches, Stands
  <1>3. VerdictPreferred'
    <2> SUFFICES ASSUME ~restarted', ~degraded', SortedStably'
                 PROVE  /\ {i \in DOMAIN t.filters : PatternMatches(t.filters[i].pattern, host)} # {}
                        /\ t.filters[index].priority = Min(Priorities(t, host))
      BY <1>1 DEF VerdictPreferred, Priorities
    <2> QED
      BY PreferredIsMin DEF Stands
  <1> QED
    BY <1>1, <1>2, <1>3 DEF HitInRange, AnswerSound

LEMMA HitStep ==
  ASSUME DpiInv, NEW host \in Hosts, MatchDpiHit(host)
  PROVE  DpiInv'
  <1> DEFINE i == Lookup(cache, host, table.generation)
  <1>1. /\ UNCHANGED <<table, links, declared, cache, degraded, loads, newest, restarted>>
        /\ table # None /\ i # NoMatchIdx
        /\ answer' = [host |-> host, index |-> i, hit |-> TRUE,
                      filter |-> IF i \in DOMAIN table.filters THEN table.filters[i] ELSE None]
    BY DEF MatchDpiHit, history
  <1>2. PICK s \in 0 .. Slots - 1 :
          /\ cache[s].hash # 0 /\ cache[s].generation = table.generation
          /\ KeyMatches(cache[s], host) /\ i = cache[s].index
    BY <1>1, LookupFacts
  <1> HIDE DEF i
  <1>3. WellCompiled(table) /\ s \in DOMAIN cache
    BY <1>1 DEF DpiInv, Generations
  <1>4. SortedStably' = SortedStably
    BY <1>1 DEF SortedStably
  <1>5. VerdictMatches' /\ VerdictPreferred' /\ HitInRange' /\ AnswerSound'
    <2>1. CASE restarted
      BY <1>1, <2>1 DEF VerdictMatches, VerdictPreferred, HitInRange, AnswerSound
    <2>2. CASE ~restarted
      <3>1. /\ i \in DOMAIN table.filters
            /\ SortedStably => Stands(table, i, host)
            /\ SortedStably /\ ~degraded => Preferred(table, i, host)
        BY <1>1, <1>2, <1>3, <2>2 DEF DpiInv, CacheSound
      <3> QED
        BY Zenon, <1>1, <1>3, <1>4, <3>1, AnswerFacts
    <2> QED
      BY <2>1, <2>2
  <1>6. Generations' /\ ProbeChain' /\ CacheSound' /\ LinksBound'
    BY Zenon, <1>1, <1>4 DEF DpiInv, Generations, ProbeChain, CacheSound, LinksBound
  <1> QED
    BY <1>5, <1>6 DEF DpiInv

\* The cache after a miss: the entry that was stored is a result of the table.
LEMMA MissCache ==
  ASSUME DpiInv, NEW host \in Hosts, NEW found \in Match(table, host), table # None,
         UNCHANGED <<table, restarted>>, degraded' = (degraded \/ found.degraded),
         cache' = Insert(cache, host, CachedIndex(table, found.index), table.generation)
  PROVE  /\ CacheSound'
         /\ DOMAIN cache' = DOMAIN cache
         /\ \A s \in DOMAIN cache :
              \/ cache'[s] = cache[s]
              \/ cache'[s].hash \in Nat /\ cache'[s].index \in Indices
                 /\ cache'[s].generation = table.generation
  <1> DEFINE index == CachedIndex(table, found.index)
             new == Entry(host, index, table.generation)
  <1>1. WellCompiled(table) /\ MatchSound(table, found, host) /\ NoMatchIdx \in Nat
        /\ restarted \in BOOLEAN /\ degraded \in BOOLEAN
    BY MatchFacts, DpiAssumption DEF DpiInv, Generations
  <1>2. SortedStably' = SortedStably
    BY DEF SortedStably
  <1>3. index # NoMatchIdx =>
          /\ found.index \in DOMAIN table.filters /\ index \in DOMAIN table.filters
          /\ table.filters[index].group = table.filters[found.index].group
          /\ table.filters[index].priority = table.filters[found.index].priority
    <2>1. CASE found.index = NoMatchIdx
      BY <2>1 DEF CachedIndex
    <2>2. CASE found.index # NoMatchIdx
      BY <1>1, <2>2, CachedIndexFacts DEF MatchSound
    <2> QED
      BY <2>1, <2>2
  <1> HIDE DEF index
  <1>4. index # NoMatchIdx =>
          /\ SortedStably => Stands(table, index, host)
          /\ SortedStably /\ ~degraded' => Preferred(table, index, host)
    <2> SUFFICES ASSUME index # NoMatchIdx, SortedStably
                 PROVE  Stands(table, index, host) /\ (~degraded' => Preferred(table, index, host))
      OBVIOUS
    <2>1. /\ found.index # NoMatchIdx /\ Len(table.filters) <= SmallSort
          /\ PatternMatches(table.filters[found.index].pattern, host)
          /\ ~found.degraded => Preferred(table, found.index, host)
      BY <1>1, <1>3, DpiAssumption DEF SortedStably, MatchSound, WellCompiled
    <2>2. Stands(table, index, host)
      BY <1>3, <2>1 DEF Stands
    <2>3. ~degraded' => Preferred(table, index, host)
      BY Zenon, <1>3, <2>1 DEF Preferred
    <2> QED
      BY <2>2, <2>3
  <1>5. /\ new.hash = Hash[host] /\ new.key = Key[host] /\ new.index = index
        /\ new.generation = table.generation
    BY DEF Entry
  <1>6. index \in Indices /\ Hash[host] \in Nat
    BY <1>1, <1>3, CacheAssumption DEF Indices, WellCompiled
  <1> HIDE DEF new
  <1>7. ASSUME NEW t \in DOMAIN cache, cache' = [cache EXCEPT ![t] = new]
        PROVE  CacheSound' /\ DOMAIN cache' = DOMAIN cache
               /\ \A s \in DOMAIN cache : cache'[s] = IF s = t THEN new ELSE cache[s]
    <2>1. DOMAIN cache' = DOMAIN cache
          /\ \A s \in DOMAIN cache : cache'[s] = IF s = t THEN new ELSE cache[s]
      BY <1>7
    <2>2. ~degraded' => ~degraded
      BY Zenon
    <2>3. ASSUME ~restarted, NEW s \in DOMAIN cache, NEW h \in Hosts,
                 cache'[s].hash # 0, cache'[s].generation = table.generation,
                 KeyMatches(cache'[s], h), cache'[s].index # NoMatchIdx
          PROVE  /\ cache'[s].index \in DOMAIN table.filters
                 /\ SortedStably => Stands(table, cache'[s].index, h)
                 /\ SortedStably /\ ~degraded' => Preferred(table, cache'[s].index, h)
      <3>1. CASE s = t
        <4>1. h = host
          BY <1>5, <2>1, <2>3, <3>1, HashesDistinguish DEF KeyMatches
        <4> QED
          BY <1>3, <1>4, <1>5, <2>1, <2>3, <3>1, <4>1
      <3>2. CASE s # t
        <4>1. cache'[s] = cache[s]
          BY <2>1, <3>2
        <4> QED
          BY <2>2, <2>3, <4>1 DEF DpiInv, CacheSound
      <3> QED
        BY <3>1, <3>2
    <2>4. CacheSound'
      BY <1>2, <2>1, <2>3 DEF CacheSound
    <2> QED
      BY <2>1, <2>4
  <1>8. CASE cache' = cache
    <2>1. ~degraded' => ~degraded
      BY Zenon
    <2> QED
      BY <1>2, <1>8, <2>1 DEF DpiInv, CacheSound
  <1>9. CASE \E p \in Probes : cache' = [cache EXCEPT ![SlotAt(host, p)] = new]
    <2>1. \A p \in Probes : SlotAt(host, p) \in DOMAIN cache
      BY ProbeFacts DEF DpiInv, Generations
    <2>2. PICK t \in DOMAIN cache : cache' = [cache EXCEPT ![t] = new]
      BY Zenon, <1>9, <2>1
    <2> QED
      BY Zenon, <1>5, <1>6, <1>7, <2>2
  <1> QED
    BY <1>8, <1>9, InsertFacts DEF new, index

LEMMA MissStep ==
  ASSUME DpiInv, NEW host \in Hosts, MatchDpiMiss(host)
  PROVE  DpiInv'
  <1>1. PICK found \in Match(table, host) :
          /\ degraded' = (degraded \/ found.degraded)
          /\ cache' = Insert(cache, host, CachedIndex(table, found.index), table.generation)
          /\ answer' = [host |-> host, index |-> found.index, hit |-> FALSE,
                        filter |-> IF found.index = NoMatchIdx
                                   THEN None ELSE table.filters[found.index]]
    BY Zenon DEF MatchDpiMiss
  <1>2. table # None /\ UNCHANGED <<table, links, declared, loads, newest, restarted>>
    BY DEF MatchDpiMiss, history
  <1>3. WellCompiled(table) /\ MatchSound(table, found, host)
    BY <1>2, MatchFacts DEF DpiInv, Generations
  <1>4. degraded' \in BOOLEAN /\ (~degraded' => ~degraded /\ ~found.degraded)
    BY <1>1, Zenon
  <1>5. /\ CacheSound' /\ DOMAIN cache' = DOMAIN cache
        /\ \A s \in DOMAIN cache :
             \/ cache'[s] = cache[s]
             \/ cache'[s].hash \in Nat /\ cache'[s].index \in Indices
                /\ cache'[s].generation = table.generation
    BY <1>1, <1>2, MissCache
  <1>6. Generations'
    <2>1. /\ table.generation \in Nat /\ (~restarted => table.generation = newest)
          /\ newest \in Int
      BY <1>2 DEF DpiInv, Generations
    <2>2. \A s \in DOMAIN cache :
            /\ cache'[s].hash \in Nat /\ cache'[s].index \in Indices /\ cache'[s].generation \in Nat
            /\ cache'[s].hash # 0 /\ ~restarted => cache'[s].generation <= newest
      BY <1>5, <2>1 DEF DpiInv, Generations
    <2> QED
      BY <1>2, <1>4, <1>5, <2>2 DEF DpiInv, Generations
  <1>7. ProbeChain'
    BY Zenon, <1>1, InsertKeepsChain DEF DpiInv
  <1>8. LinksBound'
    BY <1>2 DEF DpiInv, LinksBound
  <1>9. VerdictMatches' /\ VerdictPreferred' /\ HitInRange' /\ AnswerSound'
    <2>1. CASE found.index = NoMatchIdx
      <3>1. answer'.filter = None /\ answer'.hit = FALSE /\ answer'.host = host
        BY <1>1, <2>1
      <3>2. VerdictPreferred'
        <4> SUFFICES ASSUME ~degraded', SortedStably'
                     PROVE  \A j \in DOMAIN table.filters :
                              ~PatternMatches(table.filters[j].pattern, host)
          BY <1>2, <3>1 DEF VerdictPreferred
        <4> QED
          BY <1>2, <1>3, <1>4, <2>1 DEF MatchSound, SortedStably
      <3> QED
        BY <1>2, <3>1, <3>2 DEF VerdictMatches, HitInRange, AnswerSound
    <2>2. CASE found.index # NoMatchIdx
      <3>1. found.index \in DOMAIN table.filters
        BY <1>3, <2>2 DEF MatchSound
      <3>2. SortedStably' => Stands(table, found.index, host)
        BY <1>2, <1>3, <2>2, <3>1 DEF MatchSound, SortedStably, Stands
      <3>3. SortedStably' /\ ~degraded' => Preferred(table, found.index, host)
        BY <1>2, <1>3, <1>4, <2>2 DEF MatchSound, SortedStably
      <3> QED
        BY Zenon, <1>1, <1>2, <1>3, <2>2, <3>1, <3>2, <3>3, AnswerFacts
    <2> QED
      BY <2>1, <2>2
  <1> QED
    BY <1>5, <1>6, <1>7, <1>8, <1>9 DEF DpiInv

LEMMA DpiStep ==
  ASSUME DpiInv, [Next]_vars
  PROVE  DpiInv'
  <1>1. CASE UNCHANGED vars
    BY Zenon, <1>1 DEF vars, history, DpiInv, Generations, ProbeChain, CacheSound, AnswerSound,
                VerdictMatches, VerdictPreferred, HitInRange, LinksBound, SortedStably
  <1>2. ASSUME NEW config \in Configs, Reload(config) PROVE DpiInv'
    BY <1>2, ReloadStep
  <1>3. ASSUME NEW host \in Hosts, MatchDpiHit(host) PROVE DpiInv'
    BY <1>3, HitStep
  <1>4. ASSUME NEW host \in Hosts, MatchDpiMiss(host) PROVE DpiInv'
    BY <1>4, MissStep
  <1> QED
    BY <1>1, <1>2, <1>3, <1>4 DEF Next

LEMMA DpiInvariant == Spec => []DpiInv
  <1> QED
    BY DpiInit, DpiStep, PTL DEF Spec

-----------------------------------------------------------------------------
(* The theorems.                                                            *)

\* Whatever has been reloaded since an entry was cached, the filter MatchDpi
\* answers with, from the cache or from a scan, has a pattern of the active
\* table that matches the hostname; and it is one of the lowest priority value
\* as long as every hostname has been scanned.
THEOREM VerdictsBelongToActiveTable == Spec => [](VerdictMatches /\ VerdictPreferred)
  <1>1. DpiInv => VerdictMatches /\ VerdictPreferred
    BY DEF DpiInv
  <1> QED
    BY <1>1, DpiInvariant, PTL

\* The branch of MatchDpi for a cached index past the end of the filters is
\* never taken while the generations have not begun again.
THEOREM CachedIndexInRange == Spec => []HitInRange
  <1>1. DpiInv => HitInRange
    BY DEF DpiInv
  <1> QED
    BY <1>1, DpiInvariant, PTL

\* A hostname is in one of its slots of the cache at most.
THEOREM HostnamesCachedOnce == Spec => []OneSlotPerHost
  <1>1. DpiInv => OneSlotPerHost
    <2> SUFFICES ASSUME ProbeChain, NEW h \in Hosts
                 PROVE  Cardinality({p \in Probes : LET entry == cache[SlotAt(h, p)]
                                                    IN entry.hash # 0 /\ KeyMatches(entry, h)}) <= 1
      BY DEF DpiInv, OneSlotPerHost
    <2> DEFINE held == {p \in Probes : cache[SlotAt(h, p)].hash # 0 /\ KeyMatches(cache[SlotAt(h, p)], h)}
    <2>1. \A p, q \in held : p = q
      <3> SUFFICES ASSUME NEW p \in held, NEW q \in held, q < p PROVE FALSE
        BY ProbeFacts
      <3> QED
        BY DEF ProbeChain
    <2>2. held = {} \/ \E p \in held : held = {p}
      BY <2>1
    <2> HIDE DEF held
    <2>3. Cardinality(held) <= 1
      BY <2>2, FS_EmptySet, FS_Singleton
    <2> QED
      BY <2>3 DEF held
  <1> QED
    BY <1>1, DpiInvariant, PTL

\* Every SPI group that declares a DPI link is bound to a filter of that group
\* in the table published with it, after every reload.
THEOREM LinksFollowTheTable == Spec => []LinksBound
  <1>1. DpiInv => LinksBound
    BY DEF DpiInv
  <1> QED
    BY <1>1, DpiInvariant, PTL

\* The types of the DPI tables and of the hostname cache.
THEOREM DpiTypesHold == Spec => []TypeOK
  <1>1. DpiInv => TypeOK
    BY DEF DpiInv, Generations, WellCompiled, TypeOK
  <1> QED
    BY <1>1, DpiInvariant, PTL

=============================================================================
