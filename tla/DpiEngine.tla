----------------------------- MODULE DpiEngine ------------------------------
(***************************************************************************)
(* DPI hostname classification: CompileDpiRuleTable, the matching of a     *)
(* hostname by Hyperscan or by the fallback tables (dpi_rule_engine.cpp),  *)
(* DpiRuleTableManager, the SPI groups' links into the DPI table           *)
(* (ResolveDpiLinks) and MatchDpi, as one worker runs it across reloads.   *)
(*                                                                         *)
(* A hostname is a sequence of labels.  A filter is its pattern, its       *)
(* priority and its group, which stands for the label too.                 *)
(***************************************************************************)
EXTENDS HostnameCache, Sequences, Functions

CONSTANTS
    Configs,         \* the DPI configurations LoadConfig may return
    SmallSort,       \* std::ranges::sort keeps ties in order up to this: 16
    MaxLoads,        \* bound on the number of reloads
    None             \* a null pointer, no link, no match

\* Priorities are unsigned, and there are fewer filters than kNoMatchIdx.
ASSUME DpiAssumption ==
    /\ NoMatchIdx \in Nat /\ MaxLoads \in Nat /\ SmallSort \in Nat
    /\ \A h \in Hosts : h \in Seq(Range(h))
    /\ \A c \in Configs :
        /\ c.enabled \in BOOLEAN
        /\ c.filters \in Seq(Range(c.filters)) /\ Len(c.filters) < NoMatchIdx
        /\ \A f \in Range(c.filters) : f.priority \in Nat
        /\ None \notin DOMAIN c.filters /\ None \notin Range(c.filters)

VARIABLES
    table,           \* the active table, or None
    links,           \* SPI group -> bound_dpi_filter_index
    declared,        \* SPI group -> the bound_dpi_name it was resolved from
    scratch,         \* Match's tl_scratch: the database it was allocated for
    cache,           \* dpi_hostname_cache
    loads,           \* number of tables published so far
    newest,          \* highest generation published so far
    restarted,       \* has Swap begun again with generation 1?
    degraded,        \* has a hostname been answered without a scan?
    answer           \* the last MatchDpi under this table

history == <<loads, newest, restarted>>
vars == <<table, links, declared, scratch, cache, history, degraded, answer>>

-----------------------------------------------------------------------------
(* Compiling                                                                *)

\* The orders sort may leave a vector in: by priority, and ties as they were
\* while the vector is small enough for an insertion sort.
Sorts(filters) ==
    LET n == Len(filters)
        orders == {p \in Bijection(1 .. n, 1 .. n) :
                      \A i, j \in 1 .. n : i < j =>
                          \/ filters[p[i]].priority < filters[p[j]].priority
                          \/ /\ filters[p[i]].priority = filters[p[j]].priority
                             /\ n <= SmallSort => p[i] < p[j]}
    IN  {[i \in 1 .. n |-> filters[p[i]]] : p \in orders}

\* Mutant: a catch-all is left out of the database.
CompileDpiRuleTableNoCatchAll(filters, n) ==
    {[patterns |-> SelectSeq(sorted, LAMBDA f : f.pattern # <<"any">>), filters |-> sorted,
      db |-> n, generation |-> 0] : sorted \in Sorts(filters)}

\* Tables CompileDpiRuleTable may return as number n.  The patterns are
\* compiled in the order of one sort; the constructor sorts again.
CompileDpiRuleTable(filters, n) ==
    {[patterns |-> pair[1], filters |-> pair[2],
      db |-> IF filters = <<>> THEN None ELSE n, generation |-> 0] :
        pair \in UNION {{sorted} \X Sorts(sorted) : sorted \in Sorts(filters)}}

\* A table is not a null pointer.
ASSUME TableAssumption ==
    \A c \in Configs, n, g \in 0 .. MaxLoads :
        \A t \in CompileDpiRuleTable(c.filters, n) : [t EXCEPT !.generation = g] # None

\* FindByFilterGroup: the first filter of a group.
FindByFilterGroup(filters, name) ==
    LET found == {i \in DOMAIN filters : filters[i].group = name}
    IN  IF found = {} THEN None ELSE Min(found)

\* ResolveDpiLinks: it succeeds when every declared link names a group.
Resolvable(t, names) ==
    \A g \in DOMAIN names : names[g] # None => FindByFilterGroup(t.filters, names[g]) # None
ResolveDpiLinks(t, names) ==
    [g \in DOMAIN names |->
        IF names[g] = None THEN None ELSE FindByFilterGroup(t.filters, names[g])]

-----------------------------------------------------------------------------
(* Matching                                                                 *)

\* The regular expression compiled for a pattern, as a predicate on hosts.
\* A pattern is <<"any">>, <<"exact", labels>> or <<"suffix", labels>>; the
\* last one matches a host that has any n labels before those.
PatternMatches(pattern, host) ==
    \/ pattern[1] = "any"
    \/ pattern[1] = "exact" /\ host = pattern[2]
    \/ /\ pattern[1] = "suffix"
       /\ \E n \in 0 .. Len(host) : pattern[2] = SubSeq(host, n + 1, Len(host))

\* Mutant: the callback keeps whatever the library reports last.
OnHyperscanMatchLast(t, reported) == reported

\* OnHyperscanMatch over the reported ids: one of the lowest priority value;
\* which of several depends on the order of the reports.
OnHyperscanMatch(t, reported) ==
    {i \in reported : \A j \in reported : t.filters[i].priority <= t.filters[j].priority}

\* Match(hostname, scratch) with a scratch of this database.
Scan(t, host) ==
    LET reported == {i \in DOMAIN t.patterns : PatternMatches(t.patterns[i].pattern, host)}
    IN  IF reported = {} THEN {NoMatchIdx} ELSE OnHyperscanMatch(t, reported)

\* ExtractDomainKey: the last two labels; none for a single label.
ExtractDomainKey(host) ==
    IF Len(host) < 2 THEN None ELSE SubSeq(host, Len(host) - 1, Len(host))

\* MatchFallback: exact, then suffix by domain key, then the last catch-all.
MatchFallback(t, host) ==
    LET Of(pattern) == {i \in DOMAIN t.filters : t.filters[i].pattern = pattern}
        exact == Of(<<"exact", host>>)
        suffix == IF ExtractDomainKey(host) = None THEN {}
                  ELSE Of(<<"suffix", ExtractDomainKey(host)>>)
        any == Of(<<"any">>)
    IN  CASE exact # {}  -> {Min(exact)}
          [] exact = {} /\ suffix # {} ->
                IF Len(t.filters) <= SmallSort THEN {Min(suffix)} ELSE suffix
          [] exact = {} /\ suffix = {} /\ any # {} -> {Max(any)}
          [] OTHER -> {NoMatchIdx}

\* Match(hostname): the outcomes, as the index found, tl_scratch afterwards
\* and whether there was no scan.  hs_alloc_scratch may fail; the scratch is
\* never reallocated, and Hyperscan may refuse that of another database.
Match(t, host) ==
    LET Outcomes(found, s, d) == [index : found, scratch : {s}, degraded : {d}]
    IN  IF t.db = None THEN Outcomes(MatchFallback(t, host), scratch, TRUE)
        ELSE CASE scratch = None ->
                      Outcomes(MatchFallback(t, host), None, TRUE)
                          \cup Outcomes(Scan(t, host), t.db, FALSE)
               [] scratch = t.db -> Outcomes(Scan(t, host), scratch, FALSE)
               [] OTHER -> Outcomes(Scan(t, host), scratch, FALSE)
                               \cup Outcomes({NoMatchIdx}, scratch, TRUE)

\* The index MatchDpi caches: the first filter that gives the same result.
CachedIndex(t, i) ==
    IF i = NoMatchIdx THEN NoMatchIdx
    ELSE Min({j \in DOMAIN t.filters : /\ t.filters[j].group = t.filters[i].group
                                       /\ t.filters[j].priority = t.filters[i].priority})

-----------------------------------------------------------------------------
(* The state machine                                                        *)

\* What a configuration is compiled to as number n: a table and the links of
\* the SPI groups; nothing when a link cannot be resolved.  Without DPI there
\* is no table and no link.
Compiled(config, n) ==
    LET unlinked == [g \in DOMAIN config.links |-> None]
    IN  IF config.enabled
        THEN {[table |-> t, links |-> ResolveDpiLinks(t, config.links), names |-> config.links] :
                t \in {u \in CompileDpiRuleTable(config.filters, n) : Resolvable(u, config.links)}}
        ELSE {[table |-> None, links |-> unlinked, names |-> unlinked]}

\* main and the Pipeline constructor: DpiRuleTableManager::Init.  A link that
\* cannot be resolved aborts the program.
Init ==
    /\ \E config \in Configs : \E new \in Compiled(config, 0) :
        /\ table = new.table /\ links = new.links /\ declared = new.names
        /\ newest = IF new.table = None THEN -1 ELSE 0
    /\ scratch = None
    /\ cache = [s \in 0 .. Slots - 1 |-> EmptyEntry]
    /\ loads = 0 /\ restarted = FALSE /\ degraded = FALSE
    /\ answer = None

\* Mutant: the generation of the new table is not set.
SwapKeepsGeneration(old, new) == new

\* DpiRuleTableManager::Swap: what it publishes.
Swap(old, new) ==
    CASE new = None               -> None
      [] new # None /\ old = None -> [new EXCEPT !.generation = 1]
      [] OTHER                    -> [new EXCEPT !.generation = old.generation + 1]

Publish(new) ==
    /\ table' = Swap(table, new.table)
    /\ links' = new.links /\ declared' = new.names
    /\ newest' = IF table' = None THEN newest ELSE Max({newest, table'.generation})
    /\ restarted' = (restarted \/ (table = None /\ table' # None /\ newest >= 1))
    /\ loads' = loads + 1 /\ answer' = None
    /\ UNCHANGED <<scratch, cache, degraded>>

\* Mutant: the links are resolved in the table that is being replaced.
ReloadResolvesInOld(config) ==
    /\ loads < MaxLoads
    /\ \E new \in Compiled(config, loads + 1) :
        Publish([new EXCEPT !.links = IF table = None \/ ~config.enabled THEN @
                                      ELSE ResolveDpiLinks(table, config.links)])

\* MaybeReload, the part about DPI.  It runs while the workers are paused.
Reload(config) ==
    /\ loads < MaxLoads
    /\ \E new \in Compiled(config, loads + 1) : Publish(new)

\* MatchDpi of a hostname that is in the cache.
MatchDpiHit(host) ==
    /\ table # None /\ table.filters # <<>>
    /\ LET i == Lookup(cache, host, table.generation)
       IN  /\ i # NoMatchIdx
           /\ answer' = [host |-> host, index |-> i, hit |-> TRUE,
                         filter |-> IF i \in DOMAIN table.filters
                                    THEN table.filters[i] ELSE None]
    /\ UNCHANGED <<table, links, declared, scratch, cache, history, degraded>>

\* MatchDpi of one that is not, or that is there as matching nothing.
MatchDpiMiss(host) ==
    /\ table # None /\ table.filters # <<>>
    /\ Lookup(cache, host, table.generation) = NoMatchIdx
    /\ \E found \in Match(table, host) :
        /\ scratch' = found.scratch
        /\ degraded' = (degraded \/ found.degraded)
        /\ cache' = Insert(cache, host, CachedIndex(table, found.index), table.generation)
        /\ answer' = [host |-> host, index |-> found.index, hit |-> FALSE,
                      filter |-> IF found.index = NoMatchIdx
                                 THEN None ELSE table.filters[found.index]]
    /\ UNCHANGED <<table, links, declared, history>>

Next ==
    \/ \E config \in Configs : Reload(config)
    \/ \E host \in Hosts : MatchDpiHit(host) \/ MatchDpiMiss(host)

Spec == Init /\ [][Next]_vars

-----------------------------------------------------------------------------
(* Properties                                                               *)

Indices == Nat \cup {NoMatchIdx}

\* The types of the state of the DPI tables and of the hostname cache.
TypeOK ==
    /\ table # None => DOMAIN table.filters = DOMAIN table.patterns
    /\ \A s \in DOMAIN cache : cache[s].index \in Indices /\ cache[s].generation \in Nat
    /\ DOMAIN cache = 0 .. Slots - 1
    /\ restarted \in BOOLEAN /\ degraded \in BOOLEAN
    /\ loads \in 0 .. MaxLoads

\* Did both sorts of the active table leave ties alone?
SortedStably == table # None => Len(table.filters) <= SmallSort

\* The filter MatchDpi answers with, from the cache or not, has a pattern of
\* the active table that matches the hostname, however often the rules have
\* been reloaded since the entry was cached; except after
\* the generations have begun again, and with too many filters for a stable sort.
VerdictMatches ==
    /\ answer # None /\ answer.filter # None
    /\ ~restarted /\ SortedStably
    => \E i \in DOMAIN table.filters :
          /\ table.filters[i].group = answer.filter.group
          /\ table.filters[i].priority = answer.filter.priority
          /\ PatternMatches(table.filters[i].pattern, answer.host)

\* While every hostname has been scanned, MatchDpi answers with the lowest
\* priority value among the patterns that match, and with nothing only when
\* no pattern does.
VerdictPreferred ==
    /\ answer # None /\ ~restarted /\ ~degraded /\ SortedStably
    => LET matching == {i \in DOMAIN table.filters :
                           PatternMatches(table.filters[i].pattern, answer.host)}
       IN  IF matching = {} THEN answer.filter = None
           ELSE /\ answer.filter # None
                /\ answer.filter.priority = Min({table.filters[i].priority : i \in matching})

\* An index found in the cache is one of the active table: the branch of
\* MatchDpi for indices past FilterCount() is never taken (the hazard of its
\* comment H1), except after the generations have begun again.
HitInRange ==
    answer # None /\ answer.hit /\ ~restarted => answer.index \in DOMAIN table.filters

\* A hostname is in one slot of the cache at most, so that Insert never
\* leaves an older result where Lookup finds it.
OneSlotPerHost ==
    \A h \in Hosts :
        Cardinality({p \in Probes : LET entry == cache[SlotAt(h, p)]
                                   IN  entry.hash # 0 /\ KeyMatches(entry, h)}) <= 1

\* Every SPI group that declares a link is bound to a filter of the DPI group
\* it names, in the table published together with it (ResolveDpiLinks).
LinksBound ==
    \A g \in DOMAIN links :
        IF declared[g] = None THEN links[g] = None
        ELSE /\ table # None /\ links[g] \in DOMAIN table.filters
             /\ table.filters[links[g]].group = declared[g]

\* "Match hostname against DPI filters using Hyperscan. Returns
\* highest-priority (lowest value) match" (dpi_rule_engine.hpp:66): what
\* Match finds is a filter whose pattern matches.  The code does not keep this
\* (see the README) once a vector is too long for a stable sort: ids are given
\* out after the first sort, and looked up after the second.
ScanReturnsAMatch ==
    /\ answer # None /\ answer.filter # None /\ ~answer.hit
    => PatternMatches(answer.filter.pattern, answer.host)

=============================================================================
