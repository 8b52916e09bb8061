---------------------------- MODULE RuleCompiler ----------------------------
(***************************************************************************)
(* CompileRuleTable as a process: parse threads that fill in the groups,   *)
(* batches of threads that build ACL contexts, the failures of each, the   *)
(* publication of the table and the classification of bursts with it.      *)
(*                                                                         *)
(* A library object (ACL context, FIB, member set) is named by the number  *)
(* of the compilation that created it, its kind and the chunk.  contexts   *)
(* holds the objects that have been created and not freed.                 *)
(***************************************************************************)
EXTENDS RuleEngine

CONSTANTS
    Configs,         \* the filter groups LoadConfig may return
    Packets,         \* metadata of the packets that may be received
    MaxBurst,        \* bound on the cache misses of one burst
    MaxCompiles,     \* bound on the number of compilations
    BurstCompiles,   \* bound on the compilations after which bursts are tried
    MemberAddsFail   \* may rte_member_add run out of room?

VARIABLES
    phase,           \* what the compiling thread is doing
    config,          \* config.filter_groups
    pending,         \* the groups each parse thread still has to parse
    failed,          \* has a parse thread returned an error?
    groups,          \* groups
    built,           \* what each chunk's build thread returned
    chunks,          \* acl_chunks
    table,           \* the compiled table that is not published yet
    active,          \* RuleTableManager: the published table,
    retired, prev_retired,   \* and what the two tables before it own
    contexts,        \* library objects that exist
    compiles,        \* number of compilations so far
    burst            \* misses of the last burst, with their possible results

work == <<config, pending, failed, groups, built, chunks, table>>
manager == <<active, retired, prev_retired>>
vars == <<phase, work, manager, contexts, compiles, burst>>

\* A default-constructed CompiledFilterGroup.
Blank == [name |-> None, precedence |-> 0, filters |-> <<>>]

\* What LoadConfig returns: groups and filters in vectors, fewer of them than
\* an index of userdata has room for.
IsGroup(group) ==
    /\ group = [name |-> group.name, precedence |-> group.precedence, filters |-> group.filters]
    /\ group.name # None /\ group.precedence \in Nat
    /\ group.filters \in Seq(Range(group.filters)) /\ Len(group.filters) < IndexBase
    /\ \A filter \in Range(group.filters) : IsFilter(filter)
    /\ CompileGroup(group) # None
ASSUME ConfigAssumption ==
    /\ MaxCompiles \in Nat /\ MaxBurst \in Nat
    /\ \A c \in Configs : /\ c \in Seq(Range(c)) /\ Len(c) < IndexBase
                          /\ \A group \in Range(c) : IsGroup(group)
    /\ \A p \in Packets : p.source \in Addresses /\ p.destination \in Addresses
    /\ \A n \in 1 .. MaxCompiles : None \notin {<<n, "fib", 0>>, <<n, "member", 0>>}

\* A table that owns nothing stands for a null pointer to one.
NoTable == [source |-> <<>>, groups |-> <<>>, chunks |-> <<>>, fib_ctx |-> None,
            member_ctx |-> None, member |-> None, has_wildcard_ip_rules |-> FALSE]

Objects == (1 .. MaxCompiles) \X {"acl", "fib", "member"} \X Nat

\* The library objects ~RuleTable frees.
Owned(t) ==
    {t.chunks[c].ctx : c \in DOMAIN t.chunks} \cup ({t.fib_ctx, t.member_ctx} \ {None})

TypeOK ==
    /\ phase \in {"idle", "parse", "build", "index", "publish"}
    /\ config \in Configs \cup {<<>>} /\ DOMAIN groups = DOMAIN config
    /\ failed \in BOOLEAN
    /\ \A w \in DOMAIN pending : pending[w] \subseteq DOMAIN config
    /\ \A c \in DOMAIN built : built[c] \in {"todo", "ok", "failed"}
    /\ contexts \subseteq Objects
    /\ Owned(table) \cup Owned(active) \cup retired \cup prev_retired \subseteq Objects
    /\ compiles \in 0 .. MaxCompiles
    /\ Len(burst) <= MaxBurst

Init ==
    /\ phase = "idle"
    /\ config = <<>> /\ pending = <<>> /\ failed = FALSE
    /\ groups = <<>> /\ built = <<>> /\ chunks = <<>> /\ table = NoTable
    /\ active = NoTable /\ retired = {} /\ prev_retired = {}
    /\ contexts = {} /\ compiles = 0 /\ burst = <<>>

\* CompileRuleTable or its caller returns: the locals are gone.
Return ==
    /\ phase' = "idle"
    /\ config' = <<>> /\ pending' = <<>> /\ failed' = FALSE
    /\ groups' = <<>> /\ built' = <<>> /\ chunks' = <<>> /\ table' = NoTable

-----------------------------------------------------------------------------
(* Parsing                                                                  *)

\* main, or MaybeReload on the main lcore, calls CompileRuleTable.
Compile ==
    /\ phase = "idle" /\ compiles < MaxCompiles
    /\ \E c \in Configs :
          /\ config' = c
          /\ groups' = [g \in DOMAIN c |-> Blank]
          /\ pending' = ParseRanges(c)
    /\ phase' = "parse" /\ compiles' = compiles + 1 /\ burst' = <<>>
    /\ UNCHANGED <<failed, built, chunks, table, manager, contexts>>

\* A parse thread gives up: its affinity cannot be set, before its first
\* group, or a filter does not compile.
ParseFails(w) ==
    /\ phase = "parse" /\ pending[w] # {}
    /\ \/ pending[w] = ParseRanges(config)[w]
       \/ \E filter \in Range(config[Min(pending[w])].filters) : ~Compiles(filter)
    /\ failed' = TRUE /\ pending' = [pending EXCEPT ![w] = {}]
    /\ UNCHANGED <<phase, config, groups, built, chunks, table, manager, contexts, compiles, burst>>

ParseGroup(w) ==
    LET g == Min(pending[w])
    IN  /\ phase = "parse" /\ pending[w] # {}
        /\ \A filter \in Range(config[g].filters) : Compiles(filter)
        /\ groups' = [groups EXCEPT ![g] = CompileGroup(config[g])]
        /\ pending' = [pending EXCEPT ![w] = @ \ {g}]
        /\ UNCHANGED <<phase, config, failed, built, chunks, table, manager,
                       contexts, compiles, burst>>

\* Every thread has returned: fail, or sort by precedence.  std::ranges::sort
\* leaves the order of equal groups open.  A surjection of the indices on
\* themselves is a permutation.
FinishParse ==
    /\ phase = "parse" /\ \A w \in DOMAIN pending : pending[w] = {}
    /\ IF failed \/ Filters(groups) = {}
       THEN Return
       ELSE /\ \E order \in Surjection(DOMAIN groups, DOMAIN groups) :
                  /\ \A g \in 2 .. Len(groups) :
                        groups[order[g - 1]].precedence <= groups[order[g]].precedence
                  /\ groups' = [g \in DOMAIN groups |-> groups[order[g]]]
            /\ phase' = "build"
            /\ built' = [c \in DOMAIN TaskSpecs(groups') |-> "todo"]
            /\ UNCHANGED <<config, pending, failed, chunks, table>>
    /\ UNCHANGED <<manager, contexts, compiles, burst>>

-----------------------------------------------------------------------------
(* Building                                                                 *)

\* The chunks that are built concurrently now.
Batch == Len(chunks) + 1 .. Min({Len(chunks) + BuildThreads, Len(built)})

Context(c) == <<compiles, "acl", c>>

\* compile_chunk_fn: on an error of the library it frees its context.
BuildChunk(c) ==
    /\ phase = "build" /\ c \in Batch /\ built[c] = "todo"
    /\ \/ built' = [built EXCEPT ![c] = "ok"] /\ contexts' = contexts \cup {Context(c)}
       \/ built' = [built EXCEPT ![c] = "failed"] /\ UNCHANGED contexts
    /\ UNCHANGED <<phase, config, pending, failed, groups, chunks, table, manager, compiles, burst>>

\* The rules of a chunk, as its context holds them.
ChunkRules(c) ==
    UNION {{BuildAclRule(groups[g].filters[f], g, f, groups[g].precedence) :
               f \in DOMAIN groups[g].filters} : g \in TaskSpecs(groups)[c]}

Chunk(c) == [ctx |-> Context(c), rules |-> ChunkRules(c)]

\* Mutant: on an error only the contexts of this batch are freed.
CollectBatchForgetsEarlier ==
    /\ phase = "build" /\ \A c \in Batch : built[c] # "todo"
    /\ IF \E c \in Batch : built[c] = "failed"
       THEN /\ contexts' = contexts \ {Context(c) : c \in Batch}
            /\ Return
       ELSE /\ chunks' = chunks \o [i \in 1 .. Cardinality(Batch) |-> Chunk(Len(chunks) + i)]
            /\ phase' = IF Len(chunks') = Len(built) THEN "index" ELSE "build"
            /\ UNCHANGED <<config, pending, failed, groups, built, table, contexts>>
    /\ UNCHANGED <<manager, compiles, burst>>

\* The futures of a batch are taken in order.  At the first error the
\* contexts collected so far are freed; what later futures of the batch
\* hold is not.
CollectBatch ==
    /\ phase = "build" /\ \A c \in Batch : built[c] # "todo"
    /\ IF \E c \in Batch : built[c] = "failed"
       THEN LET error == Min({c \in Batch : built[c] = "failed"})
            IN  /\ contexts' = contexts \ {Context(c) : c \in 1 .. error}
                /\ Return
       ELSE /\ chunks' = chunks \o [i \in 1 .. Cardinality(Batch) |-> Chunk(Len(chunks) + i)]
            /\ phase' = IF Len(chunks') = Len(built) THEN "index" ELSE "build"
            /\ UNCHANGED <<config, pending, failed, groups, built, table, contexts>>
    /\ UNCHANGED <<manager, compiles, burst>>

\* The move constructor: tss_ and has_wildcard_ip_rules_ are left out and
\* have their default values in the new table.
Move(new) == [new EXCEPT !.has_wildcard_ip_rules = FALSE]

\* FIB and member set, either of which may fail to be created, and the
\* table, which is moved into the result.
BuildIndexes ==
    /\ phase = "index"
    /\ \E fib_ctx \in {None, <<compiles, "fib", 0>>}, member_ctx \in {None, <<compiles, "member", 0>>},
          missing \in {{}} \cup {{key} : key \in MemberKeys(groups)} :
          /\ MemberKeys(groups) = {} => member_ctx = None
          /\ missing # {} => MemberAddsFail /\ member_ctx # None
          /\ contexts' = contexts \cup ({fib_ctx, member_ctx} \ {None})
          /\ table' = Move([source |-> config, groups |-> groups, chunks |-> chunks,
                            fib_ctx |-> fib_ctx, member_ctx |-> member_ctx,
                            member |-> IF member_ctx = None THEN None
                                       ELSE MemberKeys(groups) \ missing,
                            has_wildcard_ip_rules |-> HasWildcardRules(groups)])
    /\ phase' = "publish"
    /\ UNCHANGED <<config, pending, failed, groups, built, chunks, manager, compiles, burst>>

-----------------------------------------------------------------------------
(* Publishing and using the table                                           *)

\* Mutant: the table just retired is freed instead of the one before it.
PublishFreesRetired ==
    /\ phase = "publish"
    /\ active' = table
    /\ retired' = Owned(active) /\ prev_retired' = retired
    /\ contexts' = contexts \ retired
    /\ Return /\ UNCHANGED <<compiles, burst>>

\* The Pipeline constructor's Init, or MaybeReload's Swap.
Publish ==
    /\ phase = "publish"
    /\ active' = table
    /\ retired' = Owned(active) /\ prev_retired' = retired
    /\ contexts' = contexts \ prev_retired
    /\ Return /\ UNCHANGED <<compiles, burst>>

\* MaybeReload returns without publishing (DPI rules, links, timeout): the
\* new table is destroyed.
Discard ==
    /\ phase = "publish"
    /\ contexts' = contexts \ Owned(table)
    /\ Return /\ UNCHANGED <<manager, compiles, burst>>

\* A worker classifies the cache misses of a burst.  The threads above do
\* not touch the active table, so that it is enough to do so in between, and
\* once for each table.
ClassifyBurst ==
    /\ phase = "idle" /\ active # NoTable
    /\ burst = <<>> /\ compiles <= BurstCompiles
    /\ \E n \in 1 .. MaxBurst : \E packets \in [1 .. n -> Packets] :
          burst' = [i \in 1 .. n |-> [packet |-> packets[i],
                                      results |-> ClassifyMisses(active, packets)[i]]]
    /\ UNCHANGED <<phase, work, manager, contexts, compiles>>

Next ==
    \/ Compile \/ FinishParse \/ CollectBatch \/ BuildIndexes \/ Publish \/ Discard \/ ClassifyBurst
    \/ \E w \in DOMAIN pending : ParseFails(w) \/ ParseGroup(w)
    \/ \E c \in DOMAIN built : BuildChunk(c)

Spec == Init /\ [][Next]_vars

-----------------------------------------------------------------------------
(* Properties                                                               *)

\* Every group has exactly one parse thread: while the threads run, a group
\* is parsed, or exactly one thread still has to parse it, or a thread has
\* failed; and what is sorted afterwards has no group that nobody parsed.
PartitionExact ==
    /\ phase = "parse" =>
          \A g \in DOMAIN config :
             LET left == {w \in DOMAIN pending : g \in pending[w]}
             IN  IF groups[g] = Blank
                 THEN failed \/ Cardinality(left) = 1
                 ELSE left = {} /\ groups[g] = CompileGroup(config[g])
    /\ phase = "build" => Blank \notin Range(groups)

\* What the configuration means: does the packet have the filter's protocol
\* and the addresses and ports the filter names?
Covers(filter, packet) ==
    LET In(address, ip) ==
            \/ address = None
            \/ IsPlain(address) /\ ip = address.ip
            \/ IsCidr(address) /\ ip \div HostCount(address.length)
                                    = address.ip \div HostCount(address.length)
    IN  /\ filter.protocol = packet.protocol
        /\ In(filter.source, packet.source) /\ In(filter.destination, packet.destination)
        /\ filter.source_port \in {None, packet.source_port}
        /\ filter.destination_port \in {None, packet.destination_port}

\* The names of the groups the configuration prefers for a packet.
Preferred(source, packet) ==
    LET covering == {g \in DOMAIN source : \E f \in Range(source[g].filters) : Covers(f, packet)}
    IN  {source[g].name : g \in {g1 \in covering :
             \A g2 \in covering : source[g1].precedence <= source[g2].precedence}}

NamesOf(results) == {r.name : r \in results \ {None}}

\* "First group with any matching filter wins": whatever the chunking, the
\* sort of equal precedences and the library's choice among equal rules,
\* Match on a published table returns a group of the smallest precedence
\* among those the configuration gives the packet, and none only if there
\* is none.
MatchPicksPreferred ==
    phase = "idle" /\ active # NoTable =>
        \A packet \in Packets :
            LET preferred == Preferred(active.source, packet)
                results == Match(active, packet)
            IN  /\ NamesOf(results) \subseteq preferred
                /\ None \in results <=> preferred = {}

\* "Returns true in skip_acl[i] if packet i definitely does NOT match any
\* rule": the bulk path of a burst gives every packet what Match gives it.
MemberFilterSound ==
    \A i \in DOMAIN burst :
        i <= BulkMax => burst[i].results = Match(active, burst[i].packet)

\* The same for IPv4 packets and tables whose rules all have a destination
\* that the member set lists in full.
BulkAgreesWithMatch ==
    \A i \in DOMAIN burst :
        /\ i <= BulkMax /\ burst[i].packet.ip_version = 4
        /\ ~HasWildcardRules(active.groups)
        /\ active.member \in {None, MemberKeys(active.groups)}
        => burst[i].results = Match(active, burst[i].packet)

\* No library object is used or freed after it was freed: what the tables
\* and the chunks under construction own exists, and has one owner.
OwnedObjectsLive ==
    LET own == <<Owned(table), Owned(active), retired, prev_retired,
                 IF table = NoTable THEN {Context(c) : c \in DOMAIN chunks} ELSE {}>>
    IN  /\ UNION Range(own) \subseteq contexts
        /\ \A i, j \in DOMAIN own : i # j => own[i] \cap own[j] = {}

\* A failed compilation leaves at most the contexts behind that other threads
\* of its batch had built: never more than BuildThreads - 1 of them, none
\* with one build thread, and neither FIB nor member set.
LeakBounded ==
    phase = "idle" =>
        LET lost == contexts \ (Owned(active) \cup retired \cup prev_retired)
        IN  /\ \A o \in lost : o[2] = "acl"
            /\ \A n \in 1 .. compiles :
                  Cardinality({o \in lost : o[1] = n}) < BuildThreads

=============================================================================
