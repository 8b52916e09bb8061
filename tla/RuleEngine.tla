----------------------------- MODULE RuleEngine -----------------------------
(***************************************************************************)
(* The algorithms of the SPI rule engine (spi_rule_engine.cpp): compiling  *)
(* filters into ACL rules, matching a packet, the member filter, how a     *)
(* worker classifies the flow-cache misses of a burst (FinalizePackets,    *)
(* phases 1 to 2), and how CompileRuleTable divides its work.              *)
(*                                                                         *)
(* Groups and filters are numbered from 1.  An address is a number of      *)
(* AddressBits bits.  tss_ is not modelled: the move constructor leaves it *)
(* out, so that ProbeTss of a published table returns at its first test.   *)
(***************************************************************************)
EXTENDS Integers, Sequences, FiniteSetsExt

CONSTANTS
    AddressBits,     \* 32 in the code
    LongPrefix,      \* shortest prefix expanded in the member filter: 20
    IndexBase,       \* userdata packs two indices below this: 2^16
    ChunkGroups,     \* kAclMaxCategoriesChunk: 256
    BulkMax,         \* packets a bulk call looks at: 64
    ParseThreads, BuildThreads,      \* after clamping to the CPUs
    None             \* an absent field, a null pointer, no match

ASSUME ThreadAssumption == ParseThreads \in Nat \ {0} /\ BuildThreads \in Nat \ {0}

-----------------------------------------------------------------------------
(* Addresses and filters                                                    *)

\* Number of addresses under a prefix.
HostCount(length) == 2 ^ (AddressBits - length)

ASSUME EngineAssumption ==
    /\ {ChunkGroups, IndexBase} \subseteq Nat \ {0} /\ AddressBits \in Nat
    /\ BulkMax \in Nat
    /\ \A length \in 0 .. AddressBits : HostCount(length) \in Nat \ {0}
    /\ HostCount(AddressBits) = 1
    /\ None \notin [ip : Nat, length : Nat]

\* ParseCidr: the address with the host bits cleared.
Network(address, length) == address - (address % HostCount(length))

\* What the configuration says of an address: absent, plain or CIDR.
IsPlain(address) == address # None /\ address.length = None
IsCidr(address) == address # None /\ address.length # None

\* An address or a filter, as LoadConfig returns it.
Addresses == 0 .. HostCount(0) - 1
IsAddress(address) ==
    address # None =>
        /\ address = [ip |-> address.ip, length |-> address.length]
        /\ address.ip \in Addresses
        /\ address.length # None => address.length \in 0 .. AddressBits
IsFilter(filter) ==
    /\ filter = [protocol |-> filter.protocol,
                 source |-> filter.source, destination |-> filter.destination,
                 source_port |-> filter.source_port,
                 destination_port |-> filter.destination_port]
    /\ IsAddress(filter.source) /\ IsAddress(filter.destination)

\* CompileFilter fails on an unknown protocol and on a source in CIDR form.
Compiles(filter) ==
    /\ filter.protocol \in {"tcp", "udp"}
    /\ ~IsCidr(filter.source)

\* CompileFilter: a destination CIDR keeps only its network.
CompileFilter(filter) ==
    IF IsCidr(filter.destination)
    THEN [filter EXCEPT !.destination.ip = Network(@, filter.destination.length)]
    ELSE filter

CompileGroup(group) ==
    [group EXCEPT !.filters = [f \in DOMAIN @ |-> CompileFilter(@[f])]]

-----------------------------------------------------------------------------
(* ACL rules                                                                *)

\* userdata of a rule: group and filter index in one 32-bit word.
Userdata(g, f) == ((g * IndexBase) % (IndexBase * IndexBase)) + (f % IndexBase)

\* A source or destination field: value and prefix length, 0 for any.
AclAddress(address) ==
    CASE IsCidr(address)  -> [ip |-> address.ip, length |-> address.length]
      [] IsPlain(address) -> [ip |-> address.ip, length |-> AddressBits]
      [] OTHER            -> [ip |-> 0, length |-> 0]

\* BuildAclRule.  RTE_ACL_MAX_PRIORITY - precedence is written -precedence.
BuildAclRule(filter, g, f, precedence) ==
    [userdata |-> Userdata(g, f), priority |-> -precedence,
     protocol |-> filter.protocol,
     source |-> AclAddress(filter.source), destination |-> AclAddress(filter.destination),
     source_port |-> filter.source_port, destination_port |-> filter.destination_port]

\* The library: does a rule match the five fields of a packet?
AclRuleMatches(rule, packet) ==
    LET Under(field, address) ==
            field.length = 0 \/ Network(address, field.length) = Network(field.ip, field.length)
        Port(field, port) == field = None \/ field = port
    IN  /\ rule.protocol = packet.protocol
        /\ Under(rule.source, packet.source) /\ Under(rule.destination, packet.destination)
        /\ Port(rule.source_port, packet.source_port)
        /\ Port(rule.destination_port, packet.destination_port)

\* The library: rte_acl_classify returns the userdata of a matching rule of
\* the highest priority (which of several is its choice), or 0.
AclClassify(rules, packet) ==
    LET matching == {r \in rules : AclRuleMatches(r, packet)}
        best == {r \in matching : \A other \in matching : other.priority <= r.priority}
    IN  IF matching = {} THEN {0} ELSE {r.userdata : r \in best}

-----------------------------------------------------------------------------
(* Matching                                                                 *)

\* FilterMatchesPortProtocol
FilterMatchesPortProtocol(filter, packet) ==
    /\ filter.protocol = packet.protocol
    /\ filter.destination_port \in {None, packet.destination_port}
    /\ filter.source_port \in {None, packet.source_port}

\* The group a chunk's userdata stands for, if its filter agrees.
Accept(table, userdata, packet) ==
    LET g == userdata \div IndexBase
        f == userdata % IndexBase
    IN  IF /\ userdata # 0
           /\ g \in DOMAIN table.groups
           /\ f \in DOMAIN table.groups[g].filters
           /\ FilterMatchesPortProtocol(table.groups[g].filters[f], packet)
        THEN table.groups[g] ELSE None

\* Mutant: the chunks are searched last to first.
MatchBackwards(table, packet) ==
    LET From[c \in 0 .. Len(table.chunks)] ==
            IF c = 0 THEN {None}
            ELSE UNION {IF Accept(table, u, packet) = None THEN From[c - 1]
                        ELSE {Accept(table, u, packet)} :
                        u \in AclClassify(table.chunks[c].rules, packet)}
    IN  From[Len(table.chunks)]

\* Match: the results the first chunk that accepts the packet may give.
Match(table, packet) ==
    LET From[c \in 1 .. Len(table.chunks) + 1] ==
            IF c > Len(table.chunks) THEN {None}
            ELSE UNION {IF Accept(table, u, packet) = None THEN From[c + 1]
                        ELSE {Accept(table, u, packet)} :
                        u \in AclClassify(table.chunks[c].rules, packet)}
    IN  From[1]

\* MatchBulk looks at the first BulkMax packets only.
MatchBulk(table, packets) ==
    [i \in DOMAIN packets |-> IF i <= BulkMax THEN Match(table, packets[i]) ELSE {None}]

-----------------------------------------------------------------------------
(* The member filter                                                        *)

\* The key of a filter or a packet; port 0 stands for any.
MemberKey(ip, port, protocol) == <<ip, IF port = None THEN 0 ELSE port, protocol>>

\* Does the filter constrain the destination to addresses it can list?
Listable(filter) ==
    \/ IsPlain(filter.destination)
    \/ IsCidr(filter.destination) /\ filter.destination.length >= LongPrefix

Filters(groups) == UNION {Range(groups[g].filters) : g \in DOMAIN groups}
ListableFilters(groups) == {filter \in Filters(groups) : Listable(filter)}

\* Mutant: a CIDR destination is added by its network address only.
MemberKeysOfNetworks(groups) ==
    {MemberKey(f.destination.ip, f.destination_port, f.protocol) :
        f \in ListableFilters(groups)}

\* The keys CompileRuleTable adds: every host of a listable destination.
MemberKeys(groups) ==
    UNION {{MemberKey(ip, f.destination_port, f.protocol) :
                ip \in f.destination.ip ..
                       f.destination.ip + (IF IsCidr(f.destination)
                                           THEN HostCount(f.destination.length) ELSE 1) - 1} :
           f \in ListableFilters(groups)}

\* BuildTssFromGroups: is there a destination the member filter leaves out?
HasWildcardRules(groups) == \E f \in Filters(groups) : ~Listable(f)

\* MemberFilterBulk, for one packet of the first BulkMax: is it in neither
\* with its port nor with port 0?  An IPv6 packet has the address 0 there.
SkipAcl(table, packet) ==
    LET ip == IF packet.ip_version = 4 THEN packet.destination ELSE 0
    IN  /\ table.member # None /\ ~table.has_wildcard_ip_rules
        /\ MemberKey(ip, packet.destination_port, packet.protocol) \notin table.member
        /\ MemberKey(ip, None, packet.protocol) \notin table.member

\* Phases 1 to 2 of FinalizePackets on the cache misses of a burst: the
\* possible results of each.  FibLookupBulk never reports a match.
ClassifyMisses(table, packets) ==
    LET skip == {i \in DOMAIN packets : i <= BulkMax /\ SkipAcl(table, packets[i])}
        Rank(i) == Cardinality((1 .. i) \ skip)
        left == [r \in 1 .. Cardinality(DOMAIN packets \ skip) |->
                    packets[CHOOSE i \in DOMAIN packets \ skip : Rank(i) = r]]
    IN  [i \in DOMAIN packets |->
            IF i \in skip THEN {None} ELSE MatchBulk(table, left)[Rank(i)]]

-----------------------------------------------------------------------------
(* Partitioning the groups among the parse threads                          *)

\* Filters in the groups after the first `from` up to the first `to`.
RuleCount(config, from, to) ==
    SumFunctionOnSet([g \in DOMAIN config |-> Len(config[g].filters)], from + 1 .. to)

\* Where the worker that starts after group `next` stops.
RangeEnd(config, next, workers_left) ==
    LET max_end == Len(config) - (workers_left - 1)
        rules_left == RuleCount(config, next, Len(config))
        target == (rules_left + workers_left - 1) \div workers_left
        Stops(end) == \/ end = max_end
                      \/ /\ RuleCount(config, next, end) # 0
                         /\ RuleCount(config, next, end + 1) > target
    IN  Max({next + 1, Min({end \in next .. max_end : Stops(end)})})

\* Mutant: every worker takes the same number of groups, rounded down.
ParseRangesEqual(config) ==
    LET workers == Min({ParseThreads, Len(config)})
        share == Len(config) \div Max({workers, 1})
    IN  [w \in 1 .. workers |-> (w - 1) * share + 1 .. w * share]

\* Mutant: the same, rounded up.
ParseRangesRoundedUp(config) ==
    LET workers == Min({ParseThreads, Len(config)})
        share == Len(config) \div Max({workers, 1}) + 1
    IN  [w \in 1 .. workers |-> (w - 1) * share + 1 .. w * share]

\* parse_ranges: the groups each worker parses.
ParseRanges(config) ==
    LET workers == Min({ParseThreads, Len(config)})
        End[w \in 0 .. workers] ==
            IF w = 0 THEN 0 ELSE RangeEnd(config, End[w - 1], workers - w + 1)
    IN  [w \in 1 .. workers |-> End[w - 1] + 1 .. End[w]]

\* task_specs: the ranges of groups that get an ACL context.
TaskSpecs(groups) ==
    LET Spec(c) == (c - 1) * ChunkGroups + 1 .. Min({c * ChunkGroups, Len(groups)})
        count == (Len(groups) + ChunkGroups - 1) \div ChunkGroups
        used == {c \in 1 .. count : \E g \in Spec(c) : groups[g].filters # <<>>}
    IN  [i \in 1 .. Cardinality(used) |->
            Spec(CHOOSE c \in used : Cardinality({d \in used : d <= c}) = i)]

=============================================================================
