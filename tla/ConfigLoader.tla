---------------------------- MODULE ConfigLoader ----------------------------
(***************************************************************************)
(* Which configurations LoadConfig accepts (dpdk_config_loader.cpp).  The  *)
(* parsers of YAML and BEVE are a library's: a configuration is what the   *)
(* file was parsed to, and None where that failed.  Strings that are only  *)
(* parsed (addresses, MAC addresses, numbers in hexadecimal) are values,   *)
(* None when malformed.                                                    *)
(***************************************************************************)
EXTENDS Naturals, Sequences, FiniteSets

CONSTANTS
    Cpus,            \* hardware_concurrency()
    MaxBuildMb,      \* the mebibytes a size_t holds
    None             \* an absent or malformed value

IsPowerOfTwo(n) == \E k \in 0 .. n : n = 2 ^ k

AclAlgorithms == {"default", "scalar", "sse", "avx2", "neon", "altivec",
                  "avx512x16", "avx512x32"}

\* HasValidIp of a field of a filter: absent, an address or a CIDR.
HasValidIp(address) ==
    \/ address = None
    \/ address.ip # None /\ (address.length = None \/ address.length <= 32)

ValidateFilterConfig(filter) ==
    /\ filter.protocol \in {"tcp", "udp"}
    /\ \E field \in {"source", "destination", "source_port", "destination_port"} :
          filter[field] # None
    /\ HasValidIp(filter.source) /\ HasValidIp(filter.destination)
    /\ filter.source_port # 0 /\ filter.destination_port # 0

\* The action may be a protocol, too.
ValidateFilterGroupConfig(group) ==
    /\ group.name # None
    /\ group.action \in {"tcp", "udp", "forward", "drop"}
    /\ group.filters # <<>>
    /\ \A f \in DOMAIN group.filters : ValidateFilterConfig(group.filters[f])

\* Checked whether L3 forwarding is enabled or not.
ValidateL3ScalarOptions(l3) ==
    /\ l3.lookup_method \in {"em", "lpm", "fib", "acl"}
    /\ l3.mode \in {"poll", "eventdev"}
    /\ l3.event_queue_schedule \in {"ordered", "atomic", "parallel"}
    /\ l3.event_eth_rx_queues > 0
    /\ l3.acl_classify_algorithm \in AclAlgorithms
    /\ l3.receive_burst_size \in 1 .. 64 /\ l3.transmit_burst_size \in 1 .. 64
    /\ l3.max_packet_length = 0 \/ l3.max_packet_length \in 64 .. 9600
    /\ l3.hash_entry_num # None

\* The inline routes and the destination MACs, well formed each.
ValidateL3Tables(l3) ==
    /\ \A route \in l3.ipv4_routes : route.ip # None /\ route.prefix_length <= 32
    /\ \A route \in l3.ipv6_routes : route.ip # None /\ route.prefix_length <= 128
    /\ \A destination \in l3.ethernet_destinations : destination.mac # None

\* An output port needs a destination MAC, but not to be an active port.
ValidateL3ForwardConfig(l3) ==
    /\ ValidateL3ScalarOptions(l3) /\ ValidateL3Tables(l3)
    /\ l3.enabled =>
          /\ l3.rule_files # {} \/ l3.ipv4_routes # {} \/ l3.ipv6_routes # {}
          /\ l3.mode = "poll" => l3.queue_mappings # {}
          /\ \A route \in l3.ipv4_routes : \E destination \in l3.ethernet_destinations :
                destination.port_id = route.output_port

\* Receive queues matter here when queue mode is forced only.
ValidateWorkerQueueConfig(c) ==
    /\ ~c.injector.enabled => c.receive_queues > 0 /\ c.transmit_queues > 0
    /\ c.worker_count > 0
    /\ c.packet_distribution \in {"auto", "queue", "flow_hash"}
    /\ IsPowerOfTwo(c.dispatch_queue_size)
    /\ c.worker_count <= c.dispatch_queue_size
    /\ ~c.injector.enabled =>
          /\ c.packet_distribution = "queue" => c.worker_count <= c.receive_queues
          /\ c.worker_count <= c.transmit_queues

ValidatePcapInjectorConfig(injector) ==
    /\ injector.enabled => injector.pcap_file # None
    /\ injector.inject_burst_size \in 1 .. 256

\* The links must resolve even if DPI is disabled.
ValidateDpiLinks(c) ==
    \A g \in DOMAIN c.filter_groups :
        LET link == c.filter_groups[g].dpi_filter_group
        IN  link = None \/ \E f \in DOMAIN c.dpi.filters : c.dpi.filters[f] = link

ValidateConfig(c) ==
    /\ ValidateL3ForwardConfig(c.l3_forward)
    /\ ValidateWorkerQueueConfig(c)
    /\ ValidatePcapInjectorConfig(c.injector)
    /\ c.filter_groups # <<>>
    /\ c.max_concurrent_flows > 0 /\ c.fragment_timeout_sec > 0
    /\ c.tcp_reassembly.enabled => 0 \notin c.tcp_reassembly.limits
    /\ c.flow_overflow_action \in {"drop", "reclassify"}
    /\ c.max_compilation_threads \in 1 .. Cpus /\ c.max_acl_build_threads \in 1 .. Cpus
    /\ c.acl_classify_algorithm \in AclAlgorithms
    /\ c.acl_build_max_size_mb <= MaxBuildMb
    /\ \A g \in DOMAIN c.filter_groups : ValidateFilterGroupConfig(c.filter_groups[g])
    /\ ValidateDpiLinks(c)

\* Rules from the file rule_path names take the place of those in the
\* configuration, each part only if there is something in it.
WithRuleStore(c) ==
    LET store == c.rule_store
    IN  IF c.rule_path = None THEN c
        ELSE [c EXCEPT
                !.filter_groups = IF store.filter_groups # <<>> THEN store.filter_groups ELSE @,
                !.dpi = IF store.dpi.enabled \/ store.dpi.filters # <<>>
                        THEN store.dpi ELSE @]

\* LoadConfig of a parsed file: the configuration, or None.
LoadConfig(c) ==
    IF /\ c # None
       /\ c.rule_path # None => c.rule_store # None
       /\ ValidateConfig(WithRuleStore(c))
    THEN WithRuleStore(c) ELSE None

=============================================================================
