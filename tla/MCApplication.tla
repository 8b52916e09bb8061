--------------------------- MODULE MCApplication ----------------------------
EXTENDS Application, TLC

Filter(source) == [protocol |-> "tcp", source |-> source, destination |-> None,
                   source_port |-> None, destination_port |-> 80]
Group(source, link) == [name |-> "web", action |-> "forward", filters |-> <<Filter(source)>>,
                        dpi_filter_group |-> link]
L3 == [enabled |-> TRUE, lookup_method |-> "lpm", mode |-> "poll",
       event_queue_schedule |-> "ordered", event_eth_rx_queues |-> 1,
       acl_classify_algorithm |-> "default", receive_burst_size |-> 32,
       transmit_burst_size |-> 32, max_packet_length |-> 0, hash_entry_num |-> 4,
       ipv4_routes |-> {[ip |-> 1, prefix_length |-> 24, output_port |-> 1]},
       ipv6_routes |-> {}, ethernet_destinations |-> {[port_id |-> 1, mac |-> 1]},
       rule_files |-> {}, queue_mappings |-> {1}]
Base == [l3_forward |-> L3, receive_queues |-> 2, transmit_queues |-> 2, port_mask |-> {0, 1},
         promiscuous |-> TRUE, worker_count |-> 2, packet_distribution |-> "auto",
         dispatch_queue_size |-> 4, injector |-> [enabled |-> FALSE, pcap_file |-> None,
         inject_burst_size |-> 32], filter_groups |-> <<Group(None, None)>>,
         dpi |-> [enabled |-> TRUE, filters |-> <<"video">>], max_concurrent_flows |-> 8,
         fragment_timeout_sec |-> 5, tcp_reassembly |-> [enabled |-> TRUE, limits |-> {1}],
         flow_overflow_action |-> "drop", max_compilation_threads |-> 1,
         max_acl_build_threads |-> 1, acl_classify_algorithm |-> "default",
         acl_build_max_size_mb |-> 0, rule_path |-> None, rule_store |-> None]
Store(groups, dpi) == [filter_groups |-> groups, dpi |-> dpi]
Address(length) == [ip |-> 1, length |-> length]

MCSettings ==
    [n \in {"base"} |-> Base]
    @@ [n \in {"garbage"} |-> None]
    @@ [n \in {"cidr"} |-> [Base EXCEPT !.filter_groups = <<Group(Address(24), None)>>]]
    @@ [n \in {"linked"} |-> [Base EXCEPT !.filter_groups = <<Group(Address(None), "video")>>]]
    @@ [n \in {"dangling"} |-> [Base EXCEPT !.filter_groups = <<Group(None, "audio")>>]]
    @@ [n \in {"store"} |-> [Base EXCEPT !.rule_path = "rules", !.filter_groups = <<>>,
            !.rule_store = Store(<<Group(None, "audio")>>,
                                 [enabled |-> TRUE, filters |-> <<"audio">>])]]
    @@ [n \in {"lost store"} |-> [Base EXCEPT !.rule_path = "rules"]]
    @@ [n \in {"old dpi"} |-> [Base EXCEPT !.rule_path = "rules",
            !.rule_store = Store(<<Group(None, "audio")>>, [enabled |-> FALSE, filters |-> <<>>])]]
    @@ [n \in {"queue"} |-> [Base EXCEPT !.packet_distribution = "queue"]]
    @@ [n \in {"flow_hash"} |-> [Base EXCEPT !.packet_distribution = "flow_hash"]]
    @@ [n \in {"one queue"} |-> [Base EXCEPT !.receive_queues = 1]]
    @@ [n \in {"forced one queue"} |->
            [Base EXCEPT !.receive_queues = 1, !.packet_distribution = "queue"]]
    @@ [n \in {"injector"} |-> [Base EXCEPT !.injector.enabled = TRUE, !.injector.pcap_file = 1,
            !.transmit_queues = 1]]
    @@ [n \in {"no ports"} |-> [Base EXCEPT !.port_mask = {}]]
    @@ [n \in {"wide mask"} |-> [Base EXCEPT !.port_mask = {0, 2}]]
    @@ [n \in {"odd ring"} |-> [Base EXCEPT !.dispatch_queue_size = 3]]
    @@ [n \in {"no mac"} |-> [Base EXCEPT !.l3_forward.ethernet_destinations = {}]]

Quiet == [setting |-> "base", commits |-> {"base", "linked", "dangling"}, max_commits |-> 2,
          max_starts |-> 2, max_crashes |-> 1, ports |-> {0, 1}, queues |-> 2, lcores |-> 2,
          rss |-> TRUE, pcap |-> FALSE, software |-> FALSE,
          events |-> {"interrupt", "crash", "snapshot", "timeout"}]

\* Start-up: every configuration, every failure, several kinds of ports.
Faulty == [Quiet EXCEPT !.commits = {}, !.max_commits = 0, !.max_starts = 1, !.max_crashes = 0,
                        !.events = {"interrupt", "eal", "mempool", "port", "promiscuous",
                                    "handlers", "compile", "ring", "frag", "launch"}]
StartUp ==
    [k \in (DOMAIN MCSettings) \X BOOLEAN \X BOOLEAN \X BOOLEAN \X {1, 2} |->
        [Faulty EXCEPT !.setting = k[1], !.rss = k[2], !.pcap = k[3], !.software = k[4],
                       !.lcores = k[5]]]
    @@ [k \in {"base", "injector"} \X {"no ports"} |->
            [Faulty EXCEPT !.setting = k[1], !.ports = {}]]
    @@ [k \in {<<"one queue">>} |-> [Faulty EXCEPT !.queues = 1]]

\* The control plane, with commits, crashes and restarts where start-up
\* succeeds, and every start-up.
MCSites == [k \in {<<>>} |-> Quiet] @@ StartUp

=============================================================================
