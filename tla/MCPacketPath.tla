---------------------------- MODULE MCPacketPath ----------------------------
EXTENDS PacketPath, TLC

Rule(action, l7, linked) == [action |-> action, l7_required |-> l7, linked |-> linked]
Kind(name, key, spi, web, hash, route) ==
    [name |-> name, key |-> key, spi |-> spi, web |-> web, parses |-> TRUE,
     hash |-> hash, fragment_hash |-> 1, route |-> route, expired |-> FALSE]

\* A web flow that needs inspection and its answers, which no rule matches and
\* whose route is to a port that does not exist; a drop rule; a linked group;
\* ICMP, which the parser does not know; a packet whose TTL has run out.
Web == Kind("web", 1, Rule("forward", TRUE, FALSE), TRUE, 0, 1)
Answer == Kind("answer", 1, None, FALSE, 1, 7)
Blocked == Kind("blocked", 2, Rule("drop", FALSE, FALSE), FALSE, 0, 1)
Linked == Kind("linked", 3, Rule("forward", TRUE, TRUE), FALSE, 1, 2)
Icmp == [Kind("icmp", 4, None, FALSE, 0, 1) EXCEPT !.parses = FALSE]
Old == [Kind("old", 5, Rule("forward", FALSE, FALSE), FALSE, 1, 1) EXCEPT !.expired = TRUE]

Whole(kind) == [kind |-> kind, part |-> 0]
Fragments(kind) == {[kind |-> kind, part |-> p] : p \in {1, 2}}

\* Three ports, of which the last has no partner, and a stream that is
\* inspected while its flow is cached from the other side.
Inspecting ==
    [limit |-> 3, mode |-> "queue", workers |-> {0}, overflow_drop |-> TRUE,
     drop_unmatched |-> FALSE,
     dpi |-> TRUE, tcp_reassembly |-> TRUE, l3 |-> FALSE,
     ports |-> <<0, 1, 2>>, traffic |-> {Whole(Web), Whole(Answer)}]

\* Port 2 is masked out, but there is a route to it.
Routing ==
    [limit |-> 2, mode |-> "queue", workers |-> {0, 1}, overflow_drop |-> FALSE,
     drop_unmatched |-> TRUE,
     dpi |-> FALSE, tcp_reassembly |-> FALSE, l3 |-> TRUE, ports |-> <<0, 1>>,
     traffic |-> {Whole(Blocked), Whole(Linked)} \cup Fragments(Icmp)]

\* Fragments go to worker 1, the datagrams of Web belong to worker 0.
Dispatching ==
    [limit |-> 3, mode |-> "flow_hash", workers |-> {0, 1}, overflow_drop |-> TRUE,
     drop_unmatched |-> TRUE,
     dpi |-> FALSE, tcp_reassembly |-> FALSE, l3 |-> FALSE, ports |-> <<0>>,
     traffic |-> {Whole(Web)} \cup Fragments(Web)]
Deep ==
    [limit |-> 2, mode |-> "flow_hash", workers |-> {0, 1}, overflow_drop |-> FALSE,
     drop_unmatched |-> FALSE,
     dpi |-> TRUE, tcp_reassembly |-> FALSE, l3 |-> TRUE, ports |-> <<0, 1>>,
     traffic |-> {Whole(Linked), Whole(Old), Whole(Web), Whole(Answer)} \cup Fragments(Icmp)]

MCConfigs == {Inspecting, Routing, Dispatching, Deep}
=============================================================================
