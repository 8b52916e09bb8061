--------------------------- MODULE MCRuleCompiler ---------------------------
(* Rule compiler instances: addresses of three bits, prefixes from two bits *)
(* on are listed in the member set.                                         *)
EXTENDS RuleCompiler

AnyIp == None
Plain(ip) == [ip |-> ip, length |-> None]
Cidr(ip, length) == [ip |-> ip, length |-> length]
Filter(protocol, source, destination, port) ==
    [protocol |-> protocol, source |-> source, destination |-> destination,
     source_port |-> None, destination_port |-> port]
Group(name, precedence, filters) ==
    [name |-> name, precedence |-> precedence, filters |-> filters]

Web == Filter("tcp", AnyIp, Plain(5), 80)
Net == Filter("tcp", AnyIp, Cidr(7, 2), None)
HalfNet == Filter("tcp", AnyIp, Cidr(6, 1), 80)
Host == Filter("tcp", Plain(1), Plain(5), None)
Dns == [Filter("udp", AnyIp, Plain(4), 53) EXCEPT !.source_port = 80]
Everywhere == Filter("tcp", AnyIp, AnyIp, 80)

Listed == <<Group("net", 2, <<Net>>), Group("web", 1, <<Dns, Web>>), Group("host", 1, <<Host>>)>>
Wildcards == <<Group("any", 3, <<Everywhere>>), Group("none", 2, <<>>), Group("web", 1, <<Web>>)>>
HalfNets == <<Group("host", 1, <<Host>>), Group("half", 0, <<HalfNet, Dns>>),
              Group("web", 2, <<Web>>), Group("net", 3, <<Net>>), Group("dns", 4, <<Dns>>)>>
SourceCidr == <<Group("web", 1, <<Web>>), Group("bad", 2, <<[Net EXCEPT !.source = Cidr(0, 1)]>>)>>
Icmp == <<Group("bad", 1, <<[Net EXCEPT !.protocol = "icmp"]>>)>>

MCConfigs == {Listed, Wildcards, HalfNets, SourceCidr, Icmp, <<>>}
WildcardConfigs == {Wildcards}

Packet(protocol, version, source, destination, port) ==
    [protocol |-> protocol, ip_version |-> version, source |-> source,
     destination |-> destination, source_port |-> 80, destination_port |-> port]

MCPackets ==
    {Packet("tcp", 4, 1, 5, 80), Packet("tcp", 4, 0, 4, 53), Packet("tcp", 4, 1, 7, 80),
     Packet("udp", 4, 0, 4, 53), Packet("tcp", 6, 1, 5, 80)}
WebPackets == {p \in MCPackets : p.ip_version = 4 /\ p.destination_port = 80}
=============================================================================
