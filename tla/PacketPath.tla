----------------------------- MODULE PacketPath -----------------------------
(***************************************************************************)
(* What the workers do with every packet (spi_pipeline.cpp): receive       *)
(* bursts, reassemble fragments, look up the flow cache, classify, forward *)
(* or drop, transmit, count.  Both distribution modes: in queue mode a     *)
(* worker polls its queue of every port; in flow_hash mode the main lcore  *)
(* polls and dispatches to one ring per worker.                            *)
(*                                                                         *)
(* Packet i is carried by mbuf i.  Its kind says what the rest of the      *)
(* system makes of it: SPI rules, key, hash and route are fixed by it, as  *)
(* between reloads.  The flow cache is a map with a capacity, without      *)
(* purges; FlowTable models it in detail, as TcpReassembly does streams    *)
(* and DpiEngine hostnames.                                                *)
(***************************************************************************)
EXTENDS Integers, Sequences, Functions, FiniteSetsExt

CONSTANTS
    PortCount,       \* GetPortCount(): active or not
    Configs,         \* configurations, with workers, active ports, traffic
    BurstSize,       \* burst_size
    StagingSize,     \* kMaxBurstCapacity
    RingSize,        \* dispatch_queue_size, as usable entries
    MaxFlows,        \* capacity of the flow cache
    FlushInterval,   \* kAtomicFlushBurstInterval
    None             \* no port, no rule, a null pointer

\* What the caller of the workers makes sure of: burst_size is clamped to the
\* capacity of the buffers, workers are numbered, active ports are distinct
\* and there is one.
ASSUME PathAssumption ==
    /\ PortCount \in Nat /\ StagingSize \in Nat /\ BurstSize \in 1 .. StagingSize
    /\ RingSize \in Nat /\ MaxFlows \in Nat /\ FlushInterval \in Nat \ {0}
    /\ None \notin Nat /\ None \notin {"forward", "drop"}
    /\ \A c \in Configs :
        /\ c.mode \in {"queue", "flow_hash"} /\ c.limit \in Nat
        /\ IsFiniteSet(c.workers) /\ c.workers # {}
        /\ c.workers = 0 .. Cardinality(c.workers) - 1
        /\ c.ports \in Seq(0 .. PortCount - 1) /\ IsInjective(c.ports) /\ c.ports # <<>>
        /\ \A a \in c.traffic :
            /\ a.part \in 0 .. 2 /\ a.kind.parses \in BOOLEAN
            /\ a.kind.hash \in Nat /\ a.kind.fragment_hash \in Nat
            /\ a.kind.spi # None => a.kind.spi.action \in {"forward", "drop"}

VARIABLES
    cfg,             \* the configuration
    quit,            \* force_quit
    mbufs,           \* mbuf of every packet received so far, see Receive
    sent,            \* packets handed to the NIC
    rings,           \* worker -> its dispatch ring
    next,            \* worker -> position in Ports it polls next
    burst,           \* worker -> packets of the burst not dealt with yet
    frags,           \* worker -> fragments its ip_frag_tbl holds
    staged,          \* worker -> port -> transmit buffer
    flows,           \* the flow cache: key -> action
    count,           \* worker -> burst_counters
    pending,         \* worker -> pending_burst
    unflushed,       \* worker -> bursts_since_flush
    shared,          \* counters_
    classified       \* <<kind, port, worker>> of the packets classified

memory == <<mbufs, sent>>
counting == <<count, pending, unflushed, shared>>
vars == <<cfg, quit, memory, rings, next, burst, frags, staged, flows, counting, classified>>

Counters == {"received", "transmitted", "parsed", "matched", "unknown", "malformed",
             "dropped", "dropped_by_rule", "flow_cache_hits", "flow_table_full"}
Zero == [c \in Counters |-> 0]

\* Increment the counters named in a sequence.
Bump(counters, names) ==
    [c \in Counters |-> counters[c] + Cardinality({i \in DOMAIN names : names[i] = c})]
Add(a, b) == [c \in Counters |-> a[c] + b[c]]

\* The workers, GetActivePorts(), and what may arrive: a kind and a part, see Received.
Workers == cfg.workers
Ports == cfg.ports
PortSet == Range(Ports)
Packets == cfg.traffic
MaxPackets == cfg.limit         \* a bound on the packets that arrive
Polled == Len(Ports) + 1        \* next, when every port has been polled

-----------------------------------------------------------------------------
(* Mbufs, parsing and reassembly                                            *)

\* An mbuf as received: its kind, which fragment it is (0: a whole packet, 1:
\* the first, 2: the last), the port, the mbufs that go when it is freed, and
\* how often it has been freed.
Received(kind, part, port, m) ==
    [kind |-> kind, part |-> part, port |-> port, chain |-> {m}, frees |-> 0]

\* rte_pktmbuf_free of a set of packets.
Free(ms, packets) ==
    [m \in DOMAIN ms |->
        [ms[m] EXCEPT !.frees = @ + Cardinality({p \in packets : m \in ms[p].chain})]]

\* ParsePacketOwned of mbuf m with the fragment table of a worker: the packet
\* afterwards (None when the table has it), whether there is metadata, the
\* table and the mbufs.  The library completes a datagram by chaining the
\* other fragments to the first, and frees everything on a duplicate.
Parse(ms, table, m) ==
    LET siblings == {f \in table : ms[f].kind = ms[m].kind}
        all == siblings \cup {m}
        parts == {ms[f].part : f \in siblings}
        head == CHOOSE f \in all : ms[f].part = 1
    IN  CASE ms[m].part = 0 ->
                [packet |-> m, parsed |-> ms[m].kind.parses, table |-> table, mbufs |-> ms]
          [] ms[m].part # 0 /\ parts = {} ->
                [packet |-> None, parsed |-> FALSE, table |-> table \cup {m}, mbufs |-> ms]
          [] ms[m].part # 0 /\ ms[m].part \in parts ->
                [packet |-> None, parsed |-> FALSE, table |-> table \ all, mbufs |-> Free(ms, all)]
          [] OTHER ->
                [packet |-> head, parsed |-> ms[m].kind.parses, table |-> table \ all,
                 mbufs |-> [ms EXCEPT ![head].part = 0, ![head].chain = all]]

\* An element of a burst: what DropPacket or EnqueuePacket will be given, the
\* packet parsed, whether it was, and the action of its flow if cached.  In
\* flow_hash mode a packet is parsed when its turn comes.
Entry(pointer, packet, parsed) ==
    [pointer |-> pointer, packet |-> packet, parsed |-> parsed, hit |-> None]

\* Mutant: a packet the fragment table keeps stays in the burst.
ParseReceivedKeepsWaiting(st, m) ==
    LET p == Parse(st.mbufs, st.table, m)
    IN  [st EXCEPT !.mbufs = p.mbufs, !.table = p.table,
                   !.burst = Append(@, Entry(IF p.parsed THEN p.packet ELSE m, p.packet, p.parsed)),
                   !.count = Bump(@, IF p.parsed THEN <<"parsed">> ELSE <<"malformed">>)]

\* ParseReceivedPackets, one packet.  received_packets[i] becomes the
\* reassembled packet only when that is parsed; otherwise it still points to
\* the fragment that came last, and the head of the chain may be lost.
ParseReceived(st, m) ==
    LET p == Parse(st.mbufs, st.table, m)
    IN  IF p.packet = None THEN [st EXCEPT !.mbufs = p.mbufs, !.table = p.table]
        ELSE [st EXCEPT !.mbufs = p.mbufs, !.table = p.table,
                        !.burst = Append(@, Entry(IF p.parsed THEN p.packet ELSE m,
                                                  p.packet, p.parsed)),
                        !.count = Bump(@, IF p.parsed THEN <<"parsed">> ELSE <<"malformed">>)]

\* Its loop over a burst of k packets, the mbufs n + 1 to n + k.
ParseBurst(st, n, k) ==
    LET Parsed[i \in 0 .. k] == IF i = 0 THEN st ELSE ParseReceived(Parsed[i - 1], n + i)
    IN  Parsed[k]

-----------------------------------------------------------------------------
(* Classification                                                           *)

Unmatched == [matched |-> FALSE, action |-> "forward", defer |-> FALSE, cache |-> None,
              bumps |-> <<>>]
Decided(action, cache, bumps) ==
    [matched |-> TRUE, action |-> action, defer |-> FALSE, cache |-> cache, bumps |-> bumps]

\* Mutant: the ceiling of the flow cache is not looked at.
InsertableAlways(key) == TRUE

\* Is there room for a flow?  One that is there is updated.
Insertable(key) == key \in DOMAIN flows \/ Cardinality(DOMAIN flows) < MaxFlows

\* Insert of a verdict, and the overflow policy when there is no room.  What
\* to do under "reclassify" differs from one caller to the next.
Cache(key, action, bumps, reclassify) ==
    CASE Insertable(key) -> Decided(action, action, bumps \o <<"matched">>)
      [] ~Insertable(key) /\ cfg.overflow_drop ->
            Decided("drop", None, <<"flow_table_full", "matched">>)
      [] OTHER -> reclassify

\* What the inspection of a TCP stream to port 80 or 443 may come to: the
\* reassembler refuses it, there is no hostname yet, MatchDpi finds a filter
\* or not.
Streams == IF cfg.tcp_reassembly THEN {"refused", "waiting", "filter", "none"}
           ELSE {"filter", "none"}

\* TryDpiClassify
TryDpiClassify(kind, stream) ==
    LET spi == kind.spi
        full == [Unmatched EXCEPT !.bumps = <<"flow_table_full">>]
    IN  CASE ~cfg.dpi -> Unmatched
          [] cfg.dpi /\ spi # None /\ (spi.action = "drop" \/ ~spi.l7_required) -> Unmatched
          [] cfg.dpi /\ spi # None /\ spi.action = "forward" /\ spi.l7_required /\ spi.linked ->
                Cache(kind.key, spi.action, <<>>, full)
          [] OTHER ->
                CASE ~kind.web \/ stream = "none" -> Unmatched
                  [] kind.web /\ stream = "refused" -> Decided("drop", None, <<"matched">>)
                  [] kind.web /\ stream = "waiting" -> [Unmatched EXCEPT !.defer = TRUE]
                  [] kind.web /\ stream = "filter" -> Cache(kind.key, "forward", <<>>, full)

\* Mutant: a packet that waits for its hostname is not counted as matched.
FinalizeMissUncounted(kind, stream) ==
    LET dpi == TryDpiClassify(kind, stream)
        unknown == [Unmatched EXCEPT !.bumps = dpi.bumps \o <<"unknown">>]
    IN  CASE dpi.matched -> dpi
          [] ~dpi.matched /\ kind.spi = None -> unknown
          [] ~dpi.matched /\ kind.spi # None /\ dpi.defer -> Decided(kind.spi.action, None, <<>>)
          [] OTHER -> Cache(kind.key, kind.spi.action, dpi.bumps, unknown)

\* Phase 3 of FinalizePackets for a packet whose flow is not cached; the end
\* of ClassifyPacket and MakeMatched do the same.
FinalizeMiss(kind, stream) ==
    LET dpi == TryDpiClassify(kind, stream)
        unknown == [Unmatched EXCEPT !.bumps = dpi.bumps \o <<"unknown">>]
    IN  CASE dpi.matched -> dpi
          [] ~dpi.matched /\ kind.spi = None -> unknown
          [] ~dpi.matched /\ kind.spi # None /\ dpi.defer ->
                Decided(kind.spi.action, None, <<"matched">>)
          [] OTHER ->
                Cache(kind.key, kind.spi.action, dpi.bumps,
                      [unknown EXCEPT !.bumps = <<"flow_table_full">> \o @])

\* ClassifyPacket takes a link first, whatever the action and l7_required.
ClassifyMiss(kind, stream) ==
    IF cfg.dpi /\ kind.spi # None /\ kind.spi.linked
    THEN Cache(kind.key, kind.spi.action, <<>>,
               Decided(kind.spi.action, None, <<"flow_table_full", "matched">>))
    ELSE FinalizeMiss(kind, stream)

\* Mutant: a cached flow is forwarded whatever its action.
FinalizeHitForwards(action) == Decided("forward", None, <<"flow_cache_hits">>)

\* A flow that is cached.
FinalizeHit(action) == Decided(action, None, <<"flow_cache_hits">>)

-----------------------------------------------------------------------------
(* Forwarding                                                               *)

\* Mutant: a port without a partner sends to the first port.
GetTransmitPortFirst(port) ==
    LET i == CHOOSE j \in DOMAIN Ports : Ports[j] = port
    IN  CASE i % 2 = 1 /\ i < Len(Ports) -> Ports[i + 1]
          [] i % 2 = 0                   -> Ports[i - 1]
          [] OTHER                       -> Ports[1]

\* GetTransmitPort: ports are paired in the order of the active list.
GetTransmitPort(port) ==
    LET i == CHOOSE j \in DOMAIN Ports : Ports[j] = port
    IN  CASE i % 2 = 1 /\ i < Len(Ports) -> Ports[i + 1]
          [] i % 2 = 0                   -> Ports[i - 1]
          [] OTHER                       -> port

\* ResolveTransmitPort
ResolveTransmitPort(kind, parsed, port) ==
    CASE ~cfg.l3 -> GetTransmitPort(port)
      [] cfg.l3 /\ parsed /\ kind.route # port -> kind.route
      [] OTHER -> None

\* PrepareAndRewriteHeaders fails in L3 mode when the TTL has run out.
PrepareAndRewriteHeaders(kind) == ~(cfg.l3 /\ kind.expired)

\* ApplyForwardDecision, and ForwardPacket after classification: where the
\* packet goes (a port, or None: DropPacket) and the counters.
Decision(kind, verdict, parsed, port) ==
    LET out == ResolveTransmitPort(kind, parsed, port)
        dropped == verdict.bumps \o <<"dropped">>
    IN  CASE verdict.matched /\ verdict.action = "drop" ->
                [port |-> None, bumps |-> dropped \o <<"dropped_by_rule">>]
          [] ~verdict.matched /\ cfg.drop_unmatched -> [port |-> None, bumps |-> dropped]
          [] OTHER -> IF out \in 0 .. PortCount - 1 /\ PrepareAndRewriteHeaders(kind)
                      THEN [port |-> out, bumps |-> verdict.bumps]
                      ELSE [port |-> None, bumps |-> dropped]

\* Free or stage a packet of worker w, and count.
Finish(w, pointer, kind, verdict, parsed, port, ms) ==
    LET d == Decision(kind, verdict, parsed, port)
    IN  /\ mbufs' = IF d.port = None THEN Free(ms, {pointer}) ELSE ms
        /\ staged' = IF d.port = None THEN staged
                     ELSE [staged EXCEPT ![w][d.port] = Append(@, pointer)]
        /\ count' = [count EXCEPT ![w] = Bump(@, d.bumps)]

\* Insert of the verdict into the flow cache.
Remember(kind, verdict) ==
    flows' = IF verdict.cache = None THEN flows
             ELSE [k \in DOMAIN flows \cup {kind.key} |->
                      IF k = kind.key THEN verdict.cache ELSE flows[k]]

-----------------------------------------------------------------------------
(* Actions                                                                  *)

Init ==
    /\ cfg \in Configs /\ quit = FALSE
    /\ mbufs = <<>> /\ sent = {} /\ classified = {}
    /\ rings = [w \in Workers |-> <<>>]
    /\ next = [w \in Workers |-> 1]
    /\ burst = [w \in Workers |-> <<>>]
    /\ frags = [w \in Workers |-> {}]
    /\ staged = [w \in Workers |-> [p \in 0 .. PortCount - 1 |-> <<>>]]
    /\ flows = [k \in {} |-> None]
    /\ count = [w \in Workers |-> Zero] /\ pending = [w \in Workers |-> Zero]
    /\ unflushed = [w \in Workers |-> 0] /\ shared = Zero

\* The packets a port may deliver in one burst, as mbufs.
Arrivals(port) ==
    UNION {{[i \in 1 .. n |-> Received(a[i].kind, a[i].part, port, Len(mbufs) + i)] :
               a \in [1 .. n -> Packets]} :
           n \in 0 .. Min({BurstSize, MaxPackets - Len(mbufs)})}

\* BulkFlowLookup, one element of the burst: the action of its flow.
BulkFlowLookup(ms, e) ==
    IF e.parsed /\ ms[e.packet].kind.key \in DOMAIN flows
    THEN flows[ms[e.packet].kind.key] ELSE None

\* ProcessPortBurst up to BulkFlowLookup, in queue mode: worker w polls the
\* next port, parses what it gets and looks up all the flows.
Poll(w) ==
    /\ cfg.mode = "queue" /\ next[w] \in DOMAIN Ports /\ burst[w] = <<>>
    /\ next[w] = 1 => ~quit
    /\ \E arrivals \in Arrivals(Ports[next[w]]) :
        LET n == Len(mbufs)
            st == ParseBurst([mbufs |-> mbufs \o arrivals, table |-> frags[w], burst |-> <<>>,
                              count |-> [count[w] EXCEPT !.received = @ + Len(arrivals)]],
                             n, Len(arrivals))
        IN  /\ mbufs' = st.mbufs
            /\ frags' = [frags EXCEPT ![w] = st.table]
            /\ count' = [count EXCEPT ![w] = st.count]
            /\ burst' = [burst EXCEPT ![w] = [i \in DOMAIN st.burst |->
                                [st.burst[i] EXCEPT !.hit = BulkFlowLookup(st.mbufs, st.burst[i])]]]
    /\ next' = [next EXCEPT ![w] = @ + 1]
    /\ UNCHANGED <<cfg, quit, sent, rings, staged, flows, pending, unflushed, shared, classified>>

\* FinalizePackets, one packet of the burst.
Finalize(w) ==
    /\ cfg.mode = "queue" /\ burst[w] # <<>>
    /\ LET e == Head(burst[w])
           kind == mbufs[e.packet].kind
           port == Ports[next[w] - 1]
       IN  IF ~e.parsed
           THEN /\ mbufs' = Free(mbufs, {e.pointer})
                /\ count' = [count EXCEPT ![w] = Bump(@, <<"dropped">>)]
                /\ UNCHANGED <<staged, flows, classified>>
           ELSE \E stream \in Streams :
                LET verdict == IF e.hit # None THEN FinalizeHit(e.hit)
                               ELSE FinalizeMiss(kind, stream)
                IN  /\ Finish(w, e.pointer, kind, verdict, TRUE, port, mbufs)
                    /\ Remember(kind, verdict)
                    /\ classified' = classified \cup {<<kind, port, w>>}
    /\ burst' = [burst EXCEPT ![w] = Tail(@)]
    /\ UNCHANGED <<cfg, quit, sent, rings, next, frags, pending, unflushed, shared>>

\* HashPacketFlow, modulo the workers.  A fragment is hashed by its datagram's
\* id, since only the first has ports; the receive port always counts.
HashPacketFlow(kind, part, port) ==
    ((IF part = 0 THEN kind.hash ELSE kind.fragment_hash) + port) % Cardinality(Workers)

\* rte_ring_enqueue of a packet to the worker its hash selects.
Enqueue(rs, ms, m) ==
    LET w == HashPacketFlow(ms[m].kind, ms[m].part, ms[m].port)
    IN  IF Len(rs[w]) < RingSize
        THEN [rings |-> [rs EXCEPT ![w] = Append(@, m)], ok |-> TRUE]
        ELSE [rings |-> rs, ok |-> FALSE]

\* DispatchPortQueueBurst and the counting after it: the main lcore takes a
\* packet and puts it into a ring.
Dispatch ==
    /\ cfg.mode = "flow_hash" /\ ~quit /\ Len(mbufs) < MaxPackets
    /\ \E port \in PortSet, a \in Packets :
        LET m == Len(mbufs) + 1
            ms == Append(mbufs, Received(a.kind, a.part, port, m))
            e == Enqueue(rings, ms, m)
        IN  /\ rings' = e.rings
            /\ mbufs' = IF e.ok THEN ms ELSE Free(ms, {m})
            /\ shared' = Bump(shared, <<"received">> \o IF e.ok THEN <<>> ELSE <<"dropped">>)
    /\ UNCHANGED <<cfg, quit, sent, next, burst, frags, staged, flows, count, pending,
                   unflushed, classified>>

\* ProcessDispatchedWorkerIteration: take a burst out of the ring.
Dequeue(w) ==
    /\ cfg.mode = "flow_hash" /\ next[w] = 1 /\ ~quit
    /\ LET n == Min({BurstSize, Len(rings[w])})
       IN  /\ burst' = [burst EXCEPT ![w] = [i \in 1 .. n |-> Entry(rings[w][i], None, FALSE)]]
           /\ rings' = [rings EXCEPT ![w] = SubSeq(@, n + 1, Len(@))]
           /\ count' = [count EXCEPT ![w].received = @ + n]
    /\ next' = [next EXCEPT ![w] = Polled]
    /\ UNCHANGED <<cfg, quit, memory, frags, staged, flows, pending, unflushed, shared, classified>>

\* Mutant: a reassembled packet is classified where it was reassembled.
RedispatchNever(kind, part, port, w) == FALSE

\* A reassembled packet that belongs to another worker.
Redispatch(kind, part, port, w) == part # 0 /\ HashPacketFlow(kind, 0, port) # w

\* ForwardPacket, one packet of the burst.
Forward(w) ==
    /\ cfg.mode = "flow_hash" /\ burst[w] # <<>>
    /\ LET m == Head(burst[w]).pointer
           p == Parse(mbufs, frags[w], m)
           kind == mbufs[m].kind
           port == mbufs[m].port
           ms == [p.mbufs EXCEPT ![p.packet].port = port]
           e == Enqueue(rings, ms, p.packet)
       IN  /\ frags' = [frags EXCEPT ![w] = p.table]
           /\ CASE p.packet = None ->
                     /\ mbufs' = p.mbufs
                     /\ UNCHANGED <<rings, staged, flows, count, classified>>
                [] p.packet # None /\ ~p.parsed ->
                     /\ Finish(w, p.packet, kind, [Unmatched EXCEPT !.bumps = <<"malformed">>],
                               FALSE, port, p.mbufs)
                     /\ UNCHANGED <<rings, flows, classified>>
                [] p.packet # None /\ p.parsed /\ Redispatch(kind, mbufs[m].part, port, w) ->
                     /\ rings' = e.rings
                     /\ mbufs' = IF e.ok THEN ms ELSE Free(ms, {p.packet})
                     /\ count' = [count EXCEPT ![w] = Bump(@, IF e.ok THEN <<>> ELSE <<"dropped">>)]
                     /\ UNCHANGED <<staged, flows, classified>>
                [] OTHER ->
                     \E stream \in Streams :
                     LET verdict == IF kind.key \in DOMAIN flows THEN FinalizeHit(flows[kind.key])
                                    ELSE ClassifyMiss(kind, stream)
                         counted == [verdict EXCEPT !.bumps = <<"parsed">> \o @]
                     IN  /\ Finish(w, p.packet, kind, counted, TRUE, port, p.mbufs)
                         /\ Remember(kind, verdict)
                         /\ classified' = classified \cup {<<kind, port, w>>}
                         /\ UNCHANGED rings
    /\ burst' = [burst EXCEPT ![w] = Tail(@)]
    /\ UNCHANGED <<cfg, quit, sent, next, pending, unflushed, shared>>

\* The loop of a worker has ended.
Done(w) == next[w] = 0

\* What a worker adds to counters_: FlushAtomicCounters in queue mode, and
\* AddDispatchedWorkerCounters, which leaves `received` to the main lcore.
Folded(counters) ==
    IF cfg.mode = "queue" THEN counters ELSE [counters EXCEPT !.received = 0]

\* CleanupExpiredFragments frees the fragments of the datagrams that are late.
Expired(w, late) == {m \in frags[w] : mbufs[m].kind \in late}

\* FlushTransmitBuffers hands each active port its buffer, of which the NIC
\* takes a prefix, and frees the rest.
Transmitted(w, taken) == UNION {Range(SubSeq(staged[w][p], 1, taken[p])) : p \in PortSet}
Unsent(w, taken) == (UNION {Range(staged[w][p]) : p \in PortSet}) \ Transmitted(w, taken)

\* The end of an iteration: fragments expire, the buffers are flushed, the
\* counters are accumulated and now and then folded.  The next iteration
\* empties the buffers of every port.
EndIteration(w) ==
    /\ next[w] = Polled /\ burst[w] = <<>>
    /\ \E late \in SUBSET {mbufs[m].kind : m \in frags[w]},
          taken \in [PortSet -> 0 .. StagingSize] :
        LET dead == Expired(w, late)
            sending == Transmitted(w, taken)
            unsent == Unsent(w, taken)
            c == [count[w] EXCEPT !.transmitted = @ + Cardinality(sending),
                                  !.dropped = @ + Cardinality(unsent)]
            fold == unflushed[w] + 1 >= FlushInterval
        IN  /\ \A p \in PortSet : taken[p] <= Len(staged[w][p])
            /\ mbufs' = Free(mbufs, dead \cup unsent)
            /\ frags' = [frags EXCEPT ![w] = @ \ dead]
            /\ sent' = sent \cup sending
            /\ pending' = [pending EXCEPT ![w] = IF fold THEN Zero ELSE Add(@, c)]
            /\ shared' = IF fold THEN Add(shared, Folded(Add(pending[w], c))) ELSE shared
            /\ unflushed' = [unflushed EXCEPT ![w] = IF fold THEN 0 ELSE @ + 1]
    /\ staged' = [staged EXCEPT ![w] = [p \in DOMAIN @ |-> <<>>]]
    /\ count' = [count EXCEPT ![w] = Zero]
    /\ next' = [next EXCEPT ![w] = 1]
    /\ UNCHANGED <<cfg, quit, rings, burst, flows, classified>>

\* Mutant: a worker leaves its loop without folding what is pending.
ExitUnfolded(w) ==
    /\ next[w] = 1 /\ quit
    /\ next' = [next EXCEPT ![w] = 0]
    /\ UNCHANGED <<cfg, quit, memory, rings, burst, frags, staged, flows, counting, classified>>

\* WorkerLoop and DispatchWorkerLoop end.
Exit(w) ==
    /\ next[w] = 1 /\ quit
    /\ next' = [next EXCEPT ![w] = 0]
    /\ shared' = Add(shared, Folded(pending[w]))
    /\ pending' = [pending EXCEPT ![w] = Zero]
    /\ UNCHANGED <<cfg, quit, memory, rings, burst, frags, staged, flows, count, unflushed,
                   classified>>

\* SIGINT or SIGTERM.
Quit ==
    /\ ~quit /\ quit' = TRUE
    /\ UNCHANGED <<cfg, memory, rings, next, burst, frags, staged, flows, counting, classified>>

Next ==
    \/ Dispatch \/ Quit
    \/ \E w \in Workers : \/ Poll(w) \/ Finalize(w) \/ Dequeue(w) \/ Forward(w)
                          \/ EndIteration(w) \/ Exit(w)

Spec == Init /\ [][Next]_vars

-----------------------------------------------------------------------------
(* Properties                                                               *)

TypeOK ==
    /\ cfg \in Configs /\ Len(mbufs) <= MaxPackets
    /\ sent \subseteq DOMAIN mbufs
    /\ \A w \in Workers :
        /\ next[w] \in 0 .. Polled /\ frags[w] \subseteq DOMAIN mbufs
        /\ Len(burst[w]) <= BurstSize /\ Len(rings[w]) <= RingSize
        /\ unflushed[w] < FlushInterval
    /\ Cardinality(DOMAIN flows) <= MaxFlows
    /\ Range(flows) \subseteq {"forward", "drop"}

\* Who owns an mbuf: a place in a ring, a burst or a transmit buffer, the entry
\* of a fragment table, the NIC; and every time it was freed.
Owners(m) ==
    LET In(packets) == {p \in packets : m \in mbufs[p].chain}
        Places(seq) == {i \in DOMAIN seq : m \in mbufs[seq[i]].chain}
        Pointers(w) == [i \in DOMAIN burst[w] |-> burst[w][i].pointer]
    IN  (UNION {({"ring"} \X {w} \X Places(rings[w]))
                \cup ({"burst"} \X {w} \X Places(Pointers(w)))
                \cup ({"fragments"} \X {w} \X In(frags[w]))
                \cup UNION {{"buffer"} \X {w} \X ({p} \X Places(staged[w][p])) : p \in DOMAIN staged[w]}
                  : w \in Workers})
        \cup ({"nic"} \X {0} \X In(sent)) \cup ({"freed"} \X {0} \X (1 .. mbufs[m].frees))

\* Is a packet routed to a port that is masked out?  FlushTransmitBuffers does
\* not look at that port's buffer, and the configuration is not checked.
RoutedNowhere(kind) == cfg.l3 /\ kind.route \notin PortSet

\* Every mbuf received has exactly one owner, or was freed exactly once,
\* through reassembly, redispatch, ring overflow, partial transmission and
\* expiry.  Lost are only packets routed nowhere, and mbufs of datagrams that
\* ParseReceivedPackets reassembles but cannot parse.
MbufOwnedOnce ==
    \A m \in DOMAIN mbufs :
        \/ Cardinality(Owners(m)) = 1
        \/ /\ Owners(m) = {}
           /\ \/ RoutedNowhere(mbufs[m].kind)
              \/ cfg.mode = "queue" /\ ~mbufs[m].kind.parses /\ Cardinality(mbufs[m].chain) > 1

\* Every packet parsed is counted as a cache hit, as matched or as unknown,
\* once it has been dealt with, on every path of the two classifiers.
ParsedBalanced ==
    LET Dealt(c) == c.flow_cache_hits + c.matched + c.unknown
    IN  /\ shared.parsed = Dealt(shared)
        /\ \A w \in Workers :
            /\ pending[w].parsed = Dealt(pending[w])
            /\ count[w].parsed =
                   Dealt(count[w]) + Cardinality({i \in DOMAIN burst[w] : burst[w][i].parsed})

\* When the workers have ended, counters_ has every packet that was received,
\* once, and every packet that was transmitted.
TotalsExact ==
    (\A w \in Workers : Done(w)) =>
        /\ shared.received = Len(mbufs)
        /\ shared.transmitted = Cardinality(sent)

\* In flow_hash mode the packets of a flow that a port receives are classified
\* by one worker, the one with its TCP stream, fragmented or not.
FlowAffinity ==
    cfg.mode = "flow_hash" =>
        \A c, d \in classified : c[1] = d[1] /\ c[2] = d[2] => c[3] = d[3]

\* A transmit buffer never takes more than it has room for: EnqueuePacket does
\* not look.  In L3 mode several ports may feed one buffer.
StagingBounded ==
    ~cfg.l3 => \A w \in Workers : \A p \in DOMAIN staged[w] : Len(staged[w][p]) <= StagingSize

\* A packet that only drop rules match is transmitted only under
\* flow_overflow_action "reclassify", and only after the cache overflowed.
DropRulesHonoured ==
    LET overflowed == \E c \in {shared} \cup Range(count) \cup Range(pending) : c.flow_table_full > 0
        Dropped(kind) == /\ kind.spi # None /\ kind.spi.action = "drop"
                         /\ \A a \in Packets : a.kind.key = kind.key => a.kind.spi = kind.spi
    IN  \A m \in sent : Dropped(mbufs[m].kind) => ~cfg.overflow_drop /\ overflowed

\* "`packet` is updated to the reassembled mbuf when the final fragment
\* arrives" (spi_packet_parser.hpp:29), so that its owner can free it: no mbuf
\* is lost unless it is routed nowhere.
NoMbufLost ==
    \A m \in DOMAIN mbufs : Owners(m) = {} => RoutedNowhere(mbufs[m].kind)

=============================================================================
