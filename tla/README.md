# A verification project for the DPDK packet classifier

TLA+ models of the packet classifier in `src/`, model-checking runs (TLC) and
machine-checked proofs (TLAPS).

The program receives packets on DPDK ports, classifies them with SPI rules
(5-tuple, `rte_acl`) and optionally DPI rules (hostnames in TLS, HTTP or DNS
payloads), and drops or forwards each packet. One *main lcore* polls signals,
reloads rules, purges the flow cache and in `flow_hash` mode dispatches packets.
*Worker* lcores process packets. A ConfD subscriber, a process of its own,
replaces the configuration file on a commit and sends `SIGUSR1`.

## 1. Parts and modules

| part | module | checked by | proofs |
|---|---|---|---|
| main loop, signals, `MaybeReload`, pause of the workers | `ReloadBarrier` | `reload_barrier` | `ReloadBarrierProofs` |
| the same with the table managers and who uses which table | `HotReload` (extends it) | `hot_reload_tables`, `single_worker_tables` | `HotReloadProofs` |
| flow cache under concurrent workers, purge, resize | `FlowTable` | `flow_table`, `flow_table_purge` | `FlowTableProofs` |
| TCP stream reassembler | `TcpReassembly` | `tcp_reassembly` | |
| algorithms of the SPI rule engine | `RuleEngine` | through `RuleCompiler` | |
| `CompileRuleTable` with its threads, publication, bursts | `RuleCompiler` (extends it) | `rule_compiler`, `member_filter` | |
| hostname cache | `HostnameCache` | through `DpiEngine` | |
| DPI tables, Hyperscan and fallback, `MatchDpi`, links | `DpiEngine` (extends it) | `dpi_engine` | |
| a worker's way of a packet, both distribution modes | `PacketPath` | `packet_path`, `mbuf_leak` | |
| `LoadConfig` and `ValidateConfig` | `ConfigLoader` | through `Application` | |
| `main`, `Environment`, life of the `Pipeline`, ConfD subscriber | `Application` (extends it) | `application` | `ApplicationProofs` |
| what the control plane promises | `Publication` (abstract) | `application` | `ApplicationProofs` |

How they fit together: `Application` has the process as a whole and takes a
reload as three steps; `ReloadBarrier` is the reload in detail, and `HotReload`
implements it with tables. `RuleCompiler` and `DpiEngine` are what a reload
compiles and publishes, and what a worker does with it. `PacketPath` is one
iteration of a worker, with `FlowTable`, `TcpReassembly` and `DpiEngine`
abstracted to their possible answers.

`MC*` modules give the constants their values. A definition called a *mutant*
in its comment is a plausible bug; it is used to see that a property fails
when the code is wrong in that way, and by nothing else.

## 2. The models

**ReloadBarrier.** `main_pc` follows `MaybeReload` statement by statement as far
as other lcores can tell: poll (`exchange(0)`), load, compile, raise, wait,
verdict, two swaps, resize, repoint, lower, with every early return.
`worker_pc` follows the worker loop: burst, check, `fetch_add`, spin,
`fetch_sub`. Both worker loops have the same control. The 100 ms timeout may
strike at any time. Each access to a flag or counter is one step, in a
sequentially consistent order (the weaker orders of the code are not explored).

**HotReload.** A table is the set of workers using it; freeing a table in use
moves its users to `freed`. Each action of `ReloadBarrier` is conjoined with
what it does to the tables, and a burst is refined into lookup, SPI match, DPI
match and insert.

**FlowTable.** `rte_hash` is external: a map from keys to positions and data
pointers with atomic operations and an arbitrary choice of a free position. The
word of a `FlowData` is the flow whose verdict it holds. `Insert` is split at
every point where another lcore can intervene, the purge at scan, delete and
clear. `Resize` is `MaybeReloadFlowTable`.

**TcpReassembly.** `Arrival` is one call of `Insert`: expiry, key, new stream or
not, the helpers in their order, removal on a conflict or a limit. `received`
is a history variable. The padding byte of `StreamKey`, which `StreamKeyHash`
reads although `MakeKey` does not set it, takes any value in `Paddings`.
`Modulus` stands for 2^32.

**RuleEngine, RuleCompiler.** Filters become ACL rules with packed user data;
`Match` goes through the chunks; `ClassifyMisses` is phases 1 to 2 of
`FinalizePackets` with the member filter in front. The compiler runs parse
threads over ranges of groups and build threads in batches, each of which may
fail; library objects are tracked by name, so that a double free, a use after
free and a leak are visible. `Move` is the move constructor: what it leaves out
is lost. `tss_` is left out by it too, so that tuple-space search does nothing
in a published table and is not modelled; `RebuildInPlace` has no caller.

**HostnameCache, DpiEngine.** A hostname is a sequence of labels. The sorts of
the code are not stable beyond a small size (`SmallSort`; 16 in libstdc++), so a
sort yields a set of orders. A scratch remembers the database it was allocated
for; a scan with one that does not fit fails and falls back. The cache survives
reloads, and `Swap` gives out generations from the table before it, beginning
again at 1 when there was none. `HashesDistinguish` assumes that two different
hostnames do not agree in hash and stored key.

**PacketPath.** Packet *i* is carried by mbuf *i*; a kind of packet stands for
everything the rules say about it. `Poll` and `Finalize` are queue mode,
`Dispatch`, `Dequeue` and `Forward` are `flow_hash` mode; both end an iteration
with expiry, flush and counters (`EndIteration`). `Parse` is `ParsePacketOwned`
with the fragment table: it decides who owns an mbuf afterwards. The verdict
of DPI is any of those the code can come to (`Streams`).

**ConfigLoader, Application.** A configuration is what the parser of the YAML
file made of it; the checks are those of the code. `pc` follows `main` through
`LoadConfig`, `init`, the handlers, compiling, the constructor, the launch of
each worker, the loop, the join and the destructors; each step may fail where
the code checks for it. Killing the process is possible at any step, restarts
are bounded. The subscriber snapshots, renames, signals (by a pid it may have
cached from an earlier process), and may die between any two of these.
`missed` is a history variable that records why rules may lag behind.

**Publication** promises: versions are committed in order, a committed version
is published as a whole, what is in force was published, and neither ever goes
back. `PublicationKept` instantiates it with the file and the rules in force.

## 3. Runs

| run | instance | shows |
|---|---|---|
| `reload_barrier` | 2 workers | the acknowledgement count is exact; no request is lost; shutdown; a request is taken up and its barrier lowered; workers resume |
| `hot_reload_tables` | 2 workers | no rule table is freed while in use |
| `single_worker_tables` | 1 worker | **violation**: a rule table is freed while in use |
| `flow_table` | 2 workers, 2 flows, sizes 1 and 2, TTL | `max_concurrent_flows` is a hard ceiling; hits belong to the packet's own flow until a purge or resize recycles `FlowData` |
| `flow_table_purge` | 1 worker | **violation**: a hit yields another flow's verdict after a purge |
| `tcp_reassembly` | 3 connections, segments of up to 2 bytes on any boundary | exact accounting, limits, what DPI sees is a run of the stream, no byte lost |
| `rule_compiler` | 6 rule sets, 2 parse and 2 build threads | partition, matching against a reference (`Preferred`), bulk path, ownership of library objects |
| `member_filter` | a rule without destination | **violation**: its packets skip the ACL |
| `dpi_engine` | 4 hosts for 3 slots, 3 rule sets, 3 reloads | verdicts match and are the preferred ones, cache hits are in range, links are bound |
| `packet_path` | 4 configurations, up to 3 packets | ownership of mbufs, counters, flow affinity, staging, drop rules |
| `mbuf_leak` | the same | **violation**: mbufs of a reassembled, unparseable datagram are lost |
| `application` | every configuration with every failure; commits, crashes and restarts | release in order, accepted configurations run, lag is explained, shutdown, refinement of `Publication` |

*Bounds.* Two workers are enough for the races of one lcore with another and
for a count that is neither none nor all; the theorems cover every number.
Reloads are not bounded in `ReloadBarrier`. One or two slots with two flows
exhaust the freelist; a third hash position lets indices and positions differ.
Short contents with a small modulus make sequence numbers wrap, and small limits
strike in the middle of a drain. Five groups with chunks of two give three
chunks, which two build threads need two batches for; bursts of three exceed the
bulk limit of two. More hosts than slots fill the cache, and three reloads let a
generation come back. Three mbufs are a whole packet and a datagram of two
fragments, or a duplicate fragment; one ring entry, one cached flow and two
staged packets are at their limits at once. Two commits, two starts and one
crash of the subscriber give every order of publication, signal and restart.
Symmetry is used only in runs without liveness properties. Deadlock is not
checked where the behaviour ends (the process exits) or a bound is reached.

*Fairness.* In `reload_barrier`: weak fairness of the main lcore and of each
worker, which are pinned, busy-polling threads with finite iterations; the wait
has a timeout. `WorkersResume` needs the requests to cease. In `application`: weak
fairness of `main` and of the workers' exits; nothing is assumed of signals,
commits, the subscriber, crashes or restarts.

## 4. What does not hold

Four runs refute a statement of the repository (`findings` of `PROJECT.json`):

- **One worker.** `MaybeReload` waits only if there are two workers or more,
  but a single worker runs on a remote lcore too. Three reloads within one of its
  bursts free a rule table in use.
- **Index and position.** `PurgeExpired` and `ForEachOccupied` take the index of
  a `FlowData` for the position of its key in `rte_hash`. The two are chosen
  independently.
- **Member filter.** The move constructor of `RuleTable` drops
  `has_wildcard_ip_rules_`, so that packets of rules without a listed destination
  skip the ACL. An IPv6 packet is looked up with address 0 and skips it too.
- **Stale pointer.** When a datagram is reassembled but cannot be parsed, the
  pointer of its last fragment is freed, and not the head of the chain.

These properties are kept in the modules, fail on the instances described, and
have no run of their own:

| property | fails because |
|---|---|
| `Independent` (`TcpReassembly`) | the drain only uses a queued segment that starts exactly at `next_sequence`, so that an overtaken one keeps its bytes; and with two paddings one connection has two streams |
| `NoSlotLeaked` (`FlowTable`) | two workers that miss on the same flow both pop a `FlowData`; the one whose pointer is overwritten is lost |
| `HeldFlowTableAlive` (`HotReload`) | a worker that left its spin and has not done its `fetch_sub` counts as paused for the next reload, which may free the flow table at once (rule tables are freed two swaps later) |
| `ScanReturnsAMatch` (`DpiEngine`) | with too many filters for a stable sort, Hyperscan ids are given out in the order of the first sort and looked up in that of the second |

`HeldFlowTableAlive` needs a resize that succeeds. The code gives both flow
tables the name `flow_table`; a library that refuses a name in use lets a resize
succeed only if the first table could not be created. The same holds for
`spi_chunk_N` and `spi_member`: the models follow the code, which expects
independent objects.

The exceptions stated in the properties of `Application` and `PacketPath` are
real behaviours as well:

- A fragment table that cannot be created makes `StartWorkers` return while
  earlier workers run; `workers_started_` is not set, so that the destructors free
  what they use (`ReleasedInOrder`). After a failed launch the fragment tables
  stay.
- An `init` that fails leaves the EAL and started ports as they are.
- `CheckLinkStatus` succeeds on a timeout, where its comment says `DpdkError`
  (`dpdk_environment.cpp:594`).
- In mode `auto`, `net_pcap` ports select queue mode without a comparison of
  receive queues and workers, and `RunMultiWorker` then refuses; with the
  injector the validator compares no queues at all (`AcceptedRuns`).
- A source in CIDR form passes the validator and fails in `CompileFilter`.
- The subscriber keeps the pid of an earlier process and does not look again
  when the signal fails (`fastapi_confd.c:51`); a snapshot that fails is not
  retried before the next commit; commits made while it is down go unnoticed
  (`LagExplained`). Its YAML lacks the sections `l3_forward`, `rule_path` and
  `pcap_injector`, which then take their defaults.
- L3 routes may name a port that is not active: its packets are staged, neither
  sent nor freed (`MbufOwnedOnce`). In L3 mode several ports can feed one
  transmit buffer, whose capacity nobody looks at (`StagingBounded`).
- Under `reclassify` a packet of a drop rule is forwarded when the flow cache is
  full (`DropRulesHonoured`).
- `MatchBulk` looks at the first 64 misses of a burst; later ones get no match
  (`BulkAgreesWithMatch` is about the first `BulkMax`).

## 5. Theorems

Assumed of the constants: `Workers` is finite and not empty
(`WorkersAssumption`), `Null` is no table (`NullAssumption`), sizes are positive
and `None` is neither a key nor a number (`FlowAssumption`), the contents of
files are among the `Settings` (`SitesAssumption`), counts of workers and queues
are natural numbers (`SettingsAssumption`), and `None` is not the name of a
failing step (`NoneAssumption`).

- `PausedCountCorrect`: `Spec => [](TypeOK /\ PausedCountExact)`. The two are
  inductive together: the range of the counter follows from its being the
  cardinality of `Paused`, and the subtraction from `LeavePause` being taken by a
  paused worker.
- `NoReloadLost`: `Spec => []NoLostReload`. `FreshInv` extends the claim from the
  idle loop to every point of a reload: stale rules are explained by a pending
  request, an unsignalled change, a reload that holds fresh rules or is about to
  load them, a cancelled reload, or a quit signal.
- `HotReloadImplementsBarrier`: `HotSpec => Spec`, step by step.
- `RuleTablesNeverFreedInUse`: `N > 1 => (HotSpec => [](HotTypeOK /\
  FreedTablesUnused))`. `TableInv` says which workers may still use which
  generation of a table. When the wait ends with all acknowledged, every worker
  is in its pause and holds no table, and those that slip out can only load the
  active one; what the next swap retires is thus free of users when it becomes
  `prev_retired`.
- `HitsOwnFirst`: `Spec => []HitsOwnUntilRecycled`, and `StaticHitsOwn`:
  `Static => (Spec => [](FlowTypeOK /\ HitsOwn))`, where `Static` says no TTL and
  a single size. `OwnInv` says that a free `FlowData` is unused, one in the hands
  of an `Insert` is its own, and each word belongs to the flow that leads to it;
  it holds until the history variable `recycled` is set.
- `ControlPlaneImplementsPublication`: `Spec => PublicationKept`. `VersionInv`
  orders the versions: in force, loaded, file, commit, with a snapshot about to be
  renamed between the last two. Without the last part a rename could take the file
  back.
- `RulesLagOnlyExplained`: `Spec => []LagExplained`. `LagInv` extends the claim to
  every step of `main` that holds a version: what was loaded up to the constructor
  and during a reload, what is in force afterwards.
- `ResourcesOutliveWorkers`: `Spec => []ReleasedInOrder`, for any number of
  workers and ports. `ReleaseInv` says at each step of `main` what there is of the
  environment and of the Pipeline; during the launch the fragment tables are
  those of a prefix of the contexts, which uses the cardinality of an interval.
- `ValidatedConfigsRun`: `Spec => []AcceptedRuns`. The lemma `Validated` derives
  what the constructor and `RunUntilStopped` ask for from `ValidateConfig`.

Only model-checked: the liveness properties (fairness and `ENABLED` are beyond
the prover); `HardCeiling`, which is about cardinalities of sets that two lcores
change; and what is computed by folds or recursive functions over sequences
(`TcpReassembly`, `RuleEngine`, `DpiEngine`, `PacketPath`), which would need
induction over data.

## 6. Not modelled

- What bytes mean to the parser (headers, ClientHello, HTTP, DNS names): the
  model has its control and its ownership of mbufs; byte strings are too many for
  a model checker, and no property here depends on them. Likewise the YAML text,
  rewritten header bytes and device configuration values.
- `PcapReplay`: nothing in the repository starts it, and it is a sequential loop
  of file input and timing.
- The L3 forwarding tables: a route is part of a packet's kind.
- The flow cache across reloads: cached verdicts of earlier rules stay until
  they expire, and no statement of the repository is about that.
- Packets left in dispatch rings when the workers have ended: they are still
  owned by their ring in `PacketPath`, and go with the mempool.
- Weak memory orders, logging, statistics output, the internals of ACL,
  Hyperscan, ring and mempool, the conversion tool, the scripts and the sample
  program in `docs/`.
