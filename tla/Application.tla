---------------------------- MODULE Application -----------------------------
(***************************************************************************)
(* The life of the process: main, Environment::init and Cleanup, the       *)
(* Pipeline from its constructor to its destructor, with every failing     *)
(* step, and next to it the ConfD subscriber that replaces the             *)
(* configuration file and signals.  The process may be killed and started  *)
(* again, and so may the subscriber.                                       *)
(*                                                                         *)
(* The main loop is taken as a whole here, and a reload as three steps;    *)
(* ReloadBarrier has its details.  A file is the name of its contents (see *)
(* Settings), the number of the commit it was written for, and whether it  *)
(* is complete.                                                            *)
(***************************************************************************)
EXTENDS ConfigLoader, FiniteSetsExt

CONSTANTS
    Settings,        \* name of a configuration -> what it is parsed to
    Sites            \* where the program may run, see below

\* A site has the file it starts with (setting), the names that may be
\* committed (commits) and how many (max_commits), starts of the process
\* (max_starts), crashes of the subscriber (max_crashes), its ports, RX/TX
\* queues per port (queues), worker lcores (lcores), rss, pcap and software
\* for what the ports report, and what may happen (events): library calls that
\* fail and signals that come from elsewhere.

\* Files have one of the Settings as contents.
ASSUME SitesAssumption ==
    \A s \in DOMAIN Sites : {Sites[s].setting} \cup Sites[s].commits \subseteq DOMAIN Settings

\* What counts workers and queues is unsigned.
ASSUME SettingsAssumption ==
    \A name \in DOMAIN Settings :
        LET c == LoadConfig(Settings[name])
        IN  c # None => {c.worker_count, c.receive_queues, c.transmit_queues} \subseteq Nat

\* The steps that may fail; None is no step.
Failures == {"load", "eal", "ports", "handlers", "compile", "queues", "ring", "lcores",
             "frag", "launch"}

ASSUME NoneAssumption == None \notin Failures

VARIABLES
    site,            \* in DOMAIN Sites
    cdb,             \* the newest commit
    file,            \* the file at CONFIG_PATH
    sub,             \* the subscriber: where it is, its snapshot, dpdk_pid, crashes
    pid,             \* the number of processes started
    pc,              \* where main is; "off": no process
    handlers, quit, reload,    \* InstallSignalHandlers, force_quit, reload_requested
    config,          \* name of the configuration main has loaded, or None
    loaded,          \* number of the commit whose file was read last
    in_force,        \* number of the commit whose rules were put in force last
    eal, started, active, initialized,     \* of the Environment
    pipeline,        \* is there a Pipeline?
    rings, frags,    \* workers with a dispatch ring, with a fragment table
    running,         \* workers in their loop
    worker_quit, workers_started,
    error,           \* the step that failed, or None
    missed           \* why the rules in force may be behind the file

environment_vars == <<eal, started, active, initialized>>
pipeline_vars == <<pipeline, rings, frags, running, worker_quit, workers_started>>
signal_vars == <<handlers, quit, reload>>
rule_vars == <<config, loaded, in_force>>
process_vars == <<pid, pc, signal_vars, rule_vars, environment_vars, pipeline_vars, error, missed>>
confd_vars == <<cdb, file, sub>>
vars == <<site, confd_vars, process_vars>>

here == Sites[site]

\* May this happen here?
Happens(event) == event \in here.events

\* LoadConfig of the contents of a file, and what main got from it.
Loaded == [name \in DOMAIN Settings |-> LoadConfig(Settings[name])]
cfg == Loaded[config]

Workers == 1 .. cfg.worker_count

-----------------------------------------------------------------------------
(* Start-up: main up to the handlers, and Environment::init                  *)

\* Everything the process holds goes with it.
NoProcess ==
    /\ pc' = "off" /\ handlers' = FALSE /\ quit' = FALSE /\ reload' = FALSE
    /\ config' = None
    /\ eal' = FALSE /\ started' = {} /\ active' = {} /\ initialized' = FALSE
    /\ pipeline' = FALSE /\ rings' = {} /\ frags' = {} /\ running' = {}
    /\ worker_quit' = FALSE /\ workers_started' = FALSE
    /\ error' = None /\ missed' = {}

\* main goes on at another step, or leaves for a destructor with an error.
Goto(from, to) == pc = from /\ pc' = to
Leave(from, to, why) == Goto(from, to) /\ error' = why

Start ==
    /\ pid < here.max_starts /\ pid' = pid + 1
    /\ Goto("off", "load")
    /\ UNCHANGED <<site, confd_vars, signal_vars, rule_vars, environment_vars,
                   pipeline_vars, error, missed>>

\* LoadConfig in main.  There is nothing to destroy yet if it fails.
Load ==
    /\ pc = "load"
    /\ \/ /\ Loaded[file.name] # None /\ config' = file.name
          /\ Goto("load", "eal") /\ UNCHANGED error
       \/ /\ Loaded[file.name] = None /\ UNCHANGED config
          /\ Leave("load", "exit", "load")
    /\ loaded' = file.version /\ missed' = {}
    /\ UNCHANGED <<site, confd_vars, pid, signal_vars, in_force, environment_vars, pipeline_vars>>

\* InitEal and CreateMempool.  Without ports only the injector can run: it
\* has port 0 as an active port that does not exist.
InitEal ==
    /\ pc = "eal"
    /\ \/ /\ Happens("eal") /\ eal' = FALSE
          /\ Leave("eal", "environment", "eal") /\ UNCHANGED active
       \/ /\ eal' = TRUE
          /\ \/ Happens("mempool") \/ (here.ports = {} /\ ~cfg.injector.enabled)
          /\ active' = IF cfg.injector.enabled THEN {0} ELSE active
          /\ Leave("eal", "environment", "eal")
       \/ /\ eal' = TRUE /\ here.ports # {} /\ ~cfg.injector.enabled
          /\ Goto("eal", "ports") /\ UNCHANGED <<active, error>>
       \/ /\ eal' = TRUE /\ cfg.injector.enabled
          /\ active' = {0} /\ Goto("eal", "link") /\ UNCHANGED error
    /\ UNCHANGED <<site, confd_vars, pid, signal_vars, rule_vars, started, initialized,
                   pipeline_vars, missed>>

\* The mask names available ports, and one at least.
ValidatePortMask == cfg.port_mask \subseteq here.ports /\ cfg.port_mask # {}

\* The device has the queues asked for.
ValidateQueueCounts ==
    cfg.receive_queues <= here.queues /\ cfg.transmit_queues <= here.queues

\* SetupPorts, one port of the mask at a time.  A port whose promiscuous mode
\* cannot be enabled has been started and is not an active port.
SetupPort ==
    LET usable == ValidatePortMask /\ ValidateQueueCounts
        left == cfg.port_mask \ active
    IN  /\ pc = "ports"
        /\ \/ /\ ~usable \/ Happens("port")
              /\ Leave("ports", "environment", "ports") /\ UNCHANGED <<started, active>>
           \/ /\ usable /\ cfg.promiscuous /\ Happens("promiscuous")
              /\ started' = started \cup {Min(left)}
              /\ Leave("ports", "environment", "ports") /\ UNCHANGED active
           \/ /\ usable
              /\ started' = started \cup {Min(left)} /\ active' = active \cup {Min(left)}
              /\ Goto("ports", IF Cardinality(left) = 1 THEN "link" ELSE "ports")
              /\ UNCHANGED error
        /\ UNCHANGED <<site, confd_vars, pid, signal_vars, rule_vars, eal, initialized,
                       pipeline_vars, missed>>

\* CheckLinkStatus succeeds whether the links come up or not.  With the
\* injector there are none to check.
CheckLinkStatus ==
    /\ Goto("link", "handlers") /\ initialized' = TRUE
    /\ UNCHANGED <<site, confd_vars, pid, signal_vars, rule_vars, eal, started, active,
                   pipeline_vars, error, missed>>

InstallSignalHandlers ==
    /\ \/ handlers' = TRUE /\ Goto("handlers", "compile") /\ UNCHANGED error
       \/ /\ Happens("handlers") /\ Leave("handlers", "environment", "handlers")
          /\ UNCHANGED handlers
    /\ UNCHANGED <<site, confd_vars, pid, quit, reload, rule_vars, environment_vars,
                   pipeline_vars, missed>>

-----------------------------------------------------------------------------
(* The Pipeline                                                             *)

\* CompileRuleTable refuses a source in CIDR form, which the validator lets
\* pass.  ACL and Hyperscan may fail besides.
Compiles(c) ==
    \A g \in DOMAIN c.filter_groups : \A f \in DOMAIN c.filter_groups[g].filters :
        LET source == c.filter_groups[g].filters[f].source
        IN  source # None => source.length = None

\* ResolveDpiLinks in the table compiled from the same configuration.
Resolves(c) ==
    c.dpi.enabled => \A g \in DOMAIN c.filter_groups :
        LET link == c.filter_groups[g].dpi_filter_group
        IN  link = None \/ \E f \in DOMAIN c.dpi.filters : c.dpi.filters[f] = link

CompileRules ==
    /\ pc = "compile"
    /\ \/ /\ ~Compiles(cfg) \/ Happens("compile")
          /\ Leave("compile", "environment", "compile")
       \/ Compiles(cfg) /\ Goto("compile", "construct") /\ UNCHANGED error
    /\ UNCHANGED <<site, confd_vars, pid, signal_vars, rule_vars, environment_vars,
                   pipeline_vars, missed>>

\* The constructor; it aborts on a link that does not resolve.
Construct ==
    /\ pc = "construct"
    /\ Goto("construct", IF Resolves(cfg) THEN "run" ELSE "aborted")
    /\ pipeline' = TRUE /\ in_force' = loaded
    /\ UNCHANGED <<site, confd_vars, pid, signal_vars, config, loaded, environment_vars,
                   rings, frags, running, worker_quit, workers_started, error, missed>>

\* Mutant: whether the workers have a receive queue each is not asked.
ResolvePacketDistributionNoQueues(c) ==
    IF c.packet_distribution # "auto" THEN c.packet_distribution
    ELSE IF c.worker_count <= 1 \/ (here.rss /\ (here.pcap \/ ~here.software))
         THEN "queue" ELSE "flow_hash"

\* What the ports report decides in mode auto.  The port of the injector
\* reports nothing.
ResolvePacketDistribution(c) ==
    IF c.packet_distribution # "auto" THEN c.packet_distribution
    ELSE IF \/ c.worker_count <= 1
            \/ /\ here.rss /\ ~c.injector.enabled
               /\ here.pcap \/ (~here.software /\ c.receive_queues >= c.worker_count)
         THEN "queue" ELSE "flow_hash"

\* RunUntilStopped chooses between RunMultiWorker and RunFlowHashDispatch.
Distribution == ResolvePacketDistribution(cfg)

\* What both compare first; dispatched packets need no receive queues.
QueuesSuffice ==
    /\ cfg.transmit_queues >= cfg.worker_count
    /\ Distribution = "queue" => cfg.receive_queues >= cfg.worker_count

\* CreateDispatchRings, in RunFlowHashDispatch only.
CreateDispatchRings == rings' = IF Distribution = "flow_hash" THEN Workers ELSE {}

\* RunUntilStopped up to the first launch: queues, rings and lcores.  Rings
\* created before one that fails are destroyed again.
Run ==
    /\ pc = "run"
    /\ \/ ~QueuesSuffice /\ Leave("run", "pipeline", "queues") /\ UNCHANGED rings
       \/ /\ QueuesSuffice /\ Distribution = "flow_hash" /\ Happens("ring")
          /\ Leave("run", "pipeline", "ring") /\ UNCHANGED rings
       \/ /\ QueuesSuffice /\ CreateDispatchRings /\ here.lcores < cfg.worker_count
          /\ Leave("run", "pipeline", "lcores")
       \/ /\ QueuesSuffice /\ CreateDispatchRings /\ here.lcores >= cfg.worker_count
          /\ Goto("run", "launch") /\ UNCHANGED error
    /\ UNCHANGED <<site, confd_vars, pid, signal_vars, rule_vars, environment_vars,
                   pipeline, frags, running, worker_quit, workers_started, missed>>

NextWorker == Cardinality(frags) + 1

\* Mutant: one worker more than there are contexts.
LaunchWorkerOneMore ==
    /\ pc = "launch"
    /\ Goto("launch", IF NextWorker > cfg.worker_count THEN "loop" ELSE "launch")
    /\ frags' = frags \cup {NextWorker} /\ running' = running \cup {NextWorker}
    /\ workers_started' = (NextWorker > cfg.worker_count)
    /\ UNCHANGED <<site, confd_vars, pid, signal_vars, rule_vars, environment_vars,
                   pipeline, rings, worker_quit, error, missed>>

\* Mutant: those already launched are not waited for.
LaunchFailsNoWait ==
    /\ Happens("launch") /\ worker_quit' = TRUE
    /\ Leave("launch", "pipeline", "launch")
    /\ frags' = frags \cup {NextWorker}
    /\ UNCHANGED <<site, confd_vars, pid, signal_vars, rule_vars, environment_vars,
                   pipeline, rings, running, workers_started, missed>>

\* LaunchWorker of the next worker, and StartWorkers after the last.
LaunchWorker ==
    /\ pc = "launch"
    /\ Goto("launch", IF NextWorker = cfg.worker_count THEN "loop" ELSE "launch")
    /\ frags' = frags \cup {NextWorker} /\ running' = running \cup {NextWorker}
    /\ workers_started' = (NextWorker = cfg.worker_count)
    /\ UNCHANGED <<site, confd_vars, pid, signal_vars, rule_vars, environment_vars,
                   pipeline, rings, worker_quit, error, missed>>

\* LaunchWorker without memory for a fragment table: it returns, and leaves
\* the workers already launched running.
FragmentTableFails ==
    /\ Happens("frag") /\ Leave("launch", "pipeline", "frag")
    /\ UNCHANGED <<site, confd_vars, pid, signal_vars, rule_vars, environment_vars,
                   pipeline_vars, missed>>

\* LaunchWorker when rte_eal_remote_launch fails: the others are told to quit
\* and waited for, but the fragment tables stay.
LaunchFails ==
    /\ Happens("launch") /\ worker_quit' = TRUE
    /\ Leave("launch", "abandon", "launch")
    /\ frags' = frags \cup {NextWorker}
    /\ UNCHANGED <<site, confd_vars, pid, signal_vars, rule_vars, environment_vars,
                   pipeline, rings, running, workers_started, missed>>

Abandon ==
    /\ running = {} /\ Goto("abandon", "pipeline")
    /\ UNCHANGED <<site, confd_vars, pid, signal_vars, rule_vars, environment_vars,
                   pipeline_vars, error, missed>>

-----------------------------------------------------------------------------
(* The main loop and the way out                                            *)

\* MaybeReload: exchange(0) of the flag.
TakeRequest ==
    /\ reload /\ Goto("loop", IF quit THEN "loop" ELSE "reload")
    /\ reload' = FALSE
    /\ UNCHANGED <<site, confd_vars, pid, handlers, quit, rule_vars, environment_vars,
                   pipeline_vars, error, missed>>

\* MaybeReload up to the barrier: read the file, validate, compile, resolve.
ReloadConfig ==
    LET c == Loaded[file.name]
        usable == c # None /\ Compiles(c) /\ Resolves(c)
    IN  /\ pc = "reload" /\ loaded' = file.version
        /\ \/ /\ usable
              /\ Goto("reload", "publish") /\ missed' = {}
           \/ /\ ~usable \/ Happens("compile")
              /\ Goto("reload", "loop") /\ missed' = {"rejected"}
        /\ UNCHANGED <<site, confd_vars, pid, signal_vars, config, in_force, environment_vars,
                       pipeline_vars, error>>

\* Mutant: the request flag is reset at the end of the reload.
ReloadPublishResets ==
    /\ Goto("publish", "loop") /\ reload' = FALSE
    /\ ~quit /\ in_force' = loaded
    /\ UNCHANGED <<site, confd_vars, pid, handlers, quit, config, loaded, environment_vars,
                   pipeline_vars, error, missed>>

\* MaybeReload from the barrier on: a quit or its timeout cancels the reload.
ReloadPublish ==
    /\ Goto("publish", "loop")
    /\ \/ ~quit /\ in_force' = loaded /\ UNCHANGED missed
       \/ /\ quit \/ Happens("timeout")
          /\ missed' = missed \cup {"cancelled"} /\ UNCHANGED in_force
    /\ UNCHANGED <<site, confd_vars, pid, signal_vars, config, loaded, environment_vars,
                   pipeline_vars, error>>

\* Mutant: the workers are joined without being told.
StopWorkersSilently ==
    /\ quit /\ Goto("loop", "join")
    /\ UNCHANGED <<site, confd_vars, pid, signal_vars, rule_vars, environment_vars,
                   pipeline_vars, error, missed>>

\* The main loop ends: StopWorkers.
StopWorkers ==
    /\ quit /\ Goto("loop", "join") /\ worker_quit' = TRUE
    /\ UNCHANGED <<site, confd_vars, pid, signal_vars, rule_vars, environment_vars,
                   pipeline, rings, frags, running, workers_started, error, missed>>

JoinWorkers ==
    /\ running = {} /\ Goto("join", "pipeline")
    /\ frags' = {} /\ workers_started' = FALSE
    /\ UNCHANGED <<site, confd_vars, pid, signal_vars, rule_vars, environment_vars,
                   pipeline, rings, running, worker_quit, error, missed>>

\* ~Pipeline.  Its StopWorkers has nothing to do: workers_started_ is not set
\* unless RunUntilStopped stops the workers itself.
DestroyPipeline ==
    /\ Goto("pipeline", "environment")
    /\ pipeline' = FALSE /\ rings' = {}
    /\ UNCHANGED <<site, confd_vars, pid, signal_vars, rule_vars, environment_vars,
                   frags, running, worker_quit, workers_started, error, missed>>

\* ~Environment: Cleanup, but only of an environment that init has finished.
DestroyEnvironment ==
    /\ Goto("environment", "exit")
    /\ initialized' = FALSE
    /\ eal' = (eal /\ ~initialized)
    /\ started' = IF initialized THEN started \ active ELSE started
    /\ UNCHANGED <<site, confd_vars, pid, signal_vars, rule_vars, active, pipeline_vars,
                   error, missed>>

Exit ==
    /\ pc \in {"exit", "aborted"} /\ NoProcess
    /\ UNCHANGED <<site, confd_vars, pid, loaded, in_force>>

Main ==
    \/ Load \/ InitEal \/ SetupPort \/ CheckLinkStatus \/ InstallSignalHandlers
    \/ CompileRules \/ Construct \/ Run
    \/ LaunchWorker \/ FragmentTableFails \/ LaunchFails \/ Abandon
    \/ TakeRequest \/ ReloadConfig \/ ReloadPublish \/ StopWorkers \/ JoinWorkers
    \/ DestroyPipeline \/ DestroyEnvironment \/ Exit

\* The loop of a worker sees worker_force_quit.
WorkerExits(w) ==
    /\ w \in running /\ worker_quit
    /\ running' = running \ {w}
    /\ UNCHANGED <<site, confd_vars, pid, pc, signal_vars, rule_vars, environment_vars,
                   pipeline, rings, frags, worker_quit, workers_started, error, missed>>

\* SIGINT or SIGTERM; before the handlers are there it ends the process.
Interrupt ==
    /\ Happens("interrupt") /\ pc # "off"
    /\ \/ /\ handlers /\ quit' = TRUE
          /\ UNCHANGED <<pc, handlers, reload, config, environment_vars, pipeline_vars,
                         error, missed>>
       \/ ~handlers /\ NoProcess
    /\ UNCHANGED <<site, confd_vars, pid, loaded, in_force>>

\* The process dies.
Crash ==
    /\ Happens("crash") /\ pc # "off" /\ NoProcess
    /\ UNCHANGED <<site, confd_vars, pid, loaded, in_force>>

-----------------------------------------------------------------------------
(* The ConfD subscriber                                                     *)

Commit ==
    /\ cdb.version < here.max_commits
    /\ \E name \in here.commits :
          cdb' = [name |-> name, version |-> cdb.version + 1, complete |-> TRUE]
    /\ UNCHANGED <<site, file, sub, process_vars>>

\* Mutant: the snapshot is written to the file itself.
WriteSnapshotInPlace ==
    /\ sub.at = "wait" /\ sub.seen < cdb.version
    /\ sub' = [sub EXCEPT !.at = "rename", !.seen = cdb.version, !.snapshot = cdb]
    /\ file' = [file EXCEPT !.complete = FALSE]
    /\ UNCHANGED <<site, cdb, process_vars>>

\* process_commit: a consistent snapshot in a temporary file.
WriteSnapshot ==
    /\ sub.at = "wait" /\ sub.seen < cdb.version
    /\ sub' = [sub EXCEPT !.at = "rename", !.seen = cdb.version, !.snapshot = cdb]
    /\ UNCHANGED <<site, cdb, file, process_vars>>

\* No session, no space, no rename: the temporary file is unlinked and there
\* is no signal; nothing tries again before the next commit.
SnapshotFails ==
    /\ Happens("snapshot")
    /\ \/ sub.at = "wait" /\ sub.seen < cdb.version
       \/ sub.at = "rename"
    /\ sub' = [sub EXCEPT !.at = "wait",
                          !.seen = IF sub.at = "wait" THEN cdb.version ELSE @]
    /\ UNCHANGED <<site, cdb, file, process_vars>>

Rename ==
    /\ sub.at = "rename"
    /\ file' = sub.snapshot
    /\ sub' = [sub EXCEPT !.at = "signal"]
    /\ UNCHANGED <<site, cdb, process_vars>>

\* signal_dpdk_reload: pidof unless the pid is known from an earlier signal.
Target ==
    IF sub.pid # 0 THEN sub.pid ELSE IF pc = "off" THEN 0 ELSE pid

\* No process, or not the one the subscriber knows.
SignalFails ==
    /\ sub.at = "signal" /\ (pc = "off" \/ Target # pid)
    /\ sub' = [sub EXCEPT !.at = "wait", !.pid = Target]
    /\ missed' = IF pc = "off" THEN missed ELSE missed \cup {"unsignalled"}
    /\ UNCHANGED <<site, cdb, file, pid, pc, signal_vars, rule_vars, environment_vars,
                   pipeline_vars, error>>

\* SIGUSR1 reaches the process.  Before its handlers are there it ends the
\* process, or is lost to a handler of the EAL's as a comment in main has it.
Signal ==
    /\ sub.at = "signal" /\ pc # "off" /\ Target = pid
    /\ sub' = [sub EXCEPT !.at = "wait", !.pid = Target]
    /\ \/ /\ handlers /\ reload' = TRUE
          /\ UNCHANGED <<pc, handlers, quit, config, environment_vars, pipeline_vars,
                         error, missed>>
       \/ /\ ~handlers /\ eal /\ missed' = missed \cup {"early"}
          /\ UNCHANGED <<pc, signal_vars, config, environment_vars, pipeline_vars, error>>
       \/ ~handlers /\ NoProcess
    /\ UNCHANGED <<site, cdb, file, pid, loaded, in_force>>

\* The subscriber dies and is started again.  It forgets the pid, and commits
\* in between go unnoticed.
SubscriberRestarts ==
    /\ sub.crashes < here.max_crashes
    /\ sub' = [sub EXCEPT !.at = "wait", !.pid = 0, !.seen = cdb.version,
                          !.crashes = @ + 1]
    /\ missed' = IF sub.at = "signal" /\ pc # "off" THEN missed \cup {"unsignalled"} ELSE missed
    /\ UNCHANGED <<site, cdb, file, pid, pc, signal_vars, rule_vars, environment_vars,
                   pipeline_vars, error>>

Subscriber == WriteSnapshot \/ SnapshotFails \/ Rename \/ SignalFails \/ Signal

-----------------------------------------------------------------------------
Init ==
    /\ site \in DOMAIN Sites
    /\ file = [name |-> here.setting, version |-> 0, complete |-> TRUE] /\ cdb = file
    /\ sub = [at |-> "wait", seen |-> 0, snapshot |-> file, pid |-> 0, crashes |-> 0]
    /\ pid = 0 /\ pc = "off" /\ handlers = FALSE /\ quit = FALSE /\ reload = FALSE
    /\ config = None /\ loaded = 0 /\ in_force = 0
    /\ eal = FALSE /\ started = {} /\ active = {} /\ initialized = FALSE
    /\ pipeline = FALSE /\ rings = {} /\ frags = {} /\ running = {}
    /\ worker_quit = FALSE /\ workers_started = FALSE
    /\ error = None /\ missed = {}

Next ==
    \/ Start \/ Main \/ Interrupt \/ Crash
    \/ \E w \in running : WorkerExits(w)
    \/ Commit \/ Subscriber \/ SubscriberRestarts

Spec == Init /\ [][Next]_vars

\* Main and the workers keep running: no call they make waits forever but the
\* join, and a worker looks at its quit flag in every iteration.
Fairness == WF_vars(Main) /\ WF_vars(\E w \in running : WorkerExits(w))

FairSpec == Spec /\ Fairness

-----------------------------------------------------------------------------
(* Properties                                                               *)

\* The types of the process and of the subscriber; workers, rings and tables
\* are those of the worker contexts.
TypeOK ==
    /\ pc \in {"off", "load", "eal", "ports", "link", "handlers", "compile", "construct",
               "run", "launch", "abandon", "loop", "reload", "publish", "join", "pipeline",
               "environment", "exit", "aborted"}
    /\ sub.at \in {"wait", "rename", "signal"}
    /\ cdb.version \in 0 .. here.max_commits /\ file.version \in 0 .. here.max_commits
    /\ {handlers, quit, reload, eal, initialized, pipeline, worker_quit, workers_started}
           \subseteq BOOLEAN
    /\ error \in Failures \cup {None}
    /\ running \subseteq frags
    /\ rings \cup frags \subseteq IF config = None THEN {} ELSE Workers

\* What a worker uses outlives it: while it runs there are the Pipeline, its
\* fragment table, its ring in flow_hash mode and an EAL with the active ports
\* started.  And an initialized environment and its Pipeline leave nothing
\* behind when main returns.  Not so when a fragment table cannot be created
\* (the workers launched before it keep running); and the tables stay when a
\* launch fails.
ReleasedInOrder ==
    /\ error # "frag" => \A w \in running :
          /\ pipeline /\ w \in frags /\ eal
          /\ active \subseteq started \/ cfg.injector.enabled
          /\ Distribution = "flow_hash" => w \in rings
    /\ pc = "exit" /\ error \notin {"load", "eal", "ports"} =>
          /\ ~eal /\ started = {} /\ rings = {}
          /\ error # "frag" => running = {}
          /\ error \notin {"frag", "launch"} => frags = {}

\* A configuration that LoadConfig accepts is not refused by the Pipeline:
\* its constructor never aborts on a link to DPI, and the queues suffice for
\* the distribution chosen, except with the injector, and in mode auto with
\* ports of net_pcap, whose receive queues nobody has compared.
AcceptedRuns ==
    /\ pc # "aborted"
    /\ error = "queues" /\ config # None =>
          \/ cfg.injector.enabled
          \/ here.pcap /\ cfg.packet_distribution = "auto"

\* With the main loop idle and the subscriber waiting, the rules in force are
\* those of the file, unless the reload was rejected or cancelled, or the
\* signal was lost: before the handlers were there, or because the subscriber
\* could not send it (it died, or knows the pid of an earlier process).
LagExplained ==
    /\ pc = "loop" /\ ~reload /\ ~quit /\ sub.at # "signal" /\ missed = {}
    => in_force = file.version

\* Once the handlers are there, a quit signal ends the process, whatever part
\* of start-up, reload or shutdown it interrupts and whatever fails then.
ShutdownCompletes == quit ~> pc = "off"

\* The file and the rules in force are the published and the current version
\* of Publication; a file that is not complete is no committed version.
P == INSTANCE Publication WITH
        committed <- cdb.version,
        published <- IF file.complete THEN file.version ELSE cdb.version + 1

\* Through failing snapshots, crashes on both sides, early and lost signals,
\* rejected reloads and restarts, the control plane keeps what Publication
\* promises: the file is always one whole commit, never an older one than
\* before, and so are the rules that main and MaybeReload put in force.
PublicationKept == P!Spec

=============================================================================
