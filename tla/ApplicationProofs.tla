------------------------- MODULE ApplicationProofs --------------------------
(***************************************************************************)
(* Proofs about Application, for every set of sites and configurations:    *)
(* the control plane implements Publication, the rules in force lag behind *)
(* the file only for the reasons that LagExplained lists, what workers use *)
(* outlives them, and the Pipeline refuses no configuration that was       *)
(* accepted, except as AcceptedRuns says.                                  *)
(***************************************************************************)
EXTENDS Application, FiniteSetTheorems, TLAPS

-----------------------------------------------------------------------------
(* Versions                                                                 *)

\* The subscriber's state has the fields it starts with.
SubscriberShape ==
    sub = [at |-> sub.at, seen |-> sub.seen, snapshot |-> sub.snapshot,
           pid |-> sub.pid, crashes |-> sub.crashes]

\* Versions are numbers, and every file is a whole commit.
Versions ==
    /\ cdb.version \in Nat /\ file.version \in Nat /\ sub.snapshot.version \in Nat
    /\ loaded \in Nat /\ in_force \in Nat
    /\ cdb.complete = TRUE /\ file.complete = TRUE /\ sub.snapshot.complete = TRUE

\* What is in force was loaded, what was loaded was the file, and the file was
\* committed; a snapshot about to be renamed lies between file and commit.
VersionOrder ==
    /\ in_force <= loaded /\ loaded <= file.version /\ file.version <= cdb.version
    /\ sub.snapshot.version <= cdb.version
    /\ sub.at = "rename" => file.version <= sub.snapshot.version

VersionInv == SubscriberShape /\ Versions /\ VersionOrder

\* The steps of main and of the workers that neither load nor put in force.
Quiet ==
    \/ Start \/ InitEal \/ SetupPort \/ CheckLinkStatus \/ InstallSignalHandlers
    \/ CompileRules \/ Run \/ LaunchWorker \/ FragmentTableFails \/ LaunchFails \/ Abandon
    \/ TakeRequest \/ StopWorkers \/ JoinWorkers \/ DestroyPipeline \/ DestroyEnvironment
    \/ Exit \/ Interrupt \/ Crash \/ \E w \in running : WorkerExits(w)

\* Every step of the process is one of the quiet ones, or Load, Construct,
\* ReloadConfig or ReloadPublish.
LEMMA StepCases ==
  Next => \/ Quiet \/ Load \/ Construct \/ ReloadConfig \/ ReloadPublish
          \/ Commit \/ WriteSnapshot \/ SnapshotFails \/ Rename \/ SignalFails \/ Signal
          \/ SubscriberRestarts
  BY DEF Next, Main, Subscriber, Quiet

\* The quiet steps leave files, subscriber and versions alone.
LEMMA QuietStep == Quiet => UNCHANGED <<cdb, file, sub, loaded, in_force>>
  <1> SUFFICES ASSUME Quiet PROVE UNCHANGED <<cdb, file, sub, loaded, in_force>>
    OBVIOUS
  <1>1. CASE Start \/ InitEal \/ SetupPort \/ CheckLinkStatus \/ InstallSignalHandlers
    BY <1>1 DEF Start, InitEal, SetupPort, CheckLinkStatus, InstallSignalHandlers,
                confd_vars, rule_vars
  <1>2. CASE CompileRules \/ Run \/ LaunchWorker \/ FragmentTableFails \/ LaunchFails \/ Abandon
    BY <1>2 DEF CompileRules, Run, LaunchWorker, FragmentTableFails, LaunchFails, Abandon,
                confd_vars, rule_vars
  <1>3. CASE TakeRequest \/ StopWorkers \/ JoinWorkers \/ DestroyPipeline \/ DestroyEnvironment
    BY <1>3 DEF TakeRequest, StopWorkers, JoinWorkers, DestroyPipeline, DestroyEnvironment,
                confd_vars, rule_vars
  <1>4. CASE Exit \/ Interrupt \/ Crash
    BY <1>4 DEF Exit, Interrupt, Crash, confd_vars
  <1>5. CASE \E w \in running : WorkerExits(w)
    BY <1>5 DEF WorkerExits, confd_vars, rule_vars
  <1> QED
    BY <1>1, <1>2, <1>3, <1>4, <1>5 DEF Quiet

LEMMA VersionInit == Init => VersionInv
  BY DEF Init, VersionInv, SubscriberShape, Versions, VersionOrder

\* VersionInv is inductive.
LEMMA VersionStep == VersionInv /\ [Next]_vars => VersionInv'
  <1> SUFFICES ASSUME VersionInv, [Next]_vars PROVE VersionInv'
    OBVIOUS
  <1> USE DEF VersionInv, SubscriberShape, Versions, VersionOrder
  <1>1. CASE Quiet
    BY <1>1, QuietStep
  <1>2. CASE Load
    BY <1>2 DEF Load, confd_vars
  <1>3. CASE Construct
    BY <1>3 DEF Construct, confd_vars
  <1>4. CASE ReloadConfig
    BY <1>4 DEF ReloadConfig, confd_vars
  <1>5. CASE ReloadPublish
    BY <1>5 DEF ReloadPublish, confd_vars
  <1>6. CASE Commit
    BY <1>6 DEF Commit, process_vars, rule_vars
  <1>7. CASE WriteSnapshot
    <2>1. sub' = [at |-> "rename", seen |-> cdb.version, snapshot |-> cdb,
                  pid |-> sub.pid, crashes |-> sub.crashes]
      BY <1>7 DEF WriteSnapshot
    <2>2. UNCHANGED <<cdb, file, loaded, in_force>>
      BY <1>7 DEF WriteSnapshot, process_vars, rule_vars
    <2> QED
      BY <2>1, <2>2
  <1>8. CASE SnapshotFails
    BY <1>8 DEF SnapshotFails, process_vars, rule_vars
  <1>9. CASE Rename
    BY <1>9 DEF Rename, process_vars, rule_vars
  <1>10. CASE SignalFails
    BY <1>10 DEF SignalFails, rule_vars
  <1>11. CASE Signal
    BY <1>11 DEF Signal
  <1>12. CASE SubscriberRestarts
    BY <1>12 DEF SubscriberRestarts, rule_vars
  <1>13. CASE UNCHANGED vars
    BY <1>13 DEF vars, confd_vars, process_vars, rule_vars
  <1> QED
    BY StepCases, <1>1, <1>2, <1>3, <1>4, <1>5, <1>6, <1>7, <1>8, <1>9, <1>10, <1>11, <1>12, <1>13

-----------------------------------------------------------------------------
(* The control plane implements Publication.                                *)

LEMMA PublicationInit == Init => P!Init
  BY DEF Init, P!Init

\* Commit is Commit, Rename is Publish, Construct and ReloadPublish are TakeUp;
\* everything else is invisible.
LEMMA PublicationStep ==
  VersionInv /\ [Next]_vars
    => [P!Next]_<<cdb.version, IF file.complete THEN file.version ELSE cdb.version + 1, in_force>>
  <1> DEFINE published == IF file.complete THEN file.version ELSE cdb.version + 1
             seen == <<cdb.version, published, in_force>>
  <1> SUFFICES ASSUME VersionInv, [Next]_vars PROVE [P!Next]_seen
    OBVIOUS
  <1> USE DEF VersionInv, Versions, VersionOrder
  <1>1. CASE UNCHANGED <<cdb, file, in_force>>
    BY <1>1
  <1>2. CASE Construct \/ ReloadPublish
    <2>1. UNCHANGED <<cdb, file>> /\ in_force' \in {in_force, loaded}
      BY <1>2 DEF Construct, ReloadPublish, confd_vars
    <2>2. P!TakeUp
      BY <2>1 DEF P!TakeUp
    <2> QED
      BY <2>2 DEF P!Next
  <1>3. CASE Commit
    <2>1. P!Commit
      BY <1>3 DEF Commit, P!Commit, process_vars, rule_vars
    <2> QED
      BY <2>1 DEF P!Next
  <1>4. CASE Rename
    <2>1. P!Publish
      BY <1>4 DEF Rename, P!Publish, process_vars, rule_vars
    <2> QED
      BY <2>1 DEF P!Next
  <1>5. CASE Load \/ ReloadConfig
    BY <1>1, <1>5 DEF Load, ReloadConfig, confd_vars
  <1>6. CASE WriteSnapshot \/ SnapshotFails
    BY <1>1, <1>6 DEF WriteSnapshot, SnapshotFails, process_vars, rule_vars
  <1>7. CASE SignalFails \/ Signal \/ SubscriberRestarts
    BY <1>1, <1>7 DEF SignalFails, Signal, SubscriberRestarts, rule_vars
  <1>8. CASE Quiet
    BY <1>1, <1>8, QuietStep
  <1>9. CASE UNCHANGED vars
    BY <1>1, <1>9 DEF vars, confd_vars, process_vars, rule_vars
  <1> QED
    BY StepCases, <1>2, <1>3, <1>4, <1>5, <1>6, <1>7, <1>8, <1>9

\* The subscriber, main and MaybeReload keep what Publication promises,
\* whatever fails, is lost or crashes: the file is always one whole commit,
\* and neither it nor the rules in force ever go back to an older one.
THEOREM ControlPlaneImplementsPublication == Spec => PublicationKept
  BY VersionInit, VersionStep, PublicationInit, PublicationStep, PTL
     DEF Spec, PublicationKept, P!Spec

-----------------------------------------------------------------------------
(* Rules in force and the file                                              *)

\* v is the version of the file, or it is known why it need not be.
Fresh(v) == v = file.version \/ sub.at = "signal" \/ reload \/ missed # {} \/ quit

\* Where main has read the file and not yet put its rules in force, and where
\* it has.
HoldsLoaded == pc \in {"eal", "ports", "link", "handlers", "compile", "construct", "publish"}
HoldsInForce == pc \in {"run", "launch", "loop"}

LagInv == (HoldsLoaded => Fresh(loaded)) /\ (HoldsInForce => Fresh(in_force))

LEMMA LagInit == Init => LagInv
  BY DEF Init, LagInv, HoldsLoaded, HoldsInForce

\* LagInv is inductive, given the shape of the subscriber's state.
LEMMA LagStep == SubscriberShape /\ LagInv /\ [Next]_vars => LagInv'
  <1> SUFFICES ASSUME SubscriberShape, LagInv, [Next]_vars PROVE LagInv'
    OBVIOUS
  <1> USE DEF LagInv, HoldsLoaded, HoldsInForce, Fresh
  <1>1. CASE Start \/ InitEal \/ SetupPort \/ CheckLinkStatus \/ InstallSignalHandlers
    BY <1>1 DEF Start, InitEal, SetupPort, CheckLinkStatus, InstallSignalHandlers,
                Goto, Leave, confd_vars, rule_vars, signal_vars
  <1>2. CASE CompileRules \/ Run \/ LaunchWorker \/ FragmentTableFails \/ LaunchFails \/ Abandon
    BY <1>2 DEF CompileRules, Run, LaunchWorker, FragmentTableFails, LaunchFails, Abandon,
                Goto, Leave, confd_vars, rule_vars, signal_vars
  <1>3. CASE TakeRequest \/ StopWorkers \/ JoinWorkers \/ DestroyPipeline \/ DestroyEnvironment
    BY <1>3 DEF TakeRequest, StopWorkers, JoinWorkers, DestroyPipeline, DestroyEnvironment,
                Goto, confd_vars, rule_vars, signal_vars
  <1>4. CASE Exit \/ Interrupt \/ Crash
    BY <1>4 DEF Exit, Interrupt, Crash, NoProcess, confd_vars
  <1>5. CASE \E w \in running : WorkerExits(w)
    BY <1>5 DEF WorkerExits, confd_vars, rule_vars, signal_vars
  <1>6. CASE Load
    BY <1>6 DEF Load, Goto, Leave, confd_vars
  <1>7. CASE Construct
    BY <1>7 DEF Construct, Goto, confd_vars, signal_vars
  <1>8. CASE ReloadConfig
    BY <1>8 DEF ReloadConfig, Goto, confd_vars, signal_vars
  <1>9. CASE ReloadPublish
    BY <1>9 DEF ReloadPublish, Goto, confd_vars, signal_vars
  <1>10. CASE Commit
    BY <1>10 DEF Commit, process_vars, rule_vars, signal_vars
  <1>11. CASE WriteSnapshot \/ SnapshotFails
    BY <1>11 DEF WriteSnapshot, SnapshotFails, SubscriberShape, process_vars, rule_vars,
                 signal_vars
  <1>12. CASE Rename
    BY <1>12 DEF Rename, SubscriberShape
  <1>13. CASE SignalFails
    BY <1>13 DEF SignalFails, SubscriberShape, rule_vars, signal_vars
  <1>14. CASE Signal
    BY <1>14 DEF Signal, NoProcess, SubscriberShape, signal_vars
  <1>15. CASE SubscriberRestarts
    BY <1>15 DEF SubscriberRestarts, SubscriberShape, rule_vars, signal_vars
  <1>16. CASE UNCHANGED vars
    BY <1>16 DEF vars, confd_vars, process_vars, rule_vars, signal_vars
  <1> QED
    BY StepCases, <1>1, <1>2, <1>3, <1>4, <1>5, <1>6, <1>7, <1>8, <1>9, <1>10, <1>11, <1>12,
       <1>13, <1>14, <1>15, <1>16 DEF Quiet

\* Whatever is committed, signalled, lost, rejected or restarted, an idle main
\* loop has the rules of the file in force, or there is one of the reasons
\* that LagExplained names.
THEOREM RulesLagOnlyExplained == Spec => []LagExplained
  <1>1. LagInv => LagExplained
    BY DEF LagInv, HoldsInForce, Fresh, LagExplained
  <1>2. VersionInv => SubscriberShape
    BY DEF VersionInv
  <1> QED
    BY VersionInit, VersionStep, LagInit, LagStep, <1>1, <1>2, PTL DEF Spec

-----------------------------------------------------------------------------
(* Resources outlive their users.                                           *)

\* Files are known configurations, and so is what main has loaded.
NamesInv ==
    /\ site \in DOMAIN Sites
    /\ {cdb.name, file.name, sub.snapshot.name} \subseteq DOMAIN Settings
    /\ pc \in {"eal", "ports", "link", "handlers", "compile", "construct", "run"} =>
          config \in DOMAIN Settings /\ Loaded[config] # None

\* The ports started are active, and active ports are started but the
\* injector's.
PortsOK == started \subseteq active /\ (active \subseteq started \/ cfg.injector.enabled)

\* While main sets up the environment and while it may have workers.
SettingUp == pc \in {"off", "load", "eal", "ports", "link", "handlers", "compile", "construct"}
WithWorkers == pc \in {"launch", "abandon", "loop", "reload", "publish", "join"}
Leaving == pc \in {"pipeline", "environment", "exit"}

\* What there is of the environment at each step of main.
EnvironmentInv ==
    /\ pc \in {"off", "load", "eal"} => started = {} /\ active = {}
    /\ pc = "ports" => eal /\ started = active
    /\ pc = "link" => eal /\ PortsOK
    /\ pc \in {"handlers", "compile", "construct", "run"} \/ WithWorkers =>
          eal /\ initialized /\ PortsOK
    /\ pc = "pipeline" => initialized /\ started \subseteq active
    /\ pc = "environment" /\ error \notin {"eal", "ports"} =>
          initialized /\ started \subseteq active
    /\ pc = "exit" /\ error \notin {"load", "eal", "ports"} => ~eal /\ started = {}

\* What there is of the Pipeline and its workers.  While workers are launched
\* their fragment tables are those of a prefix of the contexts.
WorkersInv ==
    /\ SettingUp \/ pc \in {"run", "aborted"} => running = {} /\ frags = {} /\ rings = {}
    /\ pc = "run" \/ WithWorkers => pipeline
    /\ WithWorkers =>
          /\ running \subseteq frags /\ frags \subseteq Workers
          /\ Distribution = "flow_hash" => rings = Workers
    /\ pc = "launch" => \E k \in 0 .. cfg.worker_count - 1 : frags = 1 .. k
    /\ pc = "launch" => cfg.worker_count \in Nat
    /\ pc = "abandon" => error = "launch"
    /\ pc \in {"environment", "exit"} => rings = {}
    /\ Leaving => /\ error # "frag" => running = {}
                  /\ error \notin {"frag", "launch"} => frags = {}

PcOK == SettingUp \/ pc \in {"run", "aborted"} \/ WithWorkers \/ Leaving

ReleaseInv == PcOK /\ NamesInv /\ EnvironmentInv /\ WorkersInv

\* What the configuration fixes stays while main has it.
LEMMA SameConfig ==
  ASSUME UNCHANGED <<site, config>>
  PROVE  cfg' = cfg /\ Workers' = Workers /\ Distribution' = Distribution
  BY DEF cfg, Workers, Distribution, ResolvePacketDistribution, Loaded, here

\* ValidateWorkerQueueConfig asks for a worker.
LEMMA OneWorkerAtLeast ==
  ASSUME config \in DOMAIN Settings, Loaded[config] # None
  PROVE  cfg.worker_count \in Nat \ {0}
  <1>1. cfg = LoadConfig(Settings[config]) /\ cfg # None
    BY DEF cfg, Loaded
  <1>2. cfg.worker_count \in Nat
    BY <1>1, SettingsAssumption
  <1>3. cfg.worker_count > 0
    BY <1>1 DEF LoadConfig, ValidateConfig, ValidateWorkerQueueConfig
  <1> QED
    BY <1>2, <1>3

LEMMA ReleaseInit == Init => ReleaseInv
  <1> SUFFICES ASSUME Init PROVE ReleaseInv
    OBVIOUS
  <1>1. NamesInv
    BY SitesAssumption DEF Init, NamesInv, here
  <1>2. PcOK /\ EnvironmentInv
    BY DEF Init, PcOK, EnvironmentInv, SettingUp, WithWorkers
  <1>3. WorkersInv
    BY DEF Init, WorkersInv, SettingUp, WithWorkers, Leaving
  <1> QED
    BY <1>1, <1>2, <1>3 DEF ReleaseInv

\* The end of a process, wherever it was.
LEMMA NoProcessReleases ==
  ASSUME NoProcess, NamesInv, UNCHANGED <<site, cdb, file, sub.snapshot>>
  PROVE  ReleaseInv'
  <1>1. PcOK' /\ EnvironmentInv'
    BY DEF NoProcess, PcOK, EnvironmentInv, SettingUp, WithWorkers
  <1>2. WorkersInv'
    BY DEF NoProcess, WorkersInv, SettingUp, WithWorkers, Leaving
  <1>3. NamesInv'
    BY DEF NoProcess, NamesInv
  <1> QED
    BY <1>1, <1>2, <1>3 DEF ReleaseInv

\* The steps of main up to the handlers.
LEMMA StartUpReleases ==
  ASSUME ReleaseInv,
         Start \/ Load \/ InitEal \/ SetupPort \/ CheckLinkStatus \/ InstallSignalHandlers
  PROVE  ReleaseInv'
  <1> USE DEF ReleaseInv, Goto, Leave
  <1>1. CASE Start
    BY <1>1, SameConfig DEF Start, PcOK, NamesInv, EnvironmentInv, WorkersInv, SettingUp,
       WithWorkers, Leaving, confd_vars, rule_vars, environment_vars, pipeline_vars
  <1>2. CASE Load
    BY <1>2 DEF Load, PcOK, NamesInv, EnvironmentInv, WorkersInv, SettingUp, WithWorkers,
       Leaving, Loaded, confd_vars, environment_vars, pipeline_vars
  <1>3. CASE InitEal
    BY <1>3, SameConfig DEF InitEal, PcOK, PortsOK, NamesInv, EnvironmentInv, WorkersInv,
       SettingUp, WithWorkers, Leaving, confd_vars, rule_vars, pipeline_vars
  <1>4. CASE SetupPort
    BY <1>4, SameConfig DEF SetupPort, PcOK, PortsOK, NamesInv, EnvironmentInv, WorkersInv,
       SettingUp, WithWorkers, Leaving, confd_vars, rule_vars, pipeline_vars
  <1>5. CASE CheckLinkStatus
    BY <1>5, SameConfig DEF CheckLinkStatus, PcOK, PortsOK, NamesInv, EnvironmentInv,
       WorkersInv, SettingUp, WithWorkers, Leaving, confd_vars, rule_vars, pipeline_vars
  <1>6. CASE InstallSignalHandlers
    BY <1>6, SameConfig DEF InstallSignalHandlers, PcOK, PortsOK, NamesInv, EnvironmentInv,
       WorkersInv, SettingUp, WithWorkers, Leaving, confd_vars, rule_vars, environment_vars,
       pipeline_vars
  <1> QED
    BY <1>1, <1>2, <1>3, <1>4, <1>5, <1>6

\* Compiling, the constructor, and what comes before the first launch.
LEMMA ConstructReleases ==
  ASSUME ReleaseInv, CompileRules \/ Construct \/ Run
  PROVE  ReleaseInv'
  <1> USE DEF ReleaseInv, Goto, Leave
  <1>1. CASE CompileRules
    BY <1>1, SameConfig DEF CompileRules, PcOK, PortsOK, NamesInv, EnvironmentInv, WorkersInv,
       SettingUp, WithWorkers, Leaving, confd_vars, rule_vars, environment_vars, pipeline_vars
  <1>2. CASE Construct
    BY <1>2, SameConfig DEF Construct, PcOK, PortsOK, NamesInv, EnvironmentInv, WorkersInv,
       SettingUp, WithWorkers, Leaving, confd_vars, environment_vars
  <1>3. CASE Run
    <2>1. UNCHANGED <<site, cdb, file, sub, config, eal, started, active, initialized,
                      pipeline, frags, running>> /\ pc = "run"
      BY <1>3 DEF Run, confd_vars, rule_vars, environment_vars
    <2>2. cfg' = cfg /\ Workers' = Workers /\ Distribution' = Distribution
      BY <2>1, SameConfig
    <2>3. PcOK' /\ NamesInv'
      BY <1>3, <2>1 DEF Run, PcOK, NamesInv, WithWorkers, Leaving, Loaded
    <2>4. EnvironmentInv'
      BY <1>3, <2>1, <2>2 DEF Run, EnvironmentInv, PortsOK, WithWorkers
    <2>5. CASE pc' = "launch"
      <3>1. cfg.worker_count \in Nat \ {0}
        BY <2>1, OneWorkerAtLeast DEF NamesInv
      <3>2. frags = 1 .. 0 /\ 0 \in 0 .. cfg.worker_count - 1
        BY <2>1, <3>1 DEF WorkersInv
      <3>3. Distribution = "flow_hash" => rings' = Workers
        BY <1>3, <2>5 DEF Run, CreateDispatchRings
      <3> QED
        BY <2>1, <2>2, <2>3, <2>4, <2>5, <3>1, <3>2, <3>3
           DEF WorkersInv, SettingUp, WithWorkers, Leaving
    <2>6. CASE pc' = "pipeline"
      BY <2>1, <2>3, <2>4, <2>6 DEF WorkersInv, SettingUp, WithWorkers, Leaving
    <2> QED
      BY <1>3, <2>5, <2>6 DEF Run
  <1> QED
    BY <1>1, <1>2, <1>3

\* Launching the workers, with both ways to fail.
LEMMA LaunchReleases ==
  ASSUME ReleaseInv, LaunchWorker \/ FragmentTableFails \/ LaunchFails \/ Abandon
  PROVE  ReleaseInv'
  <1> USE DEF ReleaseInv
  <1>1. /\ UNCHANGED <<site, cdb, file, sub, config, eal, started, active, initialized,
                       pipeline, rings>>
        /\ WithWorkers
    BY DEF LaunchWorker, FragmentTableFails, LaunchFails, Abandon, Goto, Leave, WithWorkers,
       confd_vars, rule_vars, environment_vars, pipeline_vars
  <1>2. cfg' = cfg /\ Workers' = Workers /\ Distribution' = Distribution
    BY <1>1, SameConfig
  <1>3. pc' \in {"launch", "loop", "abandon", "pipeline"}
    BY DEF LaunchWorker, FragmentTableFails, LaunchFails, Abandon, Goto, Leave
  <1>4. PcOK' /\ NamesInv' /\ EnvironmentInv'
    BY <1>1, <1>2, <1>3 DEF PcOK, NamesInv, EnvironmentInv, PortsOK, WithWorkers, Leaving
  <1>5. ASSUME pc = "launch"
        PROVE  /\ cfg.worker_count \in Nat /\ NextWorker \in Nat
               /\ NextWorker \in 1 .. cfg.worker_count
               /\ frags \cup {NextWorker} = 1 .. NextWorker
    <2>1. cfg.worker_count \in Nat
      BY <1>5 DEF WorkersInv
    <2>2. PICK k \in 0 .. cfg.worker_count - 1 : frags = 1 .. k
      BY <1>5 DEF WorkersInv
    <2>3. Cardinality(frags) = k
      BY <2>1, <2>2, FS_Interval
    <2> QED
      BY <2>1, <2>2, <2>3 DEF NextWorker
  <1>6. CASE LaunchWorker
    <2>1. pc = "launch" /\ frags' = frags \cup {NextWorker}
          /\ running' = running \cup {NextWorker}
      BY <1>6 DEF LaunchWorker
    <2>2. NextWorker # cfg.worker_count => NextWorker \in 0 .. cfg.worker_count - 1
      BY <1>5, <2>1
    <2>3. running' \subseteq frags' /\ frags' \subseteq Workers /\ frags' = 1 .. NextWorker
      BY <1>5, <2>1 DEF WorkersInv, WithWorkers, Workers
    <2>4. pc' = IF NextWorker = cfg.worker_count THEN "loop" ELSE "launch"
      BY <1>6 DEF LaunchWorker, Goto
    <2>5. WorkersInv'
      BY <1>1, <1>2, <1>5, <2>1, <2>2, <2>3, <2>4 DEF WorkersInv, SettingUp, WithWorkers, Leaving
    <2> QED
      BY <1>4, <2>5
  <1>7. CASE FragmentTableFails
    BY <1>1, <1>2, <1>4, <1>7 DEF FragmentTableFails, Leave, Goto, WorkersInv, SettingUp,
       WithWorkers, Leaving, pipeline_vars
  <1>8. CASE LaunchFails
    <2>1. pc = "launch" /\ pc' = "abandon" /\ error' = "launch"
          /\ frags' = frags \cup {NextWorker} /\ running' = running
      BY <1>8 DEF LaunchFails, Leave, Goto
    <2>2. running' \subseteq frags' /\ frags' \subseteq Workers
      BY <1>5, <2>1 DEF WorkersInv, WithWorkers, Workers
    <2>3. WorkersInv'
      BY <1>1, <1>2, <2>1, <2>2 DEF WorkersInv, SettingUp, WithWorkers, Leaving
    <2> QED
      BY <1>4, <2>3
  <1>9. CASE Abandon
    BY <1>1, <1>2, <1>4, <1>9 DEF Abandon, Goto, WorkersInv, SettingUp, WithWorkers, Leaving,
       pipeline_vars
  <1> QED
    BY <1>6, <1>7, <1>8, <1>9

\* The main loop and the end of a worker's.
LEMMA LoopReleases ==
  ASSUME ReleaseInv,
         \/ TakeRequest \/ ReloadConfig \/ ReloadPublish \/ StopWorkers
         \/ \E w \in running : WorkerExits(w)
  PROVE  ReleaseInv'
  <1> USE DEF ReleaseInv
  <1>1. /\ UNCHANGED <<site, cdb, file, sub, config, eal, started, active, initialized,
                       pipeline, rings, frags, error>>
        /\ running' \subseteq running
    BY DEF TakeRequest, ReloadConfig, ReloadPublish, StopWorkers, WorkerExits, confd_vars,
       rule_vars, environment_vars, pipeline_vars
  <1>2. cfg' = cfg /\ Workers' = Workers /\ Distribution' = Distribution
    BY <1>1, SameConfig
  <1>3. \/ pc' = pc
        \/ /\ pc \in {"loop", "reload", "publish"}
           /\ pc' \in {"loop", "reload", "publish", "join"}
    BY DEF TakeRequest, ReloadConfig, ReloadPublish, StopWorkers, WorkerExits, Goto
  <1>4. PcOK' /\ NamesInv' /\ EnvironmentInv'
    BY <1>1, <1>2, <1>3 DEF PcOK, NamesInv, EnvironmentInv, PortsOK, SettingUp, WithWorkers,
       Leaving, Loaded
  <1>5. WorkersInv'
    BY <1>1, <1>2, <1>3 DEF WorkersInv, SettingUp, WithWorkers, Leaving
  <1> QED
    BY <1>4, <1>5

\* Joining the workers and the destructors.
LEMMA LeavingReleases ==
  ASSUME ReleaseInv, JoinWorkers \/ DestroyPipeline \/ DestroyEnvironment
  PROVE  ReleaseInv'
  <1> USE DEF ReleaseInv, Goto
  <1>1. CASE JoinWorkers
    BY <1>1 DEF JoinWorkers, PcOK, PortsOK, NamesInv, EnvironmentInv, WorkersInv,
       SettingUp, WithWorkers, Leaving, confd_vars, rule_vars, environment_vars
  <1>2. CASE DestroyPipeline
    BY <1>2 DEF DestroyPipeline, PcOK, NamesInv, EnvironmentInv, WorkersInv,
       SettingUp, WithWorkers, Leaving, confd_vars, rule_vars, environment_vars
  <1>3. CASE DestroyEnvironment
    BY <1>3 DEF DestroyEnvironment, PcOK, NamesInv, EnvironmentInv, WorkersInv,
       SettingUp, WithWorkers, Leaving, confd_vars, rule_vars, pipeline_vars
  <1> QED
    BY <1>1, <1>2, <1>3

\* Steps that leave the process as it is.
LEMMA OutsideReleases ==
  ASSUME ReleaseInv, NamesInv',
         UNCHANGED <<site, pc, config, error, environment_vars, pipeline_vars>>
  PROVE  ReleaseInv'
  <1>1. cfg' = cfg /\ Workers' = Workers /\ Distribution' = Distribution
    BY SameConfig
  <1>2. PcOK' /\ EnvironmentInv'
    BY <1>1 DEF ReleaseInv, PcOK, EnvironmentInv, PortsOK, SettingUp, WithWorkers, Leaving,
       environment_vars
  <1>3. WorkersInv'
    BY <1>1 DEF ReleaseInv, WorkersInv, SettingUp, WithWorkers, Leaving, pipeline_vars
  <1> QED
    BY <1>2, <1>3 DEF ReleaseInv

\* Commits, the subscriber and signals.
LEMMA ControlReleases ==
  ASSUME ReleaseInv, SubscriberShape,
         \/ Commit \/ WriteSnapshot \/ SnapshotFails \/ Rename \/ SignalFails \/ Signal
         \/ SubscriberRestarts \/ Interrupt \/ Crash \/ Exit
  PROVE  ReleaseInv'
  <1> USE DEF ReleaseInv
  <1>1. CASE Commit \/ WriteSnapshot \/ SnapshotFails \/ Rename
    <2>1. UNCHANGED <<site, process_vars>>
      BY <1>1 DEF Commit, WriteSnapshot, SnapshotFails, Rename
    <2>2. {cdb'.name, file'.name, sub'.snapshot.name} \subseteq DOMAIN Settings
      <3>1. CASE Commit
        BY <3>1, SitesAssumption DEF Commit, NamesInv, here
      <3>2. CASE WriteSnapshot
        <4>1. sub'.snapshot = cdb
          BY <3>2 DEF WriteSnapshot, SubscriberShape
        <4> QED
          BY <3>2, <4>1 DEF WriteSnapshot, NamesInv
      <3>3. CASE SnapshotFails
        BY <3>3 DEF SnapshotFails, NamesInv, SubscriberShape
      <3>4. CASE Rename
        BY <3>4 DEF Rename, NamesInv, SubscriberShape
      <3> QED
        BY <1>1, <3>1, <3>2, <3>3, <3>4
    <2>3. NamesInv'
      BY <2>1, <2>2 DEF NamesInv, process_vars, rule_vars, Loaded
    <2> QED
      BY <2>1, <2>3, OutsideReleases DEF process_vars, rule_vars
  <1>2. CASE SignalFails \/ Signal \/ SubscriberRestarts \/ Interrupt \/ Crash \/ Exit
    <2>1. UNCHANGED <<site, cdb, file, sub.snapshot>>
      BY <1>2 DEF SignalFails, Signal, SubscriberRestarts, Interrupt, Crash, Exit,
         SubscriberShape, confd_vars
    <2>2. \/ NoProcess
          \/ UNCHANGED <<pc, config, error, environment_vars, pipeline_vars>>
      BY <1>2 DEF SignalFails, Signal, SubscriberRestarts, Interrupt, Crash, Exit, rule_vars
    <2>3. CASE NoProcess
      BY <2>1, <2>3, NoProcessReleases
    <2>4. CASE UNCHANGED <<pc, config, error, environment_vars, pipeline_vars>>
      <3>1. NamesInv'
        BY <2>1, <2>4 DEF NamesInv, Loaded
      <3> QED
        BY <2>1, <2>4, <3>1, OutsideReleases
    <2> QED
      BY <2>2, <2>3, <2>4
  <1> QED
    BY <1>1, <1>2

\* ReleaseInv is inductive, given the shape of the subscriber's state.
LEMMA ReleaseStep == SubscriberShape /\ ReleaseInv /\ [Next]_vars => ReleaseInv'
  <1> SUFFICES ASSUME SubscriberShape, ReleaseInv, [Next]_vars PROVE ReleaseInv'
    OBVIOUS
  <1>1. CASE UNCHANGED vars
    <2>1. UNCHANGED <<site, cdb, file, sub, pc, config, error, environment_vars, pipeline_vars>>
      BY <1>1 DEF vars, confd_vars, process_vars, rule_vars
    <2>2. NamesInv'
      BY <2>1 DEF ReleaseInv, NamesInv, Loaded
    <2> QED
      BY <2>1, <2>2, OutsideReleases
  <1>2. CASE Next
    BY <1>2, StepCases, StartUpReleases, ConstructReleases, LaunchReleases, LoopReleases,
       LeavingReleases, ControlReleases DEF Quiet
  <1> QED
    BY <1>1, <1>2

\* Whatever step of start-up, launch, reload or shutdown fails or is
\* interrupted, workers never outlive what they use, and an initialized
\* environment is released, but for what ReleasedInOrder excepts.
THEOREM ResourcesOutliveWorkers == Spec => []ReleasedInOrder
  <1>1. ReleaseInv => ReleasedInOrder
    BY DEF ReleaseInv, ReleasedInOrder, PcOK, EnvironmentInv, WorkersInv, PortsOK, SettingUp,
       WithWorkers, Leaving
  <1>2. VersionInv => SubscriberShape
    BY DEF VersionInv
  <1> QED
    BY VersionInit, VersionStep, ReleaseInit, ReleaseStep, <1>1, <1>2, PTL DEF Spec

-----------------------------------------------------------------------------
(* What LoadConfig accepts, the Pipeline accepts.                            *)

\* The two differ by the injector and by ports of net_pcap in mode auto.
Excused == cfg.injector.enabled \/ (here.pcap /\ cfg.packet_distribution = "auto")

AcceptedInv ==
    /\ pc # "aborted"
    /\ pc \in {"off", "load"} => error # "queues"
    /\ error = "queues" /\ config # None => Excused

\* What the validators have established of a configuration in use.
LEMMA Validated ==
  ASSUME config \in DOMAIN Settings, Loaded[config] # None
  PROVE  /\ Resolves(cfg)
         /\ QueuesSuffice \/ Excused
  <1>1. /\ cfg = LoadConfig(Settings[config]) /\ cfg # None
        /\ ValidateConfig(cfg)
    BY DEF cfg, Loaded, LoadConfig
  <1>2. Resolves(cfg)
    BY <1>1 DEF ValidateConfig, ValidateDpiLinks, Resolves
  <1>3. ValidateWorkerQueueConfig(cfg)
    BY <1>1 DEF ValidateConfig
  <1>4. {cfg.worker_count, cfg.receive_queues, cfg.transmit_queues} \subseteq Nat
    BY <1>1, SettingsAssumption
  <1>5. ASSUME ~Excused, Distribution = "queue"
        PROVE  cfg.receive_queues >= cfg.worker_count
    BY <1>3, <1>4, <1>5 DEF Excused, Distribution, ResolvePacketDistribution,
       ValidateWorkerQueueConfig
  <1> QED
    BY <1>2, <1>3, <1>4, <1>5 DEF QueuesSuffice, Excused, ValidateWorkerQueueConfig

\* No step has failed where error is None.
LEMMA NoneIsNoStep == None # "queues"
  BY NoneAssumption DEF Failures

LEMMA AcceptedInit == Init => AcceptedInv
  BY NoneIsNoStep DEF Init, AcceptedInv

\* AcceptedInv is inductive, since main only uses what was validated.

LEMMA AcceptedStep == NamesInv /\ AcceptedInv /\ [Next]_vars => AcceptedInv'
  <1> SUFFICES ASSUME NamesInv, AcceptedInv, [Next]_vars PROVE AcceptedInv'
    OBVIOUS
  <1> USE DEF AcceptedInv
  <1>1. ASSUME UNCHANGED <<site, config>> PROVE Excused' = Excused
    BY <1>1 DEF Excused, cfg, Loaded, here
  <1>2. CASE Load \/ Start
    BY <1>1, <1>2 DEF Load, Start, Goto, Leave, rule_vars
  <1>3. CASE InitEal \/ SetupPort \/ CheckLinkStatus \/ InstallSignalHandlers \/ CompileRules
    BY <1>1, <1>3 DEF InitEal, SetupPort, CheckLinkStatus, InstallSignalHandlers, CompileRules,
       Goto, Leave, rule_vars
  <1>4. CASE Construct
    BY <1>1, <1>4, Validated DEF Construct, Goto, NamesInv
  <1>5. CASE Run
    BY <1>1, <1>5, Validated DEF Run, Goto, Leave, NamesInv, rule_vars
  <1>6. CASE LaunchWorker \/ FragmentTableFails \/ LaunchFails \/ Abandon
    BY <1>1, <1>6 DEF LaunchWorker, FragmentTableFails, LaunchFails, Abandon, Goto, Leave,
       rule_vars
  <1>7. CASE TakeRequest \/ ReloadConfig \/ ReloadPublish \/ StopWorkers
    BY <1>1, <1>7 DEF TakeRequest, ReloadConfig, ReloadPublish, StopWorkers, Goto, rule_vars
  <1>8. CASE JoinWorkers \/ DestroyPipeline \/ DestroyEnvironment
    BY <1>1, <1>8 DEF JoinWorkers, DestroyPipeline, DestroyEnvironment, Goto, rule_vars
  <1>9. CASE NoProcess
    BY <1>9, NoneIsNoStep DEF NoProcess
  <1>10. CASE UNCHANGED <<site, pc, config, error>>
    BY <1>1, <1>10
  <1>11. CASE Exit \/ Interrupt \/ Crash \/ Signal
    BY <1>9, <1>10, <1>11 DEF Exit, Interrupt, Crash, Signal
  <1>12. CASE \/ Commit \/ WriteSnapshot \/ SnapshotFails \/ Rename \/ SignalFails
              \/ SubscriberRestarts \/ UNCHANGED vars \/ \E w \in running : WorkerExits(w)
    BY <1>10, <1>12 DEF Commit, WriteSnapshot, SnapshotFails, Rename, SignalFails,
       SubscriberRestarts, WorkerExits, vars, process_vars, rule_vars
  <1> QED
    BY StepCases, <1>2, <1>3, <1>4, <1>5, <1>6, <1>7, <1>8, <1>11, <1>12 DEF Quiet

\* The checks of ValidateConfig are as strong as those of the Pipeline: no
\* accepted configuration makes its constructor abort, and none has too few
\* queues for the distribution chosen, but for the two cases of AcceptedRuns.
THEOREM ValidatedConfigsRun == Spec => []AcceptedRuns
  <1>1. AcceptedInv => AcceptedRuns
    BY DEF AcceptedInv, AcceptedRuns, Excused
  <1>2. (VersionInv => SubscriberShape) /\ (ReleaseInv => NamesInv)
    BY DEF VersionInv, ReleaseInv
  <1> QED
    BY VersionInit, VersionStep, ReleaseInit, ReleaseStep, AcceptedInit, AcceptedStep,
       <1>1, <1>2, PTL DEF Spec

=============================================================================
