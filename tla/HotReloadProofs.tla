-------------------------- MODULE HotReloadProofs --------------------------
(***************************************************************************)
(* Proofs about HotReload: it implements ReloadBarrier, and with more than *)
(* one worker no rule table is freed while a worker uses it.               *)
(***************************************************************************)
EXTENDS HotReload, ReloadBarrierProofs

-----------------------------------------------------------------------------
(* The tables add nothing to the control: HotReload implements              *)
(* ReloadBarrier.                                                           *)

\* Each step of HotReload is a step of ReloadBarrier or leaves its state
\* alone.
LEMMA HotStepIsStep == [HotNext]_hot_vars => [Next]_vars
  <1> SUFFICES ASSUME [HotNext]_hot_vars PROVE [Next]_vars
    OBVIOUS
  <1>1. CASE Environment
    BY <1>1 DEF Next
  <1>2. CASE HotMain
    BY <1>2 DEF HotMain, ControlStep, BuildTables, CancelReload, PublishRules,
                PublishDpiRules, ReplaceFlowTable, Main, Next
  <1>3. CASE \E w \in Workers : HotWorker(w)
    <2>1. PICK w \in Workers : HotWorker(w)
      BY <1>3
    <2>2. Worker(w) \/ UNCHANGED vars
      BY <2>1 DEF HotWorker, Worker, LookupFlow, LoadRules, LoadDpiRules, InsertFlow,
                  NextPacket, NextBurst, HotEndIteration, At
    <2> QED
      BY <2>2 DEF Next
  <1>4. CASE UNCHANGED hot_vars
    BY <1>4 DEF hot_vars
  <1> QED
    BY <1>1, <1>2, <1>3, <1>4 DEF HotNext

\* The reload with its tables implements the control protocol, so what is
\* proved of the barrier, the signals and the pause counter holds here too.
THEOREM HotReloadImplementsBarrier == HotSpec => Spec
  <1>1. HotInit => Init
    BY DEF HotInit
  <1> QED
    BY <1>1, HotStepIsStep, PTL DEF HotSpec, Spec

-----------------------------------------------------------------------------
(* The invariant behind FreedTablesUnused.                                  *)

\* Worker w uses a table of manager m.
Uses(w, m) ==
    \/ w \in UsersOf(active[m]) \/ w \in UsersOf(retired[m])
    \/ w \in UsersOf(prev_retired[m]) \/ w \in freed[m]

\* A worker outside a burst uses no rule table.
IdleUsesNothing ==
    \A w \in Workers, m \in Managers : worker_pc[w] # "burst" => ~Uses(w, m)

\* Once every worker has acknowledged, and until a manager swaps, nobody uses
\* the table it retired last: a worker that runs on uses the active one.
Acknowledged == main_pc = "verdict" /\ ~timed_out /\ ~force_quit

RetiredUnused ==
    /\ Acknowledged \/ main_pc = "swap_spi" => UsersOf(retired["spi"]) = {}
    /\ Acknowledged \/ main_pc \in {"swap_spi", "swap_dpi"} => UsersOf(retired["dpi"]) = {}

TableInv == HotTypeOK /\ IdleUsesNothing /\ RetiredUnused /\ FreedTablesUnused

\* What the pointer helpers do to the users of a table.
LEMMA PointerFacts ==
  ASSUME NEW p \in Pointer, NEW w \in Workers
  PROVE  /\ UsersOf(p) \in Table
         /\ Without(p, w) \in Pointer
         /\ Without(p, w) = Null <=> p = Null
         /\ UsersOf(Without(p, w)) = UsersOf(p) \ {w}
         /\ (IF p = Null THEN Null ELSE p \cup {w}) \in Pointer
         /\ (IF p = Null THEN Null ELSE p \cup {w}) = Null <=> p = Null
         /\ UsersOf(IF p = Null THEN Null ELSE p \cup {w}) \subseteq UsersOf(p) \cup {w}
  BY NullAssumption DEF Pointer, Table, UsersOf, Without

\* A worker that lets go of tables acquires none.
LEMMA LetGoFacts ==
  ASSUME HotTypeOK, NEW w \in Workers, NEW kinds \in SUBSET Kinds, LetGo(w, kinds)
  PROVE  /\ active' \in [Managers -> Pointer] /\ active'["spi"] # Null
         /\ retired' \in [Managers -> Pointer] /\ prev_retired' \in [Managers -> Pointer]
         /\ flow_table' \in Table /\ freed' \in [Kinds -> Table]
         /\ \A m \in Managers :
              /\ UsersOf(active'[m]) \subseteq UsersOf(active[m])
              /\ UsersOf(retired'[m]) \subseteq UsersOf(retired[m])
              /\ UsersOf(prev_retired'[m]) \subseteq UsersOf(prev_retired[m])
              /\ freed'[m] \subseteq freed[m]
              /\ m \in kinds => ~Uses(w, m)'
  <1>1. ASSUME NEW m \in Managers
        PROVE  /\ active[m] \in Pointer /\ retired[m] \in Pointer
               /\ prev_retired[m] \in Pointer /\ freed[m] \in Table
    BY DEF HotTypeOK, Kinds
  <1>2. ASSUME NEW m \in Managers
        PROVE  /\ active'[m] = IF m \in kinds THEN Without(active[m], w) ELSE active[m]
               /\ retired'[m] = IF m \in kinds THEN Without(retired[m], w) ELSE retired[m]
               /\ prev_retired'[m] = IF m \in kinds THEN Without(prev_retired[m], w)
                                                    ELSE prev_retired[m]
               /\ freed'[m] = IF m \in kinds THEN freed[m] \ {w} ELSE freed[m]
    BY DEF LetGo, Kinds
  <1>3. /\ active' \in [Managers -> Pointer]
        /\ retired' \in [Managers -> Pointer]
        /\ prev_retired' \in [Managers -> Pointer]
    BY <1>1, PointerFacts DEF LetGo
  <1>4. active'["spi"] # Null
    <2>1. "spi" \in Managers /\ active["spi"] \in Pointer /\ active["spi"] # Null
      BY <1>1 DEF HotTypeOK, Managers
    <2>2. active'["spi"] = Without(active["spi"], w) \/ active'["spi"] = active["spi"]
      BY <1>2, <2>1
    <2>3. Without(active["spi"], w) # Null
      BY <2>1, PointerFacts
    <2> QED
      BY <2>1, <2>2, <2>3
  <1>5. flow_table' \in Table /\ freed' \in [Kinds -> Table]
    BY DEF LetGo, HotTypeOK, Table
  <1>6. ASSUME NEW m \in Managers
        PROVE  /\ UsersOf(active'[m]) \subseteq UsersOf(active[m])
               /\ UsersOf(retired'[m]) \subseteq UsersOf(retired[m])
               /\ UsersOf(prev_retired'[m]) \subseteq UsersOf(prev_retired[m])
               /\ freed'[m] \subseteq freed[m]
               /\ m \in kinds => ~Uses(w, m)'
    <2>1. /\ UsersOf(Without(active[m], w)) = UsersOf(active[m]) \ {w}
          /\ UsersOf(Without(retired[m], w)) = UsersOf(retired[m]) \ {w}
          /\ UsersOf(Without(prev_retired[m], w)) = UsersOf(prev_retired[m]) \ {w}
      BY <1>1, <1>6, PointerFacts
    <2>2. CASE m \in kinds
      BY <1>2, <1>6, <2>1, <2>2 DEF Uses
    <2>3. CASE m \notin kinds
      BY <1>2, <1>6, <2>3
    <2> QED
      BY <2>2, <2>3
  <1> QED
    BY <1>3, <1>4, <1>5, <1>6

\* The empty table is no null pointer, and a compiled pair is well typed.
LEMMA CompiledFacts ==
  ASSUME NEW dpi_enabled \in BOOLEAN
  PROVE  /\ {} # Null /\ {} \in Table
         /\ Compiled(dpi_enabled) \in [Managers -> {Null, {}}]
         /\ Compiled(dpi_enabled) \in [Managers -> Pointer]
         /\ Compiled(dpi_enabled)["spi"] = {}
  BY NullAssumption DEF Compiled, Managers, Pointer, Table

\* Every step keeps the tables well typed and the active SPI table non-null.
LEMMA HotTypeStep ==
  ASSUME HotTypeOK, TypeOK', [HotNext]_hot_vars
  PROVE  HotTypeOK'
  <1>0. {} # Null /\ {} \in Table /\ {} \in Pointer
    BY NullAssumption DEF Table, Pointer
  <1>1. CASE Environment /\ UNCHANGED <<table_vars, flow_table, freed, stage>>
    BY <1>1 DEF HotTypeOK, table_vars, Environment, SignalReload, SignalQuit, WriteConfig
  <1>2. CASE ControlStep /\ UNCHANGED <<table_vars, flow_table, freed, stage>>
    <2>1. main_pc' \in {"raise", "wait", "verdict", "swap_spi"}
            => main_pc \in {"raise", "wait", "verdict", "swap_spi"}
      BY <1>2 DEF ControlStep, MainLoop, PollReloadFlag, LoadConfig, Abandon,
                  WaitForWorkers, RaiseBarrier, DecideReload, RepointWorkers,
                  LowerBarrier, StopWorkers, JoinWorkers
    <2> QED
      BY <1>2, <2>1 DEF HotTypeOK, table_vars
  <1>3. CASE BuildTables
    <2>1. CASE main_pc' = "raise"
      BY <1>3, <2>1, CompiledFacts DEF BuildTables, HotTypeOK, use_vars
    <2>2. CASE main_pc' # "raise"
      BY <1>3, <2>2 DEF BuildTables, CompileTables, Abandon, HotTypeOK, use_vars
    <2> QED
      BY <2>1, <2>2
  <1>4. CASE CancelReload
    BY <1>4 DEF CancelReload, Discard, HotTypeOK, use_vars
  <1>5. ASSUME NEW m \in Managers, Swap(m), new_table[m] # Null \/ m = "dpi",
               main_pc' \notin {"raise", "wait", "verdict", "swap_spi"}
        PROVE  HotTypeOK'
    <2>1. /\ new_table[m] \in Pointer /\ new_table[m] \in {Null, {}}
          /\ prev_retired[m] \in Pointer /\ retired[m] \in Pointer
          /\ active[m] \in Pointer /\ freed[m] \in Table
      BY <1>0, <1>5 DEF HotTypeOK, Kinds, Pointer
    <2>2. freed[m] \cup UsersOf(prev_retired[m]) \in Table
      BY <2>1 DEF UsersOf, Pointer, Table
    <2>3. /\ active' \in [Managers -> Pointer] /\ active'["spi"] # Null
      BY <1>5, <2>1 DEF Swap, HotTypeOK, Managers
    <2>4. /\ retired' \in [Managers -> Pointer] /\ prev_retired' \in [Managers -> Pointer]
          /\ new_table' \in [Managers -> {Null, {}}]
      BY <1>5, <2>1 DEF Swap, HotTypeOK
    <2>5. freed' \in [Kinds -> Table]
      BY <1>5, <2>2 DEF Swap, HotTypeOK, Kinds
    <2> QED
      BY <1>5, <2>3, <2>4, <2>5 DEF Swap, HotTypeOK
  <1>6. CASE PublishRules
    <2>1. new_table["spi"] # Null /\ "spi" \in Managers
      BY <1>0, <1>6 DEF PublishRules, SwapRules, HotTypeOK, Managers
    <2> QED
      BY <1>5, <1>6, <2>1 DEF PublishRules, SwapRules
  <1>7. CASE PublishDpiRules
    BY <1>5, <1>7 DEF PublishDpiRules, SwapDpiRules, Managers
  <1>8. CASE ReplaceFlowTable
    BY <1>0, <1>8 DEF ReplaceFlowTable, ResizeFlowTable, HotTypeOK, table_vars, Kinds, Table
  <1>9. ASSUME NEW w \in Workers, HotWorker(w)
        PROVE  HotTypeOK'
    <2>0. main_pc' = main_pc
      BY <1>9 DEF HotWorker, LoopHead, Pausing, CheckBarrier, EnterPause, LeaveSpin,
                  LeavePause, LookupFlow, LoadRules, LoadDpiRules, InsertFlow, NextPacket,
                  NextBurst, HotEndIteration, EndIteration, At, vars, main_vars
    <2>1. CASE (LoopHead(w) \/ Pausing(w)) /\ UNCHANGED <<table_vars, flow_table, freed, stage>>
      BY <2>0, <2>1 DEF HotTypeOK, table_vars
    <2>2. CASE LookupFlow(w) \/ InsertFlow(w)
      BY <1>9, <2>0, <2>2 DEF LookupFlow, InsertFlow, UseFlowTable, At, HotTypeOK, Stages,
                              Table, Kinds
    <2>3. CASE LoadRules(w) \/ LoadDpiRules(w)
      <3>1. ASSUME NEW m \in Managers, Load(w, m)
            PROVE  active' \in [Managers -> Pointer] /\ active'["spi"] # Null
        <4>1. active[m] \in Pointer
          BY <3>1 DEF HotTypeOK
        <4>2. /\ (IF active[m] = Null THEN Null ELSE active[m] \cup {w}) \in Pointer
              /\ (IF active[m] = Null THEN Null ELSE active[m] \cup {w}) = Null
                    <=> active[m] = Null
          BY <1>9, <4>1, PointerFacts
        <4> QED
          BY <3>1, <4>1, <4>2 DEF Load, HotTypeOK
      <3>2. active' \in [Managers -> Pointer] /\ active'["spi"] # Null
        BY <2>3, <3>1 DEF LoadRules, LoadDpiRules, Managers
      <3>3. flow_table' \in Table /\ freed' \in [Kinds -> Table]
        BY <2>3 DEF LoadRules, LoadDpiRules, HotTypeOK, Table, Kinds
      <3> QED
        BY <2>0, <2>3, <3>2, <3>3 DEF LoadRules, LoadDpiRules, At, HotTypeOK, Stages
    <2>4. CASE NextPacket(w) \/ NextBurst(w) \/ HotEndIteration(w)
      <3>1. PICK kinds \in SUBSET Kinds : LetGo(w, kinds)
        BY <2>4 DEF NextPacket, NextBurst, HotEndIteration, Kinds, Managers
      <3> QED
        BY <1>9, <2>0, <2>4, <3>1, LetGoFacts
        DEF NextPacket, NextBurst, HotEndIteration, At, HotTypeOK, Stages
    <2> QED
      BY <1>9, <2>1, <2>2, <2>3, <2>4 DEF HotWorker
  <1>10. CASE UNCHANGED hot_vars
    BY <1>10 DEF hot_vars, vars, table_vars, HotTypeOK
  <1> QED
    BY <1>1, <1>2, <1>3, <1>4, <1>6, <1>7, <1>8, <1>9, <1>10 DEF HotNext, HotMain

-----------------------------------------------------------------------------
(* With more than one worker the invariant is inductive.                    *)

\* The instant the wait ends with every worker counted, all of them are in
\* their pause: none is in a burst, so none uses a table.
LEMMA AcknowledgedMeansIdle ==
  ASSUME CountInv, TableInv, workers_paused >= N
  PROVE  \A m \in Managers : UsersOf(retired[m]) = {}
  <1>1. Paused \in SUBSET Workers
    BY DEF Paused
  <1>2. Paused = Workers
    BY <1>1, PausedBound DEF CountInv, PausedCountExact
  <1>3. \A w \in Workers : worker_pc[w] # "burst"
    BY <1>2 DEF Paused
  <1>4. ASSUME NEW m \in Managers
        PROVE  UsersOf(retired[m]) \in SUBSET Workers
    BY <1>4, WorkersAssumption DEF TableInv, HotTypeOK, UsersOf, Pointer, Table
  <1> QED
    BY <1>3, <1>4 DEF TableInv, IdleUsesNothing, Uses

\* Control steps of the main lcore and its environment move no table; the
\* wait is where RetiredUnused is established.
LEMMA ControlTableStep ==
  ASSUME N > 1, CountInv, TableInv,
         ControlStep \/ Environment, UNCHANGED <<table_vars, flow_table, freed, stage>>
  PROVE  IdleUsesNothing' /\ RetiredUnused' /\ FreedTablesUnused'
  <1>1. worker_pc' = worker_pc
    BY DEF ControlStep, Environment, SignalReload, SignalQuit, WriteConfig, MainLoop,
           PollReloadFlag, LoadConfig, RaiseBarrier, WaitForWorkers, DecideReload,
           RepointWorkers, LowerBarrier, StopWorkers, JoinWorkers
  <1>2. IdleUsesNothing' /\ FreedTablesUnused'
    BY <1>1 DEF TableInv, IdleUsesNothing, Uses, FreedTablesUnused, table_vars
  <1>3. retired' = retired
    BY DEF table_vars
  <1>4. CASE Environment
    <2>1. main_pc' = main_pc /\ timed_out' = timed_out /\ (force_quit => force_quit')
      BY <1>4 DEF Environment, SignalReload, SignalQuit, WriteConfig, signal_vars
    <2>2. Acknowledged' => Acknowledged
      BY <2>1 DEF Acknowledged
    <2> QED
      BY <1>2, <1>3, <2>1, <2>2 DEF TableInv, RetiredUnused
  <1>5. CASE WaitForWorkers
    <2>1. main_pc' = "verdict"
      BY <1>5 DEF WaitForWorkers
    <2>2. CASE workers_paused >= N
      BY <1>2, <1>3, <2>1, <2>2, AcknowledgedMeansIdle DEF RetiredUnused, Managers
    <2>3. CASE ~(workers_paused >= N)
      <3>1. timed_out' \/ force_quit'
        BY <1>5, <2>3 DEF WaitForWorkers, signal_vars
      <3> QED
        BY <1>2, <2>1, <3>1 DEF RetiredUnused, Acknowledged
    <2> QED
      BY <2>2, <2>3
  <1>6. CASE RaiseBarrier /\ main_pc' # "loop"
    <2>1. main_pc' = "wait"
      BY <1>6 DEF RaiseBarrier, Abandon
    <2> QED
      BY <1>2, <2>1 DEF RetiredUnused, Acknowledged
  <1>7. CASE DecideReload /\ main_pc' # "loop"
    <2>1. main_pc' = "swap_spi" /\ Acknowledged
      BY <1>7 DEF DecideReload, Abandon, Acknowledged
    <2> QED
      BY <1>2, <1>3, <2>1 DEF TableInv, RetiredUnused, Acknowledged
  <1>8. CASE MainLoop \/ PollReloadFlag \/ LoadConfig \/ RepointWorkers
             \/ LowerBarrier \/ StopWorkers \/ JoinWorkers
    <2>1. main_pc' \in {"stop", "poll", "load", "loop", "compile", "lower", "join", "stopped"}
      BY <1>8 DEF MainLoop, PollReloadFlag, LoadConfig, Abandon,
                  RepointWorkers, LowerBarrier, StopWorkers, JoinWorkers
    <2> QED
      BY <1>2, <2>1 DEF RetiredUnused, Acknowledged
  <1> QED
    BY <1>2, <1>4, <1>5, <1>6, <1>7, <1>8 DEF ControlStep

\* A Swap frees an unused table, and retires one that RetiredUnused speaks of
\* no more.
LEMMA SwapTableStep ==
  ASSUME TableInv, PublishRules \/ PublishDpiRules
  PROVE  IdleUsesNothing' /\ RetiredUnused' /\ FreedTablesUnused'
  <1>1. PICK m \in Managers :
           /\ Swap(m) /\ UsersOf(retired[m]) = {}
           /\ m = "spi" => main_pc' = "swap_dpi" /\ UsersOf(retired["dpi"]) = {}
           /\ m = "dpi" => main_pc' = "resize"
    BY DEF PublishRules, PublishDpiRules, SwapRules, SwapDpiRules, TableInv,
           RetiredUnused, Managers
  <1>2. worker_pc' = worker_pc
    BY DEF PublishRules, PublishDpiRules, SwapRules, SwapDpiRules
  <1>3. /\ active'[m] = new_table[m] /\ retired'[m] = active[m]
        /\ prev_retired'[m] = retired[m]
        /\ freed'[m] = freed[m] \cup UsersOf(prev_retired[m])
        /\ \A k \in Managers \ {m} :
             /\ active'[k] = active[k] /\ retired'[k] = retired[k]
             /\ prev_retired'[k] = prev_retired[k] /\ freed'[k] = freed[k]
    BY <1>1 DEF Swap, TableInv, HotTypeOK, Kinds
  <1>4. UsersOf(new_table[m]) = {}
    BY <1>1 DEF TableInv, HotTypeOK, UsersOf
  <1>5. FreedTablesUnused'
    BY <1>1, <1>3 DEF TableInv, FreedTablesUnused
  <1>6. IdleUsesNothing'
    BY <1>1, <1>2, <1>3, <1>4 DEF TableInv, IdleUsesNothing, Uses, FreedTablesUnused
  <1>7. RetiredUnused'
    BY <1>1, <1>3 DEF RetiredUnused, Acknowledged, Managers
  <1> QED
    BY <1>5, <1>6, <1>7

\* A worker acquires only active tables, and only inside a burst.
LEMMA WorkerTableStep ==
  ASSUME TableInv, NEW w \in Workers, HotWorker(w), worker_pc \in [Workers -> WorkerPcs]
  PROVE  IdleUsesNothing' /\ RetiredUnused' /\ FreedTablesUnused'
  <1>0. UNCHANGED <<main_pc, timed_out, force_quit>>
    BY DEF HotWorker, LoopHead, Pausing, CheckBarrier, EnterPause, LeaveSpin,
           LeavePause, LookupFlow, LoadRules, LoadDpiRules, InsertFlow, NextPacket,
           NextBurst, HotEndIteration, EndIteration, At, vars, main_vars, signal_vars
  <1>1. CASE (LoopHead(w) \/ Pausing(w)) /\ UNCHANGED <<table_vars, flow_table, freed, stage>>
    <2>1. \A v \in Workers : worker_pc'[v] # "burst" => worker_pc[v] # "burst"
      BY <1>1 DEF LoopHead, Pausing, CheckBarrier, EnterPause, LeaveSpin, LeavePause, Goto
    <2> QED
      BY <1>0, <1>1, <2>1 DEF TableInv, IdleUsesNothing, Uses, RetiredUnused, Acknowledged,
                              FreedTablesUnused, table_vars
  <1>2. CASE LookupFlow(w) \/ InsertFlow(w)
    <2>1. worker_pc' = worker_pc /\ \A m \in Managers : freed'[m] = freed[m]
      BY <1>2 DEF LookupFlow, InsertFlow, UseFlowTable, At, vars, Managers, TableInv,
                  HotTypeOK, Kinds
    <2> QED
      BY <1>0, <1>2, <2>1 DEF LookupFlow, InsertFlow, TableInv, IdleUsesNothing, Uses,
                              RetiredUnused, Acknowledged, FreedTablesUnused
  <1>3. CASE LoadRules(w) \/ LoadDpiRules(w)
    <2>1. PICK m \in Managers : Load(w, m)
      BY <1>3 DEF LoadRules, LoadDpiRules, Managers
    <2>2. /\ UsersOf(active'[m]) \subseteq UsersOf(active[m]) \cup {w}
          /\ \A k \in Managers \ {m} : active'[k] = active[k]
      <3>1. active \in [Managers -> Pointer] /\ active[m] \in Pointer
        BY <2>1 DEF TableInv, HotTypeOK
      <3>2. /\ active'[m] = IF active[m] = Null THEN Null ELSE active[m] \cup {w}
            /\ \A k \in Managers \ {m} : active'[k] = active[k]
        BY <2>1, <3>1 DEF Load
      <3>3. UsersOf(IF active[m] = Null THEN Null ELSE active[m] \cup {w})
               \subseteq UsersOf(active[m]) \cup {w}
        BY <3>1, PointerFacts
      <3> QED
        BY <3>2, <3>3
    <2>3. /\ worker_pc' = worker_pc /\ worker_pc[w] = "burst"
          /\ \A k \in Managers : freed'[k] = freed[k]
          /\ UNCHANGED <<retired, prev_retired>>
      BY <1>3 DEF LoadRules, LoadDpiRules, At, vars, Managers, TableInv, HotTypeOK, Kinds
    <2>4. IdleUsesNothing'
      <3> SUFFICES ASSUME NEW v \in Workers, NEW k \in Managers, worker_pc'[v] # "burst"
                   PROVE  ~Uses(v, k)'
        BY DEF IdleUsesNothing
      <3>1. v # w /\ ~Uses(v, k)
        BY <2>3 DEF TableInv, IdleUsesNothing
      <3>2. v \notin UsersOf(active'[k])
        BY <2>2, <3>1 DEF Uses
      <3> QED
        BY <2>3, <3>1, <3>2 DEF Uses
    <2> QED
      BY <1>0, <2>3, <2>4 DEF TableInv, RetiredUnused, Acknowledged, FreedTablesUnused
  <1>4. CASE NextPacket(w) \/ NextBurst(w) \/ HotEndIteration(w)
    <2>1. PICK kinds \in SUBSET Kinds :
             LetGo(w, kinds) /\ (HotEndIteration(w) => kinds = Kinds)
      BY <1>4 DEF NextPacket, NextBurst, HotEndIteration, EndIteration, Goto, At, vars,
                  Kinds, Managers, WorkerPcs
    <2>2. \A v \in Workers : worker_pc'[v] # "burst"
             => worker_pc[v] # "burst" \/ (v = w /\ kinds = Kinds)
      BY <1>4, <2>1 DEF NextPacket, NextBurst, HotEndIteration, EndIteration, Goto, At, vars
    <2>3. \A m \in Managers :
              /\ UsersOf(active'[m]) \subseteq UsersOf(active[m])
              /\ UsersOf(retired'[m]) \subseteq UsersOf(retired[m])
              /\ UsersOf(prev_retired'[m]) \subseteq UsersOf(prev_retired[m])
              /\ freed'[m] \subseteq freed[m]
              /\ m \in kinds => ~Uses(w, m)'
      BY <2>1, LetGoFacts DEF TableInv
    <2>4. IdleUsesNothing'
      BY <2>2, <2>3 DEF TableInv, IdleUsesNothing, Uses, Kinds
    <2>5. RetiredUnused'
      BY <1>0, <2>3 DEF TableInv, RetiredUnused, Acknowledged, Managers
    <2>6. FreedTablesUnused'
      BY <2>3 DEF TableInv, FreedTablesUnused
    <2> QED
      BY <2>4, <2>5, <2>6
  <1> QED
    BY <1>1, <1>2, <1>3, <1>4 DEF HotWorker

\* The other steps of a reload leave the managers' tables alone, and reach no
\* place of which RetiredUnused speaks.
LEMMA OtherTableStep ==
  ASSUME TableInv, BuildTables \/ CancelReload \/ ReplaceFlowTable
  PROVE  IdleUsesNothing' /\ RetiredUnused' /\ FreedTablesUnused'
  <1>1. worker_pc' = worker_pc /\ main_pc' \in {"raise", "loop", "lower", "repoint"}
    BY DEF BuildTables, CompileTables, Abandon, CancelReload, RaiseBarrier, DecideReload,
           ReplaceFlowTable, ResizeFlowTable
  <1>2. /\ UNCHANGED <<active, retired, prev_retired>>
        /\ \A m \in Managers : freed'[m] = freed[m]
    BY DEF BuildTables, CancelReload, Discard, ReplaceFlowTable, use_vars, table_vars,
           TableInv, HotTypeOK, Kinds, Managers
  <1>3. IdleUsesNothing' /\ FreedTablesUnused'
    BY <1>1, <1>2 DEF TableInv, IdleUsesNothing, Uses, FreedTablesUnused
  <1>4. RetiredUnused'
    BY <1>1 DEF RetiredUnused, Acknowledged
  <1> QED
    BY <1>3, <1>4

LEMMA TableStep ==
  ASSUME N > 1, CountInv, CountInv', TableInv, [HotNext]_hot_vars
  PROVE  TableInv'
  <1>1. HotTypeOK'
    BY HotTypeStep DEF TableInv, CountInv
  <1>2. CASE UNCHANGED hot_vars
    BY <1>1, <1>2 DEF hot_vars, vars, signal_vars, table_vars, TableInv, IdleUsesNothing,
                Uses, RetiredUnused, Acknowledged, FreedTablesUnused
  <1>3. CASE Environment /\ UNCHANGED <<table_vars, flow_table, freed, stage>>
    BY <1>1, <1>3, ControlTableStep DEF TableInv
  <1>4. CASE HotMain
    <2>1. CASE ControlStep /\ UNCHANGED <<table_vars, flow_table, freed, stage>>
      BY <1>1, <2>1, ControlTableStep DEF TableInv
    <2>2. CASE BuildTables \/ CancelReload \/ ReplaceFlowTable
      BY <1>1, <2>2, OtherTableStep DEF TableInv
    <2>3. CASE PublishRules \/ PublishDpiRules
      BY <1>1, <2>3, SwapTableStep DEF TableInv
    <2> QED
      BY <1>4, <2>1, <2>2, <2>3 DEF HotMain
  <1>5. ASSUME NEW w \in Workers, HotWorker(w)
        PROVE  TableInv'
    BY <1>1, <1>5, WorkerTableStep DEF TableInv, CountInv, TypeOK
  <1> QED
    BY <1>2, <1>3, <1>4, <1>5 DEF HotNext

LEMMA TableInit == HotInit => TableInv
  <1> SUFFICES ASSUME HotInit PROVE TableInv
    OBVIOUS
  <1>1. TypeOK
    BY CountInit DEF HotInit, CountInv
  <1>2. PICK dpi_enabled \in BOOLEAN : active = Compiled(dpi_enabled)
    BY DEF HotInit
  <1>3. /\ active \in [Managers -> {Null, {}}] /\ active["spi"] # Null
        /\ \A m \in Managers : UsersOf(active[m]) = {}
    BY <1>2, CompiledFacts, NullAssumption DEF Compiled, UsersOf, Managers
  <1>4. HotTypeOK
    BY <1>1, <1>3 DEF HotInit, Init, HotTypeOK, Pointer, Table, Kinds, Stages, Managers
  <1>5. \A m \in Managers : /\ UsersOf(retired[m]) = {} /\ UsersOf(prev_retired[m]) = {}
                            /\ freed[m] = {}
    BY DEF HotInit, UsersOf, Kinds
  <1> QED
    BY <1>3, <1>4, <1>5 DEF TableInv, IdleUsesNothing, Uses, RetiredUnused,
                            FreedTablesUnused, Managers

\* With more than one worker, whatever the interleaving of reloads, timeouts,
\* signals and bursts, no SPI or DPI rule table is freed by a Swap while a
\* worker still uses it, and every pointer keeps its type.
THEOREM RuleTablesNeverFreedInUse ==
  N > 1 => (HotSpec => [](HotTypeOK /\ FreedTablesUnused))
  <1> SUFFICES ASSUME N > 1 PROVE HotSpec => [](HotTypeOK /\ FreedTablesUnused)
    OBVIOUS
  <1>1. HotInit => CountInv /\ TableInv
    BY CountInit, TableInit DEF HotInit
  <1>2. CountInv /\ TableInv /\ [HotNext]_hot_vars => (CountInv /\ TableInv)'
    BY CountStep, HotStepIsStep, TableStep
  <1>3. TableInv => HotTypeOK /\ FreedTablesUnused
    BY DEF TableInv
  <1> QED
    BY <1>1, <1>2, <1>3, PTL DEF HotSpec
=============================================================================
