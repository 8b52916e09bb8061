--------------------------- MODULE ReloadBarrier ---------------------------
(***************************************************************************)
(* The control of a hot reload (spi_pipeline.cpp): who runs, who waits.    *)
(*                                                                         *)
(* The main lcore polls two flags that signal handlers set.  On SIGUSR1 it *)
(* compiles new tables, raises reload_barrier, waits until workers_paused  *)
(* reaches the number of workers (or 100 ms pass, or a quit signal         *)
(* arrives), publishes the tables and lowers the barrier.  Workers run on  *)
(* remote lcores: each processes a burst, then looks at the barrier and    *)
(* pauses while it is up.  HotReload adds the tables that are published.   *)
(*                                                                         *)
(* Atomic operations are sequentially consistent steps.  The configuration *)
(* file is abstracted to whether the active rules come from what it says   *)
(* now.                                                                    *)
(***************************************************************************)
EXTENDS Naturals, FiniteSets

CONSTANT Workers      \* the entries of worker_contexts_

ASSUME WorkersAssumption == IsFiniteSet(Workers) /\ Workers # {}

N == Cardinality(Workers)

VARIABLES
    force_quit,          \* set by SIGINT or SIGTERM
    reload_flag,         \* set by SIGUSR1
    unsignalled,         \* the file changed and SIGUSR1 has not followed yet
    new_fresh,           \* the rules being prepared come from the file as it is
    active_fresh,        \* so do the active rules
    last_reload,         \* outcome of the latest reload attempt
    reload_barrier, workers_paused, worker_force_quit,
    timed_out,           \* wait_timed_out
    main_pc, worker_pc

signal_vars == <<force_quit, reload_flag>>
file_vars == <<unsignalled, new_fresh, active_fresh, last_reload>>
pause_vars == <<reload_barrier, workers_paused, worker_force_quit>>
vars == <<signal_vars, file_vars, pause_vars, timed_out, main_pc, worker_pc>>

PublishPcs == {"swap_spi", "swap_dpi", "resize", "repoint"}
MainPcs == PublishPcs \cup {"loop", "poll", "load", "compile", "raise", "wait",
                            "verdict", "lower", "stop", "join", "stopped"}
WorkerPcs == {"loop", "burst", "check", "pause", "spin", "resume", "done"}

\* Workers between fetch_add and fetch_sub of workers_paused.
Paused == {w \in Workers : worker_pc[w] \in {"spin", "resume"}}

TypeOK ==
    /\ force_quit \in BOOLEAN /\ reload_flag \in BOOLEAN
    /\ unsignalled \in BOOLEAN /\ new_fresh \in BOOLEAN /\ active_fresh \in BOOLEAN
    /\ last_reload \in {"none", "published", "cancelled"}
    /\ reload_barrier \in BOOLEAN /\ worker_force_quit \in BOOLEAN
    /\ workers_paused \in 0..N
    /\ timed_out \in BOOLEAN
    /\ main_pc \in MainPcs
    /\ worker_pc \in [Workers -> WorkerPcs]

\* The Pipeline is constructed and StartWorkers has launched every worker.
Init ==
    /\ force_quit = FALSE /\ reload_flag = FALSE
    /\ unsignalled = FALSE /\ new_fresh = FALSE /\ active_fresh = TRUE
    /\ last_reload = "none"
    /\ reload_barrier = FALSE /\ workers_paused = 0 /\ worker_force_quit = FALSE
    /\ timed_out = FALSE
    /\ main_pc = "loop"
    /\ worker_pc = [w \in Workers |-> "loop"]

-----------------------------------------------------------------------------
(* Signals and the configuration file.                                      *)

SignalReload ==
    /\ reload_flag' = TRUE
    /\ unsignalled' = FALSE
    /\ UNCHANGED <<force_quit, new_fresh, active_fresh, last_reload, pause_vars,
                   timed_out, main_pc, worker_pc>>

SignalQuit ==
    /\ force_quit' = TRUE
    /\ UNCHANGED <<reload_flag, file_vars, pause_vars, timed_out, main_pc, worker_pc>>

\* The file is replaced by rename, so a reader sees one version of it.
WriteConfig ==
    /\ unsignalled' = TRUE
    /\ new_fresh' = FALSE
    /\ active_fresh' = FALSE
    /\ UNCHANGED <<signal_vars, last_reload, pause_vars, timed_out, main_pc, worker_pc>>

Environment == SignalReload \/ SignalQuit \/ WriteConfig

-----------------------------------------------------------------------------
(* The main lcore.                                                          *)

\* while (force_quit == 0) of RunMultiWorker and RunFlowHashDispatch.
MainLoop ==
    /\ main_pc = "loop"
    /\ main_pc' = IF force_quit THEN "stop" ELSE "poll"
    /\ UNCHANGED <<signal_vars, file_vars, pause_vars, timed_out, worker_pc>>

\* Mutant: the flag is read, and never reset.
PollReloadFlagKept ==
    /\ main_pc = "poll"
    /\ main_pc' = IF reload_flag /\ ~force_quit THEN "load" ELSE "loop"
    /\ UNCHANGED <<signal_vars, file_vars, pause_vars, timed_out, worker_pc>>

\* MaybeReload consumes the request with exchange(0).
PollReloadFlag ==
    /\ main_pc = "poll"
    /\ reload_flag' = FALSE
    /\ main_pc' = IF reload_flag /\ ~force_quit THEN "load" ELSE "loop"
    /\ UNCHANGED <<force_quit, file_vars, pause_vars, timed_out, worker_pc>>

\* An early return of MaybeReload.
Abandon ==
    /\ main_pc' = "loop"
    /\ last_reload' = "cancelled"
    /\ new_fresh' = FALSE

LoadConfig ==
    /\ main_pc = "load"
    /\ \/ Abandon
       \/ main_pc' = "compile" /\ new_fresh' = TRUE /\ UNCHANGED last_reload
    /\ UNCHANGED <<signal_vars, unsignalled, active_fresh, pause_vars, timed_out, worker_pc>>

\* CompileRuleTable, CompileDpiRuleTable when DPI is enabled, and
\* ResolveDpiLinks; each may fail.
CompileTables ==
    /\ main_pc = "compile"
    /\ \/ Abandon
       \/ main_pc' = "raise" /\ UNCHANGED <<new_fresh, last_reload>>
    /\ UNCHANGED <<signal_vars, unsignalled, active_fresh, pause_vars, timed_out, worker_pc>>

\* A pipeline with one worker does not wait for it.
RaiseBarrier ==
    /\ main_pc = "raise"
    /\ IF force_quit
       THEN Abandon /\ UNCHANGED reload_barrier
       ELSE /\ reload_barrier' = TRUE
            /\ main_pc' = IF N > 1 THEN "wait" ELSE "verdict"
            /\ UNCHANGED <<new_fresh, last_reload>>
    /\ UNCHANGED <<signal_vars, unsignalled, active_fresh, workers_paused,
                   worker_force_quit, timed_out, worker_pc>>

\* The spin on workers_paused_ ends when all workers have acknowledged, when
\* a quit signal is seen, or 100 ms after it began: some time or other.
WaitForWorkers ==
    /\ main_pc = "wait"
    /\ \/ workers_paused >= N /\ timed_out' = FALSE
       \/ workers_paused < N /\ force_quit /\ timed_out' = FALSE
       \/ workers_paused < N /\ ~force_quit /\ timed_out' = TRUE
    /\ main_pc' = "verdict"
    /\ UNCHANGED <<signal_vars, file_vars, pause_vars, worker_pc>>

\* Mutant: a cancelled reload returns without lowering the barrier.
DecideReloadBarrierUp ==
    /\ main_pc = "verdict"
    /\ IF force_quit \/ timed_out
       THEN Abandon
       ELSE main_pc' = "swap_spi" /\ UNCHANGED <<new_fresh, last_reload>>
    /\ timed_out' = FALSE
    /\ UNCHANGED <<signal_vars, unsignalled, active_fresh, pause_vars, worker_pc>>

\* The active SPI table is never null here: the constructor sets it.
DecideReload ==
    /\ main_pc = "verdict"
    /\ IF force_quit \/ timed_out
       THEN Abandon /\ reload_barrier' = FALSE
       ELSE main_pc' = "swap_spi" /\ UNCHANGED <<reload_barrier, new_fresh, last_reload>>
    /\ timed_out' = FALSE
    /\ UNCHANGED <<signal_vars, unsignalled, active_fresh, workers_paused,
                   worker_force_quit, worker_pc>>

SwapRules ==
    /\ main_pc = "swap_spi"
    /\ main_pc' = "swap_dpi"
    /\ active_fresh' = new_fresh
    /\ new_fresh' = FALSE
    /\ UNCHANGED <<signal_vars, unsignalled, last_reload, pause_vars, timed_out, worker_pc>>

SwapDpiRules ==
    /\ main_pc = "swap_dpi"
    /\ main_pc' = "resize"
    /\ UNCHANGED <<signal_vars, file_vars, pause_vars, timed_out, worker_pc>>

\* MaybeReloadFlowTable returns early when the size is unchanged or the new
\* table cannot be created; otherwise it goes on to repoint the workers.
ResizeFlowTable ==
    /\ main_pc = "resize"
    /\ main_pc' \in {"lower", "repoint"}
    /\ UNCHANGED <<signal_vars, file_vars, pause_vars, timed_out, worker_pc>>

RepointWorkers ==
    /\ main_pc = "repoint"
    /\ main_pc' = "lower"
    /\ UNCHANGED <<signal_vars, file_vars, pause_vars, timed_out, worker_pc>>

\* Mutant: the request is reset when the reload is over.
LowerBarrierResetFlag ==
    /\ main_pc = "lower"
    /\ reload_flag' = FALSE
    /\ reload_barrier' = FALSE
    /\ last_reload' = "published"
    /\ main_pc' = "loop"
    /\ UNCHANGED <<force_quit, unsignalled, new_fresh, active_fresh, workers_paused,
                   worker_force_quit, timed_out, worker_pc>>

LowerBarrier ==
    /\ main_pc = "lower"
    /\ reload_barrier' = FALSE
    /\ last_reload' = "published"
    /\ main_pc' = "loop"
    /\ UNCHANGED <<signal_vars, unsignalled, new_fresh, active_fresh, workers_paused,
                   worker_force_quit, timed_out, worker_pc>>

\* Mutant: the workers are joined without being told to quit.
StopWorkersSilently ==
    /\ main_pc = "stop"
    /\ main_pc' = "join"
    /\ UNCHANGED <<signal_vars, file_vars, pause_vars, timed_out, worker_pc>>

\* StopWorkers, after the main loop.
StopWorkers ==
    /\ main_pc = "stop"
    /\ worker_force_quit' = TRUE
    /\ main_pc' = "join"
    /\ UNCHANGED <<signal_vars, file_vars, reload_barrier, workers_paused, timed_out, worker_pc>>

\* rte_eal_mp_wait_lcore.
JoinWorkers ==
    /\ main_pc = "join"
    /\ \A w \in Workers : worker_pc[w] = "done"
    /\ main_pc' = "stopped"
    /\ UNCHANGED <<signal_vars, file_vars, pause_vars, timed_out, worker_pc>>

Main ==
    \/ MainLoop \/ PollReloadFlag \/ LoadConfig \/ CompileTables \/ RaiseBarrier
    \/ WaitForWorkers \/ DecideReload \/ SwapRules \/ SwapDpiRules
    \/ ResizeFlowTable \/ RepointWorkers \/ LowerBarrier
    \/ StopWorkers \/ JoinWorkers

-----------------------------------------------------------------------------
(* A worker: WorkerLoop and DispatchWorkerLoop share this control.          *)

main_vars == <<signal_vars, file_vars, reload_barrier, worker_force_quit, timed_out, main_pc>>

Goto(w, from, to) ==
    /\ worker_pc[w] = from
    /\ worker_pc' = [worker_pc EXCEPT ![w] = to]

LoopHead(w) ==
    /\ Goto(w, "loop", IF worker_force_quit THEN "done" ELSE "burst")
    /\ UNCHANGED <<main_vars, workers_paused>>

\* ProcessWorkerIteration or ProcessDispatchedWorkerIteration returns.
EndIteration(w) ==
    /\ Goto(w, "burst", "check")
    /\ UNCHANGED <<main_vars, workers_paused>>

CheckBarrier(w) ==
    /\ Goto(w, "check", IF reload_barrier /\ ~worker_force_quit THEN "pause" ELSE "loop")
    /\ UNCHANGED <<main_vars, workers_paused>>

\* Mutant: the acknowledgement is stored, not added.
EnterPauseStore(w) ==
    /\ Goto(w, "pause", "spin")
    /\ workers_paused' = 1
    /\ UNCHANGED main_vars

EnterPause(w) ==
    /\ Goto(w, "pause", "spin")
    /\ workers_paused' = workers_paused + 1
    /\ UNCHANGED main_vars

\* Mutant: only a quit ends the spin.
LeaveSpinOnQuit(w) ==
    /\ worker_force_quit
    /\ Goto(w, "spin", "resume")
    /\ UNCHANGED <<main_vars, workers_paused>>

LeaveSpin(w) ==
    /\ ~reload_barrier \/ worker_force_quit
    /\ Goto(w, "spin", "resume")
    /\ UNCHANGED <<main_vars, workers_paused>>

\* Mutant: the acknowledgement is never taken back.
LeavePauseStillCounted(w) ==
    /\ Goto(w, "resume", "loop")
    /\ UNCHANGED <<main_vars, workers_paused>>

LeavePause(w) ==
    /\ Goto(w, "resume", "loop")
    /\ workers_paused' = workers_paused - 1
    /\ UNCHANGED main_vars

Pausing(w) == CheckBarrier(w) \/ EnterPause(w) \/ LeaveSpin(w) \/ LeavePause(w)
Worker(w) == LoopHead(w) \/ EndIteration(w) \/ Pausing(w)

-----------------------------------------------------------------------------
Next ==
    \/ Environment
    \/ Main
    \/ \E w \in Workers : Worker(w)

Spec == Init /\ [][Next]_vars

\* Every lcore keeps running: an iteration serves finitely many ports and
\* packets, and the wait of the main lcore has its timeout.
Fairness == WF_vars(Main) /\ \A w \in Workers : WF_vars(Worker(w))

FairSpec == Spec /\ Fairness

-----------------------------------------------------------------------------
(* Properties.                                                              *)

\* workers_paused counts exactly the workers between their fetch_add and
\* their fetch_sub, through every reload, timeout and shutdown: the size_t
\* never wraps and no acknowledgement is left over or counted twice.
PausedCountExact == workers_paused = Cardinality(Paused)

\* No reload request is lost: once the main loop is idle with no request
\* pending, and its latest reload went through, the active rules come from
\* the file as it is, unless a change of it has not been signalled yet.
NoLostReload ==
    main_pc = "loop" /\ ~reload_flag /\ ~unsignalled /\ ~force_quit
        /\ last_reload # "cancelled"
    => active_fresh

\* A quit signal stops the process whatever it interrupts: the main lcore
\* joins, and every worker returns from its loop.
Shutdown ==
    force_quit ~> main_pc = "stopped" /\ \A w \in Workers : worker_pc[w] = "done"

\* Workers do not stay in their pause once the requests for reloads cease.
\* (While they keep coming, a worker may miss every moment at which the
\* barrier is down, and stay paused from one reload to the next.)
WorkersResume ==
    <>[]~reload_flag
    => \A w \in Workers : worker_pc[w] = "spin" ~> worker_pc[w] # "spin"

\* Reloads come to an end: a request is taken up, unless the process is told
\* to quit, and a raised barrier is lowered again on every path through
\* MaybeReload.
ReloadsFinish ==
    /\ reload_flag ~> (~reload_flag \/ force_quit)
    /\ reload_barrier ~> ~reload_barrier
=============================================================================
