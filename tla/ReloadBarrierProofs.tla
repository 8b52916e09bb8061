------------------------ MODULE ReloadBarrierProofs ------------------------
(***************************************************************************)
(* Proofs about ReloadBarrier, for every finite non-empty set of workers.  *)
(***************************************************************************)
EXTENDS ReloadBarrier, FiniteSetTheorems, TLAPS

\* The rules that a reload is about to publish, or has published, come from
\* the file as it is, or else a change of the file is on its way: not yet
\* signalled, or signalled and pending.  The invariant behind NoLostReload.
ChangePending == unsignalled \/ reload_flag

FreshInv ==
    /\ main_pc \in {"compile", "raise", "wait", "verdict", "swap_spi"}
         => new_fresh \/ ChangePending
    /\ main_pc \in {"swap_dpi", "resize", "repoint", "lower"}
         => active_fresh \/ ChangePending
    /\ main_pc \in {"loop", "poll"} /\ last_reload # "cancelled" /\ ~force_quit
         => active_fresh \/ ChangePending

-----------------------------------------------------------------------------
(* The number of workers, and of paused ones.                               *)

\* The number of workers is a positive natural number.
LEMMA WorkerCount == N \in Nat /\ N > 0
  <1>1. N \in Nat
    BY WorkersAssumption, FS_CardinalityType DEF N
  <1>2. N # 0
    BY WorkersAssumption, FS_EmptySet DEF N
  <1> QED
    BY <1>1, <1>2

\* At most all workers are paused, and when the count reaches their number
\* they all are: the test that ends the wait of MaybeReload.
LEMMA PausedBound ==
  ASSUME NEW P \in SUBSET Workers
  PROVE  /\ IsFiniteSet(P)
         /\ Cardinality(P) \in 0..N
         /\ Cardinality(P) >= N => P = Workers
  <1>1. /\ IsFiniteSet(P)
        /\ Cardinality(P) <= N
        /\ N = Cardinality(P) => Workers = P
    BY WorkersAssumption, FS_Subset DEF N
  <1>2. Cardinality(P) \in Nat
    BY <1>1, FS_CardinalityType
  <1> QED
    BY <1>1, <1>2, WorkerCount

-----------------------------------------------------------------------------
(* The type invariant and the exact count.                                  *)

CountInv == TypeOK /\ PausedCountExact

\* A step that leaves workers_paused alone and moves no worker into or out
\* of the pause keeps the count exact.
LEMMA SamePaused ==
  ASSUME PausedCountExact, UNCHANGED workers_paused, Paused' = Paused
  PROVE  PausedCountExact'
  BY DEF PausedCountExact

\* Worker steps keep the type invariant and the exact count.
LEMMA WorkerCountStep ==
  ASSUME CountInv, NEW w \in Workers, Worker(w)
  PROVE  CountInv'
  <1> USE DEF CountInv
  <1>0. Paused \subseteq Workers /\ Paused' \subseteq Workers
    BY DEF Paused
  <1>1. CASE LoopHead(w)
    <2>1. Paused' = Paused
      BY <1>1 DEF LoopHead, Goto, Paused, TypeOK, WorkerPcs
    <2> QED
      BY <1>1, <2>1, SamePaused
      DEF LoopHead, Goto, TypeOK, WorkerPcs, main_vars, signal_vars, file_vars
  <1>2. CASE EndIteration(w)
    <2>1. Paused' = Paused
      BY <1>2 DEF EndIteration, Goto, Paused, TypeOK, WorkerPcs
    <2> QED
      BY <1>2, <2>1, SamePaused
      DEF EndIteration, Goto, TypeOK, WorkerPcs, main_vars, signal_vars, file_vars
  <1>3. CASE CheckBarrier(w)
    <2>1. Paused' = Paused
      BY <1>3 DEF CheckBarrier, Goto, Paused, TypeOK, WorkerPcs
    <2> QED
      BY <1>3, <2>1, SamePaused
      DEF CheckBarrier, Goto, TypeOK, WorkerPcs, main_vars, signal_vars, file_vars
  <1>4. CASE EnterPause(w)
    <2>1. w \notin Paused /\ Paused' = Paused \cup {w}
      BY <1>4 DEF EnterPause, Goto, Paused, TypeOK, WorkerPcs
    <2>2. Cardinality(Paused') = Cardinality(Paused) + 1
      BY <1>0, <2>1, PausedBound, FS_AddElement
    <2>3. PausedCountExact'
      BY <1>4, <2>2 DEF EnterPause, PausedCountExact
    <2>4. workers_paused' \in 0..N
      BY <1>0, <2>3, PausedBound DEF PausedCountExact
    <2> QED
      BY <1>4, <2>3, <2>4
      DEF EnterPause, Goto, TypeOK, WorkerPcs, main_vars, signal_vars, file_vars
  <1>5. CASE LeaveSpin(w)
    <2>1. Paused' = Paused
      BY <1>5 DEF LeaveSpin, Goto, Paused, TypeOK, WorkerPcs
    <2> QED
      BY <1>5, <2>1, SamePaused
      DEF LeaveSpin, Goto, TypeOK, WorkerPcs, main_vars, signal_vars, file_vars
  <1>6. CASE LeavePause(w)
    <2>1. w \in Paused /\ Paused' = Paused \ {w}
      BY <1>6 DEF LeavePause, Goto, Paused, TypeOK, WorkerPcs
    <2>2. Cardinality(Paused') = Cardinality(Paused) - 1
      BY <1>0, <2>1, PausedBound, FS_RemoveElement
    <2>3. PausedCountExact'
      BY <1>6, <2>2 DEF LeavePause, PausedCountExact
    <2>4. workers_paused' \in 0..N
      BY <1>0, <2>3, PausedBound DEF PausedCountExact
    <2> QED
      BY <1>6, <2>3, <2>4
      DEF LeavePause, Goto, TypeOK, WorkerPcs, main_vars, signal_vars, file_vars
  <1> QED
    BY <1>1, <1>2, <1>3, <1>4, <1>5, <1>6 DEF Worker, Pausing

\* Steps of the main lcore and of its environment do so too: none of them
\* touches workers_paused or a worker.
LEMMA MainCountStep ==
  ASSUME CountInv, Main \/ Environment
  PROVE  CountInv'
  <1>1. UNCHANGED <<workers_paused, worker_pc>>
    BY DEF Main, Environment, SignalReload, SignalQuit, WriteConfig, MainLoop,
           PollReloadFlag, LoadConfig, CompileTables, RaiseBarrier, WaitForWorkers,
           DecideReload, SwapRules, SwapDpiRules, ResizeFlowTable, RepointWorkers,
           LowerBarrier, StopWorkers, JoinWorkers, pause_vars
  <1>2. PausedCountExact'
    BY <1>1 DEF CountInv, PausedCountExact, Paused
  <1>3. CASE Environment
    BY <1>1, <1>3 DEF CountInv, TypeOK, Environment, SignalReload, SignalQuit,
                      WriteConfig, signal_vars, file_vars, pause_vars, PausedCountExact, Paused
  <1>4. SUFFICES ASSUME Main PROVE TypeOK'
    BY <1>2, <1>3 DEF CountInv
  <1> USE DEF CountInv, TypeOK, signal_vars, file_vars, pause_vars, MainPcs, PublishPcs
  <1>5. CASE MainLoop
    BY <1>1, <1>5 DEF MainLoop
  <1>6. CASE PollReloadFlag
    BY <1>1, <1>6 DEF PollReloadFlag
  <1>7. CASE LoadConfig
    BY <1>1, <1>7 DEF LoadConfig, Abandon
  <1>8. CASE CompileTables
    BY <1>1, <1>8 DEF CompileTables, Abandon
  <1>9. CASE RaiseBarrier
    BY <1>1, <1>9 DEF RaiseBarrier, Abandon
  <1>10. CASE WaitForWorkers
    BY <1>1, <1>10 DEF WaitForWorkers
  <1>11. CASE DecideReload
    BY <1>1, <1>11 DEF DecideReload, Abandon
  <1>12. CASE SwapRules
    BY <1>1, <1>12 DEF SwapRules
  <1>13. CASE SwapDpiRules
    BY <1>1, <1>13 DEF SwapDpiRules
  <1>14. CASE ResizeFlowTable
    BY <1>1, <1>14 DEF ResizeFlowTable
  <1>15. CASE RepointWorkers
    BY <1>1, <1>15 DEF RepointWorkers
  <1>16. CASE LowerBarrier
    BY <1>1, <1>16 DEF LowerBarrier
  <1>17. CASE StopWorkers
    BY <1>1, <1>17 DEF StopWorkers
  <1>18. CASE JoinWorkers
    BY <1>1, <1>18 DEF JoinWorkers
  <1> QED
    BY <1>4, <1>5, <1>6, <1>7, <1>8, <1>9, <1>10, <1>11, <1>12, <1>13, <1>14, <1>15, <1>16, <1>17, <1>18 DEF Main

\* The initial state satisfies both.
LEMMA CountInit == Init => CountInv
  <1> SUFFICES ASSUME Init PROVE CountInv
    OBVIOUS
  <1>1. TypeOK
    <2>1. workers_paused \in 0..N
      BY WorkerCount DEF Init
    <2> QED
      BY <2>1 DEF Init, TypeOK, MainPcs, PublishPcs, WorkerPcs
  <1>2. Paused = {}
    BY DEF Init, Paused
  <1> QED
    BY <1>1, <1>2, FS_EmptySet DEF Init, CountInv, PausedCountExact

\* So does every step.
LEMMA CountStep == CountInv /\ [Next]_vars => CountInv'
  <1> SUFFICES ASSUME CountInv, [Next]_vars PROVE CountInv'
    OBVIOUS
  <1>1. CASE Next
    BY <1>1, WorkerCountStep, MainCountStep DEF Next
  <1>2. CASE UNCHANGED vars
    BY <1>2 DEF vars, signal_vars, file_vars, pause_vars, CountInv, TypeOK,
                PausedCountExact, Paused
  <1> QED
    BY <1>1, <1>2

\* workers_paused is exact in every reachable state, for any number of
\* workers: the fetch_add and fetch_sub of the worker loops always pair up.
THEOREM PausedCountCorrect == Spec => [](TypeOK /\ PausedCountExact)
  <1>1. Spec => []CountInv
    BY CountInit, CountStep, PTL DEF Spec
  <1> QED
    BY <1>1, PTL DEF CountInv

-----------------------------------------------------------------------------
(* No reload request is lost.                                               *)

\* FreshInv is inductive relative to the type invariant: the main lcore
\* clears reload_flag before it reads the file, so a change signalled after
\* the file was read leaves the flag set.
LEMMA FreshStep == TypeOK /\ FreshInv /\ [Next]_vars => FreshInv'
  <1> SUFFICES ASSUME TypeOK, FreshInv, [Next]_vars PROVE FreshInv'
    OBVIOUS
  <1> USE DEF FreshInv, ChangePending, TypeOK, signal_vars, file_vars, pause_vars,
              MainPcs, PublishPcs
  <1>1. CASE SignalReload
    BY <1>1 DEF SignalReload
  <1>2. CASE SignalQuit
    BY <1>2 DEF SignalQuit
  <1>3. CASE WriteConfig
    BY <1>3 DEF WriteConfig
  <1>4. CASE MainLoop
    BY <1>4 DEF MainLoop
  <1>5. CASE PollReloadFlag
    BY <1>5 DEF PollReloadFlag
  <1>6. CASE LoadConfig
    BY <1>6 DEF LoadConfig, Abandon
  <1>7. CASE CompileTables
    BY <1>7 DEF CompileTables, Abandon
  <1>8. CASE RaiseBarrier
    BY <1>8 DEF RaiseBarrier, Abandon
  <1>9. CASE WaitForWorkers
    BY <1>9 DEF WaitForWorkers
  <1>10. CASE DecideReload
    BY <1>10 DEF DecideReload, Abandon
  <1>11. CASE SwapRules
    BY <1>11 DEF SwapRules
  <1>12. CASE SwapDpiRules
    BY <1>12 DEF SwapDpiRules
  <1>13. CASE ResizeFlowTable
    BY <1>13 DEF ResizeFlowTable
  <1>14. CASE RepointWorkers
    BY <1>14 DEF RepointWorkers
  <1>15. CASE LowerBarrier
    BY <1>15 DEF LowerBarrier
  <1>16. CASE StopWorkers
    BY <1>16 DEF StopWorkers
  <1>17. CASE JoinWorkers
    BY <1>17 DEF JoinWorkers
  <1>18. CASE \E w \in Workers : Worker(w)
    BY <1>18 DEF Worker, Pausing, LoopHead, EndIteration, CheckBarrier, EnterPause,
                 LeaveSpin, LeavePause, main_vars
  <1>19. CASE UNCHANGED vars
    BY <1>19 DEF vars
  <1> QED
    BY <1>1, <1>2, <1>3, <1>4, <1>5, <1>6, <1>7, <1>8, <1>9, <1>10, <1>11, <1>12, <1>13, <1>14, <1>15, <1>16, <1>17, <1>18, <1>19
    DEF Next, Environment, Main

\* Every SIGUSR1 that follows a change of the configuration file leads to a
\* reload of that change, unless the reload is reported as cancelled, however
\* signals, file changes and the steps of a reload interleave.
THEOREM NoReloadLost == Spec => []NoLostReload
  <1>1. Init => FreshInv
    BY DEF Init, FreshInv, ChangePending
  <1>2. FreshInv => NoLostReload
    BY DEF FreshInv, ChangePending, NoLostReload
  <1>3. Spec => []TypeOK
    BY PausedCountCorrect, PTL
  <1> QED
    BY <1>1, <1>2, <1>3, FreshStep, PTL DEF Spec
=============================================================================
