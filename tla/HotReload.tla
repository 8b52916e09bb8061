----------------------------- MODULE HotReload -----------------------------
(***************************************************************************)
(* Who uses which table during a hot reload: ReloadBarrier with the two    *)
(* table managers (spi_rule_table_manager.hpp, dpi_rule_table_manager.hpp) *)
(* and the flow table that MaybeReloadFlowTable replaces.                  *)
(*                                                                         *)
(* A table is abstracted to the set of workers that are using it.  Freeing *)
(* a table that is in use moves its users into freed.                      *)
(***************************************************************************)
EXTENDS ReloadBarrier

CONSTANT Null          \* a null pointer to a table

ASSUME NullAssumption == \A table \in SUBSET Workers : table # Null

VARIABLES
    active, retired, prev_retired,   \* the fields of the managers
    new_table,           \* compiled tables, not yet published
    flow_table,          \* Pipeline::flow_table_
    freed,               \* workers that are using a freed table, by kind
    stage                \* where in its iteration each worker is

table_vars == <<active, retired, prev_retired, new_table>>
use_vars == <<active, retired, prev_retired, flow_table, freed>>
hot_vars == <<vars, table_vars, flow_table, freed, stage>>

Managers == {"spi", "dpi"}
Kinds == Managers \cup {"flow"}
Table == SUBSET Workers
Pointer == {Null} \cup Table

\* Empty tables for both managers, the one for DPI only if DPI is enabled.
Compiled(dpi_enabled) ==
    [m \in Managers |-> IF m = "spi" \/ dpi_enabled THEN {} ELSE Null]

\* Outside a burst or between two packets; inside Lookup; using the SPI
\* table; using the DPI table too; inside Insert.
Stages == {"receive", "lookup", "spi", "dpi", "insert"}

HotTypeOK ==
    /\ TypeOK
    /\ active \in [Managers -> Pointer] /\ active["spi"] # Null
    /\ retired \in [Managers -> Pointer] /\ prev_retired \in [Managers -> Pointer]
    /\ new_table \in [Managers -> {Null, {}}]
    /\ main_pc \in {"raise", "wait", "verdict", "swap_spi"} => new_table["spi"] = {}
    /\ flow_table \in Table
    /\ freed \in [Kinds -> Table]
    /\ stage \in [Workers -> Stages]

\* The Pipeline constructor; the first configuration may disable DPI.
HotInit ==
    /\ Init
    /\ \E dpi_enabled \in BOOLEAN : active = Compiled(dpi_enabled)
    /\ retired = [m \in Managers |-> Null]
    /\ prev_retired = [m \in Managers |-> Null]
    /\ new_table = [m \in Managers |-> Null]
    /\ flow_table = {}
    /\ freed = [k \in Kinds |-> {}]
    /\ stage = [w \in Workers |-> "receive"]

-----------------------------------------------------------------------------
(* The main lcore: its control steps and what they do to the tables.        *)

BuildTables ==
    /\ CompileTables
    /\ IF main_pc' = "raise"
       THEN \E dpi_enabled \in BOOLEAN : new_table' = Compiled(dpi_enabled)
       ELSE UNCHANGED new_table
    /\ UNCHANGED <<use_vars, stage>>

\* A cancelled reload destroys what it compiled.
Discard == new_table' = [m \in Managers |-> Null] /\ UNCHANGED <<use_vars, stage>>

\* Steps that leave the tables alone.
ControlStep ==
    \/ MainLoop \/ PollReloadFlag \/ LoadConfig \/ WaitForWorkers
    \/ (RaiseBarrier \/ DecideReload) /\ main_pc' # "loop"
    \/ RepointWorkers \/ LowerBarrier \/ StopWorkers \/ JoinWorkers

CancelReload == (RaiseBarrier \/ DecideReload) /\ main_pc' = "loop" /\ Discard

UsersOf(pointer) == IF pointer = Null THEN {} ELSE pointer

\* Mutant: new_table has been moved from already, so that a null pointer
\* is published.
SwapNull(m) ==
    /\ active' = [active EXCEPT ![m] = Null]
    /\ prev_retired' = [prev_retired EXCEPT ![m] = retired[m]]
    /\ retired' = [retired EXCEPT ![m] = active[m]]
    /\ new_table' = [new_table EXCEPT ![m] = Null]
    /\ UNCHANGED <<freed, flow_table, stage>>

\* Mutant: no deferred cleanup, the table before the new one is freed.
SwapFreesOld(m) ==
    /\ active' = [active EXCEPT ![m] = new_table[m]]
    /\ freed' = [freed EXCEPT ![m] = @ \cup UsersOf(active[m])]
    /\ new_table' = [new_table EXCEPT ![m] = Null]
    /\ UNCHANGED <<retired, prev_retired, flow_table, stage>>

\* Swap of either manager.  Overwriting prev_retired_ frees the table in it.
Swap(m) ==
    /\ active' = [active EXCEPT ![m] = new_table[m]]
    /\ freed' = [freed EXCEPT ![m] = @ \cup UsersOf(prev_retired[m])]
    /\ prev_retired' = [prev_retired EXCEPT ![m] = retired[m]]
    /\ retired' = [retired EXCEPT ![m] = active[m]]
    /\ new_table' = [new_table EXCEPT ![m] = Null]
    /\ UNCHANGED <<flow_table, stage>>

PublishRules == SwapRules /\ Swap("spi")
PublishDpiRules == SwapDpiRules /\ Swap("dpi")

\* flow_table_ = std::move(new_table) frees the old table at once.
ReplaceFlowTable ==
    /\ ResizeFlowTable
    /\ IF main_pc' = "repoint"
       THEN /\ flow_table' = {}
            /\ freed' = [freed EXCEPT !["flow"] = @ \cup flow_table]
       ELSE UNCHANGED <<flow_table, freed>>
    /\ UNCHANGED <<table_vars, stage>>

HotMain ==
    \/ ControlStep /\ UNCHANGED <<table_vars, flow_table, freed, stage>>
    \/ BuildTables \/ CancelReload
    \/ PublishRules \/ PublishDpiRules \/ ReplaceFlowTable

-----------------------------------------------------------------------------
(* A worker inside its iteration.                                           *)

At(w, from, to) ==
    /\ worker_pc[w] = "burst" /\ stage[w] = from
    /\ stage' = [stage EXCEPT ![w] = to]
    /\ UNCHANGED <<vars, new_table>>

\* A call through context.flow_table, which points to the freed table until
\* RepointWorkers.
UseFlowTable(w) ==
    IF main_pc = "repoint"
    THEN freed' = [freed EXCEPT !["flow"] = @ \cup {w}] /\ UNCHANGED flow_table
    ELSE flow_table' = flow_table \cup {w} /\ UNCHANGED freed

\* Load() of manager m: the worker uses the table that is active now.
Load(w, m) == active' = [active EXCEPT ![m] = IF @ = Null THEN Null ELSE @ \cup {w}]

\* Worker w lets go of the tables of the given kinds.
Without(pointer, w) == IF pointer = Null THEN Null ELSE pointer \ {w}

LetGo(w, kinds) ==
    LET drop(slot) == [m \in Managers |->
                         IF m \in kinds THEN Without(slot[m], w) ELSE slot[m]]
    IN  /\ active' = drop(active)
        /\ retired' = drop(retired)
        /\ prev_retired' = drop(prev_retired)
        /\ flow_table' = IF "flow" \in kinds THEN flow_table \ {w} ELSE flow_table
        /\ freed' = [k \in Kinds |-> IF k \in kinds THEN freed[k] \ {w} ELSE freed[k]]

\* BulkFlowLookup for the burst of one port, Lookup for one dispatched packet.
LookupFlow(w) ==
    /\ At(w, "receive", "lookup")
    /\ UseFlowTable(w)
    /\ UNCHANGED <<active, retired, prev_retired>>

\* rule_manager->Load(), once Lookup has returned.
LoadRules(w) ==
    /\ At(w, "lookup", "spi")
    /\ Load(w, "spi")
    /\ flow_table' = flow_table \ {w}
    /\ freed' = [freed EXCEPT !["flow"] = @ \ {w}]
    /\ UNCHANGED <<retired, prev_retired>>

\* dpi_rule_manager->Load(), for one packet that missed the flow table.
LoadDpiRules(w) ==
    /\ At(w, "spi", "dpi")
    /\ Load(w, "dpi")
    /\ UNCHANGED <<retired, prev_retired, flow_table, freed>>

InsertFlow(w) ==
    /\ At(w, "dpi", "insert")
    /\ UseFlowTable(w)
    /\ UNCHANGED <<active, retired, prev_retired>>

\* The next packet of the same burst: the SPI table stays in use.
NextPacket(w) ==
    /\ \E from \in {"dpi", "insert"} : At(w, from, "spi")
    /\ LetGo(w, {"dpi", "flow"})

\* The next port (queue mode) or the next packet (dispatch mode).
NextBurst(w) ==
    /\ \E from \in {"lookup", "spi", "dpi", "insert"} : At(w, from, "receive")
    /\ LetGo(w, Kinds)

HotEndIteration(w) ==
    /\ EndIteration(w)
    /\ LetGo(w, Kinds)
    /\ stage' = [stage EXCEPT ![w] = "receive"]
    /\ UNCHANGED new_table

HotWorker(w) ==
    \/ (LoopHead(w) \/ Pausing(w)) /\ UNCHANGED <<table_vars, flow_table, freed, stage>>
    \/ LookupFlow(w) \/ LoadRules(w) \/ LoadDpiRules(w) \/ InsertFlow(w)
    \/ NextPacket(w) \/ NextBurst(w) \/ HotEndIteration(w)

-----------------------------------------------------------------------------
HotNext ==
    \/ Environment /\ UNCHANGED <<table_vars, flow_table, freed, stage>>
    \/ HotMain
    \/ \E w \in Workers : HotWorker(w)

HotSpec == HotInit /\ [][HotNext]_hot_vars

-----------------------------------------------------------------------------
(* Properties.                                                              *)

\* With more than one worker, the table that the next Swap frees is not in
\* use: a worker that outlives the barrier of one reload lets go of every
\* table before the next reload gets its acknowledgement.
FreedTablesUnused ==
    \A m \in Managers : freed[m] = {} /\ UsersOf(prev_retired[m]) = {}

\* A worker that loaded the old rule table finishes using it before it is
\* freed: what Swap is documented to ensure by deferring the cleanup.
HeldTablesAlive == \A m \in Managers : freed[m] = {}

\* The flow table that a worker uses is not freed by a resize: what the wait
\* on workers_paused_ was introduced for.  The code does not keep this (see
\* the README): an acknowledgement may be left over from the reload before.
HeldFlowTableAlive == freed["flow"] = {}
=============================================================================
