----------------------------- MODULE FlowTable -----------------------------
(***************************************************************************)
(* The flow cache (spi_flow_table.hpp, spi_flow_table.cpp): workers look   *)
(* up and insert flows without a common lock while the main lcore purges   *)
(* the entries that are out of date, and sometimes migrates the cache to a *)
(* table of another size.                                                  *)
(*                                                                         *)
(* rte_hash gives each key a position and a pointer to a FlowData; the     *)
(* FlowData come from free_list_.  The action_and_count word of a FlowData *)
(* is abstracted to the flow whose verdict it holds, last_seen_tsc to      *)
(* whether a whole TTL has passed since it was written.                    *)
(***************************************************************************)
EXTENDS Integers, Sequences, Functions, FiniteSetsExt

CONSTANTS
    Keys,                \* canonical flow keys
    Workers,
    Sizes,               \* values max_concurrent_flows takes, reloads included
    Positions,           \* positions of rte_hash
    TtlEnabled,          \* flow_ttl_sec > 0
    EvictionThreshold,
    None

ASSUME FlowAssumption ==
    /\ Sizes \subseteq Nat \ {0} /\ Sizes # {} /\ Positions \subseteq Nat
    /\ TtlEnabled \in BOOLEAN /\ EvictionThreshold \in Nat \ {0}
    /\ None \notin Keys \cup Positions \cup UNION {0..(n - 1) : n \in Sizes}

VARIABLES
    valid,               \* hash_ # nullptr
    capacity,            \* max_concurrent_flows_
    position, data,      \* per key in the hash: its position and its FlowData
    word,                \* action_and_count of each FlowData
    old,                 \* FlowData whose last_seen_tsc is below the threshold
    free_list,
    overflow,            \* overflow_count_, up to the threshold
    worker_pc, key, ptr, \* per worker: where it is, its packet's flow, its FlowData
    hit,                 \* per worker: the verdict its latest Lookup found
    main_pc, idx,        \* the main lcore, and its place in the scan
    expired,             \* expired_data
    pressure,            \* the purge is due to ShouldEvictOnPressure
    recycled             \* a key has been deleted, or the table replaced

hash_vars == <<position, data>>
slot_vars == <<word, old>>
worker_vars == <<worker_pc, key, ptr, hit>>
main_vars == <<main_pc, idx, expired, pressure>>
table_vars == <<valid, capacity, recycled>>
vars == <<table_vars, hash_vars, slot_vars, free_list, overflow, worker_vars, main_vars>>

Slots == 0..(capacity - 1)
Cached == {k \in Keys : data[k] # None}

WorkerPcs == {"idle", "read", "insert", "update", "pop", "fill", "add", "give_back"}
MainPcs == {"idle", "scan", "delete", "clear", "reset"}

FlowTypeOK ==
    /\ valid \in BOOLEAN /\ capacity \in Sizes /\ recycled \in BOOLEAN
    /\ position \in [Keys -> Positions \cup {None}]
    /\ data \in [Keys -> Slots \cup {None}]
    /\ \A k \in Keys : position[k] = None <=> data[k] = None
    /\ word \in [Slots -> Keys \cup {None}] /\ old \in SUBSET Slots
    /\ free_list \in Seq(Slots)
    /\ overflow \in 0..EvictionThreshold
    /\ worker_pc \in [Workers -> WorkerPcs]
    /\ key \in [Workers -> Keys \cup {None}]
    /\ ptr \in [Workers -> Slots \cup {None}]
    /\ hit \in [Workers -> Keys \cup {None}]
    /\ main_pc \in MainPcs /\ idx \in 0..capacity /\ expired \in Seq(Slots)
    /\ pressure \in BOOLEAN

\* The constructor: a hash that could not be created leaves the table invalid.
\* The freelist is filled from slot 0 on.
Init ==
    /\ valid \in BOOLEAN /\ capacity \in Sizes /\ recycled = FALSE
    /\ position = [k \in Keys |-> None] /\ data = [k \in Keys |-> None]
    /\ word = [s \in Slots |-> None] /\ old = {}
    /\ free_list = IF valid THEN [i \in 1..capacity |-> i - 1] ELSE <<>>
    /\ overflow = 0
    /\ worker_pc = [w \in Workers |-> "idle"]
    /\ key = [w \in Workers |-> None] /\ ptr = [w \in Workers |-> None]
    /\ hit = [w \in Workers |-> None]
    /\ main_pc = "idle" /\ idx = 0 /\ expired = <<>> /\ pressure = FALSE

-----------------------------------------------------------------------------
(* Workers.                                                                 *)

Goto(w, from, to) ==
    /\ worker_pc[w] = from
    /\ worker_pc' = [worker_pc EXCEPT ![w] = to]

\* A packet of flow k: rte_hash_lookup_data of Lookup or LookupBulk.
LookupData(w, k) ==
    /\ Goto(w, "idle", IF k \in Cached THEN "read" ELSE "insert")
    /\ key' = [key EXCEPT ![w] = k]
    /\ ptr' = [ptr EXCEPT ![w] = data[k]]
    /\ hit' = [hit EXCEPT ![w] = None]
    /\ UNCHANGED <<table_vars, hash_vars, slot_vars, free_list, overflow, main_vars>>

\* The load of action_and_count and, on a hit, the store of last_seen_tsc.
ReadWord(w) ==
    /\ Goto(w, "read", IF word[ptr[w]] = None THEN "insert" ELSE "idle")
    /\ hit' = [hit EXCEPT ![w] = word[ptr[w]]]
    /\ old' = IF word[ptr[w]] = None THEN old ELSE old \ {ptr[w]}
    /\ ptr' = [ptr EXCEPT ![w] = None]
    /\ UNCHANGED <<table_vars, hash_vars, word, free_list, overflow, key, main_vars>>

\* The packet is not cached: no rule matched it, or its stream is incomplete.
SkipInsert(w) ==
    /\ Goto(w, "insert", "idle")
    /\ UNCHANGED <<table_vars, hash_vars, slot_vars, free_list, overflow,
                   key, ptr, hit, main_vars>>

CountOverflow == overflow' = IF overflow < EvictionThreshold THEN overflow + 1 ELSE overflow

\* Insert looks the key up before it takes a FlowData.
InsertLookup(w) ==
    /\ Goto(w, "insert", IF ~valid THEN "idle" ELSE IF key[w] \in Cached THEN "update" ELSE "pop")
    /\ ptr' = [ptr EXCEPT ![w] = data[key[w]]]
    /\ IF valid THEN UNCHANGED overflow ELSE CountOverflow
    /\ UNCHANGED <<table_vars, hash_vars, slot_vars, free_list, key, hit, main_vars>>

\* Stores of last_seen_tsc and action_and_count.
StoreWord(w) ==
    /\ word' = [word EXCEPT ![ptr[w]] = key[w]]
    /\ old' = old \ {ptr[w]}

UpdateWord(w) ==
    /\ Goto(w, "update", "idle")
    /\ StoreWord(w)
    /\ ptr' = [ptr EXCEPT ![w] = None]
    /\ UNCHANGED <<table_vars, hash_vars, free_list, overflow, key, hit, main_vars>>

\* freelist_lock_ is held by the main lcore for the whole of a scan; the
\* workers' critical sections are single steps.
Unlocked == main_pc \in {"idle", "reset"}

\* Mutant: the FlowData is read but not taken off the freelist.
PopFreePeek(w) ==
    /\ Unlocked
    /\ IF free_list = <<>>
       THEN Goto(w, "pop", "idle") /\ CountOverflow /\ UNCHANGED ptr
       ELSE /\ Goto(w, "pop", "fill")
            /\ ptr' = [ptr EXCEPT ![w] = free_list[Len(free_list)]]
            /\ UNCHANGED overflow
    /\ UNCHANGED <<table_vars, hash_vars, slot_vars, free_list, key, hit, main_vars>>

PopFree(w) ==
    /\ Unlocked
    /\ IF free_list = <<>>
       THEN Goto(w, "pop", "idle") /\ CountOverflow /\ UNCHANGED <<free_list, ptr>>
       ELSE /\ Goto(w, "pop", "fill")
            /\ ptr' = [ptr EXCEPT ![w] = free_list[Len(free_list)]]
            /\ free_list' = SubSeq(free_list, 1, Len(free_list) - 1)
            /\ UNCHANGED overflow
    /\ UNCHANGED <<table_vars, hash_vars, slot_vars, key, hit, main_vars>>

FillSlot(w) ==
    /\ Goto(w, "fill", "add")
    /\ StoreWord(w)
    /\ UNCHANGED <<table_vars, hash_vars, free_list, overflow, key, ptr, hit, main_vars>>

\* A position is in use until rte_hash_free_key_with_position; which of the
\* others is handed out depends on the caches that rte_hash keeps per lcore.
FreePositions ==
    {p \in Positions : (\A k \in Keys : position[k] # p) /\ ~(main_pc = "clear" /\ p = idx)}

\* rte_hash_add_key_data overwrites the pointer of a key that is present.
AddKey(w) ==
    /\ Goto(w, "add", "idle")
    /\ data' = [data EXCEPT ![key[w]] = ptr[w]]
    /\ IF key[w] \in Cached
       THEN UNCHANGED position
       ELSE \E p \in FreePositions : position' = [position EXCEPT ![key[w]] = p]
    /\ ptr' = [ptr EXCEPT ![w] = None]
    /\ UNCHANGED <<table_vars, slot_vars, free_list, overflow, key, hit, main_vars>>

\* rte_hash finds no room for a new key in its buckets.
AddKeyFails(w) ==
    /\ key[w] \notin Cached
    /\ Goto(w, "add", "give_back")
    /\ UNCHANGED <<table_vars, hash_vars, slot_vars, free_list, overflow,
                   key, ptr, hit, main_vars>>

\* Mutant: the pointer is cleared before it is pushed.
GiveBackNull(w) ==
    /\ Unlocked
    /\ Goto(w, "give_back", "idle")
    /\ free_list' = Append(free_list, None)
    /\ ptr' = [ptr EXCEPT ![w] = None]
    /\ CountOverflow
    /\ UNCHANGED <<table_vars, hash_vars, slot_vars, key, hit, main_vars>>

GiveBack(w) ==
    /\ Unlocked
    /\ Goto(w, "give_back", "idle")
    /\ free_list' = Append(free_list, ptr[w])
    /\ ptr' = [ptr EXCEPT ![w] = None]
    /\ CountOverflow
    /\ UNCHANGED <<table_vars, hash_vars, slot_vars, key, hit, main_vars>>

Insert(w) ==
    \/ SkipInsert(w) \/ InsertLookup(w) \/ UpdateWord(w) \/ PopFree(w) \/ FillSlot(w)
    \/ AddKey(w) \/ AddKeyFails(w) \/ GiveBack(w)

Worker(w) == (\E k \in Keys : LookupData(w, k)) \/ ReadWord(w) \/ Insert(w)

-----------------------------------------------------------------------------
(* The main lcore.                                                          *)

\* A TTL passes without a packet of any flow.
Age ==
    /\ old' = Slots
    /\ UNCHANGED <<table_vars, hash_vars, word, free_list, overflow, worker_vars, main_vars>>

\* PurgeExpired, when the statistics timer fires or under pressure.
StartPurge ==
    /\ main_pc = "idle" /\ TtlEnabled /\ valid
    /\ pressure' \in {FALSE, overflow >= EvictionThreshold}
    /\ main_pc' = "scan" /\ idx' = 0
    /\ UNCHANGED <<table_vars, hash_vars, slot_vars, free_list, overflow, worker_vars, expired>>

KeyAt(p) == {k \in Keys : position[k] = p}

\* Mutant: an expired FlowData is freed although no key is found.
ScanSlotUnchecked ==
    /\ main_pc = "scan" /\ idx < capacity
    /\ IF word[idx] # None /\ idx \in old
       THEN main_pc' = "delete" /\ UNCHANGED idx
       ELSE idx' = idx + 1 /\ UNCHANGED main_pc
    /\ UNCHANGED <<table_vars, hash_vars, slot_vars, free_list, overflow, worker_vars,
                   expired, pressure>>

\* rte_hash_get_key_with_position of the index of an expired FlowData.
ScanSlot ==
    /\ main_pc = "scan" /\ idx < capacity
    /\ IF word[idx] # None /\ idx \in old /\ KeyAt(idx) # {}
       THEN main_pc' = "delete" /\ UNCHANGED idx
       ELSE idx' = idx + 1 /\ UNCHANGED main_pc
    /\ UNCHANGED <<table_vars, hash_vars, slot_vars, free_list, overflow, worker_vars,
                   expired, pressure>>

\* rte_hash_del_key.  Only the main lcore deletes, so the key is still there.
DeleteKey ==
    /\ main_pc = "delete"
    /\ position' = [k \in Keys |-> IF k \in KeyAt(idx) THEN None ELSE position[k]]
    /\ data' = [k \in Keys |-> IF k \in KeyAt(idx) THEN None ELSE data[k]]
    /\ main_pc' = "clear" /\ recycled' = TRUE
    /\ UNCHANGED <<valid, capacity, slot_vars, free_list, overflow, worker_vars, idx,
                   expired, pressure>>

ClearSlot ==
    /\ main_pc = "clear"
    /\ word' = [word EXCEPT ![idx] = None]
    /\ old' = old \cup {idx}
    /\ expired' = Append(expired, idx)
    /\ main_pc' = "scan" /\ idx' = idx + 1
    /\ UNCHANGED <<table_vars, hash_vars, free_list, overflow, worker_vars, pressure>>

\* The scan is over, or a quit signal cuts it short.
FinishPurge ==
    /\ main_pc = "scan"
    /\ free_list' = free_list \o expired
    /\ expired' = <<>>
    /\ main_pc' = IF pressure THEN "reset" ELSE "idle"
    /\ idx' = 0
    /\ UNCHANGED <<table_vars, hash_vars, slot_vars, overflow, worker_vars, pressure>>

ResetOverflow ==
    /\ main_pc = "reset"
    /\ overflow' = 0
    /\ main_pc' = "idle" /\ pressure' = FALSE
    /\ UNCHANGED <<table_vars, hash_vars, slot_vars, free_list, worker_vars, idx, expired>>

\* MaybeReloadFlowTable, with the workers paused.  ForEachOccupied pairs the
\* FlowData at an index with the key at that position; InsertRaw takes the
\* new FlowData from the end of the new freelist.  When rte_hash has no room
\* for the key, the FlowData goes back to the freelist with its word set.
Occupied == {s \in Slots : valid /\ word[s] # None /\ KeyAt(s) # {}}

Resize ==
    /\ main_pc = "idle" /\ \A w \in Workers : worker_pc[w] = "idle"
    /\ \E new_max \in Sizes \ {capacity}, migrated \in SUBSET Occupied :
        LET count == Cardinality(migrated)
            rank(s) == Cardinality({m \in migrated : m <= s})
            from(s) == {m \in migrated : new_max - rank(m) = s}
            moved == {k \in Keys : \E s \in migrated : k \in KeyAt(s)}
            failed == {s \in Occupied \ migrated : \A m \in migrated : m < s}
        IN  /\ count <= new_max
            /\ valid' = TRUE /\ capacity' = new_max
            /\ data' = [k \in Keys |-> IF k \in moved THEN new_max - rank(position[k]) ELSE None]
            /\ position' \in {f \in [Keys -> Positions \cup {None}] :
                    /\ \A k \in Keys : f[k] = None <=> k \notin moved
                    /\ \A j, k \in moved : f[j] = f[k] => j = k}
            /\ word' = [s \in 0..(new_max - 1) |->
                    IF from(s) # {} THEN word[CHOOSE m \in from(s) : TRUE]
                    ELSE IF s = new_max - count - 1 /\ failed # {} THEN word[Max(failed)] ELSE None]
            /\ free_list' = [i \in 1..(new_max - count) |-> i - 1]
    /\ old' = {} /\ overflow' = 0 /\ recycled' = TRUE
    /\ UNCHANGED <<worker_vars, main_vars>>

Main ==
    \/ StartPurge \/ ScanSlot \/ DeleteKey \/ ClearSlot \/ FinishPurge \/ ResetOverflow
    \/ Resize

-----------------------------------------------------------------------------
Next == Main \/ Age \/ \E w \in Workers : Worker(w)

Spec == Init /\ [][Next]_vars

-----------------------------------------------------------------------------
(* Properties.                                                              *)

Holding == {w \in Workers : worker_pc[w] \in {"fill", "add", "give_back"}}

\* max_concurrent_flows is a hard ceiling: each cached flow is paid for with
\* a FlowData that is neither free nor on its way to or from the freelist,
\* through every race of Insert with Insert and with PurgeExpired.
HardCeiling ==
    Cardinality(Cached) + Len(free_list) + Len(expired) + Cardinality(Holding)
        + (IF main_pc = "clear" THEN 1 ELSE 0) <= capacity

\* A hit yields a verdict that was stored for the packet's own flow.
HitsOwn == \A w \in Workers : hit[w] # None => hit[w] = key[w]

\* It does, whatever the workers' lookups and inserts do to each other, until
\* PurgeExpired deletes a first key or a reload replaces the table.
HitsOwnUntilRecycled == recycled \/ HitsOwn

\* No FlowData is lost: each is free, cached, or in the hands of an Insert or
\* a purge.  The code does not keep this (see the README): of two workers that
\* insert one flow at once, one overwrites the pointer of the other.
NoSlotLeaked ==
    valid => \A s \in Slots :
        \/ s \in Range(free_list) \cup Range(expired)
        \/ \E k \in Keys : data[k] = s
        \/ \E w \in Holding : ptr[w] = s
        \/ main_pc = "clear" /\ idx = s
=============================================================================
