-------------------------- MODULE FlowTableProofs --------------------------
(***************************************************************************)
(* Proofs about FlowTable: until a purge deletes a first key, or a reload  *)
(* replaces the table, a cache hit always yields the verdict of the        *)
(* packet's own flow, whatever the interleaving of the workers' lookups    *)
(* and inserts with each other and with the scans of the main lcore.       *)
(***************************************************************************)
EXTENDS FlowTable, InductionLemmas, TLAPS

\* flow_ttl_sec is 0 and no reload changes max_concurrent_flows.
Static == ~TtlEnabled /\ \E n \in Sizes : Sizes = {n}

-----------------------------------------------------------------------------
(* The inductive invariant: who may refer to a FlowData, and whose verdict  *)
(* it then holds.                                                           *)

PointerPcs == {"read", "update", "fill", "add", "give_back"}
HoldingPcs == {"fill", "add", "give_back"}

\* A worker with a packet has its key, one that needs a FlowData has it.
Equipped ==
    \A w \in Workers :
        /\ worker_pc[w] # "idle" => key[w] \in Keys
        /\ worker_pc[w] \in PointerPcs => ptr[w] \in Slots

FreeDistinct ==
    \A i, j \in DOMAIN free_list : free_list[i] = free_list[j] => i = j

\* A free FlowData is neither cached nor in use by a worker.
FreeUnused ==
    \A i \in DOMAIN free_list :
        /\ \A k \in Keys : data[k] # free_list[i]
        /\ \A w \in Workers : worker_pc[w] \in PointerPcs => ptr[w] # free_list[i]

\* A FlowData that an Insert has taken is its own until it is added.
HeldUnused ==
    \A w \in Workers : worker_pc[w] \in HoldingPcs =>
        /\ \A k \in Keys : data[k] # ptr[w]
        /\ \A v \in Workers \ {w} : worker_pc[v] \in PointerPcs => ptr[v] # ptr[w]

\* A FlowData holds the verdict of the flow it is cached for, and of the flow
\* that a worker found it under.
OwnWords ==
    /\ \A k \in Keys : data[k] # None => word[data[k]] = k
    /\ \A w \in Workers : worker_pc[w] \in {"read", "update", "add"} => word[ptr[w]] = key[w]

\* The main lcore has not recycled anything yet.
Quiet == ~recycled /\ main_pc \in {"idle", "scan", "delete", "reset"} /\ expired = <<>>

OwnInv ==
    /\ FlowTypeOK /\ Quiet /\ Equipped /\ FreeDistinct /\ FreeUnused
    /\ HeldUnused /\ OwnWords /\ HitsOwn

-----------------------------------------------------------------------------
(* Every step preserves it.                                                 *)

LEMMA LookupDataOwn ==
  ASSUME OwnInv, NEW w \in Workers, NEW k \in Keys, LookupData(w, k)
  PROVE  OwnInv'
  <1> USE FlowAssumption DEF OwnInv, LookupData, Goto, Cached, table_vars, hash_vars, slot_vars, main_vars, Slots
  <1>1. FlowTypeOK' /\ Quiet'
    BY Zenon DEF Quiet, FlowTypeOK, WorkerPcs
  <1>2. Equipped'
    BY Zenon DEF Equipped, FlowTypeOK, PointerPcs
  <1>3. FreeDistinct' /\ FreeUnused'
    BY DEF FreeDistinct, FreeUnused, FlowTypeOK, PointerPcs
  <1>4. HeldUnused'
    BY DEF HeldUnused, FlowTypeOK, PointerPcs, HoldingPcs
  <1>5. OwnWords'
    BY DEF OwnWords, Equipped, FlowTypeOK, PointerPcs
  <1>6. HitsOwn'
    BY Zenon DEF HitsOwn, OwnWords, FlowTypeOK
  <1> QED
    BY Zenon, <1>1, <1>2, <1>3, <1>4, <1>5, <1>6

LEMMA ReadWordOwn ==
  ASSUME OwnInv, NEW w \in Workers, ReadWord(w)
  PROVE  OwnInv'
  <1> USE FlowAssumption DEF OwnInv, ReadWord, Goto, table_vars, hash_vars, slot_vars, main_vars, Slots
  <1>0. ptr[w] \in Slots /\ word[ptr[w]] \in Keys \cup {None}
    BY Zenon DEF Equipped, FlowTypeOK, PointerPcs
  <1>1. FlowTypeOK' /\ Quiet'
    BY Zenon, <1>0 DEF Quiet, FlowTypeOK, WorkerPcs
  <1>2. Equipped'
    BY Zenon DEF Equipped, FlowTypeOK, PointerPcs
  <1>3. FreeDistinct' /\ FreeUnused'
    BY Zenon DEF FreeDistinct, FreeUnused, FlowTypeOK, PointerPcs
  <1>4. HeldUnused'
    BY DEF HeldUnused, FlowTypeOK, PointerPcs, HoldingPcs
  <1>5. OwnWords'
    BY Zenon DEF OwnWords, Equipped, FlowTypeOK, PointerPcs
  <1>6. HitsOwn'
    BY Zenon DEF HitsOwn, OwnWords, FlowTypeOK
  <1> QED
    BY Zenon, <1>1, <1>2, <1>3, <1>4, <1>5, <1>6

LEMMA SkipInsertOwn ==
  ASSUME OwnInv, NEW w \in Workers, SkipInsert(w)
  PROVE  OwnInv'
  <1> USE FlowAssumption DEF OwnInv, SkipInsert, Goto, table_vars, hash_vars, slot_vars, main_vars, Slots
  <1>1. FlowTypeOK' /\ Quiet'
    BY Zenon DEF Quiet, FlowTypeOK, WorkerPcs
  <1>2. Equipped'
    BY DEF Equipped, FlowTypeOK, PointerPcs
  <1>3. FreeDistinct' /\ FreeUnused'
    BY Zenon DEF FreeDistinct, FreeUnused, FlowTypeOK, PointerPcs
  <1>4. HeldUnused'
    BY DEF HeldUnused, FlowTypeOK, PointerPcs, HoldingPcs
  <1>5. OwnWords'
    BY Zenon DEF OwnWords, Equipped, FlowTypeOK, PointerPcs
  <1>6. HitsOwn'
    BY Zenon DEF HitsOwn, OwnWords, FlowTypeOK
  <1> QED
    BY Zenon, <1>1, <1>2, <1>3, <1>4, <1>5, <1>6

LEMMA InsertLookupOwn ==
  ASSUME OwnInv, NEW w \in Workers, InsertLookup(w)
  PROVE  OwnInv'
  <1> USE FlowAssumption DEF OwnInv, InsertLookup, Goto, Cached, CountOverflow, table_vars, hash_vars, slot_vars, main_vars, Slots
  <1>0. /\ key[w] \in Keys /\ data[key[w]] \in Slots \cup {None}
        /\ overflow' \in 0..EvictionThreshold
    BY DEF Equipped, FlowTypeOK
  <1>1. FlowTypeOK' /\ Quiet'
    BY Zenon, <1>0 DEF Quiet, FlowTypeOK, WorkerPcs
  <1>2. Equipped'
    BY Zenon DEF Equipped, FlowTypeOK, PointerPcs
  <1>3. FreeDistinct' /\ FreeUnused'
    BY DEF FreeDistinct, FreeUnused, FlowTypeOK, PointerPcs
  <1>4. HeldUnused'
    BY DEF HeldUnused, FlowTypeOK, PointerPcs, HoldingPcs
  <1>5. OwnWords'
    BY Zenon DEF OwnWords, Equipped, FlowTypeOK, PointerPcs
  <1>6. HitsOwn'
    BY Zenon DEF HitsOwn, OwnWords, FlowTypeOK
  <1> QED
    BY Zenon, <1>1, <1>2, <1>3, <1>4, <1>5, <1>6

LEMMA UpdateWordOwn ==
  ASSUME OwnInv, NEW w \in Workers, UpdateWord(w)
  PROVE  OwnInv'
  <1> USE FlowAssumption DEF OwnInv, UpdateWord, Goto, StoreWord, table_vars, hash_vars, slot_vars, main_vars, Slots
  <1>1. FlowTypeOK' /\ Quiet'
    BY Zenon DEF Quiet, FlowTypeOK, WorkerPcs
  <1>2. Equipped'
    BY Zenon DEF Equipped, FlowTypeOK, PointerPcs
  <1>3. FreeDistinct' /\ FreeUnused'
    BY Zenon DEF FreeDistinct, FreeUnused, FlowTypeOK, PointerPcs
  <1>4. HeldUnused'
    BY DEF HeldUnused, FlowTypeOK, PointerPcs, HoldingPcs
  <1>5. OwnWords'
    BY DEF OwnWords, Equipped, FlowTypeOK, PointerPcs
  <1>6. HitsOwn'
    BY Zenon DEF HitsOwn, OwnWords, FlowTypeOK
  <1> QED
    BY Zenon, <1>1, <1>2, <1>3, <1>4, <1>5, <1>6

LEMMA AddKeyFailsOwn ==
  ASSUME OwnInv, NEW w \in Workers, AddKeyFails(w)
  PROVE  OwnInv'
  <1> USE FlowAssumption DEF OwnInv, AddKeyFails, Goto, table_vars, hash_vars, slot_vars, main_vars, Slots
  <1>1. FlowTypeOK' /\ Quiet'
    BY Zenon DEF Quiet, FlowTypeOK, WorkerPcs
  <1>2. Equipped'
    BY DEF Equipped, FlowTypeOK, PointerPcs
  <1>3. FreeDistinct' /\ FreeUnused'
    BY DEF FreeDistinct, FreeUnused, FlowTypeOK, PointerPcs
  <1>4. HeldUnused'
    BY DEF HeldUnused, FlowTypeOK, PointerPcs, HoldingPcs
  <1>5. OwnWords'
    BY Zenon DEF OwnWords, Equipped, FlowTypeOK, PointerPcs
  <1>6. HitsOwn'
    BY Zenon DEF HitsOwn, OwnWords, FlowTypeOK
  <1> QED
    BY Zenon, <1>1, <1>2, <1>3, <1>4, <1>5, <1>6

\* What popping the last element of a sequence leaves.
LEMMA PopFacts ==
  ASSUME NEW S, NEW seq \in Seq(S), seq # <<>>, NEW front, front = SubSeq(seq, 1, Len(seq) - 1)
  PROVE  /\ Len(seq) \in Nat \ {0} /\ DOMAIN seq = 1..Len(seq)
         /\ front \in Seq(S) /\ DOMAIN front = 1..(Len(seq) - 1)
         /\ \A i \in 1..(Len(seq) - 1) : front[i] = seq[i]
         /\ seq[Len(seq)] \in S
  <1>1. Len(seq) \in Nat \ {0} /\ DOMAIN seq = 1..Len(seq) /\ seq[Len(seq)] \in S
    OBVIOUS
  <1>2. /\ front \in Seq(S) /\ Len(front) = Len(seq) - 1
        /\ \A i \in 1..(Len(seq) - 1) : front[i] = seq[i]
    BY <1>1, SeqPart
  <1> QED
    BY <1>1, <1>2

\* What PopFree does when the freelist is not empty.
LEMMA PopFreeFacts ==
  ASSUME FlowTypeOK, NEW w \in Workers, PopFree(w), free_list # <<>>
  PROVE  /\ Len(free_list) \in Nat \ {0} /\ DOMAIN free_list = 1..Len(free_list)
         /\ free_list' \in Seq(Slots) /\ DOMAIN free_list' = 1..(Len(free_list) - 1)
         /\ \A i \in 1..(Len(free_list) - 1) : free_list'[i] = free_list[i]
         /\ ptr' = [ptr EXCEPT ![w] = free_list[Len(free_list)]]
         /\ free_list[Len(free_list)] \in Slots
         /\ worker_pc[w] = "pop" /\ worker_pc' = [worker_pc EXCEPT ![w] = "fill"]
         /\ UNCHANGED <<valid, capacity, position, data, word, old, overflow, key, hit,
                        main_pc, idx, expired, pressure, recycled>>
  <1>1. free_list \in Seq(Slots)
    BY Zenon DEF FlowTypeOK
  <1>2. /\ free_list' = SubSeq(free_list, 1, Len(free_list) - 1)
        /\ ptr' = [ptr EXCEPT ![w] = free_list[Len(free_list)]]
        /\ worker_pc[w] = "pop" /\ worker_pc' = [worker_pc EXCEPT ![w] = "fill"]
        /\ UNCHANGED <<valid, capacity, position, data, word, old, overflow, key, hit,
                       main_pc, idx, expired, pressure, recycled>>
    BY Zenon DEF PopFree, Goto, table_vars, hash_vars, slot_vars, main_vars
  <1> QED
    BY <1>1, <1>2, PopFacts

\* The FlowData that Insert pops is in nobody else's hands.
LEMMA PopFreeOwn ==
  ASSUME OwnInv, NEW w \in Workers, PopFree(w)
  PROVE  OwnInv'
  <1>1. CASE free_list = <<>>
    <2> USE <1>1, FlowAssumption DEF OwnInv, PopFree, Goto, CountOverflow, Slots,
                                table_vars, hash_vars, slot_vars, main_vars
    <2>1. overflow' \in 0..EvictionThreshold
      BY DEF FlowTypeOK
    <2>2. FlowTypeOK' /\ Quiet'
      BY <2>1 DEF Quiet, FlowTypeOK, WorkerPcs
    <2>3. Equipped' /\ FreeDistinct' /\ FreeUnused' /\ HeldUnused' /\ OwnWords' /\ HitsOwn'
      BY DEF Equipped, FreeDistinct, FreeUnused, HeldUnused, OwnWords, HitsOwn,
             FlowTypeOK, PointerPcs, HoldingPcs
    <2> QED
      BY Zenon, <2>2, <2>3
  <1>2. CASE free_list # <<>>
    <2> DEFINE n == Len(free_list)
    <2>1. /\ n \in Nat \ {0} /\ DOMAIN free_list = 1..n
          /\ free_list' \in Seq(Slots) /\ DOMAIN free_list' = 1..(n - 1)
          /\ \A i \in 1..(n - 1) : free_list'[i] = free_list[i]
          /\ free_list[n] \in Slots
      BY Zenon, <1>2, PopFreeFacts DEF OwnInv
    <2>2. /\ ptr' = [ptr EXCEPT ![w] = free_list[n]]
          /\ worker_pc[w] = "pop" /\ worker_pc' = [worker_pc EXCEPT ![w] = "fill"]
          /\ UNCHANGED <<valid, capacity, position, data, word, old, overflow, key, hit,
                         main_pc, idx, expired, pressure, recycled>>
      BY Zenon, <1>2, PopFreeFacts DEF OwnInv
    <2> HIDE DEF n
    <2>3. /\ ptr \in [Workers -> Slots \cup {None}] /\ worker_pc \in [Workers -> WorkerPcs]
          /\ ptr'[w] = free_list[n] /\ worker_pc'[w] = "fill"
          /\ \A v \in Workers \ {w} : ptr'[v] = ptr[v] /\ worker_pc'[v] = worker_pc[v]
      BY Zenon, <2>2 DEF OwnInv, FlowTypeOK
    <2>4. FlowTypeOK' /\ Quiet'
      BY Zenon, <2>1, <2>2 DEF Quiet, OwnInv, FlowTypeOK, WorkerPcs, Slots
    <2>5. Equipped'
      BY Zenon, <2>1, <2>2, <2>3 DEF OwnInv, Equipped, Slots, PointerPcs
    <2>6. n \in DOMAIN free_list /\ \A i \in 1..(n - 1) : i \in DOMAIN free_list /\ i # n
      BY <2>1
    <2>7. FreeDistinct'
      BY Zenon, <2>1, <2>6 DEF OwnInv, FreeDistinct
    <2>8. FreeUnused'
      BY <2>1, <2>2, <2>3, <2>6 DEF OwnInv, FreeDistinct, FreeUnused, PointerPcs
    <2>9. HeldUnused'
      BY <2>2, <2>3, <2>6 DEF OwnInv, HeldUnused, FreeUnused, PointerPcs, HoldingPcs
    <2>10. OwnWords' /\ HitsOwn'
      BY Zenon, <2>2, <2>3 DEF OwnInv, OwnWords, HitsOwn
    <2> QED
      BY Zenon, <2>4, <2>5, <2>7, <2>8, <2>9, <2>10 DEF OwnInv
  <1> QED
    BY Zenon, <1>1, <1>2

\* Filling the FlowData disturbs no other word.
LEMMA FillSlotOwn ==
  ASSUME OwnInv, NEW w \in Workers, FillSlot(w)
  PROVE  OwnInv'
  <1> USE FlowAssumption DEF OwnInv, FillSlot, Goto, StoreWord, Slots, table_vars,
                             hash_vars, slot_vars, main_vars
  <1>0. key[w] \in Keys /\ ptr[w] \in Slots
    BY Zenon DEF Equipped, PointerPcs
  <1>1. FlowTypeOK' /\ Quiet'
    BY Zenon, <1>0 DEF Quiet, FlowTypeOK, WorkerPcs
  <1>2. Equipped' /\ HitsOwn'
    BY DEF Equipped, FlowTypeOK, PointerPcs, HitsOwn
  <1>3. FreeDistinct' /\ FreeUnused'
    BY DEF FreeDistinct, FreeUnused, FlowTypeOK, PointerPcs
  <1>4. HeldUnused'
    BY DEF HeldUnused, FlowTypeOK, PointerPcs, HoldingPcs
  <1>5. OwnWords'
    BY <1>0 DEF OwnWords, HeldUnused, Equipped, FlowTypeOK, PointerPcs, HoldingPcs
  <1> QED
    BY Zenon, <1>1, <1>2, <1>3, <1>4, <1>5

\* A FlowData that is added was its Insert's own; the one it replaces, if any,
\* keeps its word.
LEMMA AddKeyOwn ==
  ASSUME OwnInv, NEW w \in Workers, AddKey(w)
  PROVE  OwnInv'
  <1> USE FlowAssumption DEF OwnInv, AddKey, Goto, Slots, table_vars, slot_vars, main_vars
  <1>0. /\ key[w] \in Keys /\ ptr[w] \in Slots /\ ptr[w] # None
        /\ \A i \in DOMAIN free_list : free_list[i] # ptr[w]
        /\ worker_pc[w] = "add" /\ worker_pc'[w] = "idle"
        /\ \A v \in Workers \ {w} : ptr'[v] = ptr[v] /\ worker_pc'[v] = worker_pc[v]
        /\ \A k \in Keys : data'[k] = IF k = key[w] THEN ptr[w] ELSE data[k]
    BY DEF Equipped, FreeUnused, FlowTypeOK, PointerPcs
  <1>1. FlowTypeOK' /\ Quiet'
    BY <1>0 DEF Quiet, FlowTypeOK, WorkerPcs, Cached, FreePositions
  <1>2. Equipped' /\ HitsOwn'
    BY Zenon, <1>0 DEF Equipped, HitsOwn, PointerPcs
  <1>3. FreeDistinct' /\ FreeUnused'
    BY <1>0 DEF FreeDistinct, FreeUnused, PointerPcs
  <1>4. HeldUnused'
    BY <1>0 DEF HeldUnused, PointerPcs, HoldingPcs
  <1>5. OwnWords'
    BY <1>0 DEF OwnWords
  <1> QED
    BY Zenon, <1>1, <1>2, <1>3, <1>4, <1>5

LEMMA GiveBackOwn ==
  ASSUME OwnInv, NEW w \in Workers, GiveBack(w)
  PROVE  OwnInv'
  <1> USE FlowAssumption DEF OwnInv, GiveBack, Goto, CountOverflow, Slots, table_vars,
                             hash_vars, slot_vars, main_vars
  <1>0. /\ ptr[w] \in Slots /\ overflow' \in 0..EvictionThreshold
        /\ worker_pc[w] = "give_back" /\ worker_pc'[w] = "idle"
        /\ \A v \in Workers \ {w} : ptr'[v] = ptr[v] /\ worker_pc'[v] = worker_pc[v]
    BY DEF Equipped, FlowTypeOK, PointerPcs
  <1>1. /\ free_list' \in Seq(Slots)
        /\ DOMAIN free_list = 1..Len(free_list) /\ Len(free_list) \in Nat
        /\ DOMAIN free_list' = 1..(Len(free_list) + 1)
        /\ free_list'[Len(free_list) + 1] = ptr[w]
        /\ \A i \in 1..Len(free_list) : free_list'[i] = free_list[i]
    BY <1>0 DEF FlowTypeOK
  <1>2. FlowTypeOK' /\ Quiet'
    BY Zenon, <1>0, <1>1 DEF Quiet, FlowTypeOK, WorkerPcs
  <1>3. Equipped' /\ OwnWords' /\ HitsOwn'
    BY <1>0 DEF Equipped, OwnWords, HitsOwn, PointerPcs
  <1>4. FreeDistinct'
    BY <1>0, <1>1 DEF FreeDistinct, FreeUnused, PointerPcs
  <1>5. FreeUnused'
    BY <1>0, <1>1 DEF FreeUnused, HeldUnused, PointerPcs, HoldingPcs
  <1>6. HeldUnused'
    BY <1>0 DEF HeldUnused, PointerPcs, HoldingPcs
  <1> QED
    BY Zenon, <1>2, <1>3, <1>4, <1>5, <1>6

\* A step of a worker, and time that passes.
LEMMA OwnWorkerStep ==
  ASSUME OwnInv, Age \/ \E w \in Workers : Worker(w)
  PROVE  OwnInv'
  <1>1. CASE Age
    BY <1>1 DEF Age, OwnInv, Quiet, FlowTypeOK, Slots, Equipped, FreeDistinct, FreeUnused,
                HeldUnused, OwnWords, HitsOwn, table_vars, hash_vars, worker_vars, main_vars
  <1>2. ASSUME NEW w \in Workers, Worker(w)
        PROVE  OwnInv'
    <2>1. ASSUME NEW k \in Keys, LookupData(w, k) PROVE OwnInv'
      BY Zenon, <2>1, LookupDataOwn
    <2>2. CASE ReadWord(w)
      BY Zenon, <2>2, ReadWordOwn
    <2>3. CASE Insert(w)
      BY Zenon, <2>3, SkipInsertOwn, InsertLookupOwn, UpdateWordOwn, PopFreeOwn, FillSlotOwn,
         AddKeyOwn, AddKeyFailsOwn, GiveBackOwn DEF Insert
    <2> QED
      BY Zenon, <1>2, <2>1, <2>2, <2>3 DEF Worker
  <1> QED
    BY Zenon, <1>1, <1>2

LEMMA OwnStutter == ASSUME OwnInv, UNCHANGED vars PROVE OwnInv'
  BY Zenon DEF vars, OwnInv, Quiet, FlowTypeOK, Slots, Equipped, FreeDistinct, FreeUnused,
         HeldUnused, OwnWords, HitsOwn, table_vars, hash_vars, slot_vars,
         worker_vars, main_vars

\* A scan that deletes nothing leaves flows, FlowData and freelist alone.
LEMMA OwnScan ==
  ASSUME OwnInv, StartPurge \/ ScanSlot \/ FinishPurge \/ ResetOverflow
  PROVE  OwnInv'
  <1>1. /\ UNCHANGED <<table_vars, hash_vars, slot_vars, free_list, worker_vars>>
        /\ main_pc' \in {"idle", "scan", "delete", "reset"} /\ expired' = <<>>
        /\ idx' \in 0..capacity /\ overflow' \in 0..EvictionThreshold /\ pressure' \in BOOLEAN
    <2>1. /\ capacity \in Nat \ {0} /\ idx \in 0..capacity /\ overflow \in 0..EvictionThreshold
          /\ pressure \in BOOLEAN /\ expired = <<>> /\ free_list \in Seq(Slots)
      BY Zenon, FlowAssumption DEF OwnInv, Quiet, FlowTypeOK
    <2>2. CASE StartPurge
      <3>1. pressure' \in BOOLEAN
        <4>1. pressure' = FALSE \/ pressure' = (overflow >= EvictionThreshold)
          BY Zenon, <2>2 DEF StartPurge
        <4>2. (overflow >= EvictionThreshold) \in BOOLEAN
          OBVIOUS
        <4> QED
          BY Zenon, <4>1, <4>2
      <3> QED
        BY <2>1, <2>2, <3>1 DEF StartPurge
    <2>3. CASE ScanSlot
      BY <2>1, <2>3 DEF ScanSlot, OwnInv, Quiet
    <2>4. CASE FinishPurge
      <3>1. free_list \o <<>> = free_list
        BY <2>1
      <3> QED
        BY <2>1, <2>4, <3>1 DEF FinishPurge
    <2>5. CASE ResetOverflow
      <3>1. 0 \in 0..EvictionThreshold
        BY FlowAssumption
      <3>2. overflow' = 0 /\ pressure' \in BOOLEAN
        BY Zenon, <2>5 DEF ResetOverflow
      <3> QED
        BY Zenon, <2>1, <2>5, <3>1, <3>2 DEF ResetOverflow
    <2> QED
      BY Zenon, <2>2, <2>3, <2>4, <2>5
  <1>2. FlowTypeOK' /\ Quiet'
    BY Zenon, <1>1 DEF OwnInv, Quiet, FlowTypeOK, Slots, MainPcs, table_vars, hash_vars, slot_vars, worker_vars
  <1>3. Equipped' /\ FreeDistinct' /\ FreeUnused' /\ HeldUnused' /\ OwnWords' /\ HitsOwn'
    BY Zenon, <1>1 DEF OwnInv, Equipped, FreeDistinct, FreeUnused, HeldUnused, OwnWords, HitsOwn,
                Slots, table_vars, hash_vars, slot_vars, worker_vars
  <1> QED
    BY Zenon, <1>2, <1>3 DEF OwnInv

LEMMA OwnStep == ASSUME OwnInv, [Next]_vars PROVE recycled' \/ OwnInv'
  <1>1. CASE Main
    <2>1. ~ClearSlot
      BY Zenon DEF OwnInv, Quiet, ClearSlot
    <2>2. DeleteKey \/ Resize => recycled'
      BY Zenon DEF DeleteKey, Resize
    <2> QED
      BY Zenon, <1>1, <2>1, <2>2, OwnScan DEF Main
  <1> QED
    BY Zenon, <1>1, OwnWorkerStep, OwnStutter DEF Next

\* What has been recycled remains so.
LEMMA RecycledStays == ASSUME recycled, [Next]_vars PROVE recycled'
  <1>1. CASE Main
    BY Zenon, <1>1 DEF Main, StartPurge, ScanSlot, DeleteKey, ClearSlot, FinishPurge, ResetOverflow,
                Resize, table_vars
  <1>2. CASE Age
    BY Zenon, <1>2 DEF Age, table_vars
  <1>3. ASSUME NEW w \in Workers, Worker(w) PROVE recycled'
    BY Zenon, <1>3 DEF Worker, LookupData, ReadWord, Insert, SkipInsert, InsertLookup, UpdateWord,
                PopFree, FillSlot, AddKey, AddKeyFails, GiveBack, table_vars
  <1> QED
    BY Zenon, <1>1, <1>2, <1>3 DEF Next, vars, table_vars

LEMMA OwnInit == Init => OwnInv
  <1> SUFFICES ASSUME Init PROVE OwnInv
    BY Zenon
  <1>1. capacity \in Nat \ {0}
    BY Zenon, FlowAssumption DEF Init
  <1>2. /\ free_list \in Seq(Slots)
        /\ \A i \in DOMAIN free_list : free_list[i] = i - 1 /\ i \in Nat /\ free_list[i] \in Slots
    <2>1. CASE valid
      <3> DEFINE slots == [i \in 1..capacity |-> i - 1]
      <3>1. \A i \in 1..capacity : i - 1 \in Slots
        BY <1>1 DEF Slots
      <3>2. slots \in Seq(Slots)
        <4>1. slots \in [1..capacity -> Slots]
          BY Zenon, <3>1
        <4> HIDE DEF slots
        <4> QED BY Zenon, <1>1, <4>1, SeqOfValues
      <3> QED
        BY <1>1, <2>1, <3>1, <3>2 DEF Init
    <2>2. CASE ~valid
      BY <2>2 DEF Init
    <2> QED
      BY Zenon, <2>1, <2>2
  <1>9. None \notin Slots /\ \A s \in Slots : s # None
    BY Zenon, FlowAssumption DEF Init, Slots
  <1>3. FlowTypeOK
    <2>1. 0 \in 0..capacity /\ 0 \in 0..EvictionThreshold
      <3>1. EvictionThreshold \in Nat
        BY Zenon, FlowAssumption
      <3> QED BY <1>1, <3>1
    <2>2. /\ free_list \in Seq(Slots) /\ expired \in Seq(Slots)
          /\ word \in [Slots -> Keys \cup {None}] /\ old \in SUBSET Slots
      BY <1>2 DEF Init
    <2>3. /\ position \in [Keys -> Positions \cup {None}]
          /\ data \in [Keys -> Slots \cup {None}]
          /\ \A k \in Keys : position[k] = None <=> data[k] = None
          /\ key \in [Workers -> Keys \cup {None}] /\ hit \in [Workers -> Keys \cup {None}]
          /\ ptr \in [Workers -> Slots \cup {None}]
      BY Zenon DEF Init
    <2> QED
      BY Zenon, <2>1, <2>2, <2>3 DEF Init, FlowTypeOK, WorkerPcs, MainPcs
  <1>4. Equipped /\ HeldUnused /\ OwnWords /\ HitsOwn
    BY Zenon DEF Init, Equipped, HeldUnused, OwnWords, HitsOwn, PointerPcs, HoldingPcs
  <1>5. FreeDistinct
    BY <1>2 DEF FreeDistinct
  <1>6. FreeUnused
    BY Zenon, <1>2, <1>9 DEF Init, FreeUnused, PointerPcs
  <1> QED
    BY Zenon, <1>3, <1>4, <1>5, <1>6 DEF OwnInv, Quiet, Init

\* Whatever the number of workers, flows and FlowData, with or without a TTL,
\* and however lookups and concurrent inserts of the same flow interleave, a
\* hit yields the verdict of the packet's own flow until PurgeExpired deletes a
\* key or MaybeReloadFlowTable replaces the table.
THEOREM HitsOwnFirst == Spec => []HitsOwnUntilRecycled
  <1> DEFINE Inv == recycled \/ OwnInv
  <1>1. Init => Inv
    BY Zenon, OwnInit
  <1>2. Inv /\ [Next]_vars => Inv'
    BY Zenon, OwnStep, RecycledStays
  <1>3. Inv => HitsOwnUntilRecycled
    BY Zenon DEF OwnInv, HitsOwnUntilRecycled
  <1> QED
    BY <1>1, <1>2, <1>3, PTL DEF Spec

\* A table that is never purged (flow_ttl_sec is 0) and keeps its size is never
\* recycled, so that its hits are always the packet's own.
THEOREM StaticHitsOwn == Static => (Spec => [](FlowTypeOK /\ HitsOwn))
  <1> SUFFICES ASSUME Static PROVE Spec => [](FlowTypeOK /\ HitsOwn)
    BY Zenon
  <1> DEFINE Inv == OwnInv /\ main_pc = "idle"
  <1>1. Init => Inv
    BY Zenon, OwnInit DEF Init
  <1>2. Inv /\ [Next]_vars => Inv'
    <2> SUFFICES ASSUME Inv, [Next]_vars PROVE Inv'
      BY Zenon
    <2>1. ~Main
      BY Zenon DEF Static, OwnInv, FlowTypeOK, Main, StartPurge, ScanSlot, DeleteKey, ClearSlot,
             FinishPurge, ResetOverflow, Resize
    <2>2. OwnInv'
      BY Zenon, <2>1, OwnWorkerStep, OwnStutter DEF Next
    <2>3. main_pc' = main_pc
      BY Zenon, <2>1 DEF Next, Age, Worker, LookupData, ReadWord, Insert, SkipInsert, InsertLookup,
                  UpdateWord, PopFree, FillSlot, AddKey, AddKeyFails, GiveBack, vars, main_vars
    <2> QED
      BY Zenon, <2>2, <2>3
  <1>3. Inv => FlowTypeOK /\ HitsOwn
    BY Zenon DEF OwnInv
  <1> QED
    BY <1>1, <1>2, <1>3, PTL DEF Spec
-----------------------------------------------------------------------------
(* The ceiling.  It needs no assumption on what a FlowData holds; what it    *)
(* needs is that a position belongs to one flow, that the purge deletes a    *)
(* flow before it clears a FlowData, and that nothing is held across a       *)
(* resize.                                                                   *)

\* A worker that needs no FlowData has none.
EmptyHanded ==
    \A w \in Workers : worker_pc[w] \in {"idle", "insert", "pop"} => ptr[w] = None

\* A table without a hash caches nothing, and no Insert gets past its check.
InvalidUnused ==
    ~valid => Cached = {} /\ \A w \in Workers : worker_pc[w] \in {"idle", "insert"}

PositionsDistinct ==
    \A j, k \in Keys : position[j] # None /\ position[j] = position[k] => j = k

\* What the scan of PurgeExpired has found and gathered.
ScanState ==
    /\ main_pc \in {"idle", "reset"} => idx = 0 /\ expired = <<>>
    /\ main_pc \in {"delete", "clear"} => idx < capacity
    /\ main_pc = "delete" => KeyAt(idx) # {}

Countable == IsFiniteSet(Cached) /\ IsFiniteSet(Holding)

TableInv ==
    /\ FlowTypeOK /\ Equipped /\ EmptyHanded /\ InvalidUnused /\ PositionsDistinct
    /\ ScanState

CeilingInv == TableInv /\ Countable /\ HardCeiling

LEMMA NoneIsNoSlot == ASSUME FlowTypeOK PROVE None \notin Slots /\ None \notin Positions /\ capacity \in Nat \ {0}
  BY Zenon, FlowAssumption DEF FlowTypeOK, Slots

\* The steps of Lookup, and of Insert up to the pop.
LEMMA LookupTable ==
  ASSUME TableInv, NEW w \in Workers,
         (\E k \in Keys : LookupData(w, k)) \/ ReadWord(w) \/ SkipInsert(w) \/ InsertLookup(w)
  PROVE  TableInv' /\ UNCHANGED <<Cached, Holding, free_list, expired, capacity, main_pc>>
  <1> USE DEF TableInv, Goto, Cached, Slots, table_vars, hash_vars, slot_vars, main_vars
  <1>1. CASE \E k \in Keys : LookupData(w, k)
    <2> PICK k \in Keys : LookupData(w, k)
      BY Zenon, <1>1
    <2> USE DEF LookupData
    <2>1. FlowTypeOK'
      BY Zenon DEF FlowTypeOK, WorkerPcs
    <2>2. Equipped' /\ EmptyHanded' /\ InvalidUnused'
      BY Zenon DEF FlowTypeOK, WorkerPcs, Equipped, EmptyHanded, InvalidUnused, PointerPcs
    <2>3. PositionsDistinct' /\ ScanState' /\ UNCHANGED <<Cached, free_list, expired, capacity, main_pc>>
      BY Zenon DEF PositionsDistinct, ScanState, KeyAt
    <2>4. UNCHANGED Holding
      BY Zenon DEF Holding, FlowTypeOK
    <2> QED BY Zenon, <2>1, <2>2, <2>3, <2>4
  <1>2. CASE ReadWord(w)
    <2> USE <1>2 DEF ReadWord
    <2>0. ptr[w] \in Slots /\ word[ptr[w]] \in Keys \cup {None}
      BY Zenon DEF Equipped, FlowTypeOK, PointerPcs
    <2>1. FlowTypeOK'
      BY Zenon, <2>0 DEF FlowTypeOK, WorkerPcs
    <2>2. Equipped' /\ EmptyHanded' /\ InvalidUnused'
      BY Zenon DEF FlowTypeOK, WorkerPcs, Equipped, EmptyHanded, InvalidUnused, PointerPcs
    <2>3. PositionsDistinct' /\ ScanState' /\ UNCHANGED <<Cached, free_list, expired, capacity, main_pc>>
      BY Zenon DEF PositionsDistinct, ScanState, KeyAt
    <2>4. UNCHANGED Holding
      BY Zenon DEF Holding, FlowTypeOK
    <2> QED BY Zenon, <2>1, <2>2, <2>3, <2>4
  <1>3. CASE SkipInsert(w)
    <2> USE <1>3 DEF SkipInsert
    <2>1. FlowTypeOK'
      BY Zenon DEF FlowTypeOK, WorkerPcs
    <2>2. Equipped' /\ EmptyHanded' /\ InvalidUnused'
      BY Zenon DEF FlowTypeOK, WorkerPcs, Equipped, EmptyHanded, InvalidUnused, PointerPcs
    <2>3. PositionsDistinct' /\ ScanState' /\ UNCHANGED <<Cached, free_list, expired, capacity, main_pc>>
      BY Zenon DEF PositionsDistinct, ScanState, KeyAt
    <2>4. UNCHANGED Holding
      BY Zenon DEF Holding, FlowTypeOK
    <2> QED BY Zenon, <2>1, <2>2, <2>3, <2>4
  <1>4. CASE InsertLookup(w)
    <2> USE <1>4 DEF InsertLookup
    <2>0. /\ key[w] \in Keys /\ data[key[w]] \in Slots \cup {None}
          /\ overflow' \in 0..EvictionThreshold
      <3>1. key[w] \in Keys
        BY Zenon DEF Equipped
      <3>2. data[key[w]] \in Slots \cup {None}
        BY Zenon, <3>1 DEF FlowTypeOK
      <3>3. overflow \in 0..EvictionThreshold /\ EvictionThreshold \in Nat
        BY Zenon, FlowAssumption DEF FlowTypeOK
      <3>4. overflow' = overflow \/ CountOverflow
        BY Zenon
      <3>5. overflow' \in 0..EvictionThreshold
        BY SMTT(60), <3>3, <3>4 DEF CountOverflow
      <3> QED
        BY Zenon, <3>1, <3>2, <3>5
    <2>1. FlowTypeOK'
      BY Zenon, <2>0 DEF FlowTypeOK, WorkerPcs
    <2>2. Equipped' /\ EmptyHanded' /\ InvalidUnused'
      BY Zenon, <2>0 DEF FlowTypeOK, WorkerPcs, Equipped, EmptyHanded, InvalidUnused, PointerPcs
    <2>3. PositionsDistinct' /\ ScanState' /\ UNCHANGED <<Cached, free_list, expired, capacity, main_pc>>
      BY Zenon DEF PositionsDistinct, ScanState, KeyAt
    <2>4. UNCHANGED Holding
      BY Zenon DEF Holding, FlowTypeOK
    <2> QED BY Zenon, <2>1, <2>2, <2>3, <2>4
  <1> QED
    BY Zenon, <1>1, <1>2, <1>3, <1>4

\* The stores of Insert, and an add that fails.
LEMMA StoreTable ==
  ASSUME TableInv, NEW w \in Workers, UpdateWord(w) \/ FillSlot(w) \/ AddKeyFails(w)
  PROVE  TableInv' /\ UNCHANGED <<Cached, Holding, free_list, expired, capacity, main_pc>>
  <1> USE DEF TableInv, Goto, Cached, Slots, StoreWord, table_vars, hash_vars, slot_vars, main_vars
  <1>0. /\ worker_pc[w] \in {"update", "fill", "add"} /\ key[w] \in Keys /\ ptr[w] \in Slots
        /\ valid
    BY Zenon DEF UpdateWord, FillSlot, AddKeyFails, Equipped, PointerPcs, InvalidUnused
  <1>1. CASE UpdateWord(w)
    <2> USE <1>0, <1>1 DEF UpdateWord
    <2>1. FlowTypeOK'
      BY Zenon DEF FlowTypeOK, WorkerPcs
    <2>2. Equipped' /\ EmptyHanded' /\ InvalidUnused'
      BY Zenon DEF FlowTypeOK, WorkerPcs, Equipped, EmptyHanded, InvalidUnused, PointerPcs
    <2>3. PositionsDistinct' /\ ScanState' /\ UNCHANGED <<Cached, free_list, expired, capacity, main_pc>>
      BY Zenon DEF PositionsDistinct, ScanState, KeyAt
    <2>4. UNCHANGED Holding
      BY Zenon DEF Holding, FlowTypeOK
    <2> QED BY Zenon, <2>1, <2>2, <2>3, <2>4
  <1>2. CASE FillSlot(w)
    <2> USE <1>0, <1>2 DEF FillSlot
    <2>1. FlowTypeOK'
      BY Zenon DEF FlowTypeOK, WorkerPcs
    <2>2. Equipped' /\ EmptyHanded' /\ InvalidUnused'
      BY Zenon DEF FlowTypeOK, WorkerPcs, Equipped, EmptyHanded, InvalidUnused, PointerPcs
    <2>3. PositionsDistinct' /\ ScanState' /\ UNCHANGED <<Cached, free_list, expired, capacity, main_pc>>
      BY Zenon DEF PositionsDistinct, ScanState, KeyAt
    <2>4. UNCHANGED Holding
      BY Zenon DEF Holding, FlowTypeOK
    <2> QED BY Zenon, <2>1, <2>2, <2>3, <2>4
  <1>3. CASE AddKeyFails(w)
    <2> USE <1>0, <1>3 DEF AddKeyFails
    <2>1. FlowTypeOK'
      BY Zenon DEF FlowTypeOK, WorkerPcs
    <2>2. Equipped' /\ EmptyHanded' /\ InvalidUnused'
      BY Zenon DEF FlowTypeOK, WorkerPcs, Equipped, EmptyHanded, InvalidUnused, PointerPcs
    <2>3. PositionsDistinct' /\ ScanState' /\ UNCHANGED <<Cached, free_list, expired, capacity, main_pc>>
      BY Zenon DEF PositionsDistinct, ScanState, KeyAt
    <2>4. UNCHANGED Holding
      BY Zenon DEF Holding, FlowTypeOK
    <2> QED BY Zenon, <2>1, <2>2, <2>3, <2>4
  <1> QED
    BY Zenon, <1>1, <1>2, <1>3

\* A FlowData leaves the freelist for the hands of its worker.
LEMMA PopFreeTable ==
  ASSUME TableInv, NEW w \in Workers, PopFree(w), free_list # <<>>
  PROVE  /\ TableInv' /\ UNCHANGED <<Cached, expired, capacity, main_pc>>
         /\ Len(free_list') = Len(free_list) - 1
         /\ Holding' = Holding \cup {w} /\ w \notin Holding
  <1> DEFINE n == Len(free_list)
  <1>1. /\ n \in Nat \ {0} /\ DOMAIN free_list' = 1..(n - 1) /\ free_list' \in Seq(Slots)
        /\ ptr' = [ptr EXCEPT ![w] = free_list[n]] /\ free_list[n] \in Slots
        /\ worker_pc[w] = "pop" /\ worker_pc' = [worker_pc EXCEPT ![w] = "fill"]
        /\ UNCHANGED <<valid, capacity, position, data, word, old, overflow, key, hit,
                       main_pc, idx, expired, pressure, recycled>>
    BY Zenon, PopFreeFacts DEF TableInv
  <1>2. Len(free_list') = n - 1
    BY <1>1
  <1> HIDE DEF n
  <1> USE <1>1 DEF TableInv, Slots
  <1>3. FlowTypeOK'
    BY Zenon DEF FlowTypeOK, WorkerPcs
  <1>4. Equipped' /\ EmptyHanded' /\ InvalidUnused'
    BY Zenon DEF FlowTypeOK, Equipped, EmptyHanded, InvalidUnused, PointerPcs, Cached
  <1>5. PositionsDistinct' /\ ScanState' /\ UNCHANGED Cached
    BY Zenon DEF PositionsDistinct, ScanState, KeyAt, Cached
  <1>6. Holding' = Holding \cup {w} /\ w \notin Holding
    BY Zenon DEF Holding, FlowTypeOK
  <1> QED
    BY Zenon, <1>2, <1>3, <1>4, <1>5, <1>6 DEF n

LEMMA PopFreeEmptyTable ==
  ASSUME TableInv, NEW w \in Workers, PopFree(w), free_list = <<>>
  PROVE  TableInv' /\ UNCHANGED <<Cached, Holding, free_list, expired, capacity, main_pc>>
  <1> USE DEF TableInv, PopFree, Goto, Cached, Slots, table_vars, hash_vars, slot_vars, main_vars
  <1>0. overflow' \in 0..EvictionThreshold
    BY FlowAssumption DEF FlowTypeOK, CountOverflow
  <1>1. FlowTypeOK'
    BY Zenon, <1>0 DEF FlowTypeOK, WorkerPcs
  <1>2. Equipped' /\ EmptyHanded' /\ InvalidUnused'
    BY Zenon DEF FlowTypeOK, Equipped, EmptyHanded, InvalidUnused, PointerPcs
  <1>3. PositionsDistinct' /\ ScanState' /\ UNCHANGED <<Cached, free_list, expired, capacity, main_pc>>
    BY Zenon DEF PositionsDistinct, ScanState, KeyAt
  <1>4. UNCHANGED Holding
    BY Zenon DEF Holding, FlowTypeOK
  <1> QED
    BY Zenon, <1>1, <1>2, <1>3, <1>4

\* A FlowData leaves the hands of its worker for the hash ...
LEMMA AddKeyTable ==
  ASSUME TableInv, NEW w \in Workers, AddKey(w)
  PROVE  /\ TableInv' /\ UNCHANGED <<free_list, expired, capacity, main_pc>>
         /\ Holding' = Holding \ {w} /\ w \in Holding /\ Cached' = Cached \cup {key[w]}
  <1> USE DEF TableInv, AddKey, Goto, Slots, table_vars, slot_vars, main_vars
  <1>0. /\ key[w] \in Keys /\ ptr[w] \in Slots /\ ptr[w] # None /\ valid
        /\ worker_pc[w] = "add" /\ None \notin Positions
    BY Zenon, NoneIsNoSlot DEF Equipped, PointerPcs, InvalidUnused
  <1>1. \A k \in Keys : data'[k] = IF k = key[w] THEN ptr[w] ELSE data[k]
    BY Zenon DEF FlowTypeOK
  <1>2. CASE key[w] \in Cached
    <2>1. UNCHANGED position /\ position[key[w]] # None
      BY Zenon, <1>0, <1>2 DEF Cached, FlowTypeOK
    <2>2. FlowTypeOK'
      BY Zenon, <1>0, <2>1 DEF FlowTypeOK, WorkerPcs
    <2>3. PositionsDistinct' /\ ScanState'
      BY Zenon, <2>1 DEF PositionsDistinct, ScanState, KeyAt
    <2>4. Equipped' /\ EmptyHanded' /\ InvalidUnused'
      BY Zenon, <1>0, <2>1 DEF FlowTypeOK, Equipped, EmptyHanded, InvalidUnused, PointerPcs
    <2>5. Holding' = Holding \ {w} /\ w \in Holding
      BY Zenon, <1>0 DEF FlowTypeOK, Holding
    <2>6. Cached' = Cached \cup {key[w]}
      BY <1>0, <1>1, <1>2 DEF FlowTypeOK, Cached
    <2> QED
      BY Zenon, <2>2, <2>3, <2>4, <2>5, <2>6
  <1>3. CASE key[w] \notin Cached
    <2>1. PICK p \in FreePositions : position' = [position EXCEPT ![key[w]] = p]
      BY Zenon, <1>3
    <2>2. /\ p \in Positions /\ p # None /\ position[key[w]] = None
          /\ \A k \in Keys : position[k] # p
          /\ \A k \in Keys : position'[k] = IF k = key[w] THEN p ELSE position[k]
      BY Zenon, <1>0, <1>3, <2>1 DEF FreePositions, Cached, FlowTypeOK
    <2>3. FlowTypeOK'
      BY Zenon, <1>0, <2>1, <2>2 DEF FlowTypeOK, WorkerPcs
    <2>4. PositionsDistinct'
      <3>1. PositionsDistinct
        BY Zenon
      <3> HIDE DEF TableInv, AddKey, Goto, Slots, table_vars, slot_vars, main_vars
      <3> QED
        BY <2>2, <3>1 DEF PositionsDistinct
    <2>5. ScanState'
      <3>1. ASSUME main_pc = "delete" PROVE KeyAt(idx)' # {}
        <4>1. PICK k \in Keys : position[k] = idx
          BY Zenon, <3>1 DEF ScanState, KeyAt
        <4>2. idx # None
          <5>1. idx \in Slots
            BY <3>1, NoneIsNoSlot DEF FlowTypeOK, ScanState
          <5> QED BY Zenon, <5>1, NoneIsNoSlot
        <4> QED BY Zenon, <4>1, <4>2, <2>2 DEF KeyAt
      <3> QED BY Zenon, <3>1 DEF ScanState
    <2>6. Equipped' /\ EmptyHanded' /\ InvalidUnused'
      BY Zenon, <1>0 DEF FlowTypeOK, Equipped, EmptyHanded, InvalidUnused, PointerPcs
    <2>7. Holding' = Holding \ {w} /\ w \in Holding
      BY Zenon, <1>0 DEF FlowTypeOK, Holding
    <2>8. Cached' = Cached \cup {key[w]}
      BY Zenon, <1>0, <1>1 DEF FlowTypeOK, Cached
    <2> QED
      BY Zenon, <2>3, <2>4, <2>5, <2>6, <2>7, <2>8
  <1> QED
    BY Zenon, <1>2, <1>3

\* ... or back to the freelist.
LEMMA GiveBackTable ==
  ASSUME TableInv, NEW w \in Workers, GiveBack(w)
  PROVE  /\ TableInv' /\ UNCHANGED <<Cached, expired, capacity, main_pc>>
         /\ Len(free_list') = Len(free_list) + 1
         /\ Holding' = Holding \ {w} /\ w \in Holding
  <1> USE DEF TableInv, GiveBack, Goto, Slots, table_vars, hash_vars, slot_vars, main_vars
  <1>0. ptr[w] \in Slots /\ valid /\ overflow' \in 0..EvictionThreshold
    <2>1. ptr[w] \in Slots /\ valid
      BY Zenon DEF Equipped, PointerPcs, InvalidUnused
    <2>2. overflow' \in 0..EvictionThreshold
      BY FlowAssumption DEF FlowTypeOK, CountOverflow
    <2> QED BY Zenon, <2>1, <2>2
  <1>1. free_list' \in Seq(Slots) /\ Len(free_list') = Len(free_list) + 1
    BY <1>0 DEF FlowTypeOK
  <1>2. FlowTypeOK'
    BY Zenon, <1>0, <1>1 DEF FlowTypeOK, WorkerPcs
  <1>3. Equipped' /\ EmptyHanded' /\ InvalidUnused'
    BY Zenon, <1>0 DEF FlowTypeOK, Equipped, EmptyHanded, InvalidUnused, PointerPcs
  <1>4. PositionsDistinct' /\ ScanState' /\ UNCHANGED Cached
    BY Zenon DEF PositionsDistinct, ScanState, KeyAt, Cached
  <1>5. Holding' = Holding \ {w} /\ w \in Holding
    BY Zenon DEF Holding, FlowTypeOK
  <1> QED
    BY Zenon, <1>1, <1>2, <1>3, <1>4, <1>5

\* A scan step that frees nothing.
LEMMA ScanTable ==
  ASSUME TableInv, StartPurge \/ ScanSlot \/ ResetOverflow
  PROVE  /\ TableInv' /\ UNCHANGED <<Cached, Holding, free_list, expired, capacity>>
         /\ main_pc # "clear" /\ main_pc' # "clear"
  <1>0. /\ capacity \in Nat \ {0} /\ idx \in 0..capacity /\ overflow \in 0..EvictionThreshold
        /\ pressure \in BOOLEAN /\ 0 \in 0..EvictionThreshold /\ 0 \in 0..capacity
    BY NoneIsNoSlot, FlowAssumption DEF TableInv, FlowTypeOK
  <1>1. /\ UNCHANGED <<valid, capacity, recycled, position, data, word, old, free_list, expired,
                       worker_pc, key, ptr, hit>>
        /\ main_pc \in {"idle", "scan", "reset"}
    BY Zenon DEF StartPurge, ScanSlot, ResetOverflow, table_vars, hash_vars, slot_vars, worker_vars
  <1>2. /\ overflow' \in 0..EvictionThreshold /\ pressure' \in BOOLEAN /\ idx' \in 0..capacity
        /\ main_pc' \in {"idle", "scan", "delete"}
        /\ (main_pc' \in {"idle", "reset"} => idx' = 0 /\ expired' = <<>>)
        /\ (main_pc' = "delete" => idx' < capacity /\ KeyAt(idx') # {})
    <2>1. CASE StartPurge
      <3>1. pressure' \in BOOLEAN
        <4>1. pressure' = FALSE \/ pressure' = (overflow >= EvictionThreshold)
          BY Zenon, <2>1 DEF StartPurge
        <4>2. (overflow >= EvictionThreshold) \in BOOLEAN
          OBVIOUS
        <4> QED
          BY Zenon, <4>1, <4>2
      <3> QED
        BY Zenon, <1>0, <2>1, <3>1 DEF StartPurge
    <2>2. CASE ScanSlot
      BY <1>0, <2>2 DEF ScanSlot
    <2>3. CASE ResetOverflow
      <3>1. idx' = 0 /\ expired' = <<>> /\ pressure' \in BOOLEAN
        BY Zenon, <2>3 DEF ResetOverflow, TableInv, ScanState
      <3> QED
        BY Zenon, <1>0, <2>3, <3>1 DEF ResetOverflow
    <2> QED
      BY Zenon, <2>1, <2>2, <2>3
  <1>3. FlowTypeOK'
    BY Zenon, <1>1, <1>2 DEF TableInv, FlowTypeOK, Slots, MainPcs
  <1>4. Equipped' /\ EmptyHanded' /\ InvalidUnused' /\ PositionsDistinct' /\ UNCHANGED <<Cached, Holding>>
    BY Zenon, <1>1 DEF TableInv, Equipped, EmptyHanded, InvalidUnused, PositionsDistinct, Cached, Holding, Slots
  <1>5. ScanState'
    BY Zenon, <1>1, <1>2 DEF ScanState, KeyAt
  <1> QED
    BY Zenon, <1>1, <1>2, <1>3, <1>4, <1>5 DEF TableInv

\* The purge deletes a flow ...
LEMMA DeleteKeyTable ==
  ASSUME TableInv, DeleteKey
  PROVE  /\ TableInv' /\ UNCHANGED <<Holding, free_list, expired, capacity>>
         /\ main_pc = "delete" /\ main_pc' = "clear"
         /\ \E k \in Cached : Cached' = Cached \ {k}
  <1>0. idx \in Slots /\ None \notin Slots
    BY NoneIsNoSlot DEF DeleteKey, TableInv, FlowTypeOK, ScanState, Slots
  <1>1. PICK k \in Keys : position[k] = idx /\ KeyAt(idx) = {k} /\ k \in Cached
    <2>1. PICK k \in Keys : position[k] = idx
      BY Zenon DEF DeleteKey, TableInv, ScanState, KeyAt
    <2>2. KeyAt(idx) = {k}
      BY Zenon, <1>0, <2>1 DEF KeyAt, TableInv, PositionsDistinct
    <2> QED
      BY Zenon, <1>0, <2>1, <2>2 DEF TableInv, FlowTypeOK, Cached
  <1>2. /\ \A j \in Keys : data'[j] = IF j = k THEN None ELSE data[j]
        /\ \A j \in Keys : position'[j] = IF j = k THEN None ELSE position[j]
    BY Zenon, <1>1 DEF DeleteKey
  <1>3. /\ UNCHANGED <<valid, capacity, word, old, free_list, overflow, worker_pc, key, ptr, hit,
                       idx, expired, pressure>>
        /\ recycled' = TRUE /\ main_pc = "delete" /\ main_pc' = "clear"
    BY Zenon DEF DeleteKey, slot_vars, worker_vars
  <1>4. /\ data' \in [Keys -> Slots \cup {None}] /\ position' \in [Keys -> Positions \cup {None}]
        /\ \A j \in Keys : position'[j] = None <=> data'[j] = None
    BY Zenon, <1>2 DEF DeleteKey, TableInv, FlowTypeOK
  <1>5. FlowTypeOK'
    BY Zenon, <1>3, <1>4 DEF TableInv, FlowTypeOK, Slots, MainPcs
  <1>6. Cached' = Cached \ {k}
    BY Zenon, <1>1, <1>2 DEF Cached
  <1>7. Equipped' /\ EmptyHanded' /\ InvalidUnused' /\ UNCHANGED Holding
    BY Zenon, <1>3, <1>6 DEF TableInv, Equipped, EmptyHanded, InvalidUnused, Holding, Slots
  <1>8. PositionsDistinct'
    BY Zenon, <1>2 DEF TableInv, PositionsDistinct
  <1>9. ScanState'
    BY Zenon, <1>3 DEF TableInv, ScanState
  <1> QED
    BY Zenon, <1>1, <1>3, <1>5, <1>6, <1>7, <1>8, <1>9 DEF TableInv

\* ... gathers its FlowData ...
LEMMA ClearSlotTable ==
  ASSUME TableInv, ClearSlot
  PROVE  /\ TableInv' /\ UNCHANGED <<Cached, Holding, free_list, capacity>>
         /\ main_pc = "clear" /\ main_pc' = "scan"
         /\ Len(expired') = Len(expired) + 1
  <1>0. idx \in Slots /\ idx + 1 \in 0..capacity
    BY NoneIsNoSlot DEF ClearSlot, TableInv, FlowTypeOK, ScanState, Slots
  <1>1. expired' \in Seq(Slots) /\ Len(expired') = Len(expired) + 1
    BY <1>0 DEF ClearSlot, TableInv, FlowTypeOK
  <1>2. /\ UNCHANGED <<valid, capacity, recycled, position, data, free_list, overflow,
                       worker_pc, key, ptr, hit, pressure>>
        /\ main_pc = "clear" /\ main_pc' = "scan" /\ idx' = idx + 1
        /\ word' = [word EXCEPT ![idx] = None] /\ old' = old \cup {idx}
    BY Zenon DEF ClearSlot, table_vars, hash_vars, worker_vars
  <1>3. FlowTypeOK'
    BY Zenon, <1>0, <1>1, <1>2 DEF TableInv, FlowTypeOK, Slots, MainPcs
  <1>4. Equipped' /\ EmptyHanded' /\ InvalidUnused' /\ PositionsDistinct' /\ UNCHANGED <<Cached, Holding>>
    BY Zenon, <1>2 DEF TableInv, Equipped, EmptyHanded, InvalidUnused, PositionsDistinct, Cached, Holding, Slots
  <1>5. ScanState'
    BY Zenon, <1>2 DEF ScanState
  <1> QED
    BY Zenon, <1>1, <1>2, <1>3, <1>4, <1>5 DEF TableInv

\* ... and hands all of them back at once.
LEMMA FinishPurgeTable ==
  ASSUME TableInv, FinishPurge
  PROVE  /\ TableInv' /\ UNCHANGED <<Cached, Holding, capacity>>
         /\ main_pc = "scan" /\ main_pc' \in {"idle", "reset"}
         /\ Len(free_list') = Len(free_list) + Len(expired) /\ Len(expired') = 0
  <1>1. /\ free_list' \in Seq(Slots) /\ Len(free_list') = Len(free_list) + Len(expired)
        /\ expired' = <<>> /\ Len(expired') = 0 /\ expired' \in Seq(Slots)
    BY DEF FinishPurge, TableInv, FlowTypeOK
  <1>2. /\ UNCHANGED <<valid, capacity, recycled, position, data, word, old, overflow,
                       worker_pc, key, ptr, hit, pressure>>
        /\ main_pc = "scan" /\ main_pc' \in {"idle", "reset"} /\ idx' = 0 /\ 0 \in 0..capacity
    BY NoneIsNoSlot DEF TableInv, FinishPurge, table_vars, hash_vars, slot_vars, worker_vars
  <1>3. FlowTypeOK'
    BY Zenon, <1>1, <1>2 DEF TableInv, FlowTypeOK, Slots, MainPcs
  <1>4. Equipped' /\ EmptyHanded' /\ InvalidUnused' /\ PositionsDistinct' /\ UNCHANGED <<Cached, Holding>>
    BY Zenon, <1>2 DEF TableInv, Equipped, EmptyHanded, InvalidUnused, PositionsDistinct, Cached, Holding, Slots
  <1>5. ScanState'
    BY Zenon, <1>1, <1>2 DEF ScanState
  <1> QED
    BY Zenon, <1>1, <1>2, <1>3, <1>4, <1>5 DEF TableInv

\* The migration gives each flow it moves a FlowData of its own: no more than
\* the old table had occupied positions, and as many fewer are free.
LEMMA ResizeTable ==
  ASSUME TableInv, Resize
  PROVE  /\ TableInv' /\ IsFiniteSet(Cached') /\ Holding' = {} /\ Len(expired') = 0
         /\ main_pc' = "idle" /\ Cardinality(Cached') + Len(free_list') <= capacity'
  <1>0. /\ main_pc = "idle" /\ \A w \in Workers : worker_pc[w] = "idle"
        /\ old' = {} /\ overflow' = 0 /\ recycled' = TRUE
        /\ UNCHANGED <<worker_pc, key, ptr, hit, main_pc, idx, expired, pressure>>
    BY Zenon DEF Resize, worker_vars, main_vars
  <1>1. PICK new_max \in Sizes \ {capacity}, migrated \in SUBSET Occupied :
        LET count == Cardinality(migrated)
            rank(s) == Cardinality({m \in migrated : m <= s})
            from(s) == {m \in migrated : new_max - rank(m) = s}
            moved == {k \in Keys : \E s \in migrated : k \in KeyAt(s)}
            failed == {s \in Occupied \ migrated : \A m \in migrated : m < s}
        IN  /\ count <= new_max
            /\ valid' = TRUE /\ capacity' = new_max
            /\ data' = [k \in Keys |-> IF k \in moved THEN new_max - rank(position[k]) ELSE None]
            /\ position' \in {f \in [Keys -> Positions \cup {None}] :
                    /\ \A k \in Keys : f[k] = None <=> k \notin moved
                    /\ \A j, k \in moved : f[j] = f[k] => j = k}
            /\ word' = [s \in 0..(new_max - 1) |->
                    IF from(s) # {} THEN word[CHOOSE m \in from(s) : TRUE]
                    ELSE IF s = new_max - count - 1 /\ failed # {} THEN word[Max(failed)] ELSE None]
            /\ free_list' = [i \in 1..(new_max - count) |-> i - 1]
    BY Zenon DEF Resize
  <1> DEFINE count == Cardinality(migrated)
             rank(s) == Cardinality({m \in migrated : m <= s})
             from(s) == {m \in migrated : new_max - rank(m) = s}
             moved == {k \in Keys : \E s \in migrated : k \in KeyAt(s)}
             failed == {s \in Occupied \ migrated : \A m \in migrated : m < s}
  <1>2. /\ count <= new_max /\ valid' = TRUE /\ capacity' = new_max
        /\ data' = [k \in Keys |-> IF k \in moved THEN new_max - rank(position[k]) ELSE None]
        /\ position' \in [Keys -> Positions \cup {None}]
        /\ \A k \in Keys : position'[k] = None <=> k \notin moved
        /\ \A j, k \in moved : position'[j] = position'[k] => j = k
        /\ word' = [s \in 0..(new_max - 1) |->
                IF from(s) # {} THEN word[CHOOSE m \in from(s) : TRUE]
                ELSE IF s = new_max - count - 1 /\ failed # {} THEN word[Max(failed)] ELSE None]
        /\ free_list' = [i \in 1..(new_max - count) |-> i - 1]
    BY Zenon, <1>1
  <1>3. /\ new_max \in Nat \ {0} /\ capacity \in Nat \ {0} /\ migrated \subseteq Slots
        /\ Slots' = 0..(new_max - 1) /\ None \notin Slots /\ None \notin 0..(new_max - 1)
    BY Zenon, <1>2, NoneIsNoSlot, FlowAssumption DEF TableInv, Occupied, Slots
  <1>4. IsFiniteSet(migrated) /\ count \in Nat
    <2>1. IsFiniteSet(0..(capacity - 1))
      BY <1>3, FS_Interval
    <2> QED
      BY Zenon, <1>3, <2>1, FS_Subset, FS_CardinalityType DEF Slots
  <1>5. \A s \in migrated : rank(s) \in 1..count
    <2> TAKE s \in migrated
    <2> DEFINE below == {m \in migrated : m <= s}
    <2>1. below \subseteq migrated /\ s \in below
      BY <1>3 DEF Slots
    <2>2. IsFiniteSet(below) /\ Cardinality(below) \in Nat /\ Cardinality(below) <= count /\ below # {}
      BY Zenon, <1>4, <2>1, FS_Subset, FS_CardinalityType
    <2>3. Cardinality(below) # 0
      BY Zenon, <2>2, FS_EmptySet
    <2> QED
      BY <1>4, <2>2, <2>3
  <1>6. \A k \in moved : position[k] \in migrated
    BY Zenon DEF KeyAt
  <1>7. \A k \in moved : new_max - rank(position[k]) \in 0..(new_max - 1)
    <2> TAKE k \in moved
    <2> HIDE DEF rank, moved, count
    <2>1. rank(position[k]) \in 1..count
      BY Zenon, <1>5, <1>6
    <2> QED
      BY <1>2, <1>3, <1>4, <2>1
  <1>8. /\ data' \in [Keys -> Slots' \cup {None}]
        /\ \A k \in Keys : data'[k] = None <=> k \notin moved
    BY <1>2, <1>3, <1>7
  <1>9. /\ free_list' \in Seq(Slots') /\ Len(free_list') = new_max - count
    <2> DEFINE n == new_max - count
    <2>1. n \in Nat /\ free_list' = [i \in 1..n |-> i - 1]
      BY <1>2, <1>3, <1>4
    <2>2. \A i \in 1..n : i - 1 \in 0..(new_max - 1)
      BY <1>3, <1>4
    <2> HIDE DEF n
    <2>4. free_list' \in [1..n -> 0..(new_max - 1)]
      BY Zenon, <2>1, <2>2
    <2>3. free_list' \in Seq(0..(new_max - 1)) /\ Len(free_list') = n
      BY <2>1, <2>4, SeqOfValues
    <2> QED
      BY Zenon, <1>3, <2>3 DEF n
  <1>10. word' \in [Slots' -> Keys \cup {None}]
    <2> SUFFICES ASSUME NEW s \in 0..(new_max - 1) PROVE word'[s] \in Keys \cup {None}
      BY Zenon, <1>2, <1>3
    <2>0. word \in [Slots -> Keys \cup {None}]
      BY Zenon DEF TableInv, FlowTypeOK
    <2>1. CASE from(s) # {}
      <3>1. (CHOOSE m \in from(s) : TRUE) \in from(s)
        BY Zenon, <2>1
      <3>2. (CHOOSE m \in from(s) : TRUE) \in Slots
        BY Zenon, <1>3, <3>1
      <3> QED
        BY Zenon, <1>2, <2>0, <2>1, <3>2
    <2>2. CASE from(s) = {} /\ s = new_max - count - 1 /\ failed # {}
      <3>1. failed \subseteq 0..(capacity - 1) /\ capacity - 1 \in Nat
        BY <1>3 DEF Occupied, Slots
      <3>2. \E n \in failed : \A m \in failed : n >= m
        <4> HIDE DEF failed
        <4> QED BY Zenon, <2>2, <3>1, BoundedMax
      <3>3. Max(failed) \in failed
        <4> HIDE DEF failed
        <4> QED BY Zenon, <3>2 DEF Max
      <3>4. word'[s] = word[Max(failed)]
        <4> HIDE DEF failed, from, count
        <4> QED BY Zenon, <1>2, <2>2
      <3> QED
        <4> HIDE DEF failed
        <4> QED BY Zenon, <2>0, <3>1, <3>3, <3>4 DEF Slots
    <2>3. CASE from(s) = {} /\ ~(s = new_max - count - 1 /\ failed # {})
      <3> HIDE DEF failed, from, count
      <3> QED BY Zenon, <1>2, <2>3
    <2> QED
      BY Zenon, <2>1, <2>2, <2>3
  <1>11. FlowTypeOK'
    <2>1. /\ ptr' \in [Workers -> Slots' \cup {None}] /\ idx' \in 0..capacity' /\ expired' \in Seq(Slots')
      <3>1. ptr \in [Workers -> Slots \cup {None}] /\ UNCHANGED ptr /\ \A w \in Workers : ptr[w] = None
        BY Zenon, <1>0 DEF TableInv, FlowTypeOK, EmptyHanded
      <3>2. idx = 0 /\ UNCHANGED idx /\ expired = <<>> /\ UNCHANGED expired /\ capacity' \in Nat
        BY Zenon, <1>0, <1>2, <1>3 DEF TableInv, ScanState
      <3> QED
        BY <3>1, <3>2
    <2>2. /\ valid' \in BOOLEAN /\ capacity' \in Sizes /\ recycled' \in BOOLEAN /\ old' \in SUBSET Slots'
          /\ overflow' \in 0..EvictionThreshold
      <3>1. 0 \in 0..EvictionThreshold
        BY FlowAssumption
      <3> QED
        BY Zenon, <1>0, <1>2, <3>1
    <2>3. /\ worker_pc' \in [Workers -> WorkerPcs] /\ key' \in [Workers -> Keys \cup {None}]
          /\ hit' \in [Workers -> Keys \cup {None}] /\ main_pc' \in MainPcs /\ pressure' \in BOOLEAN
      BY Zenon, <1>0 DEF TableInv, FlowTypeOK
    <2>4. \A k \in Keys : position'[k] = None <=> data'[k] = None
      BY Zenon, <1>2, <1>8
    <2>5. position' \in [Keys -> Positions \cup {None}]
      BY Zenon, <1>2
    <2> QED
      BY Zenon, <1>8, <1>9, <1>10, <2>1, <2>2, <2>3, <2>4, <2>5 DEF FlowTypeOK
  <1>12. Cached' = moved
    BY Zenon, <1>8 DEF Cached
  <1>13. IsFiniteSet(moved) /\ Cardinality(moved) <= count
    <2> DEFINE at == [k \in moved |-> position[k]]
    <2>1. \A j, k \in moved : position[j] = position[k] => j = k
      BY Zenon, <1>3, <1>6 DEF TableInv, PositionsDistinct
    <2>2. at \in Injection(moved, migrated)
      BY Zenon, <1>6, <2>1 DEF Injection, IsInjective
    <2> HIDE DEF at, moved
    <2> QED
      BY Zenon, <1>4, <2>2, FS_Injection
  <1>14. Equipped' /\ EmptyHanded' /\ InvalidUnused' /\ ScanState'
    BY Zenon, <1>0, <1>2 DEF TableInv, Equipped, EmptyHanded, InvalidUnused, ScanState, PointerPcs
  <1>15. PositionsDistinct'
    BY Zenon, <1>2 DEF PositionsDistinct
  <1>16. Holding' = {} /\ Len(expired') = 0 /\ main_pc' = "idle"
    BY Zenon, <1>0 DEF TableInv, ScanState, Holding
  <1>17. Cardinality(moved) \in Nat
    BY Zenon, <1>13, FS_CardinalityType
  <1>18. Cardinality(moved) + (new_max - count) <= new_max
    <2> HIDE DEF moved, count
    <2> QED BY <1>3, <1>4, <1>13, <1>17
  <1> QED
    <2> HIDE DEF moved, count
    <2> QED BY Zenon, <1>2, <1>9, <1>11, <1>12, <1>13, <1>14, <1>15, <1>16, <1>18 DEF TableInv

LEMMA AgeTable ==
  ASSUME TableInv, Age \/ UNCHANGED vars
  PROVE  TableInv' /\ UNCHANGED <<Cached, Holding, free_list, expired, capacity, main_pc>>
  <1>1. /\ UNCHANGED <<valid, capacity, recycled, position, data, word, free_list, overflow,
                       worker_pc, key, ptr, hit, main_pc, idx, expired, pressure>>
        /\ old' \in {old, Slots}
    BY Zenon DEF Age, vars, table_vars, hash_vars, slot_vars, worker_vars, main_vars
  <1>2. FlowTypeOK'
    BY Zenon, <1>1 DEF TableInv, FlowTypeOK, Slots
  <1>3. /\ Equipped' /\ EmptyHanded' /\ InvalidUnused' /\ PositionsDistinct' /\ ScanState'
        /\ UNCHANGED <<Cached, Holding>>
    BY Zenon, <1>1 DEF TableInv, Equipped, EmptyHanded, InvalidUnused, PositionsDistinct, ScanState,
                KeyAt, Cached, Holding, Slots
  <1> QED
    BY Zenon, <1>1, <1>2, <1>3 DEF TableInv

LEMMA CeilingInit == Init => CeilingInv
  <1> SUFFICES ASSUME Init PROVE CeilingInv
    BY Zenon
  <1>1. FlowTypeOK /\ Equipped
    BY Zenon, OwnInit DEF OwnInv
  <1>2. /\ EmptyHanded /\ InvalidUnused /\ PositionsDistinct /\ ScanState
        /\ Cached = {} /\ Holding = {} /\ Len(expired) = 0 /\ main_pc = "idle"
    BY Zenon DEF Init, EmptyHanded, InvalidUnused, PositionsDistinct, ScanState, Cached, Holding
  <1>3. Len(free_list) <= capacity /\ Len(free_list) \in Nat /\ capacity \in Nat
    <2>1. capacity \in Nat \ {0}
      BY Zenon, <1>1, NoneIsNoSlot
    <2>2. CASE valid
      <3>1. free_list = [i \in 1..capacity |-> i - 1]
        BY Zenon, <2>2 DEF Init
      <3>2. Len(free_list) = capacity
        BY <1>1, <2>1, <3>1 DEF FlowTypeOK
      <3> QED
        BY <2>1, <3>2
    <2>3. CASE ~valid
      BY <2>1, <2>3 DEF Init
    <2> QED
      BY Zenon, <2>2, <2>3
  <1>4. Countable /\ HardCeiling
    BY <1>2, <1>3, FS_EmptySet DEF Countable, HardCeiling
  <1> QED
    BY Zenon, <1>1, <1>2, <1>4 DEF CeilingInv, TableInv

LEMMA CeilingStep == ASSUME CeilingInv, [Next]_vars PROVE CeilingInv'
  <1> DEFINE
        C == Cardinality(Cached)
        H == Cardinality(Holding)
        F == Len(free_list)
        E == Len(expired)
        clear == IF main_pc = "clear" THEN 1 ELSE 0
  <1>0. /\ TableInv /\ IsFiniteSet(Cached) /\ IsFiniteSet(Holding)
        /\ C \in Nat /\ H \in Nat /\ F \in Nat /\ E \in Nat /\ capacity \in Nat
        /\ C + F + E + H + clear <= capacity
    <2>1. TableInv /\ IsFiniteSet(Cached) /\ IsFiniteSet(Holding)
      BY Zenon DEF CeilingInv, Countable
    <2>2. C \in Nat /\ H \in Nat
      BY Zenon, <2>1, FS_CardinalityType
    <2>3. F \in Nat /\ E \in Nat /\ capacity \in Nat
      BY <2>1, NoneIsNoSlot DEF TableInv, FlowTypeOK
    <2>4. C + F + E + H + clear <= capacity
      BY Zenon DEF CeilingInv, HardCeiling
    <2> QED
      BY Zenon, <2>1, <2>2, <2>3, <2>4
  <1> SUFFICES /\ TableInv' /\ IsFiniteSet(Cached') /\ IsFiniteSet(Holding')
               /\ C' + F' + E' + H' + clear' <= capacity'
    BY Zenon DEF CeilingInv, Countable, HardCeiling
  <1>1. CASE UNCHANGED <<Cached, Holding, free_list, expired, capacity, main_pc>> /\ TableInv'
    BY Zenon, <1>0, <1>1
  <1>2. ASSUME NEW w \in Workers, PopFree(w), free_list # <<>>
        PROVE  /\ TableInv' /\ IsFiniteSet(Cached') /\ IsFiniteSet(Holding')
               /\ C' + F' + E' + H' + clear' <= capacity'
    <2>1. /\ TableInv' /\ UNCHANGED <<Cached, expired, capacity, main_pc>> /\ F' = F - 1
          /\ Holding' = Holding \cup {w} /\ w \notin Holding
      BY Zenon, <1>0, <1>2, PopFreeTable
    <2>2. IsFiniteSet(Holding') /\ H' = H + 1
      BY Zenon, <1>0, <2>1, FS_AddElement
    <2> QED
      BY <1>0, <2>1, <2>2
  <1>3. ASSUME NEW w \in Workers, AddKey(w)
        PROVE  /\ TableInv' /\ IsFiniteSet(Cached') /\ IsFiniteSet(Holding')
               /\ C' + F' + E' + H' + clear' <= capacity'
    <2>1. /\ TableInv' /\ UNCHANGED <<free_list, expired, capacity, main_pc>>
          /\ Holding' = Holding \ {w} /\ w \in Holding /\ Cached' = Cached \cup {key[w]}
      BY Zenon, <1>0, <1>3, AddKeyTable
    <2>2. IsFiniteSet(Holding') /\ H' = H - 1
      BY Zenon, <1>0, <2>1, FS_RemoveElement
    <2>3. IsFiniteSet(Cached') /\ C' \in {C, C + 1}
      BY Zenon, <1>0, <2>1, FS_AddElement
    <2> QED
      BY <1>0, <2>1, <2>2, <2>3
  <1>4. ASSUME NEW w \in Workers, GiveBack(w)
        PROVE  /\ TableInv' /\ IsFiniteSet(Cached') /\ IsFiniteSet(Holding')
               /\ C' + F' + E' + H' + clear' <= capacity'
    <2>1. /\ TableInv' /\ UNCHANGED <<Cached, expired, capacity, main_pc>> /\ F' = F + 1
          /\ Holding' = Holding \ {w} /\ w \in Holding
      BY Zenon, <1>0, <1>4, GiveBackTable
    <2>2. IsFiniteSet(Holding') /\ H' = H - 1
      BY Zenon, <1>0, <2>1, FS_RemoveElement
    <2> QED
      BY <1>0, <2>1, <2>2
  <1>5. ASSUME NEW w \in Workers, Worker(w)
        PROVE  /\ TableInv' /\ IsFiniteSet(Cached') /\ IsFiniteSet(Holding')
               /\ C' + F' + E' + H' + clear' <= capacity'
    BY Zenon, <1>0, <1>1, <1>2, <1>3, <1>4, <1>5, LookupTable, StoreTable, PopFreeEmptyTable
    DEF Worker, Insert
  <1>6. CASE StartPurge \/ ScanSlot \/ ResetOverflow
    BY Zenon, <1>0, <1>6, ScanTable
  <1>7. CASE DeleteKey
    <2>1. /\ TableInv' /\ UNCHANGED <<Holding, free_list, expired, capacity>>
          /\ main_pc = "delete" /\ main_pc' = "clear"
          /\ \E k \in Cached : Cached' = Cached \ {k}
      BY Zenon, <1>0, <1>7, DeleteKeyTable
    <2>2. IsFiniteSet(Cached') /\ C' = C - 1
      BY <1>0, <2>1, FS_RemoveElement
    <2> QED
      BY <1>0, <2>1, <2>2
  <1>8. CASE ClearSlot
    BY <1>0, <1>8, ClearSlotTable
  <1>9. CASE FinishPurge
    BY <1>0, <1>9, FinishPurgeTable
  <1>10. CASE Resize
    <2>1. /\ TableInv' /\ IsFiniteSet(Cached') /\ Holding' = {} /\ E' = 0 /\ main_pc' = "idle"
          /\ C' + F' <= capacity'
      BY Zenon, <1>0, <1>10, ResizeTable
    <2>2. IsFiniteSet(Holding') /\ H' = 0 /\ C' \in Nat /\ F' \in Nat
      BY <2>1, FS_EmptySet, FS_CardinalityType DEF TableInv, FlowTypeOK
    <2> QED
      BY <2>1, <2>2
  <1> QED
    BY Zenon, <1>0, <1>1, <1>5, <1>6, <1>7, <1>8, <1>9, <1>10, AgeTable DEF Next, Main

\* Whatever the number of workers, flows and FlowData, through every race of
\* Insert with Insert, with PurgeExpired and with the migrations of
\* MaybeReloadFlowTable, cached flows never outnumber max_concurrent_flows: a
\* flow is cached only against a FlowData taken from the freelist.
THEOREM CapacityNeverExceeded == Spec => []HardCeiling
  <1>1. CeilingInv => HardCeiling
    BY Zenon DEF CeilingInv
  <1> QED
    BY <1>1, CeilingInit, CeilingStep, PTL DEF Spec

\* No step of a worker, of the purge or of a migration uses a FlowData, a
\* position or an index that the table of its time does not have.
THEOREM TableAccessesInRange == Spec => [](FlowTypeOK /\ Equipped)
  <1>1. CeilingInv => FlowTypeOK /\ Equipped
    BY Zenon DEF CeilingInv, TableInv
  <1> QED
    BY <1>1, CeilingInit, CeilingStep, PTL DEF Spec
=============================================================================
