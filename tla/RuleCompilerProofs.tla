------------------------- MODULE RuleCompilerProofs -------------------------
(***************************************************************************)
(* Proofs about RuleCompiler: every group is parsed once, library objects  *)
(* are freed once and not before their last use, and Match on a published  *)
(* table returns what the configuration prefers.                           *)
(***************************************************************************)
EXTENDS RuleCompiler, InductionLemmas, TLAPS

-----------------------------------------------------------------------------
(* The inductive invariant.                                                 *)

\* gs holds the compiled groups of a configuration c, by precedence.
SortedCompile(gs, c) ==
    /\ gs # <<>> /\ DOMAIN gs = 1 .. Len(c) /\ Len(gs) = Len(c)
    /\ \A g \in DOMAIN gs : \E h \in DOMAIN c : gs[g] = CompileGroup(c[h])
    /\ \A h \in DOMAIN c : \E g \in DOMAIN gs : gs[g] = CompileGroup(c[h])
    /\ \A g, h \in DOMAIN gs : g <= h => gs[g].precedence <= gs[h].precedence
    /\ \A h \in DOMAIN c : \A filter \in Range(c[h].filters) : Compiles(filter)

\* The rules of one chunk.
RulesOf(gs, c) ==
    UNION {{BuildAclRule(gs[g].filters[f], g, f, gs[g].precedence) :
               f \in DOMAIN gs[g].filters} : g \in TaskSpecs(gs)[c]}

\* A finished table.
WellBuilt(t) ==
    /\ t.source \in Configs /\ SortedCompile(t.groups, t.source)
    /\ DOMAIN t.chunks = DOMAIN TaskSpecs(t.groups)
    /\ Len(t.chunks) \in Nat /\ DOMAIN t.chunks = 1 .. Len(t.chunks)
    /\ \A c \in DOMAIN t.chunks : t.chunks[c].rules = RulesOf(t.groups, c)
    /\ t.has_wildcard_ip_rules = FALSE
    /\ t.member # None => t.member \subseteq MemberKeys(t.groups)

\* Which groups the threads have parsed and have left.
Parsing ==
    /\ DOMAIN groups = DOMAIN config
    /\ DOMAIN pending = DOMAIN ParseRanges(config)
    /\ \A w \in DOMAIN pending : pending[w] \subseteq ParseRanges(config)[w]
    /\ \A g \in DOMAIN config :
        /\ groups[g] # Blank => /\ groups[g] = CompileGroup(config[g])
                                /\ \A filter \in Range(config[g].filters) : Compiles(filter)
                                /\ \A w \in DOMAIN pending : g \notin pending[w]
        /\ groups[g] = Blank /\ ~failed => \E w \in DOMAIN pending : g \in pending[w]

\* What the compiling thread has in each phase.
Phases ==
    /\ phase \in {"idle", "parse", "build", "index", "publish"}
    /\ compiles \in 0 .. MaxCompiles
    /\ phase = "idle" => config = <<>> /\ groups = <<>> /\ pending = <<>> /\ ~failed
    /\ phase # "idle" => config \in Configs /\ burst = <<>> /\ compiles # 0
    /\ phase \in {"idle", "parse"} => built = <<>> /\ chunks = <<>>
    /\ phase # "publish" => table = NoTable

\* What the build threads have done.
Building ==
    /\ ~failed /\ \A w \in DOMAIN pending : pending[w] = {}
    /\ SortedCompile(groups, config)
    /\ DOMAIN TaskSpecs(groups) = DOMAIN built
    /\ Len(built) \in Nat /\ DOMAIN built = 1 .. Len(built)
    /\ Len(chunks) \in 0 .. Len(built) /\ DOMAIN chunks = 1 .. Len(chunks)
    /\ chunks \in Seq(Range(chunks))
    /\ \A c \in DOMAIN chunks : chunks[c] = Chunk(c) /\ built[c] = "ok"
    /\ \A c \in DOMAIN built : /\ built[c] \in {"todo", "ok", "failed"}
                               /\ c > Len(chunks) + BuildThreads => built[c] = "todo"

Stages ==
    /\ failed \in BOOLEAN
    /\ phase = "parse" => Parsing
    /\ phase \in {"build", "index", "publish"} => Building
    /\ phase \in {"index", "publish"} => Len(chunks) = Len(built)
    /\ phase = "publish" => WellBuilt(table)

\* The objects that the published table and the retired ones own.
Published == Owned(active) \cup retired \cup prev_retired

\* The objects of the compilation that is going on.
Current == {o \in contexts : o[1] = compiles}
BuiltContexts == {Context(c) : c \in {d \in DOMAIN built : built[d] = "ok"}}

\* What compilation n has left behind.
Lost(n) == {o \in contexts \ Published : o[1] = n}
FewLost(n) ==
    /\ \A o \in Lost(n) : o[2] = "acl"
    /\ IsFiniteSet(Lost(n)) /\ Cardinality(Lost(n)) < BuildThreads

Owners ==
    /\ contexts \subseteq Objects /\ \A o \in contexts : o[1] <= compiles
    /\ Published \subseteq contexts
    /\ Owned(active) \cap retired = {} /\ Owned(active) \cap prev_retired = {}
    /\ retired \cap prev_retired = {}
    /\ phase # "idle" => \A o \in Published : o[1] # compiles
    /\ phase = "parse" => Current = {}
    /\ phase \in {"build", "index"} => Current = BuiltContexts
    /\ phase = "publish" => Current = Owned(table)

Losses == \A n \in 1 .. compiles : n < compiles \/ phase = "idle" => FewLost(n)

\* The published table, and what the last burst got from it.
Tables == active = NoTable \/ WellBuilt(active)
Bursts ==
    /\ Len(burst) \in 0 .. MaxBurst /\ DOMAIN burst = 1 .. Len(burst)
    /\ BulkAgreesWithMatch

CompilerInv == Phases /\ Stages /\ Owners /\ Losses /\ Tables /\ Bursts

-----------------------------------------------------------------------------
(* The life of the library objects.                                         *)

LEMMA OwnsNothing == Owned(NoTable) = {}
  BY DEF Owned, NoTable

\* Which objects compilation n leaves behind depends on these only.
LEMMA SameLoss ==
  ASSUME NEW n, FewLost(n), Lost(n)' \subseteq Lost(n)
  PROVE  FewLost(n)'
  <1>1. IsFiniteSet(Lost(n)) /\ \A o \in Lost(n) : o[2] = "acl"
    BY Zenon DEF FewLost
  <1>2. /\ IsFiniteSet(Lost(n)') /\ Cardinality(Lost(n)') <= Cardinality(Lost(n))
        /\ {Cardinality(Lost(n)), Cardinality(Lost(n)')} \subseteq Nat
    BY Zenon, <1>1, FS_Subset, FS_CardinalityType
  <1>3. Cardinality(Lost(n)') < BuildThreads
    BY <1>2, ThreadAssumption DEF FewLost
  <1> QED BY Zenon, <1>1, <1>2, <1>3 DEF FewLost

LEMMA NoLoss ==
  ASSUME NEW n, Lost(n)' = {}
  PROVE  FewLost(n)'
  BY FS_EmptySet, ThreadAssumption DEF FewLost

LEMMA CompileObjects ==
  ASSUME Phases, Owners, Losses, Compile
  PROVE  Owners' /\ Losses'
  <1>1. /\ compiles \in Nat /\ compiles' = compiles + 1 /\ phase = "idle" /\ phase' = "parse"
        /\ contexts' = contexts /\ Published' = Published /\ Owned(active)' = Owned(active)
        /\ retired' = retired /\ prev_retired' = prev_retired
        /\ contexts \subseteq Objects /\ MaxCompiles \in Nat
    BY ConfigAssumption DEF Phases, Owners, Compile, manager, Published, Owned
  <1>2. \A o \in contexts : o[1] \in Int /\ o[1] <= compiles
    BY <1>1 DEF Owners, Objects
  <1>3. Owners'
    BY <1>1, <1>2 DEF Owners, Current
  <1>4. ASSUME NEW n \in 1 .. compiles', n < compiles'
        PROVE  FewLost(n)'
    BY <1>1, <1>4, SameLoss DEF Losses, Lost
  <1> QED BY Zenon, <1>1, <1>3, <1>4 DEF Losses

\* A step that leaves the objects and their owners alone.
LEMMA SameObjects ==
  ASSUME Owners, Losses, UNCHANGED <<contexts, compiles, active, retired, prev_retired>>,
         phase # "idle" \/ phase' = "idle", phase' = "idle" => phase = "idle",
         phase' = "parse" => Current = {},
         phase' \in {"build", "index"} => Current = BuiltContexts',
         phase' = "publish" => Current = Owned(table)'
  PROVE  Owners' /\ Losses'
  <1>1. /\ Published' = Published /\ Owned(active)' = Owned(active) /\ Current' = Current
        /\ \A n : Lost(n)' = Lost(n)
    BY DEF Published, Owned, Current, Lost
  <1>2. Owners'
    BY Zenon, <1>1 DEF Owners
  <1>3. Losses'
    BY Zenon, <1>1, SameLoss DEF Losses
  <1> QED BY Zenon, <1>2, <1>3

LEMMA FinishParseObjects ==
  ASSUME Phases, Owners, Losses, FinishParse
  PROVE  Owners' /\ Losses'
  <1>1. /\ phase = "parse" /\ Current = {}
        /\ UNCHANGED <<contexts, compiles, active, retired, prev_retired>>
    BY Zenon DEF FinishParse, manager, Owners
  <1>2. CASE Return
    <2>1. /\ Published' = Published /\ Owned(active)' = Owned(active)
          /\ \A n : Lost(n)' = Lost(n)
      BY <1>1 DEF Published, Owned, Lost
    <2>2. Owners'
      BY Zenon, <1>1, <1>2, <2>1 DEF Owners, Return
    <2>3. ASSUME NEW n \in 1 .. compiles PROVE FewLost(n)'
      <3>1. CASE n = compiles
        <4>1. Lost(n) = {}
          BY Zenon, <1>1, <3>1 DEF Lost, Current
        <4> QED BY Zenon, <2>1, <4>1, NoLoss
      <3>2. CASE n < compiles
        BY Zenon, <3>2, <2>1, SameLoss DEF Losses
      <3> QED BY <3>1, <3>2 DEF Phases
    <2> QED BY Zenon, <1>1, <2>2, <2>3 DEF Losses
  <1>3. CASE phase' = "build" /\ built' = [c \in DOMAIN TaskSpecs(groups') |-> "todo"]
    <2>1. BuiltContexts' = {}
      BY Zenon, <1>3 DEF BuiltContexts
    <2> QED BY Zenon, <1>1, <1>3, <2>1, SameObjects
  <1> QED BY Zenon, <1>2, <1>3 DEF FinishParse

LEMMA BuildChunkObjects ==
  ASSUME Phases, Stages, Owners, Losses, NEW c, BuildChunk(c)
  PROVE  Owners' /\ Losses'
  <1>1. /\ phase = "build" /\ phase' = "build" /\ Building /\ c \in Batch /\ built[c] = "todo"
        /\ UNCHANGED <<compiles, active, retired, prev_retired>>
    BY Zenon DEF BuildChunk, manager, Stages
  <1>2. /\ Published' = Published /\ Owned(active)' = Owned(active)
        /\ \A d : Context(d)' = Context(d)
    BY Zenon, <1>1 DEF Published, Owned, Context
  <1>3. c \in DOMAIN built /\ c \in Nat /\ compiles \in 1 .. MaxCompiles
    <2>1. Min({Len(chunks) + BuildThreads, Len(built)}) \in {Len(chunks) + BuildThreads, Len(built)}
          /\ Min({Len(chunks) + BuildThreads, Len(built)}) <= Len(built)
          /\ {Len(chunks) + BuildThreads, Len(built), Len(chunks)} \subseteq Nat
      <3>1. Len(chunks) \in Nat /\ Len(built) \in Nat /\ BuildThreads \in Nat
        BY <1>1, ThreadAssumption DEF Building
      <3> QED BY <3>1, MinOfTwo
    <2>2. c \in 1 .. Len(built) /\ DOMAIN built = 1 .. Len(built)
      <3>1. DOMAIN built = 1 .. Len(built)
        BY Zenon, <1>1 DEF Building
      <3>2. c \in Len(chunks) + 1 .. Min({Len(chunks) + BuildThreads, Len(built)})
        BY Zenon, <1>1 DEF Batch
      <3> DEFINE m == Min({Len(chunks) + BuildThreads, Len(built)})
      <3>3. m \in Nat /\ m <= Len(built) /\ c \in Len(chunks) + 1 .. m /\ Len(chunks) \in Nat
            /\ Len(built) \in Nat
        BY Zenon, <2>1, <3>2
      <3> HIDE DEF m
      <3>4. c \in 1 .. Len(built)
        BY <3>3
      <3> QED BY Zenon, <3>1, <3>4
    <2>3. MaxCompiles \in Nat /\ compiles \in 0 .. MaxCompiles /\ compiles # 0
      BY Zenon, <1>1, ConfigAssumption DEF Phases
    <2>4. compiles \in 1 .. MaxCompiles
      BY <2>3
    <2> QED BY <2>2, <2>4
  <1>4. CASE built' = [built EXCEPT ![c] = "failed"] /\ contexts' = contexts
    <2>1. BuiltContexts' = BuiltContexts
      BY Zenon, <1>1, <1>2, <1>3, <1>4 DEF BuiltContexts
    <2> QED BY Zenon, <1>1, <1>4, <2>1, SameObjects DEF Owners
  <1>5. CASE built' = [built EXCEPT ![c] = "ok"] /\ contexts' = contexts \cup {Context(c)}
    <2>1. BuiltContexts' = BuiltContexts \cup {Context(c)}
      BY Zenon, <1>2, <1>3, <1>5 DEF BuiltContexts
    <2>2. Context(c) \in Objects /\ Context(c)[1] = compiles
      BY Zenon, <1>3 DEF Objects, Context
    <2>3. Current' = Current \cup {Context(c)}
      BY Zenon, <1>1, <1>5, <2>2 DEF Current
    <2>4. Owners'
      BY <1>1, <1>2, <1>3, <1>5, <2>1, <2>2, <2>3 DEF Owners
    <2>5. ASSUME NEW n \in 1 .. compiles, n < compiles PROVE FewLost(n)'
      <3>1. Lost(n)' \subseteq Lost(n)
        BY <1>2, <1>3, <1>5, <2>2, <2>5 DEF Lost
      <3> QED BY Zenon, <3>1, <2>5, SameLoss DEF Losses
    <2> QED BY Zenon, <1>1, <2>4, <2>5 DEF Losses
  <1> QED BY Zenon, <1>4, <1>5 DEF BuildChunk

\* At the first error of a batch, fewer than BuildThreads of its threads come
\* after the one that failed.
LEMMA ErrorLosesLittle ==
  ASSUME NEW k \in Nat, NEW error \in Nat, error > k, NEW L,
         \A o \in L : o[3] \in error + 1 .. k + BuildThreads,
         \A o, p \in L : o[3] = p[3] => o = p
  PROVE  IsFiniteSet(L) /\ Cardinality(L) < BuildThreads
  <1> DEFINE D == error + 1 .. k + BuildThreads
             f == [o \in L |-> o[3]]
  <1>0. BuildThreads \in Nat /\ BuildThreads > 0
    BY ThreadAssumption
  <1>1. IsFiniteSet(D) /\ Cardinality(D) = IF error + 1 > k + BuildThreads THEN 0 ELSE k + BuildThreads - error
    BY <1>0, FS_Interval
  <1>2. f \in Injection(L, D)
    BY Zenon DEF Injection, IsInjective
  <1> HIDE DEF D, f
  <1>3. IsFiniteSet(L) /\ Cardinality(L) <= Cardinality(D)
    BY Zenon, <1>1, <1>2, FS_Injection
  <1> QED BY <1>0, <1>1, <1>3, FS_CardinalityType

LEMMA CollectBatchObjects ==
  ASSUME Phases, Stages, Owners, Losses, CollectBatch
  PROVE  Owners' /\ Losses'
  <1>1. /\ phase = "build" /\ Building /\ Current = BuiltContexts
        /\ UNCHANGED <<compiles, active, retired, prev_retired>>
        /\ \A o \in Published : o[1] # compiles
    BY Zenon DEF CollectBatch, manager, Stages, Owners
  <1>2. /\ Published' = Published /\ Owned(active)' = Owned(active)
        /\ {Len(chunks), Len(built), BuildThreads} \subseteq Nat /\ BuildThreads > 0
        /\ compiles \in 1 .. MaxCompiles /\ MaxCompiles \in Nat
    BY <1>1, ThreadAssumption, ConfigAssumption DEF Published, Owned, Building, Phases
  <1>3. CASE ~\E c \in Batch : built[c] = "failed"
    <2>1. /\ contexts' = contexts /\ built' = built /\ phase' \in {"build", "index"}
      BY Zenon, <1>3 DEF CollectBatch
    <2>2. BuiltContexts' = BuiltContexts
      BY Zenon, <1>1, <2>1 DEF BuiltContexts, Context
    <2> QED BY Zenon, <1>1, <2>1, <2>2, SameObjects
  <1>4. CASE \E c \in Batch : built[c] = "failed"
    <2> DEFINE error == Min({c \in Batch : built[c] = "failed"})
    <2>1. error \in Batch /\ contexts' = contexts \ {Context(c) : c \in 1 .. error} /\ phase' = "idle"
      <3>1. {c \in Batch : built[c] = "failed"} \in SUBSET Nat
        BY <1>2, ThreadAssumption, MinFacts DEF Batch
      <3>2. error \in {c \in Batch : built[c] = "failed"}
        BY Zenon, <1>4, <3>1, MinFacts
      <3> QED BY Zenon, <1>4, <3>2 DEF CollectBatch, Return
    <2>2. error \in Nat /\ error > Len(chunks)
      BY <1>2, <2>1, MinFacts DEF Batch
    <2> HIDE DEF error
    <2>3. \A c : Context(c)[1] = compiles /\ Context(c)[2] = "acl" /\ Context(c)[3] = c
      BY Zenon DEF Context
    <2>4. Owners'
      BY <1>1, <1>2, <2>1, <2>3 DEF Owners
    <2>5. ASSUME NEW n \in 1 .. compiles, n < compiles PROVE FewLost(n)'
      <3>1. Lost(n)' \subseteq Lost(n)
        BY Zenon, <1>2, <2>1 DEF Lost
      <3> QED BY Zenon, <3>1, <2>5, SameLoss DEF Losses
    <2>6. FewLost(compiles)'
      <3>1. \A o \in Lost(compiles)' : \E c \in DOMAIN built :
                o = Context(c) /\ built[c] = "ok" /\ c \notin 1 .. error
        BY Zenon, <1>1, <1>2, <2>1 DEF Lost, Current, BuiltContexts
      <3>2. \A c \in DOMAIN built : built[c] = "ok" /\ c \notin 1 .. error =>
                c \in error + 1 .. Len(chunks) + BuildThreads
        BY <1>1, <1>2, <2>2 DEF Building
      <3>3. \A o \in Lost(compiles)' : /\ o[2] = "acl" /\ o = Context(o[3])
                                       /\ o[3] \in error + 1 .. Len(chunks) + BuildThreads
        BY <2>3, <3>1, <3>2
      <3>4. IsFiniteSet(Lost(compiles)') /\ Cardinality(Lost(compiles)') < BuildThreads
        <4> DEFINE L == Lost(compiles)'
        <4>1. /\ \A o \in L : o[3] \in error + 1 .. Len(chunks) + BuildThreads
              /\ \A o, p \in L : o[3] = p[3] => o = p
          BY Zenon, <3>3
        <4> HIDE DEF L
        <4>2. IsFiniteSet(L) /\ Cardinality(L) < BuildThreads
          BY Zenon, <1>2, <2>2, <4>1, ErrorLosesLittle
        <4> QED BY Zenon, <4>2 DEF L
      <3> QED BY Zenon, <1>1, <3>3, <3>4 DEF FewLost
    <2> QED BY <1>1, <1>2, <2>4, <2>5, <2>6 DEF Losses
  <1> QED BY Zenon, <1>3, <1>4

LEMMA BuildIndexesObjects ==
  ASSUME Phases, Stages, Owners, Losses, BuildIndexes
  PROVE  Owners' /\ Losses'
  <1>1. /\ phase = "index" /\ phase' = "publish" /\ Building /\ Current = BuiltContexts
        /\ UNCHANGED <<compiles, active, retired, prev_retired, chunks>> /\ Len(chunks) = Len(built)
        /\ \A o \in Published : o[1] # compiles
    BY Zenon DEF BuildIndexes, manager, Stages, Owners
  <1>2. /\ Published' = Published /\ Owned(active)' = Owned(active)
        /\ compiles \in 1 .. MaxCompiles /\ MaxCompiles \in Nat
    BY <1>1, ConfigAssumption DEF Published, Owned, Phases
  <1>3. PICK fib_ctx \in {None, <<compiles, "fib", 0>>}, member_ctx \in {None, <<compiles, "member", 0>>} :
            /\ contexts' = contexts \cup ({fib_ctx, member_ctx} \ {None})
            /\ table'.chunks = chunks /\ table'.fib_ctx = fib_ctx /\ table'.member_ctx = member_ctx
    BY DEF BuildIndexes, Move
  <1> DEFINE new == {fib_ctx, member_ctx} \ {None}
  <1>4. new \subseteq Objects /\ \A o \in new : o[1] = compiles
    BY <1>2, <1>3 DEF Objects
  <1>5. {table'.chunks[c].ctx : c \in DOMAIN table'.chunks} = BuiltContexts
    BY <1>1, <1>3 DEF BuiltContexts, Building, Chunk
  <1>6. Owned(table)' = BuiltContexts \cup new
    BY Zenon, <1>3, <1>5 DEF Owned
  <1> HIDE DEF new
  <1>7. Current' = Current \cup new
    BY Zenon, <1>1, <1>3, <1>4 DEF Current, new
  <1>8. Owners'
    <2>1. contexts' = contexts \cup new
      BY Zenon, <1>3 DEF new
    <2> QED BY <1>1, <1>2, <1>4, <1>6, <1>7, <2>1 DEF Owners
  <1>9. ASSUME NEW n \in 1 .. compiles, n < compiles PROVE FewLost(n)'
    <2>1. Lost(n)' \subseteq Lost(n)
      BY <1>2, <1>3, <1>4, <1>9 DEF Lost, new
    <2> QED BY Zenon, <2>1, <1>9, SameLoss DEF Losses
  <1> QED BY Zenon, <1>1, <1>8, <1>9 DEF Losses

LEMMA PublishObjects ==
  ASSUME Phases, Owners, Losses, Publish
  PROVE  Owners' /\ Losses'
  <1>1. /\ phase = "publish" /\ phase' = "idle" /\ compiles' = compiles
        /\ contexts' = contexts \ prev_retired /\ active' = table
        /\ retired' = Owned(active) /\ prev_retired' = retired
        /\ \A o \in Published : o[1] # compiles
        /\ Current = Owned(table)
    BY Zenon DEF Publish, Return, Owners
  <1>2. /\ Owned(active)' = Owned(table) /\ Published' = Owned(table) \cup Owned(active) \cup retired
        /\ compiles \in 1 .. MaxCompiles /\ MaxCompiles \in Nat
    BY <1>1, ConfigAssumption DEF Published, Owned, Phases
  <1>3. Owners'
    BY Zenon, <1>1, <1>2 DEF Owners, Current, Published
  <1>4. \A n : Lost(n)' \subseteq Lost(n)
    BY Zenon, <1>1, <1>2 DEF Lost, Current, Published
  <1>5. Lost(compiles)' = {}
    BY Zenon, <1>1, <1>2 DEF Lost, Current
  <1>6. ASSUME NEW n \in 1 .. compiles, n < compiles PROVE FewLost(n)'
    BY Zenon, <1>4, <1>6, SameLoss DEF Losses
  <1>7. ASSUME NEW n, n = compiles PROVE FewLost(n)'
    BY Zenon, <1>1, <1>5, <1>7, NoLoss
  <1> QED BY <1>1, <1>2, <1>3, <1>6, <1>7 DEF Losses

LEMMA DiscardObjects ==
  ASSUME Phases, Owners, Losses, Discard
  PROVE  Owners' /\ Losses'
  <1>1. /\ phase = "publish" /\ phase' = "idle" /\ contexts' = contexts \ Owned(table)
        /\ UNCHANGED <<compiles, active, retired, prev_retired>>
        /\ \A o \in Published : o[1] # compiles
        /\ Current = Owned(table)
    BY Zenon DEF Discard, manager, Return, Owners
  <1>2. /\ Published' = Published /\ Owned(active)' = Owned(active)
        /\ compiles \in 1 .. MaxCompiles /\ MaxCompiles \in Nat
    BY <1>1, ConfigAssumption DEF Published, Owned, Phases
  <1>3. Owners'
    BY Zenon, <1>1, <1>2 DEF Owners, Current
  <1>4. \A n : Lost(n)' \subseteq Lost(n)
    BY Zenon, <1>1, <1>2 DEF Lost
  <1>5. Lost(compiles)' = {}
    BY Zenon, <1>1 DEF Lost, Current
  <1>6. ASSUME NEW n \in 1 .. compiles, n < compiles PROVE FewLost(n)'
    BY Zenon, <1>4, <1>6, SameLoss DEF Losses
  <1>7. ASSUME NEW n, n = compiles PROVE FewLost(n)'
    BY Zenon, <1>1, <1>5, <1>7, NoLoss
  <1> QED BY <1>1, <1>2, <1>3, <1>6, <1>7 DEF Losses

-----------------------------------------------------------------------------
(* parse_ranges divides the groups among the parse threads.                 *)

LEMMA ConfigFacts ==
  ASSUME NEW c \in Configs
  PROVE  /\ Len(c) \in Nat /\ DOMAIN c = 1 .. Len(c) /\ Len(c) < IndexBase
         /\ \A g \in DOMAIN c : IsGroup(c[g])
  <1>1. c \in Seq(Range(c)) /\ \A group \in Range(c) : IsGroup(group)
    BY Zenon, ConfigAssumption
  <1>2. Len(c) \in Nat /\ DOMAIN c = 1 .. Len(c)
    BY <1>1
  <1> QED BY Zenon, <1>1, <1>2, ConfigAssumption DEF Range

LEMMA GroupFacts ==
  ASSUME NEW group, IsGroup(group)
  PROVE  /\ Len(group.filters) \in Nat /\ DOMAIN group.filters = 1 .. Len(group.filters)
         /\ Len(group.filters) < IndexBase /\ group.precedence \in Nat
         /\ \A f \in DOMAIN group.filters : IsFilter(group.filters[f])
  BY DEF IsGroup, Range

LEMMA RuleCountGrows ==
  ASSUME NEW c \in Configs, NEW from \in Nat, NEW to \in Nat, NEW more \in Nat,
         to <= more, more <= Len(c)
  PROVE  RuleCount(c, from, to) \in Nat /\ RuleCount(c, from, to) <= RuleCount(c, from, more)
  <1> DEFINE F == [g \in DOMAIN c |-> Len(c[g].filters)]
             S == from + 1 .. more
             T == from + 1 .. to
  <1>1. \A x \in S : F[x] \in Nat
    <2>1. \A x \in S : x \in DOMAIN c
      BY ConfigFacts
    <2> QED BY Zenon, <2>1, ConfigFacts, GroupFacts
  <1>2. IsFiniteSet(S) /\ T \in SUBSET S
    BY FS_Interval
  <1> HIDE DEF F, S, T
  <1>3. SumFunctionOnSet(F, T) \in Nat /\ SumFunctionOnSet(F, T) <= SumFunctionOnSet(F, S)
    BY Zenon, <1>1, <1>2, SumSubset
  <1> QED BY Zenon, <1>3 DEF RuleCount, F, S, T

\* A worker takes at least one group and leaves one to each of the others;
\* the last one takes the rest.
LEMMA RangeEndFacts ==
  ASSUME NEW c \in Configs, NEW next \in Nat, NEW left \in Nat, left >= 1, next + left <= Len(c)
  PROVE  /\ RangeEnd(c, next, left) \in next + 1 .. Len(c) - (left - 1)
         /\ left = 1 => RangeEnd(c, next, left) = Len(c)
  <1> DEFINE top == Len(c) - (left - 1)
             rules == RuleCount(c, next, Len(c))
             target == (rules + left - 1) \div left
             Stops(end) == \/ end = top
                           \/ /\ RuleCount(c, next, end) # 0
                              /\ RuleCount(c, next, end + 1) > target
             E == {end \in next .. top : Stops(end)}
             m == Min(E)
  <1>1. Len(c) \in Nat /\ top \in Nat /\ next + 1 <= top
    BY ConfigFacts
  <1>2. E \in SUBSET Nat /\ top \in E
    BY <1>1
  <1>3. m \in E
    <2> HIDE DEF E
    <2> QED BY Zenon, <1>2, MinFacts
  <1>4. m \in next .. top
    BY Zenon, <1>3
  <1>5. left = 1 => m = top
    <2> SUFFICES ASSUME left = 1, m # top PROVE FALSE
      BY Zenon
    <2>1. m \in Nat /\ m + 1 <= Len(c)
      BY <1>1, <1>4
    <2>2. /\ RuleCount(c, next, m + 1) \in Nat /\ rules \in Nat
          /\ RuleCount(c, next, m + 1) <= rules
      <3> HIDE DEF m
      <3>1. m + 1 \in Nat /\ Len(c) <= Len(c)
        BY <1>1, <2>1
      <3>2. RuleCount(c, next, m + 1) \in Nat /\ RuleCount(c, next, m + 1) <= rules
        BY Zenon, <1>1, <2>1, <3>1, RuleCountGrows
      <3>3. rules \in Nat
        BY Zenon, <1>1, <3>1, RuleCountGrows
      <3> QED BY Zenon, <3>2, <3>3
    <2>3. RuleCount(c, next, m + 1) > target
      BY Zenon, <1>3
    <2>4. target = rules
      <3> HIDE DEF rules
      <3> QED BY <2>2
    <2> HIDE DEF m, target, rules
    <2> QED BY <2>2, <2>3, <2>4
  <1>6. RangeEnd(c, next, left) = Max({next + 1, m})
    BY Zenon DEF RangeEnd
  <1> HIDE DEF m, top
  <1>7. /\ Max({next + 1, m}) \in {next + 1, m}
        /\ Max({next + 1, m}) >= next + 1 /\ Max({next + 1, m}) >= m
    <2>1. top \in Nat /\ {next + 1, m} \in SUBSET (0 .. top)
      BY <1>1, <1>4
    <2> QED BY Zenon, <2>1, MaxFacts
  <1>8. RangeEnd(c, next, left) \in next + 1 .. top
    BY <1>1, <1>4, <1>6, <1>7
  <1>9. left = 1 => RangeEnd(c, next, left) = top
    BY <1>1, <1>4, <1>5, <1>6, <1>7
  <1> QED BY <1>1, <1>8, <1>9 DEF top

\* The ends of the ranges of the first n of W workers.
Ends(e, c, W, n) ==
    e = [w \in 0 .. n |-> IF w = 0 THEN 0 ELSE RangeEnd(c, e[w - 1], W - w + 1)]

LEMMA EndsExist ==
  ASSUME NEW c, NEW W, NEW n \in Nat
  PROVE  \E e : Ends(e, c, W, n)
  <1> DEFINE G == {k \in Nat : \E e : Ends(e, c, W, k)}
  <1>1. 0 \in G
    <2> DEFINE e == [w \in 0 .. 0 |-> 0]
    <2>1. e = [w \in 0 .. 0 |-> IF w = 0 THEN 0 ELSE RangeEnd(c, e[w - 1], W - w + 1)]
      OBVIOUS
    <2> HIDE DEF e
    <2>2. Ends(e, c, W, 0)
      BY Zenon, <2>1 DEF Ends
    <2> QED BY Zenon, <2>2
  <1>2. ASSUME NEW k \in Nat, k \in G PROVE k + 1 \in G
    <2>1. PICK e : Ends(e, c, W, k)
      BY Zenon, <1>2
    <2> DEFINE d == [w \in 0 .. k + 1 |-> IF w = k + 1 THEN RangeEnd(c, e[k], W - (k + 1) + 1) ELSE e[w]]
    <2>2. \A w \in 0 .. k + 1 : d[w] = IF w = 0 THEN 0 ELSE RangeEnd(c, d[w - 1], W - w + 1)
      <3> TAKE w \in 0 .. k + 1
      <3>1. CASE w = k + 1
        <4>1. d[w - 1] = e[k] /\ d[w] = RangeEnd(c, e[k], W - (k + 1) + 1)
          BY <3>1
        <4> QED BY <3>1, <4>1
      <3>2. CASE w = 0
        BY <2>1, <3>2 DEF Ends
      <3>3. CASE w \in 1 .. k
        <4>1. d[w - 1] = e[w - 1] /\ d[w] = e[w]
          BY <3>3
        <4>2. e[w] = RangeEnd(c, e[w - 1], W - w + 1)
          BY <2>1, <3>3 DEF Ends
        <4> QED BY <3>3, <4>1, <4>2
      <3> QED BY <3>1, <3>2, <3>3
    <2>3. Ends(d, c, W, k + 1)
      <3>1. d = [w \in 0 .. k + 1 |-> d[w]]
        BY Zenon
      <3> HIDE DEF d
      <3> QED BY Zenon, <2>2, <3>1 DEF Ends
    <2> QED BY <2>3
  <1>3. Nat \subseteq G
    <2> HIDE DEF G
    <2> QED BY Zenon, <1>1, <1>2, NatIsInductive
  <1> QED BY Zenon, <1>3

\* Each of W workers gets groups of its own, and each group gets a worker.
LEMMA EndsFacts ==
  ASSUME NEW c \in Configs, NEW W \in Nat, W <= Len(c), NEW e, Ends(e, c, W, W)
  PROVE  /\ e[0] = 0 /\ (W # 0 => e[W] = Len(c))
         /\ \A w \in 0 .. W : e[w] \in 0 .. Len(c)
         /\ \A w \in 1 .. W : e[w - 1] < e[w]
  <1> DEFINE G == {k \in Nat : k <= W => e[k] \in Nat /\ e[k] + (W - k) <= Len(c)}
  <1>0. Len(c) \in Nat /\ e[0] = 0
    BY ConfigFacts DEF Ends
  <1>1. ASSUME NEW w \in 1 .. W, e[w - 1] \in Nat, e[w - 1] + (W - (w - 1)) <= Len(c)
        PROVE  e[w] \in e[w - 1] + 1 .. Len(c) - (W - w) /\ (w = W => e[w] = Len(c))
    <2>1. e[w] = RangeEnd(c, e[w - 1], W - w + 1)
      BY DEF Ends
    <2> DEFINE left == W - w + 1
               next == e[w - 1]
    <2>2. left \in Nat /\ left >= 1 /\ next \in Nat /\ next + left <= Len(c)
      BY <1>1
    <2>3. /\ RangeEnd(c, next, left) \in next + 1 .. Len(c) - (left - 1)
          /\ left = 1 => RangeEnd(c, next, left) = Len(c)
      <3> HIDE DEF left, next
      <3> QED BY Zenon, <2>2, RangeEndFacts
    <2>4. left - 1 = W - w /\ (w = W => left = 1)
      OBVIOUS
    <2> QED BY Zenon, <2>1, <2>3, <2>4
  <1>2. 0 \in G
    BY <1>0
  <1>3. ASSUME NEW k \in Nat, k \in G PROVE k + 1 \in G
    <2>1. CASE k + 1 <= W
      <3>1. e[k] \in Nat /\ e[k] + (W - k) <= Len(c) /\ k + 1 \in 1 .. W /\ (k + 1) - 1 = k
        BY <1>3, <2>1
      <3>2. e[k + 1] \in e[k] + 1 .. Len(c) - (W - (k + 1))
        BY Zenon, <1>1, <3>1
      <3> QED BY <1>0, <3>1, <3>2
    <2> QED BY <2>1
  <1>4. Nat \subseteq G
    <2> HIDE DEF G
    <2> QED BY Zenon, <1>2, <1>3, NatIsInductive
  <1>5. \A k \in 0 .. W : e[k] \in Nat /\ e[k] + (W - k) <= Len(c)
    BY <1>4
  <1>6. ASSUME NEW w \in 1 .. W
        PROVE  e[w] \in e[w - 1] + 1 .. Len(c) - (W - w) /\ (w = W => e[w] = Len(c))
    BY <1>1, <1>5
  <1>7. W # 0 => e[W] = Len(c)
    BY <1>6
  <1>8. \A w \in 0 .. W : e[w] \in 0 .. Len(c)
    BY <1>0, <1>5
  <1>9. \A w \in 1 .. W : e[w - 1] < e[w]
    <2> TAKE w \in 1 .. W
    <2>1. w \in 0 .. W /\ w - 1 \in 0 .. W
      OBVIOUS
    <2>2. e[w] \in Nat /\ e[w - 1] \in Nat
      BY Zenon, <1>5, <2>1
    <2> QED BY <1>0, <1>6, <2>2
  <1> QED BY Zenon, <1>0, <1>7, <1>8, <1>9

\* Every group has exactly one parse thread.
LEMMA RangesPartition ==
  ASSUME NEW c \in Configs
  PROVE  /\ \A w \in DOMAIN ParseRanges(c) : ParseRanges(c)[w] \subseteq DOMAIN c
         /\ \A g \in DOMAIN c : \E w \in DOMAIN ParseRanges(c) : g \in ParseRanges(c)[w]
         /\ \A w1, w2 \in DOMAIN ParseRanges(c) :
                w1 # w2 => ParseRanges(c)[w1] \cap ParseRanges(c)[w2] = {}
  <1> DEFINE W == Min({ParseThreads, Len(c)})
             e == CHOOSE e : Ends(e, c, W, W)
  <1>1. Len(c) \in Nat /\ DOMAIN c = 1 .. Len(c)
    BY Zenon, ConfigFacts
  <1>2. W \in Nat /\ W <= Len(c) /\ (Len(c) # 0 => W # 0)
    <2>1. {ParseThreads, Len(c)} \in SUBSET Nat /\ ParseThreads # 0
      BY Zenon, <1>1, ThreadAssumption
    <2>2. W \in {ParseThreads, Len(c)} /\ \A x \in {ParseThreads, Len(c)} : W <= x
      BY Zenon, <2>1, MinFacts
    <2> QED BY Zenon, <2>1, <2>2
  <1>3. ParseRanges(c) = [w \in 1 .. W |-> e[w - 1] + 1 .. e[w]]
    BY Zenon DEF ParseRanges, Ends
  <1>4. Ends(e, c, W, W)
    <2> HIDE DEF W
    <2> QED BY Zenon, <1>2, EndsExist
  <1> HIDE DEF W, e
  <1>5. /\ e[0] = 0 /\ (W # 0 => e[W] = Len(c))
        /\ \A w \in 0 .. W : e[w] \in 0 .. Len(c)
        /\ \A w \in 1 .. W : e[w - 1] < e[w]
    BY Zenon, <1>2, <1>4, EndsFacts
  <1>6. \A i, j \in 0 .. W : i <= j => e[i] <= e[j]
    <2>1. \A i \in 0 .. W : e[i] \in Int
      BY <1>1, <1>5
    <2>2. \A i \in 0 + 1 .. W : e[i - 1] <= e[i]
      <3> TAKE i \in 0 + 1 .. W
      <3>1. i \in 1 .. W /\ i - 1 \in 0 .. W /\ i \in 0 .. W
        BY <1>2
      <3> QED BY <1>5, <2>1, <3>1
    <2> QED BY Zenon, <1>2, <2>1, <2>2, NeighboursInOrder
  <1>7. ASSUME NEW w \in 1 .. W
        PROVE  w - 1 \in 0 .. W /\ w \in 0 .. W /\ e[w - 1] \in 0 .. Len(c) /\ e[w] \in 0 .. Len(c)
    <2>1. w - 1 \in 0 .. W /\ w \in 0 .. W
      BY <1>2
    <2> QED BY Zenon, <1>5, <2>1
  <1>8. \A w \in DOMAIN ParseRanges(c) : ParseRanges(c)[w] \subseteq DOMAIN c
    BY <1>1, <1>3, <1>7
  <1>9. ASSUME NEW g \in DOMAIN c
        PROVE  \E w \in DOMAIN ParseRanges(c) : g \in ParseRanges(c)[w]
    <2> DEFINE T == {w \in 0 .. W : g <= e[w]}
    <2>1. T \in SUBSET Nat /\ W \in T
      BY <1>1, <1>2, <1>5, <1>9
    <2>2. PICK w \in T : \A v \in T : w <= v
      <3> HIDE DEF T
      <3> QED BY Zenon, <2>1, NatMin
    <2>3. w \in 0 .. W /\ g <= e[w] /\ w # 0
      BY <1>1, <1>5, <1>9, <2>2
    <2>4. w \in 1 .. W
      BY <1>2, <2>3
    <2>5. w - 1 \notin T /\ w - 1 \in 0 .. W
      BY <2>2, <2>4, <1>2
    <2>6. ~(g <= e[w - 1])
      BY Zenon, <2>5
    <2>7. g \in e[w - 1] + 1 .. e[w]
      BY <1>1, <1>7, <1>9, <2>3, <2>4, <2>6
    <2> QED BY Zenon, <1>3, <2>4, <2>7
  <1>10. ASSUME NEW v \in 1 .. W, NEW w \in 1 .. W, v < w
         PROVE  ParseRanges(c)[v] \cap ParseRanges(c)[w] = {}
    <2>1. e[v] <= e[w - 1]
      BY <1>2, <1>6, <1>7, <1>10
    <2>2. {e[v], e[v - 1], e[w - 1], e[w]} \subseteq Int
      BY <1>1, <1>7
    <2> QED BY <1>3, <2>1, <2>2
  <1>11. ASSUME NEW w1 \in DOMAIN ParseRanges(c), NEW w2 \in DOMAIN ParseRanges(c), w1 # w2
         PROVE  ParseRanges(c)[w1] \cap ParseRanges(c)[w2] = {}
    <2>1. w1 \in 1 .. W /\ w2 \in 1 .. W /\ (w1 < w2 \/ w2 < w1)
      BY <1>2, <1>3, <1>11
    <2> QED BY Zenon, <1>10, <2>1
  <1> QED BY Zenon, <1>8, <1>9, <1>11

-----------------------------------------------------------------------------
(* Parsing and sorting.                                                     *)

LEMMA CompiledGroup ==
  ASSUME NEW group, IsGroup(group)
  PROVE  /\ CompileGroup(group).name = group.name
         /\ CompileGroup(group).precedence = group.precedence
         /\ DOMAIN CompileGroup(group).filters = DOMAIN group.filters
         /\ \A f \in DOMAIN group.filters :
                CompileGroup(group).filters[f] = CompileFilter(group.filters[f])
         /\ CompileGroup(group) # Blank /\ CompileGroup(group) # None
  <1>1. /\ group = [name |-> group.name, precedence |-> group.precedence, filters |-> group.filters]
        /\ group.name # None /\ CompileGroup(group) # None
    BY Zenon DEF IsGroup
  <1>2. DOMAIN group = {"name", "precedence", "filters"}
    BY Zenon, <1>1
  <1> DEFINE new == [f \in DOMAIN group.filters |-> CompileFilter(group.filters[f])]
  <1>3. CompileGroup(group) = [group EXCEPT !.filters = new]
    BY Zenon DEF CompileGroup
  <1>4. /\ CompileGroup(group).name = group.name
        /\ CompileGroup(group).precedence = group.precedence
        /\ CompileGroup(group).filters = new
    <2> HIDE DEF new
    <2> QED BY Zenon, <1>2, <1>3
  <1>5. CompileGroup(group) # Blank
    BY <1>1, <1>4 DEF Blank
  <1> QED BY Zenon, <1>1, <1>4, <1>5

LEMMA CompileParsing ==
  ASSUME Compile
  PROVE  Parsing'
  <1>1. PICK c \in Configs : /\ config' = c /\ groups' = [g \in DOMAIN c |-> Blank]
                             /\ pending' = ParseRanges(c)
    BY Zenon DEF Compile
  <1>2. \A g \in DOMAIN c : \E w \in DOMAIN ParseRanges(c) : g \in ParseRanges(c)[w]
    BY Zenon, RangesPartition
  <1> QED BY Zenon, <1>1, <1>2 DEF Parsing

LEMMA ParseFailsParsing ==
  ASSUME Parsing, NEW w \in DOMAIN pending, ParseFails(w)
  PROVE  Parsing'
  <1>1. /\ failed' /\ config' = config /\ groups' = groups
        /\ pending' = [pending EXCEPT ![w] = {}]
    BY Zenon DEF ParseFails
  <1>2. \A v \in DOMAIN pending : pending'[v] \subseteq pending[v]
    BY Zenon, <1>1
  <1> QED BY Zenon, <1>1, <1>2 DEF Parsing

LEMMA ParseGroupParsing ==
  ASSUME Parsing, config \in Configs, NEW w \in DOMAIN pending, ParseGroup(w)
  PROVE  Parsing'
  <1> DEFINE g == Min(pending[w])
  <1>1. pending[w] \subseteq DOMAIN config /\ DOMAIN config \subseteq Nat
    BY RangesPartition, ConfigFacts DEF Parsing
  <1>2. g \in pending[w]
    BY Zenon, <1>1, MinFacts DEF ParseGroup
  <1>3. /\ groups' = [groups EXCEPT ![g] = CompileGroup(config[g])]
        /\ pending' = [pending EXCEPT ![w] = @ \ {g}]
        /\ \A filter \in Range(config[g].filters) : Compiles(filter)
        /\ config' = config /\ failed' = failed
    BY Zenon DEF ParseGroup
  <1> HIDE DEF g
  <1>4. \A v \in DOMAIN pending : v # w => g \notin pending[v]
    BY Zenon, <1>2, RangesPartition DEF Parsing
  <1>5. \A v \in DOMAIN pending : pending'[v] = pending[v] \ {g}
    BY Zenon, <1>3, <1>4
  <1>6. groups'[g] = CompileGroup(config[g]) /\ \A h \in DOMAIN config : h # g => groups'[h] = groups[h]
    BY Zenon, <1>1, <1>2, <1>3 DEF Parsing
  <1>7. CompileGroup(config[g]) # Blank
    BY Zenon, <1>1, <1>2, ConfigFacts, CompiledGroup
  <1>8. DOMAIN groups' = DOMAIN config /\ DOMAIN pending' = DOMAIN pending
    BY Zenon, <1>3 DEF Parsing
  <1>9. ASSUME NEW h \in DOMAIN config, groups'[h] # Blank
        PROVE  /\ groups'[h] = CompileGroup(config[h])
               /\ \A filter \in Range(config[h].filters) : Compiles(filter)
               /\ \A v \in DOMAIN pending : h \notin pending'[v]
    BY <1>3, <1>5, <1>6, <1>9 DEF Parsing
  <1>10. ASSUME NEW h \in DOMAIN config, groups'[h] = Blank, ~failed
         PROVE  \E v \in DOMAIN pending : h \in pending'[v]
    BY <1>5, <1>6, <1>7, <1>10 DEF Parsing
  <1> QED BY Zenon, <1>3, <1>5, <1>8, <1>9, <1>10 DEF Parsing

\* What the threads have parsed when none of them failed, and its sort.
AllCompiled(gs, c) ==
    /\ DOMAIN gs = DOMAIN c
    /\ \A g \in DOMAIN c : /\ gs[g] = CompileGroup(c[g])
                           /\ \A filter \in Range(c[g].filters) : Compiles(filter)
SortedBy(gs, order, new) ==
    /\ order \in Surjection(DOMAIN gs, DOMAIN gs)
    /\ \A g \in 2 .. Len(gs) : gs[order[g - 1]].precedence <= gs[order[g]].precedence
    /\ new = [g \in DOMAIN gs |-> gs[order[g]]]

\* The sort by precedence keeps the groups.
LEMMA SortFacts ==
  ASSUME NEW c \in Configs, NEW gs, AllCompiled(gs, c), Filters(gs) # {},
         NEW order, NEW new, SortedBy(gs, order, new)
  PROVE  SortedCompile(new, c)
  <1> USE DEF AllCompiled, SortedBy
  <1>1. Len(c) \in Nat /\ DOMAIN c = 1 .. Len(c)
    BY Zenon, ConfigFacts
  <1>2. /\ \A g \in DOMAIN c : order[g] \in DOMAIN c
        /\ \A h \in DOMAIN c : \E g \in DOMAIN c : order[g] = h
    BY Zenon DEF Surjection
  <1>3. Len(gs) = Len(c) /\ Len(new) = Len(c) /\ DOMAIN new = 1 .. Len(c)
    BY <1>1
  <1>4. new # <<>>
    <2>1. DOMAIN gs # {}
      BY Zenon DEF Filters
    <2> QED BY <2>1
  <1>5. \A g \in DOMAIN c : gs[g].precedence \in Nat
    BY ConfigFacts, CompiledGroup, GroupFacts
  <1>6. ASSUME NEW g \in DOMAIN new, NEW h \in DOMAIN new, g <= h
        PROVE  new[g].precedence <= new[h].precedence
    <2> DEFINE e == [i \in 1 .. Len(c) |-> new[i].precedence]
    <2>1. \A i \in 1 .. Len(c) : e[i] \in Int
      <3> TAKE i \in 1 .. Len(c)
      <3>1. e[i] = gs[order[i]].precedence /\ order[i] \in DOMAIN c
        BY Zenon, <1>1, <1>2
      <3> HIDE DEF e
      <3> QED BY <1>5, <3>1
    <2>2. \A i \in 1 + 1 .. Len(c) : e[i - 1] <= e[i]
      <3> TAKE i \in 1 + 1 .. Len(c)
      <3>1. i \in 2 .. Len(gs) /\ i - 1 \in 1 .. Len(c) /\ i \in 1 .. Len(c)
        BY <1>1, <1>3
      <3>2. e[i - 1] = gs[order[i - 1]].precedence /\ e[i] = gs[order[i]].precedence
        BY Zenon, <1>1, <3>1
      <3> QED BY Zenon, <3>1, <3>2
    <2>3. g \in 1 .. Len(c) /\ h \in 1 .. Len(c)
      BY Zenon, <1>3
    <2>4. e[g] <= e[h]
      <3> HIDE DEF e
      <3> QED BY Zenon, <1>1, <1>6, <2>1, <2>2, <2>3, NeighboursInOrder
    <2> QED BY Zenon, <2>3, <2>4
  <1>7. \A g \in DOMAIN new : \E h \in DOMAIN c : new[g] = CompileGroup(c[h])
    BY Zenon, <1>2
  <1>8. \A h \in DOMAIN c : \E g \in DOMAIN new : new[g] = CompileGroup(c[h])
    BY <1>2
  <1> QED BY Zenon, <1>3, <1>4, <1>6, <1>7, <1>8 DEF SortedCompile

-----------------------------------------------------------------------------
(* task_specs: the chunks.                                                  *)

\* The groups of chunk slot c, and the slots that get a context.
Slot(gs, c) == (c - 1) * ChunkGroups + 1 .. Min({c * ChunkGroups, Len(gs)})
Slots(gs) == (Len(gs) + ChunkGroups - 1) \div ChunkGroups
UsedSlots(gs) == {c \in 1 .. Slots(gs) : \E g \in Slot(gs, c) : gs[g].filters # <<>>}
SlotOf(gs, i) ==
    CHOOSE c \in UsedSlots(gs) : Cardinality({d \in UsedSlots(gs) : d <= c}) = i

LEMMA TaskSpecsShape ==
  ASSUME NEW gs
  PROVE  TaskSpecs(gs) = [i \in 1 .. Cardinality(UsedSlots(gs)) |-> Slot(gs, SlotOf(gs, i))]
  BY Zenon DEF TaskSpecs, Slot, Slots, UsedSlots, SlotOf

LEMMA SlotsFacts ==
  ASSUME NEW gs, Len(gs) \in Nat
  PROVE  /\ ChunkGroups \in Nat /\ ChunkGroups > 0 /\ Slots(gs) \in Nat
         /\ IsFiniteSet(UsedSlots(gs)) /\ Cardinality(UsedSlots(gs)) \in Nat
         /\ UsedSlots(gs) \subseteq Nat \ {0}
  <1>1. ChunkGroups \in Nat /\ ChunkGroups > 0
    BY EngineAssumption
  <1>2. Slots(gs) \in Nat
    <2> DEFINE a == Len(gs) + ChunkGroups - 1
    <2>1. a \in Nat
      BY <1>1
    <2> HIDE DEF a
    <2>2. a \div ChunkGroups \in Nat
      BY <1>1, <2>1
    <2> QED BY Zenon, <2>2 DEF Slots, a
  <1>3. IsFiniteSet(1 .. Slots(gs)) /\ UsedSlots(gs) \subseteq 1 .. Slots(gs)
    BY <1>2, FS_Interval DEF UsedSlots
  <1>4. IsFiniteSet(UsedSlots(gs)) /\ Cardinality(UsedSlots(gs)) \in Nat
    BY Zenon, <1>3, FS_Subset, FS_CardinalityType
  <1> QED BY <1>1, <1>2, <1>3, <1>4

LEMMA TaskSpecsDomain ==
  ASSUME NEW gs, Len(gs) \in Nat
  PROVE  \E n \in Nat : DOMAIN TaskSpecs(gs) = 1 .. n
  BY Zenon, TaskSpecsShape, SlotsFacts

LEMMA FinishParseBuilding ==
  ASSUME Phases, Stages, FinishParse, ~failed, Filters(groups) # {}
  PROVE  phase' = "build" /\ Building'
  <1>1. /\ phase = "parse" /\ Parsing /\ chunks = <<>> /\ config \in Configs
        /\ \A w \in DOMAIN pending : pending[w] = {}
        /\ phase' = "build" /\ UNCHANGED <<config, pending, failed, chunks>>
    BY Zenon DEF FinishParse, Phases, Stages
  <1>2. PICK order : /\ SortedBy(groups, order, groups')
                     /\ built' = [c \in DOMAIN TaskSpecs(groups') |-> "todo"]
    BY Zenon DEF FinishParse, SortedBy
  <1>3. AllCompiled(groups, config)
    BY Zenon, <1>1 DEF Parsing, AllCompiled
  <1>4. SortedCompile(groups', config)
    BY Zenon, <1>1, <1>2, <1>3, SortFacts
  <1>5. Len(groups') \in Nat
    BY Zenon, <1>1, <1>4, ConfigFacts DEF SortedCompile
  <1>6. PICK n \in Nat : DOMAIN TaskSpecs(groups') = 1 .. n
    BY Zenon, <1>5, TaskSpecsDomain
  <1>7. built' = [c \in 1 .. n |-> "todo"] /\ Len(built') = n /\ DOMAIN built' = 1 .. n
    BY <1>2, <1>6
  <1>8. chunks' = <<>> /\ Len(chunks') = 0 /\ DOMAIN chunks' = {} /\ DOMAIN chunks' = 1 .. 0
    BY <1>1
  <1>9. (\A c \in DOMAIN chunks : chunks[c] = Chunk(c) /\ built[c] = "ok")'
    BY Zenon, <1>8
  <1>10. (chunks \in Seq(Range(chunks)))'
    BY <1>8
  <1> QED BY <1>1, <1>4, <1>6, <1>7, <1>8, <1>9, <1>10 DEF Building

-----------------------------------------------------------------------------
(* Building the chunks and the table.                                       *)

\* The batch is what is left, but not more than BuildThreads chunks.
LEMMA BatchFacts ==
  ASSUME Building
  PROVE  \E top \in Nat : /\ Batch = Len(chunks) + 1 .. top
                          /\ top >= Len(chunks) /\ top <= Len(built)
                          /\ top <= Len(chunks) + BuildThreads
                          /\ Len(chunks) < Len(built) => top > Len(chunks)
  <1> DEFINE M == {Len(chunks) + BuildThreads, Len(built)}
  <1>1. {Len(chunks), Len(built), BuildThreads} \subseteq Nat /\ Len(chunks) <= Len(built)
        /\ BuildThreads > 0
    BY ThreadAssumption DEF Building
  <1>2. M \in SUBSET Nat /\ M # {}
    BY <1>1
  <1>3. Min(M) \in M /\ Min(M) <= Len(built) /\ Min(M) <= Len(chunks) + BuildThreads
    BY Zenon, <1>2, MinFacts
  <1>4. Batch = Len(chunks) + 1 .. Min(M)
    BY Zenon DEF Batch
  <1> QED BY <1>1, <1>3, <1>4

LEMMA BuildChunkBuilding ==
  ASSUME Building, NEW c, BuildChunk(c)
  PROVE  Building'
  <1>1. PICK top \in Nat : /\ Batch = Len(chunks) + 1 .. top
                           /\ top <= Len(built) /\ top <= Len(chunks) + BuildThreads
    BY Zenon, BatchFacts
  <1>2. PICK r \in {"ok", "failed"} : built' = [built EXCEPT ![c] = r]
    BY Zenon DEF BuildChunk
  <1>3. /\ {Len(chunks), Len(built), BuildThreads} \subseteq Nat
        /\ DOMAIN built = 1 .. Len(built) /\ DOMAIN chunks = 1 .. Len(chunks)
    BY ThreadAssumption DEF Building
  <1>4. /\ c \in DOMAIN built /\ c \notin DOMAIN chunks /\ c \in Nat
        /\ ~(c > Len(chunks) + BuildThreads)
    BY <1>1, <1>3 DEF BuildChunk
  <1>5. UNCHANGED <<config, pending, failed, groups, chunks, compiles>>
    BY Zenon DEF BuildChunk
  <1>6. /\ DOMAIN built' = DOMAIN built /\ built'[c] = r
        /\ \A d \in DOMAIN built : d # c => built'[d] = built[d]
    BY Zenon, <1>2, <1>4
  <1>7. Len(built') = Len(built)
    <2>1. built' = [d \in 1 .. Len(built) |-> IF d = c THEN r ELSE built[d]]
      BY Zenon, <1>2, <1>3
    <2> QED BY <1>3, <2>1
  <1>8. \A d : Chunk(d)' = Chunk(d)
    BY <1>5 DEF Chunk, ChunkRules, Context
  <1>9. \A d \in DOMAIN built : /\ built'[d] \in {"todo", "ok", "failed"}
                                /\ d > Len(chunks) + BuildThreads => built'[d] = "todo"
    BY Zenon, <1>4, <1>6 DEF Building
  <1>10. \A d \in DOMAIN chunks : chunks[d] = Chunk(d) /\ built'[d] = "ok"
    BY <1>3, <1>4, <1>6 DEF Building
  <1>11. (~failed /\ (\A w \in DOMAIN pending : pending[w] = {})
          /\ SortedCompile(groups, config))'
    BY Zenon, <1>5 DEF Building
  <1>12. (DOMAIN TaskSpecs(groups) = DOMAIN built)'
    BY Zenon, <1>5, <1>6 DEF Building
  <1> QED BY Zenon, <1>3, <1>5, <1>6, <1>7, <1>8, <1>9, <1>10, <1>11, <1>12 DEF Building

LEMMA CollectBatchBuilding ==
  ASSUME Building, CollectBatch, ~\E c \in Batch : built[c] = "failed"
  PROVE  Building' /\ phase' \in {"build", "index"} /\ (phase' = "index" => (Len(chunks) = Len(built))')
  <1>1. PICK top \in Nat : /\ Batch = Len(chunks) + 1 .. top
                           /\ top >= Len(chunks) /\ top <= Len(built)
                           /\ top <= Len(chunks) + BuildThreads
    BY Zenon, BatchFacts
  <1>2. /\ {Len(chunks), Len(built), BuildThreads} \subseteq Nat
        /\ DOMAIN built = 1 .. Len(built) /\ DOMAIN chunks = 1 .. Len(chunks)
    BY ThreadAssumption DEF Building
  <1> DEFINE new == [i \in 1 .. Cardinality(Batch) |-> Chunk(Len(chunks) + i)]
             S == Range(chunks) \cup Range(new)
  <1>3. /\ chunks' = chunks \o new
        /\ phase' = IF Len(chunks') = Len(built) THEN "index" ELSE "build"
        /\ UNCHANGED <<config, pending, failed, groups, built, compiles>>
        /\ \A c \in Batch : built[c] # "todo"
    BY Zenon DEF CollectBatch
  <1>4. Cardinality(Batch) = top - Len(chunks) /\ Cardinality(Batch) \in Nat
    <2>1. Cardinality(Batch) = IF Len(chunks) + 1 > top THEN 0 ELSE top - (Len(chunks) + 1) + 1
      <3>1. PICK first \in Int : first = Len(chunks) + 1
        BY <1>2
      <3>2. Cardinality(first .. top) = IF first > top THEN 0 ELSE top - first + 1
        BY FS_Interval
      <3> QED BY Zenon, <1>1, <3>1, <3>2
    <2> QED BY <1>1, <1>2, <2>1
  <1>5. /\ new \in Seq(S) /\ Len(new) = top - Len(chunks)
        /\ \A i \in 1 .. top - Len(chunks) : new[i] = Chunk(Len(chunks) + i)
    <2>1. PICK k \in Nat : k = Cardinality(Batch)
      BY Zenon, <1>4
    <2>2. new = [i \in 1 .. k |-> Chunk(Len(chunks) + i)]
      BY Zenon, <2>1
    <2> HIDE DEF new
    <2>3. /\ DOMAIN new = 1 .. k /\ new = [i \in 1 .. k |-> new[i]]
          /\ \A i \in 1 .. k : new[i] = Chunk(Len(chunks) + i)
      BY Zenon, <2>2
    <2>4. Range(new) \subseteq S /\ \A i \in 1 .. k : new[i] \in Range(new)
      BY Zenon, <2>3 DEF S, Range
    <2> HIDE DEF S
    <2>5. \A i \in 1 .. k : new[i] \in S
      BY Zenon, <2>4
    <2>6. new \in Seq(S) /\ Len(new) = k
      BY <2>3, <2>5
    <2> QED BY Zenon, <1>4, <2>1, <2>3, <2>6
  <1>6. chunks \in Seq(S)
    <2>1. chunks \in Seq(Range(chunks))
      BY Zenon DEF Building
    <2> HIDE DEF S
    <2>2. Range(chunks) \subseteq S
      BY Zenon DEF S
    <2> QED BY <2>1, <2>2
  <1> HIDE DEF new, S
  <1>7. /\ chunks' \in Seq(S) /\ Len(chunks') = top
        /\ \A i \in 1 .. Len(chunks) : chunks'[i] = chunks[i]
        /\ \A i \in Len(chunks) + 1 .. top : chunks'[i] = new[i - Len(chunks)]
    <2>1. /\ chunks \o new \in Seq(S) /\ Len(chunks \o new) = Len(chunks) + Len(new)
          /\ \A i \in 1 .. Len(chunks) + Len(new) :
                (chunks \o new)[i] = IF i <= Len(chunks) THEN chunks[i] ELSE new[i - Len(chunks)]
      BY Zenon, <1>5, <1>6, SeqJoined
    <2>2. Len(chunks) + Len(new) = top
      BY <1>1, <1>2, <1>5
    <2>3. \A i \in 1 .. top :
                chunks'[i] = IF i <= Len(chunks) THEN chunks[i] ELSE new[i - Len(chunks)]
      BY Zenon, <1>3, <2>1, <2>2
    <2>4. /\ \A i \in 1 .. Len(chunks) : i \in 1 .. top /\ i <= Len(chunks)
          /\ \A i \in Len(chunks) + 1 .. top : i \in 1 .. top /\ ~(i <= Len(chunks))
      BY <1>1, <1>2
    <2> QED BY Zenon, <1>3, <2>1, <2>2, <2>3, <2>4
  <1>8. DOMAIN chunks' = 1 .. top /\ chunks' \in Seq(Range(chunks'))
    BY <1>7 DEF Range
  <1>9. \A d : Chunk(d)' = Chunk(d)
    BY <1>3 DEF Chunk, ChunkRules, Context
  <1>10. ASSUME NEW d \in 1 .. top PROVE chunks'[d] = Chunk(d) /\ built[d] = "ok"
    <2>1. CASE d \in 1 .. Len(chunks)
      BY Zenon, <1>2, <1>7, <2>1 DEF Building
    <2>2. CASE d \in Len(chunks) + 1 .. top
      <3>1. d - Len(chunks) \in 1 .. top - Len(chunks) /\ Len(chunks) + (d - Len(chunks)) = d
        BY <1>1, <1>2, <2>2
      <3>2. chunks'[d] = Chunk(d)
        BY Zenon, <1>5, <1>7, <2>2, <3>1
      <3>3. d \in DOMAIN built /\ d \in Batch
        BY <1>1, <1>2, <2>2
      <3> QED BY Zenon, <1>3, <3>2, <3>3 DEF Building
    <2> QED BY <1>1, <1>2, <2>1, <2>2
  <1>11. \A d \in DOMAIN built : /\ built[d] \in {"todo", "ok", "failed"}
                                 /\ d > top + BuildThreads => built[d] = "todo"
    BY <1>1, <1>2 DEF Building
  <1>12. Building'
    <2>1. (~failed /\ (\A w \in DOMAIN pending : pending[w] = {}) /\ SortedCompile(groups, config)
           /\ DOMAIN TaskSpecs(groups) = DOMAIN built)'
      BY Zenon, <1>3 DEF Building
    <2>2. (Len(chunks) \in 0 .. Len(built) /\ DOMAIN chunks = 1 .. Len(chunks)
           /\ chunks \in Seq(Range(chunks)) /\ Len(built) \in Nat /\ DOMAIN built = 1 .. Len(built))'
      <3>1. built' = built
        BY Zenon, <1>3
      <3>2. top \in 0 .. Len(built)
        BY <1>1, <1>2
      <3> QED BY Zenon, <1>2, <1>7, <1>8, <3>1, <3>2
    <2>3. (\A c \in DOMAIN chunks : chunks[c] = Chunk(c) /\ built[c] = "ok")'
      BY Zenon, <1>3, <1>8, <1>9, <1>10
    <2>4. (\A c \in DOMAIN built : /\ built[c] \in {"todo", "ok", "failed"}
                                   /\ c > Len(chunks) + BuildThreads => built[c] = "todo")'
      BY Zenon, <1>3, <1>7, <1>11
    <2> QED BY Zenon, <2>1, <2>2, <2>3, <2>4 DEF Building
  <1> QED BY Zenon, <1>3, <1>12

LEMMA BuildIndexesWellBuilt ==
  ASSUME Building, Len(chunks) = Len(built), config \in Configs, BuildIndexes
  PROVE  Building' /\ WellBuilt(table')
  <1>1. UNCHANGED <<config, pending, failed, groups, built, chunks, compiles>>
    BY Zenon DEF BuildIndexes
  <1>2. Building'
    BY SMTT(60), <1>1 DEF Building, Chunk, ChunkRules, Context
  <1>3. /\ table'.source = config /\ table'.groups = groups /\ table'.chunks = chunks
        /\ table'.has_wildcard_ip_rules = FALSE
        /\ table'.member # None => table'.member \subseteq MemberKeys(groups)
    BY DEF BuildIndexes, Move
  <1>4. \A c \in DOMAIN chunks : chunks[c].rules = RulesOf(groups, c)
    BY SMTT(60) DEF Building, Chunk, ChunkRules, RulesOf
  <1>5. /\ SortedCompile(groups, config) /\ DOMAIN chunks = DOMAIN TaskSpecs(groups)
        /\ Len(chunks) \in Nat /\ DOMAIN chunks = 1 .. Len(chunks)
    BY Zenon DEF Building
  <1> QED BY Zenon, <1>2, <1>3, <1>4, <1>5 DEF WellBuilt

-----------------------------------------------------------------------------
(* The steps together.                                                      *)

LEMMA PhasesStep ==
  ASSUME Phases, [Next]_vars
  PROVE  Phases'
  <1>0. MaxCompiles \in Nat
    BY Zenon, ConfigAssumption
  <1>1. CASE Compile
    BY <1>0, <1>1 DEF Compile, Phases
  <1>2. CASE FinishParse
    BY Zenon, <1>2 DEF FinishParse, Return, Phases
  <1>3. CASE CollectBatch
    BY Zenon, <1>3 DEF CollectBatch, Return, Phases
  <1>4. CASE BuildIndexes
    BY Zenon, <1>4 DEF BuildIndexes, Phases
  <1>5. CASE Publish
    BY Zenon, <1>5 DEF Publish, Return, Phases
  <1>6. CASE Discard
    BY Zenon, <1>6 DEF Discard, Return, Phases
  <1>7. CASE ClassifyBurst
    BY Zenon, <1>7 DEF ClassifyBurst, work, Phases
  <1>8. CASE \E w \in DOMAIN pending : ParseFails(w) \/ ParseGroup(w)
    BY Zenon, <1>8 DEF ParseFails, ParseGroup, Phases
  <1>9. CASE \E c \in DOMAIN built : BuildChunk(c)
    BY Zenon, <1>9 DEF BuildChunk, Phases
  <1>10. CASE UNCHANGED vars
    BY Zenon, <1>10 DEF vars, work, Phases
  <1> QED BY Zenon, <1>1, <1>2, <1>3, <1>4, <1>5, <1>6, <1>7, <1>8, <1>9, <1>10 DEF Next

LEMMA StagesStep ==
  ASSUME Phases, Stages, [Next]_vars
  PROVE  Stages'
  <1>1. CASE Compile
    <2>1. phase' = "parse" /\ failed' = failed
      BY Zenon, <1>1 DEF Compile
    <2> QED BY Zenon, <1>1, <2>1, CompileParsing DEF Stages
  <1>2. CASE FinishParse
    <2>1. CASE failed \/ Filters(groups) = {}
      BY Zenon, <1>2, <2>1 DEF FinishParse, Return, Stages
    <2>2. CASE ~failed /\ Filters(groups) # {}
      <3>1. failed' = failed
        BY Zenon, <1>2, <2>2 DEF FinishParse
      <3> QED BY Zenon, <1>2, <2>2, <3>1, FinishParseBuilding DEF Stages
    <2> QED BY Zenon, <2>1, <2>2
  <1>3. CASE CollectBatch
    <2>1. Building
      BY Zenon, <1>3 DEF CollectBatch, Stages
    <2>2. CASE \E c \in Batch : built[c] = "failed"
      BY Zenon, <1>3, <2>2 DEF CollectBatch, Return, Stages
    <2>3. CASE ~\E c \in Batch : built[c] = "failed"
      <3>1. failed' = failed
        BY Zenon, <1>3, <2>3 DEF CollectBatch
      <3> QED BY Zenon, <1>3, <2>1, <2>3, <3>1, CollectBatchBuilding DEF Stages
    <2> QED BY Zenon, <2>2, <2>3
  <1>4. CASE BuildIndexes
    <2>1. /\ phase = "index" /\ phase' = "publish" /\ UNCHANGED <<failed, chunks, built>>
          /\ config \in Configs
      BY Zenon, <1>4 DEF BuildIndexes, Phases
    <2> QED BY Zenon, <1>4, <2>1, BuildIndexesWellBuilt DEF Stages
  <1>5. CASE Publish \/ Discard
    BY Zenon, <1>5 DEF Publish, Discard, Return, Stages
  <1>6. CASE ClassifyBurst
    BY Zenon, <1>6 DEF ClassifyBurst, work, Stages
  <1>7. ASSUME NEW w \in DOMAIN pending, ParseFails(w) \/ ParseGroup(w) PROVE Stages'
    <2>1. phase = "parse" /\ phase' = "parse" /\ failed' \in {failed, TRUE} /\ config \in Configs
      BY Zenon, <1>7 DEF ParseFails, ParseGroup, Phases
    <2>2. Parsing'
      BY Zenon, <1>7, <2>1, ParseFailsParsing, ParseGroupParsing DEF Stages
    <2> QED BY Zenon, <2>1, <2>2 DEF Stages
  <1>8. ASSUME NEW c, BuildChunk(c) PROVE Stages'
    <2>1. phase = "build" /\ phase' = "build" /\ failed' = failed
      BY Zenon, <1>8 DEF BuildChunk
    <2> QED BY Zenon, <1>8, <2>1, BuildChunkBuilding DEF Stages
  <1>9. CASE UNCHANGED vars
    <2>1. /\ UNCHANGED <<phase, config, pending, failed, groups, built, chunks, table, compiles>>
      BY Zenon, <1>9 DEF vars, work
    <2>2. (Parsing => Parsing') /\ (Building => Building') /\ table' = table
      BY SMTT(60), <2>1 DEF Parsing, Building, Chunk, ChunkRules, Context
    <2> QED BY Zenon, <2>1, <2>2 DEF Stages
  <1> QED BY Zenon, <1>1, <1>2, <1>3, <1>4, <1>5, <1>6, <1>7, <1>8, <1>9 DEF Next

LEMMA ObjectsStep ==
  ASSUME Phases, Stages, Owners, Losses, [Next]_vars
  PROVE  Owners' /\ Losses'
  <1>1. CASE ClassifyBurst \/ UNCHANGED vars
    <2>1. UNCHANGED <<phase, built, table, contexts, compiles, active, retired, prev_retired>>
      BY Zenon, <1>1 DEF ClassifyBurst, vars, work, manager
    <2>2. BuiltContexts' = BuiltContexts /\ Owned(table)' = Owned(table)
      BY Zenon, <2>1 DEF BuiltContexts, Context, Owned
    <2> QED BY Zenon, <2>1, <2>2, SameObjects DEF Owners
  <1>2. ASSUME NEW w, ParseFails(w) \/ ParseGroup(w) PROVE Owners' /\ Losses'
    <2>1. /\ phase = "parse" /\ phase' = "parse"
          /\ UNCHANGED <<contexts, compiles, active, retired, prev_retired>>
      BY Zenon, <1>2 DEF ParseFails, ParseGroup, manager
    <2> QED BY Zenon, <2>1, SameObjects DEF Owners
  <1> QED BY Zenon, <1>1, <1>2, CompileObjects, FinishParseObjects, BuildChunkObjects, CollectBatchObjects,
             BuildIndexesObjects, PublishObjects, DiscardObjects DEF Next

-----------------------------------------------------------------------------
(* ACL rules stand for the filters of the configuration.                    *)

LEMMA EqualMultiples ==
  ASSUME NEW n \in Nat, n > 0, NEW p \in Int, NEW q \in Int, n * p = n * q
  PROVE  p = q
  <1>1. n * (p - q) = 0
    OBVIOUS
  <1>2. CASE p - q >= 1
    <2>1. n * (p - q) >= n
      BY <1>2
    <2> QED BY <1>1, <2>1
  <1>3. CASE q - p >= 1
    <2>1. n * (q - p) >= n
      BY <1>3
    <2>2. n * (q - p) = 0
      OBVIOUS
    <2> QED BY <2>1, <2>2
  <1> QED BY <1>2, <1>3

\* Clearing the host bits.
LEMMA NetworkFacts ==
  ASSUME NEW length \in 0 .. AddressBits, NEW a \in Nat, NEW b \in Nat
  PROVE  /\ Network(a, length) \in Nat
         /\ Network(a, length) = Network(b, length)
                <=> a \div HostCount(length) = b \div HostCount(length)
         /\ Network(Network(a, length), length) = Network(a, length)
         /\ a \in Network(a, length) .. Network(a, length) + HostCount(length) - 1
  <1> DEFINE n == HostCount(length)
             p == a \div n
             q == b \div n
  <1>1. n \in Nat /\ n > 0
    BY EngineAssumption
  <1>2. \A x : Network(x, length) = x - (x % n)
    BY Zenon DEF Network
  <1> HIDE DEF n
  <1>3. p \in Nat /\ n * p \in Nat /\ a % n \in 0 .. n - 1 /\ a - (a % n) = n * p
    BY Zenon, <1>1, Division
  <1>4. q \in Nat /\ b - (b % n) = n * q
    BY Zenon, <1>1, Division
  <1> HIDE DEF p, q
  <1>5. Network(a, length) = n * p /\ Network(b, length) = n * q
    BY <1>2, <1>3, <1>4, Zenon
  <1>6. (n * p) % n = 0
    BY <1>1, <1>3
  <1>7. Network(Network(a, length), length) = Network(a, length)
    <2>1. PICK x \in Nat : x = n * p
      BY Zenon, <1>3
    <2>2. Network(x, length) = x - (x % n) /\ x % n = 0
      BY Zenon, <1>2, <1>6, <2>1
    <2> QED BY <1>5, <2>1, <2>2
  <1>8. Network(a, length) = Network(b, length) <=> p = q
    BY <1>1, <1>3, <1>4, <1>5, EqualMultiples
  <1>9. a \in n * p .. n * p + n - 1
    <2>1. PICK x \in Nat, y \in 0 .. n - 1 : x = n * p /\ y = a % n /\ a - y = x
      BY Zenon, <1>3
    <2> QED BY <1>1, <2>1
  <1> QED BY Zenon, <1>3, <1>5, <1>7, <1>8, <1>9 DEF n, p, q

\* What Covers says of one address, and the rule's field.
Within(address, ip) ==
    \/ address = None
    \/ IsPlain(address) /\ ip = address.ip
    \/ IsCidr(address) /\ ip \div HostCount(address.length)
                            = address.ip \div HostCount(address.length)
Under(field, ip) ==
    field.length = 0 \/ Network(ip, field.length) = Network(field.ip, field.length)

LEMMA AddressFacts ==
  /\ HostCount(0) \in Nat /\ HostCount(0) > 0
  /\ AddressBits \in Nat /\ Addresses \subseteq Nat
  /\ \A ip \in Addresses : Network(ip, AddressBits) = ip /\ ip \div HostCount(0) = 0
  <1>1. AddressBits \in Nat /\ HostCount(0) \in Nat /\ HostCount(0) > 0 /\ HostCount(AddressBits) = 1
    BY EngineAssumption
  <1>2. Addresses \subseteq Nat
    BY <1>1 DEF Addresses
  <1>3. ASSUME NEW ip \in Addresses PROVE Network(ip, AddressBits) = ip
    <2>1. ip \in Nat /\ ip % 1 = 0
      BY <1>2
    <2> QED BY <1>1, <2>1 DEF Network
  <1>4. ASSUME NEW ip \in Addresses PROVE ip \div HostCount(0) = 0
    <2> DEFINE n == HostCount(0)
    <2>1. n \in Nat /\ n > 0 /\ ip \in 0 .. n - 1
      BY Zenon, <1>1 DEF Addresses
    <2> HIDE DEF n
    <2>2. ip \div n = 0
      BY <2>1
    <2> QED BY Zenon, <2>2 DEF n
  <1> QED BY Zenon, <1>1, <1>2, <1>3, <1>4

\* A source is absent or plain.
LEMMA PlainField ==
  ASSUME NEW address, IsAddress(address), ~IsCidr(address), NEW ip \in Addresses
  PROVE  Under(AclAddress(address), ip) <=> Within(address, ip)
  <1>1. CASE address = None
    BY Zenon, <1>1 DEF Under, Within, AclAddress, IsPlain, IsCidr
  <1>2. CASE address # None
    <2>1. IsPlain(address) /\ address.ip \in Addresses
      BY Zenon, <1>2 DEF IsPlain, IsCidr, IsAddress
    <2>2. AclAddress(address) = [ip |-> address.ip, length |-> AddressBits]
      BY Zenon, <2>1 DEF AclAddress
    <2>3. Under(AclAddress(address), ip) <=> AddressBits = 0 \/ ip = address.ip
      <3>1. Network(ip, AddressBits) = ip /\ Network(address.ip, AddressBits) = address.ip
        BY Zenon, <2>1, AddressFacts
      <3> QED BY <2>2, <3>1 DEF Under
    <2>4. AddressBits = 0 => ip = address.ip
      <3> SUFFICES ASSUME AddressBits = 0 PROVE ip = address.ip
        BY Zenon
      <3>1. Addresses = 0 .. 0
        BY EngineAssumption DEF Addresses
      <3> QED BY <2>1, <3>1
    <2>5. Within(address, ip) <=> ip = address.ip
      BY Zenon, <1>2, <2>1 DEF Within, IsPlain, IsCidr
    <2> QED BY Zenon, <2>3, <2>4, <2>5
  <1> QED BY Zenon, <1>1, <1>2

\* A destination in CIDR form keeps only its network.
LEMMA CidrField ==
  ASSUME NEW address, IsAddress(address), IsCidr(address), NEW ip \in Addresses
  PROVE  /\ Under([ip |-> Network(address.ip, address.length), length |-> address.length], ip)
                <=> Within(address, ip)
         /\ Within(address, ip) =>
                ip \in Network(address.ip, address.length) ..
                       Network(address.ip, address.length) + HostCount(address.length) - 1
  <1> DEFINE n == address.length
             a == address.ip
  <1>1. n \in 0 .. AddressBits /\ a \in Nat /\ ip \in Nat /\ a \in Addresses
    BY Zenon, AddressFacts DEF IsAddress, IsCidr
  <1>2. Within(address, ip) <=> ip \div HostCount(n) = a \div HostCount(n)
    BY Zenon DEF Within, IsCidr, IsPlain
  <1> DEFINE field == [ip |-> Network(a, n), length |-> n]
  <1>3. Under(field, ip) <=> n = 0 \/ Network(ip, n) = Network(Network(a, n), n)
    BY Zenon DEF Under
  <1> HIDE DEF n, a
  <1>4. /\ Network(ip, n) = Network(a, n) <=> ip \div HostCount(n) = a \div HostCount(n)
        /\ Network(Network(a, n), n) = Network(a, n)
        /\ ip \in Network(ip, n) .. Network(ip, n) + HostCount(n) - 1
    BY Zenon, <1>1, NetworkFacts
  <1>5. n = 0 => ip \div HostCount(n) = a \div HostCount(n)
    BY Zenon, <1>1, AddressFacts
  <1>6. Under(field, ip) <=> Within(address, ip)
    BY Zenon, <1>2, <1>3, <1>4, <1>5
  <1>7. Within(address, ip) => ip \in Network(a, n) .. Network(a, n) + HostCount(n) - 1
    BY Zenon, <1>2, <1>4
  <1> QED BY Zenon, <1>6, <1>7 DEF n, a

LEMMA CompiledFilter ==
  ASSUME NEW filter, IsFilter(filter)
  PROVE  LET cf == CompileFilter(filter)
         IN  /\ cf.protocol = filter.protocol /\ cf.source = filter.source
             /\ cf.source_port = filter.source_port
             /\ cf.destination_port = filter.destination_port
             /\ ~IsCidr(filter.destination) => cf.destination = filter.destination
             /\ IsCidr(filter.destination) =>
                    cf.destination = [ip |-> Network(filter.destination.ip, filter.destination.length),
                                      length |-> filter.destination.length]
  <1> DEFINE cf == CompileFilter(filter)
             d == filter.destination
  <1>1. CASE ~IsCidr(d)
    BY Zenon, <1>1 DEF CompileFilter
  <1>2. CASE IsCidr(d)
    <2>1. d = [ip |-> d.ip, length |-> d.length]
      BY Zenon, <1>2 DEF IsFilter, IsAddress, IsCidr
    <2>2. cf = [filter EXCEPT !.destination = [d EXCEPT !.ip = Network(d.ip, d.length)]]
      BY Zenon, <1>2 DEF CompileFilter
    <2>3. [d EXCEPT !.ip = Network(d.ip, d.length)] = [ip |-> Network(d.ip, d.length), length |-> d.length]
      BY <2>1
    <2>4. DOMAIN filter = {"protocol", "source", "destination", "source_port", "destination_port"}
      <3>1. filter = [protocol |-> filter.protocol, source |-> filter.source, destination |-> d,
                      source_port |-> filter.source_port, destination_port |-> filter.destination_port]
        BY Zenon DEF IsFilter
      <3> QED BY Zenon, <3>1
    <2>5. cf = [filter EXCEPT !.destination = [ip |-> Network(d.ip, d.length), length |-> d.length]]
      BY Zenon, <2>2, <2>3
    <2> HIDE DEF cf
    <2> QED BY Zenon, <1>2, <2>4, <2>5 DEF cf
  <1> QED BY Zenon, <1>1, <1>2

\* The rule of a compiled filter matches what the filter covers.
LEMMA RuleMeansFilter ==
  ASSUME NEW filter, IsFilter(filter), Compiles(filter), NEW p \in Packets,
         NEW g, NEW f, NEW precedence
  PROVE  /\ AclRuleMatches(BuildAclRule(CompileFilter(filter), g, f, precedence), p)
                <=> Covers(filter, p)
         /\ Covers(filter, p) => FilterMatchesPortProtocol(CompileFilter(filter), p)
  <1> DEFINE cf == CompileFilter(filter)
             d == filter.destination
             r == BuildAclRule(cf, g, f, precedence)
  <1>1. p.source \in Addresses /\ p.destination \in Addresses
    BY Zenon, ConfigAssumption
  <1>2. /\ cf.protocol = filter.protocol /\ cf.source = filter.source
        /\ cf.source_port = filter.source_port /\ cf.destination_port = filter.destination_port
        /\ ~IsCidr(d) => cf.destination = d
        /\ IsCidr(d) => cf.destination = [ip |-> Network(d.ip, d.length), length |-> d.length]
    BY Zenon, CompiledFilter
  <1> HIDE DEF cf
  <1>3. Under(AclAddress(cf.source), p.source) <=> Within(filter.source, p.source)
    BY Zenon, <1>1, <1>2, PlainField DEF IsFilter, Compiles
  <1>4. Under(AclAddress(cf.destination), p.destination) <=> Within(d, p.destination)
    <2>1. CASE ~IsCidr(d)
      BY Zenon, <1>1, <1>2, <2>1, PlainField DEF IsFilter
    <2>2. CASE IsCidr(d)
      <3>1. /\ d.length \in 0 .. AddressBits /\ d.length \in Nat /\ d.ip \in Nat /\ d.length # None
            /\ IsAddress(d)
        BY <2>2, AddressFacts DEF IsFilter, IsAddress, IsCidr
      <3>2. Network(d.ip, d.length) \in Nat
        BY Zenon, <3>1, NetworkFacts
      <3>3. cf.destination \in [ip : Nat, length : Nat] /\ cf.destination.length = d.length
        BY <1>2, <2>2, <3>1, <3>2
      <3>4. IsCidr(cf.destination)
        BY Zenon, <3>1, <3>3, EngineAssumption DEF IsCidr
      <3>5. AclAddress(cf.destination) = [ip |-> Network(d.ip, d.length), length |-> d.length]
        <4>1. AclAddress(cf.destination) = [ip |-> cf.destination.ip, length |-> cf.destination.length]
          BY Zenon, <3>4 DEF AclAddress, IsPlain, IsCidr
        <4>2. cf.destination.ip = Network(d.ip, d.length)
          BY <1>2, <2>2
        <4> QED BY Zenon, <3>3, <4>1, <4>2
      <3> QED BY Zenon, <1>1, <2>2, <3>1, <3>5, CidrField
    <2> QED BY Zenon, <2>1, <2>2
  <1>5. AclRuleMatches(r, p) <=>
            /\ cf.protocol = p.protocol
            /\ Under(AclAddress(cf.source), p.source)
            /\ Under(AclAddress(cf.destination), p.destination)
            /\ cf.source_port = None \/ cf.source_port = p.source_port
            /\ cf.destination_port = None \/ cf.destination_port = p.destination_port
    BY Zenon DEF AclRuleMatches, BuildAclRule, Under
  <1>6. Covers(filter, p) <=>
            /\ filter.protocol = p.protocol
            /\ Within(filter.source, p.source) /\ Within(d, p.destination)
            /\ filter.source_port \in {None, p.source_port}
            /\ filter.destination_port \in {None, p.destination_port}
    BY Zenon DEF Covers, Within
  <1>7. AclRuleMatches(r, p) <=> Covers(filter, p)
    BY Zenon, <1>2, <1>3, <1>4, <1>5, <1>6
  <1>8. Covers(filter, p) => FilterMatchesPortProtocol(cf, p)
    BY Zenon, <1>2, <1>6 DEF FilterMatchesPortProtocol
  <1> QED BY Zenon, <1>7, <1>8 DEF cf

-----------------------------------------------------------------------------
(* The chunks divide the groups in their order.                             *)

LEMMA SlotOfFacts ==
  ASSUME NEW gs, Len(gs) \in Nat
  PROVE  /\ \A i \in DOMAIN TaskSpecs(gs) : SlotOf(gs, i) \in UsedSlots(gs)
         /\ \A i, j \in DOMAIN TaskSpecs(gs) : i < j => SlotOf(gs, i) < SlotOf(gs, j)
         /\ \A s \in UsedSlots(gs) : \E i \in DOMAIN TaskSpecs(gs) : SlotOf(gs, i) = s
  <1> DEFINE U == UsedSlots(gs)
             n == Cardinality(U)
  <1>1. U \in SUBSET Nat /\ IsFiniteSet(U) /\ n \in Nat
    BY Zenon, SlotsFacts
  <1>2. DOMAIN TaskSpecs(gs) = 1 .. n
    BY Zenon, TaskSpecsShape
  <1>3. \A i : SlotOf(gs, i) = CHOOSE c \in U : RankIn(U, c) = i
    BY Zenon DEF SlotOf, RankIn
  <1> HIDE DEF U
  <1>4. /\ \A c \in U : RankIn(U, c) \in 1 .. n
        /\ \A c, d \in U : c < d => RankIn(U, c) < RankIn(U, d)
        /\ \A i \in 1 .. n : \E c \in U : RankIn(U, c) = i
    BY Zenon, <1>1, RankFacts
  <1> HIDE DEF n
  <1>5. \A i \in 1 .. n : SlotOf(gs, i) \in U /\ RankIn(U, SlotOf(gs, i)) = i
    BY Zenon, <1>3, <1>4
  <1>6. \A c, d \in U : RankIn(U, c) <= RankIn(U, d) => c <= d
    <2> SUFFICES ASSUME NEW c \in U, NEW d \in U, RankIn(U, c) <= RankIn(U, d), ~(c <= d) PROVE FALSE
      BY Zenon
    <2>1. d < c /\ {RankIn(U, c), RankIn(U, d)} \subseteq Int
      BY <1>1, <1>4
    <2> QED BY <1>4, <2>1
  <1>7. ASSUME NEW i \in 1 .. n, NEW j \in 1 .. n, i < j PROVE SlotOf(gs, i) < SlotOf(gs, j)
    <2>1. SlotOf(gs, i) <= SlotOf(gs, j) /\ SlotOf(gs, i) # SlotOf(gs, j)
      BY <1>5, <1>6, <1>7
    <2>2. SlotOf(gs, i) \in Nat /\ SlotOf(gs, j) \in Nat
      BY Zenon, <1>1, <1>5
    <2> QED BY <2>1, <2>2
  <1>8. ASSUME NEW s \in U PROVE \E i \in 1 .. n : SlotOf(gs, i) = s
    <2> DEFINE i == RankIn(U, s)
    <2>1. i \in 1 .. n /\ SlotOf(gs, i) \in U /\ RankIn(U, SlotOf(gs, i)) = i
      BY Zenon, <1>4, <1>5
    <2>2. SlotOf(gs, i) <= s /\ s <= SlotOf(gs, i)
      <3>1. RankIn(U, SlotOf(gs, i)) <= RankIn(U, s) /\ RankIn(U, s) <= RankIn(U, SlotOf(gs, i))
        BY <2>1
      <3> QED BY Zenon, <1>6, <2>1, <3>1
    <2>3. SlotOf(gs, i) \in Nat /\ s \in Nat
      BY Zenon, <1>1, <2>1
    <2>4. SlotOf(gs, i) = s
      BY <2>2, <2>3
    <2> QED BY Zenon, <2>1, <2>4
  <1> QED BY Zenon, <1>2, <1>5, <1>7, <1>8 DEF U

LEMMA SlotFacts ==
  ASSUME NEW gs, Len(gs) \in Nat, NEW s \in Nat \ {0}
  PROVE  \E a \in Nat, b \in Nat : /\ a = (s - 1) * ChunkGroups /\ b <= Len(gs)
                                   /\ b <= a + ChunkGroups /\ Slot(gs, s) = a + 1 .. b
                                   /\ b = Len(gs) \/ b = a + ChunkGroups
  <1>1. ChunkGroups \in Nat
    BY Zenon, SlotsFacts
  <1>2. PICK a \in Nat : a = (s - 1) * ChunkGroups
    BY <1>1
  <1>3. s * ChunkGroups = a + ChunkGroups /\ s * ChunkGroups \in Nat
    BY <1>1, <1>2
  <1> DEFINE M == {s * ChunkGroups, Len(gs)}
             b == Min(M)
  <1>4. b \in M /\ b <= Len(gs) /\ b <= s * ChunkGroups
    BY Zenon, <1>3, MinFacts
  <1>5. Slot(gs, s) = (s - 1) * ChunkGroups + 1 .. b
    BY Zenon DEF Slot
  <1> HIDE DEF b
  <1> QED BY Zenon, <1>2, <1>3, <1>4, <1>5

LEMMA InSlot ==
  ASSUME NEW n \in Nat, NEW k \in Nat, NEW g \in 1 .. n, NEW a \in Nat, NEW b \in Nat,
         a <= g - 1, g - 1 <= a + k - 1, b = n \/ b = a + k
  PROVE  g \in a + 1 .. b
  OBVIOUS

\* Every group with a filter is in a chunk; an earlier chunk has the groups
\* that come before those of a later one.
LEMMA TaskSpecsFacts ==
  ASSUME NEW gs, Len(gs) \in Nat, DOMAIN gs = 1 .. Len(gs)
  PROVE  /\ \A c \in DOMAIN TaskSpecs(gs) : TaskSpecs(gs)[c] \subseteq DOMAIN gs
         /\ \A c, d \in DOMAIN TaskSpecs(gs) :
                c < d => \A g \in TaskSpecs(gs)[c], h \in TaskSpecs(gs)[d] : g < h
         /\ \A g \in DOMAIN gs : gs[g].filters # <<>> =>
                \E c \in DOMAIN TaskSpecs(gs) : g \in TaskSpecs(gs)[c]
  <1>1. ChunkGroups \in Nat /\ ChunkGroups > 0 /\ Slots(gs) \in Nat /\ UsedSlots(gs) \subseteq Nat \ {0}
    BY Zenon, SlotsFacts
  <1>2. \A c \in DOMAIN TaskSpecs(gs) : /\ TaskSpecs(gs)[c] = Slot(gs, SlotOf(gs, c))
                                        /\ SlotOf(gs, c) \in Nat \ {0}
    BY Zenon, <1>1, TaskSpecsShape, SlotOfFacts
  <1>3. ASSUME NEW c \in DOMAIN TaskSpecs(gs) PROVE TaskSpecs(gs)[c] \subseteq DOMAIN gs
    <2>1. PICK a \in Nat, b \in Nat : b <= Len(gs) /\ TaskSpecs(gs)[c] = a + 1 .. b
      BY Zenon, <1>2, SlotFacts
    <2> QED BY <2>1
  <1>4. ASSUME NEW c \in DOMAIN TaskSpecs(gs), NEW d \in DOMAIN TaskSpecs(gs), c < d,
               NEW g \in TaskSpecs(gs)[c], NEW h \in TaskSpecs(gs)[d]
        PROVE  g < h
    <2> DEFINE s == SlotOf(gs, c)
               r == SlotOf(gs, d)
    <2>1. s < r /\ s \in Nat \ {0} /\ r \in Nat \ {0}
      BY Zenon, <1>2, <1>4, SlotOfFacts
    <2> HIDE DEF s, r
    <2>2. PICK a \in Nat, b \in Nat : a = (s - 1) * ChunkGroups /\ b <= a + ChunkGroups
                                      /\ Slot(gs, s) = a + 1 .. b
      BY Zenon, <2>1, SlotFacts
    <2>3. PICK a2 \in Nat, b2 \in Nat : a2 = (r - 1) * ChunkGroups /\ Slot(gs, r) = a2 + 1 .. b2
      BY Zenon, <2>1, SlotFacts
    <2>4. a + ChunkGroups <= a2
      <3>1. a2 - a = (r - s) * ChunkGroups
        BY <1>1, <2>1, <2>2, <2>3
      <3>2. (r - s) * ChunkGroups >= ChunkGroups
        BY <1>1, <2>1
      <3>3. (r - s) * ChunkGroups \in Int
        BY <1>1, <2>1
      <3> QED BY <1>1, <3>1, <3>2, <3>3
    <2>5. g \in a + 1 .. b /\ h \in a2 + 1 .. b2
      BY Zenon, <1>2, <2>2, <2>3 DEF s, r
    <2> QED BY <1>1, <2>2, <2>4, <2>5
  <1>5. ASSUME NEW g \in DOMAIN gs, gs[g].filters # <<>>
        PROVE  \E c \in DOMAIN TaskSpecs(gs) : g \in TaskSpecs(gs)[c]
    <2> DEFINE q == (g - 1) \div ChunkGroups
               x == ChunkGroups * q
               s == q + 1
    <2>1. g \in 1 .. Len(gs) /\ g - 1 \in Nat
      OBVIOUS
    <2>2. q \in Nat /\ x \in Nat /\ x <= g - 1 /\ g - 1 <= x + ChunkGroups - 1
      <3>1. PICK y \in Nat : y = g - 1
        BY Zenon, <2>1
      <3>2. q = y \div ChunkGroups
        BY Zenon, <3>1
      <3>3. /\ q \in Nat /\ ChunkGroups * q \in Nat
            /\ y % ChunkGroups \in 0 .. ChunkGroups - 1 /\ y - (y % ChunkGroups) = ChunkGroups * q
        BY Zenon, <1>1, <3>2, Division
      <3> HIDE DEF q
      <3>4. PICK z \in Nat, rest \in 0 .. ChunkGroups - 1 : z = x /\ y - rest = z
        BY Zenon, <3>3
      <3>5. x = z /\ q \in Nat
        BY Zenon, <3>3, <3>4
      <3> HIDE DEF x
      <3> QED BY <1>1, <3>1, <3>4, <3>5
    <2> HIDE DEF q
    <2>3. s \in Nat \ {0} /\ (s - 1) * ChunkGroups = x
      BY <1>1, <2>2
    <2>4. PICK a \in Nat, b \in Nat : /\ a = (s - 1) * ChunkGroups /\ Slot(gs, s) = a + 1 .. b
                                      /\ b = Len(gs) \/ b = a + ChunkGroups
      BY Zenon, <2>3, SlotFacts
    <2>5. g \in Slot(gs, s)
      <3> HIDE DEF x, s
      <3>1. a = x /\ x \in Nat /\ x <= g - 1 /\ g - 1 <= x + ChunkGroups - 1
        BY Zenon, <2>2, <2>3, <2>4
      <3>2. g \in a + 1 .. b
        <4>1. a <= g - 1 /\ g - 1 <= a + ChunkGroups - 1 /\ (b = Len(gs) \/ b = a + ChunkGroups)
          BY Zenon, <2>4, <3>1
        <4> QED BY Zenon, <1>1, <2>1, <4>1, InSlot
      <3> QED BY Zenon, <2>4, <3>2
    <2>6. s <= Slots(gs)
      <3> DEFINE m == Len(gs) + ChunkGroups - 1
                 k == m \div ChunkGroups
      <3>1. m \in Nat
        BY <1>1
      <3> HIDE DEF m
      <3>2. k \in Nat /\ ChunkGroups * k \in Nat /\ m % ChunkGroups \in 0 .. ChunkGroups - 1
            /\ m - (m % ChunkGroups) = ChunkGroups * k
        BY Zenon, <1>1, <3>1, Division
      <3> HIDE DEF k
      <3>3. PICK z \in Nat : z = ChunkGroups * k
        BY Zenon, <3>2
      <3>4. z >= Len(gs)
        BY <1>1, <3>2, <3>3 DEF m
      <3>5. x < z
        BY <1>1, <2>1, <2>2, <3>4
      <3>6. q < k
        <4> SUFFICES ASSUME q >= k PROVE FALSE
          BY <2>2, <3>2
        <4>1. ChunkGroups * q >= ChunkGroups * k
          BY <1>1, <2>2, <3>2
        <4> QED BY <2>2, <3>3, <3>5, <4>1
      <3>7. Slots(gs) = k
        BY Zenon DEF Slots, k, m
      <3> QED BY <2>2, <3>2, <3>6, <3>7
    <2>7. s \in UsedSlots(gs)
      <3>1. s \in 1 .. Slots(gs)
        BY <1>1, <2>3, <2>6
      <3> QED BY Zenon, <1>5, <2>5, <3>1 DEF UsedSlots
    <2> HIDE DEF s
    <2>8. PICK c \in DOMAIN TaskSpecs(gs) : SlotOf(gs, c) = s
      BY Zenon, <2>7, SlotOfFacts
    <2> QED BY Zenon, <1>2, <2>5, <2>8
  <1> QED BY Zenon, <1>3, <1>4, <1>5

-----------------------------------------------------------------------------
(* What the library finds in one chunk.                                     *)

LEMMA UserdataDecodes ==
  ASSUME NEW g \in Nat, g > 0, g < IndexBase, NEW f \in Nat, f < IndexBase
  PROVE  /\ Userdata(g, f) \div IndexBase = g /\ Userdata(g, f) % IndexBase = f
         /\ Userdata(g, f) # 0
  <1> DEFINE B == IndexBase
             u == Userdata(g, f)
  <1>1. B \in Nat /\ B > 0
    BY EngineAssumption
  <1>2. PICK x \in Nat : x = g * B
    BY <1>1
  <1>3. PICK M \in Nat : M = B * B
    BY <1>1
  <1>4. x + B <= M /\ x >= B
    <2>1. (B - g) * B >= B /\ (B - g) * B = M - x
      BY <1>1, <1>2, <1>3
    <2>2. (g - 1) * B >= 0 /\ (g - 1) * B = x - B
      BY <1>1, <1>2
    <2> QED BY <1>1, <2>1, <2>2
  <1>5. x % M = x /\ f % B = f
    <2>1. x % M = x
      BY <1>1, <1>4
    <2>2. f % B = f
      BY <1>1
    <2> QED BY Zenon, <2>1, <2>2
  <1>6. u = x + f
    BY Zenon, <1>2, <1>3, <1>5 DEF Userdata
  <1> HIDE DEF u, B
  <1>7. u \in Nat /\ u > 0
    BY <1>1, <1>4, <1>6
  <1> DEFINE q == u \div B
             r == u % B
  <1>8. q \in Nat /\ B * q \in Nat /\ r \in 0 .. B - 1 /\ u - r = B * q
    BY Zenon, <1>1, <1>7, Division
  <1> HIDE DEF q, r
  <1>9. B * (q - g) = f - r
    <2>1. B * (q - g) = B * q - x
      BY <1>1, <1>2, <1>8
    <2>2. PICK y \in Nat : y = B * q
      BY Zenon, <1>8
    <2> QED BY <1>6, <1>8, <2>1, <2>2
  <1>10. B * (q - g) = 0
    <2>1. q - g \in Int /\ -B < B * (q - g) /\ B * (q - g) < B
      BY <1>1, <1>8, <1>9 DEF B
    <2> QED BY Zenon, <1>1, <2>1, SmallMultiple
  <1>11. r = f
    BY <1>1, <1>8, <1>9, <1>10
  <1>12. q = g
    <2>1. B * q = B * g
      BY <1>1, <1>8, <1>10
    <2> QED BY <1>1, <1>8, <2>1, EqualMultiples
  <1> QED BY <1>7, <1>11, <1>12 DEF u, q, r, B

\* The groups of a sorted table.
LEMMA TableGroups ==
  ASSUME NEW c \in Configs, NEW gs, SortedCompile(gs, c)
  PROVE  /\ Len(gs) \in Nat /\ DOMAIN gs = 1 .. Len(gs) /\ Len(gs) < IndexBase
         /\ \A g \in DOMAIN gs : /\ gs[g] # None /\ gs[g].precedence \in Nat
                                 /\ DOMAIN gs[g].filters \subseteq 1 .. IndexBase - 1
         /\ \A g \in DOMAIN gs : \E h \in DOMAIN c :
                /\ gs[g] = CompileGroup(c[h]) /\ IsGroup(c[h])
                /\ DOMAIN gs[g].filters = DOMAIN c[h].filters
                /\ \A f \in DOMAIN gs[g].filters :
                        /\ gs[g].filters[f] = CompileFilter(c[h].filters[f])
                        /\ IsFilter(c[h].filters[f]) /\ Compiles(c[h].filters[f])
  <1>1. Len(gs) \in Nat /\ DOMAIN gs = 1 .. Len(gs) /\ Len(gs) < IndexBase /\ IndexBase \in Nat
    BY Zenon, ConfigFacts, EngineAssumption DEF SortedCompile
  <1>2. ASSUME NEW g \in DOMAIN gs
        PROVE  \E h \in DOMAIN c :
                /\ gs[g] = CompileGroup(c[h]) /\ IsGroup(c[h])
                /\ DOMAIN gs[g].filters = DOMAIN c[h].filters
                /\ \A f \in DOMAIN gs[g].filters :
                        /\ gs[g].filters[f] = CompileFilter(c[h].filters[f])
                        /\ IsFilter(c[h].filters[f]) /\ Compiles(c[h].filters[f])
    <2>1. PICK h \in DOMAIN c : gs[g] = CompileGroup(c[h])
      BY Zenon DEF SortedCompile
    <2>2. IsGroup(c[h])
      BY Zenon, ConfigFacts
    <2>3. /\ DOMAIN gs[g].filters = DOMAIN c[h].filters
          /\ \A f \in DOMAIN c[h].filters : gs[g].filters[f] = CompileFilter(c[h].filters[f])
      BY <2>1, <2>2, CompiledGroup
    <2>4. \A f \in DOMAIN c[h].filters : IsFilter(c[h].filters[f])
      BY Zenon, <2>2, GroupFacts
    <2>5. \A f \in DOMAIN c[h].filters : Compiles(c[h].filters[f])
      BY Zenon DEF SortedCompile, Range
    <2> QED BY Zenon, <2>1, <2>2, <2>3, <2>4, <2>5
  <1>3. ASSUME NEW g \in DOMAIN gs
        PROVE  /\ gs[g] # None /\ gs[g].precedence \in Nat
               /\ DOMAIN gs[g].filters \subseteq 1 .. IndexBase - 1
    <2>1. PICK h \in DOMAIN c : gs[g] = CompileGroup(c[h]) /\ IsGroup(c[h])
      BY Zenon, <1>2
    <2>2. /\ gs[g] # None /\ gs[g].precedence = c[h].precedence
          /\ DOMAIN gs[g].filters = DOMAIN c[h].filters
      BY Zenon, <2>1, CompiledGroup
    <2>3. /\ c[h].precedence \in Nat /\ DOMAIN c[h].filters = 1 .. Len(c[h].filters)
          /\ Len(c[h].filters) \in Nat /\ Len(c[h].filters) < IndexBase
      BY Zenon, <2>1, GroupFacts
    <2> QED BY <1>1, <2>2, <2>3
  <1> QED BY Zenon, <1>1, <1>2, <1>3

\* The rule of filter f of group g; the groups with a rule that matches.
RuleOf(gs, g, f) == BuildAclRule(gs[g].filters[f], g, f, gs[g].precedence)
Hit(gs, g, p) == \E f \in DOMAIN gs[g].filters : AclRuleMatches(RuleOf(gs, g, f), p)

LEMMA RuleFields ==
  ASSUME NEW gs, NEW g, NEW f
  PROVE  /\ RuleOf(gs, g, f).userdata = Userdata(g, f)
         /\ RuleOf(gs, g, f).priority = -gs[g].precedence
  BY Zenon DEF RuleOf, BuildAclRule

\* The group a matching rule stands for is accepted.
LEMMA RuleAccepted ==
  ASSUME NEW t, WellBuilt(t), NEW p \in Packets, NEW g \in DOMAIN t.groups,
         NEW f \in DOMAIN t.groups[g].filters, AclRuleMatches(RuleOf(t.groups, g, f), p)
  PROVE  Accept(t, RuleOf(t.groups, g, f).userdata, p) = t.groups[g]
  <1> DEFINE gs == t.groups
             c == t.source
  <1>1. c \in Configs /\ SortedCompile(gs, c)
    BY Zenon DEF WellBuilt
  <1>2. PICK h \in DOMAIN c :
            /\ gs[g].filters[f] = CompileFilter(c[h].filters[f])
            /\ IsFilter(c[h].filters[f]) /\ Compiles(c[h].filters[f])
    BY SMTT(60), <1>1, TableGroups
  <1>3. FilterMatchesPortProtocol(gs[g].filters[f], p)
    BY Zenon, <1>2, RuleMeansFilter DEF RuleOf
  <1>4. g \in Nat /\ g > 0 /\ g < IndexBase /\ f \in Nat /\ f < IndexBase
    <2>1. /\ Len(gs) \in Nat /\ DOMAIN gs = 1 .. Len(gs) /\ Len(gs) < IndexBase
          /\ DOMAIN gs[g].filters \subseteq 1 .. IndexBase - 1 /\ IndexBase \in Nat
      BY Zenon, <1>1, TableGroups, EngineAssumption
    <2>2. g \in 1 .. Len(gs) /\ f \in 1 .. IndexBase - 1
      BY Zenon, <2>1
    <2> HIDE DEF gs
    <2> QED BY SMTT(60), <2>1, <2>2
  <1> DEFINE u == Userdata(g, f)
  <1>5. u \div IndexBase = g /\ u % IndexBase = f /\ u # 0
    BY Zenon, <1>4, UserdataDecodes
  <1> HIDE DEF u
  <1>6. Accept(t, u, p) = gs[g]
    BY Zenon, <1>3, <1>5 DEF Accept
  <1> QED BY SMTT(60), <1>6, RuleFields DEF u

\* What a chunk returns: nothing, or only groups of the smallest precedence
\* among the groups of the chunk that have a rule for the packet.
Best(gs, G, p, g) ==
    /\ g \in G /\ Hit(gs, g, p)
    /\ \A h \in G : Hit(gs, h, p) => gs[g].precedence <= gs[h].precedence

LEMMA ChunkResult ==
  ASSUME NEW t, WellBuilt(t), NEW p \in Packets, NEW c \in DOMAIN t.chunks
  PROVE  LET K == AclClassify(t.chunks[c].rules, p)
             G == TaskSpecs(t.groups)[c]
         IN  /\ (\A g \in G : ~Hit(t.groups, g, p)) => K = {0}
             /\ (\E g \in G : Hit(t.groups, g, p)) =>
                    /\ K # {}
                    /\ \A u \in K : \E g \in G : /\ Best(t.groups, G, p, g)
                                                 /\ Accept(t, u, p) = t.groups[g]
  <1> DEFINE gs == t.groups
             rules == t.chunks[c].rules
             K == AclClassify(rules, p)
             G == TaskSpecs(gs)[c]
             matching == {r \in rules : AclRuleMatches(r, p)}
             best == {r \in matching : \A other \in matching : other.priority <= r.priority}
  <1>1. t.source \in Configs /\ SortedCompile(gs, t.source) /\ c \in DOMAIN TaskSpecs(gs)
        /\ rules = RulesOf(gs, c)
    BY Zenon DEF WellBuilt
  <1>2. Len(gs) \in Nat /\ DOMAIN gs = 1 .. Len(gs) /\ \A g \in DOMAIN gs : gs[g].precedence \in Nat
    BY Zenon, <1>1, TableGroups
  <1>3. G \subseteq DOMAIN gs
    BY Zenon, <1>1, <1>2, TaskSpecsFacts
  <1>4. \A r : r \in rules <=> \E g \in G : \E f \in DOMAIN gs[g].filters : r = RuleOf(gs, g, f)
    BY <1>1 DEF RulesOf, RuleOf
  <1>5. K = IF matching = {} THEN {0} ELSE {r.userdata : r \in best}
    BY Zenon DEF AclClassify
  <1> HIDE DEF rules, G, gs
  <1>6. \A r \in matching : \E g \in G : \E f \in DOMAIN gs[g].filters :
            r = RuleOf(gs, g, f) /\ AclRuleMatches(RuleOf(gs, g, f), p) /\ Hit(gs, g, p)
    BY <1>4 DEF Hit
  <1>7. \A g \in G : Hit(gs, g, p) => \E f \in DOMAIN gs[g].filters : RuleOf(gs, g, f) \in matching
    BY Zenon, <1>4 DEF Hit
  <1>8. \A g \in G : gs[g].precedence \in Nat
    BY Zenon, <1>2, <1>3
  <1>9. ASSUME \A g \in G : ~Hit(gs, g, p) PROVE K = {0}
    BY Zenon, <1>5, <1>6, <1>9
  <1>10. ASSUME NEW g1 \in G, Hit(gs, g1, p) PROVE best # {}
    <2> DEFINE T == {gs[g].precedence : g \in {h \in G : Hit(gs, h, p)}}
    <2>1. T \in SUBSET Nat /\ T # {}
      BY Zenon, <1>8, <1>10
    <2>2. PICK m \in T : \A k \in T : m <= k
      <3> HIDE DEF T
      <3> QED BY Zenon, <2>1, NatMin
    <2>3. PICK g \in G : Hit(gs, g, p) /\ m = gs[g].precedence
      BY Zenon, <2>2
    <2>4. PICK f \in DOMAIN gs[g].filters : RuleOf(gs, g, f) \in matching
      BY Zenon, <1>7, <2>3
    <2>5. ASSUME NEW other \in matching PROVE other.priority <= RuleOf(gs, g, f).priority
      <3>1. PICK h \in G : \E e \in DOMAIN gs[h].filters : other = RuleOf(gs, h, e) /\ Hit(gs, h, p)
        BY Zenon, <1>6
      <3>2. other.priority = -gs[h].precedence /\ RuleOf(gs, g, f).priority = -gs[g].precedence
        BY SMTT(60), <3>1, RuleFields
      <3>3. gs[g].precedence <= gs[h].precedence
        BY Zenon, <2>2, <2>3, <3>1
      <3> QED BY <1>8, <3>2, <3>3
    <2> QED BY Zenon, <2>4, <2>5
  <1>11. ASSUME NEW r \in best
         PROVE  \E g \in G : Best(gs, G, p, g) /\ Accept(t, r.userdata, p) = gs[g]
    <2>1. PICK g \in G : \E e \in DOMAIN gs[g].filters :
              r = RuleOf(gs, g, e) /\ AclRuleMatches(RuleOf(gs, g, e), p) /\ Hit(gs, g, p)
      BY Zenon, <1>6
    <2>2. PICK f \in DOMAIN gs[g].filters :
              r = RuleOf(gs, g, f) /\ AclRuleMatches(RuleOf(gs, g, f), p) /\ Hit(gs, g, p)
      BY Zenon, <2>1
    <2>3. Accept(t, r.userdata, p) = gs[g]
      BY Zenon, <1>3, <2>2, RuleAccepted DEF gs
    <2>4. ASSUME NEW h \in G, Hit(gs, h, p) PROVE gs[g].precedence <= gs[h].precedence
      <3>1. PICK e \in DOMAIN gs[h].filters : RuleOf(gs, h, e) \in matching
        BY Zenon, <1>7, <2>4
      <3>2. RuleOf(gs, h, e).priority <= r.priority
        BY Zenon, <3>1
      <3>3. RuleOf(gs, h, e).priority = -gs[h].precedence /\ r.priority = -gs[g].precedence
        BY Zenon, <2>2, RuleFields
      <3> QED BY <1>8, <3>2, <3>3
    <2> QED BY Zenon, <2>2, <2>3, <2>4 DEF Best
  <1> HIDE DEF best
  <1>12. ASSUME \E g \in G : Hit(gs, g, p)
         PROVE  /\ K # {}
                /\ \A u \in K : \E g \in G : Best(gs, G, p, g) /\ Accept(t, u, p) = gs[g]
    <2>1. matching # {} /\ best # {}
      BY Zenon, <1>7, <1>10, <1>12
    <2>2. K = {r.userdata : r \in best}
      BY Zenon, <1>5, <2>1
    <2> HIDE DEF K
    <2> QED BY Zenon, <1>11, <2>1, <2>2
  <1> QED BY Zenon, <1>9, <1>12 DEF K, G, gs, rules

-----------------------------------------------------------------------------
(* Match: the chunks one after the other.                                   *)

\* The results of chunk c, if the later chunks give rest.
ChunkThen(t, p, c, rest) ==
    UNION {IF Accept(t, u, p) = None THEN rest ELSE {Accept(t, u, p)} :
              u \in AclClassify(t.chunks[c].rules, p)}

\* The function Match defines, from chunk low on.
Results(e, t, p, low) ==
    e = [c \in low .. Len(t.chunks) + 1 |->
            IF c > Len(t.chunks) THEN {None} ELSE ChunkThen(t, p, c, e[c + 1])]

LEMMA MatchUnfolds ==
  ASSUME NEW t, NEW p
  PROVE  Match(t, p) = (CHOOSE e : Results(e, t, p, 1))[1]
  BY Zenon DEF Match, Results, ChunkThen

LEMMA ResultsExist ==
  ASSUME NEW t, NEW p, Len(t.chunks) \in Nat
  PROVE  \E e : Results(e, t, p, 1)
  <1>0. PICK n \in Nat : n = Len(t.chunks)
    BY Zenon
  <1> DEFINE G == {k \in Nat : k <= n => \E e : Results(e, t, p, n + 1 - k)}
  <1>1. 0 \in G
    <2> DEFINE e == [c \in n + 1 .. n + 1 |-> {None}]
    <2>1. e = [c \in n + 1 .. n + 1 |-> IF c > n THEN {None} ELSE ChunkThen(t, p, c, e[c + 1])]
      OBVIOUS
    <2> HIDE DEF e
    <2>2. Results(e, t, p, n + 1)
      BY Zenon, <1>0, <2>1 DEF Results
    <2>3. n + 1 - 0 = n + 1
      OBVIOUS
    <2> QED BY Zenon, <2>2, <2>3
  <1>2. ASSUME NEW k \in Nat, k \in G PROVE k + 1 \in G
    <2> SUFFICES ASSUME k + 1 <= n PROVE \E d : Results(d, t, p, n + 1 - (k + 1))
      OBVIOUS
    <2>1. PICK e : Results(e, t, p, n + 1 - k)
      BY <1>2
    <2>2. PICK low \in Nat : low = n + 1 - (k + 1) /\ low + 1 = n + 1 - k /\ low <= n
      OBVIOUS
    <2>3. \A c \in low + 1 .. n + 1 : e[c] = IF c > n THEN {None} ELSE ChunkThen(t, p, c, e[c + 1])
      BY Zenon, <1>0, <2>1, <2>2 DEF Results
    <2> DEFINE d == [c \in low .. n + 1 |-> IF c = low THEN ChunkThen(t, p, low, e[low + 1]) ELSE e[c]]
    <2>4. \A c \in low .. n + 1 : d[c] = IF c > n THEN {None} ELSE ChunkThen(t, p, c, d[c + 1])
      <3> TAKE c \in low .. n + 1
      <3>1. CASE c = low
        <4>1. d[c + 1] = e[low + 1] /\ d[c] = ChunkThen(t, p, low, e[low + 1]) /\ ~(c > n)
          BY <2>2, <3>1
        <4> HIDE DEF d
        <4> QED BY Zenon, <3>1, <4>1
      <3>2. CASE c \in low + 1 .. n
        <4>1. d[c + 1] = e[c + 1] /\ d[c] = e[c] /\ ~(c > n) /\ c \in low + 1 .. n + 1
          BY <3>2
        <4> HIDE DEF d
        <4> QED BY Zenon, <2>3, <4>1
      <3>3. CASE c = n + 1
        <4>1. d[c] = e[c] /\ c > n /\ c \in low + 1 .. n + 1
          BY <2>2, <3>3
        <4> HIDE DEF d
        <4> QED BY Zenon, <2>3, <4>1
      <3> QED BY SMTT(60), <3>1, <3>2, <3>3
    <2>5. d = [c \in low .. n + 1 |-> d[c]]
      BY Zenon
    <2> HIDE DEF d
    <2>6. Results(d, t, p, low)
      BY Zenon, <1>0, <2>4, <2>5 DEF Results
    <2> QED BY Zenon, <2>2, <2>6
  <1>3. Nat \subseteq G
    <2> HIDE DEF G
    <2> QED BY Zenon, <1>1, <1>2, NatIsInductive
  <1>4. n \in G /\ n + 1 - n = 1
    BY <1>3
  <1> QED BY <1>4

\* The groups of the chunks from c on.
Later(t, c) == UNION {TaskSpecs(t.groups)[d] : d \in c .. Len(t.chunks)}

\* Results that are right for a set of groups: none if no group has a rule for
\* the packet, otherwise only groups of the smallest precedence.
RightResults(t, p, G, results) ==
    /\ (\A g \in G : ~Hit(t.groups, g, p)) => results = {None}
    /\ (\E g \in G : Hit(t.groups, g, p)) =>
          /\ results # {}
          /\ \A r \in results : \E g \in G : Best(t.groups, G, p, g) /\ r = t.groups[g]

LEMMA ChunkThenRight ==
  ASSUME NEW t, WellBuilt(t), NEW p \in Packets, NEW c \in DOMAIN t.chunks,
         NEW rest, RightResults(t, p, Later(t, c + 1), rest)
  PROVE  RightResults(t, p, Later(t, c), ChunkThen(t, p, c, rest))
  <1> DEFINE gs == t.groups
             n == Len(t.chunks)
             G == TaskSpecs(gs)[c]
             L == Later(t, c + 1)
             K == AclClassify(t.chunks[c].rules, p)
             res == ChunkThen(t, p, c, rest)
  <1>1. /\ t.source \in Configs /\ SortedCompile(gs, t.source)
        /\ DOMAIN TaskSpecs(gs) = 1 .. n /\ n \in Nat /\ c \in 1 .. n
    BY Zenon DEF WellBuilt
  <1>2. /\ Len(gs) \in Nat /\ DOMAIN gs = 1 .. Len(gs)
        /\ \A g \in DOMAIN gs : gs[g] # None /\ gs[g].precedence \in Nat
        /\ \A g, h \in DOMAIN gs : g <= h => gs[g].precedence <= gs[h].precedence
    BY Zenon, <1>1, TableGroups DEF SortedCompile
  <1>3. Later(t, c) = G \cup L
    <2>1. c .. n = {c} \cup (c + 1 .. n)
      BY SMTT(60), <1>1
    <2> HIDE DEF n
    <2> QED BY Zenon, <2>1 DEF Later, n
  <1>4. /\ \A d \in 1 .. n : TaskSpecs(gs)[d] \subseteq DOMAIN gs
        /\ \A d \in 1 .. n : c < d => \A g \in G, h \in TaskSpecs(gs)[d] : g < h
    BY Zenon, <1>1, <1>2, TaskSpecsFacts
  <1>5. G \subseteq DOMAIN gs /\ L \subseteq DOMAIN gs
    <2>1. c + 1 .. n \subseteq 1 .. n
      BY SMTT(60), <1>1
    <2> QED BY Zenon, <1>1, <1>4, <2>1 DEF Later
  <1>6. \A g \in G, h \in L : gs[g].precedence <= gs[h].precedence
    <2> TAKE g \in G, h \in L
    <2>1. PICK d \in c + 1 .. n : h \in TaskSpecs(gs)[d]
      BY Zenon DEF Later
    <2>2. d \in 1 .. n /\ c < d
      BY <1>1
    <2>3. g < h
      BY Zenon, <1>4, <2>1, <2>2
    <2>4. g \in DOMAIN gs /\ h \in DOMAIN gs /\ g <= h
      BY <1>2, <1>5, <2>3
    <2> QED BY Zenon, <1>2, <2>4
  <1>7. /\ (\A g \in G : ~Hit(gs, g, p)) => K = {0}
        /\ (\E g \in G : Hit(gs, g, p)) =>
              /\ K # {}
              /\ \A u \in K : \E g \in G : Best(gs, G, p, g) /\ Accept(t, u, p) = gs[g]
    BY Zenon, ChunkResult
  <1>8. res = UNION {IF Accept(t, u, p) = None THEN rest ELSE {Accept(t, u, p)} : u \in K}
    BY Zenon DEF ChunkThen
  <1>9. /\ (\A g \in L : ~Hit(gs, g, p)) => rest = {None}
        /\ (\E g \in L : Hit(gs, g, p)) =>
              rest # {} /\ \A r \in rest : \E g \in L : Best(gs, L, p, g) /\ r = gs[g]
    BY Zenon DEF RightResults
  <1> HIDE DEF gs, G, L, K, res
  <1>10. CASE \A g \in G : ~Hit(gs, g, p)
    <2>1. res = rest
      <3>1. Accept(t, 0, p) = None
        BY Zenon DEF Accept
      <3> QED BY Zenon, <1>7, <1>8, <1>10, <3>1
    <2>2. \A g \in L : Best(gs, L, p, g) => Best(gs, G \cup L, p, g)
      BY Zenon, <1>10 DEF Best
    <2>3. RightResults(t, p, G \cup L, res)
      BY Zenon, <1>9, <1>10, <2>1, <2>2 DEF RightResults, gs
    <2> QED BY Zenon, <1>3, <2>3 DEF res
  <1>11. CASE \E g \in G : Hit(gs, g, p)
    <2>1. \A u \in K : \E g \in G : Best(gs, G, p, g) /\ Accept(t, u, p) = gs[g] /\ gs[g] # None
      BY Zenon, <1>2, <1>5, <1>7, <1>11
    <2>2. res # {} /\ \A r \in res : \E g \in G : Best(gs, G, p, g) /\ r = gs[g]
      <3>1. res = {Accept(t, u, p) : u \in K}
        BY Zenon, <1>8, <2>1
      <3> QED BY Zenon, <1>7, <1>11, <2>1, <3>1
    <2>3. \A g \in G : Best(gs, G, p, g) => Best(gs, G \cup L, p, g)
      BY Zenon, <1>6 DEF Best
    <2>4. RightResults(t, p, G \cup L, res)
      BY Zenon, <1>11, <2>2, <2>3 DEF RightResults, gs
    <2> QED BY Zenon, <1>3, <2>4 DEF res
  <1> QED BY Zenon, <1>10, <1>11

LEMMA MatchRight ==
  ASSUME NEW t, WellBuilt(t), NEW p \in Packets
  PROVE  RightResults(t, p, DOMAIN t.groups, Match(t, p))
  <1> DEFINE gs == t.groups
             e == CHOOSE e : Results(e, t, p, 1)
  <1>1. /\ t.source \in Configs /\ SortedCompile(gs, t.source)
        /\ DOMAIN TaskSpecs(gs) = 1 .. Len(t.chunks) /\ Len(t.chunks) \in Nat
        /\ DOMAIN t.chunks = 1 .. Len(t.chunks)
    BY Zenon DEF WellBuilt
  <1>2. PICK n \in Nat : n = Len(t.chunks)
    BY Zenon, <1>1
  <1>3. Results(e, t, p, 1)
    BY Zenon, <1>1, ResultsExist
  <1> HIDE DEF e
  <1>4. \A c \in 1 .. n + 1 : e[c] = IF c > n THEN {None} ELSE ChunkThen(t, p, c, e[c + 1])
    BY Zenon, <1>2, <1>3 DEF Results
  <1> DEFINE S == {k \in Nat : k <= n => RightResults(t, p, Later(t, n + 1 - k), e[n + 1 - k])}
  <1>5. 0 \in S
    <2>1. Later(t, n + 1) = {}
      BY <1>2 DEF Later
    <2>2. e[n + 1] = {None}
      BY <1>4
    <2>3. RightResults(t, p, Later(t, n + 1), e[n + 1])
      BY Zenon, <2>1, <2>2 DEF RightResults
    <2>4. n + 1 - 0 = n + 1
      OBVIOUS
    <2> QED BY Zenon, <2>3, <2>4
  <1>6. ASSUME NEW k \in Nat, k \in S PROVE k + 1 \in S
    <2> SUFFICES ASSUME k + 1 <= n
                 PROVE  RightResults(t, p, Later(t, n + 1 - (k + 1)), e[n + 1 - (k + 1)])
      OBVIOUS
    <2>1. PICK c \in 1 .. n : c = n + 1 - (k + 1) /\ c + 1 = n + 1 - k
      OBVIOUS
    <2>2. RightResults(t, p, Later(t, c + 1), e[c + 1])
      BY <1>6, <2>1
    <2>3. e[c] = ChunkThen(t, p, c, e[c + 1]) /\ c \in DOMAIN t.chunks
      BY <1>1, <1>2, <1>4
    <2>4. RightResults(t, p, Later(t, c), e[c])
      BY Zenon, <2>2, <2>3, ChunkThenRight
    <2> QED BY Zenon, <2>1, <2>4
  <1>7. Nat \subseteq S
    <2> HIDE DEF S
    <2> QED BY Zenon, <1>5, <1>6, NatIsInductive
  <1>8. RightResults(t, p, Later(t, 1), Match(t, p))
    <2>1. n \in S /\ n + 1 - n = 1
      BY <1>7
    <2> QED BY SMTT(60), <2>1, MatchUnfolds DEF e
  <1>9. Len(gs) \in Nat /\ DOMAIN gs = 1 .. Len(gs)
    BY Zenon, <1>1, TableGroups
  <1>10. Later(t, 1) \subseteq DOMAIN gs
    BY Zenon, <1>1, <1>9, TaskSpecsFacts DEF Later
  <1>11. ASSUME NEW g \in DOMAIN gs, Hit(gs, g, p) PROVE g \in Later(t, 1)
    <2>1. gs[g].filters # <<>>
      BY <1>11 DEF Hit
    <2>2. \E c \in DOMAIN TaskSpecs(gs) : g \in TaskSpecs(gs)[c]
      BY Zenon, <1>9, <2>1, TaskSpecsFacts
    <2> QED BY Zenon, <1>1, <2>2 DEF Later
  <1>12. \A g \in Later(t, 1) : Best(gs, Later(t, 1), p, g) => Best(gs, DOMAIN gs, p, g)
    BY Zenon, <1>10, <1>11 DEF Best
  <1> QED BY Zenon, <1>8, <1>10, <1>11, <1>12 DEF RightResults

\* A group has a rule for the packet exactly if its configuration covers it.
LEMMA HitMeansCovered ==
  ASSUME NEW c \in Configs, NEW gs, SortedCompile(gs, c), NEW p \in Packets,
         NEW g \in DOMAIN gs, NEW h \in DOMAIN c, gs[g] = CompileGroup(c[h])
  PROVE  /\ Hit(gs, g, p) <=> \E f \in Range(c[h].filters) : Covers(f, p)
         /\ gs[g].name = c[h].name /\ gs[g].precedence = c[h].precedence
         /\ gs[g].precedence \in Nat
  <1>1. IsGroup(c[h])
    BY Zenon, ConfigFacts
  <1>2. /\ gs[g].name = c[h].name /\ gs[g].precedence = c[h].precedence
        /\ DOMAIN gs[g].filters = DOMAIN c[h].filters
        /\ \A f \in DOMAIN c[h].filters : gs[g].filters[f] = CompileFilter(c[h].filters[f])
    BY <1>1, CompiledGroup
  <1>3. \A f \in DOMAIN c[h].filters : IsFilter(c[h].filters[f]) /\ Compiles(c[h].filters[f])
    BY Zenon, <1>1, GroupFacts DEF SortedCompile, Range
  <1>4. \A f \in DOMAIN c[h].filters :
            AclRuleMatches(RuleOf(gs, g, f), p) <=> Covers(c[h].filters[f], p)
    BY Zenon, <1>2, <1>3, RuleMeansFilter DEF RuleOf
  <1>5. Hit(gs, g, p) <=> \E f \in DOMAIN c[h].filters : Covers(c[h].filters[f], p)
    BY Zenon, <1>2, <1>4 DEF Hit
  <1> QED BY Zenon, <1>1, <1>2, <1>5, GroupFacts DEF Range

\* Match on a finished table gives what the configuration prefers.
LEMMA MatchPreferred ==
  ASSUME NEW t, WellBuilt(t), NEW p \in Packets
  PROVE  /\ NamesOf(Match(t, p)) \subseteq Preferred(t.source, p)
         /\ None \in Match(t, p) <=> Preferred(t.source, p) = {}
  <1> DEFINE gs == t.groups
             c == t.source
             res == Match(t, p)
             covering == {h \in DOMAIN c : \E f \in Range(c[h].filters) : Covers(f, p)}
             first == {h \in covering : \A h2 \in covering : c[h].precedence <= c[h2].precedence}
  <1>1. c \in Configs /\ SortedCompile(gs, c)
    BY Zenon DEF WellBuilt
  <1>2. RightResults(t, p, DOMAIN gs, res)
    BY Zenon, MatchRight
  <1>3. Preferred(c, p) = {c[h].name : h \in first}
    BY Zenon DEF Preferred
  <1>4. \A g \in DOMAIN gs : \E h \in DOMAIN c : gs[g] = CompileGroup(c[h])
    BY Zenon, <1>1 DEF SortedCompile
  <1>5. \A h \in DOMAIN c : \E g \in DOMAIN gs : gs[g] = CompileGroup(c[h])
    BY Zenon, <1>1 DEF SortedCompile
  <1> HIDE DEF gs, c, res
  <1>6. \A g \in DOMAIN gs, h \in DOMAIN c : gs[g] = CompileGroup(c[h]) =>
            /\ Hit(gs, g, p) <=> h \in covering
            /\ gs[g].name = c[h].name /\ gs[g].precedence = c[h].precedence
    BY SMTT(60), <1>1, HitMeansCovered
  <1> HIDE DEF covering
  <1>7. ASSUME NEW g \in DOMAIN gs, Best(gs, DOMAIN gs, p, g) PROVE gs[g].name \in Preferred(c, p)
    <2>1. PICK h \in DOMAIN c : gs[g] = CompileGroup(c[h])
      BY Zenon, <1>4
    <2>2. h \in covering /\ gs[g].name = c[h].name /\ gs[g].precedence = c[h].precedence
      BY Zenon, <1>6, <1>7, <2>1 DEF Best
    <2>3. ASSUME NEW h2 \in covering PROVE c[h].precedence <= c[h2].precedence
      <3>1. h2 \in DOMAIN c
        BY Zenon DEF covering
      <3>2. PICK g2 \in DOMAIN gs : gs[g2] = CompileGroup(c[h2])
        BY Zenon, <1>5, <3>1
      <3>3. Hit(gs, g2, p) /\ gs[g2].precedence = c[h2].precedence
        BY Zenon, <1>6, <3>1, <3>2
      <3> QED BY Zenon, <1>7, <2>2, <3>3 DEF Best
    <2> QED BY Zenon, <1>3, <2>2, <2>3
  <1>8. CASE \A g \in DOMAIN gs : ~Hit(gs, g, p)
    <2>1. res = {None}
      BY Zenon, <1>2, <1>8 DEF RightResults, gs
    <2>2. covering = {}
      BY Zenon, <1>5, <1>6, <1>8 DEF covering
    <2>3. Preferred(c, p) = {} /\ NamesOf(res) = {}
      BY Zenon, <1>3, <2>1, <2>2 DEF NamesOf
    <2> QED BY Zenon, <2>1, <2>3 DEF c, res
  <1>9. CASE \E g \in DOMAIN gs : Hit(gs, g, p)
    <2>1. res # {} /\ \A r \in res : \E g \in DOMAIN gs : Best(gs, DOMAIN gs, p, g) /\ r = gs[g]
      BY Zenon, <1>2, <1>9 DEF RightResults, gs
    <2>2. NamesOf(res) \subseteq Preferred(c, p)
      BY <1>7, <2>1 DEF NamesOf
    <2>3. None \notin res
      BY SMTT(60), <1>1, <2>1, TableGroups
    <2>4. Preferred(c, p) # {}
      BY Zenon, <1>7, <2>1
    <2> QED BY Zenon, <2>2, <2>3, <2>4 DEF c, res
  <1> QED BY Zenon, <1>8, <1>9

-----------------------------------------------------------------------------
(* The bulk path of a burst.                                                *)

LEMMA CompiledCidr ==
  ASSUME NEW filter, IsFilter(filter), IsCidr(filter.destination)
  PROVE  /\ IsCidr(CompileFilter(filter).destination)
         /\ CompileFilter(filter).destination.ip
              = Network(filter.destination.ip, filter.destination.length)
         /\ CompileFilter(filter).destination.length = filter.destination.length
  <1> DEFINE cf == CompileFilter(filter)
             d == filter.destination
  <1>1. d.length \in 0 .. AddressBits /\ d.length \in Nat /\ d.ip \in Nat /\ d.length # None
    BY AddressFacts DEF IsFilter, IsAddress, IsCidr
  <1>2. Network(d.ip, d.length) \in Nat
    BY Zenon, <1>1, NetworkFacts
  <1>3. cf.destination = [ip |-> Network(d.ip, d.length), length |-> d.length]
    BY Zenon, CompiledFilter
  <1> HIDE DEF cf
  <1>4. cf.destination \in [ip : Nat, length : Nat] /\ cf.destination.length = d.length
        /\ cf.destination.ip = Network(d.ip, d.length)
    BY <1>1, <1>2, <1>3
  <1>5. IsCidr(cf.destination)
    BY Zenon, <1>1, <1>4, EngineAssumption DEF IsCidr
  <1> QED BY Zenon, <1>4, <1>5 DEF cf

\* Every packet a listed filter covers has one of the filter's keys.
LEMMA KeyListed ==
  ASSUME NEW filter, IsFilter(filter), NEW p \in Packets, Covers(filter, p), NEW gs,
         CompileFilter(filter) \in ListableFilters(gs)
  PROVE  \/ MemberKey(p.destination, p.destination_port, p.protocol) \in MemberKeys(gs)
         \/ MemberKey(p.destination, None, p.protocol) \in MemberKeys(gs)
  <1> DEFINE cf == CompileFilter(filter)
             d == filter.destination
             size == IF IsCidr(cf.destination) THEN HostCount(cf.destination.length) ELSE 1
             key == MemberKey(p.destination, cf.destination_port, cf.protocol)
  <1>1. p.destination \in Addresses /\ p.destination \in Int
    <2>1. p.destination \in Addresses
      BY Zenon, ConfigAssumption
    <2>2. Addresses \subseteq Int
      BY AddressFacts
    <2> QED BY Zenon, <2>1, <2>2
  <1>2. /\ cf.protocol = p.protocol /\ cf.destination_port \in {None, p.destination_port}
        /\ Within(d, p.destination)
    BY Zenon, CompiledFilter DEF Covers, Within
  <1>3. p.destination \in cf.destination.ip .. cf.destination.ip + size - 1
    <2>1. CASE IsCidr(d)
      <3>1. p.destination \in Network(d.ip, d.length) .. Network(d.ip, d.length) + HostCount(d.length) - 1
        BY Zenon, <1>1, <1>2, <2>1, CidrField DEF IsFilter
      <3>2. IsCidr(cf.destination) /\ cf.destination.ip = Network(d.ip, d.length)
            /\ cf.destination.length = d.length
        BY Zenon, <2>1, CompiledCidr
      <3> HIDE DEF cf
      <3> QED BY Zenon, <3>1, <3>2
    <2>2. CASE ~IsCidr(d)
      <3>1. cf.destination = d
        BY Zenon, <2>2, CompiledFilter
      <3>2. IsPlain(d)
        BY Zenon, <2>2, <3>1 DEF ListableFilters, Listable
      <3>3. p.destination = d.ip
        BY Zenon, <1>2, <2>2, <3>2 DEF Within, IsPlain
      <3>4. size = 1
        BY Zenon, <2>2, <3>1
      <3>5. cf.destination.ip = p.destination
        BY Zenon, <3>1, <3>3
      <3> HIDE DEF size, cf
      <3> QED BY SMTT(60), <1>1, <3>4, <3>5
    <2> QED BY Zenon, <2>1, <2>2
  <1>4. key \in MemberKeys(gs)
    <2>1. cf \in ListableFilters(gs)
      BY Zenon
    <2> HIDE DEF cf
    <2> QED BY <1>3, <2>1 DEF MemberKeys
  <1> HIDE DEF cf
  <1> QED BY Zenon, <1>2, <1>4

\* "Returns true in skip_acl[i] if packet i definitely does NOT match".
LEMMA SkipSound ==
  ASSUME NEW t, WellBuilt(t), NEW p \in Packets, p.ip_version = 4, ~HasWildcardRules(t.groups),
         t.member \in {None, MemberKeys(t.groups)}, SkipAcl(t, p)
  PROVE  Match(t, p) = {None}
  <1> DEFINE gs == t.groups
             c == t.source
  <1>1. c \in Configs /\ SortedCompile(gs, c)
    BY Zenon DEF WellBuilt
  <1>2. /\ MemberKey(p.destination, p.destination_port, p.protocol) \notin MemberKeys(gs)
        /\ MemberKey(p.destination, None, p.protocol) \notin MemberKeys(gs)
    BY Zenon DEF SkipAcl
  <1>3. ASSUME NEW g \in DOMAIN gs, Hit(gs, g, p) PROVE FALSE
    <2>1. PICK h \in DOMAIN c :
            /\ DOMAIN gs[g].filters = DOMAIN c[h].filters
            /\ \A f \in DOMAIN gs[g].filters :
                    /\ gs[g].filters[f] = CompileFilter(c[h].filters[f])
                    /\ IsFilter(c[h].filters[f]) /\ Compiles(c[h].filters[f])
      BY Zenon, <1>1, TableGroups
    <2>2. PICK f \in DOMAIN gs[g].filters : AclRuleMatches(RuleOf(gs, g, f), p)
      BY Zenon, <1>3 DEF Hit
    <2> DEFINE filter == c[h].filters[f]
    <2>3. gs[g].filters[f] = CompileFilter(filter) /\ IsFilter(filter) /\ Compiles(filter)
      BY Zenon, <2>1
    <2>4. Covers(filter, p)
      BY Zenon, <2>2, <2>3, RuleMeansFilter DEF RuleOf
    <2>5. CompileFilter(filter) \in Filters(gs)
      BY SMTT(60), <2>3 DEF Filters, Range
    <2>6. CompileFilter(filter) \in ListableFilters(gs)
      BY Zenon, <2>5 DEF HasWildcardRules, ListableFilters
    <2> HIDE DEF filter
    <2> QED BY Zenon, <1>2, <2>3, <2>4, <2>6, KeyListed
  <1>4. RightResults(t, p, DOMAIN gs, Match(t, p))
    BY Zenon, MatchRight
  <1> QED BY Zenon, <1>3, <1>4 DEF RightResults

\* A packet of the burst that is not skipped gets the result of its own
\* lookup, wherever compaction has put it.
LEMMA MissResult ==
  ASSUME NEW t, NEW n \in Nat, NEW packets \in [1 .. n -> Packets], NEW i \in 1 .. n, i <= BulkMax
  PROVE  ClassifyMisses(t, packets)[i] =
             IF SkipAcl(t, packets[i]) THEN {None} ELSE Match(t, packets[i])
  <1> DEFINE skip == {j \in DOMAIN packets : j <= BulkMax /\ SkipAcl(t, packets[j])}
             U == DOMAIN packets \ skip
             Rank(j) == Cardinality((1 .. j) \ skip)
             left == [r \in 1 .. Cardinality(U) |-> packets[CHOOSE j \in U : Rank(j) = r]]
  <1>0. BulkMax \in Nat
    BY Zenon, EngineAssumption
  <1>1. DOMAIN packets = 1 .. n /\ U \in SUBSET (1 .. n)
    BY Zenon
  <1>2. ClassifyMisses(t, packets)[i] =
            IF i \in skip THEN {None} ELSE MatchBulk(t, left)[Rank(i)]
    BY Zenon DEF ClassifyMisses
  <1>3. i \in skip <=> SkipAcl(t, packets[i])
    BY Zenon
  <1>4. CASE i \in skip
    BY Zenon, <1>2, <1>3, <1>4
  <1>5. CASE i \notin skip
    <2>1. i \in U
      BY Zenon, <1>5
    <2>2. U \in SUBSET Nat /\ IsFiniteSet(U)
      <3>1. IsFiniteSet(1 .. n)
        BY FS_Interval
      <3> HIDE DEF U
      <3>2. IsFiniteSet(U)
        BY Zenon, <1>1, <3>1, FS_Subset
      <3>3. U \in SUBSET Nat
        BY <1>1
      <3> QED BY Zenon, <3>2, <3>3
    <2>3. \A j \in U : Rank(j) = RankIn(U, j)
      <3> TAKE j \in U
      <3>1. (1 .. j) \ skip = {d \in U : d <= j}
        BY <1>1
      <3> HIDE DEF U, skip
      <3> QED BY Zenon, <3>1 DEF RankIn
    <2>4. IsFiniteSet(1 .. i) /\ Cardinality(1 .. i) = i /\ (1 .. i) \ skip \in SUBSET (1 .. i)
      BY FS_Interval
    <2>5. Rank(i) <= i
      <3> HIDE DEF skip
      <3> QED BY <2>4, FS_Subset
    <2> HIDE DEF U, Rank, left
    <2>6. /\ \A j \in U : RankIn(U, j) \in 1 .. Cardinality(U)
          /\ \A j, k \in U : j < k => RankIn(U, j) < RankIn(U, k)
      BY Zenon, <2>2, RankFacts
    <2>7. Rank(i) \in 1 .. Cardinality(U) /\ Cardinality(U) \in Nat
      BY Zenon, <2>1, <2>2, <2>3, <2>6, FS_CardinalityType
    <2>8. \A j \in U : Rank(j) = Rank(i) => j = i
      <3> SUFFICES ASSUME NEW j \in U, Rank(j) = Rank(i), j # i PROVE FALSE
        BY Zenon
      <3>1. j < i \/ i < j
        BY <2>1, <2>2
      <3>2. RankIn(U, j) = RankIn(U, i) /\ RankIn(U, i) \in Int
        BY <2>1, <2>3, <2>6
      <3> QED BY <2>1, <2>6, <3>1, <3>2
    <2>9. (CHOOSE j \in U : Rank(j) = Rank(i)) = i
      BY Zenon, <2>1, <2>8
    <2>10. DOMAIN left = 1 .. Cardinality(U) /\ left[Rank(i)] = packets[i]
      BY Zenon, <2>7, <2>9 DEF left
    <2>11. Rank(i) <= BulkMax
      BY <1>0, <2>5, <2>7
    <2>12. MatchBulk(t, left)[Rank(i)] = Match(t, packets[i])
      BY Zenon, <2>7, <2>10, <2>11 DEF MatchBulk
    <2> QED BY Zenon, <1>2, <1>3, <1>5, <2>12 DEF Rank, left, U
  <1> QED BY Zenon, <1>4, <1>5

-----------------------------------------------------------------------------
(* The theorems.                                                            *)

LEMMA TablesStep ==
  ASSUME Stages, Tables, [Next]_vars
  PROVE  Tables'
  <1>1. CASE Publish
    <2>1. active' = table /\ WellBuilt(table)
      BY Zenon, <1>1 DEF Publish, Stages
    <2> QED BY Zenon, <2>1 DEF Tables
  <1>2. CASE ~Publish
    <2>1. active' = active
      BY Zenon, <1>2 DEF Next, vars, manager, Compile, FinishParse, CollectBatch, BuildIndexes, Discard,
                  ClassifyBurst, ParseFails, ParseGroup, BuildChunk
    <2> QED BY Zenon, <2>1 DEF Tables
  <1> QED BY Zenon, <1>1, <1>2

LEMMA EmptyBurst ==
  ASSUME burst = <<>>
  PROVE  Bursts
  <1>1. Len(burst) = 0 /\ DOMAIN burst = {} /\ 1 .. 0 = {} /\ MaxBurst \in Nat
    BY ConfigAssumption
  <1> QED BY <1>1 DEF Bursts, BulkAgreesWithMatch

LEMMA ClassifyBurstBursts ==
  ASSUME Tables, ClassifyBurst
  PROVE  Bursts'
  <1>1. PICK n \in 1 .. MaxBurst : \E packets \in [1 .. n -> Packets] :
            burst' = [i \in 1 .. n |-> [packet |-> packets[i],
                                        results |-> ClassifyMisses(active, packets)[i]]]
    BY Zenon DEF ClassifyBurst
  <1>2. PICK packets \in [1 .. n -> Packets] :
            burst' = [i \in 1 .. n |-> [packet |-> packets[i],
                                        results |-> ClassifyMisses(active, packets)[i]]]
    BY Zenon, <1>1
  <1>3. WellBuilt(active) /\ active' = active
    BY Zenon DEF ClassifyBurst, Tables, manager
  <1>4. n \in Nat /\ n <= MaxBurst /\ MaxBurst \in Nat
    BY ConfigAssumption
  <1>5. DOMAIN burst' = 1 .. n /\ Len(burst') = n
    BY <1>2, <1>4
  <1>6. ASSUME NEW i \in 1 .. n, i <= BulkMax, burst'[i].packet.ip_version = 4,
               ~HasWildcardRules(active.groups), active.member \in {None, MemberKeys(active.groups)}
        PROVE  burst'[i].results = Match(active, burst'[i].packet)
    <2>1. burst'[i].packet = packets[i] /\ burst'[i].results = ClassifyMisses(active, packets)[i]
      BY Zenon, <1>2
    <2>2. burst'[i].results = IF SkipAcl(active, packets[i]) THEN {None} ELSE Match(active, packets[i])
      BY Zenon, <1>4, <1>6, <2>1, MissResult
    <2>3. packets[i] \in Packets
      BY Zenon, <1>4
    <2>4. SkipAcl(active, packets[i]) => Match(active, packets[i]) = {None}
      BY Zenon, <1>3, <1>6, <2>1, <2>3, SkipSound
    <2> QED BY Zenon, <2>1, <2>2, <2>4
  <1>7. BulkAgreesWithMatch'
    BY Zenon, <1>3, <1>5, <1>6 DEF BulkAgreesWithMatch
  <1> QED BY <1>4, <1>5, <1>7 DEF Bursts

LEMMA BurstsStep ==
  ASSUME Phases, Tables, Bursts, [Next]_vars
  PROVE  Bursts'
  <1>1. CASE ClassifyBurst
    BY Zenon, <1>1, ClassifyBurstBursts
  <1>2. CASE UNCHANGED vars
    BY Zenon, <1>2 DEF vars, manager, Bursts, BulkAgreesWithMatch
  <1>3. CASE Next /\ ~ClassifyBurst
    <2>1. ASSUME FinishParse \/ CollectBatch \/ BuildIndexes \/ Publish \/ Discard
          PROVE  phase # "idle" /\ burst' = burst
      <3>1. CASE FinishParse
        BY Zenon, <3>1 DEF FinishParse
      <3>2. CASE CollectBatch
        BY Zenon, <3>2 DEF CollectBatch
      <3>3. CASE BuildIndexes
        BY Zenon, <3>3 DEF BuildIndexes
      <3>4. CASE Publish \/ Discard
        BY Zenon, <3>4 DEF Publish, Discard
      <3> QED BY Zenon, <2>1, <3>1, <3>2, <3>3, <3>4
    <2>2. ASSUME NEW w, ParseFails(w) \/ ParseGroup(w) \/ BuildChunk(w)
          PROVE  phase # "idle" /\ burst' = burst
      BY Zenon, <2>2 DEF ParseFails, ParseGroup, BuildChunk
    <2>3. Compile => burst' = <<>>
      BY Zenon DEF Compile
    <2>4. phase # "idle" => burst = <<>>
      BY Zenon DEF Phases
    <2>5. burst' = <<>>
      BY Zenon, <1>3, <2>1, <2>2, <2>3, <2>4 DEF Next
    <2>6. Len(burst') = 0 /\ DOMAIN burst' = {} /\ 1 .. 0 = {} /\ MaxBurst \in Nat
      BY <2>5, ConfigAssumption
    <2> QED BY SMTT(60), <2>6 DEF Bursts, BulkAgreesWithMatch
  <1> QED BY Zenon, <1>1, <1>2, <1>3

LEMMA CompilerInvInit ==
  ASSUME Init
  PROVE  CompilerInv
  <1>1. MaxCompiles \in Nat
    BY Zenon, ConfigAssumption
  <1>2. compiles \in 0 .. MaxCompiles
    BY <1>1 DEF Init
  <1>3. /\ phase = "idle" /\ config = <<>> /\ groups = <<>> /\ pending = <<>> /\ failed = FALSE
        /\ built = <<>> /\ chunks = <<>> /\ table = NoTable /\ active = NoTable
    BY Zenon DEF Init
  <1>4. Phases /\ Stages /\ Tables
    BY Zenon, <1>2, <1>3 DEF Phases, Stages, Tables
  <1>5. Owned(active) = {} /\ Published = {}
    BY Zenon, OwnsNothing DEF Init, Published
  <1>6. Owners /\ Losses
    BY <1>5 DEF Init, Owners, Losses
  <1>7. Bursts
    BY Zenon, EmptyBurst DEF Init
  <1> QED BY Zenon, <1>4, <1>6, <1>7 DEF CompilerInv

LEMMA CompilerInvariant == Spec => []CompilerInv
  <1>1. Init => CompilerInv
    BY Zenon, CompilerInvInit
  <1>2. CompilerInv /\ [Next]_vars => CompilerInv'
    BY Zenon, PhasesStep, StagesStep, ObjectsStep, TablesStep, BurstsStep DEF CompilerInv
  <1> QED BY <1>1, <1>2, PTL DEF Spec

\* The types of the variables.
THEOREM CompilerTypesHold == Spec => []TypeOK
  <1>1. ASSUME CompilerInv PROVE TypeOK
    <2>1. Phases /\ Stages /\ Owners /\ Bursts
      BY Zenon, <1>1 DEF CompilerInv
    <2>2. config \in Configs \cup {<<>>} /\ failed \in BOOLEAN /\ compiles \in 0 .. MaxCompiles
          /\ phase \in {"idle", "parse", "build", "index", "publish"}
      BY Zenon, <2>1 DEF Phases, Stages
    <2>3. DOMAIN groups = DOMAIN config /\ \A w \in DOMAIN pending : pending[w] \subseteq DOMAIN config
      <3>1. CASE phase = "idle"
        BY <2>1, <3>1 DEF Phases
      <3>2. CASE phase = "parse"
        BY Zenon, <2>1, <3>2, RangesPartition DEF Phases, Stages, Parsing
      <3>3. CASE phase \in {"build", "index", "publish"}
        <4>1. Building /\ config \in Configs
          BY Zenon, <2>1, <3>3 DEF Phases, Stages
        <4> QED BY Zenon, <4>1, ConfigFacts DEF Building, SortedCompile
      <3> QED BY Zenon, <2>2, <3>1, <3>2, <3>3
    <2>4. \A c \in DOMAIN built : built[c] \in {"todo", "ok", "failed"}
      <3>1. CASE phase \in {"idle", "parse"}
        BY <2>1, <3>1 DEF Phases
      <3>2. CASE phase \in {"build", "index", "publish"}
        BY Zenon, <2>1, <3>2 DEF Stages, Building
      <3> QED BY Zenon, <2>2, <3>1, <3>2
    <2>5. contexts \subseteq Objects /\ Published \subseteq Objects /\ Owned(table) \subseteq Objects
      <3>1. CASE phase = "publish"
        BY Zenon, <2>1, <3>1 DEF Owners, Current
      <3>2. CASE phase # "publish"
        BY Zenon, <2>1, <3>2, OwnsNothing DEF Owners, Phases
      <3> QED BY Zenon, <3>1, <3>2
    <2>6. Len(burst) <= MaxBurst
      BY <2>1, ConfigAssumption DEF Bursts
    <2> QED BY Zenon, <2>2, <2>3, <2>4, <2>5, <2>6 DEF TypeOK, Published
  <1> QED BY <1>1, CompilerInvariant, PTL

\* Whatever the number of parse threads and the sizes of the groups, every
\* group has exactly one thread and none is left out of the sort.
THEOREM GroupsParsedOnce == Spec => []PartitionExact
  <1>1. ASSUME CompilerInv PROVE PartitionExact
    <2>1. Phases /\ Stages
      BY Zenon, <1>1 DEF CompilerInv
    <2>2. ASSUME phase = "parse", NEW g \in DOMAIN config
          PROVE  LET left == {w \in DOMAIN pending : g \in pending[w]}
                 IN  IF groups[g] = Blank THEN failed \/ Cardinality(left) = 1
                     ELSE left = {} /\ groups[g] = CompileGroup(config[g])
      <3> DEFINE left == {w \in DOMAIN pending : g \in pending[w]}
      <3>1. Parsing /\ config \in Configs
        BY Zenon, <2>1, <2>2 DEF Phases, Stages
      <3>2. CASE groups[g] # Blank
        BY Zenon, <3>1, <3>2 DEF Parsing
      <3>3. CASE groups[g] = Blank /\ ~failed
        <4>1. PICK w \in DOMAIN pending : g \in pending[w]
          BY Zenon, <3>1, <3>3 DEF Parsing
        <4>2. \A v \in DOMAIN pending : g \in pending[v] => v = w
          BY Zenon, <3>1, <4>1, RangesPartition DEF Parsing
        <4>3. left = {w}
          BY Zenon, <4>1, <4>2
        <4>4. Cardinality(left) = 1
          BY Zenon, <4>3, FS_Singleton
        <4> QED BY Zenon, <3>3, <4>4
      <3> QED BY Zenon, <3>2, <3>3
    <2>3. ASSUME phase = "build" PROVE Blank \notin Range(groups)
      <3>1. SortedCompile(groups, config) /\ config \in Configs
        BY Zenon, <2>1, <2>3 DEF Phases, Stages, Building
      <3> QED BY SMTT(60), <3>1, ConfigFacts, CompiledGroup DEF SortedCompile, Range
    <2> QED BY Zenon, <2>2, <2>3 DEF PartitionExact
  <1> QED BY <1>1, CompilerInvariant, PTL

\* For every configuration, packet and chunk size, and whatever the sort does
\* with equal precedences and the library with equal priorities, Match on the
\* published table returns a group that the configuration prefers.
THEOREM MatchFollowsConfiguration == Spec => []MatchPicksPreferred
  <1>1. ASSUME CompilerInv PROVE MatchPicksPreferred
    BY Zenon, <1>1, MatchPreferred DEF CompilerInv, Tables, MatchPicksPreferred
  <1> QED BY <1>1, CompilerInvariant, PTL

\* The bulk path of a burst, with its member filter and its compaction of the
\* packets that are left, gives what Match gives.
THEOREM BulkPathAgrees == Spec => []BulkAgreesWithMatch
  <1>1. CompilerInv => BulkAgreesWithMatch
    BY Zenon DEF CompilerInv, Bursts
  <1> QED BY <1>1, CompilerInvariant, PTL

\* No library object is used or freed after it was freed, or has two owners.
THEOREM ObjectsFreedOnce == Spec => []OwnedObjectsLive
  <1>1. ASSUME CompilerInv PROVE OwnedObjectsLive
    <2> DEFINE mine == IF table = NoTable THEN {Context(c) : c \in DOMAIN chunks} ELSE {}
               own == <<Owned(table), Owned(active), retired, prev_retired, mine>>
    <2>1. Phases /\ Stages /\ Owners
      BY Zenon, <1>1 DEF CompilerInv
    <2>2. /\ Owned(active) \cup retired \cup prev_retired \subseteq contexts
          /\ Owned(active) \cap retired = {} /\ Owned(active) \cap prev_retired = {}
          /\ retired \cap prev_retired = {}
      BY Zenon, <2>1 DEF Owners, Published
    <2>3. Owned(table) \subseteq contexts /\ Owned(table) \cap Published = {}
      <3>1. CASE phase = "publish"
        BY Zenon, <2>1, <3>1 DEF Owners, Current
      <3>2. CASE phase # "publish"
        BY Zenon, <2>1, <3>2, OwnsNothing DEF Phases
      <3> QED BY Zenon, <3>1, <3>2
    <2>4. mine \subseteq contexts /\ mine \cap Published = {} /\ mine \cap Owned(table) = {}
      <3>1. CASE phase \in {"idle", "parse"}
        BY <2>1, <3>1 DEF Phases
      <3>2. CASE phase \in {"build", "index"}
        <4>1. Current = BuiltContexts /\ table = NoTable /\ Building
          BY Zenon, <2>1, <3>2 DEF Owners, Phases, Stages
        <4>2. mine \subseteq BuiltContexts
          BY <4>1 DEF BuiltContexts, Building
        <4>3. Current \subseteq contexts /\ Current \cap Published = {}
          BY Zenon, <2>1, <3>2 DEF Current, Owners
        <4> QED BY Zenon, <4>1, <4>2, <4>3, OwnsNothing
      <3>3. CASE phase = "publish"
        <4>1. WellBuilt(table)
          BY Zenon, <2>1, <3>3 DEF Stages
        <4>2. table # NoTable
          BY SMTT(60), <4>1 DEF WellBuilt, SortedCompile, NoTable
        <4> QED BY Zenon, <4>2
      <3> QED BY Zenon, <2>1, <3>1, <3>2, <3>3 DEF Phases
    <2> HIDE DEF mine
    <2>5. Range(own) = {Owned(table), Owned(active), retired, prev_retired, mine}
      BY DEF Range
    <2>6. UNION Range(own) \subseteq contexts
      BY Zenon, <2>2, <2>3, <2>4, <2>5
    <2>7. ASSUME NEW i \in DOMAIN own, NEW j \in DOMAIN own, i < j PROVE own[i] \cap own[j] = {}
      BY <2>2, <2>3, <2>4, <2>7 DEF Published
    <2>8. ASSUME NEW i \in DOMAIN own, NEW j \in DOMAIN own, i # j PROVE own[i] \cap own[j] = {}
      <3>1. i < j \/ j < i
        BY <2>8
      <3> HIDE DEF own
      <3> QED BY Zenon, <2>7, <3>1
    <2> QED BY Zenon, <2>6, <2>8 DEF OwnedObjectsLive, mine
  <1> QED BY <1>1, CompilerInvariant, PTL

\* A failed compilation loses fewer contexts than there are build threads,
\* and nothing else.
THEOREM LossesBounded == Spec => []LeakBounded
  <1>1. ASSUME CompilerInv PROVE LeakBounded
    <2>1. Phases /\ Owners /\ Losses
      BY Zenon, <1>1 DEF CompilerInv
    <2> SUFFICES ASSUME phase = "idle"
                 PROVE  /\ \A o \in contexts \ Published : o[2] = "acl"
                        /\ \A n \in 1 .. compiles : Cardinality(Lost(n)) < BuildThreads
      BY Zenon DEF LeakBounded, Published, Lost
    <2>2. \A n \in 1 .. compiles : FewLost(n)
      BY Zenon, <2>1 DEF Losses
    <2>3. \A o \in contexts : o[1] \in 1 .. compiles
      BY <2>1, ConfigAssumption DEF Owners, Objects, Phases
    <2>4. \A o \in contexts \ Published : o \in Lost(o[1])
      BY Zenon DEF Lost
    <2> QED BY Zenon, <2>2, <2>3, <2>4 DEF FewLost
  <1> QED BY <1>1, CompilerInvariant, PTL

=============================================================================
