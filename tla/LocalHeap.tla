----------------------------- MODULE LocalHeap ------------------------------
(***************************************************************************)
(* The mutator's side of the hierarchical heap (local-heap.c):           *)
(* HM_enterLocalHeap and HM_ensureHierarchicalHeapAssurances, with the     *)
(* parts of HM_HHC_collectLocal that decide whether a collection happens *)
(* and where the mutator resumes allocating after it (hierarchical-heap-  *)
(* collection.c lines 80-128 and 392-406).                                 *)
(*                                                                         *)
(* The hierarchical heap is a sequence of chunks in allocation order.  A  *)
(* chunk has a level, a frontier and a limit (offsets from its start, so  *)
(* (pointer)chunk + HM_BLOCK_SIZE is offset Block) and the flag           *)
(* mightContainMultipleObjects.  s->frontier and s->limitPlusSlop are an  *)
(* offset in chunk fc (0 stands for NULL); s->limit is limitPlusSlop -     *)
(* Slop.  The copying done by a collection is HHCollection's; here a      *)
(* collection frees the chunks of levels [minLevel, depth] and appends    *)
(* to-space chunks of any shape copyObject can leave.                      *)
(***************************************************************************)
EXTENDS Integers, Sequences, SequencesExt

CONSTANTS
    Block,       \* HM_BLOCK_SIZE
    Meta,        \* GC_SEQUENCE_METADATA_SIZE
    Slop,        \* GC_HEAP_LIMIT_SLOP
    StackBytes,  \* sizeofStackWithMetaData of the grown stack
    Requests,    \* values of bytesRequested the mutator passes
    Depths,      \* values of thread->currentDepth = hh->level
    MaxChunks,   \* chunks the chunk pool can hold; HM_HH_extend fails beyond
    Alignment,   \* s->alignment
    VectorTables \* values of s->vectorInits: sequences of [elementSize, length]

ASSUME /\ 0 < Meta /\ Meta < Block /\ 0 < Slop /\ Slop <= Block
       /\ Requests \subseteq Nat /\ Depths \subseteq Nat /\ 0 < Alignment

VARIABLES
    chunks,     \* the chunks of hh, oldest first: [lvl, fr, lim, multi]
    last,       \* hh->lastAllocatedChunk, an index of chunks or 0 (NULL)
    fc,         \* the chunk s->frontier points into, 0 when NULL
    frontier,   \* s->frontier as an offset in chunk fc
    lps,        \* s->limitPlusSlop as an offset in chunk fc
    depth,      \* hh->level (thread->currentDepth)
    stackOK,    \* invariantForMutatorStack(s)
    pc,         \* "mutator", "out", "begin", "collect", "grow", "extend", "done", "died"
    force,      \* forceGC
    req,        \* bytesRequested
    ecl,        \* ensureCurrentLevel
    growStack,  \* growStack
    desired,    \* desiredScope
    outcome     \* what HM_HHC_collectLocal did: "none", "skip_seq", "skip", "collected"

lhVars == <<chunks, last, fc, frontier, lps, depth, stackOK, pc, force, req, ecl,
            growStack, desired, outcome>>

Chunk == [lvl : Nat, fr : Nat, lim : Nat, multi : BOOLEAN]

(* HM_HH_extend(hh, n): a fresh multi-object chunk of at least n bytes,   *)
(* whole blocks, appended at the current level; it becomes                *)
(* lastAllocatedChunk.  It fails (returns FALSE) when the pool is full.   *)
ChunkSize(n) == IF n <= Block THEN Block ELSE Block * ((n + Block - 1) \div Block)
CanExtend(cs) == Len(cs) < MaxChunks
NewChunk(l, n) == [lvl |-> l, fr |-> 0, lim |-> ChunkSize(n), multi |-> TRUE]
Extended(cs, n) == Append(cs, NewChunk(depth, n))

(* Lines 106-119: s->frontier, s->limitPlusSlop (and s->limit) from chunk *)
(* l, or NULL when l is NULL.                                              *)
Publish(cs, l) ==
    IF l = 0 THEN fc' = 0 /\ frontier' = 0 /\ lps' = 0
             ELSE fc' = l /\ frontier' = cs[l].fr /\ lps' = cs[l].lim

(* Mutant: HM_HH_updateValues leaves the chunk's frontier as it was.      *)
SavedNot == chunks

(* HM_HH_updateValues(hh, s->frontier): the frontier is saved in          *)
(* lastAllocatedChunk.                                                     *)
Saved == IF last = 0 THEN chunks ELSE [chunks EXCEPT ![last].fr = frontier]

(* Mutant: the room test of line 159 left out.                             *)
NeedsExtendNoRoom(n) ==
    \/ last = 0
    \/ ecl /\ chunks[last].lvl # depth
    \/ chunks[last].fr >= Block

(* The condition of lines 129-132 and 156-159 for n bytes.                *)
NeedsExtend(n) ==
    \/ last = 0
    \/ ecl /\ chunks[last].lvl # depth
    \/ chunks[last].fr >= Block
    \/ lps - frontier < n

(* Lines 392-399: the last chunk of the deepest non-empty level.          *)
LastChunk(cs) ==
    LET top == {i \in DOMAIN cs : \A j \in DOMAIN cs : cs[j].lvl <= cs[i].lvl}
    IN  IF cs = <<>> THEN 0 ELSE Max(top)

(* Mutant: the failure of HM_HH_extend is not checked (no DIE).          *)
ExtendByNoDie(cs, l, n, next) ==
    /\ chunks' = Extended(cs, n)
    /\ last' = Len(cs) + 1
    /\ Publish(Extended(cs, n), Len(cs) + 1)
    /\ pc' = next

(* HM_HH_extend(hh, n) on the chunks cs whose last allocated chunk is l,  *)
(* and the republishing after it (lines 134-139, 161-166, and 402-406 of  *)
(* the collection): DIE("Ran out of space ...") when the extension fails. *)
ExtendBy(cs, l, n, next) ==
    IF CanExtend(cs)
       THEN /\ chunks' = Extended(cs, n)
            /\ last' = Len(cs) + 1
            /\ Publish(Extended(cs, n), Len(cs) + 1)
            /\ pc' = next
       ELSE /\ pc' = "died" /\ chunks' = cs /\ last' = l
            /\ UNCHANGED <<fc, frontier, lps>>

-----------------------------------------------------------------------------
(* init-world.c.  align and inFirstBlockOfChunk are not under src/:       *)
(* align rounds up to a multiple, and an offset is in the first block of  *)
(* its chunk when it is below Block.                                       *)
Align(n) == Alignment * ((n + Alignment - 1) \div Alignment)
InFirstBlock(f) == f < Block

(* initThreadAndHeap, lines 141-156: a new thread whose heap is one chunk *)
(* at level l, published as s->frontier and s->limitPlusSlop.             *)
ThreadHeap(l) == <<NewChunk(l, Block)>>

(* Lines 51-53: the size of a vector, its sequence metadata included.     *)
VecSize(v) == Align(Meta + v.elementSize * v.length)

(* Mutant: the block test of line 64 left out.                             *)
LayVectorNoBlockTest(w, v) ==
    LET n == VecSize(v)
        k == Len(w.cs)
        ext == w.cs[k].lim - w.f < n
        cs == IF ext THEN Append([w.cs EXCEPT ![k].fr = w.f], NewChunk(0, n)) ELSE w.cs
        f == IF ext THEN 0 ELSE w.f
    IN  CASE ~w.ok -> w
          [] ext /\ ~CanExtend(w.cs) -> [w EXCEPT !.ok = FALSE]
          [] OTHER -> [cs |-> cs, f |-> f + n, ok |-> TRUE,
                       at |-> Append(w.at, [c |-> Len(cs), start |-> f, size |-> n])]

(* One turn of the loop of initVectors, lines 45-114, on w: the chunks cs *)
(* of level 0, the local frontier f in the last one, the vectors written *)
(* so far (chunk, offset, size), and ok until DIE.  If the last chunk     *)
(* lacks the room or f has left its first block, the frontier is saved   *)
(* and the hh extended by objectSize (DIE when that fails); the vector   *)
(* is written at f and f advanced past it.                                 *)
LayVector(w, v) ==
    LET n == VecSize(v)
        k == Len(w.cs)
        ext == w.cs[k].lim - w.f < n \/ ~InFirstBlock(w.f)
        cs == IF ext THEN Append([w.cs EXCEPT ![k].fr = w.f], NewChunk(0, n)) ELSE w.cs
        f == IF ext THEN 0 ELSE w.f
    IN  CASE ~w.ok -> w
          [] ext /\ ~CanExtend(w.cs) -> [w EXCEPT !.ok = FALSE]
          [] OTHER -> [cs |-> cs, f |-> f + n, ok |-> TRUE,
                       at |-> Append(w.at, [c |-> Len(cs), start |-> f, size |-> n])]

(* Mutant: the extension after the loop (line 121) left out.              *)
InitVectorsNoTail(cs, t) ==
    FoldLeft(LayVector, [cs |-> cs, f |-> 0, at |-> <<>>, ok |-> TRUE], t)

(* initVectors, lines 29-139: the loop, then, if the last vector left the *)
(* frontier outside the first block, a save and an extension by          *)
(* GC_HEAP_LIMIT_SLOP so that the mutator gets a valid frontier.         *)
InitVectors(cs, t) ==
    LET w == FoldLeft(LayVector, [cs |-> cs, f |-> 0, at |-> <<>>, ok |-> TRUE], t)
        k == Len(w.cs)
    IN  CASE ~w.ok \/ InFirstBlock(w.f) -> w
          [] CanExtend(w.cs) ->
                [w EXCEPT !.cs = Append([w.cs EXCEPT ![k].fr = w.f], NewChunk(0, Slop)),
                          !.f = 0]
          [] OTHER -> [w EXCEPT !.ok = FALSE]

(* initWorld, lines 163-172: the main thread's heap at level 0 and the    *)
(* vectors of the table t laid out in it.                                  *)
World(t) == InitVectors(ThreadHeap(0), t)

(* HM_enterLocalHeap (local-heap.c 23-30) on the heap the thread starts   *)
(* with: at level 0 the main thread's, after initWorld with any vector    *)
(* table; at a deeper level a thread with a heap of its own, as          *)
(* initThreadAndHeap (and duplicateWorld at level 1) creates it.           *)
Init ==
    /\ depth \in Depths
    /\ \E t \in VectorTables :
          LET w == IF depth = 0 THEN World(t)
                   ELSE [cs |-> ThreadHeap(depth), f |-> 0, at |-> <<>>, ok |-> TRUE]
          IN  /\ chunks = w.cs /\ last = Len(w.cs) /\ fc = Len(w.cs)
              /\ frontier = w.f /\ lps = w.cs[Len(w.cs)].lim
              /\ pc = IF w.ok THEN "mutator" ELSE "died"
    /\ stackOK = TRUE
    /\ force = FALSE /\ req = 0 /\ ecl = FALSE /\ growStack = FALSE
    /\ desired = 0 /\ outcome = "none"

(* The mutator between calls (generated code): it allocates below s->limit *)
(* and may fill its stack; then it calls HM_ensureHierarchicalHeap-       *)
(* Assurances(s, forceGC, bytesRequested, ensureCurrentLevel).            *)
Alloc ==
    /\ pc = "mutator" /\ fc # 0
    /\ \E n \in 1 .. Block : frontier + n <= lps - Slop /\ frontier' = frontier + n
    /\ UNCHANGED <<chunks, last, fc, lps, depth, stackOK, pc, force, req, ecl, growStack,
                   desired, outcome>>

StackFull ==
    /\ pc = "mutator" /\ stackOK
    /\ stackOK' = FALSE
    /\ UNCHANGED <<chunks, last, fc, frontier, lps, depth, pc, force, req, ecl, growStack,
                   desired, outcome>>

Call ==
    /\ pc = "mutator"
    /\ \E f \in BOOLEAN, r \in Requests, e \in BOOLEAN : force' = f /\ req' = r /\ ecl' = e
    /\ pc' = "begin"
    /\ UNCHANGED <<chunks, last, fc, frontier, lps, depth, stackOK, growStack, desired, outcome>>

(* HM_exitLocalHeap, lines 32-36: the thread leaves its heap (it is        *)
(* switched out); s->frontier is saved in lastAllocatedChunk.               *)
ExitLocalHeap ==
    /\ pc = "mutator"
    /\ chunks' = Saved
    /\ pc' = "out"
    /\ UNCHANGED <<last, fc, frontier, lps, depth, stackOK, force, req, ecl, growStack,
                   desired, outcome>>

(* HM_enterLocalHeap, lines 23-30, when the thread is switched back in:   *)
(* s->frontier and the limits are read back from lastAllocatedChunk       *)
(* (HM_HH_ensureNotEmpty finds the heap non-empty).                        *)
EnterLocalHeap ==
    /\ pc = "out" /\ last # 0
    /\ Publish(chunks, last)
    /\ pc' = "mutator"
    /\ UNCHANGED <<chunks, last, depth, stackOK, force, req, ecl, growStack, desired,
                   outcome>>

(* Lines 43-78: decide on stack growth, save the frontier in the hh, die  *)
(* if the frontier is past limitPlusSlop, and compute desiredScope        *)
(* (HM_HH_desiredCollectionScope, a policy: any level up to depth + 1).   *)
Begin ==
    /\ pc = "begin"
    /\ growStack' = ~stackOK
    /\ chunks' = Saved
    /\ IF lps < frontier
          THEN pc' = "died" /\ UNCHANGED desired
          ELSE \E d \in 0 .. depth + 1 : desired' = d /\ pc' = "collect"
    /\ outcome' = "none"
    /\ UNCHANGED <<last, fc, frontier, lps, depth, stackOK, force, req, ecl>>

(* Line 80: no collection is wanted.                                       *)
NoCollect ==
    /\ pc = "collect" /\ ~force /\ desired > depth
    /\ pc' = "grow"
    /\ UNCHANGED <<chunks, last, fc, frontier, lps, depth, stackOK, force, req, ecl,
                   growStack, desired, outcome>>

(* Line 82 calls HM_HHC_collectLocal(desiredScope) without its second     *)
(* parameter: the callee reads an unpassed bool, whatever the caller left *)
(* there, so force inside collectLocal (fa) is either value.  It returns  *)
(* early at line 100 in a sequential section unless fa, and at lines     *)
(* 117-128 when the claimed minLevel is 0 or above the current depth      *)
(* (collection disabled and deque not registered, lines 89-98, are the   *)
(* same return).  Lines 84-122 then republish from lastAllocatedChunk.    *)
CollectSkipped ==
    /\ pc = "collect" /\ (force \/ desired <= depth)
    /\ \E fa \in BOOLEAN, minLevel \in 0 .. depth + 1 :
          /\ (~fa /\ depth <= 1) \/ minLevel = 0 \/ minLevel > depth
          /\ outcome' = IF ~fa /\ depth <= 1 THEN "skip_seq" ELSE "skip"
    /\ Publish(chunks, last)
    /\ pc' = "grow"
    /\ UNCHANGED <<chunks, last, depth, stackOK, force, req, ecl, growStack, desired>>

(* Lines 82-122 when HM_HHC_collectLocal collects levels [minLevel,       *)
(* depth]: their chunks are freed and to-space is merged back (lines     *)
(* 366-390), then AfterCollect.  A to-space chunk the pool cannot hold    *)
(* is the fatal allocation failure of copyObject.                         *)
(* What copyObject (lines 827-866) leaves at the end of the to-space of   *)
(* a collected level: nothing, or a multi-object chunk of level minLevel  *)
(* .. depth holding at least one copy with its frontier still in the     *)
(* first block (CopyObject's ToSpaceTail).                                 *)
ToSpace(minLevel) ==
    {<<>>} \cup {<<[lvl |-> l, fr |-> f, lim |-> Block, multi |-> TRUE]>> :
                   l \in minLevel .. depth, f \in 1 .. Block - 1}

Survivors(minLevel) == SelectSeq(chunks, LAMBDA c : c.lvl < minLevel)

(* Lines 392-406 of the collection and the republishing after it: the    *)
(* last chunk lc of the deepest non-empty level becomes lastAllocated-    *)
(* Chunk; if it holds a single object the hh is extended by               *)
(* GC_HEAP_LIMIT_SLOP so that the mutator resumes in a fresh chunk.       *)
AfterCollect(cs, lc) ==
    IF lc # 0 /\ ~cs[lc].multi
       THEN ExtendBy(cs, lc, Slop, "grow")
       ELSE chunks' = cs /\ last' = lc /\ Publish(cs, lc) /\ pc' = "grow"

Collect ==
    /\ pc = "collect" /\ (force \/ desired <= depth)
    /\ \E fa \in BOOLEAN, minLevel \in 1 .. depth : \E ts \in ToSpace(minLevel) :
          LET cs == Survivors(minLevel) \o ts
          IN  /\ fa \/ depth > 1
              /\ IF Len(cs) > MaxChunks
                    THEN pc' = "died" /\ UNCHANGED <<chunks, last, fc, frontier, lps>>
                    ELSE AfterCollect(cs, LastChunk(cs))
    /\ outcome' = "collected"
    /\ UNCHANGED <<depth, stackOK, force, req, ecl, growStack, desired>>

(* Lines 126-152: extend for the new stack if the current chunk cannot    *)
(* take it, then growStackCurrent, which allocates the stack in a chunk   *)
(* of its own and restores invariantForMutatorStack.                      *)
GrowStack ==
    /\ pc = "grow" /\ growStack
    /\ IF NeedsExtend(StackBytes)
          THEN ExtendBy(chunks, last, StackBytes, "extend")
          ELSE pc' = "extend" /\ UNCHANGED <<chunks, last, fc, frontier, lps>>
    /\ stackOK' = TRUE
    /\ UNCHANGED <<depth, force, req, ecl, growStack, desired, outcome>>

NoGrowStack ==
    /\ pc = "grow" /\ ~growStack
    /\ pc' = "extend"
    /\ UNCHANGED <<chunks, last, fc, frontier, lps, depth, stackOK, force, req, ecl,
                   growStack, desired, outcome>>

(* Lines 156-167: extend by bytesRequested if there is no chunk, the      *)
(* chunk is at another level when ensureCurrentLevel, the frontier has    *)
(* left the first block, or there is not enough room.                      *)
EnsureRoom ==
    /\ pc = "extend"
    /\ IF NeedsExtend(req)
          THEN ExtendBy(chunks, last, req, "done")
          ELSE pc' = "done" /\ UNCHANGED <<chunks, last, fc, frontier, lps>>
    /\ UNCHANGED <<depth, stackOK, force, req, ecl, growStack, desired, outcome>>

(* Line 171: return to the mutator; the call's arguments and locals go.  *)
Return ==
    /\ pc = "done"
    /\ pc' = "mutator"
    /\ force' = FALSE /\ req' = 0 /\ ecl' = FALSE /\ growStack' = FALSE
    /\ desired' = 0 /\ outcome' = "none"
    /\ UNCHANGED <<chunks, last, fc, frontier, lps, depth, stackOK>>

LHNext ==
    \/ Alloc \/ StackFull \/ Call \/ ExitLocalHeap \/ EnterLocalHeap
    \/ Begin \/ NoCollect \/ CollectSkipped \/ Collect
    \/ GrowStack \/ NoGrowStack \/ EnsureRoom \/ Return

LHSpec == Init /\ [][LHNext]_lhVars

-----------------------------------------------------------------------------
LHTypeOK ==
    /\ chunks \in Seq(Chunk) /\ Len(chunks) <= MaxChunks
    /\ last \in 0 .. Len(chunks) /\ fc \in 0 .. MaxChunks
    /\ frontier \in 0 .. lps
    /\ depth \in Depths /\ stackOK \in BOOLEAN /\ growStack \in BOOLEAN
    /\ pc \in {"mutator", "out", "begin", "collect", "grow", "extend", "done", "died"}
    /\ force \in BOOLEAN /\ req \in Requests \cup {0} /\ ecl \in BOOLEAN
    /\ desired \in Nat /\ outcome \in {"none", "skip_seq", "skip", "collected"}

(* Spec 8.7: when HM_ensureHierarchicalHeapAssurances returns, the        *)
(* mutator allocates in lastAllocatedChunk, which can take bytesRequested *)
(* and may hold several objects, whatever the collection, the stack       *)
(* growth and the extensions did on the way.                              *)
FrontierAssured ==
    pc = "done" =>
        /\ fc # 0 /\ fc = last
        /\ req <= lps - frontier
        /\ chunks[fc].multi

(* invariantForMutatorFrontier (invariant.c 17-24): s->frontier and       *)
(* limitPlusSlop are those of the current chunk, the frontier is          *)
(* GC_SEQUENCE_METADATA_SIZE short of the end of the first block, and the *)
(* chunk may hold several objects.                                        *)
InvariantForMutatorFrontier ==
    /\ fc # 0
    /\ frontier = chunks[fc].fr /\ lps = chunks[fc].lim
    /\ frontier < Block - Meta
    /\ chunks[fc].multi

(* The assertion at line 169: HM_ensureHierarchicalHeapAssurances returns *)
(* with invariantForMutatorFrontier holding, although its extension test  *)
(* (line 158) only asks that the frontier be inside the first block.      *)
MutatorFrontierInvariant ==
    pc = "done" => InvariantForMutatorFrontier

(* initWorld hands the main thread a heap in which every vector that      *)
(* initVectors wrote starts in the first block of its chunk (where        *)
(* HM_getChunkOf looks for it), ends inside the chunk and overlaps no      *)
(* other vector, and in which s->frontier, when initVectors returns, is   *)
(* in the first block of the last chunk (init-world.c 137-138 and 186).   *)
(* It depends on both the block test inside the loop and the extension   *)
(* after it.  It is checked for every vector table in the states of the  *)
(* main thread (depth 0), which start from one of those layouts.          *)
WorldLayout ==
    depth = 0 => \A t \in VectorTables :
        LET w == World(t)
            ends(i) == w.at[i].start + w.at[i].size
        IN  /\ \A i \in DOMAIN w.at :
                   InFirstBlock(w.at[i].start) /\ ends(i) <= w.cs[w.at[i].c].lim
            /\ \A i, j \in DOMAIN w.at :
                   i < j /\ w.at[i].c = w.at[j].c => ends(i) <= w.at[j].start
            /\ w.ok => InFirstBlock(w.f)
(* HM_exitLocalHeap (local-heap.c 35) and the start of HM_ensure-         *)
(* HierarchicalHeapAssurances (line 70) save s->frontier in lastAllocated-*)
(* Chunk; HM_enterLocalHeap and a collectLocal that returns early read it *)
(* back.  Except in the step that replaces the chunks by a collection,    *)
(* the mutator's frontier never moves back within the chunk it is in, so  *)
(* it never allocates over an object it already allocated.                 *)
FrontierNeverRewinds ==
    [][fc # 0 /\ fc' = fc /\ ~(pc = "collect" /\ outcome' = "collected")
           => frontier' >= frontier]_lhVars
=============================================================================
