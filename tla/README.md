# TLA+ models of the MPL hierarchical-heap runtime (src/runtime/gc)

These modules model the concurrent core of the MPL garbage-collector runtime
in `src/runtime/gc/`. That core is the Chase-Lev work-stealing deque, the
local-scope claim a worker makes on its own deque before collecting, and the
local copying collection of a hierarchical heap. TLC checks them.

## 1. Inventory of the system

| Part | Source | State | Operations | Interacts with |
|---|---|---|---|---|
| Chase-Lev deque | `chase-lev-deque.c` | `top`, `bot` (uint64), `data[CAP]` | `pushBot`, `tryPopBot` (owner), `tryPopTop` (thieves), `setDepth` (owner, empty deque) | scheduler (outside src/), local scope |
| Local scope | `local-scope.c` | the deque's `bot` | `pollCurrentLocalScope`, `tryClaimLocalScope` (= `tryPopBot` with `BOGUS_OBJPTR`), `releaseLocalScope` (seq-cst store of `bot`) | deque, `HM_HHC_collectLocal` |
| Local collection | `hierarchical-heap-collection.c` | levels of the hierarchical heap, to-space lists, forwarding pointers, remembered sets, `globalDownPtrs` | `HM_HHC_collectLocal`: claim, root forwarding, Cheney scan by level, free and merge, release; `forwardHHObjptr`, `forwardDownPtr`, `copyObject`, `skipStackAndThreadObjptrPredicate` | local scope, deque object, current thread and stack |
| Collection trigger | `local-heap.c` | frontier, limit, stack | `HM_enterLocalHeap`, `HM_exitLocalHeap`, `HM_ensureHierarchicalHeapAssurances` (collect, grow stack, extend heap) | local collection |
| Mutator invariants | `invariant.c` | none (predicates) | `invariantForMutatorFrontier`, `invariantForMutatorStack` | trigger, collection |
| Cheney two-space copy | `cheney-copy.c` | from/to heap, weak list | `majorCheneyCopyGC`, `minorCheneyCopyGC`, `updateWeaksForCheneyCopy`, `swapHeapsForCheneyCopy` | global heap |
| World init | `init-world.c` | initial heap | `initVectors`, `initThreadAndHeap`, `initWorld` | everything, once |

Hard behaviours of the code:
- Thieves race the owner on the last element. Both CAS `top`, and the owner's
  decrement of `bot` is speculative.
- `setDepth` moves an empty deque's indices with two stores while thieves run.
- Indices are unsigned, so `bot - 1` at 0 and `bot - top` wrap.
- The claim pops and then restores `bot` while thieves keep stealing.
- The collection reaches an object through several roots. It moves
  single-object chunks and copies other objects. The scan appends to the lists
  it is scanning, and it skips the stack and the thread.
- Down-pointers from shallower levels must be carried over to the to-space
  remembered sets.

## 2. Modules

### ChaseLevDeque (with MCChaseLevDeque)

The state is:
- `top` and `bot`, taken modulo `2^WordBits` by `U`, so unsigned wrap is kept;
- `data`, indexed by `Slot(i) = i % CAP`;
- the owner's pc and locals: `opc`, `olb`, `olt`, `oe`, `oret`;
- each thief's pc and locals: `tpc`, `tt`, `tb`, `te`;
- two history variables, `pushed` and the bag `took` of returned values.

Every atomic load, store or CAS is one step. Each action's comment names the
C lines it models. A pop done on behalf of the local-scope claim
(`caller = "gc"`) is not counted as a take. `LEN` is the array length that the
full test uses (`getSequenceLength`), and `CAP` is the modulus of the slot
index. Memory is sequentially consistent, so the C11 orderings are not
modelled.

### LocalScope (with MCLocalScope)

This module extends `ChaseLevDeque`. It adds the control of `collectLocal`
from the poll of `bot` through the claim loop, the skips, the collection (one
step here) and the release. The owner's scheduler operations are disabled
while a collection is in progress, as on the real worker. Thieves run
throughout.

`originalLocalScope` is the polled bot in `ScopeBits` bits (a `uint32_t` in
the code). `Collect` is one step that leaves the deque alone: the collection
rewrites the deque object's slots (lines 274-283), which HHCollection models,
but it never changes `top`, `bot` or the tasks' order.

### HHCollection (with MCHHCollection)

The heap is a set of objects. Each object has a level and one pointer slot.
An address `<<o,0>>` is where `o` was allocated, and `<<o,1>>` is its to-space
copy. `ForwardResult` is `forwardHHObjptr`:
- skip a non-pointer or an object below `minLevel`;
- follow a forwarding pointer;
- keep an object already in to-space;
- move a single-object chunk, appending it to the to-space list;
- otherwise copy the object and install a forwarding pointer.

The actions follow collectLocal's order: stack, thread, `currentThread`,
deque slots, global down-pointers, then the scan from `CurrentDepth` down to
`MinLevel` (skipping stack and thread objects), then free and merge.
`HHInit` starts from every heap the mutator invariants allow:
- the stack is in a single-object chunk (`invariantForMutatorStack`);
- slots point to the same or a shallower level, except from levels below
  `minLevel`, whose down-pointers are exactly `globalDownPtrs`.

### AbstractDeque and the refinement

`AbstractDeque` is what the deque promises: a bounded sequence `q` with atomic
`PushBottom`, `PopBottom` and `PopTop`. Its history variables `pushed` and
`took` are the same as the detailed module's. The end of `ChaseLevDeque`
defines the refinement mapping:
- `AbsQ` is the values between `top` and a logical bottom;
- a push takes effect at its publishing store of `bot` (`PushPublish`);
- the owner's pop takes effect when it has decremented `bot`, so while the pop
  is in flight the logical bottom is `olb + 1`, and the element leaves the
  abstract queue when the pop's CAS or top load decides it;
- a steal takes effect at its successful CAS.

`RefinesAbstractDeque == Deque!AbsSpec` is checked as a temporal property.

### CheneyCopy (with MCCheneyCopy)

This module covers `majorCheneyCopyGC`, `minorCheneyCopyGC`,
`updateWeaksForCheneyCopy` and `swapHeapsForCheneyCopy`.

The state is:
- the slot of each address (`mem`);
- forwarding headers (`fwd`);
- the copies made so far, in order (`back`), and the scan cursor;
- the weak chain `s->weaks`;
- the two heaps' `oldGenSize`;
- `amInMinorGC`, which persists between collections;
- `weak0`, a history of each weak's referent.

A major collection forwards globals, scans, fixes weaks, sets the secondary
heap's `oldGenSize` and swaps. A minor collection does the following:
- returns at once if nothing was allocated;
- promotes in place if `canMinor` is false;
- otherwise forwards globals and the old-generation slots that point into the
  nursery, scans, fixes weaks and grows `oldGenSize`.

`forwardObjptr` and the root iterators are not under src/. They are modelled
after the spec and MLton: a copied weak is linked only when its target is a
pointer and, in a minor collection, in the nursery.

### LocalHeap

The heap is a sequence of chunks `[lvl, fr, lim, multi]`. `s->frontier` and
`s->limitPlusSlop` are offsets in chunk `fc`. The module has these actions:
- `Init` is the state the worker starts in. At depth 0 it is the main
  thread's heap as `initWorld` leaves it: `ThreadHeap` (`initThreadAndHeap`),
  then `initVectors` (`InitVectors`, a `FoldLeft` of `LayVector` over a
  vector table from `VectorTables`, with the extension after the loop). At a
  deeper level it is a fresh one-block heap. When the pool cannot supply a
  chunk, the program dies;
- `ExitLocalHeap` and `EnterLocalHeap` are `HM_exitLocalHeap` (saves the
  frontier into the current chunk) and `HM_enterLocalHeap` (reloads frontier
  and limit from `lastAllocatedChunk`);
- the mutator allocates below `s->limit`, fills its stack, and calls
  `HM_ensureHierarchicalHeapAssurances`;
- the call is split at the code's blocks: `Begin` (lines 43-78),
  `NoCollect`, `CollectSkipped` or `Collect` (80-123, with
  `HM_HHC_collectLocal`'s early returns and its repair of
  `lastAllocatedChunk`), `GrowStack`/`NoGrowStack` (126-152), `EnsureRoom`
  (154-167) and `Return`. After a collection, `AfterCollect` repairs a
  single-object `lastAllocatedChunk` by extending the heap (lines 392-406).
  No surviving chunk in the model holds a single object: such chunks come
  from the mutator's large allocations, which are not under src/. So this
  repair is never taken here.

A collection frees the chunks of levels `[minLevel, depth]`. It appends
either nothing or the chunk `copyObject` leaves at the end of a collected
level's to-space: a multi-object chunk at a level in `[minLevel, depth]`,
holding at least one copy, with its frontier in its first block.
`copy_object` shows this shape (`ToSpaceTail`). `HM_HH_extend` appends a
multi-object chunk at the current level and fails (DIE) when the pool of
`MaxChunks` chunks is full. Line 82 passes no `force`, so the value
`collectLocal` sees is a nondeterministic choice. A forced call at depth 1
can therefore be skipped at the sequential-section test
(hierarchical-heap-collection.c:100). `localheap_assurances` covers that path:
the frontier is still correct, but the forced collection does not happen.

### CopyObject

How `forwardHHObjptr` places objects in one level's to-space list. A chunk is
`[fr, lim, multi]`, offsets from the chunk's start. `Objects` are the shapes
`computeObjectCopyParameters` distinguishes, and `CopyParams` gives their
`objectSize` and `copySize`. A stack's reserve is first shrunk by
`sizeofStackShrinkReserved`, which is not under src/, to any size between its
used and reserved bytes. The module has two actions:
- `CopyObj` is an object of a multi-object chunk, copied by `copyObject`
  (`CopyInto`): a new chunk when the last one lacks `objectSize` bytes or its
  frontier has left the first block, the frontier advanced by `objectSize`,
  and a fresh chunk when the new frontier has left the first block;
- `MoveChunk` is an object alone in its chunk: the chunk is appended to the
  list and a SLOP chunk allocated after it (lines 703-727).

The list is created on first use (lines 680-690). A chunk the pool cannot
give is DIE, and the run ends there.

## 3. Runs

| Run | Expect | Shows |
|---|---|---|
| `deque_steal` | pass (1,194,775 states) | Owner and 2 thieves over a CAP-2 buffer that wraps: no value is taken twice, at quiescence every pushed value is taken or held exactly once (`NoDoubleTake`, `QuiescentConservation`), and the deque implements `AbstractDeque` under the mapping above, every operation taking effect at one step (`RefinesAbstractDeque`). |
| `deque_setdepth` | pass (1,494) | `setDepth` down and up between owner operations conserves values (`QuiescentConservation`). |
| `deque_setdepth_aba` | violation | **ABA**: a thief reads `top = 3`, the owner pops the last element (`top` goes to 4), `setDepth(3)` stores 3 into `bot` and `top`, and the thief's CAS 3→4 succeeds. The value is taken twice. |
| `deque_empty_pop_underflow` | violation | `tryPopBot` at `bot = top = 0` wraps `bot` to `2^w-1` and returns an unwritten slot. |
| `deque_len_exceeds_cap` | violation | With an array longer than `CAP`, a push overwrites a value still in the deque (the code tests `getSequenceLength`, while the spec tests `CAP`). |
| `localscope_claim` | pass (3,160,021) | With desired scopes 1 and 2: while levels are being collected, no thief can complete a steal of a claimed index (`ClaimExcludesThieves`), and no value is taken twice. |
| `localscope_release_loses_task` | violation | A claim that wins the last element through the CAS advances `top`. The release restores only `bot`, so the task disappears. |
| `hh_collect` | pass (781,104) | For every heap of 5 objects over 3 levels (62,208 initial heaps) and one deque slot, the collection frees nothing reachable and terminates. |
| `cheney_copy` | pass (1,123,342) | From every heap of 4 objects (one weak), nursery and `canMinor`, a major or minor copy has these results: it leaves no live pointer into from-space; it fixes a weak to its referent's copy exactly when the referent survives, and clears it otherwise; no object survives only through a weak; the copy terminates. |
| `localheap_assurances` | pass (105,419) | Every call of `HM_ensureHierarchicalHeapAssurances` returns with the frontier in `lastAllocatedChunk`, a multi-object chunk with room for `bytesRequested` (spec 8.7). This holds whatever the collection, stack growth and extension did, from `initWorld`'s heap and across exits and re-entries. For every vector table, `initVectors` places each vector inside its chunk, starting in the first block, with no overlap, and leaves the frontier in the first block (`WorldLayout`). The frontier never moves back within its chunk, except in the step where a collection replaces the chunks. So an exit and re-entry, or a collection that returns early, never hands the mutator a frontier older than its last allocation (`FrontierNeverRewinds`). |
| `copy_object` | pass (135,257) | Every sequence of four forwarded objects (normal objects and sequences below, near and above a block, stacks with unused reserve, copied or moved as single-object chunks) is placed so that no copy overlaps an earlier object, the stack's reserve included (`CopiesDisjoint`), and the to-space list always ends in a multi-object chunk whose frontier is in its first block (`ToSpaceTail`). |
| `localheap_frontier_meta` | violation | At depth 2, a collection leaves a level-1 to-space chunk whose frontier is in the last `GC_SEQUENCE_METADATA_SIZE` bytes of the first block. That frontier passes the extension test of line 158, then fails the assertion of `invariantForMutatorFrontier` at line 169. The slop is 2 units here, larger than the metadata, as in the code (512 > 24). So the mutator's own allocation in a one-block chunk cannot reach that window. |

Each property of a passing run has a mutant in `PROJECT.json`. The mutant is a
plausible bug in the mapped code, such as:
- a dropped CAS;
- `bot` restored off by one;
- a missing second store in setDepth;
- a single chunk not appended;
- a scan cursor that does not advance on the skip path;
- the level loop without its floor;
- a failed CAS that keeps the element;
- `amInMinorGC` not reset;
- weaks traced;
- the room test of the extension left out;
- a failed `HM_HH_extend` not checked;
- the frontier advanced by `copySize`;
- no SLOP chunk after a moved chunk;
- the block test dropped from `initVectors`' loop;
- no extension after that loop;
- the frontier not saved by `HM_HH_updateValues`.

TLC finds the property violated under each mutant.

Why the bounds are enough:
- **Deque.** `CAP = LEN = 2` with 4-bit indices makes slots wrap and be reused
  within 3 to 4 pushes. Two thieves are enough for one thief to race another
  and the owner. Symmetry over thieves is sound because thieves are
  interchangeable, but `deque_steal` runs without it because it also checks
  the refinement, a temporal property.
- **Local scope.** `CAP = 4` lets the claim take several levels. Desired
  scope 2 makes a collection stop above the bottom of the deque, so some
  levels are claimed while others stay with the thieves. `ScopeBits = 3` is
  narrower than the 4-bit index, as uint32 is narrower than uint64. The run
  has no `setDepth`: with it, the ABA of `deque_setdepth_aba` would break
  `NoDoubleTake` here too.
- **Collection.** There are three levels: one below `minLevel` (so down-pointers
  exist) and two collected (so a deeper-first scan matters). The five objects
  include the stack and the thread, with every pointer shape allowed.
- **Cheney.** Three strong objects and one weak object give chains of length
  3, cycles, a weak whose referent dies or survives, and old-to-nursery
  pointers. One global is enough for a root.
- **Local heap.** A block is 4 units, the metadata 1 and the slop 2. The
  slop is larger than the metadata, as in the code (512 > 24). Requests
  of 1, 3 and 5 units fit a chunk, nearly fill it, or need a chunk of two
  blocks. Depths 1 and 2 include a sequential section. A pool of 2 chunks
  lets a collection leave a surviving chunk plus a to-space chunk. Depth 0
  starts from `initWorld`. `MCLocalHeap` gives four vector tables, with
  alignment 2: none; two 2-unit vectors, which share the first block; a
  4-unit vector, which fills the block, then a 2-unit one; and a 6-unit
  vector, which needs a chunk of its own, then a 2-unit one. These reach
  every branch of the loop and of the extension after it.
- **Copy placement.** A block is 8 units and the descriptor 1. Bodies of 1, 4
  and 9 units give objects that share a chunk, that cross the block's end
  after a few copies, and that need a chunk of two blocks. A stack with 3
  reserved bytes, shrunk to any size at least its used bytes, gives
  `objectSize > copySize`. Four copies and eight chunks reach every order of
  these cases.

Fairness and deadlock:
- `hh_collect` and `cheney_copy` check termination under weak fairness of the
  whole next-state relation. A collection is straight-line code on one worker
  (the Cheney copy is stop-the-world) that nothing blocks.
- `CHECK_DEADLOCK FALSE` appears in those runs because one call ends.
- It also appears in the local-heap runs, because DIE on an exhausted chunk
  pool ends the program.

## 4. Plan for the following sittings

1. The skip predicate of the scan with a second thread object in the collected
   levels.
2. Liveness of the claim loop (a collection always releases its scope). It
   holds on the `localscope_claim` bounds, but a check needs that run without
   symmetry, which takes about 10 minutes.

## 5. Not modelled

- In HHCollection, byte sizes and headers are abstracted away and an object
  has one slot; CopyObject models the placement arithmetic on its own.
- In LocalHeap, a collection's effect on objects is HHCollection's concern.
  Here it only chooses which chunks survive.
- Statistics, logging, timing and the debug scrub are left out.
- `relocateObject` has no caller in src/.
- From `init-world.c`, the statistics, `sizeofInitialBytesLive`, the
  collection threshold, vector contents and globals are left out. The die on
  an unknown element size is left out too, because every table in the model
  has known sizes.
- `chase-lev-deque.h` holds only prototypes. The rest of `invariant.c`
  (`strongInvariantForMutatorFrontier`, `carefulInvariantForMutatorStack`,
  `displayStackInfo`, `invariantForMutator`) is assert-only debug code, and
  nothing in src/ calls it.
- The weak memory orderings are not modelled.
- Card marking and `forwardInterGenerationalObjptrs`' crossing map are not
  modelled. An old weak never points into the nursery at the start of a minor
  collection.
