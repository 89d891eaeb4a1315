---------------------------- MODULE HHCollection ----------------------------
(***************************************************************************)
(* The copying part of HM_HHC_collectLocal (hierarchical-heap-            *)
(* collection.c): root forwarding, the level-by-level Cheney scan of the  *)
(* to-space, and the freeing of the collected levels.                     *)
(*                                                                         *)
(* The heap is a graph of objects.  Each object has a level (its depth in *)
(* the hierarchical heap) and one pointer slot.  An address is a pair     *)
(* <<o, 0>> (where o was allocated) or <<o, 1>> (its to-space copy made   *)
(* by copyObject).  An object in a single-object chunk is relocated by    *)
(* moving its chunk: its address stays <<o, 0>> and it is in to-space.    *)
(* The collection runs on one worker and nothing else touches levels      *)
(* [MinLevel, CurrentDepth] meanwhile, so its steps are one slot each.    *)
(***************************************************************************)
EXTENDS Integers, Sequences, FiniteSets

CONSTANTS
    Objects,       \* heap objects
    Stack,         \* the current stack object (getStackCurrent)
    Thread,        \* the current thread object (s->currentThread)
    Level,         \* [Objects -> levels]: HM_getObjptrLevel
    MinLevel,      \* forwardHHObjptrArgs.minLevel after the claim
    CurrentDepth,  \* thread->currentDepth = forwardHHObjptrArgs.maxLevel
    DequeLen,      \* number of slots of the deque object s->wsQueue
    Null           \* a non-pointer value (isObjptr fails)

ASSUME /\ {Stack, Thread} \subseteq Objects /\ Stack # Thread
       /\ Level \in [Objects -> 0 .. CurrentDepth]
       /\ MinLevel \in 1 .. CurrentDepth

Addr == Objects \X {0, 1}
Obj(a) == a[1]
Lvl(a) == Level[a[1]]
InRange(l) == MinLevel <= l /\ l <= CurrentDepth
Levels == 0 .. CurrentDepth

VARIABLES
    mem,       \* [Addr -> Addr \cup {Null}]: the pointer slot at each address
    fwd,       \* [Objects -> Addr \cup {Null}]: forwarding pointer of <<o,0>>
    single,    \* objects allocated in a chunk with !mightContainMultipleObjects
    curThread, \* s->currentThread
    deque,     \* [1 .. DequeLen -> Addr \cup {Null}]: the deque's data slots
    downPtrs,  \* globalDownPtrs from HM_deferredPromote not yet forwarded
    remset,    \* [Levels -> SUBSET Objects]: remembered sets of to-space levels
    toSpace,   \* [Levels -> Seq(Addr)]: to-space chunk lists in address order
    phase,     \* "stack", "thread", "current", "deque", "down", "scan", "done"
    depth,     \* level the Cheney scan is at
    scanned,   \* objects of toSpace[depth] already scanned
    freed      \* addresses whose chunks went to the free list

hhVars == <<mem, fwd, single, curThread, deque, downPtrs, remset, toSpace,
            phase, depth, scanned, freed>>

InToSpace(a) == \E k \in DOMAIN toSpace[Lvl(a)] : toSpace[Lvl(a)][k] = a

-----------------------------------------------------------------------------
(* Mutant: a single-object chunk is unlinked but never appended to the   *)
(* to-space list of its level.                                             *)
ForwardResultNoAppend(a) ==
    LET keep == [addr |-> a, fwd |-> fwd, mem |-> mem, toSpace |-> toSpace]
    IN  CASE a = Null             -> keep
          [] Lvl(a) < MinLevel    -> keep
          [] a[2] = 0 /\ fwd[Obj(a)] # Null ->
                 [keep EXCEPT !.addr = fwd[Obj(a)]]
          [] InToSpace(a)         -> keep
          [] Obj(a) \in single    -> keep
          [] OTHER ->
                 LET c == <<Obj(a), 1>>
                 IN  [addr |-> c,
                      fwd |-> [fwd EXCEPT ![Obj(a)] = c],
                      mem |-> [mem EXCEPT ![c] = mem[a]],
                      toSpace |-> [toSpace EXCEPT ![Lvl(a)] = Append(@, c)]]

(* forwardHHObjptr (lines 577-763) applied to the value a of a slot: the  *)
(* new slot value, and the forwarding pointers, slots and to-space after  *)
(* the call.  Not a pointer, or below minLevel: untouched.  Forwarded:    *)
(* follow the forwarding pointer.  Already in to-space: untouched.  In a  *)
(* single-object chunk: move the chunk to to-space, no forwarding pointer *)
(* (lines 704-730).  Otherwise copy it to the end of toSpace[level] and   *)
(* install a forwarding pointer (copyObject, lines 732-748).               *)
ForwardResult(a) ==
    LET keep == [addr |-> a, fwd |-> fwd, mem |-> mem, toSpace |-> toSpace]
    IN  CASE a = Null             -> keep
          [] Lvl(a) < MinLevel    -> keep
          [] a[2] = 0 /\ fwd[Obj(a)] # Null ->
                 [keep EXCEPT !.addr = fwd[Obj(a)]]
          [] InToSpace(a)         -> keep
          [] Obj(a) \in single    ->
                 [keep EXCEPT !.toSpace[Lvl(a)] = Append(@, a)]
          [] OTHER ->
                 LET c == <<Obj(a), 1>>
                 IN  [addr |-> c,
                      fwd |-> [fwd EXCEPT ![Obj(a)] = c],
                      mem |-> [mem EXCEPT ![c] = mem[a]],
                      toSpace |-> [toSpace EXCEPT ![Lvl(a)] = Append(@, c)]]

(* Forward the slot of address h in place: *opp = forwarded value.         *)
ForwardSlotOf(h) ==
    LET r == ForwardResult(mem[h])
    IN  /\ mem' = [r.mem EXCEPT ![h] = r.addr]
        /\ fwd' = r.fwd
        /\ toSpace' = r.toSpace

(* getStackCurrent: the thread object's stack field (thread->stack).       *)
StackAddr == mem[curThread]

-----------------------------------------------------------------------------
(* Lines 224-233: forward every objptr in the current stack.               *)
ForwardStack ==
    /\ phase = "stack"
    /\ ForwardSlotOf(StackAddr)
    /\ phase' = "thread"
    /\ UNCHANGED <<single, curThread, deque, downPtrs, remset, depth, scanned, freed>>

(* Lines 242-251: forward every objptr in the current thread object        *)
(* (its stack field), reached through s->currentThread.                    *)
ForwardThread ==
    /\ phase = "thread"
    /\ ForwardSlotOf(curThread)
    /\ phase' = "current"
    /\ UNCHANGED <<single, curThread, deque, downPtrs, remset, depth, scanned, freed>>

(* Lines 260-265: forward s->currentThread itself.                         *)
ForwardCurrentThread ==
    /\ phase = "current"
    /\ LET r == ForwardResult(curThread)
       IN  /\ curThread' = r.addr /\ mem' = r.mem
           /\ fwd' = r.fwd /\ toSpace' = r.toSpace
    /\ phase' = "deque"
    /\ UNCHANGED <<single, deque, downPtrs, remset, depth, scanned, freed>>

(* Lines 274-283: forward every objptr in the deque object, in order     *)
(* (scanned counts the slots done).                                         *)
ForwardDequeSlot ==
    /\ phase = "deque" /\ scanned < DequeLen
    /\ LET i == scanned + 1
           r == ForwardResult(deque[i])
       IN  /\ deque' = [deque EXCEPT ![i] = r.addr] /\ mem' = r.mem
           /\ fwd' = r.fwd /\ toSpace' = r.toSpace
    /\ scanned' = scanned + 1
    /\ UNCHANGED <<single, curThread, downPtrs, remset, phase, depth, freed>>

DequeDone ==
    /\ phase = "deque" /\ scanned = DequeLen
    /\ phase' = "down"
    /\ UNCHANGED <<mem, fwd, single, curThread, deque, downPtrs, remset, toSpace,
                   depth, scanned, freed>>

(* Lines 296-298, forwardDownPtr (560-573): for a remembered down-pointer *)
(* from dst, forward src, store it in dst's field and remember it in the  *)
(* to-space remembered set of src's level.                                 *)
ForwardDownPtr(dst) ==
    /\ phase = "down" /\ dst \in downPtrs
    /\ LET h == <<dst, 0>>
           r == ForwardResult(mem[h])
       IN  /\ mem' = [r.mem EXCEPT ![h] = r.addr]
           /\ fwd' = r.fwd /\ toSpace' = r.toSpace
           /\ remset' = [remset EXCEPT ![Lvl(r.addr)] = @ \cup {dst}]
    /\ downPtrs' = downPtrs \ {dst}
    /\ UNCHANGED <<single, curThread, deque, phase, depth, scanned, freed>>

DownDone ==
    /\ phase = "down" /\ downPtrs = {}
    /\ phase' = "scan" /\ depth' = CurrentDepth /\ scanned' = 0
    /\ UNCHANGED <<mem, fwd, single, curThread, deque, downPtrs, remset, toSpace, freed>>

(* skipStackAndThreadObjptrPredicate (lines 868-890): objects with a     *)
(* stack or thread header are not scanned; the code asserts they are the  *)
(* current stack and thread, the only ones of those kinds here.           *)
SkipStackAndThread(x) == Obj(x) \in {Stack, Thread}

(* Mutant: the skip path of the predicate does not advance the cursor.  *)
ScanObjectStuckOnSkip ==
    /\ phase = "scan" /\ scanned < Len(toSpace[depth])
    /\ LET x == toSpace[depth][scanned + 1]
       IN  IF SkipStackAndThread(x)
              THEN UNCHANGED <<mem, fwd, toSpace, scanned>>
              ELSE ForwardSlotOf(x) /\ scanned' = scanned + 1
    /\ UNCHANGED <<single, curThread, deque, downPtrs, remset, phase, depth, freed>>

(* Mutant: the level loop has no lower bound (depth >= minLevel dropped). *)
ScanNextLevelNoFloor ==
    /\ phase = "scan" /\ scanned = Len(toSpace[depth])
    /\ depth' = depth - 1 /\ scanned' = 0
    /\ UNCHANGED <<mem, fwd, single, curThread, deque, downPtrs, remset, toSpace,
                   phase, freed>>

(* Lines 316-330: for depth = currentDepth down to minLevel, scan         *)
(* toSpace[depth] left to right, including objects appended meanwhile,    *)
(* forwarding the slots of every object but the stack and the thread      *)
(* (skipStackAndThreadObjptrPredicate, lines 868-890).                     *)
ScanObject ==
    /\ phase = "scan" /\ scanned < Len(toSpace[depth])
    /\ LET x == toSpace[depth][scanned + 1]
       IN  IF SkipStackAndThread(x)
              THEN UNCHANGED <<mem, fwd, toSpace>>
              ELSE ForwardSlotOf(x)
    /\ scanned' = scanned + 1
    /\ UNCHANGED <<single, curThread, deque, downPtrs, remset, phase, depth, freed>>

ScanNextLevel ==
    /\ phase = "scan" /\ scanned = Len(toSpace[depth]) /\ depth > MinLevel
    /\ depth' = depth - 1 /\ scanned' = 0
    /\ UNCHANGED <<mem, fwd, single, curThread, deque, downPtrs, remset, toSpace,
                   phase, freed>>

(* Lines 367-390: every chunk of levels [minLevel, currentDepth] goes to  *)
(* the free list; the to-space lists (holding the moved single-object     *)
(* chunks) become the levels.                                              *)
FreeAndMerge ==
    /\ phase = "scan" /\ scanned = Len(toSpace[depth]) /\ depth = MinLevel
    /\ freed' = {a \in Addr : a[2] = 0 /\ InRange(Lvl(a)) /\ ~InToSpace(a)}
    /\ phase' = "done"
    /\ UNCHANGED <<mem, fwd, single, curThread, deque, downPtrs, remset, toSpace,
                   depth, scanned>>

-----------------------------------------------------------------------------
(* Heaps the collection can start from: the thread's stack field holds    *)
(* the stack, which lives in a single-object chunk (invariantForMutator-  *)
(* Stack); a slot points to the same or a shallower level, except slots   *)
(* of objects below minLevel, whose down-pointers into the collected      *)
(* levels are exactly the globalDownPtrs.                                  *)
Targets(o) == {<<p, 0>> : p \in {q \in Objects : Level[q] <= Level[o] \/ Level[o] < MinLevel}}
              \cup {Null}

HHInit ==
    /\ \E ptr \in [Objects -> {<<o, 0>> : o \in Objects} \cup {Null}] :
          /\ \A o \in Objects : ptr[o] \in Targets(o)
          /\ ptr[Thread] = <<Stack, 0>>
          /\ mem = [a \in Addr |-> IF a[2] = 0 THEN ptr[a[1]] ELSE Null]
    /\ fwd = [o \in Objects |-> Null]
    /\ single \in {X \in SUBSET Objects : Stack \in X}
    /\ curThread = <<Thread, 0>>
    /\ deque \in [1 .. DequeLen -> {<<o, 0>> : o \in Objects} \cup {Null}]
    /\ downPtrs = {o \in Objects : Level[o] < MinLevel /\ mem[<<o, 0>>] # Null
                                  /\ InRange(Lvl(mem[<<o, 0>>]))}
    /\ remset = [l \in Levels |-> {}]
    /\ toSpace = [l \in Levels |-> <<>>]
    /\ phase = "stack" /\ depth = CurrentDepth /\ scanned = 0
    /\ freed = {}

HHNext ==
    \/ ForwardStack \/ ForwardThread \/ ForwardCurrentThread
    \/ ForwardDequeSlot
    \/ DequeDone
    \/ \E dst \in Objects : ForwardDownPtr(dst)
    \/ DownDone \/ ScanObject \/ ScanNextLevel \/ FreeAndMerge

(* collectLocal is straight-line code run by one worker that nothing     *)
(* preempts for good: once called it keeps taking steps.                   *)
HHSpec == HHInit /\ [][HHNext]_hhVars /\ WF_hhVars(HHNext)

-----------------------------------------------------------------------------
HHTypeOK ==
    /\ mem \in [Addr -> Addr \cup {Null}]
    /\ fwd \in [Objects -> Addr \cup {Null}]
    /\ single \subseteq Objects
    /\ curThread \in Addr
    /\ deque \in [1 .. DequeLen -> Addr \cup {Null}]
    /\ downPtrs \subseteq Objects
    /\ remset \in [Levels -> SUBSET Objects]
    /\ \A l \in Levels : toSpace[l] \in Seq(Addr)
    /\ phase \in {"stack", "thread", "current", "deque", "down", "scan", "done"}
    /\ depth \in Levels /\ scanned \in Nat
    /\ freed \subseteq Addr

(* Addresses reachable from s->currentThread, the deque slots and every   *)
(* object below minLevel (which the local collection does not reclaim).   *)
RECURSIVE Closure(_)
Closure(R) ==
    LET next == (R \cup {mem[a] : a \in R}) \ {Null}
    IN  IF next = R THEN R ELSE Closure(next)

Live == Closure(({curThread} \cup {deque[i] : i \in 1 .. DequeLen}
                 \cup {<<o, 0>> : o \in {p \in Objects : Level[p] < MinLevel}})
                \ {Null})

(* Spec 8.4: when the collection is over, nothing reachable is in a chunk  *)
(* that went to the free list.  Roots forwarded in the wrong order, a     *)
(* level scanned before a deeper one that can still add objects to it, or *)
(* a skipped object whose slots were never forwarded all leave a live     *)
(* pointer into from-space.                                                *)
NoDanglingAfterCollection ==
    phase = "done" => Live \cap freed = {}

(* The collection finishes: the level-by-level Cheney scan reaches the   *)
(* end of every to-space list although scanning appends to them, and the  *)
(* scan never waits on a level it already left.                           *)
CollectionTerminates == <>(phase = "done")
=============================================================================
