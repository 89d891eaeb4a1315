----------------------------- MODULE CheneyCopy -----------------------------
(***************************************************************************)
(* The two-space copying collector of src/runtime/gc/cheney-copy.c:      *)
(* majorCheneyCopyGC, minorCheneyCopyGC, updateWeaksForCheneyCopy and     *)
(* swapHeapsForCheneyCopy.                                                 *)
(*                                                                         *)
(* Objects have one pointer slot; a weak object's slot is its objptr,    *)
(* which the scan does not trace.  An address is <<o, 0>> (where o was    *)
(* allocated) or <<o, 1>> (its copy).  Every object has the same size, so *)
(* sizes and oldGenSize count objects.  The collector runs alone.         *)
(* forwardObjptr, foreachGlobalObjptr and forwardInterGenerationalObjptrs *)
(* are not under src/: they are modelled after spec sections 4.6-4.7 and  *)
(* the MLton forwarding they are taken from, which links a copied weak    *)
(* onto s->weaks only when its objptr is a pointer and, in a minor GC,    *)
(* points into the nursery.                                                *)
(***************************************************************************)
EXTENDS Integers, Sequences, FiniteSets

CONSTANTS
    Objects,   \* heap objects
    Weak,      \* objects with WEAK_TAG
    NGlobals,  \* number of global objptrs
    Null       \* BOGUS_OBJPTR / a non-pointer

ASSUME /\ Weak \subseteq Objects /\ NGlobals \in Nat

Addr == Objects \X {0, 1}
Obj(a) == a[1]
Heaps == {"A", "B"}

VARIABLES
    nursery,    \* objects allocated in the nursery (s->heap.nursery .. frontier)
    canMinor,   \* s->canMinor
    mem,        \* [Addr -> Addr \cup {Null}]: the slot at each address
    fwd,        \* [Objects -> Addr \cup {Null}]: GC_FORWARDED header + target
    gone,       \* addresses whose header is GC_WEAK_GONE_HEADER
    globals,    \* [1 .. NGlobals -> Addr \cup {Null}]
    amInMinor,  \* s->forwardState.amInMinorGC
    back,       \* objects copied since toStart, in order (toStart .. back)
    scan,       \* how many of them the scan has done
    weaks,      \* s->weaks, most recently linked first
    heap,       \* which of the two heaps is s->heap
    oldGenSize, \* [Heaps -> Nat]: oldGenSize of each heap
    kind,       \* "major" or "minor": the collection in progress
    pc,         \* "idle", "globals", "intergen", "scan", "weaks", "done"
    gi,         \* next global to forward
    weak0       \* [Weak -> Addr \cup {Null}]: each weak's objptr before GC

vars == <<nursery, canMinor, mem, fwd, gone, globals, amInMinor, back, scan, weaks, heap,
          oldGenSize, kind, pc, gi, weak0>>

Old == Objects \ nursery

Other(h) == CHOOSE x \in Heaps : x # h

-----------------------------------------------------------------------------
(* forwardObjptr (major) and forwardObjptrIfInNursery (minor) applied to  *)
(* the value a of a slot: the new value, the headers, memory, to-space    *)
(* and weak chain after the call.  A from-space object that is already    *)
(* forwarded yields its forwarding pointer; otherwise it is copied to     *)
(* back and a forwarding header installed, and a copied weak is linked.   *)
InFromSpace(a) ==
    /\ a # Null /\ a[2] = 0
    /\ kind = "major" \/ Obj(a) \in nursery

LinksWeak(a) ==
    /\ Obj(a) \in Weak /\ mem[a] # Null
    /\ ~amInMinor \/ (mem[a][2] = 0 /\ Obj(mem[a]) \in nursery)

Forward(a) ==
    LET keep == [addr |-> a, fwd |-> fwd, mem |-> mem, back |-> back,
                 weaks |-> weaks]
        c == <<Obj(a), 1>>
    IN  CASE ~InFromSpace(a)     -> keep
          [] fwd[Obj(a)] # Null  -> [keep EXCEPT !.addr = fwd[Obj(a)]]
          [] OTHER ->
                [addr |-> c,
                 fwd |-> [fwd EXCEPT ![Obj(a)] = c],
                 mem |-> [mem EXCEPT ![c] = mem[a]],
                 back |-> Append(back, c),
                 weaks |-> IF LinksWeak(a) THEN <<c>> \o weaks ELSE weaks]

(* Forward the slot at address h in place.                                 *)
ForwardSlot(h) ==
    LET r == Forward(mem[h])
    IN  /\ mem' = [r.mem EXCEPT ![h] = r.addr]
        /\ fwd' = r.fwd /\ back' = r.back /\ weaks' = r.weaks

-----------------------------------------------------------------------------
(* Mutant: amInMinorGC is not reset (line 57 left out).                 *)
MajorBeginNoReset ==
    /\ pc = "idle"
    /\ kind' = "major"
    /\ back' = <<>> /\ scan' = 0 /\ gi' = 1
    /\ pc' = "globals"
    /\ UNCHANGED <<nursery, canMinor, mem, fwd, gone, globals, amInMinor, weaks, heap,
                   oldGenSize, weak0>>

(* majorCheneyCopyGC, lines 53-76: amInMinorGC = FALSE, toStart and back  *)
(* at the start of the secondary heap.                                     *)
MajorBegin ==
    /\ pc = "idle"
    /\ kind' = "major" /\ amInMinor' = FALSE
    /\ back' = <<>> /\ scan' = 0 /\ gi' = 1
    /\ pc' = "globals"
    /\ UNCHANGED <<nursery, canMinor, mem, fwd, gone, globals, weaks, heap, oldGenSize, weak0>>

(* Mutant: promotion in place subtracts bytesAllocated (operands of      *)
(* line 106 swapped, or line 111 written with -=).                        *)
MinorBeginSubtracts ==
    /\ pc = "idle"
    /\ kind' = "minor"
    /\ CASE nursery = {} ->
              pc' = "done" /\ UNCHANGED <<amInMinor, oldGenSize>>
         [] ~canMinor ->
              /\ oldGenSize' = [oldGenSize EXCEPT ![heap] = @ - Cardinality(nursery)]
              /\ pc' = "done" /\ UNCHANGED amInMinor
         [] OTHER ->
              amInMinor' = TRUE /\ pc' = "globals" /\ UNCHANGED oldGenSize
    /\ back' = <<>> /\ scan' = 0 /\ gi' = 1
    /\ UNCHANGED <<nursery, canMinor, mem, fwd, gone, globals, weaks, heap, weak0>>

(* minorCheneyCopyGC, lines 106-130: nothing allocated returns at once;   *)
(* without canMinor the nursery is promoted in place; otherwise           *)
(* amInMinorGC = TRUE and toStart = start + oldGenSize.                   *)
MinorBegin ==
    /\ pc = "idle"
    /\ kind' = "minor"
    /\ CASE nursery = {} ->
              pc' = "done" /\ UNCHANGED <<amInMinor, oldGenSize>>
         [] ~canMinor ->
              /\ oldGenSize' = [oldGenSize EXCEPT ![heap] = @ + Cardinality(nursery)]
              /\ pc' = "done" /\ UNCHANGED amInMinor
         [] OTHER ->
              amInMinor' = TRUE /\ pc' = "globals" /\ UNCHANGED oldGenSize
    /\ back' = <<>> /\ scan' = 0 /\ gi' = 1
    /\ UNCHANGED <<nursery, canMinor, mem, fwd, gone, globals, weaks, heap, weak0>>

(* Lines 77 and 134: foreachGlobalObjptr, one global at a time.            *)
ForwardGlobal ==
    /\ pc = "globals" /\ gi <= NGlobals
    /\ LET r == Forward(globals[gi])
       IN  /\ globals' = [globals EXCEPT ![gi] = r.addr]
           /\ mem' = r.mem /\ fwd' = r.fwd /\ back' = r.back /\ weaks' = r.weaks
    /\ gi' = gi + 1
    /\ UNCHANGED <<nursery, canMinor, gone, amInMinor, scan, heap, oldGenSize, kind, pc, weak0>>

GlobalsDone ==
    /\ pc = "globals" /\ gi > NGlobals
    /\ pc' = IF kind = "minor" THEN "intergen" ELSE "scan"
    /\ UNCHANGED <<nursery, canMinor, mem, fwd, gone, globals, amInMinor, back, scan, weaks, heap,
                   oldGenSize, kind, gi, weak0>>

(* Line 135, forwardInterGenerationalObjptrs: the slots of old objects    *)
(* that point into the nursery are roots of a minor collection.           *)
ForwardInterGen(o) ==
    /\ pc = "intergen" /\ o \in Old /\ o \notin Weak
    /\ mem[<<o, 0>>] # Null /\ InFromSpace(mem[<<o, 0>>])
    /\ ForwardSlot(<<o, 0>>)
    /\ UNCHANGED <<nursery, canMinor, gone, globals, amInMinor, scan, heap, oldGenSize, kind, pc, gi, weak0>>

(* Mutant: the inter-generational roots are not forwarded (line 135).     *)
InterGenSkipped ==
    /\ pc = "intergen"
    /\ pc' = "scan"
    /\ UNCHANGED <<nursery, canMinor, mem, fwd, gone, globals, amInMinor, back, scan, weaks, heap,
                   oldGenSize, kind, gi, weak0>>

InterGenDone ==
    /\ pc = "intergen"
    /\ \A o \in Old \ Weak : mem[<<o, 0>>] = Null \/ ~InFromSpace(mem[<<o, 0>>])
    /\ pc' = "scan"
    /\ UNCHANGED <<nursery, canMinor, mem, fwd, gone, globals, amInMinor, back, scan, weaks, heap,
                   oldGenSize, kind, gi, weak0>>

(* Mutant: the scan traces weak objptrs (skipWeaks FALSE at line 78).   *)
ScanStepTracesWeak ==
    /\ pc = "scan" /\ scan < Len(back)
    /\ ForwardSlot(back[scan + 1])
    /\ scan' = scan + 1
    /\ UNCHANGED <<nursery, canMinor, gone, globals, amInMinor, heap, oldGenSize, kind, pc, gi, weak0>>

(* Mutant: the scan does not advance past a weak object.                  *)
ScanStepStuckOnWeak ==
    /\ pc = "scan" /\ scan < Len(back)
    /\ LET x == back[scan + 1]
       IN  IF Obj(x) \in Weak THEN UNCHANGED <<mem, fwd, back, weaks, scan>>
                              ELSE ForwardSlot(x) /\ scan' = scan + 1
    /\ UNCHANGED <<nursery, canMinor, gone, globals, amInMinor, heap, oldGenSize, kind, pc, gi, weak0>>

(* Lines 78 and 136-137: foreachObjptrInRange(toStart, &back, ..., TRUE)  *)
(* scans the copies in order, including those it appends, and skips the   *)
(* objptr of a weak object.                                                *)
ScanStep ==
    /\ pc = "scan" /\ scan < Len(back)
    /\ LET x == back[scan + 1]
       IN  IF Obj(x) \in Weak THEN UNCHANGED <<mem, fwd, back, weaks>>
                              ELSE ForwardSlot(x)
    /\ scan' = scan + 1
    /\ UNCHANGED <<nursery, canMinor, gone, globals, amInMinor, heap, oldGenSize, kind, pc, gi, weak0>>

ScanDone ==
    /\ pc = "scan" /\ scan = Len(back)
    /\ pc' = "weaks"
    /\ UNCHANGED <<nursery, canMinor, mem, fwd, gone, globals, amInMinor, back, scan, weaks, heap,
                   oldGenSize, kind, gi, weak0>>

(* updateWeaksForCheneyCopy, lines 17-35, one weak of the chain: if its   *)
(* target's header is GC_FORWARDED take the forwarding pointer, else give *)
(* the weak the GC_WEAK_GONE_HEADER and set its objptr to BOGUS_OBJPTR.    *)
UpdateWeak ==
    /\ pc = "weaks" /\ weaks # <<>>
    /\ LET w == Head(weaks)
           p == mem[w]
       IN  IF fwd[Obj(p)] # Null
              THEN mem' = [mem EXCEPT ![w] = fwd[Obj(p)]] /\ UNCHANGED gone
              ELSE mem' = [mem EXCEPT ![w] = Null] /\ gone' = gone \cup {w}
    /\ weaks' = Tail(weaks)
    /\ UNCHANGED <<nursery, canMinor, fwd, globals, amInMinor, back, scan, heap, oldGenSize, kind, pc, gi, weak0>>

(* Line 36 (s->weaks = NULL), then majorCheneyCopyGC lines 80-84: the     *)
(* secondary heap's oldGenSize is what was copied and the heaps swap;     *)
(* minorCheneyCopyGC lines 139-141: oldGenSize grows by what was copied.  *)
WeaksDone ==
    /\ pc = "weaks" /\ weaks = <<>>
    /\ IF kind = "major"
          THEN /\ oldGenSize' = [oldGenSize EXCEPT ![Other(heap)] = Len(back)]
               /\ heap' = Other(heap)
          ELSE /\ oldGenSize' = [oldGenSize EXCEPT ![heap] = @ + Len(back)]
               /\ UNCHANGED heap
    /\ pc' = "done"
    /\ UNCHANGED <<nursery, canMinor, mem, fwd, gone, globals, amInMinor, back, scan, weaks, kind, gi, weak0>>

-----------------------------------------------------------------------------
(* Any heap the mutator can leave: slots hold original addresses or Null; *)
(* an old weak does not point into the nursery (its referent would need  *)
(* the card-marking path, not modelled).  amInMinorGC is whatever the     *)
(* previous collection left.                                               *)
Init ==
    /\ nursery \in SUBSET Objects
    /\ canMinor \in BOOLEAN
    /\ mem \in {m \in [Addr -> {<<o, 0>> : o \in Objects} \cup {Null}] :
                  /\ \A o \in Objects : m[<<o, 1>>] = Null
                  /\ \A w \in Weak \cap Old :
                        m[<<w, 0>>] = Null \/ Obj(m[<<w, 0>>]) \in Old}
    /\ fwd = [o \in Objects |-> Null]
    /\ gone = {}
    /\ globals \in [1 .. NGlobals -> {<<o, 0>> : o \in Objects} \cup {Null}]
    /\ amInMinor \in BOOLEAN
    /\ back = <<>> /\ scan = 0 /\ weaks = <<>>
    /\ heap = "A"
    /\ oldGenSize = [h \in Heaps |-> IF h = "A" THEN Cardinality(Old) ELSE 0]
    /\ kind = "major" /\ pc = "idle" /\ gi = 1
    /\ weak0 = [w \in Weak |-> mem[<<w, 0>>]]

Next ==
    \/ MajorBegin \/ MinorBegin
    \/ ForwardGlobal \/ GlobalsDone
    \/ \E o \in Objects : ForwardInterGen(o)
    \/ InterGenDone \/ ScanStep \/ ScanDone \/ UpdateWeak \/ WeaksDone

(* One collection runs to its end once called.                            *)
Spec == Init /\ [][Next]_vars /\ WF_vars(Next)

-----------------------------------------------------------------------------
TypeOK ==
    /\ nursery \subseteq Objects /\ canMinor \in BOOLEAN
    /\ mem \in [Addr -> Addr \cup {Null}]
    /\ fwd \in [Objects -> Addr \cup {Null}]
    /\ gone \subseteq Addr
    /\ globals \in [1 .. NGlobals -> Addr \cup {Null}]
    /\ amInMinor \in BOOLEAN
    /\ back \in Seq(Addr) /\ scan \in 0 .. Len(back)
    /\ weaks \in Seq(Addr)
    /\ heap \in Heaps /\ oldGenSize \in [Heaps -> Nat]
    /\ kind \in {"major", "minor"}
    /\ pc \in {"idle", "globals", "intergen", "scan", "weaks", "done"}

(* The objects of s->heap once the collection is over: after a major GC   *)
(* the copies; after a minor GC the old generation, the nursery promoted  *)
(* in place (no canMinor, or nothing allocated) or its copies.            *)
Promoted == kind = "minor" /\ (~canMinor \/ nursery = {})

InHeap(a) ==
    \/ a[2] = 1
    \/ kind = "minor" /\ (Obj(a) \in Old \/ Promoted)

(* Addresses reachable through strong slots (a weak's objptr is not one)   *)
(* from the globals and, in a minor GC, from the old generation.          *)
RECURSIVE StrongClosure(_)
StrongClosure(R) ==
    LET next == (R \cup {mem[a] : a \in {x \in R : Obj(x) \notin Weak}}) \ {Null}
    IN  IF next = R THEN R ELSE StrongClosure(next)

Reachable ==
    StrongClosure(({globals[i] : i \in 1 .. NGlobals}
                   \cup (IF kind = "minor" THEN {<<o, 0>> : o \in Old} ELSE {}))
                  \ {Null})

Survives(o) == Promoted \/ \E a \in Reachable : Obj(a) = o

(* Spec 8.4 for the root heap: after a collection every object reachable *)
(* from the roots is in s->heap, so no strong pointer into the from-space *)
(* is left.  Breaks if a root kind is not forwarded, the scan stops short *)
(* of copies it appended, or the minor GC misses inter-generational roots.*)
CheneyNoDangling ==
    pc = "done" => \A a \in Reachable : InHeap(a)

(* Spec 8.8: after a collection, a reachable weak whose referent survives *)
(* points to the referent's new address, and one whose referent died has  *)
(* GC_WEAK_GONE_HEADER and BOGUS_OBJPTR.  Depends on which weaks forward-  *)
(* ing links (amInMinorGC, set at lines 57 and 120) and on the fixup of   *)
(* updateWeaksForCheneyCopy.                                              *)
WeakFixup ==
    pc = "done" =>
        \A w \in Reachable :
            (Obj(w) \in Weak /\ weak0[Obj(w)] # Null) =>
                IF Survives(Obj(weak0[Obj(w)]))
                   THEN mem[w] # Null /\ InHeap(mem[w])
                        /\ Obj(mem[w]) = Obj(weak0[Obj(w)])
                   ELSE mem[w] = Null /\ w \in gone

(* Weak references are traceless: the collector keeps nothing that only  *)
(* a weak objptr reaches; every copy it made is strongly reachable.       *)
WeakDoesNotRetain ==
    pc = "done" => \A k \in 1 .. Len(back) : back[k] \in Reachable

(* A collection, once called, finishes.                                   *)
CheneyTerminates == <>(pc = "done")
=============================================================================
