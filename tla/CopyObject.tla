----------------------------- MODULE CopyObject -----------------------------
(***************************************************************************)
(* How a local collection places the objects it forwards into one level's *)
(* to-space chunk list (hierarchical-heap-collection.c): the to-space part *)
(* of forwardHHObjptr (lines 659-763), computeObjectCopyParameters and     *)
(* copyObject.                                                             *)
(*                                                                         *)
(* A chunk is [fr, lim, multi]: its frontier and limit as offsets from the *)
(* chunk's address, so the first block is the offsets below Block, and     *)
(* mightContainMultipleObjects.  A fresh chunk's frontier is Hdr, the size *)
(* of the chunk descriptor.  Each forwarded object is given by its tag,    *)
(* the size of its body and, for a stack, its used and reserved bytes.     *)
(* placed records where every copy went, to state the properties.          *)
(***************************************************************************)
EXTENDS Integers, Sequences, SequencesExt

CONSTANTS
    Block,        \* HM_BLOCK_SIZE
    Hdr,          \* offset of a fresh chunk's frontier (chunk descriptor)
    Slop,         \* GC_HEAP_LIMIT_SLOP
    NormalMeta,   \* GC_NORMAL_METADATA_SIZE
    SeqMeta,      \* GC_SEQUENCE_METADATA_SIZE
    StackMeta,    \* GC_STACK_METADATA_SIZE
    StackStruct,  \* sizeof (struct GC_stack)
    Bodies,       \* sizes of normal and sequence bodies
    Reserved,     \* values of stack->reserved
    MaxCopies,    \* objects forwarded into the list
    MaxChunks     \* chunks HM_allocateChunk can hand out

ASSUME /\ 0 < Hdr /\ Hdr < Block /\ 0 < Slop
       /\ Bodies \subseteq Nat /\ Reserved \subseteq Nat

VARIABLES
    list,     \* toSpace[level]: <<>> while NULL, else its chunks in order
    placed,   \* the copies: [c, start, osz, csz] (chunk, offset, sizes)
    moved,    \* number of single-object chunks moved into the list
    pc        \* "run" or "died"

coVars == <<list, placed, moved, pc>>

Tags == {"normal", "sequence", "stack"}

(* The objects the collection can forward: tag, body (objectSize before    *)
(* the metadata for normal objects and sequences), and a stack's used and  *)
(* reserved bytes.                                                         *)
Objects ==
    [tag : {"normal", "sequence"}, body : Bodies, used : {0}, reserved : {0}]
    \cup UNION {{[tag |-> "stack", body |-> 0, used |-> u, reserved |-> r] : u \in 0 .. r} :
                r \in Reserved}

(* HM_allocateChunk(list, n): a chunk of whole blocks with room for n      *)
(* bytes after its descriptor.                                             *)
ChunkLimit(n) == Block * ((n + Hdr + Block - 1) \div Block)
Fresh(n) == [fr |-> Hdr, lim |-> ChunkLimit(n), multi |-> TRUE]

(* computeObjectCopyParameters, lines 766-825: objectSize and copySize,    *)
(* metadata included.  A stack's reserved space is first shrunk to         *)
(* sizeofStackShrinkReserved (not under src/: any value between used and  *)
(* reserved); its copy leaves out the unused part.                        *)
CopyParams(o, shrunk) ==
    CASE o.tag = "normal" ->
            [osz |-> o.body + NormalMeta, csz |-> o.body + NormalMeta]
      [] o.tag = "sequence" ->
            [osz |-> o.body + SeqMeta, csz |-> o.body + SeqMeta]
      [] o.tag = "stack" ->
            LET r == IF shrunk < o.reserved THEN shrunk ELSE o.reserved
            IN  [osz |-> StackStruct + r + StackMeta,
                 csz |-> StackStruct + o.used + StackMeta]

Shrinks(o) == IF o.tag = "stack" THEN o.used .. o.reserved ELSE {0}

(* Lines 680-690: toSpace[level] is created on first use with a chunk for  *)
(* the object.                                                             *)
Target(osz) == IF list = <<>> THEN <<Fresh(osz)>> ELSE list

(* Mutant: the room test of line 844 left out.                             *)
CopyIntoNoRoomCheck(tl, osz, csz) ==
    LET c == Last(tl)
        l1 == IF c.fr >= Block THEN Append(tl, Fresh(osz)) ELSE tl
        k == Len(l1)
        start == l1[k].fr
        l2 == [l1 EXCEPT ![k].fr = start + osz]
    IN  [list |-> IF start + osz >= Block THEN Append(l2, Fresh(Slop)) ELSE l2,
         c |-> k, start |-> start]

(* Mutant: the frontier advanced by copySize (the stack's unused reserve  *)
(* is given away).                                                         *)
CopyIntoByCopySize(tl, osz, csz) ==
    LET c == Last(tl)
        l1 == IF c.lim - c.fr < osz \/ c.fr >= Block THEN Append(tl, Fresh(osz)) ELSE tl
        k == Len(l1)
        start == l1[k].fr
        l2 == [l1 EXCEPT ![k].fr = start + csz]
    IN  [list |-> IF start + csz >= Block THEN Append(l2, Fresh(Slop)) ELSE l2,
         c |-> k, start |-> start]

(* copyObject, lines 827-866, into the chunk list tl: use the last chunk  *)
(* unless it lacks objectSize bytes or its frontier has left the first    *)
(* block, in which case allocate a chunk for the object; copy copySize    *)
(* bytes, advance the frontier by objectSize, and if the new frontier has *)
(* left the first block allocate a fresh chunk after it.                  *)
CopyInto(tl, osz, csz) ==
    LET c == Last(tl)
        l1 == IF c.lim - c.fr < osz \/ c.fr >= Block THEN Append(tl, Fresh(osz)) ELSE tl
        k == Len(l1)
        start == l1[k].fr
        l2 == [l1 EXCEPT ![k].fr = start + osz]
    IN  [list |-> IF start + osz >= Block THEN Append(l2, Fresh(Slop)) ELSE l2,
         c |-> k, start |-> start]

(* A chunk the allocator cannot provide is DIE("Ran out of space ...").   *)
Fits(l) == Len(l) <= MaxChunks
Install(l) ==
    IF Fits(l) THEN list' = l /\ pc' = pc ELSE list' = list /\ pc' = "died"

-----------------------------------------------------------------------------
CoInit ==
    /\ list = <<>> /\ placed = <<>> /\ moved = 0 /\ pc = "run"

(* forwardHHObjptr, lines 659-690 and 729-742: an object of a multi-object *)
(* chunk is copied and gets a forwarding pointer to its copy.              *)
CopyObj ==
    /\ pc = "run" /\ Len(placed) + moved < MaxCopies
    /\ \E o \in Objects : \E s \in Shrinks(o) :
          LET p == CopyParams(o, s)
              r == CopyInto(Target(p.osz), p.osz, p.csz)
          IN  /\ Install(r.list)
              /\ placed' = IF Fits(r.list)
                              THEN Append(placed, [c |-> r.c, start |-> r.start,
                                                   osz |-> p.osz, csz |-> p.csz])
                              ELSE placed
    /\ UNCHANGED moved

(* Mutant: the fresh chunk after a moved chunk is not allocated.          *)
MoveChunkNoSlop ==
    /\ pc = "run" /\ Len(placed) + moved < MaxCopies
    /\ \E o \in Objects :
          LET osz == CopyParams(o, o.reserved).osz
          IN  Install(Append(Target(osz), [fr |-> Hdr + osz, lim |-> ChunkLimit(osz),
                                             multi |-> FALSE]))
    /\ moved' = moved + 1
    /\ UNCHANGED placed

(* forwardHHObjptr, lines 659-690 and 703-727: an object alone in its     *)
(* chunk is not copied; the chunk is unlinked and appended to the list,   *)
(* then a fresh chunk is allocated so that later copies do not use the    *)
(* moved chunk's frontier.                                                 *)
MoveChunk ==
    /\ pc = "run" /\ Len(placed) + moved < MaxCopies
    /\ \E o \in Objects :
          LET osz == CopyParams(o, o.reserved).osz
          IN  Install(Append(Append(Target(osz), [fr |-> Hdr + osz, lim |-> ChunkLimit(osz),
                                                    multi |-> FALSE]),
                             Fresh(Slop)))
    /\ moved' = moved + 1
    /\ UNCHANGED placed

CoNext == CopyObj \/ MoveChunk

CoSpec == CoInit /\ [][CoNext]_coVars
-----------------------------------------------------------------------------
CopyTypeOK ==
    /\ list \in Seq([fr : Nat, lim : Nat, multi : BOOLEAN]) /\ Len(list) <= MaxChunks
    /\ \A i \in DOMAIN list : Hdr <= list[i].fr /\ list[i].fr <= list[i].lim
    /\ placed \in Seq([c : Nat, start : Nat, osz : Nat, csz : Nat])
    /\ moved \in Nat /\ pc \in {"run", "died"}

(* copyObject advances the frontier by objectSize, not copySize (line 855),*)
(* so a later copy into the same chunk never lands in an earlier object,  *)
(* a stack's reserved but unused tail included.                           *)
CopiesDisjoint ==
    \A i, j \in DOMAIN placed :
        i < j /\ placed[i].c = placed[j].c =>
            placed[i].start + placed[i].osz <= placed[j].start

(* What the SAM_NOTE at lines 408-415 expects of to-space: the last chunk *)
(* of the list, where the next copy goes and where the mutator may resume,*)
(* can hold several objects and has its frontier in its first block,      *)
(* whatever mix of copies and moved single-object chunks came before.     *)
ToSpaceTail ==
    list # <<>> => Last(list).multi /\ Last(list).fr < Block
=============================================================================
