--------------------------- MODULE ChaseLevDeque ---------------------------
(***************************************************************************)
(* The Chase-Lev work-stealing deque of src/runtime/gc/chase-lev-deque.c. *)
(*                                                                         *)
(* One owner thread calls ChaseLev_pushBot, ChaseLev_tryPopBot and        *)
(* ChaseLev_setDepth; every thief calls ChaseLev_tryPopTop.  Each atomic   *)
(* load, store or compare-and-swap of top, bot or a data slot is one step *)
(* (or is merged with an adjacent access that no other thread can tell     *)
(* apart).  Memory is sequentially consistent: the model checks the        *)
(* algorithm's interleavings, not the C11 weak orderings.                  *)
(*                                                                         *)
(* top and bot are uint64_t in the code; here they are words of WordBits   *)
(* bits, so that the unsigned wrap-around of `bot - 1` and `bot - top` is  *)
(* kept.  Every pushed value is fresh (1, 2, ...), so a value taken twice  *)
(* or a slot read before it was written (value NoValue) is visible.        *)
(***************************************************************************)
EXTENDS Integers, FiniteSets, Bags, BagsExt

CONSTANTS
    CAP,        \* the CAP macro: slot index is `i % CAP`
    LEN,        \* getSequenceLength(data): the capacity test in pushBot
    WordBits,   \* width of top and bot (64 in the code)
    Thieves,    \* thief threads calling tryPopTop
    MaxPush,    \* bound on the number of pushes
    InitDepth,  \* top = bot of the deque when the model starts
    Depths      \* arguments the owner passes to setDepth

ASSUME /\ CAP \in Nat \ {0} /\ LEN \in Nat \ {0}
       /\ WordBits \in Nat \ {0} /\ (2^WordBits) % CAP = 0
       /\ MaxPush \in Nat /\ InitDepth \in 0 .. 2^WordBits - 1
       /\ Depths \subseteq 0 .. 2^WordBits - 1

Word == 2^WordBits
U(x) == x % Word                 \* uint64_t arithmetic, reduced modulo 2^w

FAIL    == -1                    \* fail_value (BOGUS_OBJPTR / NONE)
NoValue == 0                     \* content of a slot never written
Values  == 1 .. MaxPush

VARIABLES
    top, bot,      \* the two shared indices
    data,          \* the slot array, indexed 0 .. CAP-1
    pushed,        \* number of values pushed so far (value k is the k-th)
    took,          \* bag of values returned to a caller by a pop
    caller,        \* who invoked the owner's tryPopBot: "sched" or "gc"
    opc, olb, olt, oe, oret,  \* owner pc, local_bot, local_top, elem, result
    tpc, tt, tb, te           \* per thief: pc, local_top, local_bot, elem

dequeVars == <<top, bot, data, pushed, took>>
ownerVars == <<caller, opc, olb, olt, oe, oret>>
thiefVars == <<tpc, tt, tb, te>>
vars == <<dequeVars, ownerVars, thiefVars>>

Slot(i) == i % CAP

-----------------------------------------------------------------------------
(* Mutants of PopReturn: the fail value counted as a taken element, and  *)
(* the claim's pops counted as takes although the claim gives them back.  *)
PopReturnTakesFail(v) ==
    /\ opc' = "idle"
    /\ oret' = v
    /\ took' = IF caller = "sched" THEN BagAdd(took, v) ELSE took

PopReturnAnyCaller(v) ==
    /\ opc' = "idle"
    /\ oret' = v
    /\ took' = IF v # FAIL THEN BagAdd(took, v) ELSE took

(* The owner returns from tryPopBot with v.  A value returned to the       *)
(* scheduler is taken; the GC's local-scope claim only looks at whether v *)
(* is the fail value (tryClaimLocalScope).                                  *)
PopReturn(v) ==
    /\ opc' = "idle"
    /\ oret' = v
    /\ took' = IF caller = "sched" /\ v # FAIL THEN BagAdd(took, v) ELSE took

(* pushBot, lines 21-29: load bot and top; when `bot - top >= length`     *)
(* return FALSE (a step that changes nothing); otherwise write the slot.  *)
PushWrite ==
    /\ opc = "idle" /\ caller = "sched" /\ pushed < MaxPush
    /\ U(bot - top) < LEN
    /\ data' = [data EXCEPT ![Slot(bot)] = pushed + 1]
    /\ pushed' = pushed + 1
    /\ olb' = bot
    /\ opc' = "push_publish"
    /\ UNCHANGED <<top, bot, took, caller, olt, oe, oret, thiefVars>>

(* pushBot, lines 30-31: release fence, then bot = local_bot + 1.         *)
PushPublish ==
    /\ opc = "push_publish"
    /\ bot' = U(olb + 1)
    /\ opc' = "idle"
    /\ UNCHANGED <<top, data, pushed, took, caller, olb, olt, oe, oret, thiefVars>>

(* tryPopBot, lines 47-48: local_bot = bot - 1 (unsigned); bot = local_bot.*)
PopBotDecrement ==
    /\ opc = "idle"
    /\ olb' = U(bot - 1)
    /\ bot' = U(bot - 1)
    /\ opc' = "pop_load"
    /\ UNCHANGED <<top, data, pushed, took, caller, olt, oe, oret, thiefVars>>

(* Mutant: the last element is returned like any other, without the CAS.  *)
PopBotLoadTopNoCas ==
    /\ opc = "pop_load"
    /\ olt' = top
    /\ \/ /\ top <= olb
          /\ PopReturn(data[Slot(olb)])
          /\ UNCHANGED oe
       \/ /\ top > olb
          /\ oe' = FAIL
          /\ opc' = "pop_restore"
          /\ UNCHANGED <<took, oret>>
    /\ UNCHANGED <<top, bot, data, pushed, caller, olb, thiefVars>>

(* tryPopBot, lines 49-63: fence, local_top = top.  Not empty and not the *)
(* last element: return the slot.  The last element: go to the CAS.       *)
(* Empty (local_top > local_bot): restore bot and fail.                    *)
PopBotLoadTop ==
    /\ opc = "pop_load"
    /\ olt' = top
    /\ \/ /\ top < olb
          /\ PopReturn(data[Slot(olb)])
          /\ UNCHANGED oe
       \/ /\ top = olb
          /\ oe' = data[Slot(olb)]
          /\ opc' = "pop_cas"
          /\ UNCHANGED <<took, oret>>
       \/ /\ top > olb
          /\ oe' = FAIL
          /\ opc' = "pop_restore"
          /\ UNCHANGED <<took, oret>>
    /\ UNCHANGED <<top, bot, data, pushed, caller, olb, thiefVars>>

(* Mutant: a failed CAS still returns the element (line 56 left out).   *)
PopBotCasKeepsElem ==
    /\ opc = "pop_cas"
    /\ IF top = olt THEN top' = U(olt + 1) ELSE UNCHANGED top
    /\ opc' = "pop_restore"
    /\ UNCHANGED <<bot, data, pushed, took, caller, olb, olt, oe, oret, thiefVars>>

(* tryPopBot, lines 55-57: CAS top from local_top to local_top + 1; on    *)
(* failure the result becomes fail_value.                                  *)
PopBotCas ==
    /\ opc = "pop_cas"
    /\ IF top = olt
          THEN top' = U(olt + 1) /\ UNCHANGED oe
          ELSE oe' = FAIL /\ UNCHANGED top
    /\ opc' = "pop_restore"
    /\ UNCHANGED <<bot, data, pushed, took, caller, olb, olt, oret, thiefVars>>

(* Mutant: bot is restored to local_bot instead of local_bot + 1.        *)
PopBotRestoreOffByOne ==
    /\ opc = "pop_restore"
    /\ bot' = olb
    /\ PopReturn(oe)
    /\ UNCHANGED <<top, data, pushed, caller, olb, olt, oe, thiefVars>>

(* tryPopBot, lines 58 and 62: bot = local_bot + 1, then return.          *)
PopBotRestore ==
    /\ opc = "pop_restore"
    /\ bot' = U(olb + 1)
    /\ PopReturn(oe)
    /\ UNCHANGED <<top, data, pushed, caller, olb, olt, oe, thiefVars>>

(* setDepth, lines 104-131, called on an empty deque (its precondition,   *)
(* checked at lines 107-114).  desired_depth = bot returns at once (a     *)
(* step that changes nothing).  A smaller depth stores bot first, a larger *)
(* one stores top first, so that bot <= top holds in between.              *)
SetDepthFirst(d) ==
    /\ opc = "idle" /\ caller = "sched"
    /\ top = bot /\ d # bot
    /\ olb' = d
    /\ IF d < bot
          THEN bot' = d /\ opc' = "sd_top" /\ UNCHANGED top
          ELSE top' = d /\ opc' = "sd_bot" /\ UNCHANGED bot
    /\ UNCHANGED <<data, pushed, took, caller, olt, oe, oret, thiefVars>>

(* Mutant: the second store of setDepth is left out.                      *)
SetDepthSecondDropped ==
    /\ opc \in {"sd_top", "sd_bot"}
    /\ opc' = "idle"
    /\ UNCHANGED <<top, bot, data, pushed, took, caller, olb, olt, oe, oret, thiefVars>>

SetDepthSecond ==
    \/ /\ opc = "sd_top"
       /\ top' = olb
       /\ UNCHANGED bot
    \/ /\ opc = "sd_bot"
       /\ bot' = olb
       /\ UNCHANGED top
    /\ opc' = "idle"
    /\ UNCHANGED <<data, pushed, took, caller, olb, olt, oe, oret, thiefVars>>

-----------------------------------------------------------------------------
(* tryPopTop, line 79: local_top = top.                                   *)
StealLoadTop(t) ==
    /\ tpc[t] = "idle"
    /\ tt' = [tt EXCEPT ![t] = top]
    /\ tpc' = [tpc EXCEPT ![t] = "load_bot"]
    /\ UNCHANGED <<dequeVars, ownerVars, tb, te>>

(* tryPopTop, lines 80-83 and 90: fence, local_bot = bot; fail unless     *)
(* local_top < local_bot.                                                  *)
StealLoadBot(t) ==
    /\ tpc[t] = "load_bot"
    /\ tb' = [tb EXCEPT ![t] = bot]
    /\ tpc' = [tpc EXCEPT ![t] = IF tt[t] < bot THEN "read" ELSE "idle"]
    /\ UNCHANGED <<dequeVars, ownerVars, tt, te>>

(* tryPopTop, line 84: elem = data[local_top % CAP].                      *)
StealRead(t) ==
    /\ tpc[t] = "read"
    /\ te' = [te EXCEPT ![t] = data[Slot(tt[t])]]
    /\ tpc' = [tpc EXCEPT ![t] = "cas"]
    /\ UNCHANGED <<dequeVars, ownerVars, tt, tb>>

(* tryPopTop, lines 85-88: CAS top from local_top to local_top + 1; the   *)
(* element is the thief's on success, fail_value otherwise.                *)
StealCas(t) ==
    /\ tpc[t] = "cas"
    /\ IF top = tt[t]
          THEN top' = U(tt[t] + 1) /\ took' = BagAdd(took, te[t])
          ELSE UNCHANGED <<top, took>>
    /\ tpc' = [tpc EXCEPT ![t] = "idle"]
    /\ UNCHANGED <<bot, data, pushed, ownerVars, tt, tb, te>>

-----------------------------------------------------------------------------
Init ==
    /\ top = InitDepth /\ bot = InitDepth
    /\ data = [i \in 0 .. CAP - 1 |-> NoValue]
    /\ pushed = 0
    /\ took = EmptyBag
    /\ caller = "sched"
    /\ opc = "idle" /\ olb = 0 /\ olt = 0 /\ oe = FAIL /\ oret = FAIL
    /\ tpc = [t \in Thieves |-> "idle"]
    /\ tt = [t \in Thieves |-> 0]
    /\ tb = [t \in Thieves |-> 0]
    /\ te = [t \in Thieves |-> FAIL]

OwnerNext ==
    \/ PushWrite \/ PushPublish
    \/ PopBotDecrement \/ PopBotLoadTop \/ PopBotCas \/ PopBotRestore
    \/ \E d \in Depths : SetDepthFirst(d)
    \/ SetDepthSecond

ThiefNext ==
    \E t \in Thieves :
        StealLoadTop(t) \/ StealLoadBot(t) \/ StealRead(t) \/ StealCas(t)

Next == OwnerNext \/ ThiefNext

Spec == Init /\ [][Next]_vars

-----------------------------------------------------------------------------
Idx == 0 .. Word - 1

TypeOK ==
    /\ top \in Idx /\ bot \in Idx
    /\ data \in [0 .. CAP - 1 -> {NoValue} \cup Values]
    /\ pushed \in 0 .. MaxPush
    /\ IsABag(took) /\ BagToSet(took) \subseteq {NoValue} \cup Values
    /\ caller \in {"sched", "gc"}
    /\ opc \in {"idle", "push_publish", "pop_load", "pop_cas", "pop_restore",
                "sd_top", "sd_bot"}
    /\ olb \in Idx /\ olt \in Idx
    /\ oe \in {FAIL, NoValue} \cup Values /\ oret \in {FAIL, NoValue} \cup Values
    /\ tpc \in [Thieves -> {"idle", "load_bot", "read", "cas"}]
    /\ tt \in [Thieves -> Idx] /\ tb \in [Thieves -> Idx]
    /\ te \in [Thieves -> {FAIL, NoValue} \cup Values]

(* The values the deque holds: slots top .. bot-1 (unsigned distance).    *)
Size == U(bot - top)
Held == [k \in 0 .. Size - 1 |-> data[Slot(U(top + k))]]
HeldCount(v) == Cardinality({k \in DOMAIN Held : Held[k] = v})

Quiescent ==
    /\ opc = "idle"
    /\ \A t \in Thieves : tpc[t] = "idle"

(* Linearizability, spec section 8.1, as a safety property: no pop of the  *)
(* owner or of a thief returns a value that another pop already returned, *)
(* nor a slot that was never written.  The owner's speculative decrement  *)
(* and the CAS on the last element (tryPopBot) against a thief's CAS      *)
(* (tryPopTop) are what makes this hold.                                   *)
NoDoubleTake ==
    /\ CopiesIn(NoValue, took) = 0
    /\ \A v \in Values : CopiesIn(v, took) <= 1

(* When no operation is in flight, every pushed value has either been     *)
(* taken exactly once or is held exactly once in slots top .. bot-1, and  *)
(* the deque is within the capacity pushBot tests (spec section 8.2).     *)
(* Breaks if a pop loses an element, a push overwrites a live slot, or    *)
(* bot/top end up inconsistent after an empty pop or a setDepth.           *)
QuiescentConservation ==
    Quiescent =>
        /\ Size <= LEN
        /\ \A v \in 1 .. pushed : CopiesIn(v, took) + HeldCount(v) = 1
        /\ HeldCount(NoValue) = 0
-----------------------------------------------------------------------------
(* Refinement of AbstractDeque.  Each operation takes effect at one step: *)
(* a push when bot is published (PushPublish), an owner pop when it loads *)
(* top (not the last element) or wins its CAS (the last one), a steal     *)
(* when its CAS succeeds.  While a pop is in flight its decrement of bot  *)
(* is not yet a removal, so the logical bottom is local_bot + 1; a value  *)
(* won by the owner's CAS counts as returned until the pop returns it.    *)
LogicalBot == IF opc \in {"pop_load", "pop_cas", "pop_restore"} THEN U(olb + 1)
                                                                 ELSE bot

AbsQ == [k \in 1 .. U(LogicalBot - top) |-> data[Slot(U(top + k - 1))]]

AbsPushed == IF opc = "push_publish" THEN pushed - 1 ELSE pushed

AbsTook == IF opc = "pop_restore" /\ oe # FAIL THEN BagAdd(took, oe) ELSE took

Deque == INSTANCE AbstractDeque WITH q <- AbsQ, pushed <- AbsPushed, took <- AbsTook

(* ChaseLev_pushBot, tryPopBot and tryPopTop, interleaved step by step,   *)
(* implement the atomic deque: every step is one abstract operation or    *)
(* none, so the values returned are those of some sequential order.       *)
RefinesAbstractDeque == Deque!AbsSpec
=============================================================================
