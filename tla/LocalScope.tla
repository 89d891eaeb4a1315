---------------------------- MODULE LocalScope ----------------------------
(***************************************************************************)
(* The local-scope claim of HM_HHC_collectLocal (hierarchical-heap-        *)
(* collection.c) on top of the owner's Chase-Lev deque.                    *)
(*                                                                         *)
(* Before a local collection the owner reads bot (pollCurrentLocalScope),  *)
(* then pops its own deque bottom (tryClaimLocalScope) once per level it   *)
(* claims, collects levels [minLevel, currentDepth], and finally stores    *)
(* the original bot back (releaseLocalScope).  Thieves keep stealing from  *)
(* the top throughout.  The collection itself is one step here: what      *)
(* matters to the deque is only which indices are claimed while it runs.  *)
(***************************************************************************)
EXTENDS ChaseLevDeque

CONSTANTS
    DesiredScopes,  \* values of desiredScope (HM_HH_desiredCollectionScope)
    MinLocalLevel,  \* s->controls->hhConfig.minLocalLevel
    CurrentDepth,   \* thread->currentDepth
    ScopeBits       \* width of uint32_t originalLocalScope and minLevel

ASSUME ScopeBits \in 1 .. WordBits

VARIABLES
    gpc,            \* where collectLocal is: "none", "loop", "wait", "checks",
                    \* "collect"
    originalBot,    \* originalLocalScope
    minLevel,       \* minLevel
    desired         \* desiredScope of the collection in progress

gcVars == <<gpc, originalBot, minLevel, desired>>
lsVars == <<vars, gcVars>>

(* collectLocal, lines 105-109: originalLocalScope = pollCurrentLocalScope *)
(* (a seq-cst load of the 64-bit bot, kept in a uint32_t); minLevel =     *)
(* originalLocalScope.  The early returns at lines 90-103 leave every      *)
(* variable as it is and are left out.                                     *)
Scope(x) == x % (2 ^ ScopeBits)

(* pollCurrentLocalScope, local-scope.c 23-26: a seq-cst load of bot.     *)
PollCurrentLocalScope == bot

GcBegin(d) ==
    /\ gpc = "none" /\ opc = "idle"
    /\ originalBot' = Scope(PollCurrentLocalScope)
    /\ minLevel' = Scope(PollCurrentLocalScope)
    /\ desired' = d
    /\ caller' = "gc"
    /\ gpc' = "loop"
    /\ UNCHANGED <<dequeVars, opc, olb, olt, oe, oret, thiefVars>>

(* collectLocal, lines 111-113: while minLevel > desiredScope and          *)
(* minLevel > minLocalLevel, call tryClaimLocalScope, whose first step is  *)
(* the decrement of bot in ChaseLev_tryPopBot.                              *)
ClaimCall ==
    /\ gpc = "loop"
    /\ minLevel > desired /\ minLevel > MinLocalLevel
    /\ PopBotDecrement
    /\ gpc' = "wait"
    /\ UNCHANGED <<originalBot, minLevel, desired>>

ClaimLoopExit ==
    /\ gpc = "loop"
    /\ ~(minLevel > desired /\ minLevel > MinLocalLevel)
    /\ gpc' = "checks"
    /\ UNCHANGED <<vars, originalBot, minLevel, desired>>

(* The remaining steps of tryPopBot on behalf of tryClaimLocalScope.       *)
ClaimPopStep ==
    /\ gpc = "wait"
    /\ PopBotLoadTop \/ PopBotCas \/ PopBotRestore
    /\ UNCHANGED gcVars

(* local-scope.c line 15 and collectLocal line 114: the claim succeeded   *)
(* iff the pop did not return BOGUS_OBJPTR; on success minLevel--.         *)
ClaimResult ==
    /\ gpc = "wait" /\ opc = "idle"
    /\ IF oret # FAIL
          THEN minLevel' = minLevel - 1 /\ gpc' = "loop"
          ELSE gpc' = "checks" /\ UNCHANGED minLevel
    /\ UNCHANGED <<vars, originalBot, desired>>

(* collectLocal, lines 117-128: skip when minLevel = 0 or minLevel >      *)
(* currentDepth, otherwise collect levels [minLevel, currentDepth].       *)
Checks ==
    /\ gpc = "checks"
    /\ gpc' = IF minLevel = 0 \/ minLevel > CurrentDepth THEN "release"
                                                         ELSE "collect"
    /\ UNCHANGED <<vars, originalBot, minLevel, desired>>

(* collectLocal, lines 130-489: the collection.  HHCollection models the  *)
(* heap; the deque's indices and values do not change in it.              *)
Collect ==
    /\ gpc = "collect"
    /\ gpc' = "release"
    /\ UNCHANGED <<vars, originalBot, minLevel, desired>>

(* collectLocal line 492 / releaseLocalScope: seq-cst store bot = original.*)
Release ==
    /\ gpc = "release"
    /\ bot' = originalBot
    /\ caller' = "sched"
    /\ gpc' = "none"
    /\ UNCHANGED <<top, data, pushed, took, opc, olb, olt, oe, oret, thiefVars,
                   originalBot, minLevel, desired>>

LSInit ==
    /\ Init
    /\ gpc = "none" /\ originalBot = 0 /\ minLevel = 0 /\ desired = 0

(* The scheduler uses the deque only while no collection is in progress.  *)
LSNext ==
    \/ gpc = "none" /\ OwnerNext /\ UNCHANGED gcVars
    \/ ThiefNext /\ UNCHANGED gcVars
    \/ \E d \in DesiredScopes : GcBegin(d)
    \/ ClaimCall \/ ClaimLoopExit \/ ClaimPopStep \/ ClaimResult
    \/ Checks \/ Collect \/ Release

LSSpec == LSInit /\ [][LSNext]_lsVars

-----------------------------------------------------------------------------
LSTypeOK ==
    /\ TypeOK
    /\ gpc \in {"none", "loop", "wait", "checks", "collect", "release"}
    /\ originalBot \in Idx /\ minLevel \in Idx /\ desired \in DesiredScopes \cup {0}

(* What the claim is for: while levels [minLevel, currentDepth] are being *)
(* collected, no thief can complete a steal of a claimed index, i.e. no   *)
(* thief is about to CAS top successfully at an index >= minLevel.  A     *)
(* thief may have read top and bot before the claim started; the CAS on   *)
(* the last element in tryPopBot is what keeps it out.                    *)
ClaimExcludesThieves ==
    gpc = "collect" =>
        \A t \in Thieves :
            (tpc[t] \in {"read", "cas"} /\ top = tt[t]) => tt[t] < minLevel

(* Once the collection has released its scope and no operation is in      *)
(* flight, every pushed value is taken exactly once or still in the deque *)
(* (the claim pops and then restores bot, so it must neither lose nor     *)
(* duplicate an element).                                                  *)
ReleaseConserves ==
    gpc = "none" => QuiescentConservation

=============================================================================
