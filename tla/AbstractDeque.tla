--------------------------- MODULE AbstractDeque ---------------------------
(***************************************************************************)
(* What the Chase-Lev deque promises (spec section 6 and invariant 8.1):   *)
(* a bounded double-ended queue whose every operation takes effect at one  *)
(* instant.  The owner pushes and pops at the bottom (the end of q), the   *)
(* thieves pop at the top (the head of q); a push on a full deque and a    *)
(* pop on an empty one change nothing.  took is the bag of values returned *)
(* by pops, pushed the number of values pushed (value k is the k-th).      *)
(***************************************************************************)
EXTENDS Integers, Sequences, Bags, BagsExt

CONSTANTS LEN, MaxPush

VARIABLES q, pushed, took

absVars == <<q, pushed, took>>

AbsInit ==
    /\ q = <<>>
    /\ pushed = 0
    /\ took = EmptyBag

(* push_bottom: append the next value unless the deque is full.           *)
PushBottom ==
    /\ pushed < MaxPush /\ Len(q) < LEN
    /\ q' = Append(q, pushed + 1)
    /\ pushed' = pushed + 1
    /\ UNCHANGED took

(* try_pop_bottom: remove and return the last value.                      *)
PopBottom ==
    /\ q # <<>>
    /\ took' = BagAdd(took, q[Len(q)])
    /\ q' = SubSeq(q, 1, Len(q) - 1)
    /\ UNCHANGED pushed

(* try_pop_top: remove and return the first value.                         *)
PopTop ==
    /\ q # <<>>
    /\ took' = BagAdd(took, Head(q))
    /\ q' = Tail(q)
    /\ UNCHANGED pushed

AbsNext == PushBottom \/ PopBottom \/ PopTop

AbsSpec == AbsInit /\ [][AbsNext]_absVars
=============================================================================
