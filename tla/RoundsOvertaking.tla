-------------------------- MODULE RoundsOvertaking ---------------------------
(***************************************************************************)
(* Rounds with a history variable that counts who is served while a thread *)
(* waits for its turn.                                                     *)
(***************************************************************************)
EXTENDS Rounds

VARIABLE since  \* since[t][u]: the turns u has begun since t began its last
                \* one or was created; 0 for a t that is not there

hvars == << round, waiting, since >>

(* The threads that have been created and have not exited.                 *)
Present == waiting \cup Members(round)

First(t) == round # << >> /\ round[1] = t

HInit == Init /\ since = [t \in Thread |-> [u \in Thread |-> 0]]

HCreate(u) == Create(u) /\ UNCHANGED since

HEndTurn ==
  /\ Rotate \/ Exit
  /\ since' = [t \in Thread |-> [u \in Thread |->
                 IF t \notin Present' \/ First(t)' THEN 0
                 ELSE IF First(u)' THEN since[t][u] + 1
                 ELSE since[t][u]]]

HNext == (\E u \in Thread : HCreate(u)) \/ HEndTurn

HSpec == HInit /\ [][HNext]_hvars

HFairSpec == HSpec /\ WF_hvars(HEndTurn)

-----------------------------------------------------------------------------
(* Every variable has its type.                                            *)
TypeOK ==
  /\ round \in Seq(Thread)
  /\ waiting \subseteq Thread
  /\ since \in [Thread -> [Thread -> Nat]]

(***************************************************************************)
(* No thread is served twice in a round, and none is in the round and      *)
(* waits for the next one as well.                                         *)
(***************************************************************************)
OncePerRound ==
  /\ \A i, j \in DOMAIN round : round[i] = round[j] => i = j
  /\ waiting \cap Members(round) = {}

(***************************************************************************)
(* While a thread that exists waits for its turn, no other begins more     *)
(* than two (Memory_Manager/README:14-17: the running queue keeps a low    *)
(* priority job from starving).                                            *)
(***************************************************************************)
BoundedOvertaking ==
  \A t \in Present, u \in Thread : since[t][u] <= 2

(***************************************************************************)
(* Why.  A thread that waits for the next round has been overtaken at most *)
(* once by each other in this one, and not at all yet by those still to be *)
(* served; a thread still to be served in this round once more.            *)
(***************************************************************************)
Overtaken ==
  /\ \A t \in waiting, u \in Thread :
       since[t][u] <= (IF \E i \in 2 .. Len(round) : round[i] = u THEN 0 ELSE 1)
  /\ \A i \in 2 .. Len(round), u \in Thread :
       since[round[i]][u] <= (IF \E j \in 2 .. Len(round) : round[j] = u THEN 1 ELSE 2)
  /\ \A t \in Thread, u \in Thread :
       t \notin Present \/ First(t) => since[t][u] = 0

(* A thread that waits is served.                                          *)
ServedInTime ==
  \A t \in Thread : t \in waiting ~> First(t)
=============================================================================
