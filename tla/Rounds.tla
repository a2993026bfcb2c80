------------------------------- MODULE Rounds --------------------------------
(***************************************************************************)
(* What the scheduler promises the program, without priorities, lists or   *)
(* contexts.  Threads are served in rounds.  A round is drawn up when the  *)
(* one before is used up, from every thread that waits then; each of them  *)
(* gets the processor once in it, for one turn, which it may give up early *)
(* or end by exiting; and whoever has had a turn, or is created, waits for *)
(* the next round.  So between two turns of a thread no other thread has   *)
(* more than two.                                                          *)
(*                                                                         *)
(* This is what Memory_Manager/README:14-16 says the running queue is for  *)
(* ("help avoid starvation"), at a load that one running queue can hold.   *)
(* Scheduler implements it, see SchedulerRounds.                           *)
(***************************************************************************)
EXTENDS Integers, Sequences, FiniteSets

CONSTANTS
  Thread,  \* the threads there can be
  Main     \* the one that is there from the start

ASSUME RoundsAssumption == IsFiniteSet(Thread) /\ Main \in Thread

VARIABLES
  round,   \* the threads of this round still to be served, the first is on
  waiting  \* the set of the threads that wait for the next round

vars == << round, waiting >>

Members(s) == { s[i] : i \in DOMAIN s }

(* The orders in which the threads of S can be served.                     *)
Orders(S) ==
  { s \in UNION { [1 .. k -> S] : k \in 1 .. Cardinality(S) } :
      /\ Members(s) = S
      /\ \A i, j \in DOMAIN s : s[i] = s[j] => i = j }

Init ==
  /\ round = << Main >>
  /\ waiting = {}

Create(u) ==
  /\ round # << >>
  /\ u \notin waiting \cup Members(round)
  /\ waiting' = waiting \cup {u}
  /\ UNCHANGED round

(* Faulty: a new round is drawn up at every turn.                          *)
EndTurnRedrawn(others) ==
  LET all == others \cup Members(Tail(round))
  IN  /\ round # << >>
      /\ round' \in (IF all = {} THEN {<< >>} ELSE Orders(all))
      /\ waiting' = {}

(* Faulty: those who go into the new round still wait for the next.        *)
EndTurnKeepingAll(others) ==
  /\ round # << >>
  /\ waiting' = others
  /\ \/ Tail(round) # << >> /\ round' = Tail(round)
     \/ /\ Tail(round) = << >>
        /\ round' \in (IF others = {} THEN {<< >>} ELSE Orders(others))

(* The turn of the first of the round is over; others wait, or with it.    *)
EndTurn(others) ==
  /\ round # << >>
  /\ \/ /\ Tail(round) # << >>
        /\ round' = Tail(round)
        /\ waiting' = others
     \/ /\ Tail(round) = << >>
        /\ round' \in (IF others = {} THEN {<< >>} ELSE Orders(others))
        /\ waiting' = {}

(* Faulty: no new round is drawn up when the last of a round exits.        *)
ExitWithoutRefill ==
  /\ round # << >>
  /\ round' = Tail(round)
  /\ UNCHANGED waiting

Rotate == EndTurn(waiting \cup {Head(round)})
Exit   == EndTurn(waiting)

Next ==
  \/ \E u \in Thread : Create(u)
  \/ Rotate
  \/ Exit

Spec == Init /\ [][Next]_vars

FairSpec == Spec /\ WF_vars(Rotate \/ Exit)
=============================================================================
