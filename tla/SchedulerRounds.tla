--------------------------- MODULE SchedulerRounds ---------------------------
(***************************************************************************)
(* Scheduler implements Rounds, as long as one running queue has room for  *)
(* every thread there can be at the lowest priority, SIGALRM stays out of  *)
(* the stores with which my_pthread_create links a node, and the memory of *)
(* that node is clean.                                                     *)
(***************************************************************************)
EXTENDS Scheduler

(* The running queue is the round; before the first call of scheduler it   *)
(* does not exist and the main thread is alone in its turn.                *)
round ==
  IF mode = "done" THEN << >>
  ELSE IF q.running = Null THEN << 1 >> ELSE Running

(* A thread waits from the moment it is linked into a priority queue.      *)
waiting == UNION { { Waiting[p][i] : i \in DOMAIN Waiting[p] } : p \in Level }

Promise == INSTANCE Rounds WITH Main <- 1

(***************************************************************************)
(* Every step of the scheduler is a step of the promise or none: a context *)
(* switch serves the next thread of the round, a new running queue takes   *)
(* in everyone who waits, and creating or exiting touches no one else      *)
(* (my_pthread.c:138-317, 333-457).                                        *)
(***************************************************************************)
KeepsPromise == Promise!Spec
=============================================================================
