------------------------------ MODULE Scheduler ------------------------------
(***************************************************************************)
(* The preemptive scheduler of the user-level thread library               *)
(* (src/Pthreads/my_pthread.c): my_pthread_create, my_pthread_yield, the   *)
(* last step of my_pthread_exit, the SIGALRM handler, scheduler and        *)
(* createRunningQueue.                                                     *)
(*                                                                         *)
(* One kernel thread runs everything, so exactly one user thread, cpu,     *)
(* executes at a time.  scheduler() stops the timer first, so it is one    *)
(* action up to the point where it arms the timer again; the swapcontext   *)
(* that follows is the action Swap, because SIGALRM may land in between.   *)
(* Everywhere else a thread executes with the timer running: the places in *)
(* the library where a signal matters are the labels of pc.                *)
(***************************************************************************)
EXTENDS RunQueues

CONSTANTS
  Windows,     \* the library code in which SIGALRM is allowed to land.
               \* Nothing in the code masks the signal: all of CreateSteps
               \* and "switch" is what the program does, a smaller set shows
               \* which window a failure needs.
  StaleMemory  \* TRUE: malloc may return a freed node as it was left.  The
               \* next field of a new node is never initialised.

CreateSteps == {"test", "head", "link", "tail"}
Labels      == {"none", "user", "yield", "exit", "gone"} \cup CreateSteps

ASSUME WindowAssumption == /\ Windows \subseteq CreateSteps \cup {"switch"}
                           /\ StaleMemory \in BOOLEAN

VARIABLES
  q,              \* the four queues                        (RunQueues)
  tcb,            \* status, priority and time_ran of every thread
  thread_count1,  \* the id my_pthread_create gives next
  cpu,            \* the thread whose code is executing
  pc,             \* where each thread is, or will resume
  newNode,        \* the local of a my_pthread_create under way
  leaving,        \* scheduler's currentExecutingThread, Null if it exited
  owner,          \* whose execution the saved context of a thread holds
  mode,           \* what the process is doing
  inHandler       \* scheduler was called by sig_handler: SIGALRM is blocked

vars == << q, tcb, thread_count1, cpu, pc, newNode, leaving, owner, mode,
           inHandler >>
processor == << cpu, leaving, owner, mode, inHandler >>

Blank     == [status |-> "NONE", priority |-> 0, time_ran |-> 0]
NewThread == [Blank EXCEPT !.status = "READY"]

TCB == [ status   : {"NONE", "READY", "RUNNING", "EXITED"},
         priority : Level,
         time_ran : 0 .. AgeLimit - 1 ]

(***************************************************************************)
(* mode: "run" is a thread executing; "switch" is scheduler between        *)
(* setitimer and swapcontext; "done" is its exit(1), with no thread left.  *)
(* "hung" is the endless loop of createRunningQueue, and "lost" stands for *)
(* a process that has followed a list or a saved context which the code    *)
(* had destroyed: what it does from there is undefined and not followed.   *)
(***************************************************************************)
Modes == {"run", "switch", "done", "hung", "lost"}

Executing(t, label) == mode = "run" /\ cpu = t /\ pc[t] = label

Init ==
  /\ q = EmptyQueues
  /\ tcb = [t \in Thread |-> Blank]
  /\ thread_count1 = 2
  /\ cpu = 1
  /\ pc = [t \in Thread |-> IF t = 1 THEN "user" ELSE "none"]
  /\ newNode = [t \in Thread |-> Null]
  /\ leaving = Null
  /\ owner = [t \in Thread |-> Null]
  /\ mode = "run"
  /\ inHandler = FALSE

-----------------------------------------------------------------------------
(***************************************************************************)
(* scheduler                                                               *)
(***************************************************************************)

(* What the thread that leaves the CPU is charged, and its new priority.   *)
(* Faulty: a thread that has just reached the limit is not reset.          *)
AgedAboveLimit(b) == b.time_ran + Quantum[b.priority] > AgeLimit

Aged(b) == b.time_ran + Quantum[b.priority] >= AgeLimit

(* Faulty: aging resets the time and not the priority.                     *)
ChargeWithoutReset(b, ranWholeTimeSlice) ==
  [ status   |-> "READY",
    time_ran |-> IF Aged(b) THEN 0 ELSE b.time_ran + Quantum[b.priority],
    priority |-> IF ranWholeTimeSlice /\ b.priority < 2
                 THEN b.priority + 1 ELSE b.priority ]

Charge(b, ranWholeTimeSlice) ==
  IF Aged(b)
  THEN NewThread
  ELSE [ status   |-> "READY",
         time_ran |-> b.time_ran + Quantum[b.priority],
         priority |-> IF ranWholeTimeSlice /\ b.priority < 2
                      THEN b.priority + 1 ELSE b.priority ]

(* Faulty: the new thread is not marked as running.                        *)
DispatchUnmarked(queues, blocks) ==
  /\ q' = queues
  /\ tcb' = blocks
  /\ mode' = "switch"

(* Arm the timer for the thread at the head of the running queue.          *)
Dispatch(queues, blocks) ==
  /\ q' = queues
  /\ tcb' = [blocks EXCEPT ![queues.running].status = "RUNNING"]
  /\ mode' = "switch"

Stop(queues, blocks, why) ==
  /\ q' = queues
  /\ tcb' = blocks
  /\ mode' = why

createRunningQueue(queues, blocks) ==
  \/ AllEmpty(queues) /\ Stop(queues, blocks, "done")
  \/ /\ ~AllEmpty(queues)
     /\ ListsIntact(queues)
     /\ \/ Spins(Lengths(queues)) /\ Stop(queues, blocks, "hung")
        \/ ~Spins(Lengths(queues)) /\ Dispatch(Load(queues), blocks)
  \/ ~ListsIntact(queues) /\ Stop(queues, blocks, "lost")

(* The first call makes the node of the main thread.                       *)
FirstSwitch ==
  /\ q.running = Null
  /\ createRunningQueue(Push(q, 1), [tcb EXCEPT ![1] = NewThread])
  /\ leaving' = 1

(* What becomes of the thread at the head of the running queue: it is      *)
(* reaped, or charged and queued by its new priority.                      *)
Exited == tcb[q.running].status = "EXITED"

Charged(ranWholeTimeSlice) ==
  [tcb EXCEPT ![q.running] = IF Exited THEN Blank
                             ELSE Charge(@, ranWholeTimeSlice)]

(* Faulty: the node of a thread that exited is stepped over twice.         *)
RequeuedSkipping(ranWholeTimeSlice) ==
  IF ~Exited
  THEN Enqueue(Advance(q), Charged(ranWholeTimeSlice)[q.running].priority, q.running)
  ELSE IF q.next[q.running] = Null THEN Advance(q) ELSE Advance(Advance(q))

(* Faulty: the thread is queued by the priority it had.                    *)
RequeuedMisfiled(ranWholeTimeSlice) ==
  IF Exited THEN Advance(q)
  ELSE Enqueue(Advance(q), tcb[q.running].priority, q.running)

(* Faulty: a thread that yields keeps the processor.                       *)
RequeuedIfExpired(ranWholeTimeSlice) ==
  IF Exited THEN Advance(q)
  ELSE IF ~ranWholeTimeSlice THEN q
  ELSE Enqueue(Advance(q), Charged(ranWholeTimeSlice)[q.running].priority, q.running)

Requeued(ranWholeTimeSlice) ==
  IF Exited THEN Advance(q)
  ELSE Enqueue(Advance(q), Charged(ranWholeTimeSlice)[q.running].priority, q.running)

SwitchFrom(ranWholeTimeSlice) ==
  LET blocks == Charged(ranWholeTimeSlice)
      queues == Requeued(ranWholeTimeSlice)
  IN  /\ q.running # Null
      /\ \/ queues.running # Null /\ Dispatch(queues, blocks)
         \/ queues.running = Null /\ createRunningQueue(queues, blocks)
      /\ leaving' = IF Exited THEN Null ELSE q.running

scheduler(ranWholeTimeSlice, label) ==
  /\ FirstSwitch \/ SwitchFrom(ranWholeTimeSlice)
  /\ pc' = [pc EXCEPT ![cpu] = IF tcb[cpu].status = "EXITED" THEN "gone"
                               ELSE label]
  /\ inHandler' = ranWholeTimeSlice
  /\ UNCHANGED << thread_count1, cpu, newNode, owner >>

(* Faulty: setcontext always, nothing is saved.                            *)
SwapWithoutSaving ==
  /\ mode = "switch"
  /\ mode' = "run"
  /\ owner' = [owner EXCEPT ![q.running] = Null]
  /\ cpu' = q.running
  /\ leaving' = Null
  /\ inHandler' = FALSE
  /\ UNCHANGED << q, tcb, thread_count1, pc, newNode >>

(***************************************************************************)
(* swapcontext saves what is executing into the context of the thread that *)
(* leaves and loads the one of the new head; setcontext, after an exit,    *)
(* only loads.  A context that was loaded once does not resume anything a  *)
(* second time, and that of a thread that has been reaped is freed memory. *)
(***************************************************************************)
Swap ==
  LET saved   == [t \in Thread |-> IF t = leaving THEN cpu ELSE owner[t]]
      resumes == saved[q.running] = q.running /\ pc[q.running] # "gone"
  IN  /\ mode = "switch"
      /\ \/ resumes /\ mode' = "run"
         \/ ~resumes /\ mode' = "lost"
      /\ owner' = [saved EXCEPT ![q.running] = Null]
      /\ cpu' = q.running
      /\ leaving' = Null
      /\ inHandler' = FALSE
      /\ UNCHANGED << q, tcb, thread_count1, pc, newNode >>

(***************************************************************************)
(* sig_handler.  The timer runs from the first call of scheduler on.  The  *)
(* interrupted thread resumes where it was.  The handler runs with SIGALRM *)
(* blocked, until the swap has loaded the signal mask of another context.  *)
(* scheduler called by my_pthread_yield does not: when the signal lands    *)
(* between its arming of the timer and its swap, a second scheduler runs   *)
(* on top of the first one, which waits below it on the stack of cpu.      *)
(***************************************************************************)
Interruptible ==
  \/ mode = "run" /\ pc[cpu] \in {"user", "yield", "exit"} \cup Windows
  \/ mode = "switch" /\ ~inHandler /\ "switch" \in Windows

CanTick == q.running # Null /\ Interruptible

Tick ==
  /\ CanTick
  /\ scheduler(TRUE, pc[cpu])

-----------------------------------------------------------------------------
(***************************************************************************)
(* my_pthread_create: the allocations and the id, then the list insertion  *)
(* in the steps between which a signal changes its outcome, then a yield.  *)
(***************************************************************************)
Stale == IF StaleMemory
         THEN { q.next[t] : t \in { u \in Thread : pc[u] = "gone" } }
         ELSE {}

(* Faulty: the id is not used up.                                          *)
CreateAllocSameId(t) ==
  /\ Executing(t, "user")
  /\ thread_count1 <= N
  /\ q' = [q EXCEPT !.next[thread_count1] = Null]
  /\ tcb' = [tcb EXCEPT ![thread_count1] = NewThread]
  /\ newNode' = [newNode EXCEPT ![t] = thread_count1]
  /\ owner' = [owner EXCEPT ![thread_count1] = thread_count1]
  /\ pc' = [pc EXCEPT ![t] = "test", ![thread_count1] = "user"]
  /\ UNCHANGED << thread_count1, cpu, leaving, mode, inHandler >>

CreateAlloc(t) ==
  /\ Executing(t, "user")
  /\ thread_count1 <= N
  /\ thread_count1' = thread_count1 + 1
  /\ \E next \in {Null} \cup Stale :
       q' = [q EXCEPT !.next[thread_count1] = next]
  /\ tcb' = [tcb EXCEPT ![thread_count1] = NewThread]
  /\ newNode' = [newNode EXCEPT ![t] = thread_count1]
  /\ owner' = [owner EXCEPT ![thread_count1] = thread_count1]
  /\ pc' = [pc EXCEPT ![t] = "test", ![thread_count1] = "user"]
  /\ UNCHANGED << cpu, leaving, mode, inHandler >>

CreateTest(t) ==
  /\ Executing(t, "test")
  /\ pc' = [pc EXCEPT ![t] = IF q.head[0] = Null THEN "head" ELSE "link"]
  /\ UNCHANGED << q, tcb, thread_count1, newNode, processor >>

CreateHead(t) ==
  /\ Executing(t, "head")
  /\ q' = [q EXCEPT !.head[0] = newNode[t]]
  /\ pc' = [pc EXCEPT ![t] = "tail"]
  /\ UNCHANGED << tcb, thread_count1, newNode, processor >>

(* The list may have been emptied since the test: its tail is then NULL.   *)
CreateLink(t) ==
  /\ Executing(t, "link")
  /\ \/ /\ q.tail[0] # Null
        /\ q' = [q EXCEPT !.next[q.tail[0]] = newNode[t]]
        /\ pc' = [pc EXCEPT ![t] = "tail"]
        /\ UNCHANGED mode
     \/ /\ q.tail[0] = Null
        /\ mode' = "lost"
        /\ UNCHANGED << q, pc >>
  /\ UNCHANGED << tcb, thread_count1, cpu, newNode, leaving, owner, inHandler >>

CreateTail(t) ==
  /\ Executing(t, "tail")
  /\ q' = [q EXCEPT !.tail[0] = newNode[t]]
  /\ newNode' = [newNode EXCEPT ![t] = Null]
  /\ pc' = [pc EXCEPT ![t] = "yield"]
  /\ UNCHANGED << tcb, thread_count1, processor >>

(***************************************************************************)
(* my_pthread_yield, called by the program (not before the first create:   *)
(* there is no priority_Queue yet), at the end of my_pthread_create and at *)
(* the end of my_pthread_exit, which does not return.                      *)
(***************************************************************************)
Yield(t, from) ==
  /\ Executing(t, from)
  /\ from = "user" => q.running # Null
  /\ scheduler(FALSE, "user")

(* my_pthread_exit, or the return of the thread's function into uc_link.   *)
Exit(t) ==
  /\ Executing(t, "user")
  /\ q.running # Null
  /\ tcb' = [tcb EXCEPT ![q.running].status = "EXITED"]
  /\ pc' = [pc EXCEPT ![t] = "exit"]
  /\ UNCHANGED << q, thread_count1, newNode, processor >>

(* What a thread does without the program's asking for it.                 *)
Library(t) ==
  \/ CreateTest(t) \/ CreateHead(t) \/ CreateLink(t) \/ CreateTail(t)
  \/ Yield(t, "yield") \/ Yield(t, "exit")

Program(t) == CreateAlloc(t) \/ Yield(t, "user") \/ Exit(t)

Stopped == mode \in {"done", "hung", "lost"} /\ UNCHANGED vars

Next ==
  \/ \E t \in Thread : Program(t) \/ Library(t)
  \/ Swap
  \/ Tick
  \/ Stopped

Spec == Init /\ [][Next]_vars

(***************************************************************************)
(* The kernel keeps executing the thread that is on the CPU and delivers   *)
(* the interval timer.  A thread that gets the CPU again and again gets    *)
(* through the few instructions of a library step, which take far less     *)
(* than a time slice: hence strong fairness.  What the program's own code  *)
(* does is not fair: it may compute for ever and never call the library.   *)
(*                                                                         *)
(* CanTick and InLibrary(t) are ENABLED << Tick >>_vars and ENABLED        *)
(* << Library(t) >>_vars, and the formulas below WF_vars(Tick) and         *)
(* SF_vars(Library(t)) with these predicates spelled out: scheduler always *)
(* ends in one of its branches, and leaves the state changed.              *)
(***************************************************************************)
InLibrary(t) == /\ mode = "run" /\ cpu = t
                /\ pc[t] \in CreateSteps \cup {"yield", "exit"}

Fairness ==
  /\ <>[]CanTick => []<><< Tick >>_vars
  /\ WF_vars(Swap)
  /\ \A t \in Thread : []<>InLibrary(t) => []<><< Library(t) >>_vars

FairSpec == Spec /\ Fairness

-----------------------------------------------------------------------------
(***************************************************************************)
(* Properties                                                              *)
(***************************************************************************)
Intact == mode \in {"run", "switch"}

(* A thread whose node is allocated but not linked into the queue yet.     *)
Unlinked ==
  { u \in Thread : \E t \in Thread : /\ newNode[t] = u
                                    /\ pc[t] \in {"test", "head", "link"} }

Live == { t \in Thread : tcb[t].status # "NONE" }

Running == Chain(q, q.running)
Waiting == Lists(q)

(* The places of t in lists, numbered as the priorities and 3 for running. *)
Places(list, t) ==
  UNION { { << p, i >> : i \in { j \in DOMAIN list[p] : list[p][j] = t } } :
          p \in DOMAIN list }

(* Every variable has its type.                                            *)
TypeOK ==
  /\ q \in Queues
  /\ tcb \in [Thread -> TCB]
  /\ thread_count1 \in 2 .. N + 1
  /\ cpu \in Thread
  /\ pc \in [Thread -> Labels]
  /\ newNode \in [Thread -> Link]
  /\ leaving \in Link
  /\ owner \in [Thread -> Link]
  /\ mode \in Modes
  /\ inHandler \in BOOLEAN

(***************************************************************************)
(* The hazard of intrusive lists.  Every thread that exists and is linked  *)
(* is in exactly one of the four lists, once; no list has a cycle or a     *)
(* node of a thread that has been reaped.  This is what makes a thread     *)
(* that calls the scheduler come back (my_pthread.c:195-253, 404-454).     *)
(***************************************************************************)
QueuedOnce ==
  Intact =>
    LET list   == [p \in 0 .. 3 |-> IF p = 3 THEN Running ELSE Waiting[p]]
        linked == Live \ Unlinked
    IN  /\ ListsIntact(q)
        /\ Ends(q, q.running)
        /\ \A t \in Thread :
             \/ t \in linked /\ \E pl \in Places(list, t) : Places(list, t) = {pl}
             \/ t \notin linked /\ Places(list, t) = {}

(***************************************************************************)
(* Unless a create is between its two stores, the tail of a priority queue *)
(* is the end of the list that its head starts, so that the next insertion *)
(* is found by the next traversal (my_pthread.c:107-114, 218-247).         *)
(***************************************************************************)
TailEndsList ==
  Intact =>
    \A p \in Level :
      \/ p = 0 /\ \E t \in Thread : pc[t] = "tail"
      \/ q.tail[p] = Null /\ q.head[p] = Null
      \/ /\ q.tail[p] # Null /\ q.head[p] # Null
         /\ Ends(q, q.head[p])
         /\ LET list == Chain(q, q.head[p]) IN list[Len(list)] = q.tail[p]

(***************************************************************************)
(* my_pthread_exit writes its status, and scheduler charges the time slice *)
(* and saves the context, to the HEAD OF THE RUNNING QUEUE: that is the    *)
(* thread whose code executes, and it alone is marked as running.          *)
(***************************************************************************)
RunningIsCurrent ==
  Intact /\ q.running # Null =>
    /\ mode = "run" => cpu = q.running
    /\ tcb[q.running].status \in {"RUNNING", "EXITED"}
    /\ \A t \in Thread \ {q.running} : tcb[t].status \in {"NONE", "READY"}

(***************************************************************************)
(* Every thread that is not executing can be resumed: its saved context    *)
(* holds its own execution and has not been resumed before.  README:33,    *)
(* "makes sure the timer is stopped so that the scheduler will not get     *)
(* interrupted", is what is meant to protect it (my_pthread.c:301-316).    *)
(***************************************************************************)
ContextsIntact ==
  Intact =>
    \A t \in Live : owner[t] = t \/ (t = cpu /\ (mode = "run" \/ t = leaving))

(***************************************************************************)
(* Demotion is earned and aging bounds it: a thread of a lower priority    *)
(* has been charged a full slice of each higher one since it was created   *)
(* or reset, and no thread keeps 375 ms (my_pthread.c:181-193, 211-215).   *)
(***************************************************************************)
SliceAccounting ==
  \A t \in Thread :
    /\ tcb[t].time_ran < AgeLimit
    /\ tcb[t].priority >= 1 => tcb[t].time_ran >= Quantum[0]
    /\ tcb[t].priority = 2 => tcb[t].time_ran >= Quantum[0] + Quantum[1]

(***************************************************************************)
(* A thread waits in the queue of its own priority, and the running queue  *)
(* is served from the highest priority to the lowest: the two copies of a  *)
(* thread's priority, its field and its place, never disagree.             *)
(***************************************************************************)
FiledByPriority ==
  Intact =>
    LET wait == Waiting
        run  == Running
    IN  /\ \A p \in Level : \A i \in DOMAIN wait[p] : tcb[wait[p][i]].priority = p
        /\ \A i, j \in DOMAIN run :
             i < j => tcb[run[i]].priority <= tcb[run[j]].priority

(***************************************************************************)
(* Why the running queue's head and the executing thread agree, whatever   *)
(* the constants are, the windows and the reused memory included: only ids *)
(* that were given are linked, so a new thread is never the one at the     *)
(* head (my_pthread.c:89-98), and nothing else becomes RUNNING or EXITED.  *)
(***************************************************************************)
Given == 1 .. thread_count1 - 1

SchedulerInv ==
  /\ TypeOK
  /\ q \in QueuesOver(Given)
  /\ \A t \in Thread : newNode[t] \in Given \cup {Null}
  /\ \A t \in Thread \ Given : tcb[t].status = "NONE"
  /\ mode = "switch" => q.running # Null
  /\ Intact /\ q.running = Null =>
       cpu = 1 /\ \A t \in Thread : tcb[t].status \in {"NONE", "READY"}
  /\ RunningIsCurrent
  /\ SliceAccounting

(* The scheduler neither spins in createRunningQueue nor follows a list or *)
(* a saved context that it has destroyed.                                  *)
StaysUp == mode \notin {"hung", "lost"}

(* No thread that is ready waits for ever, whatever its priority and       *)
(* whatever the others do (Memory_Manager/README:20).                      *)
NoStarvation ==
  \A t \in Thread :
    (tcb[t].status = "READY") ~> (tcb[t].status # "READY" \/ mode = "done")

(* What the documentation says and the code does not do.                   *)
(* Memory_Manager/README:14-16: createRunningQueue fills the running queue *)
(* as close to 300 ms as possible, and a low priority job can always get a *)
(* chance to run; so it never loops for ever (my_pthread.c:384-399).       *)
NeverHangs == mode # "hung"
=============================================================================
