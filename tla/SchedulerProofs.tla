--------------------------- MODULE SchedulerProofs ---------------------------
(***************************************************************************)
(* Theorems about Scheduler, for every number of threads, every quantum,   *)
(* budget and aging limit, and both variants of createRunningQueue. The    *)
(* first part (SchedulerInvariant) holds for every set of windows in which *)
(* SIGALRM may land: even a scheduler whose lists have been spoilt by a    *)
(* signal keeps it. The second (OrderInvariant and ContextInvariant) is    *)
(* about the lists and the contexts, and the refinement of Rounds, where   *)
(* the signal stays out of what it spoils, and in the behaviours in which  *)
(* one running queue always has room for the threads that exist ([]Fits).  *)
(***************************************************************************)
EXTENDS SchedulerRounds, RunQueuesProofs

(***************************************************************************)
(* The ids that were given (line 93) are threads, the main thread is one   *)
(* of them, and NULL is not.                                               *)
(***************************************************************************)
LEMMA GivenInThread ==
  ASSUME TypeOK
  PROVE  Given \in SUBSET Thread /\ 1 \in Given /\ 1 \in Thread /\ Null \notin Thread
  BY ThreadAssumption DEF TypeOK, Given, Thread, Null

(***************************************************************************)
(* A new control block and a freed one are typed, and have run for no      *)
(* time.                                                                   *)
(***************************************************************************)
LEMMA BlocksTyped ==
  /\ Blank \in TCB
  /\ NewThread \in TCB
  /\ NewThread.status = "READY" /\ NewThread.time_ran = 0 /\ NewThread.priority = 0
  /\ Blank.status = "NONE" /\ Blank.time_ran = 0 /\ Blank.priority = 0
  BY LimitAssumption DEF Blank, NewThread, TCB, Level

(* A thread control block whose priority has been earned.                  *)
Earned(b) ==
  /\ b.time_ran < AgeLimit
  /\ b.priority >= 1 => b.time_ran >= Quantum[0]
  /\ b.priority = 2 => b.time_ran >= Quantum[0] + Quantum[1]

(* SliceAccounting, one thread at a time.                                  *)
LEMMA SliceAccountingIsEarned ==
  SliceAccounting <=> \A t \in Thread : Earned(tcb[t])
  BY DEF SliceAccounting, Earned

(***************************************************************************)
(* Charging and demoting a thread (lines 181-193, 210-216) keeps the       *)
(* accounting: a priority that was lowered has been paid for.              *)
(***************************************************************************)
LEMMA ChargeEarned ==
  ASSUME NEW b \in TCB, Earned(b), NEW ranWholeTimeSlice \in BOOLEAN
  PROVE  /\ Charge(b, ranWholeTimeSlice) \in TCB
         /\ Charge(b, ranWholeTimeSlice).status = "READY"
         /\ Earned(Charge(b, ranWholeTimeSlice))
<1>1. /\ b.time_ran \in Nat /\ b.priority \in 0 .. 2
      /\ Quantum[b.priority] \in Nat \ {0}
      /\ Quantum[0] \in Nat \ {0} /\ Quantum[1] \in Nat \ {0}
      /\ AgeLimit \in Nat
  BY QuantumAssumption, LimitAssumption DEF TCB, Level
<1>2. CASE Aged(b)
  BY <1>1, <1>2, BlocksTyped, LimitAssumption DEF Charge, Earned
<1>3. CASE ~Aged(b)
  <2>. DEFINE c == Charge(b, ranWholeTimeSlice)
  <2>1. /\ c.status = "READY"
        /\ c.time_ran = b.time_ran + Quantum[b.priority]
        /\ c.priority = IF ranWholeTimeSlice /\ b.priority < 2
                        THEN b.priority + 1 ELSE b.priority
    BY <1>3 DEF Charge
  <2>2. c.time_ran < AgeLimit
    BY <1>1, <1>3, <2>1 DEF Aged
  <2>3. c \in TCB
    <3>1. c.time_ran \in 0 .. AgeLimit - 1 /\ c.priority \in Level
      BY <1>1, <2>1, <2>2 DEF Level
    <3>. QED
      BY <1>3, <3>1 DEF Charge, TCB
  <2>. HIDE DEF c
  <2>4. Earned(c)
    BY <1>1, <2>1, <2>2 DEF Earned
  <2>. QED
    BY <2>1, <2>3, <2>4 DEF c
<1>. QED
  BY <1>2, <1>3

-----------------------------------------------------------------------------
(***************************************************************************)
(* scheduler.  Once the thread that leaves has been charged, no thread is  *)
(* marked RUNNING (Settled); when the next one has been chosen, exactly it *)
(* is (Chosen).                                                            *)
(***************************************************************************)
Settled(queues, blocks) ==
  /\ queues \in QueuesOver(Given)
  /\ blocks \in [Thread -> TCB]
  /\ \A t \in Thread : /\ Earned(blocks[t])
                       /\ blocks[t].status \in {"NONE", "READY"}
                       /\ t \notin Given => blocks[t].status = "NONE"

Chosen(queues, blocks, m) ==
  /\ queues \in QueuesOver(Given)
  /\ blocks \in [Thread -> TCB]
  /\ \A t \in Thread : /\ Earned(blocks[t])
                       /\ t \notin Given => blocks[t].status = "NONE"
  /\ m \in Modes \ {"run"}
  /\ m = "switch" =>
       /\ queues.running # Null
       /\ blocks[queues.running].status = "RUNNING"
       /\ \A t \in Thread \ {queues.running} : blocks[t].status \in {"NONE", "READY"}

(***************************************************************************)
(* Lines 301-311 mark exactly the new head of the running queue as         *)
(* running.                                                                *)
(***************************************************************************)
LEMMA DispatchChooses ==
  ASSUME TypeOK, NEW queues, NEW blocks, Settled(queues, blocks),
         queues.running # Null, Dispatch(queues, blocks)
  PROVE  Chosen(q', tcb', mode')
<1>1. queues.running \in Given /\ queues.running \in Thread
  BY GivenInThread DEF Settled, QueuesOver
<1>. DEFINE r == queues.running
            b == [blocks[r] EXCEPT !.status = "RUNNING"]
<1>2. q' = queues /\ tcb' = [blocks EXCEPT ![r] = b] /\ mode' = "switch"
  BY DEF Dispatch
<1>3. /\ b \in TCB /\ b.status = "RUNNING" /\ b.time_ran = blocks[r].time_ran
      /\ b.priority = blocks[r].priority
  BY <1>1 DEF Settled, TCB
<1>4. Earned(b)
  BY <1>1, <1>3 DEF Settled, Earned
<1>. HIDE DEF b
<1>5. /\ tcb' \in [Thread -> TCB] /\ tcb'[r] = b
      /\ \A t \in Thread \ {r} : tcb'[t] = blocks[t]
  BY <1>1, <1>2, <1>3 DEF Settled
<1>. QED
  BY <1>1, <1>2, <1>3, <1>4, <1>5 DEF Settled, Chosen, Modes

(* The branches in which the process goes no further.                      *)
LEMMA StopChooses ==
  ASSUME NEW queues, NEW blocks, Settled(queues, blocks),
         NEW why \in {"done", "hung", "lost"}, Stop(queues, blocks, why)
  PROVE  Chosen(q', tcb', mode')
  BY DEF Settled, Chosen, Stop, Modes

(***************************************************************************)
(* createRunningQueue (lines 333-457) ends in one of its branches, and a   *)
(* queue that it loads has a head.                                         *)
(***************************************************************************)
LEMMA createRunningQueueChooses ==
  ASSUME TypeOK, NEW queues, NEW blocks, Settled(queues, blocks),
         createRunningQueue(queues, blocks)
  PROVE  Chosen(q', tcb', mode')
<1>1. CASE AllEmpty(queues) /\ Stop(queues, blocks, "done")
  BY <1>1, StopChooses
<1>2. CASE Stop(queues, blocks, "hung") \/ Stop(queues, blocks, "lost")
  BY <1>2, StopChooses
<1>3. CASE /\ ~AllEmpty(queues) /\ ListsIntact(queues)
           /\ Dispatch(Load(queues), blocks)
  <2>1. /\ Load(queues) \in QueuesOver(Given)
        /\ Load(queues).running \in Given
    BY <1>3, GivenInThread, LoadOver DEF Settled
  <2>2. Settled(Load(queues), blocks) /\ Load(queues).running # Null
    BY <2>1, GivenInThread DEF Settled
  <2>. QED
    BY <1>3, <2>2, DispatchChooses
<1>. QED
  BY <1>1, <1>2, <1>3 DEF createRunningQueue

(* The first call of scheduler (lines 151-173).                            *)
LEMMA FirstSwitchChooses ==
  ASSUME SchedulerInv, Intact, FirstSwitch
  PROVE  Chosen(q', tcb', mode') /\ leaving' \in Link
<1>. DEFINE queues == Push(q, 1)
            blocks == [tcb EXCEPT ![1] = NewThread]
<1>1. TypeOK /\ 1 \in Given /\ 1 \in Thread /\ Given \in SUBSET Thread
  BY GivenInThread DEF SchedulerInv
<1>2. queues \in QueuesOver(Given)
  <2>1. q \in QueuesOver(Given)
    BY DEF SchedulerInv
  <2>. QED
    BY <1>1, <2>1, PushOver
<1>3. blocks \in [Thread -> TCB]
  BY <1>1, BlocksTyped DEF TypeOK
<1>4. \A t \in Thread : /\ Earned(blocks[t])
                        /\ blocks[t].status \in {"NONE", "READY"}
                        /\ t \notin Given => blocks[t].status = "NONE"
  <2>1. Earned(NewThread)
    BY BlocksTyped, LimitAssumption DEF Earned
  <2>2. \A t \in Thread : tcb[t].status \in {"NONE", "READY"} /\ Earned(tcb[t])
    BY SliceAccountingIsEarned DEF SchedulerInv, FirstSwitch
  <2>3. \A t \in Thread : blocks[t] = IF t = 1 THEN NewThread ELSE tcb[t]
    BY <1>1 DEF TypeOK
  <2>. QED
    BY <1>1, <2>1, <2>2, <2>3, BlocksTyped DEF SchedulerInv
<1>5. Settled(queues, blocks)
  BY <1>2, <1>3, <1>4 DEF Settled
<1>6. createRunningQueue(queues, blocks) /\ leaving' = 1
  BY DEF FirstSwitch
<1>. QED
  BY <1>1, <1>5, <1>6, createRunningQueueChooses DEF Link

(* The later calls of scheduler (lines 176-255).                           *)
LEMMA SwitchFromChooses ==
  ASSUME SchedulerInv, Intact, NEW ranWholeTimeSlice \in BOOLEAN,
         SwitchFrom(ranWholeTimeSlice)
  PROVE  Chosen(q', tcb', mode') /\ leaving' \in Link
<1>. DEFINE ptr    == q.running
            exited == tcb[ptr].status = "EXITED"
            left   == IF exited THEN Blank ELSE Charge(tcb[ptr], ranWholeTimeSlice)
            blocks == [tcb EXCEPT ![ptr] = left]
            queues == IF exited THEN Advance(q)
                      ELSE Enqueue(Advance(q), blocks[ptr].priority, ptr)
<1>1. TypeOK /\ Given \in SUBSET Thread /\ q.running # Null
  BY GivenInThread DEF SchedulerInv, SwitchFrom
<1>2. ptr \in Given /\ ptr \in Thread /\ tcb[ptr] \in TCB
  BY <1>1 DEF SchedulerInv, QueuesOver, TypeOK
<1>3. /\ left \in TCB /\ left.status \in {"NONE", "READY"}
      /\ Earned(left)
  <2>1. Earned(Blank)
    BY BlocksTyped, LimitAssumption DEF Earned
  <2>2. Earned(tcb[ptr])
    BY <1>2, SliceAccountingIsEarned DEF SchedulerInv
  <2>. QED
    BY <1>2, <2>1, <2>2, BlocksTyped, ChargeEarned
<1>. HIDE DEF left
<1>4. /\ blocks \in [Thread -> TCB]
      /\ \A t \in Thread : blocks[t] = IF t = ptr THEN left ELSE tcb[t]
  BY <1>1, <1>2, <1>3 DEF TypeOK
<1>5. \A t \in Thread : /\ Earned(blocks[t])
                        /\ blocks[t].status \in {"NONE", "READY"}
                        /\ t \notin Given => blocks[t].status = "NONE"
  <2>1. \A t \in Thread \ {ptr} : tcb[t].status \in {"NONE", "READY"}
    BY <1>1 DEF SchedulerInv, RunningIsCurrent
  <2>2. \A t \in Thread : Earned(tcb[t])
    BY SliceAccountingIsEarned DEF SchedulerInv
  <2>. QED
    BY <1>2, <1>3, <1>4, <2>1, <2>2 DEF SchedulerInv
<1>6. blocks[ptr].priority \in Level
  BY <1>2, <1>4 DEF TCB
<1>. HIDE DEF blocks
<1>7. queues \in QueuesOver(Given)
  <2>1. q \in QueuesOver(Given)
    BY DEF SchedulerInv
  <2>2. Advance(q) \in QueuesOver(Given)
    BY <1>1, <2>1, AdvanceOver
  <2>. QED
    BY <1>1, <1>2, <1>6, <2>2, EnqueueOver
<1>. HIDE DEF queues
<1>8. Settled(queues, blocks)
  BY <1>4, <1>5, <1>7 DEF Settled
<1>9. /\ \/ queues.running # Null /\ Dispatch(queues, blocks)
         \/ queues.running = Null /\ createRunningQueue(queues, blocks)
      /\ leaving' = IF exited THEN Null ELSE ptr
  BY DEF SwitchFrom, Requeued, Charged, Exited, queues, blocks, left
<1>. QED
  BY <1>1, <1>2, <1>8, <1>9, DispatchChooses, createRunningQueueChooses DEF Link

(* A call of scheduler keeps the invariant, whoever calls it.              *)
LEMMA SchedulerKeepsInv ==
  ASSUME SchedulerInv, Intact, NEW ranWholeTimeSlice \in BOOLEAN,
         NEW label \in Labels, scheduler(ranWholeTimeSlice, label)
  PROVE  SchedulerInv'
<1>1. TypeOK
  BY DEF SchedulerInv
<1>2. Chosen(q', tcb', mode') /\ leaving' \in Link
  BY FirstSwitchChooses, SwitchFromChooses DEF scheduler
<1>3. UNCHANGED << thread_count1, cpu, newNode, owner >> /\ Given' = Given
  BY DEF scheduler, Given
<1>4. pc' \in [Thread -> Labels] /\ inHandler' \in BOOLEAN
  BY <1>1 DEF scheduler, TypeOK, Labels
<1>5. TypeOK'
  <2>1. q' \in Queues
    <3>1. Given \in SUBSET Thread
      BY <1>1, GivenInThread
    <3>. QED
      BY <1>2, <3>1 DEF Chosen, Queues, QueuesOver
  <2>. QED
    BY <1>1, <1>2, <1>3, <1>4, <2>1 DEF TypeOK, Chosen, Modes
<1>6. RunningIsCurrent'
  BY <1>2 DEF Chosen, RunningIsCurrent, Intact
<1>7. SliceAccounting'
  BY <1>2 DEF Chosen, SliceAccounting, Earned
<1>. QED
  BY <1>2, <1>3, <1>5, <1>6, <1>7 DEF SchedulerInv, Chosen, Intact

-----------------------------------------------------------------------------
(* The steps of my_pthread_create, and my_pthread_exit.                    *)

(***************************************************************************)
(* my_pthread_create allocates (lines 48-105): the id is new, so the       *)
(* thread that runs is untouched.                                          *)
(***************************************************************************)
LEMMA CreateAllocKeepsInv ==
  ASSUME SchedulerInv, NEW t \in Thread, CreateAlloc(t)
  PROVE  SchedulerInv'
<1>. DEFINE new == thread_count1
<1>1. /\ TypeOK /\ SliceAccounting /\ RunningIsCurrent /\ q \in QueuesOver(Given)
      /\ Given \in SUBSET Thread
  BY GivenInThread DEF SchedulerInv
<1>2. /\ new \in Thread /\ new \notin Given
      /\ thread_count1' = new + 1 /\ thread_count1' \in 2 .. N + 1
      /\ Given' = Given \cup {new} /\ Given' \subseteq Thread
  BY <1>1, ThreadAssumption DEF CreateAlloc, TypeOK, Given, Thread
<1>3. q' \in QueuesOver(Given') /\ q'.running = q.running
  <2>1. PICK next \in {Null} \cup Stale : q' = [q EXCEPT !.next[new] = next]
    BY DEF CreateAlloc
  <2>2. next \in Given \cup {Null}
    BY <1>1, <2>1 DEF Stale, QueuesOver
  <2>. QED
    BY <1>1, <1>2, <2>1, <2>2 DEF QueuesOver
<1>4. /\ tcb' = [tcb EXCEPT ![new] = NewThread]
      /\ tcb' \in [Thread -> TCB]
      /\ \A u \in Thread : tcb'[u] = IF u = new THEN NewThread ELSE tcb[u]
  BY <1>1, <1>2, BlocksTyped DEF CreateAlloc, TypeOK
<1>5. /\ newNode' \in [Thread -> Link]
      /\ \A u \in Thread : newNode'[u] \in Given' \cup {Null}
  BY <1>1, <1>2 DEF CreateAlloc, TypeOK, SchedulerInv, Link
<1>6. /\ owner' \in [Thread -> Link]
      /\ pc' \in [Thread -> Labels]
      /\ UNCHANGED << cpu, leaving, mode, inHandler >>
  BY <1>1, <1>2 DEF CreateAlloc, TypeOK, Link, Labels, CreateSteps
<1>7. TypeOK'
  <2>1. q' \in Queues
    BY <1>2, <1>3 DEF Queues, QueuesOver
  <2>. QED
    BY <1>1, <1>2, <1>4, <1>5, <1>6, <2>1 DEF TypeOK
<1>8. \A u \in Thread \ Given' : tcb'[u].status = "NONE"
  BY <1>2, <1>4 DEF SchedulerInv
<1>9. q.running # new
  BY <1>1, <1>2, GivenInThread DEF QueuesOver
<1>10. RunningIsCurrent'
  BY <1>1, <1>3, <1>4, <1>6, <1>9, BlocksTyped, GivenInThread
     DEF RunningIsCurrent, Intact, QueuesOver
<1>11. SliceAccounting'
  BY <1>1, <1>4, BlocksTyped, LimitAssumption DEF SliceAccounting
<1>. QED
  BY <1>3, <1>4, <1>5, <1>6, <1>7, <1>8, <1>10, <1>11, BlocksTyped
     DEF SchedulerInv, Intact

(* my_pthread_create inserts its node (lines 108-114).                     *)
LEMMA CreateStepsKeepInv ==
  ASSUME SchedulerInv, NEW t \in Thread,
         CreateTest(t) \/ CreateHead(t) \/ CreateLink(t) \/ CreateTail(t)
  PROVE  SchedulerInv'
<1>1. /\ TypeOK /\ q \in QueuesOver(Given) /\ Given \in SUBSET Thread
      /\ \A u \in Thread : newNode[u] \in Given \cup {Null}
      /\ 0 \in Level
  BY GivenInThread DEF SchedulerInv, Level
<1>2. /\ UNCHANGED << tcb, thread_count1, cpu, leaving, owner, inHandler >>
      /\ Given' = Given
      /\ mode' \in {mode, "lost"} /\ mode = "run"
  BY DEF CreateTest, CreateHead, CreateLink, CreateTail, Executing, Given,
         processor
<1>3. pc' \in [Thread -> Labels]
  BY <1>1 DEF CreateTest, CreateHead, CreateLink, CreateTail, TypeOK, Labels, CreateSteps
<1>4. /\ newNode' \in [Thread -> Link]
      /\ \A u \in Thread : newNode'[u] \in Given \cup {Null}
  BY <1>1 DEF CreateTest, CreateHead, CreateLink, CreateTail, TypeOK, Link
<1>5. q' \in QueuesOver(Given) /\ q'.running = q.running
  <2>1. CASE CreateTest(t)
    BY <1>1, <2>1 DEF CreateTest
  <2>2. CASE CreateHead(t)
    <3>1. q' = [q EXCEPT !.head[0] = newNode[t]]
      BY <2>2 DEF CreateHead
    <3>. QED
      BY <1>1, <3>1 DEF QueuesOver
  <2>3. CASE CreateTail(t)
    <3>1. q' = [q EXCEPT !.tail[0] = newNode[t]]
      BY <2>3 DEF CreateTail
    <3>. QED
      BY <1>1, <3>1 DEF QueuesOver
  <2>4. CASE CreateLink(t)
    <3>1. CASE q.tail[0] # Null
      <4>1. q' = [q EXCEPT !.next[q.tail[0]] = newNode[t]]
        BY <2>4, <3>1 DEF CreateLink
      <4>2. q.tail[0] \in Thread
        BY <1>1, <3>1 DEF QueuesOver
      <4>. QED
        BY <1>1, <4>1, <4>2 DEF QueuesOver
    <3>2. CASE q.tail[0] = Null
      BY <1>1, <2>4, <3>2 DEF CreateLink
    <3>. QED
      BY <3>1, <3>2
  <2>. QED
    BY <2>1, <2>2, <2>3, <2>4
<1>6. TypeOK'
  <2>1. q' \in Queues
    BY <1>1, <1>5 DEF Queues, QueuesOver
  <2>. QED
    BY <1>1, <1>2, <1>3, <1>4, <2>1 DEF TypeOK, Modes
<1>7. RunningIsCurrent' /\ SliceAccounting'
  BY <1>2, <1>5 DEF SchedulerInv, RunningIsCurrent, SliceAccounting, Intact
<1>. QED
  BY <1>2, <1>4, <1>5, <1>6, <1>7 DEF SchedulerInv, Intact

(* my_pthread_exit marks the head of the running queue (line 495).         *)
LEMMA ExitKeepsInv ==
  ASSUME SchedulerInv, NEW t \in Thread, Exit(t)
  PROVE  SchedulerInv'
<1>. DEFINE r == q.running
            b == [tcb[r] EXCEPT !.status = "EXITED"]
<1>1. /\ TypeOK /\ SliceAccounting /\ RunningIsCurrent /\ q \in QueuesOver(Given)
      /\ r \in Thread /\ r \in Given /\ Given \in SUBSET Thread /\ mode = "run"
  BY GivenInThread DEF SchedulerInv, QueuesOver, Exit, Executing
<1>2. /\ tcb' = [tcb EXCEPT ![r] = b]
      /\ UNCHANGED << q, thread_count1, cpu, newNode, leaving, owner, mode, inHandler >>
      /\ Given' = Given
  BY DEF Exit, Given, processor
<1>3. /\ b \in TCB /\ b.status = "EXITED"
      /\ b.time_ran = tcb[r].time_ran /\ b.priority = tcb[r].priority
  BY <1>1 DEF TypeOK, TCB
<1>. HIDE DEF b
<1>4. /\ tcb' \in [Thread -> TCB]
      /\ \A u \in Thread : tcb'[u] = IF u = r THEN b ELSE tcb[u]
  BY <1>1, <1>2, <1>3 DEF TypeOK
<1>5. pc' \in [Thread -> Labels]
  BY <1>1 DEF Exit, TypeOK, Labels
<1>6. TypeOK'
  BY <1>1, <1>2, <1>4, <1>5 DEF TypeOK
<1>7. RunningIsCurrent'
  BY <1>1, <1>2, <1>3, <1>4 DEF RunningIsCurrent, Intact
<1>8. SliceAccounting'
  BY <1>1, <1>3, <1>4 DEF SliceAccounting
<1>. QED
  BY <1>1, <1>2, <1>4, <1>6, <1>7, <1>8, GivenInThread DEF SchedulerInv, Intact

(***************************************************************************)
(* swapcontext and setcontext (lines 303-316) execute the head of the      *)
(* running queue.                                                          *)
(***************************************************************************)
LEMMA SwapKeepsInv ==
  ASSUME SchedulerInv, Swap
  PROVE  SchedulerInv'
<1>1. /\ TypeOK /\ mode = "switch" /\ q.running \in Thread
  BY DEF SchedulerInv, Swap, TypeOK, Queues, QueuesOver
<1>2. /\ UNCHANGED << q, tcb, thread_count1, pc, newNode >>
      /\ inHandler' = FALSE
      /\ cpu' = q.running /\ leaving' = Null /\ mode' \in {"run", "lost"}
      /\ Given' = Given
  BY DEF Swap, Given
<1>3. owner' \in [Thread -> Link]
  BY <1>1 DEF Swap, TypeOK, Link
<1>4. TypeOK'
  BY <1>1, <1>2, <1>3 DEF TypeOK, Modes, Link
<1>5. RunningIsCurrent' /\ SliceAccounting'
  BY <1>1, <1>2 DEF SchedulerInv, RunningIsCurrent, SliceAccounting, Intact
<1>. QED
  BY <1>1, <1>2, <1>4, <1>5, GivenInThread DEF SchedulerInv, Intact

-----------------------------------------------------------------------------
(* Before the first my_pthread_create there is only the main thread.       *)
THEOREM InitEstablishesInv == Init => SchedulerInv
<1>. SUFFICES ASSUME Init
              PROVE  SchedulerInv
  OBVIOUS
<1>1. /\ Thread = 1 .. N /\ 1 \in Thread /\ Null \notin Thread /\ 2 \in 2 .. N + 1
      /\ Given = 1 .. 1
  BY ThreadAssumption DEF Thread, Null, Given, Init
<1>2. q \in QueuesOver(Given) /\ q \in Queues /\ q.running = Null
  BY DEF Init, EmptyQueues, QueuesOver, Queues
<1>3. TypeOK
  BY <1>1, <1>2, BlocksTyped DEF Init, TypeOK, Labels, Link, Modes
<1>4. SliceAccounting /\ RunningIsCurrent
  BY <1>2, BlocksTyped, LimitAssumption DEF Init, SliceAccounting, RunningIsCurrent
<1>. QED
  BY <1>2, <1>3, <1>4, BlocksTyped DEF Init, SchedulerInv

(* Every step keeps the invariant, a signal in any window included.        *)
THEOREM NextKeepsInv == SchedulerInv /\ [Next]_vars => SchedulerInv'
<1>. SUFFICES ASSUME SchedulerInv, [Next]_vars
              PROVE  SchedulerInv'
  OBVIOUS
<1>0. TypeOK /\ pc \in [Thread -> Labels] /\ cpu \in Thread
  BY DEF SchedulerInv, TypeOK
<1>1. ASSUME NEW t \in Thread, CreateAlloc(t) PROVE SchedulerInv'
  BY <1>1, CreateAllocKeepsInv
<1>2. ASSUME NEW t \in Thread, NEW from \in Labels, Yield(t, from)
      PROVE  SchedulerInv'
  <2>1. scheduler(FALSE, "user") /\ Intact /\ "user" \in Labels
    BY <1>2 DEF Yield, Executing, Intact, Labels
  <2>. QED
    BY <2>1, SchedulerKeepsInv
<1>3. ASSUME NEW t \in Thread, Exit(t) PROVE SchedulerInv'
  BY <1>3, ExitKeepsInv
<1>4. ASSUME NEW t \in Thread,
             CreateTest(t) \/ CreateHead(t) \/ CreateLink(t) \/ CreateTail(t)
      PROVE  SchedulerInv'
  BY <1>4, CreateStepsKeepInv
<1>5. CASE Swap
  BY <1>5, SwapKeepsInv
<1>6. CASE Tick
  <2>1. scheduler(TRUE, pc[cpu]) /\ Intact /\ pc[cpu] \in Labels
    BY <1>0, <1>6 DEF Tick, CanTick, Interruptible, Intact
  <2>. QED
    BY <2>1, SchedulerKeepsInv
<1>7. CASE UNCHANGED vars
  <2>1. TypeOK' /\ SliceAccounting' /\ RunningIsCurrent'
    BY <1>7 DEF SchedulerInv, vars, TypeOK, SliceAccounting, RunningIsCurrent, Intact
  <2>. QED
    BY <1>7, <2>1 DEF SchedulerInv, vars, Given, Intact
<1>. QED
  BY <1>1, <1>2, <1>3, <1>4, <1>5, <1>6, <1>7
     DEF Next, Program, Library, Stopped, Labels

(***************************************************************************)
(* The strengthened invariant holds for any number of threads, any time    *)
(* slices and limits, both versions of createRunningQueue, and SIGALRM     *)
(* anywhere.                                                               *)
(***************************************************************************)
THEOREM SchedulerInvariant == Spec => []SchedulerInv
  BY InitEstablishesInv, NextKeepsInv, PTL DEF Spec

(* Every variable keeps its type.                                          *)
THEOREM TypeCorrect == Spec => []TypeOK
<1>1. SchedulerInv => TypeOK
  BY DEF SchedulerInv
<1>. QED
  BY <1>1, SchedulerInvariant, PTL

(***************************************************************************)
(* scheduler charges, and my_pthread_exit ends, the thread that executes   *)
(* (my_pthread.c:176-215, 495).                                            *)
(***************************************************************************)
THEOREM RunningIsTheCurrentThread == Spec => []RunningIsCurrent
<1>1. SchedulerInv => RunningIsCurrent
  BY DEF SchedulerInv
<1>. QED
  BY <1>1, SchedulerInvariant, PTL

(***************************************************************************)
(* A low priority is earned by whole slices of running time, and no thread *)
(* keeps AgeLimit of it (my_pthread.c:181-193, 211-215).                   *)
(***************************************************************************)
THEOREM PrioritiesAreEarned == Spec => []SliceAccounting
<1>1. SchedulerInv => SliceAccounting
  BY DEF SchedulerInv
<1>. QED
  BY <1>1, SchedulerInvariant, PTL

-----------------------------------------------------------------------------
(***************************************************************************)
(* The lists.  They are well formed as long as SIGALRM does not land       *)
(* between the stores of my_pthread_create, memory that is handed out is   *)
(* clean, and the slices of the threads that exist, each at the priority   *)
(* it has, come to no more than the budget of one running queue.  TLC      *)
(* shows that each of these is needed.  A signal between setitimer and     *)
(* swapcontext does the lists no harm.                                     *)
(***************************************************************************)
Orderly == Windows \subseteq {"test", "switch"} /\ ~StaleMemory

AtPriority(blocks, p) ==
  { t \in Thread : blocks[t].status # "NONE" /\ blocks[t].priority = p }

FitsIn(blocks) ==
  Spent([p \in Level |-> Cardinality(AtPriority(blocks, p))]) <= Budget

Fits == FitsIn(tcb)

(* The rows L are the lists of the queues, filed by the priorities in      *)
(* blocks: a thread waits in the queue of its priority, and the running    *)
(* queue goes from the highest to the lowest.                              *)
Shelved(queues, blocks, L) ==
  /\ queues \in Queues
  /\ Lined(queues, L)
  /\ \A p \in Level : \A i \in 1 .. Len(L[p]) : blocks[L[p][i]].priority = p
  /\ \A i, j \in 1 .. Len(L[3]) :
       i <= j => blocks[L[3][i]].priority <= blocks[L[3][j]].priority

(* The same, the threads in the lists being those of S, and the tails of   *)
(* the priority queues being up to date.                                   *)
Ready(queues, blocks, L, S) ==
  /\ Shelved(queues, blocks, L)
  /\ In(L) = S
  /\ \A p \in Level : Tailed(queues, L, p)

LiveIn(blocks)       == { t \in Thread : blocks[t].status # "NONE" }
UnlinkedIn(nn, at)   == { u \in Thread : \E t \in Thread : /\ nn[t] = u
                                                           /\ at[t] \in {"test", "head", "link"} }

(* The thread queues2.running has been dispatched, nothing else changed.   *)
Marked(blocks, blocks2, r) ==
  \A t \in Thread : /\ blocks2[t].status = IF t = r THEN "RUNNING" ELSE blocks[t].status
                    /\ blocks2[t].priority = blocks[t].priority

(* The running queue is the rest of the last one, or has everyone.         *)
Draws(M, rest) == IF rest # << >> THEN M[3] = rest ELSE \A p \in Level : M[p] = << >>

(* What scheduler leaves behind when it has chosen, from queues whose      *)
(* threads are those of S and whose running queue is rest.                 *)
Served(queues, blocks, rest, S, queues2, blocks2, m) ==
  /\ m \in {"switch", "done"}
  /\ m = "switch" =>
       /\ queues2.running \in S
       /\ \E M : Ready(queues2, blocks2, M, S) /\ Draws(M, rest)
       /\ Marked(blocks, blocks2, queues2.running)
       /\ \A u \in Thread : u \notin S => queues2.next[u] = queues.next[u]
  /\ m = "done" =>
       rest = << >> /\ S = {} /\ \E M : Ready(queues2, blocks2, M, S)

(* Priorities that do not change leave the threads where they are filed.   *)
LEMMA ShelvedAgain ==
  ASSUME NEW queues, NEW blocks, NEW L, Shelved(queues, blocks, L),
         NEW blocks2, \A t \in In(L) : blocks2[t].priority = blocks[t].priority
  PROVE  Shelved(queues, blocks2, L)
<1>1. \A p \in Shelf : \A i \in 1 .. Len(L[p]) :
        blocks2[L[p][i]].priority = blocks[L[p][i]].priority
  BY RowMembers DEF Shelved
<1>2. 3 \in Shelf /\ \A p \in Level : p \in Shelf
  BY DEF Shelf, Level
<1>. QED
  BY <1>1, <1>2 DEF Shelved

(* Marking the head of the running queue (lines 301-311) moves no thread.  *)
LEMMA DispatchServes ==
  ASSUME NEW queues, NEW blocks \in [Thread -> TCB], NEW L, NEW S,
         Ready(queues, blocks, L, S), queues.running # Null,
         Dispatch(queues, blocks)
  PROVE  /\ Served(queues, blocks, L[3], S, q', tcb', mode') /\ q' = queues
         /\ Ready(q', tcb', L, S)
<1>. DEFINE r == queues.running
<1>1. q' = queues /\ mode' = "switch" /\ tcb' = [blocks EXCEPT ![r].status = "RUNNING"]
  BY DEF Dispatch
<1>2. r \in S /\ r \in Thread /\ L[3] # << >>
  <2>1. 3 \in Shelf /\ First(queues, 3) = r
    BY DEF Shelf, First
  <2>2. L[3] # << >> /\ 1 \in 1 .. Len(L[3]) /\ r = L[3][1]
    BY <2>1, LinedHeads DEF Ready, Shelved
  <2>. QED
    BY <2>1, <2>2, RowMembers DEF Ready, Shelved
<1>3. Marked(blocks, tcb', r)
  <2>. DEFINE b == [blocks[r] EXCEPT !.status = "RUNNING"]
  <2>1. b.status = "RUNNING" /\ b.priority = blocks[r].priority
    BY <1>2 DEF TCB
  <2>2. tcb' = [blocks EXCEPT ![r] = b]
    BY <1>1
  <2>. HIDE DEF b
  <2>. QED
    BY <1>2, <2>1, <2>2 DEF Marked
<1>4. Ready(q', tcb', L, S)
  <2>1. \A t \in In(L) : tcb'[t].priority = blocks[t].priority
    BY <1>3 DEF Marked, In
  <2>2. Shelved(queues, tcb', L)
    BY <2>1, ShelvedAgain DEF Ready
  <2>. QED
    BY <1>1, <2>2 DEF Ready
<1>. QED
  BY <1>1, <1>2, <1>3, <1>4 DEF Served, Draws

(***************************************************************************)
(* No more threads wait at a priority than there are threads of it, so     *)
(* those who wait fit if all do.                                           *)
(***************************************************************************)
LEMMA RowsFit ==
  ASSUME NEW queues, NEW blocks, NEW L, NEW S, Ready(queues, blocks, L, S),
         NEW blocks2, FitsIn(blocks2),
         \A t \in S : /\ blocks2[t].status # "NONE"
                      /\ blocks2[t].priority = blocks[t].priority
  PROVE  Spent([p \in Level |-> Len(L[p])]) <= Budget
<1>. DEFINE n == [p \in Level |-> Len(L[p])]
            m == [p \in Level |-> Cardinality(AtPriority(blocks2, p))]
<1>1. /\ L \in [Shelf -> Seq(Thread)] /\ Apart(L) /\ In(L) = S
      /\ \A p \in Level : \A i \in 1 .. Len(L[p]) : blocks[L[p][i]].priority = p
  BY DEF Ready, Shelved, Lined
<1>2. IsFiniteSet(Thread)
  <2>1. 1 \in Int /\ N \in Int
    BY ThreadAssumption
  <2>. QED
    BY <2>1, FS_Interval DEF Thread
<1>3. ASSUME NEW p \in Level
      PROVE  /\ Len(L[p]) \in Nat /\ Cardinality(AtPriority(blocks2, p)) \in Nat
             /\ Len(L[p]) <= Cardinality(AtPriority(blocks2, p))
  <2>. DEFINE s == L[p]
              T == AtPriority(blocks2, p)
  <2>1. p \in Shelf /\ s \in Seq(Thread)
    BY <1>1 DEF Level, Shelf
  <2>2. Len(s) \in Nat /\ s \in [1 .. Len(s) -> Thread]
    BY <2>1, LenProperties
  <2>3. \A i \in 1 .. Len(s) : s[i] \in T
    <3>1. ASSUME NEW i \in 1 .. Len(s) PROVE s[i] \in S /\ s[i] \in Thread
      <4>1. Lined(queues, L)
        BY DEF Ready, Shelved
      <4>. QED
        BY <1>1, <2>1, <4>1, RowMembers
    <3>. QED
      BY <1>1, <3>1 DEF AtPriority
  <2>4. \A i, j \in 1 .. Len(s) : s[i] = s[j] => i = j
    BY <1>1, <2>1 DEF Apart
  <2>5. IsFiniteSet(T) /\ Cardinality(T) \in Nat
    <3>1. T \subseteq Thread
      BY DEF AtPriority
    <3>. QED
      BY <1>2, <3>1, FS_Subset, FS_CardinalityType
  <2>. HIDE DEF s, T
  <2>6. s \in Injection(1 .. Len(s), T)
    BY <2>2, <2>3, <2>4 DEF Injection, IsInjective
  <2>7. Cardinality(1 .. Len(s)) = Len(s)
    <3>1. 1 \in Int /\ Len(s) \in Int
      BY <2>2
    <3>2. Cardinality(1 .. Len(s)) = IF 1 > Len(s) THEN 0 ELSE Len(s) - 1 + 1
      BY <3>1, FS_Interval
    <3>. QED
      BY <2>2, <3>2
  <2>8. Len(s) <= Cardinality(T)
    BY <2>5, <2>6, <2>7, FS_Injection
  <2>. QED
    BY <2>2, <2>5, <2>8 DEF s, T
<1>4. n \in Counts /\ m \in Counts /\ \A p \in Level : n[p] <= m[p]
  BY <1>3 DEF Counts
<1>5. Spent(m) <= Budget
  BY DEF FitsIn
<1>. HIDE DEF n, m
<1>6. Spent(n) <= Spent(m) /\ Spent(n) \in Nat /\ Spent(m) \in Nat
  BY <1>4, SpentGrows, SpentNat
<1>. QED
  BY <1>5, <1>6, LimitAssumption DEF n

(***************************************************************************)
(* createRunningQueue (lines 333-457) on well formed lists ends the        *)
(* program or loads everyone who waits; it neither spins nor is lost.      *)
(***************************************************************************)
LEMMA createRunningQueueServes ==
  ASSUME Fits', NEW queues, NEW blocks \in [Thread -> TCB], NEW L, NEW S,
         Ready(queues, blocks, L, S), S \subseteq LiveIn(blocks),
         queues.running = Null,
         createRunningQueue(queues, blocks)
  PROVE  Served(queues, blocks, L[3], S, q', tcb', mode')
<1>1. Lined(queues, L) /\ queues \in Queues /\ \A p \in Level : Tailed(queues, L, p)
  BY DEF Ready, Shelved
<1>2. ListsIntact(queues)
  BY <1>1, LinedLists
<1>3. L[3] = << >>
  <2>1. 3 \in Shelf /\ First(queues, 3) = Null
    BY DEF Shelf, First
  <2>. QED
    BY <1>1, <2>1, LinedHeads
<1>4. CASE AllEmpty(queues) /\ Stop(queues, blocks, "done")
  <2>1. S = {}
    <3>1. \A p \in Shelf : L[p] = << >>
      <4>1. \A p \in Shelf : p # 3 => p \in Level /\ First(queues, p) = queues.head[p]
        BY DEF Shelf, Level, First
      <4>2. \A p \in Shelf : p # 3 => First(queues, p) = Null
        BY <1>4, <4>1 DEF AllEmpty
      <4>. QED
        BY <1>1, <1>3, <4>2, LinedHeads
    <3>2. \A p \in Shelf : Len(L[p]) = 0
      BY <3>1, EmptySeq
    <3>3. In(L) = {}
      BY <3>2 DEF In
    <3>. QED
      BY <3>3 DEF Ready
  <2>2. q' = queues /\ tcb' = blocks /\ mode' = "done"
    BY <1>4 DEF Stop
  <2>. QED
    BY <1>3, <2>1, <2>2 DEF Served
<1>f. \A t \in S : blocks[t].status # "NONE"
  BY DEF LiveIn
<1>5. CASE /\ ~AllEmpty(queues) /\ ~Spins(Lengths(queues))
           /\ Dispatch(Load(queues), blocks)
  <2>. DEFINE e == Load(queues)
              M == Loaded(L)
  <2>0. Spent([p \in Level |-> Len(L[p])]) <= Budget
    <3>1. e.running \in Thread
      BY <1>1, <1>2, <1>5, LoadOver DEF Queues
    <3>. DEFINE b == [blocks[e.running] EXCEPT !.status = "RUNNING"]
    <3>2. b.status = "RUNNING" /\ b.priority = blocks[e.running].priority
      <4>. HIDE DEF e
      <4>. QED
        BY <3>1 DEF TCB
    <3>3. tcb' = [blocks EXCEPT ![e.running] = b]
      BY <1>5 DEF Dispatch
    <3>. HIDE DEF e, b
    <3>4. \A t \in Thread : tcb'[t] = IF t = e.running THEN b ELSE blocks[t]
      BY <3>3
    <3>5. \A t \in S : tcb'[t].status # "NONE" /\ tcb'[t].priority = blocks[t].priority
      BY <1>f, <3>2, <3>4 DEF LiveIn
    <3>6. FitsIn(tcb')
      BY DEF Fits
    <3>. QED
      BY <3>5, <3>6, RowsFit
  <2>1. /\ Lined(e, M) /\ In(M) = In(L)
        /\ \A p \in Level : Tailed(e, M, p)
        /\ M[3] = Joined(L) /\ (\A p \in Level : M[p] = << >>)
        /\ M[3] # << >>
        /\ \A u \in Thread : u \notin In(L) => e.next[u] = queues.next[u]
    BY <1>1, <1>3, <1>5, <2>0, LoadLines
  <2>2. e \in Queues /\ e.running # Null
    <3>1. e \in QueuesOver(Thread) /\ e.running \in Thread
      BY <1>1, <1>2, <1>5, LoadOver DEF Queues
    <3>. QED
      BY <3>1, ThreadAssumption DEF Queues, Thread, Null
  <2>. HIDE DEF e, M
  <2>3. Ready(e, blocks, M, S)
    <3>1. \A p \in Level : \A i \in 1 .. Len(M[p]) : blocks[M[p][i]].priority = p
      <4>1. \A p \in Level : Len(M[p]) = 0
        BY <2>1, EmptySeq
      <4>. QED
        BY <4>1
    <3>2. \A i \in 1 .. Len(M[3]) : blocks[M[3][i]].priority = Part(L, i)
      <4>. SUFFICES ASSUME NEW i \in 1 .. Len(Joined(L))
                    PROVE  blocks[Joined(L)[i]].priority = Part(L, i)
        BY <2>1
      <4>0. L \in [Shelf -> Seq(Thread)]
        BY <1>1 DEF Lined
      <4>1. /\ Part(L, i) \in Level
            /\ i - Before(L, Part(L, i)) \in 1 .. Len(L[Part(L, i)])
            /\ Joined(L)[i] = L[Part(L, i)][i - Before(L, Part(L, i))]
        BY <4>0, JoinedRows
      <4>. QED
        BY <4>1 DEF Ready, Shelved
    <3>3. \A i, j \in 1 .. Len(M[3]) :
            i <= j => blocks[M[3][i]].priority <= blocks[M[3][j]].priority
      <4>0. L \in [Shelf -> Seq(Thread)]
        BY <1>1 DEF Lined
      <4>1. \A i, j \in 1 .. Len(M[3]) : i <= j => Part(L, i) <= Part(L, j)
        BY <2>1, <4>0, JoinedRows
      <4>. QED
        BY <3>2, <4>1
    <3>4. In(M) = S
      BY <2>1 DEF Ready
    <3>. QED
      BY <2>1, <2>2, <3>1, <3>3, <3>4 DEF Ready, Shelved
  <2>4. Dispatch(e, blocks)
    BY <1>5 DEF e
  <2>5. Served(e, blocks, M[3], S, q', tcb', mode') /\ q' = e /\ Ready(q', tcb', M, S)
    BY <2>2, <2>3, <2>4, DispatchServes
  <2>6. \A u \in Thread : u \notin S => e.next[u] = queues.next[u]
    BY <2>1 DEF Ready
  <2>7. mode' = "switch"
    BY <2>4 DEF Dispatch
  <2>8. Draws(M, L[3])
    BY <1>3, <2>1 DEF Draws
  <2>. QED
    BY <2>5, <2>6, <2>7, <2>8 DEF Served
<1>6. ~(/\ ~AllEmpty(queues) /\ Spins(Lengths(queues))
        /\ Stop(queues, blocks, "hung"))
  <2>. SUFFICES ASSUME Stop(queues, blocks, "hung"), ~AllEmpty(queues)
                PROVE  ~Spins(Lengths(queues))
    OBVIOUS
  <2>1. tcb' = blocks /\ FitsIn(tcb')
    BY DEF Stop, Fits
  <2>2. Spent([p \in Level |-> Len(L[p])]) <= Budget
    BY <1>f, <2>1, RowsFit
  <2>. QED
    BY <1>1, <1>3, <2>2, LoadLines
<1>. QED
  BY <1>2, <1>4, <1>5, <1>6 DEF createRunningQueue

-----------------------------------------------------------------------------
(***************************************************************************)
(* The invariant of the lists.                                             *)
(***************************************************************************)

(* The rows L hold every thread that exists and is linked; a tail is up to *)
(* date unless a create that has linked its node has yet to set it.        *)
Rows(qq, bb, nn, at, L) ==
  /\ Shelved(qq, bb, L)
  /\ In(L) = LiveIn(bb) \ UnlinkedIn(nn, at)
  /\ \A p \in Level : p # 0 \/ (\A t \in Thread : at[t] # "tail") => Tailed(qq, L, p)
  /\ \A t \in Thread :
       at[t] = "tail" => L[0] # << >> /\ nn[t] = L[0][Len(L[0])]

(* What is true of a create under way: its node is its own, and, until it  *)
(* is linked, READY, of priority 0 and without a successor; past the test  *)
(* it is on the processor, and what it tested is still so.                 *)
Creates(qq, bb, nn, at, c, m) ==
  /\ \A t \in Thread : nn[t] # Null <=> at[t] \in CreateSteps
  /\ \A t, u \in Thread : nn[t] = nn[u] /\ nn[t] # Null => t = u
  /\ \A t \in Thread : at[t] \in {"test", "head", "link"} =>
       bb[nn[t]].status = "READY" /\ bb[nn[t]].priority = 0 /\ qq.next[nn[t]] = Null
  /\ \A t \in Thread : at[t] \in {"head", "link", "tail"} => m = "run" /\ c = t
  /\ \A t \in Thread : /\ at[t] = "head" => qq.head[0] = Null
                       /\ at[t] = "link" => qq.head[0] # Null

(* Who has exited has yet to yield; there is nothing to execute of an id   *)
(* that was not given; the first switch finds a thread to switch to.       *)
Lives(qq, bb, at, c, m, given) ==
  /\ c \in given
  /\ \A t \in Thread : bb[t].status = "EXITED" <=> at[t] = "exit"
  /\ \A t \in Thread \ given : at[t] = "none"
  /\ m = "switch" => bb[qq.running].status = "RUNNING"
  /\ qq.running = Null => /\ bb[1].status = "NONE"
                          /\ at[1] = "yield" => qq.head[0] # Null

OrderInv ==
  /\ SchedulerInv
  /\ Intact => /\ \E L : Rows(q, tcb, newNode, pc, L)
               /\ Creates(q, tcb, newNode, pc, cpu, mode)
               /\ Lives(q, tcb, pc, cpu, mode, Given)

-----------------------------------------------------------------------------
(***************************************************************************)
(* scheduler.  The thread that leaves is charged and queued, or reaped;    *)
(* then the next one is chosen.                                            *)
(***************************************************************************)

(* blocks is bb after thread x has left the processor.                     *)
Left(bb, blocks, x, exited) ==
  \A t \in Thread :
    IF t = x THEN blocks[t].status = IF exited THEN "NONE" ELSE "READY"
    ELSE blocks[t].status = bb[t].status /\ blocks[t].priority = bb[t].priority

(* A switch away from x, what is left of the round being rest and the      *)
(* threads in the lists then being those of S.                             *)
Switched(x, exited, rest, S, blocks) ==
  /\ x \in Thread
  /\ Left(tcb, blocks, x, exited)
  /\ S = IF exited THEN LiveIn(tcb) \ (Unlinked \cup {x})
         ELSE (LiveIn(tcb) \ Unlinked) \cup {x}
  /\ x \notin Unlinked
  /\ \E queues : /\ Served(queues, blocks, rest, S, q', tcb', mode')
                 /\ \A u \in Unlinked : queues.next[u] = q.next[u]

(* Unlinked, said of the variables.                                        *)
LEMMA UnlinkedIs == Unlinked = UnlinkedIn(newNode, pc)
  BY DEF Unlinked, UnlinkedIn

(* The choice of the next thread, from lists that are well formed.         *)
LEMMA ChoiceServes ==
  ASSUME Fits', NEW queues, NEW blocks \in [Thread -> TCB], NEW L, NEW S,
         Ready(queues, blocks, L, S), S \subseteq LiveIn(blocks),
         \/ queues.running # Null /\ Dispatch(queues, blocks)
         \/ queues.running = Null /\ createRunningQueue(queues, blocks)
  PROVE  Served(queues, blocks, L[3], S, q', tcb', mode')
  BY DispatchServes, createRunningQueueServes

(* A create that has not linked its node has one that is READY, of         *)
(* priority 0 and the end of no list.                                      *)
LEMMA UnlinkedNodes ==
  ASSUME SchedulerInv, Creates(q, tcb, newNode, pc, cpu, mode), NEW u \in Unlinked
  PROVE  /\ u \in Thread /\ tcb[u].status = "READY" /\ tcb[u].priority = 0
         /\ q.next[u] = Null
  BY DEF Unlinked, Creates

(* The first call (lines 151-173) puts the main thread before the thread   *)
(* that it has just created.                                               *)
LEMMA FirstSwitchServes ==
  ASSUME Fits', OrderInv, Intact, FirstSwitch, pc[1] = "yield",
         NEW L, Rows(q, tcb, newNode, pc, L),
         \A p \in Level : Tailed(q, L, p)
  PROVE  \E S, blocks : Switched(1, FALSE, << >>, S, blocks)
<1>. DEFINE queues == Push(q, 1)
            blocks == [tcb EXCEPT ![1] = NewThread]
            S      == (LiveIn(tcb) \ Unlinked) \cup {1}
            M      == Pushed(L, 1)
<1>1. /\ TypeOK /\ tcb \in [Thread -> TCB] /\ q \in Queues /\ 1 \in Thread
      /\ q.running = Null /\ tcb[1].status = "NONE" /\ q.head[0] # Null
      /\ Creates(q, tcb, newNode, pc, cpu, mode)
      /\ createRunningQueue(queues, blocks)
  BY GivenInThread DEF OrderInv, SchedulerInv, TypeOK, Lives, FirstSwitch
<1>2. /\ Lined(q, L) /\ In(L) = LiveIn(tcb) \ Unlinked
      /\ Shelved(q, tcb, L) /\ 0 \in Level /\ 0 \in Shelf /\ 3 \in Shelf
  <2>1. Shelved(q, tcb, L) /\ In(L) = LiveIn(tcb) \ UnlinkedIn(newNode, pc)
    BY DEF Rows
  <2>2. Lined(q, L)
    BY <2>1 DEF Shelved
  <2>3. 0 \in Level /\ 0 \in Shelf /\ 3 \in Shelf
    BY DEF Level, Shelf
  <2>. QED
    BY <2>1, <2>2, <2>3, UnlinkedIs
<1>3. 1 \notin In(L) /\ 1 \notin Unlinked
  <2>1. 1 \notin LiveIn(tcb)
    BY <1>1 DEF LiveIn
  <2>2. \A u \in Unlinked : tcb[u].status = "READY"
    BY <1>1, UnlinkedNodes DEF OrderInv
  <2>. QED
    BY <1>1, <1>2, <2>1, <2>2
<1>4. L[0] # << >> /\ L[3] = << >>
  <2>1. First(q, 0) = q.head[0] /\ First(q, 3) = q.running
    BY DEF First
  <2>. QED
    BY <1>1, <1>2, <2>1, LinedHeads
<1>5. /\ queues \in Queues /\ Lined(queues, M) /\ In(M) = In(L) \cup {1}
      /\ \A p \in Shelf : p # 0 => M[p] = L[p]
      /\ Tailed(queues, M, 0) /\ queues.tail = q.tail /\ queues.running = q.running
      /\ \A u \in Thread : u # 1 => queues.next[u] = q.next[u]
      /\ \A i \in 1 .. Len(M[0]) : M[0][i] = 1 \/ \E j \in 1 .. Len(L[0]) : M[0][i] = L[0][j]
  <2>1. Tailed(q, L, 0)
    BY <1>2
  <2>. QED
    BY <1>1, <1>2, <1>3, <1>4, <2>1, PushLines
<1>6. /\ blocks \in [Thread -> TCB] /\ blocks[1].status = "READY"
      /\ blocks[1].priority = 0
      /\ \A t \in Thread : t # 1 => blocks[t] = tcb[t]
  BY <1>1, BlocksTyped
<1>. HIDE DEF queues, blocks, M
<1>7. Ready(queues, blocks, M, S)
  <2>1. \A p \in Level : p # 0 => Tailed(queues, M, p)
    <3>1. \A p \in Level : p \in Shelf
      BY DEF Level, Shelf
    <3>. QED
      BY <1>5, <3>1 DEF Tailed
  <2>2. ASSUME NEW p \in Level, NEW i \in 1 .. Len(M[p])
        PROVE  blocks[M[p][i]].priority = p
    <3>0. p \in Shelf
      BY DEF Level, Shelf
    <3>1. CASE p = 0
      <4>1. CASE M[0][i] = 1
        BY <1>6, <3>1, <4>1
      <4>2. CASE M[0][i] # 1
        <5>1. PICK j \in 1 .. Len(L[0]) : M[0][i] = L[0][j]
          BY <1>5, <3>1, <4>2
        <5>2. L[0][j] \in Thread /\ tcb[L[0][j]].priority = 0
          BY <1>2, RowMembers DEF Shelved
        <5>. QED
          BY <1>6, <3>1, <4>2, <5>1, <5>2
      <4>. QED
        BY <4>1, <4>2
    <3>2. CASE p # 0
      <4>1. M[p] = L[p]
        BY <1>5, <3>0, <3>2
      <4>2. L[p][i] \in In(L) /\ L[p][i] \in Thread /\ tcb[L[p][i]].priority = p
        BY <1>2, <3>0, <4>1, RowMembers DEF Shelved
      <4>. QED
        BY <1>3, <1>6, <4>1, <4>2
    <3>. QED
      BY <3>1, <3>2
  <2>3. M[3] = << >> /\ Len(<< >>) = 0
    BY <1>2, <1>4, <1>5, EmptySeq
  <2>4. \A i, j \in 1 .. Len(M[3]) : i <= j => blocks[M[3][i]].priority <= blocks[M[3][j]].priority
    BY <2>3
  <2>5. In(M) = S
    BY <1>2, <1>5
  <2>. HIDE DEF S
  <2>. QED
    BY <1>5, <2>1, <2>2, <2>4, <2>5 DEF Ready, Shelved
<1>8. queues.running = Null
  BY <1>1, <1>5
<1>9. createRunningQueue(queues, blocks)
  BY <1>1 DEF queues, blocks
<1>10. M[3] = << >>
  BY <1>2, <1>4, <1>5
<1>11. Served(queues, blocks, << >>, S, q', tcb', mode')
  <2>1. S \subseteq LiveIn(blocks)
    BY <1>1, <1>6 DEF LiveIn
  <2>. HIDE DEF S
  <2>. QED
    BY <1>6, <1>7, <1>8, <1>9, <1>10, <2>1, ChoiceServes
<1>12. \A u \in Unlinked : queues.next[u] = q.next[u]
  BY <1>3, <1>5 DEF Unlinked
<1>13. Left(tcb, blocks, 1, FALSE)
  BY <1>1, <1>6 DEF Left
<1>14. Switched(1, FALSE, << >>, S, blocks)
  BY <1>1, <1>3, <1>11, <1>12, <1>13 DEF Switched
<1>. QED
  BY <1>14

(***************************************************************************)
(* A thread that is linked behind the queue of its priority is filed       *)
(* (lines 218-247 for the one that leaves, 108-114 for a new one).         *)
(***************************************************************************)
LEMMA AppendShelves ==
  ASSUME NEW queues, NEW blocks, NEW L, Shelved(queues, blocks, L),
         NEW p \in Level, NEW t \in Thread, t \notin In(L), blocks[t].priority = p,
         NEW queues2 \in Queues, Linking(queues, queues2, L, p, t)
  PROVE  Shelved(queues2, blocks, Appended(L, p, t))
<1>. DEFINE M == Appended(L, p, t)
<1>1. /\ Lined(queues2, M)
      /\ \A r \in Shelf : r # p => M[r] = L[r]
      /\ Len(M[p]) = Len(L[p]) + 1
      /\ \A i \in 1 .. Len(L[p]) : M[p][i] = L[p][i]
      /\ M[p][Len(L[p]) + 1] = t
  BY AppendLines DEF Shelved
<1>2. 3 \in Shelf /\ 3 # p /\ \A r \in Level : r \in Shelf
  BY DEF Shelf, Level
<1>3. Len(L[p]) \in Nat
  BY <1>2 DEF Shelved, Lined
<1>. HIDE DEF M
<1>4. ASSUME NEW r \in Level, NEW i \in 1 .. Len(M[r])
      PROVE  blocks[M[r][i]].priority = r
  <2>1. CASE r # p
    BY <1>1, <1>2, <2>1 DEF Shelved
  <2>2. CASE r = p /\ i \in 1 .. Len(L[p])
    BY <1>1, <2>2 DEF Shelved
  <2>3. CASE r = p /\ i = Len(L[p]) + 1
    BY <1>1, <2>3
  <2>. QED
    BY <1>1, <1>3, <2>1, <2>2, <2>3
<1>5. M[3] = L[3]
  BY <1>1, <1>2
<1>. QED
  BY <1>1, <1>4, <1>5 DEF Shelved, M

(***************************************************************************)
(* Taking the head off the running queue (lines 196 and 208) keeps its     *)
(* order.                                                                  *)
(***************************************************************************)
LEMMA AdvanceShelves ==
  ASSUME NEW queues \in Queues, NEW blocks, NEW L, Shelved(queues, blocks, L),
         queues.running # Null
  PROVE  Shelved(Advance(queues), blocks, Advanced(L))
<1>1. /\ Lined(Advance(queues), Advanced(L)) /\ Advance(queues) \in Queues
      /\ \A p \in Level : Advanced(L)[p] = L[p]
      /\ L[3] # << >> /\ L[3] \in Seq(Thread) /\ queues.running = L[3][1]
  BY AdvanceLines DEF Shelved
<1>2. L \in [Shelf -> Seq(Thread)] /\ 3 \in Shelf /\ Goes(queues.next, queues.running, L[3])
  BY DEF Shelved, Lined, Shelf, First
<1>3. Advanced(L)[3] = Tail(L[3])
  BY <1>2 DEF Advanced
<1>4. /\ Len(Tail(L[3])) = Len(L[3]) - 1 /\ Len(L[3]) \in Nat
      /\ \A i \in 1 .. Len(Tail(L[3])) : i + 1 \in 1 .. Len(L[3]) /\ Tail(L[3])[i] = L[3][i + 1]
  BY <1>1, <1>2, TailRow, Entries
<1>5. ASSUME NEW i \in 1 .. Len(Tail(L[3])), NEW j \in 1 .. Len(Tail(L[3])), i <= j
      PROVE  blocks[Tail(L[3])[i]].priority <= blocks[Tail(L[3])[j]].priority
  <2>1. i + 1 \in 1 .. Len(L[3]) /\ j + 1 \in 1 .. Len(L[3]) /\ i + 1 <= j + 1
    BY <1>4, <1>5
  <2>2. blocks[L[3][i + 1]].priority <= blocks[L[3][j + 1]].priority
    BY <2>1 DEF Shelved
  <2>. QED
    BY <1>4, <2>2
<1>. QED
  BY <1>1, <1>3, <1>5 DEF Shelved

(* The thread that leaves the processor (lines 176-216).                   *)
LEMMA ChargedBlocks ==
  ASSUME SchedulerInv, Intact, q.running # Null, NEW ranWholeTimeSlice \in BOOLEAN
  PROVE  /\ Charged(ranWholeTimeSlice) \in [Thread -> TCB]
         /\ Left(tcb, Charged(ranWholeTimeSlice), q.running, Exited)
<1>. DEFINE x    == q.running
            left == IF Exited THEN Blank ELSE Charge(tcb[x], ranWholeTimeSlice)
            blocks == Charged(ranWholeTimeSlice)
<1>1. TypeOK /\ x \in Thread /\ tcb[x] \in TCB /\ Earned(tcb[x])
  BY SliceAccountingIsEarned DEF SchedulerInv, TypeOK, Queues, QueuesOver
<1>2. left \in TCB /\ left.status = IF Exited THEN "NONE" ELSE "READY"
  BY <1>1, ChargeEarned, BlocksTyped
<1>3. blocks = [tcb EXCEPT ![x] = left]
  BY DEF Charged
<1>. HIDE DEF left, blocks
<1>4. /\ blocks \in [Thread -> TCB] /\ blocks[x] = left
      /\ \A t \in Thread : t # x => blocks[t] = tcb[t]
  BY <1>1, <1>2, <1>3 DEF TypeOK
<1>5. Left(tcb, blocks, x, Exited)
  BY <1>2, <1>4 DEF Left
<1>. QED
  BY <1>4, <1>5 DEF blocks

(* The later calls of scheduler (lines 176-255).                           *)
LEMMA SwitchFromServes ==
  ASSUME Fits', OrderInv, Intact, NEW ranWholeTimeSlice \in BOOLEAN,
         SwitchFrom(ranWholeTimeSlice),
         NEW L, Rows(q, tcb, newNode, pc, L),
         \A p \in Level : Tailed(q, L, p)
  PROVE  \E S, blocks : Switched(q.running, Exited, Tail(L[3]), S, blocks)
<1>. DEFINE x == q.running
            A == Advanced(L)
            a == Advance(q)
            blocks == Charged(ranWholeTimeSlice)
            pr == blocks[x].priority
<1>1. /\ SchedulerInv /\ TypeOK /\ q \in Queues /\ x # Null /\ x \in Thread
  BY DEF OrderInv, SchedulerInv, TypeOK, SwitchFrom, Queues, QueuesOver
<1>2. blocks \in [Thread -> TCB] /\ Left(tcb, blocks, x, Exited)
  BY <1>1, ChargedBlocks
<1>3. /\ Shelved(q, tcb, L) /\ Lined(q, L)
      /\ In(L) = LiveIn(tcb) \ Unlinked
  BY UnlinkedIs DEF Rows, Shelved
<1>4. /\ Lined(a, A) /\ In(A) = In(L) \ {x}
      /\ (\A p \in Level : A[p] = L[p])
      /\ L[3] # << >> /\ L[3] \in Seq(Thread) /\ x = L[3][1]
      /\ a \in Queues /\ a.next = q.next /\ a.tail = q.tail
  BY <1>1, <1>3, AdvanceLines
<1>5. A[3] = Tail(L[3])
  <2>1. L \in [Shelf -> Seq(Thread)] /\ 3 \in Shelf
    BY <1>3 DEF Lined, Shelf
  <2>. QED
    BY <2>1 DEF Advanced
<1>6. x \in In(L)
  <2>1. 3 \in Shelf /\ 1 \in 1 .. Len(L[3])
    <3>1. 3 \in Shelf
      BY DEF Shelf
    <3>. QED
      BY <1>3, <1>4, <3>1, LinedHeads
  <2>. QED
    BY <1>3, <1>4, <2>1, RowMembers
<1>7. Shelved(a, tcb, A)
  BY <1>1, <1>3, AdvanceShelves
<1>. HIDE DEF blocks
<1>8. Shelved(a, blocks, A)
  <2>1. \A t \in In(A) : blocks[t].priority = tcb[t].priority
    BY <1>2, <1>4 DEF Left, In
  <2>. HIDE DEF a, A
  <2>. QED
    BY <1>7, <2>1, ShelvedAgain
<1>9. \A p \in Level : Tailed(a, A, p)
  BY <1>4 DEF Tailed
<1>10. \A u \in Unlinked : u \in Thread /\ u \notin In(L) /\ u # x
  BY <1>3, <1>6 DEF Unlinked
<1>11. CASE Exited
  <2>. DEFINE S == LiveIn(tcb) \ (Unlinked \cup {x})
  <2>1. Ready(a, blocks, A, S)
    BY <1>3, <1>4, <1>8, <1>9 DEF Ready
  <2>2. \/ a.running # Null /\ Dispatch(a, blocks)
        \/ a.running = Null /\ createRunningQueue(a, blocks)
    BY <1>11 DEF SwitchFrom, Requeued, blocks
  <2>s. S \subseteq LiveIn(blocks)
    BY <1>2 DEF LiveIn, Left
  <2>. HIDE DEF a, A, S
  <2>3. Served(a, blocks, A[3], S, q', tcb', mode')
    BY <1>2, <2>1, <2>2, <2>s, ChoiceServes
  <2>4. \A u \in Unlinked : a.next[u] = q.next[u]
    BY <1>4
  <2>5. Switched(x, Exited, Tail(L[3]), S, blocks)
    BY <1>1, <1>2, <1>5, <1>10, <1>11, <2>3, <2>4 DEF Switched, S
  <2>. QED
    BY <2>5
<1>12. CASE ~Exited
  <2>. DEFINE S == (LiveIn(tcb) \ Unlinked) \cup {x}
              e == Enqueue(a, pr, x)
              M == Appended(A, pr, x)
  <2>1. pr \in Level
    BY <1>1, <1>2 DEF TCB
  <2>. HIDE DEF pr, a, A
  <2>2. x \notin In(A) /\ Tailed(a, A, pr)
    BY <1>4, <1>9, <2>1
  <2>3. /\ Linking(a, e, A, pr, x)
        /\ e \in Queues
        /\ e.tail[pr] = x
        /\ \A r \in Level : r # pr => e.tail[r] = a.tail[r]
        /\ \A u \in Thread : u \notin In(A) /\ u # x => e.next[u] = a.next[u]
    BY <1>1, <1>4, <2>1, <2>2, EnqueueLines
  <2>4. /\ Lined(e, M) /\ In(M) = In(A) \cup {x}
        /\ \A r \in Shelf : r # pr => M[r] = A[r]
        /\ Len(M[pr]) = Len(A[pr]) + 1
        /\ M[pr][Len(A[pr]) + 1] = x
    BY <1>1, <1>4, <2>1, <2>2, <2>3, AppendLines
  <2>. HIDE DEF e, M
  <2>5. Shelved(e, blocks, M)
    <3>1. blocks[x].priority = pr
      BY DEF pr
    <3>. QED
      BY <1>1, <1>8, <2>1, <2>2, <2>3, <3>1, AppendShelves DEF M
  <2>6. \A p \in Level : Tailed(e, M, p)
    <3>. SUFFICES ASSUME NEW p \in Level PROVE Tailed(e, M, p)
      OBVIOUS
    <3>0. p \in Shelf /\ pr \in Shelf
      BY <2>1 DEF Level, Shelf
    <3>1. CASE p = pr
      <4>1. Len(A[pr]) \in Nat
        BY <1>4, <3>0 DEF Lined
      <4>2. Len(M[pr]) \in 1 .. Len(M[pr])
        BY <2>4, <4>1
      <4>3. Entry(M[pr], Len(M[pr])) = x
        BY <2>4, <4>2 DEF Entry
      <4>. QED
        BY <2>3, <3>1, <4>3 DEF Tailed
    <3>2. CASE p # pr
      BY <1>9, <2>3, <2>4, <3>0, <3>2 DEF Tailed
    <3>. QED
      BY <3>1, <3>2
  <2>7. In(M) = S
    BY <1>3, <1>4, <1>6, <2>4
  <2>8. Ready(e, blocks, M, S)
    <3>. HIDE DEF S
    <3>. QED
      BY <2>5, <2>6, <2>7 DEF Ready
  <2>9. \/ e.running # Null /\ Dispatch(e, blocks)
        \/ e.running = Null /\ createRunningQueue(e, blocks)
    BY <1>12 DEF SwitchFrom, Requeued, blocks, e, pr, a
  <2>10. M[3] = Tail(L[3])
    <3>1. 3 \in Shelf /\ 3 # pr
      BY <2>1 DEF Shelf, Level
    <3>. QED
      BY <1>5, <2>4, <3>1
  <2>11. Served(e, blocks, Tail(L[3]), S, q', tcb', mode')
    <3>2. S \subseteq LiveIn(blocks)
      BY <1>1, <1>2, <1>12 DEF LiveIn, Left
    <3>. HIDE DEF S
    <3>1. Served(e, blocks, M[3], S, q', tcb', mode')
      BY <1>2, <2>8, <2>9, <3>2, ChoiceServes
    <3>. QED
      BY <2>10, <3>1
  <2>12. \A u \in Unlinked : e.next[u] = q.next[u]
    BY <1>4, <1>10, <2>3
  <2>13. Switched(x, Exited, Tail(L[3]), S, blocks)
    BY <1>1, <1>2, <1>10, <1>12, <2>11, <2>12 DEF Switched
  <2>. QED
    BY <2>13
<1>. QED
  BY <1>11, <1>12

(* Who leaves the processor, whether it has exited, what is left of the    *)
(* round, and the places of my_pthread_create in which the caller is not.  *)
Leaver     == IF q.running = Null THEN 1 ELSE q.running
LeaverDone == q.running # Null /\ Exited
Rest(L)    == IF q.running = Null THEN << >> ELSE Tail(L[3])
OffLists   == \A t \in Thread : pc[t] \notin {"head", "link", "tail"}

(* A call of scheduler, whoever makes it, outside the list insertion.      *)
Called(label) ==
  /\ OffLists
  /\ q.running = Null => pc[1] = "yield"
  /\ \/ label = pc[cpu]
     \/ label = "user" /\ pc[cpu] \in {"user", "yield", "exit"}

(***************************************************************************)
(* The first call of scheduler and the later ones (lines 151-255), the     *)
(* thread that leaves being Leaver either way.                             *)
(***************************************************************************)
LEMMA SchedulerSwitches ==
  ASSUME Fits', OrderInv, Intact, NEW ranWholeTimeSlice \in BOOLEAN, NEW label,
         Called(label), scheduler(ranWholeTimeSlice, label),
         NEW L, Rows(q, tcb, newNode, pc, L)
  PROVE  /\ \E S, blocks : Switched(Leaver, LeaverDone, Rest(L), S, blocks)
         /\ leaving' = IF LeaverDone THEN Null ELSE Leaver
<1>1. \A p \in Level : Tailed(q, L, p)
  BY DEF Rows, Called, OffLists
<1>2. CASE FirstSwitch
  <2>1. q.running = Null /\ pc[1] = "yield" /\ leaving' = 1
    BY <1>2 DEF FirstSwitch, Called
  <2>2. \E S, blocks : Switched(1, FALSE, << >>, S, blocks)
    BY <1>1, <1>2, <2>1, FirstSwitchServes
  <2>3. Leaver = 1 /\ LeaverDone = FALSE /\ Rest(L) = << >>
    BY <2>1 DEF Leaver, LeaverDone, Rest
  <2>. QED
    BY <2>1, <2>2, <2>3
<1>3. CASE SwitchFrom(ranWholeTimeSlice)
  <2>1. q.running # Null /\ leaving' = IF Exited THEN Null ELSE q.running
    BY <1>3 DEF SwitchFrom
  <2>2. \E S, blocks : Switched(q.running, Exited, Tail(L[3]), S, blocks)
    BY <1>1, <1>3, SwitchFromServes
  <2>3. Leaver = q.running /\ LeaverDone = Exited /\ Rest(L) = Tail(L[3])
    BY <2>1 DEF Leaver, LeaverDone, Exited, Rest
  <2>. QED
    BY <2>1, <2>2, <2>3
<1>. QED
  BY <1>2, <1>3 DEF scheduler

(* After a switch: the threads in the lists, and what became of each.      *)
LEMMA SwitchedBlocks ==
  ASSUME OrderInv, Intact, NEW S, NEW blocks, NEW rest,
         Switched(Leaver, LeaverDone, rest, S, blocks), mode' = "switch"
  PROVE  /\ q'.running \in S /\ q'.running \in Thread /\ q'.running \notin Unlinked
         /\ LiveIn(tcb') \ Unlinked = S
         /\ tcb'[q'.running].status = "RUNNING"
         /\ \A t \in Thread : tcb'[t].status # "EXITED"
         /\ \A u \in Unlinked : /\ tcb'[u].status = tcb[u].status
                                /\ tcb'[u].priority = tcb[u].priority
                                /\ q'.next[u] = q.next[u]
         /\ \E M : Ready(q', tcb', M, S) /\ Draws(M, rest)
<1>. DEFINE x == Leaver
            r == q'.running
<1>1. /\ x \in Thread /\ x \notin Unlinked
      /\ Left(tcb, blocks, x, LeaverDone)
      /\ S = IF LeaverDone THEN LiveIn(tcb) \ (Unlinked \cup {x})
             ELSE (LiveIn(tcb) \ Unlinked) \cup {x}
  BY DEF Switched
<1>2. PICK queues : /\ Served(queues, blocks, rest, S, q', tcb', mode')
                    /\ \A u \in Unlinked : queues.next[u] = q.next[u]
  BY DEF Switched
<1>3. /\ r \in S /\ Marked(blocks, tcb', r)
      /\ \A u \in Thread : u \notin S => q'.next[u] = queues.next[u]
      /\ \E M : Ready(q', tcb', M, S) /\ Draws(M, rest)
  BY <1>2 DEF Served
<1>4. S \subseteq Thread /\ \A u \in S : u \notin Unlinked
  BY <1>1 DEF LiveIn
<1>5. \A t \in Thread : t # x => tcb[t].status # "EXITED"
  <2>1. SchedulerInv
    BY DEF OrderInv
  <2>2. CASE q.running = Null
    BY <2>1, <2>2 DEF SchedulerInv
  <2>3. CASE q.running # Null
    BY <2>1, <2>3 DEF SchedulerInv, RunningIsCurrent, Leaver
  <2>. QED
    BY <2>2, <2>3
<1>. HIDE DEF x, r
<1>6. \A t \in Thread :
        tcb'[t].status = IF t = r THEN "RUNNING"
                         ELSE IF t = x THEN IF LeaverDone THEN "NONE" ELSE "READY"
                         ELSE tcb[t].status
  BY <1>1, <1>3 DEF Marked, Left
<1>7. \A t \in Thread : t # x => tcb'[t].priority = tcb[t].priority
  BY <1>1, <1>3 DEF Marked, Left
<1>8. LiveIn(tcb') \ Unlinked = S
  <2>1. ASSUME NEW t \in Thread PROVE t \in LiveIn(tcb') \ Unlinked <=> t \in S
    <3>1. CASE t = r
      BY <1>3, <1>4, <1>6, <3>1 DEF LiveIn
    <3>2. CASE t # r /\ t = x
      BY <1>1, <1>6, <3>2 DEF LiveIn
    <3>3. CASE t # r /\ t # x
      BY <1>1, <1>6, <3>3 DEF LiveIn
    <3>. QED
      BY <3>1, <3>2, <3>3
  <2>2. LiveIn(tcb') \subseteq Thread
    BY DEF LiveIn
  <2>. QED
    BY <1>4, <2>1, <2>2
<1>9. \A u \in Unlinked : u \in Thread /\ u \notin S /\ u # x /\ u # r
  BY <1>1, <1>3, <1>4 DEF Unlinked
<1>. QED
  BY <1>2, <1>3, <1>4, <1>5, <1>6, <1>7, <1>8, <1>9 DEF r

(* What scheduler makes of the places in which the threads resume.         *)
LEMMA SchedulerPlaces ==
  ASSUME OrderInv, Intact, NEW ranWholeTimeSlice, NEW label \in Labels,
         Called(label), scheduler(ranWholeTimeSlice, label)
  PROVE  /\ \A t \in Thread : pc'[t] \notin {"head", "link", "tail", "exit"}
         /\ \A t \in Thread : pc'[t] \in CreateSteps <=> pc[t] \in CreateSteps
         /\ \A t \in Thread : pc'[t] = "test" <=> pc[t] = "test"
         /\ \A t \in Thread : t # cpu => pc'[t] = pc[t]
         /\ newNode' = newNode /\ cpu' = cpu /\ Given' = Given
         /\ Unlinked' = Unlinked
<1>1. /\ SchedulerInv /\ TypeOK /\ pc \in [Thread -> Labels] /\ cpu \in Thread
      /\ Creates(q, tcb, newNode, pc, cpu, mode)
      /\ Lives(q, tcb, pc, cpu, mode, Given)
  BY DEF OrderInv, SchedulerInv, TypeOK
<1>2. /\ pc' = [pc EXCEPT ![cpu] = IF tcb[cpu].status = "EXITED" THEN "gone" ELSE label]
      /\ newNode' = newNode /\ cpu' = cpu /\ Given' = Given
  BY DEF scheduler, Given
<1>3. /\ \A t \in Thread : t # cpu => pc'[t] = pc[t]
      /\ pc'[cpu] = IF pc[cpu] = "exit" THEN "gone" ELSE label
  BY <1>1, <1>2 DEF Lives
<1>4. \A t \in Thread : t # cpu => pc[t] # "exit"
  <2>1. SUFFICES ASSUME NEW t \in Thread, t # cpu, pc[t] = "exit" PROVE FALSE
    OBVIOUS
  <2>2. tcb[t].status = "EXITED"
    BY <1>1, <2>1 DEF Lives
  <2>3. q.running = t
    BY <1>1, <2>2 DEF SchedulerInv, RunningIsCurrent
  <2>4. mode = "switch"
    <3>1. q.running # Null
      BY <2>3, GivenInThread, <1>1
    <3>. QED
      BY <1>1, <2>1, <2>3, <3>1 DEF SchedulerInv, RunningIsCurrent, Intact
  <2>. QED
    BY <1>1, <2>2, <2>3, <2>4 DEF Lives
<1>5. /\ pc[cpu] \notin {"head", "link", "tail"}
      /\ \/ label = pc[cpu]
         \/ label = "user" /\ pc[cpu] \in {"user", "yield", "exit"}
  BY <1>1 DEF Called, OffLists
<1>6. \A t \in Thread : pc[t] \notin {"head", "link", "tail"}
  BY DEF Called, OffLists
<1>7. \A t \in Thread : pc'[t] \notin {"head", "link", "tail", "exit"}
  BY <1>3, <1>4, <1>5, <1>6
<1>8. \A t \in Thread : pc'[t] = "test" <=> pc[t] = "test"
  BY <1>3, <1>5
<1>9. \A t \in Thread : pc'[t] \in CreateSteps <=> pc[t] \in CreateSteps
  BY <1>6, <1>7, <1>8 DEF CreateSteps
<1>10. Unlinked' = Unlinked
  <2>1. \A t \in Thread :
          pc'[t] \in {"test", "head", "link"} <=> pc[t] \in {"test", "head", "link"}
    BY <1>6, <1>7, <1>8
  <2>. QED
    BY <1>2, <2>1 DEF Unlinked
<1>. QED
  BY <1>2, <1>3, <1>7, <1>8, <1>9, <1>10

(***************************************************************************)
(* A call of scheduler keeps the lists in order: it serves the next of the *)
(* round or loads a new one, and hangs at neither.                         *)
(***************************************************************************)
LEMMA SchedulerKeepsOrder ==
  ASSUME Fits', OrderInv, Intact, NEW ranWholeTimeSlice \in BOOLEAN,
         NEW label \in Labels, Called(label), scheduler(ranWholeTimeSlice, label)
  PROVE  OrderInv' /\ mode' \in {"switch", "done"}
<1>1. SchedulerInv /\ SchedulerInv'
  BY SchedulerKeepsInv DEF OrderInv
<1>2. PICK L : Rows(q, tcb, newNode, pc, L)
  BY DEF OrderInv
<1>3. PICK S, blocks : Switched(Leaver, LeaverDone, Rest(L), S, blocks)
  BY <1>2, SchedulerSwitches
<1>4. mode' \in {"switch", "done"}
  BY <1>3 DEF Switched, Served
<1>5. CASE mode' = "done"
  BY <1>1, <1>4, <1>5 DEF OrderInv, Intact
<1>6. CASE mode' = "switch"
  <2>1. /\ q'.running \in S /\ q'.running \in Thread
        /\ LiveIn(tcb') \ Unlinked = S
        /\ tcb'[q'.running].status = "RUNNING"
        /\ \A t \in Thread : tcb'[t].status # "EXITED"
        /\ \A u \in Unlinked : /\ tcb'[u].status = tcb[u].status
                               /\ tcb'[u].priority = tcb[u].priority
                               /\ q'.next[u] = q.next[u]
    BY <1>3, <1>6, SwitchedBlocks
  <2>2. PICK M : Ready(q', tcb', M, S) /\ Draws(M, Rest(L))
    BY <1>3, <1>6, SwitchedBlocks
  <2>3. /\ \A t \in Thread : pc'[t] \notin {"head", "link", "tail", "exit"}
        /\ \A t \in Thread : pc'[t] \in CreateSteps <=> pc[t] \in CreateSteps
        /\ \A t \in Thread : pc'[t] = "test" <=> pc[t] = "test"
        /\ \A t \in Thread : t # cpu => pc'[t] = pc[t]
        /\ newNode' = newNode /\ cpu' = cpu /\ Given' = Given
        /\ Unlinked' = Unlinked
    BY SchedulerPlaces
  <2>4. /\ Creates(q, tcb, newNode, pc, cpu, mode)
        /\ Lives(q, tcb, pc, cpu, mode, Given)
    BY DEF OrderInv
  <2>5. Rows(q', tcb', newNode', pc', M)
    <3>1. UnlinkedIn(newNode', pc') = Unlinked
      BY <2>3 DEF Unlinked, UnlinkedIn
    <3>2. \A t \in Thread : pc'[t] # "tail"
      BY <2>3
    <3>3. /\ Shelved(q', tcb', M) /\ In(M) = LiveIn(tcb') \ UnlinkedIn(newNode', pc')
          /\ \A p \in Level : Tailed(q', M, p)
      BY <2>1, <2>2, <3>1 DEF Ready
    <3>. QED
      BY <3>2, <3>3 DEF Rows
  <2>6. Creates(q', tcb', newNode', pc', cpu', mode')
    <3>1. ASSUME NEW t \in Thread, pc'[t] \in {"test", "head", "link"}
          PROVE  /\ tcb'[newNode[t]].status = "READY"
                 /\ tcb'[newNode[t]].priority = 0 /\ q'.next[newNode[t]] = Null
      <4>1. pc[t] = "test"
        BY <2>3, <3>1
      <4>2. newNode[t] \in Unlinked
        <5>1. newNode[t] # Null
          BY <2>4, <4>1 DEF Creates, CreateSteps
        <5>2. newNode[t] \in Thread
          BY <1>1, <5>1 DEF SchedulerInv, TypeOK, Link
        <5>. QED
          BY <4>1, <5>2 DEF Unlinked
      <4>3. /\ tcb[newNode[t]].status = "READY" /\ tcb[newNode[t]].priority = 0
            /\ q.next[newNode[t]] = Null
        BY <2>4, <4>1 DEF Creates
      <4>. QED
        BY <2>1, <4>2, <4>3
    <3>2. \A t \in Thread : newNode[t] # Null <=> pc'[t] \in CreateSteps
      BY <2>3, <2>4 DEF Creates
    <3>3. \A t, u \in Thread : newNode[t] = newNode[u] /\ newNode[t] # Null => t = u
      BY <2>4 DEF Creates
    <3>. QED
      BY <2>3, <3>1, <3>2, <3>3 DEF Creates
  <2>7. Lives(q', tcb', pc', cpu', mode', Given')
    <3>1. q'.running # Null
      BY <1>1, <2>1, GivenInThread DEF SchedulerInv
    <3>2. cpu \in Given /\ \A t \in Thread \ Given : pc[t] = "none"
      BY <2>4 DEF Lives
    <3>. QED
      BY <2>1, <2>3, <3>1, <3>2 DEF Lives
  <2>. QED
    BY <1>1, <1>4, <2>5, <2>6, <2>7 DEF OrderInv
<1>. QED
  BY <1>4, <1>5, <1>6

-----------------------------------------------------------------------------
(* The other steps.                                                        *)

(* Lists are well formed as long as nothing is stored in their nodes.      *)
LEMMA LinedAgain ==
  ASSUME NEW queues, NEW L, Lined(queues, L), NEW queues2,
         queues2.running = queues.running,
         \A p \in Level : queues2.head[p] = queues.head[p],
         \A u \in In(L) : queues2.next[u] = queues.next[u]
  PROVE  Lined(queues2, L)
<1>1. SUFFICES ASSUME NEW p \in Shelf PROVE Goes(queues2.next, First(queues2, p), L[p])
  BY DEF Lined
<1>2. First(queues2, p) = First(queues, p)
  BY DEF First, Shelf, Level
<1>3. \A i \in 1 .. Len(L[p]) : queues2.next[L[p][i]] = queues.next[L[p][i]]
  BY RowMembers
<1>. QED
  BY <1>2, <1>3 DEF Lined, Goes

(* The code of a list insertion is executed by the thread on the           *)
(* processor.                                                              *)
LEMMA NoneInserts ==
  ASSUME Creates(q, tcb, newNode, pc, cpu, mode),
         mode # "run" \/ pc[cpu] \notin {"head", "link", "tail"}
  PROVE  OffLists
  BY DEF Creates, OffLists

(* Before my_pthread_create returns to the program it has a node, and not  *)
(* after.                                                                  *)
LEMMA NodeOfCreate ==
  ASSUME OrderInv, Intact, NEW t \in Thread
  PROVE  /\ pc[t] \in CreateSteps => newNode[t] \in Thread /\ newNode[t] # Null
         /\ pc[t] \notin CreateSteps => newNode[t] = Null
         /\ pc[t] \in {"test", "head", "link"} => newNode[t] \in Unlinked
<1>1. newNode[t] \in Thread \cup {Null} /\ (newNode[t] # Null <=> pc[t] \in CreateSteps)
  BY DEF OrderInv, SchedulerInv, TypeOK, Link, Creates
<1>. QED
  BY <1>1 DEF Unlinked, CreateSteps

(***************************************************************************)
(* my_pthread_create allocates (lines 48-105): the new node is the end of  *)
(* no list, and nobody else's.                                             *)
(***************************************************************************)
LEMMA CreateAllocKeepsOrder ==
  ASSUME ~StaleMemory, OrderInv, NEW t \in Thread, CreateAlloc(t)
  PROVE  /\ OrderInv'
         /\ \E L : Rows(q, tcb, newNode, pc, L) /\ Rows(q', tcb', newNode', pc', L)
<1>. DEFINE new == thread_count1
<1>0. SchedulerInv /\ SchedulerInv'
  BY CreateAllocKeepsInv DEF OrderInv
<1>1. /\ TypeOK /\ Intact /\ mode = "run" /\ cpu = t /\ pc[t] = "user"
      /\ q \in Queues /\ new \in Thread /\ new \notin Given /\ 1 \in Given
      /\ Given' = Given \cup {new}
  BY <1>0, GivenInThread, ThreadAssumption
     DEF CreateAlloc, Executing, SchedulerInv, TypeOK, Given, Thread, Intact
<1>2. /\ Creates(q, tcb, newNode, pc, cpu, mode)
      /\ Lives(q, tcb, pc, cpu, mode, Given)
  BY <1>1 DEF OrderInv
<1>3. PICK L : Rows(q, tcb, newNode, pc, L)
  BY <1>1 DEF OrderInv
<1>4. q' = [q EXCEPT !.next[new] = Null]
  BY DEF CreateAlloc, Stale
<1>5. /\ q' \in Queues /\ q'.running = q.running /\ q'.head = q.head /\ q'.tail = q.tail
      /\ q'.next[new] = Null
      /\ \A u \in Thread : u # new => q'.next[u] = q.next[u]
  <2>. q \in Queues /\ new \in Thread
    BY <1>1
  <2>. HIDE DEF new
  <2>. QED
    BY <1>4 DEF Queues, QueuesOver
<1>6. /\ tcb'[new] = NewThread
      /\ \A u \in Thread : u # new => tcb'[u] = tcb[u]
  BY <1>1 DEF CreateAlloc, TypeOK
<1>7. new # t /\ pc[new] = "none" /\ newNode[new] = Null /\ newNode[t] = Null
  <2>1. pc[new] = "none"
    BY <1>1, <1>2 DEF Lives
  <2>. QED
    BY <1>1, <2>1, NodeOfCreate DEF CreateSteps
<1>8. /\ newNode'[t] = new /\ \A u \in Thread : u # t => newNode'[u] = newNode[u]
      /\ pc'[t] = "test" /\ pc'[new] = "user"
      /\ \A u \in Thread : u # t /\ u # new => pc'[u] = pc[u]
      /\ cpu' = cpu /\ mode' = mode
  BY <1>1, <1>7 DEF CreateAlloc, TypeOK
<1>9. OffLists
  BY <1>1, <1>2, NoneInserts
<1>10. tcb[new].status = "NONE" /\ new \notin Unlinked
  <2>1. tcb[new].status = "NONE"
    BY <1>0, <1>1 DEF SchedulerInv
  <2>. QED
    BY <1>0, <1>2, <2>1, UnlinkedNodes
<1>11. UnlinkedIn(newNode', pc') = Unlinked \cup {new}
  BY <1>1, <1>7, <1>8 DEF Unlinked, UnlinkedIn
<1>12. LiveIn(tcb') = LiveIn(tcb) \cup {new}
  BY <1>1, <1>6, BlocksTyped DEF LiveIn
<1>13. In(L) = LiveIn(tcb) \ Unlinked /\ new \notin In(L)
  BY <1>3, <1>10, UnlinkedIs DEF Rows, LiveIn
<1>14. Rows(q', tcb', newNode', pc', L)
  <2>1. Shelved(q', tcb, L)
    <3>1. \A u \in In(L) : u \in Thread /\ u # new
      BY <1>13 DEF In
    <3>2. Lined(q', L)
      <4>1. Lined(q, L)
        BY <1>3 DEF Rows, Shelved
      <4>. QED
        BY <1>5, <3>1, <4>1, LinedAgain
    <3>. QED
      BY <1>3, <1>5, <3>2 DEF Rows, Shelved
  <2>2. Shelved(q', tcb', L)
    <3>1. \A u \in In(L) : tcb'[u].priority = tcb[u].priority
      BY <1>6, <1>13 DEF In
    <3>. QED
      BY <2>1, <3>1, ShelvedAgain
  <2>3. In(L) = LiveIn(tcb') \ UnlinkedIn(newNode', pc')
    BY <1>10, <1>11, <1>12, <1>13
  <2>4. \A p \in Level : Tailed(q', L, p)
    BY <1>3, <1>5, <1>9 DEF Rows, Tailed, OffLists
  <2>5. \A u \in Thread : pc'[u] # "tail"
    BY <1>8, <1>9 DEF OffLists
  <2>. QED
    BY <2>2, <2>3, <2>4, <2>5 DEF Rows
<1>15. Creates(q', tcb', newNode', pc', cpu', mode')
  <2>1. \A u \in Thread : newNode'[u] # Null <=> pc'[u] \in CreateSteps
    BY <1>1, <1>2, <1>7, <1>8, GivenInThread DEF Creates, CreateSteps
  <2>2. \A u \in Thread : u # t => newNode'[u] # new
    BY <1>0, <1>1, <1>8, GivenInThread DEF SchedulerInv
  <2>3. \A u, v \in Thread : newNode'[u] = newNode'[v] /\ newNode'[u] # Null => u = v
    BY <1>2, <1>8, <2>2 DEF Creates
  <2>4. ASSUME NEW u \in Thread, pc'[u] \in {"test", "head", "link"}
        PROVE  /\ tcb'[newNode'[u]].status = "READY"
               /\ tcb'[newNode'[u]].priority = 0 /\ q'.next[newNode'[u]] = Null
    <3>1. CASE u = t
      BY <1>5, <1>6, <1>8, <3>1, BlocksTyped
    <3>2. CASE u # t
      <4>1. pc[u] \in {"test", "head", "link"} /\ newNode'[u] = newNode[u]
        BY <1>8, <2>4, <3>2
      <4>2. newNode[u] \in Unlinked
        BY <1>1, <4>1, NodeOfCreate
      <4>3. newNode[u] \in Thread /\ newNode[u] # new
        BY <1>10, <4>2 DEF Unlinked
      <4>. QED
        BY <1>2, <1>5, <1>6, <4>1, <4>3 DEF Creates
    <3>. QED
      BY <3>1, <3>2
  <2>5. \A u \in Thread : pc'[u] \notin {"head", "link", "tail"}
    BY <1>8, <1>9 DEF OffLists
  <2>. QED
    BY <2>1, <2>3, <2>4, <2>5 DEF Creates
<1>16. Lives(q', tcb', pc', cpu', mode', Given')
  <2>1. \A u \in Thread : tcb'[u].status = "EXITED" <=> pc'[u] = "exit"
    BY <1>1, <1>2, <1>6, <1>7, <1>8, BlocksTyped DEF Lives
  <2>2. \A u \in Thread \ Given' : pc'[u] = "none"
    BY <1>1, <1>2, <1>8 DEF Lives
  <2>3. q.running = Null => /\ tcb'[1].status = "NONE"
                            /\ pc'[1] = "yield" => q'.head[0] # Null
    BY <1>1, <1>2, <1>5, <1>6, <1>8, GivenInThread DEF Lives
  <2>. QED
    BY <1>1, <1>2, <1>5, <1>8, <2>1, <2>2, <2>3 DEF Lives
<1>. QED
  BY <1>0, <1>3, <1>14, <1>15, <1>16 DEF OrderInv

(* my_pthread_create tests the head of the queue (line 108).               *)
LEMMA CreateTestKeepsOrder ==
  ASSUME OrderInv, NEW t \in Thread, CreateTest(t)
  PROVE  OrderInv'
<1>0. SchedulerInv /\ SchedulerInv'
  BY CreateStepsKeepInv DEF OrderInv
<1>1. /\ TypeOK /\ Intact /\ mode = "run" /\ cpu = t /\ pc[t] = "test"
      /\ UNCHANGED << q, tcb, thread_count1, newNode, cpu, mode >> /\ Given' = Given
      /\ pc' = [pc EXCEPT ![t] = IF q.head[0] = Null THEN "head" ELSE "link"]
  BY <1>0 DEF CreateTest, Executing, SchedulerInv, Given, Intact, processor
<1>2. /\ Creates(q, tcb, newNode, pc, cpu, mode)
      /\ Lives(q, tcb, pc, cpu, mode, Given)
  BY <1>1 DEF OrderInv
<1>3. PICK L : Rows(q, tcb, newNode, pc, L)
  BY <1>1 DEF OrderInv
<1>4. /\ pc'[t] = IF q.head[0] = Null THEN "head" ELSE "link"
      /\ \A u \in Thread : u # t => pc'[u] = pc[u]
  BY <1>1 DEF TypeOK
<1>5. OffLists
  BY <1>1, <1>2, NoneInserts
<1>6. Rows(q', tcb', newNode', pc', L)
  <2>1. UnlinkedIn(newNode', pc') = UnlinkedIn(newNode, pc)
    BY <1>1, <1>4 DEF UnlinkedIn
  <2>2. \A u \in Thread : pc'[u] # "tail" /\ pc[u] # "tail"
    BY <1>4, <1>5 DEF OffLists
  <2>. QED
    BY <1>1, <1>3, <2>1, <2>2 DEF Rows
<1>7. Creates(q', tcb', newNode', pc', cpu', mode')
  <2>1. \A u \in Thread : newNode[u] # Null <=> pc'[u] \in CreateSteps
    BY <1>1, <1>2, <1>4 DEF Creates, CreateSteps
  <2>2. \A u \in Thread : pc'[u] \in {"test", "head", "link"} => pc[u] \in {"test", "head", "link"}
    BY <1>1, <1>4
  <2>3. \A u \in Thread : pc'[u] \in {"head", "link", "tail"} => u = t
    BY <1>4, <1>5 DEF OffLists
  <2>4. \A u \in Thread : /\ pc'[u] = "head" => q.head[0] = Null
                          /\ pc'[u] = "link" => q.head[0] # Null
    BY <1>4, <2>3
  <2>. QED
    BY <1>1, <1>2, <2>1, <2>2, <2>3, <2>4 DEF Creates
<1>8. Lives(q', tcb', pc', cpu', mode', Given')
  <2>1. \A u \in Thread : (pc'[u] = "exit" <=> pc[u] = "exit") /\ (pc'[u] = "yield" <=> pc[u] = "yield")
    BY <1>1, <1>4
  <2>2. \A u \in Thread \ Given : pc'[u] = "none"
    BY <1>1, <1>2, <1>4 DEF Lives
  <2>. QED
    BY <1>0, <1>1, <1>2, <2>1, <2>2, GivenInThread DEF Lives
<1>. QED
  BY <1>0, <1>6, <1>7, <1>8 DEF OrderInv

(***************************************************************************)
(* The store that links a new node, into the head of an empty queue or     *)
(* behind its tail (lines 109-112): the thread is in the lists from here.  *)
(***************************************************************************)
LEMMA LinkKeepsOrder ==
  ASSUME OrderInv, SchedulerInv', Intact, NEW t \in Thread,
         pc[t] \in {"head", "link"},
         UNCHANGED << tcb, thread_count1, newNode, cpu, mode >>,
         pc' = [pc EXCEPT ![t] = "tail"],
         NEW L, Rows(q, tcb, newNode, pc, L),
         q' \in Queues, Linking(q, q', L, 0, newNode[t]),
         q'.tail = q.tail, q'.head[0] # Null,
         \A v \in Unlinked : q'.next[v] = q.next[v]
  PROVE  OrderInv' /\ Rows(q', tcb', newNode', pc', Appended(L, 0, newNode[t]))
<1>. DEFINE u == newNode[t]
            M == Appended(L, 0, u)
<1>1. /\ SchedulerInv /\ TypeOK /\ Given' = Given /\ 0 \in Level /\ 0 \in Shelf
      /\ Creates(q, tcb, newNode, pc, cpu, mode)
      /\ Lives(q, tcb, pc, cpu, mode, Given)
  BY DEF OrderInv, SchedulerInv, Given, Level, Shelf
<1>2. /\ pc'[t] = "tail" /\ \A v \in Thread : v # t => pc'[v] = pc[v]
  BY <1>1 DEF TypeOK
<1>3. mode = "run" /\ cpu = t
  BY <1>1 DEF Creates
<1>4. \A v \in Thread : v # t => pc[v] \notin {"head", "link", "tail"}
  BY <1>1, <1>3 DEF Creates
<1>5. /\ u \in Thread /\ u # Null /\ u \in Unlinked
      /\ tcb[u].status = "READY" /\ tcb[u].priority = 0
  <2>1. u \in Thread /\ u # Null /\ u \in Unlinked
    BY NodeOfCreate DEF CreateSteps
  <2>. QED
    BY <1>1, <2>1, UnlinkedNodes
<1>6. /\ In(L) = LiveIn(tcb) \ Unlinked /\ u \notin In(L)
      /\ u \in LiveIn(tcb) /\ Shelved(q, tcb, L) /\ Lined(q, L)
  BY <1>5, UnlinkedIs DEF Rows, Shelved, LiveIn
<1>7. UnlinkedIn(newNode', pc') = Unlinked \ {u}
  <2>1. ASSUME NEW v \in Thread
        PROVE  v \in UnlinkedIn(newNode', pc') <=> v \in Unlinked \ {u}
    <3>1. CASE v = u
      <4>1. \A w \in Thread : newNode[w] = u => w = t
        BY <1>1, <1>5 DEF Creates
      <4>. QED
        BY <1>2, <3>1, <4>1 DEF UnlinkedIn
    <3>2. CASE v # u
      BY <1>2, <3>2 DEF Unlinked, UnlinkedIn
    <3>. QED
      BY <3>1, <3>2
  <2>. QED
    BY <2>1 DEF Unlinked, UnlinkedIn
<1>. HIDE DEF u
<1>8. /\ In(M) = In(L) \cup {u}
      /\ \A r \in Shelf : r # 0 => M[r] = L[r]
      /\ Len(M[0]) = Len(L[0]) + 1
      /\ M[0][Len(L[0]) + 1] = u
  BY <1>1, <1>5, <1>6, AppendLines DEF u
<1>9. Shelved(q', tcb', M)
  BY <1>1, <1>5, <1>6, AppendShelves DEF u
<1>. HIDE DEF M
<1>10. Rows(q', tcb', newNode', pc', M)
  <2>1. In(M) = LiveIn(tcb') \ UnlinkedIn(newNode', pc')
    BY <1>6, <1>7, <1>8 DEF LiveIn
  <2>2. \A p \in Level : p # 0 => Tailed(q', M, p)
    <3>1. \A p \in Level : p \in Shelf
      BY DEF Level, Shelf
    <3>2. \A p \in Level : p # 0 => Tailed(q, L, p)
      BY DEF Rows
    <3>. QED
      BY <1>8, <3>1, <3>2 DEF Tailed
  <2>3. M[0] # << >> /\ newNode'[t] = M[0][Len(M[0])]
    <3>1. Len(L[0]) \in Nat /\ M[0] \in Seq(Thread)
      BY <1>1, <1>6, <1>9 DEF Lined, Shelved
    <3>2. Len(M[0]) # 0
      BY <1>8, <3>1
    <3>3. M[0] # << >>
      BY <3>1, <3>2, EmptySeq
    <3>. QED
      BY <1>8, <3>3 DEF u
  <2>4. \A v \in Thread : pc'[v] = "tail" => v = t
    BY <1>2, <1>4
  <2>. QED
    BY <1>2, <1>9, <2>1, <2>2, <2>3, <2>4 DEF Rows
<1>11. Creates(q', tcb', newNode', pc', cpu', mode')
  <2>1. \A v \in Thread : newNode[v] # Null <=> pc'[v] \in CreateSteps
    BY <1>1, <1>2 DEF Creates, CreateSteps
  <2>2. ASSUME NEW v \in Thread, pc'[v] \in {"test", "head", "link"}
        PROVE  /\ tcb[newNode[v]].status = "READY"
               /\ tcb[newNode[v]].priority = 0 /\ q'.next[newNode[v]] = Null
    <3>1. pc[v] \in {"test", "head", "link"}
      BY <1>2, <2>2
    <3>2. newNode[v] \in Unlinked
      BY <3>1, NodeOfCreate
    <3>. QED
      BY <1>1, <3>1, <3>2 DEF Creates
  <2>3. \A v \in Thread : pc'[v] \notin {"head", "link"}
    BY <1>2, <1>4
  <2>4. \A v \in Thread : pc'[v] = "tail" => v = t
    BY <1>2, <1>4
  <2>. QED
    BY <1>1, <1>3, <2>1, <2>2, <2>3, <2>4 DEF Creates
<1>12. Lives(q', tcb', pc', cpu', mode', Given')
  <2>1. \A v \in Thread : (pc'[v] = "exit" <=> pc[v] = "exit") /\ (pc'[v] = "none" <=> pc[v] = "none")
    BY <1>2
  <2>2. q'.running = q.running
    BY DEF Linking
  <2>. QED
    BY <1>1, <2>1, <2>2 DEF Lives
<1>. QED
  BY <1>10, <1>11, <1>12 DEF OrderInv, M, u

(* The list was empty (line 109).                                          *)
LEMMA CreateHeadLinks ==
  ASSUME OrderInv, NEW t \in Thread, CreateHead(t),
         NEW L, Rows(q, tcb, newNode, pc, L)
  PROVE  OrderInv' /\ Rows(q', tcb', newNode', pc', Appended(L, 0, newNode[t]))
<1>0. SchedulerInv /\ SchedulerInv'
  BY CreateStepsKeepInv DEF OrderInv
<1>1. /\ TypeOK /\ q \in Queues
      /\ Intact /\ pc[t] = "head" /\ 0 \in Level /\ 0 \in Shelf
      /\ UNCHANGED << tcb, thread_count1, newNode, cpu, mode >>
      /\ pc' = [pc EXCEPT ![t] = "tail"]
      /\ q' = [q EXCEPT !.head[0] = newNode[t]]
  BY <1>0 DEF SchedulerInv, TypeOK, CreateHead, Executing, Intact, processor, Level, Shelf
<1>2. /\ Creates(q, tcb, newNode, pc, cpu, mode)
      /\ newNode[t] \in Thread /\ newNode[t] # Null /\ newNode[t] \in Unlinked
  BY <1>1, NodeOfCreate DEF OrderInv, CreateSteps
<1>3. q.head[0] = Null /\ q.next[newNode[t]] = Null
  BY <1>1, <1>2 DEF Creates
<1>4. L[0] = << >>
  <2>1. First(q, 0) = q.head[0]
    BY DEF First
  <2>. QED
    BY <1>1, <1>3, <2>1, LinedHeads DEF Rows, Shelved
<1>5. /\ q' \in Queues /\ q'.next = q.next /\ q'.running = q.running /\ q'.tail = q.tail
      /\ q'.head[0] = newNode[t] /\ \A p \in Level : p # 0 => q'.head[p] = q.head[p]
  BY <1>1, <1>2 DEF Queues, QueuesOver
<1>6. Linking(q, q', L, 0, newNode[t])
  BY <1>3, <1>4, <1>5 DEF Linking
<1>. QED
  BY <1>0, <1>1, <1>2, <1>5, <1>6, LinkKeepsOrder

(* The list was not empty, and is not (lines 111-112).                     *)
LEMMA CreateLinkLinks ==
  ASSUME OrderInv, NEW t \in Thread, CreateLink(t),
         NEW L, Rows(q, tcb, newNode, pc, L)
  PROVE  /\ OrderInv' /\ mode' = mode
         /\ Rows(q', tcb', newNode', pc', Appended(L, 0, newNode[t]))
<1>0. SchedulerInv /\ SchedulerInv'
  BY CreateStepsKeepInv DEF OrderInv
<1>1. /\ TypeOK /\ q \in Queues
      /\ Intact /\ mode = "run" /\ cpu = t /\ pc[t] = "link" /\ 0 \in Level /\ 0 \in Shelf
      /\ UNCHANGED << tcb, thread_count1, newNode, cpu >>
  BY <1>0 DEF SchedulerInv, TypeOK, CreateLink, Executing, Intact, Level, Shelf
<1>2. /\ Creates(q, tcb, newNode, pc, cpu, mode)
      /\ newNode[t] \in Thread /\ newNode[t] # Null /\ newNode[t] \in Unlinked
  BY <1>1, NodeOfCreate DEF OrderInv, CreateSteps
<1>3. q.head[0] # Null /\ q.next[newNode[t]] = Null
  BY <1>1, <1>2 DEF Creates
<1>4. L[0] # << >> /\ L[0] \in Seq(Thread) /\ Lined(q, L)
  <2>1. First(q, 0) = q.head[0] /\ Lined(q, L)
    BY DEF First, Rows, Shelved
  <2>. QED
    BY <1>1, <1>3, <2>1, LinedHeads
<1>5. Len(L[0]) \in 1 .. Len(L[0])
  BY <1>4, Entries
<1>6. /\ q.tail[0] = L[0][Len(L[0])]
      /\ q.tail[0] \in Thread /\ q.tail[0] # Null /\ q.tail[0] \in In(L)
  <2>1. \A v \in Thread : pc[v] # "tail"
    BY <1>1, <1>2 DEF Creates
  <2>2. Tailed(q, L, 0)
    BY <1>1, <2>1 DEF Rows
  <2>3. q.tail[0] = L[0][Len(L[0])]
    BY <1>5, <2>2 DEF Tailed, Entry
  <2>4. L[0][Len(L[0])] \in Thread /\ L[0][Len(L[0])] \in In(L)
    BY <1>1, <1>4, <1>5, RowMembers
  <2>. QED
    BY <1>4, <2>3, <2>4, Entries
<1>7. /\ q' = [q EXCEPT !.next[q.tail[0]] = newNode[t]]
      /\ pc' = [pc EXCEPT ![t] = "tail"] /\ UNCHANGED mode
  BY <1>6 DEF CreateLink
<1>8. /\ q' \in Queues /\ q'.head = q.head /\ q'.running = q.running /\ q'.tail = q.tail
      /\ \A v \in Thread : q'.next[v] = IF v = q.tail[0] THEN newNode[t] ELSE q.next[v]
  BY <1>1, <1>2, <1>6, <1>7 DEF Queues, QueuesOver
<1>9. In(L) \subseteq Thread /\ \A v \in Unlinked : v \in Thread /\ v \notin In(L)
  BY UnlinkedIs DEF Rows, In, Unlinked
<1>10. Linking(q, q', L, 0, newNode[t])
  <2>1. newNode[t] # q.tail[0]
    BY <1>2, <1>6, <1>9
  <2>. QED
    BY <1>2, <1>3, <1>4, <1>6, <1>8, <1>9, <2>1 DEF Linking
<1>11. \A v \in Unlinked : q'.next[v] = q.next[v]
  BY <1>6, <1>8, <1>9
<1>. QED
  BY <1>0, <1>1, <1>2, <1>3, <1>7, <1>8, <1>10, <1>11, LinkKeepsOrder

(* The store of the new tail (line 113).                                   *)
LEMMA CreateTailKeepsOrder ==
  ASSUME OrderInv, NEW t \in Thread, CreateTail(t)
  PROVE  /\ OrderInv'
         /\ \E L : Rows(q, tcb, newNode, pc, L) /\ Rows(q', tcb', newNode', pc', L)
<1>0. SchedulerInv /\ SchedulerInv'
  BY CreateStepsKeepInv DEF OrderInv
<1>1. /\ TypeOK /\ Intact /\ mode = "run" /\ cpu = t /\ pc[t] = "tail"
      /\ UNCHANGED << tcb, thread_count1, cpu, mode >> /\ Given' = Given
      /\ pc' = [pc EXCEPT ![t] = "yield"] /\ newNode' = [newNode EXCEPT ![t] = Null]
      /\ q' = [q EXCEPT !.tail[0] = newNode[t]] /\ q \in Queues /\ 0 \in Level /\ 0 \in Shelf
  BY <1>0 DEF CreateTail, Executing, SchedulerInv, TypeOK, Given, Intact, processor, Level, Shelf
<1>2. /\ Creates(q, tcb, newNode, pc, cpu, mode)
      /\ Lives(q, tcb, pc, cpu, mode, Given)
      /\ newNode[t] \in Thread
  BY <1>1, NodeOfCreate DEF OrderInv, CreateSteps
<1>3. PICK L : Rows(q, tcb, newNode, pc, L)
  BY <1>1 DEF OrderInv
<1>4. /\ pc'[t] = "yield" /\ newNode'[t] = Null
      /\ \A u \in Thread : u # t => pc'[u] = pc[u] /\ newNode'[u] = newNode[u]
  BY <1>1 DEF TypeOK
<1>5. \A u \in Thread : u # t => pc[u] \notin {"head", "link", "tail"}
  BY <1>1, <1>2 DEF Creates
<1>6. /\ q' \in Queues /\ q'.next = q.next /\ q'.head = q.head /\ q'.running = q.running
      /\ q'.tail[0] = newNode[t] /\ \A p \in Level : p # 0 => q'.tail[p] = q.tail[p]
  BY <1>1, <1>2 DEF Queues, QueuesOver
<1>7. L[0] # << >> /\ newNode[t] = L[0][Len(L[0])] /\ L[0] \in Seq(Thread)
  BY <1>1, <1>3 DEF Rows, Shelved, Lined
<1>8. Rows(q', tcb', newNode', pc', L)
  <2>1. Lined(q', L)
    <3>1. Lined(q, L)
      BY <1>3 DEF Rows, Shelved
    <3>. QED
      BY <1>6, <3>1, LinedAgain
  <2>2. Shelved(q', tcb', L)
    BY <1>1, <1>3, <1>6, <2>1 DEF Rows, Shelved
  <2>3. UnlinkedIn(newNode', pc') = UnlinkedIn(newNode, pc)
    BY <1>1, <1>4 DEF UnlinkedIn
  <2>4. Tailed(q', L, 0)
    <3>1. Len(L[0]) \in 1 .. Len(L[0])
      BY <1>7, Entries
    <3>. QED
      BY <1>6, <1>7, <3>1 DEF Tailed, Entry
  <2>5. \A p \in Level : Tailed(q', L, p)
    BY <1>3, <1>6, <2>4 DEF Rows, Tailed
  <2>6. \A u \in Thread : pc'[u] # "tail"
    BY <1>4, <1>5
  <2>. QED
    BY <1>1, <1>3, <2>2, <2>3, <2>5, <2>6 DEF Rows
<1>9. Creates(q', tcb', newNode', pc', cpu', mode')
  <2>1. \A u \in Thread : newNode'[u] # Null <=> pc'[u] \in CreateSteps
    BY <1>2, <1>4 DEF Creates, CreateSteps
  <2>2. \A u, v \in Thread : newNode'[u] = newNode'[v] /\ newNode'[u] # Null => u = v
    BY <1>2, <1>4 DEF Creates
  <2>3. \A u \in Thread : pc'[u] \in {"test", "head", "link"} =>
          pc[u] \in {"test", "head", "link"} /\ newNode'[u] = newNode[u]
    BY <1>4
  <2>4. \A u \in Thread : pc'[u] \notin {"head", "link", "tail"}
    BY <1>4, <1>5
  <2>. QED
    BY <1>1, <1>2, <1>6, <2>1, <2>2, <2>3, <2>4 DEF Creates
<1>10. Lives(q', tcb', pc', cpu', mode', Given')
  <2>1. \A u \in Thread : (pc'[u] = "exit" <=> pc[u] = "exit") /\ (pc'[u] = "none" <=> pc[u] = "none")
    BY <1>1, <1>4
  <2>2. q'.head[0] # Null
    <3>1. First(q, 0) = q.head[0] /\ Lined(q, L)
      BY <1>3 DEF First, Rows, Shelved
    <3>. QED
      BY <1>1, <1>6, <1>7, <3>1, LinedHeads
  <2>. QED
    BY <1>1, <1>2, <1>6, <2>1, <2>2 DEF Lives
<1>. QED
  BY <1>0, <1>3, <1>8, <1>9, <1>10 DEF OrderInv

(* my_pthread_exit marks the thread that executes (line 495).              *)
LEMMA ExitKeepsOrder ==
  ASSUME OrderInv, NEW t \in Thread, Exit(t)
  PROVE  OrderInv'
<1>0. SchedulerInv /\ SchedulerInv'
  BY ExitKeepsInv DEF OrderInv
<1>1. /\ TypeOK /\ Intact /\ mode = "run" /\ cpu = t /\ pc[t] = "user"
      /\ q.running # Null /\ q.running = t
      /\ UNCHANGED << q, thread_count1, newNode, cpu, mode >> /\ Given' = Given
      /\ pc' = [pc EXCEPT ![t] = "exit"]
      /\ tcb' = [tcb EXCEPT ![t].status = "EXITED"]
  BY <1>0 DEF Exit, Executing, SchedulerInv, RunningIsCurrent, Given, Intact, processor
<1>2. /\ Creates(q, tcb, newNode, pc, cpu, mode)
      /\ Lives(q, tcb, pc, cpu, mode, Given)
      /\ tcb[t].status \in {"RUNNING", "EXITED"}
  BY <1>0, <1>1 DEF OrderInv, SchedulerInv, RunningIsCurrent
<1>3. PICK L : Rows(q, tcb, newNode, pc, L)
  BY <1>1 DEF OrderInv
<1>4. pc'[t] = "exit" /\ \A u \in Thread : u # t => pc'[u] = pc[u]
  BY <1>1 DEF TypeOK
<1>5. /\ tcb'[t].status = "EXITED" /\ tcb'[t].priority = tcb[t].priority
      /\ \A u \in Thread : u # t => tcb'[u] = tcb[u]
  BY <1>1 DEF TypeOK, TCB
<1>6. OffLists
  BY <1>1, <1>2, NoneInserts
<1>7. Rows(q', tcb', newNode', pc', L)
  <2>1. Shelved(q', tcb', L)
    <3>1. \A u \in In(L) : tcb'[u].priority = tcb[u].priority
      BY <1>5 DEF In
    <3>2. Shelved(q, tcb', L)
      BY <1>3, <3>1, ShelvedAgain DEF Rows
    <3>. QED
      BY <1>1, <3>2
  <2>2. UnlinkedIn(newNode', pc') = UnlinkedIn(newNode, pc)
    BY <1>1, <1>4 DEF UnlinkedIn
  <2>3. LiveIn(tcb') = LiveIn(tcb)
    BY <1>2, <1>5 DEF LiveIn
  <2>4. \A u \in Thread : pc'[u] # "tail" /\ pc[u] # "tail"
    BY <1>4, <1>6 DEF OffLists
  <2>. QED
    BY <1>1, <1>3, <2>1, <2>2, <2>3, <2>4 DEF Rows
<1>8. Creates(q', tcb', newNode', pc', cpu', mode')
  <2>1. \A u \in Thread : newNode[u] # Null <=> pc'[u] \in CreateSteps
    BY <1>1, <1>2, <1>4 DEF Creates, CreateSteps
  <2>2. ASSUME NEW u \in Thread, pc'[u] \in {"test", "head", "link"}
        PROVE  /\ tcb'[newNode[u]].status = "READY"
               /\ tcb'[newNode[u]].priority = 0 /\ q.next[newNode[u]] = Null
    <3>1. pc[u] \in {"test", "head", "link"} /\ newNode[u] \in Thread
      BY <1>1, <1>4, <2>2, NodeOfCreate DEF CreateSteps
    <3>2. /\ tcb[newNode[u]].status = "READY" /\ tcb[newNode[u]].priority = 0
          /\ q.next[newNode[u]] = Null
      BY <1>2, <3>1 DEF Creates
    <3>. QED
      BY <1>2, <1>5, <3>1, <3>2
  <2>3. \A u \in Thread : pc'[u] \notin {"head", "link", "tail"}
    BY <1>4, <1>6 DEF OffLists
  <2>. QED
    BY <1>1, <1>2, <2>1, <2>2, <2>3 DEF Creates
<1>9. Lives(q', tcb', pc', cpu', mode', Given')
  <2>1. \A u \in Thread : tcb'[u].status = "EXITED" <=> pc'[u] = "exit"
    BY <1>2, <1>4, <1>5 DEF Lives
  <2>2. \A u \in Thread \ Given : pc'[u] = "none"
    BY <1>1, <1>2, <1>4 DEF Lives
  <2>. QED
    BY <1>1, <1>2, <2>1, <2>2 DEF Lives
<1>. QED
  BY <1>0, <1>7, <1>8, <1>9 DEF OrderInv

(* swapcontext and setcontext (lines 303-316) leave the lists alone.       *)
LEMMA SwapKeepsOrder ==
  ASSUME OrderInv, Swap
  PROVE  OrderInv'
<1>0. SchedulerInv /\ SchedulerInv'
  BY SwapKeepsInv DEF OrderInv
<1>1. /\ mode = "switch" /\ Intact /\ mode' \in {"run", "lost"} /\ cpu' = q.running
      /\ UNCHANGED << q, tcb, thread_count1, pc, newNode >> /\ Given' = Given
      /\ q.running # Null
  BY <1>0 DEF Swap, Intact, Given, SchedulerInv
<1>2. /\ Creates(q, tcb, newNode, pc, cpu, mode)
      /\ Lives(q, tcb, pc, cpu, mode, Given)
  BY <1>1 DEF OrderInv
<1>3. PICK L : Rows(q, tcb, newNode, pc, L)
  BY <1>1 DEF OrderInv
<1>4. OffLists
  BY <1>1, <1>2, NoneInserts
<1>5. CASE mode' = "lost"
  BY <1>0, <1>5 DEF OrderInv, Intact
<1>6. CASE mode' = "run"
  <2>1. Rows(q', tcb', newNode', pc', L)
    BY <1>1, <1>3
  <2>2. Creates(q', tcb', newNode', pc', cpu', mode')
    BY <1>1, <1>2, <1>4 DEF Creates, OffLists
  <2>3. q.running \in Given
    BY <1>0, <1>1 DEF SchedulerInv, QueuesOver
  <2>4. Lives(q', tcb', pc', cpu', mode', Given')
    BY <1>1, <1>2, <1>6, <2>3 DEF Lives
  <2>. QED
    BY <1>0, <2>1, <2>2, <2>4 DEF OrderInv
<1>. QED
  BY <1>1, <1>5, <1>6

(* Who calls my_pthread_yield is not in a list insertion, and the first    *)
(* call is the one that my_pthread_create ends with.                       *)
LEMMA YieldCalls ==
  ASSUME OrderInv, NEW t \in Thread, NEW from \in {"user", "yield", "exit"},
         Yield(t, from)
  PROVE  Called("user") /\ Intact /\ scheduler(FALSE, "user")
<1>1. /\ mode = "run" /\ cpu = t /\ pc[t] = from /\ Intact /\ scheduler(FALSE, "user")
      /\ from = "user" => q.running # Null
  BY DEF Yield, Executing, Intact
<1>2. /\ SchedulerInv /\ Creates(q, tcb, newNode, pc, cpu, mode)
      /\ Lives(q, tcb, pc, cpu, mode, Given)
  BY <1>1 DEF OrderInv
<1>3. OffLists
  BY <1>1, <1>2, NoneInserts
<1>4. q.running = Null => pc[1] = "yield"
  <2>1. SUFFICES ASSUME q.running = Null PROVE pc[1] = "yield"
    OBVIOUS
  <2>2. cpu = 1 /\ tcb[1].status # "EXITED" /\ 1 \in Thread
    BY <1>1, <1>2, <2>1 DEF SchedulerInv
  <2>3. pc[1] # "exit"
    BY <1>2, <2>2 DEF Lives
  <2>. QED
    BY <1>1, <2>1, <2>2, <2>3
<1>. QED
  BY <1>1, <1>3, <1>4 DEF Called

(* SIGALRM lands outside the list insertion, as long as Windows says so.   *)
LEMMA TickCalls ==
  ASSUME OrderInv, Windows \subseteq {"test", "switch"}, Tick
  PROVE  Called(pc[cpu]) /\ Intact /\ scheduler(TRUE, pc[cpu]) /\ pc[cpu] \in Labels
<1>1. /\ q.running # Null /\ scheduler(TRUE, pc[cpu]) /\ Intact
      /\ \/ mode = "run" /\ pc[cpu] \in {"user", "yield", "exit", "test", "switch"}
         \/ mode = "switch"
  BY DEF Tick, CanTick, Interruptible, Intact
<1>2. Creates(q, tcb, newNode, pc, cpu, mode) /\ pc[cpu] \in Labels
  BY <1>1 DEF OrderInv, SchedulerInv, TypeOK
<1>3. OffLists
  BY <1>1, <1>2, NoneInserts
<1>. QED
  BY <1>1, <1>2, <1>3 DEF Called

-----------------------------------------------------------------------------
(* At the start there are no threads in the lists.                         *)
THEOREM InitEstablishesOrder == Init => OrderInv
<1>. SUFFICES ASSUME Init PROVE OrderInv
  OBVIOUS
<1>. DEFINE L == [p \in Shelf |-> << >>]
<1>1. SchedulerInv
  BY InitEstablishesInv
<1>2. /\ 1 \in Thread /\ Null \notin Thread /\ Given = 1 .. 1 /\ q.running = Null
      /\ q = EmptyQueues /\ newNode = [t \in Thread |-> Null]
      /\ tcb = [t \in Thread |-> Blank]
      /\ pc = [t \in Thread |-> IF t = 1 THEN "user" ELSE "none"]
      /\ cpu = 1 /\ mode = "run" /\ q \in Queues
  BY <1>1, ThreadAssumption DEF Init, Thread, Null, Given, EmptyQueues, SchedulerInv, TypeOK
<1>3. /\ L \in [Shelf -> Seq(Thread)]
      /\ \A p \in Shelf : L[p] = << >> /\ Len(L[p]) = 0 /\ 1 .. Len(L[p]) = {}
  <2>1. << >> \in Seq(Thread) /\ Len(<< >>) = 0 /\ 1 .. 0 = {}
    BY EmptySeq
  <2>. QED
    BY <2>1
<1>4. \A p \in Level : p \in Shelf
  BY DEF Level, Shelf
<1>5. 3 \in Shelf
  BY DEF Shelf
<1>. HIDE DEF L
<1>6. \A p \in Shelf : First(q, p) = Null
  BY <1>2 DEF First, EmptyQueues, Shelf, Level
<1>7. Lined(q, L)
  <2>1. \A p \in Shelf : Entry(L[p], 1) = Null
    BY <1>3 DEF Entry
  <2>2. \A p \in Shelf : Goes(q.next, First(q, p), L[p])
    BY <1>3, <1>6, <2>1 DEF Goes
  <2>3. Apart(L)
    BY <1>3 DEF Apart
  <2>. QED
    BY <1>3, <2>2, <2>3 DEF Lined
<1>8. Shelved(q, tcb, L)
  BY <1>2, <1>3, <1>4, <1>5, <1>7 DEF Shelved
<1>9. In(L) = {} /\ LiveIn(tcb) = {}
  BY <1>2, <1>3, BlocksTyped DEF In, LiveIn
<1>10. \A p \in Level : Tailed(q, L, p)
  <2>1. \A p \in Level : q.tail[p] = Null
    BY <1>2 DEF EmptyQueues
  <2>2. \A p \in Level : Entry(L[p], Len(L[p])) = Null
    BY <1>3, <1>4 DEF Entry
  <2>. QED
    BY <2>1, <2>2 DEF Tailed
<1>11. Rows(q, tcb, newNode, pc, L)
  BY <1>2, <1>8, <1>9, <1>10 DEF Rows
<1>12. Creates(q, tcb, newNode, pc, cpu, mode)
  BY <1>2 DEF Creates, CreateSteps
<1>13. Lives(q, tcb, pc, cpu, mode, Given)
  <2>1. Given \subseteq Thread /\ 1 \in Given /\ \A t \in Given : t = 1
    BY <1>2
  <2>2. \A t \in Thread \ Given : t # 1
    BY <2>1
  <2>. QED
    BY <1>2, <2>1, <2>2, BlocksTyped DEF Lives
<1>. QED
  BY <1>1, <1>11, <1>12, <1>13 DEF OrderInv

(* Every step keeps the lists in order.                                    *)
THEOREM NextKeepsOrder ==
  ASSUME Orderly
  PROVE  OrderInv /\ [Next]_vars /\ Fits' => OrderInv'
<1>. SUFFICES ASSUME OrderInv, [Next]_vars, Fits'
              PROVE  OrderInv'
  OBVIOUS
<1>0. Windows \subseteq {"test", "switch"} /\ ~StaleMemory
  BY DEF Orderly
<1>1. ASSUME NEW t \in Thread, CreateAlloc(t) PROVE OrderInv'
  BY <1>0, <1>1, CreateAllocKeepsOrder
<1>2. ASSUME NEW t \in Thread, NEW from \in {"user", "yield", "exit"}, Yield(t, from)
      PROVE  OrderInv'
  <2>1. /\ Called("user") /\ Intact /\ scheduler(FALSE, "user")
        /\ "user" \in Labels /\ FALSE \in BOOLEAN
    BY <1>2, YieldCalls DEF Labels
  <2>. QED
    BY <1>0, <2>1, SchedulerKeepsOrder
<1>3. ASSUME NEW t \in Thread, Exit(t) PROVE OrderInv'
  BY <1>3, ExitKeepsOrder
<1>4. ASSUME NEW t \in Thread,
             CreateTest(t) \/ CreateHead(t) \/ CreateLink(t) \/ CreateTail(t)
      PROVE  OrderInv'
  <2>1. ASSUME CreateHead(t) \/ CreateLink(t) PROVE OrderInv'
    <3>1. Intact
      BY <2>1 DEF CreateHead, CreateLink, Executing, Intact
    <3>2. PICK L : Rows(q, tcb, newNode, pc, L)
      BY <3>1 DEF OrderInv
    <3>. QED
      BY <2>1, <3>2, CreateHeadLinks, CreateLinkLinks
  <2>. QED
    BY <1>4, <2>1, CreateTestKeepsOrder, CreateTailKeepsOrder
<1>5. CASE Swap
  BY <1>5, SwapKeepsOrder
<1>6. CASE Tick
  <2>1. Called(pc[cpu]) /\ Intact /\ scheduler(TRUE, pc[cpu]) /\ pc[cpu] \in Labels
    BY <1>0, <1>6, TickCalls
  <2>. QED
    BY <1>0, <2>1, SchedulerKeepsOrder
<1>7. CASE UNCHANGED vars
  <2>1. SchedulerInv'
    BY <1>7, NextKeepsInv DEF OrderInv
  <2>2. UNCHANGED << q, tcb, newNode, pc, cpu, mode >> /\ Given' = Given /\ Intact' = Intact
    BY <1>7 DEF vars, Given, Intact
  <2>. QED
    BY <2>1, <2>2 DEF OrderInv
<1>. QED
  BY <1>1, <1>2, <1>3, <1>4, <1>5, <1>6, <1>7
     DEF Next, Program, Library, Stopped

(***************************************************************************)
(* The lists stay in order for any number of threads, with SIGALRM at any  *)
(* instruction that is not in the list insertion of my_pthread_create,     *)
(* clean memory, and as long as the threads fit one running queue.         *)
(***************************************************************************)
THEOREM OrderInvariant ==
  ASSUME Orderly PROVE Spec /\ []Fits => []OrderInv
  BY InitEstablishesOrder, NextKeepsOrder, PTL DEF Spec

-----------------------------------------------------------------------------
(* The traversals of the code meet the rows.                               *)
LEMMA RowsAreLists ==
  ASSUME NEW L, Rows(q, tcb, newNode, pc, L)
  PROVE  /\ L \in [Shelf -> Seq(Thread)] /\ Apart(L)
         /\ In(L) = Live \ Unlinked
         /\ ListsIntact(q) /\ Ends(q, q.running) /\ Running = L[3]
         /\ \A p \in Level : /\ p \in Shelf /\ p # 3 /\ Waiting[p] = L[p]
                             /\ Ends(q, q.head[p]) /\ Chain(q, q.head[p]) = L[p]
<1>1. Lined(q, L) /\ In(L) = Live \ Unlinked
  BY UnlinkedIs DEF Rows, Shelved, Live, LiveIn
<1>2. /\ \A p \in Shelf : Ends(q, First(q, p)) /\ Chain(q, First(q, p)) = L[p]
      /\ ListsIntact(q)
      /\ \A p \in Level : Lists(q)[p] = L[p]
  BY <1>1, LinedLists
<1>3. 3 \in Shelf /\ First(q, 3) = q.running
  BY DEF Shelf, First
<1>4. \A p \in Level : p \in Shelf /\ p # 3 /\ First(q, p) = q.head[p]
  BY DEF Shelf, Level, First
<1>5. Ends(q, q.running) /\ Running = L[3]
  BY <1>2, <1>3 DEF Running
<1>. QED
  BY <1>1, <1>2, <1>4, <1>5 DEF Lined, Waiting

(* The places of a thread in the rows, as pairs of a row and a position.   *)
LEMMA PlacesAre ==
  ASSUME NEW L \in [Shelf -> Seq(Thread)], NEW t
  PROVE  Places(L, t) = { pl \in Shelf \X Nat : /\ pl[2] \in 1 .. Len(L[pl[1]])
                                               /\ L[pl[1]][pl[2]] = t }
<1>. DEFINE at(p) == { j \in DOMAIN L[p] : L[p][j] = t }
            R == { pl \in Shelf \X Nat : pl[2] \in 1 .. Len(L[pl[1]]) /\ L[pl[1]][pl[2]] = t }
<1>1. \A p \in Shelf : at(p) = { j \in 1 .. Len(L[p]) : L[p][j] = t }
  BY Entries
<1>2. DOMAIN L = Shelf
  OBVIOUS
<1>3. ASSUME NEW pl \in Places(L, t) PROVE pl \in R
  <2>1. PICK p \in Shelf : pl \in { << p, i >> : i \in at(p) }
    BY <1>2 DEF Places
  <2>2. PICK i \in 1 .. Len(L[p]) : pl = << p, i >> /\ L[p][i] = t
    BY <1>1, <2>1
  <2>3. i \in Nat
    OBVIOUS
  <2>. QED
    BY <2>2, <2>3
<1>4. ASSUME NEW pl \in R PROVE pl \in Places(L, t)
  <2>1. PICK p \in Shelf, i \in Nat : pl = << p, i >> /\ i \in 1 .. Len(L[p]) /\ L[p][i] = t
    OBVIOUS
  <2>2. i \in at(p)
    BY <1>1, <2>1
  <2>3. pl \in { << p, j >> : j \in at(p) }
    BY <2>1, <2>2
  <2>. QED
    BY <1>2, <2>3 DEF Places
<1>. QED
  BY <1>3, <1>4

(***************************************************************************)
(* Every thread that exists and is linked is in one of the four lists,     *)
(* once, and nothing else is: a thread that calls the scheduler comes back *)
(* (my_pthread.c:195-253, 404-454).  Not claimed of a list insertion that  *)
(* a signal has torn, of a node whose next field was never set, or once a  *)
(* running queue has had to leave threads behind.                          *)
(***************************************************************************)
THEOREM ThreadsAreQueuedOnce ==
  ASSUME Orderly PROVE Spec /\ []Fits => []QueuedOnce
<1>1. OrderInv => QueuedOnce
  <2>. SUFFICES ASSUME OrderInv, Intact PROVE QueuedOnce
    BY DEF QueuedOnce
  <2>. DEFINE list == [p \in 0 .. 3 |-> IF p = 3 THEN Running ELSE Waiting[p]]
              linked == Live \ Unlinked
  <2>1. PICK L : Rows(q, tcb, newNode, pc, L)
    BY DEF OrderInv
  <2>2. /\ L \in [Shelf -> Seq(Thread)] /\ Apart(L) /\ In(L) = linked
        /\ ListsIntact(q) /\ Ends(q, q.running) /\ Running = L[3]
        /\ \A p \in Level : Waiting[p] = L[p]
    BY <2>1, RowsAreLists
  <2>3. list = L
    <3>1. \A p \in 0 .. 3 : p # 3 => p \in Level
      BY DEF Level
    <3>2. \A p \in 0 .. 3 : list[p] = L[p]
      BY <2>2, <3>1
    <3>. QED
      BY <2>2, <3>2 DEF Shelf
  <2>. HIDE DEF list, linked
  <2>4. ASSUME NEW t \in Thread
        PROVE  \/ t \in linked /\ \E pl \in Places(list, t) : Places(list, t) = {pl}
               \/ t \notin linked /\ Places(list, t) = {}
    <3>1. Places(list, t) = { pl \in Shelf \X Nat : /\ pl[2] \in 1 .. Len(L[pl[1]])
                                                    /\ L[pl[1]][pl[2]] = t }
      BY <2>2, <2>3, PlacesAre
    <3>2. CASE t \in linked
      <4>1. PICK p \in Shelf : \E i \in 1 .. Len(L[p]) : L[p][i] = t
        BY <2>2, <3>2 DEF In
      <4>2. PICK i \in 1 .. Len(L[p]) : L[p][i] = t
        BY <4>1
      <4>3. << p, i >> \in Places(list, t)
        BY <3>1, <4>2
      <4>4. ASSUME NEW pl \in Places(list, t) PROVE pl = << p, i >>
        <5>1. /\ pl \in Shelf \X Nat /\ pl[1] \in Shelf
              /\ pl[2] \in 1 .. Len(L[pl[1]]) /\ L[pl[1]][pl[2]] = t
          BY <3>1
        <5>2. pl[1] = p /\ pl[2] = i
          BY <2>2, <4>2, <5>1 DEF Apart
        <5>. QED
          BY <5>1, <5>2
      <4>. QED
        BY <3>2, <4>3, <4>4
    <3>3. CASE t \notin linked
      BY <2>2, <3>1, <3>3 DEF In
    <3>. QED
      BY <3>2, <3>3
  <2>. QED
    BY <2>2, <2>4 DEF QueuedOnce, list, linked
<1>. QED
  BY <1>1, OrderInvariant, PTL

(***************************************************************************)
(* The tail of a priority queue is the end of its list, but between the    *)
(* two stores of my_pthread_create (my_pthread.c:107-114, 218-247), under  *)
(* the same conditions.                                                    *)
(***************************************************************************)
THEOREM TailsEndTheirLists ==
  ASSUME Orderly PROVE Spec /\ []Fits => []TailEndsList
<1>1. OrderInv => TailEndsList
  <2>. SUFFICES ASSUME OrderInv, Intact, NEW p \in Level,
                       p # 0 \/ \A t \in Thread : pc[t] # "tail"
                PROVE  \/ q.tail[p] = Null /\ q.head[p] = Null
                       \/ /\ q.tail[p] # Null /\ q.head[p] # Null
                          /\ Ends(q, q.head[p])
                          /\ LET list == Chain(q, q.head[p]) IN list[Len(list)] = q.tail[p]
    BY DEF TailEndsList
  <2>1. PICK L : Rows(q, tcb, newNode, pc, L)
    BY DEF OrderInv
  <2>2. /\ p \in Shelf /\ p # 3 /\ L[p] \in Seq(Thread)
        /\ Ends(q, q.head[p]) /\ Chain(q, q.head[p]) = L[p]
    BY <2>1, RowsAreLists
  <2>3. q.tail[p] = Entry(L[p], Len(L[p]))
    BY <2>1 DEF Rows, Tailed
  <2>4. q.head[p] = Null <=> L[p] = << >>
    <3>1. Lined(q, L) /\ First(q, p) = q.head[p]
      BY <2>1, <2>2 DEF Rows, Shelved, First
    <3>. QED
      BY <2>2, <3>1, LinedHeads
  <2>5. CASE L[p] = << >>
    <3>1. Len(L[p]) = 0
      BY <2>5, EmptySeq
    <3>. QED
      BY <2>3, <2>4, <2>5, <3>1 DEF Entry
  <2>6. CASE L[p] # << >>
    <3>1. Len(L[p]) \in 1 .. Len(L[p]) /\ L[p][Len(L[p])] # Null
      BY <2>2, <2>6, Entries
    <3>. QED
      BY <2>2, <2>3, <2>4, <2>6, <3>1 DEF Entry
  <2>. QED
    BY <2>5, <2>6
<1>. QED
  BY <1>1, OrderInvariant, PTL

(***************************************************************************)
(* A thread waits in the queue of its priority and the running queue goes  *)
(* from the highest priority to the lowest (my_pthread.c:210-247,          *)
(* 404-454), under the same conditions.                                    *)
(***************************************************************************)
THEOREM ThreadsAreFiledByPriority ==
  ASSUME Orderly PROVE Spec /\ []Fits => []FiledByPriority
<1>1. OrderInv => FiledByPriority
  <2>. SUFFICES ASSUME OrderInv, Intact PROVE FiledByPriority
    BY DEF FiledByPriority
  <2>1. PICK L : Rows(q, tcb, newNode, pc, L)
    BY DEF OrderInv
  <2>2. /\ L \in [Shelf -> Seq(Thread)] /\ 3 \in Shelf /\ Running = L[3]
        /\ \A p \in Level : p \in Shelf /\ Waiting[p] = L[p]
    BY <2>1, RowsAreLists DEF Shelf
  <2>3. \A p \in Shelf : DOMAIN L[p] = 1 .. Len(L[p]) /\ Len(L[p]) \in Nat
    BY <2>2, Entries
  <2>4. \A p \in Level : \A i \in DOMAIN Waiting[p] : tcb[Waiting[p][i]].priority = p
    BY <2>1, <2>2, <2>3 DEF Rows, Shelved
  <2>5. ASSUME NEW i \in DOMAIN Running, NEW j \in DOMAIN Running, i < j
        PROVE  tcb[Running[i]].priority <= tcb[Running[j]].priority
    <3>1. i \in 1 .. Len(L[3]) /\ j \in 1 .. Len(L[3]) /\ i <= j
      BY <2>2, <2>3, <2>5
    <3>. QED
      BY <2>1, <2>2, <3>1 DEF Rows, Shelved
  <2>. QED
    BY <2>4, <2>5 DEF FiledByPriority
<1>. QED
  BY <1>1, OrderInvariant, PTL

(***************************************************************************)
(* As long as the threads fit one running queue and their lists are not    *)
(* torn, createRunningQueue never loops for ever (my_pthread.c:384-399),   *)
(* not even where a signal in the context switch has spoilt a context.     *)
(***************************************************************************)
THEOREM WithRoomItNeverHangs ==
  ASSUME Orderly PROVE Spec /\ []Fits => []NeverHangs
<1>1. ASSUME Orderly, OrderInv, NeverHangs, [Next]_vars, Fits'
      PROVE  NeverHangs'
  <2>0. Windows \subseteq {"test", "switch"}
    BY <1>1 DEF Orderly
  <2>1. ASSUME NEW t \in Thread, NEW from \in {"user", "yield", "exit"}, Yield(t, from)
        PROVE  NeverHangs'
    <3>1. /\ Called("user") /\ Intact /\ scheduler(FALSE, "user")
          /\ "user" \in Labels /\ FALSE \in BOOLEAN
      BY <1>1, <2>1, YieldCalls DEF Labels
    <3>2. mode' \in {"switch", "done"}
      BY <1>1, <2>0, <3>1, SchedulerKeepsOrder
    <3>. QED
      BY <3>2 DEF NeverHangs
  <2>2. CASE Tick
    <3>1. Called(pc[cpu]) /\ Intact /\ scheduler(TRUE, pc[cpu]) /\ pc[cpu] \in Labels
      BY <1>1, <2>0, <2>2, TickCalls
    <3>2. mode' \in {"switch", "done"}
      BY <1>1, <2>0, <3>1, SchedulerKeepsOrder
    <3>. QED
      BY <3>2 DEF NeverHangs
  <2>3. CASE Swap
    BY <2>3 DEF Swap, NeverHangs
  <2>4. ASSUME NEW t \in Thread,
               \/ CreateAlloc(t) \/ CreateTest(t) \/ CreateHead(t)
               \/ CreateTail(t) \/ Exit(t)
        PROVE  NeverHangs'
    BY <1>1, <2>4 DEF CreateAlloc, CreateTest, CreateHead, CreateTail, Exit, Executing,
                      processor, NeverHangs
  <2>5. ASSUME NEW t \in Thread, CreateLink(t) PROVE NeverHangs'
    BY <1>1, <2>5 DEF CreateLink, NeverHangs
  <2>6. CASE UNCHANGED vars
    BY <1>1, <2>6 DEF vars, NeverHangs
  <2>. QED
    BY <1>1, <2>1, <2>2, <2>3, <2>4, <2>5, <2>6 DEF Next, Program, Library, Stopped
<1>2. Init => NeverHangs
  BY DEF Init, NeverHangs
<1>. QED
  BY <1>1, <1>2, OrderInvariant, PTL DEF Spec

-----------------------------------------------------------------------------
(***************************************************************************)
(* The contexts.  They need more: SIGALRM must not land between setitimer  *)
(* and swapcontext either.                                                 *)
(***************************************************************************)
Sheltered == Orderly /\ Windows \subseteq {"test"}

(* Every thread but the one on the processor can be resumed, and it can be *)
(* saved where the swap is about to save it.                               *)
Resumable ==
  /\ \A t \in Live : pc[t] # "gone"
  /\ \A t \in Live : t # cpu => owner[t] = t
  /\ mode = "switch" => leaving = cpu \/ (leaving = Null /\ cpu \notin Live)

ContextInv == OrderInv /\ StaysUp /\ (Intact => Resumable)

(* A call of scheduler by the thread on the processor.                     *)
LEMMA SchedulerKeepsContexts ==
  ASSUME Fits', ContextInv, mode = "run", NEW ranWholeTimeSlice \in BOOLEAN,
         NEW label \in Labels \ {"gone"}, Called(label),
         scheduler(ranWholeTimeSlice, label)
  PROVE  ContextInv'
<1>1. /\ OrderInv /\ SchedulerInv /\ TypeOK /\ Intact /\ Resumable /\ cpu \in Thread
      /\ pc \in [Thread -> Labels] /\ label \in Labels
  BY DEF ContextInv, OrderInv, SchedulerInv, TypeOK, Intact
<1>2. OrderInv' /\ mode' \in {"switch", "done"}
  BY <1>1, SchedulerKeepsOrder
<1>3. CASE mode' = "done"
  BY <1>2, <1>3 DEF ContextInv, StaysUp, Intact
<1>4. CASE mode' = "switch"
  <2>1. PICK L : Rows(q, tcb, newNode, pc, L)
    BY <1>1 DEF OrderInv
  <2>2. leaving' = IF LeaverDone THEN Null ELSE Leaver
    BY <1>1, <2>1, SchedulerSwitches
  <2>3. PICK S, blocks : Switched(Leaver, LeaverDone, Rest(L), S, blocks)
    BY <1>1, <2>1, SchedulerSwitches
  <2>4. Leaver = cpu
    BY <1>1 DEF Leaver, SchedulerInv, RunningIsCurrent
  <2>5. /\ LiveIn(tcb') \ Unlinked = S
        /\ \A u \in Unlinked : tcb'[u].status = tcb[u].status
    BY <1>1, <1>4, <2>3, SwitchedBlocks
  <2>6. /\ cpu \notin Unlinked
        /\ S = IF LeaverDone THEN LiveIn(tcb) \ (Unlinked \cup {cpu})
               ELSE (LiveIn(tcb) \ Unlinked) \cup {cpu}
    BY <2>3, <2>4 DEF Switched
  <2>7. Live' = LiveIn(tcb') /\ Live = LiveIn(tcb)
    BY DEF Live, LiveIn
  <2>8. \A t \in Live' : t # cpu => t \in Live
    <3>1. \A u \in Unlinked : u \in LiveIn(tcb') => u \in LiveIn(tcb)
      BY <2>5 DEF LiveIn
    <3>. QED
      BY <2>5, <2>6, <2>7, <3>1
  <2>9. LeaverDone => cpu \notin Live'
    BY <2>5, <2>6, <2>7
  <2>10. /\ owner' = owner /\ cpu' = cpu
         /\ pc' = [pc EXCEPT ![cpu] = IF tcb[cpu].status = "EXITED" THEN "gone" ELSE label]
    BY DEF scheduler
  <2>11. tcb[cpu].status = "EXITED" => LeaverDone
    <3>1. CASE q.running = Null
      BY <1>1, <3>1 DEF SchedulerInv
    <3>2. CASE q.running # Null
      BY <2>4, <3>2 DEF Leaver, LeaverDone, Exited
    <3>. QED
      BY <3>1, <3>2
  <2>12. \A t \in Live' : pc'[t] # "gone"
    <3>. SUFFICES ASSUME NEW t \in Live' PROVE pc'[t] # "gone"
      OBVIOUS
    <3>0. t \in Thread
      BY <2>7 DEF LiveIn
    <3>1. CASE t = cpu
      BY <1>1, <2>9, <2>10, <2>11, <3>1
    <3>2. CASE t # cpu
      BY <1>1, <2>8, <2>10, <3>0, <3>2 DEF Resumable
    <3>. QED
      BY <3>1, <3>2
  <2>13. Resumable'
    BY <1>1, <2>2, <2>4, <2>8, <2>9, <2>10, <2>12 DEF Resumable
  <2>. QED
    BY <1>2, <1>4, <2>13 DEF ContextInv, StaysUp
<1>. QED
  BY <1>2, <1>3, <1>4

(* swapcontext and setcontext (lines 303-316) resume the thread they load. *)
LEMMA SwapKeepsContexts ==
  ASSUME ContextInv, Swap
  PROVE  ContextInv'
<1>. DEFINE r == q.running
            saved == [t \in Thread |-> IF t = leaving THEN cpu ELSE owner[t]]
<1>1. /\ OrderInv /\ SchedulerInv /\ TypeOK /\ mode = "switch" /\ Intact /\ Resumable
      /\ OrderInv'
      /\ owner \in [Thread -> Link]
  BY SwapKeepsOrder DEF ContextInv, OrderInv, SchedulerInv, TypeOK, Intact, Swap
<1>2. r \in Thread /\ r \in Live
  <2>1. tcb[r].status = "RUNNING"
    BY <1>1 DEF OrderInv, Lives
  <2>2. r \in Thread
    BY <1>1 DEF SchedulerInv, TypeOK, Queues, QueuesOver
  <2>. QED
    BY <2>1, <2>2 DEF Live
<1>3. \A t \in Live : t \in Thread /\ saved[t] = t
  <2>1. Live \subseteq Thread /\ Null \notin Thread
    BY <1>1, GivenInThread DEF Live
  <2>2. \A t \in Thread : saved[t] = IF t = leaving THEN cpu ELSE owner[t]
    OBVIOUS
  <2>. HIDE DEF saved
  <2>3. CASE leaving = cpu
    BY <1>1, <2>1, <2>2, <2>3 DEF Resumable
  <2>4. CASE leaving = Null /\ cpu \notin Live
    BY <1>1, <2>1, <2>2, <2>4 DEF Resumable
  <2>. QED
    BY <1>1, <2>3, <2>4 DEF Resumable
<1>4. saved[r] = r /\ pc[r] # "gone"
  BY <1>1, <1>2, <1>3 DEF Resumable
<1>5. mode' = "run" /\ owner' = [saved EXCEPT ![r] = Null] /\ cpu' = r
      /\ UNCHANGED << tcb, pc >>
  BY <1>4 DEF Swap
<1>6. Live' = Live
  BY <1>5 DEF Live
<1>7. \A t \in Live' : t # r => owner'[t] = t
  <2>1. \A t \in Thread : t # r => owner'[t] = saved[t]
    BY <1>5
  <2>. HIDE DEF saved
  <2>. QED
    BY <1>3, <1>6, <2>1
<1>8. Resumable'
  BY <1>1, <1>5, <1>6, <1>7 DEF Resumable
<1>. QED
  BY <1>1, <1>5, <1>8 DEF ContextInv, StaysUp

(* my_pthread_create makes a context that starts the new thread (lines     *)
(* 64-98).                                                                 *)
LEMMA CreateAllocKeepsContexts ==
  ASSUME ~StaleMemory, ContextInv, NEW t \in Thread, CreateAlloc(t)
  PROVE  ContextInv'
<1>. DEFINE new == thread_count1
<1>1. /\ OrderInv /\ OrderInv' /\ SchedulerInv /\ TypeOK
      /\ mode = "run" /\ cpu = t /\ Intact /\ Resumable
      /\ UNCHANGED << cpu, mode >> /\ new \in Thread
  <2>1. OrderInv /\ OrderInv'
    BY CreateAllocKeepsOrder DEF ContextInv
  <2>2. /\ mode = "run" /\ cpu = t /\ Intact /\ thread_count1 <= N
        /\ UNCHANGED << cpu, mode >>
    BY DEF CreateAlloc, Executing, Intact
  <2>3. SchedulerInv /\ TypeOK /\ Resumable
    BY <2>1, <2>2 DEF ContextInv, OrderInv, SchedulerInv
  <2>4. new \in Thread
    BY <2>2, <2>3, ThreadAssumption DEF TypeOK, Thread
  <2>. QED
    BY <2>1, <2>2, <2>3, <2>4
<1>2. /\ owner'[new] = new /\ \A u \in Thread : u # new => owner'[u] = owner[u]
      /\ pc' = [pc EXCEPT ![t] = "test", ![new] = "user"]
      /\ \A u \in Thread : u # new => tcb'[u] = tcb[u]
  BY <1>1 DEF CreateAlloc, TypeOK
<1>3. \A u \in Live' : u \in Thread /\ (u = new \/ u \in Live)
  BY <1>2 DEF Live
<1>4. \A u \in Live' : pc'[u] # "gone"
  <2>1. \A u \in Thread : pc'[u] = IF u = new THEN "user" ELSE IF u = t THEN "test" ELSE pc[u]
    BY <1>1, <1>2 DEF TypeOK
  <2>. QED
    BY <1>1, <1>3, <2>1 DEF Resumable
<1>5. Resumable'
  BY <1>1, <1>2, <1>3, <1>4 DEF Resumable
<1>. QED
  BY <1>1, <1>5 DEF ContextInv, StaysUp

(* The steps that touch no context.                                        *)
LEMMA OthersKeepContexts ==
  ASSUME ContextInv, NEW t \in Thread,
         \/ CreateTest(t) \/ CreateHead(t) \/ CreateLink(t) \/ CreateTail(t)
         \/ Exit(t)
  PROVE  ContextInv'
<1>1. /\ OrderInv /\ SchedulerInv /\ TypeOK /\ mode = "run" /\ Intact /\ Resumable
  BY DEF ContextInv, OrderInv, SchedulerInv, CreateTest, CreateHead, CreateLink,
         CreateTail, Exit, Executing, Intact
<1>2. PICK L : Rows(q, tcb, newNode, pc, L)
  BY <1>1 DEF OrderInv
<1>3. OrderInv'
  BY <1>1, <1>2, CreateTestKeepsOrder, CreateHeadLinks, CreateLinkLinks,
     CreateTailKeepsOrder, ExitKeepsOrder
<1>4. mode' = mode
  <2>1. CASE CreateLink(t)
    BY <1>1, <1>2, <2>1, CreateLinkLinks
  <2>2. CASE CreateTest(t) \/ CreateHead(t) \/ CreateTail(t) \/ Exit(t)
    BY <2>2 DEF CreateTest, CreateHead, CreateTail, Exit, processor
  <2>. QED
    BY <2>1, <2>2
<1>5. cpu' = cpu /\ owner' = owner
  BY DEF CreateTest, CreateHead, CreateLink, CreateTail, Exit, processor
<1>6. \A u \in Thread : pc'[u] = "gone" => pc[u] = "gone"
  BY <1>1 DEF TypeOK, CreateTest, CreateHead, CreateLink, CreateTail, Exit
<1>7. Live' = Live
  <2>1. CASE Exit(t)
    <3>1. /\ tcb' = [tcb EXCEPT ![q.running].status = "EXITED"] /\ q.running # Null
          /\ q.running \in Thread
      BY <1>1, <2>1 DEF Exit, SchedulerInv, TypeOK, Queues, QueuesOver
    <3>2. tcb[q.running].status \in {"RUNNING", "EXITED"}
      BY <1>1, <3>1 DEF SchedulerInv, RunningIsCurrent
    <3>3. \A u \in Thread : tcb'[u].status # "NONE" <=> tcb[u].status # "NONE"
      BY <1>1, <3>1, <3>2 DEF TypeOK, TCB
    <3>. QED
      BY <3>3 DEF Live
  <2>2. CASE CreateTest(t) \/ CreateHead(t) \/ CreateLink(t) \/ CreateTail(t)
    BY <2>2 DEF CreateTest, CreateHead, CreateLink, CreateTail, Live
  <2>. QED
    BY <2>1, <2>2
<1>8. Live \subseteq Thread
  BY DEF Live
<1>9. Resumable'
  BY <1>1, <1>4, <1>5, <1>6, <1>7, <1>8 DEF Resumable
<1>. QED
  BY <1>1, <1>3, <1>4, <1>9 DEF ContextInv, StaysUp

(* Every step keeps the contexts.                                          *)
THEOREM NextKeepsContexts ==
  ASSUME Sheltered
  PROVE  ContextInv /\ [Next]_vars /\ Fits' => ContextInv'
<1>. SUFFICES ASSUME ContextInv, [Next]_vars, Fits'
              PROVE  ContextInv'
  OBVIOUS
<1>0. /\ Windows \subseteq {"test"} /\ Windows \subseteq {"test", "switch"}
      /\ ~StaleMemory /\ Orderly
  BY DEF Sheltered, Orderly
<1>1. ASSUME NEW t \in Thread, CreateAlloc(t) PROVE ContextInv'
  BY <1>0, <1>1, CreateAllocKeepsContexts
<1>2. ASSUME NEW t \in Thread, NEW from \in {"user", "yield", "exit"}, Yield(t, from)
      PROVE  ContextInv'
  <2>1. OrderInv
    BY DEF ContextInv
  <2>2. Called("user") /\ scheduler(FALSE, "user") /\ mode = "run"
    BY <1>2, <2>1, YieldCalls DEF Yield, Executing
  <2>3. "user" \in Labels \ {"gone"} /\ FALSE \in BOOLEAN
    BY DEF Labels
  <2>. QED
    BY <1>0, <2>2, <2>3, SchedulerKeepsContexts
<1>3. ASSUME NEW t \in Thread,
             \/ CreateTest(t) \/ CreateHead(t) \/ CreateLink(t) \/ CreateTail(t)
             \/ Exit(t)
      PROVE  ContextInv'
  BY <1>3, OthersKeepContexts
<1>4. CASE Swap
  BY <1>4, SwapKeepsContexts
<1>5. CASE Tick
  <2>1. OrderInv
    BY DEF ContextInv
  <2>2. Called(pc[cpu]) /\ scheduler(TRUE, pc[cpu]) /\ pc[cpu] \in Labels
    BY <1>0, <1>5, <2>1, TickCalls
  <2>3. mode = "run" /\ pc[cpu] \in {"user", "yield", "exit", "test"}
    BY <1>0, <1>5 DEF Tick, CanTick, Interruptible
  <2>4. pc[cpu] \in Labels \ {"gone"} /\ TRUE \in BOOLEAN
    BY <2>2, <2>3
  <2>. QED
    BY <1>0, <2>2, <2>3, <2>4, SchedulerKeepsContexts
<1>6. CASE UNCHANGED vars
  <2>1. OrderInv'
    BY <1>0, <1>6, NextKeepsOrder DEF ContextInv
  <2>2. UNCHANGED << tcb, pc, cpu, mode, owner, leaving >>
    BY <1>6 DEF vars
  <2>3. Intact' = Intact /\ Resumable' = Resumable /\ StaysUp' = StaysUp
    BY <2>2 DEF Intact, Resumable, StaysUp, Live
  <2>. QED
    BY <2>1, <2>3 DEF ContextInv
<1>. QED
  BY <1>1, <1>2, <1>3, <1>4, <1>5, <1>6
     DEF Next, Program, Library, Stopped

(***************************************************************************)
(* The contexts stay their own for any number of threads that fit one      *)
(* running queue, with SIGALRM at any instruction of the program, of       *)
(* my_pthread_yield and of my_pthread_exit, and before the insertion of    *)
(* my_pthread_create.                                                      *)
(***************************************************************************)
THEOREM ContextInvariant ==
  ASSUME Sheltered PROVE Spec /\ []Fits => []ContextInv
<1>1. Init => ContextInv
  <2>. SUFFICES ASSUME Init PROVE ContextInv
    OBVIOUS
  <2>1. Live = {}
    BY BlocksTyped DEF Init, Live
  <2>. QED
    BY <2>1, InitEstablishesOrder DEF Init, ContextInv, StaysUp, Resumable
<1>. QED
  BY <1>1, NextKeepsContexts, PTL DEF Spec

(***************************************************************************)
(* Every thread that is not executing has a context that holds its own     *)
(* execution and was not resumed before (my_pthread.c:301-316), as long as *)
(* the signal stays out of the context switch (the code does not keep it   *)
(* out) and of the list insertion, and the threads fit one running queue.  *)
(***************************************************************************)
THEOREM ContextsAreTheirOwn ==
  ASSUME Sheltered PROVE Spec /\ []Fits => []ContextsIntact
<1>1. ContextInv => ContextsIntact
  BY DEF ContextInv, Resumable, ContextsIntact, Intact
<1>. QED
  BY <1>1, ContextInvariant, PTL

(***************************************************************************)
(* createRunningQueue does not loop for ever (my_pthread.c:384-399), and   *)
(* neither a list nor a context is followed that was destroyed, under the  *)
(* same conditions: each of them is one that the code does not establish.  *)
(***************************************************************************)
THEOREM TheProcessStaysUp ==
  ASSUME Sheltered PROVE Spec /\ []Fits => []StaysUp
<1>1. ContextInv => StaysUp
  BY DEF ContextInv
<1>. QED
  BY <1>1, ContextInvariant, PTL

-----------------------------------------------------------------------------
(***************************************************************************)
(* The refinement.  The running queue is the round of the promise; the     *)
(* priority queues together are those who wait for the next one.           *)
(***************************************************************************)
WaitingIn(queues) ==
  UNION { { Lists(queues)[p][i] : i \in DOMAIN Lists(queues)[p] } : p \in Level }

RoundIn(queues, m) ==
  IF m = "done" THEN << >>
  ELSE IF queues.running = Null THEN << 1 >> ELSE Chain(queues, queues.running)

(* The refinement mapping, said of the variables.                          *)
LEMMA MappingIs ==
  /\ round = RoundIn(q, mode) /\ round' = RoundIn(q', mode')
  /\ waiting = WaitingIn(q) /\ waiting' = WaitingIn(q')
  BY DEF round, waiting, Running, Waiting, RoundIn, WaitingIn

Waits(L) == { t \in Thread : \E p \in Level : \E i \in 1 .. Len(L[p]) : L[p][i] = t }

Turns(L) == IF L[3] = << >> THEN << 1 >> ELSE L[3]

(* The members of a row.                                                   *)
LEMMA MembersOfRow ==
  ASSUME NEW s \in Seq(Thread)
  PROVE  Promise!Members(s) = { t \in Thread : \E i \in 1 .. Len(s) : s[i] = t }
  BY Entries DEF Promise!Members

(* A round and those who wait, read off the rows.                          *)
LEMMA MappedRows ==
  ASSUME NEW queues, NEW L, Lined(queues, L)
  PROVE  /\ WaitingIn(queues) = Waits(L)
         /\ queues.running = Null <=> L[3] = << >>
         /\ \A m : m # "done" => RoundIn(queues, m) = Turns(L)
         /\ L[3] \in Seq(Thread)
<1>1. /\ 3 \in Shelf /\ First(queues, 3) = queues.running
      /\ \A p \in Level : p \in Shelf
  BY DEF Shelf, First, Level
<1>2. /\ Chain(queues, queues.running) = L[3] /\ L[3] \in Seq(Thread)
      /\ queues.running = Null <=> L[3] = << >>
  BY <1>1, LinedLists, LinedHeads
<1>3. \A p \in Level : /\ Lists(queues)[p] = L[p] /\ L[p] \in Seq(Thread)
                       /\ DOMAIN L[p] = 1 .. Len(L[p])
                       /\ \A i \in 1 .. Len(L[p]) : L[p][i] \in Thread
  BY <1>1, LinedLists, LinedHeads, Entries
<1>4. WaitingIn(queues) = UNION { { L[p][i] : i \in 1 .. Len(L[p]) } : p \in Level }
  BY <1>3 DEF WaitingIn
<1>5. WaitingIn(queues) = Waits(L)
  BY <1>3, <1>4 DEF Waits
<1>. QED
  BY <1>2, <1>5 DEF RoundIn, Turns

(* Who is in the lists has a turn in this round or waits, and not both.    *)
LEMMA TurnsAndWaits ==
  ASSUME NEW queues, NEW L, Lined(queues, L)
  PROVE  /\ In(L) = Waits(L) \cup Promise!Members(L[3])
         /\ \A t \in Waits(L) : t \notin Promise!Members(L[3])
<1>1. 3 \in Shelf /\ (\A p \in Level : p \in Shelf /\ p # 3)
      /\ \A p \in Shelf : p = 3 \/ p \in Level
  BY DEF Shelf, Level
<1>2. L[3] \in Seq(Thread) /\ Apart(L)
  BY <1>1 DEF Lined
<1>3. Promise!Members(L[3]) = { t \in Thread : \E i \in 1 .. Len(L[3]) : L[3][i] = t }
  BY <1>2, MembersOfRow
<1>4. In(L) = Waits(L) \cup Promise!Members(L[3])
  BY <1>1, <1>3 DEF In, Waits
<1>5. ASSUME NEW t \in Waits(L), t \in Promise!Members(L[3]) PROVE FALSE
  <2>1. PICK i \in 1 .. Len(L[3]) : L[3][i] = t
    BY <1>3, <1>5
  <2>2. PICK p \in Level : \E j \in 1 .. Len(L[p]) : L[p][j] = t
    BY <1>5 DEF Waits
  <2>3. PICK j \in 1 .. Len(L[p]) : L[p][j] = t
    BY <2>2
  <2>. QED
    BY <1>1, <1>2, <2>1, <2>3 DEF Apart
<1>. QED
  BY <1>4, <1>5

(* A row that has each thread of S once is an order of S.                  *)
LEMMA RowIsOrder ==
  ASSUME NEW s \in Seq(Thread), NEW S, S = Promise!Members(s), S # {},
         \A i, j \in 1 .. Len(s) : s[i] = s[j] => i = j
  PROVE  s \in Promise!Orders(S)
<1>1. /\ Len(s) \in Nat /\ DOMAIN s = 1 .. Len(s) /\ s \in [1 .. Len(s) -> S]
      /\ S \subseteq Thread
  BY LenProperties, MembersOfRow DEF Promise!Members
<1>2. IsFiniteSet(S) /\ Cardinality(S) \in Nat
  <2>1. IsFiniteSet(Thread)
    BY ThreadAssumption, FS_Interval DEF Thread
  <2>. QED
    BY <1>1, <2>1, FS_Subset, FS_CardinalityType
<1>3. Len(s) <= Cardinality(S)
  <2>1. s \in Injection(1 .. Len(s), S)
    BY <1>1 DEF Injection, IsInjective
  <2>2. Cardinality(1 .. Len(s)) = IF 1 > Len(s) THEN 0 ELSE Len(s) - 1 + 1
    BY <1>1, FS_Interval
  <2>3. Cardinality(1 .. Len(s)) = Len(s)
    BY <1>1, <2>2
  <2>. QED
    BY <1>2, <2>1, <2>3, FS_Injection
<1>4. Len(s) # 0
  <2>1. PICK t \in S : TRUE
    OBVIOUS
  <2>2. PICK i \in 1 .. Len(s) : s[i] = t
    BY <2>1, MembersOfRow
  <2>. QED
    BY <1>1, <2>2
<1>5. Len(s) \in 1 .. Cardinality(S)
  BY <1>1, <1>2, <1>3, <1>4
<1>6. s \in UNION { [1 .. k -> S] : k \in 1 .. Cardinality(S) }
  BY <1>1, <1>5
<1>7. Promise!Members(s) = S /\ \A i, j \in DOMAIN s : s[i] = s[j] => i = j
  BY <1>1
<1>8. Cardinality(S) = Promise!Cardinality(S)
  BY DEF Cardinality, Promise!Cardinality
<1>. QED
  BY <1>6, <1>7, <1>8, Zenon DEF Promise!Orders

(* The rest of a row has all of its threads but the first.                 *)
LEMMA RestOfRow ==
  ASSUME NEW queues, NEW L, Lined(queues, L), L[3] # << >>
  PROVE  /\ Tail(L[3]) \in Seq(Thread) /\ Head(L[3]) = L[3][1] /\ queues.running = L[3][1]
         /\ Promise!Members(Tail(L[3])) = Promise!Members(L[3]) \ {L[3][1]}
<1>1. 3 \in Shelf /\ First(queues, 3) = queues.running
  BY DEF Shelf, First
<1>2. /\ L[3] \in Seq(Thread) /\ Apart(L) /\ queues.running = L[3][1]
      /\ Goes(queues.next, queues.running, L[3])
  BY <1>1, LinedHeads DEF Lined
<1>3. /\ Tail(L[3]) \in Seq(Thread) /\ Len(Tail(L[3])) = Len(L[3]) - 1
      /\ \A i \in 1 .. Len(Tail(L[3])) : i + 1 \in 1 .. Len(L[3]) /\ Tail(L[3])[i] = L[3][i + 1]
  BY <1>2, TailRow
<1>4. Len(L[3]) \in Nat /\ 1 \in 1 .. Len(L[3]) /\ Head(L[3]) = L[3][1]
  BY <1>1, <1>2, LinedHeads, Entries
<1>5. \A i, j \in 1 .. Len(L[3]) : L[3][i] = L[3][j] => i = j
  BY <1>1, <1>2 DEF Apart
<1>6. ASSUME NEW t \in Thread
      PROVE  (\E i \in 1 .. Len(Tail(L[3])) : Tail(L[3])[i] = t)
               <=> (\E i \in 1 .. Len(L[3]) : L[3][i] = t) /\ t # L[3][1]
  <2>1. ASSUME NEW i \in 1 .. Len(Tail(L[3])), Tail(L[3])[i] = t
        PROVE  (\E j \in 1 .. Len(L[3]) : L[3][j] = t) /\ t # L[3][1]
    <3>1. i + 1 \in 1 .. Len(L[3]) /\ L[3][i + 1] = t /\ i + 1 # 1
      BY <1>3, <2>1
    <3>. QED
      BY <1>4, <1>5, <3>1
  <2>2. ASSUME NEW j \in 1 .. Len(L[3]), L[3][j] = t, t # L[3][1]
        PROVE  \E i \in 1 .. Len(Tail(L[3])) : Tail(L[3])[i] = t
    <3>1. j # 1
      BY <2>2
    <3>2. j - 1 \in 1 .. Len(Tail(L[3])) /\ (j - 1) + 1 = j
      BY <1>3, <1>4, <3>1
    <3>. QED
      BY <1>3, <2>2, <3>2
  <2>. QED
    BY <2>1, <2>2
<1>7. /\ Promise!Members(L[3]) = { t \in Thread : \E i \in 1 .. Len(L[3]) : L[3][i] = t }
      /\ Promise!Members(Tail(L[3]))
           = { t \in Thread : \E i \in 1 .. Len(Tail(L[3])) : Tail(L[3])[i] = t }
  BY <1>2, <1>3, MembersOfRow
<1>. QED
  BY <1>2, <1>3, <1>4, <1>6, <1>7

(* A call of scheduler ends a turn: of a thread that goes on waiting, or   *)
(* of one that has exited.                                                 *)
LEMMA SwitchEndsTurn ==
  ASSUME OrderInv, Intact, NEW L, Rows(q, tcb, newNode, pc, L),
         NEW S, NEW blocks, Switched(Leaver, LeaverDone, Rest(L), S, blocks),
         mode' \in {"switch", "done"}
  PROVE  Promise!Rotate \/ Promise!Exit
<1>. DEFINE x == Leaver
            others == IF LeaverDone THEN Waits(L) ELSE Waits(L) \cup {x}
<1>1. /\ Lined(q, L) /\ In(L) = LiveIn(tcb) \ Unlinked /\ mode # "done"
      /\ x \in Thread /\ x \notin Unlinked
      /\ S = IF LeaverDone THEN LiveIn(tcb) \ (Unlinked \cup {x})
             ELSE (LiveIn(tcb) \ Unlinked) \cup {x}
  BY UnlinkedIs DEF Rows, Shelved, Intact, Switched
<1>2. /\ waiting = Waits(L) /\ round = Turns(L) /\ L[3] \in Seq(Thread)
      /\ q.running = Null <=> L[3] = << >>
  BY <1>1, MappingIs, MappedRows
<1>3. /\ In(L) = Waits(L) \cup Promise!Members(L[3])
      /\ \A t \in Waits(L) : t \notin Promise!Members(L[3])
  BY <1>1, TurnsAndWaits
<1>4. round # << >> /\ Head(round) = x /\ Tail(round) = Rest(L)
  <2>1. CASE q.running = Null
    <3>1. round = << 1 >> /\ x = 1 /\ Rest(L) = << >>
      BY <1>2, <2>1 DEF Turns, Leaver, Rest
    <3>. QED
      BY <3>1
  <2>2. CASE q.running # Null
    <3>1. round = L[3] /\ L[3] # << >> /\ x = q.running /\ Rest(L) = Tail(L[3])
      BY <1>2, <2>2 DEF Turns, Leaver, Rest
    <3>2. Head(L[3]) = L[3][1] /\ q.running = L[3][1]
      BY <1>1, <3>1, RestOfRow
    <3>. QED
      BY <3>1, <3>2
  <2>. QED
    BY <2>1, <2>2
<1>5. /\ S = others \cup Promise!Members(Rest(L))
      /\ \A t \in others : t \notin Promise!Members(Rest(L))
  <2>1. CASE q.running = Null
    <3>1. Promise!Members(L[3]) = {} /\ Promise!Members(Rest(L)) = {} /\ ~LeaverDone
      <4>1. L[3] = << >> /\ Rest(L) = << >> /\ ~LeaverDone
        BY <1>2, <2>1 DEF Rest, LeaverDone
      <4>2. Promise!Members(<< >>) = {}
        BY DEF Promise!Members
      <4>. QED
        BY <4>1, <4>2
    <3>. QED
      BY <1>1, <1>3, <3>1
  <2>2. CASE q.running # Null
    <3>1. L[3] # << >> /\ x = L[3][1] /\ Rest(L) = Tail(L[3])
      BY <1>1, <1>2, <2>2, RestOfRow DEF Leaver, Rest
    <3>2. Promise!Members(Rest(L)) = Promise!Members(L[3]) \ {x}
      BY <1>1, <3>1, RestOfRow
    <3>3. x \in Promise!Members(L[3])
      <4>1. 3 \in Shelf
        BY DEF Shelf
      <4>2. 1 \in 1 .. Len(L[3]) /\ DOMAIN L[3] = 1 .. Len(L[3])
        BY <1>1, <1>2, <3>1, <4>1, LinedHeads, Entries
      <4>. QED
        BY <3>1, <4>2 DEF Promise!Members
    <3>. HIDE DEF x
    <3>. QED
      BY <1>1, <1>3, <3>2, <3>3
  <2>. QED
    BY <2>1, <2>2
<1>6. PICK queues : Served(queues, blocks, Rest(L), S, q', tcb', mode')
  BY DEF Switched
<1>. HIDE DEF x, others
<1>7. Promise!EndTurn(others)
  <2>1. CASE mode' = "done"
    <3>1. Rest(L) = << >> /\ S = {}
      BY <1>6, <2>1 DEF Served
    <3>2. PICK M : Ready(q', tcb', M, S)
      BY <1>6, <2>1 DEF Served
    <3>3. Lined(q', M) /\ In(M) = {}
      BY <3>1, <3>2 DEF Ready, Shelved
    <3>4. WaitingIn(q') = Waits(M) /\ Waits(M) = {}
      BY <3>3, MappedRows, TurnsAndWaits
    <3>5. waiting' = {} /\ round' = << >>
      BY <2>1, <3>4, MappingIs DEF RoundIn
    <3>6. others = {}
      BY <1>5, <3>1
    <3>. QED
      BY <1>4, <3>1, <3>5, <3>6 DEF Promise!EndTurn
  <2>2. CASE mode' = "switch"
    <3>1. PICK M : Ready(q', tcb', M, S) /\ Draws(M, Rest(L))
      BY <1>6, <2>2 DEF Served
    <3>2. Lined(q', M) /\ In(M) = S /\ q'.running \in S
      BY <1>6, <2>2, <3>1 DEF Ready, Shelved, Served
    <3>3. /\ WaitingIn(q') = Waits(M) /\ M[3] \in Seq(Thread)
          /\ q'.running = Null <=> M[3] = << >>
          /\ RoundIn(q', mode') = Turns(M)
          /\ S = Waits(M) \cup Promise!Members(M[3])
          /\ \A t \in Waits(M) : t \notin Promise!Members(M[3])
      BY <2>2, <3>2, MappedRows, TurnsAndWaits
    <3>4. waiting' = Waits(M) /\ round' = M[3]
      <4>1. q'.running # Null
        BY <3>2, ThreadAssumption DEF In, Thread, Null
      <4>. QED
        BY <3>3, <4>1, MappingIs DEF Turns
    <3>5. CASE Rest(L) # << >>
      <4>1. M[3] = Rest(L)
        BY <3>1, <3>5 DEF Draws
      <4>2. Waits(M) = others
        BY <1>5, <3>3, <4>1
      <4>. QED
        BY <1>4, <3>4, <3>5, <4>1, <4>2 DEF Promise!EndTurn
    <3>6. CASE Rest(L) = << >>
      <4>1. Waits(M) = {}
        <5>1. \A p \in Level : Len(M[p]) = 0
          BY <3>1, <3>6, EmptySeq DEF Draws
        <5>. QED
          BY <5>1 DEF Waits
      <4>2. others = S
        <5>1. Promise!Members(<< >>) = {}
          BY DEF Promise!Members
        <5>. QED
          BY <1>5, <3>6, <5>1
      <4>3. S = Promise!Members(M[3]) /\ S # {}
        BY <3>2, <3>3, <4>1
      <4>4. \A i, j \in 1 .. Len(M[3]) : M[3][i] = M[3][j] => i = j
        BY <3>2 DEF Lined, Apart, Shelf
      <4>5. M[3] \in Promise!Orders(S)
        BY <3>3, <4>3, <4>4, RowIsOrder
      <4>. QED
        BY <1>4, <3>4, <3>6, <4>1, <4>2, <4>3, <4>5 DEF Promise!EndTurn
    <3>. QED
      BY <3>5, <3>6
  <2>. QED
    BY <2>1, <2>2
<1>8. CASE LeaverDone
  BY <1>2, <1>7, <1>8 DEF others, Promise!Exit
<1>9. CASE ~LeaverDone
  BY <1>2, <1>4, <1>7, <1>9 DEF others, Promise!Rotate
<1>. QED
  BY <1>8, <1>9

(* A call of scheduler, whoever makes it, is a step of the promise.        *)
LEMMA SchedulerKeepsPromise ==
  ASSUME Fits', OrderInv, Intact, NEW ranWholeTimeSlice \in BOOLEAN,
         NEW label \in Labels, Called(label), scheduler(ranWholeTimeSlice, label)
  PROVE  Promise!Next
<1>1. mode' \in {"switch", "done"}
  BY SchedulerKeepsOrder
<1>2. PICK L : Rows(q, tcb, newNode, pc, L)
  BY DEF OrderInv
<1>3. PICK S, blocks : Switched(Leaver, LeaverDone, Rest(L), S, blocks)
  BY <1>2, SchedulerSwitches
<1>. QED
  BY <1>1, <1>2, <1>3, SwitchEndsTurn DEF Promise!Next

(* Linking its node lets a new thread wait.                                *)
LEMMA LinkCreates ==
  ASSUME OrderInv, NEW t \in Thread, CreateHead(t) \/ CreateLink(t)
  PROVE  Promise!Next
<1>. DEFINE u == newNode[t]
<1>1. /\ SchedulerInv /\ Intact /\ mode = "run" /\ pc[t] \in {"head", "link"}
  BY DEF OrderInv, CreateHead, CreateLink, Executing, Intact
<1>2. PICK L : Rows(q, tcb, newNode, pc, L)
  BY <1>1 DEF OrderInv
<1>3. mode' = mode
  <2>1. CASE CreateHead(t)
    BY <2>1 DEF CreateHead, processor
  <2>2. CASE CreateLink(t)
    BY <1>2, <2>2, CreateLinkLinks
  <2>. QED
    BY <2>1, <2>2
<1>. DEFINE M == Appended(L, 0, u)
<1>4. Rows(q', tcb', newNode', pc', M)
  BY <1>2, CreateHeadLinks, CreateLinkLinks
<1>5. /\ u \in Thread /\ u \in Unlinked /\ tcb[u].status = "READY"
      /\ Lined(q, L) /\ Lined(q', M) /\ u \notin In(L)
  <2>1. u \in Unlinked
    BY <1>1, NodeOfCreate
  <2>2. u \in Thread /\ tcb[u].status = "READY"
    BY <1>1, <2>1, UnlinkedNodes DEF OrderInv
  <2>. QED
    BY <1>2, <1>4, <2>1, <2>2, UnlinkedIs DEF Rows, Shelved
<1>6. /\ L \in [Shelf -> Seq(Thread)] /\ 0 \in Level /\ 0 \in Shelf /\ 3 \in Shelf
      /\ \A p \in Level : p \in Shelf
  BY <1>5 DEF Lined, Level, Shelf
<1>7. /\ M[3] = L[3]
      /\ Len(M[0]) = Len(L[0]) + 1 /\ M[0][Len(L[0]) + 1] = u
      /\ \A i \in 1 .. Len(L[0]) : M[0][i] = L[0][i]
      /\ \A p \in Level : p # 0 => M[p] = L[p]
  <2>1. M = [L EXCEPT ![0] = Append(L[0], u)]
    BY DEF Appended
  <2>2. L[0] \in Seq(Thread)
    BY <1>6
  <2>. HIDE DEF u
  <2>3. M[0] = Append(L[0], u) /\ \A p \in Shelf : p # 0 => M[p] = L[p]
    BY <1>6, <2>1
  <2>4. /\ Len(M[0]) = Len(L[0]) + 1 /\ M[0][Len(L[0]) + 1] = u
        /\ \A i \in 1 .. Len(L[0]) : M[0][i] = L[0][i]
    BY <1>5, <2>2, <2>3, AppendProperties
  <2>. QED
    BY <1>6, <2>3, <2>4
<1>. HIDE DEF M, u
<1>8. Waits(M) = Waits(L) \cup {u}
  <2>1. Len(L[0]) \in Nat
    BY <1>6
  <2>2. ASSUME NEW v \in Thread
        PROVE  (\E i \in 1 .. Len(M[0]) : M[0][i] = v)
                 <=> (\E i \in 1 .. Len(L[0]) : L[0][i] = v) \/ v = u
    <3>1. \A i \in 1 .. Len(M[0]) : i \in 1 .. Len(L[0]) \/ i = Len(L[0]) + 1
      BY <1>7, <2>1
    <3>2. Len(L[0]) + 1 \in 1 .. Len(M[0]) /\ \A i \in 1 .. Len(L[0]) : i \in 1 .. Len(M[0])
      BY <1>7, <2>1
    <3>. QED
      BY <1>7, <3>1, <3>2
  <2>3. ASSUME NEW v \in Thread PROVE v \in Waits(M) <=> v \in Waits(L) \/ v = u
    <3>1. v \in Waits(M) <=>
            \/ \E i \in 1 .. Len(M[0]) : M[0][i] = v
            \/ \E p \in Level : p # 0 /\ \E i \in 1 .. Len(M[p]) : M[p][i] = v
      BY <1>6 DEF Waits
    <3>2. v \in Waits(L) <=>
            \/ \E i \in 1 .. Len(L[0]) : L[0][i] = v
            \/ \E p \in Level : p # 0 /\ \E i \in 1 .. Len(L[p]) : L[p][i] = v
      BY <1>6 DEF Waits
    <3>3. (\E p \in Level : p # 0 /\ \E i \in 1 .. Len(M[p]) : M[p][i] = v)
            <=> (\E p \in Level : p # 0 /\ \E i \in 1 .. Len(L[p]) : L[p][i] = v)
      BY <1>7
    <3>. QED
      BY <2>2, <3>1, <3>2, <3>3
  <2>4. Waits(M) \subseteq Thread /\ Waits(L) \subseteq Thread
    BY DEF Waits
  <2>. QED
    BY <1>5, <2>3, <2>4
<1>9. /\ waiting = Waits(L) /\ round = Turns(L) /\ L[3] \in Seq(Thread)
      /\ q.running = Null <=> L[3] = << >>
  BY <1>1, <1>5, MappingIs, MappedRows
<1>10. waiting' = Waits(M) /\ round' = Turns(M)
  BY <1>1, <1>3, <1>5, MappingIs, MappedRows
<1>11. u \notin waiting \cup Promise!Members(round)
  <2>1. u \notin Waits(L) /\ u \notin Promise!Members(L[3])
    BY <1>5, TurnsAndWaits
  <2>2. CASE L[3] # << >>
    BY <1>9, <2>1, <2>2 DEF Turns
  <2>3. CASE L[3] = << >>
    <3>1. u # 1
      BY <1>1, <1>5, <1>9, <2>3 DEF OrderInv, Lives
    <3>2. Promise!Members(<< 1 >>) = {1}
      BY DEF Promise!Members
    <3>. QED
      BY <1>9, <2>1, <2>3, <3>1, <3>2 DEF Turns
  <2>. QED
    BY <2>2, <2>3
<1>12. round # << >> /\ round' = round /\ waiting' = waiting \cup {u}
  BY <1>7, <1>8, <1>9, <1>10 DEF Turns
<1>13. Promise!Create(u)
  BY <1>11, <1>12 DEF Promise!Create
<1>. QED
  BY <1>5, <1>13 DEF Promise!Next

(* A step that stores in no list is no step of the promise.                *)
LEMMA SameRowsStutter ==
  ASSUME NEW L, Rows(q, tcb, newNode, pc, L), Rows(q', tcb', newNode', pc', L),
         mode # "done", mode' # "done"
  PROVE  UNCHANGED << round, waiting >>
<1>1. Lined(q, L) /\ Lined(q', L)
  BY DEF Rows, Shelved
<1>2. WaitingIn(q) = Waits(L) /\ RoundIn(q, mode) = Turns(L)
  BY <1>1, MappedRows
<1>3. WaitingIn(q') = Waits(L) /\ RoundIn(q', mode') = Turns(L)
  BY <1>1, MappedRows
<1>. QED
  BY <1>2, <1>3, MappingIs

(* A step that stores in no queue is no step of the promise.               *)
LEMMA SameQueuesStutter ==
  ASSUME q' = q, (mode' = "done") <=> (mode = "done")
  PROVE  UNCHANGED << round, waiting >>
<1>1. WaitingIn(q') = WaitingIn(q) /\ RoundIn(q', mode') = RoundIn(q, mode)
  BY DEF RoundIn
<1>. QED
  BY <1>1, MappingIs

(* Every step maps to a step of the promise or to none.                    *)
THEOREM NextKeepsPromise ==
  ASSUME Orderly
  PROVE  OrderInv /\ [Next]_vars /\ Fits' => [Promise!Next]_(Promise!vars)
<1>. SUFFICES ASSUME OrderInv, [Next]_vars, Fits'
              PROVE  Promise!Next \/ UNCHANGED << round, waiting >>
  BY DEF Promise!vars
<1>0. Windows \subseteq {"test", "switch"} /\ ~StaleMemory
  BY DEF Orderly
<1>1. ASSUME NEW t \in Thread, CreateAlloc(t) \/ CreateTail(t)
      PROVE  UNCHANGED << round, waiting >>
  <2>1. PICK L : Rows(q, tcb, newNode, pc, L) /\ Rows(q', tcb', newNode', pc', L)
    BY <1>0, <1>1, CreateAllocKeepsOrder, CreateTailKeepsOrder
  <2>2. mode = "run" /\ mode' = mode
    BY <1>1 DEF CreateAlloc, CreateTail, Executing, processor
  <2>. QED
    BY <2>1, <2>2, SameRowsStutter
<1>2. ASSUME NEW t \in Thread, NEW from \in {"user", "yield", "exit"}, Yield(t, from)
      PROVE  Promise!Next
  <2>1. /\ Called("user") /\ Intact /\ scheduler(FALSE, "user")
        /\ "user" \in Labels /\ FALSE \in BOOLEAN
    BY <1>2, YieldCalls DEF Labels
  <2>. QED
    BY <1>0, <2>1, SchedulerKeepsPromise
<1>3. ASSUME NEW t \in Thread, CreateTest(t) \/ Exit(t)
      PROVE  UNCHANGED << round, waiting >>
  <2>1. q' = q /\ mode' = mode
    BY <1>3 DEF CreateTest, Exit, processor
  <2>. QED
    BY <2>1, SameQueuesStutter
<1>4. ASSUME NEW t \in Thread, CreateHead(t) \/ CreateLink(t)
      PROVE  Promise!Next
  BY <1>4, LinkCreates
<1>5. CASE Swap
  <2>1. q' = q /\ mode = "switch" /\ mode' \in {"run", "lost"}
    BY <1>5 DEF Swap
  <2>. QED
    BY <2>1, SameQueuesStutter
<1>6. CASE Tick
  <2>1. Called(pc[cpu]) /\ Intact /\ scheduler(TRUE, pc[cpu]) /\ pc[cpu] \in Labels
    BY <1>0, <1>6, TickCalls
  <2>. QED
    BY <1>0, <2>1, SchedulerKeepsPromise
<1>7. CASE UNCHANGED vars
  <2>1. q' = q /\ mode' = mode
    BY <1>7 DEF vars
  <2>. QED
    BY <2>1, SameQueuesStutter
<1>. QED
  BY <1>1, <1>2, <1>3, <1>4, <1>5, <1>6, <1>7
     DEF Next, Program, Library, Stopped

(***************************************************************************)
(* The scheduler keeps its promise: threads are served in rounds, each     *)
(* once in a round, and a round has everyone who waits when it begins      *)
(* (my_pthread.c:138-317, 333-457), for every number of threads, as long   *)
(* as those that exist fit one running queue and no list is torn.          *)
(***************************************************************************)
THEOREM SchedulerImplementsRounds ==
  ASSUME Orderly PROVE Spec /\ []Fits => KeepsPromise
<1>1. Init => Promise!Init
  <2>. SUFFICES ASSUME Init PROVE Promise!Init
    OBVIOUS
  <2>1. PICK L : Rows(q, tcb, newNode, pc, L)
    BY InitEstablishesOrder DEF OrderInv, Init, Intact
  <2>2. Lined(q, L) /\ mode = "run" /\ q.running = Null /\ In(L) = LiveIn(tcb) \ Unlinked
    BY <2>1, UnlinkedIs DEF Init, EmptyQueues, Rows, Shelved
  <2>3. LiveIn(tcb) = {}
    BY BlocksTyped DEF Init, LiveIn
  <2>4. waiting = Waits(L) /\ round = << 1 >>
    BY <2>2, MappingIs, MappedRows DEF RoundIn
  <2>5. Waits(L) = {}
    BY <2>2, <2>3, TurnsAndWaits
  <2>. QED
    BY <2>4, <2>5 DEF Promise!Init
<1>. QED
  BY <1>1, OrderInvariant, NextKeepsPromise, PTL DEF Spec, KeepsPromise, Promise!Spec
=============================================================================
