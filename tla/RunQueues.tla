------------------------------ MODULE RunQueues ------------------------------
(***************************************************************************)
(* The queues of the user-level thread library (src/Pthreads/my_pthread.c  *)
(* and its copy in src/Memory_Manager): the three priority queues of mpq,  *)
(* the running queue, and the selection that createRunningQueue makes.     *)
(*                                                                         *)
(* All four are singly linked lists through the ONE next field of a        *)
(* tcb_list node, so a node that is left linked from two places belongs to *)
(* two lists.  The lists are therefore kept as the code keeps them, as     *)
(* heads, tails and next pointers, and not as sequences.  A thread has one *)
(* node for its whole life, so a node is named by the id of its thread.    *)
(*                                                                         *)
(* There are no variables here: the operators are applied by Scheduler to  *)
(* its variable q.  An operator whose comment starts with "Faulty" is a    *)
(* variant with a likely mistake in it, which a property rejects           *)
(* (PROJECT.json, mutants); no specification uses it.                      *)
(***************************************************************************)
EXTENDS Integers, Sequences

CONSTANTS
  N,          \* ids 1 .. N can be given to threads; 1 is the main thread
  Quantum,    \* the time slice of each priority        (25, 50, 100 ms)
  Budget,     \* what createRunningQueue tries to fill  (max = 300 ms)
  AgeLimit,   \* the running time that resets a thread  (375 ms)
  SkipUnfit   \* TRUE: the copy in Memory_Manager, whose second pass steps
              \* over a thread that does not fit; FALSE: the one in Pthreads

Null   == 0
Thread == 1 .. N
Link   == Thread \cup {Null}
Level  == 0 .. 2

ASSUME ThreadAssumption  == N \in Nat \ {0}
ASSUME QuantumAssumption == Quantum \in [Level -> Nat \ {0}]
ASSUME LimitAssumption   == Budget \in Nat \ {0} /\ AgeLimit \in Nat \ {0}
ASSUME VariantAssumption == SkipUnfit \in BOOLEAN

(***************************************************************************)
(* mpq and running_queue_head.  running_queue_tail is not kept: it is read *)
(* only while createRunningQueue loads, after that call has written it.    *)
(***************************************************************************)
QueuesOver(S) == [ next    : [Thread -> S \cup {Null}],
                   head    : [Level -> S \cup {Null}],
                   tail    : [Level -> S \cup {Null}],
                   running : S \cup {Null} ]

Queues == QueuesOver(Thread)

EmptyQueues == [ next    |-> [t \in Thread |-> Null],
                 head    |-> [p \in Level |-> Null],
                 tail    |-> [p \in Level |-> Null],
                 running |-> Null ]

(***************************************************************************)
(* scheduler: the node of the main thread is put at the front of priority  *)
(* queue 0 on the first call; later the node at the head of the running    *)
(* queue is put at the end of the queue of its priority.                   *)
(***************************************************************************)
Push(q, t) == [q EXCEPT !.next[t] = q.head[0], !.head[0] = t]

Advance(q) == [q EXCEPT !.running = q.next[q.running]]

(* Faulty: the end of the queue keeps its old successor.                   *)
EnqueueLinked(q, p, t) ==
  IF q.tail[p] = Null
  THEN [q EXCEPT !.head[p] = t, !.tail[p] = t]
  ELSE [q EXCEPT !.next[q.tail[p]] = t, !.tail[p] = t]

Enqueue(q, p, t) ==
  IF q.tail[p] = Null
  THEN [q EXCEPT !.head[p] = t, !.tail[p] = t, !.next[t] = Null]
  ELSE [q EXCEPT !.next = [[@ EXCEPT ![q.tail[p]] = t] EXCEPT ![t] = Null],
                 !.tail[p] = t]

-----------------------------------------------------------------------------
(***************************************************************************)
(* Traversals.  A list that ends is a path that meets no node twice.       *)
(***************************************************************************)
Paths ==
  UNION { { s \in [1 .. k -> Thread] : \A i, j \in 1 .. k : s[i] = s[j] => i = j } :
          k \in 0 .. N }

IsChain(next, first, s) ==
  /\ IF s = << >> THEN first = Null ELSE first = s[1]
  /\ \A i \in DOMAIN s : next[s[i]] = IF i = Len(s) THEN Null ELSE s[i + 1]

Ends(q, first)  == \E s \in Paths : IsChain(q.next, first, s)
Chain(q, first) == CHOOSE s \in Paths : IsChain(q.next, first, s)

Disjoint(s, t) == \A i \in DOMAIN s, j \in DOMAIN t : s[i] # t[j]

Lists(q)   == [p \in Level |-> Chain(q, q.head[p])]
Lengths(q) == [p \in Level |-> Len(Chain(q, q.head[p]))]

(* Each priority queue ends and no node is in two of them.                 *)
ListsIntact(q) ==
  /\ \A p \in Level : Ends(q, q.head[p])
  /\ LET list == Lists(q)
     IN  \A p, r \in Level : p < r => Disjoint(list[p], list[r])

AllEmpty(q) == \A p \in Level : q.head[p] = Null

-----------------------------------------------------------------------------
(***************************************************************************)
(* createRunningQueue, the tally: len[p] is the length of priority queue   *)
(* p, the result how many nodes are taken from it.  A first pass tries one *)
(* thread of priority 2, two of priority 1 and then as many of priority 0  *)
(* as there is room for; a second pass fills the room that is left with    *)
(* threads of priority 1, then 2, that fit entirely.                       *)
(***************************************************************************)
Lesser(a, b) == IF a <= b THEN a ELSE b

Spent(n)    == Quantum[0] * n[0] + Quantum[1] * n[1] + Quantum[2] * n[2]
Room(spent) == IF spent < Budget THEN Budget - spent ELSE 0

FirstPass(len) ==
  LET one  == Lesser(2, len[1])
      two  == Lesser(1, len[2])
      room == Room(Quantum[1] * one + Quantum[2] * two)
      \* while (count < max): the last one taken may go past max
      zero == Lesser(len[0], (room + Quantum[0] - 1) \div Quantum[0])
  IN  [p \in Level |-> IF p = 0 THEN zero ELSE IF p = 1 THEN one ELSE two]

(* Faulty: no second pass.                                                 *)
RefillNone(len, n, p) == n

(* As many more of priority p as fit entirely.                             *)
Refill(len, n, p) ==
  [n EXCEPT ![p] = @ + Lesser(len[p] - @, Room(Spent(n)) \div Quantum[p])]

SecondPass(len) == Refill(len, FirstPass(len), 1)
Tally(len)      == Refill(len, SecondPass(len), 2)

(***************************************************************************)
(* In Pthreads the second pass moves its pointer only past a thread that   *)
(* fits.  At one that does not, while there is room left, it spins.        *)
(***************************************************************************)
SpinsAt(len, n, p) == len[p] > n[p] /\ Spent(n) < Budget

Spins(len) ==
  /\ ~SkipUnfit
  /\ SpinsAt(len, SecondPass(len), 1) \/ SpinsAt(len, Tally(len), 2)

(***************************************************************************)
(* createRunningQueue, the load: the first n[p] nodes of each priority     *)
(* queue become the running queue.  Nodes are linked to the one before;    *)
(* nothing is stored in the next field of the last one.                    *)
(***************************************************************************)
Taken(list, n) == SubSeq(list[0], 1, n[0]) \o SubSeq(list[1], 1, n[1])
                                           \o SubSeq(list[2], 1, n[2])

LinkAlong(next, run) ==
  [t \in Thread |->
     IF \E i \in 1 .. Len(run) - 1 : run[i] = t
     THEN run[1 + CHOOSE i \in 1 .. Len(run) - 1 : run[i] = t]
     ELSE next[t]]

(* Faulty: the tail of a priority queue that is emptied stays.             *)
LoadKeepingTails(q) ==
  LET list == Lists(q)
      n    == Tally([p \in Level |-> Len(list[p])])
      run  == Taken(list, n)
  IN  [ next    |-> LinkAlong(q.next, run),
        head    |-> [p \in Level |-> IF n[p] < Len(list[p])
                                     THEN list[p][n[p] + 1] ELSE Null],
        tail    |-> q.tail,
        running |-> run[1] ]

Load(q) ==
  LET list == Lists(q)
      n    == Tally([p \in Level |-> Len(list[p])])
      run  == Taken(list, n)
      head == [p \in Level |-> IF n[p] < Len(list[p])
                               THEN list[p][n[p] + 1] ELSE Null]
  IN  [ next    |-> LinkAlong(q.next, run),
        head    |-> head,
        tail    |-> [p \in Level |-> IF n[p] > 0 /\ head[p] = Null
                                     THEN Null ELSE q.tail[p]],
        running |-> run[1] ]
=============================================================================
