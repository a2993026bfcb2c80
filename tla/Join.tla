--------------------------------- MODULE Join ---------------------------------
(***************************************************************************)
(* my_pthread_join and my_pthread_exit (src/Pthreads/my_pthread.c:459-611) *)
(* on the two lists they share: join_LL, one block for every join under    *)
(* way, and retval_LL, one for every return value nobody has collected.    *)
(* Both are pushed at the head and searched from the head.                 *)
(*                                                                         *)
(* The scheduler is abstracted: any thread may get the processor whenever  *)
(* the one that has it calls my_pthread_yield, runs the program's code, or *)
(* is hit by SIGALRM at a label of Windows.  A thread is in one of the     *)
(* queues that join searches until it is "gone".                           *)
(*                                                                         *)
(* A block that has been freed is not reused, and my_pthread_join may      *)
(* still read its next field, as it does after it has unlinked its block.  *)
(***************************************************************************)
EXTENDS Integers, FiniteSets

CONSTANTS
  Thread,   \* the threads, all of them created
  Null,
  Windows   \* the labels at which SIGALRM is allowed to land.  Nothing in
            \* the code masks it: the program has them all

JoinLabels == {"push", "linked", "leave", "unlink", "take", "collect"}
ExitLabels == {"scanned", "store", "dying"}

ASSUME JoinAssumption == /\ IsFiniteSet(Thread) /\ Null \notin Thread
                         /\ Windows \subseteq JoinLabels \cup ExitLabels \cup {"search"}

VARIABLES
  pc,        \* where each thread is
  target,    \* join: the thread it waits for
  wants,     \* join: value_ptr is not NULL;  exit: so is the value given
  prev,      \* the register a push or an unlink of the thread works with
  done,      \* of the block of each thread
  joins,     \* join_LL: its head and the next field of every block
  retvals,   \* retval_LL, the same; the block of a value is its thread
  woke,      \* history: the joiner whose done an exiting thread has set
  takers     \* history: how many joins have collected the value of each

vars == << pc, target, wants, prev, done, joins, retvals, woke, takers >>

Labels == {"user", "wait", "gone"} \cup JoinLabels \cup ExitLabels

EmptyList == [head |-> Null, next |-> [t \in Thread |-> Null]]

Init ==
  /\ pc = [t \in Thread |-> "user"]
  /\ target = [t \in Thread |-> Null]
  /\ wants = [t \in Thread |-> FALSE]
  /\ prev = [t \in Thread |-> Null]
  /\ done = [t \in Thread |-> FALSE]
  /\ joins = EmptyList /\ retvals = EmptyList
  /\ woke = [t \in Thread |-> Null]
  /\ takers = [t \in Thread |-> 0]

-----------------------------------------------------------------------------
(***************************************************************************)
(* Linked lists.                                                           *)
(***************************************************************************)
(* The blocks in list order; a list is never longer than its blocks.       *)
Path(list) ==
  LET at[k \in 0..Cardinality(Thread)] ==
        IF k = 0 THEN list.head
        ELSE IF at[k - 1] = Null THEN Null ELSE list.next[at[k - 1]]
  IN at

Blocks(list) ==
  LET path == Path(list) IN {path[k] : k \in DOMAIN path} \ {Null}

(* The first block of the list that is in S, or Null.                      *)
FirstIn(list, S) ==
  LET path == Path(list)
      hits == {k \in 0..Cardinality(Thread) : path[k] \in S}
  IN IF hits = {} THEN Null ELSE path[CHOOSE k \in hits : \A j \in hits : k <= j]

(* What the search for b stops behind: Null at the head.  A block that is  *)
(* not in the list comes after itself, and splicing it changes nothing.    *)
Before(list, b) ==
  IF b \notin Blocks(list) THEN b
  ELSE FirstIn(list, {c \in Thread : list.next[c] = b})

(* Faulty: what comes before the block is dropped with it.                 *)
SpliceFromHead(list, before, b) == [list EXCEPT !.head = list.next[b]]

Splice(list, before, b) ==
  IF before = Null THEN [list EXCEPT !.head = list.next[b]]
  ELSE [list EXCEPT !.next[before] = list.next[b]]

PushOn(list, head, b) == [head |-> b, next |-> [list.next EXCEPT ![b] = head]]

-----------------------------------------------------------------------------
(***************************************************************************)
(* A thread executes when every other one is where it can have lost the    *)
(* processor.                                                              *)
(***************************************************************************)
At(t, label) ==
  /\ pc[t] = label
  /\ \A u \in Thread \ {t} : pc[u] \in {"user", "wait", "gone"} \cup Windows

Goto(t, label) == pc' = [pc EXCEPT ![t] = label]

(* The locals of a join end with it.                                       *)
Return(t) ==
  /\ Goto(t, "user")
  /\ target' = [target EXCEPT ![t] = Null]
  /\ wants' = [wants EXCEPT ![t] = FALSE]

history == << woke, takers >>

(***************************************************************************)
(* my_pthread_join: push the block, search the thread, wait, unlink the    *)
(* block, collect the value.                                               *)
(***************************************************************************)
JoinRead(t) ==
  /\ At(t, "user")
  /\ \E x \in Thread \ {t}, w \in BOOLEAN :
       /\ target' = [target EXCEPT ![t] = x]
       /\ wants' = [wants EXCEPT ![t] = w]
  /\ prev' = [prev EXCEPT ![t] = joins.head]
  /\ Goto(t, "push")
  /\ UNCHANGED << done, joins, retvals, history >>

JoinPush(t) ==
  /\ At(t, "push")
  /\ joins' = PushOn(joins, prev[t], t)
  /\ prev' = [prev EXCEPT ![t] = Null]
  /\ Goto(t, "linked")
  /\ UNCHANGED << target, wants, done, retvals, history >>

(* The four queues are searched one after the other: a thread that the     *)
(* scheduler moves in between can be missed.                               *)
JoinSearch(t) ==
  /\ At(t, "linked")
  /\ \/ pc[target[t]] # "gone" /\ Goto(t, "wait")
     \/ (pc[target[t]] = "gone" \/ "search" \in Windows) /\ Goto(t, "leave")
  /\ UNCHANGED << target, wants, prev, done, joins, retvals, history >>

JoinWait(t) ==
  /\ At(t, "wait")
  /\ done[t]
  /\ Goto(t, "leave")
  /\ UNCHANGED << target, wants, prev, done, joins, retvals, history >>

JoinFind(t) ==
  /\ At(t, "leave")
  /\ prev' = [prev EXCEPT ![t] = Before(joins, t)]
  /\ Goto(t, "unlink")
  /\ UNCHANGED << target, wants, done, joins, retvals, history >>

JoinUnlink(t) ==
  /\ At(t, "unlink")
  /\ joins' = Splice(joins, prev[t], t)
  /\ prev' = [prev EXCEPT ![t] = Null]
  /\ done' = [done EXCEPT ![t] = FALSE]
  /\ \/ wants[t] /\ Goto(t, "take") /\ UNCHANGED << target, wants >>
     \/ ~wants[t] /\ Return(t)
  /\ UNCHANGED << retvals, history >>

(* Is there a value for this join?  The search of retval_LL remembers the  *)
(* block and the one before it.                                            *)
JoinTake(t) ==
  LET x == target[t]
  IN /\ At(t, "take")
     /\ \/ /\ x \in Blocks(retvals)
           /\ prev' = [prev EXCEPT ![t] = Before(retvals, x)]
           /\ Goto(t, "collect")
           /\ UNCHANGED << target, wants >>
        \/ x \notin Blocks(retvals) /\ Return(t) /\ UNCHANGED prev
     /\ UNCHANGED << done, joins, retvals, history >>

(* Faulty: the value stays in the list.                                    *)
JoinCollectCopy(t) ==
  /\ At(t, "collect")
  /\ takers' = [takers EXCEPT ![target[t]] = @ + 1]
  /\ prev' = [prev EXCEPT ![t] = Null]
  /\ Return(t)
  /\ UNCHANGED << done, joins, retvals, woke >>

JoinCollect(t) ==
  LET x == target[t]
  IN /\ At(t, "collect")
     /\ retvals' = Splice(retvals, prev[t], x)
     /\ takers' = [takers EXCEPT ![x] = @ + 1]
     /\ prev' = [prev EXCEPT ![t] = Null]
     /\ Return(t)
     /\ UNCHANGED << done, joins, woke >>

-----------------------------------------------------------------------------
(***************************************************************************)
(* my_pthread_exit: wake a joiner, push the value, leave the queues.       *)
(***************************************************************************)
(* Faulty: the joiner at the head of the list is taken for one's own.      *)
JoinerAtHead(t) == joins.head

(* Faulty: only the head of the list is looked at.                         *)
JoinerIfHead(t) ==
  IF joins.head # Null /\ target[joins.head] = t THEN joins.head ELSE Null

(* The first joiner of t in the list, the last to have come.               *)
Joiner(t) == FirstIn(joins, {b \in Thread : target[b] = t})

ExitScan(t) ==
  /\ At(t, "user")
  /\ done' = [b \in Thread |-> done[b] \/ b = Joiner(t)]
  /\ woke' = [woke EXCEPT ![t] = Joiner(t)]
  /\ \E w \in BOOLEAN : /\ wants' = [wants EXCEPT ![t] = w]
                        /\ Goto(t, IF w THEN "scanned" ELSE "dying")
  /\ UNCHANGED << target, prev, joins, retvals, takers >>

ExitRead(t) ==
  /\ At(t, "scanned")
  /\ prev' = [prev EXCEPT ![t] = retvals.head]
  /\ Goto(t, "store")
  /\ UNCHANGED << target, wants, done, joins, retvals, history >>

ExitStore(t) ==
  /\ At(t, "store")
  /\ retvals' = PushOn(retvals, prev[t], t)
  /\ prev' = [prev EXCEPT ![t] = Null]
  /\ Goto(t, "dying")
  /\ UNCHANGED << target, wants, done, joins, history >>

(* The status is set: the next call of scheduler, by a signal or by the    *)
(* yield that follows, takes the thread out of the queues.                 *)
ExitDie(t) ==
  /\ At(t, "dying")
  /\ Goto(t, "gone")
  /\ UNCHANGED << target, wants, prev, done, joins, retvals, history >>

-----------------------------------------------------------------------------
Library(t) ==
  \/ JoinPush(t) \/ JoinSearch(t) \/ JoinWait(t)
  \/ JoinFind(t) \/ JoinUnlink(t) \/ JoinTake(t) \/ JoinCollect(t)
  \/ ExitRead(t) \/ ExitStore(t) \/ ExitDie(t)

Next == \E t \in Thread : JoinRead(t) \/ ExitScan(t) \/ Library(t)

Spec == Init /\ [][Next]_vars

(***************************************************************************)
(* The scheduler starves no thread (Scheduler!NoStarvation), so one that   *)
(* is in the library goes on; the program's own code need not.             *)
(***************************************************************************)
FairSpec == Spec /\ \A t \in Thread : SF_vars(Library(t))

-----------------------------------------------------------------------------
(***************************************************************************)
(* Properties.                                                             *)
(***************************************************************************)
ListType == [head : Thread \cup {Null}, next : [Thread -> Thread \cup {Null}]]

(* Every variable has its type; no value is collected twice.               *)
TypeOK ==
  /\ pc \in [Thread -> Labels]
  /\ target \in [Thread -> Thread \cup {Null}]
  /\ wants \in [Thread -> BOOLEAN]
  /\ prev \in [Thread -> Thread \cup {Null}]
  /\ done \in [Thread -> BOOLEAN]
  /\ joins \in ListType /\ retvals \in ListType
  /\ woke \in [Thread -> Thread \cup {Null}]
  /\ takers \in [Thread -> 0..1]

Gone == {t \in Thread : pc[t] = "gone"}

(* The block of every join under way, and no other, is in join_LL, which   *)
(* ends: none is lost by a push or an unlink (my_pthread.c:513-519,        *)
(* 566-584).                                                               *)
JoinsListed ==
  /\ Blocks(joins) = {t \in Thread : pc[t] \in {"linked", "wait", "leave", "unlink"}}
  /\ Path(joins)[Cardinality(Thread)] = Null

(* my_pthread.c:563, "Thread we waiting for has exited already": a join    *)
(* does not come out of its wait before.                                   *)
WaitedFor ==
  \A t \in Thread : pc[t] \in {"leave", "unlink", "take", "collect"} => target[t] \in Gone

(* A return value is in retval_LL or has been collected, exactly once      *)
(* (my_pthread.c:478-493, 587-608).                                        *)
ValueOnce ==
  \A x \in Gone :
    wants[x] => takers[x] = IF x \in Blocks(retvals) THEN 0 ELSE 1

(* my_pthread.c:466, "see if any threads are waiting on this one and set   *)
(* done appropriately": no thread is left waiting for one that is gone.    *)
NobodyLeftWaiting ==
  \A t \in Thread : pc[t] = "wait" /\ target[t] \in Gone => done[t]

(* No wakeup is lost: a join of a thread that exits returns, unless a      *)
(* later joiner of the same thread was woken instead (my_pthread.c:466-475,*)
(* 556-562).                                                               *)
JoinReturns ==
  \A t, x \in Thread :
    (pc[t] = "wait" /\ target[t] = x /\ x \in Gone)
      ~> (pc[t] = "user" \/ woke[x] \notin {t, Null})
=============================================================================
