------------------------------ MODULE JoinProofs ------------------------------
(***************************************************************************)
(* Join and exit, for any number of threads.  First: my_pthread_join does  *)
(* not come out of its wait before the thread it waits for is gone, if no  *)
(* signal lands in my_pthread_exit or in the search of the queues.  Then:  *)
(* its two lists lose nothing, if no signal lands between a read of a link *)
(* and the write that depends on it.  Each of the windows that are left    *)
(* out breaks what is proved.                                              *)
(***************************************************************************)
EXTENDS Join, TLAPS, FiniteSetTheorems, WellFoundedInduction

SafeWindows == Windows \cap (ExitLabels \cup {"search"}) = {}

Leaving == Gone \cup {t \in Thread : pc[t] \in ExitLabels}

(* WaitedFor is not inductive: that done is only set by the thread one     *)
(* waits for, and is unset when a join begins, is what has to be added.    *)
JoinInv ==
  /\ pc \in [Thread -> Labels]
  /\ target \in [Thread -> Thread \cup {Null}]
  /\ done \in [Thread -> BOOLEAN]
  /\ \A t \in Thread : target[t] = Null <=> pc[t] \in {"user", "gone"} \cup ExitLabels
  /\ \A t \in Thread : done[t] => target[t] \in Leaving
  /\ \A t \in Thread : pc[t] \in {"take", "collect"} => ~done[t]
  /\ WaitedFor

(* A nonempty set of natural numbers has a least element.                  *)
LEMMA LeastElement ==
  ASSUME NEW S, S \subseteq Nat, S # {}
  PROVE  \E k \in S : \A j \in S : k <= j
<1>. DEFINE R == {p \in Nat \X Nat : p[1] < p[2]}
<1>1. IsWellFoundedOn(R, Nat)
  <2>1. OpToRel(<, Nat) = R
    BY DEF OpToRel
  <2>. QED
    BY <2>1, NatLessThanWellFounded
<1>2. PICK x \in S : \A y \in S : ~(<< y, x >> \in R)
  <2>. HIDE DEF R
  <2>. QED
    BY <1>1, WFMin
<1>3. ASSUME NEW y \in S
      PROVE  x <= y
  <2>1. x \in Nat /\ y \in Nat
    OBVIOUS
  <2>2. y < x => << y, x >> \in R
    BY <2>1
  <2>. HIDE DEF R
  <2>. QED
    BY <1>2, <2>1, <2>2
<1>. QED
  BY <1>3

(* The searches of join_LL and retval_LL return what they look for.        *)
LEMMA FirstInFinds ==
  ASSUME NEW list, NEW S
  PROVE  FirstIn(list, S) \in S \cup {Null}
<1>. DEFINE path == Path(list)
            hits == {k \in 0..Cardinality(Thread) : path[k] \in S}
<1>1. hits \subseteq Nat
  BY FS_CardinalityType, JoinAssumption
<1>2. CASE hits = {}
  BY <1>2 DEF FirstIn
<1>3. CASE hits # {}
  <2>. DEFINE k == CHOOSE i \in hits : \A j \in hits : i <= j
  <2>1. \E i \in hits : \A j \in hits : i <= j
    <3>. HIDE DEF hits
    <3>. QED
      BY <1>1, <1>3, LeastElement
  <2>2. k \in hits
    <3>. HIDE DEF hits
    <3>. QED
      BY <2>1
  <2>3. path[k] \in S
    BY <2>2
  <2>4. FirstIn(list, S) = path[k]
    BY <1>3 DEF FirstIn
  <2>. QED
    BY <2>3, <2>4
<1>. QED
  BY <1>2, <1>3

(* The thread that my_pthread_exit wakes waits for it.                     *)
LEMMA JoinerWaits ==
  ASSUME NEW t \in Thread
  PROVE  Joiner(t) \in {b \in Thread : target[b] = t} \cup {Null}
BY FirstInFinds DEF Joiner

(* No thread has begun a join or an exit.                                  *)
LEMMA JoinInitially == Init => JoinInv
BY DEF Init, JoinInv, Labels, WaitedFor, JoinLabels, ExitLabels

(* Who executes while another thread is in the library's code.             *)
LEMMA NobodyInExit ==
  ASSUME SafeWindows, NEW t \in Thread, NEW label, At(t, label),
         label \notin ExitLabels
  PROVE  \A u \in Thread : pc[u] \notin ExitLabels
BY DEF SafeWindows, At, ExitLabels

(* my_pthread_join, lines 501-611.                                         *)
LEMMA JoinKeepsInv ==
  ASSUME SafeWindows, JoinInv, NEW t \in Thread,
         \/ JoinRead(t) \/ JoinPush(t) \/ JoinSearch(t) \/ JoinWait(t)
         \/ JoinFind(t) \/ JoinUnlink(t) \/ JoinTake(t) \/ JoinCollect(t)
  PROVE  JoinInv'
<1>. USE JoinAssumption DEF JoinInv, Labels, JoinLabels, ExitLabels, WaitedFor,
         Gone, Leaving, Goto, Return, At
<1>1. CASE JoinRead(t)
  BY <1>1 DEF JoinRead
<1>2. CASE JoinPush(t)
  BY <1>2 DEF JoinPush
<1>3. CASE JoinSearch(t)
  BY <1>3 DEF JoinSearch, SafeWindows
<1>4. CASE JoinWait(t)
  <2>1. target[t] \in Gone
    BY <1>4, NobodyInExit DEF JoinWait
  <2>. QED
    BY <1>4, <2>1 DEF JoinWait
<1>5. CASE JoinFind(t)
  BY <1>5 DEF JoinFind
<1>6. CASE JoinUnlink(t)
  BY <1>6 DEF JoinUnlink
<1>7. CASE JoinTake(t)
  BY <1>7 DEF JoinTake
<1>8. CASE JoinCollect(t)
  BY <1>8 DEF JoinCollect
<1>. QED
  BY <1>1, <1>2, <1>3, <1>4, <1>5, <1>6, <1>7, <1>8

(* my_pthread_exit, lines 460-497.                                         *)
LEMMA ExitKeepsInv ==
  ASSUME JoinInv, NEW t \in Thread,
         ExitScan(t) \/ ExitRead(t) \/ ExitStore(t) \/ ExitDie(t)
  PROVE  JoinInv'
<1>. USE JoinAssumption DEF JoinInv, Labels, JoinLabels, ExitLabels, WaitedFor,
         Gone, Leaving, Goto, At
<1>1. CASE ExitScan(t)
  BY <1>1, JoinerWaits DEF ExitScan
<1>2. CASE ExitRead(t)
  BY <1>2 DEF ExitRead
<1>3. CASE ExitStore(t)
  BY <1>3 DEF ExitStore
<1>4. CASE ExitDie(t)
  BY <1>4 DEF ExitDie
<1>. QED
  BY <1>1, <1>2, <1>3, <1>4

(* The invariant of join and exit.                                         *)
THEOREM JoinInvariant ==
  ASSUME SafeWindows
  PROVE  Spec => []JoinInv
<1>1. JoinInv /\ [Next]_vars => JoinInv'
  <2>. SUFFICES ASSUME JoinInv, [Next]_vars PROVE JoinInv'
    OBVIOUS
  <2>1. CASE Next
    BY <2>1, JoinKeepsInv, ExitKeepsInv DEF Next, Library
  <2>2. CASE UNCHANGED vars
    BY <2>2 DEF vars, JoinInv, WaitedFor, Gone, Leaving
  <2>. QED
    BY <2>1, <2>2
<1>. QED
  BY <1>1, JoinInitially, PTL DEF Spec

(* my_pthread.c:563: a join comes out of its wait only when the thread it  *)
(* waits for has exited, as long as no signal lands in my_pthread_exit     *)
(* behind its scan of join_LL or in the search of the queues by join.      *)
THEOREM JoinsWait ==
  ASSUME SafeWindows
  PROVE  Spec => []WaitedFor
<1>1. JoinInv => WaitedFor
  BY DEF JoinInv
<1>. QED
  BY <1>1, JoinInvariant, PTL

-----------------------------------------------------------------------------
(***************************************************************************)
(* join_LL and retval_LL, in whatever windows a signal lands but for the   *)
(* four between a thread's reading a link and its writing the list: each   *)
(* of "push", "unlink", "store" and "collect" loses blocks.                *)
(***************************************************************************)
WholeUpdates == Windows \cap {"push", "unlink", "store", "collect"} = {}

(* s goes through the list to its end and meets every block of S once.     *)
Order(list, S, s) ==
  LET n == Cardinality(S)
  IN /\ s[0] = list.head /\ s[n] = Null
     /\ \A i \in 0..n - 1 : s[i] \in S /\ s[i + 1] = list.next[s[i]]
     /\ \A i, j \in 0..n - 1 : s[i] = s[j] => i = j
     /\ \A x \in S : \E i \in 0..n - 1 : s[i] = x

Linked(list, S) ==
  \E s \in [0..Cardinality(S) -> Thread \cup {Null}] : Order(list, S, s)

Joining == {t \in Thread : pc[t] \in {"linked", "wait", "leave", "unlink"}}
Stored == {x \in Thread : pc[x] \in {"dying", "gone"} /\ wants[x]}
Uncollected == {x \in Stored : takers[x] = 0}

(* What the two lists hold, and what a thread remembers of a list is true  *)
(* when it uses it.                                                        *)
ListsInv ==
  /\ TypeOK
  /\ Linked(joins, Joining)
  /\ Linked(retvals, Uncollected)
  /\ \A x \in Thread : takers[x] = 1 => x \in Stored
  /\ \A t \in Thread : pc[t] = "push" => prev[t] = joins.head
  /\ \A t \in Thread : pc[t] = "unlink" => prev[t] = Before(joins, t)
  /\ \A t \in Thread : pc[t] = "collect" => /\ target[t] \in Uncollected
                                            /\ prev[t] = Before(retvals, target[t])
  /\ \A t \in Thread : pc[t] = "store" => prev[t] = retvals.head /\ wants[t]
  /\ \A t \in Thread : pc[t] = "scanned" => wants[t]
  /\ \A t \in Thread : target[t] = Null <=> pc[t] \in {"user", "gone"} \cup ExitLabels
  /\ \A t \in Thread : pc[t] = "user" => ~wants[t]

(* The number of a list's blocks is at most the number of threads.         *)
LEMMA BlocksCounted ==
  ASSUME NEW S \in SUBSET Thread
  PROVE  /\ Cardinality(S) \in Nat /\ Cardinality(Thread) \in Nat
         /\ Cardinality(S) <= Cardinality(Thread)
         /\ IsFiniteSet(S)
BY JoinAssumption, FS_Subset, FS_CardinalityType

(* The equation that defines Path.                                         *)
Walks(list, f) ==
  f = [k \in 0..Cardinality(Thread) |->
        IF k = 0 THEN list.head
        ELSE IF f[k - 1] = Null THEN Null ELSE list.next[f[k - 1]]]

(* Path solves its equation, if anything does.                             *)
LEMMA PathUnfolds ==
  ASSUME NEW list, NEW w, Walks(list, w)
  PROVE  Walks(list, Path(list))
<1>1. Path(list) = CHOOSE f : Walks(list, f)
  BY DEF Path, Walks
<1>. QED
  BY <1>1

(* The path through a list whose order is s is s, and then Null.           *)
LEMMA PathFollows ==
  ASSUME NEW list, NEW S \in SUBSET Thread,
         NEW s \in [0..Cardinality(S) -> Thread \cup {Null}], Order(list, S, s)
  PROVE  /\ DOMAIN Path(list) = 0..Cardinality(Thread)
         /\ \A k \in 0..Cardinality(Thread) :
              Path(list)[k] = IF k <= Cardinality(S) THEN s[k] ELSE Null
<1>. DEFINE n == Cardinality(S)
            m == Cardinality(Thread)
            w == [k \in 0..m |-> IF k <= n THEN s[k] ELSE Null]
            path == Path(list)
<1>1. n \in Nat /\ m \in Nat /\ n <= m /\ Null \notin Thread
  BY BlocksCounted, JoinAssumption
<1>2. /\ s[0] = list.head /\ s[n] = Null
      /\ \A i \in 0..n - 1 : s[i] # Null /\ s[i + 1] = list.next[s[i]]
  BY <1>1 DEF Order
<1>. HIDE DEF n, m
<1>3. ASSUME NEW k \in 0..m, k # 0
      PROVE  w[k] = IF w[k - 1] = Null THEN Null ELSE list.next[w[k - 1]]
  <2>1. k - 1 \in 0..m /\ (k <= n <=> k - 1 \in 0..n - 1) /\ (k - 1) + 1 = k
    BY <1>1, <1>3
  <2>2. CASE k <= n
    <3>1. w[k] = s[k] /\ w[k - 1] = s[k - 1]
      BY <1>1, <2>1, <2>2
    <3>2. s[k - 1] # Null /\ s[(k - 1) + 1] = list.next[s[k - 1]]
      BY <1>2, <2>1, <2>2
    <3>. QED
      BY <2>1, <3>1, <3>2
  <2>3. CASE ~(k <= n)
    <3>1. w[k] = Null
      BY <2>3
    <3>2. w[k - 1] = Null
      <4>1. CASE k - 1 = n
        BY <1>2, <2>1, <4>1
      <4>2. CASE k - 1 # n
        BY <1>1, <2>1, <2>3, <4>2
      <4>. QED
        BY <4>1, <4>2
    <3>. QED
      BY <3>1, <3>2
  <2>. QED
    BY <2>2, <2>3
<1>4. w[0] = list.head
  BY <1>1, <1>2
<1>5. w = [k \in 0..m |-> IF k = 0 THEN list.head
                         ELSE IF w[k - 1] = Null THEN Null ELSE list.next[w[k - 1]]]
  <2>. DEFINE v == [k \in 0..m |-> IF k = 0 THEN list.head
                         ELSE IF w[k - 1] = Null THEN Null ELSE list.next[w[k - 1]]]
  <2>1. \A k \in 0..m : w[k] = v[k]
    BY <1>3, <1>4
  <2>2. DOMAIN w = 0..m /\ DOMAIN v = 0..m /\ w = [k \in 0..m |-> w[k]] /\ v = [k \in 0..m |-> v[k]]
    OBVIOUS
  <2>. HIDE DEF w, v
  <2>3. w = v
    BY <2>1, <2>2
  <2>. QED
    BY <2>3 DEF v
<1>6. path = [k \in 0..m |-> IF k = 0 THEN list.head
                         ELSE IF path[k - 1] = Null THEN Null ELSE list.next[path[k - 1]]]
  <2>1. Walks(list, w)
    BY <1>5 DEF m, Walks
  <2>2. Walks(list, path)
    BY <2>1, PathUnfolds
  <2>. HIDE DEF path
  <2>. QED
    BY <2>2 DEF m, Walks
<1>. DEFINE wrong == {k \in 0..m : path[k] # w[k]}
<1>7. wrong = {}
  <2>. SUFFICES ASSUME wrong # {} PROVE FALSE
    OBVIOUS
  <2>1. wrong \subseteq Nat
    BY <1>1
  <2>2. PICK k \in wrong : \A j \in wrong : k <= j
    <3>. HIDE DEF wrong
    <3>. QED
      BY <2>1, LeastElement
  <2>3. k \in 0..m /\ path[k] # w[k] /\ k \in Nat
    BY <1>1
  <2>. HIDE DEF path
  <2>4. k # 0
    BY <1>1, <1>4, <1>6, <2>3
  <2>5. k - 1 \in 0..m /\ ~(k <= k - 1)
    BY <1>1, <2>3, <2>4
  <2>6. path[k - 1] = w[k - 1]
    BY <2>2, <2>5
  <2>7. path[k] = IF path[k - 1] = Null THEN Null ELSE list.next[path[k - 1]]
    BY <1>6, <2>3, <2>4
  <2>. QED
    BY <1>3, <2>3, <2>4, <2>6, <2>7
<1>8. DOMAIN path = 0..m
  <2>. HIDE DEF path
  <2>. QED
    BY <1>6
<1>. QED
  BY <1>7, <1>8 DEF n, m

(* Blocks returns the blocks of a list, and the list ends.                 *)
LEMMA LinkedBlocks ==
  ASSUME NEW list, NEW S \in SUBSET Thread, Linked(list, S)
  PROVE  Blocks(list) = S /\ Path(list)[Cardinality(Thread)] = Null
<1>. DEFINE n == Cardinality(S)
            m == Cardinality(Thread)
<1>1. PICK s \in [0..n -> Thread \cup {Null}] : Order(list, S, s)
  BY DEF Linked
<1>2. n \in Nat /\ m \in Nat /\ n <= m /\ Null \notin Thread
  BY BlocksCounted, JoinAssumption
<1>3. /\ s[n] = Null
      /\ \A i \in 0..n - 1 : s[i] \in S
      /\ \A x \in S : \E i \in 0..n - 1 : s[i] = x
  BY <1>1 DEF Order
<1>4. /\ DOMAIN Path(list) = 0..m
      /\ \A k \in 0..m : Path(list)[k] = IF k <= n THEN s[k] ELSE Null
  BY <1>1, PathFollows
<1>. HIDE DEF n, m
<1>5. Path(list)[m] = Null
  <2>1. m \in 0..m /\ (m <= n => m = n)
    BY <1>2
  <2>. QED
    BY <1>3, <1>4, <2>1
<1>6. ASSUME NEW k \in 0..m, Path(list)[k] # Null
      PROVE  Path(list)[k] \in S
  <2>1. k <= n /\ k # n /\ Path(list)[k] = s[k]
    BY <1>3, <1>4, <1>6
  <2>. QED
    BY <1>2, <1>3, <2>1
<1>7. ASSUME NEW x \in S
      PROVE  \E k \in 0..m : Path(list)[k] = x
  <2>1. PICK i \in 0..n - 1 : s[i] = x
    BY <1>3
  <2>2. i \in 0..m /\ i <= n
    BY <1>2
  <2>. QED
    BY <1>4, <2>1, <2>2
<1>8. Blocks(list) = {Path(list)[k] : k \in 0..m} \ {Null}
  BY <1>4 DEF Blocks
<1>. QED
  BY <1>2, <1>5, <1>6, <1>7, <1>8 DEF m

(* FirstIn returns a block of the set that is on the path, if there is one.*)
LEMMA FirstInPath ==
  ASSUME NEW list, NEW S
  PROVE  \/ /\ FirstIn(list, S) = Null
            /\ \A k \in 0..Cardinality(Thread) : Path(list)[k] \notin S
         \/ \E k \in 0..Cardinality(Thread) :
              Path(list)[k] \in S /\ FirstIn(list, S) = Path(list)[k]
<1>. DEFINE path == Path(list)
            hits == {k \in 0..Cardinality(Thread) : path[k] \in S}
<1>1. hits \subseteq Nat
  BY FS_CardinalityType, JoinAssumption
<1>2. CASE hits = {}
  BY <1>2 DEF FirstIn
<1>3. CASE hits # {}
  <2>. DEFINE k == CHOOSE i \in hits : \A j \in hits : i <= j
  <2>1. \E i \in hits : \A j \in hits : i <= j
    <3>. HIDE DEF hits
    <3>. QED
      BY <1>1, <1>3, LeastElement
  <2>2. k \in hits
    <3>. HIDE DEF hits
    <3>. QED
      BY <2>1
  <2>3. FirstIn(list, S) = path[k]
    BY <1>3 DEF FirstIn
  <2>. QED
    BY <2>2, <2>3
<1>. QED
  BY <1>2, <1>3

(* The search for the block before b finds it.                             *)
LEMMA BeforeIs ==
  ASSUME NEW list, NEW S \in SUBSET Thread,
         NEW s \in [0..Cardinality(S) -> Thread \cup {Null}], Order(list, S, s),
         NEW j \in 0..Cardinality(S) - 1
  PROVE  Before(list, s[j]) = IF j = 0 THEN Null ELSE s[j - 1]
<1>. DEFINE n == Cardinality(S)
            m == Cardinality(Thread)
            b == s[j]
            C == {c \in Thread : list.next[c] = b}
<1>1. n \in Nat /\ m \in Nat /\ n <= m /\ Null \notin Thread
  BY BlocksCounted, JoinAssumption
<1>2. /\ s[n] = Null
      /\ \A i \in 0..n - 1 : s[i] \in S /\ s[i + 1] = list.next[s[i]]
      /\ \A i, k \in 0..n - 1 : s[i] = s[k] => i = k
  BY DEF Order
<1>3. \A k \in 0..m : Path(list)[k] = IF k <= n THEN s[k] ELSE Null
  BY PathFollows
<1>. HIDE DEF n, m
<1>0. j \in 0..n - 1
  BY DEF n
<1>4. ASSUME NEW k \in 0..m, Path(list)[k] \in C
      PROVE  k + 1 = j /\ Path(list)[k] = s[k]
  <2>1. Path(list)[k] # Null
    BY <1>1, <1>4
  <2>2. k <= n /\ k # n /\ Path(list)[k] = s[k]
    BY <1>2, <1>3, <2>1
  <2>3. k \in 0..n - 1 /\ k + 1 \in 0..n /\ (k + 1 = n \/ k + 1 \in 0..n - 1)
    BY <1>1, <2>2
  <2>4. s[k + 1] = b
    BY <1>2, <1>4, <2>2, <2>3
  <2>5. b # Null
    BY <1>0, <1>1, <1>2
  <2>6. k + 1 # n
    BY <1>2, <2>4, <2>5
  <2>. QED
    BY <1>0, <1>2, <2>2, <2>3, <2>4, <2>6
<1>5. j # 0 => j - 1 \in 0..m /\ Path(list)[j - 1] = s[j - 1] /\ s[j - 1] \in C
  <2>. SUFFICES ASSUME j # 0
                PROVE  j - 1 \in 0..m /\ Path(list)[j - 1] = s[j - 1] /\ s[j - 1] \in C
    OBVIOUS
  <2>1. j - 1 \in 0..n - 1 /\ j - 1 \in 0..m /\ j - 1 <= n /\ (j - 1) + 1 = j
    BY <1>0, <1>1
  <2>2. s[j - 1] \in S /\ s[(j - 1) + 1] = list.next[s[j - 1]]
    BY <1>2, <2>1
  <2>. QED
    BY <1>3, <2>1, <2>2
<1>6. Before(list, b) = FirstIn(list, C)
  <2>1. b \in S
    BY <1>0, <1>2
  <2>2. b \in Blocks(list)
    BY <2>1, LinkedBlocks DEF Linked
  <2>. QED
    BY <2>2 DEF Before
<1>. HIDE DEF b, C
<1>7. \/ FirstIn(list, C) = Null /\ \A k \in 0..m : Path(list)[k] \notin C
      \/ \E k \in 0..m : Path(list)[k] \in C /\ FirstIn(list, C) = Path(list)[k]
  BY FirstInPath DEF m
<1>8. Before(list, b) = IF j = 0 THEN Null ELSE s[j - 1]
  <2>1. CASE \E k \in 0..m : Path(list)[k] \in C /\ FirstIn(list, C) = Path(list)[k]
    <3>1. PICK k \in 0..m : Path(list)[k] \in C /\ FirstIn(list, C) = Path(list)[k]
      BY <2>1
    <3>2. k + 1 = j /\ Path(list)[k] = s[k]
      BY <1>4, <3>1
    <3>3. k = j - 1 /\ j # 0
      BY <1>0, <1>1, <3>2
    <3>. QED
      BY <1>6, <3>1, <3>2, <3>3
  <2>2. CASE FirstIn(list, C) = Null /\ \A k \in 0..m : Path(list)[k] \notin C
    BY <1>5, <1>6, <2>2
  <2>. QED
    BY <1>7, <2>1, <2>2
<1>. QED
  BY <1>8 DEF b

(* Unlinking a block of a list takes that block out and no other.          *)
LEMMA UnlinkTakesOne ==
  ASSUME NEW list \in ListType, NEW S \in SUBSET Thread, Linked(list, S), NEW b \in S
  PROVE  Linked(Splice(list, Before(list, b), b), S \ {b})
<1>. DEFINE n == Cardinality(S)
            new == Splice(list, Before(list, b), b)
<1>1. PICK s \in [0..n -> Thread \cup {Null}] : Order(list, S, s)
  BY DEF Linked
<1>2. n \in Nat /\ Null \notin Thread /\ Cardinality(S \ {b}) = n - 1
  BY BlocksCounted, JoinAssumption, FS_RemoveElement
<1>3. /\ s[0] = list.head /\ s[n] = Null
      /\ \A i \in 0..n - 1 : s[i] \in S /\ s[i + 1] = list.next[s[i]]
      /\ \A i, k \in 0..n - 1 : s[i] = s[k] => i = k
      /\ \A x \in S : \E i \in 0..n - 1 : s[i] = x
  BY <1>1 DEF Order
<1>4. PICK j \in 0..n - 1 : s[j] = b
  BY <1>3
<1>5. Before(list, b) = IF j = 0 THEN Null ELSE s[j - 1]
  BY <1>1, <1>4, BeforeIs
<1>. HIDE DEF n
<1>. DEFINE r == [i \in 0..n - 1 |-> IF i < j THEN s[i] ELSE s[i + 1]]
<1>6. r \in [0..n - 1 -> Thread \cup {Null}]
  <2>1. \A i \in 0..n - 1 : i \in 0..n /\ i + 1 \in 0..n
    BY <1>2
  <2>. QED
    BY <1>1, <2>1
<1>7. b \in Thread /\ j + 1 \in 0..n /\ s[j + 1] = list.next[b]
  BY <1>2, <1>3, <1>4
<1>8. j = 0 => new.head = s[1] /\ new.next = list.next
  BY <1>2, <1>3, <1>4, <1>5, <1>7 DEF Splice, ListType
<1>9. j # 0 => /\ new.head = list.head
               /\ new.next[s[j - 1]] = s[j + 1]
               /\ \A x \in Thread \ {s[j - 1]} : new.next[x] = list.next[x]
  <2>. SUFFICES ASSUME j # 0
                PROVE  /\ new.head = list.head
                       /\ new.next[s[j - 1]] = s[j + 1]
                       /\ \A x \in Thread \ {s[j - 1]} : new.next[x] = list.next[x]
    OBVIOUS
  <2>1. j - 1 \in 0..n - 1
    BY <1>2
  <2>2. s[j - 1] \in Thread /\ s[j - 1] # Null
    BY <1>2, <1>3, <2>1
  <2>3. new = [list EXCEPT !.next[s[j - 1]] = list.next[b]]
    BY <1>5, <2>2 DEF Splice
  <2>4. list.next \in [Thread -> Thread \cup {Null}]
    BY DEF ListType
  <2>. QED
    BY <1>7, <2>2, <2>3, <2>4 DEF ListType
<1>. HIDE DEF new
<1>10. r[0] = new.head /\ r[n - 1] = Null
  <2>1. 0 \in 0..n - 1 /\ n - 1 \in 0..n - 1 /\ (n - 1) + 1 = n /\ ~(n - 1 < j)
    BY <1>2
  <2>2. r[n - 1] = Null
    BY <1>3, <2>1
  <2>3. r[0] = IF j = 0 THEN s[1] ELSE s[0]
    BY <2>1
  <2>. QED
    BY <1>3, <1>8, <1>9, <2>2, <2>3
<1>11. ASSUME NEW i \in 0..(n - 1) - 1
       PROVE  r[i] \in S \ {b} /\ r[i + 1] = new.next[r[i]]
  <2>1. /\ i \in 0..n - 1 /\ i + 1 \in 0..n - 1 /\ (i + 1) + 1 = i + 2
        /\ i \in Nat /\ j \in Nat
    BY <1>2
  <2>2. CASE i + 1 < j
    <3>1. r[i] = s[i] /\ r[i + 1] = s[i + 1] /\ j # 0 /\ i # j - 1 /\ i # j /\ j - 1 \in 0..n - 1
      BY <1>2, <2>1, <2>2
    <3>2. s[i] \in S /\ s[i] # b /\ s[i] # s[j - 1] /\ s[i + 1] = list.next[s[i]]
      BY <1>3, <1>4, <2>1, <3>1
    <3>. QED
      BY <1>9, <3>1, <3>2
  <2>3. CASE i + 1 = j
    <3>1. r[i] = s[i] /\ r[i + 1] = s[j + 1] /\ j # 0 /\ i = j - 1 /\ i # j
      BY <2>1, <2>3
    <3>2. s[i] \in S /\ s[i] # b
      BY <1>3, <1>4, <2>1, <3>1
    <3>. QED
      BY <1>9, <3>1, <3>2
  <2>4. CASE i + 1 > j
    <3>0. ~(i < j) /\ ~(i + 1 < j) /\ i + 1 # j /\ i + 1 # j - 1
      BY <2>1, <2>4
    <3>1. /\ r[i] = s[i + 1] /\ r[i + 1] = s[(i + 1) + 1]
          /\ i + 1 # j /\ (j # 0 => j - 1 \in 0..n - 1 /\ i + 1 # j - 1)
      <4>1. j # 0 => j - 1 \in 0..n - 1
        BY <1>2
      <4>2. r[i] = s[i + 1] /\ r[i + 1] = s[(i + 1) + 1]
        BY <2>1, <3>0
      <4>. QED
        BY <3>0, <4>1, <4>2
    <3>2. s[i + 1] \in S /\ s[i + 1] # b /\ s[(i + 1) + 1] = list.next[s[i + 1]]
      BY <1>3, <1>4, <2>1, <3>1
    <3>3. j # 0 => s[i + 1] # s[j - 1]
      BY <1>3, <2>1, <3>1
    <3>. QED
      BY <1>8, <1>9, <3>1, <3>2, <3>3
  <2>. QED
    BY <2>1, <2>2, <2>3, <2>4
<1>12. ASSUME NEW i \in 0..(n - 1) - 1, NEW k \in 0..(n - 1) - 1, r[i] = r[k]
       PROVE  i = k
  <2>1. ASSUME NEW h \in 0..(n - 1) - 1
        PROVE  \E g \in 0..n - 1 : r[h] = s[g] /\ g = (IF h < j THEN h ELSE h + 1)
    <3>1. h \in 0..n - 1 /\ h + 1 \in 0..n - 1
      BY <1>2
    <3>2. r[h] = IF h < j THEN s[h] ELSE s[h + 1]
      BY <3>1
    <3>. QED
      BY <3>1, <3>2
  <2>2. PICK g \in 0..n - 1 : r[i] = s[g] /\ g = (IF i < j THEN i ELSE i + 1)
    BY <2>1
  <2>3. PICK h \in 0..n - 1 : r[k] = s[h] /\ h = (IF k < j THEN k ELSE k + 1)
    BY <2>1
  <2>. HIDE DEF r
  <2>4. s[g] = s[h]
    BY <1>12, <2>2, <2>3
  <2>5. \A p, q \in 0..n - 1 : s[p] = s[q] => p = q
    BY <1>3
  <2>6. g = h
    BY <2>4, <2>5
  <2>. QED
    BY <1>2, <2>2, <2>3, <2>6
<1>13. ASSUME NEW x \in S \ {b}
       PROVE  \E i \in 0..(n - 1) - 1 : r[i] = x
  <2>1. PICK k \in 0..n - 1 : s[k] = x
    BY <1>3
  <2>2. k # j
    BY <1>4, <2>1
  <2>3. CASE k < j
    <3>1. k \in 0..(n - 1) - 1 /\ k \in 0..n - 1
      BY <1>2, <2>3
    <3>. QED
      BY <2>1, <2>3, <3>1
  <2>4. CASE k > j
    <3>1. /\ k - 1 \in 0..(n - 1) - 1 /\ k - 1 \in 0..n - 1
          /\ ~(k - 1 < j) /\ (k - 1) + 1 = k
      BY <1>2, <2>4
    <3>. QED
      BY <2>1, <3>1
  <2>. QED
    BY <1>2, <2>2, <2>3, <2>4
<1>. HIDE DEF r
<1>14. Order(new, S \ {b}, r)
  BY <1>2, <1>10, <1>11, <1>12, <1>13 DEF Order, n
<1>15. r \in [0..Cardinality(S \ {b}) -> Thread \cup {Null}]
  BY <1>2, <1>6 DEF n
<1>. QED
  BY <1>14, <1>15 DEF Linked, new

(* A block pushed on the head of a list is in it, and so are the others.   *)
LEMMA PushAddsOne ==
  ASSUME NEW list \in ListType, NEW S \in SUBSET Thread, Linked(list, S),
         NEW b \in Thread \ S
  PROVE  Linked(PushOn(list, list.head, b), S \cup {b})
<1>. DEFINE n == Cardinality(S)
            new == PushOn(list, list.head, b)
<1>1. PICK s \in [0..n -> Thread \cup {Null}] : Order(list, S, s)
  BY DEF Linked
<1>2. n \in Nat /\ Null \notin Thread /\ Cardinality(S \cup {b}) = n + 1
  BY BlocksCounted, JoinAssumption, FS_AddElement
<1>3. /\ s[0] = list.head /\ s[n] = Null
      /\ \A i \in 0..n - 1 : s[i] \in S /\ s[i + 1] = list.next[s[i]]
      /\ \A i, k \in 0..n - 1 : s[i] = s[k] => i = k
      /\ \A x \in S : \E i \in 0..n - 1 : s[i] = x
  BY <1>1 DEF Order
<1>4. /\ new.head = b /\ new.next[b] = list.head
      /\ \A x \in S : new.next[x] = list.next[x]
  BY DEF PushOn, ListType
<1>. HIDE DEF n, new
<1>. DEFINE r == [i \in 0..n + 1 |-> IF i = 0 THEN b ELSE s[i - 1]]
<1>5. r \in [0..n + 1 -> Thread \cup {Null}]
  <2>1. \A i \in 0..n + 1 : i # 0 => i - 1 \in 0..n
    BY <1>2
  <2>. QED
    BY <1>1, <2>1
<1>6. r[0] = b /\ \A i \in 0..n : i + 1 \in 0..n + 1 /\ r[i + 1] = s[i]
  <2>1. \A i \in 0..n : i + 1 \in 0..n + 1 /\ i + 1 # 0 /\ (i + 1) - 1 = i
    BY <1>2
  <2>2. 0 \in 0..n + 1
    BY <1>2
  <2>. QED
    BY <2>1, <2>2
<1>. HIDE DEF r
<1>7. r[0] = new.head /\ r[n + 1] = Null
  <2>1. n \in 0..n
    BY <1>2
  <2>. QED
    BY <1>3, <1>4, <1>6, <2>1
<1>8. ASSUME NEW i \in 0..(n + 1) - 1
      PROVE  r[i] \in S \cup {b} /\ r[i + 1] = new.next[r[i]]
  <2>1. CASE i = 0
    <3>1. 0 \in 0..n
      BY <1>2
    <3>. QED
      BY <1>3, <1>4, <1>6, <2>1, <3>1
  <2>2. CASE i # 0
    <3>1. i - 1 \in 0..n - 1 /\ i - 1 \in 0..n /\ i \in 0..n /\ (i - 1) + 1 = i
      BY <1>2, <2>2
    <3>2. r[i] = s[i - 1] /\ r[i + 1] = s[i]
      BY <1>6, <3>1
    <3>3. s[i - 1] \in S /\ s[i] = list.next[s[i - 1]]
      BY <1>3, <3>1
    <3>. QED
      BY <1>4, <3>2, <3>3
  <2>. QED
    BY <2>1, <2>2
<1>9. ASSUME NEW i \in 0..(n + 1) - 1, i # 0
      PROVE  i - 1 \in 0..n - 1 /\ r[i] = s[i - 1] /\ r[i] \in S
  <2>1. i - 1 \in 0..n - 1 /\ i - 1 \in 0..n /\ (i - 1) + 1 = i
    BY <1>2, <1>9
  <2>. QED
    BY <1>3, <1>6, <2>1
<1>10. ASSUME NEW i \in 0..(n + 1) - 1, NEW k \in 0..(n + 1) - 1, r[i] = r[k]
       PROVE  i = k
  <2>1. CASE i = 0 \/ k = 0
    BY <1>6, <1>9, <1>10, <2>1
  <2>2. CASE i # 0 /\ k # 0
    <3>1. PICK g \in 0..n - 1 : g = i - 1 /\ r[i] = s[g]
      BY <1>9, <2>2
    <3>2. PICK h \in 0..n - 1 : h = k - 1 /\ r[k] = s[h]
      BY <1>9, <2>2
    <3>3. g = h
      BY <1>3, <1>10, <3>1, <3>2
    <3>. QED
      BY <1>2, <3>1, <3>2, <3>3
  <2>. QED
    BY <2>1, <2>2
<1>11. ASSUME NEW x \in S \cup {b}
       PROVE  \E i \in 0..(n + 1) - 1 : r[i] = x
  <2>1. CASE x = b
    <3>1. 0 \in 0..(n + 1) - 1
      BY <1>2
    <3>. QED
      BY <1>6, <2>1, <3>1
  <2>2. CASE x \in S
    <3>1. PICK k \in 0..n - 1 : s[k] = x
      BY <1>3, <2>2
    <3>2. k + 1 \in 0..(n + 1) - 1 /\ k \in 0..n
      BY <1>2
    <3>. QED
      BY <1>6, <3>1, <3>2
  <2>. QED
    BY <2>1, <2>2
<1>12. Order(new, S \cup {b}, r)
  BY <1>2, <1>7, <1>8, <1>10, <1>11 DEF Order, n
<1>13. r \in [0..Cardinality(S \cup {b}) -> Thread \cup {Null}]
  BY <1>2, <1>5 DEF n
<1>. QED
  BY <1>12, <1>13 DEF Linked, new

(* Before names a thread or none.                                          *)
LEMMA BeforeType ==
  ASSUME NEW list, NEW b \in Thread
  PROVE  Before(list, b) \in Thread \cup {Null}
BY FirstInFinds DEF Before

(* No join and no exit has begun: both lists are empty.                    *)
LEMMA ListsInitially == Init => ListsInv
<1>. SUFFICES ASSUME Init PROVE ListsInv
  OBVIOUS
<1>1. TypeOK
  BY JoinAssumption DEF Init, TypeOK, Labels, JoinLabels, ExitLabels, EmptyList, ListType
<1>2. Joining = {} /\ Stored = {} /\ Uncollected = {}
  BY DEF Init, Joining, Stored, Uncollected
<1>3. Linked(EmptyList, {})
  <2>. DEFINE s == [i \in 0..0 |-> Null]
  <2>1. Cardinality({}) = 0
    BY FS_EmptySet
  <2>2. Order(EmptyList, {}, s)
    BY <2>1 DEF Order, EmptyList
  <2>. QED
    BY <2>1, <2>2 DEF Linked
<1>. QED
  BY <1>1, <1>2, <1>3 DEF Init, ListsInv, ExitLabels

(* While a thread executes, no other one is about to write a list.         *)
LEMMA NobodyWrites ==
  ASSUME WholeUpdates, NEW t \in Thread, NEW label, At(t, label)
  PROVE  \A u \in Thread \ {t} : pc[u] \notin {"push", "unlink", "store", "collect"}
BY DEF WholeUpdates, At

(* What is taken from retval_LL is there once.                             *)
LEMMA ListsAre ==
  ASSUME ListsInv
  PROVE  Blocks(joins) = Joining /\ Blocks(retvals) = Uncollected
<1>1. Joining \in SUBSET Thread /\ Uncollected \in SUBSET Thread
  BY DEF Joining, Uncollected, Stored
<1>. QED
  BY <1>1, LinkedBlocks DEF ListsInv

(* my_pthread_join keeps the lists.                                        *)
LEMMA JoinKeepsLists ==
  ASSUME WholeUpdates, ListsInv, NEW t \in Thread,
         \/ JoinRead(t) \/ JoinPush(t) \/ JoinSearch(t) \/ JoinWait(t)
         \/ JoinFind(t) \/ JoinUnlink(t) \/ JoinTake(t) \/ JoinCollect(t)
  PROVE  ListsInv'
<1>. USE JoinAssumption DEF Labels, JoinLabels, ExitLabels
<1>0. /\ TypeOK /\ Linked(joins, Joining) /\ Linked(retvals, Uncollected)
      /\ joins \in ListType /\ retvals \in ListType
      /\ Joining \in SUBSET Thread /\ Uncollected \in SUBSET Thread
  BY DEF ListsInv, TypeOK, Joining, Uncollected, Stored
<1>1. CASE JoinRead(t)
  <2>1. \A u \in Thread \ {t} : pc[u] \notin {"push", "unlink", "store", "collect"}
    BY <1>1, NobodyWrites DEF JoinRead
  <2>2. TypeOK'
    BY <1>0, <1>1 DEF JoinRead, At, Goto, TypeOK, history, ListType
  <2>3. Joining' = Joining /\ Stored' = Stored /\ Uncollected' = Uncollected
    BY <1>0, <1>1 DEF JoinRead, At, Goto, TypeOK, history, Joining, Stored, Uncollected
  <2>4. Linked(joins', Joining') /\ Linked(retvals', Uncollected')
    BY <1>0, <1>1, <2>3 DEF JoinRead
  <2>. QED
    BY <1>0, <1>1, <2>1, <2>2, <2>3, <2>4 DEF JoinRead, At, Goto, TypeOK, history, ListsInv
<1>2. CASE JoinPush(t)
  <2>1. \A u \in Thread \ {t} : pc[u] \notin {"push", "unlink", "store", "collect"}
    BY <1>2, NobodyWrites DEF JoinPush
  <2>2. prev[t] = joins.head /\ t \in Thread \ Joining
    BY <1>2 DEF JoinPush, At, ListsInv, Joining
  <2>3. Linked(joins', Joining \cup {t})
    BY <1>0, <1>2, <2>2, PushAddsOne DEF JoinPush
  <2>4. Joining' = Joining \cup {t} /\ Stored' = Stored /\ Uncollected' = Uncollected
    BY <1>0, <1>2 DEF JoinPush, At, Goto, TypeOK, history, Joining, Stored, Uncollected
  <2>5. TypeOK'
    BY <1>0, <1>2 DEF JoinPush, At, Goto, TypeOK, history, ListType, PushOn
  <2>6. Linked(joins', Joining') /\ Linked(retvals', Uncollected')
    BY <1>0, <1>2, <2>3, <2>4 DEF JoinPush
  <2>. QED
    BY <1>0, <1>2, <2>1, <2>4, <2>5, <2>6 DEF JoinPush, At, Goto, TypeOK, history, ListsInv
<1>3. CASE JoinSearch(t) \/ JoinWait(t)
  <2>0. /\ At(t, pc[t]) /\ pc[t] \in {"linked", "wait"}
        /\ \E label \in {"wait", "leave"} : Goto(t, label)
        /\ UNCHANGED << target, wants, prev, done, joins, retvals, woke, takers >>
    BY <1>3 DEF JoinSearch, JoinWait, At, history
  <2>1. \A u \in Thread \ {t} : pc[u] \notin {"push", "unlink", "store", "collect"}
    BY <2>0, NobodyWrites
  <2>2. TypeOK'
    BY <1>0, <2>0 DEF Goto, TypeOK, ListType
  <2>3. Joining' = Joining /\ Stored' = Stored /\ Uncollected' = Uncollected
    BY <1>0, <2>0 DEF Goto, TypeOK, Joining, Stored, Uncollected
  <2>4. Linked(joins', Joining') /\ Linked(retvals', Uncollected')
    BY <1>0, <2>0, <2>3
  <2>. QED
    BY <1>0, <2>0, <2>1, <2>2, <2>3, <2>4 DEF Goto, TypeOK, ListsInv
<1>4. CASE JoinFind(t)
  <2>0. Before(joins, t) \in Thread \cup {Null}
    BY BeforeType
  <2>1. \A u \in Thread \ {t} : pc[u] \notin {"push", "unlink", "store", "collect"}
    BY <1>4, NobodyWrites DEF JoinFind
  <2>2. TypeOK'
    BY <1>0, <1>4, <2>0 DEF JoinFind, At, Goto, TypeOK, history, ListType
  <2>3. Joining' = Joining /\ Stored' = Stored /\ Uncollected' = Uncollected
    BY <1>0, <1>4 DEF JoinFind, At, Goto, TypeOK, history, Joining, Stored, Uncollected
  <2>4. Linked(joins', Joining') /\ Linked(retvals', Uncollected')
    BY <1>0, <1>4, <2>3 DEF JoinFind
  <2>5. \A u \in Thread : pc'[u] = "unlink" => prev'[u] = Before(joins', u)
    BY <1>0, <1>4, <2>1 DEF JoinFind, At, Goto, TypeOK
  <2>. QED
    BY <1>0, <1>4, <2>1, <2>2, <2>3, <2>4, <2>5 DEF JoinFind, At, Goto, TypeOK, history, ListsInv
<1>5. CASE JoinUnlink(t)
  <2>1. \A u \in Thread \ {t} : pc[u] \notin {"push", "unlink", "store", "collect"}
    BY <1>5, NobodyWrites DEF JoinUnlink
  <2>2. prev[t] = Before(joins, t) /\ t \in Joining
    BY <1>5 DEF JoinUnlink, At, ListsInv, Joining
  <2>3. Linked(joins', Joining \ {t})
    BY <1>0, <1>5, <2>2, UnlinkTakesOne DEF JoinUnlink
  <2>4. PICK label \in {"take", "user"} :
          /\ pc' = [pc EXCEPT ![t] = label]
          /\ label = "take" => wants' = wants /\ target' = target
          /\ label = "user" => /\ wants' = [wants EXCEPT ![t] = FALSE]
                               /\ target' = [target EXCEPT ![t] = Null]
    BY <1>5 DEF JoinUnlink, Goto, Return
  <2>5. Joining' = Joining \ {t} /\ Stored' = Stored /\ Uncollected' = Uncollected
    BY <1>0, <1>5, <2>4 DEF JoinUnlink, At, TypeOK, history, Joining, Stored, Uncollected
  <2>6. joins' \in ListType
    BY <1>0, <1>5 DEF JoinUnlink, Splice, ListType
  <2>7. TypeOK'
    BY <1>0, <1>5, <2>4, <2>6 DEF JoinUnlink, At, TypeOK, history
  <2>8. Linked(joins', Joining') /\ Linked(retvals', Uncollected')
    BY <1>0, <1>5, <2>3, <2>5 DEF JoinUnlink
  <2>. QED
    BY <1>0, <1>5, <2>1, <2>4, <2>5, <2>7, <2>8 DEF JoinUnlink, At, TypeOK, history, ListsInv
<1>6. CASE JoinTake(t)
  <2>. DEFINE x == target[t]
  <2>1. \A u \in Thread \ {t} : pc[u] \notin {"push", "unlink", "store", "collect"}
    BY <1>6, NobodyWrites DEF JoinTake
  <2>2. Blocks(retvals) = Uncollected
    BY ListsAre
  <2>3. PICK label \in {"collect", "user"} :
          /\ pc[t] = "take" /\ pc' = [pc EXCEPT ![t] = label]
          /\ UNCHANGED << done, joins, retvals, woke, takers >>
          /\ label = "collect" => /\ UNCHANGED << target, wants >>
                                  /\ x \in Uncollected
                                  /\ prev' = [prev EXCEPT ![t] = Before(retvals, x)]
          /\ label = "user" => /\ target' = [target EXCEPT ![t] = Null]
                               /\ wants' = [wants EXCEPT ![t] = FALSE]
                               /\ prev' = prev
    BY <1>6, <2>2 DEF JoinTake, At, Return, Goto, history
  <2>4. Joining' = Joining /\ Stored' = Stored /\ Uncollected' = Uncollected
    BY <1>0, <2>3 DEF TypeOK, Joining, Stored, Uncollected
  <2>5. Before(retvals', target[t]) = Before(retvals, target[t])
    BY <2>3
  <2>6. TypeOK'
    <3>1. x \in Uncollected => Before(retvals, x) \in Thread \cup {Null}
      BY <1>0, BeforeType
    <3>2. pc' \in [Thread -> Labels]
      BY <1>0, <2>3 DEF TypeOK
    <3>3. /\ target' \in [Thread -> Thread \cup {Null}]
          /\ wants' \in [Thread -> BOOLEAN]
      BY <1>0, <2>3 DEF TypeOK
    <3>4. prev' \in [Thread -> Thread \cup {Null}]
      BY <1>0, <2>3, <3>1 DEF TypeOK
    <3>. QED
      BY <1>0, <2>3, <3>2, <3>3, <3>4 DEF TypeOK
  <2>7. Linked(joins', Joining') /\ Linked(retvals', Uncollected')
    BY <1>0, <2>3, <2>4
  <2>. QED
    BY <1>0, <2>1, <2>3, <2>4, <2>5, <2>6, <2>7 DEF ListsInv, TypeOK
<1>7. CASE JoinCollect(t)
  <2>. DEFINE x == target[t]
  <2>1. \A u \in Thread \ {t} : pc[u] \notin {"push", "unlink", "store", "collect"}
    BY <1>7, NobodyWrites DEF JoinCollect
  <2>2. /\ pc' = [pc EXCEPT ![t] = "user"] /\ pc[t] = "collect"
        /\ target' = [target EXCEPT ![t] = Null]
        /\ wants' = [wants EXCEPT ![t] = FALSE]
        /\ prev' = [prev EXCEPT ![t] = Null]
        /\ retvals' = Splice(retvals, prev[t], x)
        /\ takers' = [takers EXCEPT ![x] = @ + 1]
        /\ UNCHANGED << done, joins, woke >>
    BY <1>7 DEF JoinCollect, At, Return, Goto
  <2>3. /\ x \in Uncollected /\ x \in Stored /\ x \in Thread /\ takers[x] = 0
        /\ prev[t] = Before(retvals, x)
    BY <2>2 DEF ListsInv, Uncollected, Stored
  <2>4. Joining' = Joining /\ Stored' = Stored
    BY <1>0, <2>2 DEF TypeOK, Joining, Stored
  <2>5. takers' \in [Thread -> 0..1] /\ takers'[x] = 1
        /\ \A y \in Thread \ {x} : takers'[y] = takers[y]
    BY <1>0, <2>2, <2>3 DEF TypeOK
  <2>6. Uncollected' = Uncollected \ {x}
    BY <2>3, <2>4, <2>5 DEF Uncollected, Stored
  <2>7. Linked(retvals', Uncollected')
    BY <1>0, <2>2, <2>3, <2>6, UnlinkTakesOne
  <2>8. retvals' \in ListType
    BY <1>0, <2>2, <2>3 DEF Splice, ListType
  <2>9. \A y \in Thread : takers'[y] = 1 => y \in Stored'
    BY <2>3, <2>4, <2>5 DEF ListsInv
  <2>10. TypeOK'
    BY <1>0, <2>2, <2>5, <2>8 DEF TypeOK
  <2>11. Linked(joins', Joining')
    BY <1>0, <2>2, <2>4
  <2>. QED
    BY <1>0, <2>1, <2>2, <2>7, <2>9, <2>10, <2>11 DEF ListsInv, TypeOK
<1>. QED
  BY <1>1, <1>2, <1>3, <1>4, <1>5, <1>6, <1>7

(* my_pthread_exit keeps the lists.                                        *)
LEMMA ExitKeepsLists ==
  ASSUME WholeUpdates, ListsInv, NEW t \in Thread,
         ExitScan(t) \/ ExitRead(t) \/ ExitStore(t) \/ ExitDie(t)
  PROVE  ListsInv'
<1>. USE JoinAssumption DEF Labels, JoinLabels, ExitLabels
<1>0. /\ TypeOK /\ Linked(joins, Joining) /\ Linked(retvals, Uncollected)
      /\ joins \in ListType /\ retvals \in ListType
      /\ Joining \in SUBSET Thread /\ Uncollected \in SUBSET Thread
  BY DEF ListsInv, TypeOK, Joining, Uncollected, Stored
<1>1. CASE ExitScan(t)
  <2>1. \A u \in Thread \ {t} : pc[u] \notin {"push", "unlink", "store", "collect"}
    BY <1>1, NobodyWrites DEF ExitScan
  <2>2. PICK w \in BOOLEAN : /\ wants' = [wants EXCEPT ![t] = w]
                             /\ pc' = [pc EXCEPT ![t] = IF w THEN "scanned" ELSE "dying"]
    BY <1>1 DEF ExitScan, Goto
  <2>3. /\ pc[t] = "user" /\ UNCHANGED << target, prev, joins, retvals, takers >>
        /\ done' \in [Thread -> BOOLEAN] /\ woke' = [woke EXCEPT ![t] = Joiner(t)]
    BY <1>1 DEF ExitScan, At
  <2>4. Joiner(t) \in Thread \cup {Null}
    BY JoinerWaits
  <2>5. TypeOK'
    BY <1>0, <2>2, <2>3, <2>4 DEF TypeOK
  <2>6. Joining' = Joining /\ Stored' = Stored /\ Uncollected' = Uncollected
    BY <1>0, <2>2, <2>3 DEF TypeOK, Joining, Stored, Uncollected
  <2>7. Linked(joins', Joining') /\ Linked(retvals', Uncollected')
    BY <1>0, <2>3, <2>6
  <2>. QED
    BY <1>0, <2>1, <2>2, <2>3, <2>5, <2>6, <2>7 DEF ListsInv, TypeOK
<1>2. CASE ExitRead(t)
  <2>1. \A u \in Thread \ {t} : pc[u] \notin {"push", "unlink", "store", "collect"}
    BY <1>2, NobodyWrites DEF ExitRead
  <2>2. TypeOK'
    BY <1>0, <1>2 DEF ExitRead, At, Goto, TypeOK, history, ListType
  <2>3. Joining' = Joining /\ Stored' = Stored /\ Uncollected' = Uncollected
    BY <1>0, <1>2 DEF ExitRead, At, Goto, TypeOK, history, Joining, Stored, Uncollected
  <2>4. Linked(joins', Joining') /\ Linked(retvals', Uncollected')
    BY <1>0, <1>2, <2>3 DEF ExitRead
  <2>. QED
    BY <1>0, <1>2, <2>1, <2>2, <2>3, <2>4 DEF ExitRead, At, Goto, TypeOK, history, ListsInv
<1>3. CASE ExitStore(t)
  <2>1. \A u \in Thread \ {t} : pc[u] \notin {"push", "unlink", "store", "collect"}
    BY <1>3, NobodyWrites DEF ExitStore
  <2>2. prev[t] = retvals.head /\ wants[t] /\ pc[t] = "store" /\ t \notin Stored
    BY <1>3 DEF ExitStore, At, ListsInv, Stored
  <2>3. takers[t] = 0 /\ t \in Thread \ Uncollected
    BY <1>0, <2>2 DEF ListsInv, TypeOK, Uncollected
  <2>4. Linked(retvals', Uncollected \cup {t})
    BY <1>0, <1>3, <2>2, <2>3, PushAddsOne DEF ExitStore
  <2>5. /\ Joining' = Joining /\ Stored' = Stored \cup {t}
        /\ Uncollected' = Uncollected \cup {t}
    BY <1>0, <1>3, <2>2, <2>3 DEF ExitStore, At, Goto, TypeOK, history, Joining, Stored, Uncollected
  <2>6. TypeOK'
    BY <1>0, <1>3 DEF ExitStore, At, Goto, TypeOK, history, ListType, PushOn
  <2>7. Linked(joins', Joining') /\ Linked(retvals', Uncollected')
    BY <1>0, <1>3, <2>4, <2>5 DEF ExitStore
  <2>. QED
    BY <1>0, <1>3, <2>1, <2>5, <2>6, <2>7 DEF ExitStore, At, Goto, TypeOK, history, ListsInv
<1>4. CASE ExitDie(t)
  <2>1. \A u \in Thread \ {t} : pc[u] \notin {"push", "unlink", "store", "collect"}
    BY <1>4, NobodyWrites DEF ExitDie
  <2>2. TypeOK'
    BY <1>0, <1>4 DEF ExitDie, At, Goto, TypeOK, history, ListType
  <2>3. Joining' = Joining /\ Stored' = Stored /\ Uncollected' = Uncollected
    BY <1>0, <1>4 DEF ExitDie, At, Goto, TypeOK, history, Joining, Stored, Uncollected
  <2>4. Linked(joins', Joining') /\ Linked(retvals', Uncollected')
    BY <1>0, <1>4, <2>3 DEF ExitDie
  <2>. QED
    BY <1>0, <1>4, <2>1, <2>2, <2>3, <2>4 DEF ExitDie, At, Goto, TypeOK, history, ListsInv
<1>. QED
  BY <1>1, <1>2, <1>3, <1>4

(* The invariant of the two lists.                                         *)
THEOREM ListsInvariant ==
  ASSUME WholeUpdates
  PROVE  Spec => []ListsInv
<1>1. ListsInv /\ [Next]_vars => ListsInv'
  <2>. SUFFICES ASSUME ListsInv, [Next]_vars PROVE ListsInv'
    OBVIOUS
  <2>1. CASE Next
    BY <2>1, JoinKeepsLists, ExitKeepsLists DEF Next, Library
  <2>2. CASE UNCHANGED vars
    <3>1. UNCHANGED << pc, target, wants, prev, done, joins, retvals, woke, takers >>
      BY <2>2 DEF vars
    <3>2. TypeOK' /\ Joining' = Joining /\ Stored' = Stored /\ Uncollected' = Uncollected
      BY <3>1 DEF ListsInv, TypeOK, Joining, Stored, Uncollected
    <3>3. Linked(joins', Joining') /\ Linked(retvals', Uncollected')
      BY <3>1, <3>2 DEF ListsInv
    <3>. QED
      BY <3>1, <3>2, <3>3 DEF ListsInv
  <2>. QED
    BY <2>1, <2>2
<1>. QED
  BY <1>1, ListsInitially, PTL DEF Spec

(* Every variable keeps its type, and no value is collected twice          *)
(* (my_pthread.c:587-608), as long as no signal lands between the reading  *)
(* of a link of a list and the writing that relies on it.                  *)
THEOREM JoinTypeCorrect ==
  ASSUME WholeUpdates
  PROVE  Spec => []TypeOK
<1>1. ListsInv => TypeOK
  BY DEF ListsInv
<1>. QED
  BY <1>1, ListsInvariant, PTL

(* No join is lost from join_LL, which ends (my_pthread.c:513-519,         *)
(* 566-584), under the same condition.                                     *)
THEOREM NoJoinIsLost ==
  ASSUME WholeUpdates
  PROVE  Spec => []JoinsListed
<1>1. ListsInv => JoinsListed
  <2>1. Joining \in SUBSET Thread
    BY DEF Joining
  <2>. QED
    BY <2>1, LinkedBlocks DEF ListsInv, JoinsListed, Joining
<1>. QED
  BY <1>1, ListsInvariant, PTL

(* No return value is lost or collected twice (my_pthread.c:478-493,       *)
(* 587-608), under the same condition.                                     *)
THEOREM ValuesAreCollectedOnce ==
  ASSUME WholeUpdates
  PROVE  Spec => []ValueOnce
<1>1. ListsInv => ValueOnce
  <2>. SUFFICES ASSUME ListsInv, NEW x \in Gone, wants[x]
                PROVE  takers[x] = IF x \in Blocks(retvals) THEN 0 ELSE 1
    BY DEF ValueOnce
  <2>1. x \in Stored
    BY DEF Gone, Stored
  <2>2. takers[x] \in 0..1
    BY DEF ListsInv, TypeOK, Gone
  <2>. QED
    BY <2>1, <2>2, ListsAre DEF Uncollected
<1>. QED
  BY <1>1, ListsInvariant, PTL
=============================================================================
