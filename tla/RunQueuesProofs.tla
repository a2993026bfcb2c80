--------------------------- MODULE RunQueuesProofs ---------------------------
(***************************************************************************)
(* Facts about the operators of RunQueues, for every number of threads,    *)
(* every quantum and every budget.                                         *)
(***************************************************************************)
EXTENDS RunQueues, SequenceTheorems, FiniteSetTheorems, TLAPS

Counts == [Level -> Nat]

-----------------------------------------------------------------------------
(* The arithmetic of time slices.                                          *)

(* Dividing the room in the running queue by a slice gives a count.        *)
LEMMA DivNat == ASSUME NEW a \in Nat, NEW b \in Nat \ {0}
                PROVE  a \div b \in Nat
  OBVIOUS

(***************************************************************************)
(* Dividing rounded up, as the loop of lines 377-381 counts: a thread is   *)
(* taken while there is any room at all.                                   *)
(***************************************************************************)
LEMMA DivRoundsUp == ASSUME NEW a \in Nat \ {0}, NEW b \in Nat \ {0}
                     PROVE  (a + b - 1) \div b \in Nat \ {0}
  OBVIOUS

(* The lesser of two counts is a count, and 0 only if one of them is.      *)
LEMMA LesserNat ==
  ASSUME NEW a \in Nat, NEW b \in Nat
  PROVE  /\ Lesser(a, b) \in Nat
         /\ Lesser(a, b) <= a
         /\ Lesser(a, b) <= b
         /\ a # 0 /\ b # 0 => Lesser(a, b) # 0
  BY DEF Lesser

(* A number of slices is a time.                                           *)
LEMMA TimesNat == ASSUME NEW a \in Nat, NEW b \in Nat PROVE a * b \in Nat
  OBVIOUS

(* The room left in a running queue (max - count) is a time.               *)
LEMMA RoomNat ==
  ASSUME NEW spent \in Nat
  PROVE  Room(spent) \in Nat
  BY LimitAssumption DEF Room

(* The time that the threads counted so far take up is a time.             *)
LEMMA SpentNat ==
  ASSUME NEW n \in Counts
  PROVE  Spent(n) \in Nat
<1>1. \A p \in Level : Quantum[p] \in Nat /\ n[p] \in Nat
  BY QuantumAssumption DEF Counts
<1>2. /\ Quantum[0] * n[0] \in Nat
      /\ Quantum[1] * n[1] \in Nat
      /\ Quantum[2] * n[2] \in Nat
  BY <1>1, TimesNat DEF Level
<1>. QED
  BY <1>2 DEF Spent

-----------------------------------------------------------------------------
(***************************************************************************)
(* createRunningQueue counts no node that is not there, and counts at      *)
(* least one if there is any: it never loads an empty running queue.       *)
(***************************************************************************)
Within(n, len) ==
  /\ n \in Counts
  /\ \A p \in Level : n[p] <= len[p]
  /\ (\E p \in Level : len[p] # 0) => \E p \in Level : n[p] # 0

(***************************************************************************)
(* The first pass (lines 359-381) stays within the queues and takes at     *)
(* least one thread if there is one.                                       *)
(***************************************************************************)
LEMMA FirstPassWithin ==
  ASSUME NEW len \in Counts
  PROVE  Within(FirstPass(len), len)
<1>. DEFINE one  == Lesser(2, len[1])
            two  == Lesser(1, len[2])
            room == Room(Quantum[1] * one + Quantum[2] * two)
            most == (room + Quantum[0] - 1) \div Quantum[0]
            zero == Lesser(len[0], most)
<1>1. /\ len[0] \in Nat /\ len[1] \in Nat /\ len[2] \in Nat
      /\ Quantum[0] \in Nat \ {0} /\ Quantum[1] \in Nat /\ Quantum[2] \in Nat
  BY QuantumAssumption DEF Level, Counts
<1>2. /\ one \in Nat /\ one <= len[1] /\ (len[1] # 0 => one # 0)
      /\ two \in Nat /\ two <= len[2] /\ (len[2] # 0 => two # 0)
  BY <1>1 DEF Lesser
<1>3. Quantum[1] * one + Quantum[2] * two \in Nat
  <2>1. Quantum[1] * one \in Nat /\ Quantum[2] * two \in Nat
    BY <1>1, <1>2, TimesNat
  <2>. QED
    BY <2>1
<1>4. room \in Nat
  BY <1>3, RoomNat
<1>5. most \in Nat
  <2>1. room + Quantum[0] - 1 \in Nat
    BY <1>1, <1>4
  <2>. QED
    BY <2>1, <1>1, DivNat
<1>6. zero \in Nat /\ zero <= len[0]
  BY <1>1, <1>5, LesserNat
<1>7. one = 0 /\ two = 0 /\ len[0] # 0 => zero # 0
  <2>. SUFFICES ASSUME one = 0, two = 0, len[0] # 0
                PROVE  zero # 0
    OBVIOUS
  <2>1. room \in Nat \ {0}
    BY <1>1, LimitAssumption DEF Room
  <2>2. most \in Nat \ {0}
    BY <1>1, <2>1, DivRoundsUp
  <2>. QED
    BY <1>1, <2>2, LesserNat
<1>8. FirstPass(len)
        = [p \in Level |-> IF p = 0 THEN zero ELSE IF p = 1 THEN one ELSE two]
  BY DEF FirstPass
<1>. HIDE DEF one, two, room, most, zero
<1>. QED
  BY <1>1, <1>2, <1>6, <1>7, <1>8 DEF Within, Counts, Level

(* The second pass (lines 384-399) adds only threads that are there.       *)
LEMMA RefillWithin ==
  ASSUME NEW len \in Counts, NEW n, Within(n, len), NEW p \in Level
  PROVE  Within(Refill(len, n, p), len)
<1>. DEFINE most == Room(Spent(n)) \div Quantum[p]
            more == Lesser(len[p] - n[p], most)
<1>1. n \in Counts /\ n[p] \in Nat /\ len[p] \in Nat /\ n[p] <= len[p]
  BY DEF Within, Counts
<1>2. most \in Nat
  BY <1>1, SpentNat, RoomNat, DivNat, QuantumAssumption
<1>3. more \in Nat /\ n[p] + more <= len[p]
  <2>1. len[p] - n[p] \in Nat
    BY <1>1
  <2>2. more \in Nat /\ more <= len[p] - n[p]
    BY <1>2, <2>1, LesserNat
  <2>. QED
    BY <1>1, <2>2
<1>4. Refill(len, n, p) = [n EXCEPT ![p] = n[p] + more]
  BY DEF Refill
<1>. HIDE DEF most, more
<1>5. /\ Refill(len, n, p) \in Counts
      /\ Refill(len, n, p)[p] = n[p] + more
      /\ \A r \in Level \ {p} : Refill(len, n, p)[r] = n[r]
  BY <1>1, <1>3, <1>4 DEF Counts
<1>. QED
  BY <1>1, <1>3, <1>5 DEF Within, Counts

(* What createRunningQueue takes is there, and it takes something.         *)
THEOREM TallyWithin ==
  ASSUME NEW len \in Counts
  PROVE  Within(Tally(len), len)
<1>1. Within(SecondPass(len), len)
  BY FirstPassWithin, RefillWithin DEF SecondPass, Level
<1>. QED
  BY <1>1, RefillWithin DEF Tally, Level

-----------------------------------------------------------------------------
(***************************************************************************)
(* The operations on the queues link nodes that were linked before to each *)
(* other, and no others.                                                   *)
(***************************************************************************)
LEMMA PushOver ==
  ASSUME NEW S \in SUBSET Thread, NEW q \in QueuesOver(S), NEW t \in S
  PROVE  Push(q, t) \in QueuesOver(S)
<1>1. 0 \in Level
  BY DEF Level
<1>2. t \in Thread /\ q.head[0] \in S \cup {Null}
  BY <1>1 DEF QueuesOver
<1>. QED
  BY <1>1, <1>2 DEF Push, QueuesOver

(***************************************************************************)
(* Taking the head off the running queue (lines 196 and 208) links no new  *)
(* node.                                                                   *)
(***************************************************************************)
LEMMA AdvanceOver ==
  ASSUME NEW S \in SUBSET Thread, NEW q \in QueuesOver(S), q.running # Null
  PROVE  /\ Advance(q) \in QueuesOver(S)
         /\ Advance(q).running = q.next[q.running]
  BY DEF Advance, QueuesOver

(***************************************************************************)
(* Appending to a priority queue (lines 219-247) links only the node that  *)
(* is appended.                                                            *)
(***************************************************************************)
LEMMA EnqueueOver ==
  ASSUME NEW S \in SUBSET Thread, NEW q \in QueuesOver(S),
         NEW p \in Level, NEW t \in S
  PROVE  /\ Enqueue(q, p, t) \in QueuesOver(S)
         /\ Enqueue(q, p, t).running = q.running
  BY DEF Enqueue, QueuesOver

(* A path through the nodes is a sequence of threads.                      *)
LEMMA PathsAreSequences ==
  ASSUME NEW s \in Paths
  PROVE  s \in Seq(Thread)
<1>1. PICK k \in 0 .. N : s \in [1 .. k -> Thread]
  BY DEF Paths
<1>2. k \in Nat
  BY ThreadAssumption
<1>. QED
  BY <1>1, <1>2, SeqDef

(* A traversal meets only nodes that are linked.                           *)
LEMMA ChainOver ==
  ASSUME NEW S \in SUBSET Thread, NEW q \in QueuesOver(S),
         NEW first \in S \cup {Null}, Ends(q, first)
  PROVE  /\ Chain(q, first) \in Seq(S)
         /\ Chain(q, first) \in Paths
         /\ IsChain(q.next, first, Chain(q, first))
<1>. DEFINE s == Chain(q, first)
<1>1. s \in Paths /\ IsChain(q.next, first, s)
  BY DEF Ends, Chain
<1>. HIDE DEF s
<1>2. PICK k \in 0 .. N : s \in [1 .. k -> Thread]
  BY <1>1 DEF Paths
<1>3. s \in Seq(Thread) /\ Len(s) = k /\ k \in Nat
  <2>1. k \in Nat
    BY ThreadAssumption
  <2>2. s \in Seq(Thread)
    BY <1>2, <2>1, SeqDef
  <2>. QED
    BY <1>2, <2>1, <2>2, LenProperties
<1>4. \A i \in 1 .. k : s[i] \in S
  <2>. SUFFICES ASSUME NEW i \in 1 .. k
                PROVE  s[i] \in S
    OBVIOUS
  <2>0. s[i] \in Thread /\ s[i] # Null
    BY <1>2, ThreadAssumption DEF Thread, Null
  <2>1. CASE i = 1
    <3>1. s # << >>
      BY <1>3, <2>1, EmptySeq
    <3>. QED
      BY <1>1, <2>0, <2>1, <3>1 DEF IsChain
  <2>2. CASE i # 1
    <3>1. i - 1 \in 1 .. k /\ i - 1 # k /\ (i - 1) + 1 = i
      BY <1>3, <2>2
    <3>2. i - 1 \in DOMAIN s
      BY <1>2, <3>1
    <3>3. q.next[s[i - 1]] = s[i]
      BY <1>1, <1>3, <3>1, <3>2 DEF IsChain
    <3>4. s[i - 1] \in Thread /\ q.next \in [Thread -> S \cup {Null}]
      BY <1>2, <3>1 DEF QueuesOver
    <3>. QED
      BY <2>0, <3>3, <3>4
  <2>. QED
    BY <2>1, <2>2
<1>5. s \in [1 .. k -> S]
  BY <1>2, <1>4
<1>. QED
  BY <1>1, <1>3, <1>5, SeqDef DEF s

(* A prefix of a list has the nodes of the list.                           *)
LEMMA SliceOver ==
  ASSUME NEW S, NEW s \in Seq(S), NEW n \in Nat, n <= Len(s)
  PROVE  SubSeq(s, 1, n) \in Seq(S) /\ Len(SubSeq(s, 1, n)) = n
<1>1. n \in Int /\ 1 \in Int /\ \A i \in 1 .. n : s[i] \in S
  BY ElementOfSeq, LenProperties
<1>2. /\ SubSeq(s, 1, n) \in Seq(S)
      /\ Len(SubSeq(s, 1, n)) = IF 1 <= n THEN n - 1 + 1 ELSE 0
  BY <1>1, SubSeqProperties
<1>. QED
  BY <1>2

(***************************************************************************)
(* What is taken from the three queues (lines 404-454) comes from them,    *)
(* and is as long as the tally says.                                       *)
(***************************************************************************)
LEMMA TakenOver ==
  ASSUME NEW S, NEW list \in [Level -> Seq(S)],
         NEW n \in Counts, \A p \in Level : n[p] <= Len(list[p])
  PROVE  /\ Taken(list, n) \in Seq(S)
         /\ Len(Taken(list, n)) = n[0] + n[1] + n[2]
<1>. DEFINE s(p) == SubSeq(list[p], 1, n[p])
<1>1. \A p \in Level : s(p) \in Seq(S) /\ Len(s(p)) = n[p] /\ n[p] \in Nat
  BY SliceOver DEF Counts
<1>2. /\ s(0) \in Seq(S) /\ Len(s(0)) = n[0] /\ n[0] \in Nat
      /\ s(1) \in Seq(S) /\ Len(s(1)) = n[1] /\ n[1] \in Nat
      /\ s(2) \in Seq(S) /\ Len(s(2)) = n[2] /\ n[2] \in Nat
  BY <1>1 DEF Level
<1>3. s(0) \o s(1) \in Seq(S) /\ Len(s(0) \o s(1)) = n[0] + n[1]
  BY <1>2, ConcatProperties
<1>4. /\ (s(0) \o s(1)) \o s(2) \in Seq(S)
      /\ Len((s(0) \o s(1)) \o s(2)) = n[0] + n[1] + n[2]
  BY <1>2, <1>3, ConcatProperties
<1>. QED
  BY <1>4 DEF Taken

(* Linking the nodes that are taken (lines 409, 426, 444) links no others. *)
LEMMA LinkAlongOver ==
  ASSUME NEW S \in SUBSET Thread, NEW next \in [Thread -> S \cup {Null}],
         NEW run \in Seq(S)
  PROVE  LinkAlong(next, run) \in [Thread -> S \cup {Null}]
<1>. SUFFICES ASSUME NEW t \in Thread
              PROVE  LinkAlong(next, run)[t] \in S \cup {Null}
  BY DEF LinkAlong
<1>1. Len(run) \in Nat
  BY LenProperties
<1>2. CASE \E i \in 1 .. Len(run) - 1 : run[i] = t
  <2>. DEFINE k == CHOOSE i \in 1 .. Len(run) - 1 : run[i] = t
  <2>1. k \in 1 .. Len(run) - 1
    BY <1>2
  <2>2. LinkAlong(next, run)[t] = run[1 + k]
    BY <1>2 DEF LinkAlong
  <2>. HIDE DEF k
  <2>3. 1 + k \in 1 .. Len(run)
    BY <1>1, <2>1
  <2>. QED
    BY <2>2, <2>3, ElementOfSeq
<1>3. CASE ~ \E i \in 1 .. Len(run) - 1 : run[i] = t
  BY <1>3 DEF LinkAlong
<1>. QED
  BY <1>2, <1>3

(***************************************************************************)
(* createRunningQueue, called with a thread in some priority queue, loads  *)
(* a running queue that is not empty, and links only nodes that were       *)
(* linked before.                                                          *)
(***************************************************************************)
THEOREM LoadOver ==
  ASSUME NEW S \in SUBSET Thread, NEW q \in QueuesOver(S),
         ListsIntact(q), ~AllEmpty(q)
  PROVE  /\ Load(q) \in QueuesOver(S)
         /\ Load(q).running \in S
<1>. DEFINE list == Lists(q)
            len  == [p \in Level |-> Len(list[p])]
            n    == Tally(len)
            run  == Taken(list, n)
            head == [p \in Level |-> IF n[p] < Len(list[p])
                                     THEN list[p][n[p] + 1] ELSE Null]
<1>1. \A p \in Level : q.head[p] \in S \cup {Null}
  BY DEF QueuesOver
<1>2. \A p \in Level : /\ list[p] \in Seq(S)
                       /\ list[p] = << >> <=> q.head[p] = Null
  <2>. SUFFICES ASSUME NEW p \in Level
                PROVE  /\ list[p] \in Seq(S)
                       /\ list[p] = << >> <=> q.head[p] = Null
    OBVIOUS
  <2>1. Ends(q, q.head[p])
    BY DEF ListsIntact
  <2>2. list[p] = Chain(q, q.head[p])
    BY DEF Lists
  <2>3. /\ list[p] \in Seq(S) /\ list[p] \in Paths
        /\ IsChain(q.next, q.head[p], list[p])
    BY <1>1, <2>1, <2>2, ChainOver
  <2>4. list[p] # << >> => list[p][1] \in S
    BY <2>3, EmptySeq, ElementOfSeq
  <2>5. Null \notin S
    BY ThreadAssumption DEF Thread, Null
  <2>. QED
    BY <2>3, <2>4, <2>5 DEF IsChain
<1>3. len \in Counts
  BY <1>2, LenProperties DEF Counts
<1>4. list \in [Level -> Seq(S)]
  BY <1>2 DEF Lists
<1>5. \E p \in Level : len[p] # 0
  <2>1. PICK p \in Level : q.head[p] # Null
    BY DEF AllEmpty
  <2>2. list[p] # << >> /\ list[p] \in Seq(S)
    BY <1>2, <2>1
  <2>. QED
    BY <2>2, EmptySeq
<1>. HIDE DEF list
<1>6. /\ n \in Counts
      /\ \A p \in Level : n[p] \in Nat /\ n[p] <= Len(list[p])
      /\ \E p \in Level : n[p] # 0
  BY <1>3, <1>5, TallyWithin DEF Within, Counts
<1>. HIDE DEF n
<1>7. /\ run \in Seq(S)
      /\ Len(run) = n[0] + n[1] + n[2]
  BY <1>4, <1>6, TakenOver
<1>. HIDE DEF run
<1>8. run[1] \in S
  <2>1. n[0] + n[1] + n[2] \in Nat \ {0}
    BY <1>6 DEF Level
  <2>2. 1 \in 1 .. Len(run)
    BY <1>7, <2>1
  <2>. QED
    BY <1>7, <2>2, ElementOfSeq
<1>9. LinkAlong(q.next, run) \in [Thread -> S \cup {Null}]
  BY <1>7, LinkAlongOver DEF QueuesOver
<1>10. head \in [Level -> S \cup {Null}]
  <2>. SUFFICES ASSUME NEW p \in Level, n[p] < Len(list[p])
                PROVE  list[p][n[p] + 1] \in S
    OBVIOUS
  <2>1. list[p] \in Seq(S) /\ Len(list[p]) \in Nat
    BY <1>4, LenProperties
  <2>2. n[p] + 1 \in 1 .. Len(list[p])
    BY <1>6, <2>1
  <2>. QED
    BY <2>1, <2>2, ElementOfSeq
<1>11. Load(q) = [ next    |-> LinkAlong(q.next, run),
                   head    |-> head,
                   tail    |-> [p \in Level |-> IF n[p] > 0 /\ head[p] = Null
                                                THEN Null ELSE q.tail[p]],
                   running |-> run[1] ]
  BY DEF Load, list, n, run
<1>. HIDE DEF head
<1>. QED
  BY <1>8, <1>9, <1>10, <1>11 DEF QueuesOver

-----------------------------------------------------------------------------
(***************************************************************************)
(* The lists as sequences.  A list is well formed if a sequence of threads *)
(* goes along it; that sequence is then its traversal.                     *)
(***************************************************************************)

(* The i-th thread of a row, Null past its ends.                           *)
Entry(s, i) == IF i \in 1 .. Len(s) THEN s[i] ELSE Null

(* The four lists, numbered as the priorities and 3 for the running queue. *)
Shelf       == 0 .. 3
First(q, p) == IF p = 3 THEN q.running ELSE q.head[p]
In(L)       == { t \in Thread : \E p \in Shelf : \E i \in 1 .. Len(L[p]) : L[p][i] = t }

(* No thread is in two places of the rows L.                               *)
Apart(L) ==
  \A p, r \in Shelf : \A i \in 1 .. Len(L[p]) : \A j \in 1 .. Len(L[r]) :
    L[p][i] = L[r][j] => p = r /\ i = j

Goes(next, first, s) ==
  first = Entry(s, 1) /\ \A i \in 1 .. Len(s) : next[s[i]] = Entry(s, i + 1)

Lined(q, L) ==
  /\ L \in [Shelf -> Seq(Thread)]
  /\ Apart(L)
  /\ \A p \in Shelf : Goes(q.next, First(q, p), L[p])

(* The tail of priority queue p is its last thread, Null if it is empty.   *)
Tailed(q, L, p) == q.tail[p] = Entry(L[p], Len(L[p]))

(* NULL is no thread, and the entries of a row are threads.                *)
LEMMA Entries ==
  ASSUME NEW s \in Seq(Thread)
  PROVE  /\ Len(s) \in Nat /\ DOMAIN s = 1 .. Len(s)
         /\ Null \notin Thread
         /\ \A i \in 1 .. Len(s) : s[i] \in Thread /\ s[i] # Null /\ Entry(s, i) = s[i]
         /\ s = << >> <=> Len(s) = 0
<1>1. Len(s) \in Nat /\ DOMAIN s = 1 .. Len(s) /\ Null \notin Thread
  BY LenProperties, ThreadAssumption DEF Thread, Null
<1>2. \A i \in 1 .. Len(s) : s[i] \in Thread
  BY ElementOfSeq
<1>. QED
  BY <1>1, <1>2, EmptySeq DEF Entry

(* What IsChain says of a row, entry by entry.                             *)
LEMMA ChainGoes ==
  ASSUME NEW next, NEW first, NEW s \in Seq(Thread)
  PROVE  IsChain(next, first, s) <=> Goes(next, first, s)
<1>1. /\ Len(s) \in Nat /\ DOMAIN s = 1 .. Len(s)
      /\ s = << >> <=> Len(s) = 0
  BY Entries
<1>2. Entry(s, 1) = IF s = << >> THEN Null ELSE s[1]
  BY <1>1 DEF Entry
<1>3. ASSUME NEW i \in 1 .. Len(s)
      PROVE  Entry(s, i + 1) = IF i = Len(s) THEN Null ELSE s[i + 1]
  <2>0. Len(s) \in Nat
    BY <1>1
  <2>1. i + 1 \in 1 .. Len(s) <=> i # Len(s)
    BY <2>0
  <2>. QED
    BY <2>1 DEF Entry
<1>. QED
  BY <1>1, <1>2, <1>3 DEF IsChain, Goes

(* A nonempty set of positions has a first.                                *)
LEMMA FirstPosition ==
  ASSUME NEW S, S \subseteq Nat, S # {}
  PROVE  \E x \in S : \A y \in S : x <= y
<1>. DEFINE R == {p \in Nat \X Nat : p[1] < p[2]}
<1>1. IsWellFoundedOn(R, Nat)
  <2>1. OpToRel(<, Nat) = R
    BY DEF OpToRel
  <2>. QED
    BY <2>1, NatLessThanWellFounded
<1>2. PICK x \in S : \A y \in S : ~(<< y, x >> \in R)
  <2>. HIDE DEF R
  <2>. QED
    BY <1>1, WFMin
<1>3. ASSUME NEW y \in S
      PROVE  x <= y
  <2>1. x \in Nat /\ y \in Nat
    OBVIOUS
  <2>2. y < x => << y, x >> \in R
    BY <2>1
  <2>. HIDE DEF R
  <2>. QED
    BY <1>2, <2>1, <2>2
<1>. QED
  BY <1>3

(***************************************************************************)
(* Whoever goes from the same head along the same next fields meets the    *)
(* same threads.                                                           *)
(***************************************************************************)
LEMMA SameStart ==
  ASSUME NEW next, NEW first, NEW s \in Seq(Thread), NEW t \in Seq(Thread),
         Goes(next, first, s), Goes(next, first, t)
  PROVE  Len(s) <= Len(t) /\ \A i \in 1 .. Len(s) : s[i] = t[i]
<1>. DEFINE Bad == {i \in 1 .. Len(s) : ~(i <= Len(t) /\ s[i] = t[i])}
<1>1. /\ Len(s) \in Nat /\ Len(t) \in Nat
      /\ \A i \in 1 .. Len(s) : s[i] # Null
  BY Entries
<1>2. Bad = {}
  <2>. SUFFICES ASSUME Bad # {}
                PROVE  FALSE
    OBVIOUS
  <2>1. Bad \subseteq Nat
    OBVIOUS
  <2>2. PICK x \in Bad : \A y \in Bad : x <= y
    <3>. HIDE DEF Bad
    <3>. QED
      BY <2>1, FirstPosition
  <2>3. x \in 1 .. Len(s) /\ ~(x <= Len(t) /\ s[x] = t[x])
    OBVIOUS
  <2>4. CASE x = 1
    <3>1. first = Entry(s, 1) /\ first = Entry(t, 1) /\ 1 \in 1 .. Len(s)
      BY <2>3, <2>4 DEF Goes
    <3>2. Entry(t, 1) = s[1] /\ s[1] # Null
      BY <1>1, <3>1 DEF Entry
    <3>3. 1 \in 1 .. Len(t) /\ t[1] = s[1]
      BY <3>2 DEF Entry
    <3>. QED
      BY <1>1, <2>3, <2>4, <3>3
  <2>5. CASE x # 1
    <3>1. x - 1 \in 1 .. Len(s) /\ x - 1 \notin Bad /\ (x - 1) + 1 = x
      BY <1>1, <2>2, <2>3, <2>5
    <3>2. x - 1 \in 1 .. Len(t) /\ s[x - 1] = t[x - 1]
      BY <1>1, <3>1
    <3>3. next[s[x - 1]] = Entry(s, x) /\ next[t[x - 1]] = Entry(t, x)
      BY <3>1, <3>2 DEF Goes
    <3>4. Entry(t, x) = s[x]
      BY <2>3, <3>2, <3>3 DEF Entry
    <3>. QED
      BY <1>1, <2>3, <3>4 DEF Entry
  <2>. QED
    BY <2>4, <2>5
<1>3. \A i \in 1 .. Len(s) : i <= Len(t) /\ s[i] = t[i]
  BY <1>2
<1>. QED
  BY <1>1, <1>3

(* The threads of a row without repetitions are at most all of them.       *)
LEMMA RowIsPath ==
  ASSUME NEW s \in Seq(Thread),
         \A i, j \in 1 .. Len(s) : s[i] = s[j] => i = j
  PROVE  s \in Paths /\ Len(s) <= N
<1>1. Len(s) \in Nat /\ s \in [1 .. Len(s) -> Thread] /\ N \in Nat
  BY LenProperties, ThreadAssumption
<1>2. s \in Injection(1 .. Len(s), Thread)
  BY <1>1 DEF Injection, IsInjective
<1>3. IsFiniteSet(Thread) /\ Cardinality(Thread) = N /\ Cardinality(1 .. Len(s)) = Len(s)
  <2>0. 1 \in Int /\ N \in Int /\ Len(s) \in Int
    BY <1>1
  <2>1. IsFiniteSet(1 .. N) /\ Cardinality(1 .. N) = IF 1 > N THEN 0 ELSE N - 1 + 1
    BY <2>0, FS_Interval
  <2>2. Cardinality(1 .. Len(s)) = IF 1 > Len(s) THEN 0 ELSE Len(s) - 1 + 1
    BY <2>0, FS_Interval
  <2>. QED
    BY <1>1, <2>1, <2>2, ThreadAssumption DEF Thread
<1>4. Len(s) <= N
  BY <1>2, <1>3, FS_Injection
<1>5. Len(s) \in 0 .. N
  BY <1>1, <1>4
<1>. QED
  BY <1>1, <1>4, <1>5 DEF Paths

(***************************************************************************)
(* A row that goes along a list is its traversal: the list ends, and Chain *)
(* is that row.                                                            *)
(***************************************************************************)
LEMMA ChainIs ==
  ASSUME NEW q, NEW first, NEW s \in Seq(Thread),
         \A i, j \in 1 .. Len(s) : s[i] = s[j] => i = j,
         Goes(q.next, first, s)
  PROVE  Ends(q, first) /\ Chain(q, first) = s
<1>1. s \in Paths /\ IsChain(q.next, first, s)
  BY RowIsPath, ChainGoes
<1>. DEFINE c == Chain(q, first)
<1>2. c \in Paths /\ IsChain(q.next, first, c)
  BY <1>1 DEF Chain
<1>. HIDE DEF c
<1>3. c \in Seq(Thread)
  BY <1>2, PathsAreSequences
<1>4. Goes(q.next, first, c)
  BY <1>2, <1>3, ChainGoes
<1>5. /\ Len(s) <= Len(c) /\ \A i \in 1 .. Len(s) : s[i] = c[i]
      /\ Len(c) <= Len(s)
  BY <1>3, <1>4, SameStart
<1>6. Len(s) = Len(c)
  BY <1>3, <1>5, LenProperties
<1>7. s = c
  BY <1>3, <1>5, <1>6, SeqEqual
<1>. QED
  BY <1>1, <1>7 DEF Ends, c

-----------------------------------------------------------------------------
(***************************************************************************)
(* What happens to one row when its list is changed at an end.             *)
(***************************************************************************)

(* Taking the first thread off a row.                                      *)
LEMMA TailRow ==
  ASSUME NEW next, NEW first, NEW s \in Seq(Thread), s # << >>, Goes(next, first, s)
  PROVE  /\ first = s[1] /\ Tail(s) \in Seq(Thread) /\ Len(Tail(s)) = Len(s) - 1
         /\ \A i \in 1 .. Len(Tail(s)) : i + 1 \in 1 .. Len(s) /\ Tail(s)[i] = s[i + 1]
         /\ Goes(next, next[first], Tail(s))
<1>1. /\ Len(s) \in Nat \ {0} /\ 1 \in 1 .. Len(s)
  BY EmptySeq
<1>2. first = s[1] /\ next[first] = Entry(s, 2)
  BY <1>1, Entries DEF Goes
<1>3. /\ Tail(s) \in Seq(Thread) /\ Len(Tail(s)) = Len(s) - 1
      /\ \A i \in 1 .. Len(Tail(s)) : Tail(s)[i] = s[i + 1]
  BY HeadTailProperties
<1>4. ASSUME NEW i \in Nat \ {0}
      PROVE  Entry(Tail(s), i) = Entry(s, i + 1)
  <2>1. i \in 1 .. Len(Tail(s)) <=> i + 1 \in 1 .. Len(s)
    BY <1>1, <1>3
  <2>. QED
    BY <1>3, <2>1 DEF Entry
<1>5. ASSUME NEW i \in 1 .. Len(Tail(s))
      PROVE  /\ i + 1 \in 1 .. Len(s)
             /\ next[Tail(s)[i]] = Entry(Tail(s), i + 1)
  <2>1. i + 1 \in 1 .. Len(s) /\ i + 1 \in Nat \ {0}
    BY <1>1, <1>3
  <2>2. next[s[i + 1]] = Entry(s, (i + 1) + 1)
    BY <2>1 DEF Goes
  <2>. QED
    BY <1>3, <1>4, <2>1, <2>2
<1>6. Entry(Tail(s), 1) = Entry(s, 2)
  BY <1>4
<1>. QED
  BY <1>2, <1>3, <1>5, <1>6 DEF Goes

(* Linking a thread behind the last of a row.                              *)
LEMMA AppendRow ==
  ASSUME NEW next, NEW first, NEW s \in Seq(Thread), Goes(next, first, s),
         \A i, j \in 1 .. Len(s) : s[i] = s[j] => i = j,
         NEW t \in Thread, NEW next2, NEW first2,
         next2[t] = Null,
         first2 = IF s = << >> THEN t ELSE first,
         \A i \in 1 .. Len(s) : next2[s[i]] = IF i = Len(s) THEN t ELSE next[s[i]]
  PROVE  /\ Append(s, t) \in Seq(Thread) /\ Len(Append(s, t)) = Len(s) + 1
         /\ \A i \in 1 .. Len(s) : Append(s, t)[i] = s[i]
         /\ Append(s, t)[Len(s) + 1] = t
         /\ Goes(next2, first2, Append(s, t))
<1>. DEFINE a == Append(s, t)
<1>1. Len(s) \in Nat
  BY Entries
<1>2. /\ a \in Seq(Thread) /\ Len(a) = Len(s) + 1
      /\ \A i \in 1 .. Len(s) : a[i] = s[i]
      /\ a[Len(s) + 1] = t
  BY AppendProperties
<1>. HIDE DEF a
<1>3. \A i \in 1 .. Len(s) + 1 : Entry(a, i) = a[i]
  BY <1>2 DEF Entry
<1>4. first2 = Entry(a, 1)
  <2>1. CASE s = << >>
    BY <1>1, <1>2, <1>3, <2>1, Entries
  <2>2. CASE s # << >>
    <3>1. 1 \in 1 .. Len(s) /\ 1 \in 1 .. Len(s) + 1
      BY <1>1, <2>2, Entries
    <3>2. first = s[1]
      BY <3>1, Entries DEF Goes
    <3>. QED
      BY <1>2, <1>3, <2>2, <3>1, <3>2
  <2>. QED
    BY <2>1, <2>2
<1>5. ASSUME NEW i \in 1 .. Len(a)
      PROVE  next2[a[i]] = Entry(a, i + 1)
  <2>1. CASE i = Len(s) + 1
    <3>1. i + 1 \notin 1 .. Len(a)
      BY <1>1, <1>2, <2>1
    <3>. QED
      BY <1>2, <2>1, <3>1 DEF Entry
  <2>2. CASE i = Len(s) /\ i # Len(s) + 1
    <3>1. i \in 1 .. Len(s) /\ i + 1 = Len(s) + 1 /\ i + 1 \in 1 .. Len(s) + 1
      BY <1>1, <1>2, <2>2
    <3>2. next2[s[i]] = t /\ a[i] = s[i]
      BY <1>2, <2>2, <3>1
    <3>. QED
      BY <1>2, <1>3, <3>1, <3>2
  <2>3. CASE i # Len(s) /\ i # Len(s) + 1
    <3>1. i \in 1 .. Len(s) /\ i + 1 \in 1 .. Len(s) /\ i + 1 \in 1 .. Len(s) + 1
      BY <1>1, <1>2, <2>3
    <3>2. next2[s[i]] = Entry(s, i + 1)
      BY <2>3, <3>1 DEF Goes
    <3>3. Entry(s, i + 1) = Entry(a, i + 1)
      BY <1>2, <1>3, <3>1 DEF Entry
    <3>. QED
      BY <1>2, <3>1, <3>2, <3>3
  <2>. QED
    BY <2>1, <2>2, <2>3
<1>. QED
  BY <1>2, <1>4, <1>5 DEF Goes, a

(* Linking a thread before the first of a row.                             *)
LEMMA PushRow ==
  ASSUME NEW next, NEW first, NEW s \in Seq(Thread), Goes(next, first, s),
         NEW t \in Thread, NEW next2, next2[t] = first,
         \A i \in 1 .. Len(s) : next2[s[i]] = next[s[i]]
  PROVE  /\ << t >> \o s \in Seq(Thread) /\ Len(<< t >> \o s) = Len(s) + 1
         /\ (<< t >> \o s)[1] = t
         /\ \A i \in 2 .. Len(s) + 1 : (<< t >> \o s)[i] = s[i - 1]
         /\ Goes(next2, t, << t >> \o s)
<1>. DEFINE a == << t >> \o s
<1>1. Len(s) \in Nat
  BY Entries
<1>2. << t >> \in Seq(Thread) /\ Len(<< t >>) = 1 /\ << t >>[1] = t
  OBVIOUS
<1>3. /\ a \in Seq(Thread) /\ Len(a) = Len(s) + 1
      /\ a[1] = t
      /\ \A i \in 2 .. Len(s) + 1 : a[i] = s[i - 1]
  <2>1. /\ a \in Seq(Thread) /\ Len(a) = 1 + Len(s)
        /\ \A i \in 1 .. 1 + Len(s) : a[i] = IF i <= 1 THEN << t >>[i] ELSE s[i - 1]
    BY <1>2, ConcatProperties
  <2>. HIDE DEF a
  <2>. QED
    BY <1>1, <1>2, <2>1
<1>. HIDE DEF a
<1>4. t = Entry(a, 1)
  BY <1>1, <1>3 DEF Entry
<1>5. ASSUME NEW i \in 1 .. Len(a)
      PROVE  next2[a[i]] = Entry(a, i + 1)
  <2>1. CASE i = 1
    <3>1. first = Entry(s, 1)
      BY DEF Goes
    <3>2. 2 \in 1 .. Len(a) <=> 1 \in 1 .. Len(s)
      BY <1>1, <1>3
    <3>3. 2 \in 1 .. Len(a) => a[2] = s[1]
      BY <1>1, <1>3
    <3>4. Entry(a, 2) = Entry(s, 1)
      BY <3>2, <3>3 DEF Entry
    <3>. QED
      BY <1>3, <2>1, <3>1, <3>4
  <2>2. CASE i # 1
    <3>1. i - 1 \in 1 .. Len(s) /\ i \in 2 .. Len(s) + 1 /\ (i - 1) + 1 = i
      BY <1>1, <1>3, <2>2
    <3>2. next2[a[i]] = Entry(s, i)
      BY <1>3, <3>1 DEF Goes
    <3>3. i + 1 \in 1 .. Len(a) <=> i \in 1 .. Len(s)
      BY <1>1, <1>3, <3>1
    <3>4. i + 1 \in 1 .. Len(a) => a[i + 1] = s[i]
      BY <1>1, <1>3, <3>1
    <3>5. Entry(a, i + 1) = Entry(s, i)
      BY <3>3, <3>4 DEF Entry
    <3>. QED
      BY <3>2, <3>5
  <2>. QED
    BY <2>1, <2>2
<1>. QED
  BY <1>3, <1>4, <1>5 DEF Goes, a

-----------------------------------------------------------------------------
(***************************************************************************)
(* What the operations do to four lists that are well formed.              *)
(***************************************************************************)

(* Each list of well formed queues ends, and its traversal is its row.     *)
LEMMA LinedLists ==
  ASSUME NEW q, NEW L, Lined(q, L)
  PROVE  /\ \A p \in Shelf : Ends(q, First(q, p)) /\ Chain(q, First(q, p)) = L[p]
         /\ ListsIntact(q)
         /\ \A p \in Level : Lists(q)[p] = L[p] /\ Lengths(q)[p] = Len(L[p])
<1>1. ASSUME NEW p \in Shelf
      PROVE  Ends(q, First(q, p)) /\ Chain(q, First(q, p)) = L[p]
  <2>1. L[p] \in Seq(Thread) /\ Goes(q.next, First(q, p), L[p])
    BY DEF Lined
  <2>2. \A i, j \in 1 .. Len(L[p]) : L[p][i] = L[p][j] => i = j
    BY DEF Lined, Apart
  <2>. QED
    BY <2>1, <2>2, ChainIs
<1>2. \A p \in Level : p \in Shelf /\ First(q, p) = q.head[p]
  BY DEF Level, Shelf, First
<1>3. \A p \in Level : Ends(q, q.head[p]) /\ Chain(q, q.head[p]) = L[p]
  BY <1>1, <1>2
<1>4. \A p \in Level : Lists(q)[p] = L[p] /\ Lengths(q)[p] = Len(L[p])
  BY <1>3 DEF Lists, Lengths
<1>5. ASSUME NEW p \in Level, NEW r \in Level, p < r
      PROVE  Disjoint(L[p], L[r])
  <2>1. p \in Shelf /\ r \in Shelf /\ L[p] \in Seq(Thread) /\ L[r] \in Seq(Thread) /\ p # r
    BY <1>2, <1>5 DEF Lined, Level
  <2>2. DOMAIN L[p] = 1 .. Len(L[p]) /\ DOMAIN L[r] = 1 .. Len(L[r])
    BY <2>1, Entries
  <2>. QED
    BY <2>1, <2>2 DEF Lined, Apart, Disjoint
<1>6. ListsIntact(q)
  BY <1>3, <1>4, <1>5 DEF ListsIntact
<1>. QED
  BY <1>1, <1>4, <1>6

(* A list whose row is not empty starts with a thread, and only such a one. *)
LEMMA LinedHeads ==
  ASSUME NEW q, NEW L, Lined(q, L), NEW p \in Shelf
  PROVE  /\ L[p] \in Seq(Thread)
         /\ First(q, p) = Null <=> L[p] = << >>
         /\ L[p] # << >> => 1 \in 1 .. Len(L[p]) /\ First(q, p) = L[p][1]
<1>1. L[p] \in Seq(Thread) /\ Goes(q.next, First(q, p), L[p])
  BY DEF Lined
<1>2. CASE L[p] = << >>
  <2>1. Entry(L[p], 1) = Null
    BY <1>1, <1>2, Entries DEF Entry
  <2>. QED
    BY <1>1, <1>2, <2>1 DEF Goes
<1>3. CASE L[p] # << >>
  <2>1. 1 \in 1 .. Len(L[p])
    BY <1>1, <1>3, Entries
  <2>2. First(q, p) = L[p][1] /\ L[p][1] # Null
    BY <1>1, <2>1, Entries DEF Goes
  <2>. QED
    BY <1>1, <1>3, <2>1, <2>2
<1>. QED
  BY <1>2, <1>3

(* The threads of a row are in it.                                         *)
LEMMA RowMembers ==
  ASSUME NEW q, NEW L, Lined(q, L), NEW p \in Shelf, NEW i \in 1 .. Len(L[p])
  PROVE  L[p][i] \in Thread /\ L[p][i] \in In(L)
<1>1. L[p] \in Seq(Thread)
  BY DEF Lined
<1>. QED
  BY <1>1, Entries DEF In

(***************************************************************************)
(* Taking the head off the running queue (lines 196 and 208).              *)
(***************************************************************************)
Advanced(L) == [L EXCEPT ![3] = Tail(L[3])]

(* What was the head of the running queue is then in none of the lists.    *)
LEMMA AdvanceLines ==
  ASSUME NEW q \in Queues, NEW L, Lined(q, L), q.running # Null
  PROVE  /\ Lined(Advance(q), Advanced(L))
         /\ In(Advanced(L)) = In(L) \ {q.running}
         /\ \A p \in Level : Advanced(L)[p] = L[p]
         /\ L[3] # << >> /\ L[3] \in Seq(Thread) /\ q.running = L[3][1]
         /\ Advance(q) \in Queues /\ Advance(q).next = q.next
         /\ Advance(q).head = q.head /\ Advance(q).tail = q.tail
<1>. DEFINE M == Advanced(L)
            a == Advance(q)
<1>1. /\ L \in [Shelf -> Seq(Thread)] /\ 3 \in Shelf
      /\ \A p \in Level : p \in Shelf /\ p # 3
  BY DEF Lined, Shelf, Level
<1>2. First(q, 3) = q.running /\ Goes(q.next, q.running, L[3]) /\ L[3] \in Seq(Thread)
  BY <1>1 DEF Lined, First
<1>3. L[3] # << >>
  BY <1>1, <1>2, LinedHeads
<1>4. /\ q.running = L[3][1] /\ Tail(L[3]) \in Seq(Thread)
      /\ Len(Tail(L[3])) = Len(L[3]) - 1
      /\ \A i \in 1 .. Len(Tail(L[3])) : /\ i + 1 \in 1 .. Len(L[3])
                                         /\ Tail(L[3])[i] = L[3][i + 1]
      /\ Goes(q.next, q.next[q.running], Tail(L[3]))
  BY <1>2, <1>3, TailRow
<1>5. /\ M \in [Shelf -> Seq(Thread)] /\ M[3] = Tail(L[3])
      /\ \A p \in Shelf : p # 3 => M[p] = L[p]
  BY <1>1, <1>4 DEF Advanced
<1>6. /\ a \in Queues /\ a.next = q.next /\ a.head = q.head /\ a.tail = q.tail
      /\ a.running = q.next[q.running]
  BY DEF Advance, Queues, QueuesOver
<1>. HIDE DEF M, a
<1>. DEFINE old(p, i) == IF p = 3 THEN i + 1 ELSE i
<1>7. \A p \in Shelf : \A i \in 1 .. Len(M[p]) :
        /\ old(p, i) \in 1 .. Len(L[p])
        /\ M[p][i] = L[p][old(p, i)]
  BY <1>4, <1>5
<1>8. Apart(M)
  <2>. SUFFICES ASSUME NEW p \in Shelf, NEW r \in Shelf,
                       NEW i \in 1 .. Len(M[p]), NEW j \in 1 .. Len(M[r]),
                       M[p][i] = M[r][j]
                PROVE  p = r /\ i = j
    BY DEF Apart
  <2>1. /\ old(p, i) \in 1 .. Len(L[p]) /\ old(r, j) \in 1 .. Len(L[r])
        /\ L[p][old(p, i)] = L[r][old(r, j)]
    BY <1>7
  <2>2. p = r /\ old(p, i) = old(r, j)
    <3>. HIDE DEF old
    <3>. QED
      BY <2>1 DEF Lined, Apart
  <2>. QED
    BY <2>2
<1>9. \A p \in Shelf : Goes(a.next, First(a, p), M[p])
  BY <1>4, <1>5, <1>6 DEF Lined, First
<1>10. In(M) = In(L) \ {q.running}
  <2>1. ASSUME NEW t \in In(M)
        PROVE  t \in In(L) /\ t # q.running
    <3>0. PICK p \in Shelf : \E i \in 1 .. Len(M[p]) : M[p][i] = t
      BY <2>1 DEF In
    <3>1. PICK i \in 1 .. Len(M[p]) : M[p][i] = t /\ t \in Thread
      BY <2>1, <3>0 DEF In
    <3>2. t \in In(L)
      BY <1>7, <3>1 DEF In
    <3>3. ASSUME t = q.running PROVE FALSE
      <4>1. L[p][old(p, i)] = L[3][1] /\ 1 \in 1 .. Len(L[3])
        BY <1>2, <1>3, <1>4, <1>7, <3>1, <3>3, Entries
      <4>2. p = 3 /\ old(p, i) = 1
        BY <1>1, <1>7, <3>1, <4>1 DEF Lined, Apart
      <4>. QED
        BY <3>1, <4>2
    <3>. QED
      BY <3>2, <3>3
  <2>2. ASSUME NEW t \in In(L), t # q.running
        PROVE  t \in In(M)
    <3>0. PICK p \in Shelf : \E i \in 1 .. Len(L[p]) : L[p][i] = t
      BY <2>2 DEF In
    <3>1. PICK i \in 1 .. Len(L[p]) : L[p][i] = t /\ t \in Thread
      BY <2>2, <3>0 DEF In
    <3>2. CASE p = 3
      <4>1. i - 1 \in 1 .. Len(M[3]) /\ (i - 1) + 1 = i
        <5>1. i # 1
          BY <1>4, <2>2, <3>1, <3>2
        <5>2. Len(L[3]) \in Nat
          BY <1>2, Entries
        <5>. QED
          BY <1>4, <1>5, <3>1, <3>2, <5>1, <5>2
      <4>2. M[3][i - 1] = L[3][i]
        <5>1. M[3][i - 1] = L[3][(i - 1) + 1]
          BY <1>4, <1>5, <4>1
        <5>. QED
          BY <4>1, <5>1
      <4>. QED
        BY <1>1, <3>1, <3>2, <4>1, <4>2 DEF In
    <3>3. CASE p # 3
      BY <1>5, <3>1, <3>3 DEF In
    <3>. QED
      BY <3>2, <3>3
  <2>. QED
    BY <2>1, <2>2
<1>. QED
  BY <1>1, <1>2, <1>3, <1>4, <1>5, <1>6, <1>8, <1>9, <1>10 DEF Lined, M, a

(***************************************************************************)
(* Linking thread t behind the last of priority queue p: what scheduler    *)
(* does at lines 218-247 and my_pthread_create at 108-114, in one go or    *)
(* not.                                                                    *)
(***************************************************************************)
Appended(L, p, t) == [L EXCEPT ![p] = Append(L[p], t)]

(* q2 is q with t linked behind the last thread of priority queue p.       *)
Linking(q, q2, L, p, t) ==
  /\ q2.running = q.running
  /\ \A r \in Level : q2.head[r] = IF r = p /\ L[p] = << >> THEN t ELSE q.head[r]
  /\ q2.next[t] = Null
  /\ \A u \in In(L) : q2.next[u] = IF L[p] # << >> /\ u = L[p][Len(L[p])]
                                   THEN t ELSE q.next[u]

(***************************************************************************)
(* A thread that was in none of the lists is then the last of its queue,   *)
(* and the lists are still well formed.                                    *)
(***************************************************************************)
LEMMA AppendLines ==
  ASSUME NEW q, NEW L, Lined(q, L), NEW p \in Level, NEW t \in Thread, t \notin In(L),
         NEW q2, Linking(q, q2, L, p, t)
  PROVE  /\ Lined(q2, Appended(L, p, t))
         /\ In(Appended(L, p, t)) = In(L) \cup {t}
         /\ \A r \in Shelf : r # p => Appended(L, p, t)[r] = L[r]
         /\ Len(Appended(L, p, t)[p]) = Len(L[p]) + 1
         /\ \A i \in 1 .. Len(L[p]) : Appended(L, p, t)[p][i] = L[p][i]
         /\ Appended(L, p, t)[p][Len(L[p]) + 1] = t
<1>. DEFINE M == Appended(L, p, t)
<1>1. /\ L \in [Shelf -> Seq(Thread)] /\ p \in Shelf /\ p # 3 /\ L[p] \in Seq(Thread)
      /\ Goes(q.next, First(q, p), L[p]) /\ First(q, p) = q.head[p]
      /\ First(q2, p) = q2.head[p]
  BY DEF Lined, Shelf, Level, First
<1>2. Len(L[p]) \in Nat /\ (L[p] = << >> <=> Len(L[p]) = 0)
  BY <1>1, Entries
<1>3. \A i, j \in 1 .. Len(L[p]) : L[p][i] = L[p][j] => i = j
  BY <1>1 DEF Lined, Apart
<1>4. \A i \in 1 .. Len(L[p]) :
        q2.next[L[p][i]] = IF i = Len(L[p]) THEN t ELSE q.next[L[p][i]]
  <2>. SUFFICES ASSUME NEW i \in 1 .. Len(L[p])
                PROVE  q2.next[L[p][i]] = IF i = Len(L[p]) THEN t ELSE q.next[L[p][i]]
    OBVIOUS
  <2>1. L[p][i] \in In(L)
    BY <1>1, RowMembers
  <2>2. L[p] # << >> /\ Len(L[p]) \in 1 .. Len(L[p])
    BY <1>2
  <2>3. L[p][i] = L[p][Len(L[p])] <=> i = Len(L[p])
    BY <1>3, <2>2
  <2>. QED
    BY <2>1, <2>2, <2>3 DEF Linking
<1>5. /\ q2.next[t] = Null
      /\ q2.head[p] = IF L[p] = << >> THEN t ELSE q.head[p]
  BY DEF Linking
<1>. DEFINE a == Append(L[p], t)
<1>6. /\ a \in Seq(Thread) /\ Len(a) = Len(L[p]) + 1
      /\ \A i \in 1 .. Len(L[p]) : a[i] = L[p][i]
      /\ a[Len(L[p]) + 1] = t
      /\ Goes(q2.next, q2.head[p], a)
  BY <1>1, <1>3, <1>4, <1>5, AppendRow
<1>. HIDE DEF a
<1>7. /\ M \in [Shelf -> Seq(Thread)] /\ M[p] = a
      /\ \A r \in Shelf : r # p => M[r] = L[r]
  BY <1>1, <1>6 DEF Appended, a
<1>. HIDE DEF M
<1>8. ASSUME NEW r \in Shelf, r # p
      PROVE  Goes(q2.next, First(q2, r), M[r])
  <2>1. First(q2, r) = First(q, r)
    BY <1>8 DEF Linking, First, Shelf, Level
  <2>2. Goes(q.next, First(q, r), L[r])
    BY DEF Lined
  <2>3. ASSUME NEW i \in 1 .. Len(L[r])
        PROVE  q2.next[L[r][i]] = q.next[L[r][i]]
    <3>1. L[r][i] \in In(L)
      BY RowMembers
    <3>2. L[p] # << >> => L[r][i] # L[p][Len(L[p])]
      <4>1. L[p] # << >> => Len(L[p]) \in 1 .. Len(L[p])
        BY <1>2
      <4>. QED
        BY <1>1, <1>8, <4>1 DEF Lined, Apart
    <3>. QED
      BY <3>1, <3>2 DEF Linking
  <2>. QED
    BY <1>7, <1>8, <2>1, <2>2, <2>3 DEF Goes
<1>9. \A r \in Shelf : \A i \in 1 .. Len(M[r]) :
        \/ i \in 1 .. Len(L[r]) /\ M[r][i] = L[r][i] /\ M[r][i] \in In(L)
        \/ r = p /\ i = Len(L[p]) + 1 /\ M[r][i] = t
  <2>. SUFFICES ASSUME NEW r \in Shelf, NEW i \in 1 .. Len(M[r])
                PROVE  \/ i \in 1 .. Len(L[r]) /\ M[r][i] = L[r][i] /\ M[r][i] \in In(L)
                       \/ r = p /\ i = Len(L[p]) + 1 /\ M[r][i] = t
    OBVIOUS
  <2>1. CASE i \in 1 .. Len(L[r])
    <3>1. M[r][i] = L[r][i]
      BY <1>6, <1>7, <2>1
    <3>. QED
      BY <2>1, <3>1, RowMembers
  <2>2. CASE i \notin 1 .. Len(L[r])
    <3>1. r = p
      BY <1>7, <2>2
    <3>2. i = Len(L[p]) + 1
      BY <1>2, <1>6, <1>7, <2>2, <3>1
    <3>. QED
      BY <1>6, <1>7, <3>1, <3>2
  <2>. QED
    BY <2>1, <2>2
<1>10. Apart(M)
  <2>. SUFFICES ASSUME NEW r \in Shelf, NEW k \in Shelf,
                       NEW i \in 1 .. Len(M[r]), NEW j \in 1 .. Len(M[k]),
                       M[r][i] = M[k][j]
                PROVE  r = k /\ i = j
    BY DEF Apart
  <2>1. CASE M[r][i] = t
    BY <1>9, <2>1
  <2>2. CASE M[r][i] # t
    <3>1. /\ i \in 1 .. Len(L[r]) /\ j \in 1 .. Len(L[k])
          /\ L[r][i] = L[k][j]
      BY <1>9, <2>2
    <3>. QED
      BY <3>1 DEF Lined, Apart
  <2>. QED
    BY <2>1, <2>2
<1>11. In(M) = In(L) \cup {t}
  <2>1. ASSUME NEW u \in In(M)
        PROVE  u \in In(L) \cup {t}
    <3>1. PICK r \in Shelf : \E i \in 1 .. Len(M[r]) : M[r][i] = u
      BY <2>1 DEF In
    <3>. QED
      BY <1>9, <3>1
  <2>2. ASSUME NEW u \in In(L)
        PROVE  u \in In(M)
    <3>1. PICK r \in Shelf : \E i \in 1 .. Len(L[r]) : L[r][i] = u
      BY <2>2 DEF In
    <3>2. PICK i \in 1 .. Len(L[r]) : L[r][i] = u
      BY <3>1
    <3>3. i \in 1 .. Len(M[r]) /\ M[r][i] = u
      <4>1. CASE r # p
        BY <1>7, <3>2, <4>1
      <4>2. CASE r = p
        <5>1. i \in 1 .. Len(L[p]) /\ i \in 1 .. Len(L[p]) + 1
          BY <1>2, <3>2, <4>2
        <5>. QED
          BY <1>6, <1>7, <3>2, <4>2, <5>1
      <4>. QED
        BY <4>1, <4>2
    <3>. QED
      BY <2>2, <3>3 DEF In
  <2>3. t \in In(M)
    <3>1. Len(L[p]) + 1 \in 1 .. Len(M[p]) /\ M[p][Len(L[p]) + 1] = t
      BY <1>2, <1>6, <1>7
    <3>. QED
      BY <1>1, <3>1 DEF In
  <2>. QED
    BY <2>1, <2>2, <2>3
<1>. QED
  BY <1>1, <1>6, <1>7, <1>8, <1>10, <1>11 DEF Lined, M

(***************************************************************************)
(* Appending (lines 218-247) to a priority queue whose tail is its last    *)
(* thread extends its row by one.                                          *)
(***************************************************************************)
LEMMA EnqueueLines ==
  ASSUME NEW q \in Queues, NEW L, Lined(q, L), NEW p \in Level, NEW t \in Thread,
         t \notin In(L), Tailed(q, L, p)
  PROVE  /\ Linking(q, Enqueue(q, p, t), L, p, t)
         /\ Enqueue(q, p, t) \in Queues
         /\ Enqueue(q, p, t).tail[p] = t
         /\ \A r \in Level : r # p => Enqueue(q, p, t).tail[r] = q.tail[r]
         /\ \A u \in Thread : u \notin In(L) /\ u # t =>
              Enqueue(q, p, t).next[u] = q.next[u]
<1>. DEFINE e == Enqueue(q, p, t)
<1>1. /\ p \in Shelf /\ L[p] \in Seq(Thread) /\ Len(L[p]) \in Nat
      /\ L[p] = << >> <=> Len(L[p]) = 0
      /\ \A u \in In(L) : u \in Thread
  BY Entries DEF Lined, Shelf, Level, In
<1>t. /\ q.next \in [Thread -> Thread \cup {Null}]
      /\ q.head \in [Level -> Thread \cup {Null}]
      /\ q.tail \in [Level -> Thread \cup {Null}]
      /\ q.running \in Thread \cup {Null}
      /\ q = [next |-> q.next, head |-> q.head, tail |-> q.tail, running |-> q.running]
  BY DEF Queues, QueuesOver
<1>2. CASE L[p] = << >>
  <2>1. q.tail[p] = Null
    BY <1>1, <1>2 DEF Tailed, Entry
  <2>2. e = [q EXCEPT !.head[p] = t, !.tail[p] = t, !.next[t] = Null]
    BY <2>1 DEF Enqueue
  <2>3. /\ e \in Queues /\ e.running = q.running
        /\ e.head = [q.head EXCEPT ![p] = t] /\ e.tail = [q.tail EXCEPT ![p] = t]
        /\ e.next = [q.next EXCEPT ![t] = Null]
    <3>. DEFINE nx == [q.next EXCEPT ![t] = Null]
                hd == [q.head EXCEPT ![p] = t]
                tl == [q.tail EXCEPT ![p] = t]
    <3>1. /\ nx \in [Thread -> Thread \cup {Null}]
          /\ hd \in [Level -> Thread \cup {Null}]
          /\ tl \in [Level -> Thread \cup {Null}]
      BY <1>t
    <3>2. e = [next |-> nx, head |-> hd, tail |-> tl, running |-> q.running]
      BY <1>t, <2>2
    <3>. HIDE DEF nx, hd, tl, e
    <3>3. /\ e \in Queues /\ e.running = q.running
          /\ e.head = hd /\ e.tail = tl /\ e.next = nx
      BY <1>t, <3>1, <3>2 DEF Queues, QueuesOver
    <3>. QED
      BY <3>3 DEF nx, hd, tl
  <2>. HIDE DEF e
  <2>. QED
    BY <1>1, <1>2, <2>3 DEF Linking, Queues, QueuesOver, e
<1>3. CASE L[p] # << >>
  <2>. DEFINE last == L[p][Len(L[p])]
  <2>1. /\ Len(L[p]) \in 1 .. Len(L[p]) /\ q.tail[p] = last /\ last # Null
        /\ last \in Thread
    BY <1>1, <1>3, Entries DEF Tailed
  <2>2. last \in In(L)
    BY <1>1, <2>1, RowMembers
  <2>. HIDE DEF last
  <2>3. e = [q EXCEPT !.next = [[@ EXCEPT ![last] = t] EXCEPT ![t] = Null],
                      !.tail[p] = t]
    BY <2>1 DEF Enqueue
  <2>4. /\ e \in Queues /\ e.running = q.running
        /\ e.head = q.head /\ e.tail = [q.tail EXCEPT ![p] = t]
        /\ e.next = [[q.next EXCEPT ![last] = t] EXCEPT ![t] = Null]
    <3>. DEFINE nx == [[q.next EXCEPT ![last] = t] EXCEPT ![t] = Null]
                tl == [q.tail EXCEPT ![p] = t]
    <3>1. /\ nx \in [Thread -> Thread \cup {Null}]
          /\ tl \in [Level -> Thread \cup {Null}]
      BY <1>t
    <3>2. e = [next |-> nx, head |-> q.head, tail |-> tl, running |-> q.running]
      BY <1>t, <2>3
    <3>. HIDE DEF nx, tl, e
    <3>3. /\ e \in Queues /\ e.running = q.running
          /\ e.head = q.head /\ e.tail = tl /\ e.next = nx
      BY <1>t, <3>1, <3>2 DEF Queues, QueuesOver
    <3>. QED
      BY <3>3 DEF nx, tl
  <2>. HIDE DEF e
  <2>5. \A u \in Thread : e.next[u] = IF u = t THEN Null
                                      ELSE IF u = last THEN t ELSE q.next[u]
    BY <2>1, <2>4 DEF Queues, QueuesOver
  <2>6. Linking(q, e, L, p, t)
    BY <1>1, <1>3, <2>2, <2>4, <2>5 DEF Linking, last
  <2>. QED
    BY <1>1, <2>2, <2>4, <2>5, <2>6 DEF Queues, QueuesOver, e
<1>. QED
  BY <1>2, <1>3

(***************************************************************************)
(* Putting a thread before the first of priority queue 0 (lines 168-169).  *)
(* The tail is left alone, so there has to be a first.                     *)
(***************************************************************************)
Pushed(L, t) == [L EXCEPT ![0] = << t >> \o L[0]]

(***************************************************************************)
(* The thread that is put there is the head, and the lists are still well  *)
(* formed.                                                                 *)
(***************************************************************************)
LEMMA PushLines ==
  ASSUME NEW q \in Queues, NEW L, Lined(q, L), NEW t \in Thread, t \notin In(L),
         L[0] # << >>, Tailed(q, L, 0)
  PROVE  /\ Push(q, t) \in Queues
         /\ Lined(Push(q, t), Pushed(L, t))
         /\ In(Pushed(L, t)) = In(L) \cup {t}
         /\ \A p \in Shelf : p # 0 => Pushed(L, t)[p] = L[p]
         /\ Tailed(Push(q, t), Pushed(L, t), 0)
         /\ Push(q, t).tail = q.tail /\ Push(q, t).running = q.running
         /\ Push(q, t).head[0] = t
         /\ \A u \in Thread : u # t => Push(q, t).next[u] = q.next[u]
         /\ \A i \in 1 .. Len(Pushed(L, t)[0]) :
              Pushed(L, t)[0][i] = t \/ \E j \in 1 .. Len(L[0]) : Pushed(L, t)[0][i] = L[0][j]
<1>. DEFINE M == Pushed(L, t)
            e == Push(q, t)
            a == << t >> \o L[0]
            old(p, i) == IF p = 0 THEN i - 1 ELSE i
<1>1. /\ 0 \in Shelf /\ 0 \in Level /\ L \in [Shelf -> Seq(Thread)] /\ L[0] \in Seq(Thread)
      /\ Goes(q.next, q.head[0], L[0])
  BY DEF Lined, Shelf, Level, First
<1>2. /\ e \in Queues /\ e.running = q.running /\ e.tail = q.tail
      /\ e.next = [q.next EXCEPT ![t] = q.head[0]]
      /\ e.head = [q.head EXCEPT ![0] = t]
  <2>1. /\ q.next \in [Thread -> Thread \cup {Null}]
        /\ q.head \in [Level -> Thread \cup {Null}]
        /\ q.tail \in [Level -> Thread \cup {Null}]
        /\ q.running \in Thread \cup {Null}
        /\ q = [next |-> q.next, head |-> q.head, tail |-> q.tail, running |-> q.running]
    BY DEF Queues, QueuesOver
  <2>. DEFINE nx == [q.next EXCEPT ![t] = q.head[0]]
              hd == [q.head EXCEPT ![0] = t]
  <2>2. nx \in [Thread -> Thread \cup {Null}] /\ hd \in [Level -> Thread \cup {Null}]
    BY <1>1, <2>1
  <2>3. e = [next |-> nx, head |-> hd, tail |-> q.tail, running |-> q.running]
    <3>1. e = [q EXCEPT !.next[t] = q.head[0], !.head[0] = t]
      BY DEF Push
    <3>. QED
      BY <2>1, <3>1
  <2>. HIDE DEF nx, hd, e
  <2>4. /\ e \in Queues /\ e.running = q.running /\ e.tail = q.tail
        /\ e.next = nx /\ e.head = hd
    BY <2>1, <2>2, <2>3 DEF Queues, QueuesOver
  <2>. QED
    BY <2>4 DEF nx, hd
<1>. HIDE DEF e
<1>3. /\ e.next[t] = q.head[0] /\ e.head[0] = t
      /\ \A u \in Thread : u # t => e.next[u] = q.next[u]
      /\ \A p \in Level : p # 0 => e.head[p] = q.head[p]
  BY <1>1, <1>2 DEF Queues, QueuesOver
<1>4. ASSUME NEW p \in Shelf, NEW i \in 1 .. Len(L[p])
      PROVE  L[p][i] \in In(L) /\ L[p][i] # t /\ e.next[L[p][i]] = q.next[L[p][i]]
  BY <1>3, RowMembers
<1>5. /\ a \in Seq(Thread) /\ Len(a) = Len(L[0]) + 1 /\ a[1] = t
      /\ \A i \in 2 .. Len(L[0]) + 1 : a[i] = L[0][i - 1]
      /\ Goes(e.next, t, a)
  <2>1. \A i \in 1 .. Len(L[0]) : e.next[L[0][i]] = q.next[L[0][i]]
    BY <1>1, <1>4
  <2>2. e.next[t] = q.head[0]
    BY <1>3
  <2>3. L[0] \in Seq(Thread) /\ Goes(q.next, q.head[0], L[0])
    BY <1>1
  <2>. QED
    BY <2>1, <2>2, <2>3, PushRow
<1>. HIDE DEF a
<1>6. /\ M \in [Shelf -> Seq(Thread)] /\ M[0] = a
      /\ \A p \in Shelf : p # 0 => M[p] = L[p]
  BY <1>1, <1>5 DEF Pushed, a
<1>. HIDE DEF M
<1>7. Len(L[0]) \in Nat \ {0}
  BY <1>1, Entries
<1>8. ASSUME NEW p \in Shelf, NEW i \in 1 .. Len(M[p])
      PROVE  \/ p = 0 /\ i = 1 /\ M[p][i] = t
             \/ /\ old(p, i) \in 1 .. Len(L[p]) /\ M[p][i] = L[p][old(p, i)]
                /\ M[p][i] \in In(L)
  <2>1. CASE p = 0 /\ i = 1
    BY <1>5, <1>6, <2>1
  <2>2. CASE p = 0 /\ i # 1
    <3>1. i \in 2 .. Len(L[0]) + 1 /\ i - 1 \in 1 .. Len(L[0])
      BY <1>5, <1>6, <1>7, <2>2
    <3>2. M[p][i] = L[p][i - 1]
      BY <1>5, <1>6, <2>2, <3>1
    <3>. QED
      BY <1>4, <2>2, <3>1, <3>2
  <2>3. CASE p # 0
    BY <1>4, <1>6, <2>3
  <2>. QED
    BY <2>1, <2>2, <2>3
<1>9. Apart(M)
  <2>. SUFFICES ASSUME NEW p \in Shelf, NEW r \in Shelf,
                       NEW i \in 1 .. Len(M[p]), NEW j \in 1 .. Len(M[r]),
                       M[p][i] = M[r][j]
                PROVE  p = r /\ i = j
    BY DEF Apart
  <2>1. CASE M[p][i] = t
    <3>. HIDE DEF old
    <3>1. p = 0 /\ i = 1
      BY <1>8, <2>1
    <3>2. M[r][j] = t
      BY <2>1
    <3>3. r = 0 /\ j = 1
      BY <1>8, <3>2
    <3>. QED
      BY <3>1, <3>3
  <2>2. CASE M[p][i] # t
    <3>1. /\ old(p, i) \in 1 .. Len(L[p]) /\ old(r, j) \in 1 .. Len(L[r])
          /\ L[p][old(p, i)] = L[r][old(r, j)]
      BY <1>8, <2>2
    <3>2. p = r /\ old(p, i) = old(r, j)
      <4>. HIDE DEF old
      <4>. QED
        BY <3>1 DEF Lined, Apart
    <3>. QED
      BY <3>2
  <2>. QED
    BY <2>1, <2>2
<1>10. ASSUME NEW p \in Shelf
       PROVE  Goes(e.next, First(e, p), M[p])
  <2>1. CASE p = 0
    BY <1>3, <1>5, <1>6, <2>1 DEF First
  <2>2. CASE p # 0
    <3>1. First(e, p) = First(q, p)
      BY <1>2, <1>3, <2>2 DEF First, Shelf, Level
    <3>2. Goes(q.next, First(q, p), L[p])
      BY DEF Lined
    <3>. QED
      BY <1>4, <1>6, <2>2, <3>1, <3>2 DEF Goes
  <2>. QED
    BY <2>1, <2>2
<1>11. In(M) = In(L) \cup {t}
  <2>1. ASSUME NEW u \in In(M)
        PROVE  u \in In(L) \cup {t}
    <3>1. PICK p \in Shelf : \E i \in 1 .. Len(M[p]) : M[p][i] = u
      BY <2>1 DEF In
    <3>. QED
      BY <1>8, <3>1
  <2>2. ASSUME NEW u \in In(L)
        PROVE  u \in In(M)
    <3>1. PICK p \in Shelf : \E i \in 1 .. Len(L[p]) : L[p][i] = u
      BY <2>2 DEF In
    <3>2. PICK i \in 1 .. Len(L[p]) : L[p][i] = u
      BY <3>1
    <3>3. CASE p = 0
      <4>1. i + 1 \in 1 .. Len(M[0]) /\ i + 1 \in 2 .. Len(L[0]) + 1 /\ (i + 1) - 1 = i
        BY <1>5, <1>6, <1>7, <3>2, <3>3
      <4>2. M[0][i + 1] = L[0][i]
        BY <1>5, <1>6, <4>1
      <4>. QED
        BY <1>1, <2>2, <3>2, <3>3, <4>1, <4>2 DEF In
    <3>4. CASE p # 0
      BY <1>6, <2>2, <3>2, <3>4 DEF In
    <3>. QED
      BY <3>3, <3>4
  <2>3. t \in In(M)
    <3>1. 1 \in 1 .. Len(M[0]) /\ M[0][1] = t
      BY <1>5, <1>6, <1>7
    <3>. QED
      BY <1>1, <3>1 DEF In
  <2>. QED
    BY <2>1, <2>2, <2>3
<1>12. Tailed(e, M, 0)
  <2>1. q.tail[0] = L[0][Len(L[0])]
    BY <1>7 DEF Tailed, Entry
  <2>2. /\ Len(M[0]) = Len(L[0]) + 1 /\ Len(M[0]) \in 1 .. Len(M[0])
        /\ Len(M[0]) \in 2 .. Len(L[0]) + 1 /\ Len(M[0]) - 1 = Len(L[0])
    BY <1>5, <1>6, <1>7
  <2>3. M[0][Len(M[0])] = L[0][Len(L[0])]
    BY <1>5, <1>6, <2>2
  <2>. QED
    BY <1>2, <2>1, <2>2, <2>3 DEF Tailed, Entry
<1>13. \A i \in 1 .. Len(M[0]) :
         M[0][i] = t \/ \E j \in 1 .. Len(L[0]) : M[0][i] = L[0][j]
  BY <1>1, <1>8
<1>. QED
  BY <1>2, <1>3, <1>6, <1>9, <1>10, <1>11, <1>12, <1>13 DEF Lined, M, e

-----------------------------------------------------------------------------
(***************************************************************************)
(* The tally when all the threads that wait fit the running queue: every   *)
(* one of them is taken, and the second pass, having nothing left to look  *)
(* at, does not spin.                                                      *)
(***************************************************************************)

(* More threads, or longer slices, do not take less time.                  *)
LEMMA TimesGrows ==
  ASSUME NEW a \in Nat, NEW d \in Nat, NEW x \in Nat, a <= d
  PROVE  a * x <= d * x /\ x * a <= x * d
<1>1. PICK e \in Nat : d = a + e
  <2>1. d - a \in Nat /\ d = a + (d - a)
    OBVIOUS
  <2>. QED
    BY <2>1
<1>2. d * x = a * x + e * x /\ a * x \in Nat /\ e * x \in Nat
  BY <1>1
<1>3. x * d = d * x /\ x * a = a * x
  OBVIOUS
<1>. HIDE <1>1
<1>. QED
  BY <1>2, <1>3

(* Fewer threads of each priority take no more time.                       *)
LEMMA SpentGrows ==
  ASSUME NEW n \in Counts, NEW m \in Counts, \A p \in Level : n[p] <= m[p]
  PROVE  Spent(n) <= Spent(m)
<1>1. \A p \in Level : n[p] \in Nat /\ m[p] \in Nat /\ Quantum[p] \in Nat
  BY QuantumAssumption DEF Counts
<1>2. \A p \in Level : Quantum[p] * n[p] <= Quantum[p] * m[p]
  BY <1>1, TimesGrows
<1>3. \A p \in Level : Quantum[p] * n[p] \in Nat /\ Quantum[p] * m[p] \in Nat
  BY <1>1, TimesNat
<1>. QED
  BY <1>2, <1>3 DEF Spent, Level

(* A division by a slice leaves room for as many as fit.                   *)
LEMMA DivFits ==
  ASSUME NEW a \in Nat, NEW b \in Nat \ {0}, NEW k \in Nat, b * k <= a
  PROVE  k <= a \div b
<1>1. a \div b \in Nat /\ a % b \in 0 .. b - 1 /\ a = b * (a \div b) + (a % b)
  OBVIOUS
<1>. DEFINE d == a \div b
            r == a % b
<1>. HIDE DEF d, r
<1>2. d \in Nat /\ r \in 0 .. b - 1 /\ a = b * d + r
  BY <1>1 DEF d, r
<1>3. ASSUME d + 1 <= k
      PROVE  FALSE
  <2>1. b * (d + 1) <= b * k
    BY <1>2, <1>3, TimesGrows
  <2>2. b * (d + 1) = b * d + b
    BY <1>2
  <2>3. b * d \in Nat /\ b * k \in Nat
    BY <1>2, TimesNat
  <2>. QED
    BY <1>2, <2>1, <2>2, <2>3
<1>. QED
  BY <1>2, <1>3 DEF d

(* The first pass leaves no thread of priority 0 behind.                   *)
LEMMA FirstPassTakesZero ==
  ASSUME NEW len \in Counts, Spent(len) <= Budget
  PROVE  FirstPass(len)[0] = len[0]
<1>. DEFINE one  == Lesser(2, len[1])
            two  == Lesser(1, len[2])
            used == Quantum[1] * one + Quantum[2] * two
            n    == [p \in Level |-> IF p = 0 THEN len[0] ELSE IF p = 1 THEN one ELSE two]
<1>1. /\ len[0] \in Nat /\ len[1] \in Nat /\ len[2] \in Nat /\ N \in Nat
      /\ Quantum[0] \in Nat \ {0} /\ Quantum[1] \in Nat /\ Quantum[2] \in Nat
      /\ Budget \in Nat /\ 0 \in Level /\ 1 \in Level /\ 2 \in Level
  BY QuantumAssumption, ThreadAssumption, LimitAssumption DEF Level, Counts
<1>2. one \in Nat /\ one <= len[1] /\ two \in Nat /\ two <= len[2]
  BY <1>1 DEF Lesser
<1>3. FirstPass(len)[0]
        = Lesser(len[0], (Room(used) + Quantum[0] - 1) \div Quantum[0])
  BY <1>1 DEF FirstPass
<1>. HIDE DEF one, two
<1>4. /\ n \in Counts /\ n[0] = len[0] /\ n[1] = one /\ n[2] = two
  BY <1>1, <1>2 DEF Counts
<1>5. Spent(n) <= Budget
  <2>. HIDE DEF n
  <2>1. \A p \in Level : n[p] <= len[p]
    BY <1>1, <1>2, <1>4 DEF Level
  <2>2. Spent(n) <= Spent(len)
    BY <1>4, <2>1, SpentGrows
  <2>. QED
    BY <1>1, <1>4, <2>2, SpentNat
<1>6. /\ Quantum[0] * len[0] \in Nat /\ Quantum[1] * one \in Nat
      /\ Quantum[2] * two \in Nat
  BY <1>1, <1>2, TimesNat
<1>7. Spent(n) = Quantum[0] * len[0] + Quantum[1] * one + Quantum[2] * two
  BY <1>4 DEF Spent
<1>8. Room(used) \in Nat /\ Quantum[0] * len[0] <= Room(used)
  <2>. DEFINE x == Quantum[0] * len[0]
              y == Quantum[1] * one
              z == Quantum[2] * two
  <2>1. x \in Nat /\ y \in Nat /\ z \in Nat /\ x + y + z <= Budget /\ used = y + z
    BY <1>5, <1>6, <1>7
  <2>. HIDE DEF x, y, z, used
  <2>2. Room(used) \in Nat /\ x <= Room(used)
    BY <1>1, <2>1 DEF Room
  <2>. QED
    BY <2>2 DEF x
<1>. HIDE DEF used
<1>9. len[0] <= (Room(used) + Quantum[0] - 1) \div Quantum[0]
  <2>1. /\ Room(used) + Quantum[0] - 1 \in Nat
        /\ Quantum[0] * len[0] <= Room(used) + Quantum[0] - 1
    BY <1>1, <1>6, <1>8
  <2>. QED
    BY <1>1, <2>1, DivFits
<1>. QED
  BY <1>3, <1>9 DEF Lesser

(* The second pass takes all that is left of priority p.                   *)
LEMMA RefillTakesAll ==
  ASSUME NEW len \in Counts, Spent(len) <= Budget,
         NEW n, Within(n, len), NEW p \in Level
  PROVE  /\ Refill(len, n, p)[p] = len[p]
         /\ \A r \in Level : r # p => Refill(len, n, p)[r] = n[r]
<1>. DEFINE m == [n EXCEPT ![p] = len[p]]
            k == len[p] - n[p]
<1>1. /\ n \in Counts /\ n[p] \in Nat /\ len[p] \in Nat /\ n[p] <= len[p]
      /\ Quantum[p] \in Nat \ {0} /\ Budget \in Nat /\ N \in Nat
      /\ 0 \in Level /\ 1 \in Level /\ 2 \in Level
      /\ \A r \in Level : n[r] \in Nat /\ len[r] \in Nat /\ n[r] <= len[r]
  BY QuantumAssumption, LimitAssumption, ThreadAssumption DEF Within, Counts, Level
<1>2. k \in Nat
  BY <1>1
<1>3. /\ m \in Counts /\ m[p] = len[p] /\ \A r \in Level : r # p => m[r] = n[r]
  BY <1>1 DEF Counts
<1>. HIDE DEF m
<1>4. Spent(m) <= Budget
  <2>1. \A r \in Level : m[r] <= len[r]
    BY <1>1, <1>3
  <2>2. Spent(m) <= Spent(len)
    BY <1>3, <2>1, SpentGrows
  <2>. QED
    BY <1>1, <1>3, <2>2, SpentNat
<1>5. Spent(m) = Spent(n) + Quantum[p] * k
  <2>1. Quantum[p] * m[p] = Quantum[p] * n[p] + Quantum[p] * k
    BY <1>1, <1>2, <1>3
  <2>2. \A r \in Level : /\ Quantum[r] \in Nat /\ Quantum[r] * n[r] \in Nat
                         /\ Quantum[r] * m[r] \in Nat
    BY <1>1, <1>3, QuantumAssumption, TimesNat DEF Counts
  <2>3. \A r \in Level : r # p => Quantum[r] * m[r] = Quantum[r] * n[r]
    BY <1>3
  <2>4. Quantum[p] * k \in Nat
    BY <1>1, <1>2, TimesNat
  <2>. HIDE DEF k
  <2>. QED
    BY <1>1, <2>1, <2>2, <2>3, <2>4 DEF Spent, Level
<1>6. Spent(n) \in Nat /\ Quantum[p] * k \in Nat
  BY <1>1, <1>2, SpentNat, TimesNat
<1>7. Room(Spent(n)) \in Nat /\ Quantum[p] * k <= Room(Spent(n))
  <2>. DEFINE x == Quantum[p] * k
              s == Spent(n)
  <2>1. x \in Nat /\ s \in Nat /\ s + x <= Budget
    BY <1>4, <1>5, <1>6
  <2>. HIDE DEF x, s
  <2>2. Room(s) \in Nat /\ x <= Room(s)
    BY <1>1, <2>1 DEF Room
  <2>. QED
    BY <2>2 DEF x, s
<1>. DEFINE fit == Room(Spent(n)) \div Quantum[p]
<1>8. k <= fit
  <2>. HIDE DEF k
  <2>. QED
    BY <1>1, <1>2, <1>7, DivFits
<1>. HIDE DEF fit
<1>9. Lesser(k, fit) = k
  BY <1>8 DEF Lesser
<1>10. Refill(len, n, p) = [n EXCEPT ![p] = n[p] + Lesser(k, fit)]
  BY DEF Refill, fit
<1>11. n[p] + Lesser(k, fit) = len[p]
  BY <1>1, <1>9
<1>. QED
  BY <1>1, <1>10, <1>11 DEF Counts

(***************************************************************************)
(* When there is room for all who wait, createRunningQueue takes everyone  *)
(* and does not spin (lines 359-399).                                      *)
(***************************************************************************)
THEOREM TallyTakesAll ==
  ASSUME NEW len \in Counts, Spent(len) <= Budget
  PROVE  Tally(len) \in Counts /\ (\A p \in Level : Tally(len)[p] = len[p]) /\ ~Spins(len)
<1>1. 0 \in Level /\ 1 \in Level /\ 2 \in Level
  BY DEF Level
<1>2. Within(FirstPass(len), len) /\ FirstPass(len)[0] = len[0]
  BY FirstPassWithin, FirstPassTakesZero
<1>3. /\ Within(SecondPass(len), len)
      /\ SecondPass(len)[1] = len[1] /\ SecondPass(len)[0] = len[0]
  BY <1>1, <1>2, RefillWithin, RefillTakesAll DEF SecondPass
<1>4. /\ Within(Tally(len), len)
      /\ Tally(len)[2] = len[2] /\ Tally(len)[1] = len[1] /\ Tally(len)[0] = len[0]
  BY <1>1, <1>3, RefillWithin, RefillTakesAll DEF Tally
<1>5. ~(len[1] > SecondPass(len)[1]) /\ ~(len[2] > Tally(len)[2])
  <2>1. len[1] \in Nat /\ len[2] \in Nat
    BY <1>1 DEF Counts
  <2>. QED
    BY <1>3, <1>4, <2>1
<1>. QED
  BY <1>4, <1>5 DEF Within, Level, Spins, SpinsAt

-----------------------------------------------------------------------------
(***************************************************************************)
(* createRunningQueue, the load, when every thread is taken: the running   *)
(* queue is the three priority queues one behind the other.                *)
(***************************************************************************)
Joined(L)     == (L[0] \o L[1]) \o L[2]
Loaded(L)     == [p \in Shelf |-> IF p = 3 THEN Joined(L) ELSE << >>]
Before(L, p)  == IF p = 0 THEN 0 ELSE IF p = 1 THEN Len(L[0]) ELSE Len(L[0]) + Len(L[1])
Part(L, i)    == IF i <= Len(L[0]) THEN 0
                 ELSE IF i <= Len(L[0]) + Len(L[1]) THEN 1 ELSE 2

(***************************************************************************)
(* Where the i-th thread of the new running queue comes from, and where    *)
(* the j-th of priority queue p goes (lines 404-454).                      *)
(***************************************************************************)
LEMMA JoinedRows ==
  ASSUME NEW L \in [Shelf -> Seq(Thread)]
  PROVE  /\ Joined(L) \in Seq(Thread)
         /\ Len(Joined(L)) = Len(L[0]) + Len(L[1]) + Len(L[2])
         /\ \A i \in 1 .. Len(Joined(L)) :
              /\ Part(L, i) \in Level
              /\ i - Before(L, Part(L, i)) \in 1 .. Len(L[Part(L, i)])
              /\ Joined(L)[i] = L[Part(L, i)][i - Before(L, Part(L, i))]
         /\ \A p \in Level : \A j \in 1 .. Len(L[p]) :
              /\ j + Before(L, p) \in 1 .. Len(Joined(L))
              /\ Part(L, j + Before(L, p)) = p
         /\ \A i, j \in 1 .. Len(Joined(L)) : i <= j => Part(L, i) <= Part(L, j)
<1>. DEFINE a == Len(L[0])
            b == Len(L[1])
            c == Len(L[2])
<1>1. /\ L[0] \in Seq(Thread) /\ L[1] \in Seq(Thread) /\ L[2] \in Seq(Thread)
      /\ a \in Nat /\ b \in Nat /\ c \in Nat
  BY LenProperties DEF Shelf
<1>2. /\ L[0] \o L[1] \in Seq(Thread) /\ Len(L[0] \o L[1]) = a + b
      /\ \A i \in 1 .. a + b : (L[0] \o L[1])[i] = IF i <= a THEN L[0][i] ELSE L[1][i - a]
  BY <1>1, ConcatProperties
<1>3. /\ Joined(L) \in Seq(Thread) /\ Len(Joined(L)) = a + b + c
      /\ \A i \in 1 .. a + b + c :
           Joined(L)[i] = IF i <= a + b THEN (L[0] \o L[1])[i] ELSE L[2][i - (a + b)]
  <2>. DEFINE ab == L[0] \o L[1]
  <2>1. ab \in Seq(Thread) /\ Len(ab) = a + b /\ Joined(L) = ab \o L[2]
    BY <1>2 DEF Joined
  <2>2. /\ ab \o L[2] \in Seq(Thread) /\ Len(ab \o L[2]) = Len(ab) + c
        /\ \A i \in 1 .. Len(ab) + c :
             (ab \o L[2])[i] = IF i <= Len(ab) THEN ab[i] ELSE L[2][i - Len(ab)]
    <3>1. ab \in Seq(Thread) /\ L[2] \in Seq(Thread)
      BY <1>1, <2>1
    <3>. HIDE DEF ab
    <3>. QED
      BY <3>1, ConcatProperties
  <2>. HIDE DEF ab, a, b, c
  <2>3. /\ Joined(L) \in Seq(Thread) /\ Len(Joined(L)) = a + b + c
        /\ \A i \in 1 .. a + b + c :
             Joined(L)[i] = IF i <= a + b THEN ab[i] ELSE L[2][i - (a + b)]
    BY <2>1, <2>2
  <2>. QED
    BY <2>3 DEF ab
<1>4. /\ Before(L, 0) = 0 /\ Before(L, 1) = a /\ Before(L, 2) = a + b
      /\ \A i : Part(L, i) = IF i <= a THEN 0 ELSE IF i <= a + b THEN 1 ELSE 2
  BY DEF Before, Part
<1>. HIDE DEF a, b, c
<1>5. ASSUME NEW i \in 1 .. Len(Joined(L))
      PROVE  /\ Part(L, i) \in Level
             /\ i - Before(L, Part(L, i)) \in 1 .. Len(L[Part(L, i)])
             /\ Joined(L)[i] = L[Part(L, i)][i - Before(L, Part(L, i))]
  <2>0. i \in 1 .. a + b + c
    BY <1>3
  <2>1. CASE i <= a
    <3>1. Part(L, i) = 0 /\ i \in 1 .. a /\ i \in 1 .. a + b /\ i <= a + b /\ i - 0 = i
      BY <1>1, <1>4, <2>0, <2>1
    <3>2. Joined(L)[i] = L[0][i]
      BY <1>2, <1>3, <2>0, <2>1, <3>1
    <3>. QED
      BY <1>4, <3>1, <3>2 DEF a, Level
  <2>2. CASE ~(i <= a) /\ i <= a + b
    <3>1. Part(L, i) = 1 /\ i \in 1 .. a + b /\ i - a \in 1 .. b
      BY <1>1, <1>4, <2>0, <2>2
    <3>2. Joined(L)[i] = L[1][i - a]
      BY <1>2, <1>3, <2>0, <2>2, <3>1
    <3>. QED
      BY <1>4, <3>1, <3>2 DEF b, Level
  <2>3. CASE ~(i <= a) /\ ~(i <= a + b)
    <3>1. Part(L, i) = 2 /\ i - (a + b) \in 1 .. c
      BY <1>1, <1>4, <2>0, <2>3
    <3>2. Joined(L)[i] = L[2][i - (a + b)]
      BY <1>3, <2>0, <2>3
    <3>. QED
      BY <1>4, <3>1, <3>2 DEF c, Level
  <2>4. (i <= a) \/ ~(i <= a)
    OBVIOUS
  <2>5. (i <= a + b) \/ ~(i <= a + b)
    OBVIOUS
  <2>6. i <= a \/ (~(i <= a) /\ i <= a + b) \/ (~(i <= a) /\ ~(i <= a + b))
    BY <2>4, <2>5
  <2>. QED
    BY <2>1, <2>2, <2>3, <2>6
<1>6. ASSUME NEW p \in Level, NEW j \in 1 .. Len(L[p])
      PROVE  /\ j + Before(L, p) \in 1 .. Len(Joined(L))
             /\ Part(L, j + Before(L, p)) = p
  <2>1. CASE p = 0
    BY <1>1, <1>3, <1>4, <2>1 DEF a
  <2>2. CASE p = 1
    <3>1. j \in 1 .. b
      BY <2>2 DEF b
    <3>2. j + a \in 1 .. a + b + c /\ ~(j + a <= a) /\ j + a <= a + b
      BY <1>1, <3>1
    <3>. QED
      BY <1>3, <1>4, <2>2, <3>2
  <2>3. CASE p = 2
    <3>1. j \in 1 .. c
      BY <2>3 DEF c
    <3>2. /\ j + (a + b) \in 1 .. a + b + c
          /\ ~(j + (a + b) <= a) /\ ~(j + (a + b) <= a + b)
      BY <1>1, <3>1
    <3>. QED
      BY <1>3, <1>4, <2>3, <3>2
  <2>. QED
    BY <2>1, <2>2, <2>3 DEF Level
<1>7. ASSUME NEW i \in 1 .. Len(Joined(L)), NEW j \in 1 .. Len(Joined(L)), i <= j
      PROVE  Part(L, i) <= Part(L, j)
  <2>1. i \in Int /\ j \in Int /\ (j <= a => i <= a) /\ (j <= a + b => i <= a + b)
    BY <1>1, <1>3, <1>7
  <2>. QED
    BY <1>4, <2>1
<1>. QED
  BY <1>3, <1>5, <1>6, <1>7 DEF a, b, c

(* The new running queue meets no thread twice.                            *)
LEMMA JoinedApart ==
  ASSUME NEW L \in [Shelf -> Seq(Thread)], Apart(L),
         NEW i \in 1 .. Len(Joined(L)), NEW j \in 1 .. Len(Joined(L)),
         Joined(L)[i] = Joined(L)[j]
  PROVE  i = j
<1>. DEFINE p == Part(L, i)
            r == Part(L, j)
            x == i - Before(L, p)
            y == j - Before(L, r)
<1>1. /\ p \in Level /\ r \in Level
      /\ x \in 1 .. Len(L[p]) /\ y \in 1 .. Len(L[r]) /\ L[p][x] = L[r][y]
  BY JoinedRows
<1>2. p \in Shelf /\ r \in Shelf
  BY <1>1 DEF Level, Shelf
<1>3. p = r /\ x = y
  <2>. HIDE DEF p, r, x, y
  <2>. QED
    BY <1>1, <1>2 DEF Apart
<1>4. Before(L, p) \in Int /\ i \in Int /\ j \in Int
  <2>1. Len(L[0]) \in Nat /\ Len(L[1]) \in Nat
    BY LenProperties DEF Shelf
  <2>. QED
    BY <2>1 DEF Before
<1>. QED
  BY <1>3, <1>4

(* The last thread of the new running queue is the last of its old one.    *)
LEMMA JoinedLast ==
  ASSUME NEW L \in [Shelf -> Seq(Thread)], Joined(L) # << >>
  PROVE  LET k == Len(Joined(L))
             p == Part(L, k)
         IN  k \in 1 .. k /\ p \in Level /\ k - Before(L, p) = Len(L[p])
<1>. DEFINE k == Len(Joined(L))
            a == Len(L[0])
            b == Len(L[1])
            c == Len(L[2])
<1>1. k \in 1 .. k
  <2>1. Joined(L) \in Seq(Thread)
    BY JoinedRows
  <2>2. k \in Nat \ {0}
    BY <2>1, EmptySeq
  <2>. HIDE DEF k
  <2>. QED
    BY <2>2
<1>2. a \in Nat /\ b \in Nat /\ c \in Nat
  BY LenProperties DEF Shelf
<1>3. k = a + b + c
  BY JoinedRows
<1>4. /\ Before(L, 0) = 0 /\ Before(L, 1) = a /\ Before(L, 2) = a + b
      /\ Part(L, k) = IF k <= a THEN 0 ELSE IF k <= a + b THEN 1 ELSE 2
  BY DEF Before, Part
<1>. HIDE DEF k, a, b, c
<1>5. \/ Part(L, k) = 0 /\ k - 0 = a
      \/ Part(L, k) = 1 /\ k - a = b
      \/ Part(L, k) = 2 /\ k - (a + b) = c
  BY <1>2, <1>3, <1>4
<1>6. Part(L, k) \in Level /\ k - Before(L, Part(L, k)) = Len(L[Part(L, k)])
  <2>1. 0 \in Level /\ 1 \in Level /\ 2 \in Level
    BY DEF Level
  <2>2. a = Len(L[0]) /\ b = Len(L[1]) /\ c = Len(L[2])
    BY DEF a, b, c
  <2>3. CASE Part(L, k) = 0 /\ k - 0 = a
    BY <1>4, <2>1, <2>2, <2>3
  <2>4. CASE Part(L, k) = 1 /\ k - a = b
    BY <1>4, <2>1, <2>2, <2>4
  <2>5. CASE Part(L, k) = 2 /\ k - (a + b) = c
    BY <1>4, <2>1, <2>2, <2>5
  <2>. QED
    BY <1>5, <2>3, <2>4, <2>5
<1>. QED
  BY <1>1, <1>6 DEF k

(* Each thread of a row that is linked along points to the next.           *)
LEMMA LinkAlongRow ==
  ASSUME NEW next, NEW run \in Seq(Thread),
         \A i, j \in 1 .. Len(run) : run[i] = run[j] => i = j
  PROVE  /\ \A i \in 1 .. Len(run) :
              LinkAlong(next, run)[run[i]]
                = IF i = Len(run) THEN next[run[i]] ELSE run[i + 1]
         /\ \A u \in Thread : (\A i \in 1 .. Len(run) : run[i] # u) =>
              LinkAlong(next, run)[u] = next[u]
<1>0. Len(run) \in Nat
  BY LenProperties
<1>1. ASSUME NEW u \in Thread
      PROVE  LinkAlong(next, run)[u]
               = IF \E i \in 1 .. Len(run) - 1 : run[i] = u
                 THEN run[1 + CHOOSE i \in 1 .. Len(run) - 1 : run[i] = u]
                 ELSE next[u]
  BY DEF LinkAlong
<1>2. ASSUME NEW i \in 1 .. Len(run)
      PROVE  LinkAlong(next, run)[run[i]]
               = IF i = Len(run) THEN next[run[i]] ELSE run[i + 1]
  <2>. DEFINE k == CHOOSE j \in 1 .. Len(run) - 1 : run[j] = run[i]
  <2>0. run[i] \in Thread
    BY ElementOfSeq
  <2>1. CASE i = Len(run)
    <3>1. ~ \E j \in 1 .. Len(run) - 1 : run[j] = run[i]
      <4>1. ASSUME NEW j \in 1 .. Len(run) - 1 PROVE run[j] # run[i]
        <5>1. j \in 1 .. Len(run) /\ j # i
          BY <1>0, <2>1
        <5>. QED
          BY <5>1
      <4>. QED
        BY <4>1
    <3>. QED
      BY <1>1, <2>0, <2>1, <3>1
  <2>2. CASE i # Len(run)
    <3>1. i \in 1 .. Len(run) - 1
      BY <1>0, <2>2
    <3>2. k \in 1 .. Len(run) - 1 /\ run[k] = run[i]
      BY <3>1
    <3>3. LinkAlong(next, run)[run[i]] = run[1 + k]
      BY <1>1, <2>0, <3>1
    <3>. HIDE DEF k
    <3>4. k \in 1 .. Len(run)
      BY <1>0, <3>2
    <3>5. k = i
      BY <3>2, <3>4
    <3>6. 1 + k = i + 1
      BY <3>5
    <3>. QED
      BY <2>2, <3>3, <3>6
  <2>. QED
    BY <2>1, <2>2
<1>3. ASSUME NEW u \in Thread, \A i \in 1 .. Len(run) : run[i] # u
      PROVE  LinkAlong(next, run)[u] = next[u]
  <2>1. ~ \E i \in 1 .. Len(run) - 1 : run[i] = u
    <3>1. \A i \in 1 .. Len(run) - 1 : i \in 1 .. Len(run)
      BY <1>0
    <3>. QED
      BY <1>3, <3>1
  <2>. QED
    BY <1>1, <2>1
<1>. QED
  BY <1>2, <1>3

(***************************************************************************)
(* createRunningQueue (lines 333-457) on well formed queues with room for  *)
(* all who wait.  The next field of the last thread taken is not stored    *)
(* to; it is NULL because this thread was the last of its own queue, which *)
(* needs that everyone is taken.                                           *)
(***************************************************************************)
THEOREM LoadLines ==
  ASSUME NEW q \in Queues, NEW L, Lined(q, L), L[3] = << >>,
         Spent([p \in Level |-> Len(L[p])]) <= Budget,
         \A p \in Level : Tailed(q, L, p), ~AllEmpty(q)
  PROVE  /\ ~Spins(Lengths(q))
         /\ Lined(Load(q), Loaded(L))
         /\ In(Loaded(L)) = In(L)
         /\ \A p \in Level : Tailed(Load(q), Loaded(L), p)
         /\ Loaded(L)[3] = Joined(L) /\ \A p \in Level : Loaded(L)[p] = << >>
         /\ Loaded(L)[3] # << >>
         /\ \A u \in Thread : u \notin In(L) => Load(q).next[u] = q.next[u]
<1>. DEFINE list == Lists(q)
            len  == [p \in Level |-> Len(list[p])]
            n    == Tally(len)
            run  == Joined(L)
            M    == Loaded(L)
            e    == Load(q)
<1>1. /\ L \in [Shelf -> Seq(Thread)] /\ Apart(L) /\ 3 \in Shelf
      /\ \A p \in Level : p \in Shelf /\ p # 3
      /\ \A p \in Shelf : p # 3 => p \in Level
      /\ \A p \in Level : L[p] \in Seq(Thread) /\ Len(L[p]) \in Nat
      /\ 0 \in Level /\ 1 \in Level /\ 2 \in Level
  BY LenProperties DEF Lined, Shelf, Level
<1>2. \A p \in Level : list[p] = L[p] /\ Lengths(q)[p] = Len(L[p])
  BY LinedLists
<1>3. /\ len \in Counts /\ Lengths(q) = len
      /\ \A p \in Level : len[p] = Len(L[p])
  <2>1. \A p \in Level : len[p] = Len(L[p])
    BY <1>2
  <2>2. Lengths(q) = len
    BY DEF Lengths, Lists
  <2>. QED
    BY <1>1, <2>1, <2>2 DEF Counts
<1>. HIDE DEF list
<1>4. /\ run \in Seq(Thread) /\ Len(run) = Len(L[0]) + Len(L[1]) + Len(L[2])
      /\ \A i, j \in 1 .. Len(run) : run[i] = run[j] => i = j
  BY <1>1, JoinedRows, JoinedApart
<1>5. len = [p \in Level |-> Len(L[p])]
  BY <1>2 DEF len
<1>. HIDE DEF len
<1>6. n \in Counts /\ (\A p \in Level : n[p] = Len(L[p])) /\ ~Spins(len)
  BY <1>3, <1>5, TallyTakesAll
<1>. HIDE DEF n
<1>7. Taken(list, n) = run
  <2>1. \A p \in Level : SubSeq(list[p], 1, n[p]) = L[p]
    BY <1>1, <1>2, <1>6, SubSeqFull
  <2>. QED
    BY <1>1, <2>1 DEF Taken, Joined
<1>8. Load(q) = [ next    |-> LinkAlong(q.next, Taken(list, n)),
                  head    |-> [p \in Level |-> IF n[p] < Len(list[p])
                                               THEN list[p][n[p] + 1] ELSE Null],
                  tail    |-> [p \in Level |->
                                IF n[p] > 0 /\ (IF n[p] < Len(list[p])
                                                THEN list[p][n[p] + 1] ELSE Null) = Null
                                THEN Null ELSE q.tail[p]],
                  running |-> Taken(list, n)[1] ]
  BY DEF Load, list, len, n
<1>9. /\ e.next = LinkAlong(q.next, run) /\ e.running = run[1]
      /\ \A p \in Level : e.head[p] = Null
      /\ \A p \in Level : e.tail[p] = IF n[p] > 0 THEN Null ELSE q.tail[p]
  <2>1. \A p \in Level : ~(n[p] < Len(list[p]))
    BY <1>1, <1>2, <1>6
  <2>. QED
    BY <1>7, <1>8, <2>1
<1>. HIDE DEF e
<1>10. \A p \in Level : e.tail[p] = Null
  <2>. SUFFICES ASSUME NEW p \in Level, ~(n[p] > 0)
                PROVE  q.tail[p] = Null
    BY <1>9
  <2>1. Len(L[p]) = 0
    BY <1>1, <1>6
  <2>2. Entry(L[p], Len(L[p])) = Null
    BY <2>1 DEF Entry
  <2>. QED
    BY <2>2 DEF Tailed
<1>11. run # << >>
  <2>1. PICK p \in Level : q.head[p] # Null
    BY DEF AllEmpty
  <2>2. First(q, p) = q.head[p]
    BY <1>1 DEF First
  <2>3. L[p] # << >>
    BY <1>1, <2>1, <2>2, LinedHeads
  <2>4. Len(L[p]) \in Nat \ {0}
    BY <1>1, <2>3, EmptySeq
  <2>5. Len(run) # 0
    BY <1>1, <1>4, <2>4 DEF Level
  <2>. QED
    BY <2>5, EmptySeq
<1>12. /\ M \in [Shelf -> Seq(Thread)] /\ M[3] = run
       /\ \A p \in Level : M[p] = << >>
  BY <1>1, <1>4, EmptySeq DEF Loaded, Shelf, Level
<1>. HIDE DEF M
<1>13. Len(<< >>) = 0
  BY EmptySeq
<1>14. \A p \in Shelf : \A i \in 1 .. Len(M[p]) : p = 3
  <2>. SUFFICES ASSUME NEW p \in Shelf, p # 3, NEW i \in 1 .. Len(M[p])
                PROVE  FALSE
    OBVIOUS
  <2>1. Len(M[p]) = 0
    BY <1>1, <1>12, <1>13
  <2>. QED
    BY <2>1
<1>15. Apart(M)
  BY <1>4, <1>12, <1>14 DEF Apart
<1>16. \A p \in Level : Goes(e.next, First(e, p), M[p]) /\ Tailed(e, M, p)
  BY <1>1, <1>9, <1>10, <1>12, <1>13 DEF First, Goes, Tailed, Entry
<1>l. /\ \A i \in 1 .. Len(run) :
           LinkAlong(q.next, run)[run[i]]
             = IF i = Len(run) THEN q.next[run[i]] ELSE run[i + 1]
      /\ \A u \in Thread : (\A i \in 1 .. Len(run) : run[i] # u) =>
           LinkAlong(q.next, run)[u] = q.next[u]
  <2>. HIDE DEF run
  <2>. QED
    BY <1>4, LinkAlongRow
<1>17. Goes(e.next, First(e, 3), M[3])
  <2>1. e.running = Entry(run, 1)
    <3>. HIDE DEF run
    <3>1. 1 \in 1 .. Len(run)
      <4>1. Len(run) \in Nat \ {0}
        BY <1>4, <1>11, EmptySeq
      <4>. QED
        BY <4>1
    <3>. QED
      BY <1>9, <3>1 DEF Entry
  <2>2. ASSUME NEW i \in 1 .. Len(run)
        PROVE  e.next[run[i]] = Entry(run, i + 1)
    <3>1. e.next[run[i]] = IF i = Len(run) THEN q.next[run[i]] ELSE run[i + 1]
      BY <1>9, <1>l
    <3>0. Len(run) \in Nat
      BY <1>4, LenProperties
    <3>2. CASE i # Len(run)
      <4>1. i + 1 \in 1 .. Len(run)
        BY <3>0, <3>2
      <4>. QED
        BY <3>1, <3>2, <4>1 DEF Entry
    <3>3. CASE i = Len(run)
      <4>. DEFINE p == Part(L, i)
                  x == i - Before(L, p)
      <4>1. /\ p \in Level /\ x \in 1 .. Len(L[p]) /\ run[i] = L[p][x]
        BY <1>1, JoinedRows
      <4>2. x = Len(L[p])
        BY <1>1, <1>11, <3>3, JoinedLast
      <4>. HIDE DEF p, x
      <4>3. q.next[L[p][x]] = Entry(L[p], x + 1)
        BY <1>1, <4>1 DEF Lined, Goes
      <4>4. x + 1 \notin 1 .. Len(L[p])
        BY <1>1, <4>1, <4>2
      <4>5. i + 1 \notin 1 .. Len(run)
        BY <3>0, <3>3
      <4>. QED
        BY <3>1, <3>3, <4>1, <4>3, <4>4, <4>5 DEF Entry
    <3>. QED
      BY <3>2, <3>3
  <2>. QED
    BY <1>12, <2>1, <2>2 DEF Goes, First
<1>18. In(M) = In(L)
  <2>1. ASSUME NEW u \in In(M)
        PROVE  u \in In(L)
    <3>1. PICK i \in 1 .. Len(run) : run[i] = u /\ u \in Thread
      BY <1>12, <1>14, <2>1 DEF In
    <3>2. /\ Part(L, i) \in Level
          /\ i - Before(L, Part(L, i)) \in 1 .. Len(L[Part(L, i)])
          /\ u = L[Part(L, i)][i - Before(L, Part(L, i))]
      BY <1>1, <3>1, JoinedRows
    <3>. QED
      BY <1>1, <3>1, <3>2 DEF In
  <2>2. ASSUME NEW u \in In(L)
        PROVE  u \in In(M)
    <3>1. PICK p \in Shelf : \E j \in 1 .. Len(L[p]) : L[p][j] = u
      BY <2>2 DEF In
    <3>2. PICK j \in 1 .. Len(L[p]) : L[p][j] = u
      BY <3>1
    <3>3. p \in Level
      <4>1. p = 3 => Len(L[p]) = 0
        BY <1>13
      <4>. QED
        BY <1>1, <3>2, <4>1
    <3>. DEFINE i == j + Before(L, p)
    <3>t. L \in [Shelf -> Seq(Thread)] /\ p \in Level /\ j \in 1 .. Len(L[p])
      BY <1>1, <3>2, <3>3
    <3>4. i \in 1 .. Len(run) /\ Part(L, i) = p
      BY <3>t, JoinedRows
    <3>5. run[i] = L[p][i - Before(L, p)]
      <4>. HIDE DEF i
      <4>. QED
        BY <3>t, <3>4, JoinedRows
    <3>6. i - Before(L, p) = j
      <4>1. Before(L, p) \in Nat
        BY <1>1, <3>3 DEF Before, Level
      <4>. QED
        BY <3>2, <4>1
    <3>. HIDE DEF i, run
    <3>7. i \in 1 .. Len(M[3]) /\ M[3][i] = u
      BY <1>12, <3>2, <3>4, <3>5, <3>6
    <3>8. u \in Thread /\ 3 \in Shelf
      BY <1>1, <2>2 DEF In
    <3>. QED
      BY <3>7, <3>8 DEF In
  <2>. QED
    BY <2>1, <2>2
<1>19. \A u \in Thread : u \notin In(L) => e.next[u] = q.next[u]
  <2>. SUFFICES ASSUME NEW u \in Thread, u \notin In(L)
                PROVE  e.next[u] = q.next[u]
    OBVIOUS
  <2>1. ASSUME NEW i \in 1 .. Len(run), run[i] = u
        PROVE  FALSE
    <3>1. 3 \in Shelf /\ i \in 1 .. Len(M[3]) /\ M[3][i] = u
      BY <1>12, <2>1 DEF Shelf
    <3>2. u \in In(M)
      BY <3>1 DEF In
    <3>. QED
      BY <1>18, <3>2
  <2>. HIDE DEF run
  <2>. QED
    BY <1>9, <1>l, <2>1
<1>20. \A p \in Shelf : Goes(e.next, First(e, p), M[p])
  BY <1>1, <1>16, <1>17
<1>. QED
  BY <1>3, <1>6, <1>11, <1>12, <1>15, <1>16, <1>18, <1>19, <1>20 DEF Lined, M, e
=============================================================================
