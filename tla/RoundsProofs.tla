---------------------------- MODULE RoundsProofs -----------------------------
(***************************************************************************)
(* The promise of Rounds, for every finite set of threads: each is served  *)
(* once in a round, and none is overtaken more than twice by another.      *)
(***************************************************************************)
EXTENDS RoundsOvertaking, SequenceTheorems, FiniteSetTheorems, TLAPS

RoundsInv == TypeOK /\ OncePerRound /\ Overtaken

(* Threads behind the first one in a round.                                *)
Behind(u) == \E i \in 2 .. Len(round) : round[i] = u

(***************************************************************************)
(* An order in which a set is served is a sequence of exactly its members, *)
(* each once.                                                              *)
(***************************************************************************)
LEMMA OrderFacts ==
  ASSUME NEW S \in SUBSET Thread, NEW s \in Orders(S)
  PROVE  /\ s \in Seq(Thread) /\ s # << >> /\ Len(s) \in Nat \ {0}
         /\ DOMAIN s = 1 .. Len(s)
         /\ Members(s) = S
         /\ \A i, j \in DOMAIN s : s[i] = s[j] => i = j
<1>1. Cardinality(S) \in Nat
  BY RoundsAssumption, FS_Subset, FS_CardinalityType
<1>2. PICK k \in 1 .. Cardinality(S) : s \in [1 .. k -> S]
  BY DEF Orders
<1>3. k \in Nat \ {0} /\ s \in [1 .. k -> Thread]
  BY <1>1, <1>2
<1>4. s \in Seq(Thread)
  BY <1>3, SeqDef
<1>5. Len(s) = k /\ DOMAIN s = 1 .. Len(s)
  BY <1>3, <1>4, LenProperties
<1>6. s # << >>
  BY <1>3, <1>4, <1>5, EmptySeq
<1>. QED
  BY <1>3, <1>4, <1>5, <1>6 DEF Orders

(* The typing of a round, as the provers need it.                          *)
LEMMA RoundFacts ==
  ASSUME TypeOK
  PROVE  /\ Len(round) \in Nat /\ DOMAIN round = 1 .. Len(round)
         /\ \A i \in 1 .. Len(round) : round[i] \in Thread /\ round[i] \in Members(round)
         /\ Members(round) \subseteq Thread
         /\ round # << >> => Len(round) # 0 /\ Head(round) = round[1]
<1>1. Len(round) \in Nat /\ DOMAIN round = 1 .. Len(round) /\ round \in [1 .. Len(round) -> Thread]
  BY LenProperties DEF TypeOK
<1>2. round # << >> => Len(round) # 0 /\ Head(round) = round[1]
  BY <1>1, EmptySeq DEF TypeOK
<1>. QED
  BY <1>1, <1>2 DEF Members

-----------------------------------------------------------------------------
(***************************************************************************)
(* At the start the main thread has its turn and nobody has been           *)
(* overtaken.                                                              *)
(***************************************************************************)
THEOREM RoundsInit == HInit => RoundsInv
<1>. SUFFICES ASSUME HInit
              PROVE  RoundsInv
  OBVIOUS
<1>1. round = << Main >> /\ waiting = {} /\ Len(round) = 1 /\ round[1] = Main
  BY DEF HInit, Init
<1>2. round \in Seq(Thread) /\ DOMAIN round = {1}
  BY <1>1, RoundsAssumption
<1>3. since = [t \in Thread |-> [u \in Thread |-> 0]]
  BY DEF HInit
<1>4. TypeOK
  BY <1>1, <1>2, <1>3 DEF TypeOK
<1>5. OncePerRound
  BY <1>1, <1>2 DEF OncePerRound
<1>6. Overtaken
  BY <1>1, <1>3 DEF Overtaken
<1>. QED
  BY <1>4, <1>5, <1>6 DEF RoundsInv

(* A new thread waits for the next round and has not been overtaken.       *)
LEMMA CreateKeepsInv ==
  ASSUME RoundsInv, NEW u \in Thread, HCreate(u)
  PROVE  RoundsInv'
<1>1. /\ TypeOK /\ OncePerRound /\ Overtaken
      /\ round' = round /\ waiting' = waiting \cup {u} /\ since' = since
      /\ u \notin Present /\ round # << >>
  BY DEF RoundsInv, HCreate, Create, Present
<1>2. TypeOK'
  BY <1>1 DEF TypeOK
<1>3. OncePerRound'
  BY <1>1 DEF OncePerRound, Present, Members
<1>4. Overtaken'
  <2>1. \A v \in Thread : since[u][v] = 0
    BY <1>1 DEF Overtaken
  <2>2. \A t \in waiting', v \in Thread :
          since[t][v] <= (IF \E i \in 2 .. Len(round) : round[i] = v THEN 0 ELSE 1)
    BY <1>1, <2>1 DEF Overtaken
  <2>3. \A t \in Thread : t \notin Present' => t \notin Present
    BY <1>1 DEF Present, Members
  <2>. QED
    BY <1>1, <2>2, <2>3 DEF Overtaken, First
<1>. QED
  BY <1>2, <1>3, <1>4 DEF RoundsInv

(* What is counted when a turn begins.                                     *)
LEMMA SinceStep ==
  ASSUME TypeOK, HEndTurn
  PROVE  /\ since' \in [Thread -> [Thread -> Nat]]
         /\ \A t, u \in Thread :
              since'[t][u] = IF t \notin Present' \/ First(t)' THEN 0
                             ELSE IF First(u)' THEN since[t][u] + 1 ELSE since[t][u]
<1>. DEFINE gone(t)  == t \notin Present' \/ First(t)'
            next(u)  == First(u)'
<1>1. since' = [t \in Thread |-> [u \in Thread |->
                  IF gone(t) THEN 0
                  ELSE IF next(u) THEN since[t][u] + 1 ELSE since[t][u]]]
  BY DEF HEndTurn
<1>2. \A t, u \in Thread : since[t][u] \in Nat
  BY DEF TypeOK
<1>. HIDE DEF gone, next
<1>3. /\ since' \in [Thread -> [Thread -> Nat]]
      /\ \A t, u \in Thread :
           since'[t][u] = IF gone(t) THEN 0
                          ELSE IF next(u) THEN since[t][u] + 1 ELSE since[t][u]
  BY <1>1, <1>2
<1>. QED
  BY <1>3 DEF gone, next

(***************************************************************************)
(* The turn of the first of the round is over and the next of the same     *)
(* round begins.                                                           *)
(***************************************************************************)
LEMMA TurnWithinRound ==
  ASSUME RoundsInv, HEndTurn, Tail(round) # << >>, round # << >>,
         round' = Tail(round),
         waiting' = waiting \/ waiting' = waiting \cup {round[1]}
  PROVE  RoundsInv'
<1>. DEFINE n == Len(round)
            h == round[2]
<1>1. /\ TypeOK /\ OncePerRound /\ Overtaken
      /\ n \in Nat /\ DOMAIN round = 1 .. n
      /\ \A i \in 1 .. n : round[i] \in Thread /\ round[i] \in Members(round)
  BY RoundFacts DEF RoundsInv
<1>2. /\ round' \in Seq(Thread) /\ Len(round') = n - 1
      /\ \A i \in 1 .. n - 1 : round'[i] = round[i + 1]
  BY HeadTailProperties DEF RoundsInv, TypeOK
<1>3. n >= 2 /\ DOMAIN round' = 1 .. n - 1 /\ round'[1] = h /\ round' # << >>
  <2>1. Len(Tail(round)) \in Nat \ {0}
    BY <1>2, EmptySeq
  <2>. QED
    BY <1>1, <1>2, <2>1, LenProperties
<1>. HIDE DEF n
<1>4. \A i, j \in 1 .. n : round[i] = round[j] => i = j
  BY <1>1 DEF OncePerRound
<1>5. /\ Members(round') = { round[i] : i \in 2 .. n }
      /\ \A i \in 1 .. n - 1 : round'[i] \in Members(round')
  <2>1. Members(round') = { round'[i] : i \in 1 .. n - 1 }
    BY <1>3 DEF Members
  <2>2. \A i \in 1 .. n - 1 : i + 1 \in 2 .. n
    BY <1>1
  <2>3. \A i \in 2 .. n : i - 1 \in 1 .. n - 1 /\ round'[i - 1] = round[i]
    BY <1>1, <1>2
  <2>. QED
    BY <1>2, <2>1, <2>2, <2>3
<1>6. /\ waiting' \subseteq Thread
      /\ waiting' \cap Members(round') = {}
  <2>1. \A i \in 2 .. n : i \in 1 .. n /\ i # 1
    BY <1>1
  <2>2. round[1] \notin { round[i] : i \in 2 .. n } /\ round[1] \in Thread
    BY <1>1, <1>3, <1>4, <2>1
  <2>3. waiting \cap { round[i] : i \in 2 .. n } = {}
    BY <1>1, <2>1 DEF OncePerRound
  <2>. QED
    BY <1>1, <1>5, <2>2, <2>3 DEF TypeOK
<1>7. /\ since' \in [Thread -> [Thread -> Nat]]
      /\ \A t, u \in Thread :
           since'[t][u] = IF t \notin Present' \/ t = h THEN 0
                          ELSE IF u = h THEN since[t][u] + 1 ELSE since[t][u]
  BY <1>1, <1>3, SinceStep DEF RoundsInv, First
<1>8. TypeOK'
  BY <1>2, <1>6, <1>7 DEF TypeOK
<1>9. OncePerRound'
  <2>1. \A i, j \in 1 .. n - 1 : round'[i] = round'[j] => i = j
    <3>1. \A i \in 1 .. n - 1 : i + 1 \in 1 .. n
      BY <1>1
    <3>. QED
      BY <1>1, <1>2, <1>4, <3>1
  <2>. QED
    BY <1>3, <1>6, <2>1 DEF OncePerRound
<1>10. \A u : (\E i \in 2 .. Len(round') : round'[i] = u) => Behind(u) /\ u # h
  <2>1. \A i \in 2 .. n - 1 : /\ i \in 1 .. n - 1 /\ i + 1 \in 2 .. n
                             /\ i + 1 \in 1 .. n /\ i + 1 # 2 /\ 2 \in 1 .. n
    BY <1>1
  <2>. QED
    BY <1>2, <1>4, <2>1 DEF Behind, n
<1>11. h \in Thread /\ Behind(h) /\ 2 \in 1 .. n /\ 2 \in 2 .. n
  BY <1>1, <1>3 DEF Behind, n
<1>12. \A t \in waiting', u \in Thread :
         since'[t][u] <= (IF \E i \in 2 .. Len(round') : round'[i] = u THEN 0 ELSE 1)
  <2>. SUFFICES ASSUME NEW t \in waiting', NEW u \in Thread
                PROVE  since'[t][u]
                         <= (IF \E i \in 2 .. Len(round') : round'[i] = u THEN 0 ELSE 1)
    OBVIOUS
  <2>1. t \in Thread /\ since[t][u] \in Nat /\ since[t][h] \in Nat
    BY <1>1, <1>6, <1>11 DEF TypeOK
  <2>2. since[t][u] <= (IF Behind(u) THEN 0 ELSE 1)
    <3>1. CASE t \in waiting
      BY <1>1, <3>1 DEF Overtaken, Behind
    <3>2. CASE t = round[1]
      BY <1>1, <2>1, <3>2 DEF Overtaken, First
    <3>. QED
      BY <3>1, <3>2
  <2>. DEFINE later == \E i \in 2 .. Len(round') : round'[i] = u
  <2>3. later => Behind(u) /\ u # h
    BY <1>10
  <2>4. Behind(h)
    BY <1>11
  <2>5. \/ since'[t][u] = 0
        \/ u = h /\ since'[t][u] = since[t][u] + 1
        \/ since'[t][u] = since[t][u]
    BY <1>7, <2>1
  <2>. HIDE DEF later
  <2>6. since'[t][u] <= (IF later THEN 0 ELSE 1)
    BY <2>1, <2>2, <2>3, <2>4, <2>5
  <2>. QED
    BY <2>6 DEF later
<1>13. \A i \in 2 .. Len(round'), u \in Thread :
         since'[round'[i]][u]
           <= (IF \E j \in 2 .. Len(round') : round'[j] = u THEN 1 ELSE 2)
  <2>. SUFFICES ASSUME NEW i \in 2 .. Len(round'), NEW u \in Thread
                PROVE  since'[round'[i]][u]
                         <= (IF \E j \in 2 .. Len(round') : round'[j] = u THEN 1 ELSE 2)
    OBVIOUS
  <2>. DEFINE t == round'[i]
  <2>1. i + 1 \in 2 .. n /\ t = round[i + 1] /\ t \in Thread /\ since[t][u] \in Nat
    <3>1. i \in 1 .. n - 1 /\ i + 1 \in 2 .. n /\ i + 1 \in 1 .. n
      BY <1>1, <1>2
    <3>. QED
      BY <1>1, <1>2, <3>1 DEF TypeOK
  <2>2. since[t][u] <= (IF Behind(u) THEN 1 ELSE 2)
    BY <1>1, <2>1 DEF Overtaken, Behind, n
  <2>. HIDE DEF t
  <2>. DEFINE later == \E j \in 2 .. Len(round') : round'[j] = u
  <2>3. later => Behind(u) /\ u # h
    BY <1>10
  <2>4. Behind(h)
    BY <1>11
  <2>5. \/ since'[t][u] = 0
        \/ u = h /\ since'[t][u] = since[t][u] + 1
        \/ since'[t][u] = since[t][u]
    BY <1>7, <2>1
  <2>. HIDE DEF later
  <2>6. since'[t][u] <= (IF later THEN 1 ELSE 2)
    BY <2>1, <2>2, <2>3, <2>4, <2>5
  <2>. QED
    BY <2>6 DEF later, t
<1>14. \A t, u \in Thread :
         t \notin Present' \/ First(t)' => since'[t][u] = 0
  BY <1>3, <1>7 DEF First
<1>15. Overtaken'
  BY <1>12, <1>13, <1>14 DEF Overtaken
<1>. QED
  BY <1>8, <1>9, <1>15 DEF RoundsInv

(***************************************************************************)
(* The turn of the last of the round is over and a new round is drawn up,  *)
(* or nobody is left.                                                      *)
(***************************************************************************)
LEMMA TurnEndsRound ==
  ASSUME RoundsInv, HEndTurn, Tail(round) = << >>, round # << >>, waiting' = {},
         \/ round' = << >>
         \/ round' \in Orders(waiting)
         \/ round' \in Orders(waiting \cup {round[1]})
  PROVE  RoundsInv'
<1>1. /\ TypeOK /\ OncePerRound /\ Overtaken
      /\ round[1] \in Thread /\ Len(round) = 1
  <2>1. TypeOK /\ Len(Tail(round)) = Len(round) - 1 /\ Len(Tail(round)) = 0
    BY HeadTailProperties, EmptySeq DEF RoundsInv, TypeOK
  <2>2. Len(round) = 1
    BY <2>1, RoundFacts
  <2>. QED
    BY <2>1, <2>2, RoundFacts DEF RoundsInv
<1>2. /\ since' \in [Thread -> [Thread -> Nat]]
      /\ \A t, u \in Thread :
           since'[t][u] = IF t \notin Present' \/ First(t)' THEN 0
                          ELSE IF First(u)' THEN since[t][u] + 1 ELSE since[t][u]
  BY <1>1, SinceStep
<1>3. CASE round' = << >>
  <2>1. Len(round') = 0 /\ DOMAIN round' = {} /\ round' \in Seq(Thread)
    BY <1>3, EmptySeq
  <2>2. TypeOK' /\ OncePerRound'
    BY <1>2, <2>1 DEF TypeOK, OncePerRound
  <2>3. Present' = {}
    BY <2>1 DEF Present, Members
  <2>4. Overtaken'
    BY <1>2, <1>3, <2>1, <2>3 DEF Overtaken
  <2>. QED
    BY <2>2, <2>4 DEF RoundsInv
<1>4. ASSUME NEW STATE S, S \in SUBSET Thread,
             S \subseteq waiting \cup {round[1]}, round' \in Orders(S)
      PROVE  RoundsInv'
  <2>1. /\ round' \in Seq(Thread) /\ round' # << >> /\ Len(round') \in Nat \ {0}
        /\ DOMAIN round' = 1 .. Len(round')
        /\ { round'[i] : i \in DOMAIN round' } = S
        /\ \A i, j \in DOMAIN round' : round'[i] = round'[j] => i = j
    BY <1>4, OrderFacts DEF Members
  <2>2. TypeOK' /\ OncePerRound'
    BY <1>2, <2>1 DEF TypeOK, OncePerRound
  <2>3. \A t \in S, u \in Thread : since[t][u] \in Nat /\ since[t][u] <= 1
    <3>1. ~ \E i \in 2 .. Len(round) : TRUE
      BY <1>1
    <3>2. \A t \in waiting, u \in Thread : since[t][u] <= 1
      BY <1>1, <3>1 DEF Overtaken
    <3>3. \A u \in Thread : since[round[1]][u] = 0
      BY <1>1 DEF Overtaken, First
    <3>4. \A t \in S : t \in Thread /\ (t \in waiting \/ t = round[1])
      BY <1>4
    <3>5. \A t, u \in Thread : since[t][u] \in Nat
      BY <1>1 DEF TypeOK
    <3>. QED
      BY <3>2, <3>3, <3>4, <3>5
  <2>4. \A i \in 2 .. Len(round'), u \in Thread :
          since'[round'[i]][u]
            <= (IF \E j \in 2 .. Len(round') : round'[j] = u THEN 1 ELSE 2)
    <3>. SUFFICES ASSUME NEW i \in 2 .. Len(round'), NEW u \in Thread
                  PROVE  since'[round'[i]][u]
                           <= (IF \E j \in 2 .. Len(round') : round'[j] = u
                               THEN 1 ELSE 2)
      OBVIOUS
    <3>. DEFINE t == round'[i]
                later == \E j \in 2 .. Len(round') : round'[j] = u
    <3>1. t \in S /\ t \in Thread /\ since[t][u] \in Nat /\ since[t][u] <= 1
      <4>1. i \in DOMAIN round'
        BY <2>1
      <4>. QED
        BY <1>4, <2>1, <2>3, <4>1
    <3>2. later => ~First(u)'
      <4>1. 1 \in DOMAIN round' /\ \A j \in 2 .. Len(round') : j \in DOMAIN round' /\ j # 1
        BY <2>1
      <4>. QED
        BY <2>1, <4>1 DEF First
    <3>3. \/ since'[t][u] = 0
          \/ First(u)' /\ since'[t][u] = since[t][u] + 1
          \/ since'[t][u] = since[t][u]
      BY <1>2, <3>1
    <3>. HIDE DEF t, later
    <3>4. since'[t][u] <= (IF later THEN 1 ELSE 2)
      BY <3>1, <3>2, <3>3
    <3>. QED
      BY <3>4 DEF t, later
  <2>5. Overtaken'
    BY <1>2, <2>1, <2>4 DEF Overtaken
  <2>. QED
    BY <2>2, <2>5 DEF RoundsInv
<1>. QED
  BY <1>1, <1>3, <1>4 DEF TypeOK

(* Every step of the rounds keeps the bound on overtaking.                 *)
THEOREM RoundsNext == RoundsInv /\ [HNext]_hvars => RoundsInv'
<1>. SUFFICES ASSUME RoundsInv, [HNext]_hvars
              PROVE  RoundsInv'
  OBVIOUS
<1>1. ASSUME NEW u \in Thread, HCreate(u) PROVE RoundsInv'
  BY <1>1, CreateKeepsInv
<1>2. CASE HEndTurn
  <2>1. round # << >> /\ Head(round) = round[1]
    BY <1>2, RoundFacts DEF HEndTurn, Rotate, Exit, EndTurn, RoundsInv
  <2>2. \/ /\ Tail(round) # << >> /\ round' = Tail(round)
           /\ waiting' = waiting \/ waiting' = waiting \cup {round[1]}
        \/ /\ Tail(round) = << >> /\ waiting' = {}
           /\ \/ round' = << >>
              \/ round' \in Orders(waiting)
              \/ round' \in Orders(waiting \cup {round[1]})
    BY <1>2, <2>1 DEF HEndTurn, Rotate, Exit, EndTurn
  <2>. QED
    BY <1>2, <2>1, <2>2, TurnWithinRound, TurnEndsRound
<1>3. CASE UNCHANGED hvars
  BY <1>3 DEF hvars, RoundsInv, TypeOK, OncePerRound, Overtaken, Present, Members, First
<1>. QED
  BY <1>1, <1>2, <1>3 DEF HNext

(* The strengthened invariant holds for every finite set of threads.       *)
THEOREM RoundsInvariant == HSpec => []RoundsInv
  BY RoundsInit, RoundsNext, PTL DEF HSpec

(* Each thread is served at most once in a round.                          *)
THEOREM ServedOncePerRound == HSpec => []OncePerRound
<1>1. RoundsInv => OncePerRound
  BY DEF RoundsInv
<1>. QED
  BY <1>1, RoundsInvariant, PTL

(***************************************************************************)
(* Between two turns of a thread no other has more than two, whatever the  *)
(* number of threads and however they come, go and give up their turns:    *)
(* this is the bound behind Memory_Manager/README:14-17.                   *)
(***************************************************************************)
THEOREM OvertakingIsBounded == HSpec => []BoundedOvertaking
<1>1. RoundsInv => BoundedOvertaking
  <2>. SUFFICES ASSUME RoundsInv, NEW t \in Present, NEW u \in Thread
                PROVE  since[t][u] <= 2
    BY DEF BoundedOvertaking
  <2>1. TypeOK /\ Overtaken /\ t \in Thread /\ since[t][u] \in Nat
    BY RoundFacts DEF RoundsInv, Present, TypeOK
  <2>2. CASE t \in waiting
    BY <2>1, <2>2 DEF Overtaken
  <2>3. CASE t \in Members(round)
    <3>1. PICK i \in 1 .. Len(round) : t = round[i]
      BY <2>1, <2>3, RoundFacts DEF Members
    <3>2. CASE i = 1
      BY <2>1, <3>1, <3>2, RoundFacts, EmptySeq DEF Overtaken, TypeOK, First
    <3>3. CASE i # 1
      <4>1. i \in 2 .. Len(round)
        BY <2>1, <3>1, <3>3, RoundFacts
      <4>. QED
        BY <2>1, <3>1, <4>1 DEF Overtaken
    <3>. QED
      BY <3>2, <3>3
  <2>. QED
    BY <2>2, <2>3 DEF Present
<1>. QED
  BY <1>1, RoundsInvariant, PTL
=============================================================================
