--------------------------- MODULE AllocatorProofs ---------------------------
(***************************************************************************)
(* The allocator, for any sizes: as long as every prev that mydeallocate   *)
(* follows is the block before (~stray), the blocks of the list lie one    *)
(* behind the other, and what callers hold is in it.                       *)
(***************************************************************************)
EXTENDS Allocator, TLAPS, FiniteSetTheorems, WellFoundedInduction

-----------------------------------------------------------------------------
(***************************************************************************)
(* The inductive invariant.                                                *)
(***************************************************************************)
(* Starting at 0, every block of L begins where the one before it ends.    *)
Tiles(nd, L) ==
  /\ L \subseteq Addr /\ (L # {} => 0 \in L)
  /\ \A a \in L : /\ nd[a] \in HeaderType
                  /\ nd[a].next # Null =>
                       nd[a].next \in L /\ nd[a].next = a + HeaderSize + nd[a].capacity
  /\ \A a, b \in L : a < b => nd[a].next # Null /\ nd[a].next <= b

Owned ==
  \A b \in live : b.addr \in List /\ node[b.addr].inUse /\ node[b.addr].capacity = b.size

(* The block that mydeallocate works on, and the one before it.            *)
BeingFreed ==
  /\ freeing.phase = "none" => freeing = Idle
  /\ freeing.phase # "none" => freeing.at \in List /\ ~node[freeing.at].inUse
  /\ freeing.phase = "next" => /\ IsPrevOf(Before, freeing.at)
                               /\ freeing.at # 0 => node[Before].inUse

(* What mydeallocate has still to merge is next to that block.             *)
Merged ==
  \A a \in List \ {freeing.at} : ~node[a].inUse /\ node[a].capacity # 0 =>
    /\ node[a].next # Null
    /\ node[node[a].next].inUse \/ (freeing.phase = "prev" /\ node[a].next = freeing.at)

(* A block of the list that is in use has an owner.                        *)
HasOwner ==
  \A a \in List : node[a].inUse => \E b \in live : b.addr = a

(* The pages count for free blocks as well.                                *)
Counted ==
  kind = "thread" /\ ~uncounted => \A a \in List : EndOf(a) < thread_page_count * PageSize

Good == /\ TypeOK /\ ~lost /\ pagesLeft \in 0..TotalPages
        /\ Tiles(node, List)
        /\ Owned /\ HasOwner /\ BeingFreed /\ Merged /\ Counted

AllocatorInv == stray \in BOOLEAN /\ (~stray => Good)

-----------------------------------------------------------------------------
(***************************************************************************)
(* Addresses.                                                              *)
(***************************************************************************)
(* The constants are numbers.                                              *)
LEMMA Numbers ==
  /\ HeaderSize \in Nat \ {0} /\ PageSize \in Nat \ {0} /\ TotalPages \in Nat
  /\ End \in Nat /\ End > HeaderSize
  /\ 0 \in Addr /\ Addr \subseteq Nat /\ Null \notin Addr
  /\ \A a \in Addr : a \in Nat /\ a < End
  /\ \A a \in Nat : a < End => a \in Addr
BY AllocatorAssumption DEF Addr, Null

(* Pages, in bytes.                                                        *)
LEMMA PagesToBytes ==
  ASSUME NEW m \in Nat, NEW n \in Nat, NEW s \in Nat
  PROVE  m * s \in Nat /\ (m <= n => m * s <= n * s) /\ (m + 1) * s = m * s + s
<1>1. \A k \in Nat : k * s \in Nat
  BY SMT
<1>2. (m + 1) * s = m * s + s
  BY SMT
<1>3. ASSUME m <= n
      PROVE  m * s <= n * s
  <2>1. PICK d \in Nat : n = m + d
    <3>1. n - m \in Nat /\ n = m + (n - m)
      BY <1>3
    <3>. QED
      BY <3>1
  <2>2. (m + d) * s = m * s + d * s
    BY SMT
  <2>. QED
    BY <1>1, <2>1, <2>2
<1>. QED
  BY <1>1, <1>2, <1>3

(* The page of an address, and where in the page it lies.                  *)
LEMMA PageAndOffset ==
  ASSUME NEW a \in Nat, NEW s \in Nat \ {0}
  PROVE  /\ a \div s \in Nat /\ a % s \in Nat /\ a % s < s
         /\ (a \div s) * s \in Nat /\ a = (a \div s) * s + (a % s)
BY SMT

(* A nonempty set of natural numbers has a least element.                  *)
LEMMA LeastElement ==
  ASSUME NEW S, S \subseteq Nat, S # {}
  PROVE  \E k \in S : \A j \in S : k <= j
<1>. DEFINE R == {p \in Nat \X Nat : p[1] < p[2]}
<1>1. IsWellFoundedOn(R, Nat)
  <2>1. OpToRel(<, Nat) = R
    BY DEF OpToRel
  <2>. QED
    BY <2>1, NatLessThanWellFounded
<1>2. PICK x \in S : \A y \in S : ~(<< y, x >> \in R)
  <2>. HIDE DEF R
  <2>. QED
    BY <1>1, WFMin
<1>3. ASSUME NEW y \in S
      PROVE  x <= y
  <2>1. x \in Nat /\ y \in Nat
    OBVIOUS
  <2>2. y < x => << y, x >> \in R
    BY <2>1
  <2>. HIDE DEF R
  <2>. QED
    BY <1>2, <2>1, <2>2
<1>. QED
  BY <1>3

(* A nonempty set of addresses has a greatest element.                     *)
LEMMA GreatestElement ==
  ASSUME NEW S, S \subseteq Addr, S # {}
  PROVE  \E k \in S : \A j \in S : j <= k
<1>. DEFINE Up == {End - i : i \in S}
<1>1. \A i \in S : i \in Nat /\ End - i \in Nat
  BY Numbers
<1>2. End \in Nat
  BY Numbers
<1>3. PICK m \in Up : \A y \in Up : m <= y
  <2>1. Up \subseteq Nat /\ Up # {}
    BY <1>1
  <2>. HIDE DEF Up
  <2>. QED
    BY <2>1, LeastElement
<1>4. PICK x \in S : m = End - x
  OBVIOUS
<1>5. ASSUME NEW j \in S
      PROVE  j <= x
  <2>1. End - j \in Up
    OBVIOUS
  <2>2. m <= End - j
    BY <1>3, <2>1
  <2>3. j \in Nat /\ x \in Nat
    BY <1>1
  <2>. QED
    BY <1>2, <1>4, <2>2, <2>3
<1>. QED
  BY <1>5

(* Min returns the least of a set of addresses.                            *)
LEMMA MinIs ==
  ASSUME NEW S, S \subseteq Addr, S # {}
  PROVE  Min(S) \in S
<1>1. \E k \in S : \A j \in S : k <= j
  BY Numbers, LeastElement
<1>. QED
  BY <1>1 DEF Min

-----------------------------------------------------------------------------
(***************************************************************************)
(* The list.                                                               *)
(***************************************************************************)
(* The equation that defines From.                                         *)
Leads(nd, f) ==
  f = [a \in Addr |-> {a} \cup (IF nd[a] = Gone \/ nd[a].next = Null THEN {}
                                ELSE f[nd[a].next])]

Reach(nd) == CHOOSE f : Leads(nd, f)

(* From is a solution, whatever the links are: what can be reached is one. *)
LEMMA ReachExists ==
  ASSUME NEW nd \in [Addr -> HeaderType \cup {Gone}]
  PROVE  Leads(nd, Reach(nd))
<1>. DEFINE Ends(a) == nd[a] = Gone \/ nd[a].next = Null
            Closed(S) == \A x \in S : Ends(x) \/ nd[x].next \in S
            R(a) == {b \in Addr : \A S \in SUBSET Addr : a \in S /\ Closed(S) => b \in S}
            w == [a \in Addr |-> R(a)]
<1>1. \A a \in Addr : Ends(a) \/ nd[a].next \in Addr
  BY GoneIsNoHeader DEF HeaderType
<1>2. \A a \in Addr : a \in R(a) /\ R(a) \subseteq Addr
  OBVIOUS
<1>3. ASSUME NEW a \in Addr, NEW x \in R(a), ~Ends(x)
      PROVE  nd[x].next \in R(a)
  <2>1. x \in Addr /\ nd[x].next \in Addr
    BY <1>1, <1>3
  <2>2. ASSUME NEW S \in SUBSET Addr, a \in S, Closed(S)
        PROVE  nd[x].next \in S
    BY <1>3, <2>2
  <2>. QED
    BY <2>1, <2>2
<1>4. ASSUME NEW a \in Addr, Ends(a)
      PROVE  R(a) = {a}
  <2>1. {a} \in SUBSET Addr /\ Closed({a})
    BY <1>4
  <2>. HIDE DEF Closed
  <2>. QED
    BY <1>2, <2>1
<1>5. ASSUME NEW a \in Addr, ~Ends(a)
      PROVE  R(a) = {a} \cup R(nd[a].next)
  <2>. DEFINE n == nd[a].next
              T == {a} \cup R(n)
  <2>1. n \in Addr /\ n \in R(n) /\ R(n) \subseteq Addr
    BY <1>1, <1>2, <1>5
  <2>2. Closed(T)
    BY <1>3, <2>1
  <2>3. R(a) \subseteq T
    <3>1. T \in SUBSET Addr /\ a \in T
      BY <2>1
    <3>. HIDE DEF T, Closed
    <3>. QED
      BY <2>2, <3>1
  <2>4. ASSUME NEW b \in R(n)
        PROVE  b \in R(a)
    <3>1. \A S \in SUBSET Addr : a \in S /\ Closed(S) => n \in S
      BY <1>5
    <3>. HIDE DEF Closed, n
    <3>. QED
      BY <2>1, <2>4, <3>1
  <2>. QED
    BY <1>2, <2>3, <2>4
<1>6. Leads(nd, w)
  <2>. DEFINE v == [a \in Addr |-> {a} \cup (IF Ends(a) THEN {} ELSE w[nd[a].next])]
  <2>1. ASSUME NEW a \in Addr
        PROVE  w[a] = v[a]
    <3>1. w[a] = R(a)
      OBVIOUS
    <3>2. ~Ends(a) => w[nd[a].next] = R(nd[a].next)
      BY <1>1
    <3>3. v[a] = {a} \cup (IF Ends(a) THEN {} ELSE w[nd[a].next])
      OBVIOUS
    <3>. HIDE DEF R, w, v
    <3>. QED
      BY <1>4, <1>5, <3>1, <3>2, <3>3
  <2>2. w = [a \in Addr |-> w[a]] /\ v = [a \in Addr |-> v[a]]
    OBVIOUS
  <2>3. w = v
    <3>. HIDE DEF w, v
    <3>. QED
      BY <2>1, <2>2
  <2>4. Leads(nd, w) <=> w = v
    <3>. HIDE DEF w
    <3>. QED
      BY DEF Leads
  <2>. QED
    BY <2>3, <2>4
<1>. HIDE DEF w
<1>. QED
  BY <1>6 DEF Reach

(* The blocks of L lie in L's order.                                       *)
LEMMA TilesOrder ==
  ASSUME NEW nd, NEW L, Tiles(nd, L)
  PROVE  /\ \A a \in L : /\ a \in Addr /\ a \in Nat /\ nd[a] \in HeaderType /\ nd[a] # Gone
                         /\ nd[a].capacity \in Nat /\ nd[a].next \in Addr \cup {Null}
                         /\ nd[a].inUse \in BOOLEAN /\ nd[a].prev \in Addr \cup {Null}
                         /\ nd[a].signature \in BOOLEAN
         /\ \A a \in L : nd[a].next # Null =>
              /\ nd[a].next \in L /\ a < nd[a].next
              /\ nd[a].next = a + HeaderSize + nd[a].capacity
         /\ \A a, b \in L : a < b =>
              nd[a].next # Null /\ a + HeaderSize + nd[a].capacity <= b
<1>1. \A a \in L : /\ a \in Addr /\ a \in Nat /\ nd[a] \in HeaderType /\ nd[a] # Gone
  BY Numbers, GoneIsNoHeader DEF Tiles
<1>2. \A a \in L : /\ nd[a].capacity \in Nat /\ nd[a].next \in Addr \cup {Null}
                   /\ nd[a].inUse \in BOOLEAN /\ nd[a].prev \in Addr \cup {Null}
                   /\ nd[a].signature \in BOOLEAN
  BY <1>1 DEF HeaderType
<1>3. \A a \in L : nd[a].next # Null =>
              /\ nd[a].next \in L /\ a < nd[a].next
              /\ nd[a].next = a + HeaderSize + nd[a].capacity
  BY <1>1, <1>2, Numbers DEF Tiles
<1>4. \A a, b \in L : a < b => nd[a].next # Null /\ nd[a].next <= b
  BY DEF Tiles
<1>. QED
  BY <1>1, <1>2, <1>3, <1>4

(* Every block but the first one has a block before it.                    *)
LEMMA Predecessor ==
  ASSUME NEW nd, NEW L, Tiles(nd, L), NEW b \in L, b # 0
  PROVE  \E a \in L : a < b /\ nd[a].next = b
<1>. DEFINE S == {a \in L : a < b}
<1>1. S \subseteq Addr /\ S # {}
  <2>1. 0 \in L /\ b \in Nat /\ 0 < b
    BY TilesOrder DEF Tiles
  <2>. QED
    BY <2>1, TilesOrder
<1>2. PICK a \in S : \A j \in S : j <= a
  <2>. HIDE DEF S
  <2>. QED
    BY <1>1, GreatestElement
<1>3. a \in L /\ a < b /\ a \in Nat /\ b \in Nat
  BY TilesOrder
<1>4. nd[a].next # Null /\ nd[a].next <= b
  BY <1>3 DEF Tiles
<1>5. nd[a].next \in L /\ a < nd[a].next /\ nd[a].next \in Nat
  BY <1>3, <1>4, TilesOrder
<1>6. ~(nd[a].next < b)
  <2>1. nd[a].next < b => nd[a].next \in S
    BY <1>5
  <2>. HIDE DEF S
  <2>. QED
    BY <1>2, <1>3, <1>5, <2>1
<1>. QED
  BY <1>3, <1>4, <1>5, <1>6

(* The walk from block 0 visits the blocks of L and nothing else.          *)
LEMMA ReachIs ==
  ASSUME NEW nd \in [Addr -> HeaderType \cup {Gone}], NEW L, Tiles(nd, L), L # {}
  PROVE  Reach(nd)[0] = L
<1>. DEFINE F == Reach(nd)
<1>1. \A a \in Addr : F[a] = {a} \cup (IF nd[a] = Gone \/ nd[a].next = Null THEN {}
                                       ELSE F[nd[a].next])
  <2>1. Leads(nd, F)
    BY ReachExists
  <2>. HIDE DEF F
  <2>. QED
    BY <2>1 DEF Leads
<1>. HIDE DEF F
<1>0. \A a \in L : a # 0 => \E p \in L : p < a /\ nd[p].next = a
  BY Predecessor
<1>2. \A a \in L : /\ a \in Addr /\ a \in Nat
                   /\ F[a] = {a} \cup (IF nd[a].next = Null THEN {} ELSE F[nd[a].next])
                   /\ nd[a].next # Null => nd[a].next \in L /\ a < nd[a].next
  BY <1>1, TilesOrder
<1>3. ASSUME NEW b \in L
      PROVE  F[b] \subseteq L
  <2>. DEFINE bad == {a \in L : ~(F[a] \subseteq L)}
  <2>1. bad = {}
    <3>. SUFFICES ASSUME bad # {} PROVE FALSE
      OBVIOUS
    <3>1. bad \subseteq Addr
      BY <1>2
    <3>2. PICK a \in bad : \A j \in bad : j <= a
      <4>. HIDE DEF bad
      <4>. QED
        BY <3>1, GreatestElement
    <3>3. a \in L /\ a \in Nat /\ ~(F[a] \subseteq L)
      BY <1>2
    <3>4. nd[a].next # Null
      BY <1>2, <3>3
    <3>5. nd[a].next \in L /\ a < nd[a].next /\ nd[a].next \in Nat
      BY <1>2, <3>3, <3>4
    <3>6. ~(F[nd[a].next] \subseteq L)
      BY <1>2, <3>3, <3>4
    <3>7. nd[a].next \in bad
      BY <3>5, <3>6
    <3>. HIDE DEF bad
    <3>. QED
      BY <3>2, <3>3, <3>5, <3>7
  <2>. QED
    BY <2>1
<1>4. ASSUME NEW b \in L
      PROVE  F[b] \subseteq F[0]
  <2>. DEFINE bad == {a \in L : ~(F[a] \subseteq F[0])}
  <2>1. bad = {}
    <3>. SUFFICES ASSUME bad # {} PROVE FALSE
      OBVIOUS
    <3>1. bad \subseteq Nat
      BY <1>2
    <3>2. PICK a \in bad : \A j \in bad : a <= j
      <4>. HIDE DEF bad
      <4>. QED
        BY <3>1, LeastElement
    <3>3. a \in L /\ a \in Nat /\ ~(F[a] \subseteq F[0]) /\ a # 0
      BY <1>2
    <3>4. PICK p \in L : p < a /\ nd[p].next = a
      BY <1>0, <3>3
    <3>5. F[p] \subseteq F[0]
      <4>1. p \in Nat /\ ~(a <= p)
        BY <1>2, <3>3, <3>4
      <4>2. p \notin bad
        <5>. HIDE DEF bad
        <5>. QED
          BY <3>2, <4>1
      <4>. QED
        BY <4>2
    <3>6. F[a] \subseteq F[p]
      <4>1. nd[p].next # Null
        BY <3>3, <3>4, Numbers DEF Null
      <4>. QED
        BY <1>2, <3>4, <4>1
    <3>. QED
      BY <3>3, <3>5, <3>6
  <2>. QED
    BY <2>1
<1>5. 0 \in L
  BY DEF Tiles
<1>6. L \subseteq F[0]
  BY <1>2, <1>4
<1>7. F[0] \subseteq L
  BY <1>3, <1>5
<1>. QED
  BY <1>6, <1>7 DEF F

(* Whether block 0 has been set up.                                        *)
Begun(nd) == nd[0] # Gone /\ nd[0].signature

(* After a step, List is the set of blocks that the headers make up.       *)
LEMMA NextListIs ==
  ASSUME NEW L, Tiles(node', L), node' \in [Addr -> HeaderType \cup {Gone}],
         Begun(node') <=> L # {}
  PROVE  List' = L
<1>1. From' = Reach(node')
  BY DEF From, Reach, Leads
<1>2. L # {} => From'[0] = L
  BY <1>1, ReachIs
<1>. QED
  BY <1>2 DEF List, Started, Begun

(* The last block of the list.                                             *)
LEMMA LastIs ==
  ASSUME Tiles(node, List), List # {}
  PROVE  /\ Last \in List /\ node[Last].next = Null
         /\ \A a \in List \ {Last} : node[a].next # Null /\ EndOf(a) <= Last
<1>1. \A a \in List : a \in Addr /\ a \in Nat /\ node[a] # Gone
  BY TilesOrder
<1>2. PICK m \in List : \A a \in List : a <= m
  <2>1. List \subseteq Addr
    BY <1>1
  <2>. QED
    BY <2>1, GreatestElement
<1>3. node[m].next = Null
  <2>. SUFFICES ASSUME node[m].next # Null PROVE FALSE
    OBVIOUS
  <2>1. node[m].next \in List /\ m < node[m].next /\ node[m].next \in Nat /\ m \in Nat
    BY <1>1, TilesOrder
  <2>. QED
    BY <1>2, <2>1
<1>4. Last \in List /\ node[Last].next = Null
  BY <1>1, <1>2, <1>3 DEF Last
<1>5. ASSUME NEW a \in List \ {Last}
      PROVE  node[a].next # Null /\ EndOf(a) <= Last
  <2>1. a \in Nat /\ Last \in Nat /\ a # Last
    BY <1>1, <1>4
  <2>2. ~(Last < a)
    BY <1>4, TilesOrder
  <2>3. a < Last
    BY <2>1, <2>2
  <2>. QED
    BY <1>4, <2>3, TilesOrder DEF EndOf
<1>. QED
  BY <1>4, <1>5

-----------------------------------------------------------------------------
(***************************************************************************)
(* What the steps do to the list.                                          *)
(***************************************************************************)
(* The links and the sizes stay.                                           *)
LEMMA SameTiles ==
  ASSUME NEW nd, NEW nd2, NEW L, Tiles(nd, L),
         \A a \in L : /\ nd2[a] \in HeaderType
                      /\ nd2[a].next = nd[a].next /\ nd2[a].capacity = nd[a].capacity
  PROVE  Tiles(nd2, L)
BY DEF Tiles

(* The first block.                                                        *)
LEMMA FirstTile ==
  ASSUME NEW nd2, nd2[0] \in HeaderType, nd2[0].next = Null
  PROVE  Tiles(nd2, {0})
BY Numbers DEF Tiles

(* A block is linked behind the last one, where that ends.                 *)
LEMMA OneMoreTile ==
  ASSUME NEW nd, NEW nd2, NEW L, Tiles(nd, L), NEW last \in L, nd[last].next = Null,
         \A a \in L \ {last} : nd[a].next # Null /\ a + HeaderSize + nd[a].capacity <= last,
         NEW new \in Addr, new = last + HeaderSize + nd[last].capacity,
         nd2[last] = [nd[last] EXCEPT !.next = new],
         \A a \in L \ {last} : nd2[a] = nd[a],
         nd2[new] \in HeaderType, nd2[new].next = Null
  PROVE  Tiles(nd2, L \cup {new}) /\ new \notin L
<1>1. \A a \in L : /\ a \in Addr /\ a \in Nat /\ nd[a] \in HeaderType /\ nd[a].capacity \in Nat
  BY TilesOrder
<1>2. last \in Nat /\ new \in Nat /\ last < new /\ HeaderSize \in Nat \ {0}
  BY <1>1, Numbers
<1>3. \A a \in L : a < new
  BY <1>1, <1>2
<1>4. new \notin L
  BY <1>2, <1>3
<1>5. /\ nd2[last] \in HeaderType /\ nd2[last].next = new
      /\ nd2[last].capacity = nd[last].capacity
  BY <1>1 DEF HeaderType
<1>6. ASSUME NEW a \in L \cup {new}
      PROVE  /\ nd2[a] \in HeaderType
             /\ nd2[a].next # Null =>
                  /\ nd2[a].next \in L \cup {new}
                  /\ nd2[a].next = a + HeaderSize + nd2[a].capacity
  <2>1. CASE a = new
    BY <2>1
  <2>2. CASE a = last
    BY <1>5, <2>2
  <2>3. CASE a \in L \ {last}
    BY <2>3 DEF Tiles
  <2>. QED
    BY <2>1, <2>2, <2>3
<1>7. ASSUME NEW a \in L \cup {new}, NEW b \in L \cup {new}, a < b
      PROVE  nd2[a].next # Null /\ nd2[a].next <= b
  <2>0. a # new
    BY <1>1, <1>2, <1>3, <1>7
  <2>1. CASE a = last
    <3>1. b = new
      <4>1. b \in L \ {last} => b < last
        BY <1>1, <1>2
      <4>. QED
        BY <1>1, <1>2, <1>7, <2>1, <4>1
    <3>. QED
      <4>1. new # Null /\ new <= new
        BY <1>2 DEF Null
      <4>. QED
        BY <1>5, <2>1, <3>1, <4>1
  <2>2. CASE a \in L \ {last}
    <3>1. nd2[a].next = nd[a].next /\ nd[a].next # Null /\ nd[a].next <= last
      BY <2>2 DEF Tiles
    <3>2. nd[a].next \in Nat
      BY <2>2, <3>1, TilesOrder
    <3>3. CASE b = new
      BY <1>2, <3>1, <3>2, <3>3
    <3>4. CASE b \in L
      BY <1>7, <2>2, <3>1, <3>4 DEF Tiles
    <3>. QED
      BY <3>3, <3>4
  <2>. QED
    BY <2>0, <2>1, <2>2
<1>8. L \cup {new} \subseteq Addr /\ 0 \in L \cup {new}
  BY DEF Tiles
<1>. QED
  BY <1>4, <1>6, <1>7, <1>8 DEF Tiles

(* A block swallows the one behind it.                                     *)
LEMMA MergedTile ==
  ASSUME NEW nd, NEW nd2, NEW L, Tiles(nd, L), NEW c \in L, NEW n \in L, nd[c].next = n,
         nd2[c] \in HeaderType, nd2[c].next = nd[n].next,
         nd2[c].capacity = nd[c].capacity + HeaderSize + nd[n].capacity,
         \A a \in L \ {c, n} : nd2[a] = nd[a]
  PROVE  /\ Tiles(nd2, L \ {n}) /\ c # n
         /\ c + HeaderSize + nd2[c].capacity = n + HeaderSize + nd[n].capacity
         /\ n # 0
         /\ \A a \in L : nd[a].next = n => a = c
<1>1. \A a \in L : /\ a \in Addr /\ a \in Nat /\ nd[a] \in HeaderType /\ nd[a].capacity \in Nat
  BY TilesOrder
<1>2. /\ c < n /\ n = c + HeaderSize + nd[c].capacity /\ n # 0 /\ n # Null
      /\ HeaderSize \in Nat \ {0}
  BY <1>1, TilesOrder, Numbers DEF Null
<1>3. c + HeaderSize + nd2[c].capacity = n + HeaderSize + nd[n].capacity
  BY <1>1, <1>2
<1>4. ASSUME NEW a \in L, nd[a].next = n
      PROVE  a = c
  <2>1. a < n /\ a \in Nat /\ c \in Nat
    BY <1>1, <1>2, <1>4, TilesOrder
  <2>2. ~(a < c)
    <3>1. a < c => n <= c
      BY <1>4 DEF Tiles
    <3>. QED
      BY <1>1, <1>2, <3>1
  <2>3. ~(c < a)
    <3>1. c < a => n <= a
      BY DEF Tiles
    <3>. QED
      BY <1>1, <2>1, <3>1
  <2>. QED
    BY <2>1, <2>2, <2>3
<1>5. ASSUME NEW a \in L \ {n}
      PROVE  /\ nd2[a] \in HeaderType
             /\ nd2[a].next # Null =>
                  /\ nd2[a].next \in L \ {n}
                  /\ nd2[a].next = a + HeaderSize + nd2[a].capacity
  <2>1. CASE a = c
    <3>1. nd[n].next # Null =>
            /\ nd[n].next \in L /\ n < nd[n].next
            /\ nd[n].next = n + HeaderSize + nd[n].capacity
      BY TilesOrder
    <3>2. nd[n].next # Null => nd[n].next # n
      BY <1>1, <3>1
    <3>. QED
      BY <1>3, <2>1, <3>1, <3>2
  <2>2. CASE a # c
    <3>1. nd2[a] = nd[a] /\ nd[a].next # n
      BY <1>4, <2>2
    <3>. QED
      BY <3>1 DEF Tiles
  <2>. QED
    BY <2>1, <2>2
<1>6. ASSUME NEW a \in L \ {n}, NEW b \in L \ {n}, a < b
      PROVE  nd2[a].next # Null /\ nd2[a].next <= b
  <2>1. CASE a = c
    <3>1. n <= b
      BY <1>6, <2>1 DEF Tiles
    <3>2. n < b
      BY <1>1, <3>1
    <3>. QED
      BY <2>1, <3>2 DEF Tiles
  <2>2. CASE a # c
    <3>1. nd2[a] = nd[a]
      BY <2>2
    <3>. QED
      BY <1>6, <3>1 DEF Tiles
  <2>. QED
    BY <2>1, <2>2
<1>7. L \ {n} \subseteq Addr /\ (L \ {n} # {} => 0 \in L \ {n})
  BY <1>2 DEF Tiles
<1>. QED
  BY <1>1, <1>2, <1>3, <1>4, <1>5, <1>6, <1>7 DEF Tiles

(* The last block goes.                                                    *)
LEMMA OneTileLess ==
  ASSUME NEW nd, NEW nd2, NEW L, Tiles(nd, L), NEW c \in L, nd[c].next = Null,
         \A a \in L \ {c} : /\ nd2[a] \in HeaderType /\ nd2[a].capacity = nd[a].capacity
                            /\ nd2[a].next = IF nd[a].next = c THEN Null ELSE nd[a].next
  PROVE  /\ Tiles(nd2, L \ {c})
         /\ \A a \in L \ {c} : a < c
<1>1. \A a \in L : a \in Addr /\ a \in Nat
  BY TilesOrder
<1>2. \A a \in L \ {c} : a < c
  <2>1. \A a \in L : ~(c < a)
    BY DEF Tiles
  <2>. QED
    BY <1>1, <2>1
<1>3. ASSUME NEW a \in L \ {c}, NEW b \in L \ {c}, a < b
      PROVE  nd2[a].next # Null /\ nd2[a].next <= b
  <2>1. nd[a].next # Null /\ nd[a].next <= b /\ b < c
    BY <1>2, <1>3 DEF Tiles
  <2>2. nd[a].next # c
    BY <1>1, <2>1
  <2>. QED
    BY <2>1, <2>2
<1>4. L \ {c} # {} => 0 \in L \ {c}
  <2>1. c = 0 => L \ {c} = {}
    BY <1>1, <1>2
  <2>. QED
    BY <2>1 DEF Tiles
<1>. QED
  BY <1>2, <1>3, <1>4 DEF Tiles

-----------------------------------------------------------------------------
(***************************************************************************)
(* A block is handed out.                                                  *)
(***************************************************************************)
(* The list is empty exactly before its first block is set up.             *)
LEMMA StartedIs ==
  ASSUME node \in [Addr -> HeaderType \cup {Gone}]
  PROVE  Started <=> List # {}
<1>1. From = Reach(node)
  BY DEF From, Reach, Leads
<1>2. Leads(node, Reach(node))
  BY ReachExists
<1>3. 0 \in Reach(node)[0]
  <2>. DEFINE F == Reach(node)
  <2>. HIDE DEF F
  <2>1. F[0] = {0} \cup (IF node[0] = Gone \/ node[0].next = Null THEN {}
                         ELSE F[node[0].next])
    BY <1>2, Numbers DEF Leads, F
  <2>2. 0 \in F[0]
    BY <2>1
  <2>. QED
    BY <2>2 DEF F
<1>. QED
  BY <1>1, <1>3 DEF List

(* What its owner writes over is not a header of the list.                 *)
LEMMA HandedOut ==
  ASSUME NEW nodes \in [Addr -> HeaderType \cup {Gone}], NEW M, Tiles(nodes, M),
         NEW a \in M, NEW size \in Sizes, nodes[a].capacity = size,
         Begun(nodes), HandOut(a, size, nodes)
  PROVE  /\ node' \in [Addr -> HeaderType \cup {Gone}]
         /\ \A x \in M : node'[x] = nodes[x]
         /\ Tiles(node', M) /\ List' = M
<1>1. PICK written \in {Covered(a, HeaderSize, size), {}} :
        node' = [x \in Addr |-> IF x \in written THEN Gone ELSE nodes[x]]
  BY DEF HandOut
<1>2. ASSUME NEW x \in M, x \in Covered(a, HeaderSize, size)
      PROVE  FALSE
  <2>1. /\ x \in Nat /\ a \in Nat /\ size \in Nat /\ HeaderSize \in Nat
        /\ x + HeaderSize > a + HeaderSize /\ x < a + HeaderSize + size
    BY <1>2, TilesOrder, Numbers, AllocatorAssumption DEF Covered
  <2>2. a < x
    BY <2>1
  <2>3. a + HeaderSize + size <= x
    BY <2>2, TilesOrder
  <2>. QED
    BY <2>1, <2>3
<1>3. node' \in [Addr -> HeaderType \cup {Gone}]
  BY <1>1
<1>4. \A x \in M : x \in Addr /\ node'[x] = nodes[x]
  BY <1>1, <1>2, TilesOrder
<1>5. Tiles(node', M)
  <2>1. \A x \in M : nodes[x] \in HeaderType
    BY TilesOrder
  <2>. QED
    BY <1>4, <2>1, SameTiles
<1>6. M # {} /\ 0 \in M /\ Begun(node')
  BY <1>4 DEF Tiles, Begun
<1>7. List' = M
  BY <1>3, <1>5, <1>6, NextListIs
<1>. QED
  BY <1>3, <1>4, <1>5, <1>7

(* The blocks that callers have stay theirs, and the new one is one more.  *)
LEMMA HandOutKeepsOwned ==
  ASSUME Good, freeing = Idle, UNCHANGED << freeing, lost, kind >>,
         NEW nodes \in [Addr -> HeaderType \cup {Gone}], NEW M, Tiles(nodes, M),
         NEW a \in M, NEW size \in Sizes, nodes[a].capacity = size, nodes[a].inUse,
         Begun(nodes), HandOut(a, size, nodes),
         \A x \in List : x \in M /\ (node[x].inUse => nodes[x].inUse)
                                 /\ nodes[x].capacity = node[x].capacity,
         \A x \in M \ {a} : nodes[x].inUse => x \in List /\ node[x].inUse
  PROVE  /\ node' \in [Addr -> HeaderType \cup {Gone}] /\ live' \subseteq Block
         /\ ~lost' /\ Tiles(node', List') /\ Owned' /\ HasOwner' /\ BeingFreed'
         /\ List' = M /\ \A x \in M : node'[x] = nodes[x]
<1>1. /\ node' \in [Addr -> HeaderType \cup {Gone}]
      /\ \A x \in M : node'[x] = nodes[x]
      /\ Tiles(node', M) /\ List' = M
  BY HandedOut
<1>2. live' = live \cup {[addr |-> a, size |-> size]}
  BY DEF HandOut
<1>3. live' \subseteq Block
  BY <1>2, TilesOrder DEF Good, TypeOK, Block
<1>4. Owned'
  <2>. SUFFICES ASSUME NEW b \in live'
                PROVE  b.addr \in M /\ node'[b.addr].inUse /\ node'[b.addr].capacity = b.size
    BY <1>1 DEF Owned
  <2>1. CASE b = [addr |-> a, size |-> size]
    BY <1>1, <2>1
  <2>2. CASE b \in live
    <3>1. b.addr \in List /\ node[b.addr].inUse /\ node[b.addr].capacity = b.size
      BY <2>2 DEF Good, Owned
    <3>. QED
      BY <1>1, <3>1
  <2>. QED
    BY <1>2, <2>1, <2>2
<1>5. BeingFreed' /\ ~lost'
  BY DEF Good, BeingFreed, Idle
<1>6. HasOwner'
  <2>. SUFFICES ASSUME NEW x \in M, nodes[x].inUse
                PROVE  \E b \in live' : b.addr = x
    BY <1>1 DEF HasOwner
  <2>1. CASE x = a
    <3>. DEFINE new == [addr |-> a, size |-> size]
    <3>1. new \in live' /\ new.addr = a
      BY <1>2
    <3>. HIDE DEF new
    <3>. QED
      BY <2>1, <3>1
  <2>2. CASE x # a
    BY <1>2, <2>2 DEF Good, HasOwner
  <2>. QED
    BY <2>1, <2>2
<1>. QED
  BY <1>1, <1>3, <1>4, <1>5, <1>6

(* The sizes and the first block.                                          *)
LEMMA NewHeaderType ==
  ASSUME NEW size \in Sizes, NEW p \in Addr \cup {Null}
  PROVE  /\ Header(TRUE, size, p, Null) \in HeaderType
         /\ Header(TRUE, size, p, Null).next = Null
         /\ Header(TRUE, size, p, Null).inUse
         /\ Header(TRUE, size, p, Null).signature
         /\ Header(TRUE, size, p, Null).capacity = size
         /\ size \in Nat \ {0}
BY AllocatorAssumption DEF Header, HeaderType

(* The list begins with a block that is handed out.                        *)
LEMMA FirstHandOut ==
  ASSUME Good, Ready, ~Started, NEW size \in Sizes,
         HandOut(0, size, WithHeader(0, size, Null)),
         UNCHANGED << freeing, lost, kind >>
  PROVE  /\ node' \in [Addr -> HeaderType \cup {Gone}] /\ live' \subseteq Block
         /\ ~lost' /\ Tiles(node', List') /\ Owned' /\ HasOwner' /\ BeingFreed' /\ Merged'
         /\ List' = {0} /\ node'[0].capacity = size
<1>. DEFINE nodes == WithHeader(0, size, Null)
            h == Header(TRUE, size, Null, Null)
<1>1. node \in [Addr -> HeaderType \cup {Gone}] /\ freeing = Idle
  BY DEF Good, TypeOK, Ready
<1>2. List = {}
  BY <1>1, StartedIs
<1>3. /\ h \in HeaderType /\ h.next = Null /\ h.inUse /\ h.signature /\ h.capacity = size
      /\ size \in Nat \ {0}
  BY NewHeaderType
<1>. HIDE DEF h
<1>4. nodes \in [Addr -> HeaderType \cup {Gone}] /\ nodes[0] = h
  BY <1>1, <1>3, Numbers DEF WithHeader, h
<1>5. Tiles(nodes, {0}) /\ Begun(nodes)
  BY <1>3, <1>4, FirstTile, GoneIsNoHeader DEF Begun
<1>. HIDE DEF nodes
<1>6. HandOut(0, size, nodes)
  BY DEF nodes
<1>7. /\ node' \in [Addr -> HeaderType \cup {Gone}] /\ live' \subseteq Block
      /\ ~lost' /\ Tiles(node', List') /\ Owned' /\ HasOwner' /\ BeingFreed'
      /\ List' = {0} /\ \A x \in {0} : node'[x] = nodes[x]
  BY <1>1, <1>2, <1>3, <1>4, <1>5, <1>6, HandOutKeepsOwned
<1>8. Merged'
  BY <1>3, <1>4, <1>7 DEF Merged
<1>. QED
  BY <1>3, <1>4, <1>7, <1>8

(* myallocate, the first block.                                            *)
LEMMA ThreadHeadKeepsInv ==
  ASSUME Good, NEW size \in Sizes, ThreadHead(size)
  PROVE  Good'
<1>. DEFINE n == (size + HeaderSize) \div PageSize + 1
<1>1. /\ kind = "thread" /\ Ready /\ ~Started
      /\ HandOut(0, size, WithHeader(0, size, Null))
      /\ UNCHANGED << kind, freeing, stray, lost >>
  BY DEF ThreadHead
<1>2. /\ node' \in [Addr -> HeaderType \cup {Gone}] /\ live' \subseteq Block
      /\ ~lost' /\ Tiles(node', List') /\ Owned' /\ HasOwner' /\ BeingFreed' /\ Merged'
      /\ List' = {0} /\ node'[0].capacity = size
  BY <1>1, FirstHandOut
<1>3. \/ thread_page_count = 0 /\ n <= pagesLeft /\ Count(n) /\ UNCHANGED uncounted
      \/ /\ thread_page_count # 0
         /\ uncounted' = (uncounted \/ n > thread_page_count)
         /\ UNCHANGED << thread_page_count, pagesLeft >>
  BY DEF ThreadHead
<1>4. /\ PageSize \in Nat \ {0} /\ HeaderSize \in Nat \ {0} /\ size \in Nat /\ TotalPages \in Nat
  BY Numbers, AllocatorAssumption
<1>5. /\ n \in Nat \ {0} /\ size + HeaderSize < n * PageSize
  <2>. DEFINE d == (size + HeaderSize) \div PageSize
              r == (size + HeaderSize) % PageSize
  <2>1. /\ d \in Nat /\ r \in Nat /\ r < PageSize /\ size + HeaderSize = d * PageSize + r
    BY <1>4, PageAndOffset
  <2>. HIDE DEF d, r
  <2>2. (d + 1) * PageSize = d * PageSize + PageSize
    BY <1>4, <2>1, PagesToBytes
  <2>3. d * PageSize \in Nat
    BY <1>4, <2>1, PagesToBytes
  <2>4. size + HeaderSize < (d + 1) * PageSize
    BY <1>4, <2>1, <2>2, <2>3
  <2>5. n = d + 1
    BY DEF d
  <2>. QED
    BY <2>1, <2>4, <2>5
<1>. HIDE DEF n
<1>6. /\ thread_page_count \in 0..TotalPages /\ thread_page_count + pagesLeft = TotalPages
      /\ uncounted \in BOOLEAN /\ pagesLeft \in 0..TotalPages
  BY DEF Good, TypeOK
<1>7. /\ pagesLeft' \in 0..TotalPages
      /\ thread_page_count' \in 0..TotalPages /\ thread_page_count' + pagesLeft' = TotalPages
      /\ uncounted' \in BOOLEAN
      /\ uncounted' \/ n <= thread_page_count'
  <2>1. CASE thread_page_count = 0 /\ n <= pagesLeft /\ Count(n) /\ UNCHANGED uncounted
    BY <1>4, <1>5, <1>6, <2>1 DEF Count
  <2>2. CASE /\ thread_page_count # 0
             /\ uncounted' = (uncounted \/ n > thread_page_count)
             /\ UNCHANGED << thread_page_count, pagesLeft >>
    <3>1. uncounted' \in BOOLEAN /\ (uncounted' \/ ~(n > thread_page_count'))
      BY <2>2
    <3>2. n > thread_page_count' \/ n <= thread_page_count'
      BY <1>5, <1>6, <2>2
    <3>3. pagesLeft' = pagesLeft /\ thread_page_count' = thread_page_count
      BY <2>2
    <3>. QED
      BY <1>6, <3>1, <3>2, <3>3
  <2>. QED
    BY <1>3, <2>1, <2>2
<1>8. TypeOK'
  BY <1>1, <1>2, <1>7 DEF Good, TypeOK
<1>9. Counted'
  <2>. SUFFICES ASSUME ~uncounted'
                PROVE  0 + HeaderSize + node'[0].capacity < thread_page_count' * PageSize
    BY <1>2 DEF Counted, EndOf
  <2>1. n <= thread_page_count' /\ thread_page_count' \in Nat
    BY <1>7
  <2>2. n * PageSize <= thread_page_count' * PageSize
    BY <1>4, <1>5, <2>1, PagesToBytes
  <2>3. n * PageSize \in Nat /\ thread_page_count' * PageSize \in Nat
    BY <1>4, <1>5, <2>1, PagesToBytes
  <2>. QED
    BY <1>2, <1>4, <1>5, <2>2, <2>3
<1>. QED
  BY <1>2, <1>7, <1>8, <1>9 DEF Good

(* schedulerallocate and shalloc, the first block.                         *)
LEMMA RegionHeadKeepsInv ==
  ASSUME Good, NEW size \in Sizes, RegionHead(size)
  PROVE  Good'
<1>1. /\ kind # "thread" /\ Ready /\ ~Started /\ size < End
      /\ HandOut(0, size, WithHeader(0, size, Null))
      /\ UNCHANGED << kind, freeing, count, stray, lost >>
  BY DEF RegionHead
<1>2. /\ node' \in [Addr -> HeaderType \cup {Gone}] /\ live' \subseteq Block
      /\ ~lost' /\ Tiles(node', List') /\ Owned' /\ HasOwner' /\ BeingFreed' /\ Merged'
      /\ List' = {0} /\ node'[0].capacity = size
  BY <1>1, FirstHandOut
<1>3. TypeOK'
  BY <1>1, <1>2 DEF Good, TypeOK, count
<1>4. Counted'
  BY <1>1 DEF Counted
<1>. QED
  BY <1>1, <1>2, <1>3, <1>4 DEF Good, count

(* A first request that fails leaves an empty block.                       *)
LEMMA FailedHeadKeepsInv ==
  ASSUME Good, NEW size \in Sizes, FailedHead(size)
  PROVE  Good'
<1>. DEFINE h == Header(FALSE, 0, Null, Null)
<1>1. /\ kind # "thread" /\ Ready /\ ~Started
      /\ node' = [node EXCEPT ![0] = h]
      /\ UNCHANGED << kind, live, freeing, count, stray, lost >>
  BY DEF FailedHead
<1>2. h \in HeaderType /\ h.next = Null /\ h.capacity = 0 /\ ~h.inUse /\ h.signature
  BY DEF Header, HeaderType
<1>. HIDE DEF h
<1>3. node \in [Addr -> HeaderType \cup {Gone}] /\ freeing = Idle
  BY <1>1 DEF Good, TypeOK, Ready
<1>4. List = {} /\ live = {}
  <2>1. List = {}
    BY <1>1, <1>3, StartedIs
  <2>. QED
    BY <2>1 DEF Good, Owned
<1>5. node' \in [Addr -> HeaderType \cup {Gone}] /\ node'[0] = h
  BY <1>1, <1>2, <1>3, Numbers
<1>6. Tiles(node', {0}) /\ Begun(node')
  BY <1>2, <1>5, FirstTile, GoneIsNoHeader DEF Begun
<1>7. List' = {0}
  BY <1>5, <1>6, NextListIs
<1>8. TypeOK' /\ ~lost'
  BY <1>1, <1>5 DEF Good, TypeOK, count
<1>9. Owned' /\ BeingFreed'
  BY <1>1, <1>3, <1>4 DEF Owned, BeingFreed, Idle
<1>10. Merged' /\ Counted'
  BY <1>1, <1>2, <1>5, <1>7 DEF Merged, Counted
<1>11. HasOwner'
  BY <1>2, <1>5, <1>7 DEF HasOwner
<1>. QED
  BY <1>1, <1>6, <1>7, <1>8, <1>9, <1>10, <1>11 DEF Good, count

(* All three allocators: a free block is taken again.                      *)
LEMMA ReuseKeepsInv ==
  ASSUME Good, NEW size \in Sizes, Reuse(size)
  PROVE  Good'
<1>. DEFINE a == Min(Fits(size))
            nodes == [node EXCEPT ![a].inUse = TRUE]
<1>1. /\ Ready /\ Started /\ HandOut(a, size, nodes)
      /\ UNCHANGED << kind, freeing, count, stray, lost >>
  BY DEF Reuse
<1>2. Tiles(node, List) /\ node \in [Addr -> HeaderType \cup {Gone}] /\ freeing = Idle
  BY <1>1 DEF Good, TypeOK, Ready
<1>3. a \in List /\ ~node[a].inUse /\ node[a].capacity = size
  <2>1. Fits(size) \subseteq Addr /\ Fits(size) # {}
    BY <1>2 DEF Fits, Reuse, Tiles
  <2>2. a \in Fits(size)
    BY <2>1, MinIs
  <2>. QED
    BY <2>2 DEF Fits
<1>. HIDE DEF a
<1>4. \A x \in List : x \in Addr /\ node[x] \in HeaderType /\ node[x] # Gone
  BY <1>2, TilesOrder
<1>5. /\ nodes \in [Addr -> HeaderType \cup {Gone}]
      /\ nodes[a].inUse /\ nodes[a] \in HeaderType
      /\ nodes[a].capacity = node[a].capacity /\ nodes[a].next = node[a].next
      /\ nodes[a].signature = node[a].signature
      /\ \A x \in Addr \ {a} : nodes[x] = node[x]
  <2>. DEFINE h == [node[a] EXCEPT !.inUse = TRUE]
  <2>1. /\ h \in HeaderType /\ h.inUse /\ h.capacity = node[a].capacity
        /\ h.next = node[a].next /\ h.signature = node[a].signature
    BY <1>3, <1>4 DEF HeaderType
  <2>2. nodes = [node EXCEPT ![a] = h]
    OBVIOUS
  <2>. HIDE DEF h, nodes
  <2>. QED
    BY <1>2, <1>3, <1>4, <2>1, <2>2
<1>. HIDE DEF nodes
<1>6. Tiles(nodes, List)
  BY <1>2, <1>4, <1>5, SameTiles
<1>7. Begun(nodes)
  BY <1>1, <1>5, GoneIsNoHeader, Numbers DEF Begun, Started
<1>8. \A x \in List : /\ node[x].inUse => nodes[x].inUse
                      /\ nodes[x].capacity = node[x].capacity /\ nodes[x].next = node[x].next
                      /\ x # a => nodes[x] = node[x]
  BY <1>4, <1>5
<1>9. /\ node' \in [Addr -> HeaderType \cup {Gone}] /\ live' \subseteq Block
      /\ ~lost' /\ Tiles(node', List') /\ Owned' /\ HasOwner' /\ BeingFreed'
      /\ List' = List /\ \A x \in List : node'[x] = nodes[x]
  BY <1>1, <1>2, <1>3, <1>4, <1>5, <1>6, <1>7, <1>8, HandOutKeepsOwned
<1>10. TypeOK'
  BY <1>1, <1>9 DEF Good, TypeOK, count
<1>11. Merged'
  <2>. SUFFICES ASSUME NEW x \in List, ~node'[x].inUse, node'[x].capacity # 0
                PROVE  node'[x].next # Null /\ node'[node'[x].next].inUse
    BY <1>9 DEF Merged
  <2>1. x # a /\ node'[x] = node[x] /\ x # Null
    BY <1>4, <1>5, <1>8, <1>9, Numbers
  <2>2. node[x].next # Null /\ node[node[x].next].inUse
    BY <1>2, <2>1 DEF Good, Merged, Idle
  <2>3. node[x].next \in List
    BY <1>2, <2>2, TilesOrder
  <2>. QED
    BY <1>8, <1>9, <2>1, <2>2, <2>3
<1>12. Counted'
  <2>1. \A x \in List : EndOf(x)' = EndOf(x)
    BY <1>8, <1>9 DEF EndOf
  <2>2. UNCHANGED << kind, thread_page_count, uncounted >>
    BY <1>1 DEF count
  <2>. QED
    BY <1>9, <2>1, <2>2 DEF Good, Counted
<1>. QED
  BY <1>1, <1>9, <1>10, <1>11, <1>12 DEF Good, count

(* A block is appended where the last one ends.                            *)
LEMMA AppendHandOut ==
  ASSUME Good, Ready, Started, NEW size \in Sizes, NEW a \in Addr, a = EndOf(Last),
         HandOut(a, size, WithHeader(a, size, Last)),
         UNCHANGED << freeing, lost, kind >>
  PROVE  /\ node' \in [Addr -> HeaderType \cup {Gone}] /\ live' \subseteq Block
         /\ ~lost' /\ Tiles(node', List') /\ Owned' /\ HasOwner' /\ BeingFreed' /\ Merged'
         /\ List' = List \cup {a} /\ node'[a].capacity = size
         /\ Last \in List
         /\ \A x \in List : node'[x].capacity = node[x].capacity
<1>. DEFINE nodes == WithHeader(a, size, Last)
            M == List \cup {a}
            h == Header(TRUE, size, Last, Null)
            l == [node[Last] EXCEPT !.next = a]
<1>1. node \in [Addr -> HeaderType \cup {Gone}] /\ freeing = Idle /\ Tiles(node, List)
  BY DEF Good, TypeOK, Ready
<1>2. List # {}
  BY <1>1, StartedIs
<1>3. /\ Last \in List /\ node[Last].next = Null
      /\ \A x \in List \ {Last} : node[x].next # Null /\ EndOf(x) <= Last
  BY <1>1, <1>2, LastIs
<1>4. \A x \in List : /\ x \in Addr /\ x \in Nat /\ node[x] \in HeaderType /\ node[x] # Gone
                      /\ node[x].capacity \in Nat /\ node[x].inUse \in BOOLEAN
  BY <1>1, TilesOrder
<1>5. /\ h \in HeaderType /\ h.next = Null /\ h.inUse /\ h.capacity = size
      /\ size \in Nat \ {0}
  <2>1. Last \in Addr \cup {Null}
    BY <1>3, <1>4
  <2>. QED
    BY <2>1, NewHeaderType
<1>6. /\ l \in HeaderType /\ l.next = a /\ l.inUse = node[Last].inUse
      /\ l.capacity = node[Last].capacity /\ l.signature = node[Last].signature
  <2>1. node[Last] \in HeaderType /\ a \in Addr \cup {Null}
    BY <1>3, <1>4
  <2>. QED
    BY <2>1 DEF HeaderType
<1>7. \A x \in List : x + HeaderSize <= a /\ x # a
  <2>. SUFFICES ASSUME NEW x \in List PROVE x + HeaderSize <= a /\ x # a
    OBVIOUS
  <2>1. CASE x = Last
    BY <1>4, <2>1, Numbers DEF EndOf
  <2>2. CASE x # Last
    <3>1. x + HeaderSize + node[x].capacity <= Last
      BY <1>3, <2>2 DEF EndOf
    <3>2. Last <= a /\ a \in Nat /\ Last \in Nat
      BY <1>3, <1>4, Numbers DEF EndOf
    <3>. QED
      BY <1>4, <3>1, <3>2, Numbers
  <2>. QED
    BY <2>1, <2>2
<1>. HIDE DEF h, l
<1>8. /\ nodes \in [Addr -> HeaderType \cup {Gone}]
      /\ nodes[a] = h /\ nodes[Last] = l /\ \A x \in List \ {Last} : nodes[x] = node[x]
  <2>. DEFINE under == {x \in Addr \ {a} : x + HeaderSize > a /\ x < a + HeaderSize}
  <2>1. nodes = [x \in Addr |-> IF x = a THEN h
                                ELSE IF x \in under THEN Gone
                                ELSE IF x = Last THEN l ELSE node[x]]
    <3>1. \A x \in Addr : x = Last => [node[x] EXCEPT !.next = a] = l
      BY DEF l
    <3>. QED
      BY <3>1 DEF WithHeader, h
  <2>2. \A x \in List : x \notin under
    <3>1. \A x \in List : ~(x + HeaderSize > a)
      BY <1>4, <1>7, Numbers
    <3>. QED
      BY <3>1
  <2>. HIDE DEF nodes, under
  <2>. QED
    BY <1>1, <1>3, <1>4, <1>5, <1>6, <1>7, <2>1, <2>2
<1>. HIDE DEF nodes
<1>9. Tiles(nodes, M) /\ a \notin List
  <2>1. a = Last + HeaderSize + node[Last].capacity
    BY DEF EndOf
  <2>2. \A x \in List \ {Last} : /\ node[x].next # Null
                                 /\ x + HeaderSize + node[x].capacity <= Last
    BY <1>3 DEF EndOf
  <2>. QED
    BY <1>1, <1>3, <1>5, <1>8, <2>1, <2>2, OneMoreTile DEF l
<1>10. Begun(nodes)
  <2>1. 0 \in List /\ node[0] # Gone /\ node[0].signature
    BY <1>1, <1>2 DEF Tiles, Started
  <2>. QED
    BY <1>3, <1>6, <1>8, <2>1, GoneIsNoHeader DEF Begun
<1>11. \A x \in List : /\ x \in M /\ (node[x].inUse => nodes[x].inUse)
                       /\ nodes[x].capacity = node[x].capacity
  BY <1>6, <1>8
<1>a. \A x \in M \ {a} : nodes[x].inUse => x \in List /\ node[x].inUse
  BY <1>6, <1>8
<1>12. HandOut(a, size, nodes) /\ a \in M /\ nodes[a].capacity = size /\ nodes[a].inUse
  BY <1>5, <1>8 DEF nodes
<1>. HIDE DEF M
<1>13. /\ node' \in [Addr -> HeaderType \cup {Gone}] /\ live' \subseteq Block
       /\ ~lost' /\ Tiles(node', List') /\ Owned' /\ HasOwner' /\ BeingFreed'
       /\ List' = M /\ \A x \in M : node'[x] = nodes[x]
  BY <1>1, <1>8, <1>9, <1>10, <1>11, <1>12, <1>a, HandOutKeepsOwned
<1>14. Merged'
  <2>. SUFFICES ASSUME NEW x \in M, ~node'[x].inUse, node'[x].capacity # 0
                PROVE  node'[x].next # Null /\ node'[node'[x].next].inUse
    BY <1>13 DEF Merged
  <2>1. x \in List
    BY <1>5, <1>8, <1>13 DEF M
  <2>2. CASE x = Last
    <3>1. node'[x].next = a /\ node'[a].inUse
      BY <1>5, <1>6, <1>8, <1>12, <1>13, <2>2
    <3>. QED
      BY <3>1, Numbers
  <2>3. CASE x # Last
    <3>1. node'[x] = node[x] /\ x # Null
      BY <1>4, <1>8, <1>13, <2>1, <2>3, Numbers
    <3>2. node[x].next # Null /\ node[node[x].next].inUse
      BY <1>1, <2>1, <3>1 DEF Good, Merged, Idle
    <3>3. node[x].next \in List
      BY <1>1, <2>1, <3>2, TilesOrder
    <3>. QED
      BY <1>11, <1>13, <3>1, <3>2, <3>3
  <2>. QED
    BY <2>2, <2>3
<1>. QED
  BY <1>3, <1>11, <1>12, <1>13, <1>14 DEF M

(* myallocate, a further block.                                            *)
LEMMA ThreadAppendKeepsInv ==
  ASSUME Good, NEW size \in Sizes, ThreadAppend(size)
  PROVE  Good'
<1>. DEFINE a == EndOf(Last)
            s == a + HeaderSize
            n == MorePages(s, size)
<1>1. /\ kind = "thread" /\ Ready /\ Started
      /\ s + size < End /\ n <= pagesLeft /\ Count(n)
      /\ uncounted' = (uncounted \/ a \div PageSize # s \div PageSize)
      /\ HandOut(a, size, WithHeader(a, size, Last))
      /\ UNCHANGED << kind, freeing, stray, lost >>
  BY DEF ThreadAppend
<1>2. /\ Tiles(node, List) /\ Last \in List
      /\ thread_page_count \in 0..TotalPages /\ thread_page_count + pagesLeft = TotalPages
      /\ uncounted \in BOOLEAN /\ pagesLeft \in 0..TotalPages
  <2>1. node \in [Addr -> HeaderType \cup {Gone}] /\ Tiles(node, List)
    BY DEF Good, TypeOK
  <2>. QED
    BY <1>1, <2>1, StartedIs, LastIs DEF Good, TypeOK
<1>3. /\ PageSize \in Nat \ {0} /\ HeaderSize \in Nat \ {0} /\ size \in Nat \ {0}
      /\ End \in Nat /\ TotalPages \in Nat
  BY Numbers, AllocatorAssumption
<1>4. a \in Nat /\ s \in Nat
  BY <1>2, <1>3, TilesOrder DEF EndOf
<1>. HIDE DEF a
<1>5. a \in Addr
  BY <1>1, <1>3, <1>4, Numbers
<1>6. /\ node' \in [Addr -> HeaderType \cup {Gone}] /\ live' \subseteq Block
      /\ ~lost' /\ Tiles(node', List') /\ Owned' /\ HasOwner' /\ BeingFreed' /\ Merged'
      /\ List' = List \cup {a} /\ node'[a].capacity = size
      /\ \A x \in List : node'[x].capacity = node[x].capacity
  BY <1>1, <1>5, AppendHandOut DEF a
<1>. DEFINE k == a \div PageSize
            r == s % PageSize
            q == (r + size) % PageSize
<1>7. /\ k \in Nat /\ k * PageSize \in Nat /\ k * PageSize <= a
  <2>1. /\ k \in Nat /\ a % PageSize \in Nat
        /\ k * PageSize \in Nat /\ a = k * PageSize + (a % PageSize)
    BY <1>3, <1>4, PageAndOffset
  <2>. HIDE DEF k
  <2>. QED
    BY <2>1
<1>8. /\ r \in Nat /\ s = (s \div PageSize) * PageSize + r /\ r + size \in Nat
  BY <1>3, <1>4, PageAndOffset
<1>. HIDE DEF r, s
<1>9. /\ n = (r + size) \div PageSize
      /\ n \in Nat /\ q \in Nat /\ q < PageSize /\ n * PageSize \in Nat
      /\ r + size = n * PageSize + q
  <2>1. n = (r + size) \div PageSize
    BY DEF MorePages, r
  <2>. QED
    BY <1>3, <1>8, <2>1, PageAndOffset
<1>. HIDE DEF n, q
<1>10. /\ thread_page_count' = thread_page_count + n
       /\ pagesLeft' \in 0..TotalPages
       /\ thread_page_count' \in 0..TotalPages /\ thread_page_count' + pagesLeft' = TotalPages
  <2>1. /\ n <= pagesLeft /\ thread_page_count' = thread_page_count + n
        /\ pagesLeft' = pagesLeft - n
    BY <1>1, Zenon DEF Count
  <2>2. n \in Nat /\ TotalPages \in Nat
    BY <1>3, <1>9
  <2>3. /\ thread_page_count \in 0..TotalPages /\ thread_page_count + pagesLeft = TotalPages
        /\ pagesLeft \in 0..TotalPages
    BY <1>2
  <2>. QED
    BY <2>1, <2>2, <2>3
<1>11. uncounted' \in BOOLEAN /\ (~uncounted' => ~uncounted /\ k = s \div PageSize)
  BY <1>1, <1>2
<1>12. TypeOK'
  BY <1>1, <1>6, <1>10, <1>11 DEF Good, TypeOK
<1>13. \A x \in List : x \in Nat /\ node[x].capacity \in Nat /\ EndOf(x)' = EndOf(x)
                       /\ EndOf(x) \in Nat
  BY <1>2, <1>3, <1>6, TilesOrder DEF EndOf
<1>14. \A x \in List' : x = a => EndOf(x)' = s + size
  BY <1>6 DEF EndOf, s
<1>15. Counted'
  <2>. DEFINE t == thread_page_count
  <2>. SUFFICES ASSUME ~uncounted', NEW x \in List'
                PROVE  EndOf(x)' < (t + n) * PageSize
    BY <1>10 DEF Counted
  <2>1. t \in Nat /\ t * PageSize \in Nat
    BY <1>2, <1>3, PagesToBytes
  <2>2. \A y \in List : EndOf(y) < t * PageSize
    BY <1>1, <1>11 DEF Good, Counted
  <2>3. t * PageSize <= (t + n) * PageSize
    BY <1>3, <1>9, <2>1, PagesToBytes
  <2>4. (t + n) * PageSize \in Nat
    BY <1>3, <1>9, <2>1, PagesToBytes
  <2>5. CASE x \in List
    BY <1>13, <2>1, <2>2, <2>3, <2>4, <2>5
  <2>6. CASE x = a
    <3>1. a < t * PageSize
      BY <1>2, <2>2 DEF a
    <3>2. ~(t <= k)
      <4>1. t <= k => t * PageSize <= k * PageSize
        BY <1>3, <1>7, <2>1, PagesToBytes
      <4>. QED
        BY <1>4, <1>7, <2>1, <3>1, <4>1
    <3>3. k + n + 1 \in Nat /\ t + n \in Nat /\ k + n \in Nat /\ k + n + 1 <= t + n
      BY <1>7, <1>9, <2>1, <3>2
    <3>4. (k + n + 1) * PageSize <= (t + n) * PageSize
      BY <1>3, <3>3, PagesToBytes
    <3>5. (k + n + 1) * PageSize = (k + n) * PageSize + PageSize
      BY <1>3, <3>3, PagesToBytes
    <3>6. (k + n) * PageSize = k * PageSize + n * PageSize
      BY <1>3, <1>7, <1>9, SMT
    <3>7. s = k * PageSize + r
      BY <1>8, <1>11
    <3>8. EndOf(x)' = k * PageSize + n * PageSize + q
      <4>1. EndOf(x)' = s + size
        BY <1>14, <2>6
      <4>2. s + size = (k * PageSize + r) + size
        BY <3>7
      <4>. HIDE DEF k
      <4>3. (k * PageSize + r) + size = k * PageSize + (r + size)
        BY <1>3, <1>7, <1>8
      <4>4. k * PageSize + (r + size) = k * PageSize + n * PageSize + q
        BY <1>7, <1>9
      <4>. QED
        BY <4>1, <4>2, <4>3, <4>4
    <3>. HIDE DEF k
    <3>. DEFINE kb == k * PageSize
                nb == n * PageSize
                tb == (t + n) * PageSize
    <3>9. /\ kb \in Nat /\ nb \in Nat /\ tb \in Nat /\ q \in Nat /\ q < PageSize
          /\ kb + nb + PageSize <= tb
      BY <1>7, <1>9, <2>4, <3>4, <3>5, <3>6
    <3>10. EndOf(x)' = kb + nb + q
      BY <3>8
    <3>. HIDE DEF kb, nb, tb
    <3>11. EndOf(x)' < tb
      BY <1>3, <3>9, <3>10
    <3>. QED
      BY <3>11 DEF tb
  <2>. QED
    BY <1>6, <2>5, <2>6
<1>. QED
  BY <1>6, <1>10, <1>12, <1>15 DEF Good

(* schedulerallocate and shalloc, a further block.                         *)
LEMMA RegionAppendKeepsInv ==
  ASSUME Good, NEW size \in Sizes, RegionAppend(size)
  PROVE  Good'
<1>. DEFINE a == EndOf(Last)
<1>1. /\ kind # "thread" /\ Ready /\ Started /\ a + size < End
      /\ HandOut(a, size, WithHeader(a, size, Last))
      /\ UNCHANGED << kind, freeing, count, stray, lost >>
  BY DEF RegionAppend
<1>2. Tiles(node, List) /\ Last \in List
  <2>1. node \in [Addr -> HeaderType \cup {Gone}] /\ Tiles(node, List)
    BY DEF Good, TypeOK
  <2>. QED
    BY <1>1, <2>1, StartedIs, LastIs
<1>3. HeaderSize \in Nat \ {0} /\ size \in Nat \ {0} /\ End \in Nat
  BY Numbers, AllocatorAssumption
<1>4. a \in Nat
  BY <1>2, <1>3, TilesOrder DEF EndOf
<1>. HIDE DEF a
<1>5. a \in Addr
  BY <1>1, <1>3, <1>4, Numbers
<1>6. /\ node' \in [Addr -> HeaderType \cup {Gone}] /\ live' \subseteq Block
      /\ ~lost' /\ Tiles(node', List') /\ Owned' /\ HasOwner' /\ BeingFreed' /\ Merged'
      /\ List' = List \cup {a} /\ node'[a].capacity = size
      /\ \A x \in List : node'[x].capacity = node[x].capacity
  BY <1>1, <1>5, AppendHandOut DEF a
<1>7. TypeOK'
  BY <1>1, <1>6 DEF Good, TypeOK, count
<1>8. Counted'
  BY <1>1 DEF Counted
<1>. QED
  BY <1>1, <1>6, <1>7, <1>8 DEF Good, count

-----------------------------------------------------------------------------
(***************************************************************************)
(* mydeallocate.                                                           *)
(***************************************************************************)
(* Only one block has a given block behind it.                             *)
LEMMA UniquePredecessor ==
  ASSUME NEW nd, NEW L, Tiles(nd, L), NEW x \in L, NEW y \in L,
         nd[x].next = nd[y].next, nd[x].next # Null
  PROVE  x = y
<1>1. x \in Nat /\ y \in Nat /\ x < nd[x].next /\ y < nd[x].next /\ nd[x].next \in Nat
  BY TilesOrder
<1>2. ~(x < y)
  <2>1. x < y => nd[x].next <= y
    BY DEF Tiles
  <2>. QED
    BY <1>1, <2>1
<1>3. ~(y < x)
  <2>1. y < x => nd[x].next <= x
    BY DEF Tiles
  <2>. QED
    BY <1>1, <2>1
<1>. QED
  BY <1>1, <1>2, <1>3

(* The headers stay as they are, and so does the list.                     *)
LEMMA SameList ==
  ASSUME UNCHANGED node
  PROVE  List' = List /\ \A a : EndOf(a)' = EndOf(a)
BY DEF List, From, Started, EndOf

(* A block that is there begins the list.                                  *)
LEMMA BegunIs ==
  ASSUME Good, NEW a \in List
  PROVE  Begun(node) /\ 0 \in List
BY StartedIs DEF Good, TypeOK, Tiles, Begun, Started

(* mydeallocate marks the block as free.                                   *)
LEMMA FreeKeepsInv ==
  ASSUME Good, NEW block \in live, Free(block)
  PROVE  Good'
<1>. DEFINE c == block.addr
            h == [node[c] EXCEPT !.inUse = FALSE]
<1>1. /\ Tiles(node, List) /\ node \in [Addr -> HeaderType \cup {Gone}]
      /\ c \in List /\ node[c].inUse /\ node[c].capacity = block.size
  BY DEF Good, TypeOK, Owned
<1>2. \A x \in List : x \in Addr /\ node[x] \in HeaderType /\ node[x] # Gone
  BY <1>1, TilesOrder
<1>3. /\ Ready /\ live' = live \ {block}
      /\ node' = [node EXCEPT ![c] = h]
      /\ freeing' = [at |-> c, phase |-> "prev"]
      /\ UNCHANGED << kind, count, stray, lost >>
  BY <1>1, <1>2 DEF Free
<1>4. /\ h \in HeaderType /\ ~h.inUse /\ h.capacity = node[c].capacity
      /\ h.next = node[c].next /\ h.signature = node[c].signature
  BY <1>1, <1>2 DEF HeaderType
<1>. HIDE DEF c, h
<1>5. /\ node' \in [Addr -> HeaderType \cup {Gone}]
      /\ node'[c] = h /\ \A x \in List \ {c} : node'[x] = node[x]
  BY <1>1, <1>2, <1>3, <1>4
<1>6. \A x \in List : /\ node'[x] \in HeaderType
                      /\ node'[x].next = node[x].next /\ node'[x].capacity = node[x].capacity
                      /\ node'[x].signature = node[x].signature
  BY <1>2, <1>4, <1>5
<1>7. Tiles(node', List)
  BY <1>1, <1>6, SameTiles
<1>8. List' = List
  <2>1. Begun(node) /\ 0 \in List
    BY <1>1, BegunIs
  <2>2. Begun(node')
    BY <1>6, <2>1, GoneIsNoHeader DEF Begun
  <2>. QED
    BY <1>5, <1>7, <2>1, <2>2, NextListIs
<1>9. TypeOK' /\ ~lost' /\ pagesLeft' \in 0..TotalPages
  BY <1>1, <1>2, <1>3, <1>5 DEF Good, TypeOK, count
<1>10. Owned'
  <2>. SUFFICES ASSUME NEW b \in live, b # block
                PROVE  b.addr \in List /\ node'[b.addr].inUse /\ node'[b.addr].capacity = b.size
    BY <1>3, <1>8 DEF Owned
  <2>1. b.addr \in List /\ node[b.addr].inUse /\ node[b.addr].capacity = b.size
    BY DEF Good, Owned
  <2>2. b \in Block /\ block \in Block
    BY DEF Good, TypeOK
  <2>3. b.addr # c
    BY <1>1, <2>1, <2>2 DEF Block, c
  <2>. QED
    BY <1>5, <2>1, <2>3
<1>11. BeingFreed'
  BY <1>1, <1>3, <1>4, <1>5, <1>8 DEF BeingFreed
<1>12. Merged'
  <2>. SUFFICES ASSUME NEW x \in List \ {c}, ~node'[x].inUse, node'[x].capacity # 0
                PROVE  /\ node'[x].next # Null
                       /\ node'[node'[x].next].inUse \/ node'[x].next = c
    BY <1>3, <1>8 DEF Merged
  <2>1. node'[x] = node[x] /\ x # Null
    BY <1>2, <1>5, Numbers
  <2>2. node[x].next # Null /\ node[node[x].next].inUse
    BY <1>3, <2>1 DEF Good, Merged, Ready, Idle
  <2>3. node[x].next \in List
    BY <1>1, <2>2, TilesOrder
  <2>. QED
    BY <1>5, <2>1, <2>2, <2>3
<1>13. Counted'
  <2>1. \A x \in List : EndOf(x)' = EndOf(x)
    BY <1>6 DEF EndOf
  <2>2. UNCHANGED << kind, thread_page_count, uncounted >>
    BY <1>3 DEF count
  <2>. QED
    BY <1>8, <2>1, <2>2 DEF Good, Counted
<1>14. HasOwner'
  <2>. SUFFICES ASSUME NEW x \in List, node'[x].inUse
                PROVE  \E b \in live \ {block} : b.addr = x
    BY <1>3, <1>8 DEF HasOwner
  <2>1. x # c /\ node[x].inUse
    BY <1>4, <1>5
  <2>2. PICK b \in live : b.addr = x
    BY <2>1 DEF Good, HasOwner
  <2>. QED
    BY <2>1, <2>2 DEF c
<1>. QED
  BY <1>7, <1>8, <1>9, <1>10, <1>11, <1>12, <1>13, <1>14 DEF Good

(* A free block swallows the free block behind it.                         *)
LEMMA MergeKeeps ==
  ASSUME Good, NEW c \in List, NEW n \in List, node[c].next = n,
         ~node[c].inUse, ~node[n].inUse,
         NEW h \in HeaderType,
         h.next = node[n].next, h.capacity = node[c].capacity + HeaderSize + node[n].capacity,
         h.signature = node[c].signature, ~h.inUse,
         node' \in [Addr -> HeaderType \cup {Gone}], node'[c] = h,
         \A x \in List \ {c, n} : node'[x] = node[x],
         UNCHANGED << kind, live, count, lost >>
  PROVE  /\ Tiles(node', List') /\ Owned' /\ HasOwner' /\ Counted' /\ ~lost'
         /\ List' = List \ {n} /\ c < n
         /\ \A x \in List' \ {c} : node'[x] = node[x]
<1>1. Tiles(node, List) /\ node \in [Addr -> HeaderType \cup {Gone}]
  BY DEF Good, TypeOK
<1>2. \A x \in List : x \in Addr /\ x \in Nat /\ node[x] \in HeaderType /\ node[x] # Gone
  BY <1>1, TilesOrder
<1>3. c < n
  BY <1>1, <1>2, TilesOrder, Numbers
<1>4. /\ Tiles(node', List \ {n}) /\ n # 0
      /\ c + HeaderSize + node'[c].capacity = n + HeaderSize + node[n].capacity
  <2>1. /\ node'[c] \in HeaderType /\ node'[c].next = node[n].next
        /\ node'[c].capacity = node[c].capacity + HeaderSize + node[n].capacity
    OBVIOUS
  <2>. QED
    BY <1>1, <2>1, MergedTile
<1>5. List' = List \ {n}
  <2>1. Begun(node) /\ 0 \in List \ {n}
    BY <1>4, BegunIs
  <2>2. Begun(node')
    <3>1. node'[0] = h \/ node'[0] = node[0]
      BY <2>1
    <3>2. node'[0] = h => c = 0 \/ h = node[0]
      BY <2>1
    <3>. QED
      BY <2>1, <3>1, <3>2, GoneIsNoHeader DEF Begun
  <2>. QED
    BY <1>4, <2>1, <2>2, NextListIs
<1>6. Owned'
  <2>. SUFFICES ASSUME NEW b \in live
                PROVE  b.addr \in List \ {n} /\ node'[b.addr].inUse
                       /\ node'[b.addr].capacity = b.size
    BY <1>5 DEF Owned
  <2>1. b.addr \in List /\ node[b.addr].inUse /\ node[b.addr].capacity = b.size
    BY DEF Good, Owned
  <2>2. b.addr # n /\ b.addr # c
    BY <2>1
  <2>. QED
    BY <2>1, <2>2
<1>7. \A x \in List \ {n} : \/ EndOf(x)' = EndOf(x)
                            \/ x = c /\ EndOf(x)' = EndOf(n)
  BY <1>4 DEF EndOf
<1>8. Counted'
  <2>1. UNCHANGED << kind, thread_page_count, uncounted >>
    BY DEF count
  <2>. QED
    BY <1>5, <1>7, <2>1 DEF Good, Counted
<1>9. HasOwner'
  BY <1>5 DEF Good, HasOwner
<1>. QED
  BY <1>3, <1>4, <1>5, <1>6, <1>8, <1>9 DEF Good

(* mydeallocate, lines 672-683: the block before swallows this one.        *)
LEMMA MergePrevKeepsInv ==
  ASSUME Good, MergePrev, ~stray'
  PROVE  Good'
<1>. DEFINE c == freeing.at
            p == Before
            dead == [node[c] EXCEPT !.signature = FALSE]
            h == [node[p] EXCEPT !.next = node[c].next,
                                 !.capacity = @ + HeaderSize + node[c].capacity]
<1>1. /\ freeing.phase = "prev" /\ Unused(p) /\ IsPrevOf(p, c)
      /\ freeing' = [freeing EXCEPT !.at = p]
      /\ UNCHANGED << kind, live, count, lost >>
  BY DEF MergePrev, At
<1>2. /\ Tiles(node, List) /\ node \in [Addr -> HeaderType \cup {Gone}]
      /\ c \in List /\ ~node[c].inUse
      /\ freeing \in [at : Addr \cup {Null}, phase : {"none", "prev", "next"}]
  BY <1>1 DEF Good, TypeOK, BeingFreed
<1>3. p \in Addr /\ ~node[p].inUse /\ p \in List /\ node[p].next = c
  BY <1>1, Numbers DEF Unused, IsPrevOf
<1>4. \A x \in List : /\ x \in Addr /\ x \in Nat /\ node[x] \in HeaderType
                      /\ node[x].capacity \in Nat /\ node[x].next \in Addr \cup {Null}
  BY <1>2, TilesOrder
<1>5. p # c
  BY <1>2, <1>3, <1>4, TilesOrder, Numbers
<1>6. node' = [node EXCEPT ![c] = dead, ![p] = h]
  BY <1>2, <1>3, <1>4, <1>5 DEF MergePrev
<1>7. dead \in HeaderType
  <2>1. node[c] \in HeaderType
    BY <1>2, <1>4
  <2>. HIDE DEF c
  <2>. QED
    BY <2>1 DEF HeaderType
<1>8. /\ h \in HeaderType /\ h.next = node[c].next /\ h.signature = node[p].signature
      /\ h.capacity = node[p].capacity + HeaderSize + node[c].capacity /\ ~h.inUse
  <2>. HIDE DEF c, p
  <2>. DEFINE more == node[p].capacity + HeaderSize + node[c].capacity
  <2>1. h = [node[p] EXCEPT !.next = node[c].next, !.capacity = more]
    BY <1>3, <1>4 DEF HeaderType
  <2>2. more \in Nat /\ node[c].next \in Addr \cup {Null} /\ node[p] \in HeaderType
    BY <1>2, <1>3, <1>4, Numbers
  <2>. HIDE DEF more, h
  <2>3. /\ h \in HeaderType /\ h.next = node[c].next /\ h.signature = node[p].signature
        /\ h.capacity = more /\ h.inUse = node[p].inUse
    BY <2>1, <2>2 DEF HeaderType
  <2>. QED
    BY <1>3, <2>3 DEF more
<1>. HIDE DEF c, p, dead, h
<1>a. /\ node' \in [Addr -> HeaderType \cup {Gone}] /\ node'[p] = h
      /\ \A x \in List \ {p, c} : node'[x] = node[x]
  BY <1>2, <1>3, <1>4, <1>5, <1>6, <1>7, <1>8
<1>9. /\ Tiles(node', List') /\ Owned' /\ HasOwner' /\ Counted' /\ ~lost'
      /\ List' = List \ {c} /\ node'[p] = h /\ p < c
      /\ \A x \in List' \ {p} : node'[x] = node[x]
  BY <1>1, <1>2, <1>3, <1>8, <1>a, MergeKeeps
<1>10. freeing'.at = p /\ freeing'.phase = "prev"
       /\ freeing' \in [at : Addr \cup {Null}, phase : {"none", "prev", "next"}]
  BY <1>1, <1>2, <1>3
<1>11. TypeOK' /\ pagesLeft' \in 0..TotalPages
  BY <1>1, <1>a, <1>9, <1>10 DEF Good, TypeOK, MergePrev, count
<1>12. BeingFreed'
  BY <1>3, <1>5, <1>8, <1>9, <1>10 DEF BeingFreed
<1>13. Merged'
  <2>. SUFFICES ASSUME NEW x \in List' \ {p}, ~node'[x].inUse, node'[x].capacity # 0
                PROVE  node'[x].next # Null /\ node'[node'[x].next].inUse
    BY <1>10 DEF Merged
  <2>1. x \in List \ {c} /\ node'[x] = node[x]
    BY <1>9
  <2>2. node[x].next # Null /\ (node[node[x].next].inUse \/ node[x].next = c)
    BY <2>1 DEF Good, Merged, c
  <2>3. node[x].next # c
    BY <1>2, <1>3, <2>1, <2>2, UniquePredecessor
  <2>4. node[x].next \in List \ {c} /\ node[x].next # p
    BY <1>2, <1>3, <2>1, <2>2, <2>3, TilesOrder
  <2>. QED
    BY <1>9, <2>1, <2>2, <2>3, <2>4
<1>. QED
  BY <1>9, <1>11, <1>12, <1>13 DEF Good

(* mydeallocate, lines 673-686: the block before is in use and stays.      *)
LEMMA PrevInUseKeepsInv ==
  ASSUME Good, PrevInUse, ~stray'
  PROVE  Good'
<1>. DEFINE c == freeing.at
            p == Before
<1>1. /\ freeing.phase = "prev" /\ ~Overwritten(p) /\ ~Unused(p) /\ IsPrevOf(p, c)
      /\ freeing' = [freeing EXCEPT !.phase = "next"]
      /\ UNCHANGED << kind, node, live, count, lost >>
  BY DEF PrevInUse, At
<1>2. /\ Tiles(node, List) /\ node \in [Addr -> HeaderType \cup {Gone}]
      /\ c \in List /\ ~node[c].inUse
      /\ freeing \in [at : Addr \cup {Null}, phase : {"none", "prev", "next"}]
  BY <1>1 DEF Good, TypeOK, BeingFreed
<1>3. c # 0 => p \in List /\ node[p].next = c /\ node[p].inUse
  <2>. SUFFICES ASSUME c # 0 PROVE p \in List /\ node[p].next = c /\ node[p].inUse
    OBVIOUS
  <2>1. p \in List /\ node[p].next = c
    BY <1>1 DEF IsPrevOf
  <2>2. p \in Addr /\ node[p] # Gone
    BY <1>2, <2>1, TilesOrder
  <2>. QED
    BY <1>1, <2>1, <2>2 DEF Unused
<1>4. /\ freeing'.at = c /\ freeing'.phase = "next" /\ c' = c /\ p' = p
      /\ freeing' \in [at : Addr \cup {Null}, phase : {"none", "prev", "next"}]
  BY <1>1, <1>2 DEF Before
<1>5. List' = List /\ \A a : EndOf(a)' = EndOf(a)
  BY <1>1, SameList
<1>6. TypeOK' /\ ~lost' /\ pagesLeft' \in 0..TotalPages /\ Tiles(node', List')
  BY <1>1, <1>2, <1>4, <1>5 DEF Good, TypeOK, PrevInUse, count
<1>7. Owned' /\ HasOwner' /\ Counted'
  BY <1>1, <1>5 DEF Good, Owned, HasOwner, Counted, count
<1>8. BeingFreed'
  <2>1. IsPrevOf(p, c)'
    BY <1>1, <1>4, <1>5 DEF IsPrevOf
  <2>. QED
    BY <1>1, <1>2, <1>3, <1>4, <1>5, <2>1 DEF BeingFreed
<1>9. Merged'
  <2>. SUFFICES ASSUME NEW x \in List \ {c}, ~node[x].inUse, node[x].capacity # 0
                PROVE  node[x].next # Null /\ node[node[x].next].inUse
    BY <1>1, <1>4, <1>5 DEF Merged
  <2>1. node[x].next # Null /\ (node[node[x].next].inUse \/ node[x].next = c)
    BY DEF Good, Merged
  <2>2. node[x].next # c
    <3>. SUFFICES ASSUME node[x].next = c PROVE FALSE
      OBVIOUS
    <3>1. x \in Nat /\ x < c
      BY <1>2, <2>1, TilesOrder
    <3>2. p \in List /\ node[p].next = c /\ node[p].inUse
      BY <1>3, <3>1
    <3>3. x = p
      BY <1>2, <2>1, <3>2, UniquePredecessor
    <3>. QED
      BY <3>2, <3>3
  <2>. QED
    BY <2>1, <2>2
<1>. QED
  BY <1>6, <1>7, <1>8, <1>9 DEF Good

(* mydeallocate, lines 688-697: this block swallows the one behind it.     *)
LEMMA MergeNextKeepsInv ==
  ASSUME Good, MergeNext
  PROVE  Good'
<1>. DEFINE c == freeing.at
            n == Behind
            p == Before
            more == node[c].capacity + HeaderSize + node[n].capacity
            dead == [node[n] EXCEPT !.signature = FALSE]
            h == [node[c] EXCEPT !.capacity = more, !.next = node[n].next]
<1>1. /\ freeing.phase = "next" /\ Unused(n)
      /\ UNCHANGED << kind, live, count, freeing, stray, lost >>
  BY DEF MergeNext, At
<1>2. /\ Tiles(node, List) /\ node \in [Addr -> HeaderType \cup {Gone}]
      /\ c \in List /\ ~node[c].inUse
      /\ IsPrevOf(p, c) /\ (c # 0 => node[p].inUse)
  BY <1>1 DEF Good, TypeOK, BeingFreed
<1>3. n = node[c].next /\ n \in List /\ ~node[n].inUse /\ c < n
  <2>1. n = node[c].next /\ n # Null /\ ~node[n].inUse
    BY <1>1, Numbers DEF Unused, Behind
  <2>. QED
    BY <1>2, <2>1, TilesOrder
<1>4. \A x \in List : /\ x \in Addr /\ x \in Nat /\ node[x] \in HeaderType
                      /\ node[x].capacity \in Nat /\ node[x].next \in Addr \cup {Null}
  BY <1>2, TilesOrder
<1>5. c # n /\ more \in Nat
  BY <1>2, <1>3, <1>4, Numbers
<1>6. node' = [node EXCEPT ![n] = dead, ![c] = h]
  BY <1>2, <1>3, <1>4, <1>5 DEF MergeNext
<1>7. dead \in HeaderType
  <2>1. node[n] \in HeaderType
    BY <1>3, <1>4
  <2>. HIDE DEF n
  <2>. QED
    BY <2>1 DEF HeaderType
<1>8. /\ h \in HeaderType /\ h.next = node[n].next /\ h.signature = node[c].signature
      /\ h.capacity = more /\ ~h.inUse /\ h.prev = p
  <2>1. node[n].next \in Addr \cup {Null} /\ node[c] \in HeaderType /\ p = node[c].prev
    BY <1>2, <1>3, <1>4 DEF Before
  <2>. HIDE DEF more
  <2>. QED
    BY <1>2, <1>5, <2>1 DEF HeaderType
<1>. HIDE DEF c, n, p, dead, h
<1>9. /\ node' \in [Addr -> HeaderType \cup {Gone}] /\ node'[c] = h
      /\ \A x \in List \ {c, n} : node'[x] = node[x]
  BY <1>2, <1>3, <1>4, <1>5, <1>6, <1>7, <1>8
<1>10. /\ Tiles(node', List') /\ Owned' /\ HasOwner' /\ Counted' /\ ~lost'
       /\ List' = List \ {n} /\ \A x \in List' \ {c} : node'[x] = node[x]
  BY <1>1, <1>2, <1>3, <1>8, <1>9, MergeKeeps
<1>11. TypeOK' /\ pagesLeft' \in 0..TotalPages
  BY <1>1, <1>9, <1>10 DEF Good, TypeOK, count
<1>12. freeing'.at = c /\ freeing'.phase = "next" /\ c' = c /\ p' = p
  BY <1>1, <1>8, <1>9 DEF c, p, Before
<1>13. BeingFreed'
  <2>1. c \in List' /\ ~node'[c].inUse
    BY <1>2, <1>5, <1>8, <1>9, <1>10
  <2>2. ASSUME c # 0
        PROVE  p \in List' /\ node'[p] = node[p] /\ node[p].next = c /\ node'[p] # Gone
    <3>1. p \in List /\ node[p].next = c /\ c # Null /\ node[p] # Gone
      BY <1>2, <1>4, <2>2, Numbers DEF IsPrevOf
    <3>2. p < c
      BY <1>2, <3>1, TilesOrder
    <3>3. p # c /\ p # n
      BY <1>2, <1>3, <1>4, <3>1, <3>2
    <3>. QED
      BY <1>10, <3>1, <3>3
  <2>3. IsPrevOf(p, c)'
    BY <1>2, <1>12, <2>2 DEF IsPrevOf
  <2>. QED
    BY <1>2, <1>12, <2>1, <2>2, <2>3 DEF BeingFreed, p, c
<1>14. Merged'
  <2>. SUFFICES ASSUME NEW x \in List' \ {c}, ~node'[x].inUse, node'[x].capacity # 0
                PROVE  node'[x].next # Null /\ node'[node'[x].next].inUse
    BY <1>12 DEF Merged
  <2>1. x \in List /\ node'[x] = node[x]
    BY <1>10
  <2>2. node[x].next # Null /\ node[node[x].next].inUse
    BY <1>1, <2>1 DEF Good, Merged, c
  <2>3. node[x].next \in List \ {c, n}
    BY <1>2, <1>3, <2>1, <2>2, TilesOrder
  <2>. QED
    BY <1>9, <2>1, <2>2, <2>3
<1>. QED
  BY <1>10, <1>11, <1>13, <1>14 DEF Good

(* mydeallocate, lines 688-697: the block behind is in use and stays.      *)
LEMMA KeepFreeKeepsInv ==
  ASSUME Good, KeepFree
  PROVE  Good'
<1>. DEFINE c == freeing.at
            n == Behind
<1>1. /\ freeing.phase = "next" /\ n # Null /\ ~Overwritten(n) /\ ~Unused(n)
      /\ freeing' = Idle
      /\ UNCHANGED << kind, node, live, count, stray, lost >>
  BY DEF KeepFree, At
<1>2. /\ Tiles(node, List) /\ node \in [Addr -> HeaderType \cup {Gone}]
      /\ c \in List
  BY <1>1 DEF Good, TypeOK, BeingFreed
<1>3. n = node[c].next /\ node[n].inUse
  <2>1. n = node[c].next /\ n \in List
    BY <1>1, <1>2, TilesOrder DEF Behind
  <2>2. n \in Addr /\ node[n] # Gone
    BY <1>2, <2>1, TilesOrder
  <2>. QED
    BY <1>1, <2>1, <2>2 DEF Unused
<1>4. List' = List /\ \A a : EndOf(a)' = EndOf(a)
  BY <1>1, SameList
<1>5. TypeOK' /\ ~lost' /\ pagesLeft' \in 0..TotalPages /\ Tiles(node', List')
  BY <1>1, <1>4 DEF Good, TypeOK, Idle, count
<1>6. Owned' /\ HasOwner' /\ Counted' /\ BeingFreed'
  BY <1>1, <1>4 DEF Good, Owned, HasOwner, Counted, BeingFreed, Idle, count
<1>7. Merged'
  <2>. SUFFICES ASSUME NEW x \in List, ~node[x].inUse, node[x].capacity # 0
                PROVE  node[x].next # Null /\ node[node[x].next].inUse
    BY <1>1, <1>4 DEF Merged
  <2>1. CASE x = c
    BY <1>1, <1>3, <2>1
  <2>2. CASE x # c
    BY <1>1, <2>2 DEF Good, Merged
  <2>. QED
    BY <2>1, <2>2
<1>. QED
  BY <1>5, <1>6, <1>7 DEF Good

(* mydeallocate, lines 699-709: nothing is behind the block, it goes.      *)
LEMMA DeleteTailKeepsInv ==
  ASSUME Good, DeleteTail
  PROVE  Good'
<1>. DEFINE c == freeing.at
            p == Before
            dead == [node[c] EXCEPT !.signature = FALSE, !.capacity = 0, !.prev = Null]
            l == [node[p] EXCEPT !.next = Null]
<1>1. /\ freeing.phase = "next" /\ node[c].next = Null
      /\ freeing' = Idle
      /\ UNCHANGED << kind, live, count, stray, lost >>
  BY DEF DeleteTail, At, Behind
<1>2. /\ Tiles(node, List) /\ node \in [Addr -> HeaderType \cup {Gone}]
      /\ c \in List /\ ~node[c].inUse
      /\ IsPrevOf(p, c) /\ (c # 0 => node[p].inUse)
  BY <1>1 DEF Good, TypeOK, BeingFreed
<1>3. \A x \in List : /\ x \in Addr /\ x \in Nat /\ node[x] \in HeaderType /\ node[x] # Gone
                      /\ node[x].capacity \in Nat /\ node[x].next \in Addr \cup {Null}
  BY <1>2, TilesOrder
<1>4. IF c = 0 THEN p = Null
      ELSE p \in List /\ node[p].next = c /\ p # c /\ p # Null
  BY <1>1, <1>2, <1>3, Numbers DEF IsPrevOf
<1>5. node' = IF c = 0 THEN [node EXCEPT ![c] = dead]
              ELSE [node EXCEPT ![c] = dead, ![p] = l]
  BY <1>2, <1>3, <1>4 DEF DeleteTail
<1>6. dead \in HeaderType /\ ~dead.signature
  <2>1. node[c] \in HeaderType /\ 0 \in Nat /\ Null \in Addr \cup {Null}
    BY <1>2, <1>3
  <2>. QED
    BY <2>1 DEF HeaderType
<1>7. c # 0 => /\ l \in HeaderType /\ l.next = Null /\ l.inUse = node[p].inUse
               /\ l.capacity = node[p].capacity /\ l.signature = node[p].signature
  BY <1>3, <1>4 DEF HeaderType
<1>. HIDE DEF c, p, dead, l
<1>8. /\ node' \in [Addr -> HeaderType \cup {Gone}] /\ node'[c] = dead
      /\ c # 0 => node'[p] = l
      /\ \A x \in List \ {c, p} : node'[x] = node[x]
  BY <1>2, <1>3, <1>4, <1>5, <1>6, <1>7
<1>9. \A x \in List \ {c, p} : node[x].next # c
  <2>. SUFFICES ASSUME NEW x \in List \ {c, p}, node[x].next = c PROVE FALSE
    OBVIOUS
  <2>1. c # Null /\ x < c /\ x \in Nat
    BY <1>2, <1>3, Numbers, TilesOrder
  <2>2. p \in List /\ node[p].next = c
    BY <1>4, <2>1
  <2>. QED
    BY <1>2, <2>1, <2>2, UniquePredecessor
<1>10. \A x \in List \ {c} :
         /\ node'[x] \in HeaderType /\ node'[x].capacity = node[x].capacity
         /\ node'[x].next = IF node[x].next = c THEN Null ELSE node[x].next
         /\ node'[x].inUse = node[x].inUse /\ node'[x].signature = node[x].signature
  <2>. TAKE x \in List \ {c}
  <2>1. CASE x = p
    <3>1. c # 0
      BY <1>3, <1>4, <2>1, Numbers
    <3>. QED
      BY <1>4, <1>7, <1>8, <2>1, <3>1
  <2>2. CASE x # p
    BY <1>3, <1>8, <1>9, <2>2
  <2>. QED
    BY <2>1, <2>2
<1>11. Tiles(node', List \ {c}) /\ \A x \in List \ {c} : x < c
  <2>1. \A x \in List \ {c} :
         /\ node'[x] \in HeaderType /\ node'[x].capacity = node[x].capacity
         /\ node'[x].next = IF node[x].next = c THEN Null ELSE node[x].next
    BY <1>10
  <2>. QED
    BY <1>1, <1>2, <2>1, OneTileLess
<1>12. List' = List \ {c}
  <2>1. Begun(node) /\ 0 \in List
    BY <1>2, BegunIs
  <2>2. c = 0 => ~Begun(node') /\ List \ {c} = {}
    BY <1>3, <1>6, <1>8, <1>11 DEF Begun
  <2>3. c # 0 => Begun(node') /\ List \ {c} # {}
    BY <1>10, <2>1, GoneIsNoHeader DEF Begun
  <2>. QED
    BY <1>8, <1>11, <2>2, <2>3, NextListIs
<1>13. TypeOK' /\ ~lost' /\ pagesLeft' \in 0..TotalPages
  BY <1>1, <1>8 DEF Good, TypeOK, Idle, count
<1>14. Owned'
  <2>. SUFFICES ASSUME NEW b \in live
                PROVE  b.addr \in List \ {c} /\ node'[b.addr].inUse
                       /\ node'[b.addr].capacity = b.size
    BY <1>1, <1>12 DEF Owned
  <2>1. b.addr \in List /\ node[b.addr].inUse /\ node[b.addr].capacity = b.size
    BY DEF Good, Owned
  <2>2. b.addr # c
    BY <1>2, <2>1
  <2>. QED
    BY <1>10, <2>1, <2>2
<1>15. BeingFreed'
  BY <1>1 DEF BeingFreed, Idle
<1>16. Merged'
  <2>. SUFFICES ASSUME NEW x \in List \ {c}, ~node'[x].inUse, node'[x].capacity # 0
                PROVE  node'[x].next # Null /\ node'[node'[x].next].inUse
    BY <1>12 DEF Merged
  <2>1. ~node[x].inUse /\ node[x].capacity # 0
    BY <1>10
  <2>2. node[x].next # Null /\ node[node[x].next].inUse
    BY <1>1, <2>1 DEF Good, Merged, c
  <2>3. node[x].next \in List \ {c}
    BY <1>2, <2>2, TilesOrder
  <2>. QED
    BY <1>10, <2>2, <2>3
<1>17. Counted'
  <2>1. \A x \in List \ {c} : EndOf(x)' = EndOf(x)
    BY <1>10 DEF EndOf
  <2>2. UNCHANGED << kind, thread_page_count, uncounted >>
    BY <1>1 DEF count
  <2>. QED
    BY <1>12, <2>1, <2>2 DEF Good, Counted
<1>18. HasOwner'
  BY <1>1, <1>10, <1>12 DEF Good, HasOwner
<1>. QED
  BY <1>11, <1>12, <1>13, <1>14, <1>15, <1>16, <1>17, <1>18 DEF Good

(* A header that is gone is not followed from a list that is whole.        *)
LEMMA NothingGone ==
  ASSUME Good, FollowGone, ~stray'
  PROVE  FALSE
<1>1. /\ Tiles(node, List)
      /\ \A x \in List : node[x] # Gone /\ node[x].next \in List \cup {Null}
  <2>1. Tiles(node, List)
    BY DEF Good
  <2>. QED
    BY <2>1, TilesOrder
<1>2. freeing # Idle => IsPrevOf(Before, freeing.at)
  BY DEF FollowGone
<1>3. Null \notin Addr
  BY Numbers
<1>4. freeing # Idle => ~Overwritten(Before)
  BY <1>1, <1>2, <1>3 DEF IsPrevOf, Overwritten
<1>5. Intact
  BY <1>1 DEF Intact
<1>6. At("next") => ~Overwritten(Behind)
  BY <1>1, <1>3 DEF Good, BeingFreed, At, Behind, Overwritten
<1>7. At("prev") \/ At("next") => freeing # Idle
  BY DEF At, Idle
<1>. QED
  BY <1>4, <1>5, <1>6, <1>7 DEF FollowGone

-----------------------------------------------------------------------------
(***************************************************************************)
(* The theorems.                                                           *)
(***************************************************************************)
(* At the start no block is there.                                         *)
LEMMA InitIsGood ==
  ASSUME Init
  PROVE  AllocatorInv
<1>1. node \in [Addr -> HeaderType \cup {Gone}] /\ node[0] = Gone
  BY Numbers DEF Init
<1>2. List = {}
  BY <1>1 DEF List, Started
<1>3. TypeOK /\ ~lost /\ pagesLeft \in 0..TotalPages
  <2>1. thread_page_count = 0 /\ pagesLeft = TotalPages /\ TotalPages \in Nat
    BY Numbers DEF Init
  <2>2. /\ thread_page_count \in 0..TotalPages /\ pagesLeft \in 0..TotalPages
        /\ thread_page_count + pagesLeft = TotalPages
    BY <2>1
  <2>3. freeing \in [at : Addr \cup {Null}, phase : {"none", "prev", "next"}]
    BY DEF Init, Idle
  <2>. QED
    BY <1>1, <2>2, <2>3 DEF Init, TypeOK
<1>4. Tiles(node, List) /\ Owned /\ HasOwner /\ BeingFreed /\ Merged /\ Counted
  BY <1>2 DEF Init, Tiles, Owned, HasOwner, BeingFreed, Merged, Counted, Idle
<1>. QED
  BY <1>3, <1>4 DEF AllocatorInv, Good, Init

(* A step that changes nothing.                                            *)
LEMMA StutterIsGood ==
  ASSUME Good, UNCHANGED vars
  PROVE  Good'
<1>1. List' = List
  BY SameList DEF vars
<1>2. TypeOK' /\ Tiles(node', List') /\ Owned' /\ HasOwner' /\ Merged'
  BY <1>1 DEF vars, Good, TypeOK, Owned, HasOwner, Merged
<1>3. BeingFreed' /\ Counted'
  BY <1>1 DEF vars, Good, BeingFreed, IsPrevOf, Before, Counted, EndOf
<1>. QED
  BY <1>2, <1>3 DEF vars, Good

(* stray, once set, stays.                                                 *)
LEMMA StrayStays ==
  ASSUME stray \in BOOLEAN, [Next]_vars
  PROVE  stray' \in BOOLEAN /\ (stray => stray')
<1>1. ASSUME NEW size \in Sizes,
             ThreadHead(size) \/ Reuse(size) \/ ThreadAppend(size)
               \/ RegionHead(size) \/ FailedHead(size) \/ RegionAppend(size)
      PROVE  stray' = stray
  BY <1>1 DEF ThreadHead, Reuse, ThreadAppend, RegionHead, FailedHead, RegionAppend
<1>2. ASSUME NEW block \in live, Free(block)
      PROVE  stray' = stray
  BY <1>2 DEF Free
<1>3. MergeNext \/ KeepFree \/ DeleteTail => stray' = stray
  BY DEF MergeNext, KeepFree, DeleteTail
<1>4. MergePrev \/ PrevInUse \/ FollowGone => stray' \in BOOLEAN /\ (stray => stray')
  BY Zenon DEF MergePrev, PrevInUse, FollowGone
<1>5. UNCHANGED vars => stray' = stray
  BY DEF vars
<1>. QED
  BY <1>1, <1>2, <1>3, <1>4, <1>5 DEF Next, mydeallocate

(* The invariant of the allocator holds: until mydeallocate follows a prev *)
(* that is out of date, the blocks of the list tile the region and those   *)
(* that callers hold are in it.                                            *)
THEOREM AllocatorInvariant == Spec => []AllocatorInv
<1>1. Init => AllocatorInv
  BY InitIsGood
<1>2. AllocatorInv /\ [Next]_vars => AllocatorInv'
  <2>. SUFFICES ASSUME AllocatorInv, [Next]_vars
                PROVE  AllocatorInv'
    OBVIOUS
  <2>0. stray' \in BOOLEAN /\ (stray => stray')
    BY StrayStays DEF AllocatorInv
  <2>. SUFFICES ASSUME ~stray'
                PROVE  Good'
    BY <2>0 DEF AllocatorInv
  <2>1. Good
    BY <2>0 DEF AllocatorInv
  <2>2. ASSUME NEW size \in Sizes, ThreadHead(size)
        PROVE  Good'
    BY <2>1, <2>2, ThreadHeadKeepsInv
  <2>3. ASSUME NEW size \in Sizes, Reuse(size)
        PROVE  Good'
    BY <2>1, <2>3, ReuseKeepsInv
  <2>4. ASSUME NEW size \in Sizes, ThreadAppend(size)
        PROVE  Good'
    BY <2>1, <2>4, ThreadAppendKeepsInv
  <2>5. ASSUME NEW size \in Sizes, RegionHead(size)
        PROVE  Good'
    BY <2>1, <2>5, RegionHeadKeepsInv
  <2>6. ASSUME NEW size \in Sizes, FailedHead(size)
        PROVE  Good'
    BY <2>1, <2>6, FailedHeadKeepsInv
  <2>7. ASSUME NEW size \in Sizes, RegionAppend(size)
        PROVE  Good'
    BY <2>1, <2>7, RegionAppendKeepsInv
  <2>8. ASSUME NEW block \in live, Free(block)
        PROVE  Good'
    BY <2>1, <2>8, FreeKeepsInv
  <2>9. CASE MergePrev
    BY <2>1, <2>9, MergePrevKeepsInv
  <2>10. CASE PrevInUse
    BY <2>1, <2>10, PrevInUseKeepsInv
  <2>11. CASE MergeNext
    BY <2>1, <2>11, MergeNextKeepsInv
  <2>12. CASE KeepFree
    BY <2>1, <2>12, KeepFreeKeepsInv
  <2>13. CASE DeleteTail
    BY <2>1, <2>13, DeleteTailKeepsInv
  <2>14. CASE FollowGone
    BY <2>1, <2>14, NothingGone
  <2>15. CASE UNCHANGED vars
    BY <2>1, <2>15, StutterIsGood
  <2>. QED
    BY <2>2, <2>3, <2>4, <2>5, <2>6, <2>7, <2>8, <2>9, <2>10, <2>11, <2>12, <2>13, <2>14,
       <2>15 DEF Next, mydeallocate
<1>. QED
  BY <1>1, <1>2, PTL DEF Spec

(* Until mydeallocate follows a prev that is out of date: every variable   *)
(* has its type and no page is counted twice, as the bounds that myallocate*)
(* checks keep pagesLeft from falling below 0.                             *)
THEOREM AllocatorTypeCorrect == Spec => [](~stray => TypeOK)
<1>1. AllocatorInv => (~stray => TypeOK)
  BY DEF AllocatorInv, Good
<1>. QED
  BY <1>1, AllocatorInvariant, PTL

(* Until mydeallocate follows a prev that is out of date: no two blocks    *)
(* that callers hold overlap, and mydeallocate does not meet a header that *)
(* is gone.                                                                *)
THEOREM BlocksNeverOverlap == Spec => []BlocksDisjoint
<1>1. AllocatorInv => BlocksDisjoint
  <2>. SUFFICES ASSUME Good
                PROVE  ~lost /\ Disjoint
    BY DEF AllocatorInv, BlocksDisjoint
  <2>. SUFFICES ASSUME NEW b \in live, NEW c \in live, b # c
                PROVE  Apart(b, c)
    BY DEF Good, Disjoint
  <2>1. /\ b.addr \in List /\ node[b.addr].capacity = b.size
        /\ c.addr \in List /\ node[c.addr].capacity = c.size
        /\ Tiles(node, List)
    BY DEF Good, Owned
  <2>2. b \in Block /\ c \in Block
    BY DEF Good, TypeOK
  <2>3. b.addr # c.addr
    BY <2>1, <2>2 DEF Block
  <2>4. b.addr \in Nat /\ c.addr \in Nat
    BY <2>1, TilesOrder
  <2>5. b.addr < c.addr \/ c.addr < b.addr
    BY <2>3, <2>4
  <2>. QED
    BY <2>1, <2>5, TilesOrder DEF Apart
<1>. QED
  BY <1>1, AllocatorInvariant, PTL

(* Until mydeallocate follows a prev that is out of date: the list holds   *)
(* every block that callers hold, under the size that was asked for.       *)
THEOREM BlocksStayListed == Spec => []LiveListed
<1>1. AllocatorInv => LiveListed
  BY DEF AllocatorInv, Good, Owned, LiveListed
<1>. QED
  BY <1>1, AllocatorInvariant, PTL

(* As long as every prev that it follows is the block before, mydeallocate *)
(* leaves no two free blocks side by side, nor a free block at the end of  *)
(* the list.                                                               *)
THEOREM FreeBlocksAreMerged == Spec => []Coalesced
<1>1. AllocatorInv => Coalesced
  <2>. SUFFICES ASSUME Good, freeing = Idle, NEW a \in List,
                       ~node[a].inUse, node[a].capacity # 0
                PROVE  node[a].next # Null /\ node[node[a].next].inUse
    BY DEF AllocatorInv, Coalesced
  <2>1. a # Null
    BY Numbers DEF Good, Tiles
  <2>. QED
    BY <2>1 DEF Good, Merged, Idle
<1>. QED
  BY <1>1, AllocatorInvariant, PTL

(* The pages that myallocate counts reach to the end of every block, until *)
(* mydeallocate follows a prev that is out of date or a block got a page   *)
(* that was not counted: its header astride two pages, or the first block  *)
(* of a list that was empty again.                                         *)
THEOREM BlocksLieInCountedPages == Spec => []PagesCounted
<1>1. AllocatorInv => PagesCounted
  <2>. SUFFICES ASSUME Good, kind = "thread", ~uncounted, NEW b \in live
                PROVE  b.addr + HeaderSize + b.size - 1 < thread_page_count * PageSize
    BY DEF AllocatorInv, PagesCounted
  <2>. DEFINE bytes == thread_page_count * PageSize
  <2>1. b.addr \in List /\ node[b.addr].capacity = b.size /\ Tiles(node, List)
    BY DEF Good, Owned
  <2>2. b.addr + HeaderSize + b.size < bytes
    BY <2>1 DEF Good, Counted, EndOf
  <2>3. b.addr \in Nat /\ b.size \in Nat /\ HeaderSize \in Nat
    BY <2>1, TilesOrder, Numbers
  <2>4. bytes \in Nat
    <3>1. thread_page_count \in Nat /\ PageSize \in Nat
      BY Numbers DEF Good, TypeOK
    <3>. QED
      BY <3>1, PagesToBytes
  <2>. HIDE DEF bytes
  <2>5. b.addr + HeaderSize + b.size - 1 < bytes
    BY <2>2, <2>3, <2>4
  <2>. QED
    BY <2>5 DEF bytes
<1>. QED
  BY <1>1, AllocatorInvariant, PTL

(* mydeallocate loses no byte and no block while every prev that it follows*)
(* is the block before: the blocks of the list lie one behind the other,   *)
(* and those marked as in use are those that callers hold.                 *)
THEOREM NothingIsLeaked == Spec => []NothingLeaks
<1>1. AllocatorInv => NothingLeaks
  <2>. SUFFICES ASSUME Good, NEW a \in List
                PROVE  /\ node[a].next # Null => node[a].next = EndOf(a)
                       /\ node[a].inUse => \E b \in live : b.addr = a
    BY DEF AllocatorInv, NothingLeaks
  <2>. QED
    BY DEF Good, Tiles, HasOwner, EndOf
<1>. QED
  BY <1>1, AllocatorInvariant, PTL
=============================================================================
