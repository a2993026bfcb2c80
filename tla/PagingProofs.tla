----------------------------- MODULE PagingProofs -----------------------------
(***************************************************************************)
(* What the fault handler keeps, for any number of threads, frames, slots  *)
(* and pages.  As long as no page was put away under a home that is not    *)
(* its own, every page of a living thread is in one place and what was     *)
(* granted can be had; as long as protectPages moreover left no page open, *)
(* no page is lost and no thread reaches what another one wrote; and with  *)
(* one page to a thread neither of the two ever happens.                   *)
(***************************************************************************)
EXTENDS Paging, TLAPS, WellFoundedInduction, FiniteSetTheorems

Nodes == NodeType(Frame \cup {AtHome})

-----------------------------------------------------------------------------
(***************************************************************************)
(* The inductive invariant.                                                *)
(***************************************************************************)
(* The page table and the counters.  No frame is filed under itself: a     *)
(* page in its home has no return address.                                 *)
PagingType ==
  /\ currThread \in Thread
  /\ frame \in [Frame -> Nodes] /\ slot \in [Slot -> Nodes]
  /\ accessible \subseteq Frame
  /\ misfiled \in BOOLEAN /\ skipped \in BOOLEAN
  /\ \A f \in Frame : frame[f].retAddr # f

CountType ==
  /\ currThread \in alive /\ alive \subseteq Thread
  /\ hand \in Frame
  /\ pages \in [Thread -> 0..MaxPages] /\ pagesLeft \in Int
  /\ touched \in [Thread -> SUBSET Page]
  /\ most \in 0..MaxPages /\ \A t \in Thread : pages[t] <= most

(* What was granted, page by page, and what is left make up the table.     *)
Granted(pg) == {p \in Thread \X Page : p[2] < pg[p[1]]}
Counted == pagesLeft >= 0 /\ Cardinality(Granted(pages)) + pagesLeft = TotalPages

(* No page of a thread is filed twice.                                     *)
FiledOnce ==
  /\ \A f, g \in Frame :
       /\ frame[f].threadid # Free /\ frame[f].threadid = frame[g].threadid
       /\ Home(frame, f) = Home(frame, g)
       => f = g
  /\ \A r, s \in Slot :
       /\ slot[r].threadid # Free /\ slot[r].threadid = slot[s].threadid
       /\ slot[r].retAddr = slot[s].retAddr
       => r = s
  /\ \A f \in Frame, s \in Slot :
       frame[f].threadid # Free /\ frame[f].threadid = slot[s].threadid
       => Home(frame, f) # slot[s].retAddr

(* A thread owns no more pages than it was granted.                        *)
WithinGrant ==
  /\ \A f \in Frame :
       frame[f].threadid \in alive => Home(frame, f) < pages[frame[f].threadid]
  /\ \A s \in Slot :
       slot[s].threadid \in alive =>
         slot[s].retAddr # AtHome /\ slot[s].retAddr < pages[slot[s].threadid]

(* A page holds nothing, or what its owner wrote to the page it is filed   *)
(* as.                                                                     *)
Honest(n, home) ==
  \/ n.data \in Unwritten
  \/ n.threadid # Free /\ n.data = [of |-> n.threadid, page |-> home]

AllHonest ==
  /\ \A f \in Frame : Honest(frame[f], Home(frame, f))
  /\ \A s \in Slot : Honest(slot[s], slot[s].retAddr)

(* An open frame holds a page of the running thread, in its place.         *)
OpenInPlace == \A f \in accessible : InPlace(f)

(* What a living thread has written is somewhere.                          *)
StillHeld ==
  \A t \in alive : \A v \in touched[t] :
    \/ \E f \in Frame : frame[f].data = [of |-> t, page |-> v]
    \/ \E s \in Slot : slot[s].data = [of |-> t, page |-> v]

(* With one page to a thread all homes are frame 0.                        *)
OneHome ==
  /\ accessible \subseteq {0}
  /\ \A f \in Frame : /\ frame[f].retAddr \in {AtHome, 0}
                      /\ frame[f].threadid # Free => Home(frame, f) = 0

Orderly == ~misfiled /\ ~skipped

PagingInv ==
  /\ PagingType /\ CountType /\ Counted
  /\ ~misfiled => FiledOnce /\ WithinGrant
  /\ Orderly => OpenInPlace /\ AllHonest /\ StillHeld
  /\ most <= 1 => Orderly /\ OneHome

-----------------------------------------------------------------------------
(***************************************************************************)
(* Numbers, nodes and the clock hand.                                      *)
(***************************************************************************)
(* A nonempty set of natural numbers has a least element.                  *)
LEMMA LeastElement ==
  ASSUME NEW S, S \subseteq Nat, S # {}
  PROVE  Min(S) \in S
<1>. DEFINE R == {p \in Nat \X Nat : p[1] < p[2]}
<1>1. IsWellFoundedOn(R, Nat)
  <2>1. OpToRel(<, Nat) = R
    BY DEF OpToRel
  <2>. QED
    BY <2>1, NatLessThanWellFounded
<1>2. PICK x \in S : \A y \in S : ~(<< y, x >> \in R)
  <2>. HIDE DEF R
  <2>. QED
    BY <1>1, WFMin
<1>3. ASSUME NEW y \in S
      PROVE  x <= y
  <2>1. x \in Nat /\ y \in Nat
    OBVIOUS
  <2>2. y < x => << y, x >> \in R
    BY <2>1
  <2>. HIDE DEF R
  <2>. QED
    BY <1>2, <2>1, <2>2
<1>. QED
  BY <1>3 DEF Min

(* The greater of two numbers.                                             *)
LEMMA GreaterOfTwo ==
  ASSUME NEW a \in Int, NEW b \in Int
  PROVE  Max({a, b}) \in {a, b} /\ a <= Max({a, b}) /\ b <= Max({a, b})
<1>. DEFINE m == IF a >= b THEN a ELSE b
<1>1. m \in {a, b} /\ \A y \in {a, b} : m >= y
  OBVIOUS
<1>. HIDE DEF m
<1>. QED
  BY <1>1 DEF Max

(* The frames, slots and pages are numbered from 0, and every page of a    *)
(* thread has a frame of its number.                                       *)
LEMMA Numbers ==
  /\ Frame \subseteq Nat /\ Slot \subseteq Nat /\ Page \subseteq Frame
  /\ AtHome \notin Frame
BY PagingAssumption DEF Frame, Slot, Page, AtHome

(* swapPage exchanges two frames.                                          *)
LEMMA SwapPage ==
  ASSUME NEW nodes \in [Frame -> Nodes], NEW out \in Frame, NEW in \in Frame,
         out # in, NEW keep \in BOOLEAN
  PROVE  /\ swapPage(nodes, out, in, keep) \in [Frame -> Nodes]
         /\ swapPage(nodes, out, in, keep)[out].threadid = nodes[in].threadid
         /\ swapPage(nodes, out, in, keep)[out].data = nodes[in].data
         /\ ~keep => swapPage(nodes, out, in, keep)[out].retAddr = AtHome
         /\ swapPage(nodes, out, in, keep)[in].threadid = nodes[out].threadid
         /\ swapPage(nodes, out, in, keep)[in].data = nodes[out].data
         /\ swapPage(nodes, out, in, keep)[in].retAddr = out
         /\ \A f \in Frame \ {out, in} : swapPage(nodes, out, in, keep)[f] = nodes[f]
BY DEF swapPage, Nodes, NodeType

(* The clock hand changes reference bits only.                             *)
LEMMA SweepKeeps ==
  ASSUME PagingType, NEW refs \in SUBSET Frame
  PROVE  /\ Swept(refs) \in [Frame -> Nodes]
         /\ \A f \in Frame : /\ Swept(refs)[f].threadid = frame[f].threadid
                             /\ Swept(refs)[f].retAddr = frame[f].retAddr
                             /\ Swept(refs)[f].data = frame[f].data
<1>1. ASSUME NEW f \in Frame, NEW b \in BOOLEAN
      PROVE  LET n == [frame[f] EXCEPT !.ref = b]
             IN /\ n \in Nodes
                /\ n.threadid = frame[f].threadid /\ n.retAddr = frame[f].retAddr
                /\ n.data = frame[f].data
  <2>1. frame[f] \in Nodes
    BY DEF PagingType
  <2>. QED
    BY <2>1 DEF Nodes, NodeType
<1>2. ASSUME NEW f \in Frame
      PROVE  (f \in refs) \in BOOLEAN
  BY SMT
<1>3. ASSUME NEW f \in Frame
      PROVE  Swept(refs)[f] = [frame[f] EXCEPT !.ref = f \in refs]
  BY Zenon DEF Swept
<1>4. ASSUME NEW f \in Frame
      PROVE  /\ Swept(refs)[f] \in Nodes
             /\ Swept(refs)[f].threadid = frame[f].threadid
             /\ Swept(refs)[f].retAddr = frame[f].retAddr
             /\ Swept(refs)[f].data = frame[f].data
  <2>. DEFINE b == f \in refs
  <2>1. b \in BOOLEAN
    BY Zenon, <1>2
  <2>2. Swept(refs)[f] = [frame[f] EXCEPT !.ref = b]
    BY Zenon, <1>3
  <2>. HIDE DEF b
  <2>. QED
    BY <1>1, <2>1, <2>2
<1>5. Swept(refs) \in [Frame -> Nodes]
  <2>1. Swept(refs) = [f \in Frame |-> Swept(refs)[f]]
    BY Zenon DEF Swept
  <2>. QED
    BY Zenon, <1>4, <2>1
<1>. QED
  BY <1>4, <1>5

(* The nodes the handler looks for, the least of them first.               *)
LEMMA Found ==
  ASSUME PagingType, NEW v \in Frame
  PROVE  /\ Mine(frame, v) # {} => Min(Mine(frame, v)) \in Mine(frame, v)
         /\ Mine(slot, v) # {} => Min(Mine(slot, v)) \in Mine(slot, v)
         /\ FreeIn(frame) # {} => Min(FreeIn(frame)) \in FreeIn(frame)
         /\ FreeIn(slot) # {} => Min(FreeIn(slot)) \in FreeIn(slot)
         /\ Mine(frame, v) \subseteq Frame /\ FreeIn(frame) \subseteq Frame
         /\ Mine(slot, v) \subseteq Slot /\ FreeIn(slot) \subseteq Slot
<1>1. /\ Mine(frame, v) \subseteq Frame /\ FreeIn(frame) \subseteq Frame
      /\ Mine(slot, v) \subseteq Slot /\ FreeIn(slot) \subseteq Slot
  BY DEF Mine, FreeIn, PagingType
<1>. QED
  BY <1>1, Numbers, LeastElement

-----------------------------------------------------------------------------
(***************************************************************************)
(* What the fault handler does to the table, whatever way the clock hand   *)
(* goes.                                                                   *)
(***************************************************************************)
Same(n, m) == n.threadid = m.threadid /\ n.retAddr = m.retAddr /\ n.data = m.data
Holds(n, t, home, data) == n.threadid = t /\ n.retAddr = home /\ n.data = data

(* The page is filed under v for the running thread, or free and none is.  *)
Wanted(n, v) ==
  \/ n.threadid = currThread /\ n.retAddr = v
  \/ n.threadid = Free /\ NeedsFresh(v)

(* Cases B and D: the wanted page comes from frame g.                      *)
Exchanged(v, g) ==
  /\ g # v /\ Wanted(frame[g], v)
  /\ frame' \in [Frame -> Nodes] /\ slot' = slot
  /\ Holds(frame'[v], currThread, AtHome, frame[g].data)
  /\ Holds(frame'[g], frame[v].threadid, v, frame[v].data)
  /\ \A f \in Frame \ {v, g} : Same(frame'[f], frame[f])
  /\ accessible' = (accessible \ {g}) \cup {v}
  /\ misfiled' \in BOOLEAN /\ (misfiled' <=> misfiled \/ Misfiles(v, v))
  /\ hand' \in Frame

(* Cases C and F: it comes from slot s, and another page goes there.       *)
Evicted(v, s, victim) ==
  /\ Wanted(slot[s], v)
  /\ frame' \in [Frame -> Nodes] /\ slot' \in [Slot -> Nodes]
  /\ Holds(frame'[v], currThread, AtHome, slot[s].data)
  /\ victim # v => Holds(frame'[victim], frame[v].threadid, v, frame[v].data)
  /\ \A f \in Frame \ {v, victim} : Same(frame'[f], frame[f])
  /\ Holds(slot'[s], frame[victim].threadid, v, frame[victim].data)
  /\ \A r \in Slot \ {s} : slot'[r] = slot[r]
  /\ accessible' = (accessible \ {victim}) \cup {v}
  /\ misfiled' \in BOOLEAN
  /\ misfiled' <=> misfiled \/ Misfiles(v, v) \/ Misfiles(victim, v)
  /\ hand' \in Frame

(* Case E: the wanted page is new and frame v is free.                     *)
Taken(v) ==
  /\ NeedsFresh(v) /\ frame[v].threadid = Free
  /\ frame' \in [Frame -> Nodes] /\ slot' = slot
  /\ Holds(frame'[v], currThread, frame[v].retAddr, frame[v].data)
  /\ \A f \in Frame \ {v} : Same(frame'[f], frame[f])
  /\ accessible' = accessible \cup {v}
  /\ misfiled' \in BOOLEAN /\ (misfiled' <=> misfiled \/ frame[v].retAddr # AtHome)
  /\ hand' \in Frame

(* Unwritten moves; a page that is in its place may be opened.               *)
Stays(v) ==
  /\ frame' \in [Frame -> Nodes] /\ slot' = slot
  /\ \A f \in Frame : Same(frame'[f], frame[f])
  /\ \/ accessible' = accessible
     \/ accessible' = accessible \cup {v} /\ InPlace(v)
  /\ misfiled' = misfiled
  /\ hand' \in Frame

(* The clock hand stays in the table.                                      *)
LEMMA AfterInTable ==
  ASSUME NEW f \in Frame
  PROVE  After(f) \in Frame
BY PagingAssumption DEF After, Frame

(* One node of a table is written.                                         *)
LEMMA OneWritten ==
  ASSUME NEW P, NEW nodes \in [P -> Nodes], NEW p \in P, NEW n \in Nodes
  PROVE  LET after == [nodes EXCEPT ![p] = n]
         IN after \in [P -> Nodes] /\ after[p] = n /\ \A q \in P \ {p} : after[q] = nodes[q]
OBVIOUS

(* EvictFor.                                                               *)
LEMMA EvictForEffect ==
  ASSUME PagingType, NEW v \in Frame, NEW s \in Slot,
         NEW slots \in [Slot -> Nodes], slots[s].threadid = currThread,
         slots[s].data = slot[s].data, \A r \in Slot \ {s} : slots[r] = slot[r],
         Wanted(slot[s], v), EvictFor(v, s, slots)
  PROVE  \E victim \in Frame : Evicted(v, s, victim)
<1>0. PICK victim \in Frame, refs \in SUBSET Frame :
        LET moved == IF victim = v THEN Swept(refs)
                     ELSE swapPage(Swept(refs), v, victim, TRUE)
        IN /\ hand' = After(victim)
           /\ frame' = GrabbedFrame(moved, slots, v, s)
           /\ slot' = GrabbedSlot(moved, slots, v, s)
           /\ accessible' = (accessible \ {victim}) \cup {v}
           /\ misfiled' = (misfiled \/ Misfiles(v, v) \/ Misfiles(victim, v))
  BY Zenon DEF EvictFor
<1>. DEFINE moved == IF victim = v THEN Swept(refs)
                     ELSE swapPage(Swept(refs), v, victim, TRUE)
<1>1. /\ moved \in [Frame -> Nodes]
      /\ moved[v].threadid = frame[victim].threadid /\ moved[v].data = frame[victim].data
      /\ victim # v => Holds(moved[victim], frame[v].threadid, v, frame[v].data)
      /\ \A f \in Frame \ {v, victim} : Same(moved[f], frame[f])
  <2>. DEFINE sw == Swept(refs)
  <2>1. sw \in [Frame -> Nodes] /\ \A f \in Frame : Same(sw[f], frame[f])
    BY SweepKeeps DEF Same
  <2>. HIDE DEF sw
  <2>2. CASE victim = v
    BY <2>1, <2>2 DEF sw, Same
  <2>3. CASE victim # v
    <3>1. moved = swapPage(sw, v, victim, TRUE)
      BY <2>3 DEF sw
    <3>. HIDE DEF moved
    <3>2. /\ moved \in [Frame -> Nodes]
          /\ moved[v].threadid = sw[victim].threadid /\ moved[v].data = sw[victim].data
          /\ Holds(moved[victim], sw[v].threadid, v, sw[v].data)
          /\ \A f \in Frame \ {v, victim} : moved[f] = sw[f]
      <4>1. \A keep \in BOOLEAN :
              LET after == swapPage(sw, v, victim, keep)
              IN /\ after \in [Frame -> Nodes]
                 /\ after[v].threadid = sw[victim].threadid /\ after[v].data = sw[victim].data
                 /\ Holds(after[victim], sw[v].threadid, v, sw[v].data)
                 /\ \A f \in Frame \ {v, victim} : after[f] = sw[f]
        BY <2>1, <2>3, SwapPage DEF Holds
      <4>. QED
        BY <3>1, <4>1
    <3>. QED
      BY <2>1, <2>3, <3>2 DEF Same, Holds
  <2>. QED
    BY <2>2, <2>3
<1>2. /\ frame' = GrabbedFrame(moved, slots, v, s)
      /\ slot' = GrabbedSlot(moved, slots, v, s)
      /\ accessible' = (accessible \ {victim}) \cup {v}
  BY <1>0
<1>3. /\ misfiled' \in BOOLEAN
      /\ misfiled' <=> misfiled \/ Misfiles(v, v) \/ Misfiles(victim, v)
  <2>1. misfiled' = (misfiled \/ Misfiles(v, v) \/ Misfiles(victim, v))
    BY <1>0
  <2>. QED
    BY <2>1
<1>4. hand' \in Frame
  BY <1>0, AfterInTable
<1>. HIDE DEF moved
<1>5. /\ frame' \in [Frame -> Nodes]
      /\ Holds(frame'[v], currThread, AtHome, slot[s].data)
      /\ \A f \in Frame \ {v} : frame'[f] = moved[f]
  <2>. DEFINE n == Node(slots[s].threadid, AtHome, moved[v].ref, slots[s].data)
  <2>1. slots[s] \in Nodes /\ moved[v] \in Nodes
    BY <1>1
  <2>2. n \in Nodes /\ Holds(n, currThread, AtHome, slot[s].data)
    BY <2>1 DEF Nodes, NodeType, Node, Holds
  <2>3. frame' = [moved EXCEPT ![v] = n]
    BY <1>2 DEF GrabbedFrame
  <2>. HIDE DEF n
  <2>. QED
    BY <1>1, <2>2, <2>3, OneWritten
<1>6. /\ slot' \in [Slot -> Nodes]
      /\ Holds(slot'[s], frame[victim].threadid, v, frame[victim].data)
      /\ \A r \in Slot \ {s} : slot'[r] = slot[r]
  <2>. DEFINE n == Node(moved[v].threadid, v, FALSE, moved[v].data)
  <2>1. moved[v] \in Nodes
    BY <1>1
  <2>2. n \in Nodes /\ Holds(n, frame[victim].threadid, v, frame[victim].data)
    BY <1>1, <2>1 DEF Nodes, NodeType, Node, Holds
  <2>3. slot' = [slots EXCEPT ![s] = n]
    BY <1>2 DEF GrabbedSlot
  <2>. HIDE DEF n
  <2>. QED
    BY <2>2, <2>3, OneWritten
<1>7. /\ victim # v => Holds(frame'[victim], frame[v].threadid, v, frame[v].data)
      /\ \A f \in Frame \ {v, victim} : Same(frame'[f], frame[f])
  BY <1>1, <1>5
<1>. QED
  BY <1>2, <1>3, <1>4, <1>5, <1>6, <1>7 DEF Evicted

(* Cases B and D, from the frames as they are before the exchange.         *)
LEMMA ExchangeEffect ==
  ASSUME PagingType, NEW v \in Frame, NEW g \in Frame, g # v, Wanted(frame[g], v),
         NEW nodes \in [Frame -> Nodes], nodes[g].threadid = currThread,
         nodes[g].data = frame[g].data, \A f \in Frame \ {g} : nodes[f] = frame[f],
         frame' = swapPage(nodes, v, g, FALSE),
         accessible' = (accessible \ {g}) \cup {v},
         misfiled' = (misfiled \/ Misfiles(v, v)),
         slot' = slot, hand' \in Frame
  PROVE  Exchanged(v, g)
<1>1. \A keep \in BOOLEAN :
        LET after == swapPage(nodes, v, g, keep)
        IN /\ after \in [Frame -> Nodes]
           /\ after[v].threadid = nodes[g].threadid /\ after[v].data = nodes[g].data
           /\ ~keep => after[v].retAddr = AtHome
           /\ after[g].threadid = nodes[v].threadid /\ after[g].data = nodes[v].data
           /\ after[g].retAddr = v
           /\ \A f \in Frame \ {v, g} : after[f] = nodes[f]
  BY SwapPage
<1>2. /\ frame' \in [Frame -> Nodes]
      /\ Holds(frame'[v], currThread, AtHome, frame[g].data)
      /\ Holds(frame'[g], frame[v].threadid, v, frame[v].data)
      /\ \A f \in Frame \ {v, g} : Same(frame'[f], frame[f])
  BY <1>1 DEF Holds, Same
<1>3. misfiled' \in BOOLEAN /\ (misfiled' <=> misfiled \/ Misfiles(v, v))
  OBVIOUS
<1>. QED
  BY <1>2, <1>3 DEF Exchanged

(* pageFaultHandler.                                                       *)
LEMMA HandlerEffect ==
  ASSUME PagingType, hand \in Frame, NEW v \in Frame, pageFaultHandler(v)
  PROVE  \/ Stays(v) \/ Taken(v)
         \/ \E g \in Frame : Exchanged(v, g)
         \/ \E s \in Slot, victim \in Frame : Evicted(v, s, victim)
<1>1. CASE Unprotect(v)
  <2>1. /\ frame' = [frame EXCEPT ![v] = [frame[v] EXCEPT !.ref = TRUE]]
        /\ accessible' = accessible \cup {v} /\ InPlace(v)
        /\ UNCHANGED << slot, hand, misfiled >>
    BY <1>1 DEF Unprotect
  <2>2. frame[v] \in Nodes
    BY DEF PagingType
  <2>3. LET n == [frame[v] EXCEPT !.ref = TRUE] IN n \in Nodes /\ Same(n, frame[v])
    BY <2>2 DEF Nodes, NodeType, Same
  <2>4. /\ frame' \in [Frame -> Nodes] /\ Same(frame'[v], frame[v])
        /\ \A f \in Frame \ {v} : frame'[f] = frame[f]
    BY <2>1, <2>3, OneWritten DEF PagingType
  <2>. QED
    BY <2>1, <2>4 DEF Stays, Same
<1>2. CASE BringBack(v)
  <2>. DEFINE g == Min(Mine(frame, v))
              n == [frame[g] EXCEPT !.ref = TRUE]
              nodes == [frame EXCEPT ![g] = n]
  <2>1. /\ g \in Frame /\ g # v
        /\ frame[g].threadid = currThread /\ frame[g].retAddr = v
    <3>1. Mine(frame, v) # {}
      BY <1>2 DEF BringBack
    <3>2. g \in Mine(frame, v) /\ g \in Frame
      BY <3>1, Found
    <3>. HIDE DEF g
    <3>. QED
      BY <3>2 DEF Mine, PagingType
  <2>2. /\ frame' = swapPage(nodes, v, g, FALSE)
        /\ accessible' = (accessible \ {g}) \cup {v}
        /\ misfiled' = (misfiled \/ Misfiles(v, v))
        /\ UNCHANGED << slot, hand >>
    BY <1>2 DEF BringBack
  <2>. HIDE DEF g
  <2>3. n \in Nodes /\ Same(n, frame[g])
    <3>1. frame[g] \in Nodes
      BY <2>1 DEF PagingType
    <3>. QED
      BY <3>1 DEF Nodes, NodeType, Same
  <2>. HIDE DEF n
  <2>4. nodes \in [Frame -> Nodes] /\ nodes[g] = n /\ \A f \in Frame \ {g} : nodes[f] = frame[f]
    BY <2>1, <2>3, OneWritten DEF PagingType
  <2>. HIDE DEF nodes
  <2>5. Wanted(frame[g], v) /\ nodes[g].threadid = currThread /\ nodes[g].data = frame[g].data
    BY <2>1, <2>3, <2>4 DEF Wanted, Same
  <2>. QED
    BY <2>1, <2>2, <2>4, <2>5, ExchangeEffect
<1>3. CASE SwapIn(v)
  <2>. DEFINE s == Min(Mine(slot, v))
  <2>1. s \in Slot /\ slot[s].threadid = currThread /\ slot[s].retAddr = v
    <3>1. Mine(slot, v) # {}
      BY <1>3 DEF SwapIn
    <3>2. s \in Mine(slot, v) /\ s \in Slot
      BY <3>1, Found
    <3>. HIDE DEF s
    <3>. QED
      BY <3>2 DEF Mine
  <2>2. EvictFor(v, s, slot)
    BY Zenon, <1>3 DEF SwapIn
  <2>. HIDE DEF s
  <2>3. Wanted(slot[s], v) /\ slot \in [Slot -> Nodes]
    BY <2>1 DEF Wanted, PagingType
  <2>. QED
    BY <2>1, <2>2, <2>3, EvictForEffect
<1>4. CASE TakeFree(v)
  <2>. DEFINE n == [frame[v] EXCEPT !.threadid = currThread, !.ref = TRUE]
  <2>1. /\ NeedsFresh(v) /\ frame[v].threadid = Free
        /\ frame' = [frame EXCEPT ![v] = n]
        /\ accessible' = accessible \cup {v}
        /\ UNCHANGED << slot, hand >>
    BY <1>4 DEF TakeFree
  <2>2. misfiled' \in BOOLEAN /\ (misfiled' <=> misfiled \/ frame[v].retAddr # AtHome)
    <3>1. misfiled' = (misfiled \/ frame[v].retAddr # AtHome)
      BY <1>4 DEF TakeFree
    <3>. QED
      BY <3>1
  <2>3. n \in Nodes /\ Holds(n, currThread, frame[v].retAddr, frame[v].data)
    <3>1. frame[v] \in Nodes /\ currThread \in Thread
      BY DEF PagingType
    <3>. QED
      BY <3>1 DEF Nodes, NodeType, Holds
  <2>. HIDE DEF n
  <2>4. frame' \in [Frame -> Nodes] /\ frame'[v] = n /\ \A f \in Frame \ {v} : frame'[f] = frame[f]
    BY <2>1, <2>3, OneWritten DEF PagingType
  <2>. QED
    BY <2>1, <2>2, <2>3, <2>4 DEF Taken, Same
<1>5. CASE Displace(v)
  <2>. DEFINE g == Min(FreeIn(frame))
              n == [frame[g] EXCEPT !.threadid = currThread, !.ref = TRUE]
              nodes == [frame EXCEPT ![g] = n]
  <2>1. g \in Frame /\ g # v /\ frame[g].threadid = Free
    <3>1. FreeIn(frame) # {} /\ frame[v].threadid # Free
      BY <1>5 DEF Displace
    <3>2. g \in FreeIn(frame) /\ g \in Frame
      BY <3>1, Found
    <3>. HIDE DEF g
    <3>. QED
      BY <3>1, <3>2 DEF FreeIn
  <2>2. /\ frame' = swapPage(nodes, v, g, FALSE)
        /\ accessible' = (accessible \ {g}) \cup {v}
        /\ misfiled' = (misfiled \/ Misfiles(v, v))
        /\ UNCHANGED << slot, hand >>
    <3>1. frame' = swapPage([frame EXCEPT ![g].threadid = currThread, ![g].ref = TRUE],
                            v, g, FALSE)
      BY <1>5 DEF Displace
    <3>2. [frame EXCEPT ![g].threadid = currThread, ![g].ref = TRUE] = nodes
      BY <2>1 DEF PagingType
    <3>3. /\ accessible' = (accessible \ {g}) \cup {v}
          /\ misfiled' = (misfiled \/ Misfiles(v, v))
          /\ UNCHANGED << slot, hand >>
      BY <1>5 DEF Displace
    <3>. QED
      BY Zenon, <3>1, <3>2, <3>3
  <2>3. NeedsFresh(v)
    BY <1>5 DEF Displace
  <2>. HIDE DEF g
  <2>4. n \in Nodes /\ n.threadid = currThread /\ n.data = frame[g].data
    <3>1. frame[g] \in Nodes /\ currThread \in Thread
      BY <2>1 DEF PagingType
    <3>. QED
      BY <3>1 DEF Nodes, NodeType
  <2>. HIDE DEF n
  <2>5. nodes \in [Frame -> Nodes] /\ nodes[g] = n /\ \A f \in Frame \ {g} : nodes[f] = frame[f]
    BY <2>1, <2>4, OneWritten DEF PagingType
  <2>. HIDE DEF nodes
  <2>6. Wanted(frame[g], v)
    BY <2>1, <2>3 DEF Wanted
  <2>. QED
    BY <2>1, <2>2, <2>4, <2>5, <2>6, ExchangeEffect
<1>6. CASE SwapOut(v)
  <2>. DEFINE s == Min(FreeIn(slot))
              n == [slot[s] EXCEPT !.threadid = currThread]
              slots == [slot EXCEPT ![s] = n]
  <2>1. s \in Slot /\ slot[s].threadid = Free /\ NeedsFresh(v)
    <3>1. FreeIn(slot) # {} /\ NeedsFresh(v)
      BY <1>6 DEF SwapOut
    <3>2. s \in FreeIn(slot) /\ s \in Slot
      BY <3>1, Found
    <3>. HIDE DEF s
    <3>. QED
      BY <3>1, <3>2 DEF FreeIn
  <2>2. EvictFor(v, s, slots)
    BY Zenon, <1>6 DEF SwapOut
  <2>. HIDE DEF s
  <2>3. n \in Nodes /\ n.threadid = currThread /\ n.data = slot[s].data
    <3>1. slot[s] \in Nodes /\ currThread \in Thread
      BY <2>1 DEF PagingType
    <3>. QED
      BY <3>1 DEF Nodes, NodeType
  <2>. HIDE DEF n
  <2>4. slots \in [Slot -> Nodes] /\ slots[s] = n /\ \A r \in Slot \ {s} : slots[r] = slot[r]
    BY <2>1, <2>3, OneWritten DEF PagingType
  <2>. HIDE DEF slots
  <2>5. Wanted(slot[s], v)
    BY <2>1 DEF Wanted
  <2>. QED
    BY <2>1, <2>2, <2>3, <2>4, <2>5, EvictForEffect
<1>7. CASE NoRoom(v)
  <2>1. PICK victim \in Frame, refs \in SUBSET Frame :
          hand' = After(victim) /\ frame' = Swept(refs)
    BY Zenon, <1>7 DEF NoRoom
  <2>2. UNCHANGED << slot, accessible, misfiled >>
    BY Zenon, <1>7 DEF NoRoom
  <2>3. frame' \in [Frame -> Nodes] /\ \A f \in Frame : Same(frame'[f], frame[f])
    BY <2>1, SweepKeeps DEF Same
  <2>4. hand' \in Frame
    BY <2>1, AfterInTable
  <2>5. Stays(v)
    BY <2>2, <2>3, <2>4 DEF Stays
  <2>. QED
    BY <2>5
<1>. QED
  BY <1>1, <1>2, <1>3, <1>4, <1>5, <1>6, <1>7 DEF pageFaultHandler

-----------------------------------------------------------------------------
(***************************************************************************)
(* The fault handler keeps the invariant.                                  *)
(***************************************************************************)
(* What a fault on page v of the running thread leaves alone.              *)
FaultOn(v) ==
  /\ v \in Page /\ v < pages[currThread]
  /\ UNCHANGED << currThread, alive, pages, pagesLeft, touched, most, skipped >>

(* Where the wanted page comes from, and nowhere else, the handler would   *)
(* have found it.                                                          *)
FiledElsewhere(v, g, s) ==
  \/ \E f \in Frame \ {g} : frame[f].threadid = currThread /\ Home(frame, f) = v
  \/ \E r \in Slot \ {s} : slot[r].threadid = currThread /\ slot[r].retAddr = v

(* While a page is filed at most once, the node the handler takes it from  *)
(* is the only one filed under it; and when it takes a fresh one, no node  *)
(* is.                                                                     *)
LEMMA WantedAlone ==
  ASSUME PagingType, NEW v \in Frame
  PROVE  /\ \A g \in Frame : FiledOnce /\ Wanted(frame[g], v) => ~FiledElsewhere(v, g, AtHome)
         /\ \A s \in Slot : FiledOnce /\ Wanted(slot[s], v) => ~FiledElsewhere(v, AtHome, s)
         /\ NeedsFresh(v) => ~FiledElsewhere(v, AtHome, AtHome)
<1>1. AtHome \notin Slot /\ AtHome \notin Frame /\ currThread # Free /\ v # AtHome
  BY PagingAssumption, Numbers DEF PagingType, AtHome
<1>2. ASSUME NeedsFresh(v)
      PROVE  /\ \A f \in Frame : frame[f].threadid = currThread => Home(frame, f) # v
             /\ \A r \in Slot : slot[r].threadid = currThread => slot[r].retAddr # v
  <2>1. Mine(frame, v) = {} /\ Mine(slot, v) = {} /\ ~InPlace(v)
    BY <1>2 DEF NeedsFresh
  <2>2. DOMAIN frame = Frame /\ DOMAIN slot = Slot
    BY DEF PagingType
  <2>3. \A f \in Frame : frame[f].threadid = currThread => frame[f].retAddr # v
    BY <2>1, <2>2 DEF Mine
  <2>4. \A r \in Slot : slot[r].threadid = currThread => slot[r].retAddr # v
    BY <2>1, <2>2 DEF Mine
  <2>. QED
    BY <2>1, <2>3, <2>4 DEF InPlace, Home
<1>3. ASSUME NEW g \in Frame, FiledOnce, frame[g].threadid = currThread, frame[g].retAddr = v
      PROVE  ~FiledElsewhere(v, g, AtHome)
  <2>1. Home(frame, g) = v
    BY <1>1, <1>3 DEF Home
  <2>. QED
    BY <1>1, <1>3, <2>1 DEF FiledOnce, FiledElsewhere
<1>4. ASSUME NEW s \in Slot, FiledOnce, slot[s].threadid = currThread, slot[s].retAddr = v
      PROVE  ~FiledElsewhere(v, AtHome, s)
  BY <1>1, <1>4 DEF FiledOnce, FiledElsewhere
<1>. QED
  BY <1>2, <1>3, <1>4 DEF Wanted, FiledElsewhere

(* The counters are as they were.                                          *)
LEMMA FaultKeepsCounts ==
  ASSUME CountType, Counted, NEW v, FaultOn(v), hand' \in Frame
  PROVE  CountType' /\ Counted'
<1>1. UNCHANGED << currThread, alive, pages, pagesLeft, touched, most >>
  BY DEF FaultOn
<1>. QED
  BY <1>1 DEF CountType, Counted, Granted

(* With one page to a thread, the page is page 0.                          *)
LEMMA FaultOnZero ==
  ASSUME PagingInv, NEW v, FaultOn(v), most <= 1
  PROVE  v = 0 /\ ~misfiled /\ ~skipped /\ OneHome
<1>1. currThread \in Thread /\ pages[currThread] \in 0..MaxPages /\ pages[currThread] <= 1
  BY PagingAssumption DEF PagingInv, PagingType, CountType
<1>2. v \in Nat /\ v < pages[currThread]
  BY Numbers DEF FaultOn
<1>. QED
  BY <1>1, <1>2 DEF PagingInv, Orderly

(* Unwritten moves.                                                          *)
LEMMA StaysKeepsInv ==
  ASSUME PagingInv, NEW v, FaultOn(v), Stays(v)
  PROVE  PagingInv'
<1>1. UNCHANGED << currThread, alive, pages, touched, most, skipped, slot, misfiled >>
  BY DEF FaultOn, Stays
<1>2. frame' \in [Frame -> Nodes] /\ \A f \in Frame : Same(frame'[f], frame[f])
  BY DEF Stays
<1>3. v \in Frame
  BY Numbers DEF FaultOn
<1>4. accessible' \subseteq accessible \cup {v}
  BY DEF Stays
<1>5. PagingType' /\ CountType' /\ Counted'
  BY <1>1, <1>2, <1>3, <1>4, FaultKeepsCounts DEF PagingInv, PagingType, Same, Stays
<1>6. \A f \in Frame : Home(frame, f)' = Home(frame, f)
  BY <1>2 DEF Home, Same
<1>7. FiledOnce /\ WithinGrant => FiledOnce' /\ WithinGrant'
  BY <1>1, <1>2, <1>6 DEF FiledOnce, WithinGrant, Same
<1>8. OpenInPlace => OpenInPlace'
  BY <1>1, <1>2, <1>3 DEF OpenInPlace, InPlace, Same, Stays, PagingInv, PagingType
<1>9. AllHonest => AllHonest'
  BY <1>1, <1>2, <1>6 DEF AllHonest, Honest, Same
<1>10. StillHeld => StillHeld'
  BY <1>1, <1>2 DEF StillHeld, Same
<1>11. most <= 1 => OneHome'
  BY <1>2, <1>4, <1>6, FaultOnZero DEF OneHome, Same
<1>. QED
  BY <1>1, <1>5, <1>7, <1>8, <1>9, <1>10, <1>11 DEF PagingInv, Orderly

(* A free frame is taken for a new page.                                   *)
LEMMA TakenKeepsInv ==
  ASSUME PagingInv, NEW v, FaultOn(v), Taken(v)
  PROVE  PagingInv'
<1>1. UNCHANGED << currThread, alive, pages, touched, most, skipped, slot >>
  BY DEF FaultOn, Taken
<1>2. /\ frame' \in [Frame -> Nodes]
      /\ Holds(frame'[v], currThread, frame[v].retAddr, frame[v].data)
      /\ \A f \in Frame \ {v} : Same(frame'[f], frame[f])
      /\ frame[v].threadid = Free /\ NeedsFresh(v)
  BY DEF Taken
<1>3. v \in Frame /\ v \in Nat /\ v < pages[currThread]
  BY Numbers DEF FaultOn
<1>4. /\ accessible' = accessible \cup {v}
      /\ misfiled' \in BOOLEAN /\ (misfiled' <=> misfiled \/ frame[v].retAddr # AtHome)
  BY DEF Taken
<1>5. PagingType' /\ CountType' /\ Counted'
  <2>1. \A f \in Frame : frame'[f].retAddr # f
    BY <1>2 DEF PagingInv, PagingType, Same, Holds
  <2>. QED
    BY <1>1, <1>2, <1>3, <1>4, <2>1, FaultKeepsCounts DEF PagingInv, PagingType, Taken
<1>6. \A f \in Frame : Home(frame, f)' = Home(frame, f)
  BY <1>2 DEF Home, Same, Holds
<1>7. currThread \in alive /\ currThread # Free
  BY PagingAssumption DEF PagingInv, PagingType, CountType
<1>8. ASSUME ~misfiled'
      PROVE  FiledOnce' /\ WithinGrant'
  <2>1. FiledOnce /\ WithinGrant /\ Home(frame, v) = v
    BY <1>4, <1>8 DEF PagingInv, Home
  <2>2. ~FiledElsewhere(v, AtHome, AtHome)
    BY <1>2, <1>3, WantedAlone DEF PagingInv
  <2>3. /\ \A f \in Frame : frame[f].threadid = currThread => Home(frame, f) # v
        /\ \A r \in Slot : slot[r].threadid = currThread => slot[r].retAddr # v
    BY <2>2, PagingAssumption DEF FiledElsewhere, Frame, Slot, AtHome
  <2>4. FiledOnce'
    BY <1>1, <1>2, <1>3, <1>6, <2>1, <2>3 DEF FiledOnce, Same, Holds
  <2>5. WithinGrant'
    BY <1>1, <1>2, <1>3, <1>6, <2>1 DEF WithinGrant, Same, Holds
  <2>. QED
    BY <2>4, <2>5
<1>9. ASSUME Orderly'
      PROVE  OpenInPlace' /\ AllHonest' /\ StillHeld'
  <2>1. OpenInPlace /\ AllHonest /\ StillHeld /\ frame[v].retAddr = AtHome
    BY <1>1, <1>4, <1>9 DEF PagingInv, Orderly
  <2>2. frame[v].data \in Unwritten
    BY <1>2, <1>3, <2>1 DEF AllHonest, Honest
  <2>3. OpenInPlace'
    BY <1>1, <1>2, <1>3, <1>4, <2>1 DEF OpenInPlace, InPlace, Same, Holds, PagingInv, PagingType
  <2>4. AllHonest'
    BY <1>1, <1>2, <1>6, <2>1, <2>2 DEF AllHonest, Honest, Same, Holds
  <2>5. StillHeld'
    BY <1>1, <1>2, <2>1 DEF StillHeld, Same, Holds
  <2>. QED
    BY <2>3, <2>4, <2>5
<1>10. ASSUME most <= 1
       PROVE  Orderly' /\ OneHome'
  <2>1. v = 0 /\ Orderly /\ OneHome
    BY <1>10, FaultOnZero DEF Orderly
  <2>2. frame[v].retAddr = AtHome
    BY <1>3, <2>1 DEF OneHome, PagingInv, PagingType
  <2>3. Orderly'
    BY <1>1, <1>4, <2>1, <2>2 DEF Orderly
  <2>4. OneHome'
    BY <1>2, <1>3, <1>4, <1>6, <2>1, <2>2 DEF OneHome, Same, Holds, Home
  <2>. QED
    BY <2>3, <2>4
<1>. QED
  BY <1>1, <1>5, <1>8, <1>9, <1>10 DEF PagingInv

(* Two frames exchange their pages.                                        *)
LEMMA ExchangedKeepsInv ==
  ASSUME PagingInv, NEW v, FaultOn(v), NEW g \in Frame, Exchanged(v, g)
  PROVE  PagingInv'
<1>1. UNCHANGED << currThread, alive, pages, touched, most, skipped, slot >>
  BY DEF FaultOn, Exchanged
<1>2. /\ frame' \in [Frame -> Nodes]
      /\ Holds(frame'[v], currThread, AtHome, frame[g].data)
      /\ Holds(frame'[g], frame[v].threadid, v, frame[v].data)
      /\ \A f \in Frame \ {v, g} : Same(frame'[f], frame[f])
      /\ g # v /\ Wanted(frame[g], v)
  BY DEF Exchanged
<1>3. v \in Frame /\ v \in Nat /\ v < pages[currThread] /\ v # AtHome
  BY Numbers DEF FaultOn
<1>4. /\ accessible' = (accessible \ {g}) \cup {v}
      /\ misfiled' \in BOOLEAN /\ (misfiled' <=> misfiled \/ Misfiles(v, v))
  BY DEF Exchanged
<1>5. PagingType' /\ CountType' /\ Counted'
  <2>1. \A f \in Frame : frame'[f].retAddr # f
    BY <1>2, <1>3, Numbers DEF PagingInv, PagingType, Same, Holds
  <2>. QED
    BY <1>1, <1>2, <1>3, <1>4, <2>1, FaultKeepsCounts DEF PagingInv, PagingType, Exchanged
<1>6. /\ \A f \in Frame \ {v, g} : Home(frame, f)' = Home(frame, f)
      /\ Home(frame, v)' = v /\ Home(frame, g)' = v
  BY <1>2, <1>3 DEF Home, Same, Holds
<1>7. currThread \in alive /\ currThread # Free
  BY PagingAssumption DEF PagingInv, PagingType, CountType
<1>8. ASSUME ~misfiled'
      PROVE  FiledOnce' /\ WithinGrant'
  <2>1. FiledOnce /\ WithinGrant /\ (frame[v].threadid # Free => Home(frame, v) = v)
    BY <1>4, <1>8 DEF PagingInv, Misfiles
  <2>2. ~FiledElsewhere(v, g, AtHome)
    BY <1>2, <1>3, <2>1, WantedAlone DEF PagingInv
  <2>3. /\ \A f \in Frame \ {g} : frame[f].threadid = currThread => Home(frame, f) # v
        /\ \A r \in Slot : slot[r].threadid = currThread => slot[r].retAddr # v
    BY <2>2, PagingAssumption DEF FiledElsewhere, Slot, AtHome
  <2>4. FiledOnce'
    <3>0. ASSUME NEW e \in {v, g}, NEW f \in Frame \ {v, g},
                 frame'[e].threadid # Free, frame'[e].threadid = frame'[f].threadid,
                 Home(frame', e) = Home(frame', f)
          PROVE  FALSE
      <4>1. frame[f].threadid = frame'[e].threadid /\ Home(frame, f) = v
        BY <1>2, <1>3, <1>6, <3>0 DEF Same
      <4>2. CASE e = v
        BY <1>2, <2>3, <4>1, <4>2 DEF Holds
      <4>3. CASE e # v
        <5>1. frame'[e].threadid = frame[v].threadid
          BY <1>2, <3>0, <4>3 DEF Holds
        <5>. QED
          BY <1>3, <2>1, <3>0, <4>1, <5>1 DEF FiledOnce
      <4>. QED
        BY <4>2, <4>3
    <3>1. ASSUME NEW e \in Frame, NEW f \in Frame, frame'[e].threadid # Free,
                 frame'[e].threadid = frame'[f].threadid, Home(frame', e) = Home(frame', f),
                 e # f
          PROVE  FALSE
      <4>1. CASE e \in {v, g} /\ f \in {v, g}
        BY <1>2, <1>3, <2>1, <2>3, <3>1, <4>1 DEF Holds
      <4>2. CASE e \in {v, g} /\ f \notin {v, g}
        BY <3>0, <3>1, <4>2
      <4>3. CASE e \notin {v, g} /\ f \in {v, g}
        BY <3>0, <3>1, <4>3
      <4>4. CASE e \notin {v, g} /\ f \notin {v, g}
        BY <1>2, <1>6, <2>1, <3>1, <4>4 DEF Same, FiledOnce
      <4>. QED
        BY <4>1, <4>2, <4>3, <4>4
    <3>2. ASSUME NEW f \in Frame, NEW s \in Slot, frame'[f].threadid # Free,
                 frame'[f].threadid = slot[s].threadid, Home(frame', f) = slot[s].retAddr
          PROVE  FALSE
      <4>1. CASE f = v
        BY <1>2, <1>6, <2>3, <3>2, <4>1 DEF Holds
      <4>2. CASE f = g
        BY <1>2, <1>3, <1>6, <2>1, <3>2, <4>2 DEF Holds, FiledOnce
      <4>3. CASE f \notin {v, g}
        BY <1>2, <1>6, <2>1, <3>2, <4>3 DEF Same, FiledOnce
      <4>. QED
        BY <4>1, <4>2, <4>3
    <3>. QED
      BY <1>1, <2>1, <3>1, <3>2 DEF FiledOnce
  <2>5. WithinGrant'
    <3>1. ASSUME NEW f \in Frame, frame'[f].threadid \in alive
          PROVE  Home(frame', f) < pages[frame'[f].threadid]
      <4>1. CASE f = v
        BY <1>2, <1>3, <1>6, <4>1 DEF Holds
      <4>2. CASE f = g
        <5>1. frame[v].threadid \in alive /\ frame[v].threadid # Free
          BY <1>2, <3>1, <4>2, PagingAssumption DEF Holds, PagingInv, CountType
        <5>. QED
          BY <1>2, <1>3, <1>6, <2>1, <4>2, <5>1 DEF Holds, WithinGrant
      <4>3. CASE f \notin {v, g}
        BY <1>2, <1>6, <2>1, <3>1, <4>3 DEF Same, WithinGrant
      <4>. QED
        BY <4>1, <4>2, <4>3
    <3>. QED
      BY <1>1, <2>1, <3>1 DEF WithinGrant
  <2>. QED
    BY <2>4, <2>5
<1>9. ASSUME Orderly'
      PROVE  OpenInPlace' /\ AllHonest' /\ StillHeld'
  <2>1. /\ OpenInPlace /\ AllHonest /\ StillHeld
        /\ frame[v].threadid # Free => Home(frame, v) = v
    BY <1>1, <1>4, <1>9 DEF PagingInv, Orderly, Misfiles
  <2>2. frame[g].data \in Unwritten \cup {[of |-> currThread, page |-> v]}
    BY <1>2, <1>3, <2>1 DEF AllHonest, Honest, Wanted, Home
  <2>3. OpenInPlace'
    BY <1>1, <1>2, <1>3, <1>4, <2>1
    DEF OpenInPlace, InPlace, Same, Holds, PagingInv, PagingType
  <2>4. AllHonest'
    <3>1. Honest(frame'[v], v)
      BY <1>2, <1>7, <2>2 DEF Honest, Holds
    <3>2. Honest(frame'[g], v)
      BY <1>2, <1>3, <2>1 DEF AllHonest, Honest, Holds
    <3>3. \A f \in Frame \ {v, g} : Honest(frame'[f], Home(frame', f))
      BY <1>2, <1>6, <2>1 DEF AllHonest, Honest, Same
    <3>. QED
      BY <1>1, <1>6, <2>1, <3>1, <3>2, <3>3 DEF AllHonest
  <2>5. StillHeld'
    <3>1. ASSUME NEW d, NEW f \in Frame, frame[f].data = d
          PROVE  \E e \in Frame : frame'[e].data = d
      BY <1>2, <1>3, <3>1 DEF Same, Holds
    <3>. QED
      BY <1>1, <2>1, <3>1 DEF StillHeld
  <2>. QED
    BY <2>3, <2>4, <2>5
<1>10. ASSUME most <= 1
       PROVE  Orderly' /\ OneHome'
  <2>1. v = 0 /\ Orderly /\ OneHome
    BY <1>10, FaultOnZero DEF Orderly
  <2>2. ~Misfiles(v, v)
    BY <1>3, <2>1 DEF OneHome, Misfiles
  <2>3. Orderly'
    BY <1>1, <1>4, <2>1, <2>2 DEF Orderly
  <2>4. OneHome'
    BY <1>2, <1>3, <1>4, <1>6, <2>1 DEF OneHome, Same, Holds
  <2>. QED
    BY <2>3, <2>4
<1>. QED
  BY <1>1, <1>5, <1>8, <1>9, <1>10 DEF PagingInv

(* A page comes from the swap file, and another one goes there.            *)
LEMMA EvictedKeepsInv ==
  ASSUME PagingInv, NEW v, FaultOn(v), NEW s \in Slot, NEW victim \in Frame,
         Evicted(v, s, victim)
  PROVE  PagingInv'
<1>1. UNCHANGED << currThread, alive, pages, touched, most, skipped >>
  BY DEF FaultOn
<1>2. /\ frame' \in [Frame -> Nodes] /\ slot' \in [Slot -> Nodes]
      /\ Holds(frame'[v], currThread, AtHome, slot[s].data)
      /\ victim # v => Holds(frame'[victim], frame[v].threadid, v, frame[v].data)
      /\ \A f \in Frame \ {v, victim} : Same(frame'[f], frame[f])
      /\ Holds(slot'[s], frame[victim].threadid, v, frame[victim].data)
      /\ \A r \in Slot \ {s} : slot'[r] = slot[r]
      /\ Wanted(slot[s], v)
  BY DEF Evicted
<1>3. v \in Frame /\ v \in Nat /\ v < pages[currThread] /\ v # AtHome
  BY Numbers DEF FaultOn
<1>4. /\ accessible' = (accessible \ {victim}) \cup {v}
      /\ misfiled' \in BOOLEAN
      /\ misfiled' <=> misfiled \/ Misfiles(v, v) \/ Misfiles(victim, v)
  BY DEF Evicted
<1>5. PagingType' /\ CountType' /\ Counted'
  <2>1. \A f \in Frame : frame'[f].retAddr # f
    BY <1>2, <1>3, Numbers DEF PagingInv, PagingType, Same, Holds
  <2>. QED
    BY <1>1, <1>2, <1>3, <1>4, <2>1, FaultKeepsCounts DEF PagingInv, PagingType, Evicted
<1>6. /\ \A f \in Frame \ {v, victim} : Home(frame, f)' = Home(frame, f)
      /\ Home(frame, v)' = v /\ Home(frame, victim)' = v
  BY <1>2, <1>3 DEF Home, Same, Holds
<1>7. currThread \in alive /\ currThread # Free
  BY PagingAssumption DEF PagingInv, PagingType, CountType
<1>8. ASSUME ~misfiled'
      PROVE  FiledOnce' /\ WithinGrant'
  <2>1. /\ FiledOnce /\ WithinGrant
        /\ frame[v].threadid # Free => Home(frame, v) = v
        /\ frame[victim].threadid # Free => Home(frame, victim) = v
    BY <1>4, <1>8 DEF PagingInv, Misfiles
  <2>2. ~FiledElsewhere(v, AtHome, s)
    BY <1>2, <1>3, <2>1, WantedAlone DEF PagingInv
  <2>3. /\ \A f \in Frame : frame[f].threadid = currThread => Home(frame, f) # v
        /\ \A r \in Slot \ {s} : slot[r].threadid = currThread => slot[r].retAddr # v
    BY <2>2, Numbers DEF FiledElsewhere
  <2>4. FiledOnce'
    <3>0. ASSUME NEW e \in {v, victim}, NEW f \in Frame \ {v, victim},
                 frame'[e].threadid # Free, frame'[e].threadid = frame'[f].threadid,
                 Home(frame', e) = Home(frame', f)
          PROVE  FALSE
      <4>1. frame[f].threadid = frame'[e].threadid /\ Home(frame, f) = v
        BY <1>2, <1>3, <1>6, <3>0 DEF Same
      <4>2. CASE e = v
        BY <1>2, <2>3, <4>1, <4>2 DEF Holds
      <4>3. CASE e # v
        <5>1. frame'[e].threadid = frame[v].threadid
          BY <1>2, <3>0, <4>3 DEF Holds
        <5>. QED
          BY <1>3, <2>1, <3>0, <4>1, <5>1 DEF FiledOnce
      <4>. QED
        BY <4>2, <4>3
    <3>1. ASSUME NEW e \in Frame, NEW f \in Frame, frame'[e].threadid # Free,
                 frame'[e].threadid = frame'[f].threadid, Home(frame', e) = Home(frame', f),
                 e # f
          PROVE  FALSE
      <4>1. CASE e \in {v, victim} /\ f \in {v, victim}
        BY <1>2, <1>3, <2>1, <2>3, <3>1, <4>1 DEF Holds
      <4>2. CASE e \in {v, victim} /\ f \notin {v, victim}
        BY <3>0, <3>1, <4>2
      <4>3. CASE e \notin {v, victim} /\ f \in {v, victim}
        BY <3>0, <3>1, <4>3
      <4>4. CASE e \notin {v, victim} /\ f \notin {v, victim}
        BY <1>2, <1>6, <2>1, <3>1, <4>4 DEF Same, FiledOnce
      <4>. QED
        BY <4>1, <4>2, <4>3, <4>4
    <3>2. ASSUME NEW q \in Slot, NEW r \in Slot, slot'[q].threadid # Free,
                 slot'[q].threadid = slot'[r].threadid, slot'[q].retAddr = slot'[r].retAddr,
                 q # r
          PROVE  FALSE
      <4>1. CASE q = s
        BY <1>2, <2>1, <3>2, <4>1 DEF Holds, FiledOnce
      <4>2. CASE r = s
        BY <1>2, <2>1, <3>2, <4>2 DEF Holds, FiledOnce
      <4>3. CASE q # s /\ r # s
        BY <1>2, <2>1, <3>2, <4>3 DEF FiledOnce
      <4>. QED
        BY <4>1, <4>2, <4>3
    <3>3. ASSUME NEW f \in Frame, frame'[f].threadid # Free,
                 frame'[f].threadid = slot'[s].threadid, Home(frame', f) = slot'[s].retAddr
          PROVE  FALSE
      <4>1. CASE f = v
        BY <1>2, <2>1, <2>3, <3>3, <4>1 DEF Holds
      <4>2. CASE f # v /\ f = victim
        <5>1. frame[v].threadid # Free /\ frame[v].threadid = frame[victim].threadid
          BY <1>2, <3>3, <4>2 DEF Holds
        <5>. QED
          BY <1>3, <2>1, <4>2, <5>1 DEF FiledOnce
      <4>3. CASE f \notin {v, victim}
        <5>1. /\ frame[f].threadid # Free /\ frame[f].threadid = frame[victim].threadid
              /\ Home(frame, f) = v
          BY <1>2, <1>6, <3>3, <4>3 DEF Holds, Same
        <5>. QED
          BY <2>1, <4>3, <5>1 DEF FiledOnce
      <4>. QED
        BY <4>1, <4>2, <4>3
    <3>4. ASSUME NEW f \in Frame, NEW r \in Slot \ {s}, frame'[f].threadid # Free,
                 frame'[f].threadid = slot[r].threadid, Home(frame', f) = slot[r].retAddr
          PROVE  FALSE
      <4>1. CASE f = v
        BY <1>2, <1>6, <2>3, <3>4, <4>1 DEF Holds
      <4>2. CASE f # v /\ f = victim
        BY <1>2, <1>3, <1>6, <2>1, <3>4, <4>2 DEF Holds, FiledOnce
      <4>3. CASE f \notin {v, victim}
        BY <1>2, <1>6, <2>1, <3>4, <4>3 DEF Same, FiledOnce
      <4>. QED
        BY <4>1, <4>2, <4>3
    <3>5. \A f \in Frame, r \in Slot :
            frame'[f].threadid # Free /\ frame'[f].threadid = slot'[r].threadid
            => Home(frame', f) # slot'[r].retAddr
      BY <1>2, <3>3, <3>4
    <3>. QED
      BY <3>1, <3>2, <3>5 DEF FiledOnce
  <2>5. WithinGrant'
    <3>1. ASSUME NEW f \in Frame, frame'[f].threadid \in alive
          PROVE  Home(frame', f) < pages[frame'[f].threadid]
      <4>1. CASE f = v
        BY <1>2, <1>3, <1>6, <4>1 DEF Holds
      <4>2. CASE f # v /\ f = victim
        <5>1. frame[v].threadid \in alive /\ frame[v].threadid # Free
          BY <1>2, <3>1, <4>2, PagingAssumption DEF Holds, PagingInv, CountType
        <5>. QED
          BY <1>2, <1>3, <1>6, <2>1, <4>2, <5>1 DEF Holds, WithinGrant
      <4>3. CASE f \notin {v, victim}
        BY <1>2, <1>6, <2>1, <3>1, <4>3 DEF Same, WithinGrant
      <4>. QED
        BY <4>1, <4>2, <4>3
    <3>2. ASSUME NEW r \in Slot, slot'[r].threadid \in alive
          PROVE  slot'[r].retAddr # AtHome /\ slot'[r].retAddr < pages[slot'[r].threadid]
      <4>1. CASE r = s
        <5>1. frame[victim].threadid \in alive /\ frame[victim].threadid # Free
          BY <1>2, <3>2, <4>1, PagingAssumption DEF Holds, PagingInv, CountType
        <5>. QED
          BY <1>2, <1>3, <2>1, <4>1, <5>1 DEF Holds, WithinGrant
      <4>2. CASE r # s
        BY <1>2, <2>1, <3>2, <4>2 DEF WithinGrant
      <4>. QED
        BY <4>1, <4>2
    <3>. QED
      BY <1>1, <3>1, <3>2 DEF WithinGrant
  <2>. QED
    BY <2>4, <2>5
<1>9. ASSUME Orderly'
      PROVE  OpenInPlace' /\ AllHonest' /\ StillHeld'
  <2>1. /\ OpenInPlace /\ AllHonest /\ StillHeld
        /\ frame[v].threadid # Free => Home(frame, v) = v
        /\ frame[victim].threadid # Free => Home(frame, victim) = v
    BY <1>1, <1>4, <1>9 DEF PagingInv, Orderly, Misfiles
  <2>2. slot[s].data \in Unwritten \cup {[of |-> currThread, page |-> v]}
    BY <1>2, <2>1 DEF AllHonest, Honest, Wanted
  <2>3. OpenInPlace'
    BY <1>1, <1>2, <1>3, <1>4, <2>1
    DEF OpenInPlace, InPlace, Same, Holds, PagingInv, PagingType
  <2>4. AllHonest'
    <3>1. Honest(frame'[v], v)
      BY <1>2, <1>7, <2>2 DEF Honest, Holds
    <3>2. victim # v => Honest(frame'[victim], v)
      BY <1>2, <1>3, <2>1 DEF AllHonest, Honest, Holds
    <3>3. \A f \in Frame \ {v, victim} : Honest(frame'[f], Home(frame', f))
      BY <1>2, <1>6, <2>1 DEF AllHonest, Honest, Same
    <3>4. \A f \in Frame : Honest(frame'[f], Home(frame', f))
      BY <1>6, <3>1, <3>2, <3>3
    <3>5. Honest(slot'[s], slot'[s].retAddr)
      BY <1>2, <2>1 DEF AllHonest, Honest, Holds
    <3>6. \A r \in Slot \ {s} : Honest(slot'[r], slot'[r].retAddr)
      BY <1>2, <2>1 DEF AllHonest
    <3>. QED
      BY <3>4, <3>5, <3>6 DEF AllHonest
  <2>5. StillHeld'
    <3>1. ASSUME NEW d, \/ \E f \in Frame : frame[f].data = d
                        \/ \E r \in Slot : slot[r].data = d
          PROVE  \/ \E f \in Frame : frame'[f].data = d
                 \/ \E r \in Slot : slot'[r].data = d
      BY <1>2, <1>3, <3>1 DEF Same, Holds
    <3>. QED
      BY <1>1, <2>1, <3>1 DEF StillHeld
  <2>. QED
    BY <2>3, <2>4, <2>5
<1>10. ASSUME most <= 1
       PROVE  Orderly' /\ OneHome'
  <2>1. v = 0 /\ Orderly /\ OneHome
    BY <1>10, FaultOnZero DEF Orderly
  <2>2. ~Misfiles(v, v) /\ ~Misfiles(victim, v)
    BY <1>3, <2>1 DEF OneHome, Misfiles
  <2>3. Orderly'
    BY <1>1, <1>4, <2>1, <2>2 DEF Orderly
  <2>4. OneHome'
    BY <1>2, <1>3, <1>4, <1>6, <2>1 DEF OneHome, Same, Holds
  <2>. QED
    BY <2>3, <2>4
<1>. QED
  BY <1>1, <1>5, <1>8, <1>9, <1>10 DEF PagingInv

(* pageFaultHandler.                                                       *)
LEMMA HandlerKeepsInv ==
  ASSUME PagingInv, NEW v \in Page, pageFaultHandler(v)
  PROVE  PagingInv'
<1>1. v \in Frame /\ PagingType /\ hand \in Frame
  BY Numbers DEF PagingInv, CountType
<1>2. Faults(v)
  BY Zenon DEF pageFaultHandler, Unprotect, BringBack, SwapIn, TakeFree, Displace, SwapOut,
     NoRoom
<1>3. UNCHANGED << currThread, alive, pages, pagesLeft, touched, most, skipped >>
  BY DEF pageFaultHandler
<1>4. FaultOn(v)
  BY <1>2, <1>3 DEF Faults, Uses, FaultOn
<1>. QED
  BY <1>1, <1>4, HandlerEffect, StaysKeepsInv, TakenKeepsInv, ExchangedKeepsInv,
     EvictedKeepsInv

-----------------------------------------------------------------------------
(***************************************************************************)
(* Counting pages.                                                         *)
(***************************************************************************)
(* Granting a thread m pages instead of what it had changes the count by   *)
(* the difference.                                                         *)
LEMMA GrantedFinite ==
  ASSUME NEW pg
  PROVE  IsFiniteSet(Granted(pg)) /\ Cardinality(Granted(pg)) \in Nat
<1>1. IsFiniteSet(Page) /\ IsFiniteSet(Thread)
  BY PagingAssumption, FS_Interval DEF Page
<1>2. IsFiniteSet(Thread \X Page)
  BY <1>1, FS_Product
<1>3. Granted(pg) \in SUBSET (Thread \X Page)
  BY DEF Granted
<1>. QED
  BY <1>2, <1>3, FS_Subset, FS_CardinalityType

(* Giving thread c m pages in place of what it had changes the number of   *)
(* granted pages by the difference.                                        *)
LEMMA GrantedCount ==
  ASSUME NEW pg \in [Thread -> 0..MaxPages], NEW c \in Thread, NEW m \in 0..MaxPages
  PROVE  Cardinality(Granted([pg EXCEPT ![c] = m])) = Cardinality(Granted(pg)) - pg[c] + m
<1>. DEFINE Own(k) == {c} \X (0..(k - 1))
            Rest == {p \in Granted(pg) : p[1] # c}
<1>1. ASSUME NEW k \in 0..MaxPages
      PROVE  IsFiniteSet(Own(k)) /\ Cardinality(Own(k)) = k
  <2>1. k \in Nat /\ k - 1 \in Int
    BY PagingAssumption
  <2>2. IsFiniteSet(0..(k - 1)) /\ Cardinality(0..(k - 1)) = k
    <3>1. ASSUME NEW a \in Int, NEW b \in Int, b = k - 1, a = 0
          PROVE  IsFiniteSet(a..b) /\ Cardinality(a..b) = k
      <4>1. Cardinality(a..b) = IF a > b THEN 0 ELSE b - a + 1
        BY Zenon, FS_Interval
      <4>2. IsFiniteSet(a..b)
        BY Zenon, FS_Interval
      <4>3. (IF a > b THEN 0 ELSE b - a + 1) = k
        BY <2>1, <3>1
      <4>. QED
        BY <4>1, <4>2, <4>3
    <3>. QED
      BY <2>1, <3>1
  <2>3. IsFiniteSet({c}) /\ Cardinality({c}) = 1
    BY FS_Singleton
  <2>4. IsFiniteSet(Own(k))
        /\ Cardinality(Own(k)) = Cardinality({c}) * Cardinality(0..(k - 1))
    BY Zenon, <2>2, <2>3, FS_Product
  <2>. QED
    BY <2>1, <2>2, <2>3, <2>4
<1>2. IsFiniteSet(Rest) /\ Cardinality(Rest) \in Nat
  <2>1. Rest \in SUBSET Granted(pg)
    OBVIOUS
  <2>. QED
    BY <2>1, GrantedFinite, FS_Subset, FS_CardinalityType
<1>3. ASSUME NEW other \in [Thread -> 0..MaxPages],
             \A t \in Thread \ {c} : other[t] = pg[t]
      PROVE  Cardinality(Granted(other)) = Cardinality(Rest) + other[c]
  <2>1. Granted(other) = Rest \cup Own(other[c])
    <3>1. ASSUME NEW p \in Granted(other)
          PROVE  p \in Rest \cup Own(other[c])
      <4>1. p \in Thread \X Page /\ p[2] < other[p[1]] /\ p = << p[1], p[2] >>
        BY <3>1 DEF Granted
      <4>2. CASE p[1] = c
        <5>1. p[2] \in 0..(other[c] - 1)
          BY <4>1, <4>2, PagingAssumption DEF Page
        <5>. QED
          BY <4>1, <4>2, <5>1
      <4>3. CASE p[1] # c
        BY <1>3, <4>1, <4>3 DEF Granted
      <4>. QED
        BY <4>2, <4>3
    <3>2. ASSUME NEW p \in Rest
          PROVE  p \in Granted(other)
      BY <1>3, <3>2 DEF Granted
    <3>3. ASSUME NEW p \in Own(other[c])
          PROVE  p \in Granted(other)
      <4>1. p[1] = c /\ p[2] \in 0..(other[c] - 1) /\ p = << p[1], p[2] >>
        BY <3>3
      <4>2. other[c] \in 0..MaxPages
        BY <1>3
      <4>3. p[2] \in Page /\ p[2] < other[c]
        BY <4>1, <4>2, PagingAssumption DEF Page
      <4>4. p \in Thread \X Page
        BY <4>1, <4>3
      <4>. QED
        BY <4>1, <4>3, <4>4 DEF Granted
    <3>. QED
      BY <3>1, <3>2, <3>3
  <2>2. Rest \cap Own(other[c]) = {}
    OBVIOUS
  <2>3. other[c] \in 0..MaxPages
    BY <1>3
  <2>4. IsFiniteSet(Own(other[c])) /\ Cardinality(Own(other[c])) = other[c]
    BY <1>1, <2>3
  <2>. HIDE DEF Own, Rest
  <2>5. Cardinality(Granted(other)) =
          Cardinality(Rest) + Cardinality(Own(other[c])) - Cardinality({})
    BY <1>2, <2>1, <2>2, <2>4, FS_Union
  <2>. QED
    BY <1>2, <2>3, <2>4, <2>5, FS_EmptySet
<1>. HIDE DEF Rest
<1>4. Cardinality(Granted(pg)) = Cardinality(Rest) + pg[c]
  BY <1>3
<1>5. Cardinality(Granted([pg EXCEPT ![c] = m])) = Cardinality(Rest) + m
  <2>. DEFINE other == [pg EXCEPT ![c] = m]
  <2>1. /\ other \in [Thread -> 0..MaxPages] /\ other[c] = m
        /\ \A t \in Thread \ {c} : other[t] = pg[t]
    OBVIOUS
  <2>. HIDE DEF other
  <2>2. Cardinality(Granted(other)) = Cardinality(Rest) + other[c]
    BY <1>3, <2>1
  <2>. QED
    BY <2>1, <2>2 DEF other
<1>. QED
  BY <1>2, <1>4, <1>5

(* Before the first grant nothing is granted.                              *)
LEMMA NothingGranted == Cardinality(Granted([t \in Thread |-> 0])) = 0
<1>1. Granted([t \in Thread |-> 0]) = {}
  BY PagingAssumption DEF Granted, Page
<1>. QED
  BY <1>1, FS_EmptySet

-----------------------------------------------------------------------------
(***************************************************************************)
(* The start, the thread and the library.                                  *)
(***************************************************************************)
(* buildKernalSpace.                                                       *)
LEMMA PagingInitially ==
  ASSUME Init
  PROVE  PagingInv
<1>1. frame \in [Frame -> Nodes] /\ slot \in [Slot -> Nodes]
  BY DEF Init, Nodes, NodeType, Node, Unwritten
<1>2. /\ \A f \in Frame : Holds(frame[f], Free, AtHome, Blank)
      /\ \A s \in Slot : slot[s].threadid = Free /\ slot[s].data \in Unwritten
  <2>1. \A f \in Frame : Holds(frame[f], Free, AtHome, Blank)
    BY DEF Init, Node, Holds
  <2>2. ASSUME NEW s \in Slot
        PROVE  slot[s].threadid = Free /\ slot[s].data \in Unwritten
    <3>1. slot[s] = Node(Free, AtHome, FALSE, IF s < FileSlots THEN Blank ELSE Garbage)
      BY DEF Init
    <3>. QED
      BY <3>1 DEF Node, Unwritten
  <2>. QED
    BY <2>1, <2>2
<1>3. AllHonest
  BY <1>2 DEF AllHonest, Honest, Holds, Unwritten
<1>4. PagingType
  BY <1>1, <1>2, Numbers DEF Init, PagingType, Holds
<1>5. CountType
  BY PagingAssumption DEF Init, CountType, Frame, TotalPages
<1>6. Counted
  BY PagingAssumption, NothingGranted DEF Init, Counted, TotalPages
<1>7. Free \notin alive
  BY PagingAssumption DEF Init
<1>8. FiledOnce /\ WithinGrant
  BY <1>2, <1>7 DEF FiledOnce, WithinGrant, Holds
<1>9. OpenInPlace /\ StillHeld /\ Orderly
  BY DEF Init, OpenInPlace, StillHeld, Orderly
<1>10. OneHome
  BY <1>2 DEF Init, OneHome, Holds
<1>. QED
  BY <1>3, <1>4, <1>5, <1>6, <1>8, <1>9, <1>10 DEF PagingInv

(* A thread writes to an open frame.                                       *)
LEMMA TouchKeepsInv ==
  ASSUME PagingInv, NEW v \in Page, Touch(v)
  PROVE  PagingInv'
<1>1. v \in Frame /\ v \in accessible
  BY Numbers DEF Touch
<1>2. UNCHANGED << currThread, alive, slot, accessible, hand, pages, pagesLeft, most,
                   misfiled, skipped >>
  BY DEF Touch
<1>3. /\ frame' \in [Frame -> Nodes]
      /\ Holds(frame'[v], frame[v].threadid, frame[v].retAddr, [of |-> currThread, page |-> v])
      /\ \A f \in Frame \ {v} : frame'[f] = frame[f]
  <2>. DEFINE n == [frame[v] EXCEPT !.data = [of |-> currThread, page |-> v]]
  <2>1. frame[v] \in Nodes /\ [of |-> currThread, page |-> v] \in Written
    BY <1>1 DEF PagingInv, PagingType, Written
  <2>2. n \in Nodes
        /\ Holds(n, frame[v].threadid, frame[v].retAddr, [of |-> currThread, page |-> v])
    BY <2>1 DEF Nodes, NodeType, Holds
  <2>3. frame' = [frame EXCEPT ![v] = n]
    BY DEF Touch
  <2>. HIDE DEF n
  <2>. QED
    BY <1>1, <2>2, <2>3, OneWritten DEF PagingInv, PagingType
<1>4. PagingType'
  BY <1>1, <1>2, <1>3 DEF PagingInv, PagingType, Holds
<1>5. touched' = [touched EXCEPT ![currThread] = touched[currThread] \cup {v}]
  BY DEF Touch
<1>6. CountType' /\ Counted'
  BY <1>2, <1>5 DEF PagingInv, CountType, Counted, Granted
<1>7. \A f \in Frame : /\ frame'[f].threadid = frame[f].threadid
                       /\ frame'[f].retAddr = frame[f].retAddr
                       /\ Home(frame, f)' = Home(frame, f)
  BY <1>3 DEF Home, Holds
<1>8. FiledOnce /\ WithinGrant => FiledOnce' /\ WithinGrant'
  BY <1>2, <1>7 DEF FiledOnce, WithinGrant
<1>9. ASSUME Orderly'
      PROVE  OpenInPlace' /\ AllHonest' /\ StillHeld'
  <2>1. Orderly /\ OpenInPlace /\ AllHonest /\ StillHeld
    BY <1>2, <1>9 DEF Orderly, PagingInv
  <2>2. InPlace(v) /\ currThread # Free
    BY <1>1, <2>1, PagingAssumption DEF OpenInPlace, PagingInv, PagingType
  <2>3. AllHonest'
    BY <1>2, <1>3, <2>1, <2>2 DEF AllHonest, Honest, Home, InPlace, Holds
  <2>4. OpenInPlace'
    BY <1>2, <1>7, <2>1 DEF OpenInPlace, InPlace, PagingInv, PagingType
  <2>5. StillHeld'
    <3>1. ASSUME NEW t \in alive, NEW u \in touched'[t]
          PROVE  \/ \E f \in Frame : frame'[f].data = [of |-> t, page |-> u]
                 \/ \E s \in Slot : slot[s].data = [of |-> t, page |-> u]
      <4>1. CASE t = currThread /\ u = v
        BY <1>1, <1>3, <4>1 DEF Holds
      <4>2. CASE ~(t = currThread /\ u = v)
        <5>1. t \in Thread /\ u \in touched[t]
          BY <1>5, <3>1, <4>2 DEF PagingInv, CountType
        <5>2. frame[v].data # [of |-> t, page |-> u]
          <6>1. Home(frame, v) = v /\ frame[v].threadid = currThread
            BY <2>2 DEF Home, InPlace
          <6>2. frame[v].data \in {Blank, Garbage, [of |-> currThread, page |-> v]}
            BY <1>1, <2>1, <6>1 DEF AllHonest, Honest, Unwritten
          <6>. QED
            BY <4>2, <5>1, <6>2, PagingAssumption DEF Blank, Garbage
        <5>3. \/ \E f \in Frame : frame[f].data = [of |-> t, page |-> u]
              \/ \E s \in Slot : slot[s].data = [of |-> t, page |-> u]
          BY <2>1, <5>1 DEF StillHeld
        <5>. QED
          BY <1>3, <5>2, <5>3
      <4>. QED
        BY <4>1, <4>2
    <3>. QED
      BY <1>2, <3>1 DEF StillHeld
  <2>. QED
    BY <2>3, <2>4, <2>5
<1>10. OneHome => OneHome'
  BY <1>2, <1>7 DEF OneHome
<1>11. Orderly' = Orderly
  BY <1>2 DEF Orderly
<1>. QED
  BY <1>2, <1>4, <1>6, <1>8, <1>9, <1>10, <1>11 DEF PagingInv

(* What protectPages does to the open frames and to the history.           *)
Protected ==
  /\ accessible' = accessible \ (Walked \cap Owned(currThread))
  /\ skipped' = (skipped \/ (Owned(currThread) \cap accessible) \ Walked # {})

(* It leaves the running thread no open frame, or it is seen to; and with  *)
(* one page to a thread it never does.                                     *)
LEMMA ProtectClosesAll ==
  ASSUME PagingInv, Protected, misfiled' = misfiled, most' = most
  PROVE  /\ accessible' \subseteq accessible /\ skipped' \in BOOLEAN
         /\ Orderly' => Orderly /\ accessible' = {}
         /\ most <= 1 => Orderly'
<1>1. skipped' \in BOOLEAN /\ (skipped' <=> skipped \/ (Owned(currThread) \cap accessible) \ Walked # {})
  BY DEF Protected, PagingInv, PagingType
<1>2. accessible' = accessible \ (Walked \cap Owned(currThread))
  BY DEF Protected
<1>3. ASSUME Orderly
      PROVE  accessible \subseteq Owned(currThread)
  BY <1>3 DEF PagingInv, PagingType, OpenInPlace, InPlace, Owned
<1>4. ASSUME Orderly'
      PROVE  Orderly /\ accessible' = {}
  <2>1. Orderly /\ (Owned(currThread) \cap accessible) \ Walked = {}
    BY <1>1, <1>4 DEF Orderly
  <2>. QED
    BY <1>2, <1>3, <2>1
<1>5. ASSUME most <= 1
      PROVE  Orderly'
  <2>1. Orderly /\ OneHome
    BY <1>5 DEF PagingInv
  <2>2. ASSUME 0 \in accessible
        PROVE  0 \in Walked
    <3>1. 0 \in Frame /\ frame[0].threadid # Free
      BY <2>1, <2>2, PagingAssumption
      DEF PagingInv, PagingType, OpenInPlace, InPlace
    <3>2. \A g \in 0..0 : g = 0
      OBVIOUS
    <3>. QED
      BY <3>1, <3>2 DEF Walked
  <2>3. (Owned(currThread) \cap accessible) \ Walked = {}
    BY <2>1, <2>2 DEF OneHome
  <2>. QED
    BY <1>1, <2>1, <2>3 DEF Orderly
<1>. QED
  BY <1>1, <1>2, <1>4, <1>5

(* The scheduler switches to another thread, or the library allocates.     *)
LEMMA ProtectKeepsInv ==
  ASSUME PagingInv, Protected, currThread' \in alive,
         UNCHANGED << alive, frame, slot, hand, misfiled, pages, pagesLeft, touched, most >>
  PROVE  PagingInv'
<1>1. /\ accessible' \subseteq accessible /\ skipped' \in BOOLEAN
      /\ Orderly' => Orderly /\ accessible' = {}
      /\ most <= 1 => Orderly'
  BY ProtectClosesAll
<1>2. PagingType' /\ CountType' /\ Counted'
  BY <1>1 DEF PagingInv, PagingType, CountType, Counted, Granted
<1>3. FiledOnce /\ WithinGrant => FiledOnce' /\ WithinGrant'
  BY DEF FiledOnce, WithinGrant, Home
<1>4. AllHonest /\ StillHeld => AllHonest' /\ StillHeld'
  BY DEF AllHonest, Honest, Home, StillHeld
<1>5. accessible' = {} => OpenInPlace'
  BY DEF OpenInPlace
<1>6. OneHome => OneHome'
  BY <1>1 DEF OneHome, Home
<1>. QED
  BY <1>1, <1>2, <1>3, <1>4, <1>5, <1>6 DEF PagingInv

(* The scheduler switches away from an exited thread, whose pages it frees.*)
LEMMA SwitchFromExitedKeepsInv ==
  ASSUME PagingInv, NEW t \in Thread, SwitchFromExited(t)
  PROVE  PagingInv'
<1>. DEFINE gone == Walked \cap Owned(currThread)
<1>1. /\ frame' = [f \in Frame |-> IF f \in gone THEN Node(Free, AtHome, frame[f].ref, Blank)
                                   ELSE frame[f]]
      /\ pagesLeft' = pagesLeft + pages[currThread]
      /\ pages' = [pages EXCEPT ![currThread] = 0]
      /\ alive' = alive \ {currThread}
      /\ currThread' = t /\ t \in alive \ {currThread}
      /\ UNCHANGED << slot, hand, misfiled, touched, most >>
  BY DEF SwitchFromExited, ReleasePages
<1>2. Protected
  BY DEF SwitchFromExited, ReleasePages, Protected
<1>3. /\ accessible' \subseteq accessible /\ skipped' \in BOOLEAN
      /\ Orderly' => Orderly /\ accessible' = {}
      /\ most <= 1 => Orderly'
  BY <1>1, <1>2, ProtectClosesAll
<1>4. gone \subseteq Frame /\ \A f \in gone : frame[f].threadid = currThread
  BY DEF Owned
<1>5. /\ frame' \in [Frame -> Nodes]
      /\ \A f \in gone : Holds(frame'[f], Free, AtHome, Blank)
      /\ \A f \in Frame \ gone : frame'[f] = frame[f]
  <2>. HIDE DEF gone
  <2>1. ASSUME NEW f \in gone
        PROVE  /\ Node(Free, AtHome, frame[f].ref, Blank) \in Nodes
               /\ Holds(Node(Free, AtHome, frame[f].ref, Blank), Free, AtHome, Blank)
    <3>1. frame[f] \in Nodes
      BY <1>4 DEF PagingInv, PagingType
    <3>. QED
      BY <3>1 DEF Nodes, NodeType, Node, Holds, Unwritten
  <2>. QED
    BY <1>1, <1>4, <2>1 DEF PagingInv, PagingType
<1>. HIDE DEF gone
<1>6. PagingType'
  <2>1. \A f \in Frame : frame'[f].retAddr # f
    BY <1>5, Numbers DEF PagingInv, PagingType, Holds
  <2>. QED
    BY <1>1, <1>3, <1>5, <2>1 DEF PagingInv, PagingType
<1>7. CountType'
  <2>1. \A r \in Thread : pages[r] \in 0..MaxPages /\ pages[r] <= most
    BY DEF PagingInv, CountType
  <2>2. /\ pages' \in [Thread -> 0..MaxPages]
        /\ \A r \in Thread : pages'[r] <= most /\ pagesLeft' \in Int
    BY <1>1, <2>1, PagingAssumption DEF PagingInv, PagingType, CountType
  <2>. QED
    BY <1>1, <2>2 DEF PagingInv, CountType
<1>8. Counted'
  <2>1. /\ pages \in [Thread -> 0..MaxPages] /\ currThread \in Thread /\ 0 \in 0..MaxPages
        /\ pages[currThread] \in Nat /\ pagesLeft \in Int
    BY PagingAssumption DEF PagingInv, PagingType, CountType
  <2>2. Cardinality(Granted(pages')) = Cardinality(Granted(pages)) - pages[currThread] + 0
    BY <1>1, <2>1, GrantedCount
  <2>3. Cardinality(Granted(pages)) \in Nat
    BY GrantedFinite
  <2>. QED
    BY <1>1, <2>1, <2>2, <2>3 DEF PagingInv, Counted
<1>9. \A f \in Frame \ gone : Home(frame, f)' = Home(frame, f)
  BY <1>5 DEF Home
<1>10. FiledOnce => FiledOnce'
  <2>1. \A f \in Frame : frame'[f].threadid # Free =>
          f \notin gone /\ frame'[f].threadid = frame[f].threadid
                       /\ Home(frame', f) = Home(frame, f)
    BY <1>5, <1>9 DEF Holds
  <2>. QED
    BY <1>1, <2>1 DEF FiledOnce
<1>11. WithinGrant => WithinGrant'
  <2>1. ASSUME NEW r, r \in alive'
        PROVE  r \in alive /\ r # Free /\ pages'[r] = pages[r]
    BY <1>1, <2>1, PagingAssumption DEF PagingInv, CountType
  <2>. QED
    BY <1>1, <1>5, <1>9, <2>1 DEF WithinGrant, Holds
<1>12. AllHonest => AllHonest'
  BY <1>1, <1>5, <1>9 DEF AllHonest, Honest, Holds, Unwritten
<1>13. AllHonest /\ StillHeld => StillHeld'
  <2>. SUFFICES ASSUME AllHonest, StillHeld, NEW r \in alive', NEW v \in touched[r]
                PROVE  \/ \E f \in Frame : frame'[f].data = [of |-> r, page |-> v]
                       \/ \E s \in Slot : slot[s].data = [of |-> r, page |-> v]
    BY <1>1 DEF StillHeld
  <2>1. r \in alive /\ r # currThread /\ r \in Thread
    BY <1>1 DEF PagingInv, CountType
  <2>2. ASSUME NEW f \in gone
        PROVE  frame[f].data # [of |-> r, page |-> v]
    <3>1. frame[f].data \in {Blank, Garbage, [of |-> currThread, page |-> Home(frame, f)]}
      BY <1>4 DEF AllHonest, Honest, Unwritten
    <3>. QED
      BY <2>1, <3>1, PagingAssumption DEF Blank, Garbage
  <2>3. \/ \E f \in Frame : frame[f].data = [of |-> r, page |-> v]
        \/ \E s \in Slot : slot[s].data = [of |-> r, page |-> v]
    BY <2>1 DEF StillHeld
  <2>. QED
    BY <1>5, <2>2, <2>3
<1>14. accessible' = {} => OpenInPlace'
  BY DEF OpenInPlace
<1>15. OneHome => OneHome'
  BY <1>3, <1>5, <1>9 DEF OneHome, Holds
<1>. QED
  BY <1>1, <1>3, <1>6, <1>7, <1>8, <1>10, <1>11, <1>12, <1>13, <1>14, <1>15 DEF PagingInv

(* The running thread is granted pages.                                    *)
LEMMA GrantKeepsInv ==
  ASSUME PagingInv, NEW n \in 1..MaxPages, Grant(n)
  PROVE  PagingInv'
<1>1. /\ pages[currThread] + n <= MaxPages /\ pagesLeft - n >= 0
      /\ pagesLeft' = pagesLeft - n
      /\ pages' = [pages EXCEPT ![currThread] = pages[currThread] + n]
      /\ most' = Max({most, pages[currThread] + n})
      /\ UNCHANGED << currThread, alive, frame, slot, accessible, hand, touched, misfiled,
                      skipped >>
  BY DEF Grant, table
<1>2. /\ pages \in [Thread -> 0..MaxPages] /\ currThread \in Thread
      /\ pages[currThread] \in Nat /\ n \in Nat /\ most \in 0..MaxPages
      /\ pagesLeft \in Int /\ \A t \in Thread : pages[t] <= most /\ pages[t] \in Nat
  BY PagingAssumption DEF PagingInv, PagingType, CountType
<1>3. /\ most' \in {most, pages[currThread] + n}
      /\ most <= most' /\ pages[currThread] + n <= most'
  <2>. DEFINE total == pages[currThread] + n
  <2>1. most \in Int /\ total \in Int /\ most' = Max({most, total})
    BY <1>1, <1>2
  <2>. HIDE DEF total
  <2>2. most' \in {most, total} /\ most <= most' /\ total <= most'
    BY <2>1, GreaterOfTwo
  <2>. QED
    BY <2>2 DEF total
<1>4. pages[currThread] + n \in 0..MaxPages
  BY <1>1, <1>2, PagingAssumption
<1>5. PagingType'
  BY <1>1 DEF PagingInv, PagingType
<1>6. CountType'
  <2>1. pages' \in [Thread -> 0..MaxPages] /\ pagesLeft' \in Int /\ most' \in 0..MaxPages
    BY <1>1, <1>2, <1>3, <1>4
  <2>2. \A t \in Thread : pages'[t] <= most'
    BY <1>1, <1>2, <1>3, <2>1, PagingAssumption
  <2>. QED
    BY <1>1, <2>1, <2>2 DEF PagingInv, CountType
<1>7. Counted'
  <2>1. Cardinality(Granted(pages')) =
          Cardinality(Granted(pages)) - pages[currThread] + (pages[currThread] + n)
    BY <1>1, <1>2, <1>4, GrantedCount
  <2>2. Cardinality(Granted(pages)) \in Nat
    BY GrantedFinite
  <2>. QED
    BY <1>1, <1>2, <2>1, <2>2 DEF PagingInv, Counted
<1>8. FiledOnce => FiledOnce'
  BY <1>1 DEF FiledOnce, Home
<1>9. WithinGrant => WithinGrant'
  <2>1. ASSUME NEW t \in alive, NEW h \in Int, h < pages[t]
        PROVE  h < pages'[t]
    BY <1>1, <1>2, <2>1 DEF PagingInv, CountType
  <2>2. ASSUME NEW f \in Frame
        PROVE  Home(frame, f) \in Int
    <3>1. frame[f].retAddr \in Frame \cup {AtHome}
      BY DEF PagingInv, PagingType, Nodes, NodeType
    <3>. QED
      BY <3>1 DEF Home, Frame, AtHome
  <2>3. ASSUME NEW s \in Slot
        PROVE  slot[s].retAddr \in Int
    <3>1. slot[s].retAddr \in Frame \cup {AtHome}
      BY DEF PagingInv, PagingType, Nodes, NodeType
    <3>. QED
      BY <3>1 DEF Frame, AtHome
  <2>4. \A f \in Frame : Home(frame', f) = Home(frame, f)
    BY <1>1
  <2>. QED
    BY <1>1, <2>1, <2>2, <2>3, <2>4 DEF WithinGrant
<1>10. OpenInPlace /\ AllHonest /\ StillHeld => OpenInPlace' /\ AllHonest' /\ StillHeld'
  BY <1>1 DEF OpenInPlace, InPlace, AllHonest, Honest, Home, StillHeld
<1>11. Orderly' = Orderly /\ OneHome' = OneHome
  BY <1>1 DEF Orderly, OneHome, Home
<1>12. most' <= 1 => most <= 1
  BY <1>2, <1>3, <1>6 DEF CountType
<1>. QED
  BY <1>1, <1>5, <1>6, <1>7, <1>8, <1>9, <1>10, <1>11, <1>12 DEF PagingInv

-----------------------------------------------------------------------------
(***************************************************************************)
(* The theorems.                                                           *)
(***************************************************************************)
(* The invariant of the page table and its counters.                       *)
THEOREM PagingInvariant == Spec => []PagingInv
<1>1. PagingInv /\ [Next]_vars => PagingInv'
  <2>. SUFFICES ASSUME PagingInv, [Next]_vars PROVE PagingInv'
    OBVIOUS
  <2>1. CASE \E v \in Page : pageFaultHandler(v) \/ Touch(v)
    BY <2>1, HandlerKeepsInv, TouchKeepsInv
  <2>2. ASSUME NEW t \in Thread, Switch(t)
        PROVE  PagingInv'
    <3>1. /\ Protected /\ currThread' \in alive
          /\ UNCHANGED << alive, frame, slot, hand, misfiled, pages, pagesLeft, touched, most >>
      BY <2>2 DEF Switch, protectPages, Protected
    <3>. QED
      BY <3>1, ProtectKeepsInv
  <2>3. ASSUME NEW t \in Thread, SwitchFromExited(t)
        PROVE  PagingInv'
    BY <2>3, SwitchFromExitedKeepsInv
  <2>4. CASE LibraryCall
    <3>1. /\ Protected /\ currThread' \in alive
          /\ UNCHANGED << alive, frame, slot, hand, misfiled, pages, pagesLeft, touched, most >>
      BY <2>4 DEF LibraryCall, protectPages, Protected, PagingInv, CountType
    <3>. QED
      BY <3>1, ProtectKeepsInv
  <2>5. CASE \E n \in 1..MaxPages : Grant(n)
    BY <2>5, GrantKeepsInv
  <2>6. CASE UNCHANGED vars
    <3>1. UNCHANGED << currThread, alive, frame, slot, accessible, hand, pages, pagesLeft,
                       touched, most, misfiled, skipped >>
      BY <2>6 DEF vars, table
    <3>2. PagingType' /\ CountType' /\ Counted'
      BY <3>1 DEF PagingInv, PagingType, CountType, Counted, Granted
    <3>3. FiledOnce' = FiledOnce /\ WithinGrant' = WithinGrant
      BY <3>1 DEF FiledOnce, WithinGrant, Home
    <3>4. /\ OpenInPlace' = OpenInPlace /\ AllHonest' = AllHonest
          /\ StillHeld' = StillHeld /\ OneHome' = OneHome
      BY <3>1 DEF OpenInPlace, InPlace, AllHonest, Honest, StillHeld, OneHome, Home
    <3>. QED
      BY <3>1, <3>2, <3>3, <3>4 DEF PagingInv, Orderly
  <2>. QED
    BY <2>1, <2>2, <2>3, <2>4, <2>5, <2>6 DEF Next
<1>. QED
  BY <1>1, PagingInitially, PTL DEF Spec

(* totalrecall.c: the nodes of the table, the counters and the clock hand  *)
(* keep their ranges; pages_left in particular never goes below 0 nor      *)
(* above what the program started with.                                    *)
THEOREM TableTypeCorrect == Spec => []TypeOK
<1>1. PagingInv => TypeOK
  <2>. SUFFICES ASSUME PagingInv PROVE TypeOK
    OBVIOUS
  <2>1. pagesLeft \in 0..TotalPages
    <3>1. Cardinality(Granted(pages)) \in Nat
      BY GrantedFinite
    <3>. QED
      BY <3>1 DEF PagingInv, Counted, CountType
  <2>. QED
    BY <2>1 DEF PagingInv, PagingType, CountType, Nodes, TypeOK
<1>. QED
  BY <1>1, PagingInvariant, PTL

(* totalrecall.c:189-470: a frame that is open holds the running thread's  *)
(* own page, in its place, or one that nobody has written, as long as no   *)
(* page was filed under a wrong home and protectPages protected them all.  *)
THEOREM ThreadsAreIsolated == Spec => []Isolated
<1>1. PagingInv => Isolated
  <2>. SUFFICES ASSUME PagingInv, Orderly, NEW f \in accessible
                PROVE  /\ InPlace(f)
                       /\ frame[f].data \in Unwritten \cup {[of |-> currThread, page |-> f]}
    BY DEF Isolated, Orderly
  <2>1. InPlace(f) /\ f \in Frame
    BY DEF PagingInv, PagingType, OpenInPlace
  <2>2. Honest(frame[f], f)
    BY <2>1 DEF PagingInv, AllHonest, InPlace, Home
  <2>. QED
    BY <2>1, <2>2 DEF Honest, Unwritten, InPlace
<1>. QED
  BY <1>1, PagingInvariant, PTL

(* What an honest node holds tells whose page it is, and which.            *)
LEMMA HonestTells ==
  ASSUME NEW n, NEW home, NEW t, NEW v, Honest(n, home),
         n.data = [of |-> t, page |-> v], [of |-> t, page |-> v] \notin Unwritten
  PROVE  n.threadid = t /\ home = v
<1>1. n.data = [of |-> n.threadid, page |-> home]
  BY DEF Honest
<1>2. n.data.of = n.threadid /\ n.data.page = home
  BY <1>1
<1>3. n.data.of = t /\ n.data.page = v
  OBVIOUS
<1>. QED
  BY <1>2, <1>3

(* What a thread wrote is in one place, the one where the handler looks.   *)
LEMMA OrderlyKeepsPages ==
  ASSUME PagingInv, Orderly
  PROVE  PagesKept
<1>. SUFFICES ASSUME NEW t \in alive, NEW v \in touched[t]
              PROVE  \E place \in HeldIn(t, v) :
                       HeldIn(t, v) = {place} /\ FiledIn(t, v) = {place}
  BY DEF PagesKept
<1>1. FiledOnce /\ AllHonest /\ StillHeld /\ t # Free /\ t \in Thread
  BY PagingAssumption DEF PagingInv, Orderly, CountType
<1>. DEFINE d == [of |-> t, page |-> v]
<1>2. d \notin Unwritten
  BY <1>1, PagingAssumption DEF Unwritten, Blank, Garbage
<1>3. \A f \in Frame : frame[f].data = d => frame[f].threadid = t /\ Home(frame, f) = v
  BY <1>1, <1>2, HonestTells DEF AllHonest
<1>4. \A s \in Slot : slot[s].data = d => slot[s].threadid = t /\ slot[s].retAddr = v
  BY <1>1, <1>2, HonestTells DEF AllHonest
<1>5. HeldIn(t, v) \subseteq FiledIn(t, v)
  BY <1>3, <1>4 DEF HeldIn, FiledIn
<1>6. HeldIn(t, v) # {}
  <2>1. \/ \E f \in Frame : frame[f].data = d
        \/ \E s \in Slot : slot[s].data = d
    BY <1>1 DEF StillHeld
  <2>. QED
    BY <2>1 DEF HeldIn
<1>7. ASSUME NEW p \in FiledIn(t, v), NEW q \in FiledIn(t, v)
      PROVE  p = q
  <2>. DEFINE Framed(x) == \E f \in Frame : /\ x = << "frame", f >> /\ frame[f].threadid = t
                                            /\ Home(frame, f) = v
              Slotted(x) == \E s \in Slot : /\ x = << "slot", s >> /\ slot[s].threadid = t
                                            /\ slot[s].retAddr = v
  <2>1. (Framed(p) \/ Slotted(p)) /\ (Framed(q) \/ Slotted(q))
    BY DEF FiledIn
  <2>2. CASE Framed(p) /\ Framed(q)
    BY <1>1, <2>2 DEF FiledOnce
  <2>3. CASE Slotted(p) /\ Slotted(q)
    BY <1>1, <2>3 DEF FiledOnce
  <2>4. CASE Framed(p) /\ Slotted(q)
    BY <1>1, <2>4 DEF FiledOnce
  <2>5. CASE Slotted(p) /\ Framed(q)
    BY <1>1, <2>5 DEF FiledOnce
  <2>. QED
    BY <2>1, <2>2, <2>3, <2>4, <2>5
<1>. QED
  BY <1>5, <1>6, <1>7

(* totalrecall.c:160-470: as long as no page was put away under a home     *)
(* that is not its own and none was left open, what a living thread wrote  *)
(* is in exactly one place, and that is where pageFaultHandler looks.      *)
THEOREM PagesAreNotLost == Spec => []NoPageLost
<1>1. PagingInv => NoPageLost
  BY OrderlyKeepsPages DEF NoPageLost, Orderly
<1>. QED
  BY <1>1, PagingInvariant, PTL

(* totalrecall.c:160-470: with one page to a thread, pages are displaced,  *)
(* evicted and swapped in, and none is ever misfiled, left open or lost.   *)
THEOREM OnePageIsSafe == Spec => []OnePageEach
<1>1. PagingInv => OnePageEach
  <2>. SUFFICES ASSUME PagingInv, most <= 1
                PROVE  ~misfiled /\ ~skipped /\ PagesKept
    BY DEF OnePageEach
  <2>1. Orderly
    BY DEF PagingInv
  <2>. QED
    BY <2>1, OrderlyKeepsPages DEF Orderly
<1>. QED
  BY <1>1, PagingInvariant, PTL

(* totalrecall.c:189-336, 605-618: the pages counted for the living        *)
(* threads fit the table, so a page that was counted and that the thread   *)
(* does not have yet finds a free node, unless pages were misfiled or an   *)
(* exited thread left some behind.                                         *)
THEOREM GrantedPagesCanBeHad == Spec => []GrantedPagesExist
<1>1. PagingInv => GrantedPagesExist
  <2>. SUFFICES ASSUME PagingInv, ~misfiled,
                       \A f \in Frame : frame[f].threadid \in alive \cup {Free},
                       \A s \in Slot : slot[s].threadid \in alive \cup {Free},
                       NEW v \in Page, Faults(v), NeedsFresh(v),
                       FreeIn(frame) = {}, FreeIn(slot) = {}
                PROVE  FALSE
    BY DEF GrantedPagesExist
  <2>. DEFINE Place == 0..(TotalPages - 1)
              page == [i \in Place |->
                         IF i < NFrames THEN << frame[i].threadid, Home(frame, i) >>
                         ELSE << slot[i - NFrames].threadid, slot[i - NFrames].retAddr >>]
              Others == Granted(pages) \ {<< currThread, v >>}
  <2>1. FiledOnce /\ WithinGrant /\ v \in Frame /\ currThread \in Thread
    BY Numbers DEF PagingInv, PagingType
  <2>2. ASSUME NEW i \in Place
        PROVE  IF i < NFrames THEN i \in Frame ELSE i - NFrames \in Slot
    BY PagingAssumption DEF Frame, Slot, TotalPages
  <2>3. ~FiledElsewhere(v, AtHome, AtHome)
    BY <2>1, WantedAlone DEF PagingInv
  <2>4. ASSUME NEW f \in Frame
        PROVE  << frame[f].threadid, Home(frame, f) >> \in Others
    <3>1. frame[f].threadid \in alive
      BY DEF FreeIn, PagingInv, PagingType
    <3>2. Home(frame, f) \in Nat
      <4>1. frame[f].retAddr \in Frame \cup {AtHome}
        BY DEF PagingInv, PagingType, Nodes, NodeType
      <4>. QED
        BY <4>1, Numbers DEF Home
    <3>3. /\ frame[f].threadid \in Thread
          /\ Home(frame, f) < pages[frame[f].threadid]
          /\ pages[frame[f].threadid] \in 0..MaxPages
      BY <2>1, <3>1 DEF WithinGrant, PagingInv, CountType
    <3>4. Home(frame, f) \in Page
      BY <3>2, <3>3, PagingAssumption DEF Page
    <3>5. ~(frame[f].threadid = currThread /\ Home(frame, f) = v)
      BY <2>3, Numbers DEF FiledElsewhere
    <3>. QED
      BY <3>3, <3>4, <3>5 DEF Granted
  <2>5. ASSUME NEW s \in Slot
        PROVE  << slot[s].threadid, slot[s].retAddr >> \in Others
    <3>1. slot[s].threadid \in alive
      BY DEF FreeIn, PagingInv, PagingType
    <3>2. slot[s].retAddr \in Nat
      <4>1. slot[s].retAddr \in Frame \cup {AtHome}
        BY DEF PagingInv, PagingType, Nodes, NodeType
      <4>. QED
        BY <2>1, <3>1, <4>1, Numbers DEF WithinGrant
    <3>3. /\ slot[s].threadid \in Thread
          /\ slot[s].retAddr < pages[slot[s].threadid]
          /\ pages[slot[s].threadid] \in 0..MaxPages
      BY <2>1, <3>1 DEF WithinGrant, PagingInv, CountType
    <3>4. slot[s].retAddr \in Page
      BY <3>2, <3>3, PagingAssumption DEF Page
    <3>5. AtHome \notin Slot
      BY DEF Slot, AtHome
    <3>6. ~(slot[s].threadid = currThread /\ slot[s].retAddr = v)
      BY <2>3, <3>5 DEF FiledElsewhere
    <3>. QED
      BY <3>3, <3>4, <3>6 DEF Granted
  <2>. HIDE DEF Others
  <2>6. page \in [Place -> Others]
    BY <2>2, <2>4, <2>5
  <2>7. \A i, j \in Place : page[i] = page[j] => i = j
    <3>1. ASSUME NEW i \in Place, NEW j \in Place, page[i] = page[j]
          PROVE  i = j
      <4>0. \A f \in Frame : frame[f].threadid # Free
        BY DEF FreeIn, PagingInv, PagingType
      <4>00. \A s \in Slot : slot[s].threadid # Free
        BY DEF FreeIn, PagingInv, PagingType
      <4>1. CASE i < NFrames /\ j < NFrames
        BY <2>1, <2>2, <3>1, <4>0, <4>1 DEF FiledOnce
      <4>2. CASE ~(i < NFrames) /\ ~(j < NFrames)
        <5>1. i - NFrames \in Slot /\ j - NFrames \in Slot
          BY <2>2, <4>2
        <5>2. i - NFrames = j - NFrames
          BY <2>1, <3>1, <4>00, <4>2, <5>1 DEF FiledOnce
        <5>. QED
          BY <5>2, PagingAssumption
      <4>3. CASE i < NFrames /\ ~(j < NFrames)
        BY <2>1, <2>2, <3>1, <4>0, <4>3 DEF FiledOnce
      <4>4. CASE ~(i < NFrames) /\ j < NFrames
        BY <2>1, <2>2, <3>1, <4>0, <4>4 DEF FiledOnce
      <4>. QED
        BY <4>1, <4>2, <4>3, <4>4
    <3>. QED
      BY <3>1
  <2>8. page \in Injection(Place, Others)
    <3>. HIDE DEF page, Place
    <3>. QED
      BY <2>6, <2>7 DEF Injection, IsInjective
  <2>9. IsFiniteSet(Place) /\ Cardinality(Place) = TotalPages
    <3>1. ASSUME NEW a \in Int, NEW b \in Int, a = 0, b = TotalPages - 1
          PROVE  IsFiniteSet(a..b) /\ Cardinality(a..b) = TotalPages
      <4>1. IsFiniteSet(a..b) /\ Cardinality(a..b) = IF a > b THEN 0 ELSE b - a + 1
        BY Zenon, FS_Interval
      <4>2. (IF a > b THEN 0 ELSE b - a + 1) = TotalPages
        BY <3>1, PagingAssumption DEF TotalPages
      <4>. QED
        BY <4>1, <4>2
    <3>2. TotalPages - 1 \in Int
      BY PagingAssumption DEF TotalPages
    <3>. QED
      BY <3>1, <3>2
  <2>10. << currThread, v >> \in Granted(pages)
    BY <2>1 DEF Faults, Uses, Granted
  <2>11. /\ IsFiniteSet(Others)
         /\ Cardinality(Others) = Cardinality(Granted(pages)) - 1
    BY <2>10, GrantedFinite, FS_RemoveElement DEF Others
  <2>. HIDE DEF Place, page
  <2>12. Cardinality(Place) <= Cardinality(Others)
    BY <2>8, <2>11, FS_Injection
  <2>13. Cardinality(Granted(pages)) \in Nat /\ TotalPages \in Nat
    BY GrantedFinite, PagingAssumption DEF TotalPages
  <2>. QED
    BY <2>9, <2>11, <2>12, <2>13 DEF PagingInv, CountType, Counted
<1>. QED
  BY <1>1, PagingInvariant, PTL
=============================================================================
