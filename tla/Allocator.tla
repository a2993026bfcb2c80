------------------------------ MODULE Allocator ------------------------------
(***************************************************************************)
(* The allocator of src/Memory_Manager/totalrecall.c.  A region of memory  *)
(* is a doubly linked list of blocks, each a header (AllocNode) and its    *)
(* payload, starting at address 0 of the region.  Three regions have such  *)
(* a list: "thread", the pages of one thread (myallocate, mydeallocate),   *)
(* "library" (schedulerallocate, mydeallocate) and "shared" (shalloc,      *)
(* nothing is ever freed).  They search alike and differ in the checks.    *)
(*                                                                         *)
(* A header stays in memory after its block is gone, until something is    *)
(* written over it.  Requests that return NULL without a change are not    *)
(* steps.                                                                  *)
(***************************************************************************)
EXTENDS Integers, FiniteSets, FiniteSetsExt

CONSTANTS
  Kinds,       \* the regions considered, out of "thread", "library", "shared"
  HeaderSize,  \* sizeof(AllocNode)
  PageSize,
  End,         \* length of the region
  Sizes,       \* the sizes that are asked for
  TotalPages,  \* pagesLeft when the thread starts
  Gone         \* in place of a header that has been written over

ASSUME AllocatorAssumption ==
  /\ Kinds \subseteq {"thread", "library", "shared"}
  /\ HeaderSize \in Nat \ {0} /\ PageSize \in Nat \ {0} /\ TotalPages \in Nat
  /\ End \in Nat /\ End > HeaderSize
  /\ Sizes \subseteq Nat \ {0}

Addr == 0..End - 1
Null == -1

VARIABLES
  kind,               \* which region this is
  node,               \* the header at an address, Gone if none is left there
  live,               \* the blocks handed out and not freed: address and size
  thread_page_count,
  pagesLeft,
  freeing,            \* where a call of mydeallocate is, at Null if none runs
  stray,              \* history: mydeallocate followed a prev that was out of date
  uncounted,          \* history: a block got a page that was not counted
  lost                \* a header was read that is no longer there

vars  == << kind, node, live, thread_page_count, pagesLeft, freeing, stray,
            uncounted, lost >>
count == << thread_page_count, pagesLeft, uncounted >>

Header(inUse, capacity, prev, next) ==
  [signature |-> TRUE, inUse |-> inUse, capacity |-> capacity, prev |-> prev, next |-> next]

Idle == [at |-> Null, phase |-> "none"]

Init ==
  /\ kind \in Kinds
  /\ node = [a \in Addr |-> Gone]
  /\ live = {}
  /\ thread_page_count = 0 /\ pagesLeft = TotalPages
  /\ freeing = Idle
  /\ stray = FALSE /\ uncounted = FALSE /\ lost = FALSE

-----------------------------------------------------------------------------
(***************************************************************************)
(* The list.                                                               *)
(***************************************************************************)
Started == node[0] # Gone /\ node[0].signature

From[a \in Addr] ==
  {a} \cup (IF node[a] = Gone \/ node[a].next = Null THEN {} ELSE From[node[a].next])

List == IF Started THEN From[0] ELSE {}
Last == CHOOSE a \in List : node[a] # Gone /\ node[a].next = Null
Intact == \A a \in List : node[a] # Gone

(* The first free block of exactly this size.                              *)
Fits(size) == {a \in List : ~node[a].inUse /\ node[a].capacity = size}

(* Where the block after a begins.                                         *)
EndOf(a) == a + HeaderSize + node[a].capacity

(* A block is handed out.  Its header is written over what was there, and  *)
(* its owner may write over the headers that its payload covers.           *)
Covered(a, from, size) ==
  {x \in Addr \ {a} : x + HeaderSize > a + from /\ x < a + HeaderSize + size}

HandOut(a, size, nodes) ==
  /\ live' = live \cup {[addr |-> a, size |-> size]}
  /\ \E written \in {Covered(a, HeaderSize, size), {}} :
       node' = [x \in Addr |-> IF x \in written THEN Gone ELSE nodes[x]]

WithHeader(a, size, prev) ==
  LET under == {x \in Addr \ {a} : x + HeaderSize > a /\ x < a + HeaderSize}
  IN [x \in Addr |-> IF x = a THEN Header(TRUE, size, prev, Null)
                     ELSE IF x \in under THEN Gone
                     ELSE IF x = prev THEN [node[x] EXCEPT !.next = a]
                     ELSE node[x]]

Ready == freeing = Idle /\ ~lost /\ Intact

-----------------------------------------------------------------------------
(***************************************************************************)
(* myallocate                                                              *)
(***************************************************************************)
(* Faulty: the pages are not taken from those that are left.               *)
CountOnly(n) ==
  /\ thread_page_count' = thread_page_count + n
  /\ UNCHANGED pagesLeft

Count(n) ==
  /\ thread_page_count' = thread_page_count + n
  /\ pagesLeft' = pagesLeft - n

(* The first block of the list.  The size is checked and counted only for  *)
(* a thread that has no pages yet.                                         *)
ThreadHead(size) ==
  LET n == (size + HeaderSize) \div PageSize + 1
  IN /\ kind = "thread" /\ Ready /\ ~Started
     /\ \/ /\ thread_page_count = 0
           /\ HeaderSize + size < End /\ n <= pagesLeft
           /\ Count(n) /\ UNCHANGED uncounted
        \/ /\ thread_page_count # 0
           /\ uncounted' = (uncounted \/ n > thread_page_count)
           /\ UNCHANGED << thread_page_count, pagesLeft >>
     /\ HandOut(0, size, WithHeader(0, size, Null))
     /\ UNCHANGED << kind, freeing, stray, lost >>

(* Faulty: a free block that is larger is taken as well, and not split.    *)
ReuseLarger(size) ==
  /\ Ready /\ Started
  /\ {a \in List : ~node[a].inUse /\ node[a].capacity >= size} # {}
  /\ LET a == Min({x \in List : ~node[x].inUse /\ node[x].capacity >= size})
     IN HandOut(a, size, [node EXCEPT ![a].inUse = TRUE])
  /\ UNCHANGED << kind, freeing, count, stray, lost >>

(* All three allocators.                                                   *)
Reuse(size) ==
  /\ Ready /\ Started /\ Fits(size) # {}
  /\ LET a == Min(Fits(size)) IN HandOut(a, size, [node EXCEPT ![a].inUse = TRUE])
  /\ UNCHANGED << kind, freeing, count, stray, lost >>

(* Pages that the payload at address s reaches beyond its first one.       *)
(* Faulty: a payload that ends with its page is one page.                  *)
MorePagesShort(s, size) == ((s % PageSize) + size - 1) \div PageSize

MorePages(s, size) == ((s % PageSize) + size) \div PageSize

ThreadAppend(size) ==
  /\ kind = "thread" /\ Ready /\ Started /\ Fits(size) = {}
  /\ LET a == EndOf(Last)
         s == a + HeaderSize
         n == MorePages(s, size)
     IN /\ s + size < End /\ n <= pagesLeft
        /\ Count(n)
        /\ uncounted' = (uncounted \/ a \div PageSize # s \div PageSize)
        /\ HandOut(a, size, WithHeader(a, size, Last))
  /\ UNCHANGED << kind, freeing, stray, lost >>

-----------------------------------------------------------------------------
(***************************************************************************)
(* schedulerallocate and shalloc.  Their bounds leave the header out, and  *)
(* the first request that fails leaves a signed, empty, unused header.     *)
(***************************************************************************)
RegionHead(size) ==
  /\ kind # "thread" /\ Ready /\ ~Started
  /\ size < End
  /\ HandOut(0, size, WithHeader(0, size, Null))
  /\ UNCHANGED << kind, freeing, count, stray, lost >>

FailedHead(size) ==
  /\ kind # "thread" /\ Ready /\ ~Started
  /\ size >= End
  /\ node' = [node EXCEPT ![0] = Header(FALSE, 0, Null, Null)]
  /\ UNCHANGED << kind, live, freeing, count, stray, lost >>

RegionAppend(size) ==
  /\ kind # "thread" /\ Ready /\ Started /\ Fits(size) = {}
  /\ LET a == EndOf(Last) IN a + size < End /\ HandOut(a, size, WithHeader(a, size, Last))
  /\ UNCHANGED << kind, freeing, count, stray, lost >>

-----------------------------------------------------------------------------
(***************************************************************************)
(* mydeallocate, one iteration of its loops at a time.  The caller frees a *)
(* block that it was given, and once.                                      *)
(***************************************************************************)
Before == node[freeing.at].prev
Behind == node[freeing.at].next

Overwritten(a) == a \in Addr /\ node[a] = Gone
Unused(a)      == a \in Addr /\ node[a] # Gone /\ ~node[a].inUse

Free(block) ==
  /\ kind # "shared" /\ Ready
  /\ live' = live \ {block}
  /\ IF node[block.addr] = Gone THEN lost' = TRUE /\ UNCHANGED << node, freeing >>
     ELSE /\ node[block.addr].signature /\ node[block.addr].inUse
          /\ node' = [node EXCEPT ![block.addr].inUse = FALSE]
          /\ freeing' = [at |-> block.addr, phase |-> "prev"]
          /\ UNCHANGED lost
  /\ UNCHANGED << kind, count, stray >>

IsPrevOf(p, c) == IF c = 0 THEN p = Null
                  ELSE p \in List /\ node[p] # Gone /\ node[p].next = c

At(phase) == freeing.phase = phase /\ ~lost

(* Faulty: the room of the header that goes is not added.                  *)
MergePrevShort ==
  /\ At("prev") /\ Unused(Before)
  /\ LET c == freeing.at
     IN node' = [node EXCEPT
          ![c].signature = FALSE,
          ![Before].next = node[c].next,
          ![Before].capacity = @ + node[c].capacity]
  /\ freeing' = [freeing EXCEPT !.at = Before]
  /\ stray' = (stray \/ ~IsPrevOf(Before, freeing.at))
  /\ UNCHANGED << kind, live, count, lost >>

(* The previous block is free: it swallows this one.                       *)
MergePrev ==
  /\ At("prev") /\ Unused(Before)
  /\ LET c == freeing.at
     IN node' = [node EXCEPT
          ![c].signature = FALSE,
          ![Before].next = node[c].next,
          ![Before].capacity = @ + HeaderSize + node[c].capacity]
  /\ freeing' = [freeing EXCEPT !.at = Before]
  /\ stray' = (stray \/ ~IsPrevOf(Before, freeing.at))
  /\ UNCHANGED << kind, live, count, lost >>

PrevInUse ==
  /\ At("prev") /\ ~Overwritten(Before) /\ ~Unused(Before)
  /\ freeing' = [freeing EXCEPT !.phase = "next"]
  /\ stray' = (stray \/ ~IsPrevOf(Before, freeing.at))
  /\ UNCHANGED << kind, node, live, count, lost >>

(* Faulty: the block behind is swallowed whether it is free or not.        *)
MergeNextInUse ==
  /\ At("next") /\ Behind # Null /\ ~Overwritten(Behind)
  /\ node' = [node EXCEPT
        ![Behind].signature = FALSE,
        ![freeing.at].capacity = @ + HeaderSize + node[Behind].capacity,
        ![freeing.at].next = node[Behind].next]
  /\ UNCHANGED << kind, live, count, freeing, stray, lost >>

(* The next block is free: this one swallows it.  The prev of the block    *)
(* behind it keeps pointing at the header that is gone.                    *)
MergeNext ==
  /\ At("next") /\ Unused(Behind)
  /\ node' = [node EXCEPT
        ![Behind].signature = FALSE,
        ![freeing.at].capacity = @ + HeaderSize + node[Behind].capacity,
        ![freeing.at].next = node[Behind].next]
  /\ UNCHANGED << kind, live, count, freeing, stray, lost >>

KeepFree ==
  /\ At("next") /\ Behind # Null /\ ~Overwritten(Behind) /\ ~Unused(Behind)
  /\ freeing' = Idle
  /\ UNCHANGED << kind, node, live, count, stray, lost >>

(* Faulty: the block before keeps the link to the one that is deleted.     *)
DeleteTailLinked ==
  /\ At("next") /\ Behind = Null
  /\ node' = [node EXCEPT ![freeing.at].signature = FALSE,
                          ![freeing.at].prev = Null]
  /\ freeing' = Idle
  /\ UNCHANGED << kind, live, count, stray, lost >>

(* Nothing is behind the block: its header is deleted.                     *)
DeleteTail ==
  /\ At("next") /\ Behind = Null /\ ~Overwritten(Before)
  /\ LET c == freeing.at
         deleted == [node EXCEPT ![c].signature = FALSE, ![c].capacity = 0, ![c].prev = Null]
     IN node' = IF Before = Null THEN deleted ELSE [deleted EXCEPT ![Before].next = Null]
  /\ freeing' = Idle
  /\ UNCHANGED << kind, live, count, stray, lost >>

(* A header that the code goes to has been overwritten.                    *)
FollowGone ==
  /\ \/ At("prev") /\ Overwritten(Before)
     \/ At("next") /\ Overwritten(Behind)
     \/ At("next") /\ Behind = Null /\ Overwritten(Before)
     \/ freeing = Idle /\ ~lost /\ ~Intact
  /\ lost' = TRUE
  /\ stray' = (stray \/ (freeing # Idle /\ ~IsPrevOf(Before, freeing.at)))
  /\ UNCHANGED << kind, node, live, count, freeing >>

mydeallocate ==
  \/ \E block \in live : Free(block)
  \/ MergePrev \/ PrevInUse \/ MergeNext \/ KeepFree \/ DeleteTail

Next ==
  \/ \E size \in Sizes :
       \/ ThreadHead(size) \/ Reuse(size) \/ ThreadAppend(size)
       \/ RegionHead(size) \/ FailedHead(size) \/ RegionAppend(size)
  \/ mydeallocate
  \/ FollowGone

Spec == Init /\ [][Next]_vars

-----------------------------------------------------------------------------
(***************************************************************************)
(* Properties.                                                             *)
(***************************************************************************)
Block == [addr : Addr, size : Sizes]
HeaderType == [signature : BOOLEAN, inUse : BOOLEAN, capacity : Nat,
               prev : Addr \cup {Null}, next : Addr \cup {Null}]

ASSUME GoneIsNoHeader == Gone \notin HeaderType

(* Type correctness, and no page is counted twice or out of nothing.       *)
TypeOK ==
  /\ kind \in Kinds
  /\ node \in [Addr -> HeaderType \cup {Gone}]
  /\ live \subseteq Block
  /\ thread_page_count \in 0..TotalPages
  /\ thread_page_count + pagesLeft = TotalPages
  /\ freeing \in [at : Addr \cup {Null}, phase : {"none", "prev", "next"}]
  /\ stray \in BOOLEAN /\ uncounted \in BOOLEAN /\ lost \in BOOLEAN

Apart(b, c) == \/ b.addr + HeaderSize + b.size <= c.addr
               \/ c.addr + HeaderSize + c.size <= b.addr

(* No two blocks that are in the hands of callers overlap.                 *)
Disjoint == \A b, c \in live : b # c => Apart(b, c)

(* They do not as long as every prev that mydeallocate followed was the    *)
(* block before, and no header is read that is not there.                  *)
BlocksDisjoint == ~stray => ~lost /\ Disjoint

(* The list knows every block that is in use, and its size.                *)
LiveListed ==
  ~stray => \A b \in live : /\ b.addr \in List
                            /\ node[b.addr].inUse /\ node[b.addr].capacity = b.size

(* Between two calls no two free blocks are neighbours and the last block  *)
(* is in use: what the comments at 673, 686 and 698 say of a free.         *)
Coalesced ==
  ~stray /\ freeing = Idle =>
    \A a \in List : ~node[a].inUse /\ node[a].capacity # 0 =>
                      node[a].next # Null /\ node[node[a].next].inUse

(* Every byte of a block lies in a page counted for the thread, so that    *)
(* the fault handler lets it be used.                                      *)
PagesCounted ==
  kind = "thread" /\ ~stray /\ ~uncounted =>
    \A b \in live : b.addr + HeaderSize + b.size - 1 < thread_page_count * PageSize

(* No byte is lost to the allocators, whatever is freed and merged: between*)
(* two calls every block of the list begins where the one before it ends,  *)
(* and one that is marked as in use has an owner, who can still free it.   *)
NothingLeaks ==
  ~stray /\ freeing = Idle =>
    \A a \in List : /\ node[a].next # Null => node[a].next = EndOf(a)
                    /\ node[a].inUse => \E b \in live : b.addr = a
=============================================================================
