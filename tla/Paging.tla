-------------------------------- MODULE Paging --------------------------------
(***************************************************************************)
(* The virtual memory of src/Memory_Manager: every thread sees the same    *)
(* range of pages, page v of the running thread lives in frame v, and the  *)
(* SIGSEGV handler of totalrecall.c moves pages between frames and the     *)
(* swap file so that it does.  A page that is not in its place is filed    *)
(* under its home (retAddr), where it has to be brought back.              *)
(*                                                                         *)
(* The handler, protectPages and the scheduler's switch are one step each: *)
(* SIGALRM arriving inside the handler is not modelled.  A thread touches  *)
(* only pages the allocator counts as its own (lines 215-221 end the       *)
(* program otherwise).                                                     *)
(***************************************************************************)
EXTENDS Integers, FiniteSets, FiniteSetsExt

CONSTANTS
  Thread,     \* the threads, created before the first page is touched
  Free,       \* threadid 0: nobody's
  NFrames,    \* pages in memory (1600)
  NSlots,     \* pages in the swap file (3900)
  FileSlots,  \* those of them that buildKernalSpace has written: write stops
              \* at the first protected page, so 434 and not 3900
  MaxPages    \* bound on the pages one thread is granted

ASSUME PagingAssumption ==
  /\ Free \notin Thread /\ IsFiniteSet(Thread) /\ Thread # {}
  /\ NFrames \in Nat \ {0} /\ NSlots \in Nat /\ FileSlots \in 0..NSlots
  /\ MaxPages \in 1..NFrames

Frame == 0..NFrames - 1
Slot  == 0..NSlots - 1
Page  == 0..MaxPages - 1

AtHome == -1
TotalPages == NFrames + NSlots  \* pagesLeft when the program starts

(* What a page holds: what thread "of" wrote to its page, or something that *)
(* no thread wrote there: zeros or, read beyond the end of the swap file,   *)
(* whatever was in the buffer on the stack (line 40).                       *)
Blank   == [of |-> Free, page |-> 0]
Garbage == [of |-> Free, page |-> 1]
Unwritten == {Blank, Garbage}
Written == [of : Thread, page : Page]

VARIABLES
  currThread,  \* the thread that runs
  alive,       \* the threads that have not exited
  frame,       \* page nodes and the pages they describe
  slot,        \* the same of the swap file, whose reference bits nobody reads
  accessible,  \* the frames mprotect has opened
  hand,        \* free_list_position
  pages,       \* thread_page_count of each thread
  pagesLeft,
  touched,     \* history: the pages each thread has written
  most,        \* history: the most pages a thread was ever granted
  misfiled,    \* history: a page was filed under a home that is not its own
  skipped      \* history: protectPages stopped before an open page of its thread

table == << frame, slot, accessible, hand >>
vars  == << currThread, alive, table, pages, pagesLeft, touched, most,
            misfiled, skipped >>

Node(t, home, ref, data) == [threadid |-> t, retAddr |-> home, ref |-> ref, data |-> data]

(* buildKernalSpace *)
Init ==
  /\ currThread \in Thread /\ alive = Thread
  /\ frame = [f \in Frame |-> Node(Free, AtHome, FALSE, Blank)]
  /\ slot  = [s \in Slot |-> Node(Free, AtHome, FALSE,
                               IF s < FileSlots THEN Blank ELSE Garbage)]
  /\ accessible = {} /\ hand = 0
  /\ pages = [t \in Thread |-> 0] /\ pagesLeft = TotalPages
  /\ touched = [t \in Thread |-> {}] /\ most = 0
  /\ misfiled = FALSE /\ skipped = FALSE

(* A node on the way: its frame holds page Home of the thread threadid.    *)
Home(nodes, f) == IF nodes[f].retAddr = AtHome THEN f ELSE nodes[f].retAddr

(* Filed under v: right for a free frame and for a page whose home is v.   *)
Misfiles(f, v) == frame[f].threadid # Free /\ Home(frame, f) # v

-----------------------------------------------------------------------------
(***************************************************************************)
(* Moving pages.                                                           *)
(***************************************************************************)
(* Faulty: the displaced page keeps its own return address.                *)
swapPageForgetful(nodes, out, in, keepHome) ==
  [nodes EXCEPT ![out] = [nodes[in] EXCEPT !.retAddr = IF keepHome THEN @ ELSE AtHome],
                ![in]  = nodes[out]]

(* The frames change places; the page that leaves frame out is filed under *)
(* out.  The page that arrives is at home, unless it is only on its way to *)
(* the swap file (type 1).                                                 *)
swapPage(nodes, out, in, keepHome) ==
  [nodes EXCEPT ![out] = [nodes[in] EXCEPT !.retAddr = IF keepHome THEN @ ELSE AtHome],
                ![in]  = [nodes[out] EXCEPT !.retAddr = out]]

(* swapFileGrab: frame v and slot s exchange data and owners, but not      *)
(* reference bits.                                                         *)
GrabbedFrame(nodes, slots, v, s) ==
  [nodes EXCEPT ![v] = Node(slots[s].threadid, AtHome, nodes[v].ref, slots[s].data)]

(* Faulty: the page that goes to the swap file keeps its return address.   *)
GrabbedSlotForgetful(nodes, slots, v, s) ==
  [slots EXCEPT ![s] = Node(nodes[v].threadid, nodes[v].retAddr, FALSE, nodes[v].data)]

GrabbedSlot(nodes, slots, v, s) ==
  [slots EXCEPT ![s] = Node(nodes[v].threadid, v, FALSE, nodes[v].data)]

(* evictPage: from the hand on, the first frame without a reference bit,   *)
(* clearing the bits on the way.  In front of each look, one frame of the  *)
(* running thread is passed over, but not two in a row.                    *)
After(f) == (f + 1) % NFrames

Sweep[p \in Frame, refs \in SUBSET Frame] ==
  LET f == IF frame[p].threadid = currThread THEN After(p) ELSE p
  IN IF f \in refs THEN Sweep[After(f), refs \ {f}] ELSE << f, refs >>

Referenced == {f \in Frame : frame[f].ref}
Swept(refs) == [f \in Frame |-> [frame[f] EXCEPT !.ref = f \in refs]]

(* What C and F share: frame v gets the page of slot s, the page that was  *)
(* in v goes to the victim's frame, and the victim to the slot.            *)
EvictFor(v, s, slots) ==
  \E victim \in Frame, refs \in SUBSET Frame :
    /\ << victim, refs >> = Sweep[hand, Referenced]
    /\ hand' = After(victim)
    /\ LET moved == IF victim = v THEN Swept(refs)
                    ELSE swapPage(Swept(refs), v, victim, TRUE)
       IN /\ frame' = GrabbedFrame(moved, slots, v, s)
          /\ slot'  = GrabbedSlot(moved, slots, v, s)
    /\ accessible' = (accessible \ {victim}) \cup {v}
    /\ misfiled' = (misfiled \/ Misfiles(v, v) \/ Misfiles(victim, v))

-----------------------------------------------------------------------------
(***************************************************************************)
(* pageFaultHandler, for a fault of the running thread on page v.  Its     *)
(* cases exclude each other, in the order of the code.                     *)
(***************************************************************************)
Mine(nodes, v)  == {f \in DOMAIN nodes : nodes[f].threadid = currThread
                                          /\ nodes[f].retAddr = v}
FreeIn(nodes)   == {f \in DOMAIN nodes : nodes[f].threadid = Free}
InPlace(v)      == frame[v].threadid = currThread /\ frame[v].retAddr = AtHome
NeedsFresh(v)   == ~InPlace(v) /\ Mine(frame, v) = {} /\ Mine(slot, v) = {}

(* myallocate reads and writes the head of the thread's list, in page 0,   *)
(* before anything else can use a page of the thread.                      *)
Uses(v)   == v < pages[currThread] /\ (v = 0 \/ 0 \in touched[currThread])
Faults(v) == Uses(v) /\ v \notin accessible

(* The page is where it belongs, only protected.                           *)
Unprotect(v) ==
  /\ Faults(v) /\ InPlace(v)
  /\ frame' = [frame EXCEPT ![v].ref = TRUE]
  /\ accessible' = accessible \cup {v}
  /\ UNCHANGED << slot, hand, misfiled >>

(* It is in another frame.                                                 *)
BringBack(v) ==
  /\ Faults(v) /\ ~InPlace(v) /\ Mine(frame, v) # {}
  /\ LET g == Min(Mine(frame, v))
     IN /\ frame' = swapPage([frame EXCEPT ![g].ref = TRUE], v, g, FALSE)
        /\ accessible' = (accessible \ {g}) \cup {v}
  /\ misfiled' = (misfiled \/ Misfiles(v, v))
  /\ UNCHANGED << slot, hand >>

(* It is in the swap file.                                                 *)
SwapIn(v) ==
  /\ Faults(v) /\ ~InPlace(v) /\ Mine(frame, v) = {} /\ Mine(slot, v) # {}
  /\ EvictFor(v, Min(Mine(slot, v)), slot)

(* The page is new and its frame is free: the node keeps its retAddr.      *)
TakeFree(v) ==
  /\ Faults(v) /\ NeedsFresh(v) /\ frame[v].threadid = Free
  /\ frame' = [frame EXCEPT ![v].threadid = currThread, ![v].ref = TRUE]
  /\ accessible' = accessible \cup {v}
  /\ misfiled' = (misfiled \/ frame[v].retAddr # AtHome)
  /\ UNCHANGED << slot, hand >>

(* The page is new, its frame is taken, another one is free.               *)
Displace(v) ==
  /\ Faults(v) /\ NeedsFresh(v) /\ frame[v].threadid # Free /\ FreeIn(frame) # {}
  /\ LET g == Min(FreeIn(frame))
     IN /\ frame' = swapPage([frame EXCEPT ![g].threadid = currThread, ![g].ref = TRUE],
                             v, g, FALSE)
        /\ accessible' = (accessible \ {g}) \cup {v}
  /\ misfiled' = (misfiled \/ Misfiles(v, v))
  /\ UNCHANGED << slot, hand >>

(* No frame is free: a page goes to the swap file.                         *)
SwapOut(v) ==
  /\ Faults(v) /\ NeedsFresh(v) /\ FreeIn(frame) = {} /\ FreeIn(slot) # {}
  /\ LET s == Min(FreeIn(slot))
     IN EvictFor(v, s, [slot EXCEPT ![s].threadid = currThread])

(* Nothing is free anywhere: the handler returns and the access faults     *)
(* again.                                                                  *)
NoRoom(v) ==
  /\ Faults(v) /\ NeedsFresh(v) /\ FreeIn(frame) = {} /\ FreeIn(slot) = {}
  /\ \E victim \in Frame, refs \in SUBSET Frame :
       /\ << victim, refs >> = Sweep[hand, Referenced]
       /\ hand' = After(victim) /\ frame' = Swept(refs)
  /\ UNCHANGED << slot, accessible, misfiled >>

pageFaultHandler(v) ==
  /\ \/ Unprotect(v) \/ BringBack(v) \/ SwapIn(v)
     \/ TakeFree(v) \/ Displace(v) \/ SwapOut(v) \/ NoRoom(v)
  /\ UNCHANGED << currThread, alive, pages, pagesLeft, touched, most, skipped >>

(* The access itself, when the frame is open: whoever's page is there.     *)
Touch(v) ==
  /\ Uses(v) /\ v \in accessible
  /\ frame' = [frame EXCEPT ![v].data = [of |-> currThread, page |-> v]]
  /\ touched' = [touched EXCEPT ![currThread] = @ \cup {v}]
  /\ UNCHANGED << currThread, alive, slot, accessible, hand, pages, pagesLeft,
                  most, misfiled, skipped >>

-----------------------------------------------------------------------------
(***************************************************************************)
(* protectPages and its callers.                                           *)
(***************************************************************************)
(* The walk ends at the first free frame.                                  *)
Walked == {f \in Frame : \A g \in 0..f : frame[g].threadid # Free}
Owned(t) == {f \in Frame : frame[f].threadid = t}

(* Faulty: frames are handed over as they are, unprotected.                *)
protectNothing(t) ==
  /\ skipped' = skipped
  /\ UNCHANGED << slot, hand, misfiled, frame, accessible >>

protectPages(t) ==
  /\ accessible' = accessible \ (Walked \cap Owned(t))
  /\ skipped' = (skipped \/ (Owned(t) \cap accessible) \ Walked # {})
  /\ UNCHANGED << slot, hand, misfiled, frame >>

(* Faulty: one page more than the thread was granted is given back.        *)
ReleaseOneTooMany(t) ==
  LET gone == Walked \cap Owned(t)
  IN /\ frame' = [f \in Frame |->
                    IF f \in gone THEN Node(Free, AtHome, frame[f].ref, Blank)
                    ELSE frame[f]]
     /\ accessible' = accessible \ gone
     /\ skipped' = (skipped \/ (Owned(t) \cap accessible) \ Walked # {})
     /\ pagesLeft' = pagesLeft + pages[t] + 1
     /\ pages' = [pages EXCEPT ![t] = 0]
     /\ UNCHANGED << slot, hand, misfiled >>

(* protectPages with exiting = 1: the pages are zeroed and freed.  What    *)
(* lies behind a free frame, or in the swap file, is not.                  *)
ReleasePages(t) ==
  LET gone == Walked \cap Owned(t)
  IN /\ frame' = [f \in Frame |->
                    IF f \in gone THEN Node(Free, AtHome, frame[f].ref, Blank)
                    ELSE frame[f]]
     /\ accessible' = accessible \ gone
     /\ skipped' = (skipped \/ (Owned(t) \cap accessible) \ Walked # {})
     /\ pagesLeft' = pagesLeft + pages[t]
     /\ pages' = [pages EXCEPT ![t] = 0]
     /\ UNCHANGED << slot, hand, misfiled >>

(* The scheduler takes the processor from the running thread.              *)
Switch(t) ==
  /\ t \in alive \ {currThread}
  /\ currThread' = t
  /\ protectPages(currThread)
  /\ UNCHANGED << alive, pages, pagesLeft, touched, most >>

(* The running thread has exited.                                          *)
SwitchFromExited(t) ==
  /\ t \in alive \ {currThread}
  /\ currThread' = t
  /\ alive' = alive \ {currThread}
  /\ ReleasePages(currThread)
  /\ UNCHANGED << touched, most >>

(* The library allocates on behalf of the running thread.                  *)
LibraryCall ==
  /\ protectPages(currThread)
  /\ UNCHANGED << currThread, alive, pages, pagesLeft, touched, most >>

(* Faulty: pages are counted without asking whether any are left.         *)
GrantUnchecked(n) ==
  /\ pages[currThread] + n <= MaxPages
  /\ pagesLeft' = Max({0, pagesLeft - n})
  /\ pages' = [pages EXCEPT ![currThread] = @ + n]
  /\ most' = Max({most, pages[currThread] + n})
  /\ UNCHANGED << currThread, alive, table, touched, misfiled, skipped >>

(* myallocate counts n more pages for the running thread.                  *)
Grant(n) ==
  /\ pages[currThread] + n <= MaxPages
  /\ pagesLeft - n >= 0
  /\ pagesLeft' = pagesLeft - n
  /\ pages' = [pages EXCEPT ![currThread] = @ + n]
  /\ most' = Max({most, pages[currThread] + n})
  /\ UNCHANGED << currThread, alive, table, touched, misfiled, skipped >>

Next ==
  \/ \E v \in Page : pageFaultHandler(v) \/ Touch(v)
  \/ \E t \in Thread : Switch(t) \/ SwitchFromExited(t)
  \/ LibraryCall
  \/ \E n \in 1..MaxPages : Grant(n)

Spec == Init /\ [][Next]_vars

-----------------------------------------------------------------------------
(***************************************************************************)
(* Properties.                                                             *)
(***************************************************************************)
NodeType(homes) ==
  [threadid : Thread \cup {Free}, retAddr : homes, ref : BOOLEAN,
   data : Written \cup Unwritten]

(* Type correctness of the page table and of the counters.                 *)
TypeOK ==
  /\ currThread \in alive /\ alive \subseteq Thread
  /\ frame \in [Frame -> NodeType(Frame \cup {AtHome})]
  /\ slot \in [Slot -> NodeType(Frame \cup {AtHome})]
  /\ accessible \subseteq Frame /\ hand \in Frame
  /\ pages \in [Thread -> 0..MaxPages] /\ pagesLeft \in 0..TotalPages
  /\ touched \in [Thread -> SUBSET Page] /\ most \in 0..MaxPages
  /\ misfiled \in BOOLEAN /\ skipped \in BOOLEAN

(* The places where the handler would look for page v of thread t, and the *)
(* places that hold what t wrote there.                                    *)
FiledIn(t, v) ==
  {<< "frame", f >> : f \in {g \in Frame : frame[g].threadid = t /\ Home(frame, g) = v}}
    \cup {<< "slot", s >> : s \in {r \in Slot : slot[r].threadid = t /\ slot[r].retAddr = v}}
HeldIn(t, v) ==
  {<< "frame", f >> : f \in {g \in Frame : frame[g].data = [of |-> t, page |-> v]}}
    \cup {<< "slot", s >> : s \in {r \in Slot : slot[r].data = [of |-> t, page |-> v]}}

(* What a thread has written to a page is in exactly one place, and that   *)
(* is the one place where the fault handler will look for it.              *)
PagesKept ==
  \A t \in alive : \A v \in touched[t] :
    \E place \in HeldIn(t, v) : HeldIn(t, v) = {place} /\ FiledIn(t, v) = {place}

(* The handler loses no page as long as it never puts away a page under a  *)
(* home that is not its own, and protectPages protects every open page.    *)
NoPageLost == ~misfiled /\ ~skipped => PagesKept

(* A frame that is open to the running thread is in its place and holds    *)
(* what that thread wrote to this page, or a page that nobody wrote, as    *)
(* long as no page was misfiled and none left open by protectPages         *)
(* (totalrecall.c:189-336, 431-460).  Nothing is said of what the second   *)
(* reads as: behind the end of the swap file it is what a buffer on the    *)
(* stack held.                                                             *)
Isolated ==
  ~misfiled /\ ~skipped =>
    \A f \in accessible :
      InPlace(f) /\ frame[f].data \in Unwritten \cup {[of |-> currThread, page |-> f]}

(* While no thread has more than its first page, none of this goes wrong,  *)
(* though there are more threads than frames: pages are displaced, evicted *)
(* and swapped in, and all of them are kept.                               *)
OnePageEach == most <= 1 => ~misfiled /\ ~skipped /\ PagesKept

(* A page that myallocate has counted for a thread can be had, unless a    *)
(* page was misfiled or one that an exited thread left behind is in the    *)
(* way: then the handler returns and the access faults for ever.           *)
GrantedPagesExist ==
  /\ ~misfiled
  /\ \A f \in Frame : frame[f].threadid \in alive \cup {Free}
  /\ \A s \in Slot : slot[s].threadid \in alive \cup {Free}
  => \A v \in Page : Faults(v) /\ NeedsFresh(v) => FreeIn(frame) # {} \/ FreeIn(slot) # {}
=============================================================================
