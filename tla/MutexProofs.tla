----------------------------- MODULE MutexProofs -----------------------------
(***************************************************************************)
(* MutexInv holds for any number of workers and any number of ids, and     *)
(* with it mutual exclusion and the uniqueness of ids, whatever destroyed  *)
(* starts as, if callers heed the error of lock.  my_pthread_create does   *)
(* not: its thread_count_mtx, which nobody initialises or destroys, needs  *)
(* that malloc has not left destroyed = 1 (lines 41-44, 90).               *)
(***************************************************************************)
EXTENDS Mutex, TLAPS

Contract  == IgnoreErrors => Manager = {}
GoodStart == IgnoreErrors => destroyed # 1

(* A caller that goes on when lock fails has a mutex that is not destroyed. *)
LEMMA ErrorsAreHeeded ==
  ASSUME MutexInv, destroyed = 1
  PROVE  ~IgnoreErrors
BY DEF MutexInv

(* The initial states: whatever malloc left, or what init will make of it. *)
LEMMA MutexInitially ==
  ASSUME Contract, Init, GoodStart
  PROVE  MutexInv
<1>1. TypeOK
  BY DEF Contract, Init, TypeOK, Caller, Labels, Ok
<1>2. /\ holds = {} /\ issued = {} /\ (IgnoreErrors => destroyed = 0)
      /\ \A w \in Worker : pc[w] = "idle"
      /\ \A m \in Manager : pc[m] \in {"fresh", "away"}
  BY MutexAssumption DEF GoodStart, Init, Caller
<1>. QED
  BY <1>1, <1>2 DEF MutexInv, MutualExclusion, HandleIsId, Critical, Unlocking

(* Lines 625-635, lock: the flag goes to one worker.                       *)
LEMMA LockKeepsInv ==
  ASSUME Contract, MutexInv, NEW w \in Worker, LockCheck(w) \/ LockTestAndSet(w)
  PROVE  MutexInv'
<1>. USE MutexAssumption DEF MutexInv, TypeOK, MutualExclusion, HandleIsId,
         Unmanaged, Return, Goto, mutex, ids, Caller, Labels, Critical, Unlocking
<1>1. CASE LockCheck(w)
  BY <1>1, ErrorsAreHeeded DEF LockCheck, Ok, EBUSY, EINVAL
<1>2. CASE LockTestAndSet(w)
  BY <1>2 DEF LockTestAndSet, Ok, EBUSY, EINVAL
<1>. QED
  BY <1>1, <1>2

(***************************************************************************)
(* Lines 91-93, the critical section: while a worker is in it the counter  *)
(* is its own.                                                             *)
(***************************************************************************)
LEMMA CriticalKeepsInv ==
  ASSUME Contract, MutexInv, NEW w \in Worker,
         AssignId(w) \/ AssignHandle(w) \/ ReadCount(w) \/ WriteCount(w)
  PROVE  MutexInv'
<1>. USE MutexAssumption DEF MutexInv, TypeOK, MutualExclusion, HandleIsId,
         Unmanaged, Return, Goto, mutex, ids, Caller, Labels, Critical, Unlocking
<1>1. CASE AssignId(w)
  BY <1>1 DEF AssignId
<1>2. CASE AssignHandle(w)
  BY <1>2 DEF AssignHandle
<1>3. CASE ReadCount(w)
  BY <1>3 DEF ReadCount
<1>4. CASE WriteCount(w)
  BY <1>4 DEF WriteCount
<1>. QED
  BY <1>1, <1>2, <1>3, <1>4

(* Lines 638-645, unlock: only the holder gets here.                       *)
LEMMA UnlockKeepsInv ==
  ASSUME Contract, MutexInv, NEW w \in Worker, UnlockCheck(w) \/ UnlockClear(w)
  PROVE  MutexInv'
<1>. USE MutexAssumption DEF MutexInv, TypeOK, MutualExclusion, HandleIsId,
         Unmanaged, Return, Goto, mutex, ids, Caller, Labels, Critical, Unlocking
<1>1. CASE UnlockCheck(w)
  BY <1>1 DEF UnlockCheck, Ok, EBUSY, EINVAL
<1>2. CASE UnlockClear(w)
  BY <1>2 DEF UnlockClear, Ok, EBUSY, EINVAL
<1>. QED
  BY <1>1, <1>2

(* Lines 614-622 and 648-660, init and destroy.                            *)
LEMMA ManageKeepsInv ==
  ASSUME Contract, MutexInv, NEW m \in Manager, Manage(m)
  PROVE  MutexInv'
<1>. USE MutexAssumption DEF MutexInv, TypeOK, MutualExclusion, HandleIsId,
         Unmanaged, Return, Goto, mutex, ids, Caller, Labels, Critical, Unlocking
<1>1. CASE InitMutex(m)
  BY <1>1 DEF InitMutex, Ok, EBUSY, EINVAL
<1>2. CASE DestroyCheck(m)
  BY <1>2 DEF DestroyCheck, Ok, EBUSY, EINVAL
<1>3. CASE DestroySet(m)
  BY <1>3 DEF DestroySet, Contract, Ok, EBUSY, EINVAL
<1>. QED
  BY <1>1, <1>2, <1>3 DEF Manage

(* Every step, and a step that changes nothing.                            *)
LEMMA NextKeepsMutexInv ==
  ASSUME Contract, MutexInv, [Next]_vars
  PROVE  MutexInv'
<1>1. CASE UNCHANGED vars
  BY <1>1 DEF vars, MutexInv, TypeOK, MutualExclusion, HandleIsId, Unmanaged
<1>2. CASE Next
  BY <1>2, LockKeepsInv, CriticalKeepsInv, UnlockKeepsInv, ManageKeepsInv
  DEF Next, Step
<1>. QED
  BY <1>1, <1>2

(***************************************************************************)
(* Whatever the calls of lock, unlock, init and destroy do to each other   *)
(* (lines 614-660), the strengthened invariant holds.                      *)
(***************************************************************************)
THEOREM MutexInvariant ==
  ASSUME Contract
  PROVE  Spec /\ GoodStart => []MutexInv
<1>1. Init /\ GoodStart => MutexInv
  BY MutexInitially
<1>2. MutexInv /\ [Next]_vars => MutexInv'
  BY NextKeepsMutexInv
<1>. QED
  BY <1>1, <1>2, PTL DEF Spec

(***************************************************************************)
(* At most one worker holds the mutex (lines 625-645).  A caller that goes *)
(* on when lock has failed must not find destroyed = 1.                    *)
(***************************************************************************)
THEOREM MutualExclusionHolds ==
  ASSUME Contract
  PROVE  Spec /\ GoodStart => []MutualExclusion
<1>1. MutexInv => MutualExclusion
  BY DEF MutexInv
<1>. QED
  BY <1>1, MutexInvariant, PTL

(***************************************************************************)
(* The handle that create returns is the id of the thread (lines 91-92),   *)
(* unless malloc has left destroyed = 1 in thread_count_mtx, which nothing *)
(* initialises (lines 41-44), and whose failing lock goes unseen (90).     *)
(***************************************************************************)
THEOREM HandlesAreIds ==
  ASSUME Contract
  PROVE  Spec /\ GoodStart => []HandleIsId
<1>1. MutexInv => HandleIsId
  BY DEF MutexInv
<1>. QED
  BY <1>1, MutexInvariant, PTL

(***************************************************************************)
(* No id is given twice (lines 89-95): when a worker assigns one, nobody   *)
(* is between an assignment and the write of the counter, so all that have *)
(* been given are below it.  The exception is again destroyed = 1 left by  *)
(* malloc in thread_count_mtx: then nobody is kept out.                    *)
(***************************************************************************)
THEOREM IdsAreUnique ==
  ASSUME Contract
  PROVE  Spec /\ GoodStart => UniqueIds
<1>1. ASSUME MutexInv, NEW w \in Worker, AssignId(w)
      PROVE  thread_count1 \notin issued
  <2>1. /\ pc[w] = "id"
        /\ \A v \in Worker : pc[v] \in Critical => v = w
    BY <1>1 DEF AssignId, MutexInv, MutualExclusion, Critical
  <2>2. \A v \in Worker : pc[v] \notin {"handle", "read", "write"}
    BY <2>1 DEF Critical
  <2>3. \A i \in issued : i < thread_count1
    BY <1>1, <2>2 DEF MutexInv
  <2>. QED
    BY <1>1, <2>3 DEF MutexInv, TypeOK
<1>2. MutexInv /\ [Next]_vars => [\A w \in Worker : AssignId(w) => thread_count1 \notin issued]_vars
  BY <1>1
<1>. QED
  BY <1>2, MutexInvariant, PTL DEF Spec, UniqueIds
=============================================================================
