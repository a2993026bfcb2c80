-------------------------------- MODULE Mutex --------------------------------
(***************************************************************************)
(* The mutex of the thread library (src/Pthreads/my_pthread.c:613-660) and *)
(* the one place where the library itself relies on it: my_pthread_create  *)
(* gives a new thread its id under thread_count_mtx (lines 89-95).         *)
(*                                                                         *)
(* SIGALRM can take the processor from a thread between any two            *)
(* instructions, so each action is one access to shared memory, and the    *)
(* threads interleave.  my_pthread_yield in the loop of lock only lets     *)
(* others run.                                                             *)
(***************************************************************************)
EXTENDS Integers

CONSTANTS
  Worker,          \* threads that lock, give an id and unlock
  Manager,         \* the thread that may initialise and destroy, or none
  StaleDestroyed,  \* TRUE: destroyed is what malloc left.  my_pthread_create
                   \* sets only flag (lines 41-43), it calls no init
  IgnoreErrors,    \* TRUE: the caller goes on when lock returns an error, as
                   \* my_pthread_create does; FALSE: it does not
  MaxId            \* no worker starts when this id has been given

ASSUME MutexAssumption ==
  /\ Worker \cap Manager = {}
  /\ \A m, n \in Manager : m = n
  /\ StaleDestroyed \in BOOLEAN /\ IgnoreErrors \in BOOLEAN
  /\ MaxId \in Nat

Caller == Worker \cup Manager

Ok     == 0
EBUSY  == 16
EINVAL == 22

(* Where a worker is: calling lock, in its critical section (the four      *)
(* accesses of lines 91-93), calling unlock.                               *)
Critical  == {"id", "handle", "read", "write"}
Unlocking == {"unlock", "clear"}
Labels    == {"idle", "tas", "away", "fresh", "free", "set", "dead"}
               \cup Critical \cup Unlocking

VARIABLES
  flag,           \* mutex->flag
  destroyed,      \* mutex->destroyed
  pc,             \* where each caller is
  holds,          \* the workers whose lock succeeded and who have not unlocked
  result,         \* what the last call of each caller returned
  thread_count1,  \* the shared counter
  local,          \* the register of thread_count1++
  id, handle,     \* newBlock->thread_id and *thread of the last create
  issued          \* the ids that have been given

vars == << flag, destroyed, pc, holds, result, thread_count1, local, id, handle,
           issued >>
mutex == << flag, destroyed >>
ids   == << thread_count1, local, id, handle, issued >>

(* The manager is "away" if nobody initialises or destroys this mutex, as  *)
(* nobody does with thread_count_mtx.                                      *)
Init ==
  /\ flag = 0
  /\ destroyed \in (IF StaleDestroyed THEN {0, 1} ELSE {0})
  /\ \E start \in {"fresh", "away"} :
       pc = [c \in Caller |-> IF c \in Manager THEN start ELSE "idle"]
  /\ holds = {}
  /\ result = [c \in Caller |-> Ok]
  /\ thread_count1 = 2
  /\ local = [w \in Worker |-> 0]
  /\ id = [w \in Worker |-> 0]
  /\ handle = [w \in Worker |-> 0]
  /\ issued = {}

Goto(c, label)      == pc' = [pc EXCEPT ![c] = label]
Return(c, r, label) == result' = [result EXCEPT ![c] = r] /\ Goto(c, label)

-----------------------------------------------------------------------------
(***************************************************************************)
(* my_pthread_mutex_lock                                                   *)
(***************************************************************************)
LockCheck(w) ==
  /\ pc[w] = "idle"
  /\ thread_count1 <= MaxId
  /\ \A m \in Manager : pc[m] # "fresh"  \* nobody locks before the first init
  /\ \/ /\ destroyed = 1
        /\ Return(w, EINVAL, IF IgnoreErrors THEN "id" ELSE "idle")
     \/ destroyed # 1 /\ Goto(w, "tas") /\ UNCHANGED result
  /\ UNCHANGED << mutex, holds, ids >>

(* Faulty: the old value of the flag is not looked at.                     *)
LockBySetting(w) ==
  /\ pc[w] = "tas"
  /\ flag' = 1
  /\ Return(w, Ok, "id") /\ holds' = holds \cup {w}
  /\ UNCHANGED << destroyed, ids >>

LockTestAndSet(w) ==
  /\ pc[w] = "tas"
  /\ flag' = 1
  /\ \/ flag = 0 /\ Return(w, Ok, "id") /\ holds' = holds \cup {w}
     \/ flag = 1 /\ UNCHANGED << pc, result, holds >>
  /\ UNCHANGED << destroyed, ids >>

(***************************************************************************)
(* The critical section of my_pthread_create.                              *)
(***************************************************************************)
AssignId(w) ==
  /\ pc[w] = "id"
  /\ id' = [id EXCEPT ![w] = thread_count1]
  /\ issued' = issued \cup {thread_count1}
  /\ Goto(w, "handle")
  /\ UNCHANGED << mutex, holds, result, thread_count1, local, handle >>

AssignHandle(w) ==
  /\ pc[w] = "handle"
  /\ handle' = [handle EXCEPT ![w] = thread_count1]
  /\ Goto(w, "read")
  /\ UNCHANGED << mutex, holds, result, thread_count1, local, id, issued >>

(* Faulty: the counter is handed on before it is written back.             *)
ReadCountAfterUnlock(w) ==
  /\ pc[w] = "read"
  /\ local' = [local EXCEPT ![w] = thread_count1]
  /\ flag' = 0
  /\ Goto(w, "write")
  /\ UNCHANGED << destroyed, holds, result, thread_count1, id, handle, issued >>

ReadCount(w) ==
  /\ pc[w] = "read"
  /\ local' = [local EXCEPT ![w] = thread_count1]
  /\ Goto(w, "write")
  /\ UNCHANGED << mutex, holds, result, thread_count1, id, handle, issued >>

WriteCount(w) ==
  /\ pc[w] = "write"
  /\ thread_count1' = local[w] + 1
  /\ Goto(w, "unlock")
  /\ UNCHANGED << mutex, holds, result, local, id, handle, issued >>

(***************************************************************************)
(* my_pthread_mutex_unlock: on a destroyed mutex it leaves the flag alone. *)
(***************************************************************************)
UnlockCheck(w) ==
  /\ pc[w] = "unlock"
  /\ \/ destroyed = 1 /\ Return(w, EINVAL, "idle") /\ holds' = holds \ {w}
     \/ destroyed # 1 /\ Goto(w, "clear") /\ UNCHANGED << result, holds >>
  /\ UNCHANGED << mutex, ids >>

(* Faulty: unlock sets the flag.                                           *)
UnlockSetting(w) ==
  /\ pc[w] = "clear"
  /\ flag' = 1
  /\ holds' = holds \ {w}
  /\ Return(w, Ok, "idle")
  /\ UNCHANGED << destroyed, ids >>

UnlockClear(w) ==
  /\ pc[w] = "clear"
  /\ flag' = 0
  /\ holds' = holds \ {w}
  /\ Return(w, Ok, "idle")
  /\ UNCHANGED << destroyed, ids >>

(***************************************************************************)
(* my_pthread_mutex_init, called once before the mutex is used and again   *)
(* only after a destroy.                                                   *)
(***************************************************************************)
(* Faulty: init resets both fields, as its documentation suggests.         *)
InitMutexWhole(m) ==
  /\ pc[m] \in {"fresh", "dead"}
  /\ flag' = 0 /\ destroyed' = 0
  /\ Return(m, Ok, "free")
  /\ UNCHANGED << holds, ids >>

InitMutex(m) ==
  /\ pc[m] \in {"fresh", "dead"}
  /\ \/ destroyed = 1 /\ destroyed' = 0 /\ UNCHANGED flag
     \/ destroyed # 1 /\ flag' = 0 /\ UNCHANGED destroyed
  /\ Return(m, Ok, "free")
  /\ UNCHANGED << holds, ids >>

(***************************************************************************)
(* my_pthread_mutex_destroy: the flag is read, then destroyed is set.      *)
(***************************************************************************)
DestroyCheck(m) ==
  /\ pc[m] = "free"
  /\ \/ flag = 0 /\ Goto(m, "set") /\ UNCHANGED result
     \/ flag # 0 /\ Return(m, EBUSY, "free")
  /\ UNCHANGED << mutex, holds, ids >>

DestroySet(m) ==
  /\ pc[m] = "set"
  /\ destroyed' = 1
  /\ Return(m, Ok, "dead")
  /\ UNCHANGED << flag, holds, ids >>

-----------------------------------------------------------------------------
(* What a worker does once it has called lock.                             *)
Step(w) ==
  \/ LockTestAndSet(w)
  \/ AssignId(w) \/ AssignHandle(w) \/ ReadCount(w) \/ WriteCount(w)
  \/ UnlockCheck(w) \/ UnlockClear(w)

Manage(m) == InitMutex(m) \/ DestroyCheck(m) \/ DestroySet(m)

Next ==
  \/ \E w \in Worker : LockCheck(w) \/ Step(w)
  \/ \E m \in Manager : Manage(m)

Spec == Init /\ [][Next]_vars

(* Every thread gets the processor again (Scheduler, NoStarvation).        *)
FairSpec == Spec /\ \A w \in Worker : WF_vars(Step(w))

-----------------------------------------------------------------------------
(* Every variable has its type.                                            *)
TypeOK ==
  /\ flag \in {0, 1} /\ destroyed \in {0, 1}
  /\ pc \in [Caller -> Labels]
  /\ holds \subseteq Worker
  /\ result \in [Caller -> {Ok, EBUSY, EINVAL}]
  /\ thread_count1 \in Nat /\ local \in [Worker -> Nat]
  /\ id \in [Worker -> Nat] /\ handle \in [Worker -> Nat]
  /\ issued \subseteq Nat

(***************************************************************************)
(* At most one worker is between a successful lock and its unlock, however *)
(* the calls interleave with each other and with a destroy and a new init  *)
(* (my_pthread.c:625-645).                                                 *)
(***************************************************************************)
MutualExclusion ==
  /\ \A v, w \in holds : v = w
  /\ \A w \in Worker : pc[w] \in Critical => w \in holds

(***************************************************************************)
(* No id is given twice, so no thread is joined or searched for under the  *)
(* id of another (my_pthread.c:89, "update to count should be without      *)
(* interrupts").                                                           *)
(***************************************************************************)
UniqueIds == [][\A w \in Worker : AssignId(w) => thread_count1 \notin issued]_vars

(* The handle that the caller of create gets is the id of its new thread.  *)
HandleIsId == \A w \in Worker : pc[w] \in {"unlock", "clear"} => handle[w] = id[w]

(***************************************************************************)
(* A mutex that is never destroyed does not stay locked for ever, however  *)
(* often it is taken: the loop of lock ends (my_pthread.c:630-632).        *)
(***************************************************************************)
Unmanaged == \A m \in Manager : pc[m] = "away"
Released  == (Unmanaged /\ flag = 1) ~> (flag = 0)

(***************************************************************************)
(* Why.  A holder has set the flag, and only a holder clears it: a destroy *)
(* leaves the flag alone, even one that overtakes a lock, and so does the  *)
(* init of a destroyed mutex.  The last id that was given is the counter's *)
(* value exactly while its holder has not written the counter back.        *)
(***************************************************************************)
MutexInv ==
  /\ TypeOK
  /\ MutualExclusion
  /\ holds # {} => flag = 1
  /\ \A w \in Worker : pc[w] \in Unlocking => w \in holds
  /\ \A m \in Manager : pc[m] = "fresh" => holds = {} /\ \A w \in Worker : pc[w] = "idle"
  /\ \A m \in Manager : pc[m] \in {"free", "set"} => destroyed = 0
  /\ \A m \in Manager : pc[m] = "dead" => destroyed = 1
  /\ IgnoreErrors => destroyed = 0
  /\ \A i \in issued :
       \/ i < thread_count1
       \/ i = thread_count1 /\ \E w \in Worker : pc[w] \in {"handle", "read", "write"}
  /\ \A w \in Worker : pc[w] \in {"handle", "read", "write"} => id[w] = thread_count1
  /\ \A w \in Worker : pc[w] \in {"read", "write"} => handle[w] = id[w]
  /\ \A w \in Worker : pc[w] = "write" => local[w] = thread_count1
  /\ HandleIsId

=============================================================================
