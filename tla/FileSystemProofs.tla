--------------------------- MODULE FileSystemProofs ---------------------------
(***************************************************************************)
(* While the file system is mounted and after an unmount or a crash, an    *)
(* entry of the root is the number of an inode that is marked as used and  *)
(* nothing on the disk has two owners; while it is mounted, the entries of *)
(* the root are the files whose create has returned or is about to.  That  *)
(* is for any number of callers and any sizes of the maps and blocks, as   *)
(* long as no block was written back over a change and, for the created    *)
(* files, no inode over another one.                                       *)
(***************************************************************************)
EXTENDS FileSystem, TLAPS, FiniteSetTheorems, WellFoundedInduction

(* Where a call of sfs_create is past MarkInode.                           *)
PastMark == {"data", "markData", "writeDir", "writeInode"}
Label    == {"idle", "hung", "inode", "markInode", "setOpen", "setClosed"} \cup PastMark

CallType ==
  [pc : Label, name : Name \cup {<< >>}, dir : InodeType, map : SUBSET (Inumb \cup Datum),
   inumb : Inumb \cup {None}, data : Datum \cup {None}]

FSType ==
  /\ imap \subseteq Inumb /\ dmap \subseteq Datum
  /\ inodeAt \in [Group -> InodeType]
  /\ numOccupiedInodeBytemap \in Nat
  /\ phase \in {"down", "format", "torn", "up"}
  /\ call \in [Caller -> CallType]
  /\ created \subseteq Inumb /\ overwritten \in BOOLEAN /\ raced \in BOOLEAN

(* What the locals of a call say.                                          *)
Locals ==
  \A c \in Caller :
    /\ phase # "up" => call[c].pc = "idle"
    /\ call[c].pc \in {"inode", "markInode"} \cup PastMark => call[c].name \in Name
    /\ call[c].pc \in {"markInode"} \cup PastMark => call[c].inumb \in Inumb
    /\ call[c].pc = "markInode" => /\ call[c].inumb \notin call[c].map
                                   /\ call[c].map \subseteq Inumb
    /\ call[c].pc = "markData" => call[c].map \subseteq Datum
    /\ call[c].pc \in {"markData", "writeDir", "writeInode"} => call[c].data \in Datum

(* The counter stays below the bytes in use: the byte of the root is not   *)
(* counted.                                                                *)
CounterBehind == ~raced /\ phase = "up" => numOccupiedInodeBytemap < Cardinality(imap)

(* EntriesAllocated is kept because a call puts a number into the root only*)
(* after it has marked it.                                                 *)
BaseInv ==
  /\ FSType /\ Locals
  /\ ~raced /\ phase # "down" => 0 \in imap
  /\ EntriesAllocated
  /\ ~raced => \A c \in Caller : call[c].pc \in PastMark => call[c].inumb \in imap
  /\ CounterBehind

(* A call of sfs_create has seen a free entry of the root, and the data    *)
(* block it is about to mark was free in the block it read.                *)
Reserved ==
  \A c \in Caller :
    /\ call[c].pc \in {"inode", "markInode"} \cup PastMark => FreeSlots(call[c].dir) # {}
    /\ call[c].pc = "markData" => call[c].data \notin call[c].map

(* Calls that have marked a number that the root does not name yet, and    *)
(* calls that have marked a data block that no inode names yet.            *)
Unlisted == {"data", "markData", "writeDir"}
Holding  == {"writeDir", "writeInode"}

DistinctEntries ==
  \A i, j \in Entry :
    inodeAt[0].block_ptr[i] = inodeAt[0].block_ptr[j] =>
      i = j \/ inodeAt[0].block_ptr[i] = None

(* OneOwner, with the calls under way among the owners: the number of an   *)
(* unlisted call is in no entry and no other call has it, and so for the   *)
(* data blocks.                                                            *)
NumberOwners ==
  /\ IsDir => /\ DistinctEntries
              /\ \A c \in Caller : call[c].pc \in Unlisted => call[c].inumb \notin Entries
  /\ \A b, c \in Caller :
       call[b].pc \in Unlisted /\ call[c].pc \in Unlisted /\ call[b].inumb = call[c].inumb
       => b = c

DataOwners ==
  /\ \A g \in Files : inodeAt[g].block_ptr[0] \in dmap
  /\ \A g, h \in Files : inodeAt[g].block_ptr[0] = inodeAt[h].block_ptr[0] => g = h
  /\ \A c \in Caller : call[c].pc \in Holding =>
       call[c].data \in dmap /\ \A g \in Files : inodeAt[g].block_ptr[0] # call[c].data
  /\ \A b, c \in Caller :
       call[b].pc \in Holding /\ call[c].pc \in Holding /\ call[b].data = call[c].data
       => b = c

(* CreatedExists and its converse, with the calls that are about to write  *)
(* their inode.                                                            *)
Writing(n) == \E c \in Caller : call[c].pc = "writeInode" /\ call[c].inumb = n

Kept ==
  phase = "up" =>
    /\ \A c \in Caller : call[c].pc = "writeInode" => call[c].inumb \in Entries
    /\ \A n \in created : n \in Entries /\ inodeAt[n \div PerBlock].uid = n
    /\ \A n \in Entries : n \in created \/ Writing(n)

FSInv ==
  /\ BaseInv /\ Reserved
  /\ ~raced => NumberOwners /\ DataOwners
  /\ ~raced /\ ~overwritten => Kept

-----------------------------------------------------------------------------
(* Numbers of inodes and blocks.                                           *)
LEMMA Sizes ==
  /\ 0 \in Inumb /\ 0 \in Datum /\ 0 \in Group /\ None \notin Inumb
  /\ \A n \in Inumb : n \div PerBlock \in Group
  /\ IsFiniteSet(Inumb)
<1>1. 0 \in Inumb /\ 0 \in Datum /\ None \notin Inumb
  BY FileSystemAssumption DEF Inumb, Datum, None
<1>2. \A n \in Inumb : n \div PerBlock \in Group
  BY DEF Group
<1>3. 0 \div PerBlock = 0
  BY FileSystemAssumption
<1>4. IsFiniteSet(Inumb)
  BY FS_Interval, FileSystemAssumption DEF Inumb
<1>. QED
  BY <1>1, <1>2, <1>3, <1>4

(* The first inodes, and a thread of FUSE that does nothing.               *)
LEMMA FirstValues ==
  Zeros \in InodeType /\ FreshRoot \in InodeType /\ Idle \in CallType
<1>1. Zeros \in InodeType /\ FreshRoot \in InodeType
  BY Sizes DEF Zeros, FreshRoot, Inode, InodeType
<1>. QED
  BY <1>1 DEF Idle, CallType, Label, PastMark

(* A disk that has never been used.                                        *)
LEMMA FSInitially == Init => FSInv
<1>. SUFFICES ASSUME Init PROVE FSInv
  OBVIOUS
<1>1. FSType
  BY FirstValues DEF Init, FSType
<1>2. Idle.pc = "idle"
  BY DEF Idle
<1>3. Locals
  BY <1>2 DEF Init, Locals, PastMark
<1>4. BaseInv
  BY <1>1, <1>2, <1>3, Sizes
  DEF Init, BaseInv, EntriesAllocated, IsDir, Zeros, Inode, CounterBehind, PastMark
<1>5. Files = {} /\ ~IsDir
  BY Sizes DEF Init, Files, IsDir, Zeros, Inode
<1>6. \A c \in Caller : call[c].pc = "idle"
  BY <1>2 DEF Init
<1>. QED
  BY <1>4, <1>5, <1>6 DEF Init, FSInv, Reserved, NumberOwners, DataOwners, Kept,
     PastMark, Unlisted, Holding

(* A set that has a member has a size, and a new member makes one more.    *)
LEMMA Larger ==
  ASSUME NEW S, S \subseteq Inumb, NEW n \in Inumb, n \notin S
  PROVE  /\ Cardinality(S) \in Nat
         /\ Cardinality(S \cup {n}) = Cardinality(S) + 1
<1>1. IsFiniteSet(S)
  BY Sizes, FS_Subset
<1>. QED
  BY <1>1, FS_CardinalityType, FS_AddElement

-----------------------------------------------------------------------------
(***************************************************************************)
(* sfs_init and the end of a mount.                                        *)
(***************************************************************************)
LEMMA MountKeepsBase ==
  ASSUME BaseInv, InitMap \/ InitRoot \/ Stop
  PROVE  BaseInv'
<1>1. CASE InitMap
  <2>1. imap' \subseteq Inumb /\ 0 \in imap'
    BY <1>1, Sizes DEF InitMap, BaseInv, FSType, MapBlock
  <2>. QED
    BY <1>1, <2>1 DEF InitMap, BaseInv, FSType, Locals, EntriesAllocated, CounterBehind,
       PastMark
<1>2. CASE InitRoot
  <2>1. FSType'
    BY <1>2, Sizes, FirstValues DEF InitRoot, BaseInv, FSType
  <2>2. inodeAt'[0] = FreshRoot
    BY <1>2, Sizes DEF InitRoot, BaseInv, FSType
  <2>3. Entries' = {}
    BY <2>2 DEF Entries, FreshRoot, Inode
  <2>4. (~raced => 0 \in imap) /\ imap' = imap /\ call' = call /\ phase = "format" /\ phase' = "up"
    BY <1>2 DEF InitRoot, BaseInv
  <2>5. ~raced => Cardinality(imap) \in Nat /\ Cardinality(imap) > 0
    <3>. SUFFICES ASSUME ~raced
                  PROVE  Cardinality(imap) \in Nat /\ Cardinality(imap) > 0
      OBVIOUS
    <3>. DEFINE S == imap \ {0}
    <3>1. imap = S \cup {0} /\ S \subseteq Inumb /\ 0 \notin S
      BY <2>4 DEF BaseInv, FSType
    <3>. HIDE DEF S
    <3>2. Cardinality(S) \in Nat /\ Cardinality(S \cup {0}) = Cardinality(S) + 1
      BY <3>1, Sizes, Larger
    <3>. QED
      BY <3>1, <3>2
  <2>6. numOccupiedInodeBytemap' = 0 /\ raced' = raced
    BY <1>2 DEF InitRoot
  <2>. QED
    BY <2>1, <2>3, <2>4, <2>5, <2>6 DEF BaseInv, Locals, EntriesAllocated, CounterBehind, PastMark
<1>3. CASE Stop
  BY <1>3, FirstValues DEF Stop, BaseInv, FSType, Locals, EntriesAllocated, IsDir,
     Entries, CounterBehind, Idle, PastMark, disk
<1>. QED
  BY <1>1, <1>2, <1>3

(* When the file system is not up, no call is under way.                   *)
LEMMA NoCallsKeepInv ==
  ASSUME BaseInv', \A c \in Caller : call'[c].pc = "idle", UNCHANGED dmap,
         ~raced' => /\ IsDir' => DistinctEntries'
                    /\ DataOwners
                    /\ \A g \in Files' : g \in Files /\ inodeAt'[g] = inodeAt[g],
         phase' = "up" => created' = {} /\ Entries' = {}
  PROVE  FSInv'
<1>1. Reserved'
  BY DEF Reserved, PastMark
<1>2. ~raced' => NumberOwners'
  BY DEF NumberOwners, Unlisted
<1>3. ~raced' => DataOwners'
  BY DEF DataOwners, Holding
<1>4. Kept'
  BY DEF Kept
<1>. QED
  BY <1>1, <1>2, <1>3, <1>4 DEF FSInv

(* Formatting, mounting and stopping: no call is under way afterwards,     *)
(* nothing counts as created since the mount, and a block that a file has  *)
(* keeps its mark.                                                         *)
LEMMA MountKeepsInv ==
  ASSUME FSInv, InitMap \/ InitRoot \/ Stop
  PROVE  FSInv'
<1>1. BaseInv'
  BY MountKeepsBase DEF FSInv
<1>2. ~raced => DataOwners /\ (IsDir => DistinctEntries)
  BY DEF FSInv, NumberOwners
<1>3. CASE InitMap
  <2>1. /\ phase \in {"down", "torn"} /\ phase' = "format"
        /\ UNCHANGED << dmap, inodeAt, call, raced >>
    BY <1>3 DEF InitMap
  <2>2. \A c \in Caller : call'[c].pc = "idle"
    BY <2>1 DEF FSInv, BaseInv, Locals
  <2>. QED
    BY <1>1, <1>2, <2>1, <2>2, NoCallsKeepInv DEF IsDir, DistinctEntries, Files
<1>4. CASE InitRoot
  <2>1. /\ phase = "format" /\ created' = {}
        /\ inodeAt' = [inodeAt EXCEPT ![0] = FreshRoot]
        /\ UNCHANGED << dmap, call, raced >>
    BY <1>4 DEF InitRoot
  <2>2. \A c \in Caller : call'[c].pc = "idle"
    BY <2>1 DEF FSInv, BaseInv, Locals
  <2>3. inodeAt'[0] = FreshRoot /\ \A g \in Group \ {0} : inodeAt'[g] = inodeAt[g]
    BY <2>1, Sizes DEF FSInv, BaseInv, FSType
  <2>4. \A g \in Files' : g \in Files /\ inodeAt'[g] = inodeAt[g]
    BY <2>3 DEF Files, FreshRoot, Inode
  <2>5. DistinctEntries' /\ Entries' = {}
    BY <2>3 DEF DistinctEntries, Entries, FreshRoot, Inode
  <2>. QED
    BY <1>1, <1>2, <2>1, <2>2, <2>4, <2>5, NoCallsKeepInv
<1>5. CASE Stop
  <2>1. /\ phase' # "up" /\ call' = [c \in Caller |-> Idle]
        /\ UNCHANGED << dmap, inodeAt, raced >>
    BY <1>5 DEF Stop, disk
  <2>2. \A c \in Caller : call'[c].pc = "idle"
    BY <2>1 DEF Idle
  <2>. QED
    BY <1>1, <1>2, <2>1, <2>2, NoCallsKeepInv DEF IsDir, DistinctEntries, Files
<1>. QED
  BY <1>3, <1>4, <1>5

(* Steps after which the disk and the counter are the same.                *)
LEMMA ReadKeepsInv ==
  ASSUME FSInv, phase = "up", NEW c \in Caller, NEW r \in CallType,
         call[c].pc # "writeInode",
         call' = [call EXCEPT ![c] = r],
         UNCHANGED << disk, numOccupiedInodeBytemap, phase, created, overwritten, raced >>,
         r.pc \in {"inode", "markInode"} \cup PastMark => r.name \in Name,
         r.pc \in {"markInode"} \cup PastMark => r.inumb \in Inumb,
         r.pc = "markInode" => r.inumb \notin r.map /\ r.map \subseteq Inumb,
         r.pc = "markData" => r.map \subseteq Datum,
         r.pc \in {"markData", "writeDir", "writeInode"} => r.data \in Datum,
         r.pc \in {"inode", "markInode"} \cup PastMark => FreeSlots(r.dir) # {},
         r.pc = "markData" => r.data \notin r.map,
         r.pc \in PastMark => /\ r.pc = "markData" /\ call[c].pc = "data"
                              /\ r.inumb = call[c].inumb
  PROVE  FSInv'
<1>1. UNCHANGED << imap, dmap, inodeAt, numOccupiedInodeBytemap, phase, created,
                   overwritten, raced >>
  BY DEF disk
<1>2. BaseInv /\ call \in [Caller -> CallType]
  BY DEF FSInv, BaseInv, FSType
<1>3. call'[c] = r /\ \A b \in Caller \ {c} : call'[b] = call[b]
  BY <1>2
<1>4. FSType' /\ Locals'
  BY <1>1, <1>2, <1>3 DEF BaseInv, FSType, Locals
<1>5. ~raced => \A b \in Caller : call'[b].pc \in PastMark => call'[b].inumb \in imap
  BY <1>2, <1>3 DEF BaseInv, PastMark
<1>6. BaseInv'
  BY <1>1, <1>2, <1>4, <1>5 DEF BaseInv, EntriesAllocated, IsDir, Entries, CounterBehind
<1>7. Reserved'
  BY <1>3 DEF FSInv, Reserved
<1>8. ASSUME ~raced
      PROVE  NumberOwners' /\ DataOwners'
  <2>1. NumberOwners /\ DataOwners
    BY <1>8 DEF FSInv
  <2>2. \A b \in Caller : call'[b].pc \in Unlisted =>
          call[b].pc \in Unlisted /\ call'[b].inumb = call[b].inumb
    BY <1>3 DEF Unlisted, PastMark
  <2>3. \A b \in Caller : call'[b].pc \in Holding => call'[b] = call[b]
    BY <1>3 DEF Holding, PastMark
  <2>4. NumberOwners'
    BY <1>1, <2>1, <2>2 DEF NumberOwners, IsDir, DistinctEntries, Entries
  <2>5. DataOwners'
    BY <1>1, <2>1, <2>3 DEF DataOwners, Files
  <2>. QED
    BY <2>4, <2>5
<1>9. Kept => Kept'
  <2>1. \A b \in Caller : call'[b].pc = "writeInode" => call'[b] = call[b]
    BY <1>3 DEF PastMark
  <2>2. \A n : Writing(n) => Writing(n)'
    BY <1>3 DEF Writing
  <2>. QED
    BY <1>1, <2>1, <2>2 DEF Kept, Entries
<1>. QED
  BY <1>1, <1>6, <1>7, <1>8, <1>9 DEF FSInv

(* Steps that write the root back as it was read but for its flag.         *)
LEMMA FlagKeepsBase ==
  ASSUME BaseInv, NEW c \in Caller, WriteFlag(c)
  PROVE  BaseInv'
<1>1. phase = "up" /\ UNCHANGED << imap, dmap, numOccupiedInodeBytemap, phase, created, overwritten >>
  BY DEF WriteFlag, Step
<1>2. /\ call' = [call EXCEPT ![c] = Idle]
      /\ raced' = (raced \/ inodeAt[0] # call[c].dir)
  BY DEF WriteFlag
<1>3. PICK flag \in {"open", "closed"} :
        inodeAt' = [inodeAt EXCEPT ![0] = [call[c].dir EXCEPT !.flag = flag]]
  <2>1. call[c].dir.flag \in {"open", "closed"}
    BY DEF BaseInv, FSType, CallType, InodeType
  <2>. QED
    BY <2>1 DEF WriteFlag
<1>4. LET d == [call[c].dir EXCEPT !.flag = flag]
      IN d \in InodeType /\ d.state = call[c].dir.state /\ d.block_ptr = call[c].dir.block_ptr
  <2>1. call[c].dir \in InodeType
    BY DEF BaseInv, FSType, CallType
  <2>. QED
    BY <1>3, <2>1 DEF InodeType
<1>5. /\ inodeAt' \in [Group -> InodeType]
      /\ inodeAt'[0].state = call[c].dir.state
      /\ inodeAt'[0].block_ptr = call[c].dir.block_ptr
  BY <1>3, <1>4, Sizes DEF BaseInv, FSType
<1>6. FSType' /\ Locals'
  <2>1. raced' \in BOOLEAN
    BY <1>2
  <2>. QED
    BY <1>1, <1>2, <1>5, <2>1, FirstValues DEF BaseInv, FSType, Locals, Idle, PastMark
<1>7. ~raced' => /\ ~raced /\ inodeAt'[0].state = inodeAt[0].state
                 /\ inodeAt'[0].block_ptr = inodeAt[0].block_ptr
  BY <1>2, <1>5
<1>8. EntriesAllocated'
  BY <1>1, <1>7 DEF BaseInv, EntriesAllocated, IsDir, Entries
<1>9. ~raced' => \A b \in Caller : call'[b].pc \in PastMark => call'[b].inumb \in imap
  BY <1>2, <1>7 DEF BaseInv, FSType, Idle, PastMark
<1>. QED
  BY <1>1, <1>6, <1>7, <1>8, <1>9 DEF BaseInv, CounterBehind

-----------------------------------------------------------------------------
(***************************************************************************)
(* sfs_create.                                                             *)
(***************************************************************************)
(* getFreeBitMapEntry returns an entry that was not marked when it was     *)
(* read, or does not return.                                               *)
Result(r, old, n, map, all, next) ==
  /\ r.pc = next /\ r.name = old.name /\ r.dir = old.dir
  /\ r.map = map \cap MapBlock(n, all)
  /\ r.inumb = IF next = "markInode" THEN n ELSE old.inumb
  /\ r.data = IF next = "markData" THEN n ELSE old.data

(* What getFreeBitMapEntry leaves in the local variables of its caller is  *)
(* an entry that was free in the map block it read.                        *)
LEMMA SearchFinds ==
  ASSUME FSType, NEW c \in Caller, NEW map, map \subseteq Inumb \cup Datum,
         NEW all, NEW next, \/ next = "markInode" /\ all = Inumb
                            \/ next = "markData" /\ all = Datum,
         Search(c, map, all, next)
  PROVE  \/ Hangs(c)
         \/ \E n \in all \ map, r \in CallType :
              Result(r, call[c], n, map, all, next) /\ call' = [call EXCEPT ![c] = r]
<1>1. ASSUME NEW n \in all \ map,
             call' = [call EXCEPT ![c].pc = next, ![c].map = map \cap MapBlock(n, all),
                         ![c].inumb = IF next = "markInode" THEN n ELSE @,
                         ![c].data  = IF next = "markData" THEN n ELSE @]
      PROVE  \E r \in CallType :
               Result(r, call[c], n, map, all, next) /\ call' = [call EXCEPT ![c] = r]
  <2>. DEFINE block == map \cap MapBlock(n, all)
              r == [call[c] EXCEPT !.pc = next, !.map = block,
                         !.inumb = IF next = "markInode" THEN n ELSE @,
                         !.data  = IF next = "markData" THEN n ELSE @]
  <2>1. call[c] \in CallType /\ block \subseteq Inumb \cup Datum
    BY DEF FSType
  <2>2. call' = [call EXCEPT ![c] = r]
    BY <1>1 DEF FSType
  <2>. DEFINE i == IF next = "markInode" THEN n ELSE call[c].inumb
              d == IF next = "markData" THEN n ELSE call[c].data
  <2>3. /\ i \in Inumb \cup {None} /\ d \in Datum \cup {None}
        /\ next \in Label
    BY <2>1 DEF CallType, Label, PastMark
  <2>4. r = [call[c] EXCEPT !.pc = next, !.map = block, !.inumb = i, !.data = d]
    <3>. HIDE DEF block
    <3>. QED
      BY <2>1 DEF CallType
  <2>. HIDE DEF i, d, block, r
  <2>5. /\ r \in CallType
        /\ r.pc = next /\ r.name = call[c].name /\ r.dir = call[c].dir
        /\ r.map = block /\ r.inumb = i /\ r.data = d
    BY <2>1, <2>3, <2>4 DEF CallType
  <2>. QED
    BY <2>2, <2>5 DEF Result, i, d, block
<1>. QED
  BY <1>1 DEF Search

(* The call waits for ever.                                                *)
LEMMA HangKeepsInv ==
  ASSUME FSInv, phase = "up", NEW c \in Caller, call[c].pc # "writeInode", Hangs(c),
         UNCHANGED << disk, numOccupiedInodeBytemap, phase, created, overwritten, raced >>
  PROVE  FSInv'
<1>. DEFINE r == [call[c] EXCEPT !.pc = "hung"]
<1>1. call' = [call EXCEPT ![c] = r]
  BY DEF Hangs, BaseInv, FSType
<1>2. r \in CallType /\ r.pc = "hung"
  BY DEF FSInv, BaseInv, FSType, CallType, Label
<1>. HIDE DEF r
<1>. QED
  BY <1>1, <1>2, ReadKeepsInv DEF PastMark

(* The reads of sfs_create and of the directory operations.                *)
LEMMA ReadsKeepInv ==
  ASSUME FSInv, NEW c \in Caller,
         \/ CreateReadDir(c) \/ MissingPath(c) \/ ReadToOpen(c) \/ ReadToClose(c)
  PROVE  FSInv'
<1>1. /\ phase = "up" /\ call[c].pc # "writeInode"
      /\ UNCHANGED << disk, numOccupiedInodeBytemap, phase, created, overwritten, raced >>
  BY DEF CreateReadDir, MissingPath, ReadToOpen, ReadToClose, Begins
<1>2. Idle \in CallType /\ call[c] \in CallType /\ inodeAt[0] \in InodeType
  BY FirstValues, Sizes DEF FSInv, BaseInv, FSType
<1>3. CASE CreateReadDir(c)
  <2>1. PICK name \in Name :
          call' = [call EXCEPT ![c] = [Idle EXCEPT !.pc = "inode", !.name = name,
                                                   !.dir = inodeAt[0]]]
    BY <1>3 DEF CreateReadDir
  <2>. DEFINE r == [Idle EXCEPT !.pc = "inode", !.name = name, !.dir = inodeAt[0]]
  <2>2. r \in CallType /\ r.pc = "inode" /\ r.name \in Name /\ r.dir = inodeAt[0]
    BY <1>2 DEF CallType, Label, Idle
  <2>3. call' = [call EXCEPT ![c] = r] /\ FreeSlots(inodeAt[0]) # {}
    BY <1>3, <2>1 DEF CreateReadDir
  <2>. HIDE DEF r
  <2>. QED
    BY <1>1, <2>2, <2>3, ReadKeepsInv DEF PastMark
<1>4. CASE MissingPath(c)
  BY <1>1, <1>4, HangKeepsInv DEF MissingPath
<1>5. CASE ReadToOpen(c) \/ ReadToClose(c)
  <2>1. PICK label \in {"setOpen", "setClosed"} :
          call' = [call EXCEPT ![c].pc = label, ![c].dir = inodeAt[0]]
    BY <1>5 DEF ReadToOpen, ReadToClose
  <2>. DEFINE r == [call[c] EXCEPT !.pc = label, !.dir = inodeAt[0]]
  <2>2. r \in CallType /\ r.pc = label
    BY <1>2 DEF CallType, Label
  <2>3. call' = [call EXCEPT ![c] = r]
    BY <2>1 DEF FSInv, BaseInv, FSType
  <2>. HIDE DEF r
  <2>. QED
    BY <1>1, <2>2, <2>3, ReadKeepsInv DEF PastMark
<1>. QED
  BY <1>3, <1>4, <1>5

(* The searches of the two maps.                                           *)
LEMMA FindKeepsInv ==
  ASSUME FSInv, NEW c \in Caller, FindInode(c) \/ FindData(c)
  PROVE  FSInv'
<1>1. /\ phase = "up" /\ call[c].pc # "writeInode"
      /\ UNCHANGED << disk, numOccupiedInodeBytemap, phase, created, overwritten, raced >>
  BY DEF FindInode, FindData, Step
<1>2. FSType /\ Locals /\ imap \subseteq Inumb /\ dmap \subseteq Datum
  BY DEF FSInv, BaseInv, FSType
<1>3. CASE FindInode(c)
  <2>1. call[c].pc = "inode" /\ Search(c, imap, Inumb, "markInode")
    BY <1>3 DEF FindInode, Step
  <2>2. \/ Hangs(c)
        \/ \E n \in Inumb \ imap, r \in CallType :
             /\ Result(r, call[c], n, imap, Inumb, "markInode")
             /\ call' = [call EXCEPT ![c] = r]
    BY <1>2, <2>1, SearchFinds
  <2>3. ASSUME NEW n \in Inumb \ imap, NEW r \in CallType,
               Result(r, call[c], n, imap, Inumb, "markInode"),
               call' = [call EXCEPT ![c] = r]
        PROVE  FSInv'
    <3>1. /\ r.pc = "markInode" /\ r.name \in Name /\ r.inumb = n
          /\ n \notin r.map /\ r.map \subseteq Inumb /\ FreeSlots(r.dir) # {}
      BY <1>2, <2>1, <2>3 DEF Result, Locals, FSInv, Reserved
    <3>. QED
      BY <1>1, <2>3, <3>1, ReadKeepsInv DEF PastMark
  <2>. QED
    BY <1>1, <2>2, <2>3, HangKeepsInv
<1>4. CASE FindData(c)
  <2>1. call[c].pc = "data" /\ Search(c, dmap, Datum, "markData")
    BY <1>4 DEF FindData, Step
  <2>2. \/ Hangs(c)
        \/ \E n \in Datum \ dmap, r \in CallType :
             /\ Result(r, call[c], n, dmap, Datum, "markData")
             /\ call' = [call EXCEPT ![c] = r]
    BY <1>2, <2>1, SearchFinds
  <2>3. ASSUME NEW n \in Datum \ dmap, NEW r \in CallType,
               Result(r, call[c], n, dmap, Datum, "markData"),
               call' = [call EXCEPT ![c] = r]
        PROVE  FSInv'
    <3>1. /\ r.pc = "markData" /\ r.name \in Name /\ r.data = n /\ r.map \subseteq Datum
          /\ r.inumb = call[c].inumb /\ r.inumb \in Inumb
          /\ r.data \notin r.map /\ FreeSlots(r.dir) # {}
      BY <1>2, <2>1, <2>3 DEF Result, Locals, PastMark, FSInv, Reserved
    <3>. QED
      BY <1>1, <2>1, <2>3, <3>1, ReadKeepsInv DEF PastMark
  <2>. QED
    BY <1>1, <2>2, <2>3, HangKeepsInv
<1>. QED
  BY <1>3, <1>4

(* The locals of the others, and of a call that goes on to the next step.  *)
LEMMA NextStep ==
  ASSUME BaseInv, NEW c \in Caller, NEW label \in Label,
         call' = [call EXCEPT ![c].pc = label]
  PROVE  /\ call' \in [Caller -> CallType]
         /\ call'[c].pc = label /\ call'[c].name = call[c].name
         /\ call'[c].inumb = call[c].inumb /\ call'[c].data = call[c].data
         /\ call'[c].dir = call[c].dir
         /\ \A b \in Caller \ {c} : call'[b] = call[b]
<1>1. call[c] \in CallType
  BY DEF BaseInv, FSType
<1>2. LET r == [call[c] EXCEPT !.pc = label]
      IN /\ r \in CallType /\ r.pc = label /\ r.name = call[c].name
         /\ r.inumb = call[c].inumb /\ r.data = call[c].data /\ r.dir = call[c].dir
         /\ call' = [call EXCEPT ![c] = r]
  BY <1>1 DEF CallType, BaseInv, FSType
<1>. QED
  BY <1>2 DEF BaseInv, FSType

(* The byte of the inode is set and counted.                               *)
LEMMA MarkInodeKeepsBase ==
  ASSUME BaseInv, NEW c \in Caller, MarkInode(c)
  PROVE  BaseInv'
<1>. DEFINE n == call[c].inumb
<1>1. /\ phase = "up" /\ call[c].pc = "markInode"
      /\ imap' = Marked(c, imap, n, Inumb)
      /\ raced' = (raced \/ imap \cap MapBlock(n, Inumb) # call[c].map)
      /\ numOccupiedInodeBytemap' = numOccupiedInodeBytemap + 1
      /\ call' = [call EXCEPT ![c].pc = "data"]
      /\ UNCHANGED << dmap, inodeAt, phase, created, overwritten >>
  BY DEF MarkInode, Step
<1>2. n \in Inumb /\ n \notin call[c].map /\ call[c].name \in Name
  BY <1>1 DEF BaseInv, Locals
<1>3. /\ call' \in [Caller -> CallType]
      /\ call'[c].pc = "data" /\ call'[c].name = call[c].name
      /\ call'[c].inumb = n /\ call'[c].data = call[c].data
      /\ \A b \in Caller \ {c} : call'[b] = call[b]
  BY <1>1, NextStep DEF Label, PastMark
<1>4. raced' \in BOOLEAN
  BY <1>1
<1>5. ~raced' => ~raced /\ imap' = imap \cup {n} /\ n \notin imap
  <2>1. n \in MapBlock(n, Inumb)
    BY <1>2 DEF MapBlock
  <2>. QED
    BY <1>1, <1>2, <2>1 DEF Marked
<1>6. imap' \subseteq Inumb
  BY <1>1, <1>2 DEF BaseInv, FSType, Locals, Marked
<1>. HIDE DEF n
<1>7. FSType'
  BY <1>1, <1>3, <1>4, <1>6 DEF BaseInv, FSType
<1>8. Locals'
  BY <1>1, <1>2, <1>3 DEF BaseInv, Locals, PastMark
<1>9. ASSUME ~raced'
      PROVE  /\ 0 \in imap' /\ EntriesAllocated' /\ CounterBehind'
             /\ \A b \in Caller : call'[b].pc \in PastMark => call'[b].inumb \in imap'
  <2>1. ~raced /\ imap' = imap \cup {n} /\ n \notin imap
    BY <1>5, <1>9
  <2>2. Cardinality(imap) \in Nat /\ Cardinality(imap') = Cardinality(imap) + 1
    BY <1>2, <2>1, Larger DEF BaseInv, FSType
  <2>3. CounterBehind'
    BY <1>1, <2>1, <2>2 DEF BaseInv, FSType, CounterBehind
  <2>4. 0 \in imap' /\ EntriesAllocated'
    BY <1>1, <2>1 DEF BaseInv, EntriesAllocated, IsDir, Entries
  <2>5. \A b \in Caller : call'[b].pc \in PastMark => call'[b].inumb \in imap'
    BY <1>3, <2>1 DEF BaseInv
  <2>. QED
    BY <2>3, <2>4, <2>5
<1>. QED
  BY <1>7, <1>8, <1>9 DEF BaseInv, EntriesAllocated, CounterBehind

(* The byte of the data block is set.                                      *)
LEMMA MarkDataKeepsBase ==
  ASSUME BaseInv, NEW c \in Caller, MarkData(c)
  PROVE  BaseInv'
<1>1. /\ phase = "up" /\ call[c].pc = "markData"
      /\ dmap' = Marked(c, dmap, call[c].data, Datum)
      /\ raced' = (raced \/ dmap \cap MapBlock(call[c].data, Datum) # call[c].map)
      /\ call' = [call EXCEPT ![c].pc = "writeDir"]
      /\ UNCHANGED << imap, inodeAt, numOccupiedInodeBytemap, phase, created, overwritten >>
  BY DEF MarkData, Step
<1>2. /\ call' \in [Caller -> CallType]
      /\ call'[c].pc = "writeDir" /\ call'[c].name = call[c].name
      /\ call'[c].inumb = call[c].inumb /\ call'[c].data = call[c].data
      /\ \A b \in Caller \ {c} : call'[b] = call[b]
  BY <1>1, NextStep DEF Label, PastMark
<1>3. raced' \in BOOLEAN /\ (~raced' => ~raced)
  BY <1>1
<1>4. dmap' \subseteq Datum
  BY <1>1 DEF BaseInv, FSType, Locals, Marked
<1>5. FSType'
  BY <1>1, <1>2, <1>3, <1>4 DEF BaseInv, FSType
<1>6. Locals'
  BY <1>1, <1>2 DEF BaseInv, Locals, PastMark
<1>7. ASSUME ~raced'
      PROVE  /\ 0 \in imap' /\ EntriesAllocated' /\ CounterBehind'
             /\ \A b \in Caller : call'[b].pc \in PastMark => call'[b].inumb \in imap'
  <2>1. ~raced
    BY <1>3, <1>7
  <2>2. 0 \in imap' /\ EntriesAllocated' /\ CounterBehind'
    BY <1>1, <2>1 DEF BaseInv, EntriesAllocated, IsDir, Entries, CounterBehind
  <2>3. \A b \in Caller : call'[b].pc \in PastMark => call'[b].inumb \in imap'
    BY <1>1, <1>2, <2>1 DEF BaseInv, PastMark
  <2>. QED
    BY <2>2, <2>3
<1>. QED
  BY <1>5, <1>6, <1>7 DEF BaseInv, EntriesAllocated, CounterBehind

(* The number goes into the root.                                          *)
LEMMA WriteDirKeepsBase ==
  ASSUME BaseInv, NEW c \in Caller, CreateWriteDir(c)
  PROVE  BaseInv'
<1>. DEFINE dir == call[c].dir
            d == [dir EXCEPT !.block_ptr[ChosenSlot(dir)] = call[c].inumb]
<1>1. /\ phase = "up" /\ call[c].pc = "writeDir"
      /\ inodeAt' = [inodeAt EXCEPT ![0] = d]
      /\ raced' = (raced \/ inodeAt[0] # dir)
      /\ call' = [call EXCEPT ![c].pc = "writeInode"]
      /\ UNCHANGED << imap, dmap, numOccupiedInodeBytemap, phase, created, overwritten >>
  BY DEF CreateWriteDir, Step
<1>2. call[c].inumb \in Inumb /\ dir \in InodeType /\ call[c].name \in Name
  BY <1>1 DEF BaseInv, FSType, CallType, Locals, PastMark
<1>3. /\ d \in InodeType /\ d.state = dir.state
      /\ \A i \in Entry : d.block_ptr[i] \in {dir.block_ptr[i], call[c].inumb}
  BY <1>2 DEF InodeType
<1>4. /\ call' \in [Caller -> CallType]
      /\ call'[c].pc = "writeInode" /\ call'[c].name = call[c].name
      /\ call'[c].inumb = call[c].inumb /\ call'[c].data = call[c].data
      /\ \A b \in Caller \ {c} : call'[b] = call[b]
  BY <1>1, NextStep DEF Label, PastMark
<1>5. raced' \in BOOLEAN /\ (~raced' => ~raced /\ dir = inodeAt[0])
  BY <1>1
<1>. HIDE DEF d
<1>6. inodeAt' \in [Group -> InodeType] /\ inodeAt'[0] = d
  BY <1>1, <1>3, Sizes DEF BaseInv, FSType
<1>7. FSType'
  BY <1>1, <1>4, <1>5, <1>6 DEF BaseInv, FSType
<1>8. Locals'
  BY <1>1, <1>4 DEF BaseInv, Locals, PastMark
<1>9. ASSUME ~raced'
      PROVE  /\ 0 \in imap' /\ EntriesAllocated' /\ CounterBehind'
             /\ \A b \in Caller : call'[b].pc \in PastMark => call'[b].inumb \in imap'
  <2>1. ~raced /\ dir = inodeAt[0] /\ call[c].inumb \in imap
    BY <1>1, <1>5, <1>9 DEF BaseInv, PastMark
  <2>2. IsDir' => Entries' \subseteq imap'
    <3>1. IsDir' => Entries \subseteq imap
      BY <1>1, <1>3, <1>6, <2>1 DEF IsDir, BaseInv, EntriesAllocated
    <3>2. Entries' \subseteq Entries \cup {call[c].inumb}
      BY <1>3, <1>6, <2>1 DEF Entries
    <3>. QED
      BY <1>1, <2>1, <3>1, <3>2
  <2>3. 0 \in imap' /\ CounterBehind'
    BY <1>1, <2>1 DEF BaseInv, CounterBehind
  <2>4. \A b \in Caller : call'[b].pc \in PastMark => call'[b].inumb \in imap'
    BY <1>1, <1>4, <2>1 DEF BaseInv, PastMark
  <2>. QED
    BY <2>2, <2>3, <2>4 DEF EntriesAllocated
<1>. QED
  BY <1>7, <1>8, <1>9 DEF BaseInv, EntriesAllocated, CounterBehind

(* The inode is written, over the root if it is of the first block.        *)
LEMMA WriteInodeKeepsBase ==
  ASSUME BaseInv, NEW c \in Caller, CreateWriteInode(c)
  PROVE  BaseInv'
<1>. DEFINE g == call[c].inumb \div PerBlock
            d == Inode("f", "open", substring(call[c].name), call[c].inumb,
                       [i \in Entry |-> IF i = 0 THEN call[c].data ELSE None])
<1>1. /\ phase = "up" /\ call[c].pc = "writeInode"
      /\ inodeAt' = [inodeAt EXCEPT ![g] = d]
      /\ created' = created \cup {call[c].inumb}
      /\ call' = [call EXCEPT ![c] = Idle]
      /\ UNCHANGED << imap, dmap, numOccupiedInodeBytemap, phase, raced >>
  BY DEF CreateWriteInode, Step
<1>2. overwritten' \in BOOLEAN
  BY DEF CreateWriteInode
<1>3. call[c].inumb \in Inumb /\ call[c].data \in Datum /\ call[c].name \in Name
  BY <1>1 DEF BaseInv, Locals, PastMark
<1>4. d \in InodeType /\ d.state = "f" /\ g \in Group
  BY <1>3, Sizes DEF Inode, InodeType, substring
<1>. HIDE DEF d, g
<1>5. FSType'
  BY <1>1, <1>2, <1>3, <1>4, FirstValues DEF BaseInv, FSType
<1>6. Idle.pc = "idle"
  BY DEF Idle
<1>7. Locals'
  BY <1>1, <1>6 DEF BaseInv, FSType, Locals, PastMark
<1>8. inodeAt'[0] = inodeAt[0] \/ inodeAt'[0].state = "f"
  BY <1>1, <1>4, Sizes DEF BaseInv, FSType
<1>9. EntriesAllocated'
  BY <1>1, <1>8 DEF BaseInv, EntriesAllocated, IsDir, Entries
<1>10. ~raced' => \A b \in Caller : call'[b].pc \in PastMark => call'[b].inumb \in imap'
  BY <1>1, <1>6 DEF BaseInv, FSType, PastMark
<1>. QED
  BY <1>1, <1>5, <1>7, <1>9, <1>10 DEF BaseInv, CounterBehind

-----------------------------------------------------------------------------
(***************************************************************************)
(* The owners of numbers and blocks, through the writes.                   *)
(***************************************************************************)
(* What the writes that leave the root and the inodes alone do to a call.  *)
LEMMA ReservedKept ==
  ASSUME Reserved, NEW c \in Caller, call'[c].pc \in ({"idle"} \cup PastMark) \ {"markData"},
         call'[c].pc # "idle" =>
           call'[c].dir = call[c].dir /\ call[c].pc \in {"markInode"} \cup PastMark,
         \A b \in Caller \ {c} : call'[b] = call[b]
  PROVE  Reserved'
BY DEF Reserved, PastMark

(* Marking an inode number: without a race the number was free, so no entry*)
(* and no other call holds it.                                             *)
LEMMA MarkInodeKeepsInv ==
  ASSUME FSInv, NEW c \in Caller, MarkInode(c)
  PROVE  FSInv'
<1>. DEFINE n == call[c].inumb
<1>0. BaseInv /\ BaseInv'
  BY MarkInodeKeepsBase DEF FSInv
<1>1. /\ phase = "up" /\ call[c].pc = "markInode"
      /\ raced' = (raced \/ imap \cap MapBlock(n, Inumb) # call[c].map)
      /\ call' = [call EXCEPT ![c].pc = "data"]
      /\ UNCHANGED << dmap, inodeAt, phase, created, overwritten >>
  BY DEF MarkInode, Step
<1>2. /\ call'[c].pc = "data" /\ call'[c].inumb = n /\ call'[c].dir = call[c].dir
      /\ \A b \in Caller \ {c} : call'[b] = call[b]
  BY <1>0, <1>1, NextStep DEF Label, PastMark
<1>3. ~raced' => ~raced /\ n \notin imap
  <2>1. n \in Inumb /\ n \notin call[c].map /\ n \in MapBlock(n, Inumb)
    BY <1>0, <1>1 DEF BaseInv, Locals, MapBlock
  <2>. QED
    BY <1>1, <2>1
<1>. HIDE DEF n
<1>4. Reserved'
  BY <1>1, <1>2, ReservedKept DEF FSInv, PastMark
<1>5. ASSUME ~raced'
      PROVE  NumberOwners' /\ DataOwners'
  <2>1. NumberOwners /\ DataOwners /\ n \notin imap
    BY <1>3, <1>5 DEF FSInv
  <2>2. \A b \in Caller : call[b].pc \in Unlisted => call[b].inumb # n
    BY <1>0, <1>3, <1>5, <2>1 DEF BaseInv, Unlisted, PastMark
  <2>3. IsDir => n \notin Entries
    BY <1>0, <1>1, <1>3, <1>5, <2>1 DEF BaseInv, EntriesAllocated
  <2>4. NumberOwners'
    BY <1>1, <1>2, <2>1, <2>2, <2>3
    DEF NumberOwners, IsDir, DistinctEntries, Entries, Unlisted
  <2>5. DataOwners'
    BY <1>1, <1>2, <2>1 DEF DataOwners, Files, Holding
  <2>. QED
    BY <2>4, <2>5
<1>6. Kept => Kept'
  <2>1. \A m : Writing(m) => Writing(m)'
    BY <1>1, <1>2 DEF Writing
  <2>. QED
    BY <1>1, <1>2, <2>1 DEF Kept, Entries
<1>. QED
  BY <1>0, <1>1, <1>3, <1>4, <1>5, <1>6 DEF FSInv

(* Marking a data block: without a race the block was free, so no file and *)
(* no other call holds it.                                                 *)
LEMMA MarkDataKeepsInv ==
  ASSUME FSInv, NEW c \in Caller, MarkData(c)
  PROVE  FSInv'
<1>. DEFINE d == call[c].data
<1>0. BaseInv /\ BaseInv'
  BY MarkDataKeepsBase DEF FSInv
<1>1. /\ phase = "up" /\ call[c].pc = "markData"
      /\ dmap' = Marked(c, dmap, d, Datum)
      /\ raced' = (raced \/ dmap \cap MapBlock(d, Datum) # call[c].map)
      /\ call' = [call EXCEPT ![c].pc = "writeDir"]
      /\ UNCHANGED << inodeAt, phase, created, overwritten >>
  BY DEF MarkData, Step
<1>2. /\ call'[c].pc = "writeDir" /\ call'[c].inumb = call[c].inumb
      /\ call'[c].data = d /\ call'[c].dir = call[c].dir
      /\ \A b \in Caller \ {c} : call'[b] = call[b]
  BY <1>0, <1>1, NextStep DEF Label, PastMark
<1>3. ~raced' => ~raced /\ d \notin dmap /\ dmap' = dmap \cup {d}
  <2>1. d \in Datum /\ d \notin call[c].map /\ d \in MapBlock(d, Datum)
    BY <1>0, <1>1 DEF BaseInv, Locals, FSInv, Reserved, MapBlock
  <2>. QED
    BY <1>1, <2>1 DEF Marked
<1>. HIDE DEF d
<1>4. Reserved'
  BY <1>1, <1>2, ReservedKept DEF FSInv, PastMark
<1>5. ASSUME ~raced'
      PROVE  NumberOwners' /\ DataOwners'
  <2>1. NumberOwners /\ DataOwners /\ d \notin dmap /\ dmap' = dmap \cup {d}
    BY <1>3, <1>5 DEF FSInv
  <2>2. \A b \in Caller : call[b].pc \in Holding => call[b].data # d
    BY <2>1 DEF DataOwners
  <2>3. \A g \in Files : inodeAt[g].block_ptr[0] # d
    BY <2>1 DEF DataOwners
  <2>4. NumberOwners'
    BY <1>1, <1>2, <2>1 DEF NumberOwners, IsDir, DistinctEntries, Entries, Unlisted
  <2>5. DataOwners'
    BY <1>1, <1>2, <2>1, <2>2, <2>3 DEF DataOwners, Files, Holding
  <2>. QED
    BY <2>4, <2>5
<1>6. Kept => Kept'
  <2>1. \A m : Writing(m) => Writing(m)'
    BY <1>1, <1>2 DEF Writing
  <2>. QED
    BY <1>1, <1>2, <2>1 DEF Kept, Entries
<1>. QED
  BY <1>0, <1>1, <1>3, <1>4, <1>5, <1>6 DEF FSInv

(* There is a greatest number among the free entries of a directory.       *)
LEMMA Chosen ==
  ASSUME NEW dir, FreeSlots(dir) # {}
  PROVE  ChosenSlot(dir) \in FreeSlots(dir)
<1>. DEFINE S == FreeSlots(dir)
            R == {p \in Nat \X Nat : p[1] < p[2]}
            Up == {NSlots - i : i \in S}
<1>1. S \subseteq 0..(NSlots - 1) /\ NSlots \in Nat /\ S # {}
  BY FileSystemAssumption DEF FreeSlots, Entry
<1>0. ASSUME NEW i \in S
      PROVE  i \in Nat /\ NSlots - i \in Nat
  <2>1. i \in 0..(NSlots - 1)
    BY <1>1
  <2>. HIDE DEF S
  <2>. QED
    BY <1>1, <2>1
<1>2. Up \subseteq Nat /\ Up # {}
  <2>. HIDE DEF S
  <2>. QED
    BY <1>0, <1>1
<1>3. IsWellFoundedOn(R, Nat)
  <2>1. OpToRel(<, Nat) = R
    BY DEF OpToRel
  <2>. QED
    BY <2>1, NatLessThanWellFounded
<1>4. PICK m \in Up : \A y \in Up : ~(<< y, m >> \in R)
  <2>. HIDE DEF R, Up
  <2>. QED
    BY <1>2, <1>3, WFMin
<1>5. ASSUME NEW y \in Up
      PROVE  m <= y
  <2>1. m \in Nat /\ y \in Nat
    BY <1>2
  <2>2. y < m => << y, m >> \in R
    BY <2>1
  <2>. HIDE DEF R
  <2>. QED
    BY <1>4, <2>1, <2>2
<1>6. PICK x \in S : m = NSlots - x
  OBVIOUS
<1>7. ASSUME NEW j \in S
      PROVE  j <= x
  <2>1. NSlots - j \in Up
    OBVIOUS
  <2>2. m <= NSlots - j
    BY <1>5, <2>1
  <2>3. j \in Nat /\ x \in Nat
    BY <1>0
  <2>. QED
    BY <1>1, <1>6, <2>2, <2>3
<1>. HIDE DEF S
<1>. QED
  BY <1>7 DEF ChosenSlot, S

(* Writing the root with the new entry: without a race the root is still   *)
(* what it was when it was read, so no entry is lost, and the new number is*)
(* in no other entry.                                                      *)
LEMMA WriteDirKeepsInv ==
  ASSUME FSInv, NEW c \in Caller, CreateWriteDir(c)
  PROVE  FSInv'
<1>. DEFINE dir == call[c].dir
            n == call[c].inumb
            k == ChosenSlot(dir)
            d == [dir EXCEPT !.block_ptr[k] = n]
<1>0. BaseInv /\ BaseInv'
  BY WriteDirKeepsBase DEF FSInv
<1>1. /\ phase = "up" /\ call[c].pc = "writeDir"
      /\ inodeAt' = [inodeAt EXCEPT ![0] = d]
      /\ raced' = (raced \/ inodeAt[0] # dir)
      /\ call' = [call EXCEPT ![c].pc = "writeInode"]
      /\ UNCHANGED << imap, dmap, phase, created, overwritten >>
  BY DEF CreateWriteDir, Step
<1>2. n \in Inumb /\ dir \in InodeType /\ n # None
  BY <1>0, <1>1, Sizes DEF BaseInv, FSType, CallType, Locals, PastMark
<1>3. k \in Entry /\ dir.block_ptr[k] = None
  <2>1. FreeSlots(dir) # {}
    BY <1>1 DEF FSInv, Reserved, PastMark
  <2>. QED
    BY <2>1, Chosen DEF FreeSlots
<1>. HIDE DEF k
<1>4. /\ d.state = dir.state /\ d.uid = dir.uid
      /\ d.block_ptr[k] = n /\ \A i \in Entry \ {k} : d.block_ptr[i] = dir.block_ptr[i]
  BY <1>2, <1>3 DEF InodeType
<1>5. /\ call'[c].pc = "writeInode" /\ call'[c].inumb = n
      /\ call'[c].data = call[c].data /\ call'[c].dir = call[c].dir
      /\ \A b \in Caller \ {c} : call'[b] = call[b]
  BY <1>0, <1>1, NextStep DEF Label, PastMark
<1>. HIDE DEF d
<1>6. inodeAt'[0] = d /\ \A g \in Group \ {0} : inodeAt'[g] = inodeAt[g]
  BY <1>0, <1>1, Sizes DEF BaseInv, FSType
<1>. HIDE DEF n
<1>7. ~raced' => ~raced /\ inodeAt[0] = dir
  BY <1>1
<1>8. Reserved'
  BY <1>1, <1>5, ReservedKept DEF FSInv, PastMark
<1>. HIDE DEF dir
<1>9. ASSUME ~raced'
      PROVE  /\ inodeAt'[0].state = inodeAt[0].state /\ inodeAt'[0].uid = inodeAt[0].uid
             /\ inodeAt'[0].block_ptr[k] = n /\ inodeAt[0].block_ptr[k] = None
             /\ \A i \in Entry \ {k} : inodeAt'[0].block_ptr[i] = inodeAt[0].block_ptr[i]
             /\ Entries' = Entries \cup {n}
  <2>1. inodeAt[0] = dir
    BY <1>7, <1>9
  <2>2. /\ inodeAt'[0].state = inodeAt[0].state /\ inodeAt'[0].uid = inodeAt[0].uid
        /\ inodeAt'[0].block_ptr[k] = n /\ inodeAt[0].block_ptr[k] = None
        /\ \A i \in Entry \ {k} : inodeAt'[0].block_ptr[i] = inodeAt[0].block_ptr[i]
    BY <1>3, <1>4, <1>6, <2>1
  <2>3. Entries' = Entries \cup {n}
    BY <1>2, <1>3, <2>2 DEF Entries
  <2>. QED
    BY <2>2, <2>3
<1>10. ASSUME ~raced'
       PROVE  NumberOwners' /\ DataOwners'
  <2>1. NumberOwners /\ DataOwners /\ ~raced
    BY <1>7, <1>10 DEF FSInv
  <2>2. IsDir' = IsDir
    BY <1>1, <1>9, <1>10 DEF IsDir
  <2>3. IsDir => n \notin Entries
    BY <1>1, <2>1 DEF NumberOwners, Unlisted, n
  <2>4. IsDir => DistinctEntries'
    <3>. SUFFICES ASSUME IsDir, NEW i \in Entry, NEW j \in Entry, i # j,
                         inodeAt'[0].block_ptr[i] = inodeAt'[0].block_ptr[j]
                  PROVE  inodeAt'[0].block_ptr[i] = None
      BY DEF DistinctEntries
    <3>1. \A e \in Entry : inodeAt[0].block_ptr[e] # n
      BY <1>2, <2>3 DEF Entries
    <3>. QED
      BY <1>9, <1>10, <2>1, <3>1 DEF NumberOwners, DistinctEntries
  <2>5. \A b \in Caller : call'[b].pc \in Unlisted =>
          b # c /\ call[b].pc \in Unlisted /\ call'[b].inumb = call[b].inumb
    BY <1>5 DEF Unlisted
  <2>6. \A b \in Caller \ {c} : call[b].pc \in Unlisted => call[b].inumb # n
    BY <1>1, <2>1 DEF NumberOwners, Unlisted, n
  <2>7. NumberOwners'
    BY <1>9, <1>10, <2>1, <2>2, <2>4, <2>5, <2>6 DEF NumberOwners
  <2>8. Files' = Files /\ \A g \in Files : inodeAt'[g].block_ptr[0] = inodeAt[g].block_ptr[0]
    <3>1. Files' = Files
      BY <1>6, <1>9, <1>10, Sizes DEF Files
    <3>2. ASSUME NEW g \in Files
          PROVE  inodeAt'[g].block_ptr[0] = inodeAt[g].block_ptr[0]
      <4>1. CASE g = 0
        <5>1. inodeAt[0].block_ptr[0] \in dmap
          BY <2>1, <4>1 DEF DataOwners
        <5>2. None \notin dmap
          BY <1>0 DEF BaseInv, FSType, Datum, None
        <5>3. 0 \in Entry /\ 0 # k
          BY <1>9, <1>10, <5>1, <5>2, FileSystemAssumption DEF Entry
        <5>. QED
          BY <1>9, <1>10, <4>1, <5>3
      <4>2. CASE g # 0
        BY <1>6, <4>2 DEF Files
      <4>. QED
        BY <4>1, <4>2
    <3>. QED
      BY <3>1, <3>2
  <2>9. \A b \in Caller : call'[b].pc \in Holding =>
          call[b].pc \in Holding /\ call'[b].data = call[b].data
    BY <1>1, <1>5 DEF Holding
  <2>10. DataOwners'
    BY <1>1, <2>1, <2>8, <2>9 DEF DataOwners
  <2>. QED
    BY <2>7, <2>10
<1>11. ASSUME ~raced', Kept
       PROVE  Kept'
  <2>1. \A b \in Caller : call'[b].pc = "writeInode" => call'[b].inumb \in Entries'
    BY <1>1, <1>5, <1>9, <1>11 DEF Kept
  <2>3. \A m : Writing(m) => Writing(m)'
    BY <1>1, <1>5 DEF Writing
  <2>4. \A m : m = n => Writing(m)'
    BY <1>5 DEF Writing
  <2>2. ASSUME NEW m \in created
        PROVE  m \in Entries' /\ inodeAt'[m \div PerBlock].uid = m
    <3>1. m \in Entries /\ inodeAt[m \div PerBlock].uid = m /\ m \div PerBlock \in Group
      BY <1>0, <1>1, <1>11, Sizes DEF Kept, BaseInv, FSType
    <3>. QED
      BY <1>6, <1>9, <1>11, <3>1
  <2>5. \A m \in Entries' : m \in created \/ Writing(m)'
    BY <1>1, <1>9, <1>11, <2>3, <2>4 DEF Kept
  <2>. QED
    BY <1>1, <2>1, <2>2, <2>5 DEF Kept
<1>. QED
  BY <1>0, <1>1, <1>7, <1>8, <1>10, <1>11 DEF FSInv

(* Writing the new inode: its group is one whose earlier file, if any, is  *)
(* given up by `overwritten`; its block belongs to it alone.               *)
LEMMA WriteInodeKeepsInv ==
  ASSUME FSInv, NEW c \in Caller, CreateWriteInode(c)
  PROVE  FSInv'
<1>. DEFINE n == call[c].inumb
            g == n \div PerBlock
            d == Inode("f", "open", substring(call[c].name), n,
                       [i \in Entry |-> IF i = 0 THEN call[c].data ELSE None])
<1>0. BaseInv /\ BaseInv'
  BY WriteInodeKeepsBase DEF FSInv
<1>1. /\ phase = "up" /\ call[c].pc = "writeInode"
      /\ inodeAt' = [inodeAt EXCEPT ![g] = d]
      /\ created' = created \cup {n}
      /\ call' = [call EXCEPT ![c] = Idle]
      /\ UNCHANGED << imap, dmap, phase, raced >>
  BY DEF CreateWriteInode, Step
<1>2. overwritten' = (overwritten \/ g = 0 \/ \E m \in created : m \div PerBlock = g)
  BY DEF CreateWriteInode
<1>3. n \in Inumb /\ g \in Group
  BY <1>0, <1>1, Sizes DEF BaseInv, Locals, PastMark
<1>4. d.state = "f" /\ d.uid = n /\ d.block_ptr[0] = call[c].data
  BY FileSystemAssumption DEF Inode, Entry
<1>5. call'[c].pc = "idle" /\ \A b \in Caller \ {c} : call'[b] = call[b]
  BY <1>0, <1>1 DEF BaseInv, FSType, Idle
<1>. HIDE DEF d, g
<1>6. inodeAt'[g] = d /\ \A h \in Group \ {g} : inodeAt'[h] = inodeAt[h]
  BY <1>0, <1>1, <1>3 DEF BaseInv, FSType
<1>. HIDE DEF n
<1>7. Reserved'
  BY <1>5, ReservedKept DEF FSInv
<1>8. ASSUME ~raced
      PROVE  NumberOwners' /\ DataOwners'
  <2>1. NumberOwners /\ DataOwners
    BY <1>8 DEF FSInv
  <2>2. IsDir' => IsDir /\ inodeAt'[0] = inodeAt[0]
    BY <1>1, <1>4, <1>6, Sizes DEF IsDir
  <2>3. \A b \in Caller : call'[b].pc \in Unlisted =>
          call[b].pc \in Unlisted /\ call'[b].inumb = call[b].inumb
    BY <1>5 DEF Unlisted
  <2>4. NumberOwners'
    BY <2>1, <2>2, <2>3 DEF NumberOwners, DistinctEntries, Entries
  <2>5. /\ call[c].data \in dmap /\ \A h \in Files : inodeAt[h].block_ptr[0] # call[c].data
        /\ \A b \in Caller \ {c} : call[b].pc \in Holding => call[b].data # call[c].data
    BY <1>1, <2>1 DEF DataOwners, Holding
  <2>6. /\ inodeAt'[g].block_ptr[0] = call[c].data
        /\ \A h \in Files' : h = g \/ (h \in Files /\ inodeAt'[h] = inodeAt[h])
    <3>1. inodeAt'[g].block_ptr[0] = call[c].data
      BY <1>4, <1>6
    <3>2. ASSUME NEW h \in Files', h # g
          PROVE  h \in Files /\ inodeAt'[h] = inodeAt[h]
      <4>1. h \in Group /\ inodeAt'[h].state = "f"
        BY DEF Files
      <4>2. inodeAt'[h] = inodeAt[h]
        BY <1>6, <3>2, <4>1
      <4>. QED
        BY <4>1, <4>2 DEF Files
    <3>. QED
      BY <3>1, <3>2
  <2>7. \A b \in Caller : call'[b].pc \in Holding =>
          b # c /\ call[b].pc \in Holding /\ call'[b].data = call[b].data
    BY <1>5 DEF Holding
  <2>8. DataOwners'
    BY <1>1, <2>1, <2>5, <2>6, <2>7 DEF DataOwners
  <2>. QED
    BY <2>4, <2>8
<1>9. ASSUME ~raced, ~overwritten'
      PROVE  Kept'
  <2>1. ~overwritten /\ g # 0 /\ \A m \in created : m \div PerBlock # g
    BY <1>2, <1>9
  <2>2. Kept
    BY <1>9, <2>1 DEF FSInv
  <2>3. Entries' = Entries
    BY <1>6, <2>1, Sizes DEF Entries
  <2>4. \A b \in Caller : call'[b].pc = "writeInode" => call'[b].inumb \in Entries'
    BY <1>1, <1>5, <2>2, <2>3 DEF Kept
  <2>5. n \in Entries /\ inodeAt'[n \div PerBlock].uid = n
    BY <1>1, <1>4, <1>6, <2>2 DEF Kept, n, g
  <2>6. ASSUME NEW m \in created
        PROVE  m \in Entries /\ inodeAt'[m \div PerBlock].uid = m
    <3>1. m \in Entries /\ inodeAt[m \div PerBlock].uid = m /\ m \div PerBlock \in Group
      BY <1>0, <1>1, <2>2, Sizes DEF Kept, BaseInv, FSType
    <3>. QED
      BY <1>6, <2>1, <3>1
  <2>7. \A m : Writing(m) => m = n \/ Writing(m)'
    BY <1>5 DEF Writing, n
  <2>8. \A m \in Entries : m \in created' \/ Writing(m)'
    BY <1>1, <2>2, <2>7 DEF Kept
  <2>. QED
    BY <1>1, <2>3, <2>4, <2>5, <2>6, <2>8 DEF Kept
<1>. QED
  BY <1>0, <1>1, <1>7, <1>8, <1>9 DEF FSInv

(* Writing the root back with its flag: without a race its entries are     *)
(* those on the disk.                                                      *)
LEMMA FlagKeepsInv ==
  ASSUME FSInv, NEW c \in Caller, WriteFlag(c)
  PROVE  FSInv'
<1>0. BaseInv /\ BaseInv'
  BY FlagKeepsBase DEF FSInv
<1>1. /\ UNCHANGED << imap, dmap, phase, created, overwritten >>
      /\ call' = [call EXCEPT ![c] = Idle]
      /\ raced' = (raced \/ inodeAt[0] # call[c].dir)
  BY DEF WriteFlag
<1>2. PICK flag \in {"open", "closed"} :
        inodeAt' = [inodeAt EXCEPT ![0] = [call[c].dir EXCEPT !.flag = flag]]
  <2>1. call[c].dir.flag \in {"open", "closed"}
    BY <1>0 DEF BaseInv, FSType, CallType, InodeType
  <2>. QED
    BY <2>1 DEF WriteFlag
<1>. DEFINE d == [call[c].dir EXCEPT !.flag = flag]
<1>3. /\ d.state = call[c].dir.state /\ d.block_ptr = call[c].dir.block_ptr
      /\ d.uid = call[c].dir.uid
  BY <1>0 DEF BaseInv, FSType, CallType, InodeType
<1>4. inodeAt' = [inodeAt EXCEPT ![0] = d]
  BY <1>2
<1>. HIDE DEF d
<1>5. inodeAt'[0] = d /\ \A g \in Group \ {0} : inodeAt'[g] = inodeAt[g]
  BY <1>0, <1>4, Sizes DEF BaseInv, FSType
<1>6. call'[c].pc = "idle" /\ \A b \in Caller \ {c} : call'[b] = call[b]
  BY <1>0, <1>1 DEF BaseInv, FSType, Idle
<1>7. Reserved'
  BY <1>6, ReservedKept DEF FSInv
<1>8. ASSUME ~raced'
      PROVE  /\ ~raced
             /\ \A g \in Group : /\ inodeAt'[g].state = inodeAt[g].state
                                 /\ inodeAt'[g].block_ptr = inodeAt[g].block_ptr
                                 /\ inodeAt'[g].uid = inodeAt[g].uid
  <2>1. ~raced /\ inodeAt[0] = call[c].dir
    BY <1>1, <1>8
  <2>. QED
    BY <1>3, <1>5, <2>1
<1>9. \A b \in Caller : call'[b].pc \in Unlisted \cup Holding => b # c /\ call'[b] = call[b]
  BY <1>6 DEF Unlisted, Holding
<1>10. ASSUME ~raced'
       PROVE  NumberOwners' /\ DataOwners'
  <2>1. NumberOwners /\ DataOwners
    BY <1>8, <1>10 DEF FSInv
  <2>2. IsDir' = IsDir /\ Entries' = Entries /\ DistinctEntries' = DistinctEntries
    BY <1>1, <1>8, <1>10, Sizes DEF IsDir, Entries, DistinctEntries
  <2>3. NumberOwners'
    BY <1>9, <2>1, <2>2 DEF NumberOwners
  <2>4. Files' = Files /\ \A g \in Files : inodeAt'[g].block_ptr[0] = inodeAt[g].block_ptr[0]
    BY <1>8, <1>10 DEF Files
  <2>5. DataOwners'
    BY <1>1, <1>9, <2>1, <2>4 DEF DataOwners
  <2>. QED
    BY <2>3, <2>5
<1>11. ASSUME ~raced', Kept
       PROVE  Kept'
  <2>1. Entries' = Entries
    BY <1>8, <1>11, Sizes DEF Entries
  <2>2. \A m \in created : m \div PerBlock \in Group
    BY <1>0, Sizes DEF BaseInv, FSType
  <2>3. \A m : Writing(m) => Writing(m)'
    BY <1>6 DEF Writing, WriteFlag, Step
  <2>. QED
    BY <1>1, <1>6, <1>8, <1>11, <2>1, <2>2, <2>3 DEF Kept
<1>. QED
  BY <1>0, <1>1, <1>7, <1>8, <1>10, <1>11 DEF FSInv

-----------------------------------------------------------------------------
(***************************************************************************)
(* The theorems.                                                           *)
(***************************************************************************)
(* The invariant of the disk and the calls.                                *)
THEOREM FSInvariant == Spec => []FSInv
<1>1. FSInv /\ [Next]_vars => FSInv'
  <2>. SUFFICES ASSUME FSInv, [Next]_vars PROVE FSInv'
    OBVIOUS
  <2>1. CASE InitMap \/ InitRoot \/ Stop
    BY <2>1, MountKeepsInv
  <2>2. ASSUME NEW c \in Caller, \/ create(c) \/ MissingPath(c)
                                 \/ ReadToOpen(c) \/ ReadToClose(c) \/ WriteFlag(c)
        PROVE  FSInv'
    BY <2>2, ReadsKeepInv, FlagKeepsInv, FindKeepsInv, MarkInodeKeepsInv, MarkDataKeepsInv,
       WriteDirKeepsInv, WriteInodeKeepsInv DEF create
  <2>3. CASE UNCHANGED vars
    <3>1. UNCHANGED << imap, dmap, inodeAt, numOccupiedInodeBytemap, phase, call, created,
                       overwritten, raced >>
      BY <2>3 DEF vars, disk
    <3>2. BaseInv'
      BY <3>1 DEF FSInv, BaseInv, FSType, Locals, EntriesAllocated, IsDir, Entries,
         CounterBehind
    <3>3. Reserved' = Reserved /\ NumberOwners' = NumberOwners
      BY <3>1 DEF Reserved, NumberOwners, IsDir, DistinctEntries, Entries
    <3>4. DataOwners' = DataOwners /\ Kept' = Kept
      BY <3>1 DEF DataOwners, Kept, Writing, Files, Entries
    <3>. QED
      BY <3>1, <3>2, <3>3, <3>4 DEF FSInv
  <2>. QED
    BY <2>1, <2>2, <2>3 DEF Next
<1>. QED
  BY <1>1, FSInitially, PTL DEF Spec

(* sfs.c: type correctness.                                                *)
THEOREM DiskTypeCorrect == Spec => []TypeOK
<1>1. FSInv => TypeOK
  BY DEF FSInv, BaseInv, FSType, TypeOK
<1>. QED
  BY <1>1, FSInvariant, PTL

(* sfs_create marks an inode before the root names it: on a mounted file   *)
(* system, and on the disk that an unmount or a crash leaves, an entry of  *)
(* the root is marked as used, as long as no block was written back over a *)
(* change.  The exception is a disk on which sfs_init was under way: it    *)
(* writes the map before the root.                                         *)
THEOREM EntriesAreAllocated == Spec => []EntriesAllocated
<1>1. FSInv => EntriesAllocated
  BY DEF FSInv, BaseInv
<1>. QED
  BY <1>1, FSInvariant, PTL

(* sfs_create: at every moment, and so whenever the machine stops, no inode*)
(* has two entries in a root that is a directory, and the data block of a  *)
(* file is marked as used and in no other file, as long as no block was    *)
(* written back over a change.                                             *)
THEOREM NothingHasTwoOwners == Spec => []OneOwner
<1>1. FSInv => OneOwner
  BY DEF FSInv, NumberOwners, DataOwners, DistinctEntries, OneOwner
<1>. QED
  BY <1>1, FSInvariant, PTL

(* sfs_create: a file whose create has returned 0 stays an entry of the    *)
(* root with its inode on the disk until the end of the mount, until an    *)
(* inode is written over another one, or until a block is written back over*)
(* a change.                                                               *)
THEOREM CreatedFilesAreKept == Spec => []CreatedKept
<1>1. FSInv => CreatedKept
  BY DEF FSInv, Kept, CreatedKept, CreatedExists
<1>. QED
  BY <1>1, FSInvariant, PTL

(* sfs_init and sfs_create: an entry of a mounted root has its inode on the*)
(* disk or a create about to write it, whatever crashes came before; again *)
(* until an inode is written over another one or a block over a change.    *)
THEOREM EntriesHaveInodes == Spec => []EntriesComplete
<1>1. FSInv => EntriesComplete
  BY DEF FSInv, Kept, Writing, Step, EntriesComplete
<1>. QED
  BY <1>1, FSInvariant, PTL

(* The test of sfs_create for a full map is dead code, though the map can  *)
(* fill up: as long as no block was written back over a change, the counter*)
(* it compares stays below the number of marked bytes.                     *)
THEOREM FullMapIsNotSeen ==
  Spec => [](~raced /\ phase = "up" => numOccupiedInodeBytemap # NInodes)
<1>. DEFINE Unseen == ~raced /\ phase = "up" => numOccupiedInodeBytemap # NInodes
<1>1. FSInv => Unseen
  <2>. SUFFICES ASSUME FSInv, ~raced, phase = "up"
                PROVE  numOccupiedInodeBytemap # NInodes
    OBVIOUS
  <2>1. imap \subseteq Inumb /\ numOccupiedInodeBytemap \in Nat
    BY DEF FSInv, BaseInv, FSType
  <2>2. Cardinality(Inumb) = NInodes
    BY FS_Interval, FileSystemAssumption DEF Inumb
  <2>3. Cardinality(imap) \in Nat /\ Cardinality(imap) <= NInodes
    BY <2>1, <2>2, Sizes, FS_Subset, FS_CardinalityType
  <2>4. numOccupiedInodeBytemap < Cardinality(imap)
    BY DEF FSInv, BaseInv, CounterBehind
  <2>. QED
    BY <2>1, <2>3, <2>4, FileSystemAssumption
<1>. HIDE DEF Unseen
<1>2. Spec => []Unseen
  BY <1>1, FSInvariant, PTL
<1>. QED
  BY <1>2 DEF Unseen
=============================================================================
