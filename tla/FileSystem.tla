------------------------------ MODULE FileSystem ------------------------------
(***************************************************************************)
(* The file system of src/Simple_File_System/src/sfs.c on the blocks of    *)
(* block.c: two byte maps and the inodes, of which the root directory is   *)
(* number 0.  FUSE calls the handlers from several threads and the code    *)
(* has no lock, so every block_read and block_write is a step; so is a     *)
(* crash.  A mount is sfs_init, which formats.                             *)
(*                                                                         *)
(* Paths are the root or a file in it: sfs_mkdir is an empty stub.  An     *)
(* inode has 128 bytes on the 64-bit build, so a block holds PerBlock      *)
(* whole ones.  sfs_create stores the inode of a new file at the offset of *)
(* its directory, which is 0 for the root: one inode a block is ever       *)
(* written, so a block is modelled as the inode at offset 0.               *)
(***************************************************************************)
EXTENDS Integers, FiniteSets

CONSTANTS
  Caller,    \* the threads of FUSE
  Name,      \* files in the root: the token of the path "/name"
  NInodes,   \* bytes of the inode map (5000)
  NData,     \* bytes of the data map (5000)
  MapSpan,   \* bytes of a map in one block (512)
  PerBlock,  \* inodes in a block (4)
  NSlots     \* block_ptr of an inode (10)

ASSUME FileSystemAssumption ==
  /\ IsFiniteSet(Caller)
  /\ NInodes \in Nat \ {0} /\ NData \in Nat \ {0}
  /\ MapSpan \in Nat \ {0} /\ PerBlock \in Nat \ {0} /\ NSlots \in Nat \ {0}

Inumb == 0..NInodes - 1
Datum == 0..NData - 1
Entry == 0..NSlots - 1
Group == {n \div PerBlock : n \in Inumb}
None  == -1

VARIABLES
  imap, dmap,      \* the entries of the byte maps that are 1
  inodeAt,         \* the inode at offset 0 of each inode block
  numOccupiedInodeBytemap,
  phase,           \* "down", "format" between the writes of sfs_init, "up";
                   \* "torn" if the machine stopped between them
  call,            \* what each thread of FUSE is doing, with its locals
  created,         \* history: the files whose create has returned 0 since the mount
  overwritten,     \* history: since the mount an inode was written over another one
  raced            \* history: a block was written back that had changed since the read

disk == << imap, dmap, inodeAt >>
vars == << disk, numOccupiedInodeBytemap, phase, call, created, overwritten, raced >>

Inode(state, flag, name, uid, ptr) ==
  [state |-> state, flag |-> flag, name |-> name, uid |-> uid, block_ptr |-> ptr]

Zeros     == Inode("none", "closed", << >>, 0, [i \in Entry |-> 0])
FreshRoot == Inode("d", "closed", << >>, 0, [i \in Entry |-> None])

Idle == [pc |-> "idle", name |-> << >>, dir |-> Zeros, map |-> {}, inumb |-> None,
         data |-> None]

(* A disk file that has never been used reads as zeros.                    *)
Init ==
  /\ imap = {} /\ dmap = {}
  /\ inodeAt = [g \in Group |-> Zeros]
  /\ numOccupiedInodeBytemap = 0
  /\ phase = "down"
  /\ call = [c \in Caller |-> Idle]
  /\ created = {} /\ overwritten = FALSE /\ raced = FALSE

-----------------------------------------------------------------------------
(***************************************************************************)
(* sfs_init and the end of a mount.                                        *)
(***************************************************************************)
MapBlock(n, all) == {m \in all : m \div MapSpan = n \div MapSpan}

(* The block of the map is written from a local array of which only byte 0 *)
(* is set.  The other map blocks and the data map are left as they are.    *)
InitMap ==
  /\ phase \in {"down", "torn"}
  /\ \E stack \in SUBSET (MapBlock(0, Inumb) \ {0}) :
       imap' = (imap \ MapBlock(0, Inumb)) \cup {0} \cup stack
  /\ phase' = "format"
  /\ UNCHANGED << dmap, inodeAt, numOccupiedInodeBytemap, call, created, overwritten, raced >>

(* Faulty: a root directory that is on the disk is kept.                   *)
InitRootKept ==
  /\ phase = "format"
  /\ inodeAt' = IF inodeAt[0].state = "d" THEN inodeAt
                ELSE [inodeAt EXCEPT ![0] = FreshRoot]
  /\ numOccupiedInodeBytemap' = 0
  /\ phase' = "up" /\ created' = {} /\ overwritten' = FALSE
  /\ UNCHANGED << imap, dmap, call, raced >>

InitRoot ==
  /\ phase = "format"
  /\ inodeAt' = [inodeAt EXCEPT ![0] = FreshRoot]
  /\ numOccupiedInodeBytemap' = 0
  /\ phase' = "up" /\ created' = {} /\ overwritten' = FALSE
  /\ UNCHANGED << imap, dmap, call, raced >>

(* A crash or an unmount: sfs_destroy writes nothing.                      *)
Stop ==
  /\ phase \in {"format", "up"}
  /\ phase' = IF phase = "format" THEN "torn" ELSE "down"
  /\ call' = [c \in Caller |-> Idle]
  /\ UNCHANGED << disk, numOccupiedInodeBytemap, created, overwritten, raced >>

-----------------------------------------------------------------------------
(***************************************************************************)
(* Finding an inode.                                                       *)
(***************************************************************************)
(* What is at the offset of an inode.  Those that sfs_create never writes  *)
(* read as zeros; in the block of the root they are what the stack of      *)
(* sfs_init held, which is taken to match no name.                         *)
At(n) == IF n % PerBlock = 0 /\ n \div PerBlock \in Group
         THEN inodeAt[n \div PerBlock] ELSE Zeros

(* The entries of a directory are listed up to the first that is free.     *)
Listed(dir) ==
  {dir.block_ptr[i] : i \in {j \in Entry : \A k \in 0..j : dir.block_ptr[k] # None}}

(* A path is its tokens, as strtok finds them: << >> is the root.  The     *)
(* name that sfs_create stores is no token of a path: substring copies     *)
(* from the slash on, and leaves out the last character.                   *)
substring(name) == << "/", name >>

getInodeNumbFromPath(path) ==
  LET found == {n \in Listed(inodeAt[0]) : At(n).name = path}
  IN IF path = << >> THEN 0
     ELSE IF found # {} THEN CHOOSE n \in found : TRUE ELSE None

Begins(c) == phase = "up" /\ call[c].pc = "idle"
Step(c, label) == phase = "up" /\ call[c].pc = label

(* getBlockNumbfromInodeNumb(-1) compares with 2^64 - 128 for ever, and    *)
(* only sfs_getattr looks at the result of the search first.               *)
Hangs(c) == call' = [call EXCEPT ![c].pc = "hung"]

(* sfs_unlink, sfs_opendir, sfs_readdir and sfs_releasedir of a file: none *)
(* is ever found, so the rest of sfs_unlink is never reached.              *)
MissingPath(c) ==
  /\ Begins(c)
  /\ \E name \in Name : getInodeNumbFromPath(<< name >>) = None
  /\ Hangs(c)
  /\ UNCHANGED << disk, numOccupiedInodeBytemap, phase, created, overwritten, raced >>

-----------------------------------------------------------------------------
(***************************************************************************)
(* sfs_create                                                              *)
(***************************************************************************)
FreeSlots(dir) == {i \in Entry : dir.block_ptr[i] = None}

CreateReadDir(c) ==
  /\ Begins(c)
  /\ numOccupiedInodeBytemap # NInodes
  /\ FreeSlots(inodeAt[0]) # {}
  /\ \E name \in Name :
       call' = [call EXCEPT ![c] = [Idle EXCEPT !.pc = "inode", !.name = name,
                                                !.dir = inodeAt[0]]]
  /\ UNCHANGED << disk, numOccupiedInodeBytemap, phase, created, overwritten, raced >>

(* Faulty: the wrap-around comes one entry too late.                       *)
SearchPastEnd(c, map, all, next) ==
  \E n \in (all \cup {Cardinality(all)}) \ map :
    call' = [call EXCEPT ![c].pc = next, ![c].map = map \cap MapBlock(n, all),
                         ![c].inumb = IF next = "markInode" THEN n ELSE @,
                         ![c].data  = IF next = "markData" THEN n ELSE @]

(* getFreeBitMapEntry: from a random entry on, the first that is not 1;    *)
(* after the last comes number 1.  With none free it goes round for ever.  *)
Search(c, map, all, next) ==
  \/ \E n \in all \ map :
       call' = [call EXCEPT ![c].pc = next, ![c].map = map \cap MapBlock(n, all),
                            ![c].inumb = IF next = "markInode" THEN n ELSE @,
                            ![c].data  = IF next = "markData" THEN n ELSE @]
  \/ all \ {0} \subseteq map /\ Hangs(c)

FindInode(c) ==
  /\ Step(c, "inode")
  /\ Search(c, imap, Inumb, "markInode")
  /\ UNCHANGED << disk, numOccupiedInodeBytemap, phase, created, overwritten, raced >>

(* The block of the map is written back as it was read, with one byte set. *)
Marked(c, map, n, all) == (map \ MapBlock(n, all)) \cup call[c].map \cup {n}

(* Faulty: the byte is set in memory only.                                 *)
MarkInodeInMemory(c) ==
  /\ Step(c, "markInode")
  /\ numOccupiedInodeBytemap' = numOccupiedInodeBytemap + 1
  /\ call' = [call EXCEPT ![c].pc = "data"]
  /\ UNCHANGED << disk, phase, created, overwritten, raced >>

MarkInode(c) ==
  /\ Step(c, "markInode")
  /\ imap' = Marked(c, imap, call[c].inumb, Inumb)
  /\ raced' = (raced \/ imap \cap MapBlock(call[c].inumb, Inumb) # call[c].map)
  /\ numOccupiedInodeBytemap' = numOccupiedInodeBytemap + 1
  /\ call' = [call EXCEPT ![c].pc = "data"]
  /\ UNCHANGED << dmap, inodeAt, phase, created, overwritten >>

FindData(c) ==
  /\ Step(c, "data")
  /\ Search(c, dmap, Datum, "markData")
  /\ UNCHANGED << disk, numOccupiedInodeBytemap, phase, created, overwritten, raced >>

(* Faulty: the other map is written.                                       *)
MarkDataInInodeMap(c) ==
  /\ Step(c, "markData")
  /\ raced' = (raced \/ dmap \cap MapBlock(call[c].data, Datum) # call[c].map)
  /\ imap' = imap \cup ({call[c].data} \cap Inumb)
  /\ call' = [call EXCEPT ![c].pc = "writeDir"]
  /\ UNCHANGED << dmap, inodeAt, numOccupiedInodeBytemap, phase, created, overwritten >>

MarkData(c) ==
  /\ Step(c, "markData")
  /\ dmap' = Marked(c, dmap, call[c].data, Datum)
  /\ raced' = (raced \/ dmap \cap MapBlock(call[c].data, Datum) # call[c].map)
  /\ call' = [call EXCEPT ![c].pc = "writeDir"]
  /\ UNCHANGED << imap, inodeAt, numOccupiedInodeBytemap, phase, created, overwritten >>

(* Faulty: the first entry is taken, used or not.                          *)
FirstSlot(dir) == 0

(* The last free entry of the directory.                                   *)
ChosenSlot(dir) == CHOOSE i \in FreeSlots(dir) : \A j \in FreeSlots(dir) : j <= i

CreateWriteDir(c) ==
  /\ Step(c, "writeDir")
  /\ inodeAt' = [inodeAt EXCEPT ![0] =
       [call[c].dir EXCEPT !.block_ptr[ChosenSlot(call[c].dir)] = call[c].inumb]]
  /\ raced' = (raced \/ inodeAt[0] # call[c].dir)
  /\ call' = [call EXCEPT ![c].pc = "writeInode"]
  /\ UNCHANGED << imap, dmap, numOccupiedInodeBytemap, phase, created, overwritten >>

(* The inode goes to the offset of the directory, whatever is there: for   *)
(* an inode of the first block, the root itself.                           *)
CreateWriteInode(c) ==
  /\ Step(c, "writeInode")
  /\ LET g == call[c].inumb \div PerBlock
     IN /\ inodeAt' = [inodeAt EXCEPT ![g] =
             Inode("f", "open", substring(call[c].name), call[c].inumb,
                   [i \in Entry |-> IF i = 0 THEN call[c].data ELSE None])]
        /\ overwritten' = (overwritten \/ g = 0
                             \/ \E n \in created : n \div PerBlock = g)
  /\ created' = created \cup {call[c].inumb}
  /\ call' = [call EXCEPT ![c] = Idle]
  /\ UNCHANGED << imap, dmap, numOccupiedInodeBytemap, phase, raced >>

create(c) ==
  \/ CreateReadDir(c)
  \/ FindInode(c) \/ MarkInode(c) \/ FindData(c) \/ MarkData(c)
  \/ CreateWriteDir(c) \/ CreateWriteInode(c)

-----------------------------------------------------------------------------
(***************************************************************************)
(* sfs_opendir, sfs_readdir, sfs_releasedir on the root.                   *)
(***************************************************************************)
(* sfs_readdir opens a directory that is not open and then lists the copy  *)
(* that it read first.                                                     *)
ReadToOpen(c) ==
  /\ Begins(c)
  /\ call' = [call EXCEPT ![c].pc = "setOpen", ![c].dir = inodeAt[0]]
  /\ UNCHANGED << disk, numOccupiedInodeBytemap, phase, created, overwritten, raced >>

ReadToClose(c) ==
  /\ Begins(c)
  /\ call' = [call EXCEPT ![c].pc = "setClosed", ![c].dir = inodeAt[0]]
  /\ UNCHANGED << disk, numOccupiedInodeBytemap, phase, created, overwritten, raced >>

(* The block is written back even if the inode is no directory.            *)
WriteFlag(c) ==
  /\ \/ Step(c, "setOpen")
        /\ inodeAt' = [inodeAt EXCEPT ![0] =
             [call[c].dir EXCEPT !.flag = IF call[c].dir.state = "d" THEN "open" ELSE @]]
     \/ Step(c, "setClosed")
        /\ inodeAt' = [inodeAt EXCEPT ![0] = [call[c].dir EXCEPT !.flag = "closed"]]
  /\ raced' = (raced \/ inodeAt[0] # call[c].dir)
  /\ call' = [call EXCEPT ![c] = Idle]
  /\ UNCHANGED << imap, dmap, numOccupiedInodeBytemap, phase, created, overwritten >>

Next ==
  \/ InitMap \/ InitRoot \/ Stop
  \/ \E c \in Caller :
       \/ create(c)
       \/ MissingPath(c)
       \/ ReadToOpen(c) \/ ReadToClose(c) \/ WriteFlag(c)

Spec == Init /\ [][Next]_vars

-----------------------------------------------------------------------------
(***************************************************************************)
(* Properties.                                                             *)
(***************************************************************************)
InodeType ==
  [state : {"none", "d", "f"}, flag : {"closed", "open"},
   name : {<< >>} \cup {substring(n) : n \in Name}, uid : Inumb,
   block_ptr : [Entry -> Inumb \cup Datum \cup {None}]]

(* Type correctness.                                                       *)
TypeOK ==
  /\ imap \subseteq Inumb /\ dmap \subseteq Datum
  /\ inodeAt \in [Group -> InodeType]
  /\ numOccupiedInodeBytemap \in Nat
  /\ phase \in {"down", "format", "torn", "up"}
  /\ created \subseteq Inumb /\ overwritten \in BOOLEAN /\ raced \in BOOLEAN

Entries == {inodeAt[0].block_ptr[i] : i \in Entry} \ {None}
IsDir   == inodeAt[0].state = "d"
Files   == {g \in Group : inodeAt[g].state = "f"}

(* An entry of the root is the number of an inode that is marked as used,  *)
(* while the file system is mounted and on the disk that an unmount or a   *)
(* crash leaves behind.  Only sfs_init breaks it: it rewrites the map first*)
(* and the root, with the entries of the last mount, after that.           *)
EntriesAllocated ==
  ~raced /\ phase \in {"up", "down"} /\ IsDir => Entries \subseteq imap

(* Nothing has two owners, in any phase: no inode has two entries, no data *)
(* block is in two inodes, and those on the disk are marked as used.       *)
OneOwner ==
  ~raced =>
    /\ IsDir => \A i, j \in Entry :
         inodeAt[0].block_ptr[i] = inodeAt[0].block_ptr[j] =>
           i = j \/ inodeAt[0].block_ptr[i] = None
    /\ \A g \in Files : inodeAt[g].block_ptr[0] \in dmap
    /\ \A g, h \in Files : inodeAt[g].block_ptr[0] = inodeAt[h].block_ptr[0] => g = h

(* A file whose create has returned 0 is an entry of the root and its      *)
(* inode is on the disk.                                                   *)
CreatedExists ==
  phase = "up" => \A n \in created : /\ n \in Entries
                                     /\ inodeAt[n \div PerBlock].uid = n

(* That holds until an inode is written over another one.                  *)
CreatedKept == ~raced /\ ~overwritten => CreatedExists

(* Conversely, an entry of the mounted root has its inode on the disk, but *)
(* for the one that a create is about to write.  A crash between the two   *)
(* writes leaves an entry without an inode; no mount ever sees it.         *)
EntriesComplete ==
  ~raced /\ ~overwritten /\ phase = "up" =>
    \A n \in Entries :
      \/ inodeAt[n \div PerBlock].uid = n
      \/ \E c \in Caller : Step(c, "writeInode") /\ call[c].inumb = n
=============================================================================
