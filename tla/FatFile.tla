------------------------------ MODULE FatFile -------------------------------
(***************************************************************************)
(* The part of FatFs/ff.cpp behind a FIL: a file object that is opened for *)
(* writing, written, closed, and left behind when the volume is formatted  *)
(* or mounted again.  The volume keeps a table of _FS_LOCK open files; an  *)
(* entry is taken by f_open and given back by the f_close of the same file *)
(* object.  FatFs does not know which file objects exist: one that is used *)
(* again without f_close keeps its entry until the next mount.             *)
(*                                                                         *)
(* A file on the card is the sequence of the pieces written to it.  A disk *)
(* error may hit any operation.                                            *)
(***************************************************************************)
EXTENDS Integers, Sequences

CONSTANTS
  Names,        \* the file names
  Data,         \* the pieces that are written
  Absent,       \* what the card holds under a name that does not exist
  NoName,       \* a free entry of the lock table
  Torn,         \* a piece that was cut short by a disk error
  FsLock,       \* _FS_LOCK
  MaxFaults     \* how many disk errors there are

ASSUME FatFileAssumption ==
  /\ NoName \notin Names
  /\ Absent \notin Seq(Data \cup {Torn})
  /\ FsLock \in Nat \ {0}
  /\ MaxFaults \in Nat

VARIABLES
  card,         \* the directory: what is saved under each name
  mounted,      \* FATFS.fs_type # 0
  fsId,         \* FATFS.id, the number of mounts
  Files,        \* the lock table
  gFile,        \* the file object
  faults        \* disk errors that may still happen

fatVars == <<card, mounted, fsId, Files, gFile, faults>>

Content == Seq(Data \cup {Torn})

(* gFile is a zeroed static; f_mount found a volume.                       *)
FatInit ==
  /\ card = [n \in Names |-> Absent]
  /\ mounted = TRUE /\ fsId = 1
  /\ Files = [i \in 1..FsLock |-> NoName]
  /\ \E n \in Names :
       gFile = [fs |-> FALSE, id |-> 0, lockid |-> 0, name |-> n,
                data |-> << >>, err |-> FALSE]
  /\ faults = MaxFaults

DiskOk == UNCHANGED faults
DiskError == faults > 0 /\ faults' = faults - 1

-----------------------------------------------------------------------------
(* validate(): the object is of this mount of the volume.                  *)
(* Mutant: of any mount.                                                   *)
Valid_AnyMount == gFile.fs /\ mounted
Valid == gFile.fs /\ mounted /\ gFile.id = fsId

ClearedLocks == [i \in 1..FsLock |-> NoName]
FreeEntries(locks) == {i \in 1..FsLock : locks[i] = NoName}

(* The entry incLock registers the file in, counted from 1 because 0 is an *)
(* error.                                                                  *)
FirstFree(locks) ==
  {i \in FreeEntries(locks) : \A j \in FreeEntries(locks) : i <= j}

(* chkLock and enqLock for a file opened to write: not open yet, and there *)
(* is an entry for it.  Mutant: a file that is open already is accepted.   *)
MayLock_OpenFile(locks, n) == FreeEntries(locks) # {}
MayLock(locks, n) ==
  (\A i \in 1..FsLock : locks[i] # n) /\ FreeEntries(locks) # {}

(* findVolume() mounts the volume if it is not, and again if the card is   *)
(* not ready when diskStatus() asks but is by diskInit().  A mount has a   *)
(* new id and clears the locks.                                            *)
NeedsMount(mounts) == \/ DiskOk /\ mounts = ~mounted
                      \/ DiskError /\ mounts = TRUE
VolumeId(mounts) == IF mounts THEN fsId + 1 ELSE fsId
VolumeLocks(mounts) == IF mounts THEN ClearedLocks ELSE Files

InvalidateFile == gFile' = [gFile EXCEPT !.fs = FALSE]

(* f_open(&gFile, n, FA_WRITE | FA_CREATE_ALWAYS).  Whatever gFile was, it *)
(* is forgotten.                                                           *)
FOpenSucceeds(n) ==
  \E mounts \in BOOLEAN :
    LET locks == VolumeLocks(mounts) IN
    /\ NeedsMount(mounts) /\ MayLock(locks, n)
    /\ mounted' = TRUE /\ fsId' = VolumeId(mounts)
    /\ \E i \in FirstFree(locks) :
       /\ Files' = [locks EXCEPT ![i] = n]
       /\ gFile' = [fs |-> TRUE, id |-> fsId', lockid |-> i, name |-> n,
                    data |-> << >>, err |-> FALSE]
    /\ card' = [card EXCEPT ![n] = << >>]

(* The card is not ready; FR_LOCKED or FR_TOO_MANY_OPEN_FILES; a disk      *)
(* error before or after the entry in the directory was made.              *)
FOpenFails(n) ==
  /\ InvalidateFile
  /\ \/ /\ DiskError
        /\ mounted' \in {mounted, FALSE}
        /\ UNCHANGED <<card, fsId, Files>>
     \/ /\ mounted' = TRUE
        /\ fsId' = VolumeId(~mounted) /\ Files' = VolumeLocks(~mounted)
        /\ \/ ~MayLock(Files', n) /\ DiskOk /\ UNCHANGED card
           \/ /\ MayLock(Files', n) /\ DiskError
              /\ card' \in {card, [card EXCEPT ![n] = << >>]}

FOpen(n) == FOpenSucceeds(n) \/ FOpenFails(n)

(* f_write(): a file object that is not valid (or seems so, the card not   *)
(* being ready), or had an error, refuses.  No caller looks at the result. *)
FWrite(d) ==
  /\ UNCHANGED <<card, mounted, fsId, Files>>
  /\ \/ /\ Valid /\ ~gFile.err /\ DiskOk
        /\ gFile' = [gFile EXCEPT !.data = Append(@, d)]
     \/ /\ Valid /\ ~gFile.err /\ DiskError
        /\ \E data \in {gFile.data, Append(gFile.data, Torn)} :
             gFile' = [gFile EXCEPT !.data = data, !.err = TRUE]
     \/ Valid /\ ~gFile.err /\ DiskError /\ UNCHANGED gFile
     \/ ~(Valid /\ ~gFile.err) /\ DiskOk /\ UNCHANGED gFile

(* decLock() and the end of f_close.  Mutant: the object stays valid.      *)
CloseFile_StaysValid ==
  Files' = [Files EXCEPT ![gFile.lockid] = NoName] /\ UNCHANGED gFile
CloseFile ==
  Files' = [Files EXCEPT ![gFile.lockid] = NoName] /\ InvalidateFile

(* f_close(): f_sync() writes the directory entry; if it cannot, the file  *)
(* stays open.                                                             *)
FClose ==
  LET synced == [card EXCEPT ![gFile.name] = gFile.data] IN
  /\ UNCHANGED <<mounted, fsId>>
  /\ \/ Valid /\ DiskOk /\ card' = synced /\ CloseFile
     \/ /\ Valid /\ DiskError /\ card' \in {card, synced}
        /\ UNCHANGED <<Files, gFile>>
     \/ ~Valid /\ DiskOk /\ UNCHANGED <<card, Files, gFile>>

(* f_mkfs(): the volume is not mounted any more, and empty unless the disk *)
(* failed early.                                                           *)
FMkfs ==
  /\ mounted' = FALSE
  /\ \/ DiskOk /\ card' = [n \in Names |-> Absent]
     \/ DiskError /\ card' \in {card, [n \in Names |-> Absent]}
  /\ UNCHANGED <<fsId, Files, gFile>>

(* f_mount(&gFatFs, "", 1)                                                 *)
FMount ==
  /\ Files' = ClearedLocks
  /\ \/ DiskOk /\ mounted' = TRUE /\ fsId' = fsId + 1
     \/ DiskError /\ mounted' = FALSE /\ UNCHANGED fsId
  /\ UNCHANGED <<card, gFile>>

(* What any user of one file object may do.                                *)
FatNext ==
  \/ \E n \in Names : FOpen(n)
  \/ \E d \in Data : FWrite(d)
  \/ FClose \/ FMkfs \/ FMount

FatSpec == FatInit /\ [][FatNext]_fatVars

-----------------------------------------------------------------------------
FatTypeOK ==
  /\ card \in [Names -> Content \cup {Absent}]
  /\ mounted \in BOOLEAN /\ fsId \in Nat
  /\ Files \in [1..FsLock -> Names \cup {NoName}]
  /\ gFile \in [fs : BOOLEAN, id : Nat, lockid : 0..FsLock, name : Names,
                data : Content, err : BOOLEAN]
  /\ gFile.fs => gFile.lockid # 0
  /\ faults \in 0..MaxFaults

(* A file object that FatFs takes for valid is really open: the directory  *)
(* has its entry and the lock table its lock, so that closing it neither   *)
(* gives back the lock of another file nor writes the directory entry of   *)
(* one that was formatted away, whatever was formatted, mounted or failed  *)
(* since it was opened.                                                    *)
ValidFileIsOpen ==
  Valid => /\ Files[gFile.lockid] = gFile.name
           /\ card[gFile.name] # Absent

(* No file is open twice.                                                  *)
LockedOnce ==
  \A i, j \in 1..FsLock : Files[i] = Files[j] /\ Files[i] # NoName => i = j
=============================================================================
