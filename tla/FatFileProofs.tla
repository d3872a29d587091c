--------------------------- MODULE FatFileProofs ----------------------------
(***************************************************************************)
(* A file object that validate() accepts is really open, for any names,    *)
(* data, lock table size and number of disk errors.                        *)
(***************************************************************************)
EXTENDS FatFile, SequenceTheorems, TLAPS

(* A file object is never of a later mount than the volume's: mounting     *)
(* again makes it invalid for good.                                        *)
NotFromLaterMount == gFile.id <= fsId

FatInv == FatTypeOK /\ ValidFileIsOpen /\ LockedOnce /\ NotFromLaterMount

Entries == 1..FsLock

LEMMA ClearedLocksType ==
  /\ ClearedLocks \in [Entries -> Names \cup {NoName}]
  /\ \A i \in Entries : ClearedLocks[i] = NoName
BY DEF ClearedLocks, Entries

(* findVolume leaves a well-formed lock table in which no file is twice.   *)
LEMMA VolumeLocksType ==
  ASSUME FatTypeOK, LockedOnce, NEW mounts \in BOOLEAN
  PROVE  /\ VolumeLocks(mounts) \in [Entries -> Names \cup {NoName}]
         /\ \A i, j \in Entries :
              /\ VolumeLocks(mounts)[i] = VolumeLocks(mounts)[j]
              /\ VolumeLocks(mounts)[i] # NoName
              => i = j
         /\ VolumeId(mounts) \in Nat /\ VolumeId(mounts) >= fsId
BY ClearedLocksType
   DEF FatTypeOK, LockedOnce, VolumeLocks, VolumeId, Entries

LEMMA FaultsCounted ==
  ASSUME faults \in 0..MaxFaults, DiskOk \/ DiskError
  PROVE  faults' \in 0..MaxFaults
BY FatFileAssumption DEF DiskOk, DiskError

LEMMA FatInitInv == FatInit => FatInv
<1> SUFFICES ASSUME FatInit PROVE FatInv
  OBVIOUS
<1> USE FatFileAssumption
<1>1. PICK n \in Names :
        gFile = [fs |-> FALSE, id |-> 0, lockid |-> 0, name |-> n,
                 data |-> << >>, err |-> FALSE]
  BY DEF FatInit
<1>2. << >> \in Content
  BY EmptySeq DEF Content
<1>3. gFile \in [fs : BOOLEAN, id : Nat, lockid : 0..FsLock, name : Names,
                 data : Content, err : BOOLEAN]
  BY <1>1, <1>2
<1>4. FatTypeOK
  BY <1>1, <1>3 DEF FatInit, FatTypeOK
<1>5. ~Valid
  BY <1>1 DEF Valid
<1>6. LockedOnce /\ NotFromLaterMount
  BY <1>1 DEF FatInit, LockedOnce, NotFromLaterMount
<1>7. QED
  BY <1>4, <1>5, <1>6 DEF FatInv, ValidFileIsOpen

LEMMA FOpenSucceedsInv ==
  ASSUME FatInv, NEW n \in Names, FOpenSucceeds(n)
  PROVE  FatInv'
<1> USE FatFileAssumption DEF Entries
<1>1. FatTypeOK /\ LockedOnce
  BY DEF FatInv
<1> PICK mounts \in BOOLEAN :
       LET locks == VolumeLocks(mounts) IN
       /\ NeedsMount(mounts) /\ MayLock(locks, n)
       /\ mounted' = TRUE /\ fsId' = VolumeId(mounts)
       /\ \E i \in FirstFree(locks) :
          /\ Files' = [locks EXCEPT ![i] = n]
          /\ gFile' = [fs |-> TRUE, id |-> fsId', lockid |-> i, name |-> n,
                       data |-> << >>, err |-> FALSE]
       /\ card' = [card EXCEPT ![n] = << >>]
  BY DEF FOpenSucceeds
<1> DEFINE locks == VolumeLocks(mounts)
<1>2. PICK i \in FirstFree(locks) :
        /\ Files' = [locks EXCEPT ![i] = n]
        /\ gFile' = [fs |-> TRUE, id |-> fsId', lockid |-> i, name |-> n,
                     data |-> << >>, err |-> FALSE]
  OBVIOUS
<1>3. i \in Entries /\ locks[i] = NoName
  BY <1>2 DEF FirstFree, FreeEntries
<1>4. \A j \in Entries : locks[j] # n
  BY DEF MayLock
<1>5. /\ Files' \in [Entries -> Names \cup {NoName}]
      /\ Files'[i] = n
      /\ \A j \in Entries : j # i => Files'[j] = locks[j]
  BY <1>1, <1>2, <1>3, VolumeLocksType
<1>6. << >> \in Content
  BY EmptySeq DEF Content
<1>7. fsId' \in Nat /\ mounted' = TRUE
  BY <1>1, VolumeLocksType
<1>16. faults' \in 0..MaxFaults
  BY <1>1, FaultsCounted DEF NeedsMount, FatTypeOK
<1>8. /\ card' \in [Names -> Content \cup {Absent}]
      /\ card'[n] = << >>
  BY <1>1, <1>6 DEF FatTypeOK
<1>9. gFile' \in [fs : BOOLEAN, id : Nat, lockid : 0..FsLock, name : Names,
                  data : Content, err : BOOLEAN]
  BY <1>2, <1>3, <1>6, <1>7
<1>10. gFile'.lockid = i /\ gFile'.lockid # 0 /\ gFile'.name = n
       /\ gFile'.id = fsId'
  BY <1>2, <1>3
<1>11. FatTypeOK'
  BY <1>1, <1>5, <1>7, <1>8, <1>9, <1>10, <1>16 DEF FatTypeOK
<1>12. LockedOnce'
  BY <1>1, <1>4, <1>5, VolumeLocksType DEF LockedOnce
<1>13. ValidFileIsOpen'
  BY <1>5, <1>6, <1>8, <1>10 DEF ValidFileIsOpen, Content
<1>14. NotFromLaterMount'
  BY <1>7, <1>10 DEF NotFromLaterMount
<1>15. QED
  BY <1>11, <1>12, <1>13, <1>14 DEF FatInv

(* Without a valid file object, or with one that was valid before on the   *)
(* same mount, lock table and directory, the rest of the invariant stays.  *)
LEMMA FOpenFailsInv ==
  ASSUME FatInv, NEW n \in Names, FOpenFails(n)
  PROVE  FatInv'
<1> USE FatFileAssumption DEF Entries
<1>1. FatTypeOK /\ LockedOnce /\ NotFromLaterMount
  BY DEF FatInv
<1>2. gFile' = [gFile EXCEPT !.fs = FALSE]
  BY DEF FOpenFails, InvalidateFile
<1>3. /\ gFile' \in [fs : BOOLEAN, id : Nat, lockid : 0..FsLock, name : Names,
                     data : Content, err : BOOLEAN]
      /\ gFile'.fs = FALSE /\ gFile'.id = gFile.id
  BY <1>1, <1>2 DEF FatTypeOK
<1>4. << >> \in Content
  BY EmptySeq DEF Content
<1>5. /\ card' \in [Names -> Content \cup {Absent}]
      /\ mounted' \in BOOLEAN
  BY <1>1, <1>4 DEF FOpenFails, FatTypeOK
<1>12. faults' \in 0..MaxFaults
  BY <1>1, FaultsCounted DEF FOpenFails, FatTypeOK
<1>6. fsId' \in Nat /\ fsId' >= fsId
  <2>1. fsId' \in {fsId, VolumeId(~mounted)}
    BY DEF FOpenFails
  <2>2. fsId \in Nat /\ VolumeId(~mounted) \in Nat /\ VolumeId(~mounted) >= fsId
    BY <1>1, VolumeLocksType DEF FatTypeOK
  <2>3. QED
    BY <2>1, <2>2
<1>7. Files' \in [Entries -> Names \cup {NoName}] /\ LockedOnce'
  <2>1. Files' \in {Files, VolumeLocks(~mounted)}
    BY DEF FOpenFails
  <2>2. QED
    BY <1>1, <2>1, VolumeLocksType DEF FatTypeOK, LockedOnce
<1>8. FatTypeOK'
  BY <1>3, <1>5, <1>6, <1>7, <1>12 DEF FatTypeOK
<1>9. ValidFileIsOpen'
  BY <1>3 DEF ValidFileIsOpen, Valid
<1>10. NotFromLaterMount'
  BY <1>1, <1>3, <1>6 DEF NotFromLaterMount, FatTypeOK
<1>11. QED
  BY <1>7, <1>8, <1>9, <1>10 DEF FatInv

LEMMA FWriteInv ==
  ASSUME FatInv, NEW d \in Data, FWrite(d)
  PROVE  FatInv'
<1> USE FatFileAssumption
<1>1. FatTypeOK /\ LockedOnce /\ NotFromLaterMount /\ ValidFileIsOpen
  BY DEF FatInv
<1>2. UNCHANGED <<card, mounted, fsId, Files>>
  BY DEF FWrite
<1>3. gFile.data \in Content
  BY <1>1 DEF FatTypeOK
<1>4. \/ gFile' = [gFile EXCEPT !.data = Append(@, d)]
      \/ \E data \in {gFile.data, Append(gFile.data, Torn)} :
            gFile' = [gFile EXCEPT !.data = data, !.err = TRUE]
      \/ UNCHANGED gFile
  BY DEF FWrite
<1>5. /\ gFile' \in [fs : BOOLEAN, id : Nat, lockid : 0..FsLock, name : Names,
                     data : Content, err : BOOLEAN]
      /\ gFile'.fs = gFile.fs /\ gFile'.id = gFile.id
      /\ gFile'.lockid = gFile.lockid /\ gFile'.name = gFile.name
  <2>1. CASE gFile' = [gFile EXCEPT !.data = Append(@, d)]
    <3>1. Append(gFile.data, d) \in Content
      <4>1. d \in Data \cup {Torn}
        OBVIOUS
      <4>2. QED
        BY <1>3, <4>1, AppendProperties DEF Content
    <3>2. QED
      BY <1>1, <2>1, <3>1 DEF FatTypeOK
  <2>2. CASE \E data \in {gFile.data, Append(gFile.data, Torn)} :
               gFile' = [gFile EXCEPT !.data = data, !.err = TRUE]
    <3>1. Append(gFile.data, Torn) \in Content
      <4>1. Torn \in Data \cup {Torn}
        OBVIOUS
      <4>2. QED
        BY <1>3, <4>1, AppendProperties DEF Content
    <3>2. QED
      BY <1>1, <1>3, <2>2, <3>1 DEF FatTypeOK
  <2>3. CASE UNCHANGED gFile
    BY <1>1, <2>3 DEF FatTypeOK
  <2>4. QED
    BY <1>4, <2>1, <2>2, <2>3
<1>6. faults' \in 0..MaxFaults
  BY <1>1 DEF FWrite, FatTypeOK, DiskOk, DiskError
<1>7. FatTypeOK'
  BY <1>1, <1>2, <1>5, <1>6 DEF FatTypeOK
<1>8. ValidFileIsOpen' /\ LockedOnce' /\ NotFromLaterMount'
  BY <1>1, <1>2, <1>5
     DEF ValidFileIsOpen, Valid, LockedOnce, NotFromLaterMount
<1>9. QED
  BY <1>7, <1>8 DEF FatInv

LEMMA FCloseInv == FatInv /\ FClose => FatInv'
<1> SUFFICES ASSUME FatInv, FClose PROVE FatInv'
  OBVIOUS
<1> USE FatFileAssumption
<1>1. FatTypeOK /\ LockedOnce /\ NotFromLaterMount /\ ValidFileIsOpen
  BY DEF FatInv
<1> DEFINE synced == [card EXCEPT ![gFile.name] = gFile.data]
<1>2. UNCHANGED <<mounted, fsId>>
  BY DEF FClose
<1>3. /\ gFile.name \in Names /\ gFile.data \in Content
      /\ synced \in [Names -> Content \cup {Absent}]
      /\ synced[gFile.name] # Absent
  BY <1>1 DEF FatTypeOK, Content
<1>4. /\ card' \in {card, synced}
      /\ faults' \in 0..MaxFaults
  BY <1>1 DEF FClose, FatTypeOK, DiskOk, DiskError
<1>5. CASE CloseFile
  <2>1. /\ gFile' \in [fs : BOOLEAN, id : Nat, lockid : 0..FsLock,
                       name : Names, data : Content, err : BOOLEAN]
        /\ gFile'.fs = FALSE /\ gFile'.id = gFile.id
    BY <1>1, <1>5 DEF CloseFile, InvalidateFile, FatTypeOK
  <2>2. /\ Files' \in [1..FsLock -> Names \cup {NoName}]
        /\ \A i \in 1..FsLock : Files'[i] \in {Files[i], NoName}
    BY <1>1, <1>5 DEF CloseFile, FatTypeOK
  <2>3. FatTypeOK'
    BY <1>1, <1>2, <1>3, <1>4, <2>1, <2>2 DEF FatTypeOK
  <2>4. LockedOnce'
    BY <1>1, <2>2 DEF LockedOnce
  <2>5. ValidFileIsOpen' /\ NotFromLaterMount'
    BY <1>1, <1>2, <2>1 DEF ValidFileIsOpen, Valid, NotFromLaterMount
  <2>6. QED
    BY <2>3, <2>4, <2>5 DEF FatInv
<1>6. CASE UNCHANGED <<Files, gFile>>
  <2>1. FatTypeOK'
    BY <1>1, <1>2, <1>3, <1>4, <1>6 DEF FatTypeOK
  <2>2. ValidFileIsOpen'
    BY <1>1, <1>2, <1>3, <1>4, <1>6 DEF ValidFileIsOpen, Valid
  <2>3. LockedOnce' /\ NotFromLaterMount'
    BY <1>1, <1>2, <1>6 DEF LockedOnce, NotFromLaterMount
  <2>4. QED
    BY <2>1, <2>2, <2>3 DEF FatInv
<1>7. QED
  BY <1>5, <1>6 DEF FClose

LEMMA FMkfsInv == FatInv /\ FMkfs => FatInv'
<1> SUFFICES ASSUME FatInv, FMkfs PROVE FatInv'
  OBVIOUS
<1>1. FatTypeOK /\ LockedOnce /\ NotFromLaterMount
  BY DEF FatInv
<1>2. mounted' = FALSE /\ UNCHANGED <<fsId, Files, gFile>>
  BY DEF FMkfs
<1>3. card' \in [Names -> Content \cup {Absent}] /\ faults' \in 0..MaxFaults
  BY <1>1, FatFileAssumption DEF FMkfs, FatTypeOK, DiskOk, DiskError
<1>4. FatTypeOK'
  BY <1>1, <1>2, <1>3 DEF FatTypeOK
<1>5. ValidFileIsOpen' /\ LockedOnce' /\ NotFromLaterMount'
  BY <1>1, <1>2 DEF ValidFileIsOpen, Valid, LockedOnce, NotFromLaterMount
<1>6. QED
  BY <1>4, <1>5 DEF FatInv

LEMMA FMountInv == FatInv /\ FMount => FatInv'
<1> SUFFICES ASSUME FatInv, FMount PROVE FatInv'
  OBVIOUS
<1>1. FatTypeOK /\ LockedOnce /\ NotFromLaterMount
  BY DEF FatInv
<1>2. Files' = ClearedLocks /\ UNCHANGED <<card, gFile>>
  BY DEF FMount
<1>3. /\ mounted' \in BOOLEAN
      /\ fsId' \in Nat /\ gFile.id <= fsId'
      /\ mounted' => gFile.id # fsId'
  <2>1. fsId \in Nat /\ gFile.id \in Nat /\ gFile.id <= fsId
    BY <1>1 DEF FatTypeOK, NotFromLaterMount
  <2>2. \/ mounted' = TRUE /\ fsId' = fsId + 1
        \/ mounted' = FALSE /\ fsId' = fsId
    BY DEF FMount
  <2>3. CASE mounted' = TRUE /\ fsId' = fsId + 1
    BY <2>1, <2>3
  <2>4. CASE mounted' = FALSE /\ fsId' = fsId
    BY <2>1, <2>4
  <2>5. QED
    BY <2>2, <2>3, <2>4
<1>8. faults' \in 0..MaxFaults
  BY <1>1, FaultsCounted DEF FMount, FatTypeOK
<1>4. FatTypeOK'
  BY <1>1, <1>2, <1>3, <1>8, ClearedLocksType DEF FatTypeOK, Entries
<1>5. LockedOnce'
  BY <1>2, ClearedLocksType DEF LockedOnce, Entries
<1>6. ValidFileIsOpen' /\ NotFromLaterMount'
  BY <1>2, <1>3 DEF ValidFileIsOpen, Valid, NotFromLaterMount
<1>7. QED
  BY <1>4, <1>5, <1>6 DEF FatInv

LEMMA FatInvStep == FatInv /\ [FatNext]_fatVars => FatInv'
<1> SUFFICES ASSUME FatInv, [FatNext]_fatVars PROVE FatInv'
  OBVIOUS
<1>1. ASSUME NEW n \in Names, FOpen(n) PROVE FatInv'
  BY <1>1, FOpenSucceedsInv, FOpenFailsInv DEF FOpen
<1>2. ASSUME NEW d \in Data, FWrite(d) PROVE FatInv'
  BY <1>2, FWriteInv
<1>3. CASE FClose
  BY <1>3, FCloseInv
<1>4. CASE FMkfs
  BY <1>4, FMkfsInv
<1>5. CASE FMount
  BY <1>5, FMountInv
<1>6. CASE UNCHANGED fatVars
  BY <1>6 DEF fatVars, FatInv, FatTypeOK, ValidFileIsOpen, Valid,
              LockedOnce, NotFromLaterMount
<1> QED
  BY <1>1, <1>2, <1>3, <1>4, <1>5, <1>6 DEF FatNext

(* The invariant is inductive: whatever is opened, written, closed,        *)
(* formatted or mounted, in any order and with any disk errors.            *)
THEOREM FatInvariance == FatSpec => []FatInv
BY FatInitInv, FatInvStep, PTL DEF FatSpec

(* f_close never gives back the lock of another file, and never writes the *)
(* directory entry of a file that was formatted away.                      *)
THEOREM ValidIsOpen == FatSpec => []ValidFileIsOpen
<1>1. FatInv => ValidFileIsOpen
  BY DEF FatInv
<1>2. QED
  BY <1>1, FatInvariance, PTL

(* The lock table, the file object and the card stay well-formed.          *)
THEOREM FatTypeCorrect == FatSpec => []FatTypeOK
<1>1. FatInv => FatTypeOK
  BY DEF FatInv
<1>2. QED
  BY <1>1, FatInvariance, PTL

(* A file is never open twice.                                             *)
THEOREM NeverOpenTwice == FatSpec => []LockedOnce
<1>1. FatInv => LockedOnce
  BY DEF FatInv
<1>2. QED
  BY <1>1, FatInvariance, PTL
=============================================================================
