------------------------ MODULE CameraReadersProofs -------------------------
(***************************************************************************)
(* Proofs about CameraReaders, for every buffer, frame and chunk size: the *)
(* torn reads stay in the buffer, a held frame survives as long as the     *)
(* buffer has room for what comes behind it, and onDraw's cache does not   *)
(* keep an old picture.                                                    *)
(***************************************************************************)
EXTENDS CameraReaders, TLAPS

-----------------------------------------------------------------------------
(* The ring: the largest frame fits behind start and behind the latest     *)
(* frame, and the write pointer is at most one chunk off once it stopped.  *)
RingBounds ==
  /\ start \in Nat /\ wr \in Nat /\ len \in Nat /\ frame \in Int
  /\ start <= wr /\ start + MaxFrame <= BufSize
  /\ live => wr <= start + MaxFrame
  /\ wr <= start + MaxFrame + XferSize
  /\ len <= MaxFrame
  /\ frame # None => frame \in Nat /\ frame + MaxFrame <= BufSize

(* Where the ring is with respect to a frame at f whose data ends at e,    *)
(* after regions of room altogether: it has not come to the end of the     *)
(* buffer yet, or it has, and it took so much room that little of the way  *)
(* round is left.                                                          *)
Behind(e, f, room) ==
  /\ e <= start
  /\ live => start <= f + MaxFrame + room
  /\ wr <= f + 2 * MaxFrame + room + XferSize
Round(f, room) ==
  /\ live => f + 2 * MaxFrame + room + XferSize > BufSize + start
  /\ f + 2 * MaxFrame + room + XferSize > BufSize

LatestEnd == frame + len - (IF jpeg THEN EoiLen ELSE 0)
Latest == frame # None => Behind(LatestEnd, frame, 0) \/ Round(frame, 0)

(* The room of the regions that ended while the frame was held.            *)
Room(n) == n * MaxFrame
Spare == Room(age) + 3 * MaxFrame + XferSize <= BufSize
Held ==
  pc = "using" /\ Spare =>
    /\ ~overwritten
    /\ Behind(rEnd, rFrame, Room(age)) \/ Round(rFrame, Room(age))

(* What the thread has read.                                               *)
ReadBounds ==
  /\ rLen \in Nat /\ rLen <= MaxFrame
  /\ rFrame \in Int /\ rEnd \in Int /\ age \in 0..MaxAge
  /\ pc \in {"idle", "len", "jpeg", "id", "frame", "using"}
  /\ pc = "using" => rFrame \in Nat /\ rFrame + MaxFrame <= BufSize
  /\ pc \in {"idle", "len", "jpeg", "id", "frame"} => age = 0 /\ ~overwritten

Ids == (pc = "using" /\ rIdLatest => rLatest) /\ DisplayNotStuck

ReadersInv == RingBounds /\ Latest /\ ReadBounds /\ Held /\ Ids

(* A region more is one frame more of room.                                *)
LEMMA RoomSteps ==
  ASSUME NEW n \in Nat
  PROVE  /\ Room(n) \in Nat /\ Room(0) = 0 /\ Room(n + 1) = Room(n) + MaxFrame
         /\ (n + 3) * MaxFrame = Room(n) + 3 * MaxFrame
BY ReadersAssumption DEF Room

(* When the count of regions is full, nothing is claimed.                  *)
LEMMA NoSpareAtMaxAge == age = MaxAge => ~Spare
<1>1. /\ (MaxAge + 3) * MaxFrame = Room(MaxAge) + 3 * MaxFrame
      /\ Room(MaxAge) \in Nat
  BY RoomSteps, ReadersAssumption
<1> QED
  BY <1>1, ReadersAssumption DEF Spare

-----------------------------------------------------------------------------
(* What the end of a region does to the pointers.                          *)
LEMMA Moved ==
  ASSUME NextRegion
  PROVE  /\ wr + MaxFrame <= BufSize => start' = wr /\ (live' => live)
         /\ ~(wr + MaxFrame <= BufSize) => start' = 0
         /\ live' => wr' = start'
         /\ wr' # start' =>
              /\ wr' = start' + XferSize
              /\ live \/ ~(wr + MaxFrame <= BufSize)
<1>1. live' => wr' = start'
  BY Zenon DEF NextRegion
<1>2. wr + MaxFrame <= BufSize => (live' => live)
  BY Zenon DEF NextRegion
<1>3. wr' # start' => live \/ ~(wr + MaxFrame <= BufSize)
  BY Zenon DEF NextRegion
<1>4. wr' # start' => wr' = start' + XferSize
  BY Zenon DEF NextRegion
<1> QED
  BY <1>1, <1>2, <1>3, <1>4 DEF NextRegion

(* The ring's own bounds are kept by what the capture path does.           *)
LEMMA RingBoundsKept ==
  ASSUME RingBounds, Grow \/ Stop \/ Clear \/ ((Publish \/ Drop) /\ NextRegion)
  PROVE  RingBounds'
<1> USE ReadersAssumption DEF RingBounds, None
<1>1. CASE Grow
  BY <1>1 DEF Grow
<1>2. CASE Stop
  BY <1>2 DEF Stop
<1>3. CASE Clear
  BY <1>3 DEF Clear
<1>4. CASE Publish /\ NextRegion
  <2>1. len' \in Nat /\ len' <= MaxFrame /\ frame' = start
    BY <1>4 DEF Publish
  <2> QED
    BY <1>4, <2>1, Moved
<1>5. CASE Drop /\ NextRegion
  BY <1>5, Moved DEF Drop
<1> QED
  BY <1>1, <1>2, <1>3, <1>4, <1>5

(* A step within a region keeps the place of the ring.                     *)
LEMMA PlaceKept ==
  ASSUME RingBounds, Grow \/ Stop \/ Clear,
         NEW e \in Int, NEW f \in Int, NEW room \in Nat
  PROVE  /\ Behind(e, f, room) => Behind(e, f, room)'
         /\ Round(f, room) => Round(f, room)'
<1> USE ReadersAssumption DEF RingBounds, Behind, Round
<1>1. CASE Grow
  BY <1>1 DEF Grow
<1>2. CASE Stop
  BY <1>2 DEF Stop
<1>3. CASE Clear
  BY <1>3 DEF Clear
<1> QED
  BY <1>1, <1>2, <1>3

(* The end of a region takes the room of one frame.                        *)
LEMMA PlaceMoves ==
  ASSUME RingBounds, NextRegion,
         NEW e \in Int, NEW f \in Int, NEW room \in Nat,
         Behind(e, f, room) \/ Round(f, room)
  PROVE  \/ (e <= start' /\ (live' => start' <= f + 2 * MaxFrame + room)
              /\ wr' <= f + 3 * MaxFrame + room + XferSize)
         \/ ((live' => f + 3 * MaxFrame + room + XferSize > BufSize + start')
              /\ f + 3 * MaxFrame + room + XferSize > BufSize)
<1> USE ReadersAssumption DEF RingBounds
<1>1. CASE wr + MaxFrame <= BufSize /\ Behind(e, f, room)
  BY <1>1, Moved DEF Behind
<1>2. CASE wr + MaxFrame <= BufSize /\ Round(f, room)
  BY <1>2, Moved DEF Round
<1>3. CASE wr + MaxFrame > BufSize /\ Behind(e, f, room)
  BY <1>3, Moved DEF Behind
<1>4. CASE wr + MaxFrame > BufSize /\ Round(f, room)
  BY <1>4, Moved DEF Round
<1> QED
  BY <1>1, <1>2, <1>3, <1>4

(* The frame that is published is behind the ring, or the ring restarts.   *)
LEMMA PublishedPlace ==
  ASSUME RingBounds, Publish, NextRegion
  PROVE  Behind(LatestEnd, frame, 0)' \/ Round(frame, 0)'
<1> USE ReadersAssumption DEF RingBounds
<1>1. frame' = start /\ LatestEnd' \in Int /\ LatestEnd' <= wr
  BY DEF Publish, LatestEnd
<1>2. CASE wr + MaxFrame <= BufSize
  BY <1>1, <1>2, Moved DEF Behind
<1>3. CASE wr + MaxFrame > BufSize
  BY <1>1, <1>3, Moved DEF Round
<1> QED
  BY <1>2, <1>3

-----------------------------------------------------------------------------
(* The latest frame.                                                       *)
LEMMA LatestKept ==
  ASSUME RingBounds, Latest, Capture
  PROVE  Latest'
<1> USE ReadersAssumption DEF Latest
<1>1. CASE Grow \/ Stop
  <2>1. UNCHANGED <<frame, LatestEnd>>
    BY <1>1 DEF Grow, Stop, LatestEnd
  <2> QED
    BY <1>1, <2>1, PlaceKept DEF RingBounds, LatestEnd
<1>2. CASE Clear
  <2>1. CASE frame' = None
    BY <2>1
  <2>2. CASE frame' = frame /\ frame # None
    <3>1. /\ LatestEnd \in Int /\ LatestEnd' \in Int /\ LatestEnd' <= LatestEnd
          /\ start' = start /\ wr' = wr /\ live' = live /\ frame \in Nat
      BY <1>2, <2>2 DEF Clear, LatestEnd, RingBounds
    <3>2. CASE Behind(LatestEnd, frame, 0)
      <4>1. Behind(LatestEnd, frame, 0)'
        BY <3>1, <3>2, <2>2 DEF Behind, RingBounds
      <4> QED
        BY <4>1
    <3>3. CASE Round(frame, 0)
      <4>1. Round(frame, 0)'
        BY <3>1, <3>3, <2>2 DEF Round, RingBounds
      <4> QED
        BY <4>1
    <3> QED
      BY <2>2, <3>2, <3>3
  <2> QED
    BY <1>2, <2>1, <2>2 DEF Clear
<1>3. CASE Publish /\ NextRegion
  BY <1>3, PublishedPlace
<1>4. CASE Drop /\ NextRegion
  BY <1>4 DEF Drop
<1> QED
  BY <1>1, <1>2, <1>3, <1>4 DEF Capture

(* A held frame, through what the capture path does.                       *)
LEMMA HeldThroughCapture ==
  ASSUME RingBounds, ReadBounds, Held, Capture
  PROVE  Held'
<1> SUFFICES ASSUME pc' = "using", Spare'
             PROVE  /\ ~overwritten'
                    /\ \/ Behind(rEnd, rFrame, Room(age))'
                       \/ Round(rFrame, Room(age))'
  BY DEF Held
<1>1. /\ pc = "using" /\ rEnd' = rEnd /\ rFrame' = rFrame
      /\ age \in 0..MaxAge /\ rEnd \in Int /\ rFrame \in Int
      /\ MaxAge \in Nat
  BY ReadersAssumption DEF Capture, ReadBounds
<1> DEFINE room == Room(age)
<1>2. ASSUME Grow \/ Stop \/ Clear, age' = age
      PROVE  /\ ~overwritten
             /\ Behind(rEnd, rFrame, room) \/ Round(rFrame, room)
             /\ Spare /\ room \in Nat
             /\ Behind(rEnd, rFrame, Room(age))' \/ Round(rFrame, Room(age))'
  <2>1. Spare /\ room \in Nat /\ Room(age)' = room
    BY <1>1, <1>2, RoomSteps DEF Spare, Room
  <2>2. ~overwritten /\ (Behind(rEnd, rFrame, room) \/ Round(rFrame, room))
    BY <1>1, <2>1 DEF Held
  <2>3. /\ Behind(rEnd, rFrame, room) => Behind(rEnd, rFrame, room)'
        /\ Round(rFrame, room) => Round(rFrame, room)'
    BY <1>1, <1>2, <2>1, PlaceKept
  <2>4. \/ Behind(rEnd, rFrame, Room(age))'
        \/ Round(rFrame, Room(age))'
    BY <1>1, <2>1, <2>2, <2>3 DEF Behind, Round
  <2> QED
    BY <2>1, <2>2, <2>4
<1>3. CASE Grow /\ Stored /\ UNCHANGED <<age, idVars>>
  <2>1. ~(rFrame <= wr /\ wr < rEnd)
    <3>1. wr < start + MaxFrame /\ live /\ start \in Nat /\ wr \in Nat
          /\ start <= wr
      BY <1>3, ReadersAssumption DEF Grow, RingBounds
    <3>2. CASE Behind(rEnd, rFrame, room)
      BY <1>1, <3>1, <3>2 DEF Behind
    <3>3. CASE Round(rFrame, room)
      <4>1. room + 3 * MaxFrame + XferSize <= BufSize /\ room \in Nat
        BY <1>2, <1>3 DEF Spare
      <4> HIDE DEF room
      <4> QED
        BY <1>1, <3>1, <3>3, <4>1, ReadersAssumption DEF Round
    <3> QED
      BY <1>2, <1>3, <3>2, <3>3
  <2> QED
    BY <1>1, <1>2, <1>3, <2>1 DEF Stored
<1>4. CASE (Stop \/ Clear) /\ UNCHANGED <<overwritten, age, idVars>>
  BY <1>2, <1>4
<1>5. CASE (Publish \/ Drop) /\ NextRegion /\ Aged /\ UNCHANGED overwritten
  <2>1. age # MaxAge
    <3>1. age' = age \/ age' = age + 1
      BY <1>5 DEF Aged
    <3>2. age = MaxAge => age' = MaxAge
      BY <1>1, <1>5 DEF Aged
    <3>3. age' = MaxAge => ~Spare'
      BY NoSpareAtMaxAge, ReadersAssumption DEF Spare, Room
    <3> QED
      BY <3>2, <3>3
  <2>2. age' = age + 1 /\ age \in Nat
    BY <1>1, <1>5, <2>1 DEF Aged
  <2>3. Room(age)' = room + MaxFrame /\ room \in Nat
    BY <2>2, RoomSteps DEF Room
  <2> HIDE DEF room
  <2>4. room + 4 * MaxFrame + XferSize <= BufSize
    BY <2>3, ReadersAssumption DEF Spare
  <2>5. Spare
    BY <2>3, <2>4, ReadersAssumption DEF Spare, room
  <2>6. ~overwritten /\ (Behind(rEnd, rFrame, room) \/ Round(rFrame, room))
    BY <1>1, <2>5 DEF Held, room
  <2>7. \/ Behind(rEnd, rFrame, Room(age))'
        \/ Round(rFrame, Room(age))'
    <3>1. \/ /\ rEnd <= start'
             /\ live' => start' <= rFrame + 2 * MaxFrame + room
             /\ wr' <= rFrame + 3 * MaxFrame + room + XferSize
          \/ /\ live' => rFrame + 3 * MaxFrame + room + XferSize
                            > BufSize + start'
             /\ rFrame + 3 * MaxFrame + room + XferSize > BufSize
      BY <1>1, <1>5, <2>3, <2>6, PlaceMoves
    <3>2. /\ start' \in Nat /\ wr' \in Nat /\ Room(age)' = room + MaxFrame
          /\ rEnd' = rEnd /\ rFrame' = rFrame
      BY <1>1, <1>5, <2>3, RingBoundsKept DEF RingBounds
    <3>3. MaxFrame \in Nat /\ XferSize \in Nat /\ BufSize \in Nat
      BY ReadersAssumption
    <3>4. CASE /\ rEnd <= start'
               /\ live' => start' <= rFrame + 2 * MaxFrame + room
               /\ wr' <= rFrame + 3 * MaxFrame + room + XferSize
      BY <1>1, <2>3, <3>2, <3>3, <3>4 DEF Behind
    <3>5. CASE /\ live' => rFrame + 3 * MaxFrame + room + XferSize
                              > BufSize + start'
               /\ rFrame + 3 * MaxFrame + room + XferSize > BufSize
      <4> DEFINE room1 == Room(age)'
      <4>1. room1 = room + MaxFrame
        BY <3>2
      <4> HIDE DEF room1
      <4>2. rFrame + 2 * MaxFrame + room1 + XferSize
              = rFrame + 3 * MaxFrame + room + XferSize
        BY <1>1, <2>3, <3>3, <4>1
      <4>3. /\ live' => rFrame' + 2 * MaxFrame + room1 + XferSize
                           > BufSize + start'
            /\ rFrame' + 2 * MaxFrame + room1 + XferSize > BufSize
        BY <3>2, <3>5, <4>2
      <4> QED
        BY <4>3 DEF Round, room1
    <3> QED
      BY <3>1, <3>4, <3>5
  <2> QED
    BY <1>5, <2>6, <2>7
<1> QED
  BY <1>3, <1>4, <1>5 DEF Capture

-----------------------------------------------------------------------------
(* What the thread does leaves the ring alone, but for fresh.              *)
LEMMA ReaderLeavesRing ==
  ASSUME Reader
  PROVE  UNCHANGED <<start, wr, live, frame, len, jpeg>>
BY DEF Reader, WaitFrame, ReadLen, ReadJpeg, ReadId, ReadFrame, UseFrame,
       ForgetFrame, ringVars

(* What the thread has read stays in bounds.                               *)
LEMMA ReadBoundsKept ==
  ASSUME RingBounds, ReadBounds, NextReaders
  PROVE  ReadBounds'
<1> USE ReadersAssumption DEF ReadBounds, RingBounds, heldVars
<1>1. CASE Capture
  <2>1. UNCHANGED <<pc, rLen, rFrame, rEnd>>
    BY <1>1 DEF Capture
  <2>2. age' \in 0..MaxAge
    BY <1>1 DEF Capture, Aged
  <2>3. pc # "using" => age' = age /\ ~overwritten'
    BY <1>1 DEF Capture, Aged, Stored
  <2> QED
    BY <2>1, <2>2, <2>3
<1>2. CASE WaitFrame \/ ReadJpeg \/ ReadId
  BY <1>2 DEF WaitFrame, ReadJpeg, ReadId
<1>3. CASE ReadLen
  BY <1>3 DEF ReadLen
<1>4. CASE ReadFrame
  BY <1>4 DEF ReadFrame, ForgetFrame, None
<1>5. CASE UseFrame
  BY <1>5 DEF UseFrame, ForgetFrame, None
<1> QED
  BY <1>1, <1>2, <1>3, <1>4, <1>5 DEF NextReaders, Reader

(* A frame the thread holds, through what the thread does: it was the      *)
(* latest frame when the thread read its address.                          *)
LEMMA HeldThroughReader ==
  ASSUME RingBounds, ReadBounds, Latest, Held, Reader
  PROVE  Held'
<1> USE DEF ReadBounds
<1>1. CASE ReadFrame /\ pc' = "using"
  <2>1. /\ frame # None /\ rFrame' = frame /\ rEnd' = LatestEnd
        /\ age' = 0 /\ overwritten' = overwritten /\ ~overwritten
    BY <1>1 DEF ReadFrame, ForgetFrame, LatestEnd
  <2>2. UNCHANGED <<start, wr, live, frame, len, jpeg>>
    BY ReaderLeavesRing
  <2>3. Room(age)' = 0
    BY <2>1, RoomSteps DEF Room
  <2>4. Behind(LatestEnd, frame, 0) \/ Round(frame, 0)
    BY <2>1 DEF Latest
  <2>5. Behind(rEnd, rFrame, Room(age))' \/ Round(rFrame, Room(age))'
    BY <2>1, <2>2, <2>3, <2>4 DEF Behind, Round
  <2> QED
    BY <2>1, <2>5 DEF Held
<1>2. CASE pc' # "using"
  BY <1>2 DEF Held
<1> QED
  BY <1>1, <1>2 DEF Reader, WaitFrame, ReadLen, ReadJpeg, ReadId, UseFrame,
     ForgetFrame

(* The ids.                                                                *)
LEMMA IdsKept ==
  ASSUME Ids, NextReaders
  PROVE  Ids'
<1> USE DEF Ids, DisplayNotStuck, idVars
<1>1. CASE Capture
  <2>1. pc' = pc
    BY <1>1 DEF Capture
  <2>2. UNCHANGED idVars \/ Outdated
    BY <1>1 DEF Capture
  <2>3. CASE UNCHANGED idVars
    BY <2>1, <2>3
  <2>4. CASE Outdated
    BY <2>4 DEF Outdated
  <2> QED
    BY <2>2, <2>3, <2>4
<1>2. CASE WaitFrame \/ ReadLen \/ ReadJpeg \/ ReadId
  BY <1>2 DEF WaitFrame, ReadLen, ReadJpeg, ReadId, heldVars
<1>3. CASE ReadFrame
  BY <1>3 DEF ReadFrame, ForgetFrame
<1>4. CASE UseFrame
  <2>1. pc = "using" /\ pc' # "using"
    BY <1>4 DEF UseFrame, ForgetFrame
  <2>2. \/ lastIdLatest' = rIdLatest /\ picLatest' = rLatest
        \/ UNCHANGED <<lastIdLatest, picLatest>>
    BY <1>4 DEF UseFrame, DecodedId
  <2>3. lastIdLatest' => picLatest'
    BY <2>1, <2>2
  <2> QED
    BY <2>1, <2>3
<1> QED
  BY <1>1, <1>2, <1>3, <1>4 DEF NextReaders, Reader

-----------------------------------------------------------------------------
(* The invariant is inductive.                                             *)
LEMMA ReadersInvInit == InitReaders => ReadersInv
BY ReadersAssumption
   DEF InitReaders, Init, ReadersInv, RingBounds, Latest, ReadBounds, Held, Ids,
       DisplayNotStuck, None

LEMMA ReadersInvStep == ReadersInv /\ [NextReaders]_vars => ReadersInv'
<1> SUFFICES ASSUME ReadersInv, [NextReaders]_vars PROVE ReadersInv'
  OBVIOUS
<1> USE DEF ReadersInv
<1>1. CASE Capture
  <2>1. RingBounds'
    BY <1>1, RingBoundsKept DEF Capture
  <2> QED
    BY <1>1, <2>1, LatestKept, HeldThroughCapture, ReadBoundsKept, IdsKept
       DEF NextReaders
<1>2. CASE Reader
  <2>1. UNCHANGED <<start, wr, live, frame, len, jpeg>>
    BY <1>2, ReaderLeavesRing
  <2>2. RingBounds'
    BY <2>1 DEF RingBounds
  <2>3. Latest'
    BY <2>1 DEF Latest, LatestEnd, Behind, Round
  <2> QED
    BY <1>2, <2>2, <2>3, HeldThroughReader, ReadBoundsKept, IdsKept
       DEF NextReaders
<1>3. CASE UNCHANGED vars
  <2>1. UNCHANGED <<start, wr, live, frame, len, jpeg>>
    BY <1>3 DEF vars, ringVars
  <2>2. RingBounds'
    BY <2>1 DEF RingBounds
  <2>3. Latest'
    BY <2>1 DEF Latest, LatestEnd, Behind, Round
  <2>4. ReadBounds' /\ Ids'
    BY <1>3 DEF vars, heldVars, idVars, ReadBounds, Ids, DisplayNotStuck
  <2>5. Held'
    BY <1>3, <2>1 DEF vars, heldVars, Held, Spare, Room, Behind, Round
  <2> QED
    BY <2>2, <2>3, <2>4, <2>5
<1> QED
  BY <1>1, <1>2, <1>3 DEF NextReaders

(* Type correctness.                                                       *)
THEOREM ReadersTyped == SpecReaders => []ReadersTypeOK
<1>1. ReadersInv => ReadersTypeOK
  BY DEF ReadersInv, RingBounds, ReadBounds, ReadersTypeOK
<1> QED
  BY <1>1, ReadersInvInit, ReadersInvStep, PTL DEF SpecReaders

(* A thread stays inside the camera buffer, whatever two frames its length *)
(* and its pointer are of.                                                 *)
THEOREM TornReadInBuffer == SpecReaders => []ReadsInBuffer
<1>1. ReadersInv => ReadsInBuffer
  BY ReadersAssumption DEF ReadersInv, ReadBounds, ReadsInBuffer
<1> QED
  BY <1>1, ReadersInvInit, ReadersInvStep, PTL DEF SpecReaders

(* A frame that is drawn, sent or saved stays as it was while the buffer   *)
(* has room for the frames captured meanwhile.                             *)
THEOREM HeldFrameIntact == SpecReaders => []HeldFrameSurvives
<1>1. ReadersInv => HeldFrameSurvives
  <2> SUFFICES ASSUME ReadersInv, pc = "using",
                      (age + 3) * MaxFrame + XferSize <= BufSize
               PROVE  ~overwritten
    BY DEF HeldFrameSurvives
  <2>1. age \in Nat
    BY ReadersAssumption DEF ReadersInv, ReadBounds
  <2>2. Spare
    BY <2>1, RoomSteps DEF Spare
  <2> QED
    BY <2>2 DEF ReadersInv, Held
<1> QED
  BY <1>1, ReadersInvInit, ReadersInvStep, PTL DEF SpecReaders

(* onDraw never takes an old picture for that of the latest frame.         *)
THEOREM NeverAnOldPicture == SpecReaders => []DisplayNotStuck
<1>1. ReadersInv => DisplayNotStuck
  BY DEF ReadersInv, Ids
<1> QED
  BY <1>1, ReadersInvInit, ReadersInvStep, PTL DEF SpecReaders
=============================================================================
