------------------------ MODULE OfflineQueue_proofs -------------------------
(***************************************************************************)
(* For a queue of any size, any number of captures and any number of       *)
(* crashes: nothing queued is lost, rows keep their images, recovery       *)
(* removes what no row names, and the cached count is exact.  The          *)
(* invariant that carries the induction says, for each step of an          *)
(* operation, what the steps before it have already made safe.             *)
(***************************************************************************)
EXTENDS OfflineQueue, FiniteSetTheorems, TLAPS

\* What must be recorded before a row may go.
Recorded ==
  /\ pc = "row" => current \in delivered \cup discarded
  /\ pc \in {"move", "meta"} => current \in Ids
  /\ pc = "release" => current \in metas

\* The rows an older version left keep their plain image until all of them have
\* a sealed one.
Sealing ==
  /\ \A i \in Ids : path[i] # Sealed => i \in rows /\ <<i, path[i]>> \in images
  /\ pc = "seal" => \A i \in Ids : path[i] # Sealed /\ i \notin todo
                                   => <<i, Sealed>> \in images
  /\ pc \notin {"down", "seal"} => \A i \in Ids : path[i] = Sealed

\* The capture at hand is new, and its file is on disk before its row.
Capturing ==
  /\ rows \subseteq 1 .. taken /\ taken <= MaxCaptures
  /\ pc = "insert" => /\ current = taken /\ current \in Ids /\ current \notin rows
                      /\ <<current, Sealed>> \in images

\* Files are unlinked only after their rows are gone.
Unlinking == pc = "unlink" => todo \cap rows = {}

Counting == pc \notin {"down", "seal"} => pending = Cardinality(rows)

\* The captures whose file may be outside the queue at this step.
AtHand == IF pc = "insert" THEN {current} ELSE IF pc = "unlink" THEN todo ELSE {}
Lingering ==
  pc \notin {"down", "seal", "sweep"} =>
    /\ \A f \in images : f[2] = Sealed /\ (f[1] \in rows \cup failed \cup AtHand)
    /\ partials \subseteq failed
    /\ pc \in {"meta", "release"} => <<current, Sealed>> \notin images

QueueInv == /\ TypeOK /\ NothingLost /\ RowsKeepImages
            /\ Recorded /\ Sealing /\ Capturing /\ Unlinking /\ Counting /\ Lingering

-----------------------------------------------------------------------------
\* The queue table is finite, and so are its parts.
LEMMA RowsFinite ==
  ASSUME TypeOK, QueueAssumption
  PROVE  /\ IsFiniteSet(rows) /\ Cardinality(rows) \in Nat
         /\ \A T \in SUBSET rows : /\ IsFiniteSet(T) /\ Cardinality(T) \in Nat
                                   /\ Cardinality(T) <= Cardinality(rows)
<1>1. IsFiniteSet(Ids)
  BY FS_Interval DEF Ids, QueueAssumption
<1>2. IsFiniteSet(rows)
  BY <1>1, FS_Subset DEF TypeOK
<1> QED
  BY <1>2, FS_Subset, FS_CardinalityType

\* Removing part of the rows takes its size off the count.
LEMMA CountOfRest ==
  ASSUME TypeOK, QueueAssumption, NEW T \in SUBSET rows
  PROVE  Cardinality(rows \ T) = Cardinality(rows) - Cardinality(T)
<1>1. IsFiniteSet(T) /\ IsFiniteSet(rows \ T)
  BY RowsFinite
<1>2. Cardinality(T \cup (rows \ T))
        = Cardinality(T) + Cardinality(rows \ T) - Cardinality(T \cap (rows \ T))
  BY <1>1, FS_Union
<1>3. T \cup (rows \ T) = rows /\ T \cap (rows \ T) = {}
  OBVIOUS
<1>4. Cardinality({}) = 0
  BY FS_EmptySet
<1>5. Cardinality(T) \in Nat /\ Cardinality(rows \ T) \in Nat
  BY RowsFinite
<1> QED
  BY <1>2, <1>3, <1>4, <1>5

\* The invariant of a launch: what recovery does to the files and the rows.
LEMMA LaunchKeepsInv ==
  ASSUME QueueInv, QueueAssumption, Launch \/ SealLegacy \/ CommitSealed \/ Sweep \/ Ready
  PROVE  QueueInv'
<1> USE DEF QueueInv, TypeOK, NothingLost, RowsKeepImages, Recorded, Sealing, Capturing,
        Unlinking, Counting, Lingering, AtHand, Image, Unreferenced, Ids,
        Steps, Sealed, Plain, NoCapture, files, table, thread, history
<1>1. CASE Launch
  BY <1>1 DEF Launch
<1>2. CASE SealLegacy
  BY <1>2 DEF SealLegacy
<1>3. CASE CommitSealed
  BY <1>3, RowsFinite DEF CommitSealed
<1>4. CASE Sweep
  BY <1>4 DEF Sweep
<1>5. CASE Ready
  BY <1>5 DEF Ready
<1> QED
  BY <1>1, <1>2, <1>3, <1>4, <1>5

\* The invariant of add: the file, then the row, then the trim.
LEMMA AddKeepsInv ==
  ASSUME QueueInv, QueueAssumption,
         \/ WriteImage \/ WriteFails \/ InsertRow \/ InsertFails
         \/ TrimRows \/ TrimFails \/ Unlink \/ Unlinked
  PROVE  QueueInv'
<1> USE DEF QueueInv, TypeOK, NothingLost, RowsKeepImages, Recorded, Sealing, Capturing,
        Unlinking, Counting, Lingering, AtHand, Image, Ids,
        Steps, Sealed, Plain, NoCapture, files, table, thread, history
<1> USE DEF QueueAssumption
<1>1. CASE WriteImage
  BY <1>1 DEF WriteImage
<1>2. CASE WriteFails
  BY <1>2 DEF WriteFails
<1>3. CASE InsertRow
  <2>1. Cardinality(rows \cup {current}) = Cardinality(rows) + 1
    BY <1>3, RowsFinite, FS_AddElement DEF InsertRow
  <2>2. pending' = Cardinality(rows')
    BY <1>3, <2>1 DEF InsertRow
  <2>3. TypeOK'
    BY <1>3 DEF InsertRow
  <2>4. NothingLost' /\ RowsKeepImages' /\ Recorded' /\ Sealing' /\ Unlinking'
    BY <1>3 DEF InsertRow
  <2>5. Capturing' /\ Lingering'
    BY <1>3 DEF InsertRow
  <2> QED
    BY <2>2, <2>3, <2>4, <2>5
<1>4. CASE InsertFails
  BY <1>4 DEF InsertFails
<1>5. CASE TrimRows
  <2>1. Excess \subseteq rows
    BY DEF Excess
  <2>2. pending' = Cardinality(rows')
    BY <1>5, <2>1, CountOfRest DEF TrimRows
  <2>3. pending' \in Nat
    BY <1>5, <2>1, <2>2, RowsFinite DEF TrimRows
  <2> QED
    BY <1>5, <2>1, <2>2, <2>3 DEF TrimRows
<1>6. CASE TrimFails
  BY <1>6 DEF TrimFails
<1>7. CASE Unlink
  BY <1>7 DEF Unlink
<1>8. CASE Unlinked
  BY <1>8 DEF Unlinked
<1> QED
  BY <1>1, <1>2, <1>3, <1>4, <1>5, <1>6, <1>7, <1>8

\* The invariant of an upload and of what its answer leads to.
LEMMA UploadKeepsInv ==
  ASSUME QueueInv, QueueAssumption,
         \/ \E i \in Ids : Upload(i)
         \/ DeleteRow \/ MoveImage \/ WriteMeta \/ ReleaseRow
  PROVE  QueueInv'
<1> USE DEF QueueInv, TypeOK, NothingLost, RowsKeepImages, Recorded, Sealing, Capturing,
        Unlinking, Counting, Lingering, AtHand, Image, Ids,
        Steps, Sealed, Plain, NoCapture, files, table, thread, history
<1>1. ASSUME NEW i \in Ids, Upload(i)
      PROVE  QueueInv'
  <2>1. CASE Accepted(i)
    BY <1>1, <2>1 DEF Accepted, SendRow, Readable, Oldest
  <2>2. CASE AnswerLost(i)
    BY <1>1, <2>2 DEF AnswerLost, SendRow, Readable, Oldest
  <2>3. CASE Disabled(i)
    BY <1>1, <2>3 DEF Disabled, SendRow, Readable, Oldest
  <2>4. CASE Rejected(i)
    BY <1>1, <2>4 DEF Rejected, SendRow, Oldest
  <2> QED
    BY <1>1, <2>1, <2>2, <2>3, <2>4 DEF Upload
<1>2. ASSUME pc \notin {"down", "seal"},
             rows' = rows \ {current},
             pending' = IF current \in rows THEN pending - 1 ELSE pending
      PROVE  pending' = Cardinality(rows') /\ pending' \in Nat
  <2>1. IsFiniteSet(rows) /\ Cardinality(rows) \in Nat
        /\ pending = Cardinality(rows) /\ Cardinality(rows \ {current}) \in Nat
    BY <1>2, RowsFinite
  <2>2. Cardinality(rows \ {current})
          = IF current \in rows THEN Cardinality(rows) - 1 ELSE Cardinality(rows)
    BY <2>1, FS_RemoveElement
  <2> QED
    BY <1>2, <2>1, <2>2
<1>3. CASE DeleteRow
  <2>1. pending' = Cardinality(rows') /\ pending' \in Nat
    BY <1>2, <1>3 DEF DeleteRow
  <2>2. TypeOK' /\ Counting' /\ Recorded' /\ Sealing' /\ Capturing'
    BY <1>3, <2>1 DEF DeleteRow
  <2>3. NothingLost' /\ RowsKeepImages' /\ Unlinking' /\ Lingering'
    BY <1>3 DEF DeleteRow
  <2> QED
    BY <2>2, <2>3
<1>4. CASE MoveImage
  <2>1. TypeOK'
    <3>1. images' \subseteq images /\ moved' \subseteq Ids
      <4>1. current \in Ids
        BY <1>4 DEF MoveImage
      <4>2. CASE <<current, path[current]>> \in images
        BY <1>4, <4>1, <4>2 DEF MoveImage
      <4>3. CASE <<current, path[current]>> \notin images
        BY <1>4, <4>3 DEF MoveImage
      <4> QED
        BY <4>2, <4>3
    <3> QED
      BY <1>4, <3>1 DEF MoveImage
  <2>4. Recorded' /\ Counting' /\ Capturing' /\ Unlinking' /\ NothingLost'
    BY <1>4 DEF MoveImage
  <2>2. RowsKeepImages' /\ Sealing'
    BY <1>4 DEF MoveImage
  <2>3. Lingering'
    BY <1>4 DEF MoveImage
  <2> QED
    BY <2>1, <2>2, <2>3, <2>4
<1>5. CASE WriteMeta
  <2>1. TypeOK' /\ Recorded'
    BY <1>5 DEF WriteMeta
  <2>2. NothingLost' /\ RowsKeepImages' /\ Sealing' /\ Capturing' /\ Unlinking'
    BY <1>5 DEF WriteMeta
  <2>3. Counting' /\ Lingering'
    BY <1>5 DEF WriteMeta
  <2> QED
    BY <2>1, <2>2, <2>3
<1>6. CASE ReleaseRow
  <2>1. pending' = Cardinality(rows') /\ pending' \in Nat
    BY <1>2, <1>6 DEF ReleaseRow
  <2>2. TypeOK' /\ Counting' /\ Recorded' /\ Sealing' /\ Capturing'
    BY <1>6, <2>1 DEF ReleaseRow
  <2>3. NothingLost' /\ RowsKeepImages' /\ Unlinking'
    BY <1>6 DEF ReleaseRow
  <2>4. \A f \in images : f = <<f[1], f[2]>>
    OBVIOUS
  <2>5. Lingering'
    BY <1>6, <2>4 DEF ReleaseRow
  <2> QED
    BY <2>2, <2>3, <2>5
<1> QED
  BY <1>1, <1>3, <1>4, <1>5, <1>6

\* A crash at any step leaves a disk from which the next launch recovers.
LEMMA CrashKeepsInv ==
  ASSUME QueueInv, Crash
  PROVE  QueueInv'
  BY DEF Crash, QueueInv, TypeOK, NothingLost, RowsKeepImages, Recorded, Sealing,
         Capturing, Unlinking, Counting, Lingering, AtHand, Image, Ids, Steps, Sealed,
         Plain, NoCapture, table, history

\* The inductive invariant of the queue (agent/queue.py), for every behaviour.
THEOREM QueueInvHolds == Spec => []QueueInv
<1>1. Init => QueueInv
  BY QueueAssumption
  DEF Init, QueueInv, TypeOK, NothingLost, RowsKeepImages, Recorded, Sealing,
      Capturing, Unlinking, Counting, Lingering, AtHand, Image, Ids, Steps, Sealed,
      Plain, NoCapture, QueueAssumption
<1>2. QueueInv /\ [Next]_vars => QueueInv'
  <2>1. CASE UNCHANGED vars
    BY <2>1 DEF vars, files, table, thread, history, QueueInv, TypeOK, NothingLost,
       RowsKeepImages, Recorded, Sealing, Capturing, Unlinking, Counting, Lingering,
       AtHand, Image
  <2>2. CASE Next
    BY <2>2, QueueAssumption, LaunchKeepsInv, AddKeepsInv, UploadKeepsInv, CrashKeepsInv
    DEF Next, Continue
  <2> QED
    BY <2>1, <2>2
<1> QED
  BY <1>1, <1>2, PTL DEF Spec

\* No committed capture is silently lost, wherever the process dies
\* (add, acknowledge, quarantine_record, _trim and _initialize of agent/queue.py).
THEOREM NothingLostEver == Spec => []NothingLost
  BY QueueInvHolds, PTL DEF QueueInv

\* A queued row always finds its image, in the queue or in quarantine.
THEOREM RowsKeepTheirImages == Spec => []RowsKeepImages
  BY QueueInvHolds, PTL DEF QueueInv

\* Between operations the cached count _pending is the number of rows.
THEOREM PendingExact == Spec => []PendingIsExact
<1>1. QueueInv => PendingIsExact
  BY DEF QueueInv, Counting, PendingIsExact
<1> QED
  BY <1>1, QueueInvHolds, PTL

\* After recovery no screen data lies outside the queue, except that of a capture
\* that failed since launch, and no plain image of an old version is left.
THEOREM RecoveryIsComplete == Spec => []OnlyFailedCapturesLinger
<1>1. QueueInv => OnlyFailedCapturesLinger
  BY DEF QueueInv, TypeOK, Sealing, Lingering, AtHand, OnlyFailedCapturesLinger,
         Unreferenced, Image, Ids
<1> QED
  BY <1>1, QueueInvHolds, PTL

\* The queue's directory and its table agree, through every crash and recovery.
THEOREM FilesMatch == Spec => []FilesMatchRows
  BY RowsKeepTheirImages, RecoveryIsComplete, PTL DEF FilesMatchRows

\* A full queue drops only captures older than every capture it keeps (_trim).
THEOREM OldestDropped == Spec => DropsTheOldest
<1>1. ASSUME QueueInv, QueueAssumption, TrimRows,
             NEW i \in Excess, NEW j \in rows \ Excess
      PROVE  i < j
  <2>1. i \in rows /\ j \in rows /\ i \in Nat /\ j \in Nat
    BY <1>1 DEF Excess, QueueInv, TypeOK, Ids
  <2> DEFINE From(k) == {m \in rows : m >= k}
  <2>2. Cardinality(From(i)) > MaxItems /\ ~(Cardinality(From(j)) > MaxItems)
    BY <1>1, <2>1 DEF Excess
  <2>3. SUFFICES ASSUME j <= i PROVE FALSE
    BY <2>1
  <2>4. From(i) \subseteq From(j) /\ From(j) \subseteq rows
    <3>1. \A m \in rows : m \in Nat
      BY <1>1 DEF QueueInv, TypeOK, Ids
    <3>2. ASSUME NEW m \in rows, m >= i
          PROVE  m >= j
      BY <2>1, <2>3, <3>1, <3>2
    <3> QED
      BY <3>2
  <2>5. /\ Cardinality(From(i)) <= Cardinality(From(j))
        /\ Cardinality(From(i)) \in Nat /\ Cardinality(From(j)) \in Nat
    <3>1. IsFiniteSet(From(j)) /\ Cardinality(From(j)) \in Nat
      BY <1>1, <2>4, RowsFinite DEF QueueInv
    <3>2. Cardinality(From(i)) <= Cardinality(From(j))
      BY <2>4, <3>1, FS_Subset
    <3>3. Cardinality(From(i)) \in Nat
      BY <1>1, <2>4, RowsFinite DEF QueueInv
    <3> QED
      BY <3>1, <3>2, <3>3
  <2> QED
    BY <1>1, <2>2, <2>5 DEF QueueAssumption
<1>2. QueueInv /\ [Next]_vars
      => [\A i \in trimmed' \ trimmed : \A j \in rows' : i < j]_vars
  <2>1. ASSUME QueueInv, Next
        PROVE  \A i \in trimmed' \ trimmed : \A j \in rows' : i < j
    <3>1. CASE TrimRows
      BY <1>1, <2>1, <3>1, QueueAssumption DEF TrimRows
    <3>2. CASE ~TrimRows
      <4>1. trimmed' = trimmed
        BY <2>1, <3>2 DEF Next, Continue, Launch, SealLegacy, CommitSealed, Sweep,
           Ready, WriteImage, WriteFails, InsertRow, InsertFails, TrimFails, Unlink,
           Unlinked, Upload, Accepted, AnswerLost, Disabled, Rejected, SendRow,
           DeleteRow, MoveImage, WriteMeta, ReleaseRow, Crash, history
      <4> QED
        BY <4>1
    <3> QED
      BY <3>1, <3>2
  <2> QED
    BY <2>1
<1> QED
  BY <1>2, QueueInvHolds, PTL DEF Spec, DropsTheOldest
=============================================================================
