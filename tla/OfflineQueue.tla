---------------------------- MODULE OfflineQueue ----------------------------
(***************************************************************************)
(* The desktop agent's durable queue of screenshots (agent/queue.py): a    *)
(* SQLite table whose rows name sealed image files, a quarantine           *)
(* directory, and the recovery that runs when the agent starts.            *)
(*                                                                         *)
(* A row and its file cannot change together, so each operation is a       *)
(* sequence of steps (write the file, insert the row, delete the row,      *)
(* unlink the file ...) and the process may die between any two of them.   *)
(* SQLite commits and atomic file writes are durable; the counters are     *)
(* memory.  One thread works on this queue.                                *)
(***************************************************************************)
EXTENDS Integers, FiniteSets

CONSTANTS
  MaxItems,     \* max_queue_items
  MaxCaptures,  \* bound on the captures of a behaviour
  MaxFaults,    \* bound on the faults of a behaviour
  Legacy        \* captures an older version left in plain files, 1 .. n

Ids == 1 .. MaxCaptures      \* captures, in the order they were taken
Sealed == "dfq"              \* suffix of an encrypted image
Plain == "jpg"               \* suffix of an image of an older version
NoCapture == 0

ASSUME QueueAssumption ==
  /\ MaxItems \in Nat \ {0} /\ MaxCaptures \in Nat /\ MaxFaults \in Nat
  /\ Legacy \in 0 .. MaxCaptures

Steps == {"down", "seal", "sweep", "idle", "insert", "trim", "unlink",
          "row", "move", "meta", "release"}

VARIABLES
  rows,        \* the queue table: ids queued
  path,        \* screenshot_path of each row, by suffix
  images,      \* <<id, suffix>> of the files in images/
  partials,    \* ids of the .part files in images/
  moved,       \* ids whose image file is in quarantine/
  metas,       \* ids with a .meta.dfq file in quarantine/
  pc,          \* what the thread does next
  current,     \* the record at hand
  todo,        \* ids of files left to seal, or to unlink
  pending,     \* _pending, the cached row count
  taken,       \* captures taken so far
  faults,      \* crashes and failed trims so far
  delivered,   \* ids the server stored
  inserted,    \* ids whose row was committed
  trimmed,     \* ids dropped because the queue was full
  discarded,   \* ids dropped because policy forbids screenshots
  failed       \* ids whose add failed since launch

files == <<images, partials, moved, metas>>
table == <<rows, path>>
thread == <<pc, current, todo>>
history == <<delivered, inserted, trimmed, discarded>>
vars == <<files, table, thread, pending, taken, faults, history, failed>>

TypeOK ==
  /\ rows \subseteq Ids /\ path \in [Ids -> {Sealed, Plain}]
  /\ images \subseteq Ids \X {Sealed, Plain}
  /\ partials \subseteq Ids /\ moved \subseteq Ids /\ metas \subseteq Ids
  /\ pc \in Steps /\ current \in Ids \cup {NoCapture} /\ todo \subseteq Ids
  /\ pending \in Nat /\ taken \in Nat /\ faults \in Nat
  /\ delivered \subseteq Ids /\ inserted \subseteq Ids
  /\ trimmed \subseteq Ids /\ discarded \subseteq Ids /\ failed \subseteq Ids

\* The agent is about to start on a disk that an older version left.
Init ==
  /\ rows = 1 .. Legacy
  /\ path = [i \in Ids |-> IF i \in 1 .. Legacy THEN Plain ELSE Sealed]
  /\ images = (1 .. Legacy) \X {Plain}
  /\ partials = {} /\ moved = {} /\ metas = {}
  /\ pc = "down" /\ current = NoCapture /\ todo = {}
  /\ pending = 0 /\ taken = Legacy /\ faults = 0
  /\ inserted = rows /\ delivered = {} /\ trimmed = {} /\ discarded = {}
  /\ failed = {}

Image(i) == <<i, path[i]>>
UnreferencedById == {f \in images : f[1] \notin rows}
Unreferenced == {f \in images : f[1] \notin rows \/ f # Image(f[1])}
\* ORDER BY created_at: the capture order, as long as the clock moves forward.
Oldest(i) == i \in rows /\ \A j \in rows : i <= j

-----------------------------------------------------------------------------
(***************************************************************************)
(* Launch: _initialize.                                                    *)
(***************************************************************************)

Launch ==
  /\ pc = "down" /\ pc' = "seal"
  /\ todo' = {i \in rows : path[i] # Sealed /\ Image(i) \in images}
  /\ failed' = {}
  /\ UNCHANGED <<files, table, current, pending, taken, faults, history>>

\* An old image is sealed into a new file before the rows are updated.
SealLegacy ==
  /\ pc = "seal"
  /\ \E i \in todo : /\ images' = images \cup {<<i, Sealed>>}
                     /\ todo' = todo \ {i}
  /\ UNCHANGED <<partials, moved, metas, table, pc, current, pending, taken,
                 faults, history, failed>>

\* One transaction points the rows to the sealed files and counts them.
CommitSealed ==
  /\ pc = "seal" /\ todo = {} /\ pc' = "sweep"
  /\ path' = [i \in Ids |-> IF i \in rows /\ Image(i) \in images
                            THEN Sealed ELSE path[i]]
  /\ pending' = Cardinality(rows)
  /\ UNCHANGED <<files, rows, current, todo, taken, faults, history, failed>>

\* Files no row names are removed, one by one: the old plain ones, and what a
\* crash between a file operation and its commit left.
Sweep ==
  /\ pc = "sweep"
  /\ \E f \in Unreferenced : images' = images \ {f}
  /\ UNCHANGED <<partials, moved, metas, table, thread, pending, taken, faults,
                 history, failed>>

Ready ==
  /\ pc = "sweep" /\ Unreferenced = {} /\ pc' = "idle"
  /\ partials' = {}
  /\ UNCHANGED <<images, moved, metas, table, current, todo, pending, taken,
                 faults, history, failed>>

-----------------------------------------------------------------------------
(***************************************************************************)
(* add: write the image, insert the row, trim the queue.                   *)
(***************************************************************************)

WriteImage ==
  /\ pc = "idle" /\ taken < MaxCaptures /\ pc' = "insert"
  /\ taken' = taken + 1 /\ current' = taken + 1
  /\ images' = images \cup {<<taken + 1, Sealed>>}
  /\ UNCHANGED <<partials, moved, metas, table, todo, pending, faults, history,
                 failed>>

\* The disk is full: the exception leaves the partial file behind.
WriteFails ==
  /\ pc = "idle" /\ taken < MaxCaptures
  /\ taken' = taken + 1
  /\ partials' = partials \cup {taken + 1}
  /\ failed' = failed \cup {taken + 1}
  /\ UNCHANGED <<images, moved, metas, table, thread, pending, faults, history>>

InsertRow ==
  /\ pc = "insert" /\ pc' = "trim"
  /\ rows' = rows \cup {current}
  /\ inserted' = inserted \cup {current}
  /\ pending' = pending + 1
  /\ UNCHANGED <<files, path, current, todo, taken, faults, delivered, trimmed,
                 discarded, failed>>

InsertFails ==
  /\ pc = "insert" /\ pc' = "idle"
  /\ failed' = failed \cup {current}
  /\ UNCHANGED <<files, table, current, todo, pending, taken, faults, history>>

\* The rows _trim deletes: the oldest ones beyond the limit.
ExcessNewest == {i \in rows : Cardinality({j \in rows : j <= i}) > MaxItems}
Excess == {i \in rows : Cardinality({j \in rows : j >= i}) > MaxItems}

TrimRows ==
  /\ pc = "trim" /\ pc' = "unlink"
  /\ rows' = rows \ Excess /\ todo' = Excess
  /\ trimmed' = trimmed \cup Excess
  /\ pending' = pending - Cardinality(Excess)
  /\ UNCHANGED <<files, path, current, taken, faults, delivered, inserted,
                 discarded, failed>>

TrimFails ==
  /\ pc = "trim" /\ faults < MaxFaults
  /\ pc' = "idle" /\ faults' = faults + 1
  /\ UNCHANGED <<files, table, current, todo, pending, taken, history, failed>>

\* The files of deleted rows go after the commit.
Unlink ==
  /\ pc = "unlink"
  /\ \E i \in todo : images' = images \ {Image(i)} /\ todo' = todo \ {i}
  /\ UNCHANGED <<partials, moved, metas, table, pc, current, pending, taken,
                 faults, history, failed>>

Unlinked ==
  /\ pc = "unlink" /\ todo = {} /\ pc' = "idle"
  /\ UNCHANGED <<files, table, current, todo, pending, taken, faults, history,
                 failed>>

-----------------------------------------------------------------------------
(***************************************************************************)
(* _upload_one on the oldest record.  An answer that changes nothing (the  *)
(* server unreachable or failing, the token refused, a blur demanded)      *)
(* leaves everything as it was.                                            *)
(***************************************************************************)

SendRow(i) == /\ pc = "idle" /\ Oldest(i) /\ current' = i
              /\ UNCHANGED <<files, table, todo, pending, taken, faults,
                             inserted, trimmed, failed>>

Readable(i) == Image(i) \in images

\* The server stored the record, or had it already, and the agent learns so.
Accepted(i) ==
  /\ SendRow(i) /\ Readable(i) /\ pc' = "row"
  /\ delivered' = delivered \cup {i} /\ UNCHANGED discarded

\* The server stored it, but the answer is lost.
AnswerLost(i) ==
  /\ SendRow(i) /\ Readable(i) /\ pc' = "idle"
  /\ delivered' = delivered \cup {i} /\ UNCHANGED discarded

\* Screenshots are disabled by policy: dropped as if acknowledged.
Disabled(i) ==
  /\ SendRow(i) /\ Readable(i) /\ pc' = "row"
  /\ discarded' = discarded \cup {i} /\ UNCHANGED delivered

\* Rejected for good, missing, or not authentic.
Rejected(i) ==
  /\ SendRow(i) /\ pc' = "move"
  /\ UNCHANGED <<delivered, discarded>>

\* acknowledge: the row, then the file.
DeleteRowUncounted ==
  /\ pc = "row" /\ pc' = "unlink"
  /\ rows' = rows \ {current} /\ todo' = {current}
  /\ UNCHANGED <<files, path, current, pending, taken, faults, history, failed>>
DeleteRow ==
  /\ pc = "row" /\ pc' = "unlink"
  /\ rows' = rows \ {current} /\ todo' = {current}
  /\ pending' = IF current \in rows THEN pending - 1 ELSE pending
  /\ UNCHANGED <<files, path, current, taken, faults, history, failed>>

\* quarantine_record: the image, the metadata, then the row.
MoveImage ==
  /\ pc = "move" /\ pc' = "meta"
  /\ IF Image(current) \in images
     THEN images' = images \ {Image(current)} /\ moved' = moved \cup {current}
     ELSE UNCHANGED <<images, moved>>
  /\ UNCHANGED <<partials, metas, table, current, todo, pending, taken, faults,
                 history, failed>>

WriteMetaLater ==
  /\ pc = "meta" /\ pc' = "release"
  /\ UNCHANGED <<files, table, current, todo, pending, taken, faults, history,
                 failed>>
WriteMeta ==
  /\ pc = "meta" /\ pc' = "release"
  /\ metas' = metas \cup {current}
  /\ UNCHANGED <<images, partials, moved, table, current, todo, pending, taken,
                 faults, history, failed>>

ReleaseRowKept ==
  /\ pc = "release" /\ pc' = "idle"
  /\ UNCHANGED <<files, table, current, todo, pending, taken, faults, history,
                 failed>>
ReleaseRow ==
  /\ pc = "release" /\ pc' = "idle"
  /\ rows' = rows \ {current}
  /\ pending' = IF current \in rows THEN pending - 1 ELSE pending
  /\ UNCHANGED <<files, path, current, todo, taken, faults, history, failed>>

-----------------------------------------------------------------------------
\* The process or the machine dies; a write that was under way leaves its
\* partial file.
Crash ==
  /\ pc # "down" /\ faults < MaxFaults
  /\ faults' = faults + 1 /\ pc' = "down"
  /\ current' = NoCapture /\ todo' = {}
  /\ partials' \in {partials} \cup
       {partials \cup {i} : i \in IF pc = "seal" THEN todo ELSE {}}
  /\ UNCHANGED <<images, moved, metas, table, pending, taken, history, failed>>

Upload(i) == Accepted(i) \/ AnswerLost(i) \/ Disabled(i) \/ Rejected(i)

Continue ==
  \/ Launch \/ SealLegacy \/ CommitSealed \/ Sweep \/ Ready
  \/ InsertRow \/ InsertFails \/ TrimRows \/ TrimFails
  \/ Unlink \/ Unlinked
  \/ DeleteRow \/ MoveImage \/ WriteMeta \/ ReleaseRow

Next ==
  \/ Continue \/ WriteImage \/ WriteFails \/ Crash
  \/ \E i \in Ids : Upload(i)

\* The thread goes on with what it began, and an agent that keeps asking a
\* server that is not gone for good is answered now and then.
Fairness == /\ WF_vars(Continue)
            /\ SF_vars(\E i \in Ids : Accepted(i) \/ Rejected(i))

Spec == Init /\ [][Next]_vars /\ Fairness

-----------------------------------------------------------------------------
(***************************************************************************)
(* Properties.                                                             *)
(***************************************************************************)

\* A capture whose row was committed is never silently lost, wherever a crash
\* falls: it is queued, stored on the server, quarantined with its metadata,
\* or was dropped by the size limit or by policy.
NothingLost ==
  inserted \subseteq rows \cup delivered \cup metas \cup trimmed \cup discarded

\* A queued row can still be uploaded or examined: its image is where the row
\* says, or already in quarantine (add writes the file first; acknowledge and
\* trim delete the row first).
RowsKeepImages ==
  \A i \in rows : Image(i) \in images \/ i \in moved

\* Once recovery is over, the only screen data outside the queue is that of a
\* capture that failed since launch; no plain image of an old version remains
\* (comment in _initialize: do not retain it indefinitely).
OnlyFailedCapturesLinger ==
  pc = "idle" => /\ \A f \in Unreferenced : f[1] \in failed
                 /\ partials \subseteq failed
                 /\ \A f \in images : f[2] = Sealed

\* The directory and the table agree: every row has its image, and after recovery
\* no image lacks its row (add, recovery, trim and quarantine between crashes).
FilesMatchRows == RowsKeepImages /\ OnlyFailedCapturesLinger

\* The cached count that decides whether anything is left to upload is exact
\* between operations, after any crash.
PendingIsExact == pc = "idle" => pending = Cardinality(rows)

\* A full queue drops its oldest captures (README.md, offline safety).
DropsTheOldest ==
  [][\A i \in trimmed' \ trimmed : \A j \in rows' : i < j]_vars

\* Every queued capture leaves the queue in the end.
EveryCaptureLeaves == \A i \in Ids : i \in rows ~> i \notin rows
=============================================================================
