-------------------------------- MODULE Uploads --------------------------------
(***************************************************************************)
(* The gallery of one facility: the media routes of the API                *)
(* (internal/facility/handler/media.go), the spool directory and the       *)
(* object store (pkg/storage), and the worker that takes upload events off *)
(* their topic (cmd/worker).                                               *)
(*                                                                         *)
(* A file is spooled, its row committed PENDING, and only then is the      *)
(* event published; when the broker refuses it the request uploads the     *)
(* file itself.  The worker reads its topic at least once.  Either process *)
(* may die between any two steps, a client may leave, and the database,    *)
(* the broker and the store may each refuse a call: `faults' counts those, *)
(* up to MaxFaults.                                                        *)
(***************************************************************************)
EXTENDS Integers, Sequences, FiniteSets, Functions

CONSTANTS
  Images, Videos,  \* the ids the INSERTs into the two tables generate
  Given,           \* the images a listing may have been created with
  Calls,           \* concurrent requests of the facility's owner
  MaxRequests,     \* bound: requests made in all
  MaxFaults,       \* bound: crashes, departures and refusals in all
  MaxAttempts,     \* maxAttempts of the consume loop
  None

Media == Images \cup Videos

ASSUME UploadsAssumption ==
  /\ Images \cap Videos = {} /\ Given \subseteq SUBSET Images /\ {} \notin Given
  /\ MaxAttempts \in Nat \ {0}
  /\ None \notin Media \X Nat

VARIABLES
  kafka,     \* whether the API was configured with brokers
  row,       \* [Media -> committed media row, or None]
  used,      \* ids already generated
  spool,     \* ids whose spooled file exists
  puts,      \* [Media -> times the store has written its bytes]
  store,     \* objects in the store: <<id, n>> for the n-th write
  call,      \* [Calls -> the request's progress, or None]
  lock,      \* [Calls -> rows its open transaction has locked]
  topic,     \* the upload topic from the committed offset on
  dlq,       \* ids of dead-lettered events
  worker,    \* the consumer's progress
  abandoned, \* ids whose request died, or could not record its upload
  requests, faults

vars == <<kafka, row, used, spool, puts, store, call, lock, topic, dlq, worker, abandoned,
          requests, faults>>
gallery == <<row, used>>
files == <<spool, puts, store>>
broker == <<topic, dlq, worker>>
counts == <<requests, faults>>

Link(m) == <<m, 0>>             \* a url of a file hosted elsewhere

\* A media row: url is None while it is '', Link, or an object of the store.
Row(status, url, cover, sort) == [status |-> status, url |-> url, cover |-> cover, sort |-> sort]
Committed == {m \in Media : row[m] # None}

\* The columns a row has only in its transaction are the call's until it commits.
Idle == None
Begin(c, op, m, pc) ==
  /\ call[c] = Idle /\ requests < MaxRequests
  /\ requests' = requests + 1
  /\ call' = [call EXCEPT ![c] = [op |-> op, pc |-> pc, img |-> m, cover |-> FALSE,
                                  url |-> None, todo |-> <<>>]]
At(c, pc) == call[c] # Idle /\ call[c].pc = pc
Goto(c, pc) == call' = [call EXCEPT ![c].pc = pc]
End(c) == call' = [call EXCEPT ![c] = Idle]
Fault == faults < MaxFaults /\ faults' = faults + 1

LockedBy(m) == {c \in Calls : m \in lock[c]}
Unlocked(m) == LockedBy(m) = {}

\* Store.Put: a name of its own for every write, whatever is uploaded.
Put(m) ==
  /\ puts' = [puts EXCEPT ![m] = @ + 1]
  /\ store' = store \cup {<<m, puts[m] + 1>>}

--------------------------------------------------------------------------------
(* Adding a file *)

\* addImage: the file is spooled, or without brokers stored at once; a url is
\* only recorded.  An image that is to be the cover first clears the others.
SpoolUpload(m) == kafka /\ spool' = spool \cup {m} /\ UNCHANGED <<puts, store>>
SaveUpload(m) == ~kafka /\ Put(m) /\ UNCHANGED spool

Received(c, m, cover, url) ==
  call' = [call EXCEPT ![c] =
    [op |-> "add", pc |-> IF cover THEN "clear" ELSE "insert", img |-> m, cover |-> cover,
     url |-> url, todo |-> <<>>]]

Receive(c, m, cover) ==
  /\ call[c] = Idle /\ requests < MaxRequests /\ m \notin used
  /\ requests' = requests + 1 /\ used' = used \cup {m}
  /\ \/ SpoolUpload(m) /\ Received(c, m, cover, None)
     \/ SaveUpload(m) /\ Received(c, m, cover, <<m, puts[m] + 1>>)
     \/ UNCHANGED files /\ Received(c, m, cover, Link(m))
  /\ UNCHANGED <<kafka, row, lock, broker, abandoned, faults>>

AddImage(c, m, cover) == m \in Images /\ Receive(c, m, cover)
AddVideo(c, m) == m \in Videos /\ Receive(c, m, FALSE)

\* UPDATE facility_images SET is_cover = FALSE WHERE facility_id = $1: the rows
\* its snapshot sees, locked one after the other in the order of the scan.
ClearCovers(c) ==
  /\ At(c, "clear")
  /\ \E scan \in Bijection(1 .. Cardinality(Committed \cap Images), Committed \cap Images) :
       call' = [call EXCEPT ![c].pc = "lock", ![c].todo = scan]
  /\ UNCHANGED <<kafka, gallery, files, lock, broker, abandoned, counts>>

\* An UPDATE reaches its next row, and waits while another transaction holds it.
LockRow(c) ==
  /\ At(c, "lock") /\ call[c].todo # <<>>
  /\ LET m == Head(call[c].todo) IN
       /\ LockedBy(m) \subseteq {c}
       /\ lock' = [lock EXCEPT ![c] = IF row[m] = None THEN @ ELSE @ \cup {m}]
       /\ call' = [call EXCEPT ![c].todo = Tail(@)]
  /\ UNCHANGED <<kafka, gallery, files, broker, abandoned, counts>>

Locked(c) ==
  /\ At(c, "lock") /\ call[c].todo = <<>>
  /\ \/ call[c].op = "add" /\ Goto(c, "insert")
     \/ /\ call[c].op = "cover"
        /\ call' = [call EXCEPT ![c].pc = "raise", ![c].todo = <<call[c].img>>]
     \/ call[c].op = "reorder" /\ Goto(c, "commit")
  /\ UNCHANGED <<kafka, gallery, files, lock, broker, abandoned, counts>>

\* A cycle of waits: the server aborts one of the transactions.
WaitsFor(c, d) ==
  /\ At(c, "lock") /\ call[c].todo # <<>>
  /\ Head(call[c].todo) \in lock[d] \ lock[c]
Deadlocked(c) == \E d \in Calls : WaitsFor(c, d) /\ WaitsFor(d, c)

Abort(c) ==
  /\ Deadlocked(c)
  /\ End(c) /\ lock' = [lock EXCEPT ![c] = {}]
  /\ UNCHANGED <<kafka, gallery, files, broker, abandoned, counts>>

Cleared(c, m) == m \in lock[c] /\ m \in Images

\* Not the code: the column's default status, whatever was queued.
CommitAddReady(c) ==
  /\ At(c, "insert")
  /\ LET a == call[c] IN
       /\ row' = [m \in Media |->
            IF m = a.img
              THEN Row("READY", a.url, a.cover, 0)
              ELSE IF Cleared(c, m) THEN [row[m] EXCEPT !.cover = FALSE] ELSE row[m]]
       /\ IF a.url = None THEN Goto(c, "queue") ELSE End(c)
  /\ lock' = [lock EXCEPT ![c] = {}]
  /\ UNCHANGED <<kafka, used, files, broker, abandoned, counts>>

\* INSERT and COMMIT: the covers it cleared become visible with the new row.
\* The worker is asked only then, "because the worker needs an id that exists".
CommitAdd(c) ==
  /\ At(c, "insert")
  /\ LET a == call[c] IN
       /\ row' = [m \in Media |->
            IF m = a.img
              THEN Row(IF a.url = None THEN "PENDING" ELSE "READY", a.url, a.cover, 0)
              ELSE IF Cleared(c, m) THEN [row[m] EXCEPT !.cover = FALSE] ELSE row[m]]
       /\ IF a.url = None THEN Goto(c, "queue") ELSE End(c)
  /\ lock' = [lock EXCEPT ![c] = {}]
  /\ UNCHANGED <<kafka, used, files, broker, abandoned, counts>>

\* queueUpload: PublishSync reports whether the broker took the event.  A write
\* that times out may have landed all the same.
Queue(c) ==
  /\ At(c, "queue")
  /\ topic' = Append(topic, call[c].img) /\ End(c)
  /\ UNCHANGED <<kafka, gallery, files, lock, dlq, worker, abandoned, counts>>

\* Not the code: fire and forget.
QueueDropped(c) ==
  /\ At(c, "queue") /\ Fault
  /\ topic' \in {topic, Append(topic, call[c].img)}
  /\ End(c)
  /\ UNCHANGED <<kafka, gallery, files, lock, dlq, worker, abandoned, requests>>

QueueRefused(c) ==
  /\ At(c, "queue") /\ Fault
  /\ topic' \in {topic, Append(topic, call[c].img)}
  /\ Goto(c, "inline")
  /\ UNCHANGED <<kafka, gallery, files, lock, dlq, worker, abandoned, requests>>

--------------------------------------------------------------------------------
(* finishInline: the request does what the worker would have done *)

\* uploadSpooled: open and put.
UploadSpooled(c) ==
  /\ At(c, "inline") /\ call[c].img \in spool
  /\ Put(call[c].img)
  /\ call' = [call EXCEPT ![c].pc = "unspool", ![c].url = <<call[c].img, puts[call[c].img] + 1>>]
  /\ UNCHANGED <<kafka, gallery, spool, lock, broker, abandoned, counts>>

\* The file is gone, or the store refuses it.
UploadSpooledFails(c) ==
  /\ At(c, "inline")
  /\ \/ call[c].img \notin spool /\ UNCHANGED faults
     \/ Fault
  /\ Goto(c, "failed")
  /\ UNCHANGED <<kafka, gallery, files, lock, broker, abandoned, requests>>

UnspoolInline(c) ==
  /\ At(c, "unspool")
  /\ spool' = spool \ {call[c].img} /\ Goto(c, "ready")
  /\ UNCHANGED <<kafka, gallery, puts, store, lock, broker, abandoned, counts>>

\* The two UPDATEs; their errors are logged and the request ends all the same.
Written(m, status, url) ==
  row' = IF row[m] = None THEN row ELSE [row EXCEPT ![m].status = status, ![m].url = url]

FinishInline(c) ==
  /\ At(c, "ready") \/ At(c, "failed")
  /\ LET m == call[c].img IN
       \/ /\ Unlocked(m)
          /\ IF At(c, "ready") THEN Written(m, "READY", call[c].url)
               ELSE Written(m, "FAILED", IF row[m] = None THEN None ELSE row[m].url)
          /\ UNCHANGED <<abandoned, faults>>
       \/ Fault /\ abandoned' = abandoned \cup {m} /\ UNCHANGED row
  /\ End(c)
  /\ UNCHANGED <<kafka, used, files, lock, broker, requests>>

--------------------------------------------------------------------------------
(* The other routes of the gallery *)

SetCover(c, m) ==
  /\ m \in Images /\ Begin(c, "cover", m, "clear")
  /\ UNCHANGED <<kafka, gallery, files, lock, broker, abandoned, faults>>

\* The second UPDATE; no such row means 404 and a rollback.
RaiseCover(c) ==
  /\ At(c, "raise")
  /\ LET m == call[c].img IN
       /\ LockedBy(m) \subseteq {c}
       /\ row' = IF row[m] = None THEN row
                   ELSE [i \in Media |-> IF i = m THEN [row[i] EXCEPT !.cover = TRUE]
                           ELSE IF Cleared(c, i) THEN [row[i] EXCEPT !.cover = FALSE]
                           ELSE row[i]]
  /\ End(c) /\ lock' = [lock EXCEPT ![c] = {}]
  /\ UNCHANGED <<kafka, used, files, broker, abandoned, counts>>

\* reorder: one UPDATE per id, in the order the request lists them.
Reorder(c, order) ==
  /\ call[c] = Idle /\ requests < MaxRequests
  /\ requests' = requests + 1
  /\ call' = [call EXCEPT ![c] = [op |-> "reorder", pc |-> "lock", img |-> None, cover |-> FALSE,
                                  url |-> order, todo |-> order]]
  /\ UNCHANGED <<kafka, gallery, files, lock, broker, abandoned, faults>>

CommitReorder(c) ==
  /\ At(c, "commit")
  /\ LET order == call[c].url IN
       row' = [m \in Media |->
         IF m \in lock[c] THEN [row[m] EXCEPT !.sort = CHOOSE k \in DOMAIN order : order[k] = m]
         ELSE row[m]]
  /\ End(c) /\ lock' = [lock EXCEPT ![c] = {}]
  /\ UNCHANGED <<kafka, used, files, broker, abandoned, counts>>

\* deleteMedia: the row first, then the object its url names.
DeleteMedia(c, m) ==
  /\ row[m] # None /\ Unlocked(m)
  /\ call[c] = Idle /\ requests < MaxRequests
  /\ requests' = requests + 1
  /\ call' = [call EXCEPT ![c] = [op |-> "delete", pc |-> "remove", img |-> m, cover |-> FALSE,
                                  url |-> row[m].url, todo |-> <<>>]]
  /\ row' = [row EXCEPT ![m] = None]
  /\ UNCHANGED <<kafka, used, files, lock, broker, abandoned, faults>>

\* Store.Delete: an error is logged, and leaves a file nobody can reach.
DeleteObject(c) ==
  /\ At(c, "remove")
  /\ \/ store' = store \ {call[c].url} /\ UNCHANGED faults
     \/ Fault /\ UNCHANGED store
  /\ End(c)
  /\ UNCHANGED <<kafka, gallery, spool, puts, lock, broker, abandoned, requests>>

\* The API dies, or the client leaves and the request's context with it.
RequestDies(c) ==
  /\ call[c] # Idle /\ Fault
  /\ End(c) /\ lock' = [lock EXCEPT ![c] = {}]
  /\ abandoned' = abandoned \cup
       (IF call[c].pc \in {"queue", "inline", "unspool", "ready", "failed"} THEN {call[c].img}
        ELSE {})
  /\ UNCHANGED <<kafka, gallery, files, broker, requests>>

--------------------------------------------------------------------------------
(* The worker's consumer of the upload topic *)

Waiting == [pc |-> "fetch", img |-> None, attempt |-> 0, url |-> None]
Step(pc) == worker' = [worker EXCEPT !.pc = pc]
Handles(pc) == worker.pc = pc

Fetch ==
  /\ Handles("fetch") /\ topic # <<>>
  /\ worker' = [pc |-> "open", img |-> Head(topic), attempt |-> 1, url |-> None]
  /\ UNCHANGED <<kafka, gallery, files, call, lock, topic, dlq, abandoned, counts>>

\* mediaUploader: a missing file fails the row and ends the handling; a refused
\* put fails it and is tried again.
OpenSpool ==
  /\ Handles("open")
  /\ Step(IF worker.img \in spool THEN "put" ELSE "missing")
  /\ UNCHANGED <<kafka, gallery, files, call, lock, topic, dlq, abandoned, counts>>

PutObject ==
  /\ Handles("put")
  /\ \/ /\ Put(worker.img)
        /\ worker' = [worker EXCEPT !.pc = "ready", !.url = <<worker.img, puts[worker.img] + 1>>]
        /\ UNCHANGED faults
     \/ Fault /\ Step("refused") /\ UNCHANGED <<puts, store>>
  /\ UNCHANGED <<kafka, gallery, spool, call, lock, topic, dlq, abandoned, requests>>

\* handleWithRetry.
NextAttempt ==
  worker' = IF worker.attempt = MaxAttempts THEN [worker EXCEPT !.pc = "park"]
            ELSE [worker EXCEPT !.pc = "open", !.attempt = @ + 1]

\* Not the code: a failed upload gives its file up.
MarkFailedUnspooled ==
  /\ Handles("missing") \/ Handles("refused")
  /\ \/ /\ Unlocked(worker.img)
        /\ Written(worker.img, "FAILED",
                   IF row[worker.img] = None THEN None ELSE row[worker.img].url)
        /\ UNCHANGED faults
     \/ Fault /\ UNCHANGED row
  /\ IF Handles("missing") THEN Step("commit") ELSE NextAttempt
  /\ spool' = spool \ {worker.img}
  /\ UNCHANGED <<kafka, used, puts, store, call, lock, topic, dlq, abandoned, requests>>

\* markFailed: an error of its UPDATE is only logged.
MarkFailed ==
  /\ Handles("missing") \/ Handles("refused")
  /\ \/ /\ Unlocked(worker.img)
        /\ Written(worker.img, "FAILED",
                   IF row[worker.img] = None THEN None ELSE row[worker.img].url)
        /\ UNCHANGED faults
     \/ Fault /\ UNCHANGED row
  /\ IF Handles("missing") THEN Step("commit") ELSE NextAttempt
  /\ UNCHANGED <<kafka, used, files, call, lock, topic, dlq, abandoned, requests>>

MarkReady ==
  /\ Handles("ready")
  /\ \/ /\ Unlocked(worker.img)
        /\ Written(worker.img, "READY", worker.url) /\ Step("unspool") /\ UNCHANGED faults
     \/ Fault /\ NextAttempt /\ UNCHANGED row
  /\ UNCHANGED <<kafka, used, files, call, lock, topic, dlq, abandoned, requests>>

\* Unspool: an error is only logged.
Unspool ==
  /\ Handles("unspool")
  /\ \/ spool' = spool \ {worker.img} /\ UNCHANGED faults
     \/ Fault /\ UNCHANGED spool
  /\ Step("commit")
  /\ UNCHANGED <<kafka, gallery, puts, store, call, lock, topic, dlq, abandoned, requests>>

\* DeadLetter "must land before the commit, or the event is gone".
DeadLetter ==
  /\ Handles("park")
  /\ dlq' = dlq \cup {worker.img} /\ Step("commit")
  /\ UNCHANGED <<kafka, gallery, files, call, lock, topic, abandoned, counts>>

CommitMessages ==
  /\ Handles("commit")
  /\ topic' = Tail(topic) /\ worker' = Waiting
  /\ UNCHANGED <<kafka, gallery, files, call, lock, dlq, abandoned, counts>>

\* Killed or shut down: left uncommitted, redelivered on the next start.
WorkerDies ==
  /\ worker # Waiting /\ Fault
  /\ worker' = Waiting
  /\ UNCHANGED <<kafka, gallery, files, call, lock, topic, dlq, abandoned, requests>>

--------------------------------------------------------------------------------
\* extractImageInputs and createWithType: whichever the request marked, the first
\* of a new listing's images is its cover and no other is.
CoverOf(images) == CHOOSE m \in images : TRUE

\* A listing as it was created from urls.
Init ==
  /\ kafka \in BOOLEAN
  /\ used \in Given
  /\ row = [m \in Media |->
       IF m \in used THEN Row("READY", Link(m), m = CoverOf(used), 0) ELSE None]
  /\ spool = {} /\ puts = [m \in Media |-> 0] /\ store = {}
  /\ call = [c \in Calls |-> Idle] /\ lock = [c \in Calls |-> {}]
  /\ topic = <<>> /\ dlq = {} /\ worker = Waiting
  /\ abandoned = {} /\ requests = 0 /\ faults = 0

Orders == {Images, Videos} \ {{}}
Request(c) ==
  \/ \E m \in Media, cover \in BOOLEAN : AddImage(c, m, cover)
  \/ \E m \in Media : AddVideo(c, m) \/ SetCover(c, m) \/ DeleteMedia(c, m)
  \/ \E table \in Orders : \E order \in Bijection(1 .. Cardinality(table), table) : Reorder(c, order)

\* A request once begun goes on: its goroutine runs until the response.
Proceed(c) ==
  \/ ClearCovers(c) \/ LockRow(c) \/ Locked(c) \/ Abort(c)
  \/ CommitAdd(c) \/ RaiseCover(c) \/ CommitReorder(c)
  \/ Queue(c) \/ UploadSpooled(c) \/ UploadSpooledFails(c) \/ UnspoolInline(c) \/ FinishInline(c)
  \/ DeleteObject(c)

Work ==
  \/ Fetch \/ OpenSpool \/ PutObject \/ MarkFailed \/ MarkReady \/ Unspool
  \/ DeadLetter \/ CommitMessages

Next ==
  \/ \E c \in Calls : Request(c) \/ Proceed(c) \/ QueueRefused(c) \/ RequestDies(c)
  \/ Work \/ WorkerDies

Spec == Init /\ [][Next]_vars

\* Handlers run to their end and the worker keeps consuming; faults are bounded.
FairSpec == Spec /\ WF_vars(Work) /\ \A c \in Calls : WF_vars(Proceed(c))
--------------------------------------------------------------------------------
(* Properties *)

\* A row that reads READY shows a file that is there: puts come before the row
\* and a row goes before its object ("the reverse order would leave a row
\* pointing at a file that no longer exists").
ReadyIsStored ==
  \A m \in Media : row[m] # None /\ row[m].status = "READY" => row[m].url \in {Link(m)} \cup store

\* Whatever fails, the bytes of a file that was accepted stay somewhere while its
\* row is there: in the spool until the store has them ("with the spool file
\* kept, so the consume loop's retries can still finish it").
BytesKept ==
  \A m \in Media : row[m] # None /\ row[m].url # Link(m) => m \in spool \/ \E n \in 1 .. puts[m] : <<m, n>> \in store

\* A dropped event "would leave this row PENDING forever with nobody to finish
\* it": unless its request died, every PENDING row is finished or deleted, or
\* its event is on the dead-letter topic.
PendingSettles ==
  \A m \in Media :
    (row[m] # None /\ row[m].status = "PENDING")
      ~> (row[m] = None \/ row[m].status # "PENDING" \/ m \in dlq \cup abandoned)
================================================================================
