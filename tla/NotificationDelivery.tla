------------------------ MODULE NotificationDelivery ------------------------
(***************************************************************************)
(* Push notifications to one recipient: rows that the scheduler creates    *)
(* under a dedupe key, rows that a manager sends in a batch, and the       *)
(* workers that deliver them and retry.                                    *)
(*                                                                         *)
(* A worker reads a row into its session, counts an attempt (the UPDATE    *)
(* keeps the row locked until the commit), asks the provider once per      *)
(* device and then commits the outcome on the copy it read.  A batch is a  *)
(* task that is acknowledged late: it is run again after an exception, a   *)
(* bounded number of times, and after the loss of its worker.              *)
(***************************************************************************)
EXTENDS Integers, Sequences

CONSTANTS
    Rows,        \* rows of notifications that may be created
    Keys,        \* dedupe keys of scheduled notifications
    NoKey,       \* dedupe_key IS NULL
    Devices,     \* the recipient's device tokens
    Workers,
    MaxAttempts, \* settings.notification_max_attempts
    MaxRetries,  \* max_retries of the batch task
    MaxLosses    \* bound: workers lost

VARIABLES
    note,    \* notifications
    due,     \* dedupe keys whose window is open
    wanted,  \* the recipient's preference
    active,  \* active device tokens
    got,     \* devices that the provider has pushed a row to (history)
    batch,   \* the batch task
    worker,  \* what each worker is doing
    losses   \* workers lost so far

vars == <<note, due, wanted, active, got, batch, worker, losses>>

None == [status |-> "none"]
Note == [status : {"queued", "sent", "failed"}, attempts : 0 .. MaxAttempts, key : Keys \cup {NoKey}]
Idle == [op |-> "idle"]

TypeOK ==
    /\ note \in [Rows -> Note \cup {None}]
    /\ due \subseteq Keys
    /\ wanted \in BOOLEAN
    /\ active \subseteq Devices
    /\ got \in [Rows -> SUBSET Devices]
    /\ batch.status \in {"none", "unsent", "waiting", "running", "done", "dropped"}
    /\ DOMAIN worker = Workers
    /\ losses \in 0 .. MaxLosses

Init ==
    /\ note = [n \in Rows |-> None]
    /\ due = {}
    /\ wanted = TRUE
    /\ active = Devices
    /\ got = [n \in Rows |-> {}]
    /\ batch = [status |-> "none"]
    /\ worker = [w \in Workers |-> Idle]
    /\ losses = 0
----------------------------------------------------------------------------
(* Creation.                                                               *)

\* Windows of 23 to 25 hours before a start open and close.
Window(k) ==
    /\ due' = IF k \in due THEN due \ {k} ELSE due \cup {k}
    /\ UNCHANGED <<note, wanted, active, got, batch, worker, losses>>

UpdatePreferences ==
    /\ wanted' = ~wanted
    /\ UNCHANGED <<note, due, active, got, batch, worker, losses>>

RegisterDevice(d) ==
    /\ d \notin active
    /\ active' = active \cup {d}
    /\ UNCHANGED <<note, due, wanted, got, batch, worker, losses>>

RemoveDevice(d) ==
    /\ d \in active
    /\ active' = active \ {d}
    /\ UNCHANGED <<note, due, wanted, got, batch, worker, losses>>

RowsWith(k) == {n \in Rows : note[n].status # "none" /\ note[n].key = k}
Queued(k) == [status |-> "queued", attempts |-> 0, key |-> k]

\* A scheduled run finds no row under the key.
ScheduleRead(w, k) ==
    /\ worker[w] = Idle
    /\ k \in due /\ wanted
    /\ RowsWith(k) = {}
    /\ worker' = [worker EXCEPT ![w] = [op |-> "schedule", key |-> k]]
    /\ UNCHANGED <<note, due, wanted, active, got, batch, losses>>

\* What the unique constraint on dedupe_key lets the insert find.
Existing(k) == RowsWith(k)

Read(n, seen, rest, for) == [op |-> "read", on |-> n, seen |-> seen, rest |-> rest, for |-> for]

\* The row that another run has just created is returned and delivered too.
ScheduleCreate(w, n) ==
    /\ worker[w].op = "schedule"
    /\ LET k == worker[w].key IN
       IF Existing(k) = {}
       THEN /\ note[n] = None
            /\ note' = [note EXCEPT ![n] = Queued(k)]
            /\ worker' = [worker EXCEPT ![w] = Read(n, Queued(k), <<>>, "schedule")]
       ELSE /\ n \in Existing(k)
            /\ worker' = [worker EXCEPT ![w] = Read(n, note[n], <<>>, "schedule")]
            /\ UNCHANGED note
    /\ UNCHANGED <<due, wanted, active, got, batch, losses>>

\* send_notifications commits the rows and then enqueues the task.
SendCommit(rows) ==
    /\ wanted
    /\ batch.status = "none"
    /\ \A i \in DOMAIN rows : note[rows[i]] = None
    /\ note' = [n \in Rows |-> IF \E i \in DOMAIN rows : rows[i] = n THEN Queued(NoKey) ELSE note[n]]
    /\ batch' = [status |-> "unsent", rows |-> rows, left |-> MaxRetries]
    /\ UNCHANGED <<due, wanted, active, got, worker, losses>>

SendEnqueue ==
    /\ batch.status = "unsent"
    /\ batch' = [batch EXCEPT !.status = "waiting"]
    /\ UNCHANGED <<note, due, wanted, active, got, worker, losses>>
----------------------------------------------------------------------------
(* Delivery.                                                               *)

\* Mutant: one attempt more.
GivesUpLate(row) == row.status = "sent" \/ (row.status = "failed" /\ row.attempts > MaxAttempts)
\* Nothing is left to do for a row.
GivesUp(row) == row.status = "sent" \/ (row.status = "failed" /\ row.attempts >= MaxAttempts)

Walk(rest) == [op |-> "walk", rest |-> rest]

TakeBatch(w) ==
    /\ worker[w] = Idle
    /\ batch.status = "waiting"
    /\ batch' = [batch EXCEPT !.status = "running"]
    /\ worker' = [worker EXCEPT ![w] = Walk(batch.rows)]
    /\ UNCHANGED <<note, due, wanted, active, got, losses>>

ReadNext(w) ==
    /\ worker[w].op = "walk"
    /\ worker[w].rest # <<>>
    /\ LET n == Head(worker[w].rest) IN
       worker' = [worker EXCEPT ![w] = Read(n, note[n], Tail(worker[w].rest), "batch")]
    /\ UNCHANGED <<note, due, wanted, active, got, batch, losses>>

Afterwards(w) == IF worker[w].for = "batch" THEN Walk(worker[w].rest) ELSE Idle

BatchDone(w) ==
    /\ worker[w] = Walk(<<>>)
    /\ batch' = [batch EXCEPT !.status = "done"]
    /\ worker' = [worker EXCEPT ![w] = Idle]
    /\ UNCHANGED <<note, due, wanted, active, got, losses>>

Skip(w) ==
    /\ worker[w].op = "read"
    /\ GivesUp(worker[w].seen)
    /\ worker' = [worker EXCEPT ![w] = Afterwards(w)]
    /\ UNCHANGED <<note, due, wanted, active, got, batch, losses>>

\* The count of attempts is flushed before the devices are read: it waits for
\* another delivery of the row.
Attempt(w) ==
    /\ worker[w].op = "read"
    /\ ~GivesUp(worker[w].seen)
    /\ \A v \in Workers : worker[v].op = "send" => worker[v].on # worker[w].on
    /\ worker' = [worker EXCEPT ![w] =
                     [op |-> "send", on |-> @.on, seen |-> @.seen, rest |-> @.rest, for |-> @.for,
                      to |-> active, taken |-> FALSE, dead |-> {}]]
    /\ UNCHANGED <<note, due, wanted, active, got, batch, losses>>

\* The outcome of an attempt; a status that the copy already has is not written.
Outcome(seen, row, status) ==
    [row EXCEPT !.status = IF seen.status = status THEN @ ELSE status, !.attempts = seen.attempts + 1]

\* An exception ends the batch's run, but only this row of a scheduled run.
Fail(w, dead) ==
    /\ note' = [note EXCEPT ![worker[w].on] = Outcome(worker[w].seen, @, "failed")]
    /\ active' = active \ dead
    /\ worker' = [worker EXCEPT ![w] = Idle]
    /\ batch' = IF worker[w].for # "batch" THEN batch
                ELSE IF batch.left > 0
                THEN [batch EXCEPT !.status = "waiting", !.left = @ - 1]
                ELSE [batch EXCEPT !.status = "dropped"]

\* One device: the provider takes the message, rejects the token, or fails.
PushTaken(w, d) ==
    /\ worker[w].op = "send"
    /\ d \in worker[w].to
    /\ got' = [got EXCEPT ![worker[w].on] = @ \cup {d}]
    /\ worker' = [worker EXCEPT ![w].to = @ \ {d}, ![w].taken = TRUE]
    /\ UNCHANGED <<note, due, wanted, active, batch, losses>>

PushRejected(w, d) ==
    /\ worker[w].op = "send"
    /\ d \in worker[w].to
    /\ worker' = [worker EXCEPT ![w].to = @ \ {d}, ![w].dead = @ \cup {d}]
    /\ UNCHANGED <<note, due, wanted, active, got, batch, losses>>

\* After too many failures the device is dropped as well.
PushFailed(w, d) ==
    /\ worker[w].op = "send"
    /\ d \in worker[w].to
    /\ \E more \in {{}, {d}} : Fail(w, worker[w].dead \cup more)
    /\ UNCHANGED <<due, wanted, got, losses>>

\* Mutant: rejected by every device counts as sent.
DeliveredAnyway(w) == TRUE
Delivered(w) == worker[w].taken

Sent(w) ==
    /\ worker[w].op = "send" /\ worker[w].to = {}
    /\ Delivered(w)
    /\ note' = [note EXCEPT ![worker[w].on] = Outcome(worker[w].seen, @, "sent")]
    /\ active' = active \ worker[w].dead
    /\ worker' = [worker EXCEPT ![w] = Afterwards(w)]
    /\ UNCHANGED <<due, wanted, got, batch, losses>>

\* No active device, or all of them rejected the message.
Unsent(w) ==
    /\ worker[w].op = "send" /\ worker[w].to = {}
    /\ ~Delivered(w)
    /\ Fail(w, worker[w].dead)
    /\ UNCHANGED <<due, wanted, got, losses>>

\* A lost worker's batch goes back to the queue, a scheduled run is forgotten.
LoseWorker(w) ==
    /\ worker[w] # Idle /\ losses < MaxLosses
    /\ batch' = IF worker[w].op = "walk" \/ (worker[w].op # "schedule" /\ worker[w].for = "batch")
                THEN [batch EXCEPT !.status = "waiting"] ELSE batch
    /\ worker' = [worker EXCEPT ![w] = Idle]
    /\ losses' = losses + 1
    /\ UNCHANGED <<note, due, wanted, active, got>>
----------------------------------------------------------------------------
Proceed(w) ==
    \/ \E n \in Rows : ScheduleCreate(w, n)
    \/ TakeBatch(w) \/ ReadNext(w) \/ BatchDone(w) \/ Skip(w) \/ Attempt(w)
    \/ \E d \in Devices : PushTaken(w, d) \/ PushRejected(w, d) \/ PushFailed(w, d)
    \/ Sent(w) \/ Unsent(w)

Tick == \E w \in Workers, k \in Keys : ScheduleRead(w, k)

Next ==
    \/ \E k \in Keys : Window(k)
    \/ UpdatePreferences
    \/ \E d \in Devices : RegisterDevice(d) \/ RemoveDevice(d)
    \/ Tick
    \/ \E n, m \in Rows : n # m /\ SendCommit(<<n, m>>)
    \/ SendEnqueue
    \/ \E w \in Workers : Proceed(w) \/ LoseWorker(w)

Spec == Init /\ [][Next]_vars

\* Beat starts a run every minute and workers do not stop for ever.
FairSpec == Spec /\ WF_vars(Tick) /\ \A w \in Workers : WF_vars(Proceed(w))
----------------------------------------------------------------------------
(* Properties.                                                             *)

\* Scheduled runs that overlap create one notification per dedupe key.
OncePerKey == \A k \in Keys : \A n, m \in RowsWith(k) : n = m

\* "sent" is never claimed for a message that no device was sent, whichever
\* tokens were rejected, added or removed while it was delivered.
SentIsReceived == \A n \in Rows : note[n].status = "sent" => got[n] # {}

\* The row behind one that always fails gets its turn: attempts run out before
\* the task's retries do, also when workers are lost.
BatchReachesNext ==
    batch.status = "waiting" ~>
        (batch.status # "none" /\ note[batch.rows[2]].attempts > 0)
============================================================================
