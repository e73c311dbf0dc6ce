------------------------------ MODULE JobQueue ------------------------------
(***************************************************************************)
(* The table ingestion_jobs and the statements internal/store/store.go     *)
(* runs on it, called by the web handlers and by any number of ingestion   *)
(* workers (internal/rag/worker.go).                                       *)
(*                                                                         *)
(* "now" is the clock of the database: every comparison with a lease or a  *)
(* due time is made there, never on the clock of a worker.  In PostgreSQL  *)
(* now() is the time at which the transaction began, so a claim, the only  *)
(* transaction of several round trips, stamps the row with a time that may *)
(* have passed when it commits.  The other statements are one transaction  *)
(* each and are atomic steps: they meet on one row only, and an UPDATE     *)
(* that waited for a row checks its WHERE clause again on the new version. *)
(***************************************************************************)
EXTENDS Integers, Sequences

CONSTANTS
    Job,            \* job identifiers (newID("job"))
    Worker,         \* worker identifiers (newID("worker")): never reused
    NoJob,          \* not a job
    NoWorker,       \* the empty worker_id
    LeaseDuration,  \* IngestionWorker.LeaseDuration, in ticks
    RetryDelays,    \* IngestionWorker.RetryDelays, in ticks
    MaxTime,        \* bound of a run: the last tick of the clock
    MaxAttempts     \* bound of a run: claims of one job

ASSUME QueueAssumption ==
    /\ NoJob \notin Job
    /\ NoWorker \notin Worker
    /\ LeaseDuration \in Nat
    /\ RetryDelays \in Seq(Nat)
    /\ MaxTime \in Nat
    /\ MaxAttempts \in Nat

VARIABLES
    now,        \* the clock of the database
    row,        \* row[j]: the row of job j
    claim,      \* claim[w]: w's open claim transaction: when it began, the row it locked
    run         \* run[w]: the job w's process() works on, as the claim returned it

vars == <<now, row, claim, run>>

-----------------------------------------------------------------------------
NoTime == -1        \* NULL in lease_until; no open transaction
Time   == Nat
Status == {"absent", "queued", "processing", "completed", "failed"}
Error  == {"none", "transient", "permanent"}    \* what error_message holds

Row == [status : Status, worker : Worker \cup {NoWorker},
        lease : Time \cup {NoTime}, next : Time, created : Time,
        attempts : Nat, retries : Nat, error : Error]

NoClaim == [began |-> NoTime, job |-> NoJob]
NoRun   == [job |-> NoJob, attempts |-> 0, retries |-> 0]

Absent == [status |-> "absent", worker |-> NoWorker, lease |-> NoTime,
           next |-> 0, created |-> 0, attempts |-> 0, retries |-> 0,
           error |-> "none"]

Init ==
    /\ now = 0
    /\ row = [j \in Job |-> Absent]
    /\ claim = [w \in Worker |-> NoClaim]
    /\ run = [w \in Worker |-> NoRun]

-----------------------------------------------------------------------------
(* The web handlers.                                                       *)

\* The INSERT: next_attempt_at and created_at default to now().
createIngestionJob(j) ==
    /\ row[j].status = "absent"
    /\ row' = [row EXCEPT ![j] =
                 [@ EXCEPT !.status = "queued", !.next = now, !.created = now]]
    /\ UNCHANGED <<now, claim, run>>

-----------------------------------------------------------------------------
(* Claiming: BEGIN; SELECT ... FOR UPDATE SKIP LOCKED and UPDATE; COMMIT.  *)

Locked == {claim[w].job : w \in Worker} \ {NoJob}

\* Faulty variant: a SELECT without FOR UPDATE SKIP LOCKED.
UnlockedClaimable(t) ==
    {j \in Job : row[j].status = "queued" /\ row[j].next <= t}

\* Faulty variant: the backoff is not looked at.
EarlyClaimable(t) ==
    {j \in Job \ Locked : row[j].status = "queued" /\ t >= 0}

\* The rows the SELECT of a transaction that began at t may take.
Claimable(t) ==
    {j \in Job \ Locked : row[j].status = "queued" /\ row[j].next <= t}

\* ORDER BY next_attempt_at, created_at
Before(i, j) ==
    \/ row[i].next < row[j].next
    \/ row[i].next = row[j].next /\ row[i].created < row[j].created

\* loop() claims only between two calls of process().
ClaimBegin(w) ==
    /\ run[w] = NoRun
    /\ claim[w] = NoClaim
    /\ claim' = [claim EXCEPT ![w] = [began |-> now, job |-> NoJob]]
    /\ UNCHANGED <<now, row, run>>

ClaimSelect(w, j) ==
    /\ claim[w].began # NoTime
    /\ claim[w].job = NoJob
    /\ j \in Claimable(claim[w].began)
    /\ \A i \in Claimable(claim[w].began) : ~Before(i, j)
    /\ row[j].attempts < MaxAttempts
    /\ claim' = [claim EXCEPT ![w].job = j]
    /\ UNCHANGED <<now, row, run>>

\* No row, a failed statement, a trace that does not parse, or a rollback.
ClaimEnd(w) ==
    /\ claim[w] # NoClaim
    /\ claim' = [claim EXCEPT ![w] = NoClaim]
    /\ UNCHANGED <<now, row, run>>

\* The row the UPDATE wrote becomes visible.
ClaimedRow(w, j) ==
    [row[j] EXCEPT !.status = "processing", !.attempts = @ + 1, !.worker = w,
                   !.lease = claim[w].began + LeaseDuration]

\* Faulty variant: the copy is made of the row before the UPDATE.
StaleCopy(j) == [job |-> j, attempts |-> row[j].attempts, retries |-> row[j].retries]

\* RETURNING: what process() will know of the job.
ClaimedCopy(j) == [job |-> j, attempts |-> row[j].attempts + 1, retries |-> row[j].retries]

\* The caller learns of the commit and runs the job, or does not: it died,
\* or the reply was lost and ClaimNextIngestionJob returned an error.
ClaimCommit(w, heard) ==
    LET j == claim[w].job IN
    /\ j # NoJob
    /\ row' = [row EXCEPT ![j] = ClaimedRow(w, j)]
    /\ claim' = [claim EXCEPT ![w] = NoClaim]
    /\ run' = IF heard THEN [run EXCEPT ![w] = ClaimedCopy(j)] ELSE run
    /\ UNCHANGED now

-----------------------------------------------------------------------------
(* The statements of a worker that runs job j, each with its WHERE clause. *)

\* Faulty variant: the worker's name is not compared.
Anybodys(w, j) == row[j].status = "processing" /\ w \in Worker

IsMine(w, j) ==
    row[j].status = "processing" /\ row[j].worker = w

\* worker_id=$ AND lease_until >= now(); a NULL lease compares to nothing.
OwnsLease(w, j) ==
    IsMine(w, j) /\ row[j].lease # NoTime /\ row[j].lease >= now

Runs(w, j) == run[w].job = j /\ j # NoJob

\* Faulty variant: a queued job starts counting its attempts anew.
FreedFromZero(j, status) ==
    [row[j] EXCEPT !.status = status, !.lease = NoTime, !.worker = NoWorker,
                   !.attempts = 0]

\* Every UPDATE that takes the job from its worker writes these columns.
Freed(j, status) ==
    [row[j] EXCEPT !.status = status, !.lease = NoTime, !.worker = NoWorker]

\* process() returns.
StopRun(w) == run' = [run EXCEPT ![w] = NoRun]

RenewIngestionJobLease(w, j) ==
    /\ Runs(w, j)
    /\ OwnsLease(w, j)
    /\ row' = [row EXCEPT ![j].lease = now + LeaseDuration]
    /\ UNCHANGED <<now, claim, run>>

CompleteIngestionJob(w, j) ==
    /\ Runs(w, j)
    /\ OwnsLease(w, j)
    /\ row' = [row EXCEPT ![j] = [Freed(j, "completed") EXCEPT !.error = "none"]]
    /\ StopRun(w)
    /\ UNCHANGED <<now, claim>>

\* Faulty variant: claims are counted instead of retries.
HasAttemptLeft(w) == run[w].attempts < Len(RetryDelays)

\* process() decides on the retry count the claim returned, not on the row's.
HasRetryLeft(w) == run[w].retries < Len(RetryDelays)

\* Faulty variant: the delay is taken off.
BackoffBefore(w) == now - RetryDelays[run[w].retries + 1]

BackoffUntil(w) == now + RetryDelays[run[w].retries + 1]

RetryIngestionJob(w, j) ==
    /\ Runs(w, j)
    /\ OwnsLease(w, j)
    /\ HasRetryLeft(w)
    /\ row' = [row EXCEPT ![j] =
                 [Freed(j, "queued") EXCEPT
                    !.retries = @ + 1,
                    !.next = BackoffUntil(w),
                    !.error = "transient"]]
    /\ StopRun(w)
    /\ UNCHANGED <<now, claim>>

FailIngestionJob(w, j, error) ==
    /\ Runs(w, j)
    /\ OwnsLease(w, j)
    /\ error = "transient" => ~HasRetryLeft(w)
    /\ row' = [row EXCEPT ![j] = [Freed(j, "failed") EXCEPT !.error = error]]
    /\ StopRun(w)
    /\ UNCHANGED <<now, claim>>

\* The one statement of a worker whose WHERE clause has no lease in it.
ReleaseIngestionJob(w, j) ==
    /\ Runs(w, j)
    /\ IsMine(w, j)
    /\ row' = [row EXCEPT ![j] = [Freed(j, "queued") EXCEPT !.next = now]]
    /\ StopRun(w)
    /\ UNCHANGED <<now, claim>>

\* The last statement of process() matched no row or failed, or w crashed.
AbandonRun(w) ==
    /\ run[w] # NoRun
    /\ StopRun(w)
    /\ UNCHANGED <<now, row, claim>>

-----------------------------------------------------------------------------
(* Start() and loop() of any worker take expired leases back.              *)

\* Faulty variant: lease_until <= now(), not the complement of >= now().
ExpiredOrDue(j) ==
    /\ row[j].status = "processing"
    /\ row[j].lease = NoTime \/ row[j].lease <= now

Expired(j) ==
    /\ row[j].status = "processing"
    /\ row[j].lease = NoTime \/ row[j].lease < now

RecoverExpiredIngestionJobs ==
    /\ \E j \in Job : Expired(j)
    /\ row' = [j \in Job |-> IF Expired(j)
                             THEN [Freed(j, "queued") EXCEPT !.next = now]
                             ELSE row[j]]
    /\ UNCHANGED <<now, claim, run>>

Tick ==
    /\ now < MaxTime
    /\ now' = now + 1
    /\ UNCHANGED <<row, claim, run>>

WorkerStep(w, j) ==
    \/ ClaimSelect(w, j)
    \/ RenewIngestionJobLease(w, j)
    \/ CompleteIngestionJob(w, j)
    \/ RetryIngestionJob(w, j)
    \/ \E error \in {"transient", "permanent"} : FailIngestionJob(w, j, error)
    \/ ReleaseIngestionJob(w, j)

Next ==
    \/ \E j \in Job : createIngestionJob(j)
    \/ \E w \in Worker : \/ ClaimBegin(w) \/ ClaimEnd(w) \/ AbandonRun(w)
                         \/ \E heard \in BOOLEAN : ClaimCommit(w, heard)
                         \/ \E j \in Job : WorkerStep(w, j)
    \/ RecoverExpiredIngestionJobs
    \/ Tick

Spec == Init /\ [][Next]_vars

-----------------------------------------------------------------------------
(* Properties.                                                             *)

TypeOK ==
    /\ now \in Time
    /\ row \in [Job -> Row]
    /\ claim \in [Worker -> [began : Time \cup {NoTime}, job : Job \cup {NoJob}]]
    /\ run \in [Worker -> [job : Job \cup {NoJob}, attempts : Nat, retries : Nat]]

\* A row another transaction locked stays as the SELECT saw it: two workers
\* never lock one row, and nothing, not even Recover or the worker that owned
\* the row before, moves a locked row on before the claim commits.
ClaimIsStable ==
    \A w \in Worker : claim[w].job # NoJob =>
        /\ row[claim[w].job].status = "queued"
        /\ row[claim[w].job].next <= claim[w].began
        /\ \A v \in Worker \ {w} : claim[v].job # claim[w].job

\* Fencing.  The UPDATEs compare the worker's name only; no attempt number is
\* sent.  Still, whenever a worker's statement can match a row, the worker
\* acts on the newest attempt and knows the row's true retry count.
FencedByName ==
    \A w \in Worker, j \in Job : Runs(w, j) /\ IsMine(w, j) =>
        /\ run[w].attempts = row[j].attempts
        /\ run[w].retries = row[j].retries

\* A job is handed out once per attempt: two workers never process the same
\* attempt, and a worker that processes an old one has a smaller number.
OneRunPerAttempt ==
    \A w \in Worker, j \in Job : Runs(w, j) =>
        /\ run[w].attempts <= row[j].attempts
        /\ \A v \in Worker \ {w} : run[v] # run[w]

\* A job keeps being retried after transient errors exactly as long as the
\* delays last, although process() counts on a copy of the row: never more
\* retries than delays, and no transient failure is final before the last.
RetryBudget ==
    \A j \in Job :
        /\ row[j].retries <= Len(RetryDelays)
        /\ row[j].status = "failed" /\ row[j].error = "transient"
              => row[j].retries = Len(RetryDelays)

\* While a lease lasts, only the worker that runs the job takes it from the
\* row: neither Recover nor another worker's claim or late release can.
LeaseProtects ==
    [][\A j \in Job :
         row[j].status = "processing" /\ row[j].lease >= now
         /\ row'[j].status # "processing"
         => \E w \in Worker : row[j].worker = w /\ Runs(w, j) /\ run'[w] = NoRun]_vars

\* A completed or failed job is never run again, and a queued job is not
\* handed out before the time its backoff set.
NoRerunNoEarlyRun ==
    [][\A j \in Job :
         row'[j].status = "processing" /\ row[j].status # "processing"
         => row[j].status = "queued" /\ row[j].next <= now]_vars

\* The inductive invariant of the proofs.  What is added: a worker has no claim
\* open while it runs a job, and a transaction that holds a row has begun, not
\* in the future.
ClaimerIsIdle ==
    \A w \in Worker :
        /\ claim[w] # NoClaim => run[w] = NoRun
        /\ claim[w].began = NoTime => claim[w].job = NoJob
        /\ claim[w].began <= now

IInv == TypeOK /\ ClaimIsStable /\ ClaimerIsIdle /\ FencedByName
        /\ OneRunPerAttempt /\ RetryBudget

\* What the contract sees of the rows and of the runs: attempts are tickets.
PhaseOf(r) == CASE r.status = "queued" -> "waiting"
                [] r.status = "processing" -> "granted"
                [] OTHER -> r.status

phaseBar  == [j \in Job |-> PhaseOf(row[j])]
ticketBar == [j \in Job |-> row[j].attempts]
budgetBar == [j \in Job |-> Len(RetryDelays) - row[j].retries]
holdsBar  == [w \in Worker |-> [job |-> run[w].job, ticket |-> run[w].attempts]]

Contract == INSTANCE QueueContract WITH
    Retries <- Len(RetryDelays), phase <- phaseBar, ticket <- ticketBar,
    budget <- budgetBar, holds <- holdsBar

\* The queue keeps its contract: a worker's name in the row fences its old
\* statements as well as a ticket number sent with each of them would.
ImplementsContract == Contract!ContractSpec
=============================================================================
