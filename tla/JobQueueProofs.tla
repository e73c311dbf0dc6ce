--------------------------- MODULE JobQueueProofs ---------------------------
(***************************************************************************)
(* What JobQueue promises for every number of jobs and workers, every      *)
(* lease and every list of delays.                                         *)
(***************************************************************************)
EXTENDS JobQueue, TLAPS

-----------------------------------------------------------------------------
(* Types.                                                                  *)

\* The record updates of the statements yield rows.
LEMMA RowUpdates ==
    ASSUME TypeOK, NEW j \in Job
    PROVE  /\ row[j] \in Row
           /\ \A s \in Status : Freed(j, s) \in Row
           /\ \A w \in Worker : ClaimedRow(w, j) \in Row
<1>1. row[j] \in Row
  BY DEF TypeOK
<1>2. ASSUME NEW s \in Status PROVE Freed(j, s) \in Row
  BY <1>1 DEF Freed, Row, NoTime
<1>3. ASSUME NEW w \in Worker PROVE ClaimedRow(w, j) \in Row
  <2>1. claim[w].began \in Nat \cup {-1} /\ LeaseDuration \in Nat
    BY QueueAssumption DEF TypeOK, Time, NoTime
  <2>2. claim[w].began + LeaseDuration \in Time \cup {NoTime}
    BY <2>1 DEF Time, NoTime
  <2>3. "processing" \in Status /\ row[j].attempts + 1 \in Nat
    BY <1>1 DEF Status, Row
  <2>. QED
    BY <1>1, <2>2, <2>3 DEF ClaimedRow, Row
<1>. QED
  BY <1>1, <1>2, <1>3

\* A row written by any statement of a worker is a row.
LEMMA WorkerTypes ==
    ASSUME TypeOK, NEW w \in Worker, NEW j \in Job, WorkerStep(w, j)
    PROVE  TypeOK'
<1>. USE DEF TypeOK, StopRun, NoRun
<1>0. /\ row[j] \in Row /\ Freed(j, "queued") \in Row
      /\ Freed(j, "completed") \in Row /\ Freed(j, "failed") \in Row
  BY RowUpdates DEF Status
<1>t. /\ NoJob \in Job \cup {NoJob} /\ 0 \in Nat /\ now \in Nat /\ LeaseDuration \in Nat
      /\ now + LeaseDuration \in Nat
  BY QueueAssumption DEF Time
<1>1. CASE ClaimSelect(w, j)
  BY <1>1 DEF ClaimSelect
<1>2. CASE RenewIngestionJobLease(w, j)
  <2>1. [row[j] EXCEPT !.lease = now + LeaseDuration] \in Row
    BY <1>0, <1>t DEF Row, Time
  <2>2. row' = [row EXCEPT ![j] = [row[j] EXCEPT !.lease = now + LeaseDuration]]
    BY <1>2 DEF RenewIngestionJobLease
  <2>. QED
    BY <1>2, <2>1, <2>2 DEF RenewIngestionJobLease
<1>3. CASE CompleteIngestionJob(w, j)
  <2>1. [Freed(j, "completed") EXCEPT !.error = "none"] \in Row
    BY <1>0 DEF Row, Error
  <2>. QED
    BY <1>3, <1>t, <2>1 DEF CompleteIngestionJob
<1>4. CASE RetryIngestionJob(w, j)
  <2>1. run[w].retries \in Nat /\ run[w].retries + 1 \in 1..Len(RetryDelays)
    <3>1. run[w].retries \in Nat /\ Len(RetryDelays) \in Nat
      BY QueueAssumption
    <3>. QED
      BY <1>4, <3>1 DEF RetryIngestionJob, HasRetryLeft
  <2>2. RetryDelays[run[w].retries + 1] \in Nat
    BY <2>1, QueueAssumption
  <2>3. now + RetryDelays[run[w].retries + 1] \in Time
    BY <2>2, <1>t DEF Time
  <2>4. [Freed(j, "queued") EXCEPT !.retries = @ + 1,
                                   !.next = now + RetryDelays[run[w].retries + 1],
                                   !.error = "transient"] \in Row
    <3>1. Freed(j, "queued").retries + 1 \in Nat
      BY <1>0 DEF Row
    <3>2. "transient" \in Error
      BY DEF Error
    <3>. QED
      BY <1>0, <2>3, <3>1, <3>2 DEF Row
  <2>. QED
    BY <1>4, <1>t, <2>4 DEF RetryIngestionJob, BackoffUntil
<1>5. ASSUME NEW error \in {"transient", "permanent"}, FailIngestionJob(w, j, error)
      PROVE  TypeOK'
  <2>1. [Freed(j, "failed") EXCEPT !.error = error] \in Row
    BY <1>0 DEF Row, Error
  <2>. QED
    BY <1>5, <1>t, <2>1 DEF FailIngestionJob
<1>6. CASE ReleaseIngestionJob(w, j)
  <2>1. [Freed(j, "queued") EXCEPT !.next = now] \in Row
    BY <1>0, <1>t DEF Row, Time
  <2>. QED
    BY <1>6, <1>t, <2>1 DEF ReleaseIngestionJob
<1>. QED
  BY <1>1, <1>2, <1>3, <1>4, <1>5, <1>6 DEF WorkerStep

\* Every variable keeps its type, whichever handler or worker acts.
THEOREM TypeCorrect == Spec => []TypeOK
<1>1. Init => TypeOK
  BY DEF Init, TypeOK, Absent, Row, Status, Error, NoClaim, NoRun, Time, NoTime
<1>2. TypeOK /\ [Next]_vars => TypeOK'
  <2>. SUFFICES ASSUME TypeOK, [Next]_vars PROVE TypeOK'
    OBVIOUS
  <2>1. ASSUME NEW j \in Job, createIngestionJob(j) PROVE TypeOK'
    <3>1. [row[j] EXCEPT !.status = "queued", !.next = now, !.created = now] \in Row
      BY RowUpdates DEF Row, Status, Time, TypeOK
    <3>2. row' = [row EXCEPT ![j] =
                    [row[j] EXCEPT !.status = "queued", !.next = now, !.created = now]]
      BY <2>1 DEF createIngestionJob
    <3>. QED
      BY <2>1, <3>1, <3>2 DEF createIngestionJob, TypeOK
  <2>2. ASSUME NEW w \in Worker, ClaimBegin(w) PROVE TypeOK'
    BY <2>2 DEF ClaimBegin, TypeOK, Time, NoTime
  <2>3. ASSUME NEW w \in Worker, ClaimEnd(w) PROVE TypeOK'
    BY <2>3 DEF ClaimEnd, NoClaim, TypeOK, Time, NoTime
  <2>4. ASSUME NEW w \in Worker, NEW heard \in BOOLEAN, ClaimCommit(w, heard)
        PROVE  TypeOK'
    <3>. DEFINE j == claim[w].job
    <3>1. j \in Job
      BY <2>4 DEF ClaimCommit, ClaimedCopy, TypeOK
    <3>2. ClaimedRow(w, j) \in Row /\ row[j] \in Row
      BY <3>1, RowUpdates
    <3>3. row[j].attempts + 1 \in Nat /\ row[j].retries \in Nat
      BY <3>2 DEF Row
    <3>4. row' \in [Job -> Row]
      BY <2>4, <3>1, <3>2 DEF ClaimCommit, ClaimedCopy, TypeOK
    <3>5. claim' \in [Worker -> [began : Time \cup {NoTime}, job : Job \cup {NoJob}]]
      BY <2>4 DEF ClaimCommit, ClaimedCopy, TypeOK, NoClaim
    <3>6. run' \in [Worker -> [job : Job \cup {NoJob}, attempts : Nat, retries : Nat]]
      BY <2>4, <3>1, <3>3 DEF ClaimCommit, ClaimedCopy, TypeOK
    <3>. QED
      BY <2>4, <3>4, <3>5, <3>6 DEF ClaimCommit, ClaimedCopy, TypeOK
  <2>5. ASSUME NEW w \in Worker, AbandonRun(w) PROVE TypeOK'
    BY <2>5 DEF AbandonRun, StopRun, NoRun, TypeOK
  <2>6. ASSUME NEW w \in Worker, NEW j \in Job, WorkerStep(w, j) PROVE TypeOK'
    BY <2>6, WorkerTypes
  <2>7. CASE RecoverExpiredIngestionJobs
    <3>1. ASSUME NEW j \in Job
          PROVE  row[j] \in Row /\ [Freed(j, "queued") EXCEPT !.next = now] \in Row
      <4>1. row[j] \in Row /\ Freed(j, "queued") \in Row
        BY RowUpdates DEF Status
      <4>2. now \in Time
        BY DEF TypeOK
      <4>. QED
        BY <4>1, <4>2 DEF Row
    <3>2. row' \in [Job -> Row]
      BY <2>7, <3>1 DEF RecoverExpiredIngestionJobs
    <3>. QED
      BY <2>7, <3>2 DEF RecoverExpiredIngestionJobs, TypeOK
  <2>8. CASE Tick
    BY <2>8 DEF Tick, TypeOK, Time
  <2>9. CASE UNCHANGED vars
    BY <2>9 DEF vars, TypeOK
  <2>. QED
    BY <2>1, <2>2, <2>3, <2>4, <2>5, <2>6, <2>7, <2>8, <2>9 DEF Next
<1>. QED
  BY <1>1, <1>2, PTL DEF Spec

-----------------------------------------------------------------------------
(* The inductive invariant.                                                *)

\* Empty tables and idle workers satisfy the inductive invariant.
LEMMA InvInit ==
    Init => ClaimIsStable /\ ClaimerIsIdle /\ FencedByName /\ OneRunPerAttempt /\ RetryBudget
<1>. SUFFICES ASSUME Init PROVE ClaimIsStable /\ ClaimerIsIdle /\ FencedByName /\ OneRunPerAttempt /\ RetryBudget
  OBVIOUS
<1>1. ClaimIsStable /\ ClaimerIsIdle
  BY DEF Init, ClaimIsStable, ClaimerIsIdle, NoClaim, NoTime
<1>2. FencedByName
  BY DEF Init, FencedByName, Runs, NoRun
<1>3. OneRunPerAttempt
  BY DEF Init, OneRunPerAttempt, Runs, NoRun
<1>4. RetryBudget
  <2>1. Len(RetryDelays) \in Nat
    BY QueueAssumption
  <2>2. 0 <= Len(RetryDelays)
    BY <2>1
  <2>3. \A j \in Job : row[j].retries = 0 /\ row[j].status = "absent"
    BY DEF Init, Absent
  <2>. QED
    BY <2>2, <2>3 DEF RetryBudget
<1>. QED
  BY <1>1, <1>2, <1>3, <1>4

\* A locked row is claimable, and only claimable rows are queued: whatever
\* statement commits meanwhile, the locked row stays as it was selected.
LEMMA ClaimStableStep == IInv /\ [Next]_vars => ClaimIsStable' /\ ClaimerIsIdle'
<1>. SUFFICES ASSUME IInv, [Next]_vars PROVE ClaimIsStable' /\ ClaimerIsIdle'
  OBVIOUS
<1>. USE DEF IInv, ClaimIsStable, ClaimerIsIdle
<1>0. /\ now \in Nat
      /\ \A w \in Worker : claim[w].began \in Nat \cup {-1} /\ claim[w].job \in Job \cup {NoJob}
      /\ \A w \in Worker : claim[w] = [began |-> claim[w].began, job |-> claim[w].job]
  BY DEF TypeOK, Time, NoTime
<1>1. ASSUME NEW j \in Job, createIngestionJob(j)
      PROVE  ClaimIsStable' /\ ClaimerIsIdle'
  BY <1>0, <1>1 DEF createIngestionJob, TypeOK
<1>2. ASSUME NEW w \in Worker, ClaimBegin(w)
      PROVE  ClaimIsStable' /\ ClaimerIsIdle'
  BY <1>0, <1>2 DEF ClaimBegin, TypeOK, NoTime, NoClaim
<1>3. ASSUME NEW w \in Worker, ClaimEnd(w)
      PROVE  ClaimIsStable' /\ ClaimerIsIdle'
  BY <1>0, <1>3 DEF ClaimEnd, TypeOK, NoTime, NoClaim
<1>4. ASSUME NEW w \in Worker, NEW heard \in BOOLEAN, ClaimCommit(w, heard)
      PROVE  ClaimIsStable' /\ ClaimerIsIdle'
  BY <1>0, <1>4 DEF ClaimCommit, ClaimedCopy, TypeOK, NoTime, NoClaim
<1>5. ASSUME NEW w \in Worker, AbandonRun(w)
      PROVE  ClaimIsStable' /\ ClaimerIsIdle'
  BY <1>0, <1>5 DEF AbandonRun, StopRun, TypeOK
<1>6. ASSUME NEW w \in Worker, NEW j \in Job, ClaimSelect(w, j)
      PROVE  ClaimIsStable' /\ ClaimerIsIdle'
  <2>1. j # NoJob /\ \A v \in Worker : claim[v].job # j
    BY <1>6, QueueAssumption DEF ClaimSelect, Claimable, Locked
  <2>2. row[j].status = "queued" /\ row[j].next <= claim[w].began
    BY <1>6 DEF ClaimSelect, Claimable
  <2>. QED
    BY <1>0, <1>6, <2>1, <2>2 DEF ClaimSelect, TypeOK, NoTime, NoClaim
<1>7. ASSUME NEW w \in Worker, NEW j \in Job, WorkerStep(w, j), ~ClaimSelect(w, j)
      PROVE  ClaimIsStable' /\ ClaimerIsIdle'
  <2>1. /\ UNCHANGED <<now, claim>>
        /\ \A v \in Worker : run'[v] = run[v] \/ run'[v] = NoRun
    BY <1>7 DEF WorkerStep, RenewIngestionJobLease, CompleteIngestionJob, TypeOK,
                RetryIngestionJob, FailIngestionJob, ReleaseIngestionJob, StopRun
  <2>2. row[j].status = "processing" /\ \A i \in Job \ {j} : row'[i] = row[i]
    BY <1>7 DEF WorkerStep, RenewIngestionJobLease, CompleteIngestionJob, TypeOK,
                RetryIngestionJob, FailIngestionJob, ReleaseIngestionJob,
                OwnsLease, IsMine
  <2>. QED
    BY <1>0, <2>1, <2>2
<1>8. CASE RecoverExpiredIngestionJobs
  <2>1. \A i \in Job : row[i].status = "queued" => row'[i] = row[i]
    BY <1>8 DEF RecoverExpiredIngestionJobs, Expired
  <2>. QED
    BY <1>0, <1>8, <2>1 DEF RecoverExpiredIngestionJobs
<1>9. CASE Tick
  BY <1>0, <1>9 DEF Tick
<1>10. CASE UNCHANGED vars
  BY <1>10 DEF vars
<1>. QED
  BY <1>1, <1>2, <1>3, <1>4, <1>5, <1>6, <1>7, <1>8, <1>9, <1>10 DEF Next, WorkerStep

\* A row comes to carry w's name only when w, idle until then, claims it, and
\* w's copy is made of the row in that very step; the attempts and retries of
\* a processed row do not change until it is freed.
LEMMA FencedStep == IInv /\ [Next]_vars => FencedByName'
<1>. SUFFICES ASSUME IInv, [Next]_vars,
                     NEW v \in Worker, NEW i \in Job, Runs(v, i)', IsMine(v, i)'
              PROVE  run'[v].attempts = row'[i].attempts /\ run'[v].retries = row'[i].retries
  BY DEF FencedByName
<1>0. /\ i # NoJob
      /\ run'[v].job = i
      /\ row'[i].status = "processing" /\ row'[i].worker = v
  BY DEF Runs, IsMine
<1>i. /\ row[i] \in Row
      /\ Runs(v, i) /\ IsMine(v, i) =>
            run[v].attempts = row[i].attempts /\ run[v].retries = row[i].retries
  BY DEF IInv, FencedByName, TypeOK
<1>k. \* an unchanged pair stays fenced
      ASSUME run'[v] = run[v], row'[i].status = row[i].status, row'[i].worker = row[i].worker,
             row'[i].attempts = row[i].attempts, row'[i].retries = row[i].retries
      PROVE  run'[v].attempts = row'[i].attempts /\ run'[v].retries = row'[i].retries
  BY <1>0, <1>i, <1>k DEF Runs, IsMine
<1>1. ASSUME NEW j \in Job, createIngestionJob(j)
      PROVE  run'[v].attempts = row'[i].attempts /\ run'[v].retries = row'[i].retries
  <2>1. i # j /\ row'[i] = row[i] /\ run' = run
    BY <1>0, <1>1 DEF createIngestionJob, IInv, TypeOK
  <2>. QED
    BY <1>k, <2>1
<1>2. ASSUME NEW w \in Worker, ClaimBegin(w) \/ ClaimEnd(w)
      PROVE  run'[v].attempts = row'[i].attempts /\ run'[v].retries = row'[i].retries
  BY <1>k, <1>2 DEF ClaimBegin, ClaimEnd
<1>3. ASSUME NEW w \in Worker, NEW heard \in BOOLEAN, ClaimCommit(w, heard)
      PROVE  run'[v].attempts = row'[i].attempts /\ run'[v].retries = row'[i].retries
  <2>. DEFINE j == claim[w].job
  <2>1. j \in Job /\ run[w] = NoRun /\ w \notin {NoWorker}
    BY <1>3, QueueAssumption DEF ClaimCommit, ClaimedCopy, IInv, TypeOK, ClaimerIsIdle, NoClaim
  <2>2. CASE i # j
    <3>1. row'[i] = row[i]
      BY <1>3, <2>1, <2>2 DEF ClaimCommit, ClaimedCopy, IInv, TypeOK
    <3>2. v # w
      BY <1>0, <1>3, <2>1, <2>2 DEF ClaimCommit, ClaimedCopy, IInv, TypeOK, NoRun
    <3>. QED
      BY <1>3, <1>k, <3>1, <3>2 DEF ClaimCommit, ClaimedCopy, IInv, TypeOK
  <2>3. CASE i = j
    <3>1. row'[i] = ClaimedRow(w, i)
      BY <1>3, <2>1, <2>3 DEF ClaimCommit, ClaimedCopy, IInv, TypeOK
    <3>2. v = w
      BY <1>0, <1>i, <3>1 DEF ClaimedRow, Row
    <3>3. heard
      BY <1>0, <1>3, <2>1, <3>2 DEF ClaimCommit, ClaimedCopy, NoRun
    <3>4. run'[v] = [job |-> i, attempts |-> row[i].attempts + 1, retries |-> row[i].retries]
      BY <1>3, <2>3, <3>2, <3>3 DEF ClaimCommit, ClaimedCopy, IInv, TypeOK
    <3>5. row'[i].attempts = row[i].attempts + 1 /\ row'[i].retries = row[i].retries
      BY <1>i, <3>1 DEF ClaimedRow, Row
    <3>. QED
      BY <3>4, <3>5
  <2>. QED
    BY <2>2, <2>3
<1>4. ASSUME NEW w \in Worker, AbandonRun(w)
      PROVE  run'[v].attempts = row'[i].attempts /\ run'[v].retries = row'[i].retries
  <2>1. run'[v] = run[v] /\ row' = row
    BY <1>0, <1>4 DEF AbandonRun, StopRun, NoRun, IInv, TypeOK
  <2>. QED
    BY <1>k, <2>1
<1>5. ASSUME NEW w \in Worker, NEW j \in Job, WorkerStep(w, j)
      PROVE  run'[v].attempts = row'[i].attempts /\ run'[v].retries = row'[i].retries
  <2>1. run'[v] = run[v]
    BY <1>0, <1>5 DEF WorkerStep, RenewIngestionJobLease, CompleteIngestionJob, IInv, TypeOK,
                RetryIngestionJob, FailIngestionJob, ReleaseIngestionJob, StopRun,
                NoRun, ClaimSelect
  <2>2. CASE ClaimSelect(w, j)
    BY <1>k, <2>1, <2>2 DEF ClaimSelect
  <2>3. CASE RenewIngestionJobLease(w, j)
    <3>1. /\ row'[i].status = row[i].status /\ row'[i].worker = row[i].worker
          /\ row'[i].attempts = row[i].attempts /\ row'[i].retries = row[i].retries
      BY <1>i, <2>3 DEF RenewIngestionJobLease, IInv, TypeOK, Row
    <3>. QED
      BY <1>k, <2>1, <3>1
  <2>4. CASE ~ClaimSelect(w, j) /\ ~RenewIngestionJobLease(w, j)
    <3>1. row' = [row EXCEPT ![j] = row'[j]] /\ row'[j].status # "processing"
      <4>1. ASSUME NEW s \in Status PROVE Freed(j, s).status = s
        BY DEF Freed, IInv, TypeOK, Row
      <4>2. \A s \in Status : Freed(j, s) \in Row
        BY RowUpdates DEF IInv
      <4>3. CASE CompleteIngestionJob(w, j)
        BY <4>1, <4>2, <4>3 DEF CompleteIngestionJob, IInv, TypeOK, Status, Row
      <4>4. CASE RetryIngestionJob(w, j)
        BY <4>1, <4>2, <4>4 DEF RetryIngestionJob, IInv, TypeOK, Status, Row
      <4>5. ASSUME NEW error \in {"transient", "permanent"}, FailIngestionJob(w, j, error)
            PROVE  row' = [row EXCEPT ![j] = row'[j]] /\ row'[j].status # "processing"
        BY <4>1, <4>2, <4>5 DEF FailIngestionJob, IInv, TypeOK, Status, Row
      <4>6. CASE ReleaseIngestionJob(w, j)
        BY <4>1, <4>2, <4>6 DEF ReleaseIngestionJob, IInv, TypeOK, Status, Row
      <4>. QED
        BY <1>5, <2>4, <4>3, <4>4, <4>5, <4>6 DEF WorkerStep
    <3>2. i # j /\ row'[i] = row[i]
      BY <1>0, <3>1 DEF IInv, TypeOK
    <3>. QED
      BY <1>k, <2>1, <3>2
  <2>. QED
    BY <2>2, <2>3, <2>4
<1>6. CASE RecoverExpiredIngestionJobs
  <2>1. ~Expired(i)
    <3>1. Expired(i) => row'[i].status = "queued"
      BY <1>i, <1>6 DEF RecoverExpiredIngestionJobs, Freed, Row
    <3>. QED
      BY <1>0, <3>1
  <2>2. row'[i] = row[i] /\ run' = run
    BY <1>6, <2>1 DEF RecoverExpiredIngestionJobs
  <2>. QED
    BY <1>k, <2>2
<1>7. CASE Tick \/ UNCHANGED vars
  BY <1>k, <1>7 DEF Tick, vars
<1>. QED
  BY <1>1, <1>2, <1>3, <1>4, <1>5, <1>6, <1>7 DEF Next

\* A claim numbers the run it starts one above every run there was of the job.
LEMMA OneRunStep == IInv /\ [Next]_vars => OneRunPerAttempt'
<1>. SUFFICES ASSUME IInv, [Next]_vars, NEW w \in Worker, NEW i \in Job, Runs(w, i)'
              PROVE  /\ run'[w].attempts <= row'[i].attempts
                     /\ \A v \in Worker \ {w} : run'[v] # run'[w]
  BY DEF OneRunPerAttempt
<1>. DEFINE Goal == /\ run'[w].attempts <= row'[i].attempts
                    /\ \A v \in Worker \ {w} : run'[v] # run'[w]
<1>0. /\ run'[w].job = i /\ i # NoJob /\ row[i].attempts \in Nat
      /\ \A v \in Worker : run[v].attempts \in Nat
      /\ \A v \in Worker : run[v].job = i =>
            /\ run[v].attempts <= row[i].attempts
            /\ \A u \in Worker \ {v} : run[u] # run[v]
  BY QueueAssumption DEF Runs, IInv, OneRunPerAttempt, TypeOK, Row
<1>k. \* no run begins, and no attempt is forgotten
      ASSUME \A v \in Worker : run'[v] = run[v] \/ run'[v] = NoRun,
             row'[i].attempts = row[i].attempts
      PROVE  Goal
  <2>1. run'[w] = run[w] /\ run[w].job = i
    BY <1>0, <1>k DEF NoRun
  <2>. QED
    BY <1>0, <1>k, <2>1 DEF NoRun
<1>1. ASSUME NEW j \in Job, createIngestionJob(j) PROVE Goal
  <2>1. row'[i].attempts = row[i].attempts
    BY <1>1 DEF createIngestionJob, IInv, TypeOK, Row
  <2>. QED
    BY <1>1, <1>k, <2>1 DEF createIngestionJob
<1>2. ASSUME NEW v \in Worker, ClaimBegin(v) \/ ClaimEnd(v) \/ AbandonRun(v) PROVE Goal
  BY <1>2, <1>k DEF ClaimBegin, ClaimEnd, AbandonRun, StopRun, IInv, TypeOK
<1>3. ASSUME NEW v \in Worker, NEW heard \in BOOLEAN, ClaimCommit(v, heard) PROVE Goal
  <2>. DEFINE j == claim[v].job
  <2>1. j \in Job /\ run[v] = NoRun
    BY <1>3 DEF ClaimCommit, ClaimedCopy, IInv, TypeOK, ClaimerIsIdle, NoClaim
  <2>2. row'[i].attempts = IF i = j THEN row[i].attempts + 1 ELSE row[i].attempts
    BY <1>3, <2>1 DEF ClaimCommit, ClaimedCopy, ClaimedRow, IInv, TypeOK, Row
  <2>3. CASE ~heard
    <3>1. run' = run
      BY <1>3, <2>3 DEF ClaimCommit, ClaimedCopy
    <3>. QED
      BY <1>0, <2>2, <3>1
  <2>4. CASE heard
    <3>1. run' = [run EXCEPT ![v] = [job |-> j, attempts |-> row[j].attempts + 1,
                                     retries |-> row[j].retries]]
      BY <1>3, <2>4 DEF ClaimCommit, ClaimedCopy
    <3>2. CASE w = v
      <4>1. i = j /\ run'[w].attempts = row[i].attempts + 1
        BY <1>0, <3>1, <3>2 DEF IInv, TypeOK
      <4>2. \A u \in Worker \ {w} : run'[u] = run[u]
        BY <3>1, <3>2 DEF IInv, TypeOK
      <4>3. ASSUME NEW u \in Worker \ {w}, run'[u] = run'[w] PROVE FALSE
        <5>1. run[u].job = i /\ run[u].attempts = row[i].attempts + 1
          BY <1>0, <4>1, <4>2, <4>3
        <5>. QED
          BY <1>0, <5>1
      <4>. QED
        BY <1>0, <2>2, <4>1, <4>3
    <3>3. CASE w # v
      <4>1. run'[w] = run[w] /\ run[w].job = i
        BY <1>0, <3>1, <3>3 DEF IInv, TypeOK
      <4>2. run'[v].job = j /\ run'[v].attempts = row[j].attempts + 1
        BY <3>1 DEF IInv, TypeOK
      <4>3. run'[v] # run'[w]
        BY <1>0, <4>1, <4>2
      <4>4. \A u \in Worker \ {v} : run'[u] = run[u]
        BY <3>1 DEF IInv, TypeOK
      <4>. QED
        BY <1>0, <2>2, <4>1, <4>3, <4>4
    <3>. QED
      BY <3>2, <3>3
  <2>. QED
    BY <2>3, <2>4
<1>4. ASSUME NEW v \in Worker, NEW j \in Job, WorkerStep(v, j) PROVE Goal
  <2>0. \A s \in Status : Freed(j, s).attempts = row[j].attempts /\ Freed(j, s) \in Row
    BY RowUpdates DEF Freed, IInv, TypeOK, Row
  <2>1. CASE ClaimSelect(v, j)
    BY <1>k, <2>1 DEF ClaimSelect
  <2>2. CASE RenewIngestionJobLease(v, j)
    <3>1. row'[i].attempts = row[i].attempts
      BY <2>2 DEF RenewIngestionJobLease, IInv, TypeOK, Row
    <3>. QED
      BY <1>k, <2>2, <3>1 DEF RenewIngestionJobLease
  <2>3. CASE ~ClaimSelect(v, j) /\ ~RenewIngestionJobLease(v, j)
    <3>1. StopRun(v)
      BY <1>4, <2>3 DEF WorkerStep, CompleteIngestionJob, RetryIngestionJob,
                FailIngestionJob, ReleaseIngestionJob
    <3>2. row'[i].attempts = row[i].attempts
      <4>1. CASE CompleteIngestionJob(v, j)
        BY <2>0, <4>1 DEF CompleteIngestionJob, Status, IInv, TypeOK, Row
      <4>2. CASE RetryIngestionJob(v, j)
        BY <2>0, <4>2 DEF RetryIngestionJob, Status, IInv, TypeOK, Row
      <4>3. ASSUME NEW error \in {"transient", "permanent"}, FailIngestionJob(v, j, error)
            PROVE  row'[i].attempts = row[i].attempts
        BY <2>0, <4>3 DEF FailIngestionJob, Status, IInv, TypeOK, Row
      <4>4. CASE ReleaseIngestionJob(v, j)
        BY <2>0, <4>4 DEF ReleaseIngestionJob, Status, IInv, TypeOK, Row
      <4>. QED
        BY <1>4, <2>3, <4>1, <4>2, <4>3, <4>4 DEF WorkerStep
    <3>. QED
      BY <1>k, <3>1, <3>2 DEF StopRun, IInv, TypeOK
  <2>. QED
    BY <2>1, <2>2, <2>3
<1>5. CASE RecoverExpiredIngestionJobs
  <2>1. row'[i].attempts = row[i].attempts
    BY <1>5 DEF RecoverExpiredIngestionJobs, Freed, IInv, TypeOK, Row
  <2>. QED
    BY <1>5, <1>k, <2>1 DEF RecoverExpiredIngestionJobs
<1>6. CASE Tick \/ UNCHANGED vars
  BY <1>6, <1>k DEF Tick, vars
<1>. QED
  BY <1>1, <1>2, <1>3, <1>4, <1>5, <1>6 DEF Next

\* The retry decision is taken on the copy, which is fenced: it spends at most
\* the retries that are left, and gives up on a transient error with none left.
LEMMA RetryBudgetStep == IInv /\ [Next]_vars => RetryBudget'
<1>. DEFINE Within(r) == /\ r.retries <= Len(RetryDelays)
                         /\ r.status = "failed" /\ r.error = "transient"
                               => r.retries = Len(RetryDelays)
<1>. SUFFICES ASSUME IInv, [Next]_vars, NEW i \in Job PROVE Within(row'[i])
  BY DEF RetryBudget
<1>0. /\ row[i] \in Row /\ Within(row[i]) /\ Len(RetryDelays) \in Nat
      /\ row[i].retries \in Nat
  BY QueueAssumption DEF IInv, RetryBudget, TypeOK, Row
<1>1. ASSUME NEW j \in Job, createIngestionJob(j) PROVE Within(row'[i])
  BY <1>0, <1>1 DEF createIngestionJob, IInv, TypeOK, Row
<1>2. ASSUME NEW w \in Worker, ClaimBegin(w) \/ ClaimEnd(w) \/ AbandonRun(w)
      PROVE  Within(row'[i])
  BY <1>0, <1>2 DEF ClaimBegin, ClaimEnd, AbandonRun
<1>3. ASSUME NEW w \in Worker, NEW heard \in BOOLEAN, ClaimCommit(w, heard)
      PROVE  Within(row'[i])
  BY <1>0, <1>3 DEF ClaimCommit, ClaimedCopy, ClaimedRow, IInv, TypeOK, Row
<1>4. ASSUME NEW w \in Worker, NEW j \in Job, WorkerStep(w, j)
      PROVE  Within(row'[i])
  <2>1. CASE i # j
    <3>1. row'[i] = row[i]
      BY <1>4, <2>1 DEF WorkerStep, RenewIngestionJobLease, CompleteIngestionJob,
                RetryIngestionJob, FailIngestionJob, ReleaseIngestionJob, ClaimSelect,
                IInv, TypeOK
    <3>. QED
      BY <1>0, <3>1
  <2>2. CASE i = j
    <3>1. Runs(w, i) /\ IsMine(w, i) => run[w].retries = row[i].retries
      BY DEF IInv, FencedByName
    <3>2. \A s : /\ Freed(i, s).status = s
                 /\ Freed(i, s).retries = row[i].retries
                 /\ Freed(i, s).error = row[i].error
      BY <1>0 DEF Freed, Row
    <3>3. CASE ClaimSelect(w, j)
      BY <1>0, <3>3 DEF ClaimSelect
    <3>4. CASE RenewIngestionJobLease(w, j)
      BY <1>0, <2>2, <3>4 DEF RenewIngestionJobLease, IInv, TypeOK, Row
    <3>5. CASE CompleteIngestionJob(w, j)
      <4>1. row'[i].status = "completed" /\ row'[i].retries = row[i].retries
        BY <1>0, <2>2, <3>5 DEF CompleteIngestionJob, Freed, IInv, TypeOK, Row
      <4>. QED
        BY <1>0, <4>1
    <3>6. CASE RetryIngestionJob(w, j)
      <4>1. row'[i].status = "queued" /\ row'[i].retries = row[i].retries + 1
        BY <1>0, <2>2, <3>6 DEF RetryIngestionJob, BackoffUntil, Freed, IInv, TypeOK, Row
      <4>2. row[i].retries < Len(RetryDelays)
        BY <2>2, <3>1, <3>6 DEF RetryIngestionJob, HasRetryLeft, OwnsLease
      <4>. QED
        BY <1>0, <4>1, <4>2
    <3>7. ASSUME NEW error \in {"transient", "permanent"}, FailIngestionJob(w, j, error)
          PROVE  Within(row'[i])
      <4>1. row'[i].error = error /\ row'[i].retries = row[i].retries
        BY <1>0, <2>2, <3>7 DEF FailIngestionJob, Freed, IInv, TypeOK, Row
      <4>2. error = "transient" => ~(row[i].retries < Len(RetryDelays))
        BY <2>2, <3>1, <3>7 DEF FailIngestionJob, HasRetryLeft, OwnsLease
      <4>. QED
        BY <1>0, <4>1, <4>2
    <3>8. CASE ReleaseIngestionJob(w, j)
      <4>1. row'[i].status = "queued" /\ row'[i].retries = row[i].retries
        BY <1>0, <2>2, <3>8 DEF ReleaseIngestionJob, Freed, IInv, TypeOK, Row
      <4>. QED
        BY <1>0, <4>1
    <3>. QED
      BY <1>4, <3>3, <3>4, <3>5, <3>6, <3>7, <3>8 DEF WorkerStep
  <2>. QED
    BY <2>1, <2>2
<1>5. CASE RecoverExpiredIngestionJobs
  <2>1. \/ row'[i] = row[i]
        \/ row'[i].status = "queued" /\ row'[i].retries = row[i].retries
    BY <1>0, <1>5 DEF RecoverExpiredIngestionJobs, Freed, Row
  <2>. QED
    BY <1>0, <2>1
<1>6. CASE Tick \/ UNCHANGED vars
  BY <1>0, <1>6 DEF Tick, vars
<1>. QED
  BY <1>1, <1>2, <1>3, <1>4, <1>5, <1>6 DEF Next

\* The whole inductive invariant holds.
THEOREM Invariant == Spec => []IInv
<1>1. Init => ClaimIsStable /\ ClaimerIsIdle /\ FencedByName /\ OneRunPerAttempt /\ RetryBudget
  BY InvInit
<1>2. IInv /\ [Next]_vars => ClaimIsStable' /\ ClaimerIsIdle'
  BY ClaimStableStep
<1>3. IInv /\ [Next]_vars => FencedByName'
  BY FencedStep
<1>4. IInv /\ [Next]_vars => RetryBudget'
  BY RetryBudgetStep
<1>5. IInv <=> TypeOK /\ ClaimIsStable /\ ClaimerIsIdle /\ FencedByName /\ OneRunPerAttempt /\ RetryBudget
  BY DEF IInv
<1>6. IInv /\ [Next]_vars => OneRunPerAttempt'
  BY OneRunStep
<1>7. TypeOK /\ (ClaimIsStable /\ ClaimerIsIdle /\ FencedByName /\ OneRunPerAttempt /\ RetryBudget)
      /\ [Next]_vars
      => (ClaimIsStable /\ ClaimerIsIdle /\ FencedByName /\ OneRunPerAttempt /\ RetryBudget)'
  BY <1>2, <1>3, <1>4, <1>6 DEF IInv
<1>. QED
  BY <1>1, <1>5, <1>7, TypeCorrect, PTL DEF Spec

-----------------------------------------------------------------------------
(* The properties the runs check, for every instance.                      *)

\* No two claims hold one row, and a locked row keeps its place.
THEOREM ClaimsAreStable == Spec => []ClaimIsStable
  BY Invariant, PTL DEF IInv

\* The name in the row fences as well as an attempt number would.
THEOREM NameFences == Spec => []FencedByName
  BY Invariant, PTL DEF IInv

\* No two workers process one attempt of one job.
THEOREM AttemptsAreExclusive == Spec => []OneRunPerAttempt
  BY Invariant, PTL DEF IInv

\* Retries stay within the delays, and none is left when a job gives up.
THEOREM RetriesWithinBudget == Spec => []RetryBudget
  BY Invariant, PTL DEF IInv

\* Only the worker that runs a job ends a lease that has not run out.
LEMMA LeaseProtectsStep ==
    ASSUME IInv, [Next]_vars, NEW i \in Job,
           row[i].status = "processing", row[i].lease >= now,
           row'[i].status # "processing"
    PROVE  \E w \in Worker : row[i].worker = w /\ Runs(w, i) /\ run'[w] = NoRun
<1>0. row[i] \in Row /\ now \in Nat
  BY DEF IInv, TypeOK, Time
<1>1. ASSUME NEW j \in Job, createIngestionJob(j) PROVE FALSE
  BY <1>1 DEF createIngestionJob, IInv, TypeOK
<1>2. ASSUME NEW w \in Worker, ClaimBegin(w) \/ ClaimEnd(w) \/ AbandonRun(w) PROVE FALSE
  BY <1>2 DEF ClaimBegin, ClaimEnd, AbandonRun
<1>3. ASSUME NEW w \in Worker, NEW heard \in BOOLEAN, ClaimCommit(w, heard) PROVE FALSE
  BY <1>0, <1>3 DEF ClaimCommit, ClaimedCopy, ClaimedRow, IInv, TypeOK, Row
<1>4. ASSUME NEW w \in Worker, NEW j \in Job, WorkerStep(w, j)
      PROVE  row[i].worker = w /\ Runs(w, i) /\ run'[w] = NoRun
  <2>1. ~ClaimSelect(w, j) /\ ~RenewIngestionJobLease(w, j)
    <3>1. RenewIngestionJobLease(w, j) => row'[i].status = row[i].status
      BY <1>0 DEF RenewIngestionJobLease, IInv, TypeOK, Row
    <3>2. ClaimSelect(w, j) => row' = row
      BY DEF ClaimSelect
    <3>. QED
      BY <3>1, <3>2
  <2>2. i = j /\ Runs(w, j) /\ IsMine(w, j) /\ run'[w] = NoRun
    BY <1>4, <2>1 DEF WorkerStep, CompleteIngestionJob, RetryIngestionJob,
              FailIngestionJob, ReleaseIngestionJob, OwnsLease, StopRun, IInv, TypeOK
  <2>. QED
    BY <2>2 DEF IsMine
<1>5. CASE RecoverExpiredIngestionJobs
  <2>1. ~Expired(i)
    BY <1>0 DEF Expired, Row, Time, NoTime
  <2>. QED
    BY <1>5, <2>1 DEF RecoverExpiredIngestionJobs
<1>6. CASE Tick \/ UNCHANGED vars
  BY <1>6 DEF Tick, vars
<1>. QED
  BY <1>1, <1>2, <1>3, <1>4, <1>5, <1>6 DEF Next

\* A lease that has not run out ends only by a statement of the worker that
\* runs the job: neither Recover nor another worker takes the row from it.
THEOREM LeasesProtect == Spec => LeaseProtects
<1>1. IInv /\ [Next]_vars =>
        [\A j \in Job :
           row[j].status = "processing" /\ row[j].lease >= now
           /\ row'[j].status # "processing"
           => \E w \in Worker : row[j].worker = w /\ Runs(w, j) /\ run'[w] = NoRun]_vars
  BY LeaseProtectsStep
<1>. QED
  BY <1>1, Invariant, PTL DEF Spec, LeaseProtects

\* A job is claimed out of the queue only, and not before it is due.
LEMMA NoEarlyRunStep ==
    ASSUME IInv, [Next]_vars, NEW i \in Job,
           row'[i].status = "processing", row[i].status # "processing"
    PROVE  row[i].status = "queued" /\ row[i].next <= now
<1>0. row[i] \in Row /\ now \in Nat /\ \A s \in Status : Freed(i, s).status = s
  BY DEF IInv, TypeOK, Time, Freed, Row
<1>1. ASSUME NEW j \in Job, createIngestionJob(j) PROVE FALSE
  BY <1>0, <1>1 DEF createIngestionJob, IInv, TypeOK, Row
<1>2. ASSUME NEW w \in Worker, ClaimBegin(w) \/ ClaimEnd(w) \/ AbandonRun(w) PROVE FALSE
  BY <1>2 DEF ClaimBegin, ClaimEnd, AbandonRun
<1>3. ASSUME NEW w \in Worker, NEW heard \in BOOLEAN, ClaimCommit(w, heard)
      PROVE  row[i].status = "queued" /\ row[i].next <= now
  <2>1. i = claim[w].job
    BY <1>3 DEF ClaimCommit, ClaimedCopy, IInv, TypeOK
  <2>2. claim[w].began \in Nat \cup {-1} /\ row[i].next \in Nat
    BY <1>0 DEF IInv, TypeOK, Time, NoTime, Row
  <2>3. row[i].status = "queued" /\ row[i].next <= claim[w].began /\ claim[w].began <= now
    BY <1>3, <2>1 DEF ClaimCommit, ClaimedCopy, IInv, ClaimIsStable, ClaimerIsIdle
  <2>. QED
    BY <1>0, <2>2, <2>3
<1>4. ASSUME NEW w \in Worker, NEW j \in Job, WorkerStep(w, j) PROVE FALSE
  <2>. USE DEF IInv, TypeOK
  <2>1. CASE ClaimSelect(w, j)
    BY <2>1 DEF ClaimSelect
  <2>2. CASE RenewIngestionJobLease(w, j)
    BY <2>2 DEF RenewIngestionJobLease, OwnsLease, IsMine
  <2>3. CASE CompleteIngestionJob(w, j)
    BY <2>3 DEF CompleteIngestionJob, OwnsLease, IsMine
  <2>4. CASE RetryIngestionJob(w, j)
    BY <2>4 DEF RetryIngestionJob, OwnsLease, IsMine
  <2>5. ASSUME NEW error \in {"transient", "permanent"}, FailIngestionJob(w, j, error)
        PROVE  FALSE
    BY <2>5 DEF FailIngestionJob, OwnsLease, IsMine
  <2>6. CASE ReleaseIngestionJob(w, j)
    BY <2>6 DEF ReleaseIngestionJob, IsMine
  <2>. QED
    BY <1>4, <2>1, <2>2, <2>3, <2>4, <2>5, <2>6 DEF WorkerStep
<1>5. CASE RecoverExpiredIngestionJobs
  BY <1>5 DEF RecoverExpiredIngestionJobs, Expired
<1>6. CASE Tick \/ UNCHANGED vars
  BY <1>6 DEF Tick, vars
<1>. QED
  BY <1>1, <1>2, <1>3, <1>4, <1>5, <1>6 DEF Next

\* Only a queued job that is due is claimed: what completed or failed is never
\* run again, and no backoff is cut short.
THEOREM NoRerun == Spec => NoRerunNoEarlyRun
<1>1. IInv /\ [Next]_vars =>
        [\A j \in Job :
           row'[j].status = "processing" /\ row[j].status # "processing"
           => row[j].status = "queued" /\ row[j].next <= now]_vars
  BY NoEarlyRunStep
<1>. QED
  BY <1>1, Invariant, PTL DEF Spec, NoRerunNoEarlyRun

-----------------------------------------------------------------------------
(* Refinement: a name in the row is as good as a ticket.                   *)

\* The initial tables are the contract's.
LEMMA ContractInitially == Init => Contract!ContractInit
<1>. SUFFICES ASSUME Init PROVE Contract!ContractInit
  OBVIOUS
<1>1. Len(RetryDelays) \in Nat
  BY QueueAssumption
<1>2. \A j \in Job : /\ row[j].status = "absent" /\ row[j].attempts = 0
                     /\ row[j].retries = 0
  BY DEF Init, Absent
<1>3. \A w \in Worker : run[w].job = NoJob /\ run[w].attempts = 0
  BY DEF Init, NoRun
<1>. QED
  BY <1>1, <1>2, <1>3 DEF Contract!ContractInit, Contract!NoTicket, phaseBar, ticketBar,
                          budgetBar, holdsBar, PhaseOf

\* A statement that writes one row changes what the contract sees of one job.
LEMMA SeenRow ==
    ASSUME row \in [Job -> Row], NEW j \in Job, NEW r, row' = [row EXCEPT ![j] = r]
    PROVE  /\ phaseBar' = [phaseBar EXCEPT ![j] = PhaseOf(r)]
           /\ ticketBar' = [ticketBar EXCEPT ![j] = r.attempts]
           /\ budgetBar' = [budgetBar EXCEPT ![j] = Len(RetryDelays) - r.retries]
<1>1. \A i \in Job : row'[i] = IF i = j THEN r ELSE row[i]
  OBVIOUS
<1>2. \A i \in Job : PhaseOf(row'[i]) = IF i = j THEN PhaseOf(r) ELSE PhaseOf(row[i])
  BY <1>1
<1>3. phaseBar' = [phaseBar EXCEPT ![j] = PhaseOf(r)]
  <2>1. phaseBar' = [i \in Job |-> PhaseOf(row'[i])]
    BY DEF phaseBar, PhaseOf
  <2>. QED
    BY <1>2, <2>1 DEF phaseBar
<1>4. ticketBar' = [ticketBar EXCEPT ![j] = r.attempts]
  BY <1>1 DEF ticketBar
<1>5. budgetBar' = [budgetBar EXCEPT ![j] = Len(RetryDelays) - r.retries]
  BY <1>1 DEF budgetBar
<1>. QED
  BY <1>3, <1>4, <1>5

\* When process() returns, its worker holds no ticket.
LEMMA SeenStop ==
    ASSUME TypeOK, NEW w \in Worker, StopRun(w)
    PROVE  holdsBar' = [holdsBar EXCEPT ![w] = Contract!NoTicket]
  BY DEF TypeOK, StopRun, NoRun, holdsBar, Contract!NoTicket

\* A statement that frees the row matches the newest ticket.
LEMMA SeenCurrent ==
    ASSUME IInv, NEW w \in Worker, NEW j \in Job, Runs(w, j), IsMine(w, j)
    PROVE  Contract!Current(w, j)
<1>1. phaseBar[j] = "granted"
  BY DEF IsMine, phaseBar, PhaseOf
<1>2. run[w].job = j /\ run[w].attempts = row[j].attempts
  BY DEF Runs, IInv, FencedByName
<1>. QED
  BY <1>1, <1>2 DEF Contract!Current, holdsBar, ticketBar

\* Every step of the tables is a step of the contract, or leaves it alone.
LEMMA ContractStep == IInv /\ [Next]_vars => [Contract!ContractNext]_(Contract!contractVars)
<1>. SUFFICES ASSUME IInv, [Next]_vars
              PROVE  Contract!ContractNext \/ UNCHANGED Contract!contractVars
  OBVIOUS
<1>. USE DEF IInv
<1>0. /\ row \in [Job -> Row]
      /\ \A j \in Job : /\ row[j] \in Row
                        /\ phaseBar[j] = PhaseOf(row[j])
                        /\ ticketBar[j] = row[j].attempts
                        /\ budgetBar[j] = Len(RetryDelays) - row[j].retries
      /\ Len(RetryDelays) \in Nat
  BY QueueAssumption DEF TypeOK, phaseBar, ticketBar, budgetBar
<1>f. ASSUME NEW j \in Job, NEW s \in Status
      PROVE  /\ Freed(j, s).status = s
             /\ Freed(j, s).attempts = row[j].attempts
             /\ Freed(j, s).retries = row[j].retries
             /\ Freed(j, s) \in Row
  <2>1. row[j] \in Row
    BY <1>0
  <2>2. Freed(j, s) \in Row
    BY RowUpdates
  <2>. QED
    BY <2>1, <2>2 DEF Freed, Row
<1>1. ASSUME NEW j \in Job, createIngestionJob(j) PROVE Contract!Accept(j)
  <2>. DEFINE r == [row[j] EXCEPT !.status = "queued", !.next = now, !.created = now]
  <2>1. row' = [row EXCEPT ![j] = r]
    BY <1>1 DEF createIngestionJob
  <2>2. r.status = "queued" /\ r.attempts = row[j].attempts /\ r.retries = row[j].retries
    BY <1>0 DEF Row
  <2>3. phaseBar[j] = "absent" /\ PhaseOf(r) = "waiting"
    BY <1>0, <1>1, <2>2 DEF createIngestionJob, PhaseOf
  <2>4. /\ phaseBar' = [phaseBar EXCEPT ![j] = "waiting"]
        /\ ticketBar' = [ticketBar EXCEPT ![j] = row[j].attempts]
        /\ budgetBar' = [budgetBar EXCEPT ![j] = Len(RetryDelays) - row[j].retries]
    <3>. HIDE DEF r
    <3>1. /\ phaseBar' = [phaseBar EXCEPT ![j] = PhaseOf(r)]
          /\ ticketBar' = [ticketBar EXCEPT ![j] = r.attempts]
          /\ budgetBar' = [budgetBar EXCEPT ![j] = Len(RetryDelays) - r.retries]
      BY <1>0, <2>1, SeenRow, Zenon
    <3>. QED
      BY <2>2, <2>3, <3>1
  <2>5. UNCHANGED <<ticketBar, budgetBar, holdsBar>>
    BY <1>1, <2>4 DEF ticketBar, budgetBar, holdsBar, createIngestionJob
  <2>. QED
    BY <2>3, <2>4, <2>5 DEF Contract!Accept
<1>2. ASSUME NEW w \in Worker, AbandonRun(w) PROVE Contract!Forget(w)
  <2>1. UNCHANGED <<phaseBar, ticketBar, budgetBar>>
    BY <1>2 DEF AbandonRun, phaseBar, ticketBar, budgetBar, PhaseOf
  <2>. QED
    BY <1>2, <2>1, SeenStop DEF AbandonRun, Contract!Forget
<1>3. ASSUME NEW w \in Worker, NEW heard \in BOOLEAN, ClaimCommit(w, heard)
      PROVE  \E j \in Job : Contract!Grant(w, j) \/ Contract!GrantUnheard(j)
  <2>. DEFINE j == claim[w].job
              r == ClaimedRow(w, j)
  <2>1. j \in Job /\ run[w] = NoRun /\ row[j].status = "queued"
    BY <1>3 DEF ClaimCommit, ClaimedCopy, TypeOK, ClaimerIsIdle, ClaimIsStable, NoClaim
  <2>2. /\ r.status = "processing" /\ r.retries = row[j].retries
        /\ r.attempts = row[j].attempts + 1
    BY <1>0, <2>1 DEF ClaimedRow, Row
  <2>3. row' = [row EXCEPT ![j] = r]
    BY <1>3 DEF ClaimCommit, ClaimedCopy
  <2>4. phaseBar[j] = "waiting" /\ PhaseOf(r) = "granted"
    BY <1>0, <2>1, <2>2 DEF PhaseOf
  <2>. HIDE DEF j, r
  <2>5. /\ phaseBar' = [phaseBar EXCEPT ![j] = "granted"]
        /\ ticketBar' = [ticketBar EXCEPT ![j] = row[j].attempts + 1]
        /\ budgetBar' = [budgetBar EXCEPT ![j] = Len(RetryDelays) - row[j].retries]
    <3>1. /\ phaseBar' = [phaseBar EXCEPT ![j] = PhaseOf(r)]
          /\ ticketBar' = [ticketBar EXCEPT ![j] = r.attempts]
          /\ budgetBar' = [budgetBar EXCEPT ![j] = Len(RetryDelays) - r.retries]
      BY <1>0, <2>1, <2>3, SeenRow, Zenon
    <3>. QED
      BY <2>2, <2>4, <3>1
  <2>6. ticketBar' = [ticketBar EXCEPT ![j] = @ + 1] /\ UNCHANGED budgetBar
    BY <2>1, <2>5 DEF ticketBar, budgetBar
  <2>7. CASE heard
    <3>1. holdsBar' = [holdsBar EXCEPT ![w] = [job |-> j, ticket |-> row[j].attempts + 1]]
      BY <1>3, <2>1, <2>7 DEF ClaimCommit, ClaimedCopy, holdsBar, TypeOK, j
    <3>2. holdsBar[w] = Contract!NoTicket
      BY <2>1 DEF holdsBar, NoRun, Contract!NoTicket
    <3>3. ticketBar[j] = row[j].attempts
      BY <1>0, <2>1
    <3>4. Contract!Grant(w, j)
      BY <2>1, <2>4, <2>5, <2>6, <3>1, <3>2, <3>3 DEF Contract!Grant
    <3>. QED
      BY <2>1, <3>4
  <2>8. CASE ~heard
    <3>1. UNCHANGED holdsBar
      BY <1>3, <2>8 DEF ClaimCommit, ClaimedCopy, holdsBar
    <3>2. Contract!GrantUnheard(j)
      BY <2>1, <2>4, <2>5, <2>6, <3>1 DEF Contract!GrantUnheard
    <3>. QED
      BY <2>1, <3>2
  <2>. QED
    BY <2>7, <2>8
<1>4. ASSUME NEW w \in Worker, NEW j \in Job, WorkerStep(w, j)
      PROVE  \/ Contract!Settle(w, j) \/ Contract!Retry(w, j) \/ Contract!GiveBack(w, j)
             \/ UNCHANGED Contract!contractVars
  <2>h. \* a step that frees the row and ends the run, keeping attempts
        ASSUME NEW r, row' = [row EXCEPT ![j] = r], StopRun(w),
               r.attempts = row[j].attempts
        PROVE  /\ phaseBar' = [phaseBar EXCEPT ![j] = PhaseOf(r)]
               /\ UNCHANGED ticketBar
               /\ budgetBar' = [budgetBar EXCEPT ![j] = Len(RetryDelays) - r.retries]
               /\ holdsBar' = [holdsBar EXCEPT ![w] = Contract!NoTicket]
    <3>0. /\ phaseBar' = [phaseBar EXCEPT ![j] = PhaseOf(r)]
          /\ ticketBar' = [ticketBar EXCEPT ![j] = r.attempts]
          /\ budgetBar' = [budgetBar EXCEPT ![j] = Len(RetryDelays) - r.retries]
      BY <1>0, <2>h, SeenRow, Zenon
    <3>1. ticketBar' = [ticketBar EXCEPT ![j] = row[j].attempts]
      BY <2>h, <3>0
    <3>2. UNCHANGED ticketBar
      BY <3>1 DEF ticketBar
    <3>. QED
      BY <2>h, <3>0, <3>2, SeenStop
  <2>u. [budgetBar EXCEPT ![j] = Len(RetryDelays) - row[j].retries] = budgetBar
    BY DEF budgetBar
  <2>1. CASE ClaimSelect(w, j)
    BY <2>1 DEF ClaimSelect, Contract!contractVars, phaseBar, ticketBar, budgetBar,
                holdsBar, PhaseOf
  <2>2. CASE RenewIngestionJobLease(w, j)
    <3>. DEFINE r == [row[j] EXCEPT !.lease = now + LeaseDuration]
    <3>1. row' = [row EXCEPT ![j] = r]
      BY <2>2 DEF RenewIngestionJobLease
    <3>2. r.status = row[j].status /\ r.attempts = row[j].attempts /\ r.retries = row[j].retries
      BY <1>0 DEF Row
    <3>. HIDE DEF r
    <3>3. PhaseOf(r) = phaseBar[j]
      BY <1>0, <3>2 DEF PhaseOf
    <3>4. /\ phaseBar' = [phaseBar EXCEPT ![j] = phaseBar[j]]
          /\ ticketBar' = [ticketBar EXCEPT ![j] = row[j].attempts]
          /\ budgetBar' = [budgetBar EXCEPT ![j] = Len(RetryDelays) - row[j].retries]
      <4>1. /\ phaseBar' = [phaseBar EXCEPT ![j] = PhaseOf(r)]
            /\ ticketBar' = [ticketBar EXCEPT ![j] = r.attempts]
            /\ budgetBar' = [budgetBar EXCEPT ![j] = Len(RetryDelays) - r.retries]
        BY <1>0, <3>1, SeenRow, Zenon
      <4>. QED
        BY <3>2, <3>3, <4>1
    <3>5. UNCHANGED <<phaseBar, ticketBar, budgetBar>>
      BY <3>4 DEF phaseBar, ticketBar, budgetBar
    <3>6. UNCHANGED holdsBar
      BY <2>2 DEF RenewIngestionJobLease, holdsBar
    <3>. QED
      BY <3>5, <3>6 DEF Contract!contractVars
  <2>3. CASE CompleteIngestionJob(w, j)
    <3>. DEFINE r == [Freed(j, "completed") EXCEPT !.error = "none"]
    <3>1. row' = [row EXCEPT ![j] = r] /\ StopRun(w) /\ Contract!Current(w, j)
      BY <2>3, SeenCurrent DEF CompleteIngestionJob, OwnsLease
    <3>2. r.status = "completed" /\ r.attempts = row[j].attempts /\ r.retries = row[j].retries
      BY <1>0, <1>f DEF Freed, Row, Status
    <3>. HIDE DEF r
    <3>3. PhaseOf(r) = "completed"
      BY <3>2 DEF PhaseOf
    <3>4. /\ phaseBar' = [phaseBar EXCEPT ![j] = PhaseOf(r)]
          /\ UNCHANGED ticketBar
          /\ budgetBar' = [budgetBar EXCEPT ![j] = Len(RetryDelays) - r.retries]
          /\ holdsBar' = [holdsBar EXCEPT ![w] = Contract!NoTicket]
      BY <2>h, <3>1, <3>2, Zenon
    <3>5. UNCHANGED budgetBar
      BY <2>u, <3>2, <3>4
    <3>. QED
      BY <3>1, <3>3, <3>4, <3>5 DEF Contract!Settle, Contract!Terminal
  <2>4. CASE RetryIngestionJob(w, j)
    <3>. DEFINE r == row'[j]
    <3>0. Runs(w, j) /\ IsMine(w, j) /\ run[w].retries < Len(RetryDelays)
      BY <2>4 DEF RetryIngestionJob, OwnsLease, HasRetryLeft
    <3>1. row' = [row EXCEPT ![j] = r] /\ StopRun(w) /\ Contract!Current(w, j)
      BY <1>0, <2>4, <3>0, SeenCurrent DEF RetryIngestionJob
    <3>2. r.status = "queued" /\ r.attempts = row[j].attempts
          /\ r.retries = row[j].retries + 1
      BY <1>0, <2>4 DEF RetryIngestionJob, BackoffUntil, Freed, Row
    <3>3. row[j].retries < Len(RetryDelays) /\ row[j].retries \in Nat
      BY <1>0, <3>0 DEF FencedByName, Row
    <3>. HIDE DEF r
    <3>4. PhaseOf(r) = "waiting"
      BY <3>2 DEF PhaseOf
    <3>5. budgetBar' = [budgetBar EXCEPT ![j] = Len(RetryDelays) - (row[j].retries + 1)]
      BY <2>h, <3>1, <3>2
    <3>6. /\ budgetBar[j] > 0
          /\ Len(RetryDelays) - (row[j].retries + 1) = budgetBar[j] - 1
      BY <1>0, <3>3
    <3>. QED
      BY <2>h, <3>1, <3>2, <3>4, <3>5, <3>6 DEF Contract!Retry
  <2>5. ASSUME NEW error \in {"transient", "permanent"}, FailIngestionJob(w, j, error)
        PROVE  Contract!Settle(w, j)
    <3>. DEFINE r == [Freed(j, "failed") EXCEPT !.error = error]
    <3>1. row' = [row EXCEPT ![j] = r] /\ StopRun(w) /\ Contract!Current(w, j)
      BY <2>5, SeenCurrent DEF FailIngestionJob, OwnsLease
    <3>2. r.status = "failed" /\ r.attempts = row[j].attempts /\ r.retries = row[j].retries
      BY <1>0, <1>f DEF Freed, Row, Status
    <3>. HIDE DEF r
    <3>3. PhaseOf(r) = "failed"
      BY <3>2 DEF PhaseOf
    <3>4. /\ phaseBar' = [phaseBar EXCEPT ![j] = PhaseOf(r)]
          /\ UNCHANGED ticketBar
          /\ budgetBar' = [budgetBar EXCEPT ![j] = Len(RetryDelays) - r.retries]
          /\ holdsBar' = [holdsBar EXCEPT ![w] = Contract!NoTicket]
      BY <2>h, <3>1, <3>2, Zenon
    <3>5. UNCHANGED budgetBar
      BY <2>u, <3>2, <3>4
    <3>. QED
      BY <3>1, <3>3, <3>4, <3>5 DEF Contract!Settle, Contract!Terminal
  <2>6. CASE ReleaseIngestionJob(w, j)
    <3>. DEFINE r == [Freed(j, "queued") EXCEPT !.next = now]
    <3>1. row' = [row EXCEPT ![j] = r] /\ StopRun(w) /\ Contract!Current(w, j)
      BY <2>6, SeenCurrent DEF ReleaseIngestionJob
    <3>2. r.status = "queued" /\ r.attempts = row[j].attempts /\ r.retries = row[j].retries
      BY <1>0, <1>f DEF Freed, Row, Status
    <3>. HIDE DEF r
    <3>3. PhaseOf(r) = "waiting"
      BY <3>2 DEF PhaseOf
    <3>4. /\ phaseBar' = [phaseBar EXCEPT ![j] = PhaseOf(r)]
          /\ UNCHANGED ticketBar
          /\ budgetBar' = [budgetBar EXCEPT ![j] = Len(RetryDelays) - r.retries]
          /\ holdsBar' = [holdsBar EXCEPT ![w] = Contract!NoTicket]
      BY <2>h, <3>1, <3>2, Zenon
    <3>5. UNCHANGED budgetBar
      BY <2>u, <3>2, <3>4
    <3>. QED
      BY <3>1, <3>3, <3>4, <3>5 DEF Contract!GiveBack
  <2>. QED
    BY <1>4, <2>1, <2>2, <2>3, <2>4, <2>5, <2>6 DEF WorkerStep
<1>5. CASE RecoverExpiredIngestionJobs
  <2>. DEFINE expired == {j \in Job : Expired(j)}
  <2>1. \A j \in Job : row'[j] = IF Expired(j) THEN [Freed(j, "queued") EXCEPT !.next = now]
                                 ELSE row[j]
    BY <1>5 DEF RecoverExpiredIngestionJobs
  <2>2. ASSUME NEW j \in Job
        PROVE  /\ PhaseOf(row'[j]) = IF j \in expired THEN "waiting" ELSE phaseBar[j]
               /\ row'[j].attempts = row[j].attempts /\ row'[j].retries = row[j].retries
    <3>1. CASE Expired(j)
      <4>1. row'[j].status = "queued" /\ row'[j].attempts = row[j].attempts
            /\ row'[j].retries = row[j].retries
        BY <1>0, <2>1, <3>1 DEF Freed, Row
      <4>. QED
        BY <3>1, <4>1 DEF PhaseOf
    <3>2. CASE ~Expired(j)
      BY <1>0, <2>1, <3>2
    <3>. QED
      BY <3>1, <3>2
  <2>3. \A j \in expired : phaseBar[j] = "granted"
    BY DEF Expired, phaseBar, PhaseOf
  <2>4. phaseBar' = [j \in Job |-> IF j \in expired THEN "waiting" ELSE phaseBar[j]]
    <3>1. phaseBar' = [j \in Job |-> PhaseOf(row'[j])]
      BY DEF phaseBar, PhaseOf
    <3>. HIDE DEF expired
    <3>. QED
      BY <2>2, <3>1
  <2>5. UNCHANGED <<ticketBar, budgetBar, holdsBar>>
    BY <1>5, <2>2 DEF RecoverExpiredIngestionJobs, ticketBar, budgetBar, holdsBar
  <2>. HIDE DEF expired
  <2>6. Contract!Revoke(expired)
    BY <2>3, <2>4, <2>5 DEF Contract!Revoke
  <2>7. expired \in SUBSET Job
    BY DEF expired
  <2>. QED
    BY <2>6, <2>7 DEF Contract!ContractNext
<1>6. ASSUME NEW w \in Worker, ClaimBegin(w) \/ ClaimEnd(w)
      PROVE  UNCHANGED Contract!contractVars
  BY <1>6 DEF ClaimBegin, ClaimEnd, Contract!contractVars, phaseBar, ticketBar, budgetBar,
              holdsBar, PhaseOf
<1>7. CASE Tick \/ UNCHANGED vars
  BY <1>7 DEF Tick, vars, Contract!contractVars, phaseBar, ticketBar, budgetBar,
              holdsBar, PhaseOf
<1>. QED
  BY <1>1, <1>2, <1>3, <1>4, <1>5, <1>6, <1>7 DEF Next, Contract!ContractNext

\* The tables and statements of the store implement the contract of the queue.
THEOREM Implementation == Spec => ImplementsContract
  BY ContractInitially, ContractStep, Invariant, PTL
     DEF Spec, ImplementsContract, Contract!ContractSpec
=============================================================================
