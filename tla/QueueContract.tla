--------------------------- MODULE QueueContract ---------------------------
(***************************************************************************)
(* What the durable ingestion queue promises its users, with no SQL and no *)
(* clock: the web handlers that submit a job, the workers that run it, and *)
(* the reader that polls it (README.md:197-216).                           *)
(*                                                                         *)
(* A job is granted to one worker at a time.  Every grant is a new ticket, *)
(* and only the worker that holds the newest ticket of a job decides what  *)
(* becomes of it.  The code has no tickets: it writes the worker's name in *)
(* the row.  That a name is as good as a ticket is what the refinement     *)
(* from JobQueue to this module says.                                      *)
(***************************************************************************)
EXTENDS Integers

CONSTANTS
    Job,        \* job identifiers the web handlers may use
    Worker,     \* worker identifiers (newID("worker"), one per process start)
    NoJob,      \* not a job
    Retries     \* how many times a job is retried after a transient error

VARIABLES
    phase,      \* phase[j]: where job j stands
    ticket,     \* ticket[j]: how many times j was granted; also its newest ticket
    budget,     \* budget[j]: retries left
    holds       \* holds[w]: the job and ticket worker w acts on, or NoTicket

contractVars == <<phase, ticket, budget, holds>>

Phase    == {"absent", "waiting", "granted", "completed", "failed"}
Terminal == {"completed", "failed"}
NoTicket == [job |-> NoJob, ticket |-> 0]
Ticket   == [job : Job \cup {NoJob}, ticket : Nat]

ContractTypeOK ==
    /\ phase \in [Job -> Phase]
    /\ ticket \in [Job -> Nat]
    /\ budget \in [Job -> 0..Retries]
    /\ holds \in [Worker -> Ticket]

ContractInit ==
    /\ phase = [j \in Job |-> "absent"]
    /\ ticket = [j \in Job |-> 0]
    /\ budget = [j \in Job |-> Retries]
    /\ holds = [w \in Worker |-> NoTicket]

\* A handler answers 202: the job is durable.
Accept(j) ==
    /\ phase[j] = "absent"
    /\ phase' = [phase EXCEPT ![j] = "waiting"]
    /\ UNCHANGED <<ticket, budget, holds>>

\* j is granted to a worker; the grant reaches worker w ...
Grant(w, j) ==
    /\ phase[j] = "waiting"
    /\ holds[w] = NoTicket
    /\ phase' = [phase EXCEPT ![j] = "granted"]
    /\ ticket' = [ticket EXCEPT ![j] = @ + 1]
    /\ holds' = [holds EXCEPT ![w] = [job |-> j, ticket |-> ticket[j] + 1]]
    /\ UNCHANGED budget

\* ... or is committed and never heard of by the worker it was made for.
GrantUnheard(j) ==
    /\ phase[j] = "waiting"
    /\ phase' = [phase EXCEPT ![j] = "granted"]
    /\ ticket' = [ticket EXCEPT ![j] = @ + 1]
    /\ UNCHANGED <<budget, holds>>

\* w acts on the newest ticket of j.
Current(w, j) ==
    /\ phase[j] = "granted"
    /\ holds[w] = [job |-> j, ticket |-> ticket[j]]

\* The worker with the newest ticket ends the job ...
Settle(w, j) ==
    /\ Current(w, j)
    /\ \E outcome \in Terminal : phase' = [phase EXCEPT ![j] = outcome]
    /\ holds' = [holds EXCEPT ![w] = NoTicket]
    /\ UNCHANGED <<ticket, budget>>

\* ... or spends one retry on it ...
Retry(w, j) ==
    /\ Current(w, j)
    /\ budget[j] > 0
    /\ phase' = [phase EXCEPT ![j] = "waiting"]
    /\ budget' = [budget EXCEPT ![j] = @ - 1]
    /\ holds' = [holds EXCEPT ![w] = NoTicket]
    /\ UNCHANGED ticket

\* ... or hands it back unfinished.
GiveBack(w, j) ==
    /\ Current(w, j)
    /\ phase' = [phase EXCEPT ![j] = "waiting"]
    /\ holds' = [holds EXCEPT ![w] = NoTicket]
    /\ UNCHANGED <<ticket, budget>>

\* Grants whose lease ran out are taken back, several in one statement.
Revoke(jobs) ==
    /\ \A j \in jobs : phase[j] = "granted"
    /\ phase' = [j \in Job |-> IF j \in jobs THEN "waiting" ELSE phase[j]]
    /\ UNCHANGED <<ticket, budget, holds>>

\* w stops acting on its ticket: it crashed, or its last word was refused.
Forget(w) ==
    /\ holds' = [holds EXCEPT ![w] = NoTicket]
    /\ UNCHANGED <<phase, ticket, budget>>

ContractNext ==
    \/ \E j \in Job : Accept(j) \/ GrantUnheard(j)
    \/ \E w \in Worker, j \in Job :
          Grant(w, j) \/ Settle(w, j) \/ Retry(w, j) \/ GiveBack(w, j)
    \/ \E jobs \in SUBSET Job : Revoke(jobs)
    \/ \E w \in Worker : Forget(w)

ContractSpec == ContractInit /\ [][ContractNext]_contractVars
=============================================================================
