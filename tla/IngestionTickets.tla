-------------------------- MODULE IngestionTickets --------------------------
(***************************************************************************)
(* Ingestion with the tickets of QueueContract beside it.  Its rows do not *)
(* count their attempts and its workers do not remember which attempt they *)
(* are, so the steps are recorded in two history variables that no action  *)
(* reads.  The statements compare the name of the worker alone; that this  *)
(* is as good as comparing tickets, with web handlers, heartbeats,         *)
(* shutdowns and crashes around them, is what ImplementsContract says.     *)
(***************************************************************************)
EXTENDS Ingestion

VARIABLES
    tickets,    \* tickets[j]: how many times j has been claimed
    held        \* held[w]: which of the claims of its job w works on

ticketVars == <<vars, tickets, held>>

\* A step that makes a queued job a processing one is a claim; a worker that
\* has a job after it and had none before has heard of that claim.
Recorded ==
    /\ tickets' = [j \in Job |->
          IF row[j].status # "processing" /\ row'[j].status = "processing"
          THEN tickets[j] + 1 ELSE tickets[j]]
    /\ held' = [w \in Worker |->
          IF proc'[w].job = NoJob THEN 0
          ELSE IF proc[w].job = NoJob THEN tickets'[proc'[w].job] ELSE held[w]]

TicketInit ==
    /\ Init
    /\ tickets = [j \in Job |-> 0]
    /\ held = [w \in Worker |-> 0]

TicketSpec == TicketInit /\ [][Next /\ Recorded]_ticketVars

-----------------------------------------------------------------------------
(* What the contract sees.                                                 *)

PhaseOf(status) ==
    CASE status = "queued"     -> "waiting"
      [] status = "processing" -> "granted"
      [] OTHER                 -> status

phaseBar  == [j \in Job |-> PhaseOf(row[j].status)]
budgetBar == [j \in Job |-> MaxRetries - row[j].retries]
holdsBar  == [w \in Worker |-> [job |-> proc[w].job, ticket |-> held[w]]]

Contract == INSTANCE QueueContract WITH
    Retries <- MaxRetries, phase <- phaseBar, ticket <- tickets,
    budget <- budgetBar, holds <- holdsBar

\* Handlers, goroutines and statements together keep the contract of the
\* queue: only the worker of the newest claim decides what becomes of a job.
ImplementsContract == Contract!ContractSpec

\* A worker named in the row of its job works on the newest claim of it.
FencedByName ==
    \A w \in Worker, j \in Job :
        row[j].worker = w /\ proc[w].job = j => held[w] = tickets[j]
=============================================================================
