-------------------------- MODULE ServerLifecycle ---------------------------
(***************************************************************************)
(* The process from its start to its exit: main (cmd/minirag/main.go),     *)
(* httpServer (cmd/minirag/server.go) and Start, loop and Wait of the      *)
(* worker (internal/rag/worker.go), with the requests that are open when   *)
(* it is told to stop.                                                     *)
(*                                                                         *)
(* Covered: failing starts, a listener that fails, signals at every        *)
(* moment, a second signal, the deadline of Shutdown. A connection carries *)
(* one request.                                                            *)
(* Not covered: what requests and jobs do (modules Ingestion, Retrieval,   *)
(* ChatStream), the eval command, and durations but for that deadline.     *)
(***************************************************************************)
EXTENDS Integers, FiniteSets

CONSTANT Request    \* requests clients send

ASSUME LifecycleAssumption == IsFiniteSet(Request)

VARIABLES
    main,       \* where main and httpServer are
    cancelled,  \* the context of the process: a signal came, or stop was called
    handling,   \* signals are turned into a cancellation
    pool,       \* the connections to the database
    listener,   \* the goroutine of ListenAndServe
    errCh,      \* what it sent
    serverErr,  \* httpServer returned an error
    request,    \* request[r]: how far request r got
    worker,     \* the goroutine of the loop; it is busy while it owns a job
    running,    \* what Ready reads
    done,       \* the channel that is closed when the loop has returned
    owned,      \* a job is processing in the name of this worker
    dbFailed,   \* history: the database did not answer the worker
    exit        \* none, the exit code, or killed

process == <<main, cancelled, handling, pool>>
server  == <<listener, errCh, serverErr>>
loop    == <<worker, running, done, owned, dbFailed>>
vars    == <<process, server, request, loop, exit>>

Alive == exit = "none"

Init ==
    /\ main = "boot"
    /\ cancelled = FALSE
    /\ handling = FALSE
    /\ pool = "none"
    /\ listener = "off"
    /\ errCh = "empty"
    /\ serverErr = FALSE
    /\ request = [r \in Request |-> "new"]
    /\ worker = "off"
    /\ running = FALSE
    /\ done = FALSE
    /\ owned = FALSE
    /\ dbFailed = FALSE
    /\ exit = "none"

-----------------------------------------------------------------------------
(* The end of the process.                                                 *)

\* Everything stops where it is; an open request is cut off.
Exits(code) ==
    /\ exit' = code
    /\ main' = "exited"
    /\ request' = [r \in Request |-> IF request[r] = "open" THEN "cut" ELSE request[r]]
    /\ worker' = IF worker = "off" THEN "off" ELSE "gone"
    /\ UNCHANGED <<cancelled, handling, server, running, done, owned, dbFailed>>

-----------------------------------------------------------------------------
(* The start.                                                              *)

\* The configuration and the telemetry are loaded, the database is reached and
\* migrated.
Connect ==
    /\ main = "boot"
    /\ main' = "start worker"
    /\ pool' = "open"
    /\ handling' = TRUE
    /\ UNCHANGED <<cancelled, server, request, loop, exit>>

\* os.Exit: deferred calls do not run.
BootFails ==
    /\ main \in {"boot", "start worker"}
    /\ Exits("1")
    /\ UNCHANGED <<pool>>

\* Expired jobs were recovered; the loop and the listener start.
StartWorker ==
    /\ main = "start worker"
    /\ main' = "serving"
    /\ running' = TRUE
    /\ worker' = "polling"
    /\ listener' = "starting"
    /\ UNCHANGED <<cancelled, handling, pool, errCh, serverErr, request, done, owned, dbFailed,
                   exit>>

-----------------------------------------------------------------------------
(* The loop of the worker.                                                 *)

\* A claim that begins before the cancellation may still be granted after it, or
\* be granted although its answer is lost.
Claim ==
    /\ Alive /\ worker = "claiming"
    /\ \/ worker' = "polling" /\ UNCHANGED <<owned, dbFailed>>
       \/ worker' = "busy" /\ owned' = TRUE /\ UNCHANGED dbFailed
       \/ worker' = "polling" /\ owned' = TRUE /\ dbFailed' = TRUE
    /\ UNCHANGED <<process, server, request, running, done, exit>>

Poll ==
    /\ Alive /\ worker = "polling"
    /\ ~cancelled
    /\ worker' = "claiming"
    /\ UNCHANGED <<process, server, request, running, done, owned, dbFailed, exit>>

\* The job is concluded, or released if the context was cancelled; what is not
\* recorded, because the database fails or the pool is closed, is left to the lease.
Process ==
    /\ Alive /\ worker = "busy"
    /\ worker' = "polling"
    /\ dbFailed' \in {dbFailed, TRUE}
    /\ owned' = (dbFailed' \/ pool = "closed")
    /\ UNCHANGED <<process, server, request, running, done, exit>>

\* The loop returns; its deferred function runs in two steps.
LeaveLoop ==
    /\ Alive /\ worker = "polling"
    /\ cancelled
    /\ worker' = "returning"
    /\ running' = FALSE
    /\ UNCHANGED <<process, server, request, done, owned, dbFailed, exit>>

CloseDone ==
    /\ Alive /\ worker = "returning"
    /\ worker' = "returned"
    /\ done' = TRUE
    /\ UNCHANGED <<process, server, request, running, owned, dbFailed, exit>>

-----------------------------------------------------------------------------
(* The listener and the requests.                                          *)

Listen ==
    /\ Alive /\ listener = "starting"
    /\ listener' = "open"
    /\ UNCHANGED <<process, errCh, serverErr, request, loop, exit>>

\* The address is in use, or Accept fails for good.
ListenerFails ==
    /\ Alive /\ listener \in {"starting", "open"}
    /\ listener' = "closed"
    /\ errCh' = "error"
    /\ UNCHANGED <<process, serverErr, request, loop, exit>>

Accept(r) ==
    /\ Alive /\ listener = "open"
    /\ request[r] = "new"
    /\ request' = [request EXCEPT ![r] = "open"]
    /\ UNCHANGED <<process, server, loop, exit>>

Answer(r) ==
    /\ Alive /\ request[r] = "open"
    /\ request' = [request EXCEPT ![r] = "answered"]
    /\ UNCHANGED <<process, server, loop, exit>>

-----------------------------------------------------------------------------
(* httpServer and the rest of main.                                        *)

Open == {r \in Request : request[r] = "open"}

ServerStops ==
    /\ main = "serving" /\ errCh # "empty"
    /\ serverErr' = (errCh = "error")
    /\ errCh' = "empty"
    /\ main' = "stop"
    /\ UNCHANGED <<cancelled, handling, pool, listener, request, loop, exit>>

\* The listener is closed, and with it ListenAndServe returns.
Shutdown ==
    /\ main = "serving" /\ cancelled
    /\ main' = "shutdown"
    /\ listener' = "closed"
    /\ errCh' = IF errCh = "empty" THEN "ErrServerClosed" ELSE errCh
    /\ UNCHANGED <<cancelled, handling, pool, serverErr, request, loop, exit>>

\* Faulty variant: open requests are not waited for.
NoneIsWaitedFor == main = "shutdown"

Drained == main = "shutdown" /\ Open = {}

ShutdownSucceeds ==
    /\ Drained
    /\ serverErr' = (errCh = "error")
    /\ errCh' = "empty"
    /\ main' = "stop"
    /\ UNCHANGED <<cancelled, handling, pool, listener, request, loop, exit>>

\* Ten seconds were not enough for the open requests.
ShutdownExpires ==
    /\ main = "shutdown" /\ Open # {}
    /\ serverErr' = TRUE
    /\ main' = "stop"
    /\ UNCHANGED <<cancelled, handling, pool, listener, errCh, request, loop, exit>>

\* Faulty variant: stop is not called before the worker is waited for.
WaitOnly ==
    /\ main = "stop"
    /\ main' = "wait"
    /\ UNCHANGED <<cancelled, handling, pool, server, request, loop, exit>>

\* The context of the worker is cancelled if it was not; signals kill again.
Stop ==
    /\ main = "stop"
    /\ main' = "wait"
    /\ cancelled' = TRUE
    /\ handling' = FALSE
    /\ UNCHANGED <<pool, server, request, loop, exit>>

\* Faulty variant: main asks whether the worker is running.
NotRunning == main = "wait" /\ ~running

\* Faulty variant: main does not wait for the worker.
NotWaitedFor == main = "wait"

WorkerDone == main = "wait" /\ done

\* The traces are flushed, in five seconds or not.
Wait ==
    /\ WorkerDone
    /\ main' = IF serverErr THEN "exit 1" ELSE "return"
    /\ UNCHANGED <<cancelled, handling, pool, server, request, loop, exit>>

ExitOne ==
    /\ main = "exit 1"
    /\ Exits("1")
    /\ UNCHANGED <<pool>>

\* Faulty variant: the pool is closed before the worker is waited for.
CloseEarly ==
    /\ main \in {"wait", "return"} /\ pool = "open"
    /\ pool' = "closed"
    /\ UNCHANGED <<main, cancelled, handling, server, request, loop, exit>>

\* main returns: the deferred Close of the pool runs, then the process exits.
CloseDatabase ==
    /\ main = "return" /\ pool = "open"
    /\ pool' = "closed"
    /\ UNCHANGED <<main, cancelled, handling, server, request, loop, exit>>

ExitZero ==
    /\ main = "return" /\ pool = "closed"
    /\ Exits("0")
    /\ UNCHANGED <<pool>>

-----------------------------------------------------------------------------
(* Signals.                                                                *)

\* SIGINT and SIGTERM, also a second time.
Terminate ==
    /\ Alive
    /\ IF handling
       THEN cancelled' = TRUE
            /\ UNCHANGED <<main, handling, pool, server, request, loop, exit>>
       ELSE Exits("killed") /\ UNCHANGED <<pool>>

\* SIGHUP, which nobody handles: the terminal of the process was closed.
HangUp ==
    /\ Alive
    /\ Exits("killed")
    /\ UNCHANGED pool

-----------------------------------------------------------------------------
WorkerStep == Poll \/ Claim \/ Process \/ LeaveLoop \/ CloseDone

MainStep ==
    \/ StartWorker
    \/ ServerStops
    \/ Shutdown \/ ShutdownSucceeds \/ ShutdownExpires
    \/ Stop \/ Wait
    \/ ExitOne \/ CloseDatabase \/ ExitZero

Next ==
    \/ Connect \/ BootFails
    \/ MainStep \/ WorkerStep
    \/ Listen \/ ListenerFails
    \/ \E r \in Request : Accept(r) \/ Answer(r)
    \/ Terminate \/ HangUp

\* main and the loop run on; their calls have deadlines or end with the context.
\* Requests need not end: their providers may be silent.
Spec == Init /\ [][Next]_vars /\ WF_vars(MainStep) /\ WF_vars(WorkerStep)

-----------------------------------------------------------------------------
(* Properties.                                                             *)

\* Type correctness of every variable; when Shutdown is under way the listener
\* has sent what httpServer reads after it.
TypeOK ==
    /\ main \in {"boot", "start worker", "serving", "shutdown", "stop", "wait",
                 "exit 1", "return", "exited"}
    /\ pool \in {"none", "open", "closed"}
    /\ listener \in {"off", "starting", "open", "closed"}
    /\ errCh \in {"empty", "error", "ErrServerClosed"}
    /\ request \in [Request -> {"new", "open", "answered", "cut"}]
    /\ worker \in {"off", "polling", "claiming", "busy", "returning", "returned", "gone"}
    /\ exit \in {"none", "0", "1", "killed"}
    /\ {cancelled, handling, serverErr, running, done, owned, dbFailed} \subseteq BOOLEAN
    /\ main = "shutdown" => errCh # "empty"

\* The exit code 0 says that no request was cut off, that the loop ended on its
\* own and that no job is left in its name, if the database answered.
ZeroMeansClean ==
    exit = "0" => /\ \A r \in Request : request[r] # "cut"
                  /\ done /\ ~running /\ (owned => dbFailed)
                  /\ pool = "closed"

\* A process that ends by itself leaves no job behind, whatever it exits with:
\* none has to wait for its lease to run out but one the database lost.
JobsAreReleased == exit \in {"0", "1"} => (owned => dbFailed)

\* Once told to stop, or without its listener, the process ends, however long
\* requests stay open.
StopEnds == cancelled \/ errCh = "error" ~> ~Alive
=============================================================================
