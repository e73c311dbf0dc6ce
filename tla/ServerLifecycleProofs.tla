------------------------ MODULE ServerLifecycleProofs ------------------------
(***************************************************************************)
(* The exit code of module ServerLifecycle tells the truth, and no job is  *)
(* left behind, for any number of requests.                                *)
(***************************************************************************)
EXTENDS ServerLifecycle, TLAPS

-----------------------------------------------------------------------------
(* The loop of the worker ends before the process does.                    *)

\* A process that has exited does nothing more.
ExitedIsEnd == exit # "none" <=> main = "exited"

\* Before the worker is started there is neither a loop nor a job.
NotStarted == main \in {"boot", "start worker"} => worker = "off" /\ ~done /\ ~owned

\* The loop owns a job only while it is busy with it, or if the database failed
\* or the process was killed in between.
OwnerIsBusy == owned => worker = "busy" \/ dbFailed \/ exit = "killed"

\* The channel is closed by a loop that has returned, after the flag was cleared.
DoneIsLast ==
    /\ done => worker \in {"returned", "gone"} /\ ~running
    /\ worker \in {"returning", "returned"} => ~running

\* main gets past Wait, and the pool is closed, only when the loop has returned.
LoopIsWaitedFor ==
    /\ main \in {"exit 1", "return"} => done
    /\ pool = "closed" => done /\ main \in {"return", "exited"}
    /\ exit = "0" => pool = "closed"

LoopInv ==
    /\ ExitedIsEnd
    /\ NotStarted
    /\ OwnerIsBusy
    /\ DoneIsLast
    /\ LoopIsWaitedFor
    /\ JobsAreReleased

-----------------------------------------------------------------------------
(* httpServer returns without an error only when the requests have ended.  *)

\* What is on the channel while httpServer waits for the listener or a signal.
NotYetClosed == main \in {"boot", "start worker", "serving"} => errCh # "ErrServerClosed"

\* From Shutdown on no request can come.
ListenerIsClosed == main = "shutdown" => listener = "closed"

\* Without an error no request is open, and none can come.
NoErrorNoRequest ==
    main = "return" \/ (main \in {"stop", "wait"} /\ ~serverErr) =>
        listener = "closed" /\ \A r \in Request : request[r] # "open"

\* Requests are cut off by an exit with another code only.
CutByExit == exit \in {"none", "0"} => \A r \in Request : request[r] # "cut"

ServerInv ==
    /\ NotYetClosed
    /\ ListenerIsClosed
    /\ NoErrorNoRequest
    /\ CutByExit

-----------------------------------------------------------------------------
\* The variables keep their types, in every execution of the process.
THEOREM TypeCorrect == Spec => []TypeOK
<1>. USE DEF Alive, Open, vars, process, server, loop
<1>1. Init => TypeOK
  BY DEF Init, TypeOK
<1>2. TypeOK /\ [Next]_vars => TypeOK'
  <2>. SUFFICES ASSUME TypeOK, [Next]_vars PROVE TypeOK'
    OBVIOUS
  <2>. USE DEF TypeOK
  <2>1. CASE Connect
    BY <2>1 DEF Connect
  <2>2. CASE BootFails
    BY <2>2 DEF BootFails, Exits
  <2>3. CASE StartWorker
    BY <2>3 DEF StartWorker
  <2>4. CASE ServerStops
    BY <2>4 DEF ServerStops
  <2>5. CASE Shutdown
    BY <2>5 DEF Shutdown
  <2>6. CASE ShutdownSucceeds
    BY <2>6 DEF ShutdownSucceeds, Drained
  <2>7. CASE ShutdownExpires
    BY <2>7 DEF ShutdownExpires
  <2>8. CASE Stop
    BY <2>8 DEF Stop
  <2>9. CASE Wait
    BY <2>9 DEF Wait, WorkerDone
  <2>10. CASE ExitOne
    BY <2>10 DEF ExitOne, Exits
  <2>11. CASE CloseDatabase
    BY <2>11 DEF CloseDatabase
  <2>12. CASE ExitZero
    BY <2>12 DEF ExitZero, Exits
  <2>13. CASE Poll
    BY <2>13 DEF Poll
  <2>14. CASE Claim
    BY <2>14 DEF Claim
  <2>15. CASE Process
    BY <2>15 DEF Process
  <2>16. CASE LeaveLoop
    BY <2>16 DEF LeaveLoop
  <2>17. CASE CloseDone
    BY <2>17 DEF CloseDone
  <2>18. CASE Listen
    BY <2>18 DEF Listen
  <2>19. CASE ListenerFails
    BY <2>19 DEF ListenerFails
  <2>20. CASE Terminate
    <3>1. CASE handling
      BY <2>20, <3>1 DEF Terminate
    <3>2. CASE ~handling
      BY <2>20, <3>2 DEF Terminate, Exits
    <3>. QED
      BY <3>1, <3>2
  <2>21. CASE HangUp
    BY <2>21 DEF HangUp, Exits
  <2>22. CASE \E r \in Request : Accept(r)
    BY <2>22 DEF Accept
  <2>23. CASE \E r \in Request : Answer(r)
    BY <2>23 DEF Answer
  <2>24. CASE UNCHANGED vars
    <3>1. UNCHANGED <<main, pool, listener, errCh, request, worker, exit>>
      BY <2>24
    <3>2. {cancelled, handling, serverErr, running, done, owned, dbFailed}' \subseteq BOOLEAN
      BY <2>24, Zenon
    <3>3. /\ main' \in {"boot", "start worker", "serving", "shutdown", "stop", "wait",
                       "exit 1", "return", "exited"}
          /\ pool' \in {"none", "open", "closed"}
          /\ listener' \in {"off", "starting", "open", "closed"}
          /\ errCh' \in {"empty", "error", "ErrServerClosed"}
          /\ main' = "shutdown" => errCh' # "empty"
      BY <3>1
    <3>4. /\ request' \in [Request -> {"new", "open", "answered", "cut"}]
          /\ worker' \in {"off", "polling", "claiming", "busy", "returning", "returned", "gone"}
          /\ exit' \in {"none", "0", "1", "killed"}
      BY <3>1
    <3>. QED
      BY <3>2, <3>3, <3>4
  <2>. QED
    BY <2>1, <2>2, <2>3, <2>4, <2>5, <2>6, <2>7, <2>8, <2>9, <2>10,
       <2>11, <2>12, <2>13, <2>14, <2>15, <2>16, <2>17, <2>18, <2>19, <2>20,
       <2>21, <2>22, <2>23, <2>24
    DEF Next, MainStep, WorkerStep
<1>. QED
  BY <1>1, <1>2, PTL DEF Spec

-----------------------------------------------------------------------------
\* Whatever comes in between, main returns after the loop and the pool is closed last.
THEOREM LoopEndsFirst == Spec => []LoopInv
<1>. USE DEF Alive, Open, vars, process, server, loop
<1>1. Init => LoopInv
  BY DEF Init, LoopInv, ExitedIsEnd, NotStarted, OwnerIsBusy, DoneIsLast, LoopIsWaitedFor, JobsAreReleased
<1>2. LoopInv /\ TypeOK /\ [Next]_vars => LoopInv'
  <2>. SUFFICES ASSUME LoopInv, TypeOK, [Next]_vars PROVE LoopInv'
    OBVIOUS
  <2>. USE DEF LoopInv, ExitedIsEnd, NotStarted, OwnerIsBusy, DoneIsLast, LoopIsWaitedFor, JobsAreReleased
  <2>1. CASE Connect
    BY <2>1 DEF Connect
  <2>2. CASE BootFails
    BY <2>2 DEF BootFails, Exits
  <2>3. CASE StartWorker
    BY <2>3 DEF StartWorker
  <2>4. CASE ServerStops
    BY <2>4 DEF ServerStops
  <2>5. CASE Shutdown
    BY <2>5 DEF Shutdown
  <2>6. CASE ShutdownSucceeds
    BY <2>6 DEF ShutdownSucceeds, Drained
  <2>7. CASE ShutdownExpires
    BY <2>7 DEF ShutdownExpires
  <2>8. CASE Stop
    BY <2>8 DEF Stop
  <2>9. CASE Wait
    BY <2>9 DEF Wait, WorkerDone
  <2>10. CASE ExitOne
    BY <2>10 DEF ExitOne, Exits
  <2>11. CASE CloseDatabase
    BY <2>11 DEF CloseDatabase
  <2>12. CASE ExitZero
    BY <2>12 DEF ExitZero, Exits
  <2>13. CASE Poll
    BY <2>13 DEF Poll
  <2>14. CASE Claim
    <3>1. CASE worker' = "polling" /\ UNCHANGED <<owned, dbFailed>>
      BY <2>14, <3>1 DEF Claim
    <3>2. CASE worker' = "busy" /\ owned' = TRUE /\ UNCHANGED dbFailed
      BY <2>14, <3>2 DEF Claim
    <3>3. CASE worker' = "polling" /\ owned' = TRUE /\ dbFailed' = TRUE
      BY <2>14, <3>3 DEF Claim
    <3>. QED
      BY <2>14, <3>1, <3>2, <3>3 DEF Claim
  <2>15. CASE Process
    BY <2>15 DEF Process
  <2>16. CASE LeaveLoop
    BY <2>16 DEF LeaveLoop
  <2>17. CASE CloseDone
    BY <2>17 DEF CloseDone
  <2>18. CASE Listen
    BY <2>18 DEF Listen
  <2>19. CASE ListenerFails
    BY <2>19 DEF ListenerFails
  <2>20. CASE Terminate
    <3>1. CASE handling
      <4>1. UNCHANGED <<main, pool, loop, exit>>
        BY <2>20, <3>1 DEF Terminate
      <4>. QED
        BY <4>1
    <3>2. CASE ~handling
      BY <2>20, <3>2 DEF Terminate, Exits
    <3>. QED
      BY <3>1, <3>2
  <2>21. CASE HangUp
    BY <2>21 DEF HangUp, Exits
  <2>22. CASE \E r \in Request : Accept(r)
    <3>1. UNCHANGED <<main, pool, loop, exit>>
      BY <2>22 DEF Accept
    <3>. QED
      BY <3>1
  <2>23. CASE \E r \in Request : Answer(r)
    <3>1. UNCHANGED <<main, pool, loop, exit>>
      BY <2>23 DEF Answer
    <3>. QED
      BY <3>1
  <2>24. CASE UNCHANGED vars
    BY <2>24
  <2>. QED
    BY <2>1, <2>2, <2>3, <2>4, <2>5, <2>6, <2>7, <2>8, <2>9, <2>10,
       <2>11, <2>12, <2>13, <2>14, <2>15, <2>16, <2>17, <2>18, <2>19, <2>20,
       <2>21, <2>22, <2>23, <2>24
    DEF Next, MainStep, WorkerStep
<1>. QED
  BY <1>1, <1>2, TypeCorrect, PTL DEF Spec

-----------------------------------------------------------------------------
\* An error of httpServer is the only way past requests that are open.
THEOREM RequestsEndFirst == Spec => []ServerInv
<1>. USE DEF Alive, Open, vars, process, server, loop
<1>1. Init => ServerInv
  BY DEF Init, ServerInv, ExitedIsEnd, NotYetClosed, ListenerIsClosed, NoErrorNoRequest, CutByExit
<1>2. ServerInv /\ TypeOK /\ ExitedIsEnd /\ [Next]_vars => ServerInv'
  <2>. SUFFICES ASSUME ServerInv, TypeOK, ExitedIsEnd, [Next]_vars PROVE ServerInv'
    OBVIOUS
  <2>. USE DEF ServerInv, ExitedIsEnd, NotYetClosed, ListenerIsClosed, NoErrorNoRequest, CutByExit
  <2>1. CASE Connect
    BY <2>1 DEF Connect
  <2>2. CASE BootFails
    BY <2>2 DEF BootFails, Exits
  <2>3. CASE StartWorker
    BY <2>3 DEF StartWorker
  <2>4. CASE ServerStops
    <3>1. errCh = "error"
      BY <2>4 DEF ServerStops, TypeOK
    <3>2. serverErr' = TRUE
      BY <2>4, <3>1 DEF ServerStops
    <3>. QED
      BY <2>4, <3>2 DEF ServerStops
  <2>5. CASE Shutdown
    BY <2>5 DEF Shutdown
  <2>6. CASE ShutdownSucceeds
    BY <2>6 DEF ShutdownSucceeds, Drained
  <2>7. CASE ShutdownExpires
    BY <2>7 DEF ShutdownExpires
  <2>8. CASE Stop
    BY <2>8 DEF Stop
  <2>9. CASE Wait
    BY <2>9 DEF Wait, WorkerDone
  <2>10. CASE ExitOne
    BY <2>10 DEF ExitOne, Exits
  <2>11. CASE CloseDatabase
    BY <2>11 DEF CloseDatabase
  <2>12. CASE ExitZero
    BY <2>12 DEF ExitZero, Exits
  <2>13. CASE Poll
    BY <2>13 DEF Poll
  <2>14. CASE Claim
    BY <2>14 DEF Claim
  <2>15. CASE Process
    BY <2>15 DEF Process
  <2>16. CASE LeaveLoop
    BY <2>16 DEF LeaveLoop
  <2>17. CASE CloseDone
    BY <2>17 DEF CloseDone
  <2>18. CASE Listen
    BY <2>18 DEF Listen
  <2>19. CASE ListenerFails
    BY <2>19 DEF ListenerFails
  <2>20. CASE Terminate
    <3>1. CASE handling
      BY <2>20, <3>1 DEF Terminate
    <3>2. CASE ~handling
      BY <2>20, <3>2 DEF Terminate, Exits
    <3>. QED
      BY <3>1, <3>2
  <2>21. CASE HangUp
    BY <2>21 DEF HangUp, Exits
  <2>22. CASE \E r \in Request : Accept(r)
    <3>1. PICK r \in Request : Accept(r)
      BY <2>22
    <3>2. /\ listener = "open"
          /\ request' = [request EXCEPT ![r] = "open"]
          /\ UNCHANGED <<main, server, exit>>
      BY <3>1 DEF Accept
    <3>3. \A s \in Request : request[s] # "cut" => request'[s] # "cut"
      BY <3>2 DEF TypeOK
    <3>. QED
      BY <3>2, <3>3
  <2>23. CASE \E r \in Request : Answer(r)
    <3>1. PICK r \in Request : Answer(r)
      BY <2>23
    <3>2. /\ request' = [request EXCEPT ![r] = "answered"]
          /\ UNCHANGED <<main, server, exit>>
      BY <3>1 DEF Answer
    <3>3. \A s \in Request : request'[s] \in {request[s], "answered"}
      BY <3>2 DEF TypeOK
    <3>. QED
      BY <3>2, <3>3
  <2>24. CASE UNCHANGED vars
    BY <2>24
  <2>. QED
    BY <2>1, <2>2, <2>3, <2>4, <2>5, <2>6, <2>7, <2>8, <2>9, <2>10,
       <2>11, <2>12, <2>13, <2>14, <2>15, <2>16, <2>17, <2>18, <2>19, <2>20,
       <2>21, <2>22, <2>23, <2>24
    DEF Next, MainStep, WorkerStep
<1>3. LoopInv => ExitedIsEnd
  BY DEF LoopInv
<1>. QED
  BY <1>1, <1>2, <1>3, LoopEndsFirst, TypeCorrect, PTL DEF Spec

-----------------------------------------------------------------------------
\* A process that ends by itself leaves no job behind but one the database lost:
\* main waits for the loop, and the pool outlives it.
THEOREM JobsReleased == Spec => []JobsAreReleased
<1>1. LoopInv => JobsAreReleased
  BY DEF LoopInv
<1>. QED
  BY <1>1, LoopEndsFirst, PTL

\* The exit code 0 is the truth: no request was cut off, the loop has ended and no
\* job is left.
THEOREM ZeroIsClean == Spec => []ZeroMeansClean
<1>1. LoopInv /\ ServerInv => ZeroMeansClean
  BY DEF LoopInv, ServerInv, LoopIsWaitedFor, DoneIsLast, CutByExit, JobsAreReleased, ZeroMeansClean
<1>. QED
  BY <1>1, LoopEndsFirst, RequestsEndFirst, PTL
=============================================================================
