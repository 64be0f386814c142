---------------------------- MODULE DataPipeline ----------------------------
(***************************************************************************)
(* The path of a discovery event through the web application: the          *)
(* collector's request handler stores it and hands it over an unbuffered   *)
(* channel to ProjectorsWorkerPool.Run, which starts one goroutine per     *)
(* event, at most workersNumber at a time; the goroutine calls every       *)
(* projector of the registry in turn.  Each call is a transaction of       *)
(* module Projector, whose workers are here the goroutines, one for each   *)
(* event.  The errgroup of App.Start ends them all on shutdown.            *)
(***************************************************************************)
EXTENDS ReadModels, Sequences, FiniteSets, Functions

CONSTANTS Registry,       (* the projectors, in the order they are called    *)
          InitialCursor,  (* the subscriptions table of the first start      *)
          WorkersNumber,  (* the weight of the semaphore                     *)
          MaxRuns         (* bound: how often the process is started         *)

Projectors == Range(Registry)

ASSUME DataPipelineAssumption ==
  /\ Registry \in Seq(ProjectorIDs)
  /\ InitialCursor \in [SubscriptionKeys -> Nat]
  /\ WorkersNumber \in Nat \ {0}
  /\ MaxRuns \in Nat

VARIABLES
  process,   (* the state of the web application's process                   *)
  runs,      (* how often it has been started                                *)
  pool,      (* where ProjectorsWorkerPool.Run is                            *)
  permits,   (* the free weight of its semaphore                             *)
  timedOut,  (* the drain of this run gave up waiting                        *)
  stage,     (* how far each event is                                        *)
  cursor, cells, outcome, pc, call, found, writes  (* of module Projector    *)

projectorVars == <<cursor, cells, outcome, pc, call, found, writes>>
poolVars == <<pool, permits, timedOut>>
processVars == <<process, runs>>
vars == <<process, runs, pool, permits, timedOut, stage, projectorVars>>

P == INSTANCE Projector WITH Workers <- Events

(* "sending" is stored and blocked on the channel; "received" is in the    *)
(* hands of Run; the request is answered 202 from there on.                *)
Stages == {"unsent", "rejected", "sending", "received", "running", "done",
           "discarded", "lost"}

(* The context is done from "stopping" on; the servers accept no request   *)
(* once "closed".                                                          *)
ProcessStates == {"serving", "stopping", "closed", "down"}
PoolStates == {"select", "acquire", "drain", "stopped"}

ContextDone == process \in {"stopping", "closed"}
Up == process # "down"
Running == {e \in Events : stage[e] = "running"}

Move(e, from, to) ==
  /\ stage[e] = from
  /\ stage' = [stage EXCEPT ![e] = to]

-----------------------------------------------------------------------------

Init ==
  /\ process = "serving"
  /\ runs = 1
  /\ pool = "select"
  /\ permits = WorkersNumber
  /\ timedOut = FALSE
  /\ stage = [e \in Events |-> "unsent"]
  /\ P!Init

(* The collector.                                                          *)

(* POST /api/collect: StoreEvent inserts the event, which gets the next id *)
(* of the table's sequence, and then blocks on the channel.                *)
Post(e) ==
  /\ process \in {"serving", "stopping"}
  /\ \A f \in Events : f.id < e.id => stage[f] # "unsent"
  /\ Move(e, "unsent", "sending")
  /\ UNCHANGED <<processVars, poolVars, projectorVars>>

(* The body does not bind, or the insert fails: an error response.         *)
Reject(e) ==
  /\ process \in {"serving", "stopping"}
  /\ \A f \in Events : f.id < e.id => stage[f] # "unsent"
  /\ Move(e, "unsent", "rejected")
  /\ UNCHANGED <<processVars, poolVars, projectorVars>>

(* The worker pool.                                                        *)

(* The select takes any sender; with the context done too it takes either. *)
Receive(e) ==
  /\ Up /\ pool = "select"
  /\ Move(e, "sending", "received")
  /\ pool' = "acquire"
  /\ UNCHANGED <<processVars, permits, timedOut, projectorVars>>

(* The goroutine starts before a permit is there for it. *)
StartWorker_NoPermit(e) ==
  /\ Up /\ pool = "acquire"
  /\ Move(e, "received", "running")
  /\ permits' = permits
  /\ pool' = "select"
  /\ UNCHANGED <<processVars, timedOut, projectorVars>>

(* It acquires two and will release one. *)
StartWorker_Two(e) ==
  /\ Up /\ pool = "acquire"
  /\ permits > 1
  /\ Move(e, "received", "running")
  /\ permits' = permits - 2
  /\ pool' = "select"
  /\ UNCHANGED <<processVars, timedOut, projectorVars>>

(* Acquire(ctx, 1) succeeds whenever a permit is free, done or not.        *)
StartWorker(e) ==
  /\ Up /\ pool = "acquire"
  /\ permits > 0
  /\ Move(e, "received", "running")
  /\ permits' = permits - 1
  /\ pool' = "select"
  /\ UNCHANGED <<processVars, timedOut, projectorVars>>

(* With no permit free it returns the error of a done context, and the     *)
(* loop goes on.                                                           *)
Discard(e) ==
  /\ Up /\ pool = "acquire"
  /\ permits = 0 /\ ContextDone
  /\ Move(e, "received", "discarded")
  /\ pool' = "select"
  /\ UNCHANGED <<processVars, permits, timedOut, projectorVars>>

StartDrain ==
  /\ pool = "select" /\ ContextDone
  /\ pool' = "drain"
  /\ UNCHANGED <<processVars, permits, timedOut, stage, projectorVars>>

Drained ==
  /\ Up /\ pool = "drain"
  /\ permits = WorkersNumber
  /\ permits' = 0
  /\ pool' = "stopped"
  /\ UNCHANGED <<processVars, timedOut, stage, projectorVars>>

DrainTimeout ==
  /\ Up /\ pool = "drain"
  /\ permits < WorkersNumber
  /\ timedOut' = TRUE
  /\ pool' = "stopped"
  /\ UNCHANGED <<processVars, permits, stage, projectorVars>>

(* A worker goroutine.                                                     *)

(* The calls its loop over the registry has still to make.                 *)
CallsLeft(e) ==
  {i \in DOMAIN Registry :
     /\ <<Registry[i], e>> \in Calls(Projectors)
     /\ outcome[<<Registry[i], e>>] = "pending"}

CallProjector(e) ==
  /\ stage[e] = "running"
  /\ \E i \in CallsLeft(e) :
       /\ \A j \in CallsLeft(e) : i <= j
       /\ P!Begin(e, <<Registry[i], e>>)
  /\ UNCHANGED <<processVars, poolVars, stage>>

(* The transaction of the current call, whatever becomes of it.            *)
Project(e) ==
  /\ P!Proceed(e)
  /\ UNCHANGED <<processVars, poolVars, stage>>

ProjectFails(e) ==
  /\ P!Fail(e)
  /\ UNCHANGED <<processVars, poolVars, stage>>

(* The deferred Release.                                                   *)
EndWorker(e) ==
  /\ pc[e] = "idle" /\ CallsLeft(e) = {}
  /\ Move(e, "running", "done")
  /\ permits' = permits + 1
  /\ UNCHANGED <<processVars, pool, timedOut, projectorVars>>

(* The process.                                                            *)

(* SIGTERM, or a server of the errgroup failing.                           *)
Cancel ==
  /\ process = "serving"
  /\ process' = "stopping"
  /\ UNCHANGED <<runs, poolVars, stage, projectorVars>>

(* Shutdown in the place of Close: it waits for the requests in flight. *)
CloseServers_Graceful ==
  /\ process = "stopping"
  /\ \A e \in Events : stage[e] # "sending"
  /\ process' = "closed"
  /\ UNCHANGED <<runs, poolVars, stage, projectorVars>>

CloseServers ==
  /\ process = "stopping"
  /\ process' = "closed"
  /\ UNCHANGED <<runs, poolVars, stage, projectorVars>>

(* Whatever the process held in memory is gone; the transactions it had    *)
(* open are rolled back.                                                   *)
Die ==
  /\ process' = "down"
  /\ stage' = [e \in Events |->
                 IF stage[e] \in {"sending", "received", "running"} THEN "lost"
                                                                    ELSE stage[e]]
  /\ \/ P!Crash
     \/ (\A e \in Events : pc[e] = "idle") /\ UNCHANGED projectorVars
  /\ pool' = "stopped"
  /\ permits' = 0
  /\ timedOut' = FALSE
  /\ UNCHANGED runs

(* App.Start returns when its goroutines have, and main exits.             *)
Exit ==
  /\ process = "closed" /\ pool = "stopped"
  /\ Die

Crash ==
  /\ Up
  /\ Die

(* Events stored by an earlier run are not looked at again.                *)
Restart ==
  /\ process = "down" /\ runs < MaxRuns
  /\ process' = "serving"
  /\ runs' = runs + 1
  /\ pool' = "select"
  /\ permits' = WorkersNumber
  /\ timedOut' = FALSE
  /\ UNCHANGED <<stage, projectorVars>>

Next ==
  \/ \E e \in Events :
       \/ Post(e) \/ Reject(e)
       \/ Receive(e) \/ StartWorker(e) \/ Discard(e)
       \/ CallProjector(e) \/ Project(e) \/ ProjectFails(e) \/ EndWorker(e)
  \/ StartDrain \/ Drained \/ DrainTimeout
  \/ Cancel \/ CloseServers \/ Exit \/ Crash \/ Restart

Spec == Init /\ [][Next]_vars

(* The Go scheduler runs every goroutine that can run, a channel and a     *)
(* semaphore serve their waiters in order, and the drain's timer expires.  *)
(* Clients, signals, failures and restarts promise nothing.                *)
Fairness ==
  /\ \A e \in Events :
       /\ WF_vars(Receive(e)) /\ WF_vars(StartWorker(e)) /\ WF_vars(Discard(e))
       /\ WF_vars(CallProjector(e)) /\ WF_vars(Project(e)) /\ WF_vars(EndWorker(e))
  /\ WF_vars(StartDrain) /\ WF_vars(Drained) /\ WF_vars(DrainTimeout)
  /\ WF_vars(CloseServers) /\ WF_vars(Exit)

FairSpec == Spec /\ Fairness

-----------------------------------------------------------------------------
(* Properties.                                                             *)

(* Of two events of one agent the newer one stays projected, whatever the  *)
(* order their goroutines run in: what the comment of projector.Project    *)
(* promises.  A cursor never moves backwards (projector.go:39-41).         *)
CursorNeverRegresses == P!CursorNeverRegresses

(* A drain that ends before its timeout has waited for everything the      *)
(* process had accepted: no event answered 202 is still in its hands, none *)
(* of its transactions is open when App.Start returns and main exits, and  *)
(* none is open once the process is gone (worker_pool.go:47-57).           *)
DrainIsComplete ==
  pool = "stopped" /\ ~timedOut =>
    \A e \in Events : pc[e] = "idle" /\ stage[e] \notin {"received", "running"}

(* An event that was answered 202 is put through all its projectors, or    *)
(* the process is stopping.                                                *)
AcceptedIsProjected ==
  \A e \in Events :
    stage[e] = "received" ~> stage[e] = "done" \/ process # "serving"

(* A shutdown ends, whatever is being projected.                           *)
ShutdownEnds == process = "stopping" ~> process = "down"

=============================================================================
