------------------------- MODULE DataPipelineProofs -------------------------
(***************************************************************************)
(* What module DataPipeline guarantees for any agents, events, registry of *)
(* projectors, number of workers, initial subscriptions and number of      *)
(* starts: the worker pool keeps count of its goroutines and of the        *)
(* transactions they have open, waits for them, and leaves no call out.    *)
(***************************************************************************)
EXTENDS DataPipeline, FiniteSetTheorems, TLAPS

Open == {e \in Events : pc[e] # "idle"}
Over(c) == outcome[c] \in {"skipped", "applied", "failed"}

-----------------------------------------------------------------------------
(* What is proved of the worker pool.                                      *)

TypeOK ==
  /\ process \in ProcessStates
  /\ pool \in PoolStates
  /\ permits \in Nat
  /\ stage \in [Events -> Stages]
  /\ outcome \in [P!ProjectCalls -> P!Outcomes]
  /\ pc \in [Events -> P!Statements]
  /\ call \in [Events -> P!ProjectCalls \cup {P!NoCall}]

TimedOutType == timedOut \in BOOLEAN

(* The semaphore keeps count: no more goroutines than permits run, and no  *)
(* transaction is open outside of one (projectors_worker_pool.go).         *)
PoolIsBounded ==
  /\ IsFiniteSet(Open)
  /\ Cardinality(Open) <= WorkersNumber

(* An event that went through a goroutine has been put to every projector  *)
(* of the registry that handles its type, once, with a result of its own.  *)
DoneMeansOver ==
  \A e \in Events :
    stage[e] = "done" =>
      \A p \in Projectors : <<p, e>> \in P!ProjectCalls => Over(<<p, e>>)

-----------------------------------------------------------------------------
(* The inductive invariant.                                                *)

(* The permits that are not free are held by goroutines, until the drain   *)
(* takes them all or the process is gone; only the end of a drain gives up.*)
PermitInv ==
  /\ IsFiniteSet(Running)
  /\ timedOut => pool = "stopped"
  /\ IF pool = "stopped" /\ ~timedOut
       THEN permits = 0 /\ Running = {}
       ELSE permits + Cardinality(Running) = WorkersNumber

(* A call runs in the goroutine of its event.                              *)
CallInv ==
  /\ \A e \in Events :
       pc[e] # "idle" =>
         stage[e] = "running" /\ call[e] \in P!ProjectCalls /\ call[e][2] = e
  /\ \A c \in P!ProjectCalls :
       outcome[c] = "running" => pc[c[2]] # "idle" /\ call[c[2]] = c
  /\ process = "down" => pool = "stopped" /\ ~timedOut

(* Run has one event in its hands while it waits for a permit, else none.  *)
HandInv ==
  \A e \in Events :
    stage[e] = "received" =>
      pool = "acquire" /\ \A f \in Events : stage[f] = "received" => f = e

PoolInv == PermitInv /\ CallInv /\ HandInv /\ DoneMeansOver

-----------------------------------------------------------------------------

(* The static operators mean the same in both specifications. *)
LEMMA SameCalls == P!ProjectCalls = Calls(Projectors)
BY DEF P!ProjectCalls, P!Calls, Calls, P!Handlers, Handlers

(* A statement of a transaction either goes on with it or ends it. *)
LEMMA StatementEffect ==
  ASSUME NEW e \in Events, P!Proceed(e) \/ P!Fail(e)
  PROVE  /\ pc[e] # "idle"
         /\ \/ /\ \E s \in P!Statements \ {"idle"} : pc' = [pc EXCEPT ![e] = s]
               /\ UNCHANGED <<outcome, call>>
            \/ \E r \in {"skipped", "applied", "failed"} : P!Finish(e, r)
BY DEF P!Proceed, P!Fail, P!SkipOld, P!SelectReturns, P!SelectForUpdate,
       P!UpsertSubscription, P!Handle, P!HandlerError, P!Commit, P!Finish, P!Statements

(* A goroutine begins the calls of its own event. *)
LEMMA BeginEffect ==
  ASSUME NEW e \in Events, CallProjector(e)
  PROVE  \E c \in P!ProjectCalls : c[2] = e /\ P!Begin(e, c)
BY SameCalls DEF CallProjector, CallsLeft

-----------------------------------------------------------------------------
(* The worker pool.                                                        *)

(* Every variable keeps its type. *)
LEMMA TypeCorrect == Spec => []TypeOK
<1>1. Init => TypeOK
  BY DataPipelineAssumption
  DEF Init, TypeOK, ProcessStates, PoolStates, Stages, P!Init, P!Outcomes, P!Statements
<1>2. ASSUME TypeOK, [Next]_vars
      PROVE  TypeOK'
  <2>. USE DEF TypeOK
  <2>1. ASSUME NEW e \in Events, CallProjector(e)
        PROVE  TypeOK'
    <3>1. PICK c \in P!ProjectCalls : P!Begin(e, c)
      BY <2>1, BeginEffect
    <3>2. /\ outcome' \in [P!ProjectCalls -> P!Outcomes]
          /\ pc' \in [Events -> P!Statements]
          /\ call' \in [Events -> P!ProjectCalls \cup {P!NoCall}]
      BY <3>1, <1>2 DEF P!Begin, P!Outcomes, P!Statements
    <3>3. QED
      BY <2>1, <1>2, <3>2 DEF CallProjector, processVars, poolVars
  <2>2. ASSUME NEW e \in Events, Project(e) \/ ProjectFails(e)
        PROVE  TypeOK'
    <3>1. UNCHANGED <<processVars, poolVars, stage>>
      BY <2>2 DEF Project, ProjectFails
    <3>2. /\ outcome' \in [P!ProjectCalls -> P!Outcomes]
          /\ pc' \in [Events -> P!Statements]
          /\ call' \in [Events -> P!ProjectCalls \cup {P!NoCall}]
      BY <2>2, <1>2, StatementEffect
      DEF Project, ProjectFails, P!Finish, P!Outcomes, P!Statements
    <3>3. QED
      BY <1>2, <3>1, <3>2 DEF processVars, poolVars
  <2>3. CASE Exit \/ Crash
    <3>1. Die
      BY <2>3 DEF Exit, Crash
    <3>2. /\ process' \in ProcessStates /\ pool' \in PoolStates /\ permits' \in Nat
          /\ stage' \in [Events -> Stages]
      BY <3>1, <1>2 DEF Die, ProcessStates, PoolStates, Stages
    <3>3. /\ outcome' \in [P!ProjectCalls -> P!Outcomes]
          /\ pc' \in [Events -> P!Statements]
          /\ call' \in [Events -> P!ProjectCalls \cup {P!NoCall}]
      BY <3>1, <1>2 DEF Die, P!Crash, projectorVars, P!Outcomes, P!Statements
    <3>4. QED
      BY <3>2, <3>3
  <2>4. ASSUME NEW e \in Events,
               Post(e) \/ Reject(e) \/ Receive(e) \/ StartWorker(e) \/ Discard(e)
                 \/ EndWorker(e)
        PROVE  TypeOK'
    <3>1. UNCHANGED <<projectorVars, processVars>>
      BY <2>4 DEF Post, Reject, Receive, StartWorker, Discard, EndWorker
    <3>2. stage' \in [Events -> Stages]
      BY <2>4, <1>2
      DEF Post, Reject, Receive, StartWorker, Discard, EndWorker, Move, Stages
    <3>3. pool' \in PoolStates /\ permits' \in Nat
      BY <2>4, <1>2
      DEF Post, Reject, Receive, StartWorker, Discard, EndWorker, PoolStates, poolVars
    <3>4. QED
      BY <1>2, <3>1, <3>2, <3>3 DEF projectorVars, processVars
  <2>5. CASE StartDrain \/ Drained \/ DrainTimeout \/ Cancel \/ CloseServers \/ Restart
    BY <2>5, <1>2, DataPipelineAssumption
    DEF StartDrain, Drained, DrainTimeout, Cancel, CloseServers, Restart, PoolStates,
        ProcessStates, projectorVars, processVars, poolVars
  <2>6. CASE UNCHANGED vars
    BY <2>6, <1>2 DEF vars, projectorVars
  <2>7. QED
    BY <1>2, <2>1, <2>2, <2>3, <2>4, <2>5, <2>6 DEF Next
<1>3. QED
  BY <1>1, <1>2, PTL DEF Spec

(* The calls of a goroutine: they are made for the event it has, and end   *)
(* before it does.                                                         *)
LEMMA CallsKept ==
  ASSUME TypeOK, CallInv, DoneMeansOver, [Next]_vars
  PROVE  CallInv' /\ DoneMeansOver'
<1>. USE DEF CallInv, DoneMeansOver, Over
<1>1. ASSUME NEW e \in Events, CallProjector(e)
      PROVE  CallInv' /\ DoneMeansOver'
  <2>1. PICK c \in P!ProjectCalls : c[2] = e /\ P!Begin(e, c)
    BY <1>1, BeginEffect
  <2>2. stage[e] = "running" /\ UNCHANGED <<processVars, poolVars, stage>>
    BY <1>1 DEF CallProjector
  <2>3. QED
    BY <2>1, <2>2 DEF P!Begin, TypeOK, processVars, poolVars
<1>2. ASSUME NEW e \in Events, Project(e) \/ ProjectFails(e)
      PROVE  CallInv' /\ DoneMeansOver'
  <2>1. UNCHANGED <<processVars, poolVars, stage>> /\ (P!Proceed(e) \/ P!Fail(e))
    BY <1>2 DEF Project, ProjectFails
  <2>2. stage[e] = "running" /\ call[e] \in P!ProjectCalls /\ call[e][2] = e
    BY <2>1, StatementEffect
  <2>3. CASE (\E s \in P!Statements \ {"idle"} : pc' = [pc EXCEPT ![e] = s])
               /\ UNCHANGED <<outcome, call>>
    BY <2>1, <2>2, <2>3, StatementEffect DEF TypeOK, processVars, poolVars
  <2>4. ASSUME NEW r \in {"skipped", "applied", "failed"}, P!Finish(e, r)
        PROVE  CallInv' /\ DoneMeansOver'
    BY <2>1, <2>2, <2>4 DEF P!Finish, TypeOK, processVars, poolVars
  <2>5. QED
    BY <2>1, <2>3, <2>4, StatementEffect
<1>3. CASE Exit \/ Crash
  <2>1. Die
    BY <1>3 DEF Exit, Crash
  <2>2. /\ \A e \in Events : pc'[e] = "idle"
        /\ \A c \in P!ProjectCalls : outcome'[c] # "running"
        /\ \A c \in P!ProjectCalls : Over(c) => Over(c)'
    <3>1. CASE P!Crash
      BY <3>1 DEF P!Crash
    <3>2. CASE (\A e \in Events : pc[e] = "idle") /\ UNCHANGED projectorVars
      <4>1. \A c \in P!ProjectCalls : c[2] \in Events
        BY DEF P!ProjectCalls, P!Calls
      <4>2. QED
        BY <3>2, <4>1 DEF projectorVars
    <3>3. QED
      BY <2>1, <3>1, <3>2 DEF Die
  <2>3. pool' = "stopped" /\ ~timedOut'
    BY <2>1 DEF Die
  <2>4. \A e \in Events : stage'[e] = "done" => stage[e] = "done"
    BY <2>1 DEF Die
  <2>5. QED
    BY <2>2, <2>3, <2>4
<1>4. ASSUME NEW e \in Events, EndWorker(e)
      PROVE  CallInv' /\ DoneMeansOver'
  <2>1. UNCHANGED <<projectorVars, processVars, pool, timedOut>> /\ pc[e] = "idle"
        /\ stage' = [stage EXCEPT ![e] = "done"]
    BY <1>4 DEF EndWorker, Move
  <2>2. ASSUME NEW p \in Projectors, <<p, e>> \in P!ProjectCalls
        PROVE  Over(<<p, e>>)
    <3>1. PICK i \in DOMAIN Registry : Registry[i] = p
      BY DEF Projectors, Range
    <3>2. outcome[<<p, e>>] # "pending"
      BY <1>4, <2>2, <3>1, SameCalls DEF EndWorker, CallsLeft
    <3>3. outcome[<<p, e>>] # "running"
      BY <2>1, <2>2
    <3>4. QED
      BY <2>2, <3>2, <3>3 DEF TypeOK, P!Outcomes
  <2>3. QED
    BY <2>1, <2>2 DEF TypeOK, projectorVars, processVars
<1>5. ASSUME NEW e \in Events,
             Post(e) \/ Reject(e) \/ Receive(e) \/ StartWorker(e) \/ Discard(e)
      PROVE  CallInv' /\ DoneMeansOver'
  <2>1. UNCHANGED <<projectorVars, processVars, timedOut>>
    BY <1>5 DEF Post, Reject, Receive, StartWorker, Discard, poolVars
  <2>2. \A f \in Events : /\ stage[f] = "running" => stage'[f] = "running"
                          /\ stage'[f] = "done" => stage[f] = "done"
    BY <1>5 DEF Post, Reject, Receive, StartWorker, Discard, Move, TypeOK
  <2>3. process = "down" => pool' = pool
    BY <1>5 DEF Post, Reject, Receive, StartWorker, Discard, Up, poolVars
  <2>4. QED
    BY <2>1, <2>2, <2>3 DEF projectorVars, processVars
<1>6. CASE StartDrain \/ Drained \/ DrainTimeout \/ Cancel \/ CloseServers \/ Restart
  BY <1>6 DEF StartDrain, Drained, DrainTimeout, Cancel, CloseServers, Restart,
              ContextDone, Up, projectorVars, processVars, poolVars
<1>7. CASE UNCHANGED vars
  BY <1>7 DEF vars, projectorVars
<1>8. QED
  BY <1>1, <1>2, <1>3, <1>4, <1>5, <1>6, <1>7 DEF Next

(* The permits that the goroutines hold and the free ones make the weight  *)
(* of the semaphore.                                                       *)
LEMMA PermitsKept ==
  ASSUME TypeOK, CallInv, PermitInv, [Next]_vars
  PROVE  PermitInv'
<1>. USE DEF PermitInv
<1>1. Cardinality(Running) \in Nat
  BY FS_CardinalityType
<1>2. IsFiniteSet({}) /\ Cardinality({}) = 0 /\ WorkersNumber \in Nat \ {0}
  BY FS_EmptySet, DataPipelineAssumption
<1>3. ASSUME NEW e \in Events, StartWorker(e)
      PROVE  PermitInv'
  <2>1. e \notin Running /\ Running' = Running \cup {e}
    BY <1>3 DEF StartWorker, Move, Running, TypeOK
  <2>2. IsFiniteSet(Running') /\ Cardinality(Running') = Cardinality(Running) + 1
    BY <2>1, FS_AddElement
  <2>3. pool = "acquire" /\ pool' = "select" /\ permits' = permits - 1
    BY <1>3 DEF StartWorker
  <2>4. UNCHANGED timedOut /\ ~timedOut
    BY <1>3, <2>3 DEF StartWorker
  <2>5. permits' + Cardinality(Running') = WorkersNumber
    BY <1>1, <1>2, <2>2, <2>3 DEF TypeOK
  <2>6. QED
    BY <2>2, <2>3, <2>4, <2>5
<1>4. ASSUME NEW e \in Events, EndWorker(e)
      PROVE  PermitInv'
  <2>1. e \in Running /\ Running' = Running \ {e}
    BY <1>4 DEF EndWorker, Move, Running, TypeOK
  <2>2. IsFiniteSet(Running') /\ Cardinality(Running') = Cardinality(Running) - 1
    BY <2>1, FS_RemoveElement
  <2>3. UNCHANGED <<pool, timedOut>> /\ permits' = permits + 1
    BY <1>4 DEF EndWorker
  <2>4. ~(pool = "stopped" /\ ~timedOut)
    BY <2>1
  <2>5. permits' + Cardinality(Running') = WorkersNumber
    BY <1>1, <1>2, <2>2, <2>3, <2>4 DEF TypeOK
  <2>6. QED
    BY <2>2, <2>3, <2>4, <2>5
<1>5. CASE Exit \/ Crash
  <2>1. Running' = {} /\ pool' = "stopped" /\ permits' = 0 /\ ~timedOut'
    BY <1>5 DEF Exit, Crash, Die, Running
  <2>2. QED
    BY <1>2, <2>1
<1>6. CASE Restart
  <2>1. Running' = {} /\ pool' = "select" /\ permits' = WorkersNumber /\ ~timedOut'
    BY <1>6 DEF Restart, Running, CallInv
  <2>2. QED
    BY <1>2, <2>1
<1>7. CASE Drained
  <2>1. Cardinality(Running) = 0
    BY <1>7, <1>1, <1>2 DEF Drained
  <2>2. Running = {} /\ Running' = {}
    BY <1>7, <2>1, FS_EmptySet DEF Drained, Running
  <2>3. pool' = "stopped" /\ permits' = 0 /\ IsFiniteSet(Running') /\ Cardinality(Running') = 0
    BY <1>7, <1>2, <2>2 DEF Drained
  <2>4. ~timedOut'
    BY <1>7 DEF Drained
  <2>5. QED
    BY <2>2, <2>3, <2>4
<1>8. CASE DrainTimeout
  <2>1. Running' = Running
    BY <1>8 DEF DrainTimeout, Running
  <2>2. pool = "drain" /\ pool' = "stopped" /\ permits' = permits /\ timedOut'
    BY <1>8 DEF DrainTimeout
  <2>3. permits' + Cardinality(Running') = WorkersNumber
    BY <2>1, <2>2
  <2>4. QED
    BY <2>1, <2>2, <2>3
<1>9. ASSUME NEW e \in Events, Post(e) \/ Reject(e) \/ Receive(e) \/ Discard(e)
      PROVE  PermitInv'
  <2>1. Running' = Running
    BY <1>9 DEF Post, Reject, Receive, Discard, Move, Running, TypeOK
  <2>2. UNCHANGED <<permits, timedOut>> /\ (pool' = "stopped" <=> pool = "stopped")
    BY <1>9 DEF Post, Reject, Receive, Discard, poolVars
  <2>3. QED
    BY <2>1, <2>2
<1>10. ASSUME NEW e \in Events, CallProjector(e) \/ Project(e) \/ ProjectFails(e)
       PROVE  PermitInv'
  BY <1>10 DEF CallProjector, Project, ProjectFails, poolVars, Running
<1>11. CASE StartDrain \/ Cancel \/ CloseServers \/ UNCHANGED vars
  BY <1>11 DEF StartDrain, Cancel, CloseServers, vars, poolVars, Running
<1>12. QED
  BY <1>3, <1>4, <1>5, <1>6, <1>7, <1>8, <1>9, <1>10, <1>11 DEF Next

(* What Run receives it starts or discards before it receives again. *)
LEMMA HandKept ==
  ASSUME TypeOK, CallInv, HandInv, [Next]_vars
  PROVE  HandInv'
<1>. USE DEF HandInv, TypeOK
<1>1. ASSUME NEW e \in Events, Receive(e)
      PROVE  HandInv'
  <2>1. pool = "select" /\ pool' = "acquire" /\ stage' = [stage EXCEPT ![e] = "received"]
    BY <1>1 DEF Receive, Move
  <2>2. \A f \in Events : stage[f] # "received"
    BY <2>1
  <2>3. QED
    BY <2>1, <2>2
<1>2. ASSUME NEW e \in Events, StartWorker(e) \/ Discard(e)
      PROVE  HandInv'
  <2>1. stage[e] = "received"
        /\ \E s \in {"running", "discarded"} : stage' = [stage EXCEPT ![e] = s]
    BY <1>2 DEF StartWorker, Discard, Move
  <2>2. \A f \in Events : stage'[f] # "received"
    BY <2>1
  <2>3. QED
    BY <2>2
<1>3. ASSUME NEW e \in Events, Post(e) \/ Reject(e) \/ EndWorker(e)
      PROVE  HandInv'
  <2>1. pool' = pool
        /\ \E s \in {"sending", "rejected", "done"} : stage' = [stage EXCEPT ![e] = s]
    BY <1>3 DEF Post, Reject, EndWorker, Move, poolVars
  <2>2. \A f \in Events : stage'[f] = "received" => stage[f] = "received"
    BY <2>1
  <2>3. QED
    BY <2>1, <2>2
<1>4. ASSUME NEW e \in Events, CallProjector(e) \/ Project(e) \/ ProjectFails(e)
      PROVE  HandInv'
  BY <1>4 DEF CallProjector, Project, ProjectFails, poolVars
<1>5. CASE Exit \/ Crash
  BY <1>5 DEF Exit, Crash, Die
<1>6. CASE StartDrain \/ Drained \/ DrainTimeout \/ Restart
  <2>1. \A e \in Events : stage[e] # "received"
    BY <1>6 DEF StartDrain, Drained, DrainTimeout, Restart, CallInv
  <2>2. stage' = stage
    BY <1>6 DEF StartDrain, Drained, DrainTimeout, Restart
  <2>3. QED
    BY <2>1, <2>2
<1>7. CASE Cancel \/ CloseServers \/ UNCHANGED vars
  BY <1>7 DEF Cancel, CloseServers, poolVars, vars
<1>8. QED
  BY <1>1, <1>2, <1>3, <1>4, <1>5, <1>6, <1>7 DEF Next

(* The counts, the calls and the results hold together. *)
LEMMA PoolInvariant == Spec => []PoolInv
<1>1. Init => PoolInv
  <2>. SUFFICES ASSUME Init PROVE PoolInv
    OBVIOUS
  <2>1. Running = {}
    BY DEF Init, Running
  <2>2. PermitInv
    BY <2>1, FS_EmptySet, DataPipelineAssumption DEF Init, PermitInv
  <2>3. CallInv /\ HandInv /\ DoneMeansOver
    BY DEF Init, P!Init, CallInv, HandInv, DoneMeansOver
  <2>4. QED
    BY <2>2, <2>3 DEF PoolInv
<1>2. TypeOK /\ PoolInv /\ [Next]_vars => PoolInv'
  BY CallsKept, PermitsKept, HandKept DEF PoolInv
<1>3. QED
  BY <1>1, <1>2, TypeCorrect, PTL DEF Spec

(* A goroutine holds a permit as long as it runs, and a transaction is one *)
(* of a goroutine that runs: the weight of the semaphore bounds both.      *)
THEOREM PoolKeepsCount == Spec => []PoolIsBounded
<1>1. TypeOK /\ PoolInv => PoolIsBounded
  <2>. SUFFICES ASSUME TypeOK, PoolInv
                PROVE  PoolIsBounded
    OBVIOUS
  <2>1. Open \subseteq Running
    BY DEF PoolInv, CallInv, Open, Running
  <2>2. IsFiniteSet(Running)
    BY DEF PoolInv, PermitInv
  <2>3. IsFiniteSet(Open) /\ Cardinality(Open) <= Cardinality(Running)
    BY <2>1, <2>2, FS_Subset
  <2>4. Cardinality(Open) \in Nat /\ Cardinality(Running) \in Nat
    BY <2>2, <2>3, FS_CardinalityType
  <2>5. Cardinality(Running) <= WorkersNumber
    <3>1. CASE pool = "stopped" /\ ~timedOut
      BY <3>1, FS_EmptySet, DataPipelineAssumption DEF PoolInv, PermitInv
    <3>2. CASE ~(pool = "stopped" /\ ~timedOut)
      <4>1. permits + Cardinality(Running) = WorkersNumber
        BY <3>2 DEF PoolInv, PermitInv
      <4>2. QED
        BY <4>1, <2>4 DEF TypeOK
    <3>3. QED
      BY <3>1, <3>2
  <2>6. QED
    BY <2>3, <2>4, <2>5, DataPipelineAssumption DEF PoolIsBounded
<1>2. QED
  BY <1>1, TypeCorrect, PoolInvariant, PTL

(* When the drain got all the permits no goroutine has one, Run left its   *)
(* loop with nothing in its hands, and the process exits in the middle of  *)
(* no transaction.                                                         *)
THEOREM CleanDrain == Spec => []DrainIsComplete
<1>1. PoolInv => DrainIsComplete
  <2>. SUFFICES ASSUME PoolInv, pool = "stopped", ~timedOut, NEW e \in Events
                PROVE  pc[e] = "idle" /\ stage[e] \notin {"received", "running"}
    BY DEF DrainIsComplete
  <2>1. stage[e] # "running"
    BY DEF PoolInv, PermitInv, Running
  <2>2. pc[e] = "idle"
    BY <2>1 DEF PoolInv, CallInv
  <2>3. stage[e] # "received"
    BY DEF PoolInv, HandInv
  <2>4. QED
    BY <2>1, <2>2, <2>3
<1>2. QED
  BY <1>1, PoolInvariant, PTL

(* The goroutine of an event ends only when the last call of its loop has: *)
(* none is passed over.                                                    *)
THEOREM NoProjectorPassedOver == Spec => []DoneMeansOver
<1>1. PoolInv => DoneMeansOver
  BY DEF PoolInv
<1>2. QED
  BY <1>1, PoolInvariant, PTL

=============================================================================
