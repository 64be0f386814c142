--------------------------- MODULE ProjectorProofs ---------------------------
(***************************************************************************)
(* What module Projector guarantees for any agents, events, workers and    *)
(* initial subscriptions.                                                  *)
(***************************************************************************)
EXTENDS Projector, TLAPS

(* An open transaction is of a running call, one transaction to a call.    *)
CallInv ==
  /\ \A w \in Workers : pc[w] # "idle" => outcome[call[w]] = "running"
  /\ \A v, w \in Workers :
       v # w /\ pc[v] # "idle" /\ pc[w] # "idle" => call[v] # call[w]

(* What is written and not committed is what the handler of the call       *)
(* writes, and only a handler that succeeded gets there.                   *)
WriteInv ==
  \A w \in Workers :
    IF pc[w] = "commit"
      THEN writes[w] = WritesOf(call[w]) /\ ~HandlerFails(call[w])
      ELSE writes[w] = {}

LockInv == RowLockExclusive /\ ReadStaysCurrent

(* The subscriptions that have a row from the start.                       *)
Known == {k \in SubscriptionKeys : InitialCursor[k] # 0}

(* Their rows stay, so that every SELECT of one finds it and locks it.     *)
KnownInv ==
  /\ \A k \in Known : cursor[k] # 0
  /\ \A w \in Workers :
       pc[w] \in {"upsert", "handler", "commit"} /\ Key(w) \in Known => found[w]

-----------------------------------------------------------------------------

(* The types of a call's parts. *)
LEMMA CallParts ==
  ASSUME NEW c \in ProjectCalls
  PROVE  /\ c[1] \in ProjectorIDs
         /\ c[2] \in Events
         /\ c[2].id \in Nat \ {0}
         /\ c[2].agent \in Agents
         /\ c[2].type \in Handlers[c[1]]
         /\ KeyOf(c) \in SubscriptionKeys
<1>1. c \in Projectors \X Events /\ c[2].type \in Handlers[c[1]]
  BY DEF ProjectCalls, Calls
<1>2. c[1] \in ProjectorIDs /\ c[2] \in Events
  BY <1>1, ProjectorAssumption
<1>3. c[2] \in EventType
  BY <1>2, EventsAssumption
<1>4. c[2].id \in Nat \ {0} /\ c[2].agent \in Agents
  BY <1>3 DEF EventType
<1>5. QED
  BY <1>1, <1>2, <1>4 DEF KeyOf, SubscriptionKeys

(* A handler that succeeds writes cells of the read models only. *)
LEMMA WritesAreCells ==
  ASSUME NEW c \in ProjectCalls, ~HandlerFails(c)
  PROVE  WritesOf(c) \subseteq Cells
<1>1. c[2] \in EventType /\ c[1] \in ProjectorIDs /\ c[2].type \in Handlers[c[1]]
  BY CallParts, EventsAssumption
<1>2. CASE c[1] = "clusters"
  <2>1. c[2].cluster \in Clusters
    BY <1>1, <1>2 DEF HandlerFails, EventType
  <2>2. QED
    BY <1>2, <2>1 DEF WritesOf, ClustersWrites, Cells, ClusterCells
<1>3. CASE c[1] = "hosts"
  <2>1. c[2].type \in {"host", "cloud", "cluster"} /\ c[2].agent \in Agents
    BY <1>1, <1>3 DEF Handlers, EventType
  <2>2. QED
    BY <1>3, <2>1 DEF WritesOf, HostsWrites, Cells, AgentCells
<1>4. CASE c[1] = "host_telemetry"
  <2>1. c[2].type \in {"host", "cloud"} /\ c[2].agent \in Agents
    BY <1>1, <1>4 DEF Handlers, EventType
  <2>2. QED
    BY <1>4, <2>1 DEF WritesOf, HostTelemetryWrites, Cells, AgentCells
<1>5. CASE c[1] = "sles_subscriptions"
  <2>1. c[2].agent \in Agents
    BY <1>1 DEF EventType
  <2>2. QED
    BY <1>5, <2>1 DEF WritesOf, SlesWrites, Cells, AgentCells
<1>6. CASE c[1] = "sapsystems"
  <2>1. c[2].agent \in Agents /\ c[2].instances \subseteq SAPInstances
    BY <1>1 DEF EventType
  <2>2. QED
    BY <1>6, <2>1 DEF WritesOf, SAPSystemsWrites, Cells, AgentCells
<1>7. QED
  BY <1>1, <1>2, <1>3, <1>4, <1>5, <1>6 DEF ProjectorIDs, Handlers

(* Two calls that write the same cell of an agent share a cursor. *)
LEMMA SharedCellSharedKey ==
  ASSUME NEW a \in ProjectCalls, NEW b \in ProjectCalls,
         NEW x \in AgentCells, x \in WritesOf(a), x \in WritesOf(b)
  PROVE  KeyOf(a) = KeyOf(b)
<1> DEFINE Owner(c) ==
      /\ x[2] = c[2].agent
      /\ \/ c[1] = "hosts" /\ x[1] = "hosts"
         \/ c[1] = "host_telemetry" /\ x[1] = "host_telemetry"
         \/ c[1] = "sles_subscriptions" /\ x[1] = "sles_subscriptions"
         \/ c[1] = "sapsystems" /\ x[1] = "sap_system_instances"
<1>1. x[1] # "clusters"
  BY DEF AgentCells
<1>2. ASSUME NEW c \in ProjectCalls, x \in WritesOf(c) PROVE Owner(c)
  <2>1. c[1] \in {"clusters", "hosts", "host_telemetry", "sles_subscriptions", "sapsystems"}
    BY CallParts DEF ProjectorIDs, Handlers
  <2>2. QED
    BY <1>1, <1>2, <2>1 DEF WritesOf, ClustersWrites, HostsWrites, HostTelemetryWrites,
                            SlesWrites, SAPSystemsWrites
<1>3. Owner(a) /\ Owner(b)
  BY <1>2
<1>4. QED
  BY <1>3 DEF KeyOf

-----------------------------------------------------------------------------

(* Every variable keeps its type. *)
LEMMA TypeCorrect == Spec => []TypeOK
<1>1. Init => TypeOK
  BY ProjectorAssumption DEF Init, TypeOK, Outcomes, Statements
<1>2. TypeOK /\ [Next]_vars => TypeOK'
  <2> SUFFICES ASSUME TypeOK, [Next]_vars PROVE TypeOK'
    OBVIOUS
  <2> USE DEF TypeOK, Outcomes, Statements
  <2>1. ASSUME NEW w \in Workers, NEW c \in ProjectCalls, Begin(w, c) PROVE TypeOK'
    BY <2>1 DEF Begin
  <2>2. ASSUME NEW w \in Workers, SkipOld(w) PROVE TypeOK'
    BY <2>2 DEF SkipOld, SelectReturns, Finish
  <2>3. ASSUME NEW w \in Workers, SelectForUpdate(w) PROVE TypeOK'
    BY <2>3 DEF SelectForUpdate, SelectReturns
  <2>4. ASSUME NEW w \in Workers, UpsertSubscription(w) PROVE TypeOK'
    BY <2>4 DEF UpsertSubscription
  <2>5. ASSUME NEW w \in Workers, Handle(w) PROVE TypeOK'
    <3>1. WritesOf(call[w]) \subseteq Cells
      BY <2>5, WritesAreCells DEF Handle
    <3>2. QED
      BY <2>5, <3>1 DEF Handle
  <2>6. ASSUME NEW w \in Workers, HandlerError(w) PROVE TypeOK'
    BY <2>6 DEF HandlerError, Finish
  <2>7. ASSUME NEW w \in Workers, Commit(w) PROVE TypeOK'
    <3>1. Event(w).id \in Nat
      BY <2>7, CallParts DEF Commit, Event
    <3>2. cursor' \in [SubscriptionKeys -> Nat] /\ cells' \in [Cells -> Nat]
      BY <2>7, <3>1 DEF Commit
    <3>3. QED
      BY <2>7, <3>2 DEF Commit, Finish
  <2>8. ASSUME NEW w \in Workers, Fail(w) PROVE TypeOK'
    BY <2>8 DEF Fail, Finish
  <2>9. CASE Crash
    BY <2>9 DEF Crash
  <2>10. CASE UNCHANGED vars
    BY <2>10 DEF vars
  <2>11. QED
    BY <2>1, <2>2, <2>3, <2>4, <2>5, <2>6, <2>7, <2>8, <2>9, <2>10 DEF Next, Proceed
<1>3. QED
  BY <1>1, <1>2, PTL DEF Spec

-----------------------------------------------------------------------------

LEMMA CallInvariant == Spec => []CallInv
<1>1. Init => CallInv
  BY DEF Init, CallInv
<1>2. TypeOK /\ CallInv /\ [Next]_vars => CallInv'
  <2> SUFFICES ASSUME TypeOK, CallInv, [Next]_vars PROVE CallInv'
    OBVIOUS
  <2> USE DEF TypeOK, CallInv
  <2>1. ASSUME NEW w \in Workers, NEW c \in ProjectCalls, Begin(w, c) PROVE CallInv'
    BY <2>1 DEF Begin
  <2>2. ASSUME NEW w \in Workers, NEW r \in Outcomes, pc[w] # "idle", Finish(w, r)
        PROVE  CallInv'
    BY <2>2 DEF Finish
  <2>3. ASSUME NEW w \in Workers, SelectForUpdate(w) PROVE CallInv'
    BY <2>3 DEF SelectForUpdate, SelectReturns
  <2>4. ASSUME NEW w \in Workers, UpsertSubscription(w) PROVE CallInv'
    BY <2>4 DEF UpsertSubscription
  <2>5. ASSUME NEW w \in Workers, Handle(w) PROVE CallInv'
    BY <2>5 DEF Handle
  <2>6. CASE Crash
    BY <2>6 DEF Crash
  <2>7. CASE UNCHANGED vars
    BY <2>7 DEF vars
  <2>8. QED
    BY <2>1, <2>2, <2>3, <2>4, <2>5, <2>6, <2>7
    DEF Next, Proceed, SkipOld, SelectReturns, HandlerError, Commit, Fail, Outcomes
<1>3. QED
  BY <1>1, <1>2, TypeCorrect, PTL DEF Spec

LEMMA WriteInvariant == Spec => []WriteInv
<1>1. Init => WriteInv
  BY DEF Init, WriteInv
<1>2. TypeOK /\ WriteInv /\ [Next]_vars => WriteInv'
  <2> SUFFICES ASSUME TypeOK, WriteInv, [Next]_vars PROVE WriteInv'
    OBVIOUS
  <2> USE DEF TypeOK, WriteInv
  <2>1. ASSUME NEW w \in Workers, NEW c \in ProjectCalls, Begin(w, c) PROVE WriteInv'
    BY <2>1 DEF Begin
  <2>2. ASSUME NEW w \in Workers, NEW r \in Outcomes, Finish(w, r) PROVE WriteInv'
    BY <2>2 DEF Finish
  <2>3. ASSUME NEW w \in Workers, SelectForUpdate(w) PROVE WriteInv'
    BY <2>3 DEF SelectForUpdate, SelectReturns
  <2>4. ASSUME NEW w \in Workers, UpsertSubscription(w) PROVE WriteInv'
    BY <2>4 DEF UpsertSubscription
  <2>5. ASSUME NEW w \in Workers, Handle(w) PROVE WriteInv'
    BY <2>5 DEF Handle
  <2>6. CASE Crash
    BY <2>6 DEF Crash
  <2>7. CASE UNCHANGED vars
    BY <2>7 DEF vars
  <2>8. QED
    BY <2>1, <2>2, <2>3, <2>4, <2>5, <2>6, <2>7
    DEF Next, Proceed, SkipOld, HandlerError, Commit, Fail, Outcomes
<1>3. QED
  BY <1>1, <1>2, TypeCorrect, PTL DEF Spec

-----------------------------------------------------------------------------

(* The row locks exclude, and what a transaction read under its lock stays *)
(* true until it commits: the two go together, since only the holder of a  *)
(* row may commit to it (projector.go:39-41, 54-71).                       *)
THEOREM LockingCorrect == Spec => [](RowLockExclusive /\ ReadStaysCurrent)
<1>1. Init => LockInv
  BY DEF Init, LockInv, RowLockExclusive, ReadStaysCurrent, Locks
<1>2. TypeOK /\ LockInv /\ [Next]_vars => LockInv'
  <2> SUFFICES ASSUME TypeOK, LockInv, [Next]_vars PROVE LockInv'
    OBVIOUS
  <2> USE DEF TypeOK, LockInv, RowLockExclusive, ReadStaysCurrent, Locks, Key, Event
  <2>1. ASSUME NEW w \in Workers, NEW c \in ProjectCalls, Begin(w, c) PROVE LockInv'
    BY <2>1 DEF Begin
  <2>2. ASSUME NEW w \in Workers, NEW r \in Outcomes, Finish(w, r), UNCHANGED cursor
        PROVE  LockInv'
    BY <2>2 DEF Finish
  <2>3. ASSUME NEW w \in Workers, SelectForUpdate(w) PROVE LockInv'
    BY <2>3 DEF SelectForUpdate, SelectReturns, LockedByOther
  <2>4. ASSUME NEW w \in Workers, UpsertSubscription(w) PROVE LockInv'
    BY <2>4 DEF UpsertSubscription, LockedByOther
  <2>5. ASSUME NEW w \in Workers, Handle(w) PROVE LockInv'
    BY <2>5 DEF Handle
  <2>6. ASSUME NEW w \in Workers, Commit(w) PROVE LockInv'
    <3>1. Key(w) \in SubscriptionKeys
      BY <2>6, CallParts DEF Commit
    <3>2. RowLockExclusive'
      BY <2>6 DEF Commit, Finish
    <3>3. ReadStaysCurrent'
      <4> SUFFICES ASSUME NEW v \in Workers,
                          pc'[v] \in {"upsert", "handler", "commit"}, found'[v]
                   PROVE  cursor'[Key(v)'] < Event(v)'.id
        OBVIOUS
      <4>1. v # w /\ pc'[v] = pc[v] /\ found'[v] = found[v] /\ call'[v] = call[v]
        BY <2>6 DEF Commit, Finish
      <4>2. Key(v) # Key(w)
        BY <2>6, <4>1 DEF Commit
      <4>3. cursor'[Key(v)] = cursor[Key(v)]
        BY <2>6, <4>1, <4>2, CallParts DEF Commit
      <4>4. QED
        BY <4>1, <4>3
    <3>4. QED
      BY <3>2, <3>3
  <2>7. CASE Crash
    BY <2>7 DEF Crash
  <2>8. CASE UNCHANGED vars
    BY <2>8 DEF vars
  <2>9. QED
    BY <2>1, <2>2, <2>3, <2>4, <2>5, <2>6, <2>7, <2>8
    DEF Next, Proceed, SkipOld, HandlerError, Fail, Outcomes
<1>3. QED
  BY <1>1, <1>2, TypeCorrect, PTL DEF Spec, LockInv

(* A cursor goes back only when a call commits whose SELECT found no row:  *)
(* an agent and projector that meet for the first time.                    *)
THEOREM RegressionNeedsFirstContact == Spec => CursorRegressesOnlyOnFirstContact
<1> DEFINE Step == \A k \in SubscriptionKeys : cursor'[k] >= cursor[k] \/ FirstContact(k)
<1>1. TypeOK /\ LockInv /\ [Next]_vars => [Step]_vars
  <2> SUFFICES ASSUME TypeOK, LockInv, Next PROVE Step
    OBVIOUS
  <2>1. ASSUME UNCHANGED cursor PROVE Step
    BY <2>1 DEF TypeOK
  <2>2. ASSUME NEW w \in Workers, Commit(w) PROVE Step
    <3> SUFFICES ASSUME NEW k \in SubscriptionKeys, ~FirstContact(k)
                 PROVE  cursor'[k] >= cursor[k]
      OBVIOUS
    <3>1. CASE k = Key(w)
      <4>1. pc[w] = "commit" /\ found[w]
        BY <2>2, <3>1 DEF FirstContact, Commit, TypeOK
      <4>2. cursor[k] < Event(w).id /\ cursor'[k] = Event(w).id
        BY <2>2, <3>1, <4>1 DEF Commit, TypeOK, LockInv, ReadStaysCurrent
      <4>3. Event(w).id \in Nat
        BY <4>1, CallParts DEF TypeOK, Event
      <4>4. QED
        BY <4>2, <4>3 DEF TypeOK
    <3>2. CASE k # Key(w)
      BY <2>2, <3>2 DEF Commit, TypeOK
    <3>3. QED
      BY <3>1, <3>2
  <2>3. QED
    BY <2>1, <2>2 DEF Next, Proceed, Begin, SkipOld, SelectForUpdate, UpsertSubscription,
                      Handle, HandlerError, Fail, Crash
<1>2. QED
  BY <1>1, TypeCorrect, LockingCorrect, PTL
  DEF Spec, CursorRegressesOnlyOnFirstContact, LockInv

-----------------------------------------------------------------------------
(* Subscriptions that have a row.                                          *)

(* No SELECT misses one. *)
LEMMA KnownInvariant == Spec => []KnownInv
<1>1. Init => KnownInv
  BY DEF Init, KnownInv, Known
<1>2. TypeOK /\ KnownInv /\ [Next]_vars => KnownInv'
  <2> SUFFICES ASSUME TypeOK, KnownInv, [Next]_vars PROVE KnownInv'
    OBVIOUS
  <2> USE DEF TypeOK, KnownInv
  <2>1. ASSUME NEW w \in Workers, NEW c \in ProjectCalls, Begin(w, c) PROVE KnownInv'
    BY <2>1 DEF Begin, Key
  <2>2. ASSUME NEW w \in Workers, NEW r \in Outcomes, Finish(w, r), UNCHANGED cursor
        PROVE  KnownInv'
    BY <2>2 DEF Finish, Key
  <2>3. ASSUME NEW w \in Workers, SelectForUpdate(w) PROVE KnownInv'
    BY <2>3, CallParts DEF SelectForUpdate, SelectReturns, Key
  <2>4. ASSUME NEW w \in Workers, UpsertSubscription(w) PROVE KnownInv'
    BY <2>4 DEF UpsertSubscription, Key
  <2>5. ASSUME NEW w \in Workers, Handle(w) PROVE KnownInv'
    BY <2>5 DEF Handle, Key
  <2>6. ASSUME NEW w \in Workers, Commit(w) PROVE KnownInv'
    <3>1. Event(w).id \in Nat \ {0}
      BY <2>6, CallParts DEF Commit, Event
    <3>2. \A k \in Known : cursor'[k] # 0
      BY <2>6, <3>1 DEF Commit, Known
    <3>3. QED
      BY <2>6, <3>2 DEF Commit, Finish, Key
  <2>7. CASE Crash
    BY <2>7 DEF Crash, Key
  <2>8. CASE UNCHANGED vars
    BY <2>8 DEF vars, Key
  <2>9. QED
    BY <2>1, <2>2, <2>3, <2>4, <2>5, <2>6, <2>7, <2>8
    DEF Next, Proceed, SkipOld, HandlerError, Fail, Outcomes
<1>3. QED
  BY <1>1, <1>2, TypeCorrect, PTL DEF Spec

(* With a row for every projector and agent no cursor goes back. *)
THEOREM SeededCursorMonotone ==
  ASSUME Known = SubscriptionKeys PROVE Spec => CursorNeverRegresses
<1> DEFINE Weak == \A k \in SubscriptionKeys : cursor'[k] >= cursor[k] \/ FirstContact(k)
           Strong == \A k \in SubscriptionKeys : cursor'[k] >= cursor[k]
<1>1. KnownInv /\ [Weak]_vars => [Strong]_vars
  BY CallParts DEF KnownInv, FirstContact
<1>2. QED
  BY <1>1, KnownInvariant, RegressionNeedsFirstContact, PTL
  DEF CursorRegressesOnlyOnFirstContact, CursorNeverRegresses

(* A transaction about to commit carries an event newer than its cursor,   *)
(* if the subscription is a known one.                                     *)
LEMMA CommitIsNewer ==
  ASSUME TypeOK, ReadStaysCurrent, KnownInv, NEW w \in Workers, pc[w] = "commit"
  PROVE  /\ call[w] \in ProjectCalls
         /\ Key(w) \in SubscriptionKeys
         /\ Event(w).id \in Nat
         /\ Key(w) \in Known => cursor[Key(w)] < Event(w).id
<1>1. call[w] \in ProjectCalls
  BY DEF TypeOK
<1>2. Key(w) \in SubscriptionKeys /\ Event(w).id \in Nat
  BY <1>1, CallParts DEF Key, Event
<1>3. Key(w) \in Known => cursor[Key(w)] < Event(w).id
  BY DEF ReadStaysCurrent, KnownInv
<1>4. QED
  BY <1>1, <1>2, <1>3

(* For a known subscription no applied event is undone by an older one,    *)
(* and what was skipped was superseded.                                    *)
THEOREM NothingLost == Spec => [](NoUpdateLost /\ SkippedIsSuperseded)
<1> DEFINE I == NoUpdateLost /\ SkippedIsSuperseded
           J == TypeOK /\ RowLockExclusive /\ ReadStaysCurrent /\ KnownInv /\ CallInv
                /\ WriteInv
<1>1. Init => I
  BY DEF Init, NoUpdateLost, SkippedIsSuperseded, Applied
<1>2. J /\ I /\ [Next]_vars => I'
  <2> SUFFICES ASSUME J, I, [Next]_vars PROVE I'
    OBVIOUS
  <2> USE DEF NoUpdateLost, SkippedIsSuperseded, Applied, Known
  <2>1. ASSUME UNCHANGED <<cursor, cells>>,
               \A a \in ProjectCalls : outcome'[a] \in {"applied", "skipped"}
                                         => outcome'[a] = outcome[a]
        PROVE  I'
    BY <2>1
  <2>2. ASSUME NEW w \in Workers, SkipOld(w) PROVE I'
    <3>1. \A a \in ProjectCalls \ {call[w]} : outcome'[a] = outcome[a]
      BY <2>2 DEF SkipOld, Finish, TypeOK
    <3>2. outcome'[call[w]] = "skipped" /\ cursor[KeyOf(call[w])] >= call[w][2].id
      BY <2>2 DEF SkipOld, SelectReturns, Finish, TypeOK, Key, Event
    <3>3. QED
      BY <2>2, <3>1, <3>2 DEF SkipOld
  <2>3. ASSUME NEW w \in Workers, Commit(w) PROVE I'
    <3>1. /\ call[w] \in ProjectCalls
          /\ Key(w) \in SubscriptionKeys
          /\ Event(w).id \in Nat
          /\ Key(w) \in Known => cursor[Key(w)] < Event(w).id
      BY <2>3, CommitIsNewer DEF Commit
    <3>2. \A a \in ProjectCalls \ {call[w]} : outcome'[a] = outcome[a]
      BY <2>3 DEF Commit, Finish, TypeOK
    <3>3. \A k \in Known : cursor'[k] >= cursor[k]
      BY <2>3, <3>1 DEF Commit, TypeOK
    <3>4. cursor'[Key(w)] = Event(w).id
      BY <2>3, <3>1 DEF Commit, TypeOK
    <3>5. outcome'[call[w]] = "applied"
      BY <2>3, <3>1 DEF Commit, Finish, TypeOK
    <3>6. SkippedIsSuperseded'
      <4> SUFFICES ASSUME NEW a \in ProjectCalls, outcome'[a] = "skipped",
                          InitialCursor[KeyOf(a)] # 0
                   PROVE  cursor'[KeyOf(a)] >= a[2].id
        OBVIOUS
      <4>1. cursor[KeyOf(a)] >= a[2].id
        BY <3>2, <3>5
      <4>2. QED
        BY <3>3, <4>1, CallParts, <2>3, <3>1 DEF TypeOK, Commit
    <3>7. NoUpdateLost'
      <4> SUFFICES ASSUME NEW a \in ProjectCalls, outcome'[a] = "applied",
                          InitialCursor[KeyOf(a)] # 0
                   PROVE  /\ cursor'[KeyOf(a)] >= a[2].id
                          /\ \A x \in WritesOf(a) \cap AgentCells : cells'[x] >= a[2].id
        OBVIOUS
      <4>1. CASE a = call[w]
        <5>1. cursor'[KeyOf(a)] = a[2].id /\ a[2].id \in Nat
          BY <3>1, <3>4, <4>1 DEF Key, Event
        <5>2. \A x \in WritesOf(a) \cap AgentCells : cells'[x] = a[2].id
          BY <2>3, <4>1 DEF Commit, WriteInv, Event, Cells
        <5>3. QED
          BY <5>1, <5>2
      <4>2. CASE a # call[w]
        <5>1. outcome[a] = "applied" /\ a[2].id \in Nat /\ KeyOf(a) \in Known
          BY <3>2, <4>2, CallParts
        <5>2. cursor[KeyOf(a)] >= a[2].id /\ cursor[KeyOf(a)] \in Nat
              /\ cursor'[KeyOf(a)] \in Nat
          BY <5>1, <2>3, <3>1 DEF TypeOK, Commit
        <5>3. cursor'[KeyOf(a)] >= a[2].id
          BY <3>3, <5>1, <5>2
        <5>4. ASSUME NEW x \in WritesOf(a) \cap AgentCells PROVE cells'[x] >= a[2].id
          <6>1. CASE x \notin writes[w]
            BY <2>3, <5>1, <6>1 DEF Commit, Cells
          <6>2. CASE x \in writes[w]
            <7>1. KeyOf(a) = Key(w)
              BY <2>3, <3>1, <6>2, SharedCellSharedKey DEF WriteInv, Commit, Key
            <7>2. cells'[x] = Event(w).id
              BY <2>3, <6>2 DEF Commit, Cells
            <7>3. QED
              BY <3>1, <5>1, <5>2, <7>1, <7>2
          <6>3. QED
            BY <6>1, <6>2
        <5>5. QED
          BY <5>3, <5>4
      <4>3. QED
        BY <4>1, <4>2
    <3>8. QED
      BY <3>6, <3>7
  <2>4. ASSUME NEW w \in Workers, NEW c \in ProjectCalls, Begin(w, c) PROVE I'
    BY <2>1, <2>4 DEF Begin, TypeOK
  <2>5. ASSUME NEW w \in Workers,
               SelectForUpdate(w) \/ UpsertSubscription(w) \/ Handle(w)
        PROVE  I'
    BY <2>1, <2>5 DEF SelectForUpdate, UpsertSubscription, Handle
  <2>6. ASSUME NEW w \in Workers, HandlerError(w) \/ Fail(w) PROVE I'
    BY <2>1, <2>6 DEF HandlerError, Fail, Finish, TypeOK
  <2>7. CASE Crash
    BY <2>1, <2>7 DEF Crash, TypeOK
  <2>8. CASE UNCHANGED vars
    BY <2>1, <2>8 DEF vars
  <2>9. QED
    BY <2>2, <2>3, <2>4, <2>5, <2>6, <2>7, <2>8 DEF Next, Proceed
<1>3. QED
  BY <1>1, <1>2, TypeCorrect, LockingCorrect, KnownInvariant, CallInvariant,
     WriteInvariant, PTL DEF Spec

-----------------------------------------------------------------------------
(* What the read models show.                                              *)

(* A call that is over stays as it ended. *)
LEMMA OverStaysOver ==
  ASSUME TypeOK, CallInv, [Next]_vars, NEW a \in ProjectCalls, Applied(a)
  PROVE  Applied(a)'
<1> USE DEF TypeOK, CallInv, Applied
<1>1. ASSUME NEW w \in Workers, NEW c \in ProjectCalls, Begin(w, c) PROVE Applied(a)'
  BY <1>1 DEF Begin
<1>2. ASSUME NEW w \in Workers, NEW r \in Outcomes, pc[w] # "idle", Finish(w, r)
      PROVE  Applied(a)'
  BY <1>2 DEF Finish
<1>3. ASSUME NEW w \in Workers,
             SelectForUpdate(w) \/ UpsertSubscription(w) \/ Handle(w)
      PROVE  Applied(a)'
  BY <1>3 DEF SelectForUpdate, UpsertSubscription, Handle
<1>4. CASE Crash
  BY <1>4 DEF Crash
<1>5. CASE UNCHANGED vars
  BY <1>5 DEF vars
<1>6. QED
  BY <1>1, <1>2, <1>3, <1>4, <1>5
  DEF Next, Proceed, SkipOld, SelectReturns, HandlerError, Commit, Fail, Outcomes

(* Only a commit changes the read models. *)
LEMMA CommitWrites ==
  ASSUME [Next]_vars, cells' # cells
  PROVE  \E w \in Workers : Commit(w)
BY DEF Next, Proceed, Begin, SkipOld, SelectForUpdate, UpsertSubscription, Handle,
       HandlerError, Fail, Crash, vars

(* No cell shows a call that failed, was skipped or has not committed: a   *)
(* transaction leaves all of its writes or none (projector.go:45-84).      *)
THEOREM NothingUncommittedShows == Spec => []CellsExplained
<1> DEFINE J == TypeOK /\ CallInv /\ WriteInv
           Explained(x) == \E a \in ProjectCalls :
                             Applied(a) /\ a[2].id = cells[x] /\ x \in WritesOf(a)
<1>1. Init => CellsExplained
  BY DEF Init, CellsExplained
<1>2. J /\ CellsExplained /\ [Next]_vars => CellsExplained'
  <2> SUFFICES ASSUME J, CellsExplained, [Next]_vars, NEW x \in Cells, cells'[x] # 0
               PROVE  Explained(x)'
    BY DEF CellsExplained
  <2>1. CASE cells'[x] = cells[x]
    <3>1. PICK a \in ProjectCalls : Applied(a) /\ a[2].id = cells[x] /\ x \in WritesOf(a)
      BY <2>1 DEF CellsExplained
    <3>2. Applied(a)'
      BY <3>1, OverStaysOver
    <3>3. QED
      BY <2>1, <3>1, <3>2
  <2>2. CASE cells'[x] # cells[x]
    <3>1. PICK w \in Workers : Commit(w)
      BY <2>2, CommitWrites
    <3>2. x \in writes[w] /\ cells'[x] = call[w][2].id
      BY <2>2, <3>1 DEF Commit, Event, TypeOK
    <3>3. call[w] \in ProjectCalls /\ x \in WritesOf(call[w])
      BY <3>1, <3>2 DEF Commit, TypeOK, WriteInv
    <3>4. PICK a \in ProjectCalls : a = call[w]
      BY <3>3
    <3>5. Applied(a)'
      BY <3>1, <3>4 DEF Commit, Finish, Applied, TypeOK
    <3>6. QED
      BY <3>2, <3>3, <3>4, <3>5
  <2>3. QED
    BY <2>1, <2>2
<1>3. QED
  BY <1>1, <1>2, TypeCorrect, CallInvariant, WriteInvariant, PTL DEF Spec

(* A call that writes a row of the clusters table is of that projector.    *)
LEMMA ClusterCellsOfClusters ==
  ASSUME NEW a \in ProjectCalls, NEW x \in ClusterCells, x \in WritesOf(a)
  PROVE  a[1] = "clusters"
<1>1. x[1] = "clusters"
  BY DEF ClusterCells
<1>2. a[1] \in {"clusters", "hosts", "host_telemetry", "sles_subscriptions", "sapsystems"}
  BY CallParts DEF ProjectorIDs, Handlers
<1>3. QED
  BY <1>1, <1>2 DEF WritesOf, HostsWrites, HostTelemetryWrites, SlesWrites, SAPSystemsWrites

(* The row that the nodes of a cluster share keeps the order of the events *)
(* of each of them, for known subscriptions (clusters_projector.go:45-47). *)
THEOREM ClusterRowKeepsOrder == Spec => ClusterRowOrderedPerAgent
<1> DEFINE J == TypeOK /\ ReadStaysCurrent /\ KnownInv /\ WriteInv /\ CellsExplained
                /\ NoUpdateLost
           Step == \A c \in ClusterCells, e, f \in Events :
                     /\ cells[c] = e.id /\ cells'[c] = f.id /\ f.id < e.id
                     /\ InitialCursor[<<"clusters", f.agent>>] # 0
                     => e.agent # f.agent
<1>1. J /\ [Next]_vars => [Step]_vars
  <2> SUFFICES ASSUME J, [Next]_vars,
                      NEW x \in ClusterCells, NEW e \in Events, NEW f \in Events,
                      cells[x] = e.id, cells'[x] = f.id, f.id < e.id,
                      InitialCursor[<<"clusters", f.agent>>] # 0,
                      e.agent = f.agent
               PROVE  FALSE
    OBVIOUS
  <2>1. /\ e.id \in Nat \ {0} /\ f.id \in Nat \ {0} /\ f.agent \in Agents
        /\ \A a \in ProjectCalls : (a[2].id = e.id => a[2] = e) /\ (a[2].id = f.id => a[2] = f)
    BY EventsAssumption, CallParts DEF EventType
  <2>2. x \in Cells
    BY DEF Cells
  <2>3. PICK a \in ProjectCalls : Applied(a) /\ a[2].id = e.id /\ x \in WritesOf(a)
    BY <2>1, <2>2 DEF CellsExplained
  <2>4. PICK w \in Workers : Commit(w)
    BY <2>1, CommitWrites
  <2>5. x \in writes[w] /\ Event(w).id = f.id
    BY <2>1, <2>2, <2>4 DEF Commit
  <2>6. call[w] \in ProjectCalls /\ x \in WritesOf(call[w])
    BY <2>4, <2>5 DEF Commit, TypeOK, WriteInv
  <2>7. a[1] = "clusters" /\ call[w][1] = "clusters"
    BY <2>3, <2>6, ClusterCellsOfClusters
  <2>8. a[2] = e /\ call[w][2] = f
    BY <2>1, <2>3, <2>5, <2>6 DEF Event
  <2>9. KeyOf(a) = <<"clusters", f.agent>> /\ Key(w) = <<"clusters", f.agent>>
    BY <2>7, <2>8 DEF KeyOf, Key
  <2>10. cursor[Key(w)] >= e.id
    BY <2>3, <2>9 DEF NoUpdateLost
  <2>11. cursor[Key(w)] < f.id /\ cursor[Key(w)] \in Nat
    BY <2>4, <2>5, <2>9, CommitIsNewer DEF Commit, Known, TypeOK
  <2>12. QED
    BY <2>1, <2>10, <2>11
<1>2. Spec => []J
  BY TypeCorrect, LockingCorrect, KnownInvariant, WriteInvariant, NothingUncommittedShows,
     NothingLost, PTL
<1>3. QED
  BY <1>1, <1>2, PTL DEF Spec, ClusterRowOrderedPerAgent

-----------------------------------------------------------------------------
(* The refinement.                                                         *)

AbstractOutcome ==
  [c \in ProjectCalls |-> IF outcome[c] = "running" THEN "pending" ELSE outcome[c]]

(* The static operators mean the same in both specifications. *)
LEMMA SameStatics ==
  /\ Abstract!Calls(Projectors) = ProjectCalls
  /\ Abstract!Cells = Cells
  /\ \A c : /\ Abstract!KeyOf(c) = KeyOf(c)
            /\ Abstract!WritesOf(c) = WritesOf(c)
            /\ Abstract!HandlerFails(c) <=> HandlerFails(c)
<1>1. Abstract!Calls(Projectors) = ProjectCalls
  BY DEF ProjectCalls, Calls, Abstract!Calls, Handlers, Abstract!Handlers
<1>2. Abstract!Cells = Cells
  BY DEF Cells, ClusterCells, AgentCells, Abstract!Cells, Abstract!ClusterCells,
         Abstract!AgentCells
<1>3. ASSUME NEW c PROVE Abstract!KeyOf(c) = KeyOf(c)
  BY DEF KeyOf, Abstract!KeyOf
<1>4. ASSUME NEW c PROVE Abstract!WritesOf(c) = WritesOf(c)
  BY DEF WritesOf, ClustersWrites, HostsWrites, HostTelemetryWrites, SlesWrites,
         SAPSystemsWrites, Abstract!WritesOf, Abstract!ClustersWrites,
         Abstract!HostsWrites, Abstract!HostTelemetryWrites, Abstract!SlesWrites,
         Abstract!SAPSystemsWrites
<1>5. ASSUME NEW c PROVE Abstract!HandlerFails(c) <=> HandlerFails(c)
  BY DEF HandlerFails, Abstract!HandlerFails
<1>6. QED
  BY <1>1, <1>2, <1>3, <1>4, <1>5

(* Concurrent transactions over the subscriptions and the read models      *)
(* behave as if each call took effect at one instant, in the order of the  *)
(* commits (projector.go:39-41), for known subscriptions in the order of   *)
(* the events.                                                             *)
THEOREM Refinement == Spec => ImplementsProjection
<1> DEFINE J == TypeOK /\ RowLockExclusive /\ ReadStaysCurrent /\ KnownInv /\ CallInv
                /\ WriteInv
<1>1. Init => Abstract!Init
  BY SameStatics DEF Init, Abstract!Init
<1>2. J /\ J' /\ [Next]_vars => [Abstract!Next]_(Abstract!vars)
  <2> SUFFICES ASSUME J, J', [Next]_vars PROVE [Abstract!Next]_(Abstract!vars)
    OBVIOUS
  <2>0. TypeOK /\ TypeOK'
    OBVIOUS
  <2>1. ASSUME UNCHANGED <<cursor, cells>>, AbstractOutcome' = AbstractOutcome
        PROVE  UNCHANGED Abstract!vars
    BY <2>1 DEF Abstract!vars, AbstractOutcome
  <2>2. ASSUME NEW w \in Workers, NEW c \in ProjectCalls, Begin(w, c)
        PROVE  UNCHANGED Abstract!vars
    BY <2>1, <2>2 DEF Begin, AbstractOutcome, TypeOK
  <2>3. ASSUME NEW w \in Workers,
               SelectForUpdate(w) \/ UpsertSubscription(w) \/ Handle(w)
        PROVE  UNCHANGED Abstract!vars
    BY <2>1, <2>3 DEF SelectForUpdate, UpsertSubscription, Handle, AbstractOutcome
  <2>4. ASSUME NEW w \in Workers, NEW c \in ProjectCalls, c = call[w],
               NEW r \in {"skipped", "applied", "failed"},
               pc[w] # "idle", Finish(w, r)
        PROVE  /\ AbstractOutcome[c] = "pending"
               /\ AbstractOutcome' = [AbstractOutcome EXCEPT ![c] = r]
    <3>1. outcome[c] = "running"
      BY <2>4 DEF CallInv
    <3>2. QED
      BY <2>4, <3>1 DEF AbstractOutcome, Finish, TypeOK
  <2>5. ASSUME NEW w \in Workers, SkipOld(w) PROVE Abstract!Next
    <3>1. PICK c \in ProjectCalls : c = call[w]
      BY <2>5 DEF SkipOld, SelectReturns, TypeOK
    <3>2. /\ AbstractOutcome[c] = "pending"
          /\ AbstractOutcome' = [AbstractOutcome EXCEPT ![c] = "skipped"]
      BY <2>4, <2>5, <3>1 DEF SkipOld, SelectReturns
    <3>3. Abstract!Skip(c)
      BY <2>5, <3>1, <3>2, SameStatics
      DEF SkipOld, Key, Event, Abstract!Skip, Abstract!End, AbstractOutcome
    <3>4. QED
      BY <3>3, SameStatics DEF Abstract!Next
  <2>6. ASSUME NEW w \in Workers, Commit(w) PROVE Abstract!Next
    <3>1. PICK c \in ProjectCalls : c = call[w]
      BY <2>6 DEF Commit, TypeOK
    <3>2. /\ AbstractOutcome[c] = "pending"
          /\ AbstractOutcome' = [AbstractOutcome EXCEPT ![c] = "applied"]
      BY <2>4, <2>6, <3>1 DEF Commit
    <3>3. Abstract!Known(KeyOf(c)) => cursor[KeyOf(c)] < c[2].id
      BY <2>6, <3>1, CommitIsNewer DEF Commit, Key, Event, Known, Abstract!Known
    <3>4. ~HandlerFails(c) /\ writes[w] = WritesOf(c)
      BY <2>6, <3>1 DEF Commit, WriteInv
    <3>5. Abstract!Apply(c)
      BY <2>6, <3>1, <3>2, <3>3, <3>4, SameStatics
      DEF Commit, Key, Event, Abstract!Apply, Abstract!End, AbstractOutcome
    <3>6. QED
      BY <3>5, SameStatics DEF Abstract!Next
  (* Calls that fail together, one or all the running ones.               *)
  <2>7. ASSUME UNCHANGED <<cursor, cells>>,
               \A c \in ProjectCalls :
                 \/ outcome'[c] = outcome[c]
                 \/ outcome[c] = "running" /\ outcome'[c] = "failed"
        PROVE  Abstract!Fail
    <3>1. AbstractOutcome' \in [ProjectCalls -> Abstract!Outcomes]
      BY <2>0 DEF TypeOK, AbstractOutcome, Outcomes, Abstract!Outcomes
    <3>2. \A c \in ProjectCalls :
            \/ AbstractOutcome'[c] = AbstractOutcome[c]
            \/ AbstractOutcome[c] = "pending" /\ AbstractOutcome'[c] = "failed"
      BY <2>7 DEF AbstractOutcome
    <3>3. QED
      BY <2>7, <3>1, <3>2, SameStatics DEF Abstract!Fail, AbstractOutcome
  <2>8. ASSUME NEW w \in Workers, HandlerError(w) \/ Fail(w) PROVE Abstract!Next
    <3>1. pc[w] # "idle" /\ Finish(w, "failed") /\ UNCHANGED <<cursor, cells>>
      BY <2>8 DEF HandlerError, Fail
    <3>2. call[w] \in ProjectCalls /\ outcome[call[w]] = "running"
      BY <3>1 DEF TypeOK, CallInv
    <3>3. \A c \in ProjectCalls :
            \/ outcome'[c] = outcome[c]
            \/ outcome[c] = "running" /\ outcome'[c] = "failed"
      BY <3>1, <3>2 DEF Finish, TypeOK
    <3>4. Abstract!Fail
      BY <2>7, <3>1, <3>3
    <3>5. QED
      BY <3>4 DEF Abstract!Next
  <2>9. CASE Crash
    <3>1. \A c \in ProjectCalls :
            \/ outcome'[c] = outcome[c]
            \/ outcome[c] = "running" /\ outcome'[c] = "failed"
      BY <2>9 DEF Crash, TypeOK
    <3>2. UNCHANGED <<cursor, cells>>
      BY <2>9 DEF Crash
    <3>3. Abstract!Fail
      BY <2>7, <3>1, <3>2
    <3>4. QED
      BY <3>3 DEF Abstract!Next
  <2>10. CASE UNCHANGED vars
    BY <2>1, <2>10 DEF vars, AbstractOutcome
  <2>11. QED
    BY <2>2, <2>3, <2>5, <2>6, <2>8, <2>9, <2>10 DEF Next, Proceed
<1>3. QED
  BY <1>1, <1>2, TypeCorrect, LockingCorrect, KnownInvariant, CallInvariant,
     WriteInvariant, PTL DEF Spec, ImplementsProjection, Abstract!Spec

=============================================================================
