------------------------------ MODULE Projector ------------------------------
(***************************************************************************)
(* projector.Project (web/datapipeline/projector.go) as the worker         *)
(* goroutines run it: one PostgreSQL transaction per call, at the READ     *)
(* COMMITTED isolation gorm leaves it at.                                  *)
(*                                                                         *)
(*   select   SELECT ... FOR UPDATE of the (projector, agent) row          *)
(*   upsert   INSERT INTO subscriptions ... ON CONFLICT DO UPDATE          *)
(*   handler  the registered handler, in the same transaction              *)
(*   commit   COMMIT                                                       *)
(*                                                                         *)
(* What PostgreSQL contributes is modelled from how the code relies on it. *)
(* A SELECT FOR UPDATE of a committed row waits while another transaction  *)
(* has it locked and then reads the new version.  It finds nothing, and    *)
(* locks nothing, when no committed row exists, even if another            *)
(* transaction is inserting it.  The INSERT waits for any transaction that *)
(* locked or inserted the same key, and then updates whatever row it finds.*)
(***************************************************************************)
EXTENDS ReadModels, FiniteSets

CONSTANTS Projectors,     (* the projectors under study, of ProjectorIDs     *)
          Workers,        (* the goroutines that call Project                *)
          InitialCursor   (* the subscriptions table the process starts with *)

ASSUME ProjectorAssumption ==
  /\ Projectors \subseteq ProjectorIDs
  /\ InitialCursor \in [SubscriptionKeys -> Nat]

ProjectCalls == Calls(Projectors)
NoCall == <<>>

VARIABLES
  cursor,   (* committed subscriptions: last_projected_event_id, 0 = no row  *)
  cells,    (* committed read models: id of the event each cell shows        *)
  outcome,  (* how far each Project call is                                  *)
  pc,       (* next statement of each worker's transaction                   *)
  call,     (* the call each worker runs, as <<projector, event>>            *)
  found,    (* whether its SELECT found the subscription row                 *)
  writes    (* the cells its handler has written and not committed           *)

vars == <<cursor, cells, outcome, pc, call, found, writes>>

Outcomes == {"pending", "running", "skipped", "applied", "failed"}
Statements == {"idle", "select", "upsert", "handler", "commit"}

Event(w)      == call[w][2]
Key(w)        == KeyOf(call[w])

(* The transaction of w has the subscription row of its key locked: the    *)
(* SELECT found a row, or the INSERT has been executed.                    *)
Locks(w) ==
  \/ pc[w] = "upsert" /\ found[w]
  \/ pc[w] \in {"handler", "commit"}

LockedByOther(w, k) ==
  \E v \in Workers \ {w} : Locks(v) /\ Key(v) = k

WrittenByOther(w, cs) ==
  \E v \in Workers \ {w} : writes[v] \cap cs # {}

-----------------------------------------------------------------------------

Init ==
  /\ cursor = InitialCursor
  /\ cells = [c \in Cells |-> 0]
  /\ outcome = [c \in ProjectCalls |-> "pending"]
  /\ pc = [w \in Workers |-> "idle"]
  /\ call = [w \in Workers |-> NoCall]
  /\ found = [w \in Workers |-> FALSE]
  /\ writes = [w \in Workers |-> {}]

(* Operators named X_... are X with a plausible mistake in it.  Nothing    *)
(* uses them: they are there to see that the properties notice.            *)

(* The transaction of w is over and everything it locked is released.      *)
Finish(w, result) ==
  /\ pc' = [pc EXCEPT ![w] = "idle"]
  /\ found' = [found EXCEPT ![w] = FALSE]
  /\ writes' = [writes EXCEPT ![w] = {}]
  /\ call' = [call EXCEPT ![w] = NoCall]
  /\ outcome' = [outcome EXCEPT ![call[w]] = result]

(* Project finds a handler for the type of the event and opens a           *)
(* transaction.                                                            *)
Begin(w, c) ==
  /\ pc[w] = "idle"
  /\ outcome[c] = "pending"
  /\ pc' = [pc EXCEPT ![w] = "select"]
  /\ call' = [call EXCEPT ![w] = c]
  /\ outcome' = [outcome EXCEPT ![c] = "running"]
  /\ UNCHANGED <<cursor, cells, found, writes>>

(* A SELECT without FOR UPDATE. *)
SelectReturns_NoForUpdate(w) == pc[w] = "select"

(* A committed row must be free; an absent one does not make SELECT wait.  *)
SelectReturns(w) ==
  /\ pc[w] = "select"
  /\ cursor[Key(w)] # 0 => ~LockedByOther(w, Key(w))

(* The event right after the last projected one counts as old. *)
SkipOld_OffByOne(w) ==
  /\ SelectReturns(w)
  /\ cursor[Key(w)] + 1 >= Event(w).id
  /\ Finish(w, "skipped")
  /\ UNCHANGED <<cursor, cells>>

SkipOld(w) ==
  /\ SelectReturns(w)
  /\ cursor[Key(w)] >= Event(w).id
  /\ Finish(w, "skipped")
  /\ UNCHANGED <<cursor, cells>>

SelectForUpdate(w) ==
  /\ SelectReturns(w)
  /\ cursor[Key(w)] < Event(w).id
  /\ pc' = [pc EXCEPT ![w] = "upsert"]
  /\ found' = [found EXCEPT ![w] = cursor[Key(w)] # 0]
  /\ UNCHANGED <<cursor, cells, outcome, call, writes>>

(* The INSERT runs on a connection of its own and waits for the lock of    *)
(* its own transaction.                                                    *)
UpsertSubscription_SelfBlocking(w) ==
  /\ pc[w] = "upsert"
  /\ \A v \in Workers : ~(Locks(v) /\ Key(v) = Key(w))
  /\ pc' = [pc EXCEPT ![w] = "handler"]
  /\ UNCHANGED <<cursor, cells, outcome, call, found, writes>>

UpsertSubscription(w) ==
  /\ pc[w] = "upsert"
  /\ ~LockedByOther(w, Key(w))
  /\ pc' = [pc EXCEPT ![w] = "handler"]
  /\ UNCHANGED <<cursor, cells, outcome, call, found, writes>>

(* The handler writes through the pool instead of its transaction. *)
Handle_OutsideTx(w) ==
  /\ pc[w] = "handler"
  /\ ~HandlerFails(call[w])
  /\ pc' = [pc EXCEPT ![w] = "commit"]
  /\ cells' = [c \in Cells |->
                 IF c \in WritesOf(call[w]) THEN Event(w).id ELSE cells[c]]
  /\ UNCHANGED <<cursor, outcome, call, found, writes>>

(* The handler's upserts wait for rows another transaction has written.    *)
Handle(w) ==
  /\ pc[w] = "handler"
  /\ ~HandlerFails(call[w])
  /\ ~WrittenByOther(w, WritesOf(call[w]))
  /\ pc' = [pc EXCEPT ![w] = "commit"]
  /\ writes' = [writes EXCEPT ![w] = WritesOf(call[w])]
  /\ UNCHANGED <<cursor, cells, outcome, call, found>>

HandlerError(w) ==
  /\ pc[w] = "handler"
  /\ HandlerFails(call[w])
  /\ Finish(w, "failed")
  /\ UNCHANGED <<cursor, cells>>

Commit(w) ==
  /\ pc[w] = "commit"
  /\ cursor' = [cursor EXCEPT ![Key(w)] = Event(w).id]
  /\ cells' = [c \in Cells |-> IF c \in writes[w] THEN Event(w).id ELSE cells[c]]
  /\ Finish(w, "applied")

(* A statement fails, or the connection is lost: the transaction is rolled *)
(* back and Project returns an error nobody reads.                         *)
Fail(w) ==
  /\ pc[w] # "idle"
  /\ Finish(w, "failed")
  /\ UNCHANGED <<cursor, cells>>

(* The process dies: PostgreSQL rolls back every open transaction.         *)
Crash ==
  /\ \E w \in Workers : pc[w] # "idle"
  /\ pc' = [w \in Workers |-> "idle"]
  /\ call' = [w \in Workers |-> NoCall]
  /\ found' = [w \in Workers |-> FALSE]
  /\ writes' = [w \in Workers |-> {}]
  /\ outcome' = [c \in ProjectCalls |->
                   IF outcome[c] = "running" THEN "failed" ELSE outcome[c]]
  /\ UNCHANGED <<cursor, cells>>

(* The steps a call takes once begun, other than failures from outside.    *)
Proceed(w) ==
  \/ SkipOld(w)
  \/ SelectForUpdate(w)
  \/ UpsertSubscription(w)
  \/ Handle(w)
  \/ HandlerError(w)
  \/ Commit(w)

Next ==
  \/ \E w \in Workers, c \in ProjectCalls : Begin(w, c)
  \/ \E w \in Workers : Proceed(w) \/ Fail(w)
  \/ Crash

Spec == Init /\ [][Next]_vars

(* Goroutines are scheduled and PostgreSQL grants a free lock to a waiter. *)
FairSpec == Spec /\ \A w \in Workers : WF_vars(Proceed(w))

-----------------------------------------------------------------------------
(* Properties.                                                             *)

TypeOK ==
  /\ cursor \in [SubscriptionKeys -> Nat]
  /\ cells \in [Cells -> Nat]
  /\ outcome \in [ProjectCalls -> Outcomes]
  /\ pc \in [Workers -> Statements]
  /\ call \in [Workers -> ProjectCalls \cup {NoCall}]
  /\ found \in [Workers -> BOOLEAN]
  /\ writes \in [Workers -> SUBSET Cells]
  /\ \A w \in Workers : pc[w] # "idle" => call[w] \in ProjectCalls

Applied(c) == outcome[c] = "applied"

(* Two transactions never hold the same subscription row, so the handlers  *)
(* of one projector never run at the same time for one agent               *)
(* (projector.go:39-41 and TestProjector_Concurrency).                     *)
RowLockExclusive ==
  \A v, w \in Workers :
    v # w /\ Locks(v) /\ Locks(w) => Key(v) # Key(w)

(* The comparison of projector.go:56 still holds when its row is           *)
(* overwritten: between the SELECT that found the row and the COMMIT       *)
(* nobody moves the cursor to the event of the transaction or past it.     *)
ReadStaysCurrent ==
  \A w \in Workers :
    pc[w] \in {"upsert", "handler", "commit"} /\ found[w]
      => cursor[Key(w)] < Event(w).id

(* Whatever a read model shows was committed with the call that produced   *)
(* it: a failed, skipped or unfinished call leaves no cell behind.         *)
CellsExplained ==
  \A c \in Cells :
    cells[c] # 0 =>
      \E a \in ProjectCalls :
        Applied(a) /\ a[2].id = cells[c] /\ c \in WritesOf(a)

(* No applied event is undone by an older one of the same agent: neither   *)
(* the cursor nor a cell the agent owns shows less than was applied, once  *)
(* the projector has a subscription for the agent.                         *)
NoUpdateLost ==
  \A a \in ProjectCalls :
    Applied(a) /\ InitialCursor[KeyOf(a)] # 0 =>
      /\ cursor[KeyOf(a)] >= a[2].id
      /\ \A c \in WritesOf(a) \cap AgentCells : cells[c] >= a[2].id

(* An event is dropped as old (projector.go:56-63) only when the projector *)
(* has already moved to it or past it for that agent.                      *)
SkippedIsSuperseded ==
  \A a \in ProjectCalls :
    outcome[a] = "skipped" /\ InitialCursor[KeyOf(a)] # 0 => cursor[KeyOf(a)] >= a[2].id

(* A step never moves a cursor backwards.                                  *)
CursorNeverRegresses ==
  [][\A k \in SubscriptionKeys : cursor'[k] >= cursor[k]]_vars

(* A cursor moves backwards only by the commit of a transaction whose      *)
(* SELECT found no row to lock.                                            *)
FirstContact(k) ==
  \E w \in Workers : pc[w] = "commit" /\ ~found[w] /\ Key(w) = k

CursorRegressesOnlyOnFirstContact ==
  [][\A k \in SubscriptionKeys : cursor'[k] >= cursor[k] \/ FirstContact(k)]_vars

(* A cluster row is written by the agents of all its nodes, each ordered   *)
(* by a cursor of its own: an event of an agent the projector has a        *)
(* subscription for takes it back to an older event only when the newer    *)
(* one it replaces is of another agent (clusters_projector.go:45-47).      *)
ClusterRowOrderedPerAgent ==
  [][\A c \in ClusterCells, e, f \in Events :
       /\ cells[c] = e.id /\ cells'[c] = f.id /\ f.id < e.id
       /\ InitialCursor[<<"clusters", f.agent>>] # 0
       => e.agent # f.agent]_vars

(* Every call that has begun ends: no two transactions wait for each       *)
(* other's rows.                                                           *)
EveryCallEnds ==
  \A c \in ProjectCalls : outcome[c] = "running" ~> outcome[c] # "running"

(* Each call takes effect at its COMMIT, as the abstract specification     *)
(* says; until then it is pending.                                         *)
Abstract ==
  INSTANCE Projection WITH
    outcome <- [c \in ProjectCalls |->
                  IF outcome[c] = "running" THEN "pending" ELSE outcome[c]]

ImplementsProjection == Abstract!Spec

=============================================================================
