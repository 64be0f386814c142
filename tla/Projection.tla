----------------------------- MODULE Projection -----------------------------
(***************************************************************************)
(* What the projectors promise: each Project call takes effect at one      *)
(* instant.  An event newer than the cursor of its projector and agent     *)
(* moves the cursor and overwrites its cells together; an older one is     *)
(* skipped; an event whose handler or transaction fails leaves no trace.   *)
(* Nothing is promised of the order of an agent's events as long as its    *)
(* subscription is new: there is no row that could be locked.              *)
(* This is the linearizability the comment of projector.Project names      *)
(* (web/datapipeline/projector.go:39-41).                                  *)
(***************************************************************************)
EXTENDS ReadModels

CONSTANTS Projectors,    (* the projectors under study, of ProjectorIDs     *)
          InitialCursor  (* the subscriptions table the process starts with *)

VARIABLES cursor,  (* last_projected_event_id of each key, 0 without a row  *)
          cells,   (* id of the event each read-model cell shows, 0 if none *)
          outcome  (* how each Project call ended                           *)

vars == <<cursor, cells, outcome>>

Outcomes == {"pending", "skipped", "applied", "failed"}

Init ==
  /\ cursor = InitialCursor
  /\ cells = [c \in Cells |-> 0]
  /\ outcome = [call \in Calls(Projectors) |-> "pending"]

End(c, result) ==
  /\ outcome[c] = "pending"
  /\ outcome' = [outcome EXCEPT ![c] = result]

Skip(c) ==
  /\ cursor[KeyOf(c)] >= c[2].id
  /\ End(c, "skipped")
  /\ UNCHANGED <<cursor, cells>>

Known(key) == InitialCursor[key] # 0

Apply(c) ==
  /\ Known(KeyOf(c)) => cursor[KeyOf(c)] < c[2].id
  /\ ~HandlerFails(c)
  /\ End(c, "applied")
  /\ cursor' = [cursor EXCEPT ![KeyOf(c)] = c[2].id]
  /\ cells' = [x \in Cells |-> IF x \in WritesOf(c) THEN c[2].id ELSE cells[x]]

(* Handler errors, and failures of the database or of the process: any     *)
(* number of calls fail together when the process dies.                    *)
Fail ==
  /\ outcome' \in [Calls(Projectors) -> Outcomes]
  /\ \A call \in Calls(Projectors) :
       \/ outcome'[call] = outcome[call]
       \/ outcome[call] = "pending" /\ outcome'[call] = "failed"
  /\ UNCHANGED <<cursor, cells>>

Next ==
  \/ \E c \in Calls(Projectors) : Skip(c) \/ Apply(c)
  \/ Fail

Spec == Init /\ [][Next]_vars

=============================================================================
