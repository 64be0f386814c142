------------------------------ MODULE Telemetry -----------------------------
(***************************************************************************)
(* The identifier of an installation and the telemetry sent under it:      *)
(* services/settings.go, the start of the web process (web/app.go) and     *)
(* web/telemetry.  A web process finds or creates the identifier once,     *)
(* when it starts; its engine then reads what the projectors know of the   *)
(* hosts and posts it, at once and every day.  More than one web process   *)
(* may run on a database, as in an update that starts the new one first.   *)
(***************************************************************************)
EXTENDS Naturals

CONSTANTS
  Processes,  \* web processes
  Ids,        \* what uuid.New may return, in the order of the primary key
  Hosts,      \* hosts that report telemetry
  Starts,     \* bound on the starts of processes
  Faults      \* bound on queries, requests and processes that fail

ASSUME IdsAssumption == Ids \subseteq Nat

VARIABLES
  ids,      \* the settings table
  rows,     \* the host_telemetry table
  proc,     \* each process: where it is, its identifier and what it has read
  stopping, \* the processes whose context is done
  received, \* what the collection service got: an identifier and a host
  starts, telemetryFaults,
  excused     \* history: a lookup failed, or two processes were to create an identifier

telemetryVars == <<ids, rows, proc, stopping, received, starts, telemetryFaults, excused>>

Down == [pc |-> "down", id |-> 0, seen |-> {}, report |-> {}]

TelemetryInit ==
  /\ ids = {} /\ rows = {} /\ proc = [p \in Processes |-> Down]
  /\ stopping = {} /\ received = {} /\ starts = 0 /\ telemetryFaults = 0 /\ excused = FALSE

At(p, pc) == proc[p].pc = pc
Goto(p, pc) == proc' = [proc EXCEPT ![p].pc = pc]
NoFault == telemetryFaults' = telemetryFaults
TelemetryFault == telemetryFaults < Faults /\ telemetryFaults' = telemetryFaults + 1

Creating == {p \in Processes : At(p, "creating")}

-----------------------------------------------------------------------------
(* NewApp: the identifier.                                                 *)

NewApp(p) ==
  /\ At(p, "down") /\ starts < Starts
  /\ starts' = starts + 1 /\ Goto(p, "first")
  /\ UNCHANGED <<ids, rows, stopping, received, telemetryFaults, excused>>

(* First orders by the primary key.  An error of it is not looked at: it   *)
(* leaves the settings empty, as a table without rows does.                *)
FirstRow_Unordered(table) == table
FirstRow(table) == {i \in table : \A j \in table : i <= j}

First_NeverFinds(p) ==
  /\ At(p, "first") /\ NoFault /\ Goto(p, "creating")
  /\ excused' = (excused \/ (ids = {} /\ Creating # {}))
  /\ UNCHANGED <<ids, rows, stopping, received, starts>>

First(p) ==
  /\ At(p, "first")
  /\ \/ /\ NoFault /\ ids # {}
        /\ \E id \in FirstRow(ids) : proc' = [proc EXCEPT ![p] = [Down EXCEPT !.pc = "tick", !.id = id, !.seen = ids]]
        /\ excused' = excused
     \/ NoFault /\ ids = {} /\ Goto(p, "creating") /\ excused' = (excused \/ Creating # {})
     \/ TelemetryFault /\ Goto(p, "creating") /\ excused' = TRUE
  /\ UNCHANGED <<ids, rows, stopping, received, starts>>

(* If the row cannot be created there is no application.                   *)
Create(p) ==
  /\ At(p, "creating")
  /\ \/ NoFault /\ \E id \in Ids \ ids :
          /\ ids' = ids \cup {id}
          /\ proc' = [proc EXCEPT ![p] = [Down EXCEPT !.pc = "tick", !.id = id]]
          /\ stopping' = stopping
     \/ TelemetryFault /\ proc' = [proc EXCEPT ![p] = Down] /\ ids' = ids /\ stopping' = stopping \ {p}
  /\ UNCHANGED <<rows, received, starts, excused>>

-----------------------------------------------------------------------------
(* The engine: Repeat, whose first tick is at once.                        *)

(* An extractor that fails, or finds no host, is left out of this tick.    *)
Extract_GivesUp(p) ==
  /\ At(p, "tick")
  /\ \/ NoFault /\ Goto(p, IF rows = {} THEN "ended" ELSE "post")
     \/ TelemetryFault /\ Goto(p, "ended")
  /\ UNCHANGED <<ids, rows, stopping, received, starts, excused>>

Extract(p) ==
  /\ At(p, "tick")
  /\ \/ NoFault /\ proc' = [proc EXCEPT ![p].pc = IF rows = {} THEN "wait" ELSE "post", ![p].report = rows]
     \/ TelemetryFault /\ Goto(p, "wait")
  /\ UNCHANGED <<ids, rows, stopping, received, starts, excused>>

(* The post may be lost, or its answer, or be refused; the error is logged *)
(* and the report is not sent again before the next tick.  The client has  *)
(* no timeout: it waits for as long as there is no answer.                 *)
Publish(p) ==
  /\ At(p, "post")
  /\ \/ NoFault /\ Goto(p, "wait") /\ received' = received \cup ({proc[p].id} \X proc[p].report)
     \/ TelemetryFault /\ Goto(p, "wait")
        /\ received' \in {received, received \cup ({proc[p].id} \X proc[p].report)}
     \/ TelemetryFault /\ Goto(p, "hung") /\ received' = received
  /\ UNCHANGED <<ids, rows, stopping, starts, excused>>

NextDay(p) ==   \* a day later
  /\ At(p, "wait") /\ Goto(p, "tick")
  /\ UNCHANGED <<ids, rows, stopping, received, starts, telemetryFaults, excused>>

Stop(p) ==
  /\ ~At(p, "down")
  /\ stopping' = stopping \cup {p}
  /\ UNCHANGED <<ids, rows, proc, received, starts, telemetryFaults, excused>>

(* The group waits for the engine, which looks at the context between two  *)
(* ticks; then the process is gone.                                        *)
Done_Never(p) == FALSE /\ UNCHANGED telemetryVars
Done(p) ==
  /\ At(p, "wait") /\ p \in stopping
  /\ proc' = [proc EXCEPT ![p] = Down] /\ stopping' = stopping \ {p}
  /\ UNCHANGED <<ids, rows, received, starts, telemetryFaults, excused>>

ProcessDies(p) ==
  /\ ~At(p, "down") /\ TelemetryFault
  /\ proc' = [proc EXCEPT ![p] = Down] /\ stopping' = stopping \ {p}
  /\ UNCHANGED <<ids, rows, received, starts, excused>>

(* The telemetry projector writes the row of a host.                       *)
Project ==
  /\ \E h \in Hosts \ rows : rows' = rows \cup {h}
  /\ UNCHANGED <<ids, proc, stopping, received, starts, telemetryFaults, excused>>

TelemetryNext ==
  \/ Project
  \/ \E p \in Processes : NewApp(p) \/ First(p) \/ Create(p) \/ Extract(p) \/ Publish(p)
                            \/ NextDay(p) \/ Stop(p) \/ Done(p) \/ ProcessDies(p)

(* A process that runs goes on, a post that does not hang ends, and a      *)
(* select with both cases ready takes each of them sometimes.              *)
Fairness ==
  \A p \in Processes :
    /\ WF_telemetryVars(First(p) \/ Create(p) \/ Extract(p) \/ Publish(p))
    /\ WF_telemetryVars(NextDay(p)) /\ SF_telemetryVars(Done(p))

TelemetrySpec == TelemetryInit /\ [][TelemetryNext]_telemetryVars /\ Fairness

-----------------------------------------------------------------------------
(* Properties.                                                             *)

(* services/settings.go:23-37: there is a second identifier only after a   *)
(* lookup that failed, or when two processes were between looking for one  *)
(* and creating it.                                                        *)
SecondIdentifierIsExplained == 
  (\E i, j \in ids : i # j) => excused

(* Even then nothing is reported under an identifier that is not in the    *)
(* table, and processes that found the same identifiers took the same one, *)
(* so that those started after the last was created agree.                 *)
IdentifiersAgree ==
  /\ \A r \in received : r[1] \in ids
  /\ \A p, q \in Processes :
       proc[p].seen # {} /\ proc[p].seen = proc[q].seen => proc[p].id = proc[q].id

(* telemetry/engine.go:46-71: what a tick could not read or send is sent   *)
(* by a later one, as long as a process runs that no post keeps waiting.   *)
EveryHostIsReported ==
  \A h \in Hosts :
    (h \in rows) ~> \/ \E id \in Ids : <<id, h>> \in received
                     \/ \A p \in Processes : proc[p].pc \in {"down", "hung"}

(* web/app.go:266-285: a process that is told to stop does, unless the     *)
(* collection service never answers.                                       *)
StopEnds == \A p \in Processes : (p \in stopping) ~> (p \notin stopping \/ At(p, "hung"))

=============================================================================
