------------------------------ MODULE Heartbeat ------------------------------
(***************************************************************************)
(* The heartbeat of a host: the agent's loop (agent/agent.go, Repeat of    *)
(* internal/utils.go), its POST to the collector                           *)
(* (agent/discovery/collector/client.go), the upsert of the heartbeat row  *)
(* and the health the web application computes from its age                *)
(* (web/services/hosts_next.go).                                           *)
(*                                                                         *)
(* Time is discrete and every duration is an age, which stops counting     *)
(* where it makes no more difference.  The hosts are independent of each   *)
(* other: the model has one.  A POST that nothing disturbs is answered     *)
(* within Delay, the scheduling of the goroutines included; the code has   *)
(* no timeout of its own, so a disturbed one may hang.                     *)
(***************************************************************************)
EXTENDS Integers

CONSTANTS Interval,     (* HeartbeatInterval, internal/heartbeat.go          *)
          Delay,        (* the longest an undisturbed POST takes             *)
          RestartDelay, (* RestartSec of the agent's systemd unit            *)
          MaxFaults     (* bound: lost beats, hung POSTs and crashes         *)

ASSUME HeartbeatAssumption ==
  /\ Interval \in Nat \ {0}
  /\ Delay \in Nat \ {0}
  /\ RestartDelay \in Nat
  /\ MaxFaults \in Nat

VARIABLES
  loop,     (* of Repeat: "tick" in tick(), "select" waiting, "down"         *)
  ticker,   (* the time until it fires, Off while there is none              *)
  buffered, (* a tick waits in its channel, which holds one                  *)
  downFor,  (* how long the agent's process has been gone                    *)
  post,     (* the POST of the agent and one a dead process left behind      *)
  row,      (* the age of the row's updated_at, Never when there is no row   *)
  missed,   (* history: the last beat stored was a disturbed one, or one was *)
            (* disturbed since                                               *)
  hung,     (* history: a POST hung                                          *)
  faults

vars == <<loop, ticker, buffered, downFor, post, row, missed, hung, faults>>
agent == <<loop, ticker, buffered, downFor>>

HeartbeatTreshold == 2 * Interval
Never == -1
Off == -1

NoPost == [at |-> "none", age |-> 0, stamp |-> 0]
NewPost == [at |-> "sent", age |-> 0, stamp |-> 0]
Handled == {"sent", "stamped", "stored"}
Posts == {"own", "orphan"}

(* Ages stop at the first one beyond what they are compared with.          *)
MaxAge == HeartbeatTreshold + Delay + RestartDelay + 1
Older(a) == IF a = Never \/ a = MaxAge THEN a ELSE a + 1

Fault == faults < MaxFaults /\ faults' = faults + 1 /\ missed' = TRUE

(* Operators named X_... are X with a plausible mistake in it, which the   *)
(* properties have to notice.                                              *)

(* One interval instead of two. *)
computeHealth_OneInterval(age) ==
  IF age = Never THEN "unknown"
  ELSE IF age > Interval THEN "critical" ELSE "passing"

(* Three intervals instead of two. *)
computeHealth_Lenient(age) ==
  IF age = Never THEN "unknown"
  ELSE IF age > 3 * Interval THEN "critical" ELSE "passing"

computeHealth(age) ==
  IF age = Never THEN "unknown"
  ELSE IF age > HeartbeatTreshold THEN "critical" ELSE "passing"

Health == computeHealth(row)

-----------------------------------------------------------------------------

Init ==
  /\ loop = "down" /\ ticker = Off /\ buffered = FALSE
  /\ downFor = RestartDelay
  /\ post = [p \in Posts |-> NoPost]
  /\ row = Never
  /\ missed = TRUE /\ hung = FALSE
  /\ faults = 0

Start_AtOnce ==
  /\ loop = "down"
  /\ loop' = "tick"
  /\ downFor' = 0
  /\ post' = [post EXCEPT !["own"] = NewPost]
  /\ UNCHANGED <<ticker, buffered, row, missed, hung, faults>>

(* The agent starts: the first tick runs before there is a ticker.         *)
Start ==
  /\ loop = "down"
  /\ downFor >= RestartDelay
  /\ loop' = "tick"
  /\ downFor' = 0
  /\ post' = [post EXCEPT !["own"] = NewPost]
  /\ UNCHANGED <<ticker, buffered, row, missed, hung, faults>>

(* The ticker fires; the tick is dropped when the channel holds one.       *)
Fire ==
  /\ ticker = 0
  /\ ticker' = Interval
  /\ buffered' = TRUE
  /\ UNCHANGED <<loop, downFor, post, row, missed, hung, faults>>

Tick ==
  /\ loop = "select" /\ buffered
  /\ loop' = "tick"
  /\ buffered' = FALSE
  /\ post' = [post EXCEPT !["own"] = NewPost]
  /\ UNCHANGED <<ticker, downFor, row, missed, hung, faults>>

(* The handler builds the row: updated_at is the time of Create.           *)
Stamp(p) ==
  /\ post[p].at = "sent"
  /\ post' = [post EXCEPT ![p].at = "stamped", ![p].stamp = 0]
  /\ UNCHANGED <<agent, row, missed, hung, faults>>

(* ON CONFLICT DO NOTHING. *)
Store_DoNothing(p) ==
  /\ post[p].at = "stamped"
  /\ row' = IF row = Never THEN post[p].stamp ELSE row
  /\ post' = [post EXCEPT ![p] = IF p = "own" THEN [@ EXCEPT !.at = "stored"] ELSE NoPost]
  /\ missed' = (p # "own")
  /\ UNCHANGED <<agent, hung, faults>>

(* INSERT ... ON CONFLICT (agent_id) DO UPDATE SET updated_at: whatever    *)
(* time the row has, the one of this request replaces it.                  *)
Store(p) ==
  /\ post[p].at = "stamped"
  /\ row' = post[p].stamp
  /\ post' = [post EXCEPT ![p] = IF p = "own" THEN [@ EXCEPT !.at = "stored"] ELSE NoPost]
  /\ missed' = (p # "own")
  /\ UNCHANGED <<agent, hung, faults>>

(* tick() returns; an error is only logged.  After the first tick the      *)
(* ticker is created.                                                      *)
EndOfTick ==
  /\ loop' = "select"
  /\ ticker' = IF ticker = Off THEN Interval ELSE ticker
  /\ UNCHANGED <<buffered, downFor, row>>

Return ==
  /\ post["own"].at = "stored"
  /\ EndOfTick
  /\ post' = [post EXCEPT !["own"] = NoPost]
  /\ UNCHANGED <<missed, hung, faults>>

(* The agent is done with its POST, and the server, if it has received it, *)
(* is not.  Bound: one such POST at a time.                                *)
LeaveBehind ==
  \E q \in {NoPost, post["own"], post["orphan"]} :
    /\ q.at \in {"none", "sent", "stamped"}
    /\ post' = [post EXCEPT !["own"] = NoPost, !["orphan"] = q]

(* The POST fails before the row is written.                               *)
Lose ==
  /\ post["own"].at \in {"sent", "stamped"}
  /\ Fault
  /\ EndOfTick
  /\ LeaveBehind
  /\ UNCHANGED hung

(* The connection is stuck: the client has no timeout and waits.           *)
Hang ==
  /\ post["own"].at = "sent"
  /\ Fault
  /\ post' = [post EXCEPT !["own"].at = "hung"]
  /\ hung' = TRUE
  /\ UNCHANGED <<agent, row>>

GiveUp ==
  /\ post["own"].at = "hung"
  /\ EndOfTick
  /\ post' = [post EXCEPT !["own"] = NoPost]
  /\ UNCHANGED <<missed, hung, faults>>

Crash ==
  /\ loop # "down"
  /\ Fault
  /\ LeaveBehind
  /\ loop' = "down" /\ ticker' = Off /\ buffered' = FALSE
  /\ downFor' = 0
  /\ UNCHANGED <<row, hung>>

(* Time passes, unless something is due now.                               *)
Pass ==
  /\ ticker # 0
  /\ ~(loop = "select" /\ buffered)
  /\ \A p \in Posts : post[p].at \in Handled => post[p].age < Delay
  /\ ticker' = IF ticker = Off THEN Off ELSE ticker - 1
  /\ downFor' = IF loop = "down" THEN Older(downFor) ELSE downFor
  /\ post' = [p \in Posts |->
                IF post[p].at \in Handled
                THEN [post[p] EXCEPT !.age = @ + 1,
                                     !.stamp = IF post[p].at = "sent" THEN @ ELSE @ + 1]
                ELSE post[p]]
  /\ row' = Older(row)
  /\ UNCHANGED <<loop, buffered, missed, hung, faults>>

Next ==
  \/ Start \/ Fire \/ Tick \/ Return
  \/ \E p \in Posts : Stamp(p) \/ Store(p)
  \/ Lose \/ Hang \/ GiveUp \/ Crash
  \/ Pass

Spec == Init /\ [][Next]_vars

(* Time goes on, systemd restarts the agent, requests are served, and the  *)
(* operating system gives up a connection that is stuck.                   *)
FairSpec ==
  /\ Spec
  /\ WF_vars(Pass) /\ WF_vars(Start) /\ WF_vars(Fire) /\ WF_vars(Tick)
  /\ \A p \in Posts : WF_vars(Stamp(p)) /\ WF_vars(Store(p))
  /\ WF_vars(Return) /\ WF_vars(GiveUp)

-----------------------------------------------------------------------------
(* Properties.                                                             *)

Durations == 0..MaxAge

TypeOK ==
  /\ loop \in {"tick", "select", "down"}
  /\ ticker \in {Off} \cup 0..Interval
  /\ buffered \in BOOLEAN
  /\ downFor \in Durations
  /\ post \in [Posts -> [at : {"none", "hung"} \cup Handled,
                         age : 0..Delay, stamp : 0..Delay]]
  /\ row \in {Never} \cup Durations
  /\ missed \in BOOLEAN /\ hung \in BOOLEAN
  /\ faults \in 0..MaxFaults

(* A POST is quick against the interval, and over before the agent can be  *)
(* back from a crash.                                                      *)
Timely == 2 * Delay <= Interval /\ Delay < RestartDelay

(* No false alarm: while the agent's beats go through, however they are    *)
(* delayed within Delay and however the agent's ticker drifts at the start,*)
(* its host is not critical.  One beat that is missed is enough to make it *)
(* so (hosts_next.go:14 and 144).                                          *)
AlarmMeansMissedBeat == Timely /\ Health = "critical" => missed

(* A dead agent does not stay green: its host is no longer passing once    *)
(* the threshold has gone by since what it left behind was handled         *)
(* (hosts_next.go:139-149).                                                *)
DownIsNoticed == loop = "down" /\ downFor > HeartbeatTreshold + Delay => Health # "passing"

(* The upsert has no guard against an older updated_at                     *)
(* (hosts_next.go:131-136), and yet the row never gets an older one unless *)
(* a POST has hung: then ticks that were due meanwhile follow each other   *)
(* at once (utils.go:106-115), and two POSTs may be on the server.         *)
StampNeverGoesBack ==
  [][Timely /\ ~hung /\ ~Pass /\ row # Never => row' \in 0..row]_vars

(* Once faults stop, the host is shown passing, and for good.              *)
EventuallyShownPassing == <>[](Health = "passing")

=============================================================================
