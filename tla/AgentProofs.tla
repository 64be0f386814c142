----------------------------- MODULE AgentProofs -----------------------------
(***************************************************************************)
(* What module Agent guarantees for any discoveries, projectors, versions, *)
(* questions that may fail, and bounds.                                    *)
(***************************************************************************)
EXTENDS Agent, SequenceTheorems, TLAPS

Places == {"down", "register", "discover", "store", "metadata", "publish", "update",
           "wait", "deregister"}
Copies == [Topics -> 0..MaxVersion]
Requests == [topic : Topics, version : Versions]
EventsOfAgent == [topic : Topics, version : Versions, late : BOOLEAN]

(* The discovery has a version in hand that it has not published yet.      *)
Looked == pc \in {"store", "metadata", "publish"}

HostType == fact \in [Topics -> Versions] /\ broken \subseteq Fallible

LoopType ==
  /\ pc \in Places /\ at \in 1..Len(Discoveries)
  /\ found \in 0..MaxVersion /\ (Looked => found \in Versions)

ConsulType ==
  /\ check \in {"none", "warning", "passing", "critical", "expired"} /\ silent \in 0..2
  /\ good \in 0..3

CopiesType ==
  /\ tree \in Copies /\ metadata \in Copies /\ node \in Copies
  /\ template \in {"off", "running", "gone"}
  /\ file \in [Topics -> -1..MaxVersion]
  /\ rendered => file \in Copies

PipelineType ==
  /\ late \subseteq Requests
  /\ pending \in [Projectors -> Seq(EventsOfAgent)]
  /\ shown \in [Projectors -> Copies]

FlagsType ==
  /\ failed \in BOOLEAN /\ trouble \in BOOLEAN
  /\ ticker \in BOOLEAN /\ due \in BOOLEAN /\ stopping \in BOOLEAN
  /\ stale \in BOOLEAN /\ rendered \in BOOLEAN
  /\ excused \in BOOLEAN /\ inherited \in BOOLEAN

TypeOK ==
  /\ HostType /\ LoopType /\ ConsulType /\ CopiesType /\ PipelineType /\ FlagsType
  /\ faults \in 0..MaxFaults

(* The status that a tick gives the check is that of all its discoveries,  *)
(* and a check that was not inherited was told of a good tick no earlier   *)
(* than it was last updated.                                               *)
PassingInv ==
  /\ failed = trouble
  /\ check = "passing" /\ ~inherited => good <= silent

(* Between two updates at most one period goes by unless it is excused:    *)
(* after it the tick is due.  A check that an agent finds when it starts   *)
(* is of one that was killed or could not deregister.                      *)
OnTimeInv ==
  /\ pc = "wait" => ticker
  /\ pc \in {"down", "register"} /\ check # "none" => excused
  /\ Running /\ ~excused =>
       /\ check # "expired" /\ silent <= 1
       /\ pc = "wait" /\ silent = 1 => due

(* The version of a topic that its next event has at least.                *)
Bound(t) == IF Looked /\ t = Topic THEN found ELSE fact[t]

(* Nothing on its way to the read models or in them is newer than that.    *)
BoundInv ==
  /\ Looked => found <= fact[Topic]
  /\ \A r \in late : r.version <= Bound(r.topic)
  /\ \A p \in Projectors : \A i \in 1..Len(pending[p]) :
       pending[p][i].version <= Bound(pending[p][i].topic)
  /\ \A p \in Projectors : \A t \in Topics : shown[p][t] <= Bound(t)

(* The events of a topic are in the order of its versions, except for late *)
(* ones, and only those are older than what is shown already.              *)
OrderInv ==
  \A p \in Projectors : \A j \in 1..Len(pending[p]) : ~pending[p][j].late =>
    /\ \A i \in 1..(j - 1) : pending[p][i].topic = pending[p][j].topic
                               => pending[p][i].version <= pending[p][j].version
    /\ shown[p][pending[p][j].topic] <= pending[p][j].version

-----------------------------------------------------------------------------
(* Sequences.                                                              *)

(* What is left of a sequence after its i-th element. *)
LEMMA AfterElement ==
  ASSUME NEW S, NEW s \in Seq(S), NEW i \in 1..Len(s)
  PROVE  /\ SubSeq(s, i + 1, Len(s)) \in Seq(S)
         /\ Len(SubSeq(s, i + 1, Len(s))) = Len(s) - i
         /\ \A k \in 1..(Len(s) - i) : SubSeq(s, i + 1, Len(s))[k] = s[k + i]
<1>1. Len(s) \in Nat /\ \A k \in (i + 1)..Len(s) : s[k] \in S
  BY ElementOfSeq, LenProperties
<1>2. /\ SubSeq(s, i + 1, Len(s)) \in Seq(S)
      /\ Len(SubSeq(s, i + 1, Len(s))) =
           IF i + 1 <= Len(s) THEN Len(s) - (i + 1) + 1 ELSE 0
      /\ \A k \in 1..(Len(s) - (i + 1) + 1) : SubSeq(s, i + 1, Len(s))[k] = s[(i + 1) + k - 1]
  BY <1>1, SubSeqProperties, i + 1 \in Int, Len(s) \in Int
<1>3. QED
  BY <1>1, <1>2

(* A sequence without its i-th element. *)
LEMMA WithoutElement ==
  ASSUME NEW S, NEW s \in Seq(S), NEW i \in 1..Len(s)
  PROVE  LET t == SubSeq(s, 1, i - 1) \o SubSeq(s, i + 1, Len(s))
         IN  /\ t \in Seq(S)
             /\ Len(t) = Len(s) - 1
             /\ \A k \in 1..(Len(s) - 1) : t[k] = IF k < i THEN s[k] ELSE s[k + 1]
<1> DEFINE a == SubSeq(s, 1, i - 1)
           b == SubSeq(s, i + 1, Len(s))
<1>1. Len(s) \in Nat /\ \A k \in 1..(i - 1) : s[k] \in S
  BY ElementOfSeq, LenProperties
<1>2. a \in Seq(S) /\ Len(a) = i - 1 /\ \A k \in 1..(i - 1) : a[k] = s[k]
  <2>1. /\ a \in Seq(S)
        /\ Len(a) = IF 1 <= i - 1 THEN (i - 1) - 1 + 1 ELSE 0
        /\ \A k \in 1..((i - 1) - 1 + 1) : a[k] = s[1 + k - 1]
    BY <1>1, SubSeqProperties, 1 \in Int, i - 1 \in Int
  <2>2. i \in Int /\ 1 <= i /\ (i - 1) - 1 + 1 = i - 1 /\ \A k \in 1..(i - 1) : 1 + k - 1 = k
    BY <1>1
  <2> HIDE DEF a
  <2>3. Len(a) = i - 1
    BY <2>1, <2>2
  <2>4. QED
    BY <2>1, <2>2, <2>3
<1>3. b \in Seq(S) /\ Len(b) = Len(s) - i /\ \A k \in 1..(Len(s) - i) : b[k] = s[k + i]
  BY AfterElement
<1> HIDE DEF a, b
<1>4. /\ a \o b \in Seq(S)
      /\ Len(a \o b) = Len(a) + Len(b)
      /\ \A k \in 1..(Len(a) + Len(b)) : (a \o b)[k] = IF k <= Len(a) THEN a[k] ELSE b[k - Len(a)]
  BY <1>2, <1>3, ConcatProperties
<1>5. \A k \in 1..(Len(s) - 1) : (a \o b)[k] = IF k < i THEN s[k] ELSE s[k + 1]
  <2> SUFFICES ASSUME NEW k \in 1..(Len(s) - 1)
               PROVE  (a \o b)[k] = IF k < i THEN s[k] ELSE s[k + 1]
    OBVIOUS
  <2>1. CASE k < i
    BY <1>1, <1>2, <1>3, <1>4, <2>1
  <2>2. CASE ~(k < i)
    <3>1. k - Len(a) \in 1..(Len(s) - i) /\ (k - Len(a)) + i = k + 1 /\ ~(k <= Len(a))
      BY <1>1, <1>2, <2>2
    <3>2. (a \o b)[k] = b[k - Len(a)]
      BY <1>1, <1>2, <1>3, <1>4, <2>2, <3>1
    <3>3. b[k - Len(a)] = s[k + 1]
      <4> DEFINE m == k - Len(a)
      <4>1. m \in 1..(Len(s) - i) /\ m + i = k + 1
        BY <3>1
      <4> HIDE DEF m
      <4>2. b[m] = s[m + i]
        BY <1>3, <4>1
      <4>3. QED
        BY <4>1, <4>2 DEF m
    <3>4. QED
      BY <2>2, <3>2, <3>3
  <2>3. QED
    BY <2>1, <2>2
<1>6. Len(a \o b) = Len(s) - 1
  BY <1>1, <1>2, <1>3, <1>4
<1>7. QED
  BY <1>4, <1>5, <1>6 DEF a, b

-----------------------------------------------------------------------------

(* What the constants are. *)
LEMMA Constants ==
  /\ Len(Discoveries) \in Nat \ {0}
  /\ \A d \in 1..Len(Discoveries) : Discoveries[d] \in Topics
  /\ MaxVersion \in Nat \ {0} /\ MaxFaults \in Nat
  /\ Versions \subseteq Nat \ {0}
<1> DEFINE S == Optional \cup {"host", "subscription"}
<1>1. Discoveries \in Seq(S) /\ Discoveries # <<>>
  BY AgentAssumption
<1> HIDE DEF S
<1>2. Len(Discoveries) \in Nat /\ DOMAIN Discoveries = 1..Len(Discoveries)
  BY <1>1, LenProperties
<1>3. Len(Discoveries) # 0
  BY <1>1, EmptySeq
<1>4. QED
  BY <1>2, <1>3, AgentAssumption DEF Topics, Range, Versions

(* The types of a copy with one topic changed. *)
LEMMA CopyTypes ==
  ASSUME NEW c \in Copies, NEW t \in Topics, NEW v \in 0..MaxVersion
  PROVE  [c EXCEPT ![t] = v] \in Copies
BY DEF Copies

(* A step of the pipeline keeps the sequences of events. *)
LEMMA CollectTypes ==
  ASSUME NEW t \in Topics, NEW v \in Versions, NEW b \in BOOLEAN,
         pending \in [Projectors -> Seq(EventsOfAgent)], Collect(t, v, b)
  PROVE  pending' \in [Projectors -> Seq(EventsOfAgent)]
<1>1. [topic |-> t, version |-> v, late |-> b] \in EventsOfAgent
  BY DEF EventsOfAgent
<1>2. QED
  BY <1>1 DEF Collect

(* The topic and the version at hand. *)
LEMMA AtHand ==
  ASSUME HostType, LoopType
  PROVE  /\ Topic \in Topics
         /\ fact[Topic] \in Versions
         /\ Looked => [topic |-> Topic, version |-> found] \in Requests
BY Constants DEF HostType, LoopType, Topic, Requests

(* Each step keeps the types of the loop,                                  *)
LEMMA LoopTypeKept ==
  ASSUME HostType, LoopType, [Next]_vars
  PROVE  LoopType'
<1> USE Constants DEF LoopType, Looked, Places, loop, tick, GoTo, NoTick
<1>1. CASE Boot \/ Elapse \/ Stop
  BY <1>1 DEF Boot, Elapse, Stop
<1>2. CASE Register \/ RegisterFails \/ Tick
  BY <1>2 DEF Register, RegisterFails, Tick, BeginTick
<1>3. CASE LoopsEnd \/ Deregister \/ Crash
  BY <1>3 DEF LoopsEnd, Deregister, Crash, Gone
<1>4. CASE NextDiscovery
  BY <1>4 DEF NextDiscovery
<1>5. CASE Discover
  BY <1>4, <1>5, AtHand DEF Discover, LookAt, Versions
<1>6. CASE DiscoverFails
  BY <1>4, <1>6 DEF DiscoverFails, Fail
<1>7. CASE Store \/ StoreMetadata
  BY <1>7 DEF Store, StoreMetadata
<1>8. CASE StoreFails \/ StoreMetadataFails \/ Publish \/ PublishFails
  BY <1>4, <1>8 DEF StoreFails, StoreMetadataFails, Publish, PublishFails, Fails, Fail
<1>9. CASE UpdateTTL \/ UpdateTTLFails
  BY <1>9 DEF UpdateTTL, UpdateTTLFails, AfterTick
<1>10. CASE UNCHANGED <<loop, tick>>
  BY <1>10
<1>11. QED
  BY <1>1, <1>2, <1>3, <1>4, <1>5, <1>6, <1>7, <1>8, <1>9, <1>10
  DEF Next, TickStep, Change, Break, Repair, Expire, Render, RunnerGivesUp, Reload,
      LateArrives, Project, Lose, vars

(* those of the check in Consul,                                           *)
LEMMA ConsulTypeKept ==
  ASSUME ConsulType, [Next]_vars
  PROVE  ConsulType'
<1> USE DEF ConsulType, consul, history
<1>1. CASE Elapse \/ Expire
  BY <1>1 DEF Elapse, Expire
<1>2. CASE Register \/ Deregister \/ Crash
  BY <1>2 DEF Register, Deregister, Crash
<1>3. CASE UpdateTTL \/ UpdateTTLFails
  BY <1>3 DEF UpdateTTL, UpdateTTLFails, AfterTick
<1>4. CASE UNCHANGED <<consul, history>>
  BY <1>4
<1>5. QED
  BY <1>1, <1>2, <1>3, <1>4
  DEF Next, TickStep, Change, Break, Repair, Boot, RegisterFails, Stop, LoopsEnd, Tick,
      Discover, LookAt, DiscoverFails, Store, StoreFails, StoreMetadata, StoreMetadataFails,
      Publish, PublishFails, Render, RunnerGivesUp, Reload, LateArrives, Project, Lose, vars

(* those of the copies of the topics,                                      *)
LEMMA CopiesTypeKept ==
  ASSUME HostType, LoopType, CopiesType, [Next]_vars
  PROVE  CopiesType'
<1> USE DEF CopiesType, kv, runner
<1>1. CASE Register
  BY <1>1 DEF Register
<1>2. CASE LoopsEnd \/ Crash
  BY <1>2, Constants DEF LoopsEnd, Crash, Gone, NotRendered
<1>3. CASE Store \/ StoreFails
  <2>1. pc = "store" => [tree EXCEPT ![Topic] = found] \in Copies
    BY AtHand, CopyTypes DEF LoopType
  <2>2. [tree EXCEPT ![Topic] = 0] \in Copies
    BY AtHand, CopyTypes, Constants
  <2>3. CASE Store
    BY <2>1, <2>3 DEF Store
  <2>4. CASE StoreFails
    BY <2>2, <2>4 DEF StoreFails
  <2>5. QED
    BY <1>3, <2>3, <2>4
<1>4. CASE StoreMetadata
  <2>1. [metadata EXCEPT ![Topic] = found] \in Copies
    BY AtHand, CopyTypes DEF LoopType
  <2>2. QED
    BY <1>4, <2>1 DEF StoreMetadata
<1>5. CASE Render \/ RunnerGivesUp
  <2>1. metadata \in [Topics -> -1..MaxVersion]
    BY Constants DEF Copies
  <2>2. QED
    BY <1>5, <2>1 DEF Render, RunnerGivesUp
<1>6. CASE Reload
  BY <1>6 DEF Reload
<1>7. CASE UNCHANGED <<kv, runner, node>>
  BY <1>7
<1>8. QED
  BY <1>1, <1>2, <1>3, <1>4, <1>5, <1>6, <1>7
  DEF Next, TickStep, Change, Break, Repair, Boot, Elapse, Expire, RegisterFails, Stop,
      Deregister, Tick, Discover, LookAt, DiscoverFails, StoreMetadataFails, Publish,
      PublishFails, UpdateTTL, UpdateTTLFails, LateArrives, Project, Lose, vars

(* those of what is on its way to the read models,                         *)
LEMMA PipelineTypeKept ==
  ASSUME HostType, LoopType, PipelineType, [Next]_vars
  PROVE  PipelineType'
<1> USE DEF PipelineType, pipeline
<1>1. CASE Crash
  BY <1>1, AtHand DEF Crash, Looked
<1>2. CASE Publish \/ PublishFails
  <2>1. late' \subseteq Requests
    BY <1>2, AtHand DEF Publish, PublishFails, GiveUp, Looked
  <2>2. pending' \in [Projectors -> Seq(EventsOfAgent)]
    BY <1>2, AtHand, CollectTypes DEF Publish, PublishFails, Looked, LoopType
  <2>3. QED
    BY <1>2, <2>1, <2>2 DEF Publish, PublishFails
<1>3. ASSUME NEW r \in late, LateArrives(r) PROVE PipelineType'
  <2>1. r.topic \in Topics /\ r.version \in Versions
    BY DEF Requests
  <2>2. pending' \in [Projectors -> Seq(EventsOfAgent)]
    BY <1>3, <2>1, CollectTypes DEF LateArrives
  <2>3. QED
    BY <1>3, <2>2 DEF LateArrives
<1>4. ASSUME NEW p \in Projectors, NEW i \in DOMAIN pending[p], Project(p, i)
      PROVE  PipelineType'
  <2>1. i \in 1..Len(pending[p]) /\ pending[p][i] \in EventsOfAgent
    BY LenProperties, ElementOfSeq
  <2>2. pending[p][i].topic \in Topics /\ pending[p][i].version \in 0..MaxVersion
    BY <2>1, Constants DEF EventsOfAgent, Versions
  <2>3. SubSeq(pending[p], i + 1, Len(pending[p])) \in Seq(EventsOfAgent)
    BY <2>1, AfterElement
  <2>4. shown' \in [Projectors -> Copies]
    BY <1>4, <2>2 DEF Project, Copies
  <2>5. QED
    BY <1>4, <2>3, <2>4 DEF Project
<1>5. ASSUME NEW p \in Projectors, NEW i \in DOMAIN pending[p], Lose(p, i)
      PROVE  PipelineType'
  <2>1. i \in 1..Len(pending[p])
    BY LenProperties
  <2>2. SubSeq(pending[p], 1, i - 1) \o SubSeq(pending[p], i + 1, Len(pending[p]))
          \in Seq(EventsOfAgent)
    BY <2>1, WithoutElement
  <2>3. QED
    BY <1>5, <2>2 DEF Lose
<1>6. CASE UNCHANGED pipeline
  BY <1>6
<1>7. QED
  BY <1>1, <1>2, <1>3, <1>4, <1>5, <1>6
  DEF Next, TickStep, Change, Break, Repair, Boot, Elapse, Expire, Register, RegisterFails,
      Stop, LoopsEnd, Deregister, Tick, Discover, LookAt, DiscoverFails, Store, StoreFails,
      StoreMetadata, StoreMetadataFails, UpdateTTL, UpdateTTLFails, Render, RunnerGivesUp,
      Reload, vars

(* those of the host, within the bound of its faults,                      *)
LEMMA HostTypeKept ==
  ASSUME HostType, faults \in 0..MaxFaults, [Next]_vars
  PROVE  HostType' /\ faults' \in 0..MaxFaults
<1> USE Constants DEF HostType, host
<1>1. ASSUME NEW t \in Topics, Change(t) PROVE HostType' /\ faults' \in 0..MaxFaults
  BY <1>1 DEF Change, Versions
<1>2. ASSUME NEW question \in Fallible, Break(question) \/ Repair(question)
      PROVE  HostType' /\ faults' \in 0..MaxFaults
  BY <1>2 DEF Break, Repair, Fault
<1>3. CASE UNCHANGED host /\ (Fault \/ UNCHANGED faults)
  BY <1>3 DEF Fault
<1>4. QED
  BY <1>1, <1>2, <1>3
  DEF Next, TickStep, Boot, Elapse, Expire, Register, RegisterFails, Stop, LoopsEnd,
      Deregister, Crash, Tick, Discover, LookAt, DiscoverFails, Store, StoreFails,
      StoreMetadata, StoreMetadataFails, Publish, PublishFails, UpdateTTL, UpdateTTLFails,
      Render, RunnerGivesUp, Reload, LateArrives, Project, Lose, Fails, vars

(* and those of the flags.                                                 *)
LEMMA FlagsTypeKept ==
  ASSUME FlagsType, [Next]_vars
  PROVE  FlagsType'
<1> USE DEF FlagsType, tick, loop, history, runner
<1>1. CASE Boot \/ Elapse \/ Stop
  BY <1>1 DEF Boot, Elapse, Stop
<1>2. CASE Register \/ RegisterFails \/ Tick
  BY <1>2 DEF Register, RegisterFails, Tick, BeginTick, NoTick
<1>3. CASE LoopsEnd \/ Deregister \/ Crash
  BY <1>3 DEF LoopsEnd, Deregister, Crash, Gone, NoTick
<1>4. CASE Discover \/ DiscoverFails
  BY <1>4 DEF Discover, LookAt, DiscoverFails, Fail
<1>5. CASE StoreFails \/ StoreMetadataFails \/ PublishFails
  BY <1>5 DEF StoreFails, StoreMetadataFails, PublishFails, Fails, Fail
<1>6. CASE UpdateTTL \/ UpdateTTLFails
  BY <1>6 DEF UpdateTTL, UpdateTTLFails, AfterTick, NoTick
<1>7. CASE Render \/ RunnerGivesUp \/ Reload
  BY <1>7 DEF Render, RunnerGivesUp, Reload
<1>8. CASE UNCHANGED <<failed, trouble, ticker, due, stopping, stale, rendered, excused, inherited>>
  BY <1>8
<1>9. QED
  BY <1>1, <1>2, <1>3, <1>4, <1>5, <1>6, <1>7, <1>8
  DEF Next, TickStep, Change, Break, Repair, Expire, Store, StoreMetadata, Publish,
      LateArrives, Project, Lose, vars

(* Every variable keeps its type. *)
LEMMA TypeCorrect == Spec => []TypeOK
<1>1. Init => TypeOK
  <2> SUFFICES ASSUME Init PROVE TypeOK
    OBVIOUS
  <2> USE Constants DEF Init, Copies
  <2>1. HostType /\ LoopType /\ ConsulType
    BY DEF HostType, LoopType, ConsulType, Places, Looked, Versions
  <2>2. CopiesType
    BY DEF CopiesType, NotRendered
  <2>3. PipelineType
    BY DEF PipelineType
  <2>4. FlagsType
    BY DEF FlagsType
  <2>5. QED
    BY <2>1, <2>2, <2>3, <2>4 DEF TypeOK
<1>2. TypeOK /\ [Next]_vars => TypeOK'
  BY HostTypeKept, LoopTypeKept, ConsulTypeKept, CopiesTypeKept, PipelineTypeKept, FlagsTypeKept
  DEF TypeOK
<1>3. QED
  BY <1>1, <1>2, PTL DEF Spec

-----------------------------------------------------------------------------
(* The check of the service.                                               *)

(* A tick's status fails together with one of its discoveries. *)
LEMMA TroubleKept ==
  ASSUME failed = trouble, [Next]_vars
  PROVE  failed' = trouble'
<1> USE DEF tick
<1>1. CASE Register \/ Tick \/ Crash \/ UpdateTTL \/ UpdateTTLFails
  BY <1>1 DEF Register, Tick, Crash, UpdateTTL, UpdateTTLFails, BeginTick, AfterTick, NoTick
<1>2. CASE Discover \/ DiscoverFails \/ Publish
  BY <1>2 DEF Discover, LookAt, DiscoverFails, Publish, Fail
<1>3. CASE StoreFails \/ StoreMetadataFails \/ PublishFails
  BY <1>3 DEF StoreFails, StoreMetadataFails, PublishFails, Fails, Fail
<1>4. CASE UNCHANGED <<failed, trouble>>
  BY <1>4
<1>5. QED
  BY <1>1, <1>2, <1>3, <1>4
  DEF Next, TickStep, Change, Break, Repair, Boot, Elapse, Expire, RegisterFails, Stop,
      LoopsEnd, Deregister, Store, StoreMetadata, Render, RunnerGivesUp, Reload, LateArrives,
      Project, Lose, vars

(* A host is passing for two periods after a tick without an error, or has *)
(* the status of an agent that died (agent.go:139, 167-186).               *)
THEOREM NoOldPass == Spec => []PassingIsRecent
<1>1. Init => PassingInv
  BY DEF Init, PassingInv
<1>2. TypeOK /\ PassingInv /\ [Next]_vars => PassingInv'
  <2> SUFFICES ASSUME TypeOK, PassingInv, [Next]_vars PROVE PassingInv'
    OBVIOUS
  <2> USE DEF TypeOK, ConsulType, PassingInv, consul, history
  <2>1. failed' = trouble'
    BY TroubleKept
  <2>2. CASE Elapse
    BY <2>1, <2>2 DEF Elapse
  <2>3. CASE Expire \/ Register \/ Deregister \/ Crash
    BY <2>1, <2>3 DEF Expire, Register, Deregister, Crash
  <2>4. CASE UpdateTTL
    BY <2>1, <2>4 DEF UpdateTTL, AfterTick
  <2>5. CASE UpdateTTLFails
    BY <2>1, <2>5 DEF UpdateTTLFails, AfterTick
  <2>6. CASE UNCHANGED <<check, silent, good, inherited>>
    BY <2>1, <2>6
  <2>7. QED
    BY <2>2, <2>3, <2>4, <2>5, <2>6
    DEF Next, TickStep, Change, Break, Repair, Boot, RegisterFails, Stop, LoopsEnd, Tick,
        Discover, LookAt, DiscoverFails, Store, StoreFails, StoreMetadata, StoreMetadataFails,
        Publish, PublishFails, Render, RunnerGivesUp, Reload, LateArrives, Project, Lose, vars
<1>3. TypeOK /\ PassingInv => PassingIsRecent
  BY DEF TypeOK, ConsulType, PassingInv, PassingIsRecent
<1>4. QED
  BY <1>1, <1>2, <1>3, TypeCorrect, PTL DEF Spec

(* Two periods are enough of a TTL: the check of a running agent whose     *)
(* ticks keep to their period does not expire (agent.go:139,               *)
(* utils.go:103-106).                                                      *)
THEOREM TTLIsEnough == Spec => []OnTimeNeverExpires
<1>1. Init => OnTimeInv
  BY DEF Init, OnTimeInv, Running, InTick
<1>2. TypeOK /\ OnTimeInv /\ [Next]_vars => OnTimeInv'
  <2> SUFFICES ASSUME TypeOK, OnTimeInv, [Next]_vars PROVE OnTimeInv'
    OBVIOUS
  <2> USE DEF TypeOK, ConsulType, OnTimeInv, Running, InTick, consul, loop, GoTo
  <2>1. CASE Elapse
    BY <2>1 DEF Elapse
  <2>2. CASE Expire
    BY <2>2 DEF Expire, history
  <2>3. CASE Register
    BY <2>3 DEF Register, BeginTick
  <2>4. CASE Boot \/ RegisterFails \/ LoopsEnd
    BY <2>4 DEF Boot, RegisterFails, LoopsEnd, Gone, history
  <2>5. CASE Deregister \/ Crash
    BY <2>5 DEF Deregister, Crash, Gone
  <2>6. CASE Tick
    BY <2>6 DEF Tick, BeginTick, history
  <2>7. CASE Stop
    BY <2>7 DEF Stop, history
  <2>8. CASE InTick /\ InTick' /\ UNCHANGED <<consul, excused, ticker, due>>
    BY <2>8
  <2>9. CASE UpdateTTL \/ UpdateTTLFails
    BY <2>9 DEF UpdateTTL, UpdateTTLFails, AfterTick
  <2>10. CASE UNCHANGED <<pc, consul, excused, ticker, due>>
    BY <2>10
  <2>11. ASSUME NextDiscovery PROVE InTick'
    BY <2>11 DEF NextDiscovery
  <2>12. CASE Discover \/ DiscoverFails \/ Publish
    BY <2>8, <2>11, <2>12 DEF Discover, LookAt, DiscoverFails, Publish, Fail, history
  <2>13. CASE StoreFails \/ StoreMetadataFails \/ PublishFails
    BY <2>8, <2>11, <2>13
    DEF StoreFails, StoreMetadataFails, PublishFails, Fails, Fail, history
  <2>14. CASE Store \/ StoreMetadata
    BY <2>8, <2>14 DEF Store, StoreMetadata, history
  <2>15. QED
    BY <2>1, <2>2, <2>3, <2>4, <2>5, <2>6, <2>7, <2>9, <2>10, <2>12, <2>13, <2>14
    DEF Next, TickStep, Change, Break, Repair, Render, RunnerGivesUp, Reload, LateArrives,
        Project, Lose, vars, history
<1>3. OnTimeInv => OnTimeNeverExpires
  BY DEF OnTimeInv, OnTimeNeverExpires
<1>4. QED
  BY <1>1, <1>2, <1>3, TypeCorrect, PTL DEF Spec

-----------------------------------------------------------------------------
(* The order of what is published.                                         *)

(* What a step does to the pipeline, one disjunct per kind of step.        *)
Published(t, v, b) == Collect(t, v, b) /\ UNCHANGED shown
GivenUp(l) == l = late \/ l = late \cup {[topic |-> Topic, version |-> found]}

(* What a step may do to the pipeline: nothing, give up or publish what is *)
(* at hand, bring a late request in, project an event or lose one.         *)
LEMMA PipelineStep ==
  ASSUME TypeOK, [Next]_vars
  PROVE  \/ UNCHANGED pipeline
         \/ Looked /\ UNCHANGED <<pending, shown>> /\ GivenUp(late')
         \/ Looked /\ Published(Topic, found, FALSE) /\ UNCHANGED late
         \/ \E r \in late : Published(r.topic, r.version, TRUE) /\ late' = late \ {r}
         \/ \E p \in Projectors : \E i \in DOMAIN pending[p] :
              Project(p, i) \/ (Lose(p, i) /\ UNCHANGED late)
<1> USE DEF pipeline
<1>1. CASE Crash
  BY <1>1 DEF Crash, Looked, GivenUp
<1>2. CASE Publish \/ PublishFails
  BY <1>2 DEF Publish, PublishFails, GiveUp, Looked, Published, GivenUp
<1>3. ASSUME NEW r \in late, LateArrives(r)
      PROVE  Published(r.topic, r.version, TRUE) /\ late' = late \ {r}
  BY <1>3 DEF LateArrives, Published
<1>4. ASSUME NEW p \in Projectors, NEW i \in DOMAIN pending[p], Lose(p, i)
      PROVE  UNCHANGED late
  BY <1>4 DEF Lose
<1>5. \/ UNCHANGED pipeline \/ Crash \/ Publish \/ PublishFails
      \/ \E r \in late : LateArrives(r)
      \/ \E p \in Projectors : \E i \in DOMAIN pending[p] : Project(p, i) \/ Lose(p, i)
  BY DEF Next, TickStep, Change, Break, Repair, Boot, Elapse, Expire, Register, RegisterFails,
         Stop, LoopsEnd, Deregister, Tick, Discover, LookAt, DiscoverFails, Store, StoreFails,
         StoreMetadata, StoreMetadataFails, UpdateTTL, UpdateTTLFails, Render, RunnerGivesUp,
         Reload, vars
<1>6. QED
  BY <1>1, <1>2, <1>3, <1>4, <1>5

(* The version at hand was read from the host, whose versions only grow:   *)
(* so does the least version of a topic's next event.                      *)
LEMMA BoundGrows ==
  ASSUME TypeOK, Looked => found <= fact[Topic], [Next]_vars
  PROVE  /\ (Looked => found <= fact[Topic])'
         /\ \A t \in Topics : Bound(t) <= Bound(t)' /\ Bound(t) \in Nat /\ Bound(t)' \in Nat
<1>1. (\A t \in Topics : fact[t] \in Nat) /\ found \in Nat /\ Topic \in Topics
  <2>1. \A t \in Topics : fact[t] \in Versions
    BY DEF TypeOK, HostType
  <2>2. found \in Nat
    BY Constants DEF TypeOK, LoopType
  <2>3. QED
    BY <2>1, <2>2, AtHand, Constants DEF TypeOK
<1>2. (\A t \in Topics : fact'[t] \in Nat) /\ found' \in Nat /\ Topic' \in Topics
  <2>1. HostType' /\ LoopType'
    BY HostTypeKept, LoopTypeKept DEF TypeOK
  <2>2. Topic' \in Topics
    BY <2>1, Constants DEF LoopType, Topic
  <2>3. \A t \in Topics : fact'[t] \in Versions
    BY <2>1 DEF HostType
  <2>4. found' \in Nat
    BY <2>1, Constants DEF LoopType
  <2>5. QED
    BY <2>2, <2>3, <2>4, Constants
<1>3. CASE UNCHANGED <<at, found, pc>> /\ \A t \in Topics : fact[t] <= fact'[t]
  BY <1>1, <1>2, <1>3 DEF Bound, Topic, Looked
<1>4. CASE UNCHANGED fact /\ ~Looked'
  BY <1>1, <1>2, <1>4 DEF Bound
<1>5. CASE UNCHANGED <<fact, at>> /\ ~Looked /\ found' = fact[Topic]
  BY <1>1, <1>2, <1>5 DEF Bound, Topic
<1>6. CASE UNCHANGED <<fact, at, found>> /\ Looked /\ Looked'
  BY <1>1, <1>2, <1>6 DEF Bound, Topic
<1> USE DEF GoTo, host, tick, loop, Looked
<1>7. ASSUME NEW t \in Topics, Change(t)
      PROVE  UNCHANGED <<at, found, pc>> /\ \A u \in Topics : fact[u] <= fact'[u]
  BY <1>1, <1>7 DEF Change
<1>8. CASE UNCHANGED <<fact, at, found, pc>>
  BY <1>1, <1>3, <1>8
<1>9. ASSUME NextDiscovery PROVE ~Looked'
  BY <1>9 DEF NextDiscovery
<1>10. CASE Boot \/ Register \/ RegisterFails \/ LoopsEnd \/ Deregister \/ Crash \/ Tick
  BY <1>4, <1>10 DEF Boot, Register, RegisterFails, LoopsEnd, Deregister, Crash, Tick, Gone,
                     BeginTick
<1>11. CASE UpdateTTL \/ UpdateTTLFails
  BY <1>4, <1>11 DEF UpdateTTL, UpdateTTLFails, AfterTick
<1>12. CASE Discover
  BY <1>4, <1>5, <1>9, <1>12 DEF Discover, LookAt
<1>13. CASE DiscoverFails \/ StoreFails \/ StoreMetadataFails \/ Publish \/ PublishFails
  BY <1>4, <1>9, <1>13
  DEF DiscoverFails, StoreFails, StoreMetadataFails, Publish, PublishFails, Fails, Fail
<1>14. CASE Store \/ StoreMetadata
  BY <1>6, <1>14 DEF Store, StoreMetadata
<1>15. QED
  BY <1>3, <1>7, <1>8, <1>10, <1>11, <1>12, <1>13, <1>14
  DEF Next, TickStep, Break, Repair, Elapse, Expire, Stop, Render, RunnerGivesUp, Reload,
      LateArrives, Project, Lose, vars

(* Where the events of the pipeline were before the collector stored one,  *)
(* a projector took one, or one was lost.                                  *)
LEMMA CollectMoves ==
  ASSUME TypeOK, NEW t \in Topics, NEW v \in Versions, NEW b \in BOOLEAN, Collect(t, v, b),
         NEW q \in Projectors, NEW j \in 1..Len(pending'[q])
  PROVE  \/ j \in 1..Len(pending[q]) /\ pending'[q][j] = pending[q][j]
         \/ /\ j = Len(pending[q]) + 1
            /\ pending'[q][j] = [topic |-> t, version |-> v, late |-> b]
<1> DEFINE e == [topic |-> t, version |-> v, late |-> b]
<1>1. pending[q] \in Seq(EventsOfAgent) /\ e \in EventsOfAgent
  BY DEF TypeOK, PipelineType, EventsOfAgent
<1>2. pending'[q] = Append(pending[q], e) \/ pending'[q] = pending[q]
  BY DEF Collect
<1> HIDE DEF e
<1>3. /\ Len(pending[q]) \in Nat
      /\ Len(Append(pending[q], e)) = Len(pending[q]) + 1
      /\ \A k \in 1..Len(pending[q]) : Append(pending[q], e)[k] = pending[q][k]
      /\ Append(pending[q], e)[Len(pending[q]) + 1] = e
  BY <1>1, AppendProperties
<1>4. QED
  BY <1>2, <1>3 DEF e

(* Projecting the i-th event removes it and those before it.               *)
LEMMA ProjectMoves ==
  ASSUME TypeOK, NEW p \in Projectors, NEW i \in DOMAIN pending[p], Project(p, i),
         NEW q \in Projectors, NEW j \in 1..Len(pending'[q])
  PROVE  LET k == IF q = p THEN j + i ELSE j
         IN  k \in 1..Len(pending[q]) /\ pending'[q][j] = pending[q][k]
<1>1. pending[p] \in Seq(EventsOfAgent) /\ Len(pending[p]) \in Nat /\ i \in 1..Len(pending[p])
  BY LenProperties DEF TypeOK, PipelineType
<1>2. pending' = [pending EXCEPT ![p] = SubSeq(pending[p], i + 1, Len(pending[p]))]
  BY DEF Project
<1>3. CASE q = p
  <2>1. pending'[q] = SubSeq(pending[p], i + 1, Len(pending[p]))
    BY <1>2, <1>3 DEF TypeOK, PipelineType
  <2>2. /\ Len(pending'[q]) = Len(pending[p]) - i
        /\ \A k \in 1..(Len(pending[p]) - i) : pending'[q][k] = pending[p][k + i]
    BY <1>1, <2>1, AfterElement
  <2>3. j + i \in 1..Len(pending[p]) /\ pending'[q][j] = pending[p][j + i]
    BY <1>1, <2>2
  <2>4. QED
    BY <1>3, <2>3
<1>4. CASE q # p
  BY <1>2, <1>4 DEF TypeOK, PipelineType
<1>5. QED
  BY <1>3, <1>4

(* Losing the i-th event moves those behind it.                            *)
LEMMA LoseMoves ==
  ASSUME TypeOK, NEW p \in Projectors, NEW i \in DOMAIN pending[p], Lose(p, i),
         NEW q \in Projectors, NEW j \in 1..Len(pending'[q])
  PROVE  LET k == IF q = p /\ j >= i THEN j + 1 ELSE j
         IN  k \in 1..Len(pending[q]) /\ pending'[q][j] = pending[q][k]
<1> DEFINE s == SubSeq(pending[p], 1, i - 1) \o SubSeq(pending[p], i + 1, Len(pending[p]))
<1>1. pending[p] \in Seq(EventsOfAgent) /\ Len(pending[p]) \in Nat /\ i \in 1..Len(pending[p])
  BY LenProperties DEF TypeOK, PipelineType
<1>2. pending' = [pending EXCEPT ![p] = s]
  BY DEF Lose
<1>3. /\ Len(s) = Len(pending[p]) - 1
      /\ \A k \in 1..(Len(pending[p]) - 1) :
           s[k] = IF k < i THEN pending[p][k] ELSE pending[p][k + 1]
  BY <1>1, WithoutElement
<1> HIDE DEF s
<1>4. CASE q = p
  <2>1. pending'[q] = s
    BY <1>2, <1>4 DEF TypeOK, PipelineType
  <2>2. j \in 1..(Len(pending[p]) - 1)
    BY <1>3, <2>1
  <2>3. QED
    BY <1>1, <1>3, <1>4, <2>1, <2>2
<1>5. CASE q # p
  BY <1>2, <1>5 DEF TypeOK, PipelineType
<1>6. QED
  BY <1>4, <1>5

(* No step brings anything newer than the bound into the pipeline.         *)
LEMMA BoundKept ==
  ASSUME TypeOK, BoundInv, [Next]_vars
  PROVE  BoundInv'
<1>1. /\ (Looked => found <= fact[Topic])'
      /\ \A t \in Topics : Bound(t) <= Bound(t)' /\ Bound(t) \in Nat /\ Bound(t)' \in Nat
  BY BoundGrows DEF BoundInv
<1>2. /\ \A r \in late : r.topic \in Topics /\ r.version \in Versions /\ r.version \in Nat
      /\ \A p \in Projectors, i \in Nat : i \in 1..Len(pending[p]) =>
           pending[p][i].topic \in Topics /\ pending[p][i].version \in Nat
      /\ \A p \in Projectors, t \in Topics : shown[p][t] \in Nat
  <2>1. \A r \in late : r.topic \in Topics /\ r.version \in Versions
    BY DEF TypeOK, PipelineType, Requests
  <2>2. ASSUME NEW p \in Projectors, NEW i \in 1..Len(pending[p])
        PROVE  pending[p][i].topic \in Topics /\ pending[p][i].version \in Versions
    <3>1. pending[p][i] \in EventsOfAgent
      BY ElementOfSeq DEF TypeOK, PipelineType
    <3>2. QED
      BY <3>1 DEF EventsOfAgent
  <2>3. ASSUME NEW p \in Projectors, NEW t \in Topics PROVE shown[p][t] \in Nat
    BY Constants DEF TypeOK, PipelineType, Copies
  <2>4. QED
    BY <2>1, <2>2, <2>3, Constants
<1>3. \A r \in late' : r.version <= Bound(r.topic)'
  <2> SUFFICES ASSUME NEW r \in late' PROVE r.version <= Bound(r.topic)'
    OBVIOUS
  <2>1. CASE r \in late
    BY <1>1, <1>2, <2>1 DEF BoundInv
  <2>2. CASE r \notin late
    <3>1. Looked /\ r = [topic |-> Topic, version |-> found]
      BY <2>2, PipelineStep DEF pipeline, GivenUp, Project
    <3>2. r.topic = Topic /\ r.version = found /\ Topic \in Topics
      BY <3>1, AtHand DEF TypeOK
    <3>3. QED
      BY <1>1, <3>1, <3>2 DEF Bound
  <2>3. QED
    BY <2>1, <2>2
<1>4. ASSUME NEW q \in Projectors, NEW j \in 1..Len(pending'[q]),
             NEW u \in Topics, pending'[q][j].topic = u
      PROVE  pending'[q][j].version <= Bound(u)'
  <2>1. ASSUME NEW k \in 1..Len(pending[q]), pending'[q][j] = pending[q][k]
        PROVE  pending'[q][j].version <= Bound(u)'
    <3>1. pending[q][k].version \in Nat /\ pending[q][k].version <= Bound(u)
      BY <1>2, <1>4, <2>1 DEF BoundInv
    <3>2. QED
      BY <1>1, <2>1, <3>1
  <2>2. ASSUME NEW t \in Topics, NEW v \in Versions, NEW b \in BOOLEAN, Collect(t, v, b),
               v <= Bound(t)
        PROVE  pending'[q][j].version <= Bound(u)'
    <3>1. CASE pending'[q][j] = [topic |-> t, version |-> v, late |-> b]
      <4>1. u = t /\ pending'[q][j].version = v /\ v \in Nat
        BY <1>4, <3>1, Constants
      <4>2. QED
        BY <1>1, <2>2, <4>1
    <3>2. QED
      BY <2>1, <2>2, <3>1, CollectMoves
  <2>3. CASE UNCHANGED pending
    BY <2>1, <2>3
  <2>4. CASE Looked /\ Published(Topic, found, FALSE)
    <3>1. Topic \in Topics /\ found \in Versions /\ found <= Bound(Topic) /\ FALSE \in BOOLEAN
      BY <1>1, <2>4, AtHand, Constants DEF Bound, TypeOK, LoopType
    <3>2. Collect(Topic, found, FALSE)
      BY <2>4 DEF Published
    <3>3. QED
      BY <2>2, <3>1, <3>2
  <2>5. ASSUME NEW r \in late, Published(r.topic, r.version, TRUE)
        PROVE  pending'[q][j].version <= Bound(u)'
    <3>1. r.topic \in Topics /\ r.version \in Versions /\ r.version <= Bound(r.topic)
      BY <1>2 DEF BoundInv
    <3>2. Collect(r.topic, r.version, TRUE)
      BY <2>5 DEF Published
    <3>3. QED
      BY <2>2, <3>1, <3>2
  <2>6. ASSUME NEW p \in Projectors, NEW i \in DOMAIN pending[p], Project(p, i) \/ Lose(p, i)
        PROVE  pending'[q][j].version <= Bound(u)'
    BY <2>1, <2>6, ProjectMoves, LoseMoves
  <2>7. QED
    BY <2>3, <2>4, <2>5, <2>6, PipelineStep DEF pipeline
<1>5. ASSUME NEW q \in Projectors, NEW t \in Topics
      PROVE  shown'[q][t] <= Bound(t)'
  <2>1. CASE shown'[q][t] = shown[q][t]
    BY <1>1, <1>2, <2>1 DEF BoundInv
  <2>2. ASSUME NEW p \in Projectors, NEW i \in DOMAIN pending[p], Project(p, i)
        PROVE  shown'[q][t] <= Bound(t)'
    <3>1. i \in 1..Len(pending[p])
      BY LenProperties DEF TypeOK, PipelineType
    <3>2. \/ shown'[q][t] = shown[q][t]
          \/ p = q /\ t = pending[p][i].topic /\ shown'[q][t] = pending[p][i].version
      BY <2>2 DEF Project, TypeOK, PipelineType, Copies
    <3>3. QED
      BY <1>1, <1>2, <2>1, <3>1, <3>2 DEF BoundInv
  <2>3. QED
    BY <2>1, <2>2, PipelineStep DEF pipeline, Published, Lose
<1>6. ASSUME NEW q \in Projectors, NEW j \in 1..Len(pending'[q])
      PROVE  pending'[q][j].topic \in Topics
  <2>1. pending'[q] \in Seq(EventsOfAgent)
    BY PipelineTypeKept DEF TypeOK, PipelineType
  <2>2. pending'[q][j] \in EventsOfAgent
    BY <2>1, ElementOfSeq
  <2>3. QED
    BY <2>2 DEF EventsOfAgent
<1>7. QED
  BY <1>1, <1>3, <1>4, <1>5, <1>6 DEF BoundInv

(* The parts of the events of the pipeline. *)
LEMMA EventParts ==
  ASSUME TypeOK, NEW p \in Projectors, NEW i \in 1..Len(pending[p])
  PROVE  /\ pending[p][i].topic \in Topics
         /\ pending[p][i].version \in Versions /\ pending[p][i].version \in Nat
         /\ shown[p][pending[p][i].topic] \in Nat
<1>1. pending[p][i] \in EventsOfAgent
  BY ElementOfSeq DEF TypeOK, PipelineType
<1>2. pending[p][i].topic \in Topics /\ pending[p][i].version \in Versions
  BY <1>1 DEF EventsOfAgent
<1>3. shown[p] \in Copies
  BY DEF TypeOK, PipelineType
<1>4. \A t \in Topics : shown[p][t] \in Nat
  BY <1>3, Constants DEF Copies
<1>5. QED
  BY <1>2, <1>4, Constants

(* What is shown of a topic changes only to the version of the event that  *)
(* is projected.                                                           *)
LEMMA Shows ==
  ASSUME TypeOK, NEW p \in Projectors, NEW i \in DOMAIN pending[p], Project(p, i),
         NEW q \in Projectors, NEW t \in Topics
  PROVE  \/ shown'[q][t] = shown[q][t]
         \/ q = p /\ t = pending[p][i].topic /\ shown'[q][t] = pending[p][i].version
BY DEF Project, TypeOK, PipelineType, Copies

(* The order of the events on their way is kept.                           *)
LEMMA OrderKept ==
  ASSUME TypeOK, BoundInv, OrderInv, [Next]_vars
  PROVE  OrderInv'
<1> SUFFICES ASSUME NEW q \in Projectors, NEW j \in 1..Len(pending'[q]), ~pending'[q][j].late
             PROVE  /\ \A h \in 1..(j - 1) : pending'[q][h].topic = pending'[q][j].topic
                                           => pending'[q][h].version <= pending'[q][j].version
                    /\ shown'[q][pending'[q][j].topic] <= pending'[q][j].version
  BY DEF OrderInv
<1> DEFINE Ordered(h) == pending'[q][h].topic = pending'[q][j].topic
                           => pending'[q][h].version <= pending'[q][j].version
           Ahead == shown'[q][pending'[q][j].topic] <= pending'[q][j].version
<1>1. pending[q] \in Seq(EventsOfAgent) /\ Len(pending[q]) \in Nat
      /\ pending'[q] \in Seq(EventsOfAgent) /\ Len(pending'[q]) \in Nat
  <2>1. pending'[q] \in Seq(EventsOfAgent)
    BY PipelineTypeKept DEF TypeOK, PipelineType
  <2>2. QED
    BY <2>1, LenProperties DEF TypeOK, PipelineType
<1>2. CASE UNCHANGED <<pending, shown>>
  BY <1>2 DEF OrderInv
<1>3. ASSUME NEW t \in Topics, NEW v \in Versions, NEW b \in BOOLEAN, Published(t, v, b),
             b \/ Bound(t) = v
      PROVE  (\A h \in 1..(j - 1) : Ordered(h)) /\ Ahead
  <2>1. Collect(t, v, b) /\ shown' = shown
    BY <1>3 DEF Published
  <2>2. CASE j \in 1..Len(pending[q]) /\ pending'[q][j] = pending[q][j]
    <3>1. ASSUME NEW h \in 1..(j - 1) PROVE Ordered(h)
      <4>1. h \in 1..Len(pending[q]) /\ h \in 1..Len(pending'[q]) /\ h # Len(pending[q]) + 1
        BY <1>1, <2>2
      <4>2. pending'[q][h] = pending[q][h]
        BY <2>1, <4>1, CollectMoves
      <4>3. QED
        BY <2>2, <4>2 DEF OrderInv
    <3>2. Ahead
      BY <2>1, <2>2 DEF OrderInv
    <3>3. QED
      BY <3>1, <3>2
  <2>3. CASE /\ j = Len(pending[q]) + 1
             /\ pending'[q][j] = [topic |-> t, version |-> v, late |-> b]
    <3>1. pending'[q][j].topic = t /\ pending'[q][j].version = v /\ Bound(t) = v
      BY <1>3, <2>3
    <3>2. ASSUME NEW h \in 1..(j - 1) PROVE Ordered(h)
      <4>1. h \in 1..Len(pending[q]) /\ h \in 1..Len(pending'[q]) /\ h # Len(pending[q]) + 1
        BY <1>1, <2>3
      <4>2. pending'[q][h] = pending[q][h]
        BY <2>1, <4>1, CollectMoves
      <4>3. pending[q][h].version <= Bound(pending[q][h].topic)
        BY <4>1 DEF BoundInv
      <4>4. QED
        BY <3>1, <4>2, <4>3
    <3>3. Ahead
      BY <2>1, <3>1 DEF BoundInv
    <3>4. QED
      BY <3>2, <3>3
  <2>4. QED
    BY <2>1, <2>2, <2>3, CollectMoves
<1>4. CASE Looked /\ Published(Topic, found, FALSE)
  <2>1. Topic \in Topics /\ found \in Versions /\ Bound(Topic) = found /\ FALSE \in BOOLEAN
    BY <1>4, AtHand DEF Bound, TypeOK, LoopType
  <2>2. QED
    BY <1>3, <1>4, <2>1
<1>5. ASSUME NEW r \in late, Published(r.topic, r.version, TRUE)
      PROVE  (\A h \in 1..(j - 1) : Ordered(h)) /\ Ahead
  <2>1. r.topic \in Topics /\ r.version \in Versions /\ TRUE \in BOOLEAN
    BY DEF TypeOK, PipelineType, Requests
  <2>2. QED
    BY <1>3, <1>5, <2>1
<1>6. ASSUME NEW p \in Projectors, NEW i \in DOMAIN pending[p], Project(p, i)
      PROVE  (\A h \in 1..(j - 1) : Ordered(h)) /\ Ahead
  <2> DEFINE k(h) == IF q = p THEN h + i ELSE h
  <2>1. i \in 1..Len(pending[p])
    BY LenProperties DEF TypeOK, PipelineType
  <2>2. \A h \in 1..j : k(h) \in 1..Len(pending[q]) /\ pending'[q][h] = pending[q][k(h)]
    BY <1>1, <1>6, ProjectMoves
  <2>3. \A h \in 1..(j - 1) : k(h) \in 1..(k(j) - 1)
    BY <1>1, <2>1
  <2>4. \A h \in 1..(j - 1) : Ordered(h)
    <3> SUFFICES ASSUME NEW h \in 1..(j - 1) PROVE Ordered(h)
      OBVIOUS
    <3>1. h \in 1..j /\ j \in 1..j
      BY <1>1
    <3> HIDE DEF k
    <3>2. QED
      BY <2>2, <2>3, <3>1 DEF OrderInv
  <2>5. Ahead
    <3> j \in 1..j
      BY <1>1
    <3> HIDE DEF k
    <3>1. k(j) \in 1..Len(pending[q]) /\ pending'[q][j] = pending[q][k(j)]
      BY <2>2
    <3>2. shown[q][pending[q][k(j)].topic] <= pending[q][k(j)].version
      BY <3>1 DEF OrderInv
    <3>3. CASE q = p /\ pending[p][i].topic = pending[q][k(j)].topic
      <4>1. i \in 1..(k(j) - 1)
        BY <1>1, <2>1, <3>3 DEF k
      <4>2. pending[q][i].version <= pending[q][k(j)].version
        BY <3>1, <3>3, <4>1 DEF OrderInv
      <4>3. pending[q][k(j)].topic \in Topics
        BY <3>1, EventParts
      <4>4. \/ shown'[q][pending[q][k(j)].topic] = shown[q][pending[q][k(j)].topic]
            \/ shown'[q][pending[q][k(j)].topic] = pending[p][i].version
        BY <1>6, <4>3, Shows
      <4>5. QED
        BY <3>1, <3>2, <3>3, <4>2, <4>4
    <3>4. CASE ~(q = p /\ pending[p][i].topic = pending[q][k(j)].topic)
      BY <1>6, <3>1, <3>2, <3>4, Shows, EventParts
    <3>5. QED
      BY <3>3, <3>4
  <2>6. QED
    BY <2>4, <2>5
<1>7. ASSUME NEW p \in Projectors, NEW i \in DOMAIN pending[p], Lose(p, i)
      PROVE  (\A h \in 1..(j - 1) : Ordered(h)) /\ Ahead
  <2> DEFINE k(h) == IF q = p /\ h >= i THEN h + 1 ELSE h
  <2>1. i \in 1..Len(pending[p])
    BY LenProperties DEF TypeOK, PipelineType
  <2>2. \A h \in 1..j : k(h) \in 1..Len(pending[q]) /\ pending'[q][h] = pending[q][k(h)]
    BY <1>1, <1>7, LoseMoves
  <2>3. \A h \in 1..(j - 1) : k(h) \in 1..(k(j) - 1)
    BY <1>1, <2>1
  <2>4. j \in 1..j /\ \A h \in 1..(j - 1) : h \in 1..j
    BY <1>1
  <2> HIDE DEF k
  <2>5. shown' = shown
    BY <1>7 DEF Lose
  <2>6. QED
    BY <2>2, <2>3, <2>4, <2>5 DEF OrderInv
<1>8. QED
  BY <1>2, <1>4, <1>5, <1>6, <1>7, PipelineStep DEF pipeline

(* A page about the agent's host goes back to an older version of a topic  *)
(* only by a request that the agent had given up (client.go:91-102,        *)
(* projector.go:56).                                                       *)
THEOREM ShownGoesForward == Spec => ShownGoesBackOnlyByLate
<1> DEFINE Inv == TypeOK /\ BoundInv /\ OrderInv
           Step == \A p \in Projectors : \A t \in Topics :
                     \/ shown'[p][t] >= shown[p][t]
                     \/ \E i \in DOMAIN pending[p] :
                          pending[p][i].late /\ pending[p][i].version = shown'[p][t]
<1>1. Init => BoundInv /\ OrderInv
  <2> SUFFICES ASSUME Init PROVE BoundInv /\ OrderInv
    OBVIOUS
  <2>1. \A p \in Projectors : Len(pending[p]) = 0
    BY EmptySeq DEF Init
  <2>2. ~Looked /\ late = {} /\ \A p \in Projectors, t \in Topics : shown[p][t] = 0 /\ fact[t] = 1
    BY DEF Init, Looked
  <2>3. QED
    BY <2>1, <2>2 DEF BoundInv, OrderInv, Bound
<1>2. Spec => []Inv
  <2>1. TypeOK /\ BoundInv /\ OrderInv /\ [Next]_vars => BoundInv' /\ OrderInv'
    BY BoundKept, OrderKept
  <2>2. QED
    BY <1>1, <2>1, TypeCorrect, PTL DEF Spec
<1>3. Inv /\ [Next]_vars => [Step]_vars
  <2> SUFFICES ASSUME Inv, [Next]_vars, NEW q \in Projectors, NEW t \in Topics,
                      ~(shown'[q][t] >= shown[q][t])
               PROVE  \E i \in DOMAIN pending[q] :
                        pending[q][i].late /\ pending[q][i].version = shown'[q][t]
    OBVIOUS
  <2>1. shown[q][t] \in Nat
    BY Constants DEF TypeOK, PipelineType, Copies
  <2>2. PICK p \in Projectors : \E i \in DOMAIN pending[p] : Project(p, i)
    <3>1. shown' # shown
      BY <2>1
    <3>2. \A p \in Projectors : \A i \in DOMAIN pending[p] : Lose(p, i) => shown' = shown
      BY DEF Lose
    <3>3. QED
      BY <3>1, <3>2, PipelineStep DEF pipeline, Published
  <2>3. PICK i \in DOMAIN pending[p] : Project(p, i)
    BY <2>2
  <2>4. q = p /\ t = pending[p][i].topic /\ shown'[q][t] = pending[p][i].version
    BY <2>1, <2>3, Shows
  <2>5. i \in 1..Len(pending[p]) /\ pending[p][i].version \in Nat
    BY EventParts, LenProperties DEF TypeOK, PipelineType
  <2>6. pending[p][i].late
    BY <2>1, <2>4, <2>5 DEF OrderInv
  <2>7. QED
    BY <2>4, <2>6
<1>4. QED
  BY <1>2, <1>3, PTL DEF Spec, ShownGoesBackOnlyByLate

=============================================================================
