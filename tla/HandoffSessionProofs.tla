------------------------ MODULE HandoffSessionProofs ------------------------
(***************************************************************************)
(* Proofs about HandoffSession, for any sessions, tries, limits and events *)
(* of an agent, and any number of faults and restarts.                     *)
(***************************************************************************)
EXTENDS HandoffSession, FiniteSetTheorems, SequenceTheorems, TLAPS

(* The agent has nothing to report after it reported completion. *)
CompletedIsLast ==
  \A i \in DOMAIN AgentEvents : AgentEvents[i] = "completed" => i = Len(AgentEvents)

(* A session that is handed to a webhook: it is stored once by its creator *)
(* and from then on by callbacks, which find it stored.                    *)
RemoteInv(s) ==
  /\ run[s] = Idle
  /\ draft[s] \in {"created", "queued", "failed"}
  /\ draft[s] = "queued" => received[s]
  /\ session[s] = "queued" => received[s]
  /\ create[s] \in {"idle", "delivering", "upsert"} => session[s] = "absent"
  /\ callback[s] # "none" => sent[s] \in DOMAIN AgentEvents
  /\ callback[s] \in {"upsert", "append"} => session[s] # "absent"

(* After completion was stored the agent is through with its events. *)
ThroughInv(s) ==
  session[s] = "completed" =>
    sent[s] = Len(AgentEvents) /\ callback[s] \notin {"reading", "upsert"}

(* The status a local run stores with an event. *)
RunStatus(event) == IF event = "started_work" THEN "in_progress" ELSE event

(* A session that runs on the backend has one writer at a time: first its  *)
(* creator, then its run, which records each event with its status.        *)
LocalInv(s) ==
  /\ create[s] # "delivering" /\ ~received[s] /\ callback[s] = "none"
  /\ create[s] # "done" => run[s].at = "none"
  /\ create[s] = "upsert" => draft[s] = "queued"
  /\ run[s].at \in Writing => /\ run[s].event \in {"started_work", "pr_opened", "completed", "failed"}
                              /\ draft[s] = RunStatus(run[s].event)

(* A completion that is stored and not yet told will be, or is about to be *)
(* replaced by the failure that its recording met with.                    *)
ToldInv(s) ==
  faults <= 1 /\ session[s] = "completed" /\ "completed" \notin Told(s) =>
    \/ run[s].at = "append" /\ run[s].event = "completed"
    \/ run[s].at = "upsert" /\ run[s].event = "failed" /\ faults = 1
    \/ run[s].at = "lost"

(* While the limit is left alone all runs share one semaphore of its size. *)
SlotInv ==
  changes = 0 =>
    /\ \A s \in Local : run[s].at \in AtWork \cup {"waiting"} => slot[s] = pool /\ pool.size = limit
    /\ Cardinality({s \in Local : run[s].at \in AtWork}) <= limit

IInv ==
  /\ TypeOK
  /\ \A s \in Remote : RemoteInv(s)
  /\ \A s \in Local : LocalInv(s) /\ ToldInv(s)
  /\ SlotInv

-----------------------------------------------------------------------------
(* The messages of a session after one was appended.                       *)
ToldIn(seq) == {seq[i] : i \in DOMAIN seq}

LEMMA AppendTells ==
  ASSUME NEW S, NEW seq \in Seq(S), NEW e \in S
  PROVE  Append(seq, e) \in Seq(S) /\ ToldIn(Append(seq, e)) = ToldIn(seq) \cup {e}
<1>1. /\ Append(seq, e) \in Seq(S) /\ Len(Append(seq, e)) = Len(seq) + 1
      /\ \A i \in 1..Len(seq) : Append(seq, e)[i] = seq[i]
      /\ Append(seq, e)[Len(seq) + 1] = e
  BY AppendProperties
<1>2. /\ DOMAIN seq = 1..Len(seq) /\ Len(seq) \in Nat
      /\ DOMAIN Append(seq, e) = 1..Len(Append(seq, e))
  BY <1>1, LenProperties
<1>3. DOMAIN Append(seq, e) = DOMAIN seq \cup {Len(seq) + 1}
  BY <1>1, <1>2
<1> QED BY <1>1, <1>2, <1>3 DEF ToldIn

LEMMA EventsOfAgent ==
  /\ Len(AgentEvents) \in Nat /\ DOMAIN AgentEvents = 1..Len(AgentEvents)
  /\ \A i \in DOMAIN AgentEvents : AgentEvents[i] \in Events
BY EventAssumption, LenProperties, ElementOfSeq

LEMMA StatusAfterType ==
  ASSUME NEW event \in Events, NEW status \in Statuses
  PROVE  /\ StatusAfter(event, status) \in Statuses \ {"absent", "created", "queued"}
         /\ StatusAfter(event, status) = "completed" => event = "completed"
         /\ event = "completed" => StatusAfter(event, status) = "completed"
         /\ event \in {"started_work", "pr_opened", "completed", "failed"} =>
              StatusAfter(event, status) = RunStatus(event)
BY DEF Events, Statuses, StatusAfter, RunStatus

-----------------------------------------------------------------------------
(* Type correctness.                                                       *)
USE DEF createVars, agentVars, localVars

Points == {"none", "scheduled", "waiting", "ended", "lost"} \cup AtWork

LEMMA GotoIs ==
  ASSUME TypeOK, NEW s \in Sessions, NEW a, NEW e, Goto(s, a, e)
  PROVE  /\ run'[s].at = a /\ run'[s].event = e
         /\ \A x \in Sessions \ {s} : run'[x] = run[x]
BY DEF TypeOK, Goto

LEMMA GotoType ==
  ASSUME TypeOK, NEW s \in Sessions, NEW a \in Points, NEW e \in Events \cup {"none"}, Goto(s, a, e)
  PROVE  run' \in [Sessions -> Runs]
BY DEF TypeOK, Goto, Runs, Points

LEMMA RecordType ==
  ASSUME TypeOK, NEW s \in Sessions, NEW e \in Events, Record(s, e)
  PROVE  run' \in [Sessions -> Runs] /\ draft' \in [Sessions -> Statuses]
<1>1. run' \in [Sessions -> Runs]
  BY GotoType DEF Record, Points, AtWork
<1>2. StatusAfter(e, draft[s]) \in Statuses
  BY StatusAfterType DEF TypeOK
<1> QED BY <1>1, <1>2 DEF Record, TypeOK

LEMMA CreationType ==
  ASSUME TypeOK, NEW s \in Sessions, Creation(s)
  PROVE  TypeOK'
<1>1. CASE Request(s)
  BY <1>1 DEF Request, TypeOK, Statuses
<1>2. CASE Deliver(s)
  <2>1. PICK got \in BOOLEAN, answer \in {"ok", "refused", "retry"} :
          /\ received' = [received EXCEPT ![s] = @ \/ got]
          /\ \/ UNCHANGED <<create, draft>>
             \/ /\ create' = [create EXCEPT ![s] = "upsert"]
                /\ draft' = [draft EXCEPT ![s] = IF answer = "ok" THEN "queued" ELSE "failed"]
    BY <1>2 DEF Deliver
  <2>2. received' \in [Sessions -> BOOLEAN]
    BY <2>1, Zenon DEF TypeOK
  <2>3. /\ create' \in [Sessions -> {"idle", "delivering", "upsert", "append", "audit", "done"}]
        /\ draft' \in [Sessions -> Statuses]
    BY <2>1 DEF TypeOK, Statuses
  <2>4. tries' \in [Sessions -> Nat]
    BY <1>2 DEF Deliver, TypeOK
  <2> QED BY <1>2, <2>2, <2>3, <2>4 DEF Deliver, TypeOK
<1>3. CASE StoreSession(s)
  BY <1>3 DEF StoreSession, TypeOK
<1>4. CASE StoreDelegated(s)
  <2>1. Append(log[s], "delegated") \in Seq(Events \cup {"delegated"})
    BY AppendTells DEF TypeOK
  <2> QED BY <1>4, <2>1 DEF StoreDelegated, TypeOK
<1>5. CASE Schedule(s)
  <2>1. run' \in [Sessions -> Runs]
    BY <1>5, GotoType DEF Schedule, Points, TypeOK
  <2> QED BY <1>5, <2>1 DEF Schedule, TypeOK
<1> QED BY <1>1, <1>2, <1>3, <1>4, <1>5 DEF Creation

SentInv == \A s \in Sessions : callback[s] # "none" => sent[s] \in DOMAIN AgentEvents

LEMMA ReportingType ==
  ASSUME TypeOK, SentInv, NEW s \in Sessions, Reporting(s)
  PROVE  TypeOK' /\ SentInv'
<1> USE EventsOfAgent
<1>1. CASE AgentReports(s)
  <2>1. sent[s] \in 0..Len(AgentEvents) /\ sent[s] < Len(AgentEvents)
    BY <1>1 DEF AgentReports, TypeOK
  <2>2. sent[s] + 1 \in 0..Len(AgentEvents) /\ sent[s] + 1 \in DOMAIN AgentEvents
    BY <2>1
  <2>3. sent' \in [Sessions -> 0..Len(AgentEvents)]
    BY <1>1, <2>2 DEF AgentReports, TypeOK
  <2>4. TypeOK'
    BY <1>1, <2>3 DEF AgentReports, TypeOK
  <2>5. SentInv'
    BY <1>1, <2>2 DEF AgentReports, TypeOK, SentInv
  <2> QED BY <2>4, <2>5
<1>2. CASE ReadSession(s)
  BY <1>2 DEF ReadSession, TypeOK, SentInv
<1>3. CASE StoreEvent(s)
  <2>1. StatusAfter(AgentEvents[sent[s]], session[s]) \in Statuses
    BY <1>3, StatusAfterType DEF StoreEvent, TypeOK, SentInv
  <2> QED BY <1>3, <2>1 DEF StoreEvent, TypeOK, SentInv
<1>4. CASE AppendEvent(s)
  <2>1. Append(log[s], AgentEvents[sent[s]]) \in Seq(Events \cup {"delegated"})
    BY <1>4, AppendTells DEF AppendEvent, TypeOK, SentInv
  <2> QED BY <1>4, <2>1 DEF AppendEvent, TypeOK, SentInv
<1> QED BY <1>1, <1>2, <1>3, <1>4 DEF Reporting

(* What a local run records is an event. *)
EventInv == \A s \in Sessions : run[s].at \in Writing => run[s].event \in Events

LEMMA LogWrite ==
  ASSUME TypeOK, EventInv, NEW s \in Sessions, run[s].at \in Writing
  PROVE  /\ run[s].event \in Events
         /\ [log EXCEPT ![s] = Append(@, run[s].event)] \in [Sessions -> Seq(Events \cup {"delegated"})]
         /\ [session EXCEPT ![s] = draft[s]] \in [Sessions -> Statuses]
<1>1. run[s].event \in Events
  BY DEF EventInv
<1>2. Append(log[s], run[s].event) \in Seq(Events \cup {"delegated"})
  BY <1>1, AppendTells DEF TypeOK
<1> QED BY <1>1, <1>2 DEF TypeOK

LEMMA LocalRunType ==
  ASSUME TypeOK, EventInv, NEW s \in Sessions, LocalRun(s) \/ WriteFails(s)
  PROVE  TypeOK'
<1> USE DEF Points, AtWork, Events
<1>1. CASE TakeSemaphore(s)
  <2>1. run' \in [Sessions -> Runs]
    BY <1>1, GotoType DEF TakeSemaphore
  <2>2. limit \in Nat
    BY BoundAssumption DEF TypeOK
  <2>3. pool' \in [number : Nat, size : Nat]
    BY <1>1, <2>2 DEF TakeSemaphore, TypeOK
  <2>4. slot' \in [Sessions -> [number : Nat, size : Nat]]
    BY <1>1, <2>3 DEF TakeSemaphore, TypeOK
  <2> QED BY <1>1, <2>1, <2>3, <2>4 DEF TakeSemaphore, TypeOK
<1>2. CASE Acquire(s)
  <2>1. run' \in [Sessions -> Runs] /\ draft' \in [Sessions -> Statuses]
    BY <1>2, RecordType DEF Acquire
  <2> QED BY <1>2, <2>1 DEF Acquire, TypeOK
<1>3. CASE Work(s)
  <2>1. run' \in [Sessions -> Runs] /\ draft' \in [Sessions -> Statuses]
    BY <1>3, RecordType, GotoType DEF Work, TypeOK
  <2> QED BY <1>3, <2>1 DEF Work, TypeOK
<1>4. CASE Publish(s)
  <2>1. run' \in [Sessions -> Runs] /\ draft' \in [Sessions -> Statuses]
    BY <1>4, RecordType DEF Publish
  <2> QED BY <1>4, <2>1 DEF Publish, TypeOK
<1>5. CASE WriteSession(s)
  <2>1. run' \in [Sessions -> Runs]
    BY <1>5, LogWrite, GotoType DEF WriteSession, Writing
  <2> QED BY <1>5, <2>1, LogWrite DEF WriteSession, Writing, TypeOK
<1>6. CASE WriteMessage(s)
  <2>1. run' \in [Sessions -> Runs]
    BY <1>6, LogWrite, GotoType DEF WriteMessage, Writing
  <2> QED BY <1>6, <2>1, LogWrite DEF WriteMessage, Writing, TypeOK
<1>7. CASE WriteAudit(s)
  <2>1. run' \in [Sessions -> Runs] /\ draft' \in [Sessions -> Statuses]
    BY <1>7, RecordType, GotoType DEF WriteAudit, TypeOK
  <2> QED BY <1>7, <2>1 DEF WriteAudit, TypeOK
<1>8. CASE WriteFails(s)
  <2>1. run' \in [Sessions -> Runs] /\ draft' \in [Sessions -> Statuses]
    BY <1>8, RecordType, GotoType DEF WriteFails, TypeOK
  <2>2. /\ log' \in [Sessions -> Seq(Events \cup {"delegated"})]
        /\ session' \in [Sessions -> Statuses]
    <3>1. run[s].at \in Writing
      BY <1>8 DEF WriteFails
    <3>2. \/ UNCHANGED <<session, log>>
          \/ session' = [session EXCEPT ![s] = draft[s]] /\ UNCHANGED log
          \/ log' = [log EXCEPT ![s] = Append(@, run[s].event)] /\ UNCHANGED session
      BY <1>8 DEF WriteFails
    <3>3. log' \in [Sessions -> Seq(Events \cup {"delegated"})]
      <4> DEFINE L   == [Sessions -> Seq(Events \cup {"delegated"})]
                 new == [log EXCEPT ![s] = Append(@, run[s].event)]
      <4>1. new \in L
        BY <3>1, LogWrite
      <4>2. log \in L
        BY DEF TypeOK
      <4>3. log' = log \/ log' = new
        BY <3>2
      <4> HIDE DEF L, new
      <4>4. log' \in L
        BY <4>1, <4>2, <4>3
      <4> QED BY <4>4 DEF L
    <3>4. session' \in [Sessions -> Statuses]
      BY <3>1, <3>2, LogWrite, ZenonT(30) DEF TypeOK
    <3> QED BY <3>3, <3>4
  <2>3. faults' \in Nat /\ UNCHANGED <<asked, createVars, agentVars, slot, pool, limit, changes, restarts>>
    BY <1>8 DEF WriteFails, TypeOK
  <2> QED BY <2>1, <2>2, <2>3 DEF TypeOK
<1> QED BY <1>1, <1>2, <1>3, <1>4, <1>5, <1>6, <1>7, <1>8 DEF LocalRun

LEMMA OtherType ==
  ASSUME TypeOK, ChangeLimit \/ Restart \/ UNCHANGED vars
  PROVE  TypeOK'
<1>1. CASE ChangeLimit
  BY <1>1 DEF ChangeLimit, TypeOK
<1>2. CASE Restart
  <2>1. [Idle EXCEPT !.at = "lost"] \in Runs
    BY DEF Idle, Runs
  <2>2. run' \in [Sessions -> Runs]
    BY <1>2, <2>1 DEF Restart, TypeOK
  <2>3. create' \in [Sessions -> {"idle", "delivering", "upsert", "append", "audit", "done"}]
    BY <1>2 DEF Restart, TypeOK
  <2>4. callback' \in [Sessions -> {"none", "reading", "upsert", "append"}]
    BY <1>2 DEF Restart
  <2>5. pool' \in [number : Nat, size : Nat] /\ restarts' \in Nat
    BY <1>2 DEF Restart, TypeOK
  <2> QED BY <1>2, <2>2, <2>3, <2>4, <2>5 DEF Restart, TypeOK
<1>3. CASE UNCHANGED vars
  BY <1>3 DEF vars, TypeOK
<1> QED BY <1>1, <1>2, <1>3

LEMMA SentStep == TypeOK /\ SentInv /\ [Next]_vars => SentInv'
<1> SUFFICES ASSUME TypeOK, SentInv, [Next]_vars PROVE SentInv'
  OBVIOUS
<1>1. ASSUME NEW s \in Sessions, Creation(s) PROVE SentInv'
  BY <1>1 DEF Creation, Request, Deliver, StoreSession, StoreDelegated, Schedule, SentInv
<1>2. ASSUME NEW s \in Sessions, Reporting(s) PROVE SentInv'
  BY <1>2, ReportingType
<1>3. ASSUME NEW s \in Sessions, LocalRun(s) \/ WriteFails(s) PROVE SentInv'
  BY <1>3 DEF LocalRun, TakeSemaphore, Acquire, Work, Publish, WriteSession, WriteMessage,
              WriteAudit, WriteFails, SentInv
<1> QED BY <1>1, <1>2, <1>3 DEF Next, ChangeLimit, Restart, vars, SentInv, TypeOK

LEMMA EventStep == TypeOK /\ EventInv /\ [Next]_vars => EventInv'
<1> SUFFICES ASSUME TypeOK, EventInv, [Next]_vars PROVE EventInv'
  OBVIOUS
<1>1. ASSUME NEW s \in Sessions, Creation(s) PROVE EventInv'
  <2>1. run' = run \/ Goto(s, "scheduled", "none")
    BY <1>1 DEF Creation, Request, Deliver, StoreSession, StoreDelegated, Schedule
  <2>2. CASE run' = run
    BY <2>2 DEF EventInv
  <2>3. CASE Goto(s, "scheduled", "none")
    BY <2>3, GotoIs DEF EventInv, Writing
  <2> QED BY <2>1, <2>2, <2>3
<1>2. ASSUME NEW s \in Sessions, Reporting(s) PROVE EventInv'
  BY <1>2 DEF Reporting, AgentReports, ReadSession, StoreEvent, AppendEvent, EventInv
<1>3. ASSUME NEW s \in Sessions, LocalRun(s) \/ WriteFails(s) PROVE EventInv'
  <2>1. \/ \E a \in {"waiting", "working", "publishing", "ended"} : Goto(s, a, "none")
        \/ \E a \in Writing, e \in {"started_work", "pr_opened", "completed", "failed"} : Goto(s, a, e)
        \/ \E a \in Writing : run[s].at \in Writing /\ Goto(s, a, run[s].event)
    <3>1. CASE TakeSemaphore(s)
      BY <3>1 DEF TakeSemaphore
    <3>2. CASE Acquire(s)
      BY <3>2 DEF Acquire, Record, Writing
    <3>3. CASE Work(s)
      BY <3>3 DEF Work, Record, Writing
    <3>4. CASE Publish(s)
      BY <3>4 DEF Publish, Record, Writing
    <3>5. CASE WriteSession(s) \/ WriteMessage(s)
      BY <3>5 DEF WriteSession, WriteMessage, Writing
    <3>6. CASE WriteAudit(s)
      BY <3>6 DEF WriteAudit, Record, Writing
    <3>7. CASE WriteFails(s)
      BY <3>7 DEF WriteFails, Record, Writing
    <3> QED BY <1>3, <3>1, <3>2, <3>3, <3>4, <3>5, <3>6, <3>7 DEF LocalRun
  <2>2. CASE \E a \in {"waiting", "working", "publishing", "ended"} : Goto(s, a, "none")
    BY <2>2, GotoIs DEF EventInv, Writing
  <2>3. CASE \E a \in Writing, e \in {"started_work", "pr_opened", "completed", "failed"} : Goto(s, a, e)
    BY <2>3, GotoIs DEF EventInv, Events
  <2>4. CASE \E a \in Writing : run[s].at \in Writing /\ Goto(s, a, run[s].event)
    BY <2>4, GotoIs DEF EventInv
  <2> QED BY <2>1, <2>2, <2>3, <2>4
<1>4. CASE Restart
  BY <1>4 DEF Restart, EventInv, TypeOK, Idle, Writing
<1> QED BY <1>1, <1>2, <1>3, <1>4 DEF Next, ChangeLimit, vars, EventInv

LEMMA TypeStep == TypeOK /\ SentInv /\ EventInv /\ [Next]_vars => TypeOK'
BY CreationType, ReportingType, LocalRunType, OtherType DEF Next

LEMMA TypeInit == Init => TypeOK /\ SentInv /\ EventInv
<1> SUFFICES ASSUME Init PROVE TypeOK /\ SentInv /\ EventInv
  OBVIOUS
<1>1. Idle \in Runs
  BY DEF Idle, Runs
<1>2. <<>> \in Seq(Events \cup {"delegated"})
  BY EmptySeq
<1>3. TypeOK
  BY <1>1, <1>2, TogetherAssumption, EventsOfAgent DEF Init, TypeOK, Statuses
<1> QED BY <1>3 DEF Init, SentInv, EventInv, Idle, Writing

(* Every variable stays in its type. *)
THEOREM TypeCorrect == Spec => []TypeOK
BY TypeInit, TypeStep, SentStep, EventStep, PTL DEF Spec

-----------------------------------------------------------------------------
(* A step of one session leaves the others alone.                          *)
SameAs(s) ==
  /\ session'[s] = session[s] /\ log'[s] = log[s] /\ draft'[s] = draft[s]
  /\ create'[s] = create[s] /\ received'[s] = received[s]
  /\ sent'[s] = sent[s] /\ callback'[s] = callback[s] /\ run'[s] = run[s] /\ slot'[s] = slot[s]

StepOf(s) == Creation(s) \/ Reporting(s) \/ LocalRun(s) \/ WriteFails(s)

LEMMA RunMoves ==
  ASSUME TypeOK, NEW s \in Sessions, LocalRun(s) \/ WriteFails(s), NEW x \in Sessions \ {s}
  PROVE  SameAs(x)
<1> USE DEF Record, Goto, TypeOK, SameAs
<1>1. CASE TakeSemaphore(s)
  BY <1>1 DEF TakeSemaphore
<1>2. CASE Acquire(s) \/ Publish(s)
  BY <1>2 DEF Acquire, Publish
<1>3. CASE Work(s)
  BY <1>3 DEF Work
<1>4. CASE WriteSession(s) \/ WriteMessage(s)
  BY <1>4 DEF WriteSession, WriteMessage
<1>5. CASE WriteAudit(s)
  BY <1>5 DEF WriteAudit
<1>6. CASE WriteFails(s)
  <2>1. session'[x] = session[x] /\ log'[x] = log[x]
    BY <1>6 DEF WriteFails
  <2>2. draft'[x] = draft[x] /\ run'[x] = run[x]
    BY <1>6 DEF WriteFails
  <2> QED BY <1>6, <2>1, <2>2 DEF WriteFails
<1> QED BY <1>1, <1>2, <1>3, <1>4, <1>5, <1>6 DEF LocalRun

LEMMA Elsewhere ==
  ASSUME TypeOK, NEW s \in Sessions, StepOf(s), NEW x \in Sessions \ {s}
  PROVE  SameAs(x)
<1>1. CASE Request(s)
  BY <1>1 DEF Request, TypeOK, SameAs
<1>2. CASE Deliver(s)
  BY <1>2 DEF Deliver, TypeOK, SameAs
<1>3. CASE StoreSession(s) \/ StoreDelegated(s)
  BY <1>3 DEF StoreSession, StoreDelegated, TypeOK, SameAs
<1>4. CASE Schedule(s)
  BY <1>4 DEF Schedule, Goto, TypeOK, SameAs
<1>5. CASE Reporting(s)
  BY <1>5 DEF Reporting, AgentReports, ReadSession, StoreEvent, AppendEvent, TypeOK, SameAs
<1> QED BY <1>1, <1>2, <1>3, <1>4, <1>5, RunMoves DEF StepOf, Creation

-----------------------------------------------------------------------------
(* Sessions that are handed to a webhook.                                  *)
LEMMA RemoteKeeps ==
  ASSUME TypeOK, NEW s \in Remote, RemoteInv(s), StepOf(s)
  PROVE  RemoteInv(s)'
<1> USE SessionAssumption
<1>1. s \in Sessions /\ s \notin Local
  BY DEF Remote
<1>2. run[s].at = "none"
  BY DEF RemoteInv, Idle
<1>3. CASE Request(s)
  BY <1>1, <1>3 DEF Request, TypeOK, RemoteInv
<1>4. CASE Deliver(s)
  <2>1. PICK got \in BOOLEAN, answer \in {"ok", "refused", "retry"} :
          /\ answer = "ok" => got
          /\ received' = [received EXCEPT ![s] = @ \/ got]
          /\ \/ UNCHANGED <<create, draft>>
             \/ /\ create' = [create EXCEPT ![s] = "upsert"]
                /\ draft' = [draft EXCEPT ![s] = IF answer = "ok" THEN "queued" ELSE "failed"]
    BY <1>4 DEF Deliver
  <2>2. received'[s] <=> received[s] \/ got
    BY <1>1, <2>1, Zenon DEF TypeOK
  <2>3. /\ create[s] = "delivering" /\ create'[s] \in {"delivering", "upsert"}
        /\ \/ draft'[s] = draft[s]
           \/ draft'[s] = IF answer = "ok" THEN "queued" ELSE "failed"
    BY <1>1, <1>4, <2>1 DEF Deliver, TypeOK
  <2>4. run'[s] = run[s] /\ session'[s] = session[s] /\ callback'[s] = callback[s] /\ sent'[s] = sent[s]
    BY <1>4 DEF Deliver
  <2> QED BY <2>1, <2>2, <2>3, <2>4 DEF RemoteInv
<1>5. CASE StoreSession(s)
  BY <1>1, <1>5 DEF StoreSession, TypeOK, RemoteInv
<1>6. CASE StoreDelegated(s) \/ Schedule(s)
  BY <1>1, <1>6 DEF StoreDelegated, Schedule, TypeOK, RemoteInv
<1>7. CASE AgentReports(s)
  <2>1. sent[s] + 1 \in DOMAIN AgentEvents
    BY <1>1, <1>7, EventsOfAgent DEF AgentReports, TypeOK
  <2> QED BY <1>1, <1>7, <2>1 DEF AgentReports, TypeOK, RemoteInv
<1>8. CASE ReadSession(s)
  BY <1>1, <1>8 DEF ReadSession, TypeOK, RemoteInv
<1>9. CASE StoreEvent(s)
  <2>1. session'[s] \notin {"absent", "created", "queued"}
    BY <1>1, <1>9, EventsOfAgent, StatusAfterType DEF StoreEvent, RemoteInv, TypeOK
  <2> QED BY <1>1, <1>9, <2>1 DEF StoreEvent, TypeOK, RemoteInv
<1>10. CASE AppendEvent(s)
  BY <1>1, <1>10 DEF AppendEvent, TypeOK, RemoteInv
<1>11. CASE LocalRun(s) \/ WriteFails(s)
  BY <1>2, <1>11 DEF LocalRun, TakeSemaphore, Acquire, Work, Publish, WriteSession, WriteMessage,
                     WriteAudit, WriteFails, Writing
<1> QED BY <1>3, <1>4, <1>5, <1>6, <1>7, <1>8, <1>9, <1>10, <1>11 DEF StepOf, Creation, Reporting

LEMMA ThroughKeeps ==
  ASSUME CompletedIsLast, TypeOK, NEW s \in Remote, RemoteInv(s), ThroughInv(s), StepOf(s)
  PROVE  ThroughInv(s)'
<1> USE SessionAssumption
<1>1. s \in Sessions /\ s \notin Local
  BY DEF Remote
<1>2. run[s].at = "none"
  BY DEF RemoteInv, Idle
<1>3. CASE Request(s) \/ StoreDelegated(s) \/ Schedule(s)
  BY <1>1, <1>3 DEF Request, StoreDelegated, Schedule, TypeOK, ThroughInv
<1>4. CASE Deliver(s)
  BY <1>1, <1>4 DEF Deliver, TypeOK, ThroughInv
<1>5. CASE StoreSession(s)
  BY <1>1, <1>5 DEF StoreSession, TypeOK, RemoteInv, ThroughInv
<1>6. CASE AgentReports(s)
  BY <1>1, <1>6, EventsOfAgent DEF AgentReports, TypeOK, ThroughInv
<1>7. CASE ReadSession(s) \/ AppendEvent(s)
  BY <1>1, <1>7 DEF ReadSession, AppendEvent, TypeOK, ThroughInv
<1>8. CASE StoreEvent(s)
  <2>1. session'[s] = "completed" => AgentEvents[sent[s]] = "completed"
    BY <1>1, <1>8, EventsOfAgent, StatusAfterType DEF StoreEvent, RemoteInv, TypeOK
  <2>2. sent[s] \in DOMAIN AgentEvents /\ sent' = sent /\ callback'[s] = "append"
    BY <1>1, <1>8 DEF StoreEvent, RemoteInv, TypeOK
  <2> QED BY <2>1, <2>2 DEF CompletedIsLast, ThroughInv
<1>9. CASE LocalRun(s) \/ WriteFails(s)
  BY <1>2, <1>9 DEF LocalRun, TakeSemaphore, Acquire, Work, Publish, WriteSession, WriteMessage,
                    WriteAudit, WriteFails, Writing
<1> QED BY <1>3, <1>4, <1>5, <1>6, <1>7, <1>8, <1>9 DEF StepOf, Creation, Reporting

LEMMA RemoteStep ==
  ASSUME TypeOK, \A s \in Remote : RemoteInv(s), [Next]_vars, NEW s \in Remote
  PROVE  /\ RemoteInv(s)'
         /\ CompletedIsLast /\ ThroughInv(s) => ThroughInv(s)'
<1>1. s \in Sessions
  BY DEF Remote
<1>2. CASE StepOf(s)
  BY <1>2, RemoteKeeps, ThroughKeeps
<1>3. CASE SameAs(s)
  BY <1>3 DEF SameAs, RemoteInv, ThroughInv
<1>4. ASSUME NEW x \in Sessions \ {s}, StepOf(x) PROVE SameAs(s)
  BY <1>1, <1>4, Elsewhere
<1>5. CASE Restart
  <2>1. /\ session'[s] = session[s] /\ draft'[s] = draft[s] /\ received'[s] = received[s]
        /\ sent'[s] = sent[s] /\ callback'[s] = "none"
        /\ create'[s] = IF create[s] = "idle" THEN "idle" ELSE "done"
        /\ run[s].at = "none" => run'[s] = run[s]
    BY <1>1, <1>5 DEF Restart
  <2> QED BY <2>1 DEF RemoteInv, ThroughInv, Idle
<1>6. CASE ChangeLimit \/ UNCHANGED vars
  BY <1>3, <1>6 DEF ChangeLimit, vars, SameAs
<1> QED BY <1>2, <1>3, <1>4, <1>5, <1>6 DEF Next, StepOf

-----------------------------------------------------------------------------
(* Sessions that run on the backend.  What a step of a run does.           *)
LEMMA RecordIs ==
  ASSUME TypeOK, NEW s \in Sessions, NEW e \in {"started_work", "pr_opened", "completed", "failed"},
         Record(s, e)
  PROVE  run'[s].at = "upsert" /\ run'[s].event = e /\ draft'[s] = RunStatus(e)
<1>1. run'[s].at = "upsert" /\ run'[s].event = e
  BY GotoIs DEF Record
<1>2. StatusAfter(e, draft[s]) = RunStatus(e)
  BY StatusAfterType DEF TypeOK, Events
<1> QED BY <1>1, <1>2 DEF Record, TypeOK

(* The recording of an event begins, or goes on, or there is none.         *)
LEMMA RunIs ==
  ASSUME TypeOK, NEW s \in Sessions, LocalRun(s)
  PROVE  /\ run[s].at \notin {"none", "ended", "lost"}
         /\ \/ /\ run[s].at \notin {"upsert", "append"}
               /\ session' = session /\ log' = log
               /\ \/ /\ run'[s].at = "upsert" /\ draft'[s] = RunStatus(run'[s].event)
                     /\ run'[s].event \in {"started_work", "pr_opened", "completed", "failed"}
                  \/ run'[s].at \in {"waiting", "working", "publishing", "ended"} /\ draft' = draft
            \/ /\ run[s].at = "upsert" /\ run'[s].at = "append" /\ run'[s].event = run[s].event
               /\ session'[s] = draft[s] /\ log' = log /\ draft' = draft
            \/ /\ run[s].at = "append" /\ run'[s].at = "audit" /\ run'[s].event = run[s].event
               /\ session' = session /\ draft' = draft
               /\ log'[s] = Append(log[s], run[s].event)
         /\ faults' = faults /\ UNCHANGED <<createVars, agentVars>>
<1>1. CASE TakeSemaphore(s)
  BY <1>1, GotoIs DEF TakeSemaphore
<1>2. CASE Acquire(s)
  BY <1>2, RecordIs DEF Acquire
<1>3. CASE Work(s)
  <2>1. /\ run[s].at = "working" /\ session' = session /\ log' = log
        /\ faults' = faults /\ UNCHANGED <<createVars, agentVars>>
    BY <1>3 DEF Work
  <2>2. CASE Goto(s, "publishing", "none") /\ UNCHANGED draft
    BY <2>1, <2>2, GotoIs
  <2>3. CASE Record(s, "completed") \/ Record(s, "failed")
    BY <2>1, <2>3, RecordIs
  <2> QED BY <1>3, <2>2, <2>3 DEF Work
<1>4. CASE Publish(s)
  BY <1>4, RecordIs DEF Publish
<1>5. CASE WriteSession(s)
  <2>1. /\ Goto(s, "append", run[s].event) /\ draft' = draft
        /\ run[s].at = "upsert"
    BY <1>5 DEF WriteSession
  <2>2. run'[s].at = "append" /\ run'[s].event = run[s].event
    BY <2>1, GotoIs
  <2>3. /\ session'[s] = draft[s] /\ log' = log /\ faults' = faults
        /\ UNCHANGED <<createVars, agentVars>>
    BY <1>5 DEF WriteSession, TypeOK
  <2> QED BY <2>1, <2>2, <2>3
<1>6. CASE WriteMessage(s)
  <2>1. /\ run[s].at = "append" /\ run'[s].at = "audit" /\ run'[s].event = run[s].event
        /\ session' = session /\ draft' = draft
        /\ faults' = faults /\ UNCHANGED <<createVars, agentVars>>
    BY <1>6, GotoIs DEF WriteMessage
  <2>2. log'[s] = Append(log[s], run[s].event)
    BY <1>6 DEF WriteMessage, TypeOK
  <2> QED BY <2>1, <2>2
<1>7. CASE WriteAudit(s)
  <2>1. /\ run[s].at = "audit" /\ session' = session /\ log' = log
        /\ faults' = faults /\ UNCHANGED <<createVars, agentVars>>
    BY <1>7 DEF WriteAudit
  <2>2. CASE (Goto(s, "working", "none") \/ Goto(s, "ended", "none")) /\ UNCHANGED draft
    BY <2>1, <2>2, GotoIs
  <2>3. CASE Record(s, "completed")
    BY <2>1, <2>3, RecordIs
  <2> QED BY <1>7, <2>2, <2>3 DEF WriteAudit
<1> QED BY <1>1, <1>2, <1>3, <1>4, <1>5, <1>6, <1>7 DEF LocalRun

LEMMA FailIs ==
  ASSUME TypeOK, NEW s \in Sessions, WriteFails(s)
  PROVE  /\ run[s].at \in Writing /\ faults' = faults + 1
         /\ \/ session' = session /\ log' = log
            \/ run[s].at = "upsert" /\ session'[s] = draft[s] /\ log' = log
            \/ run[s].at = "append" /\ session' = session /\ log'[s] = Append(log[s], run[s].event)
         /\ \/ /\ run[s].event # "failed"
               /\ run'[s].at = "upsert" /\ run'[s].event = "failed" /\ draft'[s] = "failed"
            \/ run[s].event = "failed" /\ run'[s].at = "ended" /\ draft' = draft
         /\ UNCHANGED <<createVars, agentVars>>
<1>1. \/ session' = session /\ log' = log
      \/ run[s].at = "upsert" /\ session'[s] = draft[s] /\ log' = log
      \/ run[s].at = "append" /\ session' = session /\ log'[s] = Append(log[s], run[s].event)
  BY DEF WriteFails, TypeOK
<1>2. \/ run[s].event # "failed" /\ Record(s, "failed")
      \/ run[s].event = "failed" /\ Goto(s, "ended", "none") /\ UNCHANGED draft
  BY DEF WriteFails
<1>3. \/ /\ run[s].event # "failed"
         /\ run'[s].at = "upsert" /\ run'[s].event = "failed" /\ draft'[s] = "failed"
      \/ run[s].event = "failed" /\ run'[s].at = "ended" /\ draft' = draft
  BY <1>2, RecordIs, GotoIs DEF RunStatus
<1> QED BY <1>1, <1>3 DEF WriteFails

LEMMA LocalKeeps ==
  ASSUME TypeOK, NEW s \in Local, LocalInv(s), StepOf(s)
  PROVE  LocalInv(s)'
<1>1. s \in Sessions /\ s \notin Remote
  BY SessionAssumption DEF Remote
<1>2. CASE Request(s)
  <2>1. /\ create[s] = "idle" /\ create'[s] = "upsert" /\ draft'[s] = "queued"
        /\ run' = run /\ received' = received /\ callback' = callback
    BY <1>1, <1>2 DEF Request, TypeOK
  <2> QED BY <2>1 DEF LocalInv, Writing
<1>3. CASE Deliver(s)
  BY <1>3 DEF Deliver, LocalInv
<1>4. CASE StoreSession(s) \/ StoreDelegated(s)
  BY <1>1, <1>4 DEF StoreSession, StoreDelegated, TypeOK, LocalInv
<1>5. CASE Schedule(s)
  <2>1. /\ create'[s] = "done" /\ run'[s].at = "scheduled"
        /\ received' = received /\ callback' = callback
    BY <1>1, <1>5, GotoIs DEF Schedule, TypeOK
  <2> QED BY <2>1 DEF LocalInv, Writing
<1>6. CASE Reporting(s)
  BY <1>6 DEF Reporting, AgentReports, ReadSession, StoreEvent, AppendEvent, LocalInv
<1>7. CASE LocalRun(s)
  BY <1>1, <1>7, RunIs DEF LocalInv, Writing
<1>8. CASE WriteFails(s)
  BY <1>1, <1>8, FailIs DEF LocalInv, Writing, RunStatus
<1> QED BY <1>2, <1>3, <1>4, <1>5, <1>6, <1>7, <1>8 DEF StepOf, Creation

(* What has been told stays told, and an event is told when it is written. *)
LEMMA LogKeeps ==
  ASSUME TypeOK, EventInv, NEW s \in Sessions, LocalRun(s) \/ WriteFails(s)
  PROVE  /\ "completed" \in Told(s) => "completed" \in Told(s)'
         /\ LocalRun(s) /\ run[s].at = "append" /\ run[s].event = "completed" => "completed" \in Told(s)'
<1>1. \/ log'[s] = log[s]
      \/ run[s].at = "append" /\ log'[s] = Append(log[s], run[s].event)
  BY RunIs, FailIs
<1>2. LocalRun(s) /\ run[s].at = "append" => log'[s] = Append(log[s], run[s].event)
  BY RunIs
<1>3. run[s].at = "append" =>
        ToldIn(Append(log[s], run[s].event)) = ToldIn(log[s]) \cup {run[s].event}
  <2>1. log[s] \in Seq(Events \cup {"delegated"})
    BY DEF TypeOK
  <2>2. run[s].at = "append" => run[s].event \in Events \cup {"delegated"}
    BY DEF EventInv, Writing
  <2> QED BY <2>1, <2>2, AppendTells
<1>4. Told(s) = ToldIn(log[s]) /\ Told(s)' = ToldIn(log'[s])
  BY DEF Told, ToldIn
<1> QED BY <1>1, <1>2, <1>3, <1>4

LEMMA ToldKeeps ==
  ASSUME TypeOK, EventInv, NEW s \in Local, LocalInv(s), ToldInv(s), StepOf(s)
  PROVE  ToldInv(s)'
<1>1. s \in Sessions /\ s \notin Remote
  BY SessionAssumption DEF Remote
<1>2. CASE Request(s) \/ Deliver(s)
  BY <1>2 DEF Request, Deliver, ToldInv, Told
<1>3. CASE StoreSession(s)
  BY <1>1, <1>3 DEF StoreSession, TypeOK, LocalInv, ToldInv
<1>4. CASE StoreDelegated(s)
  <2>1. /\ log'[s] = Append(log[s], "delegated") /\ session' = session /\ run' = run /\ faults' = faults
    BY <1>1, <1>4 DEF StoreDelegated, TypeOK
  <2>2. ToldIn(log'[s]) = ToldIn(log[s]) \cup {"delegated"}
    <3>1. log[s] \in Seq(Events \cup {"delegated"})
      BY <1>1 DEF TypeOK
    <3>2. ToldIn(Append(log[s], "delegated")) = ToldIn(log[s]) \cup {"delegated"}
      BY <3>1, AppendTells
    <3> QED BY <2>1, <3>2
  <2>3. Told(s) = ToldIn(log[s]) /\ Told(s)' = ToldIn(log'[s])
    BY DEF Told, ToldIn
  <2> QED BY <2>1, <2>2, <2>3 DEF ToldInv
<1>5. CASE Schedule(s)
  <2>1. run[s].at = "none" /\ session' = session /\ log' = log /\ faults' = faults
    BY <1>5 DEF Schedule, LocalInv
  <2> QED BY <2>1 DEF ToldInv, Told
<1>6. CASE Reporting(s)
  BY <1>6 DEF Reporting, AgentReports, ReadSession, StoreEvent, AppendEvent, LocalInv
<1>7. CASE LocalRun(s)
  <2> SUFFICES ASSUME faults <= 1, session'[s] = "completed", "completed" \notin Told(s)'
               PROVE  run'[s].at = "append" /\ run'[s].event = "completed"
    BY <1>1, <1>7, RunIs DEF ToldInv
  <2>1. "completed" \notin Told(s)
    BY <1>1, <1>7, LogKeeps
  <2>2. CASE run[s].at = "upsert"
    BY <1>1, <1>7, <2>2, RunIs DEF LocalInv, Writing, RunStatus
  <2>3. CASE run[s].at # "upsert"
    <3>1. session'[s] = session[s]
      BY <1>1, <1>7, <2>3, RunIs
    <3>2. run[s].at = "append" /\ run[s].event = "completed"
      BY <1>1, <1>7, <2>1, <2>3, <3>1, RunIs DEF ToldInv
    <3> QED BY <1>1, <1>7, <3>2, LogKeeps
  <2> QED BY <2>2, <2>3
<1>8. CASE WriteFails(s)
  <2> SUFFICES ASSUME faults' <= 1, session'[s] = "completed", "completed" \notin Told(s)'
               PROVE  run'[s].at = "upsert" /\ run'[s].event = "failed" /\ faults' = 1
    BY DEF ToldInv
  <2>1. faults = 0 /\ faults' = 1
    <3>1. faults \in Nat /\ faults' = faults + 1
      BY <1>1, <1>8, FailIs DEF TypeOK
    <3> QED BY <3>1
  <2>2. "completed" \notin Told(s)
    BY <1>1, <1>8, LogKeeps
  <2>3. CASE run[s].event # "failed"
    BY <1>1, <1>8, <2>1, <2>3, FailIs
  <2>4. CASE run[s].event = "failed"
    <3>1. draft[s] = "failed"
      BY <1>1, <1>8, <2>4, FailIs DEF LocalInv, RunStatus
    <3>2. session'[s] = session[s]
      BY <1>1, <1>8, <2>4, <3>1, FailIs
    <3> QED BY <1>1, <1>8, <2>1, <2>2, <2>4, <3>2, FailIs DEF ToldInv, Writing
  <2> QED BY <2>3, <2>4
<1> QED BY <1>2, <1>3, <1>4, <1>5, <1>6, <1>7, <1>8 DEF StepOf, Creation

LEMMA LocalStep ==
  ASSUME TypeOK, EventInv, \A s \in Local : LocalInv(s) /\ ToldInv(s), [Next]_vars, NEW s \in Local
  PROVE  LocalInv(s)' /\ ToldInv(s)'
<1>1. s \in Sessions /\ faults \in Nat
  BY SessionAssumption DEF TypeOK
<1>2. CASE StepOf(s)
  BY <1>2, LocalKeeps, ToldKeeps
<1>3. CASE SameAs(s) /\ faults' = faults
  BY <1>3 DEF SameAs, LocalInv, ToldInv, Told
<1>4. CASE SameAs(s) /\ faults' = faults + 1
  BY <1>1, <1>4 DEF SameAs, LocalInv, ToldInv, Told
<1>5. ASSUME NEW x \in Sessions \ {s}, StepOf(x)
      PROVE  SameAs(s) /\ (faults' = faults \/ faults' = faults + 1)
  <2>1. SameAs(s)
    BY <1>1, <1>5, Elsewhere
  <2>2. Creation(x) => faults' = faults
    BY DEF Creation, Request, Deliver, StoreSession, StoreDelegated, Schedule
  <2>3. Reporting(x) => faults' = faults
    BY DEF Reporting, AgentReports, ReadSession, StoreEvent, AppendEvent
  <2> QED BY <1>5, <2>1, <2>2, <2>3, RunIs, FailIs DEF StepOf
<1>6. CASE Restart
  <2>1. /\ session' = session /\ log' = log /\ draft' = draft /\ received' = received
        /\ faults' = faults /\ callback'[s] = "none"
        /\ create'[s] = IF create[s] = "idle" THEN "idle" ELSE "done"
        /\ IF run[s].at \in {"none", "ended"} THEN run'[s] = run[s] ELSE run'[s].at = "lost"
    BY <1>1, <1>6 DEF Restart, Idle
  <2> QED BY <2>1 DEF LocalInv, ToldInv, Told, Writing
<1>7. CASE ChangeLimit \/ UNCHANGED vars
  BY <1>3, <1>7 DEF ChangeLimit, vars, SameAs
<1> QED BY <1>1, <1>2, <1>3, <1>4, <1>5, <1>6, <1>7 DEF Next, StepOf

-----------------------------------------------------------------------------
(* The slots of the runs on the backend.                                   *)
Busy == {s \in Local : run[s].at \in AtWork}

Shared == \A s \in Local :
  run[s].at \in AtWork \cup {"waiting"} => slot[s] = pool /\ pool.size = limit

LEMMA BusyFinite ==
  /\ IsFiniteSet(Busy) /\ Cardinality(Busy) \in Nat
  /\ IsFiniteSet(Busy') /\ Cardinality(Busy') \in Nat
<1>1. Busy \in SUBSET Sessions /\ Busy' \in SUBSET Sessions
  BY SessionAssumption DEF Busy
<1> QED BY <1>1, SessionAssumption, FS_Subset, FS_CardinalityType

(* A step that leaves the semaphore alone, and gives nobody a slot.        *)
LEMMA SlotFrame ==
  ASSUME TypeOK, Shared, Cardinality(Busy) <= limit,
         pool' = pool, limit' = limit, slot' = slot,
         \A s \in Local : /\ run'[s].at \in AtWork => run[s].at \in AtWork
                          /\ run'[s].at = "waiting" => run[s].at \in AtWork \cup {"waiting"}
  PROVE  Shared' /\ Cardinality(Busy') <= limit'
<1>1. Shared'
  BY DEF Shared
<1>2. Busy' \in SUBSET Busy
  BY DEF Busy
<1>3. Cardinality(Busy') <= Cardinality(Busy)
  BY <1>2, BusyFinite, FS_Subset
<1>4. limit \in Nat
  BY BoundAssumption DEF TypeOK
<1> QED BY <1>1, <1>3, <1>4, BusyFinite

LEMMA TakeKeeps ==
  ASSUME TypeOK, Shared, Cardinality(Busy) <= limit, NEW s \in Sessions, TakeSemaphore(s)
  PROVE  Shared' /\ Cardinality(Busy') <= limit'
<1>1. /\ run[s].at = "scheduled" /\ run'[s].at = "waiting" /\ limit' = limit
      /\ pool' = IF pool.size = limit THEN pool ELSE [number |-> pool.number + 1, size |-> limit]
      /\ slot'[s] = pool' /\ \A x \in Sessions \ {s} : slot'[x] = slot[x] /\ run'[x] = run[x]
  BY GotoIs DEF TakeSemaphore, TypeOK
<1>2. pool'.size = limit /\ (pool.size = limit => pool' = pool)
  BY <1>1
<1>3. Shared'
  BY <1>1, <1>2, SessionAssumption DEF Shared
<1>4. Busy' = Busy
  BY <1>1, SessionAssumption DEF Busy, AtWork
<1> QED BY <1>1, <1>3, <1>4

LEMMA AcquireKeeps ==
  ASSUME TypeOK, Shared, Cardinality(Busy) <= limit, NEW s \in Local, Acquire(s)
  PROVE  Shared' /\ Cardinality(Busy') <= limit'
<1>1. s \in Sessions
  BY SessionAssumption
<1>2. /\ run[s].at = "waiting" /\ run'[s].at = "upsert"
      /\ pool' = pool /\ limit' = limit /\ slot' = slot
      /\ \A x \in Sessions \ {s} : run'[x] = run[x]
      /\ Cardinality(Holders(slot[s])) < slot[s].size
  BY <1>1, GotoIs DEF Acquire, Record
<1>3. slot[s] = pool /\ pool.size = limit
  BY <1>2 DEF Shared
<1>4. Shared'
  BY <1>2, <1>3, SessionAssumption DEF Shared, AtWork
<1>5. Holders(slot[s]) = Busy
  BY <1>3 DEF Shared, Holders, Busy
<1>6. Busy' = Busy \cup {s} /\ s \notin Busy
  BY <1>2, SessionAssumption DEF Busy, AtWork
<1>7. Cardinality(Busy') = Cardinality(Busy) + 1
  BY <1>6, BusyFinite, FS_AddElement
<1>8. limit \in Nat
  BY BoundAssumption DEF TypeOK
<1> QED BY <1>2, <1>3, <1>4, <1>5, <1>7, <1>8, BusyFinite

(* Every other step of a session leaves slots and semaphore alone.         *)
LEMMA NoSlotTaken ==
  ASSUME TypeOK, NEW s \in Sessions, StepOf(s), ~TakeSemaphore(s), ~Acquire(s)
  PROVE  /\ pool' = pool /\ limit' = limit /\ slot' = slot
         /\ run'[s].at \in AtWork => run[s].at \in AtWork
         /\ run'[s].at = "waiting" => run[s].at \in AtWork \cup {"waiting"}
<1>1. CASE Request(s) \/ Deliver(s) \/ StoreSession(s) \/ StoreDelegated(s) \/ Reporting(s)
  <2>1. UNCHANGED localVars
    BY <1>1 DEF Request, Deliver, StoreSession, StoreDelegated, Reporting, AgentReports,
                ReadSession, StoreEvent, AppendEvent, localVars
  <2> QED BY <2>1 DEF localVars
<1>2. CASE Schedule(s)
  <2>1. run' = run \/ run'[s].at = "scheduled"
    BY <1>2, GotoIs DEF Schedule
  <2> QED BY <1>2, <2>1 DEF Schedule, AtWork
<1>3. CASE LocalRun(s)
  <2>1. run[s].at \in AtWork /\ pool' = pool /\ limit' = limit /\ slot' = slot
    BY <1>3 DEF LocalRun, Work, Publish, WriteSession, WriteMessage, WriteAudit, AtWork
  <2> QED BY <2>1
<1>4. CASE WriteFails(s)
  BY <1>4 DEF WriteFails, Writing, AtWork
<1> QED BY <1>1, <1>2, <1>3, <1>4 DEF StepOf, Creation

LEMMA SlotStep ==
  ASSUME TypeOK, \A s \in Remote : RemoteInv(s), SlotInv, [Next]_vars
  PROVE  SlotInv'
<1> SUFFICES ASSUME changes' = 0 PROVE Shared' /\ Cardinality(Busy') <= limit'
  BY DEF SlotInv, Shared, Busy
<1>1. changes = 0
  <2>1. ASSUME NEW s \in Sessions, StepOf(s) PROVE changes' = changes
    <3>1. Creation(s) \/ Reporting(s) => changes' = changes
      BY DEF Creation, Request, Deliver, StoreSession, StoreDelegated, Schedule, Reporting,
             AgentReports, ReadSession, StoreEvent, AppendEvent, localVars
    <3>2. LocalRun(s) \/ WriteFails(s) => changes' = changes
      BY DEF LocalRun, TakeSemaphore, Acquire, Work, Publish, WriteSession, WriteMessage,
             WriteAudit, WriteFails
    <3> QED BY <2>1, <3>1, <3>2 DEF StepOf
  <2>2. ChangeLimit => changes' = changes + 1
    BY DEF ChangeLimit
  <2>3. Restart \/ UNCHANGED vars => changes' = changes
    BY DEF Restart, vars
  <2> QED BY <2>1, <2>2, <2>3 DEF TypeOK, Next, StepOf
<1>2. Shared /\ Cardinality(Busy) <= limit
  BY <1>1 DEF SlotInv, Shared, Busy
<1>3. ASSUME NEW s \in Sessions, TakeSemaphore(s) PROVE Shared' /\ Cardinality(Busy') <= limit'
  BY <1>2, <1>3, TakeKeeps
<1>4. ASSUME NEW s \in Sessions, Acquire(s) PROVE Shared' /\ Cardinality(Busy') <= limit'
  <2>1. s \in Local
    BY <1>4 DEF Acquire, Remote, RemoteInv, Idle
  <2> QED BY <1>2, <1>4, <2>1, AcquireKeeps
<1>5. ASSUME NEW s \in Sessions, StepOf(s), ~TakeSemaphore(s), ~Acquire(s)
      PROVE  Shared' /\ Cardinality(Busy') <= limit'
  <2>1. \A x \in Local \ {s} : run'[x] = run[x]
    BY <1>5, Elsewhere, SessionAssumption DEF SameAs
  <2>2. /\ pool' = pool /\ limit' = limit /\ slot' = slot
        /\ run'[s].at \in AtWork => run[s].at \in AtWork
        /\ run'[s].at = "waiting" => run[s].at \in AtWork \cup {"waiting"}
    BY <1>5, NoSlotTaken
  <2> QED BY <1>2, <2>1, <2>2, SlotFrame
<1>6. CASE Restart
  <2>1. /\ limit' = limit
        /\ \A s \in Local : run'[s].at \notin AtWork \cup {"waiting"}
    BY <1>6, SessionAssumption DEF Restart, Idle, AtWork
  <2>2. Busy' = {}
    BY <2>1 DEF Busy
  <2>3. Cardinality(Busy') = 0
    BY <2>2, FS_EmptySet
  <2> QED BY <2>1, <2>3, BoundAssumption DEF Shared, TypeOK
<1>7. CASE ChangeLimit
  BY <1>1, <1>7 DEF ChangeLimit
<1>8. CASE UNCHANGED vars
  BY <1>2, <1>8, SlotFrame DEF vars
<1> QED BY <1>3, <1>4, <1>5, <1>6, <1>7, <1>8 DEF Next, StepOf

-----------------------------------------------------------------------------
(* The invariant, and what follows from it.                                *)
Inv == IInv /\ SentInv /\ EventInv

LEMMA InvInit == Init => Inv /\ \A s \in Remote : ThroughInv(s)
<1> SUFFICES ASSUME Init PROVE Inv /\ \A s \in Remote : ThroughInv(s)
  OBVIOUS
<1>1. TypeOK /\ SentInv /\ EventInv
  BY TypeInit
<1>2. \A s \in Remote : RemoteInv(s) /\ ThroughInv(s)
  BY DEF Init, Remote, RemoteInv, ThroughInv
<1>3. \A s \in Local : LocalInv(s) /\ ToldInv(s)
  BY SessionAssumption DEF Init, LocalInv, ToldInv, Idle, Writing
<1>4. SlotInv
  <2>1. Busy = {} /\ Shared
    BY SessionAssumption DEF Init, Busy, Shared, Idle, AtWork
  <2>2. Cardinality(Busy) = 0
    BY <2>1, FS_EmptySet
  <2> QED BY <1>1, <2>1, <2>2, BoundAssumption DEF SlotInv, Shared, Busy, TypeOK
<1> QED BY <1>1, <1>2, <1>3, <1>4 DEF Inv, IInv

LEMMA InvStep == Inv /\ [Next]_vars => Inv'
<1> SUFFICES ASSUME Inv, [Next]_vars PROVE Inv'
  OBVIOUS
<1>1. TypeOK' /\ SentInv' /\ EventInv'
  BY TypeStep, SentStep, EventStep DEF Inv, IInv
<1>2. \A s \in Remote : RemoteInv(s)'
  BY RemoteStep DEF Inv, IInv
<1>3. \A s \in Local : LocalInv(s)' /\ ToldInv(s)'
  BY LocalStep DEF Inv, IInv
<1>4. SlotInv'
  BY SlotStep DEF Inv, IInv
<1> QED BY <1>1, <1>2, <1>3, <1>4 DEF Inv, IInv

(* However often a delivery is tried, and whatever becomes of the answers, *)
(* a session that is shown as queued is with its target.                   *)
THEOREM DeliveryNotClaimed == Spec => []QueuedMeansReceived
<1>1. Inv => QueuedMeansReceived
  BY DEF Inv, IInv, RemoteInv, QueuedMeansReceived
<1> QED BY <1>1, InvInit, InvStep, PTL DEF Spec

(* Any write of a local run may fail, half done or not: with one such      *)
(* fault a run that ended with its session completed has told so.          *)
THEOREM CompletionIsTold == Spec => []CompletedIsLogged
<1>1. Inv => CompletedIsLogged
  BY DEF Inv, IInv, ToldInv, CompletedIsLogged
<1> QED BY <1>1, InvInit, InvStep, PTL DEF Spec

(* The semaphore and its replacements: for any number of local sessions,   *)
(* and across restarts, no more of them are at work than the setting says. *)
THEOREM LimitHolds == Spec => []SlotsRespected
<1>1. Inv => SlotsRespected
  BY DEF Inv, IInv, SlotInv, SlotsRespected
<1> QED BY <1>1, InvInit, InvStep, PTL DEF Spec

(* If the agent has nothing to say after it is through, neither the write  *)
(* of the creator nor a callback takes a completion back.                  *)
THEOREM CompletionStays ==
  ASSUME CompletedIsLast
  PROVE  Spec => CompletedStays
<1> DEFINE Through == \A s \in Remote : ThroughInv(s)
<1>1. Inv /\ Through /\ [Next]_vars => Through'
  <2> SUFFICES ASSUME Inv, Through, [Next]_vars, NEW s \in Remote PROVE ThroughInv(s)'
    OBVIOUS
  <2> QED BY RemoteStep, CompletedIsLast DEF Inv, IInv
<1>2. ASSUME Inv, Through, [Next]_vars, NEW s \in Remote, session[s] = "completed"
      PROVE  session'[s] = "completed"
  <2>1. s \in Sessions /\ s \notin Local /\ TypeOK /\ RemoteInv(s) /\ ThroughInv(s)
    BY <1>2 DEF Remote, Inv, IInv
  <2>2. create[s] # "upsert" /\ callback[s] # "upsert" /\ run[s].at = "none"
    BY <1>2, <2>1 DEF RemoteInv, ThroughInv, Idle
  <2>3. CASE StepOf(s)
    BY <1>2, <2>1, <2>2, <2>3
       DEF StepOf, Creation, Request, Deliver, StoreSession, StoreDelegated, Schedule, Reporting,
           AgentReports, ReadSession, StoreEvent, AppendEvent, LocalRun, TakeSemaphore, Acquire,
           Work, Publish, WriteSession, WriteMessage, WriteAudit, WriteFails, Writing
  <2>4. ASSUME NEW x \in Sessions \ {s}, StepOf(x) PROVE SameAs(s)
    BY <2>1, <2>4, Elsewhere
  <2>5. CASE ChangeLimit \/ Restart \/ UNCHANGED vars
    BY <1>2, <2>5 DEF ChangeLimit, Restart, vars
  <2> QED BY <1>2, <2>3, <2>4, <2>5 DEF Next, StepOf, SameAs
<1>3. Inv /\ Through /\ [Next]_vars =>
        [\A s \in Remote : session[s] = "completed" => session'[s] = "completed"]_session
  BY <1>2
<1> HIDE DEF Through
<1>4. Init => Through
  BY InvInit DEF Through
<1> QED BY <1>1, <1>3, <1>4, InvInit, InvStep, PTL DEF Spec, CompletedStays

=============================================================================
