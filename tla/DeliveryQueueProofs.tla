------------------------ MODULE DeliveryQueueProofs ------------------------
(***************************************************************************)
(* What holds of the e-mail pipeline for every number of messages,         *)
(* handlers and workers, every capacity and limit, and everything the      *)
(* database and the exchangers may answer.                                 *)
(***************************************************************************)
EXTENDS DeliveryProperties, FiniteSetTheorems, TLAPS

USE DEF columns, tables, feeders, rate, process, history, vars

(***************************************************************************)
(* Types.  One lemma for each kind of write the actions are made of, then  *)
(* one for each group of actions.                                          *)
(***************************************************************************)

LEMMA IdleRecords ==
  /\ IdleReq \in ReqRecord /\ IdleReq.pc = "idle" /\ IdleReq.msg = NoMsg
  /\ IdleJob \in JobRecord /\ IdleJob.pc = "idle" /\ IdleJob.msg = NoMsg
BY DEF IdleReq, IdleJob, ReqRecord, JobRecord, ReqPc, JobPc, ReqKind, ErrKind

LEMMA ReqStepOK ==
  ASSUME ReqOK, NEW h \in Handlers, NEW new \in ReqRecord, ReqStep(h, new),
         new.pc \in {"event", "enqueue"} => new.msg \in Messages
  PROVE  ReqOK'
BY DEF ReqOK, ReqStep

LEMMA JobStepOK ==
  ASSUME JobOK, NEW w \in Workers, NEW new \in JobRecord, JobStep(w, new),
         new.pc # "idle" => new.msg \in Messages
  PROVE  JobOK'
BY DEF JobOK, JobStep

\* Moving the program counter of a worker that has a message.
LEMMA JobGotoOK ==
  ASSUME JobOK, NEW w \in Workers, NEW pc \in JobPc,
         job[w].pc # "idle", JobStep(w, Goto(job[w], pc))
  PROVE  JobOK'
<1>1. Goto(job[w], pc) \in JobRecord /\ Goto(job[w], pc).msg \in Messages
  BY DEF JobOK, Goto, JobRecord
<1> QED
  BY <1>1, JobStepOK

LEMMA JobIdleOK ==
  ASSUME JobOK, NEW w \in Workers, JobStep(w, IdleJob)
  PROVE  JobOK'
BY IdleRecords, JobStepOK

LEMMA SendOK ==
  ASSUME QueueOK, NEW m \in Messages, Send(m)
  PROVE  pending' \in Seq(Messages) /\ Len(pending') <= Capacity
BY QueueAssumption DEF QueueOK, Send, HasRoom

LEMMA AddEventOK ==
  ASSUME TablesOK, NEW m \in Messages, NEW type \in EventType,
         AddEvent(m, type)
  PROVE  events' \in [Messages -> SUBSET EventType]
BY DEF TablesOK, AddEvent

LEMMA InitTypes == Init => TypeOK
<1> SUFFICES ASSUME Init PROVE TypeOK
  OBVIOUS
<1>1. TablesOK
  BY QueueAssumption DEF Init, TablesOK, Status, EventType
<1>2. QueueOK
  <2>1. pending \in Seq(Messages) /\ Len(pending) <= Capacity
    BY QueueAssumption DEF Init
  <2>2. sleeping \in [Messages -> Nat]
    BY DEF Init
  <2> QED
    BY <2>1, <2>2 DEF Init, QueueOK
<1>3. ReqOK /\ JobOK
  BY IdleRecords DEF Init, ReqOK, JobOK
<1>4. HistoryOK
  BY DEF Init, HistoryOK
<1> QED
  BY <1>1, <1>2, <1>3, <1>4 DEF TypeOK

LEMMA StartTypes ==
  ASSUME TypeOK, Boot \/ StartWorkers \/ \E m \in Messages : PushRecovered(m)
  PROVE  TypeOK'
<1> USE DEF TypeOK, TablesOK, ReqOK, JobOK, HistoryOK
<1>1. CASE Boot
  BY <1>1 DEF Boot, QueueOK, Recoverable
<1>2. CASE StartWorkers
  BY <1>2 DEF StartWorkers, QueueOK
<1>3. ASSUME NEW m \in Messages, PushRecovered(m) PROVE TypeOK'
  BY <1>3, SendOK DEF PushRecovered, QueueOK
<1> QED
  BY <1>1, <1>2, <1>3

LEMMA HandlerTypes ==
  ASSUME TypeOK, NEW h \in Handlers,
         \/ Handle(h)
         \/ \E kind \in ReqKind, todo \in SUBSET Messages :
              Receive(h, kind, todo)
  PROVE  TypeOK'
<1>0. req[h] \in ReqRecord
  BY DEF TypeOK, ReqOK
<1>1. ASSUME NEW kind \in ReqKind, NEW todo \in SUBSET Messages,
             Receive(h, kind, todo)
      PROVE  TypeOK'
  <2>1. ReqOK'
    BY <1>1, ReqStepOK DEF Receive, TypeOK, ReqRecord, ReqPc
  <2> QED
    BY <1>1, <2>1 DEF Receive, TypeOK, TablesOK, QueueOK, JobOK, HistoryOK
<1>2. CASE CheckSuppression(h)
  <2>1. Goto(req[h], "create") \in ReqRecord
    BY <1>0 DEF Goto, ReqRecord, ReqPc
  <2>2. Goto(req[h], "create").pc = "create"
    BY <1>0 DEF Goto, ReqRecord
  <2>3. ReqOK'
    BY <1>2, <2>1, <2>2, ReqStepOK, IdleRecords DEF CheckSuppression, TypeOK
  <2> QED
    BY <1>2, <2>3 DEF CheckSuppression, TypeOK, TablesOK, QueueOK, JobOK,
                      HistoryOK
<1>3. CASE CreateRow(h)
  <2>1. PICK m \in req[h].todo :
          /\ status' = [status EXCEPT ![m] = "queued"]
          /\ ReqStep(h, [req[h] EXCEPT
               !.pc = IF req[h].kind = "service" THEN "enqueue" ELSE "event",
               !.msg = m])
    BY <1>3 DEF CreateRow
  <2>2. m \in Messages
    BY <1>0 DEF ReqRecord
  <2>3. ReqOK'
    BY <1>0, <2>1, <2>2, ReqStepOK DEF TypeOK, ReqRecord, ReqPc
  <2>4. TablesOK'
    BY <1>3, <2>1, <2>2 DEF CreateRow, TypeOK, TablesOK, Status
  <2> QED
    BY <1>3, <2>3, <2>4 DEF CreateRow, TypeOK, QueueOK, JobOK, HistoryOK
<1>4. CASE CreateFails(h)
  <2>1. ReqOK'
    BY <1>4, ReqStepOK, IdleRecords DEF CreateFails, TypeOK
  <2> QED
    BY <1>4, <2>1 DEF CreateFails, TypeOK, TablesOK, QueueOK, JobOK, HistoryOK
<1>5. CASE AddQueuedEvent(h)
  <2>1. req[h].msg \in Messages
    BY <1>5 DEF AddQueuedEvent, TypeOK, ReqOK
  <2>2. TablesOK'
    BY <1>5, <2>1, AddEventOK DEF AddQueuedEvent, TypeOK, TablesOK, EventType
  <2>3. ReqOK'
    BY <1>0, <1>5, <2>1, ReqStepOK
    DEF AddQueuedEvent, Goto, TypeOK, ReqRecord, ReqPc
  <2> QED
    BY <1>5, <2>2, <2>3 DEF AddQueuedEvent, TypeOK, QueueOK, JobOK, HistoryOK
<1>6. CASE Enqueue(h)
  <2>1. req[h].msg \in Messages
    BY <1>6 DEF Enqueue, TypeOK, ReqOK
  <2>2. QueueOK'
    BY <1>6, <2>1, SendOK DEF Enqueue, TypeOK, QueueOK
  <2> DEFINE left == req[h].todo \ {req[h].msg}
             next == [req[h] EXCEPT !.pc = "create", !.todo = left,
                                    !.msg = NoMsg]
  <2>3. next \in ReqRecord /\ next.pc = "create"
    BY <1>0 DEF ReqRecord, ReqPc
  <2>4. ReqStep(h, IF left = {} THEN IdleReq ELSE next)
    BY <1>6 DEF Enqueue
  <2> HIDE DEF next
  <2>5. ReqOK'
    BY <2>3, <2>4, ReqStepOK, IdleRecords DEF TypeOK
  <2> QED
    BY <1>6, <2>2, <2>5 DEF Enqueue, TypeOK, TablesOK, JobOK, HistoryOK
<1> QED
  BY <1>1, <1>2, <1>3, <1>4, <1>5, <1>6 DEF Handle

LEMMA WorkerTypes ==
  ASSUME TypeOK, NEW w \in Workers, Take(w) \/ Work(w)
  PROVE  TypeOK'
<1>0. /\ job[w] \in JobRecord
      /\ job[w].pc # "idle" => job[w].msg \in Messages
  BY DEF TypeOK, JobOK
<1>1. CASE Take(w)
  <2>1. /\ Head(pending) \in Messages
        /\ pending' \in Seq(Messages)
        /\ Len(pending') <= Capacity
    BY <1>1, QueueAssumption DEF Take, TypeOK, QueueOK
  <2> DEFINE next == [IdleJob EXCEPT !.pc = "hour", !.msg = Head(pending)]
  <2>2. next \in JobRecord /\ next.msg \in Messages
    BY <2>1 DEF IdleJob, JobRecord, JobPc, ErrKind
  <2>3. JobOK'
    BY <1>1, <2>2, JobStepOK DEF Take, TypeOK
  <2> QED
    BY <1>1, <2>1, <2>3 DEF Take, TypeOK, TablesOK, QueueOK, ReqOK, HistoryOK
<1>2. CASE HourCheck(w)
  <2>1. JobOK'
    BY <1>2, JobGotoOK DEF HourCheck, JobAt, TypeOK, JobPc
  <2> QED
    BY <1>2, <2>1 DEF HourCheck, TypeOK, TablesOK, QueueOK, ReqOK, HistoryOK
<1>3. CASE ResetCount(w) \/ ResetHour(w)
  <2>1. JobOK'
    BY <1>3, JobGotoOK DEF ResetCount, ResetHour, JobAt, TypeOK, JobPc
  <2>2. sentThisHour' \in Nat
    BY <1>3 DEF ResetCount, ResetHour, TypeOK, HistoryOK
  <2>3. HistoryOK'
    BY <1>3, <2>2 DEF ResetCount, ResetHour, TypeOK, HistoryOK
  <2>4. QueueOK'
    <3>1. CASE ResetCount(w)
      BY <3>1 DEF ResetCount, TypeOK, QueueOK
    <3>2. CASE ResetHour(w)
      BY <3>2 DEF ResetHour, TypeOK, QueueOK
    <3> QED
      BY <1>3, <3>1, <3>2
  <2>5. TablesOK' /\ ReqOK'
    BY <1>3 DEF ResetCount, ResetHour, TypeOK, TablesOK, ReqOK
  <2> QED
    BY <2>1, <2>3, <2>4, <2>5 DEF TypeOK
<1>4. CASE UnderLimit(w)
  <2>1. JobOK'
    BY <1>4, JobGotoOK DEF UnderLimit, JobAt, TypeOK, JobPc
  <2> QED
    BY <1>4, <2>1 DEF UnderLimit, TypeOK, TablesOK, QueueOK, ReqOK, HistoryOK
<1>5. CASE OverLimit(w)
  <2>1. JobOK'
    BY <1>5, JobIdleOK DEF OverLimit, TypeOK
  <2>2. sleeping' \in [Messages -> Nat]
    BY <1>0, <1>5 DEF OverLimit, JobAt, TypeOK, QueueOK
  <2> QED
    BY <1>5, <2>1, <2>2
    DEF OverLimit, TypeOK, TablesOK, QueueOK, ReqOK, HistoryOK
<1>6. CASE Load(w)
  <2> DEFINE m == job[w].msg
             next == [job[w] EXCEPT !.pc = "claim", !.tries = retries[m]]
  <2>1. m \in Messages /\ retries[m] \in Nat
    BY <1>0, <1>6, QueueAssumption DEF Load, JobAt, TypeOK, TablesOK
  <2>2. next \in JobRecord /\ next.msg \in Messages
    BY <1>0, <2>1 DEF JobRecord, JobPc
  <2>3. JobStep(w, next) \/ JobStep(w, IdleJob)
    BY <1>6 DEF Load
  <2> HIDE DEF next
  <2>4. JobOK'
    BY <2>2, <2>3, JobStepOK, JobIdleOK DEF TypeOK
  <2> QED
    BY <1>6, <2>4 DEF Load, TypeOK, TablesOK, QueueOK, ReqOK, HistoryOK
<1>7. CASE Claim(w)
  <2>1. JobOK'
    BY <1>7, JobGotoOK DEF Claim, JobAt, TypeOK, JobPc
  <2>2. status' \in [Messages -> Status]
    BY <1>7 DEF Claim, TypeOK, TablesOK, Status
  <2> QED
    BY <1>7, <2>1, <2>2 DEF Claim, TypeOK, TablesOK, QueueOK, ReqOK, HistoryOK
<1>8. CASE Transmit(w)
  <2>1. PICK o \in Outcomes :
          /\ accepted' = [accepted EXCEPT ![job[w].msg] = @ + o.takers]
          /\ repeated' = [repeated EXCEPT ![job[w].msg] =
                            IF o.takers > 1 THEN @ + (o.takers - 1) ELSE @]
          /\ JobStep(w, [job[w] EXCEPT !.pc = "record", !.err = o.err])
    BY <1>8 DEF Transmit
  <2>2. o.err \in ErrKind /\ o.takers \in Nat
    BY QueueAssumption, ExchangersAssumption DEF Outcome
  <2> DEFINE next == [job[w] EXCEPT !.pc = "record", !.err = o.err]
  <2>3. next \in JobRecord /\ next.msg \in Messages
    BY <1>0, <1>8, <2>2 DEF Transmit, JobAt, JobRecord, JobPc
  <2>4. JobStep(w, next)
    BY <2>1
  <2> HIDE DEF next
  <2>5. JobOK'
    BY <2>3, <2>4, JobStepOK DEF TypeOK
  <2>6. accepted' \in [Messages -> Nat]
    BY <1>0, <1>8, <2>1, <2>2 DEF Transmit, JobAt, TypeOK, HistoryOK
  <2>7. repeated' \in [Messages -> Nat]
    BY <1>0, <1>8, <2>1, <2>2 DEF Transmit, JobAt, TypeOK, HistoryOK
  <2>8. HistoryOK'
    BY <1>8, <2>6, <2>7 DEF Transmit, TypeOK, HistoryOK
  <2> QED
    BY <1>8, <2>5, <2>8 DEF Transmit, TypeOK, TablesOK, QueueOK, ReqOK
<1>9. CASE RecordDone(w)
  <2>1. Deferred(w) => job[w].tries + 1 \in 0 .. MaxRetries
    BY <1>0, QueueAssumption DEF Deferred, JobRecord
  <2>2. TablesOK'
    BY <1>9, <2>1 DEF RecordDone, TypeOK, TablesOK, Status
  <2>3. JobOK'
    BY <1>9, JobGotoOK DEF RecordDone, JobAt, TypeOK, JobPc
  <2> QED
    BY <1>9, <2>2, <2>3 DEF RecordDone, TypeOK, QueueOK, ReqOK, HistoryOK
<1>10. CASE RecordFails(w)
  <2>1. JobOK'
    BY <1>10, JobGotoOK DEF RecordFails, JobAt, TypeOK, JobPc
  <2>2. cut' \in [Messages -> Nat]
    BY <1>0, <1>10 DEF RecordFails, JobAt, TypeOK, HistoryOK
  <2>3. HistoryOK'
    BY <1>10, <2>2 DEF RecordFails, TypeOK, HistoryOK
  <2> QED
    BY <1>10, <2>1, <2>3 DEF RecordFails, TypeOK, TablesOK, QueueOK, ReqOK
<1>11. CASE LogEvent(w)
  <2>1. job[w].pc = "log" /\ job[w].msg \in Messages
    BY <1>0, <1>11 DEF LogEvent, JobAt
  <2>2. \E type \in EventType : AddEvent(job[w].msg, type)
    BY <1>11 DEF LogEvent, EventType
  <2>3. TablesOK'
    BY <1>11, <2>1, <2>2, AddEventOK DEF LogEvent, TypeOK, TablesOK
  <2>4. \/ JobStep(w, Goto(job[w], "count"))
        \/ JobStep(w, Goto(job[w], "suppress"))
        \/ JobStep(w, IdleJob)
    BY <1>11 DEF LogEvent
  <2>5. JobOK'
    BY <2>1, <2>4, JobGotoOK, JobIdleOK DEF TypeOK, JobPc
  <2> QED
    BY <1>11, <2>3, <2>5 DEF LogEvent, TypeOK, QueueOK, ReqOK, HistoryOK
<1>12. CASE Count(w)
  <2>1. JobOK'
    BY <1>12, JobIdleOK DEF Count, TypeOK
  <2> QED
    BY <1>12, <2>1 DEF Count, TypeOK, TablesOK, QueueOK, ReqOK, HistoryOK
<1>13. CASE Suppress(w)
  <2>1. JobOK'
    BY <1>13, JobGotoOK DEF Suppress, JobAt, TypeOK, JobPc
  <2>2. DestOf[job[w].msg] \in Dests
    BY <1>0, <1>13, QueueAssumption DEF Suppress, JobAt
  <2> QED
    BY <1>13, <2>1, <2>2
    DEF Suppress, TypeOK, TablesOK, QueueOK, ReqOK, HistoryOK
<1>14. CASE LogBounce(w)
  <2>1. JobOK'
    BY <1>14, JobIdleOK DEF LogBounce, TypeOK
  <2>2. TablesOK'
    BY <1>0, <1>14, AddEventOK
    DEF LogBounce, JobAt, TypeOK, TablesOK, EventType
  <2> QED
    BY <1>14, <2>1, <2>2 DEF LogBounce, TypeOK, QueueOK, ReqOK, HistoryOK
<1> QED
  BY <1>1, <1>2, <1>3, <1>4, <1>5, <1>6, <1>7, <1>8, <1>9, <1>10, <1>11,
     <1>12, <1>13, <1>14 DEF Work

LEMMA OtherTypes ==
  ASSUME TypeOK,
         \/ \E m \in Messages : Wake(m) \/ SchedulerPush(m) \/ RetryElapses(m)
         \/ Scan \/ HourPasses \/ Crash
  PROVE  TypeOK'
<1>1. ASSUME NEW m \in Messages, Wake(m) PROVE TypeOK'
  <2>1. /\ pending' \in Seq(Messages)
        /\ Len(pending') <= Capacity
    BY <1>1, SendOK DEF Wake, TypeOK
  <2>2. sleeping' \in [Messages -> Nat]
    BY <1>1 DEF Wake, TypeOK, QueueOK
  <2> QED
    BY <1>1, <2>1, <2>2
    DEF Wake, TypeOK, TablesOK, QueueOK, ReqOK, JobOK, HistoryOK
<1>2. ASSUME NEW m \in Messages, SchedulerPush(m) PROVE TypeOK'
  BY <1>2, SendOK
  DEF SchedulerPush, TypeOK, TablesOK, QueueOK, ReqOK, JobOK, HistoryOK
<1>3. ASSUME NEW m \in Messages, RetryElapses(m) PROVE TypeOK'
  BY <1>3
  DEF RetryElapses, TypeOK, TablesOK, QueueOK, ReqOK, JobOK, HistoryOK
<1>4. CASE Scan
  BY <1>4 DEF Scan, Due, TypeOK, TablesOK, QueueOK, ReqOK, JobOK, HistoryOK
<1>5. CASE HourPasses
  BY <1>5 DEF HourPasses, TypeOK, TablesOK, QueueOK, ReqOK, JobOK, HistoryOK
<1>6. CASE Crash
  <2>1. pending' \in Seq(Messages) /\ Len(pending') <= Capacity
    <3>1. Len(<<>>) = 0
      OBVIOUS
    <3> QED
      BY <1>6, <3>1, QueueAssumption DEF Crash
  <2>2. QueueOK'
    BY <1>6, <2>1 DEF Crash, QueueOK
  <2>3. ReqOK' /\ JobOK'
    BY <1>6, IdleRecords DEF Crash, ReqOK, JobOK
  <2>4. HistoryOK'
    BY <1>6 DEF Crash, TypeOK, HistoryOK
  <2> QED
    BY <1>6, <2>2, <2>3, <2>4 DEF Crash, TypeOK, TablesOK
<1> QED
  BY <1>1, <1>2, <1>3, <1>4, <1>5, <1>6

LEMMA NextTypes == TypeOK /\ [Next]_vars => TypeOK'
<1> SUFFICES ASSUME TypeOK, [Next]_vars PROVE TypeOK'
  OBVIOUS
<1>1. CASE UNCHANGED vars
  BY <1>1 DEF TypeOK, TablesOK, QueueOK, ReqOK, JobOK, HistoryOK
<1> QED
  BY <1>1, StartTypes, HandlerTypes, WorkerTypes, OtherTypes DEF Next

\* Whatever the database, the exchangers and the crashes do, every variable
\* stays within its type: the retry count below the limit of process(), the
\* channel within its capacity, and a goroutine that has work has a message.
THEOREM TypeCorrect == Spec => []TypeOK
<1> QED
  BY InitTypes, NextTypes, PTL DEF Spec

(***************************************************************************)
(* The warm-up limit.                                                      *)
(***************************************************************************)

LEMMA PastGateIsFinite ==
  /\ IsFiniteSet(PastGate)
  /\ Cardinality(PastGate) \in Nat
  /\ Cardinality(Workers) \in Nat
  /\ Cardinality(PastGate) <= Cardinality(Workers)
<1>1. PastGate \subseteq Workers
  BY DEF PastGate
<1> QED
  BY <1>1, FS_Subset, FS_CardinalityType, QueueAssumption

LEMMA InitOvershoot == Init => CounterOvershoot
<1> SUFFICES ASSUME Init PROVE CounterOvershoot
  OBVIOUS
<1>1. PastGate = {}
  BY IdleRecords DEF Init, PastGate
<1>2. Cardinality(PastGate) = 0
  BY <1>1, FS_EmptySet
<1>3. Cardinality(Workers) \in Nat
  BY FS_CardinalityType, QueueAssumption
<1> QED
  BY <1>2, <1>3, QueueAssumption DEF Init, CounterOvershoot

\* A step that lets no worker through the gate and does not count.
LEMMA NoNewSender ==
  ASSUME CounterOvershoot, TypeOK, sentCount' = sentCount,
         PastGate' \subseteq PastGate
  PROVE  CounterOvershoot'
<1>1. /\ Cardinality(PastGate') \in Nat
      /\ Cardinality(PastGate') <= Cardinality(PastGate)
  BY PastGateIsFinite, FS_Subset, FS_CardinalityType
<1> QED
  BY <1>1, PastGateIsFinite, QueueAssumption
  DEF CounterOvershoot, TypeOK, QueueOK

\* A step after which the count is below the limit: all workers may be
\* sending, and none has been counted too much.
LEMMA BelowLimit ==
  ASSUME sentCount' \in Nat, sentCount' < MaxPerHour
  PROVE  CounterOvershoot'
<1>1. PastGate' \subseteq Workers
  BY DEF PastGate
<1>2. /\ Cardinality(PastGate') \in Nat
      /\ Cardinality(Workers) \in Nat
      /\ Cardinality(PastGate') <= Cardinality(Workers)
  BY <1>1, FS_Subset, FS_CardinalityType, QueueAssumption
<1> QED
  BY <1>2, QueueAssumption DEF CounterOvershoot

\* Moving one worker leaves the others where they are.
LEMMA PastGateStep ==
  ASSUME TypeOK, NEW w \in Workers, NEW new, JobStep(w, new),
         new.pc \in {"load", "claim", "send", "record", "log", "count"}
           => w \in PastGate
  PROVE  PastGate' \subseteq PastGate
BY DEF TypeOK, JobOK, JobStep, PastGate

LEMMA NextOvershoot == TypeOK /\ CounterOvershoot /\ [Next]_vars
                         => CounterOvershoot'
<1> SUFFICES ASSUME TypeOK, CounterOvershoot, [Next]_vars
             PROVE  CounterOvershoot'
  OBVIOUS
<1>1. CASE UNCHANGED <<job, sentCount>>
  BY <1>1, NoNewSender DEF PastGate
<1>2. ASSUME NEW w \in Workers, Take(w) \/ Work(w) PROVE CounterOvershoot'
  <2>0. /\ job[w] \in JobRecord
        /\ \A pc \in JobPc : Goto(job[w], pc).pc = pc
        /\ [IdleJob EXCEPT !.pc = "hour", !.msg = Head(pending)].pc = "hour"
    BY DEF TypeOK, JobOK, JobRecord, Goto, IdleJob
  <2>1. CASE Take(w)
    BY <2>0, <2>1, PastGateStep, NoNewSender DEF Take
  <2>2. CASE HourCheck(w)
    <3>1. PICK pc \in {"reset", "limit"} : JobStep(w, Goto(job[w], pc))
      BY <2>2 DEF HourCheck
    <3>2. PastGate' \subseteq PastGate
      BY <2>0, <3>1, PastGateStep DEF JobPc
    <3> QED
      BY <2>2, <3>2, NoNewSender DEF HourCheck
  <2>3. CASE ResetCount(w) \/ UnderLimit(w)
    <3>1. sentCount' \in Nat /\ sentCount' < MaxPerHour
      BY <2>3, QueueAssumption DEF ResetCount, UnderLimit, TypeOK, QueueOK
    <3> QED
      BY <3>1, BelowLimit
  <2>4. CASE OverLimit(w) \/ LogBounce(w)
    <3>1. PastGate' \subseteq PastGate
      BY <2>4, IdleRecords, PastGateStep DEF OverLimit, LogBounce
    <3> QED
      BY <2>4, <3>1, NoNewSender DEF OverLimit, LogBounce
  <2>5. CASE \/ Load(w) \/ Claim(w) \/ Transmit(w) \/ RecordDone(w)
             \/ RecordFails(w) \/ LogEvent(w)
    <3>1. w \in PastGate
      BY <2>5
      DEF Load, Claim, Transmit, RecordDone, RecordFails, LogEvent, JobAt,
          PastGate
    <3>2. \E new : JobStep(w, new)
      BY <2>5
      DEF Load, Claim, Transmit, RecordDone, RecordFails, LogEvent
    <3>3. PastGate' \subseteq PastGate
      BY <3>1, <3>2, PastGateStep
    <3> QED
      BY <2>5, <3>3, NoNewSender
      DEF Load, Claim, Transmit, RecordDone, RecordFails, LogEvent
  <2>6. CASE Count(w)
    <3>1. w \in PastGate
      BY <2>6 DEF Count, JobAt, PastGate
    <3>2. PastGate' = PastGate \ {w}
      BY <2>6, IdleRecords DEF Count, JobStep, PastGate, TypeOK, JobOK
    <3>3. Cardinality(PastGate') = Cardinality(PastGate) - 1
      BY <3>1, <3>2, PastGateIsFinite, FS_RemoveElement
    <3> QED
      BY <2>6, <3>3, PastGateIsFinite, QueueAssumption
      DEF Count, CounterOvershoot, TypeOK, QueueOK
  <2>7. CASE Suppress(w) \/ ResetHour(w)
    <3>1. PastGate' \subseteq PastGate
      BY <2>0, <2>7, PastGateStep DEF Suppress, ResetHour, JobPc
    <3> QED
      BY <2>7, <3>1, NoNewSender DEF Suppress, ResetHour
  <2> QED
    BY <1>2, <2>1, <2>2, <2>3, <2>4, <2>5, <2>6, <2>7 DEF Work
<1>3. CASE Crash
  BY <1>3, BelowLimit, QueueAssumption DEF Crash
<1>4. ASSUME \/ Boot \/ StartWorkers \/ Scan \/ HourPasses
             \/ \E m \in Messages : \/ PushRecovered(m) \/ Wake(m)
                                    \/ SchedulerPush(m) \/ RetryElapses(m)
             \/ \E h \in Handlers :
                  \/ Handle(h)
                  \/ \E kind \in ReqKind, todo \in SUBSET Messages :
                       Receive(h, kind, todo)
      PROVE  UNCHANGED <<job, sentCount>>
  BY <1>4
  DEF Boot, StartWorkers, Scan, HourPasses, PushRecovered, Wake,
      SchedulerPush, RetryElapses, Handle, Receive, CheckSuppression,
      CreateRow, CreateFails, AddQueuedEvent, Enqueue
<1> QED
  BY <1>1, <1>2, <1>3, <1>4 DEF Next

\* The hourly count passes the warm-up limit by less than the number of
\* workers, however their tests, resets and increments interleave.
THEOREM OvershootBounded == Spec => []CounterOvershoot
<1> QED
  BY TypeCorrect, InitOvershoot, NextOvershoot, PTL DEF Spec

(***************************************************************************)
(* Start alone is at work until its workers are: what is in the channel    *)
(* or still to be pushed was read from the table once.                     *)
(***************************************************************************)

StartAlone ==
  /\ phase = "down" => pending = <<>>
  /\ phase # "run" =>
       /\ batch = {}
       /\ \A m \in Messages : sleeping[m] = 0
       /\ \A w \in Workers : job[w].pc = "idle"
       /\ \A h \in Handlers : req[h].pc = "idle"
  /\ phase = "recover" =>
       Len(pending) + Cardinality(backlog) <= Cardinality(Recoverable)

StartInv == TypeOK /\ StartAlone

\* Until the workers run, only Start does anything, and time passes.
LEMMA OnlyStart ==
  ASSUME TypeOK, StartAlone, phase # "run", Next
  PROVE  \/ Boot \/ StartWorkers \/ Crash
         \/ \E m \in Messages : PushRecovered(m) \/ RetryElapses(m)
<1>1. \A m \in Messages : ~Wake(m) /\ ~SchedulerPush(m)
  BY DEF StartAlone, Wake, SchedulerPush
<1>2. \A h \in Handlers : ~Handle(h)
  BY DEF StartAlone, Handle, CheckSuppression, CreateRow, CreateFails,
         AddQueuedEvent, Enqueue
<1>3. \A h \in Handlers, kind \in ReqKind, todo \in SUBSET Messages :
        ~Receive(h, kind, todo)
  BY DEF Receive
<1>4. \A w \in Workers : ~Take(w) /\ ~Work(w)
  BY DEF StartAlone, Take, Work, HourCheck, ResetCount, ResetHour, UnderLimit,
         OverLimit, Load, Claim, Transmit, RecordDone, RecordFails, LogEvent,
         Count, Suppress, LogBounce, JobAt
<1>5. ~Scan /\ ~HourPasses
  BY DEF Scan, HourPasses
<1> QED
  BY <1>1, <1>2, <1>3, <1>4, <1>5 DEF Next

\* While the workers run, nothing but a crash ends the phase.
LEMMA RunGoesOn ==
  ASSUME phase = "run", [Next]_vars, ~Crash
  PROVE  phase' = "run"
<1>1. CASE UNCHANGED vars
  BY <1>1
<1>2. CASE Boot \/ StartWorkers \/ Scan \/ HourPasses
  BY <1>2 DEF Boot, StartWorkers, Scan, HourPasses
<1>3. ASSUME NEW m \in Messages,
             \/ PushRecovered(m) \/ Wake(m) \/ SchedulerPush(m)
             \/ RetryElapses(m)
      PROVE  phase' = "run"
  BY <1>3 DEF PushRecovered, Wake, SchedulerPush, RetryElapses
<1>4. ASSUME NEW h \in Handlers, Handle(h) PROVE phase' = "run"
  <2>1. CASE CheckSuppression(h)
    BY <2>1 DEF CheckSuppression
  <2>2. CASE CreateRow(h)
    BY <2>2 DEF CreateRow
  <2>3. CASE CreateFails(h) \/ AddQueuedEvent(h) \/ Enqueue(h)
    BY <2>3 DEF CreateFails, AddQueuedEvent, Enqueue
  <2> QED
    BY <1>4, <2>1, <2>2, <2>3 DEF Handle
<1>5. ASSUME NEW h \in Handlers, NEW kind \in ReqKind,
             NEW todo \in SUBSET Messages, Receive(h, kind, todo)
      PROVE  phase' = "run"
  BY <1>5 DEF Receive
<1>6. ASSUME NEW w \in Workers, Take(w) \/ Work(w) PROVE phase' = "run"
  <2>1. CASE Take(w) \/ HourCheck(w) \/ ResetCount(w) \/ ResetHour(w)
             \/ UnderLimit(w) \/ OverLimit(w) \/ Load(w) \/ Claim(w)
    BY <2>1 DEF Take, HourCheck, ResetCount, ResetHour, UnderLimit, OverLimit,
                Load, Claim
  <2>2. CASE Transmit(w)
    BY <2>2 DEF Transmit
  <2>3. CASE RecordDone(w) \/ RecordFails(w) \/ LogEvent(w) \/ Count(w)
             \/ Suppress(w) \/ LogBounce(w)
    BY <2>3 DEF RecordDone, RecordFails, LogEvent, Count, Suppress, LogBounce
  <2> QED
    BY <1>6, <2>1, <2>2, <2>3 DEF Work
<1> QED
  BY <1>1, <1>2, <1>3, <1>4, <1>5, <1>6 DEF Next

LEMMA NextStart ==
  ASSUME IsFiniteSet(Messages), StartInv, [Next]_vars
  PROVE  StartAlone'
<1> USE DEF StartInv
<1>0. /\ IsFiniteSet(Recoverable) /\ IsFiniteSet(backlog)
      /\ Cardinality(Recoverable) \in Nat /\ Cardinality(backlog) \in Nat
      /\ pending \in Seq(Messages)
  <2>1. Recoverable \subseteq Messages /\ backlog \subseteq Messages
    BY DEF Recoverable, TypeOK, QueueOK
  <2> QED
    BY <2>1, FS_Subset, FS_CardinalityType DEF TypeOK, QueueOK
<1>1. CASE UNCHANGED vars
  BY <1>1 DEF StartAlone, Recoverable, Unfinished
<1>2. CASE Crash
  BY <1>2, IdleRecords DEF Crash, StartAlone
<1>3. CASE phase = "run" /\ ~Crash
  BY <1>3, RunGoesOn DEF StartAlone
<1>4. CASE Boot
  <2>1. /\ phase' = "recover" /\ pending = <<>> /\ UNCHANGED pending
        /\ UNCHANGED <<batch, sleeping, job, req, status, retryAt>>
        /\ backlog' \subseteq Recoverable
        /\ phase # "run"
    BY <1>4 DEF Boot, StartAlone
  <2>2. Recoverable' = Recoverable
    BY <2>1 DEF Recoverable, Unfinished
  <2>3. /\ Cardinality(backlog') <= Cardinality(Recoverable)
        /\ Cardinality(backlog') \in Nat
    BY <1>0, <2>1, FS_Subset, FS_CardinalityType
  <2>4. Len(pending') = 0
    BY <2>1
  <2> QED
    BY <1>0, <2>1, <2>2, <2>3, <2>4 DEF StartAlone
<1>5. CASE StartWorkers
  BY <1>5 DEF StartWorkers, StartAlone
<1>6. ASSUME NEW m \in Messages, PushRecovered(m) PROVE StartAlone'
  <2>1. /\ phase = "recover" /\ m \in backlog /\ backlog' = backlog \ {m}
        /\ pending' = Append(pending, m)
        /\ UNCHANGED <<phase, batch, sleeping, job, req, status, retryAt>>
    BY <1>6 DEF PushRecovered, Send
  <2>2. Cardinality(backlog') = Cardinality(backlog) - 1
    BY <1>0, <2>1, FS_RemoveElement
  <2>3. Len(pending') = Len(pending) + 1 /\ Len(pending) \in Nat
    BY <1>0, <2>1
  <2>4. Recoverable' = Recoverable
    BY <2>1 DEF Recoverable, Unfinished
  <2> QED
    BY <1>0, <2>1, <2>2, <2>3, <2>4 DEF StartAlone
<1>7. ASSUME NEW m \in Messages, RetryElapses(m), phase # "run"
      PROVE  StartAlone'
  <2>1. /\ UNCHANGED <<phase, batch, sleeping, job, req, status, pending,
                       backlog>>
        /\ retryAt' = [retryAt EXCEPT ![m] = "due"]
        /\ retryAt \in [Messages -> {"null", "later", "due"}]
    BY <1>7 DEF RetryElapses, TypeOK, TablesOK
  <2>2. Recoverable \subseteq Recoverable' /\ Recoverable' \subseteq Messages
    BY <2>1 DEF Recoverable, Unfinished
  <2>3. /\ Cardinality(Recoverable) <= Cardinality(Recoverable')
        /\ Cardinality(Recoverable') \in Nat
    BY <2>2, FS_Subset, FS_CardinalityType
  <2> QED
    BY <1>0, <2>1, <2>3 DEF StartAlone
<1> QED
  BY <1>1, <1>2, <1>3, <1>4, <1>5, <1>6, <1>7, OnlyStart

\* Whatever earlier processes left in the table, Start is held up by nothing
\* but more rows than the channel holds.
THEOREM StartIsHeldUpByOverflow ==
  ASSUME IsFiniteSet(Messages)
  PROVE  Spec => []StartWaitsOnlyOnOverflow
<1>1. Init => StartInv
  BY InitTypes, IdleRecords DEF Init, StartInv, StartAlone
<1>2. StartInv /\ [Next]_vars => StartInv'
  BY NextTypes, NextStart DEF StartInv
<1>3. StartInv => StartWaitsOnlyOnOverflow
  <2> SUFFICES ASSUME StartInv, phase = "recover", backlog # {}, ~HasRoom
               PROVE  Cardinality(Recoverable) > Capacity
    BY DEF StartWaitsOnlyOnOverflow
  <2>1. /\ IsFiniteSet(Recoverable) /\ IsFiniteSet(backlog)
    BY FS_Subset DEF Recoverable, StartInv, TypeOK, QueueOK
  <2>2. /\ Cardinality(Recoverable) \in Nat /\ Cardinality(backlog) \in Nat
        /\ Cardinality(backlog) # 0
    BY <2>1, FS_CardinalityType, FS_EmptySet
  <2>3. Len(pending) \in Nat /\ Capacity \in Nat /\ Capacity <= Len(pending)
    BY QueueAssumption DEF StartInv, TypeOK, QueueOK, HasRoom
  <2> QED
    BY <2>2, <2>3 DEF StartInv, StartAlone
<1> QED
  BY <1>1, <1>2, <1>3, PTL DEF Spec

(***************************************************************************)
(* The messages of an hour.  While a worker waits to reset the count, the  *)
(* others alone can send: a reset that finds n workers waiting wipes       *)
(* Allowance - n messages at most.  Gain(n) is twice the sum of what the   *)
(* resets of n waiting workers can add.                                    *)
(***************************************************************************)

Allowance == MaxPerHour - 1 + Cardinality(Workers)
Gain(n)   == n * (2 * Allowance - n - 1)

AtReset == { w \in Workers : job[w].pc = "reset" }
Active  == PastGate \cup AtReset

\* n messages were counted since the hour began or the count was last wiped:
\* what may still come stays within the allowance, and what was wiped before
\* is what the resets that are done could wipe.
Tally(n) ==
  /\ n + Cardinality(Active) <= Allowance
  /\ 2 * (sentThisHour - n)
       <= Gain(Cardinality(Workers) - 1) - Gain(Cardinality(AtReset))

\* The count may be higher than what the hour saw since it was wiped: the hour
\* begins with the write of lastReset, the count was reset before that.
HourInv ==
  /\ Workers = {} => sentThisHour = 0
  /\ hourOver => HourlyBounded
  /\ ~hourOver /\ Workers # {} => \E n \in 0 .. sentCount : Tally(n)

RateInv == TypeOK /\ CounterOvershoot /\ HourInv

LEMMA GainGrows ==
  ASSUME NEW a \in Nat, NEW b \in Nat, a <= b, b <= Cardinality(Workers)
  PROVE  Gain(a) <= Gain(b)
<1>1. Cardinality(Workers) \in Nat /\ Allowance \in Nat
  BY FS_CardinalityType, QueueAssumption DEF Allowance
<1>2. CASE a = b
  BY <1>1, <1>2 DEF Gain
<1>3. CASE a < b
  <2> DEFINE d == b - a
             e == 2 * Allowance - 1 - (a + b)
  <2>1. d \in Nat /\ e \in Nat
    BY <1>1, <1>3, QueueAssumption DEF Allowance
  <2>2. d * e \in Nat
    BY <2>1
  <2>3. Gain(b) - Gain(a) = d * e
    BY <1>1 DEF Gain
  <2>4. Gain(a) \in Int /\ Gain(b) \in Int
    BY <1>1 DEF Gain
  <2> QED
    BY <2>2, <2>3, <2>4
<1> QED
  BY <1>2, <1>3

LEMMA GainStep ==
  ASSUME NEW n \in Nat, n > 0
  PROVE  /\ Gain(n) = Gain(n - 1) + 2 * (Allowance - n)
         /\ Gain(n) \in Int /\ Gain(n - 1) \in Int /\ Gain(0) = 0
<1>1. Cardinality(Workers) \in Nat /\ Allowance \in Nat
  BY FS_CardinalityType, QueueAssumption DEF Allowance
<1> QED
  BY <1>1 DEF Gain

LEMMA ActiveIsFinite ==
  /\ IsFiniteSet(Active) /\ IsFiniteSet(AtReset)
  /\ Cardinality(Active) \in Nat /\ Cardinality(AtReset) \in Nat
  /\ Cardinality(AtReset) <= Cardinality(Active)
  /\ Cardinality(Active) <= Cardinality(Workers)
  /\ Cardinality(Workers) \in Nat
  /\ Workers # {} => Cardinality(Workers) > 0
<1>1. Active \subseteq Workers /\ AtReset \subseteq Active
  BY DEF Active, AtReset, PastGate
<1>2. IsFiniteSet(Active) /\ Cardinality(Active) <= Cardinality(Workers)
  BY <1>1, FS_Subset, QueueAssumption
<1>3. IsFiniteSet(AtReset) /\ Cardinality(AtReset) <= Cardinality(Active)
  BY <1>1, <1>2, FS_Subset
<1>4. Workers # {} => Cardinality(Workers) # 0
  BY FS_EmptySet, QueueAssumption
<1> QED
  BY <1>2, <1>3, <1>4, FS_CardinalityType, QueueAssumption

\* The allowance of all workers, and twice what all resets but one can add.
LEMMA Amounts ==
  /\ Allowance \in Nat
  /\ Cardinality(Workers) <= Allowance
  /\ \A n \in Int : Gain(n) \in Int
BY ActiveIsFinite, QueueAssumption DEF Allowance, Gain

\* Whatever is left of an hour, it has seen no more than the bound.
LEMMA TallyBounds ==
  ASSUME TypeOK, Workers # {}, NEW n \in Nat, Tally(n)
  PROVE  HourlyBounded
<1> DEFINE W == Cardinality(Workers)
           R == Cardinality(AtReset)
<1>0. W \in Nat /\ MaxPerHour \in Nat
  BY ActiveIsFinite, QueueAssumption
<1>1. sentThisHour \in Nat /\ R \in Nat /\ R <= W
  BY ActiveIsFinite DEF TypeOK, HistoryOK
<1>2. /\ Allowance \in Nat /\ Gain(W - 1) \in Int /\ Gain(R) \in Int
      /\ Gain(0) = 0
  <2>1. Allowance \in Nat /\ Gain(W - 1) \in Int /\ Gain(R) \in Int
    BY <1>0, <1>1, Amounts
  <2>2. Gain(0) = 0
    BY <2>1 DEF Gain
  <2> QED
    BY <2>1, <2>2
<1>3. 0 <= Gain(R)
  BY <1>0, <1>1, <1>2, GainGrows
<1>4. n <= Allowance
  BY <1>2, ActiveIsFinite DEF Tally
<1>5. 2 * (sentThisHour - n) <= Gain(W - 1) - Gain(R)
  BY DEF Tally
<1>6. 2 * sentThisHour <= 2 * Allowance + Gain(W - 1)
  BY <1>1, <1>2, <1>3, <1>4, <1>5
<1>7. 2 * Allowance + Gain(W - 1) = W * (2 * MaxPerHour + W - 1)
  BY <1>0 DEF Gain, Allowance
<1> QED
  BY <1>6, <1>7 DEF HourlyBounded

LEMMA RateImplies == TypeOK /\ HourInv => HourlyBounded
<1> SUFFICES ASSUME TypeOK, HourInv PROVE HourlyBounded
  OBVIOUS
<1>1. CASE hourOver
  BY <1>1 DEF HourInv
<1>2. CASE Workers = {}
  <2>1. Cardinality(Workers) = 0 /\ sentThisHour = 0
    BY <1>2, FS_EmptySet DEF HourInv
  <2> QED
    BY <2>1, QueueAssumption DEF HourlyBounded
<1>3. CASE ~hourOver /\ Workers # {}
  <2>1. PICK n \in 0 .. sentCount : Tally(n)
    BY <1>3 DEF HourInv
  <2> QED
    BY <1>3, <2>1, TallyBounds DEF TypeOK, QueueOK
<1> QED
  BY <1>1, <1>2, <1>3 DEF TypeOK, QueueOK

\* The hour begins with no message sent, and not every worker waits to reset.
LEMMA HourStarts ==
  ASSUME sentThisHour' = 0, sentCount' \in Nat, hourOver' = FALSE,
         Cardinality(AtReset') \in Nat,
         Workers # {} => Cardinality(AtReset') < Cardinality(Workers)
  PROVE  HourInv'
<1> DEFINE R == Cardinality(AtReset')
<1>1. /\ Cardinality(Active') \in Nat
      /\ Cardinality(Active') <= Cardinality(Workers)
  <2>1. Active' \subseteq Workers
    BY DEF Active, AtReset, PastGate
  <2> QED
    BY <2>1, FS_Subset, FS_CardinalityType, QueueAssumption
<1>2. 0 + Cardinality(Active') <= Allowance
  BY <1>1, ActiveIsFinite, QueueAssumption DEF Allowance
<1>3. ASSUME Workers # {}
      PROVE  2 * (0 - 0) <= Gain(Cardinality(Workers) - 1) - Gain(R)
  <2>1. Cardinality(Workers) - 1 \in Nat /\ R <= Cardinality(Workers) - 1
    BY <1>3, ActiveIsFinite
  <2>2. Gain(R) <= Gain(Cardinality(Workers) - 1)
    BY <2>1, ActiveIsFinite, GainGrows
  <2>3. /\ Gain(R) \in Int /\ Gain(Cardinality(Workers) - 1) \in Int
    BY <2>1, ActiveIsFinite, QueueAssumption DEF Gain, Allowance
  <2> QED
    BY <2>2, <2>3
<1>4. Workers # {} => Tally(0)'
  BY <1>2, <1>3 DEF Tally
<1> QED
  BY <1>4 DEF HourInv

\* While the hour is over, nothing is counted for it.
LEMMA HourIsOver ==
  ASSUME TypeOK, HourInv, hourOver', UNCHANGED sentThisHour
  PROVE  HourInv'
BY RateImplies DEF HourInv, HourlyBounded

\* A step that neither counts, resets nor lets a worker through the gate.
LEMMA HourGoesOn ==
  ASSUME HourInv, TypeOK,
         UNCHANGED <<sentThisHour, sentCount>>,
         hourOver => hourOver',
         ~hourOver' => Active' \subseteq Active /\ AtReset' = AtReset
  PROVE  HourInv'
<1>1. CASE hourOver' \/ Workers = {}
  BY <1>1, HourIsOver DEF HourInv
<1>2. CASE ~hourOver' /\ Workers # {}
  <2>1. PICK n \in 0 .. sentCount : Tally(n)
    BY <1>2 DEF HourInv
  <2>2. /\ Cardinality(Active') \in Nat
        /\ Cardinality(Active') <= Cardinality(Active)
    BY <1>2, ActiveIsFinite, FS_Subset, FS_CardinalityType
  <2>3. n + Cardinality(Active') <= Allowance
    BY <2>1, <2>2, ActiveIsFinite, Amounts DEF Tally, TypeOK, QueueOK
  <2>4. Tally(n)'
    BY <1>2, <2>1, <2>3 DEF Tally
  <2> QED
    BY <1>2, <2>1, <2>4 DEF HourInv
<1> QED
  BY <1>1, <1>2

\* Moving a worker that does not go through the gate, and waits for no reset.
LEMMA ActiveStep ==
  ASSUME TypeOK, NEW w \in Workers, NEW new, JobStep(w, new),
         new.pc \in {"load", "claim", "send", "record", "log", "count"}
           => w \in PastGate,
         new.pc # "reset", job[w].pc # "reset"
  PROVE  Active' \subseteq Active /\ AtReset' = AtReset
BY DEF TypeOK, JobOK, JobStep, PastGate, Active, AtReset

\* Only a count, a reset and a crash touch what the hour has seen.
LEMMA OthersKeepTheHour ==
  ASSUME Next, ~Crash, \A w \in Workers : ~ResetHour(w) /\ ~Count(w)
  PROVE  UNCHANGED sentThisHour
<1>1. CASE Boot \/ StartWorkers \/ Scan \/ HourPasses
  BY <1>1 DEF Boot, StartWorkers, Scan, HourPasses
<1>2. CASE \E m \in Messages : \/ PushRecovered(m) \/ Wake(m)
                               \/ SchedulerPush(m) \/ RetryElapses(m)
  BY <1>2 DEF PushRecovered, Wake, SchedulerPush, RetryElapses
<1>3. ASSUME NEW h \in Handlers, Handle(h) PROVE UNCHANGED sentThisHour
  <2>1. CASE CheckSuppression(h) \/ CreateRow(h)
    BY <2>1 DEF CheckSuppression, CreateRow
  <2>2. CASE CreateFails(h) \/ AddQueuedEvent(h) \/ Enqueue(h)
    BY <2>2 DEF CreateFails, AddQueuedEvent, Enqueue
  <2> QED
    BY <1>3, <2>1, <2>2 DEF Handle
<1>4. CASE \E h \in Handlers, kind \in ReqKind, todo \in SUBSET Messages :
             Receive(h, kind, todo)
  BY <1>4 DEF Receive
<1>5. ASSUME NEW w \in Workers, Take(w) \/ Work(w)
      PROVE  UNCHANGED sentThisHour
  <2>1. CASE \/ Take(w) \/ HourCheck(w) \/ ResetCount(w) \/ UnderLimit(w)
             \/ OverLimit(w)
    BY <2>1 DEF Take, HourCheck, ResetCount, UnderLimit, OverLimit
  <2>2. CASE Load(w) \/ Claim(w) \/ Transmit(w)
    BY <2>2 DEF Load, Claim, Transmit
  <2>3. CASE RecordDone(w) \/ RecordFails(w)
    BY <2>3 DEF RecordDone, RecordFails
  <2>4. CASE LogEvent(w) \/ Suppress(w) \/ LogBounce(w)
    BY <2>4 DEF LogEvent, Suppress, LogBounce
  <2> QED
    BY <1>5, <2>1, <2>2, <2>3, <2>4 DEF Work
<1> QED
  BY <1>1, <1>2, <1>3, <1>4, <1>5 DEF Next

LEMMA HourStep == RateInv /\ [Next]_vars => HourInv'
<1> SUFFICES ASSUME RateInv, [Next]_vars PROVE HourInv'
  OBVIOUS
<1> USE DEF RateInv
<1>0. /\ sentCount \in Nat /\ hourOver \in BOOLEAN /\ sentThisHour \in Nat
      /\ Allowance \in Nat /\ Gain(Cardinality(Workers) - 1) \in Int
  BY Amounts, ActiveIsFinite DEF TypeOK, QueueOK, HistoryOK
<1>1. CASE UNCHANGED vars
  BY <1>1, HourGoesOn DEF Active, PastGate, AtReset
<1>2. CASE Crash /\ sentThisHour' = 0
  <2>1. AtReset' = {}
    BY <1>2, IdleRecords DEF Crash, AtReset
  <2>2. Cardinality(AtReset') = 0
    BY <2>1, FS_EmptySet
  <2>3. sentCount' = 0 /\ hourOver' = FALSE /\ sentThisHour' = 0
    BY <1>2 DEF Crash
  <2>4. /\ Cardinality(AtReset') \in Nat
        /\ Workers # {} => Cardinality(AtReset') < Cardinality(Workers)
    BY <2>2, ActiveIsFinite
  <2> QED
    BY <2>3, <2>4, HourStarts
<1>3. ASSUME NEW w \in Workers, ResetHour(w),
             sentThisHour' = IF hourOver THEN 0 ELSE sentThisHour
      PROVE  HourInv'
  <2>0. /\ job[w] \in JobRecord
        /\ Goto(job[w], "limit").pc = "limit"
    BY DEF TypeOK, JobOK, JobRecord, Goto
  <2>1. /\ job[w].pc = "stamp" /\ JobStep(w, Goto(job[w], "limit"))
        /\ sentCount' = sentCount /\ hourOver' = FALSE
    BY <1>3 DEF ResetHour, JobAt
  <2>2. Active' \subseteq Active /\ AtReset' = AtReset /\ w \notin AtReset
    BY <2>0, <2>1, ActiveStep DEF AtReset
  <2>3. CASE hourOver
    <3>1. AtReset \subseteq Workers \ {w}
      BY <2>2 DEF AtReset
    <3>2. Cardinality(Workers \ {w}) = Cardinality(Workers) - 1
      BY FS_RemoveElement, QueueAssumption
    <3>3. Cardinality(AtReset) <= Cardinality(Workers) - 1
      BY <3>1, <3>2, FS_Subset, FS_RemoveElement, QueueAssumption
    <3>4. /\ Cardinality(AtReset') \in Nat
          /\ Cardinality(AtReset') < Cardinality(Workers)
      BY <2>2, <3>3, ActiveIsFinite
    <3> QED
      BY <1>0, <1>3, <2>1, <2>3, <3>4, HourStarts
  <2>4. CASE ~hourOver
    BY <1>3, <2>1, <2>2, <2>4, HourGoesOn
  <2> QED
    BY <1>0, <2>3, <2>4
<1>4. ASSUME NEW w \in Workers, ResetCount(w) PROVE HourInv'
  <2>0. UNCHANGED <<sentThisHour, hourOver>> /\ sentCount' = 0
    BY <1>4 DEF ResetCount
  <2>1. CASE hourOver
    BY <2>0, <2>1, HourIsOver
  <2>2. CASE ~hourOver
    <3>1. PICK n \in 0 .. sentCount : Tally(n)
      BY <2>2 DEF HourInv
    <3>2. w \in AtReset /\ AtReset' = AtReset \ {w} /\ Active' \subseteq Workers
      BY <1>4
      DEF ResetCount, JobAt, JobStep, Goto, AtReset, Active, PastGate, TypeOK,
          JobOK, JobRecord
    <3> DEFINE R == Cardinality(AtReset)
    <3>3. Cardinality(AtReset') = R - 1 /\ R \in Nat /\ R > 0
      BY <3>2, ActiveIsFinite, FS_RemoveElement, FS_EmptySet
    <3>4. n <= Allowance - R
      BY <1>0, <3>1, <3>3, ActiveIsFinite DEF Tally
    <3>5. /\ Gain(R) = Gain(R - 1) + 2 * (Allowance - R)
          /\ Gain(R) \in Int /\ Gain(R - 1) \in Int
      BY <3>3, GainStep
    <3>6. 2 * (sentThisHour - n) <= Gain(Cardinality(Workers) - 1) - Gain(R)
      BY <3>1 DEF Tally
    <3>7. 2 * (sentThisHour' - 0)
            <= Gain(Cardinality(Workers) - 1) - Gain(R - 1)
      BY <1>0, <2>0, <3>3, <3>4, <3>5, <3>6
    <3>8. 0 + Cardinality(Active') <= Allowance
      <4>1. /\ Cardinality(Active') \in Nat
            /\ Cardinality(Active') <= Cardinality(Workers)
        BY <3>2, FS_Subset, FS_CardinalityType, QueueAssumption
      <4> QED
        BY <1>0, <4>1, Amounts, ActiveIsFinite
    <3>9. Tally(0)'
      BY <3>3, <3>7, <3>8 DEF Tally
    <3> QED
      BY <2>0, <2>2, <3>9 DEF HourInv
  <2> QED
    BY <1>0, <2>1, <2>2
<1>5. ASSUME NEW w \in Workers, Count(w),
             sentThisHour' = IF hourOver THEN sentThisHour ELSE sentThisHour + 1
      PROVE  HourInv'
  <2>1. /\ w \in Active /\ Active' = Active \ {w} /\ AtReset' = AtReset
        /\ sentCount' = sentCount + 1 /\ hourOver' = hourOver
    BY <1>5, IdleRecords
    DEF Count, JobAt, JobStep, AtReset, Active, PastGate, TypeOK, JobOK
  <2>2. CASE hourOver
    BY <1>5, <2>1, <2>2, HourIsOver
  <2>3. CASE ~hourOver
    <3>1. PICK n \in 0 .. sentCount : Tally(n)
      BY <2>3 DEF HourInv
    <3>2. Cardinality(Active') = Cardinality(Active) - 1
      BY <2>1, ActiveIsFinite, FS_RemoveElement
    <3>3. (n + 1) + Cardinality(Active') <= Allowance
      BY <1>0, <3>1, <3>2, ActiveIsFinite DEF Tally
    <3>4. sentThisHour' - (n + 1) = sentThisHour - n
      BY <1>0, <1>5, <2>3
    <3>5. Tally(n + 1)'
      BY <2>1, <3>1, <3>3, <3>4 DEF Tally
    <3>6. n + 1 \in 0 .. sentCount'
      BY <1>0, <2>1
    <3> QED
      BY <2>1, <2>3, <3>5, <3>6 DEF HourInv
  <2> QED
    BY <1>0, <2>2, <2>3
<1>6. ASSUME NEW w \in Workers, Work(w), ~ResetCount(w), ~ResetHour(w),
             ~Count(w), UNCHANGED sentThisHour
      PROVE  HourInv'
  <2>0. /\ job[w] \in JobRecord
        /\ \A pc \in JobPc : Goto(job[w], pc).pc = pc
    BY DEF TypeOK, JobOK, JobRecord, Goto
  <2>1. CASE HourCheck(w)
    <3>1. job[w].pc = "hour" /\ UNCHANGED <<sentCount, hourOver>>
      BY <2>1 DEF HourCheck, JobAt
    <3>2. CASE hourOver
      BY <1>6, <3>1, <3>2, HourIsOver
    <3>3. CASE ~hourOver
      <4>1. JobStep(w, Goto(job[w], "limit"))
        BY <2>1, <3>3 DEF HourCheck
      <4>2. Goto(job[w], "limit").pc = "limit"
        BY <2>0 DEF JobPc
      <4> QED
        BY <1>6, <3>1, <3>3, <4>1, <4>2, ActiveStep, HourGoesOn
    <3> QED
      BY <1>0, <3>2, <3>3
  <2>2. CASE UnderLimit(w)
    <3>1. /\ job[w].pc = "limit" /\ sentCount < MaxPerHour
          /\ UNCHANGED <<sentCount, hourOver>>
          /\ JobStep(w, Goto(job[w], "load"))
          /\ Goto(job[w], "load").pc = "load"
      BY <2>0, <2>2 DEF UnderLimit, JobAt, JobPc
    <3>2. CASE hourOver
      BY <1>6, <3>1, <3>2, HourIsOver
    <3>3. CASE ~hourOver
      <4>1. PICK n \in 0 .. sentCount : Tally(n)
        BY <3>3 DEF HourInv
      <4>2. AtReset' = AtReset /\ Active' \subseteq Workers
        BY <3>1 DEF JobStep, TypeOK, JobOK, AtReset, Active, PastGate
      <4>3. /\ Cardinality(Active') \in Nat
            /\ Cardinality(Active') <= Cardinality(Workers)
        BY <4>2, FS_Subset, FS_CardinalityType, QueueAssumption
      <4>4. n + Cardinality(Active') <= Allowance
        BY <1>0, <3>1, <4>3, ActiveIsFinite, QueueAssumption DEF Allowance
      <4>5. Tally(n)'
        BY <1>6, <4>1, <4>2, <4>4 DEF Tally
      <4> QED
        BY <3>1, <3>3, <4>5 DEF HourInv
    <3> QED
      BY <1>0, <3>2, <3>3
  <2>3. CASE \/ OverLimit(w) \/ Load(w) \/ Claim(w) \/ Transmit(w)
             \/ RecordDone(w) \/ RecordFails(w) \/ LogEvent(w) \/ Suppress(w)
             \/ LogBounce(w)
    <3>1. /\ UNCHANGED <<sentCount, hourOver>>
          /\ job[w].pc # "reset"
      <4>1. CASE OverLimit(w) \/ Load(w) \/ Claim(w) \/ Transmit(w)
        BY <4>1 DEF OverLimit, Load, Claim, Transmit, JobAt
      <4>2. CASE RecordDone(w) \/ RecordFails(w) \/ LogEvent(w)
        BY <4>2 DEF RecordDone, RecordFails, LogEvent, JobAt
      <4>3. CASE Suppress(w) \/ LogBounce(w)
        BY <4>3 DEF Suppress, LogBounce, JobAt
      <4> QED
        BY <2>3, <4>1, <4>2, <4>3
    <3>2. PICK new : /\ JobStep(w, new)
                     /\ new.pc # "reset"
                     /\ new.pc \in {"load", "claim", "send", "record", "log",
                                    "count"} => w \in PastGate
      <4>1. CASE OverLimit(w) \/ LogBounce(w)
        BY <4>1, IdleRecords DEF OverLimit, LogBounce
      <4>2. CASE Suppress(w)
        BY <2>0, <4>2 DEF Suppress, JobPc
      <4>3. CASE Load(w) \/ Claim(w) \/ Transmit(w)
        <5>1. w \in PastGate
          BY <4>3 DEF Load, Claim, Transmit, JobAt, PastGate
        <5>2. CASE Load(w)
          <6> DEFINE next == [job[w] EXCEPT !.pc = "claim",
                                            !.tries = retries[job[w].msg]]
          <6>1. next.pc = "claim"
            BY <2>0 DEF JobRecord
          <6>2. JobStep(w, next) \/ JobStep(w, IdleJob)
            BY <5>2 DEF Load
          <6> QED
            BY <5>1, <6>1, <6>2, IdleRecords
        <5>3. CASE Claim(w)
          BY <2>0, <5>1, <5>3 DEF Claim, JobPc
        <5>4. CASE Transmit(w)
          <6>1. PICK o \in Outcomes :
                  JobStep(w, [job[w] EXCEPT !.pc = "record", !.err = o.err])
            BY <5>4 DEF Transmit
          <6>2. [job[w] EXCEPT !.pc = "record", !.err = o.err].pc = "record"
            BY <2>0 DEF JobRecord
          <6> QED
            BY <5>1, <6>1, <6>2
        <5> QED
          BY <4>3, <5>2, <5>3, <5>4
      <4>4. CASE RecordDone(w) \/ RecordFails(w) \/ LogEvent(w)
        <5>1. w \in PastGate
          BY <4>4 DEF RecordDone, RecordFails, LogEvent, JobAt, PastGate
        <5> QED
          BY <2>0, <4>4, <5>1, IdleRecords
          DEF RecordDone, RecordFails, LogEvent, JobPc
      <4> QED
        BY <2>3, <4>1, <4>2, <4>3, <4>4
    <3> QED
      BY <1>6, <3>1, <3>2, ActiveStep, HourGoesOn
  <2> QED
    BY <1>6, <2>1, <2>2, <2>3 DEF Work
<1>7. ASSUME NEW w \in Workers, Take(w), UNCHANGED sentThisHour
      PROVE  HourInv'
  <2>1. /\ UNCHANGED <<sentCount, hourOver>>
        /\ job[w].pc # "reset"
        /\ JobStep(w, [IdleJob EXCEPT !.pc = "hour", !.msg = Head(pending)])
        /\ [IdleJob EXCEPT !.pc = "hour", !.msg = Head(pending)].pc = "hour"
    BY <1>7 DEF Take, JobAt, IdleJob
  <2> QED
    BY <1>7, <2>1, ActiveStep, HourGoesOn
<1>8. ASSUME \/ Boot \/ StartWorkers \/ Scan \/ HourPasses
             \/ \E m \in Messages : \/ PushRecovered(m) \/ Wake(m)
                                    \/ SchedulerPush(m) \/ RetryElapses(m)
             \/ \E h \in Handlers :
                  \/ Handle(h)
                  \/ \E kind \in ReqKind, todo \in SUBSET Messages :
                       Receive(h, kind, todo),
             UNCHANGED sentThisHour
      PROVE  HourInv'
  <2>1. UNCHANGED <<job, sentCount>> /\ (hourOver => hourOver')
    <3>1. CASE Boot \/ StartWorkers \/ Scan \/ HourPasses
      BY <3>1 DEF Boot, StartWorkers, Scan, HourPasses
    <3>2. CASE \E m \in Messages : \/ PushRecovered(m) \/ Wake(m)
                                   \/ SchedulerPush(m) \/ RetryElapses(m)
      BY <3>2 DEF PushRecovered, Wake, SchedulerPush, RetryElapses
    <3>3. CASE \E h \in Handlers : Handle(h)
      <4>1. PICK h \in Handlers : Handle(h)
        BY <3>3
      <4>2. CASE CheckSuppression(h)
        BY <4>2 DEF CheckSuppression
      <4>3. CASE CreateRow(h)
        BY <4>3 DEF CreateRow
      <4>4. CASE CreateFails(h) \/ AddQueuedEvent(h) \/ Enqueue(h)
        BY <4>4 DEF CreateFails, AddQueuedEvent, Enqueue
      <4> QED
        BY <4>1, <4>2, <4>3, <4>4 DEF Handle
    <3>4. CASE \E h \in Handlers, kind \in ReqKind, todo \in SUBSET Messages :
                 Receive(h, kind, todo)
      BY <3>4 DEF Receive
    <3> QED
      BY <1>8, <3>1, <3>2, <3>3, <3>4
  <2>2. Active' = Active /\ AtReset' = AtReset
    BY <2>1 DEF Active, AtReset, PastGate
  <2> QED
    BY <1>8, <2>1, <2>2, HourGoesOn
<1>9. CASE Next
  <2>1. CASE Crash
    BY <1>2, <2>1 DEF Crash
  <2>2. CASE \E w \in Workers : ResetHour(w) \/ ResetCount(w)
    BY <1>3, <1>4, <2>2 DEF ResetHour
  <2>3. CASE \E w \in Workers : Count(w)
    BY <1>5, <2>3 DEF Count
  <2>4. CASE /\ ~Crash
             /\ \A w \in Workers : ~ResetHour(w) /\ ~ResetCount(w) /\ ~Count(w)
    <3>1. UNCHANGED sentThisHour
      BY <1>9, <2>4, OthersKeepTheHour
    <3> QED
      BY <1>6, <1>7, <1>8, <1>9, <2>4, <3>1 DEF Next
  <2> QED
    BY <2>1, <2>2, <2>3, <2>4
<1> QED
  BY <1>1, <1>9

LEMMA RateStarts == Init => RateInv
<1> SUFFICES ASSUME Init PROVE RateInv
  OBVIOUS
<1>1. TypeOK /\ CounterOvershoot
  BY InitTypes, InitOvershoot
<1>2. Active = {} /\ AtReset = {}
  BY IdleRecords DEF Init, Active, AtReset, PastGate
<1>3. Cardinality(Active) = 0 /\ Cardinality(AtReset) = 0
  BY <1>2, FS_EmptySet
<1>4. sentCount = 0 /\ sentThisHour = 0 /\ hourOver = FALSE
  BY DEF Init
<1>5. ASSUME Workers # {}
      PROVE  2 * (0 - 0) <= Gain(Cardinality(Workers) - 1) - Gain(0)
  <2>1. Cardinality(Workers) - 1 \in Nat
    BY <1>5, ActiveIsFinite
  <2>2. Gain(0) <= Gain(Cardinality(Workers) - 1)
    BY <2>1, ActiveIsFinite, GainGrows
  <2>3. /\ Gain(0) \in Int /\ Gain(Cardinality(Workers) - 1) \in Int
    BY <2>1, ActiveIsFinite, QueueAssumption DEF Gain, Allowance
  <2> QED
    BY <2>2, <2>3
<1>6. Workers # {} => Tally(0)
  BY <1>3, <1>4, <1>5, Amounts DEF Tally
<1> QED
  BY <1>1, <1>4, <1>6 DEF RateInv, HourInv

\* An hour sees no more than the limit once for each worker, and a few more,
\* for any number of workers, any limit and any interleaving.
THEOREM HourIsBounded == Spec => []HourlyBounded
<1>1. RateInv /\ [Next]_vars => RateInv'
  BY NextTypes, NextOvershoot, HourStep DEF RateInv
<1>2. RateInv => HourlyBounded
  BY RateImplies DEF RateInv
<1> QED
  BY <1>1, <1>2, RateStarts, PTL DEF Spec

(***************************************************************************)
(* No message is lost.  A goroutine holds an id and may forget it: what    *)
(* counts is who still has to do something for it.  A worker that has      *)
(* recorded its outcome has not, although the id is in its hands.          *)
(*                                                                         *)
(* The recovery passes over a row that waits for its retry, and the        *)
(* scheduler over one that is "sending".  A row can be both, when two      *)
(* copies of it were in flight and one was deferred; a crash at that       *)
(* moment loses it.  So either nothing is ever deferred, or nothing        *)
(* crashes.                                                                *)
(***************************************************************************)

NothingDeferred == \A o \in Outcomes : o.err # "temp"
Calm            == DBMayFail = FALSE /\ (NothingDeferred \/ MaxCrashes = 0)

ToSend == {"hour", "reset", "stamp", "limit", "load", "claim", "send", "record"}

ByQueue(m)   == m \in InChannel \cup Asleep \cup batch \cup backlog
ByWorker(m)  == \E w \in Workers : job[w].msg = m /\ job[w].pc \in ToSend
ByRequest(m) == \E h \in Handlers :
                  req[h].msg = m /\ req[h].pc \in {"event", "enqueue"}
ByRetry(m)   == status[m] = "queued" /\ retryAt[m] # "null"
Kept(m)      == ByQueue(m) \/ ByWorker(m) \/ ByRequest(m) \/ ByRetry(m)

AllKept == phase # "down" => \A m \in Messages : Unfinished(m) => Kept(m)

Deferrals ==
  /\ phase # "run" => /\ \A m \in Messages : retryAt[m] = "null"
                      /\ \A w \in Workers : job[w].pc = "idle"
                      /\ \A h \in Handlers : req[h].pc = "idle"
  /\ NothingDeferred => /\ \A m \in Messages : retryAt[m] = "null"
                        /\ \A w \in Workers : job[w].err # "temp"

LossInv == TypeOK /\ Deferrals /\ AllKept

LEMMA PushKeeps ==
  ASSUME TypeOK, NEW x \in Messages, Send(x)
  PROVE  x \in InChannel' /\ InChannel \subseteq InChannel'
<1>1. pending \in Seq(Messages) /\ pending' = Append(pending, x)
  BY DEF TypeOK, QueueOK, Send
<1>2. /\ DOMAIN pending = 1 .. Len(pending) /\ Len(pending) \in Nat
      /\ DOMAIN pending' = 1 .. Len(pending) + 1
      /\ \A i \in 1 .. Len(pending) : pending'[i] = pending[i]
      /\ pending'[Len(pending) + 1] = x
  BY <1>1
<1> QED
  BY <1>2 DEF InChannel

LEMMA PopKeeps ==
  ASSUME TypeOK, pending # <<>>, pending' = Tail(pending)
  PROVE  /\ Head(pending) \in Messages
         /\ InChannel \subseteq InChannel' \cup {Head(pending)}
<1>1. pending \in Seq(Messages)
  BY DEF TypeOK, QueueOK
<1>2. /\ DOMAIN pending = 1 .. Len(pending) /\ Len(pending) \in Nat \ {0}
      /\ DOMAIN pending' = 1 .. Len(pending) - 1
      /\ \A i \in 1 .. Len(pending) - 1 : pending'[i] = pending[i + 1]
      /\ Head(pending) = pending[1] /\ Head(pending) \in Messages
  BY <1>1
<1>3. \A i \in DOMAIN pending : i # 1 => i - 1 \in DOMAIN pending'
                                         /\ pending'[i - 1] = pending[i]
  BY <1>2
<1> QED
  BY <1>2, <1>3 DEF InChannel

\* The other workers go on with theirs.
LEMMA OthersKeep ==
  ASSUME TypeOK, NEW w \in Workers, NEW new, JobStep(w, new)
  PROVE  /\ \A m \in Messages : ByWorker(m) =>
              \/ ByWorker(m)'
              \/ m = job[w].msg /\ job[w].pc \in ToSend
         /\ \A m \in Messages :
              m = new.msg /\ new.pc \in ToSend => ByWorker(m)'
<1>1. /\ job'[w] = new
      /\ \A v \in Workers : v # w => job'[v] = job[v]
  BY DEF TypeOK, JobOK, JobStep
<1> QED
  BY <1>1 DEF ByWorker

LEMMA OtherRequestsKeep ==
  ASSUME TypeOK, NEW h \in Handlers, NEW new, ReqStep(h, new)
  PROVE  /\ \A m \in Messages : ByRequest(m) =>
              \/ ByRequest(m)'
              \/ m = req[h].msg /\ req[h].pc \in {"event", "enqueue"}
         /\ \A m \in Messages :
              m = new.msg /\ new.pc \in {"event", "enqueue"} => ByRequest(m)'
<1>1. /\ req'[h] = new
      /\ \A g \in Handlers : g # h => req'[g] = req[g]
  BY DEF TypeOK, ReqOK, ReqStep
<1> QED
  BY <1>1 DEF ByRequest

LEMMA LossInit == Init => LossInv
<1> SUFFICES ASSUME Init PROVE Deferrals /\ AllKept
  BY InitTypes DEF LossInv
<1>1. /\ \A w \in Workers : job[w] = IdleJob
      /\ \A h \in Handlers : req[h] = IdleReq
      /\ \A m \in Messages : retryAt[m] = "null"
      /\ phase = "down"
  BY DEF Init
<1>2. IdleJob.err = "nil"
  BY DEF IdleJob
<1> QED
  BY <1>1, <1>2, IdleRecords DEF Deferrals, AllKept

\* A worker either goes on with its message, or has settled it, recorded its
\* retry, or handed it to a sleeper.
LEMMA WorkerLosesNothing ==
  ASSUME LossInv, DBMayFail = FALSE, NEW w \in Workers, Take(w) \/ Work(w)
  PROVE  AllKept'
<1>0. TypeOK /\ (phase # "down" => \A m \in Messages : Unfinished(m) => Kept(m))
  BY DEF LossInv, AllKept
<1>a. /\ job[w] \in JobRecord
      /\ \A pc \in JobPc : /\ Goto(job[w], pc).pc = pc
                           /\ Goto(job[w], pc).msg = job[w].msg
                           /\ Goto(job[w], pc).err = job[w].err
  BY <1>0 DEF TypeOK, JobOK, JobRecord, Goto
<1>b. UNCHANGED <<phase, backlog, batch, req>>
  BY DEF Take, Work, HourCheck, ResetCount, ResetHour, UnderLimit, OverLimit,
         Load, Claim, Transmit, RecordDone, RecordFails, LogEvent, Count,
         Suppress, LogBounce
<1> SUFFICES ASSUME phase # "down", NEW m \in Messages, Unfinished(m)'
             PROVE  Kept(m)'
  BY <1>b DEF AllKept
<1>c. ByRequest(m) => ByRequest(m)'
  BY <1>b DEF ByRequest
\* A step that leaves the tables and the channel alone.
<1>d. ASSUME NEW new, JobStep(w, new), UNCHANGED <<pending, status, retryAt>>,
             Asleep \subseteq Asleep',
             job[w].pc \in ToSend =>
               \/ new.pc \in ToSend /\ new.msg = job[w].msg
               \/ job[w].msg \in Asleep'
               \/ Settled(job[w].msg)
      PROVE  Kept(m)'
  <2>1. Unfinished(m) /\ Kept(m) /\ ~Settled(m)
    BY <1>0, <1>d DEF Unfinished, Settled
  <2>2. ByQueue(m) => ByQueue(m)'
    BY <1>b, <1>d DEF ByQueue, InChannel
  <2>3. ByRetry(m) => ByRetry(m)'
    BY <1>d DEF ByRetry
  <2>4. ByWorker(m) => ByWorker(m)' \/ ByQueue(m)'
    BY <1>0, <1>d, <2>1, OthersKeep DEF ByQueue
  <2> QED
    BY <1>c, <2>1, <2>2, <2>3, <2>4 DEF Kept
<1>1. CASE Take(w)
  <2> DEFINE new == [IdleJob EXCEPT !.pc = "hour", !.msg = Head(pending)]
  <2>1. new.pc = "hour" /\ new.msg = Head(pending)
    BY DEF IdleJob
  <2>2. JobStep(w, new) /\ job[w].pc = "idle"
    BY <1>1 DEF Take, JobAt
  <2> HIDE DEF new
  <2>3. Unfinished(m) /\ Kept(m)
    BY <1>0, <1>1 DEF Take, Unfinished
  <2>4. ByWorker(m) => ByWorker(m)'
    BY <1>0, <2>2, OthersKeep DEF ToSend
  <2>5. m = Head(pending) => ByWorker(m)'
    BY <1>0, <2>1, <2>2, OthersKeep DEF ToSend
  <2>6. ByQueue(m) => ByQueue(m)' \/ ByWorker(m)'
    <3>1. InChannel \subseteq InChannel' \cup {Head(pending)}
      BY <1>0, <1>1, PopKeeps DEF Take
    <3>2. Asleep' = Asleep
      BY <1>1 DEF Take, Asleep
    <3> QED
      BY <1>b, <2>5, <3>1, <3>2 DEF ByQueue
  <2>7. ByRetry(m) => ByRetry(m)'
    BY <1>1 DEF Take, ByRetry
  <2> QED
    BY <1>c, <2>3, <2>4, <2>6, <2>7 DEF Kept
<1>2. CASE HourCheck(w) \/ ResetCount(w) \/ ResetHour(w) \/ UnderLimit(w)
  <2>1. PICK pc \in {"reset", "stamp", "limit", "load"} :
          JobStep(w, Goto(job[w], pc))
    BY <1>2 DEF HourCheck, ResetCount, ResetHour, UnderLimit
  <2>2. Asleep' = Asleep /\ UNCHANGED <<pending, status, retryAt>>
    BY <1>2 DEF HourCheck, ResetCount, ResetHour, UnderLimit, Asleep
  <2> QED
    BY <1>a, <1>d, <2>1, <2>2 DEF JobPc, ToSend
<1>3. CASE OverLimit(w)
  <2>1. JobStep(w, IdleJob) /\ job[w].msg \in Messages
    BY <1>0, <1>3 DEF OverLimit, JobAt, TypeOK, JobOK
  <2>2. Asleep \subseteq Asleep' /\ job[w].msg \in Asleep'
    BY <1>0, <1>3, <2>1 DEF OverLimit, Asleep, TypeOK, QueueOK
  <2> QED
    BY <1>3, <1>d, <2>1, <2>2 DEF OverLimit
<1>4. CASE Load(w)
  <2>1. Asleep' = Asleep /\ UNCHANGED <<pending, status, retryAt>>
    BY <1>4 DEF Load, Asleep
  <2>2. CASE Settled(job[w].msg)
    <3>1. JobStep(w, IdleJob)
      BY <1>4, <2>2 DEF Load
    <3> QED
      BY <1>d, <2>1, <2>2, <3>1
  <2>3. CASE ~Settled(job[w].msg)
    <3> DEFINE new == [job[w] EXCEPT !.pc = "claim",
                                     !.tries = retries[job[w].msg]]
    <3>1. JobStep(w, new)
      BY <1>4, <2>3 DEF Load, WriteOK
    <3>2. new.pc = "claim" /\ new.msg = job[w].msg
      BY <1>a DEF JobRecord
    <3> HIDE DEF new
    <3> QED
      BY <1>d, <2>1, <3>1, <3>2 DEF ToSend
  <2> QED
    BY <2>2, <2>3
<1>5. CASE Transmit(w)
  <2>1. PICK o \in Outcomes :
          JobStep(w, [job[w] EXCEPT !.pc = "record", !.err = o.err])
    BY <1>5 DEF Transmit
  <2> DEFINE new == [job[w] EXCEPT !.pc = "record", !.err = o.err]
  <2>2. new.pc = "record" /\ new.msg = job[w].msg
    BY <1>a DEF JobRecord
  <2>3. JobStep(w, new)
    BY <2>1
  <2> HIDE DEF new
  <2>4. Asleep' = Asleep /\ UNCHANGED <<pending, status, retryAt>>
    BY <1>5 DEF Transmit, Asleep
  <2> QED
    BY <1>d, <2>2, <2>3, <2>4 DEF ToSend
<1>6. CASE LogEvent(w) \/ Count(w) \/ Suppress(w) \/ LogBounce(w)
  <2>1. \E new : JobStep(w, new)
    BY <1>6 DEF LogEvent, Count, Suppress, LogBounce
  <2>2. job[w].pc \notin ToSend
    BY <1>6 DEF LogEvent, Count, Suppress, LogBounce, JobAt, ToSend
  <2>3. Asleep' = Asleep /\ UNCHANGED <<pending, status, retryAt>>
    BY <1>6 DEF LogEvent, Count, Suppress, LogBounce, Asleep
  <2> QED
    BY <1>d, <2>1, <2>2, <2>3
\* The two writes of a row leave the others as they were.
<1>7. ASSUME NEW new, JobStep(w, new), UNCHANGED <<pending, sleeping>>,
             m # job[w].msg, status'[m] = status[m], retryAt'[m] = retryAt[m]
      PROVE  Kept(m)'
  <2>1. Unfinished(m) /\ Kept(m)
    BY <1>0, <1>7 DEF Unfinished
  <2>2. ByQueue(m) => ByQueue(m)'
    BY <1>b, <1>7 DEF ByQueue, InChannel, Asleep
  <2>3. ByWorker(m) => ByWorker(m)'
    BY <1>0, <1>7, OthersKeep
  <2>4. ByRetry(m) => ByRetry(m)'
    BY <1>7 DEF ByRetry
  <2> QED
    BY <1>c, <2>1, <2>2, <2>3, <2>4 DEF Kept
<1>8. CASE Claim(w)
  <2>1. /\ JobStep(w, Goto(job[w], "send")) /\ UNCHANGED <<pending, sleeping>>
        /\ m # job[w].msg => status'[m] = status[m] /\ retryAt'[m] = retryAt[m]
    BY <1>0, <1>8 DEF Claim, TypeOK, TablesOK
  <2>2. m = job[w].msg => ByWorker(m)'
    BY <1>0, <1>a, <2>1, OthersKeep DEF JobPc, ToSend
  <2> QED
    BY <1>7, <2>1, <2>2 DEF Kept
<1>9. CASE RecordDone(w)
  <2>1. /\ JobStep(w, Goto(job[w], "log")) /\ UNCHANGED <<pending, sleeping>>
        /\ m # job[w].msg => status'[m] = status[m] /\ retryAt'[m] = retryAt[m]
    BY <1>0, <1>9 DEF RecordDone, TypeOK, TablesOK
  <2>2. m = job[w].msg =>
          \/ status'[m] = "queued" /\ retryAt'[m] = "later"
          \/ status'[m] \in {"sent", "failed"}
    BY <1>0, <1>9 DEF RecordDone, TypeOK, TablesOK
  <2>3. m = job[w].msg => Kept(m)'
    BY <2>2 DEF Unfinished, Kept, ByRetry
  <2> QED
    BY <1>7, <2>1, <2>3
<1> QED
  BY <1>1, <1>2, <1>3, <1>4, <1>5, <1>6, <1>8, <1>9 DEF Work, RecordFails

LEMMA RequestLosesNothing ==
  ASSUME LossInv, DBMayFail = FALSE, NEW h \in Handlers,
         \/ Handle(h)
         \/ \E kind \in ReqKind, todo \in SUBSET Messages : Receive(h, kind, todo)
  PROVE  AllKept'
<1>0. TypeOK /\ (phase # "down" => \A m \in Messages : Unfinished(m) => Kept(m))
  BY DEF LossInv, AllKept
<1>1. UNCHANGED <<phase, backlog, batch, job, sleeping, retryAt>>
  BY DEF Handle, Receive, CheckSuppression, CreateRow, CreateFails,
         AddQueuedEvent, Enqueue
<1> SUFFICES ASSUME phase # "down", NEW m \in Messages, Unfinished(m)'
             PROVE  Kept(m)'
  BY <1>1 DEF AllKept
<1>2. ByWorker(m) => ByWorker(m)'
  BY <1>1 DEF ByWorker
<1>3. ASSUME NEW new, ReqStep(h, new), UNCHANGED <<pending, status>>,
             req[h].pc \in {"event", "enqueue"} =>
               new.pc \in {"event", "enqueue"} /\ new.msg = req[h].msg
      PROVE  Kept(m)'
  <2>1. Kept(m)
    BY <1>0, <1>3 DEF Unfinished
  <2>2. ByQueue(m) => ByQueue(m)'
    BY <1>1, <1>3 DEF ByQueue, InChannel, Asleep
  <2>3. ByRequest(m) => ByRequest(m)'
    BY <1>0, <1>3, OtherRequestsKeep
  <2>4. ByRetry(m) => ByRetry(m)'
    BY <1>1, <1>3 DEF ByRetry
  <2> QED
    BY <1>2, <2>1, <2>2, <2>3, <2>4 DEF Kept
<1>4. CASE \E kind \in ReqKind, todo \in SUBSET Messages : Receive(h, kind, todo)
  BY <1>3, <1>4 DEF Receive
<1>5. CASE CheckSuppression(h) \/ CreateFails(h)
  BY <1>3, <1>5 DEF CheckSuppression, CreateFails
<1>6. CASE AddQueuedEvent(h)
  <2>1. req[h] \in ReqRecord
    BY <1>0 DEF TypeOK, ReqOK
  <2>2. /\ Goto(req[h], "enqueue").pc = "enqueue"
        /\ Goto(req[h], "enqueue").msg = req[h].msg
    BY <2>1 DEF ReqRecord, Goto
  <2> QED
    BY <1>3, <1>6, <2>2 DEF AddQueuedEvent
<1>7. CASE CreateRow(h)
  <2>1. PICK x \in req[h].todo :
          /\ status' = [status EXCEPT ![x] = "queued"]
          /\ ReqStep(h, [req[h] EXCEPT
               !.pc = IF req[h].kind = "service" THEN "enqueue" ELSE "event",
               !.msg = x])
    BY <1>7 DEF CreateRow
  <2> DEFINE new == [req[h] EXCEPT
               !.pc = IF req[h].kind = "service" THEN "enqueue" ELSE "event",
               !.msg = x]
  <2>2. /\ req[h] \in ReqRecord /\ req[h].pc = "create"
        /\ UNCHANGED <<pending, retryAt>>
    BY <1>0, <1>7 DEF CreateRow, TypeOK, ReqOK
  <2>3. new.pc \in {"event", "enqueue"} /\ new.msg = x
    BY <2>2 DEF ReqRecord
  <2>4. ReqStep(h, new)
    BY <2>1
  <2> HIDE DEF new
  <2>5. m = x => ByRequest(m)'
    BY <1>0, <2>3, <2>4, OtherRequestsKeep
  <2>6. CASE m = x
    BY <2>5, <2>6 DEF Kept
  <2>7. CASE m # x
    <3>1. status'[m] = status[m]
      BY <1>0, <2>1, <2>7 DEF TypeOK, TablesOK
    <3>2. Kept(m)
      BY <1>0, <3>1 DEF Unfinished
    <3>3. ByQueue(m) => ByQueue(m)'
      BY <1>1, <2>2 DEF ByQueue, InChannel, Asleep
    <3>4. ByRequest(m) => ByRequest(m)'
      BY <1>0, <2>2, <2>4, OtherRequestsKeep
    <3>5. ByRetry(m) => ByRetry(m)'
      BY <1>1, <3>1 DEF ByRetry
    <3> QED
      BY <1>2, <3>2, <3>3, <3>4, <3>5 DEF Kept
  <2> QED
    BY <2>6, <2>7
<1>8. CASE Enqueue(h)
  <2>1. /\ req[h].msg \in Messages /\ Send(req[h].msg) /\ status' = status
        /\ \E new : ReqStep(h, new)
    BY <1>0, <1>8 DEF Enqueue, TypeOK, ReqOK
  <2>2. Kept(m)
    BY <1>0, <2>1 DEF Unfinished
  <2>3. req[h].msg \in InChannel' /\ InChannel \subseteq InChannel'
    BY <1>0, <2>1, PushKeeps
  <2>4. ByQueue(m) => ByQueue(m)'
    BY <1>1, <2>3 DEF ByQueue, Asleep
  <2>5. ByRequest(m) => ByRequest(m)' \/ ByQueue(m)'
    BY <1>0, <2>1, <2>3, OtherRequestsKeep DEF ByQueue
  <2>6. ByRetry(m) => ByRetry(m)'
    BY <1>1, <2>1 DEF ByRetry
  <2> QED
    BY <1>2, <2>2, <2>4, <2>5, <2>6 DEF Kept
<1> QED
  BY <1>4, <1>5, <1>6, <1>7, <1>8 DEF Handle

\* An id leaves one place for the channel; the recovery finds every row.
LEMMA RestLosesNothing ==
  ASSUME LossInv, DBMayFail = FALSE,
         \/ Boot \/ StartWorkers \/ Scan \/ HourPasses \/ Crash
         \/ \E x \in Messages : \/ PushRecovered(x) \/ Wake(x)
                                \/ SchedulerPush(x) \/ RetryElapses(x)
  PROVE  AllKept'
<1>0. /\ TypeOK /\ Deferrals
      /\ phase # "down" => \A m \in Messages : Unfinished(m) => Kept(m)
  BY DEF LossInv, AllKept
<1>1. CASE Boot
  <2>1. backlog' = Recoverable /\ UNCHANGED <<status, retryAt>>
        /\ phase = "down"
    BY <1>1 DEF Boot, WriteOK
  <2>2. \A m \in Messages : Unfinished(m)' => m \in backlog'
    BY <1>0, <2>1 DEF Deferrals, Recoverable, Unfinished
  <2> QED
    BY <2>2 DEF AllKept, Kept, ByQueue
<1>2. CASE Crash
  BY <1>2 DEF Crash, AllKept
<1>3. ASSUME phase # "down",
             UNCHANGED <<status, job, req>>,
             InChannel \cup Asleep \cup batch \cup backlog
               \subseteq (InChannel \cup Asleep \cup batch \cup backlog)',
             \A m \in Messages : retryAt[m] # "null" => retryAt'[m] # "null"
      PROVE  AllKept'
  <2> SUFFICES ASSUME NEW m \in Messages, Unfinished(m)' PROVE Kept(m)'
    BY DEF AllKept
  <2>1. Kept(m)
    BY <1>0, <1>3 DEF Unfinished
  <2>2. ByQueue(m) => ByQueue(m)'
    BY <1>3 DEF ByQueue
  <2>3. /\ ByWorker(m) => ByWorker(m)'
        /\ ByRequest(m) => ByRequest(m)'
        /\ ByRetry(m) => ByRetry(m)'
    BY <1>3 DEF ByWorker, ByRequest, ByRetry
  <2> QED
    BY <2>1, <2>2, <2>3 DEF Kept
<1>4. CASE phase = "down"
  <2>1. CASE phase' = "down"
    BY <2>1 DEF AllKept
  <2>2. ASSUME NEW x \in Messages,
               PushRecovered(x) \/ Wake(x) \/ SchedulerPush(x) \/ RetryElapses(x)
        PROVE  phase' = "down"
    BY <1>4, <2>2 DEF PushRecovered, Wake, SchedulerPush, RetryElapses
  <2> QED
    BY <1>1, <1>4, <2>1, <2>2 DEF StartWorkers, Scan, HourPasses, Crash
<1>5. CASE StartWorkers
  BY <1>3, <1>5 DEF StartWorkers, InChannel, Asleep
<1>6. CASE Scan
  BY <1>3, <1>6 DEF Scan, InChannel, Asleep
<1>7. CASE HourPasses
  BY <1>3, <1>7 DEF HourPasses, InChannel, Asleep
<1>8. ASSUME NEW x \in Messages, phase # "down", RetryElapses(x)
      PROVE  AllKept'
  <2>1. \A m \in Messages : retryAt[m] # "null" => retryAt'[m] # "null"
    BY <1>0, <1>8 DEF RetryElapses, TypeOK, TablesOK
  <2> QED
    BY <1>3, <1>8, <2>1 DEF RetryElapses, InChannel, Asleep
<1>9. ASSUME NEW x \in Messages, phase # "down",
             PushRecovered(x) \/ Wake(x) \/ SchedulerPush(x)
      PROVE  AllKept'
  <2>1. x \in InChannel' /\ InChannel \subseteq InChannel'
    BY <1>0, <1>9, PushKeeps DEF PushRecovered, Wake, SchedulerPush
  <2>2. Asleep \subseteq Asleep' \cup {x}
    BY <1>0, <1>9 DEF PushRecovered, Wake, SchedulerPush, Asleep, TypeOK, QueueOK
  <2>3. backlog \subseteq backlog' \cup {x} /\ batch \subseteq batch' \cup {x}
    BY <1>9 DEF PushRecovered, Wake, SchedulerPush
  <2> QED
    BY <1>3, <1>9, <2>1, <2>2, <2>3 DEF PushRecovered, Wake, SchedulerPush
<1> QED
  BY <1>1, <1>2, <1>4, <1>5, <1>6, <1>7, <1>8, <1>9

LEMMA DeferralsNext ==
  ASSUME LossInv, Calm, [Next]_vars
  PROVE  Deferrals'
<1>0. TypeOK /\ Deferrals
  BY DEF LossInv
<1>1. ASSUME UNCHANGED <<phase, retryAt, job, req>> PROVE Deferrals'
  BY <1>0, <1>1 DEF Deferrals
<1>2. CASE Boot
  BY <1>0, <1>2 DEF Boot, Deferrals
<1>3. CASE StartWorkers
  BY <1>0, <1>3 DEF StartWorkers, Deferrals
<1>4. CASE Crash
  <2>1. NothingDeferred
    BY <1>0, <1>4 DEF Calm, Crash, TypeOK, HistoryOK
  <2>2. IdleJob.err # "temp"
    BY DEF IdleJob
  <2> QED
    BY <1>0, <1>4, <2>1, <2>2, IdleRecords DEF Crash, Deferrals
<1>5. ASSUME NEW w \in Workers, Take(w) \/ Work(w) PROVE Deferrals'
  <2>1. phase = "run" /\ phase' = phase
    BY <1>0, <1>5
       DEF Deferrals, Take, Work, HourCheck, ResetCount, ResetHour, UnderLimit,
           OverLimit, Load, Claim, Transmit, RecordDone, RecordFails, LogEvent,
           Count, Suppress, LogBounce, JobAt
  <2>2. job[w] \in JobRecord
        /\ \A pc \in JobPc : Goto(job[w], pc).err = job[w].err
    BY <1>0 DEF TypeOK, JobOK, JobRecord, Goto
  <2>3. IdleJob.err = "nil"
    BY DEF IdleJob
  <2>4. ASSUME NothingDeferred
        PROVE  \E new : JobStep(w, new) /\ new.err # "temp"
    <3>0. job[w].err # "temp"
      BY <1>0, <2>4 DEF Deferrals
    <3>1. CASE Take(w)
      <4> DEFINE new == [IdleJob EXCEPT !.pc = "hour", !.msg = Head(pending)]
      <4>1. JobStep(w, new) /\ new.err = "nil"
        BY <3>1 DEF Take, IdleJob
      <4> QED
        BY <4>1
    <3>2. CASE Load(w)
      <4> DEFINE new == [job[w] EXCEPT !.pc = "claim",
                                       !.tries = retries[job[w].msg]]
      <4>1. new.err = job[w].err
        BY <2>2 DEF JobRecord
      <4>2. JobStep(w, IdleJob) \/ JobStep(w, new)
        BY <3>2 DEF Load
      <4> HIDE DEF new
      <4> QED
        BY <2>3, <3>0, <4>1, <4>2
    <3>3. CASE Transmit(w)
      <4>1. PICK o \in Outcomes :
              JobStep(w, [job[w] EXCEPT !.pc = "record", !.err = o.err])
        BY <3>3 DEF Transmit
      <4> DEFINE new == [job[w] EXCEPT !.pc = "record", !.err = o.err]
      <4>2. new.err = o.err /\ JobStep(w, new)
        BY <2>2, <4>1 DEF JobRecord
      <4> HIDE DEF new
      <4> QED
        BY <2>4, <4>2 DEF NothingDeferred
    <3>4. CASE \/ HourCheck(w) \/ ResetCount(w) \/ ResetHour(w) \/ UnderLimit(w)
               \/ OverLimit(w) \/ Claim(w) \/ RecordDone(w) \/ RecordFails(w)
               \/ LogEvent(w) \/ Count(w) \/ Suppress(w) \/ LogBounce(w)
      <4>1. JobStep(w, IdleJob) \/ \E pc \in JobPc : JobStep(w, Goto(job[w], pc))
        BY <3>4
           DEF HourCheck, ResetCount, ResetHour, UnderLimit, OverLimit, Claim,
               RecordDone, RecordFails, LogEvent, Count, Suppress, LogBounce, JobPc
      <4> QED
        BY <2>2, <2>3, <3>0, <4>1
    <3> QED
      BY <1>5, <3>1, <3>2, <3>3, <3>4 DEF Work
  <2>5. ASSUME NothingDeferred PROVE retryAt' = retryAt
    <3>1. ~Deferred(w)
      BY <1>0, <2>5 DEF Deferrals, Deferred
    <3> QED
      BY <1>5, <3>1
         DEF Take, Work, HourCheck, ResetCount, ResetHour, UnderLimit,
             OverLimit, Load, Claim, Transmit, RecordDone, RecordFails, LogEvent, Count,
             Suppress, LogBounce
  <2>6. ASSUME NothingDeferred PROVE \A v \in Workers : job'[v].err # "temp"
    <3>1. PICK new : JobStep(w, new) /\ new.err # "temp"
      BY <2>4, <2>6
    <3> QED
      BY <1>0, <2>6, <3>1 DEF Deferrals, JobStep, TypeOK, JobOK
  <2> QED
    BY <1>0, <2>1, <2>5, <2>6 DEF Deferrals
<1>6. ASSUME NEW h \in Handlers,
             \/ Handle(h)
             \/ \E kind \in ReqKind, todo \in SUBSET Messages :
                  Receive(h, kind, todo)
      PROVE  Deferrals'
  <2>1. UNCHANGED <<phase, retryAt, job>> /\ phase = "run"
    BY <1>0, <1>6 DEF Deferrals, Handle, Receive, CheckSuppression, CreateRow,
                      CreateFails, AddQueuedEvent, Enqueue
  <2> QED
    BY <1>0, <2>1 DEF Deferrals
<1>7. ASSUME NEW m \in Messages, RetryElapses(m) PROVE Deferrals'
  <2>1. retryAt[m] # "null" /\ UNCHANGED <<phase, job, req>>
    BY <1>7 DEF RetryElapses
  <2> QED
    BY <1>0, <2>1 DEF Deferrals
<1>8. CASE \/ Scan \/ HourPasses \/ UNCHANGED vars
           \/ \E m \in Messages : PushRecovered(m) \/ Wake(m) \/ SchedulerPush(m)
  BY <1>1, <1>8 DEF Scan, HourPasses, PushRecovered, Wake, SchedulerPush
<1> QED
  BY <1>2, <1>3, <1>4, <1>5, <1>6, <1>7, <1>8 DEF Next

LEMMA LossNext == Calm /\ LossInv /\ [Next]_vars => LossInv'
<1> SUFFICES ASSUME Calm, LossInv, [Next]_vars PROVE AllKept'
  BY NextTypes, DeferralsNext DEF LossInv
<1>1. CASE UNCHANGED vars
  BY <1>1 DEF LossInv, AllKept, Kept, ByQueue, ByWorker, ByRequest, ByRetry,
              Unfinished, InChannel, Asleep
<1> QED
  BY <1>1, WorkerLosesNothing, RequestLosesNothing, RestLosesNothing
     DEF Calm, Next

\* While the process runs, a row that is not settled is in somebody's hands or
\* will be found by a scan, with any number of handlers, workers and messages
\* and any order of their steps; provided that queries do not fail, and that
\* nothing is deferred or nothing crashes.
THEOREM NothingIsLost == ASSUME Calm PROVE Spec => []NoMessageLost
<1>1. LossInv => NoMessageLost
  <2> SUFFICES ASSUME LossInv, phase = "run", NEW m \in Messages, Unfinished(m)
               PROVE  m \in Held \/ ByRetry(m)
    BY DEF NoMessageLost, ByRetry
  <2>1. Kept(m) /\ m # NoMsg
    BY QueueAssumption DEF LossInv, AllKept
  <2> QED
    BY <2>1 DEF Kept, ByQueue, ByWorker, ByRequest, Held, AtWork, AtRequest
<1> QED
  BY <1>1, LossInit, LossNext, PTL DEF Spec

(***************************************************************************)
(* Bounces.                                                                *)
(***************************************************************************)

\* How far a worker has got with a permanent error.
Bouncing ==
  /\ \A w \in Workers :
       /\ job[w].pc \in {"suppress", "bounce"} => "failed" \in events[job[w].msg]
       /\ job[w].pc = "bounce" => DestOf[job[w].msg] \in suppressed

BounceInv == TypeOK /\ Bouncing /\ BounceTrail

LEMMA BounceInit == Init => BounceInv
<1> SUFFICES ASSUME Init PROVE Bouncing /\ BounceTrail
  BY InitTypes DEF BounceInv
<1>1. /\ \A w \in Workers : job[w].pc = "idle"
      /\ \A m \in Messages : events[m] = {}
      /\ suppressed = {}
  BY IdleRecords DEF Init
<1> QED
  BY <1>1 DEF Bouncing, BounceTrail

LEMMA BounceNext ==
  ASSUME DBMayFail = FALSE, BounceInv, [Next]_vars
  PROVE  BounceInv'
<1>0. TypeOK /\ Bouncing /\ BounceTrail
  BY DEF BounceInv
<1> SUFFICES Bouncing' /\ BounceTrail'
  BY NextTypes DEF BounceInv
\* Events and suppressions are only added, and the trail stays.
<1>1. ASSUME \A m \in Messages : events[m] \subseteq events'[m],
             \A m \in Messages : "bounced" \in events'[m] => "bounced" \in events[m],
             suppressed' = suppressed
      PROVE  BounceTrail'
  BY <1>0, <1>1 DEF BounceTrail
<1>2. ASSUME UNCHANGED <<events, suppressed, job>>
      PROVE  Bouncing' /\ BounceTrail'
  BY <1>0, <1>2 DEF Bouncing, BounceTrail
<1>3. ASSUME NEW w \in Workers, NEW new, JobStep(w, new),
             UNCHANGED <<events, suppressed>>,
             new.pc \notin {"suppress", "bounce"}
      PROVE  Bouncing' /\ BounceTrail'
  <2>1. /\ job'[w] = new
        /\ \A v \in Workers : v # w => job'[v] = job[v]
    BY <1>0, <1>3 DEF TypeOK, JobOK, JobStep
  <2> QED
    BY <1>0, <1>1, <1>3, <2>1 DEF Bouncing
<1>4. ASSUME NEW w \in Workers, Take(w) \/ Work(w)
      PROVE  Bouncing' /\ BounceTrail'
  <2>1. /\ job[w] \in JobRecord
        /\ \A pc \in JobPc : /\ Goto(job[w], pc).pc = pc
                             /\ Goto(job[w], pc).msg = job[w].msg
        /\ IdleJob.pc = "idle"
    BY <1>0, IdleRecords DEF TypeOK, JobOK, JobRecord, Goto
  <2>2. CASE Take(w)
    <3> DEFINE new == [IdleJob EXCEPT !.pc = "hour", !.msg = Head(pending)]
    <3>1. new.pc = "hour" /\ JobStep(w, new)
      BY <2>2 DEF Take, IdleJob
    <3> HIDE DEF new
    <3> QED
      BY <1>3, <2>2, <3>1 DEF Take
  <2>3. CASE \/ HourCheck(w) \/ ResetCount(w) \/ ResetHour(w) \/ UnderLimit(w)
             \/ OverLimit(w) \/ Claim(w) \/ RecordDone(w) \/ RecordFails(w)
             \/ Count(w)
    <3>1. PICK new : JobStep(w, new) /\ new.pc \notin {"suppress", "bounce"}
      BY <2>1, <2>3
         DEF HourCheck, ResetCount, ResetHour, UnderLimit, OverLimit, Claim,
             RecordDone, RecordFails, Count, JobPc
    <3>2. UNCHANGED <<events, suppressed>>
      BY <2>3
         DEF HourCheck, ResetCount, ResetHour, UnderLimit, OverLimit, Claim,
             RecordDone, RecordFails, Count
    <3> QED
      BY <1>3, <3>1, <3>2
  <2>4. CASE Load(w)
    <3> DEFINE new == [job[w] EXCEPT !.pc = "claim",
                                     !.tries = retries[job[w].msg]]
    <3>1. new.pc = "claim"
      BY <2>1 DEF JobRecord
    <3>2. JobStep(w, IdleJob) \/ JobStep(w, new)
      BY <2>4 DEF Load
    <3> HIDE DEF new
    <3> QED
      BY <1>3, <2>1, <2>4, <3>1, <3>2 DEF Load
  <2>5. CASE Transmit(w)
    <3>1. PICK o \in Outcomes :
            JobStep(w, [job[w] EXCEPT !.pc = "record", !.err = o.err])
      BY <2>5 DEF Transmit
    <3> DEFINE new == [job[w] EXCEPT !.pc = "record", !.err = o.err]
    <3>2. new.pc = "record" /\ JobStep(w, new)
      BY <2>1, <3>1 DEF JobRecord
    <3> HIDE DEF new
    <3> QED
      BY <1>3, <2>5, <3>2 DEF Transmit
  <2>6. CASE LogEvent(w)
    <3>1. PICK type \in {"sent", "deferred", "failed"} :
            /\ AddEvent(job[w].msg, type)
            /\ job[w].err = "perm" => type = "failed"
      BY <2>6 DEF LogEvent, Deferred
    <3>2. /\ events' = [events EXCEPT ![job[w].msg] = @ \cup {type}]
          /\ job[w].msg \in Messages
      BY <1>0, <2>6, <3>1 DEF AddEvent, WriteOK, LogEvent, JobAt, TypeOK, JobOK
    <3>3. /\ \A m \in Messages : events[m] \subseteq events'[m]
          /\ \A m \in Messages : "bounced" \in events'[m] => "bounced" \in events[m]
          /\ type \in events'[job[w].msg]
          /\ suppressed' = suppressed
      BY <1>0, <2>6, <3>2 DEF LogEvent, TypeOK, TablesOK
    <3>4. PICK new : /\ JobStep(w, new) /\ new.pc # "bounce"
                     /\ new.pc = "suppress" =>
                          job[w].err = "perm" /\ new.msg = job[w].msg
      BY <2>1, <2>6 DEF LogEvent, JobPc
    <3>5. /\ job'[w] = new
          /\ \A v \in Workers : v # w => job'[v] = job[v]
      BY <1>0, <3>4 DEF TypeOK, JobOK, JobStep
    <3>6. \A v \in Workers : job[v].pc # "idle" => job[v].msg \in Messages
      BY <1>0 DEF TypeOK, JobOK
    <3>7. Bouncing'
      BY <1>0, <3>1, <3>3, <3>4, <3>5, <3>6 DEF Bouncing
    <3> QED
      BY <1>1, <3>3, <3>7
  <2>7. CASE Suppress(w)
    <3> DEFINE new == Goto(job[w], "bounce")
    <3>1. /\ suppressed' = suppressed \cup {DestOf[job[w].msg]}
          /\ events' = events /\ JobStep(w, new)
          /\ job[w].msg \in Messages /\ "failed" \in events[job[w].msg]
      BY <1>0, <2>7 DEF Suppress, WriteOK, JobAt, Bouncing, TypeOK, JobOK
    <3>2. new.pc = "bounce" /\ new.msg = job[w].msg
      BY <2>1 DEF JobPc
    <3> HIDE DEF new
    <3>3. /\ job'[w] = new
          /\ \A v \in Workers : v # w => job'[v] = job[v]
      BY <1>0, <3>1 DEF TypeOK, JobOK, JobStep
    <3> QED
      BY <1>0, <3>1, <3>2, <3>3 DEF Bouncing, BounceTrail
  <2>8. CASE LogBounce(w)
    <3>1. /\ events' = [events EXCEPT ![job[w].msg] = @ \cup {"bounced"}]
          /\ suppressed' = suppressed /\ JobStep(w, IdleJob)
          /\ job[w].msg \in Messages /\ "failed" \in events[job[w].msg]
          /\ DestOf[job[w].msg] \in suppressed
      BY <1>0, <2>8
         DEF LogBounce, AddEvent, WriteOK, JobAt, Bouncing, TypeOK, JobOK
    <3>2. /\ job'[w].pc = "idle"
          /\ \A v \in Workers : v # w => job'[v] = job[v]
      BY <1>0, <2>1, <3>1 DEF TypeOK, JobOK, JobStep
    <3>3. \A m \in Messages : events[m] \subseteq events'[m]
      BY <1>0, <3>1 DEF TypeOK, TablesOK
    <3>4. \A m \in Messages : m # job[w].msg => events'[m] = events[m]
      BY <1>0, <3>1 DEF TypeOK, TablesOK
    <3>5. \A v \in Workers : job[v].pc # "idle" => job[v].msg \in Messages
      BY <1>0 DEF TypeOK, JobOK
    <3>6. Bouncing'
      BY <1>0, <3>1, <3>2, <3>3, <3>5 DEF Bouncing
    <3>7. BounceTrail'
      BY <1>0, <3>1, <3>3, <3>4 DEF BounceTrail
    <3> QED
      BY <3>6, <3>7
  <2> QED
    BY <1>4, <2>2, <2>3, <2>4, <2>5, <2>6, <2>7, <2>8 DEF Work
<1>5. ASSUME NEW h \in Handlers,
             \/ Handle(h)
             \/ \E kind \in ReqKind, todo \in SUBSET Messages :
                  Receive(h, kind, todo)
      PROVE  Bouncing' /\ BounceTrail'
  <2>1. CASE AddQueuedEvent(h)
    <3>1. /\ events' = [events EXCEPT ![req[h].msg] = @ \cup {"queued"}]
          /\ UNCHANGED <<suppressed, job>>
      BY <2>1 DEF AddQueuedEvent, AddEvent, WriteOK
    <3>2. /\ \A m \in Messages : events[m] \subseteq events'[m]
          /\ \A m \in Messages : "bounced" \in events'[m] => "bounced" \in events[m]
      BY <1>0, <3>1 DEF TypeOK, TablesOK
    <3>3. \A v \in Workers : job[v].pc # "idle" => job[v].msg \in Messages
      BY <1>0 DEF TypeOK, JobOK
    <3> QED
      BY <1>0, <1>1, <3>1, <3>2, <3>3 DEF Bouncing
  <2> QED
    BY <1>2, <1>5, <2>1 DEF Handle, Receive, CheckSuppression, CreateRow,
                            CreateFails, Enqueue
<1>6. CASE Crash
  BY <1>0, <1>6, IdleRecords DEF Crash, Bouncing, BounceTrail
<1>7. CASE \/ Boot \/ StartWorkers \/ Scan \/ HourPasses \/ UNCHANGED vars
           \/ \E m \in Messages : \/ PushRecovered(m) \/ Wake(m)
                                  \/ SchedulerPush(m) \/ RetryElapses(m)
  BY <1>2, <1>7 DEF Boot, StartWorkers, Scan, HourPasses, PushRecovered, Wake,
                    SchedulerPush, RetryElapses
<1> QED
  BY <1>4, <1>5, <1>6, <1>7 DEF Next

\* Where writes do not fail, a bounce event is written only for a message that
\* failed and whose recipient is suppressed by then, and nobody is suppressed
\* without one: also when a crash comes between the three writes.
THEOREM BouncesAreTraced == ASSUME DBMayFail = FALSE PROVE Spec => []BounceTrail
<1>1. BounceInv => BounceTrail
  BY DEF BounceInv
<1>2. BounceInv /\ [Next]_vars => BounceInv'
  BY BounceNext
<1> QED
  BY <1>1, <1>2, BounceInit, PTL DEF Spec

=============================================================================
