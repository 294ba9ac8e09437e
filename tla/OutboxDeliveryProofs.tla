------------------------ MODULE OutboxDeliveryProofs ------------------------
(***************************************************************************)
(* Proofs about OutboxDelivery for any number of events and of executions  *)
(* that run at the same time, any retry budget and any number of stalls,    *)
(* crashes and losses of the queue.  Liveness is left to TLC.               *)
(***************************************************************************)
EXTENDS OutboxDelivery, TLAPS

-----------------------------------------------------------------------------
(* The inductive invariant. *)

\* What an execution works on, by where it stands.
HandlerPlaces ==
  \A h \in Handlers :
    /\ run[h].at # "idle" => Of(h) \in Events
    /\ run[h].at \in {"ready", "reserved", "answered", "failEvent", "killEvent"}
         => Of(h) \in SmsEvents
    /\ run[h].at = "answered" => run[h].answer \in Answers
    /\ run[h].at = "complete" => Of(h) \notin FraudEvents
    /\ run[h].at = "complete" /\ Of(h) \in SmsEvents => Known(h).status \in Delivered

\* Whoever takes a message for sent, the row, an execution that read it, or one that
\* has the provider's answer, is right.
SentWasAccepted ==
  /\ \A e \in SmsEvents : sms[e].status \in Delivered => accepted[e] >= 1
  /\ \A h \in Handlers : Of(h) \in SmsEvents =>
       /\ Known(h).status \in Delivered => accepted[Of(h)] >= 1
       /\ run[h].at = "answered" /\ run[h].answer = "SENT" => accepted[Of(h)] >= 1

\* An execution that may still make the provider accept a message, or put the message
\* back for another attempt.
Holds(h) == run[h].at = "reserved" \/ (run[h].at = "answered" /\ run[h].answer = "RETRYABLE")

\* With a reservation: a message the provider took is never reserved again, and one
\* execution at a time holds a message that the provider has not taken.
Reservation ==
  provider = "reserved" =>
    /\ \A e \in SmsEvents : accepted[e] >= 1 =>
         sms[e].dead \/ sms[e].category = "inProgress" \/ sms[e].status \in Delivered
    /\ \A h \in Handlers : run[h].at = "ready" =>
         Known(h).status \notin Delivered /\ Known(h).category # "inProgress"
    /\ \A h \in Handlers : Holds(h) =>
         /\ accepted[Of(h)] = 0
         /\ sms[Of(h)].dead \/ sms[Of(h)].category = "inProgress"
         /\ \A g \in Handlers : Holds(g) /\ Of(g) = Of(h) => g = h

Inv == /\ TypeOK /\ HandlerPlaces /\ EvaluatedOnce /\ SentWasAccepted /\ CompletedWasSent
       /\ Reservation /\ OneMessagePerEvent

-----------------------------------------------------------------------------
(* Types of the rows that the steps write. *)

LEMMA NewRowsTyped ==
  /\ NewSms \in Messages /\ Idle \in Executions /\ Idle.at = "idle" /\ Idle.of = None
  /\ NewSms.status = "QUEUED" /\ Idle.saw = NewSms
BY DEF NewSms, Idle, Messages, Executions, Places, Delivered

LEMMA AnswerRowsTyped ==
  ASSUME NEW m \in Messages
  PROVE  /\ \A dead \in BOOLEAN : /\ FailedSms(m, dead) \in Messages
                                  /\ FailedSms(m, dead).status = "FAILED"
                                  /\ FailedSms(m, dead).dead = dead
         /\ SentSms(m) \in Messages /\ SentSms(m).status = "SENT"
BY DEF FailedSms, SentSms, Messages, Delivered

\* An execution moves on, with an answer of the provider or without.
LEMMA MoveRun ==
  ASSUME TypeOK, NEW h \in Handlers, NEW to \in Places, run' = [run EXCEPT ![h].at = to]
  PROVE  /\ run' \in [Handlers -> Executions]
         /\ run'[h].at = to /\ run'[h].of = run[h].of /\ run'[h].saw = run[h].saw
         /\ run'[h].answer = run[h].answer
         /\ \A g \in Handlers \ {h} : run'[g] = run[g]
<1>1. run \in [Handlers -> Executions]
  BY DEF TypeOK
<1> QED
  BY <1>1 DEF Executions

LEMMA AnswerRun ==
  ASSUME TypeOK, NEW h \in Handlers, NEW a \in Answers,
         run' = [run EXCEPT ![h].at = "answered", ![h].answer = a]
  PROVE  /\ run' \in [Handlers -> Executions]
         /\ run'[h].at = "answered" /\ run'[h].of = run[h].of /\ run'[h].saw = run[h].saw
         /\ run'[h].answer = a
         /\ \A g \in Handlers \ {h} : run'[g] = run[g]
<1>1. run \in [Handlers -> Executions]
  BY DEF TypeOK
<1> QED
  BY <1>1 DEF Executions, Places

LEMMA TakeRun ==
  ASSUME TypeOK, NEW h \in Handlers, NEW e \in Events, Take(h, e)
  PROVE  /\ run' \in [Handlers -> Executions]
         /\ run'[h].at \in {"read", "done"} /\ run'[h].of = e
         /\ run'[h].saw = IF e \in SmsEvents THEN sms[e] ELSE NewSms
         /\ \A g \in Handlers \ {h} : run'[g] = run[g]
<1>1. run \in [Handlers -> Executions] /\ sms \in [SmsEvents -> Messages]
  BY DEF TypeOK
<1>2. PICK m \in Messages : m = IF e \in SmsEvents THEN sms[e] ELSE NewSms
  BY <1>1, NewRowsTyped
<1>3. PICK to \in {"read", "done"} : to = IF Open(e) THEN "read" ELSE "done"
  OBVIOUS
<1>4. run' = [run EXCEPT ![h] = [at |-> to, of |-> e, saw |-> m, answer |-> None]]
  BY <1>2, <1>3 DEF Take
<1>5. [at |-> to, of |-> e, saw |-> m, answer |-> None] \in Executions
  BY DEF Executions, Places
<1> QED
  BY <1>1, <1>2, <1>4, <1>5

LEMMA EndRun ==
  ASSUME TypeOK, NEW h \in Handlers, run' = [run EXCEPT ![h] = Idle]
  PROVE  /\ run' \in [Handlers -> Executions] /\ run'[h] = Idle
         /\ \A g \in Handlers \ {h} : run'[g] = run[g]
BY NewRowsTyped DEF TypeOK

\* The updates of an OutboxEvent.
LEMMA EventRow ==
  ASSUME TypeOK, NEW e \in Events, NEW st \in Statuses
  PROVE  LET moved == [event EXCEPT ![e].status = st]
             done == [event EXCEPT ![e].status = st, ![e].processed = TRUE]
         IN  /\ moved \in [Events -> Rows] /\ done \in [Events -> Rows]
             /\ \A x \in Events : /\ moved[x].processed = event[x].processed
                                  /\ done[x].processed = (x = e \/ event[x].processed)
<1>1. event \in [Events -> Rows]
  BY DEF TypeOK
<1> QED
  BY <1>1 DEF Rows

LEMMA FailedRow ==
  ASSUME TypeOK, NEW e \in Events, NEW dead \in BOOLEAN
  PROVE  LET failed == [event EXCEPT ![e].status = "FAILED", ![e].dead = dead]
         IN  /\ failed \in [Events -> Rows]
             /\ \A x \in Events : failed[x].processed = event[x].processed
<1>1. event \in [Events -> Rows]
  BY DEF TypeOK
<1> QED
  BY <1>1 DEF Rows, Statuses

\* A delivery report, and the provider's count.
LEMMA ReportRow ==
  ASSUME TypeOK, NEW e \in SmsEvents, NEW s \in {"DELIVERED", "FAILED"}, Report(e, s)
  PROVE  /\ sms' \in [SmsEvents -> Messages]
         /\ sms'[e].status = s /\ \A x \in SmsEvents \ {e} : sms'[x] = sms[x]
<1>1. sms \in [SmsEvents -> Messages]
  BY DEF TypeOK
<1>2. PICK row : row = [sms[e] EXCEPT !.status = s, !.failed = (s = "FAILED"),
                                      !.category = IF s = "FAILED" THEN "failed" ELSE @]
  OBVIOUS
<1>3. row \in Messages /\ row.status = s
  BY <1>1, <1>2 DEF Messages, Delivered
<1>4. sms' = [sms EXCEPT ![e] = row]
  BY <1>1, <1>2 DEF Report
<1> QED
  BY <1>1, <1>3, <1>4

LEMMA SubmitCounts ==
  ASSUME TypeOK, NEW h \in Handlers, Of(h) \in SmsEvents, Submit(h)
  PROVE  /\ accepted' \in [SmsEvents -> Nat] /\ submitted' \in [SmsEvents -> Nat]
         /\ \A e \in SmsEvents : /\ accepted'[e] >= accepted[e]
                                 /\ e # Of(h) => accepted'[e] = accepted[e]
<1>1. accepted \in [SmsEvents -> Nat] /\ submitted \in [SmsEvents -> Nat]
  BY DEF TypeOK
<1>2. PICK takes \in BOOLEAN : accepted' = [accepted EXCEPT ![Of(h)] =
                         IF takes /\ ~(provider = "keyed" /\ @ > 0) THEN @ + 1 ELSE @]
  BY DEF Submit
<1>3. submitted' = [submitted EXCEPT ![Of(h)] = @ + 1]
  BY DEF Submit
<1> QED
  BY <1>1, <1>2, <1>3

-----------------------------------------------------------------------------
LEMMA TypeKept ==
  ASSUME TypeOK, HandlerPlaces, Next
  PROVE  TypeOK'
<1>0. ASSUME NEW h \in Handlers, EvaluateFraud(h) PROVE event' \in [Events -> Rows]
  <2>1. \/ event' = event
        \/ event' = [event EXCEPT ![Of(h)].status = "COMPLETED", ![Of(h)].processed = TRUE]
    BY <1>0 DEF EvaluateFraud
  <2>2. Of(h) \in Events /\ "COMPLETED" \in Statuses
    BY <1>0 DEF EvaluateFraud, Events, Statuses
  <2>3. event \in [Events -> Rows]
    BY DEF TypeOK
  <2>4. CASE event' = [event EXCEPT ![Of(h)].status = "COMPLETED", ![Of(h)].processed = TRUE]
    BY <2>2, <2>3, <2>4 DEF Rows
  <2> QED
    BY <2>1, <2>3, <2>4
<1> USE DEF TypeOK, outside, queue, recovery
<1>1. CASE Repair
  BY <1>1 DEF Repair, Rows, Statuses
<1>2. CASE Claim
  BY <1>2 DEF Claim, Rows, Statuses
<1>3. ASSUME NEW e \in Events, Enqueue(e) PROVE TypeOK'
  BY <1>3 DEF Enqueue
<1>4. ASSUME NEW e \in Events, NEW s \in {"PUBLISHED", "FAILED"}, SettlePublication(e, s),
             faults' \in 0 .. MaxFaults
      PROVE  TypeOK'
  BY <1>4 DEF SettlePublication, Rows, Statuses
<1>5. ASSUME Faulty PROVE faults' \in 0 .. MaxFaults
  BY <1>5, OutboxAssumption DEF Faulty
<1>6. ASSUME NEW e \in Events, Publish(e) PROVE TypeOK'
  BY <1>4, <1>6 DEF Publish
<1>7. ASSUME NEW e \in Events, PublishFails(e) PROVE TypeOK'
  BY <1>4, <1>5, <1>7 DEF PublishFails
<1>8. ASSUME NEW e \in Events, Stall(e) PROVE TypeOK'
  BY <1>5, <1>8 DEF Stall
<1>9. CASE Crash
  BY <1>5, <1>9, NewRowsTyped DEF Crash
<1>10. CASE LoseQueue
  BY <1>5, <1>10 DEF LoseQueue
<1>11. ASSUME NEW e \in SmsEvents, NEW s \in {"DELIVERED", "FAILED"}, Report(e, s) PROVE TypeOK'
  <2>1. sms' \in [SmsEvents -> Messages]
    BY <1>11, ReportRow
  <2> QED
    BY <1>11, <2>1 DEF Report
<1>12. ASSUME NEW h \in Handlers, Work(h) \/ ProcessingFails(h) PROVE TypeOK'
  <2>0. run[h].at # "idle" => Of(h) \in Events
    BY DEF HandlerPlaces
  <2>1. ASSUME NEW e \in Events, Take(h, e) PROVE TypeOK'
    <3>1. run' \in [Handlers -> Executions]
      BY <2>1, TakeRun
    <3> QED
      BY <2>1, <3>1 DEF Take
  <2>2. CASE MarkPublished(h)
    <3>1. run' \in [Handlers -> Executions]
      BY <2>2, MoveRun DEF MarkPublished, Moves, Places
    <3>2. event' \in [Events -> Rows]
      BY <2>0, <2>2, EventRow DEF MarkPublished, Moves, Statuses
    <3> QED
      BY <2>2, <3>1, <3>2 DEF MarkPublished
  <2>3. CASE EvaluateFraud(h)
    <3>1. run' \in [Handlers -> Executions]
      BY <2>3, MoveRun DEF EvaluateFraud, Moves, Places
    <3>2. Of(h) \in Events /\ "COMPLETED" \in Statuses
      BY <2>3 DEF EvaluateFraud, Events, Statuses
    <3>3. event' \in [Events -> Rows]
      BY <1>0, <2>3
    <3>4. evaluated' \in [Events -> Nat]
      BY <2>3, <3>2 DEF EvaluateFraud
    <3> QED
      BY <2>3, <3>1, <3>3, <3>4 DEF EvaluateFraud
  <2>4. CASE RefreshReport(h)
    <3>1. run' \in [Handlers -> Executions]
      BY <2>4, MoveRun DEF RefreshReport, Moves, Places
    <3> QED
      BY <2>4, <3>1 DEF RefreshReport
  <2>5. CASE ProcessingFails(h)
    <3>1. run' \in [Handlers -> Executions]
      BY <2>5, MoveRun DEF ProcessingFails, Moves, Places
    <3> QED
      BY <2>5, <3>1, <1>5 DEF ProcessingFails
  <2>6. CASE Dispatch(h)
    <3>1. run' \in [Handlers -> Executions]
      BY <2>6, MoveRun DEF Dispatch, Moves, Places
    <3> QED
      BY <2>6, <3>1 DEF Dispatch
  <2>7. CASE GiveUpReservation(h)
    <3>1. run' \in [Handlers -> Executions]
      BY <2>7, AnswerRun DEF GiveUpReservation, Answers
    <3> QED
      BY <2>7, <3>1 DEF GiveUpReservation
  <2>8. CASE RefusePayload(h)
    <3>1. run' \in [Handlers -> Executions]
      BY <2>8, MoveRun DEF RefusePayload, Moves, Places
    <3>2. sms' \in [SmsEvents -> Messages]
      BY <2>8, AnswerRowsTyped, OutboxAssumption DEF RefusePayload
    <3> QED
      BY <2>8, <3>1, <3>2 DEF RefusePayload
  <2>9. CASE Reserve(h)
    <3>1. run' \in [Handlers -> Executions]
      BY <2>9, MoveRun DEF Reserve, Moves, Places
    <3>2. sms' \in [SmsEvents -> Messages]
      BY <2>9 DEF Reserve, Messages
    <3> QED
      BY <2>9, <3>1, <3>2 DEF Reserve
  <2>10. CASE Submit(h)
    <3>1. run' \in [Handlers -> Executions]
      BY <2>10, AnswerRun DEF Submit
    <3>2. accepted' \in [SmsEvents -> Nat] /\ submitted' \in [SmsEvents -> Nat]
      BY <2>10, SubmitCounts DEF Submit, HandlerPlaces
    <3> QED
      BY <2>10, <3>1, <3>2 DEF Submit
  <2>11. CASE RecordAnswer(h)
    <3>1. Of(h) \in SmsEvents
      BY <2>11 DEF RecordAnswer, HandlerPlaces
    <3>2. sms' \in [SmsEvents -> Messages]
      BY <2>11, <3>1, AnswerRowsTyped DEF RecordAnswer, Ends
    <3>3. run' \in [Handlers -> Executions]
      BY <2>11, MoveRun DEF RecordAnswer, Places
    <3> QED
      BY <2>11, <3>2, <3>3 DEF RecordAnswer
  <2>12. CASE FailEvent(h)
    <3>1. run' \in [Handlers -> Executions]
      BY <2>12, MoveRun DEF FailEvent, Moves, Places
    <3>2. event' \in [Events -> Rows]
      BY <2>0, <2>12, FailedRow DEF FailEvent, Moves
    <3> QED
      BY <2>12, <3>1, <3>2 DEF FailEvent
  <2>13. CASE KillEvent(h)
    <3>1. run' \in [Handlers -> Executions]
      BY <2>13, MoveRun DEF KillEvent, Moves, Places
    <3>2. event' \in [Events -> Rows]
      BY <2>0, <2>13, FailedRow DEF KillEvent, Moves
    <3> QED
      BY <2>13, <3>1, <3>2 DEF KillEvent
  <2>14. CASE CompleteEvent(h)
    <3>1. run' \in [Handlers -> Executions]
      BY <2>14, MoveRun DEF CompleteEvent, Moves, Places
    <3>2. event' \in [Events -> Rows]
      BY <2>0, <2>14, EventRow DEF CompleteEvent, Moves, Statuses
    <3> QED
      BY <2>14, <3>1, <3>2 DEF CompleteEvent
  <2>15. CASE EndJob(h)
    <3>1. run' \in [Handlers -> Executions]
      BY <2>15, EndRun DEF EndJob
    <3> QED
      BY <2>15, <3>1 DEF EndJob
  <2> QED
    BY <1>12, <2>1, <2>2, <2>3, <2>4, <2>5, <2>6, <2>7, <2>8, <2>9, <2>10, <2>11, <2>12, <2>13,
       <2>14, <2>15 DEF Work
<1> QED
  BY <1>1, <1>2, <1>3, <1>6, <1>7, <1>8, <1>9, <1>10, <1>11, <1>12 DEF Next

-----------------------------------------------------------------------------
(* Where the executions stand. *)

\* What concerns only the executions that a step does not move.
LEMMA PlacesKept ==
  ASSUME TypeOK, HandlerPlaces, Next
  PROVE  HandlerPlaces'
<1>0. /\ SmsEvents \cap FraudEvents = {} /\ (SmsEvents \cup FraudEvents) \cap ReportEvents = {}
      /\ SmsEvents \subseteq Events
  BY OutboxAssumption DEF Events
<1>1. CASE run' = run
  BY <1>1 DEF HandlerPlaces, Of, Known
<1>2. CASE Crash
  BY <1>2, NewRowsTyped DEF Crash, HandlerPlaces, Of, Known
<1>3. ASSUME NEW h \in Handlers, Work(h) \/ ProcessingFails(h) PROVE HandlerPlaces'
  <2> USE <1>0 DEF HandlerPlaces, Of, Known
  <2>0. ASSUME NEW from \in Places \ {"idle"}, NEW to \in {"published", "done", "throw"},
               Moves(h, from, to)
        PROVE  HandlerPlaces'
    <3>1. run[h].at = from /\ to \in Places /\ run' = [run EXCEPT ![h].at = to]
      BY <2>0 DEF Moves, Places
    <3>2. /\ run'[h].at = to /\ run'[h].of = run[h].of
          /\ \A g \in Handlers \ {h} : run'[g] = run[g]
      BY <3>1, MoveRun
    <3> QED
      BY <3>1, <3>2
  <2>1. ASSUME NEW e \in Events, Take(h, e) PROVE HandlerPlaces'
    BY <2>1, TakeRun
  <2>2. CASE MarkPublished(h)
    BY <2>0, <2>2 DEF MarkPublished, Places
  <2>3. CASE EvaluateFraud(h)
    BY <2>3, MoveRun DEF EvaluateFraud, Moves, Places
  <2>4. CASE RefreshReport(h)
    BY <2>4, MoveRun DEF RefreshReport, Moves, Places
  <2>5. CASE ProcessingFails(h)
    BY <2>0, <2>5 DEF ProcessingFails, Places
  <2>6. CASE Dispatch(h)
    BY <2>6, MoveRun DEF Dispatch, Moves, Places
  <2>7. CASE GiveUpReservation(h)
    <3>1. /\ run' = [run EXCEPT ![h].at = "answered", ![h].answer = "THROWN"]
          /\ run[h].of \in SmsEvents
      BY <2>7 DEF GiveUpReservation
    <3>2. /\ run'[h].at = "answered" /\ run'[h].of = run[h].of /\ run'[h].answer = "THROWN"
          /\ \A g \in Handlers \ {h} : run'[g] = run[g]
      BY <3>1, AnswerRun DEF Answers
    <3>3. "THROWN" \in Answers
      BY DEF Answers
    <3> QED
      BY <3>1, <3>2, <3>3
  <2>8. CASE RefusePayload(h)
    BY <2>8, MoveRun DEF RefusePayload, Moves, Places
  <2>9. CASE Reserve(h)
    BY <2>9, MoveRun DEF Reserve, Moves, Places
  <2>10. CASE Submit(h)
    <3>1. PICK a \in Answers : run' = [run EXCEPT ![h].at = "answered", ![h].answer = a]
      BY <2>10 DEF Submit
    <3>2. run[h].at = "reserved"
      BY <2>10 DEF Submit
    <3>3. /\ run'[h].at = "answered" /\ run'[h].of = run[h].of /\ run'[h].answer = a
          /\ \A g \in Handlers \ {h} : run'[g] = run[g]
      BY <3>1, AnswerRun
    <3>4. run[h].of \in SmsEvents
      BY <3>2
    <3> QED
      BY <3>2, <3>3, <3>4
  <2>11. CASE RecordAnswer(h)
    BY <2>11, MoveRun DEF RecordAnswer, Places
  <2>12. CASE FailEvent(h)
    BY <2>0, <2>12 DEF FailEvent, Places
  <2>13. CASE KillEvent(h)
    BY <2>0, <2>13 DEF KillEvent, Places
  <2>14. CASE CompleteEvent(h)
    BY <2>0, <2>14 DEF CompleteEvent, Places
  <2>15. CASE EndJob(h)
    BY <2>15, EndRun, NewRowsTyped DEF EndJob
  <2> QED
    BY <1>3, <2>1, <2>2, <2>3, <2>4, <2>5, <2>6, <2>7, <2>8, <2>9, <2>10, <2>11, <2>12, <2>13,
       <2>14, <2>15 DEF Work
<1>4. CASE \/ Repair \/ Claim \/ LoseQueue
           \/ \E e \in Events : Enqueue(e) \/ Publish(e) \/ PublishFails(e) \/ Stall(e)
           \/ \E e \in SmsEvents, s \in {"DELIVERED", "FAILED"} : Report(e, s)
  BY <1>1, <1>4 DEF Repair, Claim, LoseQueue, Enqueue, Publish, PublishFails, SettlePublication,
       Stall, Report
<1> QED
  BY <1>2, <1>3, <1>4 DEF Next

-----------------------------------------------------------------------------
(* Which events are completed. *)

\* A step completes an event only if its message went out, or its evaluation or
\* refresh is done.
LEMMA EventsKept ==
  ASSUME Inv, Next
  PROVE  /\ \A e \in SmsEvents : event'[e].processed =>
              event[e].processed \/ accepted[e] >= 1
         /\ \A e \in FraudEvents :
              \/ event'[e].processed = event[e].processed /\ evaluated'[e] = evaluated[e]
              \/ ~event[e].processed /\ event'[e].processed /\ evaluated'[e] = evaluated[e] + 1
<1> DEFINE Goal == /\ \A e \in SmsEvents : event'[e].processed =>
                          event[e].processed \/ accepted[e] >= 1
                   /\ \A e \in FraudEvents :
                        \/ event'[e].processed = event[e].processed /\ evaluated'[e] = evaluated[e]
                        \/ /\ ~event[e].processed /\ event'[e].processed
                           /\ evaluated'[e] = evaluated[e] + 1
<1>0. /\ SmsEvents \cap FraudEvents = {} /\ (SmsEvents \cup FraudEvents) \cap ReportEvents = {}
      /\ SmsEvents \subseteq Events /\ FraudEvents \subseteq Events
  BY OutboxAssumption DEF Events
<1>a. TypeOK /\ HandlerPlaces
  BY DEF Inv
<1>1. ASSUME evaluated' = evaluated, \A e \in Events : event'[e].processed = event[e].processed
      PROVE  Goal
  BY <1>0, <1>1
<1>2. CASE Repair
  <2>1. /\ evaluated' = evaluated
        /\ \A e \in Events : event'[e].processed = (Completable(e) \/ event[e].processed)
    BY <1>a, <1>2 DEF Repair, outside, TypeOK, Rows
  <2>2. \A e \in Events : Completable(e) =>
          event[e].processed \/ (e \in SmsEvents /\ accepted[e] >= 1)
    BY DEF Completable, Inv, SentWasAccepted
  <2>3. \A e \in Events : event[e].processed \in BOOLEAN
    BY <1>a DEF TypeOK, Rows
  <2> QED
    BY <1>0, <2>1, <2>2, <2>3
<1>3. CASE Claim
  <2>1. \A e \in Events : event'[e].processed = event[e].processed
    BY <1>a, <1>3 DEF Claim, TypeOK, Rows
  <2> QED
    BY <1>1, <1>3, <2>1 DEF Claim, outside
<1>4. ASSUME NEW e \in Events, Enqueue(e) PROVE Goal
  BY <1>1, <1>4 DEF Enqueue, outside
<1>5. ASSUME NEW e \in Events, Publish(e) \/ PublishFails(e) PROVE Goal
  <2>1. PICK s \in {"PUBLISHED", "FAILED"} : SettlePublication(e, s)
    BY <1>5 DEF Publish, PublishFails
  <2>2. \A x \in Events : event'[x].processed = event[x].processed
    BY <1>a, <2>1 DEF SettlePublication, TypeOK, Rows
  <2> QED
    BY <1>1, <2>1, <2>2 DEF SettlePublication, outside
<1>6. CASE \/ LoseQueue \/ Crash \/ \E e \in Events : Stall(e)
           \/ \E e \in SmsEvents, s \in {"DELIVERED", "FAILED"} : Report(e, s)
  BY <1>1, <1>6 DEF LoseQueue, Crash, Stall, Report, outside
<1>7. ASSUME NEW h \in Handlers, Work(h) \/ ProcessingFails(h) PROVE Goal
  <2>0. run[h].at # "idle" => Of(h) \in Events
    BY <1>a DEF HandlerPlaces
  <2>1. CASE MarkPublished(h)
    BY <1>1, <1>a, <2>0, <2>1, EventRow DEF MarkPublished, Moves, Statuses, outside
  <2>2. CASE EvaluateFraud(h)
    <3>1. Of(h) \in FraudEvents /\ Of(h) \in Events /\ "COMPLETED" \in Statuses
      BY <1>0, <2>2 DEF EvaluateFraud, Statuses
    <3>2. CASE event' = event /\ evaluated' = evaluated
      BY <1>1, <3>2
    <3>3. CASE /\ StillUnprocessed(Of(h))
               /\ event' = [event EXCEPT ![Of(h)].status = "COMPLETED", ![Of(h)].processed = TRUE]
               /\ evaluated' = [evaluated EXCEPT ![Of(h)] = @ + 1]
      <4>1. \A x \in Events : event'[x].processed = (x = Of(h) \/ event[x].processed)
        BY <1>a, <3>1, <3>3, EventRow
      <4>2. \A x \in Events : evaluated'[x] = IF x = Of(h) THEN evaluated[x] + 1 ELSE evaluated[x]
        BY <1>a, <3>3 DEF TypeOK
      <4>3. ~event[Of(h)].processed
        BY <3>3 DEF StillUnprocessed
      <4>4. \A x \in Events : event[x].processed \in BOOLEAN
        BY <1>a DEF TypeOK, Rows
      <4> QED
        BY <1>0, <3>1, <4>1, <4>2, <4>3, <4>4
    <3> QED
      BY <2>2, <3>2, <3>3 DEF EvaluateFraud
  <2>3. CASE RefreshReport(h)
    <3>1. \A x \in FraudEvents : evaluated'[x] = evaluated[x]
      BY <1>0, <1>a, <2>3 DEF RefreshReport, TypeOK
    <3> QED
      BY <1>0, <2>3, <3>1 DEF RefreshReport
  <2>4. CASE FailEvent(h) \/ KillEvent(h)
    <3>1. PICK dead \in BOOLEAN :
            event' = [event EXCEPT ![Of(h)].status = "FAILED", ![Of(h)].dead = dead]
      BY <2>4 DEF FailEvent, KillEvent
    <3>2. Of(h) \in Events /\ evaluated' = evaluated
      BY <2>0, <2>4 DEF FailEvent, KillEvent, Moves, outside
    <3>3. \A x \in Events : event'[x].processed = event[x].processed
      BY <1>a, <3>1, <3>2, FailedRow
    <3> QED
      BY <1>1, <3>2, <3>3
  <2>5. CASE CompleteEvent(h)
    <3>1. Of(h) \in Events /\ Of(h) \notin FraudEvents /\ "COMPLETED" \in Statuses
      BY <1>a, <2>0, <2>5 DEF CompleteEvent, Moves, HandlerPlaces, Statuses
    <3>2. Of(h) \in SmsEvents => accepted[Of(h)] >= 1
      BY <2>5 DEF CompleteEvent, Moves, Inv, HandlerPlaces, SentWasAccepted
    <3>3. \A x \in Events : event'[x].processed = (x = Of(h) \/ event[x].processed)
      BY <1>a, <2>5, <3>1, EventRow DEF CompleteEvent
    <3>4. \A x \in Events : event[x].processed \in BOOLEAN
      BY <1>a DEF TypeOK, Rows
    <3>5. evaluated' = evaluated
      BY <2>5 DEF CompleteEvent, outside
    <3> QED
      BY <1>0, <3>1, <3>2, <3>3, <3>4, <3>5
  <2>6. ASSUME event' = event, evaluated' = evaluated PROVE Goal
    BY <1>1, <2>6
  <2> QED
    BY <1>7, <2>1, <2>2, <2>3, <2>4, <2>5, <2>6 DEF Work, ProcessingFails, Take, Dispatch,
       GiveUpReservation, RefusePayload, Reserve, Submit, RecordAnswer, EndJob, outside
<1> QED
  BY <1>2, <1>3, <1>4, <1>5, <1>6, <1>7 DEF Next

-----------------------------------------------------------------------------
(* What the provider took. *)

\* The provider's count of accepted messages only grows, and only by Submit.
LEMMA AcceptedKept ==
  ASSUME TypeOK, HandlerPlaces, Next
  PROVE  /\ \A e \in SmsEvents : accepted'[e] >= accepted[e]
         /\ provider' = provider
<1>0. accepted \in [SmsEvents -> Nat]
  BY DEF TypeOK
<1>1. ASSUME NEW h \in Handlers, Submit(h)
      PROVE  /\ \A e \in SmsEvents : accepted'[e] >= accepted[e]
             /\ provider' = provider
  BY <1>1, SubmitCounts DEF HandlerPlaces, Submit
<1>2. CASE accepted' = accepted /\ provider' = provider
  BY <1>0, <1>2
<1>3. \/ accepted' = accepted /\ provider' = provider
      \/ \E h \in Handlers : Submit(h)
  <2>1. CASE \/ Repair \/ Claim \/ Crash \/ LoseQueue
             \/ \E e \in Events : Enqueue(e) \/ Publish(e) \/ PublishFails(e) \/ Stall(e)
             \/ \E e \in SmsEvents, s \in {"DELIVERED", "FAILED"} : Report(e, s)
    BY <2>1 DEF Repair, Claim, Crash, LoseQueue, Enqueue, Publish, PublishFails,
         SettlePublication, Stall, Report, outside
  <2>2. CASE \E h \in Handlers : Work(h) \/ ProcessingFails(h)
    BY <2>2, ZenonT(40) DEF Work, ProcessingFails, Take, MarkPublished, EvaluateFraud,
         RefreshReport, Dispatch, GiveUpReservation, RefusePayload, Reserve, RecordAnswer,
         FailEvent, KillEvent, CompleteEvent, EndJob, outside
  <2> QED
    BY <2>1, <2>2 DEF Next
<1> QED
  BY <1>1, <1>2, <1>3

\* The steps that touch neither the messages nor an execution that is about to
\* submit one or has just done so: they leave every execution where it was, or move
\* one to a place where it holds nothing.
Quiet == /\ sms' = sms /\ accepted' = accepted
         /\ \A h \in Handlers :
              \/ run'[h] = run[h]
              \/ /\ run'[h].at \notin {"ready", "reserved", "answered"}
                 /\ run'[h].of \in SmsEvents /\ run'[h].saw.status \in Delivered
                      => accepted[run'[h].of] >= 1

LEMMA QuietPreserves ==
  ASSUME SentWasAccepted, Reservation, provider' = provider, Quiet
  PROVE  SentWasAccepted' /\ Reservation'
<1>1. SentWasAccepted'
  BY DEF SentWasAccepted, Quiet, Of, Known
<1>2. \A h \in Handlers : Holds(h)' => run'[h] = run[h] /\ Holds(h)
  BY DEF Quiet, Holds
<1>3. Reservation'
  BY <1>2 DEF Reservation, Quiet, Of, Known
<1> QED
  BY <1>1, <1>3

\* The steps that are quiet.
LEMMA QuietSteps ==
  ASSUME Inv, Next
  PROVE  \/ Quiet
         \/ \E h \in Handlers : \/ Dispatch(h) /\ run'[h].at = "ready"
                                \/ GiveUpReservation(h) \/ RefusePayload(h) \/ Reserve(h)
                                \/ Submit(h) \/ RecordAnswer(h)
         \/ \E e \in SmsEvents, s \in {"DELIVERED", "FAILED"} : Report(e, s)
<1>a. TypeOK /\ HandlerPlaces
  BY DEF Inv
<1>1. ASSUME UNCHANGED <<sms, accepted, run>> PROVE Quiet
  BY <1>1 DEF Quiet
<1>2. CASE \/ Repair \/ Claim \/ LoseQueue
           \/ \E e \in Events : Enqueue(e) \/ Publish(e) \/ PublishFails(e) \/ Stall(e)
  BY <1>1, <1>2 DEF Repair, Claim, LoseQueue, Enqueue, Publish, PublishFails, SettlePublication,
       Stall, outside
<1>3. CASE Crash
  BY <1>3, NewRowsTyped DEF Crash, Quiet, outside, Delivered
<1>4. ASSUME NEW h \in Handlers, NEW to \in Places \ {"ready", "reserved", "answered"},
             run' = [run EXCEPT ![h].at = to], UNCHANGED <<sms, accepted>>
      PROVE  Quiet
  <2>1. /\ run'[h].at = to /\ run'[h].of = run[h].of /\ run'[h].saw = run[h].saw
        /\ \A g \in Handlers \ {h} : run'[g] = run[g]
    BY <1>a, <1>4, MoveRun
  <2> QED
    BY <1>4, <2>1 DEF Quiet, Inv, SentWasAccepted, Of, Known
<1>5. ASSUME NEW h \in Handlers, NEW e \in Events, Take(h, e) PROVE Quiet
  BY <1>a, <1>5, TakeRun, NewRowsTyped DEF Take, Quiet, outside, Inv, SentWasAccepted
<1>6. ASSUME NEW h \in Handlers, EndJob(h) PROVE Quiet
  BY <1>a, <1>6, EndRun, NewRowsTyped DEF EndJob, Quiet, outside, Delivered
<1>7. ASSUME NEW h \in Handlers, MarkPublished(h) \/ EvaluateFraud(h) \/ RefreshReport(h)
                                 \/ ProcessingFails(h) \/ KillEvent(h) \/ CompleteEvent(h)
                                 \/ FailEvent(h)
      PROVE  Quiet
  BY <1>4, <1>7 DEF MarkPublished, EvaluateFraud, RefreshReport, ProcessingFails, KillEvent,
       CompleteEvent, FailEvent, Moves, Places, outside
<1>8. ASSUME NEW h \in Handlers, Dispatch(h), run'[h].at # "ready" PROVE Quiet
  <2>1. /\ UNCHANGED <<sms, accepted>>
        /\ \E to \in {"complete", "done", "killEvent", "ready"} : run' = [run EXCEPT ![h].at = to]
    BY <1>8 DEF Dispatch, Moves, outside
  <2>2. run' # [run EXCEPT ![h].at = "ready"]
    BY <1>8, <1>a, MoveRun DEF Places
  <2> QED
    BY <1>4, <2>1, <2>2 DEF Places
<1> QED
  BY <1>2, <1>3, <1>5, <1>6, <1>7, <1>8 DEF Next, Work

\* The adapters: only a provider that takes an idempotency key may have taken a
\* message whose submission is retried.
LEMMA AnswersAccept ==
  ASSUME TypeOK, NEW h \in Handlers, run[h].at = "reserved", Of(h) \in SmsEvents, Submit(h)
  PROVE  \E a \in Answers :
           /\ run' = [run EXCEPT ![h].at = "answered", ![h].answer = a]
           /\ a = "SENT" => accepted'[Of(h)] >= 1
           /\ a = "RETRYABLE" /\ provider # "keyed" => accepted'[Of(h)] = accepted[Of(h)]
           /\ accepted'[Of(h)] <= accepted[Of(h)] + 1
           /\ provider = "keyed" /\ accepted[Of(h)] >= 1 => accepted'[Of(h)] = accepted[Of(h)]
<1>1. accepted \in [SmsEvents -> Nat]
  BY DEF TypeOK
<1>2. PICK a \in Answers, takes \in BOOLEAN :
        /\ takes \in MayAccept(a)
        /\ run' = [run EXCEPT ![h].at = "answered", ![h].answer = a]
        /\ accepted' = [accepted EXCEPT ![Of(h)] =
                          IF takes /\ ~(provider = "keyed" /\ @ > 0) THEN @ + 1 ELSE @]
  BY DEF Submit
<1>3. /\ a = "SENT" => takes
      /\ a = "RETRYABLE" /\ provider # "keyed" => ~takes
  BY <1>2 DEF MayAccept
<1>4. accepted'[Of(h)] = IF takes /\ ~(provider = "keyed" /\ accepted[Of(h)] > 0)
                         THEN accepted[Of(h)] + 1 ELSE accepted[Of(h)]
  BY <1>1, <1>2
<1>5. accepted[Of(h)] \in Nat
  BY <1>1
<1>6. /\ a = "SENT" => accepted'[Of(h)] >= 1
      /\ a = "RETRYABLE" /\ provider # "keyed" => accepted'[Of(h)] = accepted[Of(h)]
      /\ accepted'[Of(h)] <= accepted[Of(h)] + 1
      /\ provider = "keyed" /\ accepted[Of(h)] >= 1 => accepted'[Of(h)] = accepted[Of(h)]
  BY <1>3, <1>4, <1>5
<1> QED
  BY <1>2, <1>6

\* A message that was read, reserved, submitted, answered or reported on.
LEMMA MessagesKept ==
  ASSUME Inv, Next
  PROVE  SentWasAccepted' /\ Reservation'
<1>a. TypeOK /\ HandlerPlaces /\ SentWasAccepted /\ Reservation
  BY DEF Inv
<1>b. provider' = provider
  BY <1>a, AcceptedKept
<1>c. sms \in [SmsEvents -> Messages] /\ accepted \in [SmsEvents -> Nat]
  BY <1>a DEF TypeOK
<1>1. CASE Quiet
  BY <1>1, <1>a, <1>b, QuietPreserves
<1>2. ASSUME NEW h \in Handlers, Dispatch(h), run'[h].at = "ready"
      PROVE  SentWasAccepted' /\ Reservation'
  <2>1. /\ Of(h) \in SmsEvents /\ Known(h).status \notin Delivered /\ ~ReservedByAnother(h)
        /\ UNCHANGED <<sms, accepted>> /\ run' = [run EXCEPT ![h].at = "ready"]
    <3>1. \E to \in Places : run' = [run EXCEPT ![h].at = to]
      BY <1>2 DEF Dispatch, Moves, Places
    <3>2. run' = [run EXCEPT ![h].at = "ready"]
      BY <1>2, <1>a, <3>1, MoveRun
    <3>3. \A to \in Places : to # "ready" => run' # [run EXCEPT ![h].at = to]
      BY <1>2, <1>a, MoveRun
    <3> QED
      BY <1>2, <3>2, <3>3 DEF Dispatch, Moves, Places, outside
  <2>2. /\ run'[h].at = "ready" /\ run'[h].of = run[h].of /\ run'[h].saw = run[h].saw
        /\ \A g \in Handlers \ {h} : run'[g] = run[g]
    BY <1>a, <2>1, MoveRun DEF Places
  <2>3. SentWasAccepted'
    BY <1>a, <2>1, <2>2 DEF SentWasAccepted, Of, Known
  <2>4. Reservation'
    BY <1>a, <1>b, <2>1, <2>2 DEF Reservation, Holds, Of, Known, ReservedByAnother
  <2> QED
    BY <2>3, <2>4
<1>3. ASSUME NEW h \in Handlers, GiveUpReservation(h)
      PROVE  SentWasAccepted' /\ Reservation'
  <2>1. UNCHANGED <<sms, accepted>>
    BY <1>3 DEF GiveUpReservation, outside
  <2>2. /\ run'[h].at = "answered" /\ run'[h].of = run[h].of /\ run'[h].saw = run[h].saw
        /\ run'[h].answer = "THROWN"
        /\ \A g \in Handlers \ {h} : run'[g] = run[g]
    BY <1>3, <1>a, AnswerRun DEF GiveUpReservation, Answers
  <2>3. SentWasAccepted'
    BY <1>a, <2>1, <2>2 DEF SentWasAccepted, Of, Known
  <2>4. Reservation'
    BY <1>a, <1>b, <2>1, <2>2 DEF Reservation, Holds, Of, Known
  <2> QED
    BY <2>3, <2>4
<1>4. ASSUME NEW h \in Handlers, RefusePayload(h)
      PROVE  SentWasAccepted' /\ Reservation'
  <2>1. /\ Of(h) \in SmsEvents /\ accepted' = accepted
        /\ sms'[Of(h)].dead /\ sms'[Of(h)].status = "FAILED"
        /\ \A e \in SmsEvents : e # Of(h) => sms'[e] = sms[e]
    BY <1>4, <1>c, AnswerRowsTyped, OutboxAssumption DEF RefusePayload, outside
  <2>2. /\ run'[h].at = "killEvent" /\ run'[h].of = run[h].of /\ run'[h].saw = run[h].saw
        /\ \A g \in Handlers \ {h} : run'[g] = run[g]
    BY <1>4, <1>a, MoveRun DEF RefusePayload, Moves, Places
  <2>3. SentWasAccepted'
    BY <1>a, <2>1, <2>2 DEF SentWasAccepted, Of, Known, Delivered
  <2>4. \A g \in Handlers : Holds(g)' => g # h /\ Holds(g) /\ run'[g] = run[g] /\ Of(g) \in SmsEvents
    BY <1>a, <2>2 DEF Holds, HandlerPlaces
  <2>5. Reservation'
    BY <1>a, <1>b, <2>1, <2>2, <2>4 DEF Reservation, Of, Known
  <2> QED
    BY <2>3, <2>5
<1>5. ASSUME NEW h \in Handlers, Reserve(h)
      PROVE  SentWasAccepted' /\ Reservation'
  <2>0. Of(h) \in SmsEvents /\ run[h].at = "ready" /\ accepted' = accepted
    BY <1>5, <1>a DEF Reserve, HandlerPlaces, outside
  <2>1. PICK to \in {"reserved", "done"} :
          /\ run' = [run EXCEPT ![h].at = to]
          /\ to = "reserved" /\ provider = "reserved" =>
               Reservable(h) /\ sms' = [sms EXCEPT ![Of(h)].category = "inProgress"]
          /\ ~(to = "reserved" /\ provider = "reserved") => sms' = sms
    BY <1>5 DEF Reserve, Moves
  <2>2. /\ run'[h].at = to /\ run'[h].of = run[h].of /\ run'[h].saw = run[h].saw
        /\ \A g \in Handlers \ {h} : run'[g] = run[g]
    BY <1>a, <2>1, MoveRun DEF Places
  <2>3. /\ \A e \in SmsEvents : sms'[e].status = sms[e].status /\ sms'[e].dead = sms[e].dead
        /\ \A e \in SmsEvents : e # Of(h) => sms'[e] = sms[e]
        /\ to = "reserved" /\ provider = "reserved" => sms'[Of(h)].category = "inProgress"
        /\ \A e \in SmsEvents : sms[e].category = "inProgress" => sms'[e].category = "inProgress"
    BY <1>c, <2>0, <2>1 DEF Messages
  <2>4. SentWasAccepted'
    BY <1>a, <2>0, <2>2, <2>3 DEF SentWasAccepted, Of, Known
  <2>5. Reservation'
    <3> SUFFICES ASSUME provider = "reserved" PROVE Reservation'
      BY <1>b DEF Reservation
    <3>1. CASE to = "done"
      <4>1. sms' = sms /\ \A g \in Handlers : Holds(g)' => g # h /\ Holds(g) /\ run'[g] = run[g]
        BY <2>1, <2>2, <3>1 DEF Holds
      <4> QED
        BY <1>a, <1>b, <2>0, <2>2, <3>1, <4>1 DEF Reservation, Of, Known
    <3>2. CASE to = "reserved"
      <4>1. /\ ~sms[Of(h)].dead /\ sms[Of(h)].category # "inProgress"
            /\ sms[Of(h)].status \notin Delivered
        <5>1. /\ ~sms[Of(h)].dead /\ sms[Of(h)].status = Known(h).status
              /\ sms[Of(h)].category = Known(h).category
          <6>1. /\ ~sms[Of(h)].dead /\ sms[Of(h)]["status"] = Known(h)["status"]
                /\ sms[Of(h)]["category"] = Known(h)["category"]
            BY <2>1, <3>2 DEF Reservable
          <6> QED
            BY <6>1
        <5> QED
          BY <1>a, <2>0, <5>1 DEF Reservation
      <4>2. accepted[Of(h)] = 0
        BY <1>a, <1>c, <2>0, <4>1 DEF Reservation
      <4>3. \A g \in Handlers : Holds(g) => Of(g) # Of(h)
        BY <1>a, <4>1 DEF Reservation
      <4>4. \A g \in Handlers : g # h /\ Holds(g)' => Holds(g) /\ run'[g] = run[g] /\ Of(g) \in SmsEvents
        BY <1>a, <2>2 DEF Holds, HandlerPlaces
      <4>5. \A e \in SmsEvents : accepted'[e] >= 1 =>
              sms'[e].dead \/ sms'[e].category = "inProgress" \/ sms'[e].status \in Delivered
        BY <1>a, <2>0, <2>3 DEF Reservation
      <4>6. \A g \in Handlers : run'[g].at = "ready" =>
              run'[g].saw.status \notin Delivered /\ run'[g].saw.category # "inProgress"
        BY <1>a, <2>2, <3>2 DEF Reservation, Known
      <4>7. \A g \in Handlers : Holds(g)' =>
              /\ accepted'[run'[g].of] = 0
              /\ sms'[run'[g].of].dead \/ sms'[run'[g].of].category = "inProgress"
              /\ \A f \in Handlers : Holds(f)' /\ run'[f].of = run'[g].of => f = g
        BY <1>a, <2>0, <2>2, <2>3, <3>2, <4>2, <4>3, <4>4 DEF Reservation, Of
      <4> QED
        BY <4>5, <4>6, <4>7 DEF Reservation, Of, Known
    <3> QED
      BY <3>1, <3>2
  <2> QED
    BY <2>4, <2>5
<1>6. ASSUME NEW h \in Handlers, Submit(h)
      PROVE  SentWasAccepted' /\ Reservation'
  <2>0. run[h].at = "reserved" /\ Of(h) \in SmsEvents /\ sms' = sms
    BY <1>6, <1>a DEF Submit, HandlerPlaces
  <2>1. PICK a \in Answers :
           /\ run' = [run EXCEPT ![h].at = "answered", ![h].answer = a]
           /\ a = "SENT" => accepted'[Of(h)] >= 1
           /\ a = "RETRYABLE" /\ provider # "keyed" => accepted'[Of(h)] = accepted[Of(h)]
    BY <1>6, <1>a, <2>0, AnswersAccept
  <2>2. /\ run'[h].at = "answered" /\ run'[h].of = run[h].of /\ run'[h].saw = run[h].saw
        /\ run'[h].answer = a
        /\ \A g \in Handlers \ {h} : run'[g] = run[g]
    BY <1>a, <2>1, AnswerRun
  <2>3. \A e \in SmsEvents : /\ accepted'[e] \in Nat /\ accepted[e] \in Nat
                             /\ accepted'[e] >= accepted[e]
                             /\ e # Of(h) => accepted'[e] = accepted[e]
    BY <1>6, <1>a, <1>c, <2>0, SubmitCounts
  <2>4. SentWasAccepted'
    <3>1. \A e \in SmsEvents : accepted[e] >= 1 => accepted'[e] >= 1
      BY <2>3
    <3>2. \A e \in SmsEvents : sms'[e].status \in Delivered => accepted'[e] >= 1
      BY <1>a, <2>0, <3>1 DEF SentWasAccepted
    <3>3. ASSUME NEW g \in Handlers, run'[g].of \in SmsEvents
          PROVE  /\ run'[g].saw.status \in Delivered => accepted'[run'[g].of] >= 1
                 /\ run'[g].at = "answered" /\ run'[g].answer = "SENT" => accepted'[run'[g].of] >= 1
      <4>1. CASE g = h
        BY <1>a, <2>0, <2>1, <2>2, <3>1, <4>1 DEF SentWasAccepted, Of, Known
      <4>2. CASE g # h
        BY <1>a, <2>2, <3>1, <3>3, <4>2 DEF SentWasAccepted, Of, Known
      <4> QED
        BY <4>1, <4>2
    <3> QED
      BY <3>2, <3>3 DEF SentWasAccepted, Of, Known
  <2>5. Reservation'
    <3> SUFFICES ASSUME provider = "reserved" PROVE Reservation'
      BY <1>b DEF Reservation
    <3>1. Holds(h)
      BY <2>0 DEF Holds
    <3>2. accepted[Of(h)] = 0 /\ (sms[Of(h)].dead \/ sms[Of(h)].category = "inProgress")
          /\ \A g \in Handlers : Holds(g) /\ Of(g) = Of(h) => g = h
      BY <1>a, <3>1 DEF Reservation
    <3>3. \A g \in Handlers : Holds(g)' => Holds(g) /\ run'[g].of = run[g].of /\ Of(g) \in SmsEvents
      BY <1>a, <2>0, <2>2, <3>1 DEF Holds, HandlerPlaces
    <3>4. \A e \in SmsEvents : accepted'[e] >= 1 =>
            sms'[e].dead \/ sms'[e].category = "inProgress" \/ sms'[e].status \in Delivered
      BY <1>a, <2>0, <2>3, <3>2 DEF Reservation
    <3>5. \A g \in Handlers : run'[g].at = "ready" =>
            run'[g].saw.status \notin Delivered /\ run'[g].saw.category # "inProgress"
      BY <1>a, <2>2 DEF Reservation, Known
    <3>6. Holds(h)' => a = "RETRYABLE"
      BY <2>2 DEF Holds
    <3>7. \A g \in Handlers : Holds(g)' =>
            /\ accepted'[run'[g].of] = 0
            /\ sms'[run'[g].of].dead \/ sms'[run'[g].of].category = "inProgress"
            /\ \A f \in Handlers : Holds(f)' /\ run'[f].of = run'[g].of => f = g
      <4> SUFFICES ASSUME NEW g \in Handlers, Holds(g)'
                   PROVE  /\ accepted'[run'[g].of] = 0
                          /\ sms'[run'[g].of].dead \/ sms'[run'[g].of].category = "inProgress"
                          /\ \A f \in Handlers : Holds(f)' /\ run'[f].of = run'[g].of => f = g
        OBVIOUS
      <4>1. /\ Holds(g) /\ run'[g].of = Of(g) /\ Of(g) \in SmsEvents /\ accepted[Of(g)] = 0
            /\ sms[Of(g)].dead \/ sms[Of(g)].category = "inProgress"
            /\ \A f \in Handlers : Holds(f) /\ Of(f) = Of(g) => f = g
        BY <1>a, <3>3 DEF Reservation, Of
      <4>2. accepted'[Of(g)] = 0
        BY <2>1, <2>3, <3>2, <3>6, <4>1
      <4> QED
        BY <2>0, <3>3, <4>1, <4>2 DEF Of
    <3> QED
      BY <3>4, <3>5, <3>7 DEF Reservation, Of, Known
  <2> QED
    BY <2>4, <2>5
<1>7. ASSUME NEW h \in Handlers, RecordAnswer(h)
      PROVE  SentWasAccepted' /\ Reservation'
  <2>0. run[h].at = "answered" /\ Of(h) \in SmsEvents /\ accepted' = accepted
    BY <1>7, <1>a DEF RecordAnswer, HandlerPlaces, outside
  <2>1. /\ run'[h].at \in {"done", "killEvent", "failEvent"}
        /\ run'[h].of = run[h].of /\ run'[h].saw = run[h].saw
        /\ \A g \in Handlers \ {h} : run'[g] = run[g]
    BY <1>7, <1>a, MoveRun DEF RecordAnswer, Places
  <2>2. /\ \A e \in SmsEvents : e # Of(h) => sms'[e] = sms[e]
        /\ run[h].answer = "SENT" => sms'[Of(h)].status = "SENT"
        /\ run[h].answer # "SENT" => /\ sms'[Of(h)].status = "FAILED"
                                     /\ sms'[Of(h)].dead = Ends(h)
    <3>1. sms' = [sms EXCEPT ![Of(h)] = IF run[h].answer = "SENT" THEN SentSms(@)
                                        ELSE FailedSms(@, Ends(h))]
      BY <1>7 DEF RecordAnswer
    <3>2. Ends(h) \in BOOLEAN
      BY DEF Ends
    <3>3. sms[Of(h)] \in Messages
      BY <1>c, <2>0
    <3> QED
      BY <1>c, <2>0, <3>1, <3>2, <3>3, AnswerRowsTyped
  <2>3. SentWasAccepted'
    BY <1>a, <2>0, <2>1, <2>2 DEF SentWasAccepted, Of, Known, Delivered
  <2>4. Reservation'
    <3> SUFFICES ASSUME provider = "reserved" PROVE Reservation'
      BY <1>b DEF Reservation
    <3>0. run[h].answer \in Answers
      BY <1>a, <2>0 DEF HandlerPlaces
    <3>1. \A g \in Handlers : Holds(g)' => g # h /\ Holds(g) /\ run'[g] = run[g] /\ Of(g) \in SmsEvents
      BY <1>a, <2>1 DEF Holds, HandlerPlaces
    <3>2. run[h].answer = "RETRYABLE" => Holds(h)
      BY <2>0 DEF Holds
    <3>3. run[h].answer = "SENT" => accepted[Of(h)] >= 1
      BY <1>a, <2>0 DEF SentWasAccepted
    <3>4. run[h].answer \in {"TERMINAL", "THROWN"} => sms'[Of(h)].dead
      BY <2>2 DEF Ends
    <3>5. \A g \in Handlers : Holds(g)' /\ run[g].of = Of(h) => sms'[Of(h)].dead
      <4> SUFFICES ASSUME NEW g \in Handlers, Holds(g)', run[g].of = Of(h) PROVE sms'[Of(h)].dead
        OBVIOUS
      <4>1. g # h /\ Holds(g) /\ accepted[Of(h)] = 0
        BY <1>a, <3>1 DEF Reservation, Of
      <4>2. ~Holds(h)
        BY <1>a, <4>1 DEF Reservation, Of
      <4> QED
        BY <3>0, <3>2, <3>3, <3>4, <4>1, <4>2 DEF Answers
    <3>6. \A e \in SmsEvents : accepted'[e] >= 1 =>
            sms'[e].dead \/ sms'[e].category = "inProgress" \/ sms'[e].status \in Delivered
      <4>1. accepted[Of(h)] >= 1 => sms'[Of(h)].dead \/ sms'[Of(h)].status \in Delivered
        <5>1. accepted[Of(h)] >= 1 => ~Holds(h)
          BY <1>a DEF Reservation
        <5> QED
          BY <2>2, <3>0, <3>2, <3>4, <5>1 DEF Answers, Delivered
      <4> QED
        BY <1>a, <2>0, <2>2, <4>1 DEF Reservation
    <3>7. \A g \in Handlers : run'[g].at = "ready" =>
            run'[g].saw.status \notin Delivered /\ run'[g].saw.category # "inProgress"
      BY <1>a, <2>1 DEF Reservation, Known
    <3>8. \A g \in Handlers : Holds(g)' =>
            /\ accepted'[run'[g].of] = 0
            /\ sms'[run'[g].of].dead \/ sms'[run'[g].of].category = "inProgress"
            /\ \A f \in Handlers : Holds(f)' /\ run'[f].of = run'[g].of => f = g
      BY <1>a, <2>0, <2>2, <3>1, <3>5 DEF Reservation, Of
    <3> QED
      BY <3>6, <3>7, <3>8 DEF Reservation, Of, Known
  <2> QED
    BY <2>3, <2>4
<1>8. ASSUME NEW e \in SmsEvents, NEW s \in {"DELIVERED", "FAILED"}, Report(e, s)
      PROVE  SentWasAccepted' /\ Reservation'
  <2>1. /\ provider = "keyed" /\ sms[e].status = "SENT" /\ UNCHANGED <<run, accepted>>
        /\ \A x \in SmsEvents : x # e => sms'[x] = sms[x]
    BY <1>8, <1>a, ReportRow DEF Report, Pollable, outside
  <2>2. SentWasAccepted'
    BY <1>a, <2>1 DEF SentWasAccepted, Of, Known, Delivered
  <2>3. Reservation'
    BY <1>b, <2>1 DEF Reservation
  <2> QED
    BY <2>2, <2>3
<1> QED
  BY <1>1, <1>2, <1>3, <1>4, <1>5, <1>6, <1>7, <1>8, QuietSteps

\* A reservation or an idempotency key keeps the provider from taking a message twice.
LEMMA OneMessageKept ==
  ASSUME Inv, Next
  PROVE  OneMessagePerEvent'
<1>a. TypeOK /\ HandlerPlaces /\ Reservation /\ OneMessagePerEvent
  BY DEF Inv
<1>b. provider' = provider
  BY <1>a, AcceptedKept
<1>c. accepted \in [SmsEvents -> Nat]
  BY <1>a DEF TypeOK
<1>1. CASE accepted' = accepted
  BY <1>1, <1>a, <1>b DEF OneMessagePerEvent
<1>2. ASSUME NEW h \in Handlers, Submit(h), provider # "plain"
      PROVE  \A e \in SmsEvents : accepted'[e] <= 1
  <2>0. run[h].at = "reserved" /\ Of(h) \in SmsEvents /\ Holds(h)
    BY <1>2, <1>a DEF Submit, HandlerPlaces, Holds
  <2>1. /\ accepted'[Of(h)] <= accepted[Of(h)] + 1
        /\ provider = "keyed" /\ accepted[Of(h)] >= 1 => accepted'[Of(h)] = accepted[Of(h)]
    BY <1>2, <1>a, <2>0, AnswersAccept
  <2>2. provider = "reserved" => accepted[Of(h)] = 0
    BY <1>a, <2>0 DEF Reservation
  <2>3. provider \in {"reserved", "keyed"}
    BY <1>2, <1>a DEF TypeOK, Providers
  <2>4. \A e \in SmsEvents : accepted[e] <= 1 /\ (e # Of(h) => accepted'[e] = accepted[e])
    BY <1>2, <1>a, <2>0, SubmitCounts DEF OneMessagePerEvent
  <2>5. accepted[Of(h)] \in Nat /\ accepted'[Of(h)] \in Nat
    BY <1>2, <1>a, <1>c, <2>0, SubmitCounts
  <2> QED
    BY <2>0, <2>1, <2>2, <2>3, <2>4, <2>5
<1>3. accepted' = accepted \/ \E h \in Handlers : Submit(h)
  <2>1. CASE \E h \in Handlers : RefusePayload(h) \/ Reserve(h) \/ RecordAnswer(h) \/ Dispatch(h)
                                  \/ GiveUpReservation(h)
    BY <2>1 DEF RefusePayload, Reserve, RecordAnswer, Dispatch, GiveUpReservation, outside
  <2>2. CASE \E e \in SmsEvents, s \in {"DELIVERED", "FAILED"} : Report(e, s)
    BY <2>2 DEF Report, outside
  <2> QED
    BY <2>1, <2>2, QuietSteps DEF Quiet
<1> QED
  BY <1>1, <1>2, <1>3, <1>b DEF OneMessagePerEvent

-----------------------------------------------------------------------------
\* The invariant holds of every behaviour.
THEOREM InvHolds == Spec => []Inv
<1>1. Init => Inv
  <2> SUFFICES ASSUME Init PROVE Inv
    OBVIOUS
  <2>1. PICK d \in Deployments :
          /\ provider = d.provider
          /\ event = [e \in Events |-> NewEvent(IF e \in d.raised THEN "PENDING" ELSE "ABSENT")]
    BY DEF Init
  <2>2. provider \in Providers /\ event \in [Events -> Rows]
        /\ \A e \in Events : ~event[e].processed
    BY <2>1, OutboxAssumption DEF NewEvent, Rows, Statuses
  <2>3. TypeOK
    BY <2>2, NewRowsTyped, OutboxAssumption DEF Init, TypeOK
  <2>4. \A h \in Handlers : run[h] = Idle
    BY DEF Init
  <2>5. HandlerPlaces /\ SentWasAccepted
    <3>1. \A h \in Handlers : run[h].at = "idle" /\ run[h].saw.status \notin Delivered
      BY <2>4, NewRowsTyped DEF Delivered
    <3>2. \A e \in SmsEvents : sms[e].status \notin Delivered
      BY NewRowsTyped DEF Init, Delivered
    <3>3. HandlerPlaces
      BY <3>1 DEF HandlerPlaces
    <3>4. SentWasAccepted
      BY <3>1, <3>2 DEF SentWasAccepted, Known
    <3> QED
      BY <3>3, <3>4
  <2>6. EvaluatedOnce /\ CompletedWasSent /\ OneMessagePerEvent
    <3>1. /\ \A e \in Events : evaluated[e] = 0
          /\ \A e \in SmsEvents : accepted[e] = 0
      BY DEF Init
    <3>2. \A e \in SmsEvents \cup FraudEvents : e \in Events /\ ~event[e].processed
      BY <2>2 DEF Events
    <3>3. EvaluatedOnce
      BY <3>1, <3>2 DEF EvaluatedOnce
    <3>4. CompletedWasSent
      BY <3>2 DEF CompletedWasSent
    <3>5. OneMessagePerEvent
      <4>1. ASSUME NEW e \in SmsEvents PROVE accepted[e] <= 1
        <5>1. accepted[e] = 0
          BY <3>1
        <5> QED
          BY <5>1
      <4> QED
        BY <4>1 DEF OneMessagePerEvent
    <3> QED
      BY <3>3, <3>4, <3>5
  <2>7. Reservation
    BY <2>4, NewRowsTyped DEF Init, Reservation, Holds
  <2> QED
    BY <2>3, <2>5, <2>6, <2>7 DEF Inv
<1>2. Inv /\ [Next]_vars => Inv'
  <2> SUFFICES ASSUME Inv, [Next]_vars PROVE Inv'
    OBVIOUS
  <2>1. CASE UNCHANGED vars
    BY <2>1 DEF vars, Inv, TypeOK, HandlerPlaces, EvaluatedOnce, SentWasAccepted, CompletedWasSent,
         Reservation, OneMessagePerEvent, Holds, Of, Known
  <2>2. CASE Next
    <3>1. TypeOK' /\ HandlerPlaces'
      BY <2>2, TypeKept, PlacesKept DEF Inv
    <3>2. SentWasAccepted' /\ Reservation' /\ OneMessagePerEvent'
      BY <2>2, MessagesKept, OneMessageKept
    <3>3. EvaluatedOnce'
      BY <2>2, EventsKept DEF Inv, EvaluatedOnce
    <3>4. CompletedWasSent'
      <4>1. \A e \in SmsEvents : accepted'[e] >= accepted[e]
        BY <2>2, AcceptedKept DEF Inv
      <4>2. \A e \in SmsEvents : accepted[e] \in Nat /\ accepted'[e] \in Nat
        BY <3>1 DEF Inv, TypeOK
      <4>3. \A e \in SmsEvents : event'[e].processed => accepted[e] >= 1
        BY <2>2, EventsKept DEF Inv, CompletedWasSent
      <4> QED
        BY <4>1, <4>2, <4>3 DEF CompletedWasSent
    <3> QED
      BY <3>1, <3>2, <3>3, <3>4 DEF Inv
  <2> QED
    BY <2>1, <2>2
<1> QED
  BY <1>1, <1>2, PTL DEF Spec

\* Events, messages, jobs and executions keep their types.
THEOREM OutboxTyped == Spec => []TypeOK
BY InvHolds, PTL DEF Inv

\* However many executions of a job race, stall and crash, a provider with a
\* reservation or an idempotency key takes one message for one event.
THEOREM NoSecondMessage == Spec => []OneMessagePerEvent
BY InvHolds, PTL DEF Inv

\* A completed event has its message at the provider.
THEOREM NothingCompletedUnsent == Spec => []CompletedWasSent
BY InvHolds, PTL DEF Inv

\* A fraud event is evaluated once.
THEOREM FraudEvaluatedOnce == Spec => []EvaluatedOnce
BY InvHolds, PTL DEF Inv
=============================================================================
