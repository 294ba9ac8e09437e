--------------------------- MODULE OutboxDelivery ---------------------------
(***************************************************************************)
(* OutboxWorkerRuntime: the recovery cycle that turns committed OutboxEvent   *)
(* rows into BullMQ jobs, the job handler that sends the SMS or evaluates     *)
(* fraud, and the poll for delivery reports.  Every database call, the call   *)
(* to the provider and the end of a job is a step of its own, so two handlers *)
(* of one job (the first stalled), a crash and a lost Redis interleave with   *)
(* the recovery.  No clock: whatever waits for a threshold may happen at any  *)
(* time, because nothing bounds how long a handler takes.                     *)
(***************************************************************************)
EXTENDS Naturals

CONSTANTS
  SmsEvents, FraudEvents, ReportEvents,
  BadPayload,   \* events whose payload fails validateSmsIntent
  Handlers,     \* job executions that run at the same time
  Deployments,  \* the providers and sets of events that are explored together
  Retries,      \* OUTBOX_RETRY_ATTEMPTS
  MaxFaults,    \* bound on stalls, crashes and queue losses explored
  None

Events == SmsEvents \cup FraudEvents \cup ReportEvents
\* Twilio is used with a reservation; eBulkSMS and Arkesel take an idempotency key;
\* Africa's Talking has neither.
Providers == {"reserved", "keyed", "plain"}

ASSUME OutboxAssumption ==
  /\ SmsEvents \cap FraudEvents = {}
  /\ (SmsEvents \cup FraudEvents) \cap ReportEvents = {}
  /\ BadPayload \subseteq SmsEvents
  /\ Deployments \subseteq [provider : Providers, raised : SUBSET Events]
  /\ Retries \in Nat \ {0} /\ MaxFaults \in Nat
  /\ None \notin Handlers \cup Events

VARIABLES
  provider,  \* the deployed SMS provider
  event,     \* OutboxEvent: status, processedAt, deadLetteredAt
  sms,       \* SmsMessage: status, attempts, deadLetteredAt, failedAt, failureCategory
  claimed,   \* events the running recovery cycle has claimed, and the ones it enqueued
  enqueued,
  job,       \* the BullMQ job of an event
  owner,     \* the execution that holds the job's lock
  tries,     \* attempts BullMQ has made of the job
  run,       \* a handler: where it stands, its event, the SmsMessage it read, the provider's answer
  accepted,  \* messages the provider took for an event
  submitted, \* calls of the provider for an event
  evaluated, \* fraud evaluations, or report refreshes, committed for an event
  faults

queue == <<job, owner, tries>>
recovery == <<claimed, enqueued>>
outside == <<provider, accepted, submitted, evaluated>>
vars == <<provider, event, sms, claimed, enqueued, job, owner, tries, run, accepted,
          submitted, evaluated, faults>>

Statuses == {"ABSENT", "PENDING", "QUEUED", "PUBLISHED", "FAILED", "COMPLETED"}
Delivered == {"SENT", "DELIVERED"}        \* SUPPRESSED is handled as SENT is
Answers == {"SENT", "RETRYABLE", "TERMINAL", "THROWN"}
Places == {"idle", "read", "published", "ready", "reserved", "submitted", "answered",
           "failEvent", "killEvent", "complete", "done", "throw"}

NewEvent(status) == [status |-> status, processed |-> FALSE, dead |-> FALSE]
NewSms == [status |-> "QUEUED", attempts |-> 0, dead |-> FALSE, failed |-> FALSE,
           category |-> "none"]
Idle == [at |-> "idle", of |-> None, saw |-> NewSms, answer |-> None]

\* Earn and settlement write the SmsMessage with the event; for an event without
\* one the handler's upsert creates the same row.
Init == /\ \E d \in Deployments :
             /\ provider = d.provider
             /\ event = [e \in Events |-> NewEvent(IF e \in d.raised THEN "PENDING" ELSE "ABSENT")]
        /\ sms = [e \in SmsEvents |-> NewSms]
        /\ claimed = {} /\ enqueued = {}
        /\ job = [e \in Events |-> "none"]
        /\ owner = [e \in Events |-> None]
        /\ tries = [e \in Events |-> 0]
        /\ run = [h \in Handlers |-> Idle]
        /\ accepted = [e \in SmsEvents |-> 0]
        /\ submitted = [e \in SmsEvents |-> 0]
        /\ evaluated = [e \in Events |-> 0]
        /\ faults = 0

-----------------------------------------------------------------------------
(* The recovery cycle. *)

Open(e) == ~event[e].processed /\ ~event[e].dead

\* The two UPDATEs at its start: an event with processedAt is COMPLETED, and so is
\* a published one whose message went out.
\* Fault: any attempt to send completes the event.
CompletableWhenTried(e) ==
  \/ event[e].processed /\ event[e].status # "COMPLETED" /\ ~event[e].dead
  \/ /\ e \in SmsEvents /\ Open(e) /\ event[e].status = "PUBLISHED"
     /\ sms[e].status # "QUEUED" /\ ~sms[e].dead
\* Fault: SENT is left out of the statuses that complete an event.
CompletableOnceDelivered(e) ==
  \/ event[e].processed /\ event[e].status # "COMPLETED" /\ ~event[e].dead
  \/ /\ e \in SmsEvents /\ Open(e) /\ event[e].status = "PUBLISHED"
     /\ sms[e].status = "DELIVERED" /\ ~sms[e].dead
Completable(e) ==
  \/ event[e].processed /\ event[e].status # "COMPLETED" /\ ~event[e].dead
  \/ /\ e \in SmsEvents /\ Open(e) /\ event[e].status = "PUBLISHED"
     /\ sms[e].status \in Delivered /\ ~sms[e].dead

Repair == /\ claimed = {}
          /\ \E e \in Events : Completable(e)
          /\ event' = [e \in Events |->
                         IF Completable(e) THEN [event[e] EXCEPT !.status = "COMPLETED",
                                                                 !.processed = TRUE]
                         ELSE event[e]]
          /\ UNCHANGED <<sms, recovery, queue, run, outside, faults>>

\* The claim: what is pending, failed, or stuck in QUEUED or PUBLISHED.
\* Fault: events stuck in PUBLISHED are not claimed again.
UnpublishedOnly(e) == Open(e) /\ event[e].status \in {"PENDING", "FAILED", "QUEUED"}
Claimable(e) ==
  /\ Open(e)
  /\ \/ event[e].status \in {"PENDING", "FAILED", "QUEUED"}
     \/ /\ event[e].status = "PUBLISHED"
        /\ e \in SmsEvents => sms[e].status \in {"QUEUED", "FAILED"} /\ ~sms[e].dead

Claim == /\ claimed = {}
         /\ \E S \in SUBSET {e \in Events : Claimable(e)} :
              /\ S # {}
              /\ claimed' = S
              /\ event' = [e \in Events |-> IF e \in S THEN [event[e] EXCEPT !.status = "QUEUED"]
                                            ELSE event[e]]
         /\ UNCHANGED <<sms, enqueued, queue, run, outside, faults>>

\* publishOutboxEvent: an event whose job still exists gets no second one.
Enqueue(e) == /\ e \in claimed \ enqueued
              /\ enqueued' = enqueued \cup {e}
              /\ IF job[e] = "none" THEN /\ job' = [job EXCEPT ![e] = "waiting"]
                                         /\ tries' = [tries EXCEPT ![e] = 0]
                 ELSE UNCHANGED <<job, tries>>
              /\ UNCHANGED <<event, sms, claimed, owner, run, outside, faults>>

SettlePublication(e, published) ==
  /\ claimed' = claimed \ {e}
  /\ enqueued' = enqueued \ {e}
  /\ event' = [event EXCEPT ![e].status =
                 IF Open(e) /\ @ = "QUEUED" THEN published ELSE @]
  /\ UNCHANGED <<sms, queue, run, outside>>

Faulty == faults < MaxFaults /\ faults' = faults + 1

Publish(e) == e \in enqueued /\ SettlePublication(e, "PUBLISHED") /\ UNCHANGED faults
\* The catch covers both calls: the job may be in the queue already.
PublishFails(e) == Faulty /\ e \in claimed /\ SettlePublication(e, "FAILED")

-----------------------------------------------------------------------------
(* The handler of a job. *)

Moves(h, from, to) == run[h].at = from /\ run' = [run EXCEPT ![h].at = to]
Of(h) == run[h].of
Known(h) == run[h].saw

\* BullMQ gives a waiting job to a free execution, under its lock; the handler
\* reads the event and its message.
Take(h, e) ==
  /\ run[h].at = "idle" /\ job[e] = "waiting"
  /\ job' = [job EXCEPT ![e] = "active"]
  /\ owner' = [owner EXCEPT ![e] = h]
  /\ tries' = [tries EXCEPT ![e] = @ + 1]
  /\ run' = [run EXCEPT ![h] = [at |-> IF Open(e) THEN "read" ELSE "done", of |-> e,
                                saw |-> IF e \in SmsEvents THEN sms[e] ELSE NewSms,
                                answer |-> None]]
  /\ UNCHANGED <<event, sms, recovery, outside, faults>>

MarkPublished(h) ==
  /\ Moves(h, "read", "published")
  /\ event' = [event EXCEPT ![Of(h)].status = "PUBLISHED"]
  /\ UNCHANGED <<sms, recovery, queue, outside, faults>>

\* processFraudEvaluationEvent: the event's row is locked and looked at again, then
\* completed together with the findings; an exception undoes both.
\* Fault: the row is not looked at again under the lock.
AlwaysUnprocessed(e) == TRUE
StillUnprocessed(e) == ~event[e].processed /\ event[e].status # "COMPLETED"

EvaluateFraud(h) ==
  /\ Of(h) \in FraudEvents
  /\ \/ /\ StillUnprocessed(Of(h))
        /\ Moves(h, "published", "done")
        /\ event' = [event EXCEPT ![Of(h)].status = "COMPLETED", ![Of(h)].processed = TRUE]
        /\ evaluated' = [evaluated EXCEPT ![Of(h)] = @ + 1]
     \/ /\ ~StillUnprocessed(Of(h))
        /\ Moves(h, "published", "done")
        /\ UNCHANGED <<event, evaluated>>
  /\ UNCHANGED <<sms, recovery, queue, provider, accepted, submitted, faults>>

\* processReportRefreshEvent: the materialization first, the event afterwards.
RefreshReport(h) ==
  /\ Of(h) \in ReportEvents
  /\ Moves(h, "published", "complete")
  /\ evaluated' = [evaluated EXCEPT ![Of(h)] = IF @ = 0 THEN 1 ELSE @]
  /\ UNCHANGED <<event, sms, recovery, queue, provider, accepted, submitted, faults>>

\* Either of the two throws.
ProcessingFails(h) == /\ Faulty
                      /\ Of(h) \in FraudEvents \cup ReportEvents
                      /\ Moves(h, "published", "throw")
                      /\ UNCHANGED <<event, sms, recovery, queue, outside>>

\* What the handler does with the message it read: one that went out completes the
\* event, a fresh reservation of another execution ends the job, a spent one ends the
\* event, and any other is tried.
ReservedByAnother(h) == provider = "reserved" /\ Known(h).category = "inProgress"

Dispatch(h) ==
  /\ Of(h) \in SmsEvents
  /\ \/ Known(h).status \in Delivered /\ Moves(h, "published", "complete")
     \/ /\ Known(h).status \notin Delivered
        /\ ReservedByAnother(h)
        /\ Moves(h, "published", "done")
     \/ /\ Known(h).status \notin Delivered
        /\ ~ReservedByAnother(h)
        /\ IF Known(h).dead \/ Known(h).attempts >= Retries
           THEN Moves(h, "published", "killEvent") ELSE Moves(h, "published", "ready")
  /\ UNCHANGED <<event, sms, recovery, queue, outside, faults>>

\* A reservation older than its window is given up: its outcome is unknown.
GiveUpReservation(h) ==
  /\ run[h].at = "published" /\ Of(h) \in SmsEvents
  /\ Known(h).status \notin Delivered /\ ReservedByAnother(h)
  /\ run' = [run EXCEPT ![h].at = "answered", ![h].answer = "THROWN"]
  /\ UNCHANGED <<event, sms, recovery, queue, outside, faults>>

FailedSms(m, dead) == [status |-> "FAILED", attempts |-> m.attempts + 1, dead |-> dead,
                       failed |-> TRUE, category |-> "failed"]
\* mapSmsDispatchResult: failedAt of an earlier attempt stays.
SentSms(m) == [status |-> "SENT", attempts |-> m.attempts + 1, dead |-> FALSE,
               failed |-> m.failed, category |-> "none"]

\* A payload that cannot be rendered ends message and event.
RefusePayload(h) ==
  /\ Of(h) \in BadPayload
  /\ Moves(h, "ready", "killEvent")
  /\ sms' = [sms EXCEPT ![Of(h)] = FailedSms(@, TRUE)]
  /\ UNCHANGED <<event, recovery, queue, outside, faults>>

\* The reservation: a compare-and-set on what the handler read.
\* Fault: the message is reserved whatever became of it since.
ReservableAnyway(h) == ~sms[Of(h)].dead
Reservable(h) == /\ ~sms[Of(h)].dead
                 /\ \A f \in {"status", "attempts", "category"} : sms[Of(h)][f] = Known(h)[f]

Reserve(h) ==
  /\ run[h].at = "ready" /\ Of(h) \notin BadPayload
  /\ \/ provider # "reserved" /\ Moves(h, "ready", "reserved") /\ UNCHANGED sms
     \/ /\ provider = "reserved" /\ Reservable(h)
        /\ Moves(h, "ready", "reserved")
        /\ sms' = [sms EXCEPT ![Of(h)].category = "inProgress"]
     \/ provider = "reserved" /\ ~Reservable(h) /\ Moves(h, "ready", "done") /\ UNCHANGED sms
  /\ UNCHANGED <<event, recovery, queue, outside, faults>>

\* The provider takes the message, refuses it, or leaves the worker in doubt.  An
\* adapter reports doubt as TERMINAL, except that the providers with an
\* idempotency key, which take a message once, let it be retried.
MayAccept(a) == CASE a = "SENT" -> {TRUE}
                  [] a = "RETRYABLE" -> {FALSE, provider = "keyed"}
                  [] OTHER -> BOOLEAN

Submit(h) ==
  /\ run[h].at = "reserved"
  /\ \E a \in Answers, takes \in BOOLEAN :
       /\ takes \in MayAccept(a)
       /\ run' = [run EXCEPT ![h].at = "answered", ![h].answer = a]
       /\ accepted' = [accepted EXCEPT ![Of(h)] =
                         IF takes /\ ~(provider = "keyed" /\ @ > 0) THEN @ + 1 ELSE @]
  /\ submitted' = [submitted EXCEPT ![Of(h)] = @ + 1]
  /\ UNCHANGED <<event, sms, recovery, queue, provider, evaluated, faults>>

\* Whether the answer ends the message: a terminal failure, an unknown outcome of
\* a reserved submission, or the last attempt of the budget.
Ends(h) == \/ run[h].answer = "TERMINAL"
           \/ run[h].answer = "THROWN" /\ provider = "reserved"
           \/ Known(h).attempts + 1 >= Retries

RecordAnswer(h) ==
  LET e == Of(h)
      a == run[h].answer
  IN  /\ run[h].at = "answered"
      /\ sms' = [sms EXCEPT ![e] =
                   IF a = "SENT" THEN SentSms(@) ELSE FailedSms(@, Ends(h))]
      /\ run' = [run EXCEPT ![h].at = IF a = "SENT" THEN "done"
                                      ELSE IF Ends(h) THEN "killEvent" ELSE "failEvent"]
      /\ UNCHANGED <<event, recovery, queue, outside, faults>>

\* markOutboxEventFailure, markOutboxEventDeadLettered and markOutboxEventCompleted.
Throws(h) == run[h].answer = "THROWN" /\ provider # "reserved" /\ ~Ends(h)
FailEvent(h) ==
  /\ Moves(h, "failEvent", IF Throws(h) THEN "throw" ELSE "done")
  /\ event' = [event EXCEPT ![Of(h)].status = "FAILED", ![Of(h)].dead = FALSE]
  /\ UNCHANGED <<sms, recovery, queue, outside, faults>>
KillEvent(h) ==
  /\ Moves(h, "killEvent", "done")
  /\ event' = [event EXCEPT ![Of(h)].status = "FAILED", ![Of(h)].dead = TRUE]
  /\ UNCHANGED <<sms, recovery, queue, outside, faults>>
CompleteEvent(h) ==
  /\ Moves(h, "complete", "done")
  /\ event' = [event EXCEPT ![Of(h)].status = "COMPLETED", ![Of(h)].processed = TRUE]
  /\ UNCHANGED <<sms, recovery, queue, outside, faults>>

\* The job ends: BullMQ removes it, or lets a thrown one wait for its next attempt.
\* An execution that lost the lock ends nothing.
EndJob(h) ==
  LET e == Of(h)
      again == run[h].at = "throw" /\ tries[e] < Retries
  IN  /\ run[h].at \in {"done", "throw"}
      /\ run' = [run EXCEPT ![h] = Idle]
      /\ IF owner[e] = h THEN /\ job' = [job EXCEPT ![e] = IF again THEN "waiting" ELSE "none"]
                              /\ owner' = [owner EXCEPT ![e] = None]
         ELSE UNCHANGED <<job, owner>>
      /\ UNCHANGED <<event, sms, recovery, tries, outside, faults>>

Work(h) == \/ \E e \in Events : Take(h, e)
           \/ MarkPublished(h) \/ EvaluateFraud(h) \/ RefreshReport(h) \/ Dispatch(h)
           \/ GiveUpReservation(h) \/ RefusePayload(h) \/ Reserve(h) \/ Submit(h) \/ RecordAnswer(h)
           \/ FailEvent(h) \/ KillEvent(h) \/ CompleteEvent(h) \/ EndJob(h)

-----------------------------------------------------------------------------
(* pollDeliveryReports, and the faults. *)

\* The messages the poll selects, and compares with again when it writes the report.
Pollable(e) == /\ provider = "keyed"
               /\ sms[e].status = "SENT" /\ ~sms[e].failed /\ ~sms[e].dead
Report(e, s) ==
  /\ Pollable(e)
  /\ sms' = [sms EXCEPT ![e].status = s, ![e].failed = (s = "FAILED"),
                        ![e].category = IF s = "FAILED" THEN "failed" ELSE @]
  /\ UNCHANGED <<event, recovery, queue, run, outside, faults>>

\* The lock of a job runs out under a slow execution, which goes on all the same.
Stall(e) == /\ Faulty
            /\ job[e] = "active"
            /\ job' = [job EXCEPT ![e] = "waiting"]
            /\ owner' = [owner EXCEPT ![e] = None]
            /\ UNCHANGED <<event, sms, recovery, tries, run, outside>>

\* The worker process dies: recovery cycle and handlers are gone, and BullMQ finds
\* the jobs they held.
Crash == /\ Faulty
         /\ claimed' = {} /\ enqueued' = {}
         /\ run' = [h \in Handlers |-> Idle]
         /\ job' = [e \in Events |-> IF job[e] = "active" THEN "waiting" ELSE job[e]]
         /\ owner' = [e \in Events |-> None]
         /\ UNCHANGED <<event, sms, tries, outside>>

\* Redis loses its jobs.
LoseQueue == /\ Faulty
             /\ job' = [e \in Events |-> "none"]
             /\ owner' = [e \in Events |-> None]
             /\ UNCHANGED <<event, sms, recovery, tries, run, outside>>

Next == \/ Repair \/ Claim
        \/ \E e \in Events : Enqueue(e) \/ Publish(e) \/ PublishFails(e) \/ Stall(e)
        \/ \E h \in Handlers : Work(h) \/ ProcessingFails(h)
        \/ \E e \in SmsEvents, s \in {"DELIVERED", "FAILED"} : Report(e, s)
        \/ Crash \/ LoseQueue

Spec == Init /\ [][Next]_vars

\* The recovery timer keeps firing, its batch reaches every event in turn, BullMQ
\* keeps running what waits, and a reservation that is met again and again grows old.
FairSpec == /\ Spec
            /\ WF_vars(Repair)
            /\ \A e \in Events : /\ SF_vars(Claim /\ e \in claimed')
                                 /\ WF_vars(Enqueue(e)) /\ WF_vars(Publish(e))
            /\ \A h \in Handlers : WF_vars(Work(h)) /\ SF_vars(GiveUpReservation(h))

-----------------------------------------------------------------------------
Rows == [status : Statuses, processed : BOOLEAN, dead : BOOLEAN]
Messages == [status : Delivered \cup {"QUEUED", "FAILED"}, attempts : Nat, dead : BOOLEAN,
             failed : BOOLEAN, category : {"none", "inProgress", "failed"}]
Executions == [at : Places, of : Events \cup {None}, saw : Messages, answer : Answers \cup {None}]
TypeOK ==
  /\ provider \in Providers
  /\ event \in [Events -> Rows]
  /\ sms \in [SmsEvents -> Messages]
  /\ enqueued \subseteq claimed /\ claimed \subseteq Events
  /\ job \in [Events -> {"none", "waiting", "active"}]
  /\ owner \in [Events -> Handlers \cup {None}]
  /\ tries \in [Events -> Nat]
  /\ run \in [Handlers -> Executions]
  /\ accepted \in [SmsEvents -> Nat]
  /\ submitted \in [SmsEvents -> Nat]
  /\ evaluated \in [Events -> Nat]
  /\ faults \in 0 .. MaxFaults

\* With a reservation or a key a customer gets one message for one event, however
\* often its job is run and whatever the worker knows of the provider's answer.
OneMessagePerEvent == provider # "plain" => \A e \in SmsEvents : accepted[e] <= 1

\* openspec/specs/outbox-worker-recovery/spec.md: the worker avoids marking unfinished
\* work as successfully delivered: a completed event has its message at the provider.
CompletedWasSent == \A e \in SmsEvents : event[e].processed => accepted[e] >= 1

\* A fraud event is evaluated exactly once: twice would count an occurrence twice.
EvaluatedOnce ==
  \A e \in FraudEvents : evaluated[e] = (IF event[e].processed THEN 1 ELSE 0)

\* No event is left behind: after any one fault each is completed or dead-lettered in
\* the end.  (A second one may strand an event: see the README.)
Settled(e) == event[e].status = "ABSENT" \/ event[e].processed \/ event[e].dead
EveryEventSettles == <>(faults > 1 \/ \A e \in Events : Settled(e))
=============================================================================
