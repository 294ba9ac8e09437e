---------------------------- MODULE OfflineSync -----------------------------
(***************************************************************************)
(* Purchases captured while the shop is offline.  A cashier's browser keeps  *)
(* a purchase it could not send in IndexedDB and later submits what it keeps *)
(* in batches to POST /offline-sync/earn-batch, which runs each record at    *)
(* most once against the earn service and remembers its answer in            *)
(* OfflineSyncAttempt.  Answers get lost, the page is reloaded, the server   *)
(* dies in the middle of a batch, and a batch may still be running when the  *)
(* next one arrives.                                                        *)
(*                                                                          *)
(* The earn service is the one-step EarnService, which EarnRequests proves   *)
(* of the real handler.  A request of EarnDomain is here either an online    *)
(* submission or the single earn call the server makes for a saved record.   *)
(***************************************************************************)
EXTENDS EarnDomain, Naturals, FiniteSets

CONSTANTS
  Saved,       \* the requests that are saved records, by localId
  SavedAs,     \* the record a failed online submission is saved as
  Calls,       \* bound: batch calls the server works on at a time
  Limits,      \* the values OFFLINE_SYNC_MAX_RECORDS may be deployed with
  MaxCrashes,  \* bound: crashes of the server
  MaxLosses,   \* bound: batch answers lost on the way
  MaxReloads   \* bound: reloads of the page during a batch

Online == Requests \ Saved

ASSUME SavedAssumption ==
  /\ Saved \subseteq Requests
  /\ SavedAs \in [Online -> Saved]
  /\ \A p, q \in Online : SavedAs[p] = SavedAs[q] => p = q
  /\ \A q \in Online : SameKey(SavedAs[q], q)
  /\ None \notin Calls
  /\ Limits \cup {MaxCrashes, MaxLosses, MaxReloads} \subseteq Nat

VARIABLES
  outcome, record, elsewhere, reply,  \* the earn service
  submission,  \* the online submissions of the earn page
  queue,       \* syncState of the records in IndexedDB
  awaited,     \* the batch call the sync page is waiting for
  batch,       \* the records of that call
  phase,       \* where the server is with a call
  todo,        \* the records a call has still to process
  at,          \* the record a call is processing
  verdict,     \* what the owner of that record is about to store
  results,     \* the answers a call has collected
  attempt,     \* OfflineSyncAttempt by localId: its stored answer
  crashes, losses, reloads,
  maxRecords   \* the deployed limit of a batch

service == <<outcome, record, elsewhere, reply>>
page == <<queue, awaited, batch>>
server == <<phase, todo, at, verdict, results, attempt>>
faults == <<crashes, losses, reloads, maxRecords>>
vars == <<service, submission, page, server, faults>>

Earn == INSTANCE EarnService

Results == {"CONFIRMED", "PENDING_APPROVAL", "REJECTED", "RETRYABLE"}
NoRow == "no row"
Unanswered == "unanswered"

QueueStates == {"absent", "waiting-to-sync", "syncing", "confirmed",
                "awaiting-approval", "rejected", "retry-required", "cleared"}

NoResults == [l \in Saved |-> NotYet]

Init == /\ Earn!Init
        /\ submission = [q \in Online |-> "draft"]
        /\ queue = [l \in Saved |-> "absent"]
        /\ awaited = None
        /\ batch = {}
        /\ phase = [b \in Calls |-> "free"]
        /\ todo = [b \in Calls |-> {}]
        /\ at = [b \in Calls |-> None]
        /\ verdict = [b \in Calls |-> NotYet]
        /\ results = [b \in Calls |-> NoResults]
        /\ attempt = [l \in Saved |-> NoRow]
        /\ maxRecords \in Limits
        /\ crashes = 0 /\ losses = 0 /\ reloads = 0

(***************************************************************************)
(* The earn page.  A draft keeps its idempotency key until it succeeds, so   *)
(* after a network error the cashier may submit the same purchase again; each *)
(* failure saves a record of its own.                                        *)
(***************************************************************************)
Submit(q) ==
  /\ submission[q] = "draft"
  /\ \A p \in Online : /\ submission[p] # "sent"
                       /\ SameKey(p, q) => ~(submission[p] = "answered" /\ reply[p] \in Captures)
  /\ submission' = [submission EXCEPT ![q] = "sent"]
  /\ UNCHANGED <<service, page, server, faults>>

\* What one call of LoyaltyService.earn may do and answer.
EarnCall(q) == \/ \E a \in Captures : Earn!Capture(q, a)
               \/ Earn!Replay(q)
               \/ \E a \in Refusals : Earn!Refuse(q, a)

\* The request reaches the server, perhaps after the page gave up on it.
EarnOnline(q) == /\ submission[q] \in {"sent", "failed"}
                 /\ EarnCall(q)
                 /\ UNCHANGED <<submission, page, server, faults>>

SeeAnswer(q) == /\ submission[q] = "sent"
                /\ reply[q] # NotYet
                /\ submission' = [submission EXCEPT ![q] = "answered"]
                /\ UNCHANGED <<service, page, server, faults>>

SaveOffline(q) ==
  /\ submission[q] = "sent"
  /\ submission' = [submission EXCEPT ![q] = "failed"]
  /\ queue' = [queue EXCEPT ![SavedAs[q]] = "waiting-to-sync"]
  /\ UNCHANGED <<service, awaited, batch, server, faults>>

\* The call is over and nothing of it is left.
Close(b) == /\ phase' = [phase EXCEPT ![b] = "free"]
            /\ todo' = [todo EXCEPT ![b] = {}]
            /\ results' = [results EXCEPT ![b] = NoResults]
            /\ UNCHANGED <<at, verdict, attempt>>

(***************************************************************************)
(* The sync page.                                                           *)
(***************************************************************************)
Queueable == {l \in Saved : queue[l] \in {"waiting-to-sync", "retry-required"}}

MarkAll(ls, state) == [l \in Saved |-> IF l \in ls THEN state ELSE queue[l]]

\* syncBatch: every queueable record is marked and sent in one call.
SyncBatch(b) ==
  /\ awaited = None
  /\ Queueable # {}
  /\ phase[b] = "free"
  /\ queue' = MarkAll(Queueable, "syncing")
  /\ awaited' = b
  /\ batch' = Queueable
  /\ phase' = [phase EXCEPT ![b] = "next"]
  /\ todo' = [todo EXCEPT ![b] = Queueable]
  /\ UNCHANGED <<service, submission, at, verdict, results, attempt, faults>>

\* Fault: a record the server holds for approval is shown as confirmed.
PendingShownAsConfirmed(status) ==
  CASE status \in Captures -> "confirmed"
    [] status = "REJECTED" -> "rejected"
    [] OTHER -> "retry-required"
MapSyncState(status) ==
  CASE status = "CONFIRMED" -> "confirmed"
    [] status = "PENDING_APPROVAL" -> "awaiting-approval"
    [] status = "REJECTED" -> "rejected"
    [] OTHER -> "retry-required"

ApplyResults(b) ==
  /\ awaited = b
  /\ phase[b] = "done"
  /\ queue' = [l \in Saved |-> IF results[b][l] # NotYet
                               THEN MapSyncState(results[b][l]) ELSE queue[l]]
  /\ awaited' = None
  /\ batch' = {}
  /\ Close(b)
  /\ UNCHANGED <<service, submission, faults>>

\* markBatchUnavailable: the call failed, as far as the page can tell.
\* Fault: the records of a failed call keep their mark.
MarkNothing == awaited' = None /\ batch' = {} /\ UNCHANGED queue
MarkUnavailable == /\ queue' = MarkAll(batch, "retry-required")
                   /\ awaited' = None
                   /\ batch' = {}

\* The server refused the batch or died over it.
CallFailed(b) == /\ awaited = b
                 /\ phase[b] = "failed"
                 /\ MarkUnavailable
                 /\ Close(b)
                 /\ UNCHANGED <<service, submission, faults>>

\* The connection is lost; the server goes on with the call if it has it.
ConnectionLost(b) ==
  /\ awaited = b
  /\ losses < MaxLosses
  /\ losses' = losses + 1
  /\ MarkUnavailable
  /\ \/ UNCHANGED server
     \/ /\ phase[b] = "next" /\ todo[b] = batch
        /\ Close(b)
  /\ UNCHANGED <<service, submission, crashes, reloads, maxRecords>>

\* The page forgets its call; the records stay marked.
Reload == /\ awaited # None
          /\ reloads < MaxReloads
          /\ reloads' = reloads + 1
          /\ awaited' = None
          /\ batch' = {}
          /\ UNCHANGED <<service, submission, queue, server, crashes, losses, maxRecords>>

RetryRecord(l) == /\ queue[l] = "retry-required"
                  /\ queue' = [queue EXCEPT ![l] = "waiting-to-sync"]
                  /\ UNCHANGED <<service, submission, awaited, batch, server, faults>>

ClearConfirmed ==
  LET confirmed == {l \in Saved : queue[l] = "confirmed"}
  IN  /\ confirmed # {}
      /\ queue' = MarkAll(confirmed, "cleared")
      /\ UNCHANGED <<service, submission, awaited, batch, server, faults>>

(***************************************************************************)
(* The server: earnBatch takes the records of a call one by one.             *)
(***************************************************************************)
\* A batch that is too large is refused as a whole.
Accepted(b) == phase[b] = "next" /\ Cardinality(todo[b]) <= maxRecords

TooLarge(b) ==
  /\ phase[b] = "next"
  /\ Cardinality(todo[b]) > maxRecords
  /\ phase' = [phase EXCEPT ![b] = "failed"]
  /\ UNCHANGED <<service, submission, page, todo, at, verdict, results, attempt, faults>>

Collect(b, l, result) ==
  /\ results' = [results EXCEPT ![b][l] = result]
  /\ todo' = [todo EXCEPT ![b] = @ \ {l}]
  /\ at' = [at EXCEPT ![b] = None]
  /\ verdict' = [verdict EXCEPT ![b] = NotYet]
  /\ phase' = [phase EXCEPT ![b] = "next"]

\* Fault: the attempt row is not unique, so a second call takes the record too.
FreeUntilAnswered(l) == attempt[l] \in {NoRow, Unanswered}
Free(l) == attempt[l] = NoRow

\* processRecord looks for the attempt row and creates it when there is none; a
\* lost race for the unique row looks again.
Take(b, l) ==
  /\ Accepted(b)
  /\ l \in todo[b]
  /\ IF attempt[l] \in Results
     THEN Collect(b, l, attempt[l]) /\ UNCHANGED attempt
     ELSE /\ at' = [at EXCEPT ![b] = l]
          /\ phase' = [phase EXCEPT ![b] = IF Free(l) THEN "owner" ELSE "waiting"]
          /\ attempt' = [attempt EXCEPT ![l] = Unanswered]
          /\ UNCHANGED <<todo, verdict, results>>
  /\ UNCHANGED <<service, submission, page, faults>>

\* waitForOfflineSyncReplay: the other call's answer, or RETRYABLE when the eight
\* looks are over (SYNC_RECORD_PROCESSING).
\* Fault: the wait has no end.
WaitEndsOnAnswer(b) == attempt[at[b]] \in Results
WaitEnds(b) == TRUE

Wait(b) ==
  /\ phase[b] = "waiting"
  /\ WaitEnds(b)
  /\ LET stored == attempt[at[b]]
     IN  Collect(b, at[b], IF stored \in Results THEN stored ELSE "RETRYABLE")
  /\ UNCHANGED <<service, submission, page, attempt, faults>>

\* validateRecord may refuse the record for its actor, branch, age, device, week
\* or card.
Invalid(b) == /\ phase[b] = "owner"
              /\ verdict' = [verdict EXCEPT ![b] = "REJECTED"]
              /\ phase' = [phase EXCEPT ![b] = "decided"]
              /\ UNCHANGED <<service, submission, page, todo, at, results, attempt, faults>>

\* mapEarnFailure: the refusals it knows are final, all others may be retried; of
\* the refusals EarnService calls REJECTED it knows those about card and device.
\* Fault: the code of the failure is stored as it is.
FailureAsItIs(code) == {code}
MapEarnFailure(code) ==
  CASE code \in {"RECEIPT_ALREADY_USED", "IDEMPOTENCY_CONFLICT"} -> {"REJECTED"}
    [] code = "REJECTED" -> {"REJECTED", "RETRYABLE"}
    [] OTHER -> {"RETRYABLE"}

EarnRecord(b) ==
  LET l == at[b]
  IN  /\ phase[b] = "owner"
      /\ EarnCall(l)
      /\ \E v \in IF reply'[l] \in Captures THEN {reply'[l]} ELSE MapEarnFailure(reply'[l]) :
           verdict' = [verdict EXCEPT ![b] = v]
      /\ phase' = [phase EXCEPT ![b] = "decided"]
      /\ UNCHANGED <<submission, page, todo, at, results, attempt, faults>>

PersistResult(b) ==
  /\ phase[b] = "decided"
  /\ attempt' = [attempt EXCEPT ![at[b]] = verdict[b]]
  /\ Collect(b, at[b], verdict[b])
  /\ UNCHANGED <<service, submission, page, faults>>

\* The answer is ready; nobody may be there to read it.
Respond(b) ==
  /\ phase[b] = "next"
  /\ todo[b] = {}
  /\ phase' = [phase EXCEPT ![b] = "done"]
  /\ UNCHANGED <<service, submission, page, todo, at, verdict, results, attempt, faults>>

Discard(b) ==
  /\ phase[b] \in {"done", "failed"}
  /\ awaited # b
  /\ Close(b)
  /\ UNCHANGED <<service, submission, page, faults>>

Work(b) == \/ TooLarge(b) \/ \E l \in Saved : Take(b, l)
           \/ Wait(b) \/ Invalid(b) \/ EarnRecord(b) \/ PersistResult(b)
           \/ Respond(b) \/ Discard(b)

\* All calls in progress are gone; what they committed stays.
CrashServer ==
  LET running == {b \in Calls : phase[b] \notin {"free", "failed"}}
  IN  /\ crashes < MaxCrashes
      /\ running # {}
      /\ crashes' = crashes + 1
      /\ phase' = [b \in Calls |-> IF b \in running THEN "failed" ELSE phase[b]]
      /\ todo' = [b \in Calls |-> IF b \in running THEN {} ELSE todo[b]]
      /\ at' = [b \in Calls |-> None]
      /\ verdict' = [b \in Calls |-> NotYet]
      /\ results' = [b \in Calls |-> NoResults]
      /\ UNCHANGED <<service, submission, page, attempt, losses, reloads, maxRecords>>

\* Another till uses the receipt.
SettleElsewhere(r) == /\ Earn!SettleElsewhere(r)
                      /\ UNCHANGED <<submission, page, server, faults>>

\* The key's idempotency record outlives its seven days, perhaps while the purchase
\* still waits in the browser or an earlier attempt at it is on its way.
ForgetKey(k) == /\ record[k] # None
                /\ Earn!Forget(k)
                /\ UNCHANGED <<submission, page, server, faults>>

Next == \/ \E q \in Online : \/ Submit(q) \/ EarnOnline(q) \/ SeeAnswer(q)
                             \/ SaveOffline(q)
        \/ \E b \in Calls : \/ SyncBatch(b) \/ ApplyResults(b) \/ CallFailed(b)
                            \/ ConnectionLost(b) \/ Work(b)
        \/ \E l \in Saved : RetryRecord(l)
        \/ ClearConfirmed \/ Reload \/ CrashServer
        \/ \E r \in Receipts : SettleElsewhere(r)
        \/ \E k \in Keys : ForgetKey(k)

Spec == Init /\ [][Next]_vars

\* The server works on the calls it has, the page reads the answer it waits for,
\* and a cashier with something to sync presses the button.
FairSpec ==
  /\ Spec
  /\ \A b \in Calls : WF_vars(Work(b)) /\ WF_vars(ApplyResults(b) \/ CallFailed(b))
  /\ WF_vars(\E b \in Calls : SyncBatch(b))

-----------------------------------------------------------------------------
TypeOK ==
  /\ submission \in [Online -> {"draft", "sent", "answered", "failed"}]
  /\ queue \in [Saved -> QueueStates]
  /\ awaited \in Calls \cup {None}
  /\ batch \subseteq Saved
  /\ maxRecords \in Limits
  /\ phase \in [Calls -> {"free", "next", "waiting", "owner", "decided", "done", "failed"}]
  /\ todo \in [Calls -> SUBSET Saved]
  /\ at \in [Calls -> Saved \cup {None}]
  /\ verdict \in [Calls -> Results \cup {NotYet}]
  /\ results \in [Calls -> [Saved -> Results \cup {NotYet}]]
  /\ attempt \in [Saved -> Results \cup {NoRow, Unanswered}]

\* What the browser shows as confirmed, and what it has therefore let the cashier
\* clear, has been credited under the record's key; what it shows as awaiting
\* approval waits there.  Lost answers, reloads, crashes and overlapping calls do
\* not make it show more than the server holds.
DeviceShowsServerState ==
  \A l \in Saved :
    \A s \in Captures :
      queue[l] \in (IF s = "CONFIRMED" THEN {"confirmed", "cleared"} ELSE {"awaiting-approval"})
      => \E p \in Requests : SameKey(p, l) /\ SamePayload(p, l) /\ outcome[p] = s

\* Overlapping calls for one record work on it once: an attempt that has an answer
\* keeps it, so every later call tells the device the same.
AnswersAreFinal ==
  [][\A l \in Saved : attempt[l] \in Results => attempt'[l] = attempt[l]]_vars

\* The page loses no record on its own: what it shows as syncing is in the call it
\* waits for, whatever answer, refusal or failure that call comes to, unless the
\* page was reloaded over it.
SyncingIsAwaited == reloads = 0 => batch = {l \in Saved : queue[l] = "syncing"}

\* The sync page never waits forever: a batch ends with an answer or a failure even
\* when the server died over an earlier call that owned one of the records.
BatchEnds == []<>(awaited = None)

\* docs/api/error-catalogue.md:21: "`EARN_TRANSACTION_CONFLICT` represents exhausted
\* serialization retries and should be treated as temporary/retryable by clients."
\* So a record that met such a conflict is settled when the cashier keeps syncing.
RetriesSettle ==
  \A l \in Saved : queue[l] = "retry-required" /\ reply[l] = "EARN_TRANSACTION_CONFLICT"
                    ~> queue[l] \in {"confirmed", "awaiting-approval", "rejected"}
=============================================================================
