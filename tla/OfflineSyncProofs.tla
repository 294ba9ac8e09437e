-------------------------- MODULE OfflineSyncProofs -------------------------
(***************************************************************************)
(* For any number of saved purchases, overlapping batch calls, lost         *)
(* answers, reloads and crashes: the types, the truth of what the device    *)
(* shows, the finality of a record's answer, that the page waits for every  *)
(* record it shows as syncing, that the earn service is used as it promises *)
(* to be, and that a purchase shown as taken was captured exactly once.     *)
(***************************************************************************)
EXTENDS OfflineSync, TLAPS

\* Some request under the key and body of record l was captured with outcome s.
Served(l, s) == \E p \in Requests : SameKey(p, l) /\ SamePayload(p, l) /\ outcome[p] = s

\* No step takes a capture back.
Kept == \A l \in Saved, s \in Captures : Served(l, s) => Served(l, s)'

\* The earn service: a capture is answered, a key's record points at a capture.
ServiceInv ==
  /\ outcome \in [Requests -> Captures \cup {NotYet}]
  /\ record \in [Keys -> Requests \cup {None}]
  /\ reply \in [Requests -> Captures \cup Refusals \cup {NotYet}]
  /\ \A q \in Requests : reply[q] = NotYet => outcome[q] = NotYet
  /\ \A k \in Keys : record[k] # None =>
       KeyOf[record[k]] = k /\ outcome[record[k]] \in Captures

\* The types of what the browser keeps.
PageTyped ==
  /\ submission \in [Online -> {"draft", "sent", "answered", "failed"}]
  /\ queue \in [Saved -> QueueStates]
  /\ awaited \in Calls \cup {None}
  /\ batch \subseteq Saved
  /\ maxRecords \in Limits
  /\ reloads \in Nat

\* The types of what the server keeps.
ServerTyped ==
  /\ phase \in [Calls -> {"free", "next", "waiting", "owner", "decided", "done", "failed"}]
  /\ todo \in [Calls -> SUBSET Saved]
  /\ at \in [Calls -> Saved \cup {None}]
  /\ verdict \in [Calls -> Results \cup {NotYet}]
  /\ results \in [Calls -> [Saved -> Results \cup {NotYet}]]
  /\ attempt \in [Saved -> Results \cup {NoRow, Unanswered}]

\* A call that is busy is busy with a record; it has a verdict once it has decided.
CallsInOrder ==
  \A b \in Calls : /\ phase[b] \in {"waiting", "owner", "decided"} => at[b] \in Saved
                   /\ phase[b] = "decided" <=> verdict[b] # NotYet
                   /\ phase[b] = "done" => todo[b] = {}

\* The unique attempt row: a record is owned by one call at most, and has no answer
\* while it is owned.
Owns(b, l) == phase[b] \in {"owner", "decided"} /\ at[b] = l
OneOwner ==
  \A b \in Calls, l \in Saved : Owns(b, l) =>
    attempt[l] = Unanswered /\ \A c \in Calls : Owns(c, l) => c = b

\* What the server alone keeps true.
ServerInv == ServerTyped /\ CallsInOrder /\ OneOwner

\* Every capture the server tells of, on its way to the device, took place.
Told(l, s) == \/ \E b \in Calls : at[b] = l /\ verdict[b] = s
              \/ attempt[l] = s
              \/ \E b \in Calls : results[b][l] = s
AnswersTrue == \A l \in Saved, s \in Captures : Told(l, s) => Served(l, s)

\* A record that is not saved yet is no part of any call.
Mentioned(l) == \E b \in Calls : l \in todo[b] \/ at[b] = l \/ results[b][l] # NotYet
AbsentUntouched ==
  /\ \A q \in Online : submission[q] \in {"draft", "sent"} => queue[SavedAs[q]] = "absent"
  /\ \A l \in Saved : Mentioned(l) => queue[l] # "absent"
  /\ \A l \in batch : queue[l] # "absent"

\* The call the page waits for still has every record of the batch to do, or its answer.
BatchComplete ==
  /\ awaited = None => batch = {}
  /\ \A b \in Calls : awaited = b /\ phase[b] \notin {"free", "failed"} =>
       \A l \in batch : l \in todo[b] \/ results[b][l] # NotYet

\* The inductive invariant.
OfflineInv ==
  /\ ServiceInv
  /\ PageTyped
  /\ ServerInv
  /\ AnswersTrue
  /\ AbsentUntouched
  /\ BatchComplete
  /\ DeviceShowsServerState
  /\ SyncingIsAwaited

-----------------------------------------------------------------------------
(* What a step leaves alone. *)

\* What the device shows, in terms of Served.
ShownIsServed(l) ==
  /\ queue[l] \in {"confirmed", "cleared"} => Served(l, "CONFIRMED")
  /\ queue[l] = "awaiting-approval" => Served(l, "PENDING_APPROVAL")

\* That is what DeviceShowsServerState says.
LEMMA Shown ==
  /\ DeviceShowsServerState <=> \A l \in Saved : ShownIsServed(l)
  /\ DeviceShowsServerState' <=> \A l \in Saved : ShownIsServed(l)'
BY DEF DeviceShowsServerState, ShownIsServed, Served, Captures

\* A step that does not reach the earn service.
LEMMA ServiceFrame ==
  ASSUME OfflineInv, UNCHANGED service
  PROVE  ServiceInv' /\ Kept
BY DEF OfflineInv, ServiceInv, Kept, Served, service

\* A step that does not reach the server.
LEMMA ServerFrame ==
  ASSUME OfflineInv, Kept, UNCHANGED server
  PROVE  ServerInv' /\ AnswersTrue'
<1>1. UNCHANGED <<phase, todo, at, verdict, results, attempt>>
  BY DEF server
<1>2. ServerInv'
  BY <1>1 DEF OfflineInv, ServerInv, ServerTyped, CallsInOrder, OneOwner, Owns
<1>3. \A l \in Saved, s \in Captures : Told(l, s)' <=> Told(l, s)
  BY <1>1 DEF Told
<1>4. AnswersTrue'
  BY <1>3 DEF OfflineInv, AnswersTrue, Kept
<1> QED
  BY <1>2, <1>4

\* A step that does not reach the browser.
LEMMA PageFrame ==
  ASSUME OfflineInv, Kept, UNCHANGED <<submission, page, reloads, maxRecords>>
  PROVE  PageTyped' /\ SyncingIsAwaited' /\ DeviceShowsServerState'
<1>1. UNCHANGED <<submission, queue, awaited, batch, reloads, maxRecords>>
  BY DEF page
<1>2. PageTyped' /\ SyncingIsAwaited'
  BY <1>1 DEF OfflineInv, PageTyped, SyncingIsAwaited
<1>3. DeviceShowsServerState'
  BY <1>1, Shown DEF OfflineInv, ShownIsServed, Kept, Captures
<1> QED
  BY <1>2, <1>3

\* A step of the server whose calls take up no record.
LEMMA NothingTakenUp ==
  ASSUME OfflineInv, UNCHANGED <<submission, queue, batch>>,
         \A l \in Saved : Mentioned(l)' => Mentioned(l)
  PROVE  AbsentUntouched'
BY DEF OfflineInv, AbsentUntouched

\* A step of the server that tells of no capture it has not made.
LEMMA NothingMadeUp ==
  ASSUME OfflineInv, Kept,
         \A l \in Saved, s \in Captures : Told(l, s)' => Told(l, s) \/ Served(l, s)'
  PROVE  AnswersTrue'
BY DEF OfflineInv, AnswersTrue, Kept

-----------------------------------------------------------------------------
(* The earn service. *)

\* A call of earn takes nothing back, and a capture it answers with took place.
LEMMA EarnCallStep ==
  ASSUME ServiceInv, NEW q \in Requests, EarnCall(q)
  PROVE  /\ ServiceInv' /\ Kept
         /\ reply'[q] \in Captures \cup Refusals
         /\ \A s \in Captures : reply'[q] = s => Served(q, s)'
<1>1. KeyOf[q] \in Keys /\ None \notin Requests
  BY RequestsAssumption
<1>2. CASE \E a \in Captures : Earn!Capture(q, a)
  <2>1. PICK a \in Captures : Earn!Capture(q, a)
    BY <1>2
  <2>2. /\ reply[q] = NotYet /\ outcome[q] = NotYet /\ a # NotYet
        /\ reply' = [reply EXCEPT ![q] = a]
        /\ outcome' = [outcome EXCEPT ![q] = a]
        /\ record' = [record EXCEPT ![KeyOf[q]] = q]
    BY <2>1 DEF Earn!Capture, Earn!Answer, Earn!NotYet, ServiceInv, Captures, NotYet
  <2>3. ServiceInv'
    BY <1>1, <2>2 DEF ServiceInv
  <2>4. \A p \in Requests : outcome[p] # NotYet => outcome'[p] = outcome[p]
    BY <2>2 DEF ServiceInv
  <2>5. Kept
    BY <2>4 DEF Kept, Served, Captures, NotYet
  <2>6. outcome'[q] = a /\ reply'[q] = a
    BY <2>2 DEF ServiceInv
  <2> QED
    BY <2>3, <2>5, <2>6 DEF Served, SameKey, SamePayload
<1>3. CASE Earn!Replay(q)
  <2>1. PICK p \in Requests : /\ record[KeyOf[q]] = p /\ SamePayload(p, q)
                               /\ Earn!Answer(q, outcome[p])
                               /\ UNCHANGED <<outcome, record, elsewhere>>
    BY <1>3 DEF Earn!Replay, Earn!SamePayload, SamePayload
  <2>2. KeyOf[p] = KeyOf[q] /\ outcome[p] \in Captures
    BY <1>1, <2>1 DEF ServiceInv
  <2>3. reply' = [reply EXCEPT ![q] = outcome[p]]
    BY <2>1 DEF Earn!Answer
  <2>4. ServiceInv' /\ Kept
    BY <2>1, <2>2, <2>3 DEF ServiceInv, Kept, Served, Captures, NotYet
  <2>5. reply'[q] = outcome[p] /\ outcome'[p] = outcome[p]
    BY <2>1, <2>3 DEF ServiceInv
  <2> QED
    BY <2>1, <2>2, <2>4, <2>5 DEF Served, SameKey
<1>4. CASE \E a \in Refusals : Earn!Refuse(q, a)
  <2>1. PICK a \in Refusals : Earn!Refuse(q, a)
    BY <1>4
  <2>2. /\ reply' = [reply EXCEPT ![q] = a] /\ a # NotYet /\ a \notin Captures
        /\ UNCHANGED <<outcome, record>>
    BY <2>1 DEF Earn!Refuse, Earn!Answer, Refusals, Captures, NotYet
  <2>3. ServiceInv' /\ Kept
    BY <2>2 DEF ServiceInv, Kept, Served
  <2>4. reply'[q] = a
    BY <2>2 DEF ServiceInv
  <2> QED
    BY <2>2, <2>3, <2>4
<1> QED
  BY <1>2, <1>3, <1>4 DEF EarnCall

-----------------------------------------------------------------------------
(* The earn page. *)

\* A draft is sent.
LEMMA SubmitStep ==
  ASSUME OfflineInv, NEW q \in Online, Submit(q)
  PROVE  OfflineInv'
<1>1. /\ submission[q] = "draft" /\ submission' = [submission EXCEPT ![q] = "sent"]
      /\ UNCHANGED <<service, page, server, faults>>
  BY DEF Submit
<1>2. UNCHANGED <<queue, awaited, batch, reloads, maxRecords, phase, todo, at, results>>
  BY <1>1 DEF page, server, faults
<1>3. ServiceInv' /\ Kept
  BY <1>1, ServiceFrame
<1>4. ServerInv' /\ AnswersTrue'
  BY <1>1, <1>3, ServerFrame
<1>5. PageTyped' /\ SyncingIsAwaited'
  BY <1>1, <1>2 DEF OfflineInv, PageTyped, SyncingIsAwaited
<1>6. DeviceShowsServerState'
  BY <1>2, <1>3, Shown DEF OfflineInv, ShownIsServed, Kept, Captures
<1>7. AbsentUntouched'
  BY <1>1, <1>2 DEF OfflineInv, AbsentUntouched, Mentioned, PageTyped
<1>8. BatchComplete'
  BY <1>2 DEF OfflineInv, BatchComplete
<1> QED
  BY <1>3, <1>4, <1>5, <1>6, <1>7, <1>8 DEF OfflineInv

\* A submission is answered.
LEMMA SeeAnswerStep ==
  ASSUME OfflineInv, NEW q \in Online, SeeAnswer(q)
  PROVE  OfflineInv'
<1>1. /\ submission' = [submission EXCEPT ![q] = "answered"]
      /\ UNCHANGED <<service, page, server, faults>>
  BY DEF SeeAnswer
<1>2. UNCHANGED <<queue, awaited, batch, reloads, maxRecords, phase, todo, at, results>>
  BY <1>1 DEF page, server, faults
<1>3. ServiceInv' /\ Kept
  BY <1>1, ServiceFrame
<1>4. ServerInv' /\ AnswersTrue'
  BY <1>1, <1>3, ServerFrame
<1>5. PageTyped' /\ SyncingIsAwaited'
  BY <1>1, <1>2 DEF OfflineInv, PageTyped, SyncingIsAwaited
<1>6. DeviceShowsServerState'
  BY <1>2, <1>3, Shown DEF OfflineInv, ShownIsServed, Kept, Captures
<1>7. AbsentUntouched'
  BY <1>1, <1>2 DEF OfflineInv, AbsentUntouched, Mentioned, PageTyped
<1>8. BatchComplete'
  BY <1>2 DEF OfflineInv, BatchComplete
<1> QED
  BY <1>3, <1>4, <1>5, <1>6, <1>7, <1>8 DEF OfflineInv

\* A submission fails and is saved: the record was nowhere before.
LEMMA SaveOfflineStep ==
  ASSUME OfflineInv, NEW q \in Online, SaveOffline(q)
  PROVE  OfflineInv'
<1>1. /\ submission[q] = "sent" /\ submission' = [submission EXCEPT ![q] = "failed"]
      /\ queue' = [queue EXCEPT ![SavedAs[q]] = "waiting-to-sync"]
      /\ UNCHANGED <<service, awaited, batch, server, faults>>
  BY DEF SaveOffline
<1>2. UNCHANGED <<awaited, batch, reloads, maxRecords, phase, todo, at, results>>
  BY <1>1 DEF server, faults
<1>3. SavedAs[q] \in Saved /\ \A p \in Online \ {q} : SavedAs[p] \in Saved \ {SavedAs[q]}
  BY SavedAssumption
<1>4. queue \in [Saved -> QueueStates] /\ queue[SavedAs[q]] = "absent"
  BY <1>1 DEF OfflineInv, PageTyped, AbsentUntouched
<1>5. ServiceInv' /\ Kept
  BY <1>1, ServiceFrame
<1>6. ServerInv' /\ AnswersTrue'
  BY <1>1, <1>5, ServerFrame
<1>7. PageTyped'
  BY <1>1, <1>2, <1>3, <1>4 DEF OfflineInv, PageTyped, QueueStates
<1>8. {l \in Saved : queue'[l] = "syncing"} = {l \in Saved : queue[l] = "syncing"}
  BY <1>1, <1>3, <1>4
<1>9. SyncingIsAwaited'
  BY <1>2, <1>8 DEF OfflineInv, SyncingIsAwaited
<1>10. DeviceShowsServerState'
  BY <1>1, <1>3, <1>4, <1>5, Shown DEF OfflineInv, ShownIsServed, Kept, Captures
<1>11. AbsentUntouched'
  BY <1>1, <1>2, <1>3, <1>4 DEF OfflineInv, AbsentUntouched, Mentioned, PageTyped
<1>12. BatchComplete'
  BY <1>2 DEF OfflineInv, BatchComplete
<1> QED
  BY <1>5, <1>6, <1>7, <1>9, <1>10, <1>11, <1>12 DEF OfflineInv

\* A request reaches the earn service.
LEMMA EarnOnlineStep ==
  ASSUME OfflineInv, NEW q \in Online, EarnOnline(q)
  PROVE  OfflineInv'
<1>1. EarnCall(q) /\ UNCHANGED <<submission, page, server, faults>>
  BY DEF EarnOnline
<1>2. q \in Requests
  BY DEF Online
<1>3. ServiceInv' /\ Kept
  BY <1>1, <1>2, EarnCallStep DEF OfflineInv
<1>4. ServerInv' /\ AnswersTrue'
  BY <1>1, <1>3, ServerFrame
<1>5. UNCHANGED <<submission, page, reloads, maxRecords>>
  BY <1>1 DEF faults
<1>6. PageTyped' /\ SyncingIsAwaited' /\ DeviceShowsServerState'
  BY <1>3, <1>5, PageFrame
<1>7. AbsentUntouched' /\ BatchComplete'
  BY <1>1 DEF OfflineInv, AbsentUntouched, Mentioned, BatchComplete, page, server
<1> QED
  BY <1>3, <1>4, <1>6, <1>7 DEF OfflineInv

\* Another till uses a receipt.
LEMMA SettleElsewhereStep ==
  ASSUME OfflineInv, NEW r \in Receipts, SettleElsewhere(r)
  PROVE  OfflineInv'
<1>1. UNCHANGED <<outcome, record, reply>> /\ UNCHANGED <<submission, page, server, faults>>
  BY DEF SettleElsewhere, Earn!SettleElsewhere
<1>2. ServiceInv' /\ Kept
  BY <1>1 DEF OfflineInv, ServiceInv, Kept, Served
<1>3. ServerInv' /\ AnswersTrue'
  BY <1>1, <1>2, ServerFrame
<1>4. UNCHANGED <<submission, page, reloads, maxRecords>>
  BY <1>1 DEF faults
<1>5. PageTyped' /\ SyncingIsAwaited' /\ DeviceShowsServerState'
  BY <1>2, <1>4, PageFrame
<1>6. AbsentUntouched' /\ BatchComplete'
  BY <1>1 DEF OfflineInv, AbsentUntouched, Mentioned, BatchComplete, page, server
<1> QED
  BY <1>2, <1>3, <1>5, <1>6 DEF OfflineInv

\* The service forgets a key.
LEMMA ForgetKeyStep ==
  ASSUME OfflineInv, NEW k \in Keys, ForgetKey(k)
  PROVE  OfflineInv'
<1>1. /\ UNCHANGED <<outcome, elsewhere, reply>>
      /\ UNCHANGED <<submission, page, server, faults>>
      /\ record' = [record EXCEPT ![k] = None]
  BY DEF ForgetKey, Earn!Forget
<1>2. ServiceInv' /\ Kept
  BY <1>1 DEF OfflineInv, ServiceInv, Kept, Served
<1>3. ServerInv' /\ AnswersTrue'
  BY <1>1, <1>2, ServerFrame
<1>4. UNCHANGED <<submission, page, reloads, maxRecords>>
  BY <1>1 DEF faults
<1>5. PageTyped' /\ SyncingIsAwaited' /\ DeviceShowsServerState'
  BY <1>2, <1>4, PageFrame
<1>6. AbsentUntouched' /\ BatchComplete'
  BY <1>1 DEF OfflineInv, AbsentUntouched, Mentioned, BatchComplete, page, server
<1> QED
  BY <1>2, <1>3, <1>5, <1>6 DEF OfflineInv

-----------------------------------------------------------------------------
(* The sync page. *)

\* What the page keeps true by itself: the marks and the batch agree, and what it
\* shows was served.
LEMMA PageStep ==
  ASSUME OfflineInv, ServiceInv', Kept, ServerInv', AnswersTrue', UNCHANGED submission,
         PageTyped', SyncingIsAwaited', BatchComplete',
         \A l \in Saved : Mentioned(l)' => Mentioned(l) \/ queue[l] # "absent",
         \A l \in batch' : l \in batch \/ queue[l] # "absent",
         \A l \in Saved : queue[l] = "absent" <=> queue'[l] = "absent",
         \A l \in Saved : ShownIsServed(l)'
  PROVE  OfflineInv'
<1>1. \A q \in Online : SavedAs[q] \in Saved
  BY SavedAssumption
<1>2. AbsentUntouched'
  <2>1. batch' \subseteq Saved
    BY DEF PageTyped
  <2> QED
    BY <1>1, <2>1 DEF OfflineInv, AbsentUntouched
<1>3. DeviceShowsServerState'
  BY Shown
<1> QED
  BY <1>2, <1>3 DEF OfflineInv

\* A call is closed: nothing of it is left, and the others go on.
LEMMA CloseStep ==
  ASSUME OfflineInv, Kept, NEW b \in Calls, Close(b),
         phase[b] \notin {"waiting", "owner", "decided"}
  PROVE  /\ ServerInv' /\ AnswersTrue'
         /\ phase'[b] = "free"
         /\ \A l \in Saved : Mentioned(l)' => Mentioned(l)
<1>1. /\ phase' = [phase EXCEPT ![b] = "free"]
      /\ todo' = [todo EXCEPT ![b] = {}]
      /\ results' = [results EXCEPT ![b] = NoResults]
      /\ UNCHANGED <<at, verdict, attempt>>
  BY DEF Close
<1>2. ServerTyped /\ CallsInOrder /\ OneOwner
  BY DEF OfflineInv, ServerInv
<1>3. NoResults \in [Saved -> Results \cup {NotYet}] /\ \A l \in Saved : NoResults[l] = NotYet
  BY DEF NoResults
<1>4. ServerTyped'
  BY <1>1, <1>2, <1>3 DEF ServerTyped
<1>5. /\ phase'[b] = "free" /\ todo'[b] = {} /\ \A l \in Saved : results'[b][l] = NotYet
      /\ \A c \in Calls \ {b} : phase'[c] = phase[c] /\ todo'[c] = todo[c]
                                /\ results'[c] = results[c]
  BY <1>1, <1>2, <1>3 DEF ServerTyped
<1>6. CallsInOrder'
  BY <1>1, <1>2, <1>5 DEF CallsInOrder
<1>7. \A c \in Calls, l \in Saved : Owns(c, l)' => Owns(c, l)
  BY <1>1, <1>5 DEF Owns
<1>8. OneOwner'
  BY <1>1, <1>2, <1>7 DEF OneOwner
<1>9. \A l \in Saved, s \in Captures : Told(l, s)' => Told(l, s)
  BY <1>1, <1>5 DEF Told, Captures, NotYet
<1>10. AnswersTrue'
  BY <1>9, NothingMadeUp
<1>11. \A l \in Saved : Mentioned(l)' => Mentioned(l)
  BY <1>1, <1>5 DEF Mentioned
<1> QED
  BY <1>4, <1>5, <1>6, <1>8, <1>10, <1>11 DEF ServerInv

\* A batch is marked and sent.
LEMMA SyncBatchStep ==
  ASSUME OfflineInv, NEW b \in Calls, SyncBatch(b)
  PROVE  OfflineInv'
<1>1. /\ awaited = None /\ phase[b] = "free"
      /\ queue' = [l \in Saved |-> IF l \in Queueable THEN "syncing" ELSE queue[l]]
      /\ awaited' = b /\ batch' = Queueable
      /\ phase' = [phase EXCEPT ![b] = "next"]
      /\ todo' = [todo EXCEPT ![b] = Queueable]
      /\ UNCHANGED <<service, submission, at, verdict, results, attempt, faults>>
  BY DEF SyncBatch, MarkAll
<1>2. UNCHANGED <<reloads, maxRecords>>
  BY <1>1 DEF faults
<1>3. /\ Queueable \subseteq Saved
      /\ \A l \in Queueable : queue[l] \in {"waiting-to-sync", "retry-required"}
  BY DEF Queueable
<1> HIDE DEF Queueable
<1>4. ServerTyped /\ CallsInOrder /\ OneOwner /\ PageTyped
  BY DEF OfflineInv, ServerInv
<1>5. ServiceInv' /\ Kept
  BY <1>1, ServiceFrame
<1>6. /\ phase'[b] = "next" /\ todo'[b] = Queueable
      /\ \A c \in Calls \ {b} : phase'[c] = phase[c] /\ todo'[c] = todo[c]
  BY <1>1, <1>4 DEF ServerTyped
<1>7. ServerTyped'
  BY <1>1, <1>3, <1>4 DEF ServerTyped
<1>8. CallsInOrder'
  BY <1>1, <1>4, <1>6 DEF CallsInOrder
<1>9. OneOwner'
  BY <1>1, <1>4, <1>6 DEF OneOwner, Owns
<1>10. AnswersTrue'
  BY <1>1, <1>5, NothingMadeUp DEF Told
<1>11. PageTyped'
  BY <1>1, <1>2, <1>3, <1>4 DEF PageTyped, QueueStates
<1>12. SyncingIsAwaited'
  <2> SUFFICES ASSUME reloads = 0
               PROVE  Queueable = {l \in Saved : queue'[l] = "syncing"}
    BY <1>1, <1>2 DEF SyncingIsAwaited
  <2>1. batch = {} /\ batch = {l \in Saved : queue[l] = "syncing"}
    BY <1>1 DEF OfflineInv, SyncingIsAwaited, BatchComplete
  <2> QED
    BY <1>1, <1>3, <2>1
<1>13. BatchComplete'
  <2>1. b # None
    BY SavedAssumption
  <2> QED
    BY <1>1, <1>6, <2>1 DEF BatchComplete
<1>14. \A l \in Saved : Mentioned(l)' => Mentioned(l) \/ queue[l] # "absent"
  BY <1>1, <1>3, <1>6 DEF Mentioned
<1>15. \A l \in Saved : queue[l] = "absent" <=> queue'[l] = "absent"
  BY <1>1, <1>3
<1>16. \A l \in Saved : ShownIsServed(l)'
  BY <1>1, <1>5, Shown DEF OfflineInv, ShownIsServed, Kept, Captures
<1>17. \A l \in batch' : l \in batch \/ queue[l] # "absent"
  BY <1>1, <1>3
<1> QED
  BY <1>1, <1>5, <1>7, <1>8, <1>9, <1>10, <1>11, <1>12, <1>13, <1>14, <1>15, <1>16, <1>17,
     PageStep DEF ServerInv

\* What a result is shown as.
LEMMA ShownAs ==
  ASSUME NEW result \in Results
  PROVE  /\ MapSyncState(result) \in QueueStates \ {"absent", "syncing", "cleared"}
         /\ MapSyncState(result) = "confirmed" => result = "CONFIRMED"
         /\ MapSyncState(result) = "awaiting-approval" => result = "PENDING_APPROVAL"
BY DEF Results, MapSyncState, QueueStates

\* The answer of the call is applied: it covers the batch, so nothing stays marked,
\* and it shows nothing that was not served.
LEMMA ApplyResultsStep ==
  ASSUME OfflineInv, NEW b \in Calls, ApplyResults(b)
  PROVE  OfflineInv'
<1>1. /\ awaited = b /\ phase[b] = "done"
      /\ queue' = [l \in Saved |-> IF results[b][l] # NotYet
                                   THEN MapSyncState(results[b][l]) ELSE queue[l]]
      /\ awaited' = None /\ batch' = {} /\ Close(b)
      /\ UNCHANGED <<service, submission, faults>>
  BY DEF ApplyResults
<1>2. UNCHANGED <<reloads, maxRecords>>
  BY <1>1 DEF faults
<1>3. PageTyped /\ \A l \in Saved : results[b][l] \in Results \cup {NotYet}
  BY DEF OfflineInv, ServerInv, ServerTyped
<1>4. ServiceInv' /\ Kept
  BY <1>1, ServiceFrame
<1>5. ServerInv' /\ AnswersTrue' /\ \A l \in Saved : Mentioned(l)' => Mentioned(l)
  BY <1>1, <1>4, CloseStep
<1>6. ASSUME NEW l \in Saved, results[b][l] # NotYet
      PROVE  /\ queue'[l] \in QueueStates \ {"absent", "syncing", "cleared"}
             /\ queue'[l] = "confirmed" => results[b][l] = "CONFIRMED"
             /\ queue'[l] = "awaiting-approval" => results[b][l] = "PENDING_APPROVAL"
  <2>1. results[b][l] \in Results /\ queue'[l] = MapSyncState(results[b][l])
    BY <1>1, <1>3, <1>6
  <2> QED
    BY <2>1, ShownAs
<1>7. ASSUME NEW l \in Saved, results[b][l] = NotYet PROVE queue'[l] = queue[l]
  BY <1>1, <1>7
<1>8. PageTyped'
  <2>1. \A l \in Saved : queue'[l] \in QueueStates
    BY <1>3, <1>6, <1>7 DEF PageTyped
  <2> QED
    BY <1>1, <1>2, <1>3, <2>1 DEF PageTyped
<1>9. \A l \in batch : results[b][l] # NotYet
  BY <1>1 DEF OfflineInv, ServerInv, CallsInOrder, BatchComplete
<1>10. SyncingIsAwaited'
  <2> SUFFICES ASSUME reloads = 0, NEW l \in Saved, queue'[l] = "syncing" PROVE FALSE
    BY <1>1, <1>2 DEF SyncingIsAwaited
  <2>1. results[b][l] = NotYet /\ queue[l] = "syncing"
    BY <1>6, <1>7
  <2>2. l \in batch
    BY <2>1 DEF OfflineInv, SyncingIsAwaited
  <2> QED
    BY <1>9, <2>1, <2>2
<1>11. BatchComplete'
  BY <1>1, SavedAssumption DEF BatchComplete
<1>12. \A l \in Saved : queue[l] = "absent" <=> queue'[l] = "absent"
  <2> SUFFICES ASSUME NEW l \in Saved PROVE queue[l] = "absent" <=> queue'[l] = "absent"
    OBVIOUS
  <2>1. results[b][l] # NotYet => queue[l] # "absent"
    BY DEF OfflineInv, AbsentUntouched, Mentioned
  <2> QED
    BY <1>6, <1>7, <2>1
<1>13. ASSUME NEW l \in Saved PROVE ShownIsServed(l)'
  <2>1. CASE results[b][l] # NotYet
    <3>1. \A s \in Captures : results[b][l] = s => Served(l, s)'
      BY <1>4 DEF OfflineInv, AnswersTrue, Told, Kept
    <3> QED
      BY <1>6, <2>1, <3>1 DEF ShownIsServed, Captures
  <2>2. CASE results[b][l] = NotYet
    BY <1>4, <1>7, <2>2, Shown DEF OfflineInv, ShownIsServed, Kept, Captures
  <2> QED
    BY <2>1, <2>2
<1> QED
  BY <1>1, <1>4, <1>5, <1>8, <1>10, <1>11, <1>12, <1>13, PageStep

\* markBatchUnavailable: the marks of the batch are taken away and no other.
LEMMA Unavailable ==
  ASSUME OfflineInv, Kept, MarkUnavailable, UNCHANGED <<submission, reloads, maxRecords>>
  PROVE  /\ PageTyped' /\ SyncingIsAwaited' /\ BatchComplete'
         /\ \A l \in Saved : ShownIsServed(l)'
         /\ batch' = {}
         /\ \A l \in Saved : queue[l] = "absent" <=> queue'[l] = "absent"
<1>1. /\ queue' = [l \in Saved |-> IF l \in batch THEN "retry-required" ELSE queue[l]]
      /\ awaited' = None /\ batch' = {}
  BY DEF MarkUnavailable, MarkAll
<1>2. PageTyped
  BY DEF OfflineInv
<1>3. PageTyped'
  BY <1>1, <1>2 DEF PageTyped, QueueStates
<1>4. SyncingIsAwaited'
  <2> SUFFICES ASSUME reloads = 0, NEW l \in Saved, queue'[l] = "syncing" PROVE FALSE
    BY <1>1 DEF SyncingIsAwaited
  <2>1. l \notin batch /\ queue[l] = "syncing"
    BY <1>1
  <2> QED
    BY <2>1 DEF OfflineInv, SyncingIsAwaited
<1>5. BatchComplete'
  BY <1>1, SavedAssumption DEF BatchComplete
<1>6. \A l \in Saved : ShownIsServed(l)'
  BY <1>1, Shown DEF OfflineInv, ShownIsServed, Kept, Captures
<1>7. \A l \in batch : queue[l] # "absent"
  BY DEF OfflineInv, AbsentUntouched
<1> QED
  BY <1>1, <1>3, <1>4, <1>5, <1>6, <1>7

\* The server refused the batch or died over it.
LEMMA CallFailedStep ==
  ASSUME OfflineInv, NEW b \in Calls, CallFailed(b)
  PROVE  OfflineInv'
<1>1. /\ phase[b] = "failed" /\ MarkUnavailable /\ Close(b)
      /\ UNCHANGED <<service, submission, reloads, maxRecords>>
  BY DEF CallFailed, faults
<1>2. ServiceInv' /\ Kept
  BY <1>1, ServiceFrame
<1>3. ServerInv' /\ AnswersTrue' /\ \A l \in Saved : Mentioned(l)' => Mentioned(l)
  BY <1>1, <1>2, CloseStep
<1> QED
  BY <1>1, <1>2, <1>3, Unavailable, PageStep

\* The connection is lost, with or without the call.
LEMMA ConnectionLostStep ==
  ASSUME OfflineInv, NEW b \in Calls, ConnectionLost(b)
  PROVE  OfflineInv'
<1>1. /\ MarkUnavailable
      /\ UNCHANGED <<service, submission, reloads, maxRecords>>
      /\ UNCHANGED server \/ (phase[b] = "next" /\ Close(b))
  BY DEF ConnectionLost
<1>2. ServiceInv' /\ Kept
  BY <1>1, ServiceFrame
<1>3. ServerInv' /\ AnswersTrue' /\ \A l \in Saved : Mentioned(l)' => Mentioned(l)
  <2>1. CASE UNCHANGED server
    BY <1>2, <2>1, ServerFrame DEF Mentioned, server
  <2>2. CASE phase[b] = "next" /\ Close(b)
    BY <1>2, <2>2, CloseStep
  <2> QED
    BY <1>1, <2>1, <2>2
<1> QED
  BY <1>1, <1>2, <1>3, Unavailable, PageStep

\* The page is reloaded and forgets its call.
LEMMA ReloadStep ==
  ASSUME OfflineInv, Reload
  PROVE  OfflineInv'
<1>1. /\ reloads' = reloads + 1 /\ awaited' = None /\ batch' = {}
      /\ UNCHANGED <<service, submission, queue, server, maxRecords>>
  BY DEF Reload
<1>2. ServiceInv' /\ Kept
  BY <1>1, ServiceFrame
<1>3. ServerInv' /\ AnswersTrue'
  BY <1>1, <1>2, ServerFrame
<1>4. PageTyped' /\ SyncingIsAwaited'
  BY <1>1 DEF OfflineInv, PageTyped, SyncingIsAwaited
<1>5. BatchComplete'
  BY <1>1, SavedAssumption DEF BatchComplete
<1>6. \A l \in Saved : Mentioned(l)' => Mentioned(l)
  BY <1>1 DEF Mentioned, server
<1>7. \A l \in Saved : ShownIsServed(l)'
  BY <1>1, <1>2, Shown DEF OfflineInv, ShownIsServed, Kept, Captures
<1> QED
  BY <1>1, <1>2, <1>3, <1>4, <1>5, <1>6, <1>7, PageStep

\* A step of the page that only changes marks other than the one of syncing, and
\* neither saves a record nor shows a capture anew.
LEMMA MarksStep ==
  ASSUME OfflineInv, UNCHANGED <<service, submission, awaited, batch, server, faults>>,
         queue' \in [Saved -> QueueStates],
         \A l \in Saved : /\ queue[l] = "absent" <=> queue'[l] = "absent"
                          /\ queue[l] = "syncing" <=> queue'[l] = "syncing"
                          /\ queue'[l] = "awaiting-approval" => queue[l] = "awaiting-approval"
                          /\ queue'[l] \in {"confirmed", "cleared"} =>
                               queue[l] \in {"confirmed", "cleared"}
  PROVE  OfflineInv'
<1>1. UNCHANGED <<reloads, maxRecords, phase, todo, at, results>>
  BY DEF faults, server
<1>2. ServiceInv' /\ Kept
  BY ServiceFrame
<1>3. ServerInv' /\ AnswersTrue'
  BY <1>2, ServerFrame
<1>4. PageTyped' /\ SyncingIsAwaited'
  BY <1>1 DEF OfflineInv, PageTyped, SyncingIsAwaited
<1>5. BatchComplete'
  BY <1>1 DEF OfflineInv, BatchComplete
<1>6. \A l \in Saved : Mentioned(l)' => Mentioned(l)
  BY <1>1 DEF Mentioned
<1>7. \A l \in Saved : ShownIsServed(l)'
  BY <1>2, Shown DEF OfflineInv, ShownIsServed, Kept, Captures
<1> QED
  BY <1>2, <1>3, <1>4, <1>5, <1>6, <1>7, PageStep

\* The cashier retries a record.
LEMMA RetryRecordStep ==
  ASSUME OfflineInv, NEW l \in Saved, RetryRecord(l)
  PROVE  OfflineInv'
<1>1. /\ queue[l] = "retry-required" /\ queue' = [queue EXCEPT ![l] = "waiting-to-sync"]
      /\ UNCHANGED <<service, submission, awaited, batch, server, faults>>
  BY DEF RetryRecord
<1>2. queue \in [Saved -> QueueStates]
  BY DEF OfflineInv, PageTyped
<1>3. queue' \in [Saved -> QueueStates]
  BY <1>1, <1>2 DEF QueueStates
<1>4. \A m \in Saved : queue'[m] = IF m = l THEN "waiting-to-sync" ELSE queue[m]
  BY <1>1, <1>2
<1> QED
  BY <1>1, <1>3, <1>4, MarksStep

\* The cashier clears what is confirmed.
LEMMA ClearConfirmedStep ==
  ASSUME OfflineInv, ClearConfirmed
  PROVE  OfflineInv'
<1>1. /\ queue' = [l \in Saved |-> IF queue[l] = "confirmed" THEN "cleared" ELSE queue[l]]
      /\ UNCHANGED <<service, submission, awaited, batch, server, faults>>
  BY DEF ClearConfirmed, MarkAll
<1>2. queue \in [Saved -> QueueStates]
  BY DEF OfflineInv, PageTyped
<1>3. queue' \in [Saved -> QueueStates]
  BY <1>1, <1>2 DEF QueueStates
<1> QED
  BY <1>1, <1>3, MarksStep

-----------------------------------------------------------------------------
(* The server. *)

\* A step of the server alone.
LEMMA ServerStep ==
  ASSUME OfflineInv, ServiceInv', Kept, ServerInv', UNCHANGED <<submission, page, faults>>,
         \A l \in Saved, s \in Captures : Told(l, s)' => Told(l, s) \/ Served(l, s)',
         \A l \in Saved : Mentioned(l)' => Mentioned(l),
         \A b \in Calls : awaited = b /\ phase'[b] \notin {"free", "failed"} =>
           \A l \in batch : l \in todo'[b] \/ results'[b][l] # NotYet
  PROVE  OfflineInv'
<1>1. UNCHANGED <<submission, queue, awaited, batch, reloads, maxRecords, page>>
  BY DEF page, faults
<1>2. PageTyped' /\ SyncingIsAwaited' /\ DeviceShowsServerState'
  BY <1>1, PageFrame
<1>3. AnswersTrue' /\ AbsentUntouched'
  BY <1>1, NothingMadeUp, NothingTakenUp
<1>4. BatchComplete'
  BY <1>1 DEF OfflineInv, BatchComplete
<1> QED
  BY <1>2, <1>3, <1>4 DEF OfflineInv

\* A call's record gets its answer; the other calls and the batch are not disturbed.
LEMMA CollectStep ==
  ASSUME OfflineInv, NEW b \in Calls, NEW l \in Saved, NEW result \in Results,
         Collect(b, l, result), phase[b] \in {"next", "waiting", "decided"},
         at[b] \in {l, None} \/ phase[b] = "next",
         attempt' \in [Saved -> Results \cup {NoRow, Unanswered}],
         \A m \in Saved : attempt'[m] = attempt[m] \/ (m = l /\ Owns(b, l) /\ attempt'[m] = result)
  PROVE  /\ ServerInv'
         /\ \A m \in Saved, s \in Captures :
              Told(m, s)' => Told(m, s) \/ (m = l /\ s = result)
         /\ \A m \in Saved : Mentioned(m)' => Mentioned(m) \/ m = l
         /\ \A c \in Calls : awaited = c /\ phase'[c] \notin {"free", "failed"} =>
              \A m \in batch : m \in todo'[c] \/ results'[c][m] # NotYet
<1>1. ServerTyped /\ CallsInOrder /\ OneOwner /\ PageTyped /\ BatchComplete
  BY DEF OfflineInv, ServerInv
<1>2. /\ results' = [results EXCEPT ![b][l] = result]
      /\ todo' = [todo EXCEPT ![b] = @ \ {l}]
      /\ at' = [at EXCEPT ![b] = None]
      /\ verdict' = [verdict EXCEPT ![b] = NotYet]
      /\ phase' = [phase EXCEPT ![b] = "next"]
  BY DEF Collect
<1>3. /\ \A m \in Saved : results'[b][m] = IF m = l THEN result ELSE results[b][m]
      /\ todo'[b] = todo[b] \ {l} /\ at'[b] = None /\ verdict'[b] = NotYet
      /\ phase'[b] = "next"
      /\ \A c \in Calls \ {b} : /\ results'[c] = results[c] /\ todo'[c] = todo[c]
                                 /\ at'[c] = at[c] /\ verdict'[c] = verdict[c]
                                 /\ phase'[c] = phase[c]
  BY <1>1, <1>2 DEF ServerTyped
<1>4. None \notin Saved /\ result # NotYet /\ NotYet \notin Captures
  BY SavedAssumption, RequestsAssumption DEF Results, NotYet, Captures
<1>5. ServerTyped'
  BY <1>1, <1>2 DEF ServerTyped
<1>6. CallsInOrder'
  BY <1>1, <1>3 DEF CallsInOrder
<1>7. OneOwner'
  <2> SUFFICES ASSUME NEW c \in Calls, NEW m \in Saved, Owns(c, m)'
               PROVE  attempt'[m] = Unanswered /\ \A d \in Calls : Owns(d, m)' => d = c
    BY DEF OneOwner
  <2>1. \A d \in Calls, k \in Saved : Owns(d, k)' => d # b /\ Owns(d, k)
    BY <1>3 DEF Owns
  <2>2. c # b /\ Owns(c, m) /\ attempt[m] = Unanswered /\ \A d \in Calls : Owns(d, m) => d = c
    BY <1>1, <2>1 DEF OneOwner
  <2>3. ~Owns(b, m)
    BY <2>2
  <2> QED
    BY <2>1, <2>2, <2>3
<1>8. \A m \in Saved, s \in Captures : Told(m, s)' => Told(m, s) \/ (m = l /\ s = result)
  BY <1>3, <1>4 DEF Told
<1>9. \A m \in Saved : Mentioned(m)' => Mentioned(m) \/ m = l
  BY <1>3, <1>4 DEF Mentioned
<1>10. \A c \in Calls : awaited = c /\ phase'[c] \notin {"free", "failed"} =>
         \A m \in batch : m \in todo'[c] \/ results'[c][m] # NotYet
  <2> SUFFICES ASSUME NEW c \in Calls, awaited = c, phase'[c] \notin {"free", "failed"},
                      NEW m \in batch
               PROVE  m \in todo'[c] \/ results'[c][m] # NotYet
    OBVIOUS
  <2>1. m \in Saved /\ phase[c] \notin {"free", "failed"}
    BY <1>1, <1>3 DEF PageTyped
  <2>2. m \in todo[c] \/ results[c][m] # NotYet
    BY <1>1, <2>1 DEF BatchComplete
  <2> QED
    BY <1>3, <1>4, <2>1, <2>2
<1> QED
  BY <1>5, <1>6, <1>7, <1>8, <1>9, <1>10 DEF ServerInv

\* A call takes up a record: it finds the answer, owns the record or waits for it.
LEMMA TakeStep ==
  ASSUME OfflineInv, NEW b \in Calls, NEW l \in Saved, Take(b, l)
  PROVE  OfflineInv'
<1>1. phase[b] = "next" /\ l \in todo[b] /\ UNCHANGED <<service, submission, page, faults>>
  BY DEF Take, Accepted
<1>2. ServerTyped /\ CallsInOrder /\ OneOwner
  BY DEF OfflineInv, ServerInv
<1>3. ServiceInv' /\ Kept
  BY <1>1, ServiceFrame
<1>4. CASE attempt[l] \in Results
  <2>1. Collect(b, l, attempt[l]) /\ UNCHANGED attempt
    BY <1>4 DEF Take
  <2>2. attempt' \in [Saved -> Results \cup {NoRow, Unanswered}]
    BY <1>2, <2>1 DEF ServerTyped
  <2>3. /\ ServerInv'
        /\ \A m \in Saved, s \in Captures :
             Told(m, s)' => Told(m, s) \/ (m = l /\ s = attempt[l])
        /\ \A m \in Saved : Mentioned(m)' => Mentioned(m) \/ m = l
        /\ \A c \in Calls : awaited = c /\ phase'[c] \notin {"free", "failed"} =>
             \A m \in batch : m \in todo'[c] \/ results'[c][m] # NotYet
    BY <1>1, <1>4, <2>1, <2>2, CollectStep
  <2>4. Mentioned(l) /\ \A s \in Captures : s = attempt[l] => Told(l, s)
    BY <1>1 DEF Mentioned, Told
  <2> QED
    BY <1>1, <1>3, <2>3, <2>4, ServerStep
<1>5. CASE attempt[l] \notin Results
  <2>1. /\ at' = [at EXCEPT ![b] = l]
        /\ phase' = [phase EXCEPT ![b] = IF attempt[l] = NoRow THEN "owner" ELSE "waiting"]
        /\ attempt' = [attempt EXCEPT ![l] = Unanswered]
        /\ UNCHANGED <<todo, verdict, results>>
    BY <1>5 DEF Take, Free
  <2>2. /\ at'[b] = l /\ phase'[b] = IF attempt[l] = NoRow THEN "owner" ELSE "waiting"
        /\ attempt'[l] = Unanswered /\ \A m \in Saved \ {l} : attempt'[m] = attempt[m]
        /\ \A c \in Calls \ {b} : at'[c] = at[c] /\ phase'[c] = phase[c]
    BY <1>2, <2>1 DEF ServerTyped
  <2>3. verdict[b] = NotYet
    BY <1>1, <1>2 DEF CallsInOrder
  <2>4. ServerTyped'
    BY <1>2, <2>1 DEF ServerTyped
  <2>5. CallsInOrder'
    BY <1>2, <2>1, <2>2, <2>3 DEF CallsInOrder
  <2>6. OneOwner'
    <3> SUFFICES ASSUME NEW c \in Calls, NEW m \in Saved, Owns(c, m)'
                 PROVE  attempt'[m] = Unanswered /\ \A d \in Calls : Owns(d, m)' => d = c
      BY DEF OneOwner
    <3>1. \A d \in Calls : Owns(d, m)' =>
             Owns(d, m) \/ (d = b /\ m = l /\ attempt[l] = NoRow)
      BY <2>2 DEF Owns
    <3>2. \A d \in Calls : Owns(d, m) =>
             attempt[m] = Unanswered /\ \A e \in Calls : Owns(e, m) => e = d
      BY <1>2 DEF OneOwner
    <3>3. NoRow # Unanswered
      BY DEF NoRow, Unanswered
    <3> QED
      BY <2>2, <3>1, <3>2, <3>3
  <2>7. \A m \in Saved, s \in Captures : Told(m, s)' => Told(m, s)
    BY <2>1, <2>2, <2>3 DEF Told, Captures, NotYet, Unanswered
  <2>8. \A m \in Saved : Mentioned(m)' => Mentioned(m)
    BY <1>1, <2>1, <2>2 DEF Mentioned
  <2>9. \A c \in Calls : awaited = c /\ phase'[c] \notin {"free", "failed"} =>
          \A m \in batch : m \in todo'[c] \/ results'[c][m] # NotYet
    BY <1>1, <2>1, <2>2 DEF OfflineInv, BatchComplete
  <2> QED
    BY <1>1, <1>3, <2>4, <2>5, <2>6, <2>7, <2>8, <2>9, ServerStep DEF ServerInv
<1> QED
  BY <1>4, <1>5

\* A call stops waiting for another one's answer.
LEMMA WaitStep ==
  ASSUME OfflineInv, NEW b \in Calls, Wait(b)
  PROVE  OfflineInv'
<1>1. ServerTyped /\ CallsInOrder
  BY DEF OfflineInv, ServerInv
<1>2. PICK l \in Saved : phase[b] = "waiting" /\ at[b] = l
  BY <1>1 DEF Wait, CallsInOrder
<1>3. PICK result : result = IF attempt[l] \in Results THEN attempt[l] ELSE "RETRYABLE"
  OBVIOUS
<1>4. Collect(b, l, result) /\ UNCHANGED <<service, submission, page, attempt, faults>>
  BY <1>2, <1>3 DEF Wait
<1>5. result \in Results
  BY <1>3 DEF Results
<1>6. ServiceInv' /\ Kept
  BY <1>4, ServiceFrame
<1>7. attempt' \in [Saved -> Results \cup {NoRow, Unanswered}]
  BY <1>1, <1>4 DEF ServerTyped
<1>8. /\ ServerInv'
      /\ \A m \in Saved, s \in Captures :
           Told(m, s)' => Told(m, s) \/ (m = l /\ s = result)
      /\ \A m \in Saved : Mentioned(m)' => Mentioned(m) \/ m = l
      /\ \A c \in Calls : awaited = c /\ phase'[c] \notin {"free", "failed"} =>
           \A m \in batch : m \in todo'[c] \/ results'[c][m] # NotYet
  BY <1>2, <1>4, <1>5, <1>7, CollectStep
<1>9. Mentioned(l) /\ \A s \in Captures : s = result => Told(l, s)
  BY <1>2, <1>3 DEF Mentioned, Told, Captures
<1> QED
  BY <1>4, <1>6, <1>8, <1>9, ServerStep

\* An owner comes to a verdict on its record.
LEMMA DecideStep ==
  ASSUME OfflineInv, ServiceInv', Kept, NEW b \in Calls, phase[b] = "owner",
         NEW v \in Results, \A s \in Captures : v = s => \A l \in Saved : at[b] = l => Served(l, s)',
         verdict' = [verdict EXCEPT ![b] = v],
         phase' = [phase EXCEPT ![b] = "decided"],
         UNCHANGED <<submission, page, todo, at, results, attempt, faults>>
  PROVE  OfflineInv'
<1>1. ServerTyped /\ CallsInOrder /\ OneOwner
  BY DEF OfflineInv, ServerInv
<1>2. /\ verdict'[b] = v /\ phase'[b] = "decided"
      /\ \A c \in Calls \ {b} : verdict'[c] = verdict[c] /\ phase'[c] = phase[c]
  BY <1>1 DEF ServerTyped
<1>3. ServerTyped'
  BY <1>1 DEF ServerTyped
<1>4. CallsInOrder'
  BY <1>1, <1>2 DEF CallsInOrder, Results, NotYet
<1>5. \A c \in Calls, l \in Saved : Owns(c, l)' <=> Owns(c, l)
  BY <1>2 DEF Owns
<1>6. OneOwner'
  BY <1>1, <1>5 DEF OneOwner
<1>7. \A l \in Saved, s \in Captures : Told(l, s)' => Told(l, s) \/ Served(l, s)'
  BY <1>2 DEF Told
<1>8. \A l \in Saved : Mentioned(l)' => Mentioned(l)
  BY DEF Mentioned
<1>9. \A c \in Calls : awaited = c /\ phase'[c] \notin {"free", "failed"} =>
        \A l \in batch : l \in todo'[c] \/ results'[c][l] # NotYet
  BY <1>2 DEF OfflineInv, BatchComplete
<1> QED
  BY <1>3, <1>4, <1>6, <1>7, <1>8, <1>9, ServerStep DEF ServerInv

\* validateRecord refuses the record.
LEMMA InvalidStep ==
  ASSUME OfflineInv, NEW b \in Calls, Invalid(b)
  PROVE  OfflineInv'
<1>1. ServiceInv' /\ Kept
  BY ServiceFrame DEF Invalid
<1>2. "REJECTED" \in Results /\ "REJECTED" \notin Captures
  BY DEF Results, Captures
<1> QED
  BY <1>1, <1>2, DecideStep DEF Invalid

\* The record is run against the earn service; a capture becomes the verdict as it is.
LEMMA EarnRecordStep ==
  ASSUME OfflineInv, NEW b \in Calls, EarnRecord(b)
  PROVE  OfflineInv'
<1>1. PICK l \in Saved : phase[b] = "owner" /\ at[b] = l
  BY DEF OfflineInv, ServerInv, CallsInOrder, EarnRecord
<1>2. l \in Requests
  BY SavedAssumption
<1>3. /\ EarnCall(l) /\ phase' = [phase EXCEPT ![b] = "decided"]
      /\ UNCHANGED <<submission, page, todo, at, results, attempt, faults>>
  BY <1>1 DEF EarnRecord
<1>4. PICK v \in IF reply'[l] \in Captures THEN {reply'[l]} ELSE MapEarnFailure(reply'[l]) :
        verdict' = [verdict EXCEPT ![b] = v]
  BY <1>1 DEF EarnRecord
<1>5. /\ ServiceInv' /\ Kept
      /\ \A s \in Captures : reply'[l] = s => Served(l, s)'
  BY <1>2, <1>3, EarnCallStep DEF OfflineInv
<1>6. MapEarnFailure(reply'[l]) \subseteq {"REJECTED", "RETRYABLE"}
  BY DEF MapEarnFailure
<1>7. v \in Results /\ (v \in Captures => v = reply'[l])
  <2>1. CASE reply'[l] \in Captures
    BY <1>4, <2>1 DEF Results, Captures
  <2>2. CASE reply'[l] \notin Captures
    BY <1>4, <1>6, <2>2 DEF Results, Captures
  <2> QED
    BY <2>1, <2>2
<1>8. \A s \in Captures : v = s => \A m \in Saved : at[b] = m => Served(m, s)'
  BY <1>1, <1>5, <1>7
<1> QED
  BY <1>1, <1>3, <1>4, <1>5, <1>7, <1>8, DecideStep

\* The verdict is stored in the attempt row and collected.
LEMMA PersistResultStep ==
  ASSUME OfflineInv, NEW b \in Calls, PersistResult(b)
  PROVE  OfflineInv'
<1>1. ServerTyped /\ CallsInOrder
  BY DEF OfflineInv, ServerInv
<1>2. PICK l \in Saved : phase[b] = "decided" /\ at[b] = l
  BY <1>1 DEF PersistResult, CallsInOrder
<1>3. PICK result \in Results : result = verdict[b]
  BY <1>1, <1>2 DEF CallsInOrder, ServerTyped
<1>4. /\ attempt' = [attempt EXCEPT ![l] = result] /\ Collect(b, l, result)
      /\ UNCHANGED <<service, submission, page, faults>>
  BY <1>2, <1>3 DEF PersistResult
<1>5. ServiceInv' /\ Kept
  BY <1>4, ServiceFrame
<1>6. attempt' \in [Saved -> Results \cup {NoRow, Unanswered}]
  BY <1>1, <1>4 DEF ServerTyped
<1>7. \A m \in Saved : attempt'[m] = attempt[m]
                      \/ (m = l /\ Owns(b, l) /\ attempt'[m] = result)
  BY <1>1, <1>2, <1>4 DEF ServerTyped, Owns
<1>8. /\ ServerInv'
      /\ \A m \in Saved, s \in Captures :
           Told(m, s)' => Told(m, s) \/ (m = l /\ s = result)
      /\ \A m \in Saved : Mentioned(m)' => Mentioned(m) \/ m = l
      /\ \A c \in Calls : awaited = c /\ phase'[c] \notin {"free", "failed"} =>
           \A m \in batch : m \in todo'[c] \/ results'[c][m] # NotYet
  BY <1>2, <1>4, <1>6, <1>7, CollectStep
<1>9. Mentioned(l) /\ \A s \in Captures : s = result => Told(l, s)
  BY <1>2, <1>3 DEF Mentioned, Told
<1> QED
  BY <1>4, <1>5, <1>8, <1>9, ServerStep

\* The batch is too large, or answered.
LEMMA EndStep ==
  ASSUME OfflineInv, NEW b \in Calls, TooLarge(b) \/ Respond(b)
  PROVE  OfflineInv'
<1>1. ServerTyped /\ CallsInOrder /\ OneOwner
  BY DEF OfflineInv, ServerInv
<1>2. PICK end \in {"failed", "done"} :
        /\ phase[b] = "next" /\ phase' = [phase EXCEPT ![b] = end]
        /\ end = "done" => todo[b] = {}
        /\ UNCHANGED <<service, submission, page, todo, at, verdict, results, attempt, faults>>
  BY DEF TooLarge, Respond
<1>3. phase'[b] = end /\ \A c \in Calls \ {b} : phase'[c] = phase[c]
  BY <1>1, <1>2 DEF ServerTyped
<1>4. ServiceInv' /\ Kept
  BY <1>2, ServiceFrame
<1>5. ServerTyped'
  BY <1>1, <1>2 DEF ServerTyped
<1>6. CallsInOrder'
  BY <1>1, <1>2, <1>3 DEF CallsInOrder
<1>7. \A c \in Calls, l \in Saved : Owns(c, l)' => Owns(c, l)
  BY <1>2, <1>3 DEF Owns
<1>8. OneOwner'
  BY <1>1, <1>2, <1>7 DEF OneOwner
<1>9. /\ \A l \in Saved, s \in Captures : Told(l, s)' => Told(l, s)
      /\ \A l \in Saved : Mentioned(l)' => Mentioned(l)
  BY <1>2 DEF Told, Mentioned
<1>10. \A c \in Calls : awaited = c /\ phase'[c] \notin {"free", "failed"} =>
         \A l \in batch : l \in todo'[c] \/ results'[c][l] # NotYet
  BY <1>2, <1>3 DEF OfflineInv, BatchComplete
<1> QED
  BY <1>2, <1>4, <1>5, <1>6, <1>8, <1>9, <1>10, ServerStep DEF ServerInv

\* An answer nobody waits for is dropped.
LEMMA DiscardStep ==
  ASSUME OfflineInv, NEW b \in Calls, Discard(b)
  PROVE  OfflineInv'
<1>1. /\ phase[b] \in {"done", "failed"} /\ awaited # b /\ Close(b)
      /\ UNCHANGED <<service, submission, page, faults>>
  BY DEF Discard
<1>2. ServiceInv' /\ Kept
  BY <1>1, ServiceFrame
<1>3. ServerInv' /\ AnswersTrue' /\ \A l \in Saved : Mentioned(l)' => Mentioned(l)
  BY <1>1, <1>2, CloseStep
<1>4. \A c \in Calls \ {b} : phase'[c] = phase[c] /\ todo'[c] = todo[c]
                              /\ results'[c] = results[c]
  BY <1>1 DEF OfflineInv, ServerInv, ServerTyped, Close
<1>5. \A c \in Calls : awaited = c /\ phase'[c] \notin {"free", "failed"} =>
        \A l \in batch : l \in todo'[c] \/ results'[c][l] # NotYet
  BY <1>1, <1>4 DEF OfflineInv, BatchComplete
<1>6. \A l \in Saved, s \in Captures : Told(l, s)' => Served(l, s)'
  BY <1>3 DEF AnswersTrue
<1> QED
  BY <1>1, <1>2, <1>3, <1>5, <1>6, ServerStep

\* The server dies: no call owns anything any more, what was stored stays.
LEMMA CrashStep ==
  ASSUME OfflineInv, CrashServer
  PROVE  OfflineInv'
<1>1. ServerTyped /\ CallsInOrder /\ OneOwner
  BY DEF OfflineInv, ServerInv
<1>2. /\ phase' = [b \in Calls |-> IF phase[b] \notin {"free", "failed"} THEN "failed" ELSE phase[b]]
      /\ todo' = [b \in Calls |-> IF phase[b] \notin {"free", "failed"} THEN {} ELSE todo[b]]
      /\ at' = [b \in Calls |-> None]
      /\ verdict' = [b \in Calls |-> NotYet]
      /\ results' = [b \in Calls |-> NoResults]
      /\ UNCHANGED <<service, submission, page, attempt, reloads, maxRecords>>
  BY DEF CrashServer
<1>3. \A b \in Calls : phase'[b] \in {"free", "failed"}
  BY <1>2
<1>4. None \notin Saved /\ NoResults \in [Saved -> Results \cup {NotYet}]
      /\ \A l \in Saved : NoResults[l] = NotYet
  BY SavedAssumption, RequestsAssumption DEF NoResults
<1>5. ServiceInv' /\ Kept
  BY <1>2, ServiceFrame
<1>6. ServerTyped'
  BY <1>1, <1>2, <1>4 DEF ServerTyped
<1>7. CallsInOrder' /\ OneOwner'
  BY <1>2, <1>3 DEF CallsInOrder, OneOwner, Owns
<1>8. \A l \in Saved, s \in Captures : Told(l, s)' => Told(l, s)
  BY <1>2, <1>4 DEF Told, Captures, NotYet
<1>9. AnswersTrue'
  BY <1>5, <1>8, NothingMadeUp
<1>10. UNCHANGED <<submission, queue, awaited, batch>>
  BY <1>2 DEF page
<1>11. \A l \in Saved : Mentioned(l)' => Mentioned(l)
  BY <1>2, <1>4 DEF Mentioned
<1>12. AbsentUntouched'
  BY <1>10, <1>11, NothingTakenUp
<1>13. BatchComplete'
  BY <1>3, <1>10 DEF OfflineInv, BatchComplete
<1>14. PageTyped' /\ SyncingIsAwaited' /\ DeviceShowsServerState'
  BY <1>2, <1>5, PageFrame
<1> QED
  BY <1>5, <1>6, <1>7, <1>9, <1>12, <1>13, <1>14 DEF OfflineInv, ServerInv

-----------------------------------------------------------------------------
(* The theorems. *)

\* Nothing has happened yet.
LEMMA InitOffline == Init => OfflineInv
<1> SUFFICES ASSUME Init PROVE OfflineInv
  OBVIOUS
<1>1. /\ outcome = [q \in Requests |-> NotYet] /\ record = [k \in Keys |-> None]
      /\ reply = [q \in Requests |-> NotYet]
  BY DEF Init, Earn!Init, Earn!NotYet, NotYet
<1>2. ServiceInv
  BY <1>1 DEF ServiceInv
<1>3. PageTyped /\ SyncingIsAwaited
  BY DEF Init, PageTyped, SyncingIsAwaited, QueueStates
<1>4. \A l \in Saved : NoResults[l] = NotYet
  BY DEF NoResults
<1>5. ServerTyped
  BY DEF Init, ServerTyped, NoResults
<1>6. CallsInOrder /\ OneOwner
  BY DEF Init, CallsInOrder, OneOwner, Owns
<1>7. AnswersTrue
  BY <1>4 DEF Init, AnswersTrue, Told, Captures, NotYet, NoRow
<1>8. AbsentUntouched
  <2>1. None \notin Saved /\ \A q \in Online : SavedAs[q] \in Saved
    BY SavedAssumption, RequestsAssumption
  <2> QED
    BY <1>4, <2>1 DEF Init, AbsentUntouched, Mentioned
<1>9. BatchComplete
  BY DEF Init, BatchComplete
<1>10. DeviceShowsServerState
  BY DEF Init, DeviceShowsServerState
<1> QED
  BY <1>2, <1>3, <1>5, <1>6, <1>7, <1>8, <1>9, <1>10 DEF OfflineInv, ServerInv

\* Every step of the page, the server, the service and the network preserves the
\* invariant.
LEMMA NextOffline == OfflineInv /\ [Next]_vars => OfflineInv'
<1> SUFFICES ASSUME OfflineInv, [Next]_vars PROVE OfflineInv'
  OBVIOUS
<1>1. ASSUME NEW q \in Online, Submit(q) \/ EarnOnline(q) \/ SeeAnswer(q) \/ SaveOffline(q)
      PROVE  OfflineInv'
  BY <1>1, SubmitStep, EarnOnlineStep, SeeAnswerStep, SaveOfflineStep
<1>2. ASSUME NEW b \in Calls,
             SyncBatch(b) \/ ApplyResults(b) \/ CallFailed(b) \/ ConnectionLost(b)
      PROVE  OfflineInv'
  BY <1>2, SyncBatchStep, ApplyResultsStep, CallFailedStep, ConnectionLostStep
<1>3. ASSUME NEW b \in Calls, Work(b)
      PROVE  OfflineInv'
  BY <1>3, EndStep, TakeStep, WaitStep, InvalidStep, EarnRecordStep, PersistResultStep,
     DiscardStep DEF Work
<1>4. ASSUME NEW l \in Saved, RetryRecord(l) PROVE OfflineInv'
  BY <1>4, RetryRecordStep
<1>5. ASSUME NEW r \in Receipts, SettleElsewhere(r) PROVE OfflineInv'
  BY <1>5, SettleElsewhereStep
<1>6. ASSUME NEW k \in Keys, ForgetKey(k) PROVE OfflineInv'
  BY <1>6, ForgetKeyStep
<1>7. CASE ClearConfirmed \/ Reload \/ CrashServer
  BY <1>7, ClearConfirmedStep, ReloadStep, CrashStep
<1>8. CASE UNCHANGED vars
  <2>1. UNCHANGED <<service, submission, page, server, faults>>
    BY <1>8 DEF vars
  <2>2. ServiceInv' /\ Kept
    BY <2>1, ServiceFrame
  <2>3. ServerInv' /\ AnswersTrue'
    BY <2>1, <2>2, ServerFrame
  <2>4. UNCHANGED <<submission, page, reloads, maxRecords>>
    BY <2>1 DEF faults
  <2>5. PageTyped' /\ SyncingIsAwaited' /\ DeviceShowsServerState'
    BY <2>2, <2>4, PageFrame
  <2>6. AbsentUntouched' /\ BatchComplete'
    BY <2>1 DEF OfflineInv, AbsentUntouched, Mentioned, BatchComplete, page, server
  <2> QED
    BY <2>2, <2>3, <2>5, <2>6 DEF OfflineInv
<1> QED
  BY <1>1, <1>2, <1>3, <1>4, <1>5, <1>6, <1>7, <1>8 DEF Next

\* The invariant holds throughout.
THEOREM OfflineInvariant == Spec => []OfflineInv
<1>1. Init => OfflineInv
  BY InitOffline
<1>2. OfflineInv /\ [Next]_vars => OfflineInv'
  BY NextOffline
<1> QED
  BY <1>1, <1>2, PTL DEF Spec

\* The queue, the page and the attempts keep their types: in particular what is stored
\* as a record's answer is an answer.
THEOREM OfflineTyped == Spec => []TypeOK
<1>1. OfflineInv => TypeOK
  BY DEF OfflineInv, PageTyped, ServerInv, ServerTyped, TypeOK
<1> QED
  BY <1>1, OfflineInvariant, PTL

\* The device shows a purchase as confirmed, cleared or awaiting approval only when the
\* server holds it so, for any number of lost answers, reloads, crashes and overlapping
\* calls of earnBatch.
THEOREM DeviceTellsTheTruth == Spec => []DeviceShowsServerState
<1>1. OfflineInv => DeviceShowsServerState
  BY DEF OfflineInv
<1> QED
  BY <1>1, OfflineInvariant, PTL

\* What the page shows as syncing is in the call it waits for, unless it was reloaded.
THEOREM NothingLeftSyncing == Spec => []SyncingIsAwaited
<1>1. OfflineInv => SyncingIsAwaited
  BY DEF OfflineInv
<1> QED
  BY <1>1, OfflineInvariant, PTL

\* persistResult never overwrites an answer: the owner of a record is the only one, so
\* the row it writes has none yet.
THEOREM AnswersStay == Spec => AnswersAreFinal
<1>1. ASSUME OfflineInv, [Next]_vars, NEW l \in Saved, attempt[l] \in Results
      PROVE  attempt'[l] = attempt[l]
  <2>1. attempt \in [Saved -> Results \cup {NoRow, Unanswered}] /\ OneOwner /\ CallsInOrder
    BY <1>1 DEF OfflineInv, ServerInv, ServerTyped
  <2>2. ASSUME NEW b \in Calls, NEW m \in Saved, Take(b, m) PROVE attempt'[l] = attempt[l]
    BY <1>1, <2>1, <2>2 DEF Take
  <2>3. ASSUME NEW b \in Calls, PersistResult(b) PROVE attempt'[l] = attempt[l]
    <3>1. at[b] \in Saved /\ Owns(b, at[b]) /\ attempt' = [attempt EXCEPT ![at[b]] = verdict[b]]
      BY <2>1, <2>3 DEF PersistResult, CallsInOrder, Owns
    <3>2. attempt[at[b]] = Unanswered
      BY <2>1, <3>1 DEF OneOwner
    <3>3. l # at[b]
      BY <1>1, <3>2 DEF Results, Unanswered
    <3> QED
      BY <2>1, <3>1, <3>3
  <2>4. CASE UNCHANGED attempt
    BY <2>4
  <2>5. ASSUME NEW b \in Calls, Work(b) PROVE attempt'[l] = attempt[l]
    BY <2>2, <2>3, <2>4, <2>5
       DEF Work, TooLarge, Wait, Invalid, EarnRecord, Respond, Discard, Close
  <2>6. ASSUME NEW b \in Calls,
               SyncBatch(b) \/ ApplyResults(b) \/ CallFailed(b) \/ ConnectionLost(b)
        PROVE  UNCHANGED attempt
    BY <2>6 DEF SyncBatch, ApplyResults, CallFailed, ConnectionLost, Close, server
  <2>7. ASSUME NEW q \in Online,
               Submit(q) \/ EarnOnline(q) \/ SeeAnswer(q) \/ SaveOffline(q)
        PROVE  UNCHANGED attempt
    BY <2>7 DEF Submit, EarnOnline, SeeAnswer, SaveOffline, server
  <2>8. ASSUME \/ \E m \in Saved : RetryRecord(m)
               \/ ClearConfirmed \/ Reload \/ CrashServer
               \/ \E r \in Receipts : SettleElsewhere(r)
               \/ \E k \in Keys : ForgetKey(k)
               \/ UNCHANGED vars
        PROVE  UNCHANGED attempt
    BY <2>8 DEF RetryRecord, ClearConfirmed, Reload, CrashServer, SettleElsewhere, ForgetKey,
       vars, server
  <2> QED
    BY <1>1, <2>4, <2>5, <2>6, <2>7, <2>8 DEF Next
<1>2. OfflineInv /\ [Next]_vars =>
        [\A l \in Saved : attempt[l] \in Results => attempt'[l] = attempt[l]]_vars
  BY <1>1
<1> QED
  BY <1>2, OfflineInvariant, PTL DEF Spec, AnswersAreFinal
-----------------------------------------------------------------------------
(* The queue in front of the earn service. *)

\* A step of the browser, of the network or of the server's own bookkeeping leaves the
\* earn service alone; the rest are steps the service itself allows.
LEMMA ServiceStep == OfflineInv /\ [Next]_vars => [Earn!Next]_(Earn!vars)
<1> SUFFICES ASSUME OfflineInv, [Next]_vars
             PROVE  Earn!Next \/ UNCHANGED Earn!vars
  OBVIOUS
<1>1. ASSUME UNCHANGED service PROVE UNCHANGED Earn!vars
  BY <1>1 DEF service, Earn!vars
<1>2. ASSUME NEW q \in Requests, EarnCall(q) PROVE Earn!Next
  BY <1>2 DEF EarnCall, Earn!Next, Earn!Captures, Captures, Earn!Refusals, Refusals
<1>3. ASSUME NEW q \in Online,
             Submit(q) \/ EarnOnline(q) \/ SeeAnswer(q) \/ SaveOffline(q)
      PROVE  Earn!Next \/ UNCHANGED Earn!vars
  <2>1. q \in Requests
    BY DEF Online
  <2>2. CASE EarnOnline(q)
    BY <1>2, <2>1, <2>2 DEF EarnOnline
  <2>3. CASE Submit(q) \/ SeeAnswer(q) \/ SaveOffline(q)
    BY <1>1, <2>3 DEF Submit, SeeAnswer, SaveOffline
  <2> QED
    BY <1>3, <2>2, <2>3
<1>4. ASSUME NEW b \in Calls,
             SyncBatch(b) \/ ApplyResults(b) \/ CallFailed(b) \/ ConnectionLost(b)
      PROVE  UNCHANGED Earn!vars
  BY <1>1, <1>4 DEF SyncBatch, ApplyResults, CallFailed, ConnectionLost
<1>5. ASSUME NEW b \in Calls, Work(b) PROVE Earn!Next \/ UNCHANGED Earn!vars
  <2>1. CASE EarnRecord(b)
    <3>1. at[b] \in Requests /\ EarnCall(at[b])
      BY <2>1, SavedAssumption DEF OfflineInv, ServerInv, CallsInOrder, EarnRecord
    <3> QED
      BY <1>2, <3>1
  <2>2. CASE \E l \in Saved : Take(b, l)
    BY <1>1, <2>2 DEF Take
  <2>3. CASE TooLarge(b) \/ Wait(b) \/ Invalid(b) \/ PersistResult(b) \/ Respond(b) \/ Discard(b)
    BY <1>1, <2>3 DEF TooLarge, Wait, Invalid, PersistResult, Respond, Discard
  <2> QED
    BY <1>5, <2>1, <2>2, <2>3 DEF Work
<1>6. ASSUME (\E l \in Saved : RetryRecord(l)) \/ ClearConfirmed \/ Reload \/ CrashServer
      PROVE  UNCHANGED Earn!vars
  BY <1>1, <1>6 DEF RetryRecord, ClearConfirmed, Reload, CrashServer
<1>7. ASSUME NEW r \in Receipts, SettleElsewhere(r) PROVE Earn!Next
  BY <1>7 DEF SettleElsewhere, Earn!Next
<1>8. ASSUME NEW k \in Keys, ForgetKey(k) PROVE Earn!Next
  BY <1>8 DEF ForgetKey, Earn!Next
<1>9. CASE UNCHANGED vars
  BY <1>1, <1>9 DEF vars
<1> QED
  BY <1>3, <1>4, <1>5, <1>6, <1>7, <1>8, <1>9 DEF Next

\* However purchases reach it, online, saved and synced later, or both, the earn service
\* sees only what EarnService allows: queue, batches, retries and crashes add no way to
\* capture a receipt.
THEOREM SyncGoesThroughEarn == Spec => Earn!Spec
<1>1. Init => Earn!Init
  BY DEF Init
<1>2. OfflineInv /\ [Next]_vars => [Earn!Next]_(Earn!vars)
  BY ServiceStep
<1> QED
  BY <1>1, <1>2, OfflineInvariant, PTL DEF Spec, Earn!Spec

\* A receipt is used once: by one request's capture or by a redemption.
UsedOnce ==
  \A p \in Requests : outcome[p] # NotYet =>
    /\ Receipt(p) \notin elsewhere
    /\ \A q \in Requests : outcome[q] # NotYet /\ SameReceipt(p, q) => p = q

\* A capture and a redemption take a receipt only while it is unused.
LEMMA UsedOnceStep ==
  ASSUME ServiceInv, UsedOnce, [Earn!Next]_(Earn!vars)
  PROVE  UsedOnce'
<1>1. CASE UNCHANGED <<outcome, elsewhere>>
  BY <1>1 DEF UsedOnce
<1>2. ASSUME NEW q \in Requests, NEW a \in Captures, Earn!Capture(q, a)
      PROVE  UsedOnce'
  <2>1. /\ Receipt(q) \notin elsewhere /\ elsewhere' = elsewhere
        /\ \A p \in Requests : outcome[p] # NotYet => Receipt(p) # Receipt(q)
        /\ outcome' = [outcome EXCEPT ![q] = a]
    BY <1>2 DEF Earn!Capture, Earn!Used, Earn!Captured, Earn!NotYet, NotYet, Earn!Receipt, Receipt
  <2>2. \A p \in Requests : p # q => outcome'[p] = outcome[p]
    BY <2>1 DEF ServiceInv
  <2> QED
    BY <2>1, <2>2 DEF UsedOnce, SameReceipt
<1>3. ASSUME NEW r \in Receipts, Earn!SettleElsewhere(r) PROVE UsedOnce'
  <2>1. /\ elsewhere' = elsewhere \cup {r} /\ outcome' = outcome
        /\ \A p \in Requests : outcome[p] # NotYet => Receipt(p) # r
    BY <1>3 DEF Earn!SettleElsewhere, Earn!Used, Earn!Captured, Earn!NotYet, NotYet,
                Earn!Receipt, Receipt
  <2> QED
    BY <2>1 DEF UsedOnce
<1>4. CASE UNCHANGED Earn!vars
  BY <1>1, <1>4 DEF Earn!vars
<1>5. ASSUME NEW q \in Requests,
             Earn!Replay(q) \/ \E a \in Earn!Refusals : Earn!Refuse(q, a)
      PROVE  UsedOnce'
  BY <1>1, <1>5 DEF Earn!Replay, Earn!Refuse
<1>6. ASSUME NEW k \in Keys, Earn!Forget(k) PROVE UsedOnce'
  BY <1>1, <1>6 DEF Earn!Forget
<1> QED
  BY <1>2, <1>3, <1>4, <1>5, <1>6 DEF Earn!Next, Earn!Captures, Captures

\* What the device shows as confirmed, cleared or awaiting approval was captured exactly
\* once, with that outcome: one request holds the record's receipt, it carries the record's
\* key and body, and no redemption used the receipt.
ShownIsCapturedOnce ==
  \A l \in Saved, s \in Captures :
    queue[l] \in (IF s = "CONFIRMED" THEN {"confirmed", "cleared"} ELSE {"awaiting-approval"})
    => /\ Receipt(l) \notin elsewhere
       /\ \E p \in Requests :
            /\ outcome[p] = s /\ SameKey(p, l) /\ SamePayload(p, l)
            /\ \A q \in Requests : outcome[q] # NotYet /\ SameReceipt(q, l) => q = p

\* End to end, from the browser's queue to the receipt row: a purchase that was tried
\* online, saved, sent in overlapping batches, retried and cleared from the device is on
\* the server once.
THEOREM ShownPurchasesCapturedOnce == Spec => []ShownIsCapturedOnce
<1>1. Init => UsedOnce
  BY DEF Init, Earn!Init, UsedOnce, Earn!NotYet, NotYet
<1>2. UsedOnce /\ OfflineInv /\ [Next]_vars => UsedOnce'
  BY ServiceStep, UsedOnceStep DEF OfflineInv
<1>3. OfflineInv /\ UsedOnce => ShownIsCapturedOnce
  <2> SUFFICES ASSUME OfflineInv, UsedOnce, NEW l \in Saved, NEW s \in Captures,
                      queue[l] \in (IF s = "CONFIRMED" THEN {"confirmed", "cleared"}
                                    ELSE {"awaiting-approval"})
               PROVE  /\ Receipt(l) \notin elsewhere
                      /\ \E p \in Requests :
                           /\ outcome[p] = s /\ SameKey(p, l) /\ SamePayload(p, l)
                           /\ \A q \in Requests :
                                outcome[q] # NotYet /\ SameReceipt(q, l) => q = p
    BY DEF ShownIsCapturedOnce
  <2>1. PICK p \in Requests : SameKey(p, l) /\ SamePayload(p, l) /\ outcome[p] = s
    BY DEF OfflineInv, DeviceShowsServerState
  <2>2. Receipt(p) = Receipt(l) /\ outcome[p] # NotYet
    BY <2>1 DEF SamePayload, Receipt, Captures, NotYet
  <2>3. Receipt(l) \notin elsewhere
    BY <2>2 DEF UsedOnce
  <2>4. \A q \in Requests : outcome[q] # NotYet /\ SameReceipt(q, l) => q = p
    BY <2>2 DEF UsedOnce, SameReceipt
  <2> QED
    BY <2>1, <2>3, <2>4
<1> QED
  BY <1>1, <1>2, <1>3, OfflineInvariant, PTL DEF Spec
=============================================================================
