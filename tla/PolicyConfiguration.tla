------------------------ MODULE PolicyConfiguration ------------------------
(***************************************************************************)
(* ConfigurationService: administrators who edit a branch policy under a     *)
(* version check, and the public configuration one server process caches,     *)
(* refreshes once for all who ask, and clears after an update.  Every await   *)
(* is a point where the others run.                                           *)
(***************************************************************************)
EXTENDS Naturals, Sequences

CONSTANTS
  Editors, Readers,
  MaxSaves,                  \* updates of the policy explored
  MaxOutages,                \* failures of the database explored
  Unavailable, SystemError,  \* the answers 503 and 500
  Nothing

ASSUME ConfigurationAssumption ==
  /\ MaxSaves \in Nat /\ MaxOutages \in Nat
  /\ {Unavailable, SystemError, Nothing} \cap Nat = {}
  /\ Nothing \notin Readers

VARIABLES
  saved,    \* the updates committed to the branch's row: who, and from which version
  editor,   \* an administrator: where the request stands, the version on the screen
  active,   \* tenant and branch are ACTIVE
  cache,    \* publicConfigCache: the policy version it holds, and its age
  refresh,  \* publicConfigRefresh: the reader whose load the others wait for
  reader,   \* a request for the public configuration
  answer,   \* what the reader got: a version, or an error
  outages   \* failures of the database so far

configVars == <<saved, editor, active, cache, refresh, reader, answer, outages>>
publicly == <<cache, refresh, reader, answer>>

Version == Len(saved)
Ages == {"fresh", "stale", "old"}   \* under 5 minutes, under 30, older
Empty == [version |-> Nothing, age |-> "old"]
Errors == {Unavailable, SystemError}

ConfigInit == /\ saved = <<>>
              /\ editor = [a \in Editors |-> [at |-> "away", base |-> 0]]
              /\ active = TRUE
              /\ cache = Empty
              /\ refresh = Nothing
              /\ reader = [g \in Readers |-> [at |-> "idle", saw |-> Nothing]]
              /\ answer = [g \in Readers |-> Nothing]
              /\ outages = 0

-----------------------------------------------------------------------------
(* updatePolicyConfiguration.                                                    *)

EditorMoves(a, from, to) == editor[a].at = from /\ editor' = [editor EXCEPT ![a].at = to]

\* The administrator loads the policy, also after a conflict, and sends it back
\* changed some time later.
LoadPolicy(a) == /\ editor[a].at \in {"away", "conflict", "error"}
                 /\ Version < MaxSaves
                 /\ editor' = [editor EXCEPT ![a] = [at |-> "editing", base |-> Version]]
                 /\ UNCHANGED <<saved, active, publicly, outages>>

\* The transaction compares the version it reads with the one the editor saw.
ReadCurrent(a) ==
  /\ IF Version = editor[a].base THEN EditorMoves(a, "editing", "writing")
     ELSE EditorMoves(a, "editing", "conflict")
  /\ UNCHANGED <<saved, active, publicly, outages>>

\* The write: of a first row, which the unique index lets one editor create, or an
\* UPDATE that looks for the version once more under the row's lock.
\* Fault: the UPDATE does not name the version.
UpdatesAnyVersion(a) == editor[a].base = 0 => Version = 0
StillCurrent(a) == Version = editor[a].base

Save(a) ==
  /\ editor[a].at = "writing"
  /\ \/ /\ StillCurrent(a)
        /\ saved' = Append(saved, [by |-> a, base |-> editor[a].base])
        /\ EditorMoves(a, "writing", "saved")
     \/ /\ ~StillCurrent(a)
        /\ EditorMoves(a, "writing", IF editor[a].base = 0 THEN "error" ELSE "conflict")
        /\ UNCHANGED saved
  /\ UNCHANGED <<active, publicly, outages>>

\* The line after the transaction, then the answer.
Invalidate(a) == /\ EditorMoves(a, "saved", "away")
                 /\ cache' = Empty
                 /\ UNCHANGED <<saved, active, refresh, reader, answer, outages>>

-----------------------------------------------------------------------------
(* getPublicConfig. *)

\* Fault: a cached value is served for ever.
FreshForEver(age) == TRUE
Fresh(age) == age = "fresh"

ReaderMoves(g, from, to) == reader[g].at = from /\ reader' = [reader EXCEPT ![g].at = to]
Tell(g, v) == answer' = [answer EXCEPT ![g] = v]

\* Whoever finds no usable value waits for the load under way or starts one.
\* Fault: everyone loads.
LoadAlone(g, from) == /\ ReaderMoves(g, from, "loading")
                      /\ refresh' = g
JoinOrLoad(g, from) ==
  \/ /\ refresh # Nothing
     /\ ReaderMoves(g, from, "joined")
     /\ UNCHANGED refresh
  \/ /\ refresh = Nothing
     /\ ReaderMoves(g, from, "loading")
     /\ refresh' = g

Ask(g) ==
  /\ \/ /\ cache.version # Nothing /\ Fresh(cache.age)
        /\ ReaderMoves(g, "idle", "verifying")
        /\ UNCHANGED refresh
     \/ /\ ~(cache.version # Nothing /\ Fresh(cache.age))
        /\ JoinOrLoad(g, "idle")
  /\ UNCHANGED <<saved, editor, active, cache, answer, outages>>

\* isCachedConfigActive: the database is asked, and the cache is looked at again
\* when the answer arrives.
Verify(g) == /\ ReaderMoves(g, "verifying", IF active THEN "confirmed" ELSE "denied")
             /\ UNCHANGED <<saved, editor, active, cache, refresh, answer, outages>>

AfterVerify(g) ==
  /\ \/ /\ ReaderMoves(g, "confirmed", "idle")
        /\ Tell(g, IF cache.version = Nothing THEN SystemError ELSE cache.version)
        /\ UNCHANGED <<cache, refresh>>
     \/ /\ JoinOrLoad(g, "denied")
        /\ cache' = Empty
        /\ UNCHANGED answer
  /\ UNCHANGED <<saved, editor, active, outages>>

\* loadConfig reads tenant, branch and policy.
Load(g) == /\ reader[g].at = "loading"
           /\ reader' = [reader EXCEPT ![g] = [at |-> "loaded",
                                               saw |-> IF active THEN Version ELSE Nothing]]
           /\ UNCHANGED <<saved, editor, active, cache, refresh, answer, outages>>

\* The promise settles for the one who loaded and for all who joined.
Settle(g, all, alone) ==
  /\ refresh' = Nothing
  /\ reader' = [h \in Readers |-> IF h = g \/ reader[h].at = "joined"
                                  THEN [at |-> "idle", saw |-> Nothing] ELSE reader[h]]
  /\ answer' = [h \in Readers |-> IF h = g THEN alone
                                  ELSE IF reader[h].at = "joined" THEN all ELSE answer[h]]
  /\ UNCHANGED <<saved, editor, active>>

Finish(g) ==
  /\ reader[g].at = "loaded"
  /\ \/ /\ reader[g].saw # Nothing
        /\ cache' = [version |-> reader[g].saw, age |-> "fresh"]
        /\ Settle(g, reader[g].saw, reader[g].saw)
     \/ /\ reader[g].saw = Nothing
        /\ Settle(g, Unavailable, Unavailable)
        /\ UNCHANGED cache
  /\ UNCHANGED outages

\* The database fails: the one who loaded falls back on a value under 30 minutes
\* old, the others get the error.
LoadFails(g) ==
  /\ reader[g].at = "loading" /\ outages < MaxOutages
  /\ outages' = outages + 1
  /\ Settle(g, SystemError, IF cache.version # Nothing /\ cache.age # "old" THEN cache.version
                               ELSE SystemError)
  /\ UNCHANGED cache

-----------------------------------------------------------------------------
(* Time, and the administration of the tenant. *)

Age == /\ cache.version # Nothing /\ cache.age # "old"
       /\ cache' = [cache EXCEPT !.age = IF @ = "fresh" THEN "stale" ELSE "old"]
       /\ UNCHANGED <<saved, editor, active, refresh, reader, answer, outages>>

ChangeStatus == /\ active' = ~active
                /\ UNCHANGED <<saved, editor, publicly, outages>>

Edit(a) == ReadCurrent(a) \/ Save(a) \/ Invalidate(a)
Serve(g) == Verify(g) \/ AfterVerify(g) \/ Load(g) \/ Finish(g)

ConfigNext == \/ \E a \in Editors : LoadPolicy(a) \/ Edit(a)
              \/ \E g \in Readers : Ask(g) \/ Serve(g) \/ LoadFails(g)
              \/ Age \/ ChangeStatus

ConfigSpec == ConfigInit /\ [][ConfigNext]_configVars

\* Requests in progress go on, time passes, and people keep asking.
FairSpec == /\ ConfigSpec
            /\ WF_configVars(Age)
            /\ \A a \in Editors : WF_configVars(Edit(a))
            /\ \A g \in Readers : WF_configVars(Serve(g)) /\ SF_configVars(Ask(g))

-----------------------------------------------------------------------------
EditorStates == [at : {"away", "editing", "writing", "saved", "conflict", "error"},
                 base : Nat]
ReaderStates == [at : {"idle", "verifying", "confirmed", "denied", "loading", "loaded",
                       "joined"},
                 saw : Nat \cup {Nothing}]
ConfigTypeOK ==
  /\ saved \in Seq([by : Editors, base : Nat])
  /\ editor \in [Editors -> EditorStates]
  /\ active \in BOOLEAN
  /\ cache \in [version : Nat \cup {Nothing}, age : Ages]
  /\ refresh \in Readers \cup {Nothing}
  /\ reader \in [Readers -> ReaderStates]
  /\ answer \in [Readers -> Nat \cup Errors \cup {Nothing}]
  /\ outages \in 0 .. MaxOutages

\* Optimistic concurrency: every committed policy was made from the one just before
\* it, so that no administrator overwrites a change they have not seen.
NoLostUpdate == \A i \in DOMAIN saved : saved[i].base = i - 1

\* Nobody waits for a load that is not under way, and one load serves all.
SingleFlight ==
  /\ \A g \in Readers : reader[g].at \in {"loading", "loaded"} <=> refresh = g
  /\ \A g \in Readers : reader[g].at = "joined" => refresh # Nothing

\* The newest policy reaches the public: what an overtaken refresh has put into the
\* cache after the update had cleared it does not stay.
NewestIsServed == []<>(cache.version \in {Nothing, Version} \/ ~active)
============================================================================
