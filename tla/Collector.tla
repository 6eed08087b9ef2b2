----------------------------- MODULE Collector -----------------------------
(***************************************************************************)
(* Crawl runs: Collector.run, the repositories it calls and the two ways   *)
(* of starting it, a crawl (`crawl run`, POST /admin/crawl) and            *)
(* `crawl resume`.  Several run at a time, in processes of their own, on   *)
(* one database.                                                           *)
(*                                                                         *)
(* A session is one such process; it makes at most one run, whose id it    *)
(* stands for.  A target is an adapter with the scope it is pointed at.    *)
(* `fetched` lists the fetches that have returned, by any process: the     *)
(* position of a fetch in it is the instant of the fetch, of which         *)
(* fetched_at and the ISO timestamp cursors are made.                      *)
(***************************************************************************)
EXTENDS Naturals, Sequences, FiniteSets, Sqlite

CONSTANTS Targets,      \* pairs of an adapter and a scope_key
          AdapterOf,    \* the adapter, hence the source_name, of each target
          Plans,        \* the sequences of targets a crawl can select, which
                        \* are of different adapters
          JobIds,       \* source_job_ids
          Listings,     \* the sequences of source_job_ids a fetch can return
          CursorOf,     \* "instant", "constant" or "none" for each target
          None,         \* SQL's NULL, or no row
          Killable,     \* the processes that may be killed
          AtATime       \* bound on the processes that run at a time

ASSUME CollectorAssumption ==
    /\ Plans \subseteq Seq(Targets)
    /\ \A plan \in Plans : \A i, j \in DOMAIN plan :
          i # j => AdapterOf[plan[i]] # AdapterOf[plan[j]]
    /\ Listings \subseteq Seq(JobIds)
    /\ CursorOf \in [Targets -> {"instant", "constant", "none"}]
    /\ Killable \subseteq Sessions
    /\ AtATime \in Nat
    /\ None \notin Nat /\ None \notin Sessions /\ None \notin Targets
    /\ None \notin [target : Targets, hash : Nat \X Nat, born : Sessions]
    /\ \A status \in {"running", "success", "partial_success", "failed"} :
          None \notin [status : {status}, seen : Nat, created : Nat, updated : Nat, errors : Nat]
    /\ None \notin [at : Nat, jobs : Seq(JobIds), errors : Nat, next : Nat \cup {None}]

VARIABLES pc,       \* where each process is
          mem,      \* its local variables
          fetched   \* the fetches that have returned

vars == <<dbvars, pc, mem, fetched>>

Keys == {AdapterOf[t] : t \in Targets} \X JobIds
KeyOf(t, id) == <<AdapterOf[t], id>>

NoTables ==
    [runs        |-> [p \in Sessions |-> None],
     states      |-> [p \in Sessions |-> <<>>],
     checkpoints |-> [t \in Targets |-> None],
     jobs        |-> [k \in Keys |-> None]]

(* `closed` counts the adapters done with; the one in hand is the next in  *)
(* the plan.  `loaded` and `found` are what the SELECTs of a job and of a  *)
(* checkpoint returned.                                                    *)
Start ==
    [plan |-> <<>>, origin |-> None, contexts |-> <<>>, closed |-> 0, before |-> None,
     result |-> None, k |-> 1, loaded |-> None, found |-> None,
     seen |-> 0, created |-> 0, updated |-> 0, errors |-> 0]

Init ==
    /\ db = NoTables
    /\ pending = NoTables
    /\ writer = NoSession
    /\ pc = [p \in Sessions |-> "idle"]
    /\ mem = [p \in Sessions |-> Start]
    /\ fetched = <<>>

Goto(p, label) == pc' = [pc EXCEPT ![p] = label]

Target(p) == mem[p].plan[mem[p].closed + 1]
Job(p) == KeyOf(Target(p), mem[p].result.jobs[mem[p].k])
-----------------------------------------------------------------------------
(* Starting                                                                *)

Ended == {"done", "aborted", "killed"}

(* A process that has not run yet, and may.                                *)
Free(p) ==
    /\ pc[p] = "idle"
    /\ Cardinality({q \in Sessions : pc[q] \notin {"idle"} \cup Ended}) < AtATime

Crawl(p) ==
    /\ Free(p)
    /\ \E plan \in Plans : mem' = [mem EXCEPT ![p].plan = plan]
    /\ Goto(p, "create")
    /\ UNCHANGED <<dbvars, fetched>>

(* crawl_resume's first session: the adapters with a state in run o.       *)
ResumeNames(p) ==
    /\ Free(p)
    /\ \E o \in Sessions :
          LET states == View(p).states[o] IN
          /\ View(p).runs[o] # None
          /\ states # <<>>
          /\ mem' = [mem EXCEPT ![p].origin = o,
                                ![p].plan = [i \in DOMAIN states |-> states[i].target]]
    /\ Goto(p, "context")
    /\ UNCHANGED <<dbvars, fetched>>

(* What a state row contributes to the context of the run that resumes it. *)
ResumePoint(state) == state.after

(* _resume_contexts: a second session reads the rows again.                *)
ResumeContexts(p) ==
    /\ pc[p] = "context"
    /\ mem' = [mem EXCEPT ![p].contexts =
                 [i \in DOMAIN mem[p].plan |->
                    ResumePoint(View(p).states[mem[p].origin][i])]]
    /\ Goto(p, "create")
    /\ UNCHANGED <<dbvars, fetched>>

(* The head of `for adapter in selected`.                                  *)
LoopHead(m) == IF m.closed < Len(m.plan) THEN "adapter" ELSE "finish"

NewRun == [status |-> "running", seen |-> 0, created |-> 0, updated |-> 0, errors |-> 0]

CreateRun(p) ==
    /\ pc[p] = "create"
    /\ WriteCommit(p, [View(p) EXCEPT !.runs[p] = NewRun])
    /\ Goto(p, LoopHead(mem[p]))
    /\ UNCHANGED <<mem, fetched>>
-----------------------------------------------------------------------------
(* One adapter: its context and state row, then the fetch                  *)

(* Variant, wrong: a resumed run takes the newest checkpoint too.          *)
NewestCheckpointFor(p) == View(p).checkpoints[Target(p)]

(* context_with_checkpoint *)
CheckpointFor(p) ==
    IF mem[p].origin # None THEN mem[p].contexts[mem[p].closed + 1]
                            ELSE View(p).checkpoints[Target(p)]

ReadCheckpoint(p) ==
    /\ pc[p] = "adapter"
    /\ mem' = [mem EXCEPT ![p].before = CheckpointFor(p)]
    /\ Goto(p, "state")
    /\ UNCHANGED <<dbvars, fetched>>

NewState(t, before) == [target |-> t, before |-> before, after |-> before]

(* Variant, wrong: the row is flushed, and committed with the batch.       *)
StateUnsaved(p, image) == Write(p, image)

(* create_adapter_state's flush and the commit before the fetch.           *)
StateSaved(p, image) == WriteCommit(p, image)

CreateState(p) ==
    /\ pc[p] = "state"
    /\ StateSaved(p, [View(p) EXCEPT !.states[p] =
                         Append(@, NewState(Target(p), mem[p].before))])
    /\ Goto(p, "fetch")
    /\ UNCHANGED <<mem, fetched>>

(* fetch_jobs raises an Exception.                                         *)
FetchRaises(p) ==
    /\ pc[p] = "fetch"
    /\ Goto(p, "handler")
    /\ UNCHANGED <<dbvars, mem, fetched>>

(* Variant, wrong: the first failure ends the loop.                        *)
StopAfterFailure(m) == IF m.closed < 0 THEN "adapter" ELSE "finish"

(* `continue` *)
AfterFailure(m) == LoopHead(m)

(* The except branch; finish_adapter_state changes no column.              *)
RecordFailure(p) ==
    /\ pc[p] = "handler"
    /\ WriteCommit(p, [View(p) EXCEPT !.runs[p].errors = mem[p].errors + 1])
    /\ mem' = [mem EXCEPT ![p].errors = @ + 1, ![p].closed = @ + 1,
                          ![p].before = None]
    /\ Goto(p, AfterFailure(mem'[p]))
    /\ UNCHANGED fetched

NextCursor(t, instant) ==
    CASE CursorOf[t] = "instant"  -> instant
      [] CursorOf[t] = "constant" -> 0
      [] CursorOf[t] = "none"     -> None

(* The AdapterResults BaseJobAdapter.result builds: without errors and     *)
(* with the adapter's next_checkpoint; or with an error, no                *)
(* next_checkpoint and the jobs found all the same (none, in the adapters  *)
(* of the repository; the contract and its FakeJobAdapter allow some).     *)
Results(t, instant) ==
    {[jobs |-> jobs, errors |-> 0, next |-> NextCursor(t, instant)] : jobs \in Listings}
    \cup {[jobs |-> jobs, errors |-> 1, next |-> None] : jobs \in Listings}

AfterJobs(r) == IF r.next # None THEN "cpselect" ELSE "close"
AfterErrors(r) == IF r.jobs # <<>> THEN "select" ELSE AfterJobs(r)

FetchReturns(p) ==
    /\ pc[p] = "fetch"
    /\ \E r \in Results(Target(p), Len(fetched) + 1) :
          /\ fetched' = Append(fetched, [run |-> p, target |-> Target(p),
                                         jobs |-> r.jobs, next |-> r.next])
          /\ mem' = [mem EXCEPT ![p].result =
                        [at |-> Len(fetched) + 1, jobs |-> r.jobs,
                         errors |-> r.errors, next |-> r.next]]
          /\ Goto(p, IF r.errors > 0 THEN "errors" ELSE AfterErrors(r))
    /\ UNCHANGED dbvars
-----------------------------------------------------------------------------
(* Its batch, one transaction: errors, jobs, checkpoint, state             *)

RecordErrors(p) ==
    /\ pc[p] = "errors"
    /\ Write(p, [View(p) EXCEPT !.runs[p].errors = mem[p].errors + mem[p].result.errors])
    /\ mem' = [mem EXCEPT ![p].errors = @ + mem[p].result.errors]
    /\ Goto(p, AfterErrors(mem[p].result))
    /\ UNCHANGED fetched

SelectJob(p) ==
    /\ pc[p] = "select"
    /\ mem' = [mem EXCEPT ![p].seen = @ + 1, ![p].loaded = View(p).jobs[Job(p)]]
    /\ Goto(p, "flush")
    /\ UNCHANGED <<dbvars, fetched>>

(* The columns of the canonical job: the target stands for the company and *)
(* the other descriptive columns, the hash is one of its own for every     *)
(* posting of every fetch.  `born`, the run that inserted the row, is not  *)
(* among the values of an update.                                          *)
Values(p, born) ==
    [target |-> Target(p), hash |-> <<mem[p].result.at, mem[p].k>>, born |-> born]

(* Variant, wrong: a created job counts as updated too.                    *)
TallyTwice(m, status) ==
    IF status = "created" THEN [m EXCEPT !.created = @ + 1, !.updated = @ + 1]
                          ELSE [m EXCEPT !.updated = @ + 1]

Tally(m, status) ==
    CASE status = "created"   -> [m EXCEPT !.created = @ + 1]
      [] status = "updated"   -> [m EXCEPT !.updated = @ + 1]
      [] status = "unchanged" -> m

(* The rest of the loop's body and its head.                               *)
NextJob(p, status) ==
    LET m == Tally(mem[p], status) IN
    /\ mem' = [mem EXCEPT ![p] = [m EXCEPT !.k = @ + 1, !.loaded = None]]
    /\ Goto(p, IF m.k < Len(m.result.jobs) THEN "select" ELSE AfterJobs(m.result))

(* Variant, wrong: each job is committed by itself.                        *)
JobSaved(p, image) == WriteCommit(p, image)

(* create and upsert_by_source_identity flush; the batch commits.          *)
JobFlushed(p, image) == Write(p, image)

InsertJob(p) ==
    /\ pc[p] = "flush"
    /\ mem[p].loaded = None
    /\ View(p).jobs[Job(p)] = None
    /\ JobFlushed(p, [View(p) EXCEPT !.jobs[Job(p)] = Values(p, p)])
    /\ NextJob(p, "created")
    /\ UNCHANGED fetched

UpdateJob(p) ==
    LET old == mem[p].loaded
        new == Values(p, old.born)
    IN  /\ pc[p] = "flush"
        /\ old # None
        /\ JobFlushed(p, [View(p) EXCEPT !.jobs[Job(p)] = Dirty(@, old, new)])
        /\ NextJob(p, IF new.hash # old.hash THEN "updated" ELSE "unchanged")
        /\ UNCHANGED fetched

SelectCheckpoint(p) ==
    /\ pc[p] = "cpselect"
    /\ mem' = [mem EXCEPT ![p].found = View(p).checkpoints[Target(p)]]
    /\ Goto(p, "cpflush")
    /\ UNCHANGED <<dbvars, fetched>>

(* Variant, wrong: the checkpoint is committed before the state row.       *)
CheckpointSaved(p, image) == WriteCommit(p, image)

CheckpointFlushed(p, image) == Write(p, image)

FlushCheckpoint(p) ==
    /\ pc[p] = "cpflush"
    /\ mem[p].found = None => View(p).checkpoints[Target(p)] = None
    /\ IF mem[p].found = mem[p].result.next
       THEN UNCHANGED dbvars
       ELSE CheckpointFlushed(p,
               [View(p) EXCEPT !.checkpoints[Target(p)] = mem[p].result.next])
    /\ mem' = [mem EXCEPT ![p].found = None]
    /\ Goto(p, "close")
    /\ UNCHANGED fetched

(* checkpoint_after = result.next_checkpoint or adapter_context.checkpoint *)
CheckpointAfter(m) == IF m.result.next # None THEN m.result.next ELSE m.before

Close(p) ==
    LET after == CheckpointAfter(mem[p]) IN
    /\ pc[p] = "close"
    /\ IF after = mem[p].before
       THEN Commit(p)
       ELSE WriteCommit(p, [View(p) EXCEPT !.states[p][mem[p].closed + 1].after = after])
    /\ mem' = [mem EXCEPT ![p].closed = @ + 1, ![p].before = None,
                          ![p].result = None, ![p].k = 1]
    /\ Goto(p, LoopHead(mem'[p]))
    /\ UNCHANGED fetched
-----------------------------------------------------------------------------
(* Ending                                                                  *)

(* Variants, wrong: errors are overlooked once jobs were seen; a status    *)
(* that ck_crawl_runs_status does not list.                                *)
StatusForSeen(m) == IF m.seen > 0 \/ m.errors = 0 THEN "success" ELSE "failed"
StatusForPartial(m) == IF m.errors = 0 THEN "success" ELSE "partial"

(* _status_for *)
StatusFor(m) ==
    CASE m.plan = <<>> -> "failed"
      [] m.plan # <<>> /\ m.errors = 0 -> "success"
      [] m.plan # <<>> /\ m.errors > 0 /\ m.seen > 0 -> "partial_success"
      [] OTHER -> "failed"

Finish(p) ==
    /\ pc[p] = "finish"
    /\ WriteCommit(p, [View(p) EXCEPT !.runs[p] =
          [status |-> StatusFor(mem[p]), seen |-> mem[p].seen,
           created |-> mem[p].created, updated |-> mem[p].updated,
           errors |-> mem[p].errors]])
    /\ Goto(p, "done")
    /\ UNCHANGED <<mem, fetched>>

(* Nothing in Collector.run catches what a database call raises: the       *)
(* session closes, which rolls back, and the run stops where it is.        *)
Abandon(p, label) ==
    /\ Rollback(p)
    /\ Goto(p, label)
    /\ mem' = [mem EXCEPT ![p] = [Start EXCEPT !.plan = mem[p].plan,
                                               !.origin = mem[p].origin,
                                               !.closed = mem[p].closed]]
    /\ UNCHANGED fetched

(* uq_jobs_source_identity or uq_source_checkpoints_adapter_scope: another *)
(* process inserted the row after this one had looked for it.              *)
Conflict(p) ==
    /\ CanWrite(p)
    /\ \/ pc[p] = "flush" /\ mem[p].loaded = None /\ View(p).jobs[Job(p)] # None
       \/ /\ pc[p] = "cpflush"
          /\ mem[p].found = None
          /\ View(p).checkpoints[Target(p)] # None

(* Variant, wrong: the same INSERT is tried again.                         *)
UniqueViolationRetried(p) == Conflict(p) /\ UNCHANGED vars

UniqueViolation(p) == Conflict(p) /\ Abandon(p, "aborted")

(* The next step of p emits a statement that needs the write lock.         *)
WillWrite(p) ==
    \/ pc[p] \in {"create", "state", "handler", "errors", "flush", "finish"}
    \/ pc[p] = "cpflush" /\ mem[p].found # mem[p].result.next
    \/ pc[p] = "close" /\ CheckpointAfter(mem[p]) # mem[p].before

(* Another process keeps the lock for the whole busy timeout.              *)
LockTimeout(p) ==
    /\ WillWrite(p)
    /\ ~CanWrite(p)
    /\ Abandon(p, "aborted")

Crash(p) ==
    /\ p \in Killable
    /\ pc[p] \notin {"idle"} \cup Ended
    /\ Abandon(p, "killed")

Step(p) ==
    \/ ResumeContexts(p) \/ CreateRun(p) \/ ReadCheckpoint(p) \/ CreateState(p)
    \/ FetchRaises(p) \/ RecordFailure(p) \/ FetchReturns(p) \/ RecordErrors(p)
    \/ SelectJob(p) \/ InsertJob(p) \/ UpdateJob(p)
    \/ SelectCheckpoint(p) \/ FlushCheckpoint(p) \/ Close(p) \/ Finish(p)
    \/ UniqueViolation(p) \/ LockTimeout(p)

Next == \E p \in Sessions : Crawl(p) \/ ResumeNames(p) \/ Step(p) \/ Crash(p)

(* A process that can run does, and a fetch ends: each attempt has a       *)
(* timeout and attempts are bounded (fetchers/http.py).                    *)
Fairness == \A p \in Sessions : WF_vars(Step(p))

Spec == Init /\ [][Next]_vars /\ Fairness
-----------------------------------------------------------------------------
(* Properties                                                              *)

Instants == 1 .. Len(fetched)
Cursors == 0 .. Len(fetched)
RunRows == [status : {"running", "success", "partial_success", "failed"},
            seen : Nat, created : Nat, updated : Nat, errors : Nat]
StateRows == [target : Targets, before : Cursors \cup {None},
              after : Cursors \cup {None}]
JobRows == [target : Targets, hash : Instants \X (Nat \ {0}), born : Sessions]
Tables == [runs : [Sessions -> RunRows \cup {None}],
           states : [Sessions -> Seq(StateRows)],
           checkpoints : [Targets -> Cursors \cup {None}],
           jobs : [Keys -> JobRows \cup {None}]]
Fetches == [at : Instants, jobs : Listings, errors : Nat,
            next : Cursors \cup {None}]
Memories == [plan : Seq(Targets), origin : Sessions \cup {None},
             contexts : Seq(Cursors \cup {None}), closed : Nat,
             before : Cursors \cup {None}, result : Fetches \cup {None},
             k : Nat \ {0}, loaded : JobRows \cup {None},
             found : Cursors \cup {None},
             seen : Nat, created : Nat, updated : Nat, errors : Nat]

InBatch == {"select", "flush", "cpselect", "cpflush", "close"}
Labels == InBatch \cup Ended \cup
          {"idle", "context", "create", "adapter", "state", "fetch", "handler",
           "errors", "finish"}

TypeOK ==
    /\ db \in Tables
    /\ pending \in Tables
    /\ writer \in Sessions \cup {NoSession}
    /\ pc \in [Sessions -> Labels]
    /\ mem \in [Sessions -> Memories]
    /\ fetched \in Seq([run : Sessions, target : Targets, jobs : Listings,
                        next : Nat \cup {None}])

(* No process awaits a fetch, or ends, with the write lock in its hands:   *)
(* create_adapter_state is committed before `await adapter.fetch_jobs`, so *)
(* a slow source never makes another crawl time out on the database.       *)
LockOnlyInsideBatch ==
    /\ NothingPending
    /\ \A p \in Sessions : writer = p => pc[p] \in InBatch

Stored(f) == \A i \in DOMAIN f.jobs : db.jobs[KeyOf(f.target, f.jobs[i])] # None

(* A checkpoint never runs ahead of the data: the cursor on record for a   *)
(* target comes from a fetch whose jobs are all stored and whose run has   *)
(* it as checkpoint_after, whatever crashes and races happened.            *)
CheckpointsAreCovered ==
    \A t \in Targets :
        db.checkpoints[t] # None =>
            \E i \in DOMAIN fetched :
                /\ fetched[i].target = t
                /\ fetched[i].next = db.checkpoints[t]
                /\ Stored(fetched[i])
                /\ \E n \in DOMAIN db.states[fetched[i].run] :
                      /\ db.states[fetched[i].run][n].target = t
                      /\ db.states[fetched[i].run][n].after = db.checkpoints[t]

Finished(p) == db.runs[p] # None /\ db.runs[p].status # "running"

(* The counters of a finished run are what it did: as many rows created as *)
(* it inserted, and every posting it saw created or updated a row.         *)
CountersAreTrue ==
    \A p \in Sessions :
        Finished(p) =>
            /\ db.runs[p].created =
                  Cardinality({k \in Keys : db.jobs[k] # None /\ db.jobs[k].born = p})
            /\ db.runs[p].seen = db.runs[p].created + db.runs[p].updated

(* A run that reports success has fetched every selected adapter and all   *)
(* the jobs they returned are in the table.                                *)
SuccessIsComplete ==
    \A p \in Sessions :
        Finished(p) /\ db.runs[p].status = "success" =>
            \A t \in {mem[p].plan[i] : i \in DOMAIN mem[p].plan} :
                \E i \in DOMAIN fetched :
                    fetched[i].run = p /\ fetched[i].target = t /\ Stored(fetched[i])

(* An adapter that fails does not keep the others from running: a finished *)
(* run has a state row for each selected adapter, in order, and a run that *)
(* stopped has them for the first ones.                                    *)
StatesFollowPlan ==
    \A p \in Sessions :
        LET states == db.states[p] IN
        /\ Len(states) <= Len(mem[p].plan)
        /\ \A i \in DOMAIN states : states[i].target = mem[p].plan[i]
        /\ Finished(p) => Len(states) = Len(mem[p].plan)

(* A resumed run starts each adapter from what the run it resumes recorded *)
(* for it, not from the newest checkpoint of the source.                   *)
ResumeUsesRecordedState ==
    \A p \in Sessions :
        mem[p].origin # None =>
            \A i \in DOMAIN db.states[p] :
                LET from == db.states[mem[p].origin][i] IN
                /\ db.states[p][i].target = from.target
                /\ db.states[p][i].before \in {from.before, from.after}

(* The collector implements the ledger: whatever commits between two reads *)
(* of the database is a whole number of adapters' results.                 *)
Ledger == INSTANCE CrawlLedger
            WITH Runs <- Sessions,
                 runs <- db.runs, states <- db.states,
                 checkpoints <- db.checkpoints, jobs <- db.jobs,
                 closed <- [p \in Sessions |-> mem[p].closed]

ImplementsLedger == Ledger!Spec

(* Every run that was started ends, one way or another.                    *)
CrawlsEnd == \A p \in Sessions : pc[p] # "idle" ~> pc[p] \in Ended

(* A run whose process has not been killed is not left behind as running.  *)
EndedRunsAreFinished ==
    \A p \in Sessions : pc[p] \in {"done", "aborted"} /\ db.runs[p] # None => Finished(p)

(* An update of a job never puts another source's posting in its row.      *)
UpdatesKeepThePosting ==
    [][\A k \in Keys :
          db.jobs[k] # None => db'.jobs[k].target = db.jobs[k].target]_vars
=============================================================================
