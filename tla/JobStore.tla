------------------------------ MODULE JobStore ------------------------------
(***************************************************************************)
(* The jobs table under several sessions: crawlers that upsert postings    *)
(* (JobsRepository.upsert_by_source_identity, one batch per commit) and    *)
(* sweepers that deactivate what has not been seen for a while             *)
(* (JobsRepository.deactivate_stale, run by `jobs deactivate-stale`).      *)
(*                                                                         *)
(* A row holds title, for any of the columns that describe the job (each   *)
(* is compared and written by itself); hash, for raw_hash, the digest      *)
(* of the whole raw posting, fetched_at included, so a value of its own    *)
(* for every posting; seen, for last_seen_at; active, for is_active; id,   *)
(* for the primary key.  `now` is the wall clock: it moves on whenever a   *)
(* posting is normalized, so no two postings carry the same instant.       *)
(***************************************************************************)
EXTENDS Naturals, Sqlite

CONSTANTS Crawlers, Sweepers,   \* the sessions, by what they do
          Keys,                 \* source identities (source_name, source_job_id)
          SourceOf,             \* the source_name of each key
          KeysOf,               \* the keys the sources of each crawler list
          Titles,               \* values of a descriptive column
          NoRow,                \* the absence of a row
          MaxTime,              \* bound on the clock
          MayCrash              \* whether processes are killed

ASSUME JobStoreAssumption ==
    /\ Sessions = Crawlers \cup Sweepers
    /\ Crawlers \cap Sweepers = {}
    /\ MaxTime \in Nat
    /\ MayCrash \in BOOLEAN
    /\ KeysOf \in [Crawlers -> SUBSET Keys]
    /\ NoRow \notin [id : Nat, title : Titles, hash : Titles \X Nat, seen : Nat,
                     active : BOOLEAN]

VARIABLES now,      \* the wall clock
          pc,       \* where each session is
          posting,  \* the canonical job a crawler is upserting
          loaded,   \* the row its SELECT returned, or NoRow
          doomed,   \* the rows a sweeper's SELECT returned
          cutoff    \* the sweeper's seen_before

vars == <<dbvars, now, pc, posting, loaded, doomed, cutoff>>

Sources == {SourceOf[k] : k \in Keys}
Instants == 0 .. MaxTime
Hashes == Titles \X Instants
Rows == [id : Instants, title : Titles, hash : Hashes, seen : Instants,
         active : BOOLEAN]
Postings == [key : Keys, title : Titles, at : Instants]
Tables == [Keys -> Rows \cup {NoRow}]

Init ==
    /\ db = [k \in Keys |-> NoRow]
    /\ pending = db
    /\ writer = NoSession
    /\ now = 0
    /\ pc = [s \in Sessions |-> "idle"]
    /\ posting = [c \in Crawlers |-> NoRow]
    /\ loaded = [c \in Crawlers |-> NoRow]
    /\ doomed = [w \in Sweepers |-> {}]
    /\ cutoff = [w \in Sweepers |-> 0]

Goto(s, label) == pc' = [pc EXCEPT ![s] = label]
-----------------------------------------------------------------------------
(* Crawlers                                                                *)

(* normalize_job: the canonical job of the next posting, stamped now.      *)
Normalize(c) ==
    /\ pc[c] \in {"idle", "batch"}
    /\ now < MaxTime
    /\ now' = now + 1
    /\ \E k \in KeysOf[c], title \in Titles :
          posting' = [posting EXCEPT ![c] =
                        [key |-> k, title |-> title, at |-> now + 1]]
    /\ Goto(c, "select")
    /\ UNCHANGED <<dbvars, loaded, doomed, cutoff>>

(* Variant, wrong: the SELECT of a session of its own.                     *)
RowForOtherSession(c) == db[posting[c].key]

(* get_by_source_identity *)
RowFor(c) == View(c)[posting[c].key]

Select(c) ==
    /\ pc[c] = "select"
    /\ loaded' = [loaded EXCEPT ![c] = RowFor(c)]
    /\ Goto(c, "flush")
    /\ UNCHANGED <<dbvars, now, posting, doomed, cutoff>>

(* The column values of the canonical job; `id` is not among them and      *)
(* keeps the value the row has.                                            *)
Values(p, id) ==
    [id |-> id, title |-> p.title, hash |-> <<p.title, p.at>>, seen |-> p.at,
     active |-> TRUE]

Created(p) == Values(p, p.at)

(* Variants, wrong: an update that keeps the old raw_hash, and one that    *)
(* does not set is_active.                                                 *)
UpdatedKeepHash(current, old, p) ==
    Dirty(current, old, [Values(p, old.id) EXCEPT !.hash = old.hash])
UpdatedKeepActive(current, old, p) ==
    Dirty(current, old, [Values(p, old.id) EXCEPT !.active = old.active])

(* setattr of every value on the row that was loaded, then the flush.      *)
Updated(current, old, p) == Dirty(current, old, Values(p, old.id))

(* Variant, wrong: no unique constraint.                                   *)
KeyUnchecked(c) == posting[c] # NoRow

(* uq_jobs_source_identity *)
KeyIsFree(c) == View(c)[posting[c].key] = NoRow

Insert(c) ==
    /\ pc[c] = "flush"
    /\ loaded[c] = NoRow
    /\ KeyIsFree(c)
    /\ Write(c, [View(c) EXCEPT ![posting[c].key] = Created(posting[c])])
    /\ Goto(c, "batch")
    /\ UNCHANGED <<now, posting, loaded, doomed, cutoff>>

Update(c) ==
    /\ pc[c] = "flush"
    /\ loaded[c] # NoRow
    /\ Write(c, [View(c) EXCEPT ![posting[c].key] = Updated(@, loaded[c], posting[c])])
    /\ Goto(c, "batch")
    /\ UNCHANGED <<now, posting, loaded, doomed, cutoff>>

(* Variant, wrong: the connection stays in its transaction.                *)
SessionLeft(s) == s \in Sessions /\ UNCHANGED dbvars

(* Leaving `with session_factory() as session`.                            *)
SessionClosed(s) == Rollback(s)

(* An exception leaves the command; its session closes, the process ends.  *)
Abandon(s) ==
    /\ SessionClosed(s)
    /\ Goto(s, "idle")
    /\ posting' = [c \in Crawlers |-> IF c = s THEN NoRow ELSE posting[c]]
    /\ loaded' = [c \in Crawlers |-> IF c = s THEN NoRow ELSE loaded[c]]
    /\ doomed' = [w \in Sweepers |-> IF w = s THEN {} ELSE doomed[w]]
    /\ cutoff' = [w \in Sweepers |-> IF w = s THEN 0 ELSE cutoff[w]]
    /\ UNCHANGED now

Conflict(c) ==
    pc[c] = "flush" /\ loaded[c] = NoRow /\ CanWrite(c) /\ ~KeyIsFree(c)

(* Variant, wrong: the same INSERT is tried again.                         *)
UniqueViolationRetried(c) == Conflict(c) /\ UNCHANGED vars

(* IntegrityError: another session inserted the key in between.            *)
UniqueViolation(c) == Conflict(c) /\ Abandon(c)

(* The commit at the end of an adapter's batch.                            *)
CommitBatch(c) ==
    /\ pc[c] = "batch"
    /\ Commit(c)
    /\ Goto(c, "idle")
    /\ posting' = [posting EXCEPT ![c] = NoRow]
    /\ loaded' = [loaded EXCEPT ![c] = NoRow]
    /\ UNCHANGED <<now, doomed, cutoff>>
-----------------------------------------------------------------------------
(* Sweepers                                                                *)

Stale(row, before) == row # NoRow /\ row.active /\ row.seen < before

(* `source` is "any" for a sweep without --source.                         *)
SweepSelect(w) ==
    /\ pc[w] = "idle"
    /\ \E before \in 1 .. now, from \in {Sources} \cup {{src} : src \in Sources} :
          /\ cutoff' = [cutoff EXCEPT ![w] = before]
          /\ doomed' = [doomed EXCEPT ![w] =
                          {k \in Keys : SourceOf[k] \in from /\ Stale(db[k], before)}]
    /\ Goto(w, "sweep")
    /\ UNCHANGED <<dbvars, now, posting, loaded>>

(* Variant, wrong: clears last_seen_at as well.                            *)
DeactivatedUnseen(table, keys) ==
    [k \in Keys |-> IF k \in keys THEN [table[k] EXCEPT !.active = FALSE, !.seen = 0]
                                  ELSE table[k]]

(* is_active = False on every row the SELECT returned.                     *)
Deactivated(table, keys) ==
    [k \in Keys |-> IF k \in keys THEN [table[k] EXCEPT !.active = FALSE] ELSE table[k]]

(* Variant, wrong: the command forgets session.commit().                   *)
SweepUnsaved(w, table) == Write(w, table)

(* The flush and jobs_deactivate_stale's commit.                           *)
SweepSaved(w, table) == WriteCommit(w, table)

SweepCommit(w) ==
    /\ pc[w] = "sweep"
    /\ IF doomed[w] = {} THEN UNCHANGED dbvars
                        ELSE SweepSaved(w, Deactivated(View(w), doomed[w]))
    /\ Goto(w, "idle")
    /\ doomed' = [doomed EXCEPT ![w] = {}]
    /\ cutoff' = [cutoff EXCEPT ![w] = 0]
    /\ UNCHANGED <<now, posting, loaded>>
-----------------------------------------------------------------------------
(* Both                                                                    *)

WantsLock(s) ==
    /\ ~CanWrite(s)
    /\ \/ pc[s] = "flush"
       \/ s \in Sweepers /\ pc[s] = "sweep" /\ doomed[s] # {}

(* The busy timeout: "database is locked".                                 *)
LockTimeout(s) == WantsLock(s) /\ Abandon(s)

Crash(s) == MayCrash /\ pc[s] # "idle" /\ Abandon(s)

CrawlerStep(c) ==
    \/ Select(c) \/ Insert(c) \/ Update(c) \/ UniqueViolation(c)
    \/ CommitBatch(c) \/ LockTimeout(c)

SweeperStep(w) == SweepCommit(w) \/ LockTimeout(w)

Next ==
    \/ \E c \in Crawlers : Normalize(c) \/ CrawlerStep(c)
    \/ \E w \in Sweepers : SweepSelect(w) \/ SweeperStep(w)
    \/ \E s \in Sessions : Crash(s)

(* An operating system runs every process that can run; nobody has to      *)
(* start a crawl or a sweep, and nobody has to kill one.                   *)
Fairness ==
    /\ \A c \in Crawlers : WF_vars(CrawlerStep(c))
    /\ \A w \in Sweepers : WF_vars(SweeperStep(w))

Spec == Init /\ [][Next]_vars /\ Fairness
-----------------------------------------------------------------------------
(* Properties                                                              *)

TypeOK ==
    /\ db \in Tables
    /\ pending \in Tables
    /\ writer \in Crawlers \cup {NoSession}
    /\ now \in Instants
    /\ pc \in [Sessions -> {"idle", "select", "flush", "batch", "sweep"}]
    /\ posting \in [Crawlers -> Postings \cup {NoRow}]
    /\ loaded \in [Crawlers -> Rows \cup {NoRow}]
    /\ doomed \in [Sweepers -> SUBSET Keys]
    /\ cutoff \in [Sweepers -> Instants]

(* No process keeps the database's write lock once its batch is over,      *)
(* committed, failed or killed, and what it did not commit is gone.        *)
LockFreedWithBatch ==
    /\ NothingPending
    /\ \A s \in Sessions : writer = s => pc[s] \in {"select", "flush", "batch"}

(* An upsert whose SELECT ran under the write lock loaded the row its      *)
(* UPDATE overwrites, so nothing another session commits can come between. *)
LoadedUnderLockIsCurrent ==
    \A c \in Crawlers :
        writer = c /\ pc[c] = "flush" => loaded[c] = pending[posting[c].key]

(* The row holds what one canonical job says, all of it.                   *)
Whole(row) == row.hash = <<row.title, row.seen>>

(* upsert_by_source_identity under the lock leaves exactly the posting in  *)
(* the row, active, whatever the sweepers and other crawlers did before.   *)
UpsertUnderLockIsExact ==
    [][\A c \in Crawlers :
          writer = c /\ pc[c] = "flush" /\ pc'[c] = "batch" =>
              LET row == pending'[posting[c].key] IN
              /\ Whole(row)
              /\ row.seen = posting[c].at
              /\ row.active]_vars

(* A job that was swept becomes active again when a crawl that found it    *)
(* inactive sees it, even if the crawl's SELECT ran before it had the lock.*)
SightRevivesSweptJob ==
    [][\A c \in Crawlers :
          /\ pc[c] = "flush" /\ pc'[c] = "batch"
          /\ loaded[c] # NoRow
          /\ ~loaded[c].active
          => pending'[posting[c].key].active]_vars

(* uq_jobs_source_identity: two crawlers that both find no row never make  *)
(* two, and no committed row is lost or takes another's place.             *)
RowsKeepTheirId ==
    [][\A k \in Keys :
          db[k] # NoRow => db'[k] # NoRow /\ db'[k].id = db[k].id]_vars

(* The keys only one crawler's sources list.                               *)
Exclusive(k) == \E c \in Crawlers : {d \in Crawlers : k \in KeysOf[d]} = {c}

(* While no two crawls cover the same posting, a row always describes one  *)
(* posting, whatever the sweeps and crashes.                               *)
ExclusiveRowsAreWhole ==
    \A k \in Keys : Exclusive(k) /\ db[k] # NoRow => Whole(db[k])

(* ... and its last_seen_at never goes back.                               *)
ExclusiveRowsOnlyGetFresher ==
    [][\A k \in Keys :
          Exclusive(k) /\ db[k] # NoRow => db'[k].seen >= db[k].seen]_vars

(* Every row stores one normalized job record: its descriptive columns are *)
(* those of the posting its raw_hash was taken of.                         *)
RowsAreWhole == \A k \in Keys : db[k] # NoRow => Whole(db[k])

(* `jobs deactivate-stale` deactivates only jobs that, when it commits,    *)
(* have not been seen since the threshold.                                 *)
SweptJobsAreStale ==
    [][\A w \in Sweepers, k \in Keys :
          /\ pc[w] = "sweep" /\ pc'[w] = "idle"
          /\ db[k] # NoRow
          /\ db[k].active /\ ~db'[k].active
          => db[k].seen < cutoff[w]]_vars

(* A crawl or sweep that waits for the lock gets it or gives up: nothing   *)
(* blocks for ever, and no batch stays open.                               *)
BatchesEnd == \A s \in Sessions : pc[s] # "idle" ~> pc[s] = "idle"
=============================================================================
