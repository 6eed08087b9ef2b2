# TLA+ project for job_aggregator

job_aggregator crawls job boards and careers pages through adapters, normalizes
the postings and stores them in a SQLite database that a CLI and a FastAPI
service read. This directory holds TLA+ specifications of the parts of it where
several actors meet - crawls, resumes, sweeps, readers and migrations that share
one database file, fetches that share a host - and of the algorithms between
them that depend on an order: the tree of a careers page, the ranking of
duplicate candidates, the amounts of a salary. Paths below are relative to
`src/job_aggregator/app/`.

## Inventory

| Part | State | Operations | Interacts with |
|---|---|---|---|
| Jobs table (`db/repositories/jobs.py`, `pipeline/dedupe.py`) | rows by `source_name + source_job_id` | upsert, deactivate_stale, queries | every crawl and sweep, through the database |
| Sessions (`db/session.py`) | SQLite's committed image, the open transaction, the write lock | flush, commit, rollback, wait for the lock | everything that stores |
| Collector (`crawler/`, `db/repositories/runs.py`, `checkpoints.py`) | run row, state rows, error count, checkpoints; counters in memory | run, with one transaction per adapter | adapters (awaited), jobs table |
| Commands and API (`cli/main.py`, `api/routes/admin.py`) | none of their own | crawl run, crawl resume, POST /admin/crawl, deactivate-stale | start the above, each in a session |
| Fetcher (`fetchers/http.py`) | attempt counter | get with retries and backoff | limiter, client |
| Limiter (`fetchers/rate_limit.py`) | a semaphore per host | acquire, release | fetchers on one event loop |
| Adapters (`adapters/`) | configuration | fetch_jobs, parsing | fetcher, collector |
| Page tree (`adapters/custom_page.py`) | the parser's stack of open elements, and the tree | start, end and empty tags, data; find_all, text | custom_page adapter |
| Normalization (`pipeline/normalize.py`) | none | normalize_job, parse_salary, classifiers | collector |
| Job pages (`jobs.py`, `api/routes/jobs.py`) | none; the client keeps a page number | a SELECT and a count for each page | jobs table, while crawls commit |
| Duplicate candidates (`jobs.py`) | none | scan, group, rank, limit | jobs table |
| Migrations (`db/migrations/`, `db/session.py`) | the tables, the revision in `alembic_version` | begin, create, stamp | every command and the API start with it |

What is hard here: sessions read in autocommit and write under a lock taken
later, so every read may be stale when it is used; a run commits several times
and may stop between two commits; a fetch is awaited in the middle of a run; a
resume reads what another run is writing; a sweep decides on rows a crawl is
refreshing; permits must survive failures, pauses and cancellation; pages are
cut by offset out of a table that grows between them; a migration commits each
table by itself. `PROJECT.json` lists each hazard with its line.

What makes the parts correct:

- jobs table: one row per identity, kept for ever; an upsert leaves what the
  posting says; a sweep only takes jobs that nobody has seen;
- sessions: the lock is never held outside a batch;
- collector: an adapter's results appear together; checkpoints do not run ahead
  of the data; counters and status tell the truth; a failing adapter does not
  stop the others; a resume starts from what its run recorded; every run ends;
- fetcher and limiter: no permit lost, no host overrun, every call ends;
- adapters: adapter and scope_key name the source, and an answer is taken whole
  or not at all;
- page tree: an element holds what is between its tags, selectors find in the
  order of the page, text() loses nothing;
- queries: pages partition what matches, new rows hide none, candidates are
  duplicates and all of them;
- migrations: a command that goes on finds every table.

## Modules

- **Sqlite** - the database file: `db` is the committed image, `pending` the
  image the writing session has built, `writer` the holder of the write lock.
  pysqlite runs SELECTs outside a transaction and begins one at the first INSERT
  or UPDATE; `View`, `Write`, `Commit`, `Rollback` and `WriteCommit` say just
  that. `Dirty` is SQLAlchemy's rule that an UPDATE names only the columns whose
  value differs from the loaded one. The module is external: it models the
  libraries as `make_engine` and `create_session_factory` set them up.
- **JobStore** (EXTENDS Sqlite) - crawlers that normalize, SELECT, INSERT or
  UPDATE and commit, one statement an action; sweepers that SELECT, then UPDATE
  and commit. `Abandon` is what any exception or kill does to a session.
- **CrawlLedger** - the abstract specification of crawl runs, as a reader of the
  database sees them: Open, Enter, Apply or Fail, Settle.
- **Collector** (EXTENDS Sqlite) - `Collector.run` with the repositories it
  calls, statement by statement: CreateRun, ReadCheckpoint, CreateState, the
  fetch (FetchRaises or FetchReturns), RecordFailure, RecordErrors, SelectJob,
  InsertJob/UpdateJob, SelectCheckpoint, FlushCheckpoint, Close, Finish; and the
  two ways to start it, Crawl and ResumeNames/ResumeContexts. `pc` is where a
  process is, `mem` its local variables, `db` the four tables it uses.
- **HostRateLimiter**, **HttpFetcher** (EXTENDS it) - the per-host semaphores
  with asyncio's queue, where a permit given back wakes the first waiter that
  sleeps (`Wakes`), and `HttpFetcher.get` on top of them.
- **SourceAdapters** - executions of adapters one after another, from options
  (CrawlRun, AdminCrawl) or a recorded run (CrawlResume) to a context (Collect),
  a configuration (Configured, NotConfigured), an answer (FetchOk, FetchFails,
  FetchRaises, BrowserOk) and a result (ParsePayload, ParseHtml, DemoReturns).
  `runs` is what the state rows keep, and the source each execution asked.
- **PageTree** - the parser's handlers, a token an action (StartTag,
  StartEndTag, EndTag, Data); `page` is what it was fed, `up` the parent of each
  node, `stack` the open elements. `FindAll` and `Text` are recursive functions.
- **Salary** - `parse_salary`: Quote chooses a posting's amounts and the way it
  writes them, Parse is what the function returns for the text. `Numbers` is
  `finditer` with the pattern's alternatives in their order.
- **JobQueries** - the table as the sequence of its rows by id, changed by
  Create, Update and Deactivate, and a client that pages through `GET /jobs`
  (Ask, ListPage, CountPage, NextPage). `Candidates` is `duplicate_candidates`.
- **Migrations** - `upgrade_database` in several commands at a time (Begin,
  ReadHeads, LookForVersionTable, CreateVersionTable, CreateNext, Stamp), any of
  which may be killed between two statements. `tables` and `version` are the
  database, `pc`, `rev` and `done` where each command is.
- **MCJobStore**, **MCCollector**, **MCHttpFetcher**, **MCSourceAdapters**,
  **MCJobQueries** - the instances for TLC. MCSourceAdapters runs PageTree and
  Salary beside SourceAdapters: they share no state, and one moves while the
  others are at their beginning. MCJobQueries lets the commands migrate first
  and then JobQueries run on the tables.
- **JobStoreProofs**, **CollectorProofs**, **CollectorLedgerProofs** (EXTENDS it),
  **HttpFetcherProofs**, **SourceAdaptersProofs**, **JobQueriesProofs**,
  **MigrationsProofs**, **PageTreeProofs** - the theorems, each about the module it
  is named for; SourceAdaptersProofs has those about Salary too.

Each module has, just before some of its definitions, variants marked "wrong":
they show what the properties would catch, and nothing uses them.

### Abstractions

- A row's descriptive columns are one column (`title`; in Collector `target`,
  for company and URL). `raw_hash` is an own value per posting, because the
  digest covers `fetched_at`.
- The wall clock ticks when a posting is normalized (JobStore) or a fetch
  returns (Collector); equal instants do not occur.
- Sessions keep weak references to loaded rows, so a SELECT yields what the
  database holds; a row that happens to be still alive from the same session
  holds the same values, since no other session can have written it inside the
  transaction.
- Readers' SHARED locks are shorter than a step and never block a commit.
- A session that waits for the lock either gets it or, at any time, times out;
  the five seconds are not counted.
- One process makes one run; a restart is another process that crawls or resumes.
- A fetch is one step in Collector; how it ends is HttpFetcher's subject.
  `Results` allows an adapter to return jobs together with an error, as
  `BaseJobAdapter.result` does, although no adapter in the repository does so
  (`AllOrNothing` in SourceAdapters).
- SourceAdapters knows of a posting only whether it has what RawJobPosting
  requires, of a source only the URL it is asked at, and of the options neither
  selectors nor `browser_fallback`: after a FetchError a page may or may not have
  one. Only `scope_key` distinguishes an empty option from an absent one.
- In JobQueries a text is its place in the database's order, so that ORDER BY
  compares numbers, and `Part` maps it to what `_candidate_key` makes of it. Of the
  filters `source` and `is_active` are kept; the others are conditions on a row
  like them. Which rows a sweep finds stale is JobStore's subject; here any may be.
- A revision's CREATE INDEX statements belong to its CREATE TABLE. Alembic holds
  SQLite's DDL for not transactional and pysqlite begins no transaction for it, so
  each CREATE and each stamp is committed by itself.
- PageTree gets tokens, not characters, and no attributes: selectors by class or
  id walk the same tree as those by tag. An element that HTML never closes (br, img)
  is a start tag without an end.
- Salary's texts are tokens too: runs of digits, single signs, `k`, a currency's
  symbol, its name, any other word; amounts are in tenths, which are exact. A symbol
  stands right before an amount, a name with a space between. Three ways of writing
  are left out of what Quote writes, because the pattern does not read them: a single
  digit before the first comma (`1,500` is read as 1 and 500), a word that begins
  with a k right after an amount, and an amount right after a word (`USD130000` is
  read as no amount; `StartsNumber` refuses it as the code does).

## Runs

| Run | Instance | Shows |
|---|---|---|
| jobstore | 2 crawlers, one key shared and one exclusive, 1 sweeper, 2 titles, 3 instants, kills | the properties of JobStore, liveness included |
| jobstore_sweep | the same, no kills | a sweep deactivates a job seen after its SELECT |
| jobstore_torn | the same, no kills | two crawls of a posting leave a row of both |
| collector | 2 processes, 2 sources, plans of none, one or both, empty and repeating listings, kills | the safety of Collector and that it implements CrawlLedger |
| collector_three | 3 processes, two at a time, one that may be killed, 1 source | a resume uses what its run recorded, though a crawl moves the checkpoint on; every run ends |
| collector_abandoned | 2 processes, no kills | a database error leaves a run running |
| collector_identity | 2 pages of custom_page | one page's job replaces another's |
| fetcher | 5 calls, one limiter of 2, one retry (one call with max_retries = -1), cancellation | permits, the bound per host, every call ends |
| fetcher_each | 3 calls, a limiter each | the bound per host fails |
| adapters | 2 executions, every combination of options over 2 texts and a name, answers of up to 2 postings; every page of up to 5 tokens; 3 amounts, of one, two and three groups of digits, in every way of writing them | which source is asked, what an answer becomes; the tree, selectors and texts of a page; the salary that is stored |
| queries | 3 commands that may be killed; 5 postings of 2 sources, 4 queries | who is migrated, what pages and candidates show |
| migrations_killed | 2 commands, one at a time, one killed | later upgrades fail |

Bounds.

- Two writers suffice for every conflict on a lock and every stale read. A third is
  needed where one must move a checkpoint while a second resumes a third: that is
  `collector_three`, where `AtATime` = 2 keeps one of the three waiting or ended and
  `Killable` names the one that may be killed, which keeps liveness within reach.
- Three instants (`MaxTime`, which bounds the clock by disabling Normalize) give two
  crawls and a repeat, or a crawl, a sweep's cutoff and a later crawl. The listing
  `<<a, b, a>>` inserts, inserts again and updates a row of its own batch.
- Five calls on two permits keep two waiting while one is cancelled.
- `ScopeNamesSource` compares two executions, so `MaxRuns` = 2 is enough, and two
  texts are enough to differ; `adapters` uses symmetry of the texts and checks
  invariants only. An execution whose options name the source in two ways, or by
  `api_url`, is not compared: there the recorded scope is not the source's name, and
  a resume asks elsewhere or, for custom_page, is refused for want of options.
- `MaxTokens` = 5 gives every nesting of two elements with a text or a void element
  inside, between or after them, unmatched ends and `</document>` included. Two tags
  are enough for an end that has to look past another element.
- Of the amounts 45, 12500, 90000 and 12150000 the first has no group of thousands and
  the last two; 12500 can be written 12.5k and 90000 90k. A range takes any two, in
  either order.
- `MaxPaged` = 3 bounds the rows while a client pages: with pages of one row a row can
  come before, between or after those already seen. Candidates are looked at with up
  to four rows, which five postings make (one job is posted in two ways); `Limits` and
  `Scans` lie below and at the number of groups and rows.
- Three commands let two lose a race that the third wins, and one be killed.

Deadlock is checked in `jobstore`; elsewhere processes, calls, commands, clients and
pages come to an end.

Violated properties are what the repository says of itself; `PROJECT.json`
quotes the lines under "findings". In short: a sweep can overrule a crawl; two
overlapping crawls of a posting can mix their columns; a database error leaves a
run `running`; two careers pages may share a row; limits are kept per fetcher,
not per host; a migration killed in the middle leaves tables without a revision,
and every later command fails at the first of them.

### Fairness

`WF` of each process's steps, never of starting one, of a kill or of a
cancellation. Processes are the operating system's to run and tasks the event
loop's; a session that waits for the lock is woken or times out (LockTimeout is
among its steps); a fetch ends because the client has a timeout and attempts are
bounded, which `GetsEnd` checks in HttpFetcher; a command that was started runs its
migrations to an end or an error. Weak fairness is enough because a waiting step
either stays enabled or its timeout does.

`CommandsMigrate` says no more than the code gives: of commands that begin together
some may fail, but one gets through unless one is killed, and a command that comes
when the database is at the head does not fail.

## Proofs

The theorems hold for any sets of sessions, keys, targets, calls and so on, and
without the bounds of the runs. TLC checked each property before it was proved.
The constants' assumptions are named in the modules that declare them and evaluated
in every run: NoSessionAssumption, JobStoreAssumption, CollectorAssumption (plans
name an adapter once; None is no row, session or number), PerHostLimitAssumption,
CallsAssumption (finitely many calls), HttpFetcherAssumption,
SourceAdaptersAssumption, JobQueriesAssumption (what columns and queries hold) and
TagsAssumption (an element is closed or it is not).

**JobStoreProofs**: `TypeCorrect`, `LockSafety` and `LoadsUnderLock` for TypeOK,
LockFreedWithBatch and LoadedUnderLockIsCurrent; `RowIdentity`: no committed row is
lost or gets another id; `ExactUnderLock`: an upsert that looked its row up under the
lock stores exactly its posting. The argument is one inductive invariant, `Inv`: the
types; what labels say of local variables (PhasesOK); the lock discipline; that what
was loaded under the lock is current; and that rows that were committed, loaded or
selected are still there under the same id (RowsStay). The last part is what types
need: an UPDATE of a row that had gone would store something that is no row. One
lemma per action shows that it keeps Inv and every row of the table (`Keeps`); insert
and update share FlushInv, and all ways of giving up share AbandonInv.

`ExclusiveWholeness` and `ExclusiveFreshness` are about the keys that one crawler
lists: their rows always describe one posting, and last_seen_at never goes back. A row
that was loaded before the lock was had may be stale, so being current is of no use
here. The second invariant, `OwnInv`, says what is left: a batch changes no key its
crawler does not list; hence what a crawler has loaded of such a row is the row as it
is but for `active`, which only sweeps change (`HandOK`), the row is no newer than the
posting in hand, and an uncommitted image is no older than the table (`ExclusiveOK`).
`SightRevives` needs no more than Inv: an upsert that loaded an inactive row writes
`active`, because it differs.

**CollectorProofs**: `BatchesHoldTheLock`, `AdaptersGetTheirRows`,
`CheckpointsFollowTheData`, `SuccessMeansDelivered` and `ResumesFollowTheRecord`.
None of them is inductive. For the first three, `Inv` has four parts:

- `Typed`: types that do not count fetches, as TypeOK does;
- `BatchOK`: the lock is only held in a batch; a batch leaves the state rows alone,
  changes no run row but its own, and loses no job;
- `ProcessOK(p)`: how many state rows a process has at each label (RowsOK), what it
  knows of the run it resumes (OriginOK), and that the result in hand is that of a
  fetch of its own and stored up to the job in hand (ResultOK);
- `CoverOK`: each cursor is that of a fetch whose jobs are stored and whose run has
  recorded it, and inside a batch only the cursor in hand is ahead of its state row.

CoverOK is why order matters in the code: the checkpoint is flushed after the last
job and in the same transaction as `checkpoint_after`. Steps fall into those that
leave the database alone (QuietInv), flush inside a batch (FlushInv), flush and commit
outside one (SaveInv) or give up (AbandonInv); each action has a lemma that reduces it
to one of the four or, as Close does, shows each part by itself.

For the other two there is a second invariant, `RunInv`: without an error, every
adapter the run is done with was delivered (CompleteOK); and what a process has read
of the run it resumes is still recorded there (ResumeOK). The latter rests on what a
step may do to other runs' rows (`Frame`): rows keep their place, target and
`checkpoint_before`, and `checkpoint_after` is only ever set where it still repeats
`checkpoint_before`.

**CollectorLedgerProofs** adds a third, `LedgerInv`, for what the first two do not
count or compare: `CrawlsKeepTheLedger`, `CountersAreKept` and `TypesHold`.

- `OneBatchOK(p)`: what the batch has changed so far are rows and a cursor of the
  adapter and the fetch in hand;
- `FreshOK(p)`: no row or cursor of that fetch is in a table before the batch puts it
  there, so that storing a job and moving a cursor are always visible changes;
- `RowOK(p)`: the run row has the errors of the adapters that are closed, and what its
  process has counted once it is done;
- `CountsOK(p)`: the rows that p inserted are as many as it counted, and `seen` is
  created plus updated, plus one while a job is in hand;
- `ConstantOK`: what cursors a source without instants can have.

The refinement is proved step by step: CreateRun is the ledger's Open, CreateState its
Enter, RecordFailure (with the commit after it) its Fail, Close its Apply and Finish
its Settle; every other step leaves what the ledger shows as it was, because it
commits nothing. Each of the five has a lemma that shows the ledger's guard and each
of its effects from the invariants; Apply, where the batch of an adapter becomes
visible at once, is where OneBatchOK and FreshOK are needed.

**HttpFetcherProofs**: `PermitsAreConserved`, `FetcherTypes`, and `HostsAreBounded`,
which assumes that calls to one host share a limiter, as calls of one fetcher do; the
run `fetcher_each` shows what happens otherwise. The invariant says that a queue holds
each waiting call once and nobody else, that free permits, requests under way and
permits given to waiters add up to the limit, and how many attempts a label allows.
Its lemmas count: what a departure and a release wake are as many as there are permits.

**SourceAdaptersProofs**: `ScopesNameSources`, `AnswersAreWhole`, `AdapterTypes`. Plain
options carry at most one key, so the scope of a context names the source it asks; a
resume's context comes from a row for which that holds already.

`SalaryRead`, also there, says of any amounts, of any size, that parse_salary answers
what a posting quotes. Its invariant is short (the text in `quote` is answered with what
it quotes, and `salary` is that answer), so the work is in what the pattern and the scan
do to a text:

- `ReadAs`: wherever the tokens of an amount stand in a text, and whatever follows but a
  comma, a point or a k, the match that begins there is the whole of them and is worth
  the amount. That is shown of each way of writing it (InFull, WithDecimal, InThousands,
  InHalfThousands, InGroups) and so of all (`WrittenReads`). For groups of thousands it
  needs that a number is the sum of its groups (`GroupedShape`);
- `EndBound`: a match takes at least a token and ends in the text, so the scan is defined
  (`ScanExists`); between the amounts it passes over what has no digits (`Skips`);
- `FrameIs`: what stands around the amounts has no digits, lets an amount end where it
  ends and begin where it begins (`NotLastWord`: a match does not start right after a
  word, such as a currency's name), and has the currency (`CurrencyIs`).

Each of the recursive functions here (a number in groups, the value of the groups, the
scan) is shown to have a solution before anything is said about it.

**JobQueriesProofs**: `QuietPagesArePartitions`, `InsertsHideNoRow` and
`CandidatesAreDuplicates`, for any postings, queries and lengths of the table.

- Order: by a strict total order `Sorted` lists each element once, at one more than
  its rank, and two neighbouring cuts of a list join to one. Each ORDER BY is such an
  order because it ends in the id (`BeforeOrder`); without that no page is determined.
- Ranks: a row that keeps its place among the others never gets a smaller rank by an
  insert or by an update of another row (`RanksGrow`), and a quiet table keeps its list.
- `Inv`: while the table is quiet, what the client has is the list cut at the rows it
  has asked for (QuietOK); while rows are only inserted or change in place, a row of
  the first table it does not have lies at or behind that point (StartOK).

What is behind the point is still to come unless the client stops, and it stops only
when the total, a later read than the page, says that nothing is there. Candidates
need only the table's types and the facts about order: groups are the classes of an
equivalence, and what the limit cuts ranks behind what it keeps.

**MigrationsProofs**: `ReadyIsMigrated`, from the invariant that stamps never run ahead
of the tables and that a command has found or created the tables its label claims.

**PageTreeProofs**, for pages of any length: `StackStaysPath`, as an end tag leaves a
non-empty prefix of a path; `NestingHolds`; and `FoundInOrder` and `TextKept` about what
find_all and text() yield.

For `NestingHolds`: a token can close what was opened long
before, so its invariant `Nested` speaks of elements that may yet turn out well formed:

- `OpenOK`: an element from which all is well formed up to the end of the page is still
  open, and in it only elements that need no end. So an end tag of its name closes it
  and nothing around it. The same held at the time each open element was opened, which
  is what is left to go by when that element has closed;
- `OpenHold`: what comes after an open element is inside it;
- `ClosedOK`: of what is between the two tags of an element with well-formed content
  each node's parent is the element or behind it, and nothing after them is attached
  to anything between them.

One lemma per kind of token keeps these (NestKeep, NestOpen, NestClose). What Around and
WellFormed yield follows by induction on positions: a set of numbers has a least element,
so were a node wrongly placed there would be a first one, and its parent is earlier.

For `FoundInOrder` and `TextKept` the positions of the tokens must be a preorder of the
tree, which they are because a node is only ever attached to an open element:

- `PlantInv`: the parent of a later node is at or behind each earlier node or around it,
  and so is every open element, where the next node will be attached. Texts have
  nothing in them and never open. It follows that everything in one child of a node
  comes before the next child (`SiblingsApart`);
- `Listing`: a sequence has each member of a set once, and in order where that is
  claimed. Lists of sets that follow each other make a list of their union
  (`FlattenLists`), and there is only one list in order (`ListingUnique`);
- find_all and text() recurse into children, which are later nodes: were some node's
  result wrong there would be a last one, and those of its children would be right.
  That the recursion has a solution at all is proved as well, as TLA+ does not say so.

Only model-checked: liveness (`BatchesEnd`, `CrawlsEnd`, `GetsEnd`, `CommandsMigrate`),
which is out of the proof system's reach together with ENABLED.

## Plan

Done, in this order: Sqlite, JobStore with proofs, CrawlLedger, Collector,
HostRateLimiter, HttpFetcher, SourceAdapters; then JobQueries, PageTree, Salary and
Migrations, and the proofs about Collector, HttpFetcher, SourceAdapters, Migrations
and PageTree; then the refinement of CrawlLedger, the counters and the rows of one
crawler; then the pages and candidates of JobQueries, how elements nest in PageTree and
what selectors and text() find there, and what parse_salary reads.

## Not modelled

- The classifiers and `extract_tags` of normalization: tables of keywords, which a
  model would only repeat.
- `/sources`, `/health`, a single job and the `/runs` routes: single reads, or
  read-only views of what CrawlLedger specifies; and the listings and
  `latest_for_adapter` of the run repositories, for the same reason. A run's
  detail is read in several statements while its crawl commits; what one of them
  may see is CrawlLedger's, how they fit together is not checked.
- Downgrades of the migrations, which no command runs.
- The browser fetcher (one external call), schemas, configuration and logging
  (declarations), service and scheduler stubs (empty).
