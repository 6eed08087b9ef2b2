----------------------------- MODULE JobQueries -----------------------------
(***************************************************************************)
(* What readers of the jobs table get while crawls and sweeps change it:   *)
(* the pages of GET /jobs, and the candidates of GET /dedupe/candidates    *)
(* and `jobs dedupe`.                                                      *)
(*                                                                         *)
(* Rows are never deleted, so the table is the sequence of its rows by id. *)
(* Source names, source_job_ids, companies, titles and locations are       *)
(* numbers, by the place of the text in the database's order.  A page is   *)
(* two statements outside a transaction, SELECT and count: each sees the   *)
(* table as it is then.                                                    *)
(***************************************************************************)
EXTENDS Naturals, Sequences, FiniteSets

CONSTANTS Postings,  \* what crawls can store
          Part,      \* a text or NULL, normalized; "" when nothing is left
          Queries,   \* what clients ask for
          Limits,    \* values of limit
          Scans,     \* and of scanned_limit, in reviews of candidates
          None,      \* SQL's NULL, or no filter
          MaxPaged   \* bound on the rows while a client pages

ASSUME JobQueriesAssumption ==
    /\ \A r \in Postings :
          /\ {r.source, r.job, r.company, r.title} \subseteq Nat
          /\ {r.location, r.posted} \subseteq Nat \cup {None}
    /\ None \notin Nat
    /\ \A q \in Queries :
          /\ q.source \in Nat \cup {None}
          /\ q.active \in {TRUE, FALSE, None}
          /\ q.sort \in {"newest", "oldest", "company"}
          /\ q.size \in Nat \ {0}
    /\ MaxPaged \in Nat
    /\ Limits \cup Scans \subseteq Nat \ {0}

VARIABLES jobs,    \* the rows, [posting, active], by id
          reader   \* a client that pages through GET /jobs

vars == <<jobs, reader>>

(* The reader's page and where it is in it; what it got so far; the rows   *)
(* that matched when it began, and what has become of them since.          *)
Idle == [step |-> "idle", query |-> None, page |-> 1, got |-> <<>>, total |-> 0,
         start |-> {}, course |-> "quiet"]

Init == jobs = <<>> /\ reader = Idle

(* It has got its first page.                                              *)
Begun == reader.step \in {"count", "answered"} \/ reader.page > 1
-----------------------------------------------------------------------------
(* Orders and filters                                                      *)

(* Keys are compared one by one; the first that differ decide.             *)
Lexicographic(x, y) ==
    \E k \in DOMAIN x : x[k] < y[k] /\ \A l \in 1 .. k - 1 : x[l] = y[l]

(* ORDER BY posted_at ... NULLS LAST: known instants, and then NULLs.      *)
Known(v) == IF v = None THEN 1 ELSE 0
Instant(v) == IF v = None THEN 0 ELSE v

(* ORDER BY company_name, title, id                                        *)
ByCompany(t, i, j) ==
    Lexicographic(<<t[i].posting.company, t[i].posting.title, i>>,
                  <<t[j].posting.company, t[j].posting.title, j>>)

(* Row i comes before row j of table t.                                    *)
Before(t, sort, i, j) ==
    LET a == t[i].posting.posted
        b == t[j].posting.posted
    IN  CASE sort = "company" -> ByCompany(t, i, j)
          [] sort = "oldest"  -> Lexicographic(<<Known(a), Instant(a), i>>,
                                               <<Known(b), Instant(b), j>>)
          [] sort = "newest"  -> Lexicographic(<<Known(a), Instant(b), j>>,
                                               <<Known(b), Instant(a), i>>)

(* The members of S in the order of the pairs R.                           *)
Sorted(S, R) ==
    [k \in 1 .. Cardinality(S) |->
        CHOOSE i \in S : Cardinality({j \in S : <<j, i>> \in R}) = k - 1]

(* OFFSET and LIMIT, or a slice: what there is of the elements asked for.  *)
Cut(rows, offset, limit) ==
    [k \in 1 .. Cardinality({n \in 1 .. limit : offset + n <= Len(rows)}) |->
        rows[offset + k]]

(* The filters; is_active defaults to TRUE in the route, and None is ALL.  *)
Matching(t, q) ==
    {i \in DOMAIN t : /\ q.source # None => t[i].posting.source = q.source
                      /\ q.active # None => t[i].active = q.active}

Listed(t, q) ==
    LET rows == Matching(t, q)
    IN  Sorted(rows, {p \in rows \X rows : Before(t, q.sort, p[1], p[2])})

(* Variant, wrong: inactive rows are counted too.                          *)
CountAll(t, q) == Cardinality(Matching(t, [q EXCEPT !.active = None]))

Count(t, q) == Cardinality(Matching(t, q))
-----------------------------------------------------------------------------
(* Crawls and sweeps                                                       *)

(* What a reader's rows have been through: nothing, rows that came between *)
(* them, or one of them that left or changed places.                       *)
Course(new) ==
    LET q == reader.query
        old == Matching(jobs, q)
        kept == /\ old \subseteq Matching(new, q)
                /\ \A i, j \in old :
                      Before(jobs, q.sort, i, j) => Before(new, q.sort, i, j)
        course == reader.course
    IN  CASE ~Begun -> "quiet"
          [] Begun /\ (course = "disturbed" \/ ~kept) -> "disturbed"
          [] Begun /\ course # "disturbed" /\ kept ->
                IF old = Matching(new, q) THEN course ELSE "grown"

Store(new) ==
    /\ jobs' = new
    /\ reader' = [reader EXCEPT !.course = Course(new)]

SameIdentity(r, s) == r.source = s.source /\ r.job = s.job

(* upsert_by_source_identity *)
Create(r) ==
    /\ reader.step # "idle" => Len(jobs) < MaxPaged
    /\ \A i \in DOMAIN jobs : ~SameIdentity(jobs[i].posting, r)
    /\ Store(Append(jobs, [posting |-> r, active |-> TRUE]))

Update(r) ==
    \E i \in DOMAIN jobs :
        /\ SameIdentity(jobs[i].posting, r)
        /\ Store([jobs EXCEPT ![i] = [posting |-> r, active |-> TRUE]])

(* deactivate_stale; which rows are stale is JobStore's subject.           *)
Deactivate ==
    \E stale \in SUBSET {i \in DOMAIN jobs : jobs[i].active} :
        Store([i \in DOMAIN jobs |->
                  [jobs[i] EXCEPT !.active = @ /\ i \notin stale]])
-----------------------------------------------------------------------------
(* Pages                                                                   *)

Page(t, q, page) == Cut(Listed(t, q), (page - 1) * q.size, q.size)

Ask ==
    /\ reader.step = "idle"
    /\ Len(jobs) <= MaxPaged
    /\ \E q \in Queries :
          reader' = [reader EXCEPT !.step = "list", !.query = q]
    /\ UNCHANGED jobs

ListPage ==
    /\ reader.step = "list"
    /\ reader' = [reader EXCEPT
          !.step = "count",
          !.got = @ \o Page(jobs, reader.query, reader.page),
          !.start = IF Begun THEN @ ELSE Matching(jobs, reader.query)]
    /\ UNCHANGED jobs

(* Variant, wrong: the total of the first page is kept for the others.     *)
CountOnce ==
    /\ reader.step = "count"
    /\ reader' = [reader EXCEPT !.step = "answered",
                               !.total = IF reader.page = 1 THEN Count(jobs, reader.query) ELSE @]
    /\ UNCHANGED jobs

CountPage ==
    /\ reader.step = "count"
    /\ reader' = [reader EXCEPT !.step = "answered", !.total = Count(jobs, reader.query)]
    /\ UNCHANGED jobs

(* The client asks for another page while the total says there is one.     *)
More == reader.page * reader.query.size < reader.total

NextPage ==
    /\ reader.step = "answered"
    /\ More
    /\ reader' = [reader EXCEPT !.step = "list", !.page = @ + 1]
    /\ UNCHANGED jobs
-----------------------------------------------------------------------------
(* duplicate_candidates                                                    *)

(* Variant, wrong: the location is left out.                               *)
KeyWithoutLocation(r) == <<Part[r.title], Part[r.company], "">>

(* _candidate_key, for rows of which it is not None                        *)
CandidateKey(r) == <<Part[r.title], Part[r.company], Part[r.location]>>
HasKey(r) == Part[r.title] # "" /\ Part[r.company] # ""

Reviewed(activeOnly) == {i \in DOMAIN jobs : activeOnly => jobs[i].active}

(* The rows that are looked at, in the order of the SELECT.                *)
Scanned(activeOnly, scan) ==
    LET rows == Reviewed(activeOnly)
        ordered == Sorted(rows, {p \in rows \X rows : ByCompany(jobs, p[1], p[2])})
    IN  Cut(ordered, 0, scan)

(* The rows of a group by source_name, source_job_id and id.               *)
ByIdentity(i, j) ==
    Lexicographic(<<jobs[i].posting.source, jobs[i].posting.job, i>>,
                  <<jobs[j].posting.source, jobs[j].posting.job, j>>)

GroupJobs(G) == Sorted(G, {p \in G \X G : ByIdentity(p[1], p[2])})

(* The rows with the key of i; the key is a group if several sources have  *)
(* rows with it.                                                           *)
Group(rows, i) ==
    {j \in rows : /\ HasKey(jobs[j].posting)
                  /\ CandidateKey(jobs[j].posting) = CandidateKey(jobs[i].posting)}

Groups(rows) ==
    LET keyed == {i \in rows : HasKey(jobs[i].posting)}
    IN  {G \in {Group(rows, i) : i \in keyed} :
            Cardinality({jobs[i].posting.source : i \in G}) > 1}

HasLocation(G) == \A i \in G : Part[jobs[i].posting.location] # ""

(* The groups are kept in the order in which their first rows come.        *)
Place(scanned, G) ==
    CHOOSE k \in DOMAIN scanned :
        scanned[k] \in G /\ \A l \in 1 .. k - 1 : scanned[l] \notin G

(* By confidence, then company and title of the first job; sorted() keeps  *)
(* the order of those that are equal.                                      *)
Rank(scanned, G) ==
    LET first == jobs[GroupJobs(G)[1]].posting IN
    <<IF HasLocation(G) THEN 0 ELSE 1, first.company, first.title, Place(scanned, G)>>

BestFirst(scanned) ==
    LET groups == Groups({scanned[k] : k \in DOMAIN scanned})
    IN  Sorted(groups, {p \in groups \X groups :
                           Lexicographic(Rank(scanned, p[1]), Rank(scanned, p[2]))})

Candidates(activeOnly, scan, limit) ==
    LET best == BestFirst(Scanned(activeOnly, scan))
    IN  [k \in DOMAIN Cut(best, 0, limit) |-> GroupJobs(best[k])]
-----------------------------------------------------------------------------
Next ==
    \/ \E r \in Postings : Create(r) \/ Update(r)
    \/ Deactivate
    \/ Ask
    \/ ListPage
    \/ CountPage
    \/ NextPage

Spec == Init /\ [][Next]_vars
-----------------------------------------------------------------------------
(* Properties                                                              *)

InOrder(i, j) == Before(jobs, reader.query.sort, i, j)
Got == {reader.got[k] : k \in DOMAIN reader.got}

(* While the rows that match stay as they were, the pages are a partition  *)
(* of them: no row twice, in order, none left out before the last one, and *)
(* the total their number (list and count have the same filters, and every *)
(* order ends in the id).                                                  *)
QuietPagesPartition ==
    reader.step = "answered" /\ reader.course = "quiet" =>
        LET matching == Matching(jobs, reader.query) IN
        /\ Got \subseteq matching
        /\ \A k, l \in DOMAIN reader.got :
              k < l => InOrder(reader.got[k], reader.got[l])
        /\ \A i \in matching \ Got, j \in Got : InOrder(j, i)
        /\ reader.total = Cardinality(matching)
        /\ ~More => Got = matching

(* A client that asks until the total says it is through has got every row *)
(* that matched when it began, whatever was stored between its pages and   *)
(* between a page and its count, unless one of the rows stopped matching   *)
(* or changed places with another.                                         *)
InsertsHideNothing ==
    reader.step = "answered" /\ ~More /\ reader.course # "disturbed" =>
        reader.start \subseteq Got

(* Two rows are duplicates when they are from different sources and title, *)
(* company and location are the same but for case and spaces; title and    *)
(* company must not be blank.                                              *)
SamePosition(i, j) ==
    LET r == jobs[i].posting
        s == jobs[j].posting
    IN  /\ Part[r.title] = Part[s.title] /\ Part[r.title] # ""
        /\ Part[r.company] = Part[s.company] /\ Part[r.company] # ""
        /\ Part[r.location] = Part[s.location]

Duplicates(i, j) == SamePosition(i, j) /\ jobs[i].posting.source # jobs[j].posting.source

JobsOf(group) == {group[n] : n \in DOMAIN group}

(* A group holds jobs of one position, some of them duplicates, and no     *)
(* other group holds that position.                                        *)
GroupsHoldDuplicates(groups, rows) ==
    \A k \in DOMAIN groups :
        /\ JobsOf(groups[k]) \subseteq rows
        /\ \A i, j \in JobsOf(groups[k]) : SamePosition(i, j)
        /\ \E i, j \in JobsOf(groups[k]) : Duplicates(i, j)
        /\ \A l \in DOMAIN groups \ {k} :
              \A i \in JobsOf(groups[k]), j \in JobsOf(groups[l]) : ~SamePosition(i, j)

(* Duplicates are in a group, but for those that the limit cuts, which     *)
(* takes the groups without a location first.                              *)
DuplicatesAreGrouped(groups, rows, limit) ==
    \A i, j \in rows : Duplicates(i, j) =>
        \/ \E k \in DOMAIN groups : {i, j} \subseteq JobsOf(groups[k])
        \/ /\ Len(groups) = limit
           /\ HasLocation({i}) => \A k \in DOMAIN groups : HasLocation(JobsOf(groups[k]))

(* The candidates are the duplicates, all of them when scanned_limit does  *)
(* not cut.                                                                *)
CandidatesAreTheDuplicates ==
    reader.step = "idle" => \A active \in BOOLEAN, scan \in Scans, limit \in Limits :
        LET groups == Candidates(active, scan, limit)
            rows == Reviewed(active)
        IN  /\ GroupsHoldDuplicates(groups, rows)
            /\ Cardinality(rows) <= scan => DuplicatesAreGrouped(groups, rows, limit)
=============================================================================
