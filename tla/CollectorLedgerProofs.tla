------------------------ MODULE CollectorLedgerProofs ------------------------
(***************************************************************************)
(* The collector implements CrawlLedger, its counters are true and its     *)
(* variables are of their types: on top of the invariants of               *)
(* CollectorProofs, what a batch has changed before it commits is of one   *)
(* adapter and one fetch, and the process knows how many rows it has       *)
(* inserted.                                                               *)
(***************************************************************************)
EXTENDS CollectorProofs, FiniteSetTheorems

(* The rows by which a jobs table changes in the batch of p                *)
JobsBy(p, old, new) ==
    \A k \in Keys : new[k] # old[k] =>
        /\ pc[p] \in WithResult
        /\ k[1] = AdapterOf[Target(p)]
        /\ new[k] # None
        /\ new[k].hash[1] = mem[p].result.at
        /\ new[k].born = IF old[k] = None THEN p ELSE old[k].born

(* and the cursors by which source_checkpoints does                        *)
CursorsBy(p, old, new) ==
    \A t \in Targets : new[t] # old[t] =>
        /\ pc[p] \in WithResult
        /\ t = Target(p)
        /\ new[t] = mem[p].result.next
        /\ new[t] # None

(* The batch in hand, as the process sees it                               *)
OneBatchOK(p) ==
    LET m == mem[p]
        r == m.result
        t == Target(p)
        cursors == View(p).checkpoints
    IN  /\ JobsBy(p, db.jobs, View(p).jobs)
        /\ CursorsBy(p, db.checkpoints, cursors)
        /\ pc[p] # "close" => cursors = db.checkpoints
        /\ pc[p] = "close" /\ r.next # None =>
              cursors[t] = r.next /\ (writer # p => CursorOf[t] = "constant")

(* No row and no cursor of the fetch in hand is there before it is put.    *)
FreshOK(p) ==
    LET m == mem[p]
        r == m.result
        t == Target(p)
    IN  pc[p] \in WithResult =>
          /\ r.errors \in 0 .. 1
          /\ r.next \in {None, NextCursor(t, r.at)}
          /\ \A image \in {db, pending} :
                /\ \A k \in Keys : image.jobs[k] # None /\ image.jobs[k].hash[1] = r.at =>
                      image.jobs[k].hash[2] < m.k
                /\ pc[p] # "close" /\ CursorOf[t] = "instant" => image.checkpoints[t] # r.at
          /\ pc[p] = "flush" /\ m.loaded # None => m.loaded.hash # <<r.at, m.k>>
          /\ pc[p] = "cpflush" /\ m.found # None =>
                /\ CursorOf[t] = "instant" => m.found # r.at
                /\ View(p).checkpoints[t] # None

(* The row of the run has the errors of the adapters that are closed, and  *)
(* what its process has counted once it is done.                           *)
RowOK(p) ==
    LET m == mem[p]
        row == db.runs[p]
    IN  row # None /\ pc[p] \notin {"aborted", "killed"} =>
          /\ pc[p] \notin InBatch => row.errors = m.errors
          /\ pc[p] \in InBatch =>
                /\ m.errors = row.errors + m.result.errors
                /\ View(p).runs[p] = [row EXCEPT !.errors = m.errors]
          /\ pc[p] = "done" =>
                row.seen = m.seen /\ row.created = m.created /\ row.updated = m.updated

BornIn(table, p) == {k \in Keys : table[k] # None /\ table[k].born = p}

(* The process has counted the rows it inserted and those it updated.      *)
CountsOK(p) ==
    LET m == mem[p] IN
    pc[p] \notin {"aborted", "killed"} =>
        /\ IsFiniteSet(BornIn(View(p).jobs, p))
        /\ Cardinality(BornIn(View(p).jobs, p)) = m.created
        /\ m.seen = m.created + m.updated + (IF pc[p] = "flush" THEN 1 ELSE 0)
        /\ pc[p] \in Before \/ m.plan = <<>> => m.seen = 0
        /\ pc[p] \in Before => m.errors = 0

(* A target without cursors of its own has the one there is, or none.      *)
ConstantOK ==
    \A t \in Targets : CursorOf[t] = "constant" =>
        db.checkpoints[t] \in {0, None} /\ pending.checkpoints[t] \in {0, None}

LedgerOK(p) == OneBatchOK(p) /\ FreshOK(p) /\ RowOK(p) /\ CountsOK(p)

LedgerInv == ConstantOK /\ (\A p \in Sessions : LedgerOK(p))
-----------------------------------------------------------------------------
(* Types, with the cursors bounded by the fetches that have returned       *)

LEMMA BoundedFacts ==
    ASSUME TypeOK, NEW p \in Sessions
    PROVE  /\ mem[p] \in Memories /\ View(p) \in Tables /\ mem = [mem EXCEPT ![p] = mem[p]]
           /\ db \in Tables /\ pending \in Tables
           /\ None \in Cursors \cup {None} /\ Len(fetched) \in Nat
  BY DEF TypeOK, View

(* A step that ends no fetch, and after which the tables are those of      *)
(* before or one image                                                     *)
LEMMA BoundedStep ==
    ASSUME TypeOK, Inv', UNCHANGED fetched, NEW p \in Sessions, NEW image \in Tables,
           db' \in {db, pending, image}, pending' \in {db, pending, image},
           NEW m \in Memories, mem' = [mem EXCEPT ![p] = m]
    PROVE  TypeOK'
<1>1. Cursors' = Cursors /\ Instants' = Instants
  BY DEF Cursors, Instants
<1>2. Tables' = Tables /\ Memories' = Memories
  BY <1>1 DEF Tables, Memories, StateRows, JobRows, Fetches
<1>3. db' \in Tables /\ pending' \in Tables /\ mem' \in [Sessions -> Memories]
  BY DEF TypeOK
<1>4. writer' \in Sessions \cup {NoSession} /\ pc' \in [Sessions -> Labels]
  BY DEF Inv, Typed
<1> QED
  BY <1>2, <1>3, <1>4 DEF TypeOK

LEMMA BoundedStart ==
    ASSUME TypeOK
    PROVE  Start \in Memories
<1>1. <<>> \in Seq(Targets) /\ <<>> \in Seq(Cursors \cup {None})
  OBVIOUS
<1> QED
  BY <1>1 DEF Start, Memories

LEMMA AbandonType ==
    ASSUME Inv, Inv', TypeOK, NEW p \in Sessions, NEW label, Abandon(p, label)
    PROVE  TypeOK'
<1> DEFINE m == [Start EXCEPT !.plan = mem[p].plan, !.origin = mem[p].origin,
                              !.closed = mem[p].closed]
<1>1. /\ mem' = [mem EXCEPT ![p] = m] /\ UNCHANGED fetched
      /\ db' \in {db, pending} /\ pending' \in {db, pending}
  BY DEF Abandon, Rollback
<1>2. m \in Memories
  <2>1. /\ mem[p].plan \in Seq(Targets) /\ mem[p].origin \in Sessions \cup {None}
        /\ mem[p].closed \in Nat
    BY BoundedFacts DEF Memories
  <2> QED
    BY <2>1, BoundedStart DEF Memories
<1> HIDE DEF m
<1> QED
  BY <1>1, <1>2, BoundedFacts, BoundedStep

LEMMA CrawlType ==
    ASSUME Inv, Inv', TypeOK, NEW p \in Sessions, Crawl(p)
    PROVE  TypeOK'
<1>1. PICK plan \in Plans : mem' = [mem EXCEPT ![p].plan = plan]
  BY DEF Crawl
<1> DEFINE m == [mem[p] EXCEPT !.plan = plan]
<1>2. m \in Memories
  <2>1. plan \in Seq(Targets)
    BY CollectorAssumption
  <2> QED
    BY <2>1, BoundedFacts, ZenonT(60) DEF Memories
<1>3. mem' = [mem EXCEPT ![p] = m] /\ UNCHANGED db /\ UNCHANGED pending /\ UNCHANGED fetched
  BY <1>1 DEF Crawl, dbvars
<1> HIDE DEF m
<1> QED
  BY <1>2, <1>3, BoundedFacts, BoundedStep

LEMMA ResumeNamesType ==
    ASSUME Inv, Inv', TypeOK, NEW p \in Sessions, ResumeNames(p)
    PROVE  TypeOK'
<1>1. PICK o \in Sessions :
          mem' = [mem EXCEPT ![p].origin = o,
                             ![p].plan = [i \in DOMAIN View(p).states[o] |->
                                             View(p).states[o][i].target]]
  BY DEF ResumeNames
<1> DEFINE states == View(p).states[o]
           plan == [i \in DOMAIN states |-> states[i].target]
           m == [mem[p] EXCEPT !.origin = o, !.plan = plan]
<1>2. states \in Seq(StateRows)
  BY BoundedFacts DEF Tables
<1>3. plan \in Seq(Targets)
  <2>1. \A i \in 1 .. Len(states) : states[i].target \in Targets
    <3>1. \A i \in 1 .. Len(states) : states[i] \in StateRows
      BY <1>2
    <3> HIDE DEF states
    <3> QED
      BY <3>1 DEF StateRows
  <2>2. Len(states) \in Nat /\ DOMAIN states = 1 .. Len(states)
    BY <1>2
  <2>3. plan \in [1 .. Len(states) -> Targets]
    BY <2>1, <2>2
  <2> QED
    BY <2>2, <2>3
<1> HIDE DEF plan
<1>4. m \in Memories
  BY <1>3, BoundedFacts, ZenonT(60) DEF Memories
<1>5. mem' = [mem EXCEPT ![p] = m] /\ UNCHANGED db /\ UNCHANGED pending /\ UNCHANGED fetched
  BY <1>1, BoundedFacts, ZenonT(60) DEF ResumeNames, dbvars, plan
<1> HIDE DEF m
<1> QED
  BY <1>4, <1>5, BoundedFacts, BoundedStep

LEMMA ResumeContextsType ==
    ASSUME Inv, Inv', TypeOK, NEW p \in Sessions, ResumeContexts(p)
    PROVE  TypeOK'
<1> DEFINE o == mem[p].origin
           plan == mem[p].plan
           contexts == [i \in DOMAIN plan |-> ResumePoint(View(p).states[o][i])]
           m == [mem[p] EXCEPT !.contexts = contexts]
<1>1. /\ pc[p] = "context" /\ mem' = [mem EXCEPT ![p] = m]
      /\ UNCHANGED db /\ UNCHANGED pending /\ UNCHANGED fetched
  BY DEF ResumeContexts, dbvars
<1>2. /\ plan \in Seq(Targets) /\ Len(plan) \in Nat /\ o \in Sessions
      /\ View(p).states[o] \in Seq(StateRows) /\ Len(plan) <= Len(View(p).states[o])
  <2>1. OriginOK(p) /\ View(p) = db
    BY <1>1, ViewFacts DEF Inv, ProcessOK, InBatch
  <2>2. o \in Sessions /\ Len(plan) <= Len(db.states[o])
    BY <1>1, <2>1, SeqFacts DEF OriginOK
  <2>3. View(p).states[o] \in Seq(StateRows)
    BY <2>2, BoundedFacts DEF Tables
  <2> QED
    BY <2>1, <2>2, <2>3, SeqFacts
<1>3. contexts \in Seq(Cursors \cup {None})
  <2>1. \A i \in 1 .. Len(plan) : View(p).states[o][i] \in StateRows
    BY <1>2
  <2>2. \A i \in 1 .. Len(plan) : ResumePoint(View(p).states[o][i]) \in Cursors \cup {None}
    BY <2>1 DEF StateRows, ResumePoint
  <2>3. contexts \in [1 .. Len(plan) -> Cursors \cup {None}]
    BY <1>2, <2>2
  <2> QED
    BY <1>2, <2>3
<1> HIDE DEF contexts
<1>4. m \in Memories
  BY <1>3, BoundedFacts, ZenonT(60) DEF Memories
<1> HIDE DEF m
<1> QED
  BY <1>1, <1>4, BoundedFacts, BoundedStep

LEMMA CreateRunType ==
    ASSUME Inv, Inv', TypeOK, NEW p \in Sessions, CreateRun(p)
    PROVE  TypeOK'
<1> DEFINE image == [View(p) EXCEPT !.runs[p] = NewRun]
<1>1. db' = image /\ pending' = image /\ mem' = mem /\ UNCHANGED fetched
  BY DEF CreateRun, WriteCommit
<1>2. NewRun \in RunRows
  BY DEF NewRun, RunRows
<1>3. image \in Tables
  BY <1>2, BoundedFacts DEF Tables
<1> HIDE DEF image
<1> QED
  BY <1>1, <1>3, BoundedFacts, BoundedStep

LEMMA ReadCheckpointType ==
    ASSUME Inv, Inv', TypeOK, NEW p \in Sessions, ReadCheckpoint(p)
    PROVE  TypeOK'
<1> DEFINE m == [mem[p] EXCEPT !.before = CheckpointFor(p)]
<1>1. /\ pc[p] = "adapter" /\ mem' = [mem EXCEPT ![p] = m]
      /\ UNCHANGED db /\ UNCHANGED pending /\ UNCHANGED fetched
  BY DEF ReadCheckpoint, dbvars
<1>2. CheckpointFor(p) \in Cursors \cup {None}
  <2>1. CASE mem[p].origin # None
    <3>1. /\ RowsOK(p) /\ OriginOK(p) /\ mem[p].contexts \in Seq(Cursors \cup {None})
      BY BoundedFacts DEF Inv, ProcessOK, Memories
    <3>2. mem[p].closed + 1 \in 1 .. Len(mem[p].contexts)
      BY <1>1, <2>1, <3>1, SeqFacts DEF RowsOK, OriginOK, Waits
    <3> QED
      BY <2>1, <3>1, <3>2 DEF CheckpointFor
  <2>2. CASE mem[p].origin = None
    <3>1. Target(p) \in Targets
      BY <1>1, HandFacts DEF Waits
    <3> QED
      BY <2>2, <3>1, BoundedFacts DEF CheckpointFor, Tables
  <2> QED
    BY <2>1, <2>2
<1>3. m \in Memories
  BY <1>2, BoundedFacts, ZenonT(60) DEF Memories
<1> HIDE DEF m
<1> QED
  BY <1>1, <1>3, BoundedFacts, BoundedStep

LEMMA CreateStateType ==
    ASSUME Inv, Inv', TypeOK, NEW p \in Sessions, CreateState(p)
    PROVE  TypeOK'
<1> DEFINE row == NewState(Target(p), mem[p].before)
           new == Append(View(p).states[p], row)
           image == [View(p) EXCEPT !.states[p] = new]
<1>1. /\ pc[p] = "state" /\ db' = image /\ pending' = image /\ mem' = mem /\ UNCHANGED fetched
  BY DEF CreateState, StateSaved, WriteCommit
<1>2. row \in StateRows
  <2>1. Target(p) \in Targets
    BY <1>1, HandFacts DEF Waits
  <2> QED
    BY <2>1, BoundedFacts DEF NewState, StateRows, Memories
<1> HIDE DEF row
<1>3. new \in Seq(StateRows)
  BY <1>2, BoundedFacts DEF Tables
<1> HIDE DEF new
<1>4. image \in Tables
  BY <1>3, BoundedFacts DEF Tables
<1> HIDE DEF image
<1> QED
  BY <1>1, <1>4, BoundedFacts, BoundedStep

LEMMA RecordFailureType ==
    ASSUME Inv, Inv', TypeOK, NEW p \in Sessions, RecordFailure(p)
    PROVE  TypeOK'
<1> DEFINE row == [View(p).runs[p] EXCEPT !.errors = mem[p].errors + 1]
           image == [View(p) EXCEPT !.runs[p] = row]
           m == [mem[p] EXCEPT !.errors = @ + 1, !.closed = @ + 1, !.before = None]
<1>1. pc[p] = "handler" /\ db' = image /\ pending' = image /\ UNCHANGED fetched
  BY DEF RecordFailure, WriteCommit
<1>2. mem' = [mem EXCEPT ![p] = m]
  BY BoundedFacts DEF RecordFailure, TypeOK
<1>3. row \in RunRows
  <2>1. View(p).runs[p] \in RunRows
    <3>1. View(p).runs[p] # None
      BY <1>1, HandFacts DEF Entered
    <3> QED
      BY <3>1, BoundedFacts DEF Tables
  <2> QED
    BY <2>1, SeqFacts, SMTT(60) DEF RunRows
<1> HIDE DEF row
<1>4. image \in Tables
  BY <1>3, BoundedFacts DEF Tables
<1>5. m \in Memories
  <2>1. mem[p] \in Memories /\ mem[p].errors + 1 \in Nat /\ mem[p].closed + 1 \in Nat
    BY BoundedFacts, SeqFacts
  <2> QED
    BY <2>1, BoundedFacts DEF Memories
<1> HIDE DEF image, m
<1> QED
  BY <1>1, <1>2, <1>4, <1>5, BoundedFacts, BoundedStep

LEMMA FetchRaisesType ==
    ASSUME Inv, Inv', TypeOK, NEW p \in Sessions, FetchRaises(p)
    PROVE  TypeOK'
<1>1. UNCHANGED db /\ UNCHANGED pending /\ mem' = mem /\ UNCHANGED fetched
  BY DEF FetchRaises, dbvars
<1> QED
  BY <1>1, BoundedFacts, BoundedStep

(* The instants there are only get more.                                   *)
LEMMA BoundsGrow ==
    ASSUME Inv, NEW p \in Sessions, FetchReturns(p)
    PROVE  /\ Len(fetched') = Len(fetched) + 1 /\ Len(fetched) \in Nat
           /\ Tables \subseteq Tables' /\ Memories \subseteq Memories'
           /\ (Cursors \cup {None}) \subseteq (Cursors \cup {None})'
<1>1. Len(fetched') = Len(fetched) + 1 /\ Len(fetched) \in Nat
  <2>1. PICK f : fetched' = Append(fetched, f)
    BY DEF FetchReturns
  <2>2. fetched \in Seq(AnyFetch \cup {f})
    BY DEF Inv, Typed
  <2> QED
    BY <2>1, <2>2
<1>2. Cursors \subseteq Cursors' /\ Instants \subseteq Instants'
  BY <1>1 DEF Cursors, Instants
<1>3. StateRows \subseteq StateRows' /\ JobRows \subseteq JobRows' /\ Fetches \subseteq Fetches'
  BY <1>2 DEF StateRows, JobRows, Fetches
<1>4. \A S, U : S \subseteq U => Seq(S) \subseteq Seq(U)
  <2> SUFFICES ASSUME NEW S, NEW U, S \subseteq U, NEW s \in Seq(S) PROVE s \in Seq(U)
    OBVIOUS
  <2>1. s \in [1 .. Len(s) -> S] /\ Len(s) \in Nat
    OBVIOUS
  <2>2. s \in [1 .. Len(s) -> U]
    BY <2>1
  <2> QED
    BY <2>1, <2>2
<1>5. Tables \subseteq Tables'
  <2>1. Seq(StateRows) \subseteq Seq(StateRows')
    BY <1>3, <1>4
  <2>2. [Sessions -> Seq(StateRows)] \subseteq [Sessions -> Seq(StateRows')]
    BY <2>1
  <2>3. [Targets -> Cursors \cup {None}] \subseteq [Targets -> Cursors' \cup {None}]
    BY <1>2
  <2>4. [Keys -> JobRows \cup {None}] \subseteq [Keys -> JobRows' \cup {None}]
    BY <1>3
  <2> QED
    BY <2>2, <2>3, <2>4 DEF Tables
<1>6. Memories \subseteq Memories'
  <2>1. Seq(Cursors \cup {None}) \subseteq Seq(Cursors' \cup {None})
    BY <1>2, <1>4
  <2> QED
    BY <1>2, <1>3, <2>1 DEF Memories
<1> QED
  BY <1>1, <1>2, <1>5, <1>6

LEMMA FetchReturnsType ==
    ASSUME Inv, Inv', TypeOK, NEW p \in Sessions, FetchReturns(p)
    PROVE  TypeOK'
<1> DEFINE at == Len(fetched) + 1
           t == Target(p)
<1>1. PICK r \in Results(t, at) :
          /\ fetched' = Append(fetched, [run |-> p, target |-> t, jobs |-> r.jobs,
                                         next |-> r.next])
          /\ mem' = [mem EXCEPT ![p].result = [at |-> at, jobs |-> r.jobs,
                                               errors |-> r.errors, next |-> r.next]]
  BY DEF FetchReturns
<1> DEFINE f == [run |-> p, target |-> t, jobs |-> r.jobs, next |-> r.next]
           result == [at |-> at, jobs |-> r.jobs, errors |-> r.errors, next |-> r.next]
           m == [mem[p] EXCEPT !.result = result]
<1>2. pc[p] = "fetch" /\ UNCHANGED db /\ UNCHANGED pending
  BY DEF FetchReturns, dbvars
<1>3. /\ Len(fetched') = at /\ Len(fetched) \in Nat
      /\ Tables \subseteq Tables' /\ Memories \subseteq Memories'
      /\ (Cursors \cup {None}) \subseteq (Cursors \cup {None})'
  BY BoundsGrow
<1>4. at \in Cursors' /\ at \in Instants' /\ 0 \in Cursors' /\ at \in Nat
  BY <1>3 DEF Cursors, Instants
<1>5. t \in Targets /\ CursorOf[t] \in {"instant", "constant", "none"}
  BY <1>2, HandFacts, CollectorAssumption DEF Entered
<1>6. /\ r.jobs \in Listings /\ r.errors \in Nat /\ r.next \in Nat \cup {None}
      /\ r.next \in (Cursors \cup {None})'
  <2>1. /\ r.jobs \in Listings /\ r.errors \in {0, 1} /\ r.next \in {None, NextCursor(t, at)}
    BY DEF Results
  <2>2. NextCursor(t, at) \in {at, 0, None}
    BY <1>5 DEF NextCursor
  <2> QED
    BY <1>4, <2>1, <2>2
<1>7. fetched' \in Seq([run : Sessions, target : Targets, jobs : Listings,
                        next : Nat \cup {None}])
  <2>1. f \in [run : Sessions, target : Targets, jobs : Listings, next : Nat \cup {None}]
    BY <1>5, <1>6
  <2> QED
    BY <1>1, <2>1 DEF TypeOK
<1>8. mem' \in [Sessions -> Memories']
  <2>1. result \in Fetches'
    BY <1>4, <1>6 DEF Fetches
  <2> HIDE DEF result
  <2>2. mem[p] \in Memories'
    BY <1>3, BoundedFacts
  <2>3. m \in Memories'
    BY <2>1, <2>2 DEF Memories
  <2>4. mem \in [Sessions -> Memories']
    BY <1>3 DEF TypeOK
  <2>5. mem' = [mem EXCEPT ![p] = m]
    BY <1>1 DEF result
  <2> HIDE DEF m
  <2> QED
    BY <2>3, <2>4, <2>5
<1>9. db' \in Tables' /\ pending' \in Tables'
  BY <1>2, <1>3, BoundedFacts
<1>10. writer' \in Sessions \cup {NoSession} /\ pc' \in [Sessions -> Labels]
  BY DEF Inv, Typed
<1> QED
  BY <1>7, <1>8, <1>9, <1>10 DEF TypeOK

LEMMA RecordErrorsType ==
    ASSUME Inv, Inv', TypeOK, NEW p \in Sessions, RecordErrors(p)
    PROVE  TypeOK'
<1> DEFINE errors == mem[p].errors + mem[p].result.errors
           row == [View(p).runs[p] EXCEPT !.errors = errors]
           image == [View(p) EXCEPT !.runs[p] = row]
           m == [mem[p] EXCEPT !.errors = errors]
<1>1. pc[p] = "errors" /\ db' = db /\ pending' = image /\ UNCHANGED fetched
  BY DEF RecordErrors, Write
<1>2. mem' = [mem EXCEPT ![p] = m]
  BY BoundedFacts DEF RecordErrors, TypeOK
<1>3. errors \in Nat /\ View(p).runs[p] # None
  BY <1>1, BatchFacts DEF WithResult
<1> HIDE DEF errors
<1>4. row \in RunRows
  <2>1. View(p).runs[p] \in RunRows
    BY <1>3, BoundedFacts DEF Tables
  <2> QED
    BY <1>3, <2>1 DEF RunRows
<1> HIDE DEF row
<1>5. image \in Tables
  BY <1>4, BoundedFacts DEF Tables
<1>6. m \in Memories
  BY <1>3, BoundedFacts DEF Memories
<1> HIDE DEF image, m
<1> QED
  BY <1>1, <1>2, <1>5, <1>6, BoundedFacts, BoundedStep

LEMMA SelectJobType ==
    ASSUME Inv, Inv', TypeOK, NEW p \in Sessions, SelectJob(p)
    PROVE  TypeOK'
<1> DEFINE row == View(p).jobs[Job(p)]
           m == [mem[p] EXCEPT !.seen = @ + 1, !.loaded = row]
<1>1. pc[p] = "select" /\ UNCHANGED db /\ UNCHANGED pending /\ UNCHANGED fetched
  BY DEF SelectJob, dbvars
<1>2. mem' = [mem EXCEPT ![p] = m]
  BY BoundedFacts DEF SelectJob, TypeOK
<1>3. row \in JobRows \cup {None}
  <2>1. Job(p) \in Keys
    BY <1>1, BatchFacts DEF WithResult, InBatch
  <2> QED
    BY <2>1, BoundedFacts DEF Tables
<1> HIDE DEF row
<1>4. m \in Memories
  <2>1. mem[p].seen + 1 \in Nat
    BY BoundedFacts DEF Memories
  <2> QED
    BY <1>3, <2>1, BoundedFacts, ZenonT(60) DEF Memories
<1> HIDE DEF m
<1> QED
  BY <1>1, <1>2, <1>4, BoundedFacts, BoundedStep

(* The loop's body done, whatever row was put                              *)
LEMMA NextJobType ==
    ASSUME Inv, Inv', TypeOK, NEW p \in Sessions, NEW image \in Tables, JobFlushed(p, image),
           NEW status \in {"created", "updated", "unchanged"}, NextJob(p, status),
           UNCHANGED fetched
    PROVE  TypeOK'
<1> DEFINE n == Tally(mem[p], status)
           m == [n EXCEPT !.k = @ + 1, !.loaded = None]
<1>1. db' = db /\ pending' = image /\ mem' = [mem EXCEPT ![p] = m]
  BY DEF JobFlushed, Write, NextJob
<1>2. n \in Memories
  <2>1. mem[p] \in Memories /\ mem[p].created + 1 \in Nat /\ mem[p].updated + 1 \in Nat
    BY BoundedFacts, SMTT(60) DEF Memories
  <2>2. CASE status = "created"
    BY <2>1, <2>2 DEF Tally, Memories
  <2>3. CASE status = "updated"
    BY <2>1, <2>3 DEF Tally, Memories
  <2>4. CASE status = "unchanged"
    BY <2>1, <2>4 DEF Tally
  <2> QED
    BY <2>2, <2>3, <2>4
<1> HIDE DEF n
<1>3. m \in Memories
  <2>1. n.k + 1 \in Nat \ {0}
    BY <1>2 DEF Memories
  <2> QED
    BY <1>2, <2>1 DEF Memories
<1> HIDE DEF m
<1> QED
  BY <1>1, <1>3, BoundedFacts, BoundedStep

LEMMA RowBounded ==
    ASSUME Inv, TypeOK, NEW p \in Sessions, pc[p] = "flush", NEW born \in Sessions
    PROVE  Values(p, born) \in JobRows
<1>1. Target(p) \in Targets /\ mem[p].result # None /\ mem[p].k \in Nat \ {0}
  BY BatchFacts DEF WithResult, InBatch
<1>2. mem[p].result.at \in Instants
  BY <1>1, BoundedFacts DEF Memories, Fetches
<1> QED
  BY <1>1, <1>2 DEF Values, JobRows

LEMMA InsertJobType ==
    ASSUME Inv, Inv', TypeOK, NEW p \in Sessions, InsertJob(p)
    PROVE  TypeOK'
<1> DEFINE row == Values(p, p)
           image == [View(p) EXCEPT !.jobs[Job(p)] = row]
<1>1. pc[p] = "flush" /\ JobFlushed(p, image) /\ NextJob(p, "created") /\ UNCHANGED fetched
  BY DEF InsertJob
<1>2. row \in JobRows /\ Job(p) \in Keys
  BY <1>1, RowBounded, BatchFacts DEF WithResult, InBatch
<1> HIDE DEF row
<1>3. image \in Tables
  BY <1>2, BoundedFacts DEF Tables
<1> HIDE DEF image
<1> QED
  BY <1>1, <1>3, NextJobType

LEMMA UpdateJobType ==
    ASSUME Inv, Inv', TypeOK, NEW p \in Sessions, UpdateJob(p)
    PROVE  TypeOK'
<1> DEFINE old == mem[p].loaded
           new == Values(p, old.born)
           current == View(p).jobs[Job(p)]
           row == Dirty(current, old, new)
           image == [View(p) EXCEPT !.jobs[Job(p)] = row]
           status == IF new.hash # old.hash THEN "updated" ELSE "unchanged"
<1>1. /\ pc[p] = "flush" /\ old # None /\ JobFlushed(p, image) /\ NextJob(p, status)
      /\ UNCHANGED fetched
  BY DEF UpdateJob
<1>2. old \in JobRows /\ Job(p) \in Keys /\ current \in JobRows
  <2>1. Job(p) \in Keys /\ current # None
    BY <1>1, BatchFacts DEF WithResult, InBatch, Inv, ProcessOK, ResultOK, ProgressOK
  <2> QED
    BY <1>1, <2>1, BoundedFacts DEF Memories, Tables
<1>3. new \in JobRows
  <2>1. old.born \in Sessions
    BY <1>2 DEF JobRows
  <2> QED
    BY <1>1, <2>1, RowBounded
<1> HIDE DEF old, new, current
<1>4. row \in JobRows
  BY <1>2, <1>3 DEF JobRows, Dirty
<1> HIDE DEF row
<1>5. image \in Tables
  BY <1>2, <1>4, BoundedFacts DEF Tables
<1> HIDE DEF image
<1> QED
  BY <1>1, <1>5, NextJobType

LEMMA SelectCheckpointType ==
    ASSUME Inv, Inv', TypeOK, NEW p \in Sessions, SelectCheckpoint(p)
    PROVE  TypeOK'
<1> DEFINE cursor == View(p).checkpoints[Target(p)]
           m == [mem[p] EXCEPT !.found = cursor]
<1>1. /\ pc[p] = "cpselect" /\ UNCHANGED db /\ UNCHANGED pending /\ UNCHANGED fetched
      /\ mem' = [mem EXCEPT ![p] = m]
  BY DEF SelectCheckpoint, dbvars
<1>2. cursor \in Cursors \cup {None}
  BY <1>1, BatchFacts, BoundedFacts DEF WithResult, InBatch, Tables
<1> HIDE DEF cursor
<1>3. m \in Memories
  BY <1>2, BoundedFacts, ZenonT(60) DEF Memories
<1> HIDE DEF m
<1> QED
  BY <1>1, <1>3, BoundedFacts, BoundedStep

LEMMA FlushCheckpointType ==
    ASSUME Inv, Inv', TypeOK, NEW p \in Sessions, FlushCheckpoint(p)
    PROVE  TypeOK'
<1> DEFINE next == mem[p].result.next
           image == [View(p) EXCEPT !.checkpoints[Target(p)] = next]
           m == [mem[p] EXCEPT !.found = None]
<1>1. /\ pc[p] = "cpflush" /\ UNCHANGED fetched /\ mem' = [mem EXCEPT ![p] = m]
      /\ db' = db /\ pending' \in {pending, image}
  BY DEF FlushCheckpoint, CheckpointFlushed, Write, dbvars
<1>2. next \in Cursors \cup {None} /\ Target(p) \in Targets
  <2>1. mem[p].result # None /\ Target(p) \in Targets
    BY <1>1, BatchFacts DEF WithResult, InBatch
  <2>2. mem[p].result \in Fetches
    BY <2>1, BoundedFacts DEF Memories
  <2> QED
    BY <2>1, <2>2 DEF Fetches
<1> HIDE DEF next
<1>3. image \in Tables
  BY <1>2, BoundedFacts DEF Tables
<1>4. m \in Memories
  BY BoundedFacts, ZenonT(60) DEF Memories
<1> HIDE DEF image, m
<1> QED
  BY <1>1, <1>3, <1>4, BoundedFacts, BoundedStep

LEMMA CloseType ==
    ASSUME Inv, Inv', TypeOK, NEW p \in Sessions, Close(p)
    PROVE  TypeOK'
<1> DEFINE n == mem[p].closed + 1
           after == CheckpointAfter(mem[p])
           rows == View(p).states[p]
           row == [rows[n] EXCEPT !.after = after]
           new == [rows EXCEPT ![n] = row]
           image == [View(p) EXCEPT !.states[p] = new]
           m == [mem[p] EXCEPT !.closed = n, !.before = None, !.result = None, !.k = 1]
<1>1. /\ pc[p] = "close" /\ UNCHANGED fetched
      /\ db' \in {db, pending, image} /\ pending' \in {pending, image}
  BY DEF Close, Commit, WriteCommit, View
<1>2. mem' = [mem EXCEPT ![p] = m]
  BY BoundedFacts DEF Close, TypeOK
<1>3. after \in Cursors \cup {None}
  <2>1. mem[p].result \in Fetches /\ mem[p].before \in Cursors \cup {None}
    BY <1>1, BatchFacts, BoundedFacts DEF WithResult, InBatch, Memories
  <2> QED
    BY <2>1 DEF CheckpointAfter, Fetches
<1> HIDE DEF after
<1>4. n \in 1 .. Len(rows) /\ rows \in Seq(StateRows) /\ n \in Nat
  <2>1. View(p).states = db.states /\ n \in 1 .. Len(db.states[p])
    BY <1>1, ClosedImageFacts, BatchFacts DEF WithResult, InBatch
  <2> QED
    BY <2>1, SeqFacts, BoundedFacts DEF Tables
<1> HIDE DEF n
<1>5. new \in Seq(StateRows)
  <2>1. rows[n] \in StateRows
    BY <1>4
  <2>2. row \in StateRows
    BY <1>3, <2>1 DEF StateRows
  <2> HIDE DEF row, rows
  <2> QED
    BY <1>4, <2>2
<1> HIDE DEF new
<1>6. image \in Tables
  BY <1>5, BoundedFacts DEF Tables
<1>7. m \in Memories
  <2>1. PICK one \in Nat \ {0} : one = 1
    OBVIOUS
  <2>2. mem[p] \in Memories /\ n \in Nat
    BY <1>4, BoundedFacts
  <2> QED
    BY <2>1, <2>2 DEF Memories
<1> HIDE DEF image, m
<1> QED
  BY <1>1, <1>2, <1>6, <1>7, BoundedFacts, BoundedStep

LEMMA FinishType ==
    ASSUME Inv, Inv', TypeOK, NEW p \in Sessions, Finish(p)
    PROVE  TypeOK'
<1> DEFINE row == [status |-> StatusFor(mem[p]), seen |-> mem[p].seen,
                   created |-> mem[p].created, updated |-> mem[p].updated,
                   errors |-> mem[p].errors]
           image == [View(p) EXCEPT !.runs[p] = row]
<1>1. db' = image /\ pending' = image /\ mem' = mem /\ UNCHANGED fetched
  BY DEF Finish, WriteCommit
<1>2. row \in RunRows
  <2>1. StatusFor(mem[p]) \in {"running", "success", "partial_success", "failed"}
    BY DEF StatusFor
  <2> QED
    BY <2>1, BoundedFacts DEF Memories, RunRows
<1> HIDE DEF row
<1>3. image \in Tables
  BY <1>2, BoundedFacts DEF Tables
<1> HIDE DEF image
<1> QED
  BY <1>1, <1>3, BoundedFacts, BoundedStep

LEMMA InitType == Init => TypeOK
<1> SUFFICES ASSUME Init PROVE TypeOK
  OBVIOUS
<1>1. NoTables \in Tables
  <2>1. /\ [p \in Sessions |-> None] \in [Sessions -> RunRows \cup {None}]
        /\ [p \in Sessions |-> <<>>] \in [Sessions -> Seq(StateRows)]
        /\ [t \in Targets |-> None] \in [Targets -> Cursors \cup {None}]
        /\ [k \in Keys |-> None] \in [Keys -> JobRows \cup {None}]
    OBVIOUS
  <2> QED
    BY <2>1 DEF NoTables, Tables
<1>2. Start \in Memories
  <2>1. <<>> \in Seq(Targets) /\ <<>> \in Seq(Cursors \cup {None})
    OBVIOUS
  <2> QED
    BY <2>1 DEF Start, Memories
<1>3. pc \in [Sessions -> Labels]
  BY DEF Init, Labels
<1> QED
  BY <1>1, <1>2, <1>3 DEF Init, TypeOK

LEMMA TypeInvariance == Inv /\ Inv' /\ TypeOK /\ [Next]_vars => TypeOK'
<1> SUFFICES ASSUME Inv, Inv', TypeOK, [Next]_vars PROVE TypeOK'
  OBVIOUS
<1>1. CASE UNCHANGED vars
  <2>1. /\ db' = db /\ pending' = pending /\ writer' = writer /\ pc' = pc /\ mem' = mem
        /\ fetched' = fetched
    BY <1>1 DEF vars, dbvars
  <2> QED
    BY <2>1 DEF TypeOK, Tables, Memories, StateRows, JobRows, Fetches, Cursors, Instants
<1>2. CASE Next
  <2>1. PICK p \in Sessions : Crawl(p) \/ ResumeNames(p) \/ Step(p) \/ Crash(p)
    BY <1>2 DEF Next
  <2>2. CASE Crash(p) \/ UniqueViolation(p) \/ LockTimeout(p)
    BY <2>2, AbandonType DEF Crash, UniqueViolation, LockTimeout
  <2>3. CASE Crawl(p) \/ ResumeNames(p) \/ ResumeContexts(p) \/ CreateRun(p)
               \/ ReadCheckpoint(p) \/ CreateState(p) \/ FetchRaises(p) \/ RecordFailure(p)
               \/ FetchReturns(p)
    BY <2>3, CrawlType, ResumeNamesType, ResumeContextsType, CreateRunType,
       ReadCheckpointType, CreateStateType, FetchRaisesType, RecordFailureType,
       FetchReturnsType
  <2>4. CASE RecordErrors(p) \/ SelectJob(p) \/ InsertJob(p) \/ UpdateJob(p)
               \/ SelectCheckpoint(p) \/ FlushCheckpoint(p) \/ Close(p) \/ Finish(p)
    BY <2>4, RecordErrorsType, SelectJobType, InsertJobType, UpdateJobType,
       SelectCheckpointType, FlushCheckpointType, CloseType, FinishType
  <2> QED
    BY <2>1, <2>2, <2>3, <2>4 DEF Step
<1> QED
  BY <1>1, <1>2

(* The tables, the processes and the fetches have their types: no cursor   *)
(* and no row is of a fetch that has not returned, and a row is never half *)
(* of one.                                                                 *)
THEOREM TypesHold == Spec => []TypeOK
  BY InitType, TypeInvariance, Invariance, PTL DEF Spec
-----------------------------------------------------------------------------
(* What a step of p does, as far as another process can tell               *)
Effect(p) ==
    /\ Frame(p)
    /\ \/ UNCHANGED dbvars
       \/ /\ writer \in {NoSession, p} /\ writer' \in {NoSession, p}
          /\ \A new \in {db', pending'} :
                /\ JobsBy(p, db.jobs, new.jobs)
                /\ CursorsBy(p, db.checkpoints, new.checkpoints)

LEMMA QuietEffect ==
    ASSUME NEW p \in Sessions, Frame(p), UNCHANGED dbvars
    PROVE  Effect(p)
  BY DEF Effect

LEMMA FlushEffect ==
    ASSUME NEW p \in Sessions, Frame(p), NEW image, Write(p, image),
           JobsBy(p, db.jobs, image.jobs), CursorsBy(p, db.checkpoints, image.checkpoints)
    PROVE  Effect(p)
<1>1. JobsBy(p, db.jobs, db.jobs) /\ CursorsBy(p, db.checkpoints, db.checkpoints)
  BY DEF JobsBy, CursorsBy
<1>2. db' = db /\ pending' = image /\ writer \in {NoSession, p} /\ writer' = p
  BY DEF Write, CanWrite
<1> QED
  BY <1>1, <1>2 DEF Effect

LEMMA SaveEffect ==
    ASSUME NEW p \in Sessions, OneBatchOK(p), Frame(p), NEW image, WriteCommit(p, image),
           image.jobs = View(p).jobs, image.checkpoints = View(p).checkpoints
    PROVE  Effect(p)
<1>1. db' = image /\ pending' = image /\ writer \in {NoSession, p} /\ writer' = NoSession
  BY DEF WriteCommit, CanWrite
<1> QED
  BY <1>1 DEF Effect, OneBatchOK

LEMMA AbandonEffect ==
    ASSUME NEW p \in Sessions, Frame(p), NEW label, Abandon(p, label)
    PROVE  Effect(p)
<1>1. JobsBy(p, db.jobs, db.jobs) /\ CursorsBy(p, db.checkpoints, db.checkpoints)
  BY DEF JobsBy, CursorsBy
<1>2. CASE writer = p
  BY <1>1, <1>2 DEF Effect, Abandon, Rollback
<1>3. CASE writer # p
  BY <1>3 DEF Effect, Abandon, Rollback, dbvars
<1> QED
  BY <1>2, <1>3

(* The fetch in hand is one's own.                                         *)
LEMMA OwnFetch ==
    ASSUME Inv, NEW p \in Sessions, NEW q \in Sessions, p # q,
           pc[p] \in WithResult, pc[q] \in WithResult
    PROVE  mem[p].result.at # mem[q].result.at
  BY DEF Inv, ProcessOK, ResultOK

(* The cursor a fetch of t brings                                          *)
LEMMA NextFacts ==
    ASSUME Inv, NEW p \in Sessions, FreshOK(p), pc[p] \in WithResult,
           mem[p].result.next # None
    PROVE  /\ Target(p) \in Targets
           /\ CursorOf[Target(p)] \in {"instant", "constant"}
           /\ CursorOf[Target(p)] = "instant" => mem[p].result.next = mem[p].result.at
           /\ CursorOf[Target(p)] = "constant" => mem[p].result.next = 0
<1>1. Target(p) \in Targets
  BY BatchFacts
<1>2. CursorOf[Target(p)] \in {"instant", "constant", "none"}
  BY <1>1, CollectorAssumption
<1> QED
  BY <1>1, <1>2 DEF FreshOK, NextCursor

LEMMA ConstantStays ==
    ASSUME Inv, ConstantOK, NEW p \in Sessions, FreshOK(p), Effect(p)
    PROVE  ConstantOK'
<1> SUFFICES ASSUME NEW t \in Targets, CursorOf[t] = "constant"
             PROVE  db'.checkpoints[t] \in {0, None} /\ pending'.checkpoints[t] \in {0, None}
  BY DEF ConstantOK
<1>1. db.checkpoints[t] \in {0, None} /\ pending.checkpoints[t] \in {0, None}
  BY DEF ConstantOK
<1>2. CASE UNCHANGED dbvars
  BY <1>1, <1>2 DEF dbvars
<1>3. CASE ~UNCHANGED dbvars
  <2>1. ASSUME NEW new \in {db', pending'} PROVE new.checkpoints[t] \in {0, None}
    <3>1. CursorsBy(p, db.checkpoints, new.checkpoints)
      BY <1>3 DEF Effect
    <3>2. CASE new.checkpoints[t] = db.checkpoints[t]
      BY <1>1, <3>2
    <3>3. CASE new.checkpoints[t] # db.checkpoints[t]
      BY <3>1, <3>3, NextFacts DEF CursorsBy
    <3> QED
      BY <3>2, <3>3
  <2> QED
    BY <2>1
<1> QED
  BY <1>2, <1>3

LEMMA OthersLedger ==
    ASSUME Inv, Inv', LedgerInv, NEW p \in Sessions, Effect(p), NEW q \in Sessions, q # p
    PROVE  LedgerOK(q)'
<1> DEFINE r == mem[q].result
           t == Target(q)
<1>1. /\ pc'[q] = pc[q] /\ mem'[q] = mem[q] /\ db'.runs[q] = db.runs[q]
      /\ Target(q)' = t
  BY DEF Effect, Frame, Target
<1>2. LedgerOK(q) /\ FreshOK(p)
  BY DEF LedgerInv, LedgerOK
<1>3. CASE UNCHANGED dbvars
  <2>1. db' = db /\ pending' = pending /\ writer' = writer /\ View(q)' = View(q)
    BY <1>3 DEF dbvars, View
  <2>2. OneBatchOK(q)'
    BY <1>1, <1>2, <2>1 DEF LedgerOK, OneBatchOK, JobsBy, CursorsBy
  <2>3. FreshOK(q)'
    BY <1>1, <1>2, <2>1 DEF LedgerOK, FreshOK
  <2>4. RowOK(q)' /\ CountsOK(q)'
    BY <1>1, <1>2, <2>1 DEF LedgerOK, RowOK, CountsOK, BornIn
  <2> QED
    BY <2>2, <2>3, <2>4 DEF LedgerOK
<1>4. CASE ~UNCHANGED dbvars
  <2>1. /\ writer # q /\ writer' # q
        /\ \A new \in {db', pending'} : /\ JobsBy(p, db.jobs, new.jobs)
                                        /\ CursorsBy(p, db.checkpoints, new.checkpoints)
    BY <1>4, NoSessionAssumption DEF Effect
  <2>2. View(q) = db /\ View(q)' = db'
    BY <2>1 DEF View
  <2>3. pc[q] \in WithResult => t \in Targets
    BY BatchFacts
  <2>4. OneBatchOK(q)'
    <3>1. (JobsBy(q, db.jobs, View(q).jobs) /\ CursorsBy(q, db.checkpoints, View(q).checkpoints))'
      BY <2>2 DEF JobsBy, CursorsBy
    <3>2. ASSUME pc[q] = "close", r.next # None
          PROVE  db'.checkpoints[t] = r.next /\ CursorOf[t] = "constant"
      <4>1. db.checkpoints[t] = r.next /\ CursorOf[t] = "constant"
        BY <1>2, <2>1, <2>2, <3>2 DEF LedgerOK, OneBatchOK
      <4>2. CASE db'.checkpoints[t] = db.checkpoints[t]
        BY <4>1, <4>2
      <4>3. CASE db'.checkpoints[t] # db.checkpoints[t]
        <5>1. t \in Targets /\ pc[q] \in WithResult
          BY <2>3, <3>2 DEF WithResult, InBatch
        <5>2. t = Target(p) /\ pc[p] \in WithResult /\ db'.checkpoints[t] = mem[p].result.next
              /\ mem[p].result.next # None
          BY <2>1, <4>3, <5>1 DEF CursorsBy
        <5>3. mem[p].result.next = 0
          BY <1>2, <4>1, <5>2, NextFacts
        <5>4. r.next = 0
          BY <1>2, <3>2, <4>1, <5>1, NextFacts DEF LedgerOK
        <5> QED
          BY <4>1, <5>2, <5>3, <5>4
      <4> QED
        BY <4>2, <4>3
    <3> QED
      BY <1>1, <2>2, <3>1, <3>2 DEF OneBatchOK
  <2>5. FreshOK(q)'
    <3> SUFFICES ASSUME pc[q] \in WithResult PROVE FreshOK(q)'
      BY <1>1 DEF FreshOK
    <3>1. ASSUME NEW new \in {db', pending'}
          PROVE  /\ \A k \in Keys : new.jobs[k] # None /\ new.jobs[k].hash[1] = r.at =>
                       new.jobs[k].hash[2] < mem[q].k
                 /\ pc[q] # "close" /\ CursorOf[t] = "instant" => new.checkpoints[t] # r.at
      <4>1. ASSUME NEW k \in Keys, new.jobs[k] # None, new.jobs[k].hash[1] = r.at
            PROVE  new.jobs[k].hash[2] < mem[q].k
        <5>1. new.jobs[k] = db.jobs[k]
          BY <2>1, <4>1, OwnFetch DEF JobsBy
        <5> QED
          BY <1>2, <4>1, <5>1 DEF LedgerOK, FreshOK
      <4>2. ASSUME pc[q] # "close", CursorOf[t] = "instant" PROVE new.checkpoints[t] # r.at
        <5>1. CASE new.checkpoints[t] = db.checkpoints[t]
          BY <1>2, <4>2, <5>1 DEF LedgerOK, FreshOK
        <5>2. CASE new.checkpoints[t] # db.checkpoints[t]
          <6>1. t = Target(p) /\ pc[p] \in WithResult /\ new.checkpoints[t] = mem[p].result.next
                /\ mem[p].result.next # None
            BY <2>1, <2>3, <5>2 DEF CursorsBy
          <6>2. mem[p].result.next = mem[p].result.at
            BY <1>2, <4>2, <6>1, NextFacts
          <6> QED
            BY <6>1, <6>2, OwnFetch
        <5> QED
          BY <5>1, <5>2
      <4> QED
        BY <4>1, <4>2
    <3>2. ASSUME pc[q] = "cpflush", mem[q].found # None
          PROVE  db'.checkpoints[t] # None
      <4>1. db.checkpoints[t] # None
        BY <1>2, <2>2, <3>2 DEF LedgerOK, FreshOK
      <4> QED
        BY <2>1, <2>3, <4>1 DEF CursorsBy
    <3> QED
      BY <1>1, <1>2, <2>2, <3>1, <3>2 DEF LedgerOK, FreshOK
  <2>6. RowOK(q)'
    BY <1>1, <1>2, <2>2 DEF LedgerOK, RowOK
  <2>7. CountsOK(q)'
    <3>1. BornIn(db'.jobs, q) = BornIn(db.jobs, q)
      BY <2>1 DEF JobsBy, BornIn
    <3> QED
      BY <1>1, <1>2, <2>2, <3>1 DEF LedgerOK, CountsOK
  <2> QED
    BY <2>4, <2>5, <2>6, <2>7 DEF LedgerOK
<1> QED
  BY <1>3, <1>4

LEMMA LedgerStep ==
    ASSUME Inv, Inv', LedgerInv, NEW p \in Sessions, Effect(p), LedgerOK(p)'
    PROVE  LedgerInv'
<1>1. ConstantOK'
  BY ConstantStays DEF LedgerInv, LedgerOK
<1>2. ASSUME NEW q \in Sessions PROVE LedgerOK(q)'
  BY OthersLedger
<1> QED
  BY <1>1, <1>2 DEF LedgerInv

(* Steps that end outside a batch, and put nothing into the tables that    *)
(* was not in the batch already                                            *)
LEMMA OutsideLedger ==
    ASSUME Inv, Inv', NEW p \in Sessions, LedgerOK(p),
           pc[p] \notin {"aborted", "killed", "flush"}, pc'[p] \notin WithResult,
           db'.jobs = View(p).jobs,
           mem'[p].seen = mem[p].seen, mem'[p].created = mem[p].created,
           mem'[p].updated = mem[p].updated,
           db'.runs[p] # None => db'.runs[p].errors = mem'[p].errors,
           pc'[p] = "done" /\ db'.runs[p] # None =>
              /\ db'.runs[p].seen = mem[p].seen
              /\ db'.runs[p].created = mem[p].created
              /\ db'.runs[p].updated = mem[p].updated,
           pc'[p] \in Before \/ mem'[p].plan = <<>> => pc[p] \in Before \/ mem[p].plan = <<>>,
           pc'[p] \in Before => pc[p] \in Before /\ mem'[p].errors = mem[p].errors
    PROVE  LedgerOK(p)'
<1>1. View(p)' = db'
  BY DEF Inv, BatchOK, View, WithResult
<1>2. OneBatchOK(p)' /\ FreshOK(p)'
  BY <1>1 DEF OneBatchOK, FreshOK, JobsBy, CursorsBy, WithResult, InBatch
<1>3. RowOK(p)'
  BY <1>1 DEF RowOK, WithResult
<1>4. CountsOK(p)'
  <2>1. BornIn(View(p)'.jobs, p) = BornIn(View(p).jobs, p)
    BY <1>1
  <2>2. pc'[p] # "flush"
    BY DEF WithResult, InBatch
  <2> QED
    BY <2>1, <2>2 DEF LedgerOK, CountsOK, BornIn
<1> QED
  BY <1>2, <1>3, <1>4 DEF LedgerOK

LEMMA AbandonLedger ==
    ASSUME Inv, Inv', LedgerInv, NEW p \in Sessions, NEW label \in {"aborted", "killed"},
           Abandon(p, label), Frame(p)
    PROVE  LedgerInv'
<1>1. pc'[p] = label
  BY DEF Abandon, Goto, Inv, Typed
<1>2. LedgerOK(p)'
  <2>1. View(p)' = db'
    BY <1>1 DEF Inv, BatchOK, View, InBatch
  <2> QED
    BY <1>1, <2>1 DEF LedgerOK, OneBatchOK, FreshOK, RowOK, CountsOK, JobsBy, CursorsBy,
                      WithResult, InBatch
<1> QED
  BY <1>2, AbandonEffect, LedgerStep
-----------------------------------------------------------------------------
(* The steps, one by one                                                   *)

(* Steps outside a batch that leave the database as it is                  *)
LEMMA CalmLedger ==
    ASSUME Inv, Inv', LedgerInv, NEW p \in Sessions, UNCHANGED dbvars, UNCHANGED fetched,
           pc[p] \notin WithResult \cup {"aborted", "killed"},
           NEW label \in Before \cup Waits \cup {"handler"}, Goto(p, label),
           NEW m, mem' = [mem EXCEPT ![p] = m],
           m.seen = mem[p].seen, m.created = mem[p].created, m.updated = mem[p].updated,
           m.errors = mem[p].errors, label \notin Before => m.plan = mem[p].plan,
           label \in Before => pc[p] \in Before
    PROVE  LedgerInv'
<1>1. Frame(p) /\ pc'[p] = label /\ mem'[p] = m /\ db' = db
  BY QuietFrame DEF dbvars
<1>2. View(p) = db
  BY ViewFacts DEF Inv, WithResult
<1>3. LedgerOK(p)
  BY DEF LedgerInv
<1>4. db'.runs[p] # None => db'.runs[p].errors = mem'[p].errors
  BY <1>1, <1>3 DEF LedgerOK, RowOK, WithResult
<1>5. LedgerOK(p)'
  BY <1>1, <1>2, <1>3, <1>4, OutsideLedger DEF Before, Waits, WithResult, InBatch
<1> QED
  BY <1>1, <1>5, QuietEffect, LedgerStep

LEMMA CrawlLedgerStep ==
    ASSUME Inv, Inv', LedgerInv, NEW p \in Sessions, Crawl(p)
    PROVE  LedgerInv'
<1>1. PICK plan \in Plans : mem' = [mem EXCEPT ![p].plan = plan]
  BY DEF Crawl
<1> DEFINE m == [mem[p] EXCEPT !.plan = plan]
<1>2. /\ pc[p] = "idle" /\ Goto(p, "create") /\ UNCHANGED dbvars /\ UNCHANGED fetched
      /\ mem' = [mem EXCEPT ![p] = m]
  BY <1>1 DEF Crawl, Free
<1>3. /\ m.seen = mem[p].seen /\ m.created = mem[p].created /\ m.updated = mem[p].updated
      /\ m.errors = mem[p].errors
  BY SeqFacts DEF Mems
<1> HIDE DEF m
<1> QED
  BY <1>2, <1>3, CalmLedger DEF Before, WithResult, InBatch

LEMMA ResumeNamesLedger ==
    ASSUME Inv, Inv', LedgerInv, NEW p \in Sessions, ResumeNames(p)
    PROVE  LedgerInv'
<1>1. PICK o, plan : mem' = [mem EXCEPT ![p].origin = o, ![p].plan = plan]
  BY DEF ResumeNames
<1> DEFINE m == [mem[p] EXCEPT !.origin = o, !.plan = plan]
<1>2. /\ pc[p] = "idle" /\ Goto(p, "context") /\ UNCHANGED dbvars /\ UNCHANGED fetched
      /\ mem' = [mem EXCEPT ![p] = m]
  BY <1>1, SeqFacts DEF ResumeNames, Free, Inv, Typed
<1>3. /\ m.seen = mem[p].seen /\ m.created = mem[p].created /\ m.updated = mem[p].updated
      /\ m.errors = mem[p].errors
  BY SeqFacts DEF Mems
<1> HIDE DEF m
<1> QED
  BY <1>2, <1>3, CalmLedger DEF Before, WithResult, InBatch

LEMMA ResumeContextsLedger ==
    ASSUME Inv, Inv', LedgerInv, NEW p \in Sessions, ResumeContexts(p)
    PROVE  LedgerInv'
<1>1. PICK contexts : mem' = [mem EXCEPT ![p].contexts = contexts]
  BY DEF ResumeContexts
<1> DEFINE m == [mem[p] EXCEPT !.contexts = contexts]
<1>2. /\ pc[p] = "context" /\ Goto(p, "create") /\ UNCHANGED dbvars /\ UNCHANGED fetched
      /\ mem' = [mem EXCEPT ![p] = m]
  BY <1>1 DEF ResumeContexts
<1>3. /\ m.seen = mem[p].seen /\ m.created = mem[p].created /\ m.updated = mem[p].updated
      /\ m.errors = mem[p].errors
  BY SeqFacts DEF Mems
<1> HIDE DEF m
<1> QED
  BY <1>2, <1>3, CalmLedger DEF Before, WithResult, InBatch

LEMMA ReadCheckpointLedger ==
    ASSUME Inv, Inv', LedgerInv, NEW p \in Sessions, ReadCheckpoint(p)
    PROVE  LedgerInv'
<1> DEFINE m == [mem[p] EXCEPT !.before = CheckpointFor(p)]
<1>1. /\ pc[p] = "adapter" /\ Goto(p, "state") /\ UNCHANGED dbvars /\ UNCHANGED fetched
      /\ mem' = [mem EXCEPT ![p] = m]
  BY DEF ReadCheckpoint
<1>2. /\ m.seen = mem[p].seen /\ m.created = mem[p].created /\ m.updated = mem[p].updated
      /\ m.errors = mem[p].errors /\ m.plan = mem[p].plan
  BY SeqFacts DEF Mems
<1> HIDE DEF m
<1>3. /\ "state" \in Before \cup Waits \cup {"handler"} /\ "state" \notin Before
      /\ pc[p] \notin WithResult \cup {"aborted", "killed"}
  BY <1>1 DEF Before, Waits, WithResult, InBatch
<1> QED
  BY <1>1, <1>2, <1>3, CalmLedger

LEMMA FetchRaisesLedger ==
    ASSUME Inv, Inv', LedgerInv, NEW p \in Sessions, FetchRaises(p)
    PROVE  LedgerInv'
<1>1. /\ pc[p] = "fetch" /\ Goto(p, "handler") /\ UNCHANGED dbvars /\ UNCHANGED fetched
      /\ UNCHANGED mem
  BY DEF FetchRaises
<1>2. PICK m : m = mem[p]
  OBVIOUS
<1>3. mem' = [mem EXCEPT ![p] = m]
  BY <1>1, <1>2 DEF Inv, Typed
<1>4. /\ "handler" \in Before \cup Waits \cup {"handler"} /\ "handler" \notin Before
      /\ pc[p] \notin WithResult \cup {"aborted", "killed"}
  BY <1>1 DEF Before, Waits, WithResult, InBatch
<1>5. /\ m.seen = mem[p].seen /\ m.created = mem[p].created /\ m.updated = mem[p].updated
      /\ m.errors = mem[p].errors /\ m.plan = mem[p].plan
  BY <1>2
<1> QED
  BY <1>1, <1>3, <1>4, <1>5, CalmLedger

(* Steps that end outside a batch and save the run's row, or a state row   *)
LEMMA SavedLedger ==
    ASSUME Inv, Inv', LedgerInv, NEW p \in Sessions, Frame(p),
           NEW image, WriteCommit(p, image),
           image.jobs = View(p).jobs, image.checkpoints = View(p).checkpoints,
           pc[p] \notin {"aborted", "killed", "flush"}, pc'[p] \notin WithResult \cup Before,
           mem'[p].seen = mem[p].seen, mem'[p].created = mem[p].created,
           mem'[p].updated = mem[p].updated, mem'[p].plan = mem[p].plan,
           image.runs[p].errors = mem'[p].errors,
           pc'[p] = "done" =>
              /\ image.runs[p].seen = mem[p].seen
              /\ image.runs[p].created = mem[p].created
              /\ image.runs[p].updated = mem[p].updated
    PROVE  Effect(p) /\ LedgerInv'
<1>1. db' = image
  BY DEF WriteCommit
<1>2. LedgerOK(p)
  BY DEF LedgerInv
<1>3. LedgerOK(p)'
  BY <1>1, <1>2, OutsideLedger
<1>4. Effect(p)
  BY <1>2, SaveEffect DEF LedgerOK
<1> QED
  BY <1>3, <1>4, LedgerStep

LEMMA CreateRunLedger ==
    ASSUME Inv, Inv', LedgerInv, NEW p \in Sessions, CreateRun(p)
    PROVE  LedgerInv'
<1> DEFINE image == [View(p) EXCEPT !.runs[p] = NewRun]
           label == LoopHead(mem[p])
           m == mem[p]
<1>1. /\ pc[p] = "create" /\ WriteCommit(p, image) /\ Goto(p, label) /\ UNCHANGED fetched
      /\ mem' = [mem EXCEPT ![p] = m]
  BY OwnMem DEF CreateRun
<1>2. View(p) \in Images /\ View(p) = db
  BY <1>1, ViewFacts DEF Inv, InBatch
<1>3. /\ image.jobs = View(p).jobs /\ image.checkpoints = View(p).checkpoints
      /\ image.states = db.states /\ image.runs[p] = NewRun
      /\ \A q \in Sessions \ {p} : image.runs[q] = View(p).runs[q]
  BY <1>2 DEF Images
<1>4. label \notin WithResult \cup Before /\ label # "done"
  BY DEF LoopHead, WithResult, InBatch, Before
<1>5. image.runs[p].errors = m.errors
  <2>1. mem[p].errors = 0
    BY <1>1 DEF LedgerInv, LedgerOK, CountsOK, Before
  <2> QED
    BY <1>3, <2>1 DEF NewRun
<1> HIDE DEF image, label, m
<1>6. Frame(p) /\ pc'[p] = label /\ mem'[p] = m
  <2>1. db' = image
    BY <1>1 DEF WriteCommit
  <2>2. JobsGrow(View(p).jobs, image.jobs) /\ RowsKept(db.states[p], image.states[p])
    BY <1>3, SeqFacts, GrowReflexive
  <2> QED
    BY <1>1, <1>3, <2>1, <2>2, SavedFrame
<1>7. Effect(p) /\ LedgerInv'
  BY <1>1, <1>3, <1>4, <1>5, <1>6, SavedLedger DEF m
<1> QED
  BY <1>7

LEMMA CreateStateLedger ==
    ASSUME Inv, Inv', LedgerInv, NEW p \in Sessions, CreateState(p)
    PROVE  LedgerInv'
<1> DEFINE rows == View(p).states[p]
           new == Append(rows, NewState(Target(p), mem[p].before))
           image == [View(p) EXCEPT !.states[p] = new]
           m == mem[p]
<1>1. /\ pc[p] = "state" /\ WriteCommit(p, image) /\ Goto(p, "fetch") /\ UNCHANGED fetched
      /\ mem' = [mem EXCEPT ![p] = m]
  BY OwnMem DEF CreateState, StateSaved
<1>2. View(p) \in Images /\ View(p) = db
  BY <1>1, ViewFacts DEF Inv, InBatch
<1>3. RowsKept(db.states[p], new)
  <2> DEFINE row == NewState(Target(p), mem[p].before)
  <2>1. PICK S : rows \in Seq(S) /\ row \in S /\ rows = db.states[p]
    <3>1. rows \in Seq(AnyState \cup {row}) /\ row \in AnyState \cup {row}
      BY <1>2, SeqFacts
    <3> QED
      BY <1>2, <3>1
  <2> HIDE DEF row
  <2>2. Len(new) = Len(rows) + 1 /\ Len(rows) \in Nat
        /\ \A i \in 1 .. Len(rows) : new[i] = rows[i]
    BY <2>1 DEF row
  <2> HIDE DEF rows, new
  <2> QED
    BY <2>1, <2>2 DEF RowsKept
<1> HIDE DEF new
<1>4. /\ image.jobs = View(p).jobs /\ image.checkpoints = View(p).checkpoints
      /\ image.states[p] = new /\ image.runs = View(p).runs
      /\ \A q \in Sessions \ {p} :
            image.runs[q] = View(p).runs[q] /\ image.states[q] = db.states[q]
  BY <1>2 DEF Images
<1>5. image.runs[p].errors = m.errors
  <2>1. db.runs[p] # None
    BY <1>1 DEF Inv, ProcessOK, RowsOK, Waits
  <2>2. db.runs[p].errors = mem[p].errors
    BY <1>1, <2>1 DEF LedgerInv, LedgerOK, RowOK, InBatch
  <2> QED
    BY <1>2, <1>4, <2>2
<1> HIDE DEF image, m
<1>6. Frame(p) /\ pc'[p] = "fetch" /\ mem'[p] = m
  <2>1. db' = image
    BY <1>1 DEF WriteCommit
  <2>2. JobsGrow(View(p).jobs, image.jobs) /\ RowsKept(db.states[p], image.states[p])
    BY <1>3, <1>4, GrowReflexive
  <2>3. \A q \in Sessions \ {p} :
            image.runs[q] = View(p).runs[q] /\ image.states[q] = db.states[q]
    BY <1>4
  <2>4. UNCHANGED fetched /\ Goto(p, "fetch") /\ mem' = [mem EXCEPT ![p] = m]
    BY <1>1
  <2> QED
    BY <2>1, <2>2, <2>3, <2>4, SavedFrame, ZenonT(60)
<1>7. "fetch" \notin WithResult \cup Before /\ pc[p] \notin {"aborted", "killed", "flush"}
  BY <1>1 DEF WithResult, InBatch, Before
<1>8. Effect(p) /\ LedgerInv'
  BY <1>1, <1>4, <1>5, <1>6, <1>7, SavedLedger DEF m
<1> QED
  BY <1>8

LEMMA RecordFailureLedger ==
    ASSUME Inv, Inv', LedgerInv, NEW p \in Sessions, RecordFailure(p)
    PROVE  LedgerInv'
<1> DEFINE row == [View(p).runs[p] EXCEPT !.errors = mem[p].errors + 1]
           image == [View(p) EXCEPT !.runs[p] = row]
           m == [mem[p] EXCEPT !.errors = @ + 1, !.closed = @ + 1, !.before = None]
           label == LoopHead(m)
<1>1. /\ pc[p] = "handler" /\ WriteCommit(p, image) /\ UNCHANGED fetched
      /\ mem' = [mem EXCEPT ![p] = m]
  BY OwnMem DEF RecordFailure, Inv, Typed
<1>2. Goto(p, label)
  BY <1>1, OwnMem DEF RecordFailure, AfterFailure, Inv, Typed
<1>3. View(p) \in Images /\ View(p).states = db.states /\ View(p).runs[p] \in AnyRun
  BY <1>1, HandFacts DEF Entered
<1>4. /\ image.jobs = View(p).jobs /\ image.checkpoints = View(p).checkpoints
      /\ image.states = db.states /\ image.runs[p] = row
      /\ \A q \in Sessions \ {p} : image.runs[q] = View(p).runs[q]
  BY <1>3 DEF Images
<1>5. image.runs[p].errors = m.errors
  BY <1>3, <1>4, SeqFacts DEF AnyRun, Mems
<1>6. /\ m.seen = mem[p].seen /\ m.created = mem[p].created /\ m.updated = mem[p].updated
      /\ m.plan = mem[p].plan
  BY SeqFacts DEF Mems
<1>7. label \notin WithResult \cup Before /\ label # "done"
      /\ pc[p] \notin {"aborted", "killed", "flush"}
  BY <1>1 DEF LoopHead, WithResult, InBatch, Before
<1> HIDE DEF row, image, m, label
<1>8. Frame(p) /\ pc'[p] = label /\ mem'[p] = m
  <2>1. db' = image
    BY <1>1 DEF WriteCommit
  <2>2. JobsGrow(View(p).jobs, image.jobs) /\ RowsKept(db.states[p], image.states[p])
    BY <1>4, SeqFacts, GrowReflexive
  <2> QED
    BY <1>1, <1>2, <1>4, <2>1, <2>2, SavedFrame
<1>9. Effect(p) /\ LedgerInv'
  BY <1>1, <1>4, <1>5, <1>6, <1>7, <1>8, SavedLedger
<1> QED
  BY <1>9

LEMMA FinishLedger ==
    ASSUME Inv, Inv', LedgerInv, NEW p \in Sessions, Finish(p)
    PROVE  LedgerInv'
<1> DEFINE row == [status |-> StatusFor(mem[p]), seen |-> mem[p].seen,
                   created |-> mem[p].created, updated |-> mem[p].updated,
                   errors |-> mem[p].errors]
           image == [View(p) EXCEPT !.runs[p] = row]
           m == mem[p]
<1>1. /\ pc[p] = "finish" /\ WriteCommit(p, image) /\ Goto(p, "done") /\ UNCHANGED fetched
      /\ mem' = [mem EXCEPT ![p] = m]
  BY OwnMem DEF Finish
<1>2. View(p) \in Images /\ View(p).states = db.states
  BY <1>1, HandFacts
<1>3. /\ row.errors = m.errors /\ row.seen = m.seen /\ row.created = m.created
      /\ row.updated = m.updated
  OBVIOUS
<1> HIDE DEF row
<1>4. /\ image.jobs = View(p).jobs /\ image.checkpoints = View(p).checkpoints
      /\ image.states = db.states /\ image.runs[p] = row
      /\ \A q \in Sessions \ {p} : image.runs[q] = View(p).runs[q]
  BY <1>2 DEF Images
<1>5. "done" \notin WithResult \cup Before /\ pc[p] \notin {"aborted", "killed", "flush"}
  BY <1>1 DEF WithResult, InBatch, Before
<1> HIDE DEF image, m
<1>6. Frame(p) /\ pc'[p] = "done" /\ mem'[p] = m
  <2>1. db' = image
    BY <1>1 DEF WriteCommit
  <2>2. JobsGrow(View(p).jobs, image.jobs) /\ RowsKept(db.states[p], image.states[p])
    BY <1>4, SeqFacts, GrowReflexive
  <2> QED
    BY <1>1, <1>4, <2>1, <2>2, SavedFrame, ZenonT(60)
<1>7. Effect(p) /\ LedgerInv'
  BY <1>1, <1>3, <1>4, <1>5, <1>6, SavedLedger DEF m
<1> QED
  BY <1>7

LEMMA AbandonedLedger ==
    ASSUME Inv, Inv', LedgerInv, NEW p \in Sessions, NEW label \in {"aborted", "killed"},
           Abandon(p, label)
    PROVE  LedgerInv'
<1> DEFINE m == [Start EXCEPT !.plan = mem[p].plan, !.origin = mem[p].origin,
                              !.closed = mem[p].closed]
<1>1. /\ UNCHANGED db /\ UNCHANGED fetched /\ Goto(p, label)
      /\ mem' = [mem EXCEPT ![p] = m]
  BY DEF Abandon, Rollback
<1> HIDE DEF m
<1> QED
  BY <1>1, QuietFrame, AbandonLedger

(* A fetch that has returned is newer than every row and cursor there is.  *)
LEMMA NewFetch ==
    ASSUME TypeOK, NEW image \in {db, pending}
    PROVE  /\ \A k \in Keys : image.jobs[k] # None => image.jobs[k].hash[1] # Len(fetched) + 1
           /\ \A t \in Targets : image.checkpoints[t] # Len(fetched) + 1
<1>1. image \in Tables /\ Len(fetched) \in Nat
  BY DEF TypeOK
<1>2. ASSUME NEW k \in Keys, image.jobs[k] # None
      PROVE  image.jobs[k].hash[1] # Len(fetched) + 1
  <2>1. image.jobs[k] \in JobRows
    BY <1>1, <1>2 DEF Tables
  <2>2. image.jobs[k].hash[1] \in 1 .. Len(fetched)
    BY <2>1 DEF JobRows, Instants
  <2> QED
    BY <1>1, <2>2
<1>3. ASSUME NEW t \in Targets PROVE image.checkpoints[t] # Len(fetched) + 1
  <2>1. image.checkpoints[t] \in 0 .. Len(fetched) \cup {None}
    BY <1>1 DEF Tables, Cursors
  <2> QED
    BY <1>1, <2>1, CollectorAssumption
<1> QED
  BY <1>2, <1>3

LEMMA FetchReturnsLedger ==
    ASSUME Inv, Inv', TypeOK, LedgerInv, NEW p \in Sessions, FetchReturns(p)
    PROVE  LedgerInv'
<1> DEFINE at == Len(fetched) + 1
           t == Target(p)
<1>1. PICK r \in Results(t, at) :
          /\ fetched' = Append(fetched, [run |-> p, target |-> t, jobs |-> r.jobs,
                                         next |-> r.next])
          /\ mem' = [mem EXCEPT ![p].result = [at |-> at, jobs |-> r.jobs,
                                               errors |-> r.errors, next |-> r.next]]
          /\ Goto(p, IF r.errors > 0 THEN "errors" ELSE AfterErrors(r))
  BY DEF FetchReturns
<1> DEFINE f == [run |-> p, target |-> t, jobs |-> r.jobs, next |-> r.next]
           result == [at |-> at, jobs |-> r.jobs, errors |-> r.errors, next |-> r.next]
           label == IF r.errors > 0 THEN "errors" ELSE AfterErrors(r)
<1>2. pc[p] = "fetch" /\ UNCHANGED dbvars
  BY DEF FetchReturns
<1>3. r.errors \in {0, 1} /\ r.next \in {None, NextCursor(t, at)}
  BY DEF Results
<1>4. /\ mem'[p] = [mem[p] EXCEPT !.result = result] /\ pc'[p] = label
      /\ \A q \in Sessions \ {p} : pc'[q] = pc[q] /\ mem'[q] = mem[q]
  BY <1>1 DEF Inv, Typed, Goto
<1>5. Frame(p)
  <2>1. /\ Len(fetched) <= Len(fetched')
        /\ \A i \in 1 .. Len(fetched) : fetched'[i] = fetched[i]
    <3>1. fetched \in Seq(AnyFetch \cup {f}) /\ f \in AnyFetch \cup {f}
      BY DEF Inv, Typed
    <3> HIDE DEF f
    <3>2. fetched' = Append(fetched, f)
      BY <1>1 DEF f
    <3> QED
      BY <3>1, <3>2
  <2> QED
    BY <1>2, <1>4, <2>1, SeqFacts, GrowReflexive DEF Frame, dbvars
<1>6. /\ mem'[p].result = result /\ mem'[p].plan = mem[p].plan
      /\ mem'[p].closed = mem[p].closed /\ mem'[p].k = mem[p].k
      /\ mem'[p].seen = mem[p].seen /\ mem'[p].created = mem[p].created
      /\ mem'[p].updated = mem[p].updated /\ mem'[p].errors = mem[p].errors
  BY <1>4, SeqFacts DEF Mems
<1>7. /\ Target(p)' = t /\ t \in Targets /\ db' = db /\ pending' = pending
      /\ View(p) = db /\ View(p)' = db
  <2>1. writer # p /\ db' = db /\ pending' = pending /\ writer' = writer
    BY <1>2 DEF Inv, BatchOK, InBatch, dbvars
  <2>2. t \in Targets
    BY <1>2, HandFacts DEF Entered
  <2> QED
    BY <1>6, <2>1, <2>2 DEF Target, View
<1>8. /\ label \in {"errors", "select", "cpselect", "close"}
      /\ label = "close" => r.next = None
      /\ label # "errors" => r.errors = 0
  BY <1>3 DEF AfterErrors, AfterJobs
<1> HIDE DEF label
<1>9. LedgerOK(p)
  BY DEF LedgerInv
<1>10. OneBatchOK(p)'
  BY <1>4, <1>6, <1>7, <1>8 DEF OneBatchOK, JobsBy, CursorsBy
<1>11. FreshOK(p)'
  BY <1>3, <1>4, <1>6, <1>7, <1>8, NewFetch DEF FreshOK
<1>12. RowOK(p)'
  <2>1. db.runs[p] # None /\ db.runs[p] \in AnyRun
    BY <1>2, <1>7, HandFacts DEF Entered
  <2>2. db.runs[p].errors = mem[p].errors
    BY <1>2, <1>9, <2>1 DEF LedgerOK, RowOK, InBatch
  <2>3. db.runs[p] = [db.runs[p] EXCEPT !.errors = mem[p].errors]
    BY <2>1, <2>2 DEF AnyRun
  <2>4. pc'[p] \in InBatch => mem'[p].errors = db.runs[p].errors + mem'[p].result.errors
    <3>1. mem[p].errors + 0 = mem[p].errors
      BY SeqFacts
    <3> QED
      BY <1>4, <1>6, <1>8, <2>2, <3>1 DEF InBatch
  <2> QED
    BY <1>4, <1>6, <1>7, <1>8, <2>2, <2>3, <2>4 DEF RowOK, InBatch
<1>13. CountsOK(p)'
  <2>1. pc'[p] \notin Before /\ pc'[p] # "flush"
    BY <1>4, <1>8 DEF Before
  <2> QED
    BY <1>2, <1>6, <1>7, <1>9, <2>1 DEF LedgerOK, CountsOK, BornIn
<1> QED
  BY <1>2, <1>5, <1>10, <1>11, <1>12, <1>13, QuietEffect, LedgerStep DEF LedgerOK

(* A step within the batch that keeps the result in hand                   *)
SameResult(m, n) ==
    /\ n.plan = m.plan /\ n.closed = m.closed /\ n.result = m.result
    /\ n.created = m.created /\ n.updated = m.updated /\ n.k = m.k

LEMMA RecordErrorsLedger ==
    ASSUME Inv, Inv', LedgerInv, NEW p \in Sessions, RecordErrors(p)
    PROVE  LedgerInv'
<1> DEFINE errors == mem[p].errors + mem[p].result.errors
           row == [View(p).runs[p] EXCEPT !.errors = errors]
           image == [View(p) EXCEPT !.runs[p] = row]
           m == [mem[p] EXCEPT !.errors = errors]
           label == AfterErrors(mem[p].result)
<1>1. /\ pc[p] = "errors" /\ Write(p, image) /\ Goto(p, label) /\ UNCHANGED fetched
      /\ mem' = [mem EXCEPT ![p] = m]
  BY OwnMem DEF RecordErrors, Inv, Typed
<1>2. /\ View(p) \in Images /\ View(p) = db /\ View(p).runs[p] \in AnyRun /\ db.runs[p] # None
  BY <1>1, BatchFacts, ViewFacts DEF Inv, WithResult, InBatch
<1>3. /\ image.jobs = db.jobs /\ image.checkpoints = db.checkpoints /\ image.runs[p] = row
  BY <1>2 DEF Images
<1>4. m.errors = errors /\ m.seen = mem[p].seen /\ SameResult(mem[p], m)
  BY SeqFacts DEF Mems, SameResult
<1>5. /\ label \in {"select", "cpselect", "close"}
      /\ label = "close" => mem[p].result.next = None
  BY DEF AfterErrors, AfterJobs
<1> HIDE DEF label, m, image
<1>6. Frame(p) /\ pc'[p] = label /\ mem'[p] = m
  <2>1. UNCHANGED db
    BY <1>1 DEF Write
  <2> QED
    BY <1>1, <2>1, QuietFrame
<1>7. /\ db' = db /\ pending' = image /\ writer' = p /\ View(p)' = image /\ Target(p)' = Target(p)
  BY <1>1, <1>4, <1>6 DEF Write, View, Target, SameResult
<1>8. LedgerOK(p)
  BY DEF LedgerInv
<1>9. OneBatchOK(p)'
  BY <1>3, <1>4, <1>5, <1>6, <1>7 DEF OneBatchOK, JobsBy, CursorsBy, SameResult
<1>10. FreshOK(p)'
  BY <1>1, <1>3, <1>4, <1>5, <1>6, <1>7, <1>8
     DEF LedgerOK, FreshOK, SameResult, WithResult, InBatch
<1>11. RowOK(p)'
  <2>1. db.runs[p].errors = mem[p].errors
    BY <1>1, <1>2, <1>8 DEF LedgerOK, RowOK, InBatch
  <2> QED
    BY <1>2, <1>3, <1>4, <1>5, <1>6, <1>7, <2>1 DEF RowOK, SameResult, InBatch
<1>12. CountsOK(p)'
  <2>1. pc'[p] \notin Before /\ pc'[p] # "flush" /\ pc[p] # "flush"
    BY <1>1, <1>5, <1>6 DEF Before
  <2>2. BornIn(View(p)'.jobs, p) = BornIn(View(p).jobs, p)
    BY <1>2, <1>3, <1>7
  <2> QED
    BY <1>1, <1>4, <1>6, <1>8, <2>1, <2>2 DEF LedgerOK, CountsOK, SameResult, BornIn
<1>13. Effect(p)
  <2>1. JobsBy(p, db.jobs, image.jobs) /\ CursorsBy(p, db.checkpoints, image.checkpoints)
    BY <1>3 DEF JobsBy, CursorsBy
  <2> QED
    BY <1>1, <1>6, <2>1, FlushEffect
<1> QED
  BY <1>9, <1>10, <1>11, <1>12, <1>13, LedgerStep DEF LedgerOK

LEMMA SelectJobLedger ==
    ASSUME Inv, Inv', LedgerInv, NEW p \in Sessions, SelectJob(p)
    PROVE  LedgerInv'
<1> DEFINE row == View(p).jobs[Job(p)]
           m == [mem[p] EXCEPT !.seen = @ + 1, !.loaded = row]
<1>1. /\ pc[p] = "select" /\ Goto(p, "flush") /\ UNCHANGED dbvars /\ UNCHANGED fetched
      /\ mem' = [mem EXCEPT ![p] = m]
  BY OwnMem DEF SelectJob, Inv, Typed
<1>2. /\ m.seen = mem[p].seen + 1 /\ m.loaded = row /\ m.errors = mem[p].errors
      /\ SameResult(mem[p], m)
  BY SeqFacts DEF Mems, SameResult
<1>3. Job(p) \in Keys /\ mem[p].k \in Nat
  BY <1>1, BatchFacts DEF WithResult, InBatch
<1> HIDE DEF m
<1>4. Frame(p) /\ pc'[p] = "flush" /\ mem'[p] = m
  <2>1. UNCHANGED db
    BY <1>1 DEF dbvars
  <2> QED
    BY <1>1, <2>1, QuietFrame
<1>5. /\ db' = db /\ pending' = pending /\ writer' = writer /\ View(p)' = View(p)
      /\ Target(p)' = Target(p) /\ View(p) \in {db, pending}
  BY <1>1, <1>2, <1>4 DEF dbvars, View, Target, SameResult
<1>6. LedgerOK(p)
  BY DEF LedgerInv
<1>7. OneBatchOK(p)'
  BY <1>1, <1>2, <1>4, <1>5, <1>6
     DEF LedgerOK, OneBatchOK, JobsBy, CursorsBy, SameResult, WithResult, InBatch
<1>8. FreshOK(p)'
  <2>1. row # None /\ row.hash = <<mem[p].result.at, mem[p].k>> => FALSE
    <3> SUFFICES ASSUME row # None, row.hash[1] = mem[p].result.at, row.hash[2] = mem[p].k
                 PROVE  FALSE
      OBVIOUS
    <3>1. row.hash[2] < mem[p].k
      BY <1>1, <1>3, <1>5, <1>6 DEF LedgerOK, FreshOK, WithResult, InBatch
    <3> QED
      BY <1>3, <3>1
  <2> QED
    BY <1>1, <1>2, <1>4, <1>5, <1>6, <2>1 DEF LedgerOK, FreshOK, SameResult, WithResult, InBatch
<1>9. RowOK(p)'
  BY <1>1, <1>2, <1>4, <1>5, <1>6 DEF LedgerOK, RowOK, SameResult, InBatch
<1>10. CountsOK(p)'
  <2>1. mem[p].seen = mem[p].created + mem[p].updated /\ pc'[p] \notin Before
        /\ mem[p].plan # <<>>
    <3>1. mem[p].plan # <<>>
      <4>1. mem[p].closed + 1 \in 1 .. Len(mem[p].plan)
        BY <1>1, HandFacts DEF Entered, WithResult, InBatch
      <4> QED
        BY <4>1, SeqFacts
    <3>2. mem[p].created \in Nat /\ mem[p].updated \in Nat
      BY SeqFacts DEF Mems
    <3> QED
      BY <1>1, <1>4, <1>6, <3>1, <3>2 DEF LedgerOK, CountsOK, Before
  <2> QED
    BY <1>1, <1>2, <1>4, <1>5, <1>6, <2>1 DEF LedgerOK, CountsOK, SameResult, BornIn
<1> QED
  BY <1>1, <1>4, <1>7, <1>8, <1>9, <1>10, QuietEffect, LedgerStep DEF LedgerOK

LEMMA SelectCheckpointLedger ==
    ASSUME Inv, Inv', LedgerInv, NEW p \in Sessions, SelectCheckpoint(p)
    PROVE  LedgerInv'
<1> DEFINE cursor == View(p).checkpoints[Target(p)]
           m == [mem[p] EXCEPT !.found = cursor]
<1>1. /\ pc[p] = "cpselect" /\ Goto(p, "cpflush") /\ UNCHANGED dbvars /\ UNCHANGED fetched
      /\ mem' = [mem EXCEPT ![p] = m]
  BY DEF SelectCheckpoint
<1>2. /\ m.seen = mem[p].seen /\ m.found = cursor /\ m.errors = mem[p].errors
      /\ SameResult(mem[p], m)
  BY SeqFacts DEF Mems, SameResult
<1> HIDE DEF m
<1>3. Frame(p) /\ pc'[p] = "cpflush" /\ mem'[p] = m
  <2>1. UNCHANGED db
    BY <1>1 DEF dbvars
  <2> QED
    BY <1>1, <2>1, QuietFrame
<1>4. /\ db' = db /\ pending' = pending /\ writer' = writer /\ View(p)' = View(p)
      /\ Target(p)' = Target(p) /\ View(p) \in {db, pending}
  BY <1>1, <1>2, <1>3 DEF dbvars, View, Target, SameResult
<1>5. LedgerOK(p)
  BY DEF LedgerInv
<1>6. OneBatchOK(p)'
  BY <1>1, <1>2, <1>3, <1>4, <1>5
     DEF LedgerOK, OneBatchOK, JobsBy, CursorsBy, SameResult, WithResult, InBatch
<1>7. FreshOK(p)'
  BY <1>1, <1>2, <1>3, <1>4, <1>5 DEF LedgerOK, FreshOK, SameResult, WithResult, InBatch
<1>8. RowOK(p)'
  BY <1>1, <1>2, <1>3, <1>4, <1>5 DEF LedgerOK, RowOK, SameResult, InBatch
<1>9. CountsOK(p)'
  BY <1>1, <1>2, <1>3, <1>4, <1>5 DEF LedgerOK, CountsOK, SameResult, BornIn, Before
<1> QED
  BY <1>1, <1>3, <1>6, <1>7, <1>8, <1>9, QuietEffect, LedgerStep DEF LedgerOK

LEMMA FlushCheckpointLedger ==
    ASSUME Inv, Inv', LedgerInv, NEW p \in Sessions, FlushCheckpoint(p)
    PROVE  LedgerInv'
<1> DEFINE next == mem[p].result.next
           t == Target(p)
           image == [View(p) EXCEPT !.checkpoints[t] = next]
           m == [mem[p] EXCEPT !.found = None]
<1>1. /\ pc[p] = "cpflush" /\ Goto(p, "close") /\ UNCHANGED fetched
      /\ mem' = [mem EXCEPT ![p] = m]
      /\ IF mem[p].found = next THEN UNCHANGED dbvars ELSE Write(p, image)
  BY DEF FlushCheckpoint, CheckpointFlushed
<1>2. /\ m.seen = mem[p].seen /\ m.errors = mem[p].errors /\ SameResult(mem[p], m)
  BY SeqFacts DEF Mems, SameResult
<1>3. /\ next # None /\ t \in Targets /\ View(p) \in Images
  BY <1>1, BatchFacts DEF Inv, ProcessOK, ResultOK, ProgressOK, WithResult, InBatch
<1>4. /\ image.jobs = View(p).jobs /\ image.checkpoints = [View(p).checkpoints EXCEPT ![t] = next]
      /\ image.runs = View(p).runs /\ image.checkpoints[t] = next
  BY <1>3 DEF Images
<1> HIDE DEF m, image
<1>5. Frame(p) /\ pc'[p] = "close" /\ mem'[p] = m
  <2>1. UNCHANGED db
    BY <1>1 DEF dbvars, Write
  <2> QED
    BY <1>1, <2>1, QuietFrame
<1>6. LedgerOK(p)
  BY DEF LedgerInv
<1>7. /\ View(p).checkpoints = db.checkpoints
      /\ JobsBy(p, db.jobs, View(p).jobs) /\ pc[p] \in WithResult
  BY <1>1, <1>6 DEF LedgerOK, OneBatchOK, WithResult, InBatch
<1>8. /\ Target(p)' = t /\ db' = db /\ mem'[p].result = mem[p].result
      /\ View(p)'.jobs = View(p).jobs /\ View(p)'.runs = View(p).runs
      /\ View(p)'.checkpoints[t] = next
      /\ writer' # p => CursorOf[t] = "constant"
      /\ CursorsBy(p, db.checkpoints, View(p)'.checkpoints)
      /\ \A new \in {db', pending'} : new.jobs \in {db.jobs, pending.jobs}
      /\ Effect(p)
  <2>1. Target(p)' = t /\ mem'[p].result = mem[p].result
    BY <1>2, <1>5 DEF Target, SameResult
  <2>2. CASE mem[p].found = next
    <3>1. /\ db' = db /\ pending' = pending /\ View(p)' = View(p) /\ UNCHANGED dbvars
      BY <1>1, <2>2 DEF dbvars, View
    <3>2. CursorOf[t] = "constant" /\ next = 0
      BY <1>1, <1>3, <1>6, <1>7, <2>2, NextFacts DEF LedgerOK, FreshOK
    <3>3. View(p).checkpoints[t] = next
      <4>1. View(p).checkpoints[t] # None
        BY <1>1, <1>3, <1>6, <1>7, <2>2 DEF LedgerOK, FreshOK
      <4> QED
        BY <1>3, <1>7, <3>2, <4>1 DEF LedgerInv, ConstantOK
    <3>4. CursorsBy(p, db.checkpoints, View(p)'.checkpoints)
      BY <1>7, <3>1 DEF CursorsBy
    <3> QED
      BY <1>5, <2>1, <3>1, <3>2, <3>3, <3>4, QuietEffect
  <2>3. CASE mem[p].found # next
    <3>1. /\ Write(p, image) /\ db' = db /\ pending' = image /\ writer' = p /\ View(p)' = image
      BY <1>1, <2>3 DEF Write, View
    <3>2. CursorsBy(p, db.checkpoints, image.checkpoints)
      BY <1>3, <1>4, <1>7 DEF CursorsBy, Images
    <3>3. JobsBy(p, db.jobs, image.jobs)
      BY <1>4, <1>7
    <3>4. View(p).jobs \in {db.jobs, pending.jobs}
      BY DEF View
    <3> QED
      BY <1>4, <1>5, <2>1, <3>1, <3>2, <3>3, <3>4, FlushEffect
  <2> QED
    BY <2>2, <2>3
<1>9. OneBatchOK(p)'
  BY <1>5, <1>7, <1>8 DEF OneBatchOK, JobsBy, CursorsBy, WithResult, InBatch
<1>10. FreshOK(p)'
  BY <1>2, <1>5, <1>6, <1>7, <1>8 DEF LedgerOK, FreshOK, SameResult
<1>11. RowOK(p)'
  BY <1>1, <1>2, <1>5, <1>6, <1>8 DEF LedgerOK, RowOK, SameResult, InBatch
<1>12. CountsOK(p)'
  BY <1>1, <1>2, <1>5, <1>6, <1>8 DEF LedgerOK, CountsOK, SameResult, BornIn, Before
<1> QED
  BY <1>8, <1>9, <1>10, <1>11, <1>12, LedgerStep DEF LedgerOK

LEMMA CloseLedger ==
    ASSUME Inv, Inv', RunInv, LedgerInv, NEW p \in Sessions, Close(p)
    PROVE  LedgerInv'
<1> DEFINE image == ClosedImage(p)
<1>1. /\ pc[p] = "close" /\ pc'[p] = LoopHead(mem'[p]) /\ UNCHANGED fetched
      /\ mem'[p].plan = mem[p].plan /\ Moves(p)
  BY CloseMoves
<1>2. /\ mem'[p].seen = mem[p].seen /\ mem'[p].created = mem[p].created
      /\ mem'[p].updated = mem[p].updated /\ mem'[p].errors = mem[p].errors
  <2>1. mem' = [mem EXCEPT ![p].closed = @ + 1, ![p].before = None,
                           ![p].result = None, ![p].k = 1]
    BY DEF Close
  <2> QED
    BY <2>1, SeqFacts DEF Inv, Typed, Mems
<1>3. /\ image.runs = View(p).runs /\ image.jobs = View(p).jobs
      /\ image.checkpoints = View(p).checkpoints
  BY <1>1, ClosedImageFacts
<1>4. db' = image /\ (UNCHANGED dbvars \/ WriteCommit(p, image))
  <2>1. CASE CheckpointAfter(mem[p]) = mem[p].before
    <3>1. Commit(p) /\ image = View(p)
      BY <2>1 DEF Close, ClosedImage
    <3> QED
      BY <3>1 DEF Commit, View, WriteCommit, CanWrite, dbvars
  <2>2. CASE CheckpointAfter(mem[p]) # mem[p].before
    <3>1. WriteCommit(p, image)
      BY <2>2 DEF Close, ClosedImage
    <3> QED
      BY <3>1 DEF WriteCommit
  <2> QED
    BY <2>1, <2>2
<1> HIDE DEF image
<1>5. LedgerOK(p)
  BY DEF LedgerInv
<1>6. Frame(p)
  BY CloseFrame
<1>7. LedgerOK(p)'
  <2>1. db'.runs[p] # None => db'.runs[p].errors = mem'[p].errors
    <3>1. db.runs[p] # None /\ db.runs[p] \in AnyRun
      BY <1>1 DEF Inv, Typed, Images, ProcessOK, RowsOK, Entered, WithResult, InBatch
    <3>2. View(p).runs[p] = [db.runs[p] EXCEPT !.errors = mem[p].errors]
      BY <1>1, <1>5, <3>1 DEF LedgerOK, RowOK, InBatch
    <3> QED
      BY <1>2, <1>3, <1>4, <3>1, <3>2 DEF AnyRun
  <2>2. pc'[p] \notin WithResult \cup Before /\ pc'[p] # "done"
        /\ pc[p] \notin {"aborted", "killed", "flush"}
    BY <1>1 DEF LoopHead, WithResult, InBatch, Before
  <2> QED
    BY <1>1, <1>2, <1>3, <1>4, <1>5, <2>1, <2>2, OutsideLedger
<1>8. Effect(p)
  BY <1>3, <1>4, <1>5, <1>6, QuietEffect, SaveEffect DEF LedgerOK
<1> QED
  BY <1>7, <1>8, LedgerStep

(* A row has been put: one inserted, or one updated by the listing.        *)
LEMMA JobDoneLedger ==
    ASSUME Inv, Inv', LedgerInv, NEW p \in Sessions, pc[p] = "flush",
           NEW image, Write(p, image),
           image.runs = View(p).runs, image.checkpoints = View(p).checkpoints,
           NEW row \in AnyJob, image.jobs = [View(p).jobs EXCEPT ![Job(p)] = row],
           row.hash = <<mem[p].result.at, mem[p].k>>,
           NEW status \in {"created", "updated"}, NextJob(p, status), UNCHANGED fetched,
           IF status = "created" THEN View(p).jobs[Job(p)] = None /\ row.born = p
                                 ELSE /\ View(p).jobs[Job(p)] # None
                                      /\ row.born = View(p).jobs[Job(p)].born
    PROVE  LedgerInv'
<1> DEFINE tally == Tally(mem[p], status)
           m == [tally EXCEPT !.k = @ + 1, !.loaded = None]
           key == Job(p)
           r == mem[p].result
           label == IF tally.k < Len(tally.result.jobs) THEN "select"
                                                         ELSE AfterJobs(tally.result)
<1>1. mem' = [mem EXCEPT ![p] = m] /\ Goto(p, label)
  BY DEF NextJob
<1>2. /\ mem[p] \in Mems /\ mem[p].k \in Nat /\ mem[p].created \in Nat /\ mem[p].updated \in Nat
      /\ View(p) \in Images /\ key \in Keys /\ key[1] = AdapterOf[Target(p)]
      /\ pc[p] \in WithResult
  BY SeqFacts, BatchFacts DEF Mems, WithResult, InBatch, Job, KeyOf
<1>3. /\ m.plan = mem[p].plan /\ m.closed = mem[p].closed /\ m.result = r
      /\ m.k = mem[p].k + 1 /\ m.loaded = None /\ m.errors = mem[p].errors
      /\ m.seen = mem[p].seen
      /\ m.created = mem[p].created + (IF status = "created" THEN 1 ELSE 0)
      /\ m.updated = mem[p].updated + (IF status = "created" THEN 0 ELSE 1)
      /\ tally.result = r
  <2>1. CASE status = "created"
    <3>1. tally = [mem[p] EXCEPT !.created = mem[p].created + 1]
      BY <2>1 DEF Tally
    <3> HIDE DEF tally
    <3> QED
      BY <1>2, <2>1, <3>1 DEF Mems
  <2>2. CASE status = "updated"
    <3>1. tally = [mem[p] EXCEPT !.updated = mem[p].updated + 1]
      BY <2>2 DEF Tally
    <3> HIDE DEF tally
    <3> QED
      BY <1>2, <2>2, <3>1 DEF Mems
  <2> QED
    BY <2>1, <2>2
<1>4. label \in {"select", "cpselect", "close"} /\ (label = "close" => r.next = None)
  BY <1>3 DEF AfterJobs
<1> HIDE DEF tally, m, label, key
<1>5. Frame(p) /\ pc'[p] = label /\ mem'[p] = m
  <2>1. UNCHANGED db
    BY DEF Write
  <2> QED
    BY <1>1, <2>1, QuietFrame
<1>6. /\ db' = db /\ pending' = image /\ writer' = p /\ View(p)' = image
      /\ Target(p)' = Target(p)
  BY <1>3, <1>5 DEF Write, View, Target
<1>7. /\ image.jobs[key] = row /\ row # None
      /\ \A k \in Keys \ {key} : image.jobs[k] = View(p).jobs[k]
      /\ \A k \in Keys : k # key => image.jobs[k] = View(p).jobs[k]
  <2>1. View(p).jobs \in [Keys -> AnyJob \cup {None}]
    BY <1>2 DEF Images
  <2>2. image.jobs = [View(p).jobs EXCEPT ![key] = row]
    BY DEF key
  <2> QED
    BY <1>2, <2>1, <2>2, NoneFacts
<1>8. LedgerOK(p)
  BY DEF LedgerInv
<1>9. /\ JobsBy(p, db.jobs, View(p).jobs) /\ View(p).checkpoints = db.checkpoints
      /\ JobsGrow(db.jobs, View(p).jobs)
  BY <1>8, ViewFacts DEF LedgerOK, OneBatchOK, Inv
<1>10. JobsBy(p, db.jobs, image.jobs)
  <2> SUFFICES ASSUME NEW k \in Keys, image.jobs[k] # db.jobs[k]
               PROVE  /\ k[1] = AdapterOf[Target(p)] /\ image.jobs[k] # None
                      /\ image.jobs[k].hash[1] = r.at
                      /\ image.jobs[k].born = IF db.jobs[k] = None THEN p ELSE db.jobs[k].born
    BY <1>2 DEF JobsBy
  <2>1. CASE k # key
    BY <1>7, <1>9, <2>1 DEF JobsBy
  <2>2. CASE k = key /\ status = "created"
    <3>1. db.jobs[key] = None
      BY <1>2, <1>9, <2>2 DEF JobsGrow, key
    <3> QED
      BY <1>2, <1>7, <2>2, <3>1
  <2>3. CASE k = key /\ status = "updated"
    <3>1. /\ View(p).jobs[key] # None /\ row.born = View(p).jobs[key].born
      BY <2>3 DEF key
    <3>2. row.born = IF db.jobs[key] = None THEN p ELSE db.jobs[key].born
      BY <1>2, <1>9, <3>1 DEF JobsBy
    <3> QED
      BY <1>2, <1>7, <2>3, <3>2
  <2> QED
    BY <2>1, <2>2, <2>3
<1>11. CursorsBy(p, db.checkpoints, image.checkpoints)
  BY <1>9 DEF CursorsBy
<1>12. OneBatchOK(p)'
  <2>1. pc'[p] \in WithResult /\ mem'[p].result = r
    BY <1>3, <1>4, <1>5 DEF WithResult, InBatch
  <2>2. (JobsBy(p, db.jobs, View(p).jobs))'
    BY <1>6, <1>10, <2>1 DEF JobsBy
  <2>3. (CursorsBy(p, db.checkpoints, View(p).checkpoints))' /\ image.checkpoints = db.checkpoints
    BY <1>6, <1>9 DEF CursorsBy
  <2> QED
    BY <1>4, <1>5, <1>6, <2>1, <2>2, <2>3 DEF OneBatchOK
<1>13. FreshOK(p)'
  <2>1. ASSUME NEW old \in {db, pending}, NEW k \in Keys, old.jobs[k] # None,
               old.jobs[k].hash[1] = r.at
        PROVE  old.jobs[k].hash[2] < m.k
    <3>1. old.jobs[k].hash[2] < mem[p].k
      BY <1>2, <1>8, <2>1 DEF LedgerOK, FreshOK
    <3>2. old.jobs[k] \in AnyJob
      <4>1. old \in Images
        BY DEF Inv, Typed
      <4> QED
        BY <2>1, <4>1 DEF Images
    <3>3. old.jobs[k].hash[2] \in Nat
      BY <3>2 DEF AnyJob
    <3> QED
      BY <1>2, <1>3, <3>1, <3>3
  <2>2. ASSUME NEW k \in Keys, image.jobs[k] # None, image.jobs[k].hash[1] = r.at
        PROVE  image.jobs[k].hash[2] < m.k
    <3>1. CASE k = key
      BY <1>2, <1>3, <1>7, <3>1
    <3>2. CASE k # key
      <4>1. View(p) \in {db, pending}
        BY DEF View
      <4> QED
        BY <1>7, <2>1, <2>2, <3>2, <4>1
    <3> QED
      BY <3>1, <3>2
  <2>3. CursorOf[Target(p)] = "instant" => db.checkpoints[Target(p)] # r.at
    BY <1>2, <1>8 DEF LedgerOK, FreshOK
  <2>4. r.errors \in 0 .. 1 /\ r.next \in {None, NextCursor(Target(p), r.at)}
    BY <1>2, <1>8 DEF LedgerOK, FreshOK
  <2>5. pc'[p] \notin {"flush", "cpflush"}
    BY <1>4, <1>5
  <2>6. image.checkpoints = db.checkpoints
    BY <1>9
  <2>7. \A new \in {db, image} :
            /\ \A k \in Keys : new.jobs[k] # None /\ new.jobs[k].hash[1] = r.at =>
                  new.jobs[k].hash[2] < m.k
            /\ CursorOf[Target(p)] = "instant" => new.checkpoints[Target(p)] # r.at
    BY <2>1, <2>2, <2>3, <2>6
  <2> QED
    BY <1>3, <1>5, <1>6, <2>4, <2>5, <2>7 DEF FreshOK
<1>14. RowOK(p)'
  BY <1>3, <1>4, <1>5, <1>6, <1>8 DEF LedgerOK, RowOK, InBatch
<1>15. CountsOK(p)'
  <2> DEFINE born == BornIn(View(p).jobs, p)
  <2>1. /\ IsFiniteSet(born) /\ Cardinality(born) = mem[p].created
        /\ mem[p].seen = mem[p].created + mem[p].updated + 1
        /\ mem[p].plan = <<>> => mem[p].seen = 0
    BY <1>8 DEF LedgerOK, CountsOK
  <2>2. m.seen = m.created + m.updated + 0
    BY <1>2, <1>3, <2>1
  <2>3. /\ pc'[p] \notin Before \cup {"flush"} /\ mem'[p] = m /\ View(p)' = image
        /\ m.plan = <<>> => m.seen = 0
    BY <1>3, <1>4, <1>5, <1>6, <2>1 DEF Before
  <2>4. IsFiniteSet(BornIn(image.jobs, p)) /\ Cardinality(BornIn(image.jobs, p)) = m.created
        => CountsOK(p)'
    <3>1. BornIn(View(p).jobs, p)' = BornIn(image.jobs, p)
      BY <2>3 DEF BornIn
    <3>2. Before' = Before
      BY DEF Before
    <3> QED
      BY <2>2, <2>3, <3>1, <3>2 DEF CountsOK
  <2>5. CASE status = "created"
    <3>1. BornIn(image.jobs, p) = born \cup {key} /\ key \notin born
      <4>1. View(p).jobs[key] = None /\ row.born = p
        BY <2>5 DEF key
      <4> QED
        BY <1>2, <1>7, <4>1 DEF BornIn
    <3>2. IsFiniteSet(born \cup {key}) /\ Cardinality(born \cup {key}) = Cardinality(born) + 1
      BY <2>1, <3>1, FS_AddElement
    <3> QED
      BY <1>3, <2>1, <2>5, <2>4, <3>1, <3>2
  <2>6. CASE status = "updated"
    <3>1. BornIn(image.jobs, p) = born
      <4>1. View(p).jobs[key] # None /\ row.born = View(p).jobs[key].born
        BY <2>6 DEF key
      <4> QED
        BY <1>2, <1>7, <4>1 DEF BornIn
    <3>2. m.created = mem[p].created
      BY <1>2, <1>3, <2>6
    <3> QED
      BY <2>1, <2>4, <3>1, <3>2
  <2> QED
    BY <2>5, <2>6
<1>16. Effect(p)
  BY <1>5, <1>10, <1>11, FlushEffect
<1> QED
  BY <1>12, <1>13, <1>14, <1>15, <1>16, LedgerStep DEF LedgerOK

LEMMA InsertJobLedger ==
    ASSUME Inv, Inv', LedgerInv, NEW p \in Sessions, InsertJob(p)
    PROVE  LedgerInv'
<1> DEFINE row == Values(p, p)
           image == [View(p) EXCEPT !.jobs[Job(p)] = row]
<1>1. /\ pc[p] = "flush" /\ Write(p, image) /\ NextJob(p, "created") /\ UNCHANGED fetched
      /\ View(p).jobs[Job(p)] = None
  BY DEF InsertJob, JobFlushed
<1>2. View(p) \in Images
  BY <1>1, BatchFacts DEF WithResult, InBatch
<1>3. row \in AnyJob /\ row.hash = <<mem[p].result.at, mem[p].k>> /\ row.born = p
  BY <1>1, ValuesType DEF Values
<1> HIDE DEF row
<1>4. /\ image.runs = View(p).runs /\ image.checkpoints = View(p).checkpoints
      /\ image.jobs = [View(p).jobs EXCEPT ![Job(p)] = row]
  BY <1>2 DEF Images
<1> HIDE DEF image
<1> QED
  BY <1>1, <1>3, <1>4, JobDoneLedger

LEMMA UpdateJobLedger ==
    ASSUME Inv, Inv', LedgerInv, NEW p \in Sessions, UpdateJob(p)
    PROVE  LedgerInv'
<1> DEFINE old == mem[p].loaded
           new == Values(p, old.born)
           current == View(p).jobs[Job(p)]
           row == Dirty(current, old, new)
           status == IF new.hash # old.hash THEN "updated" ELSE "unchanged"
           image == [View(p) EXCEPT !.jobs[Job(p)] = row]
<1>1. /\ pc[p] = "flush" /\ old # None /\ Write(p, image) /\ NextJob(p, status)
      /\ UNCHANGED fetched
  BY DEF UpdateJob, JobFlushed
<1>2. /\ View(p) \in Images /\ Job(p) \in Keys /\ current # None
  BY <1>1, BatchFacts DEF WithResult, InBatch, Inv, ProcessOK, ResultOK, ProgressOK
<1>3. current \in AnyJob /\ old \in AnyJob
  BY <1>1, <1>2, SeqFacts DEF Images, Mems
<1>4. new \in AnyJob
  <2>1. old.born \in Sessions
    BY <1>3 DEF AnyJob
  <2> QED
    BY <1>1, <2>1, ValuesType
<1>5. /\ new.hash = <<mem[p].result.at, mem[p].k>> /\ new.born = old.born
      /\ new.hash # old.hash
  BY <1>1 DEF Values, LedgerInv, LedgerOK, FreshOK, WithResult, InBatch
<1>6. status = "updated"
  BY <1>5
<1>7. row \in AnyJob /\ row.hash = new.hash /\ row.born = current.born
  <2> HIDE DEF current, old, new
  <2> QED
    BY <1>3, <1>4, <1>5 DEF Dirty, AnyJob
<1> HIDE DEF row
<1>8. /\ image.runs = View(p).runs /\ image.checkpoints = View(p).checkpoints
      /\ image.jobs = [View(p).jobs EXCEPT ![Job(p)] = row]
  BY <1>2 DEF Images
<1> HIDE DEF image, status, new
<1> QED
  BY <1>1, <1>2, <1>5, <1>6, <1>7, <1>8, JobDoneLedger

LEMMA InitLedger == Init => LedgerInv
<1> SUFFICES ASSUME Init PROVE LedgerInv
  OBVIOUS
<1>1. ConstantOK
  BY DEF Init, NoTables, ConstantOK
<1>2. ASSUME NEW p \in Sessions PROVE LedgerOK(p)
  <2>1. /\ pc[p] = "idle" /\ mem[p] = Start /\ View(p) = NoTables /\ db = NoTables
    BY DEF Init, View
  <2>2. OneBatchOK(p) /\ FreshOK(p) /\ RowOK(p)
    BY <2>1 DEF OneBatchOK, FreshOK, RowOK, JobsBy, CursorsBy, NoTables, WithResult, InBatch
  <2>3. BornIn(View(p).jobs, p) = {}
    BY <2>1 DEF BornIn, NoTables
  <2>4. CountsOK(p)
    BY <2>1, <2>3, FS_EmptySet DEF CountsOK, Start, Before
  <2> QED
    BY <2>2, <2>4 DEF LedgerOK
<1> QED
  BY <1>1, <1>2 DEF LedgerInv

LEMMA LedgerNext == Inv /\ Inv' /\ TypeOK /\ RunInv /\ LedgerInv /\ [Next]_vars => LedgerInv'
<1> SUFFICES ASSUME Inv, Inv', TypeOK, RunInv, LedgerInv, [Next]_vars PROVE LedgerInv'
  OBVIOUS
<1>1. CASE UNCHANGED vars
  <2>1. /\ db' = db /\ pending' = pending /\ writer' = writer /\ pc' = pc /\ mem' = mem
        /\ fetched' = fetched
    BY <1>1 DEF vars, dbvars
  <2>2. ConstantOK'
    BY <2>1 DEF LedgerInv, ConstantOK
  <2>3. ASSUME NEW p \in Sessions PROVE LedgerOK(p)'
    <3>1. View(p)' = View(p) /\ Target(p)' = Target(p) /\ LedgerOK(p)
      BY <2>1 DEF View, Target, LedgerInv
    <3>2. OneBatchOK(p)' /\ FreshOK(p)'
      BY <2>1, <3>1 DEF LedgerOK, OneBatchOK, FreshOK, JobsBy, CursorsBy
    <3>3. RowOK(p)' /\ CountsOK(p)'
      BY <2>1, <3>1 DEF LedgerOK, RowOK, CountsOK, BornIn
    <3> QED
      BY <3>2, <3>3 DEF LedgerOK
  <2> QED
    BY <2>2, <2>3 DEF LedgerInv
<1>2. CASE Next
  <2>1. PICK p \in Sessions : Crawl(p) \/ ResumeNames(p) \/ Step(p) \/ Crash(p)
    BY <1>2 DEF Next
  <2>2. CASE Crash(p) \/ UniqueViolation(p) \/ LockTimeout(p)
    BY <2>2, AbandonedLedger DEF Crash, UniqueViolation, LockTimeout
  <2>3. CASE Crawl(p) \/ ResumeNames(p) \/ ResumeContexts(p) \/ CreateRun(p)
               \/ ReadCheckpoint(p) \/ CreateState(p) \/ FetchRaises(p) \/ RecordFailure(p)
               \/ FetchReturns(p)
    BY <2>3, CrawlLedgerStep, ResumeNamesLedger, ResumeContextsLedger, CreateRunLedger,
       ReadCheckpointLedger, CreateStateLedger, FetchRaisesLedger, RecordFailureLedger,
       FetchReturnsLedger
  <2>4. CASE RecordErrors(p) \/ SelectJob(p) \/ InsertJob(p) \/ UpdateJob(p)
               \/ SelectCheckpoint(p) \/ FlushCheckpoint(p) \/ Close(p) \/ Finish(p)
    BY <2>4, RecordErrorsLedger, SelectJobLedger, InsertJobLedger, UpdateJobLedger,
       SelectCheckpointLedger, FlushCheckpointLedger, CloseLedger, FinishLedger
  <2> QED
    BY <2>1, <2>2, <2>3, <2>4 DEF Step
<1> QED
  BY <1>1, <1>2

LEMMA LedgerInvariance == Spec => []LedgerInv
  BY InitLedger, LedgerNext, Invariance, RunInvariance, TypesHold, PTL DEF Spec
-----------------------------------------------------------------------------
(* The ledger: a step commits what one of its actions does, or nothing.    *)

LEMMA LedgerStart == Init => Ledger!Init
<1> SUFFICES ASSUME Init PROVE Ledger!Init
  OBVIOUS
<1>1. db = NoTables /\ mem = [p \in Sessions |-> Start]
  BY DEF Init
<1>2. [p \in Sessions |-> mem[p].closed] = [p \in Sessions |-> 0]
  BY <1>1 DEF Start
<1> QED
  BY <1>1, <1>2 DEF Ledger!Init, NoTables, Ledger!Keys, Keys

(* Only the rows of p change, and how many adapters it is done with.       *)
LEMMA LedgerFrame ==
    ASSUME Inv, Inv', NEW p \in Sessions, Frame(p)
    PROVE  /\ [q \in Sessions |-> mem'[q].closed]
                 = [[q \in Sessions |-> mem[q].closed] EXCEPT ![p] = mem'[p].closed]
           /\ db'.runs = [db.runs EXCEPT ![p] = db'.runs[p]]
           /\ db'.states = [db.states EXCEPT ![p] = db'.states[p]]
<1>1. /\ db.runs \in [Sessions -> AnyRun \cup {None}]
      /\ db'.runs \in [Sessions -> AnyRun \cup {None}]
      /\ db.states \in [Sessions -> Seq(AnyState)]
      /\ db'.states \in [Sessions -> Seq(AnyState)]
  BY DEF Inv, Typed, Images
<1>2. \A q \in Sessions \ {p} :
          mem'[q] = mem[q] /\ db'.runs[q] = db.runs[q] /\ db'.states[q] = db.states[q]
  BY DEF Frame
<1>3. db'.runs = [db.runs EXCEPT ![p] = db'.runs[p]]
  BY <1>1, <1>2
<1>4. db'.states = [db.states EXCEPT ![p] = db'.states[p]]
  BY <1>1, <1>2
<1>5. [q \in Sessions |-> mem'[q].closed]
          = [[q \in Sessions |-> mem[q].closed] EXCEPT ![p] = mem'[p].closed]
  BY <1>2
<1> QED
  BY <1>3, <1>4, <1>5

LEMMA CreateRunOpens ==
    ASSUME Inv, Inv', NEW p \in Sessions, CreateRun(p)
    PROVE  Ledger!Open(p)
<1>1. /\ pc[p] = "create" /\ WriteCommit(p, [View(p) EXCEPT !.runs[p] = NewRun])
      /\ UNCHANGED mem
  BY DEF CreateRun
<1>2. View(p) = db /\ db \in Images
  BY <1>1, ViewFacts DEF Inv, InBatch
<1>3. /\ db'.runs = [db.runs EXCEPT ![p] = NewRun] /\ db'.states = db.states
      /\ db'.checkpoints = db.checkpoints /\ db'.jobs = db.jobs
  BY <1>1, <1>2 DEF WriteCommit, Images
<1>4. db.runs[p] = None
  BY <1>1 DEF Inv, ProcessOK, RowsOK, Before
<1>5. [q \in Sessions |-> mem'[q].closed] = [q \in Sessions |-> mem[q].closed]
  BY <1>1
<1> QED
  BY <1>3, <1>4, <1>5 DEF Ledger!Open, NewRun

LEMMA CreateStateEnters ==
    ASSUME Inv, Inv', NEW p \in Sessions, CreateState(p)
    PROVE  Ledger!Enter(p)
<1> DEFINE rows == db.states[p]
           new == NewState(Target(p), mem[p].before)
<1>1. /\ pc[p] = "state" /\ UNCHANGED mem
      /\ WriteCommit(p, [View(p) EXCEPT !.states[p] = Append(View(p).states[p], new)])
  BY DEF CreateState, StateSaved
<1>2. View(p) = db /\ db \in Images
  BY <1>1, ViewFacts DEF Inv, InBatch
<1>3. /\ db'.states = [db.states EXCEPT ![p] = Append(rows, new)] /\ db'.runs = db.runs
      /\ db'.checkpoints = db.checkpoints /\ db'.jobs = db.jobs
  BY <1>1, <1>2 DEF WriteCommit, Images
<1>4. /\ db.runs[p] # None /\ db.runs[p].status = "running"
      /\ Len(rows) = mem[p].closed /\ mem[p].closed \in Nat
      /\ rows \in Seq(AnyState) /\ db.states \in [Sessions -> Seq(AnyState)]
  BY <1>1, <1>2, SeqFacts DEF Inv, ProcessOK, RowsOK, Waits, Images
<1>5. /\ new.target \in Targets /\ new.before = mem[p].before /\ new.after = mem[p].before
  BY <1>1, HandFacts DEF NewState, Waits
<1> HIDE DEF new
<1>6. PICK S : rows \in Seq(S) /\ new \in S
  <2>1. rows \in Seq(AnyState \cup {new}) /\ new \in AnyState \cup {new}
    BY <1>4
  <2> QED
    BY <2>1
<1>7. Len(Append(rows, new)) = mem[p].closed + 1 /\ Append(rows, new)[mem[p].closed + 1] = new
  BY <1>4, <1>6
<1>8. [q \in Sessions |-> mem'[q].closed] = [q \in Sessions |-> mem[q].closed]
  BY <1>1
<1>9. db'.states[p] = Append(rows, new)
  BY <1>3, <1>4
<1> QED
  BY <1>3, <1>4, <1>5, <1>7, <1>8, <1>9, ZenonT(60) DEF Ledger!Enter, Ledger!Running

LEMMA RecordFailureFails ==
    ASSUME Inv, Inv', LedgerInv, NEW p \in Sessions, RecordFailure(p)
    PROVE  Ledger!Fail(p)
<1> DEFINE m == [mem[p] EXCEPT !.errors = @ + 1, !.closed = @ + 1, !.before = None]
<1>1. /\ pc[p] = "handler" /\ mem' = [mem EXCEPT ![p] = m]
      /\ WriteCommit(p, [View(p) EXCEPT !.runs[p].errors = mem[p].errors + 1])
  BY DEF RecordFailure
<1>2. View(p) = db /\ db \in Images
  BY <1>1, ViewFacts DEF Inv, InBatch
<1>3. /\ db.runs[p] # None /\ db.runs[p].status = "running"
      /\ Len(db.states[p]) = mem[p].closed + 1
  BY <1>1 DEF Inv, ProcessOK, RowsOK, Entered
<1>4. db.runs[p].errors = mem[p].errors
  BY <1>1, <1>3 DEF LedgerInv, LedgerOK, RowOK, InBatch
<1>5. /\ db'.runs = [db.runs EXCEPT ![p].errors = db.runs[p].errors + 1]
      /\ db'.states = db.states
      /\ db'.checkpoints = db.checkpoints /\ db'.jobs = db.jobs
  BY <1>1, <1>2, <1>4 DEF WriteCommit, Images
<1>6. mem[p] \in Mems /\ m.closed = mem[p].closed + 1
  BY SeqFacts DEF Mems
<1> HIDE DEF m
<1>7. [q \in Sessions |-> mem'[q].closed]
          = [[q \in Sessions |-> mem[q].closed] EXCEPT ![p] = mem[p].closed + 1]
  BY <1>1, <1>6 DEF Inv, Typed
<1> QED
  BY <1>3, <1>5, <1>7 DEF Ledger!Fail, Ledger!Running, Ledger!InHand

LEMMA FinishSettles ==
    ASSUME Inv, Inv', RunInv, LedgerInv, NEW p \in Sessions, Finish(p)
    PROVE  Ledger!Settle(p)
<1> DEFINE m == mem[p]
           row == [status |-> StatusFor(m), seen |-> m.seen, created |-> m.created,
                   updated |-> m.updated, errors |-> m.errors]
<1>1. /\ pc[p] = "finish" /\ UNCHANGED mem
      /\ WriteCommit(p, [View(p) EXCEPT !.runs[p] = row])
  BY DEF Finish
<1>2. View(p) = db /\ db \in Images
  BY <1>1, ViewFacts DEF Inv, InBatch
<1>3. /\ db.runs[p] # None /\ db.runs[p].status = "running"
      /\ Len(db.states[p]) = Len(m.plan) /\ m.closed = Len(m.plan)
  BY <1>1 DEF Inv, ProcessOK, RowsOK, RunInv, CompleteOK
<1>4. /\ m.errors \in Nat /\ m.closed \in Nat /\ m.seen \in Nat /\ m.created \in Nat
      /\ m.updated \in Nat
  BY SeqFacts DEF Mems
<1>5. row.status = StatusFor(m) /\ row.errors = m.errors
  OBVIOUS
<1> HIDE DEF row
<1>6. /\ db'.runs = [db.runs EXCEPT ![p] = row] /\ db'.runs[p] = row
      /\ db'.states = db.states
      /\ db'.checkpoints = db.checkpoints /\ db'.jobs = db.jobs
  BY <1>1, <1>2 DEF WriteCommit, Images
<1>7. db.runs[p].errors = m.errors
  BY <1>1, <1>3 DEF LedgerInv, LedgerOK, RowOK, InBatch
<1>8. CountsOK(p) /\ pc[p] \notin {"aborted", "killed", "flush"}
  BY <1>1 DEF LedgerInv, LedgerOK
<1>9. /\ row.status \in {"success", "partial_success", "failed"}
      /\ row.status = "success" => m.errors = 0
      /\ row.status = "partial_success" => m.errors > 0
      /\ row.status = "failed" => m.seen = 0
  <2>1. m.plan = <<>> => m.seen = 0
    BY <1>8 DEF CountsOK
  <2> QED
    BY <1>4, <1>5, <2>1 DEF StatusFor
<1>10. ASSUME m.seen = 0, NEW k \in Keys, db.jobs[k] # None PROVE db.jobs[k].born # p
  <2>1. /\ IsFiniteSet(BornIn(db.jobs, p)) /\ Cardinality(BornIn(db.jobs, p)) = m.created
        /\ m.seen = m.created + m.updated + 0
    BY <1>2, <1>4, <1>8 DEF CountsOK
  <2>2. m.created = 0
    BY <1>4, <1>10, <2>1
  <2>3. BornIn(db.jobs, p) = {}
    BY <2>1, <2>2, FS_EmptySet
  <2> QED
    BY <1>10, <2>3 DEF BornIn
<1>11. [q \in Sessions |-> mem'[q].closed] = [q \in Sessions |-> mem[q].closed]
  BY <1>1
<1>12. Ledger!Running(p) /\ ~Ledger!InHand(p)
  BY <1>3, <1>4 DEF Ledger!Running, Ledger!InHand
<1>13. Ledger!Keys = Keys
  BY DEF Ledger!Keys, Keys
<1> QED
  BY <1>5, <1>6, <1>7, <1>9, <1>10, <1>11, <1>12, <1>13 DEF Ledger!Settle, Ledger!Statuses

(* What Close commits is one fetch's rows and the cursor of the adapter.   *)
LEMMA CloseApplies ==
    ASSUME Inv, Inv', RunInv, LedgerInv, NEW p \in Sessions, Close(p)
    PROVE  Ledger!Apply(p)
<1> DEFINE n == mem[p].closed + 1
           after == CheckpointAfter(mem[p])
           r == mem[p].result
           rows == db.states[p]
<1>1. /\ pc[p] = "close" /\ mem'[p].closed = n
  BY CloseMoves
<1>2. db' = ClosedImage(p)
  BY DEF Close, ClosedImage, Commit, WriteCommit
<1>3. Frame(p)
  BY CloseFrame
<1>4. /\ View(p) \in Images /\ View(p).states = db.states /\ Target(p) \in Targets
      /\ r \in AnyResult
  BY <1>1, BatchFacts DEF WithResult, InBatch
<1>5. /\ db'.runs = View(p).runs /\ db'.jobs = View(p).jobs
      /\ db'.checkpoints = View(p).checkpoints
      /\ db'.states[p][n].after = after
  BY <1>1, <1>2, ClosedImageFacts
<1>6. /\ db.runs[p] # None /\ db.runs[p].status = "running"
      /\ Len(rows) = n /\ rows[n].after = mem[p].before /\ rows[n].before = mem[p].before
      /\ rows[n].target = Target(p) /\ n \in Nat /\ rows \in Seq(AnyState)
  <2>1. RowsOK(p) /\ ResumeOK(p) /\ pc[p] \in Entered
    BY <1>1 DEF Inv, ProcessOK, RunInv, Entered, WithResult, InBatch
  <2>2. /\ db.runs[p] # None /\ db.runs[p].status = "running"
        /\ Len(rows) = n /\ rows[n].after = mem[p].before /\ rows[n].before = mem[p].before
    BY <1>1, <2>1 DEF RowsOK, ResumeOK, Entered, WithResult, InBatch
  <2>3. n \in 1 .. Len(rows)
    BY <2>2, SeqFacts
  <2> QED
    BY <2>1, <2>2, <2>3, SeqFacts DEF RowsOK, Target
<1>7. LedgerOK(p)
  BY DEF LedgerInv
<1>8. \E e \in 0 .. 1 : db'.runs = [db.runs EXCEPT ![p].errors = db.runs[p].errors + e]
  <2>1. r.errors \in 0 .. 1
    BY <1>1, <1>7 DEF LedgerOK, FreshOK, WithResult, InBatch
  <2>2. /\ mem[p].errors = db.runs[p].errors + r.errors
        /\ View(p).runs[p] = [db.runs[p] EXCEPT !.errors = mem[p].errors]
    BY <1>1, <1>6, <1>7 DEF LedgerOK, RowOK, InBatch
  <2>3. db'.runs = [db.runs EXCEPT ![p] = db'.runs[p]]
    BY <1>3, LedgerFrame
  <2>4. db'.runs = [db.runs EXCEPT ![p].errors = db.runs[p].errors + r.errors]
    BY <1>5, <2>2, <2>3
  <2> QED
    BY <2>1, <2>4
<1>9. db'.states = [db.states EXCEPT ![p][n].after = after]
  <2>1. CASE after = mem[p].before
    <3>1. db'.states = db.states
      BY <1>2, <1>4, <2>1 DEF ClosedImage
    <3>2. rows[n] \in AnyState /\ n \in 1 .. Len(rows)
      BY <1>6, SeqFacts
    <3>3. [rows[n] EXCEPT !.after = after] = rows[n]
      BY <1>6, <2>1, <3>2 DEF AnyState
    <3>4. [rows EXCEPT ![n] = rows[n]] = rows
      BY <1>6
    <3>5. [db.states EXCEPT ![p] = rows] = db.states
      BY DEF Inv, Typed, Images
    <3> QED
      BY <3>1, <3>3, <3>4, <3>5
  <2>2. CASE after # mem[p].before
    <3>1. db' = [View(p) EXCEPT !.states[p][n].after = after]
      BY <1>2, <2>2 DEF ClosedImage
    <3> QED
      BY <1>4, <3>1 DEF Images
  <2> QED
    BY <2>1, <2>2
<1>10. \/ after = rows[n].before /\ db'.checkpoints = db.checkpoints
       \/ db'.checkpoints = [db.checkpoints EXCEPT ![Target(p)] = after]
  <2>1. OneBatchOK(p)
    BY <1>7 DEF LedgerOK
  <2>2. CursorsBy(p, db.checkpoints, View(p).checkpoints)
    BY <2>1 DEF OneBatchOK
  <2>3. db.checkpoints \in [Targets -> AnyCursor] /\ View(p).checkpoints \in [Targets -> AnyCursor]
    BY <1>4 DEF Inv, Typed, Images
  <2>4. CASE r.next = None
    <3>1. \A t \in Targets : View(p).checkpoints[t] = db.checkpoints[t]
      BY <2>2, <2>4 DEF CursorsBy
    <3>2. View(p).checkpoints = db.checkpoints
      BY <2>3, <3>1
    <3>3. after = mem[p].before
      BY <2>4 DEF CheckpointAfter
    <3> QED
      BY <1>5, <1>6, <3>2, <3>3
  <2>5. CASE r.next # None
    <3>1. View(p).checkpoints[Target(p)] = r.next
      BY <1>1, <2>1, <2>5 DEF OneBatchOK
    <3>2. \A t \in Targets \ {Target(p)} : View(p).checkpoints[t] = db.checkpoints[t]
      BY <2>2 DEF CursorsBy
    <3>3. after = r.next
      BY <2>5 DEF CheckpointAfter
    <3>4. View(p).checkpoints = [db.checkpoints EXCEPT ![Target(p)] = after]
      BY <1>4, <2>3, <3>1, <3>2, <3>3
    <3> QED
      BY <1>5, <3>4
  <2> QED
    BY <2>4, <2>5
<1>11. Ledger!OneBatch(p)
  <2>1. Ledger!Current(p).target = Target(p)
    BY <1>6 DEF Ledger!Current
  <2>2. Ledger!Keys = Keys /\ DOMAIN db'.jobs = Keys
    BY <1>4, <1>5 DEF Ledger!Keys, Keys, Images
  <2>3. JobsBy(p, db.jobs, db'.jobs)
    BY <1>5, <1>7 DEF LedgerOK, OneBatchOK
  <2>4. ASSUME NEW k \in Keys, db'.jobs[k] # db.jobs[k]
        PROVE  /\ db'.jobs[k] # None /\ k[1] = AdapterOf[Target(p)]
               /\ db'.jobs[k].born = IF db.jobs[k] = None THEN p ELSE db.jobs[k].born
               /\ db'.jobs[k].hash[1] = r.at
    BY <2>3, <2>4 DEF JobsBy
  <2> QED
    BY <2>1, <2>2, <2>4 DEF Ledger!OneBatch
<1>12. Ledger!Running(p) /\ Ledger!InHand(p)
  BY <1>6 DEF Ledger!Running, Ledger!InHand
<1>13. [q \in Sessions |-> mem'[q].closed]
          = [[q \in Sessions |-> mem[q].closed] EXCEPT ![p] = n]
  BY <1>1, <1>3, LedgerFrame
<1>14. Ledger!Current(p) = rows[n] /\ rows[n].target = Target(p)
  BY <1>6 DEF Ledger!Current
<1> HIDE DEF after
<1> QED
  BY <1>5, <1>8, <1>9, <1>10, <1>11, <1>12, <1>13, <1>14 DEF Ledger!Apply

(* The other steps move no committed row.                                  *)
LEMMA OthersAreSilent ==
    ASSUME Inv, NEW p \in Sessions,
           \/ Crawl(p) \/ ResumeNames(p) \/ ResumeContexts(p) \/ ReadCheckpoint(p)
           \/ FetchRaises(p) \/ FetchReturns(p) \/ RecordErrors(p) \/ SelectJob(p)
           \/ InsertJob(p) \/ UpdateJob(p) \/ SelectCheckpoint(p) \/ FlushCheckpoint(p)
           \/ UniqueViolation(p) \/ LockTimeout(p) \/ Crash(p)
    PROVE  UNCHANGED Ledger!ledger
<1>1. mem[p] \in Mems /\ mem \in [Sessions -> Mems]
  BY DEF Inv, Typed
<1>2. UNCHANGED db
  BY DEF Crawl, ResumeNames, ResumeContexts, ReadCheckpoint, FetchRaises, FetchReturns,
         RecordErrors, SelectJob, InsertJob, UpdateJob, SelectCheckpoint, FlushCheckpoint,
         UniqueViolation, LockTimeout, Crash, Abandon, Rollback, JobFlushed,
         CheckpointFlushed, Write, dbvars
<1>3. \A q \in Sessions : mem'[q].closed = mem[q].closed
  <2>1. CASE Crawl(p)
    <3>1. PICK plan \in Plans : mem' = [mem EXCEPT ![p] = [mem[p] EXCEPT !.plan = plan]]
      BY <2>1 DEF Crawl
    <3> QED
      BY <1>1, <3>1 DEF Mems
  <2>2. CASE ResumeNames(p)
    <3>1. PICK origin, plan :
              mem' = [mem EXCEPT ![p] = [mem[p] EXCEPT !.origin = origin, !.plan = plan]]
      BY <2>2, ZenonT(60) DEF ResumeNames
    <3> QED
      BY <1>1, <3>1 DEF Mems
  <2>3. CASE ResumeContexts(p)
    <3>1. PICK contexts : mem' = [mem EXCEPT ![p] = [mem[p] EXCEPT !.contexts = contexts]]
      BY <2>3 DEF ResumeContexts
    <3> QED
      BY <1>1, <3>1 DEF Mems
  <2>4. CASE ReadCheckpoint(p)
    <3>1. mem' = [mem EXCEPT ![p] = [mem[p] EXCEPT !.before = CheckpointFor(p)]]
      BY <2>4 DEF ReadCheckpoint
    <3> QED
      BY <1>1, <3>1 DEF Mems
  <2>5. CASE FetchRaises(p)
    BY <1>1, <2>5 DEF FetchRaises
  <2>6. CASE FetchReturns(p)
    <3>1. PICK result : mem' = [mem EXCEPT ![p] = [mem[p] EXCEPT !.result = result]]
      BY <2>6 DEF FetchReturns
    <3> QED
      BY <1>1, <3>1 DEF Mems
  <2>7. CASE RecordErrors(p)
    <3>1. PICK errors : mem' = [mem EXCEPT ![p] = [mem[p] EXCEPT !.errors = errors]]
      BY <2>7 DEF RecordErrors
    <3> QED
      BY <1>1, <3>1 DEF Mems
  <2>8. CASE SelectJob(p)
    <3>1. PICK seen, loaded :
              mem' = [mem EXCEPT ![p] = [mem[p] EXCEPT !.seen = seen, !.loaded = loaded]]
      BY <2>8 DEF SelectJob
    <3> QED
      BY <1>1, <3>1 DEF Mems
  <2>9. CASE InsertJob(p) \/ UpdateJob(p)
    <3>1. PICK status : NextJob(p, status) /\ status \in {"created", "updated", "unchanged"}
      BY <2>9 DEF InsertJob, UpdateJob
    <3>2. mem' = [mem EXCEPT ![p] = [Tally(mem[p], status) EXCEPT !.k = @ + 1, !.loaded = None]]
      BY <3>1 DEF NextJob
    <3>3. Tally(mem[p], status) \in {mem[p], [mem[p] EXCEPT !.created = @ + 1],
                                     [mem[p] EXCEPT !.updated = @ + 1]}
      BY <3>1 DEF Tally
    <3>4. [Tally(mem[p], status) EXCEPT !.k = @ + 1, !.loaded = None].closed = mem[p].closed
      BY <1>1, <3>3 DEF Mems
    <3> QED
      BY <3>2, <3>4
  <2>10. CASE SelectCheckpoint(p) \/ FlushCheckpoint(p)
    <3>1. PICK found : mem' = [mem EXCEPT ![p] = [mem[p] EXCEPT !.found = found]]
      BY <2>10 DEF SelectCheckpoint, FlushCheckpoint
    <3> QED
      BY <1>1, <3>1 DEF Mems
  <2>11. CASE UniqueViolation(p) \/ LockTimeout(p) \/ Crash(p)
    <3>1. mem' = [mem EXCEPT ![p] = [Start EXCEPT !.plan = mem[p].plan,
                                       !.origin = mem[p].origin, !.closed = mem[p].closed]]
      BY <2>11 DEF UniqueViolation, LockTimeout, Crash, Abandon
    <3> QED
      BY <1>1, <3>1 DEF Start
  <2> QED
    BY <2>1, <2>2, <2>3, <2>4, <2>5, <2>6, <2>7, <2>8, <2>9, <2>10, <2>11
<1>4. [q \in Sessions |-> mem'[q].closed] = [q \in Sessions |-> mem[q].closed]
  BY <1>3
<1> QED
  BY <1>2, <1>4 DEF Ledger!ledger

(* What other readers of the database see of the crawls is the ledger:     *)
(* everything an adapter produced appears at once, by one fetch, with its  *)
(* checkpoint and the end of its state row, or only its failure does.      *)
THEOREM CrawlsKeepTheLedger == Spec => ImplementsLedger
<1>1. ASSUME Inv, Inv', RunInv, LedgerInv, [Next]_vars
      PROVE  [Ledger!Next]_(Ledger!ledger)
  <2>1. CASE UNCHANGED vars
    <3>1. UNCHANGED <<db, mem>>
      BY <2>1 DEF vars, dbvars
    <3> QED
      BY <3>1 DEF Ledger!ledger
  <2>2. CASE Next
    <3>1. PICK p \in Sessions : Crawl(p) \/ ResumeNames(p) \/ Step(p) \/ Crash(p)
      BY <2>2 DEF Next
    <3>2. \/ UNCHANGED Ledger!ledger
          \/ Ledger!Open(p) \/ Ledger!Enter(p) \/ Ledger!Apply(p) \/ Ledger!Fail(p)
          \/ Ledger!Settle(p)
      BY <1>1, <3>1, OthersAreSilent, CreateRunOpens, CreateStateEnters, RecordFailureFails,
         CloseApplies, FinishSettles DEF Step
    <3> QED
      BY <3>2 DEF Ledger!Next
  <2> QED
    BY <1>1, <2>1, <2>2
<1> QED
  BY <1>1, LedgerStart, Invariance, RunInvariance, LedgerInvariance, PTL
  DEF Spec, ImplementsLedger, Ledger!Spec
-----------------------------------------------------------------------------
(* The counters                                                            *)

(* The counters of a finished run are the rows it inserted and updated.    *)
THEOREM CountersAreKept == Spec => []CountersAreTrue
<1>1. ASSUME Inv, LedgerInv PROVE CountersAreTrue
  <2> SUFFICES ASSUME NEW p \in Sessions, Finished(p)
               PROVE  /\ db.runs[p].created = Cardinality(BornIn(db.jobs, p))
                      /\ db.runs[p].seen = db.runs[p].created + db.runs[p].updated
    BY DEF CountersAreTrue, BornIn
  <2>1. pc[p] = "done" /\ db.runs[p] # None
    BY <1>1 DEF Inv, ProcessOK, RowsOK, Finished
  <2>2. View(p) = db
    BY <1>1, <2>1 DEF Inv, BatchOK, View, InBatch
  <2>3. RowOK(p) /\ CountsOK(p)
    BY <1>1 DEF LedgerInv, LedgerOK
  <2>4. mem[p].created \in Nat /\ mem[p].updated \in Nat
    BY <1>1, SeqFacts DEF Mems
  <2> QED
    BY <2>1, <2>2, <2>3, <2>4 DEF RowOK, CountsOK
<1> QED
  BY <1>1, Invariance, LedgerInvariance, PTL
=============================================================================
