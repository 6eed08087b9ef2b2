--------------------------- MODULE JobStoreProofs ---------------------------
(***************************************************************************)
(* The jobs table for any number of crawlers, sweepers, keys and titles:   *)
(* type correctness, the discipline of the write lock, that an upsert      *)
(* which looked its row up under the lock stores exactly its posting, and  *)
(* that the rows only one crawler writes need no lock for that.            *)
(***************************************************************************)
EXTENDS JobStore, TLAPS

(* What each label says of the local variables.                            *)
PhasesOK ==
    \A c \in Crawlers :
        /\ pc[c] # "sweep"
        /\ pc[c] \in {"select", "flush"} => posting[c] \in Postings

(* Table `new` has the rows of `old`, each under its id.                   *)
Keeps(old, new) ==
    \A k \in Keys : old[k] # NoRow => new[k] # NoRow /\ new[k].id = old[k].id

(* A row that was committed, loaded or selected for a sweep is there, and  *)
(* it is the same one: nothing deletes a row or takes its place.           *)
RowsStay ==
    /\ Keeps(db, pending)
    /\ \A c \in Crawlers :
          pc[c] = "flush" /\ loaded[c] # NoRow =>
              RowFor(c) # NoRow /\ RowFor(c).id = loaded[c].id
    /\ \A w \in Sweepers : \A k \in doomed[w] : db[k] # NoRow

(* The inductive invariant.  LoadedUnderLockIsCurrent is inductive because *)
(* only the holder of the lock changes `pending`, and it changes it in its *)
(* flushes, which leave the label "flush"; RowsStay is needed for the      *)
(* types, since an UPDATE of a row that had gone would have nothing to     *)
(* write to.                                                               *)
Inv ==
    /\ TypeOK
    /\ PhasesOK
    /\ LockFreedWithBatch
    /\ LoadedUnderLockIsCurrent
    /\ RowsStay
-----------------------------------------------------------------------------
(* An UPDATE of the changed columns of a row leaves a row.                 *)
LEMMA DirtyRow ==
    ASSUME NEW current \in Rows, NEW old \in Rows, NEW new \in Rows
    PROVE  Dirty(current, old, new) \in Rows
<1>1. DOMAIN current = {"id", "title", "hash", "seen", "active"}
  BY DEF Rows
<1>2. \A c \in DOMAIN current : Dirty(current, old, new)[c] \in {new[c], current[c]}
  BY DEF Dirty
<1>. QED
  BY <1>1, <1>2 DEF Dirty, Rows

(* When the row is the one that was loaded, the result is the new values:  *)
(* a column that is not written already holds its value.                   *)
LEMMA DirtyOfLoaded ==
    ASSUME NEW old \in Rows, NEW new \in Rows
    PROVE  Dirty(old, old, new) = new
<1>1. DOMAIN old = DOMAIN new
  BY DEF Rows
<1>2. new = [c \in DOMAIN new |-> new[c]]
  BY DEF Rows
<1>. QED
  BY <1>1, <1>2 DEF Dirty

(* The values of a canonical job are a row.                                *)
LEMMA ValuesRow ==
    ASSUME NEW p \in Postings, NEW id \in Instants
    PROVE  Values(p, id) \in Rows
BY DEF Values, Postings, Rows, Hashes

(* No row is taken for the absence of one.                                 *)
LEMMA NoRowIsNoRow == NoRow \notin Rows
<1>1. Rows \subseteq [id : Nat, title : Titles, hash : Titles \X Nat, seen : Nat,
                      active : BOOLEAN]
  BY JobStoreAssumption DEF Rows, Hashes, Instants
<1>. QED
  BY <1>1, JobStoreAssumption
-----------------------------------------------------------------------------
LEMMA InitInv == Init => Inv
<1>. USE JobStoreAssumption, NoSessionAssumption
<1>. SUFFICES ASSUME Init PROVE Inv
  OBVIOUS
<1>1. TypeOK
  BY DEF Init, TypeOK, Tables, Instants
<1>2. PhasesOK
  BY DEF Init, PhasesOK
<1>3. LockFreedWithBatch /\ LoadedUnderLockIsCurrent
  BY DEF Init, LockFreedWithBatch, LoadedUnderLockIsCurrent, NothingPending
<1>4. RowsStay
  BY DEF Init, RowsStay, Keeps
<1>. QED
  BY <1>1, <1>2, <1>3, <1>4 DEF Inv

(* Giving up, by whatever exception or by a kill, keeps the invariant.     *)
LEMMA AbandonInv ==
    ASSUME Inv, NEW s \in Sessions, Abandon(s)
    PROVE  Inv' /\ Keeps(db, db')
<1>. USE JobStoreAssumption, NoSessionAssumption
<1>1. TypeOK'
  BY DEF Inv, TypeOK, Abandon, SessionClosed, Rollback, Goto, Instants
<1>2. PhasesOK'
  BY DEF Inv, TypeOK, PhasesOK, Abandon, Goto
<1>3. LockFreedWithBatch'
  BY DEF Inv, TypeOK, LockFreedWithBatch, NothingPending, Abandon, SessionClosed,
         Rollback, Goto
<1>4. LoadedUnderLockIsCurrent'
  BY DEF Inv, TypeOK, LoadedUnderLockIsCurrent, Abandon, SessionClosed, Rollback, Goto
<1>5. Keeps(db, pending)' /\ Keeps(db, db')
  BY DEF Inv, TypeOK, RowsStay, Keeps, Abandon, SessionClosed, Rollback
<1>6. \A c \in Crawlers :
          (pc[c] = "flush" /\ loaded[c] # NoRow =>
              RowFor(c) # NoRow /\ RowFor(c).id = loaded[c].id)'
  BY DEF Inv, TypeOK, RowsStay, RowFor, View, Abandon, SessionClosed, Rollback, Goto
<1>7. \A w \in Sweepers : \A k \in doomed'[w] : db'[k] # NoRow
  BY DEF Inv, TypeOK, RowsStay, Abandon, SessionClosed, Rollback
<1>. QED
  BY <1>1, <1>2, <1>3, <1>4, <1>5, <1>6, <1>7 DEF Inv, RowsStay

LEMMA NormalizeInv ==
    ASSUME Inv, NEW c \in Crawlers, Normalize(c)
    PROVE  Inv' /\ Keeps(db, db')
<1>. USE JobStoreAssumption, NoSessionAssumption
<1>1. PICK p \in Postings : posting' = [posting EXCEPT ![c] = p]
  <2>1. PICK k \in KeysOf[c], title \in Titles :
            posting' = [posting EXCEPT ![c] =
                          [key |-> k, title |-> title, at |-> now + 1]]
    BY DEF Normalize
  <2>2. k \in Keys
    BY SMT
  <2>3. now + 1 \in Instants
    BY DEF Inv, TypeOK, Normalize, Instants
  <2>4. [key |-> k, title |-> title, at |-> now + 1] \in Postings
    BY <2>2, <2>3 DEF Postings
  <2>. QED
    BY <2>1, <2>4
<1>2. TypeOK'
  BY <1>1 DEF Inv, TypeOK, Normalize, Goto, Instants, dbvars
<1>3. PhasesOK'
  BY <1>1 DEF Inv, TypeOK, PhasesOK, Normalize, Goto
<1>4. LockFreedWithBatch'
  BY DEF Inv, TypeOK, LockFreedWithBatch, NothingPending, Normalize, Goto, dbvars
<1>5. LoadedUnderLockIsCurrent'
  BY <1>1 DEF Inv, TypeOK, LoadedUnderLockIsCurrent, Normalize, Goto, dbvars
<1>6. RowsStay' /\ Keeps(db, db')
  BY <1>1 DEF Inv, TypeOK, RowsStay, Keeps, RowFor, View, Normalize, Goto, dbvars
<1>. QED
  BY <1>2, <1>3, <1>4, <1>5, <1>6 DEF Inv

LEMMA SelectInv ==
    ASSUME Inv, NEW c \in Crawlers, Select(c)
    PROVE  Inv' /\ Keeps(db, db')
<1>. USE JobStoreAssumption, NoSessionAssumption
<1>1. RowFor(c) \in Rows \cup {NoRow}
  BY DEF Inv, TypeOK, PhasesOK, Select, RowFor, View, Tables, Postings
<1>2. TypeOK'
  BY <1>1 DEF Inv, TypeOK, Select, Goto, dbvars
<1>3. PhasesOK'
  BY DEF Inv, TypeOK, PhasesOK, Select, Goto
<1>4. LockFreedWithBatch'
  BY DEF Inv, TypeOK, LockFreedWithBatch, NothingPending, Select, Goto, dbvars
<1>5. LoadedUnderLockIsCurrent'
  BY DEF Inv, TypeOK, LoadedUnderLockIsCurrent, Select, RowFor, View, Goto, dbvars
<1>6. RowsStay' /\ Keeps(db, db')
  BY DEF Inv, TypeOK, RowsStay, Keeps, Select, RowFor, View, Goto, dbvars
<1>. QED
  BY <1>2, <1>3, <1>4, <1>5, <1>6 DEF Inv

(* Both ways of flushing an upsert write one row for the key in hand, and  *)
(* leave a row that was there its id.                                      *)
LEMMA FlushInv ==
    ASSUME Inv, NEW c \in Crawlers, pc[c] = "flush",
           NEW row \in Rows,
           RowFor(c) # NoRow => row.id = RowFor(c).id,
           Write(c, [View(c) EXCEPT ![posting[c].key] = row]),
           Goto(c, "batch"),
           UNCHANGED <<now, posting, loaded, doomed, cutoff>>
    PROVE  Inv' /\ Keeps(db, db')
<1>. USE JobStoreAssumption, NoSessionAssumption
<1>. DEFINE image == [View(c) EXCEPT ![posting[c].key] = row]
<1>1. posting[c].key \in Keys /\ View(c) \in Tables /\ image \in Tables
  BY DEF Inv, TypeOK, PhasesOK, View, Tables, Postings
<1>2. TypeOK'
  BY <1>1 DEF Inv, TypeOK, Write, Goto
<1>3. PhasesOK'
  BY DEF Inv, TypeOK, PhasesOK, Goto
<1>4. LockFreedWithBatch'
  BY DEF Inv, TypeOK, LockFreedWithBatch, NothingPending, Write, Goto
<1>5. LoadedUnderLockIsCurrent'
  BY DEF Inv, TypeOK, LoadedUnderLockIsCurrent, Write, Goto
<1>6. Keeps(db, pending)' /\ Keeps(db, db')
  <2>1. Keeps(View(c), image)
    BY <1>1, NoRowIsNoRow DEF Keeps, RowFor, Tables
  <2>2. Keeps(db, View(c))
    BY DEF Inv, RowsStay, Keeps, View
  <2>. QED
    BY <2>1, <2>2 DEF Keeps, Write
<1>7. \A d \in Crawlers :
          (pc[d] = "flush" /\ loaded[d] # NoRow =>
              RowFor(d) # NoRow /\ RowFor(d).id = loaded[d].id)'
  BY DEF Inv, TypeOK, RowsStay, RowFor, View, Write, CanWrite, Goto
<1>8. \A w \in Sweepers : \A k \in doomed'[w] : db'[k] # NoRow
  BY DEF Inv, RowsStay, Write
<1>. QED
  BY <1>2, <1>3, <1>4, <1>5, <1>6, <1>7, <1>8 DEF Inv, RowsStay

LEMMA InsertInv ==
    ASSUME Inv, NEW c \in Crawlers, Insert(c)
    PROVE  Inv' /\ Keeps(db, db')
<1>1. Created(posting[c]) \in Rows
  BY ValuesRow DEF Inv, PhasesOK, Insert, Created, Postings
<1>2. RowFor(c) = NoRow
  BY DEF Insert, KeyIsFree, RowFor
<1>. QED
  BY <1>1, <1>2, FlushInv DEF Insert

LEMMA UpdateInv ==
    ASSUME Inv, NEW c \in Crawlers, Update(c)
    PROVE  Inv' /\ Keeps(db, db')
<1>. DEFINE new == Updated(RowFor(c), loaded[c], posting[c])
<1>1. posting[c] \in Postings /\ loaded[c] \in Rows /\ RowFor(c) \in Rows
  BY JobStoreAssumption
  DEF Inv, TypeOK, PhasesOK, RowsStay, Update, RowFor, View, Tables, Postings
<1>2. Values(posting[c], loaded[c].id) \in Rows
  BY <1>1, ValuesRow DEF Rows
<1>3. new \in Rows
  BY <1>1, <1>2, DirtyRow DEF Updated
<1>4. new.id = RowFor(c).id
  BY <1>1 DEF Inv, RowsStay, Update, Updated, Dirty, Values, Rows
<1>5. View(c) \in [Keys -> Rows \cup {NoRow}]
  BY DEF Inv, TypeOK, View, Tables
<1>6. Write(c, [View(c) EXCEPT ![posting[c].key] = new])
  BY <1>1, <1>5 DEF Update, RowFor, Postings
<1>. QED
  BY <1>3, <1>4, <1>6, FlushInv DEF Update

LEMMA CommitBatchInv ==
    ASSUME Inv, NEW c \in Crawlers, CommitBatch(c)
    PROVE  Inv' /\ Keeps(db, db')
<1>. USE JobStoreAssumption, NoSessionAssumption
<1>1. TypeOK'
  BY DEF Inv, TypeOK, CommitBatch, Commit, View, Goto
<1>2. PhasesOK'
  BY DEF Inv, TypeOK, PhasesOK, CommitBatch, Goto
<1>3. LockFreedWithBatch'
  BY DEF Inv, TypeOK, LockFreedWithBatch, NothingPending, CommitBatch, Commit, View, Goto
<1>4. LoadedUnderLockIsCurrent'
  BY DEF Inv, TypeOK, LoadedUnderLockIsCurrent, CommitBatch, Commit, Goto
<1>5. Keeps(db, pending)' /\ Keeps(db, db')
  BY DEF Inv, RowsStay, Keeps, CommitBatch, Commit, View
<1>6. \A d \in Crawlers :
          (pc[d] = "flush" /\ loaded[d] # NoRow =>
              RowFor(d) # NoRow /\ RowFor(d).id = loaded[d].id)'
  <2>. SUFFICES ASSUME NEW d \in Crawlers, pc'[d] = "flush", loaded'[d] # NoRow
                PROVE  RowFor(d)' # NoRow /\ RowFor(d).id' = loaded'[d].id
    OBVIOUS
  <2>1. d # c /\ pc[d] = "flush" /\ loaded'[d] = loaded[d] /\ posting'[d] = posting[d]
    BY DEF Inv, TypeOK, CommitBatch, Goto
  <2>2. posting[d].key \in Keys
    BY <2>1 DEF Inv, PhasesOK, Postings
  <2>3. RowFor(d) # NoRow /\ RowFor(d).id = loaded[d].id
    BY <2>1 DEF Inv, RowsStay
  <2>4. CASE writer = c
    <3>1. RowFor(d) = db[posting[d].key] /\ RowFor(d)' = db'[posting[d].key]
      BY <2>1, <2>4 DEF RowFor, View, CommitBatch, Commit
    <3>. QED
      BY <3>1, <2>1, <2>2, <2>3, <1>5 DEF Keeps
  <2>5. CASE writer # c
    BY <2>1, <2>3, <2>5 DEF RowFor, View, CommitBatch, Commit
  <2>. QED
    BY <2>4, <2>5
<1>7. \A w \in Sweepers : \A k \in doomed'[w] : db'[k] # NoRow
  BY <1>5 DEF Inv, TypeOK, RowsStay, Keeps, CommitBatch
<1>. QED
  BY <1>1, <1>2, <1>3, <1>4, <1>5, <1>6, <1>7 DEF Inv, RowsStay

LEMMA SweepSelectInv ==
    ASSUME Inv, NEW w \in Sweepers, SweepSelect(w)
    PROVE  Inv' /\ Keeps(db, db')
<1>. USE JobStoreAssumption, NoSessionAssumption
<1>1. PICK before \in 1 .. now, from \in {Sources} \cup {{src} : src \in Sources} :
          /\ cutoff' = [cutoff EXCEPT ![w] = before]
          /\ doomed' = [doomed EXCEPT ![w] =
                          {k \in Keys : SourceOf[k] \in from /\ Stale(db[k], before)}]
  BY DEF SweepSelect
<1>2. before \in Instants
  BY DEF Inv, TypeOK, Instants
<1>3. TypeOK'
  BY <1>1, <1>2 DEF Inv, TypeOK, SweepSelect, Goto, dbvars
<1>4. PhasesOK'
  BY DEF Inv, TypeOK, PhasesOK, SweepSelect, Goto
<1>5. LockFreedWithBatch'
  BY DEF Inv, TypeOK, LockFreedWithBatch, NothingPending, SweepSelect, Goto, dbvars
<1>6. LoadedUnderLockIsCurrent'
  BY DEF Inv, TypeOK, LoadedUnderLockIsCurrent, SweepSelect, Goto, dbvars
<1>7. Keeps(db, pending)' /\ Keeps(db, db')
  BY DEF Inv, RowsStay, Keeps, SweepSelect, dbvars
<1>8. \A c \in Crawlers :
          (pc[c] = "flush" /\ loaded[c] # NoRow =>
              RowFor(c) # NoRow /\ RowFor(c).id = loaded[c].id)'
  BY DEF Inv, TypeOK, RowsStay, RowFor, View, SweepSelect, Goto, dbvars
<1>9. \A v \in Sweepers : \A k \in doomed'[v] : db'[k] # NoRow
  BY <1>1 DEF Inv, TypeOK, RowsStay, SweepSelect, Stale, dbvars
<1>. QED
  BY <1>3, <1>4, <1>5, <1>6, <1>7, <1>8, <1>9 DEF Inv, RowsStay

(* A sweep's commit clears is_active on rows that are there.               *)
LEMMA SweepCommitInv ==
    ASSUME Inv, NEW w \in Sweepers, SweepCommit(w)
    PROVE  Inv' /\ Keeps(db, db')
<1>. USE JobStoreAssumption, NoSessionAssumption
<1>. DEFINE swept == Deactivated(View(w), doomed[w])
<1>1. View(w) = db /\ doomed[w] \subseteq Keys
  BY DEF Inv, TypeOK, View
<1>2. swept \in Tables /\ Keeps(db, swept)
  <2>0. \A row \in Rows : [row EXCEPT !.active = FALSE] \in Rows
    BY DEF Rows
  <2>1. \A k \in Keys : db[k] # NoRow => [db[k] EXCEPT !.active = FALSE] \in Rows
    BY <2>0 DEF Inv, TypeOK, Tables
  <2>2. \A k \in doomed[w] : db[k] # NoRow
    BY DEF Inv, RowsStay
  <2>3. \A k \in Keys : swept[k] = IF k \in doomed[w] THEN [db[k] EXCEPT !.active = FALSE]
                                                    ELSE db[k]
    BY <1>1 DEF Deactivated
  <2>4. \A k \in Keys : db[k] \in Rows \cup {NoRow}
    BY DEF Inv, TypeOK, Tables
  <2>5. swept \in Tables
    BY <1>1, <2>1, <2>2, <2>4 DEF Deactivated, Tables
  <2>6. \A k \in Keys : db[k] # NoRow => [db[k] EXCEPT !.active = FALSE].id = db[k].id
    BY <2>4 DEF Rows
  <2>. QED
    BY <2>1, <2>3, <2>5, <2>6, NoRowIsNoRow, ZenonT(60) DEF Keeps
<1>3. /\ db' = db \/ db' = swept
      /\ writer' = writer
      /\ \/ UNCHANGED <<pending, db>>
         \/ writer = NoSession /\ pending' = db'
  <2>1. CASE doomed[w] = {}
    <3>1. UNCHANGED dbvars
      BY <2>1 DEF SweepCommit
    <3>. QED
      BY <3>1 DEF dbvars
  <2>2. CASE doomed[w] # {}
    <3>1. WriteCommit(w, swept)
      BY <2>2 DEF SweepCommit, SweepSaved
    <3>2. writer = NoSession
      BY <3>1 DEF WriteCommit, CanWrite, Inv, TypeOK
    <3>3. db' = swept /\ pending' = swept /\ writer' = NoSession
      BY <3>1 DEF WriteCommit
    <3>. HIDE DEF swept
    <3>. QED
      BY <3>2, <3>3
  <2>. QED
    BY <2>1, <2>2
<1>4. db' \in Tables /\ pending' \in Tables /\ Keeps(db, db')
  BY <1>2, <1>3 DEF Inv, TypeOK, Keeps
<1>5. Keeps(db, pending)'
  BY <1>3 DEF Inv, RowsStay, Keeps
<1>6. TypeOK'
  BY <1>3, <1>4 DEF Inv, TypeOK, SweepCommit, Goto, Instants
<1>7. PhasesOK'
  BY DEF Inv, TypeOK, PhasesOK, SweepCommit, Goto
<1>8. LockFreedWithBatch'
  BY <1>3 DEF Inv, TypeOK, LockFreedWithBatch, NothingPending, SweepCommit, Goto
<1>9. LoadedUnderLockIsCurrent'
  BY <1>3 DEF Inv, TypeOK, LoadedUnderLockIsCurrent, SweepCommit, Goto
<1>10. \A c \in Crawlers :
          (pc[c] = "flush" /\ loaded[c] # NoRow =>
              RowFor(c) # NoRow /\ RowFor(c).id = loaded[c].id)'
  <2>. SUFFICES ASSUME NEW c \in Crawlers, pc'[c] = "flush", loaded'[c] # NoRow
                PROVE  RowFor(c)' # NoRow /\ RowFor(c).id' = loaded'[c].id
    OBVIOUS
  <2>1. pc[c] = "flush" /\ loaded' = loaded /\ posting' = posting
    BY DEF Inv, TypeOK, SweepCommit, Goto
  <2>2. posting[c].key \in Keys
    BY <2>1 DEF Inv, PhasesOK, Postings
  <2>3. RowFor(c) # NoRow /\ RowFor(c).id = loaded[c].id
    BY <2>1 DEF Inv, RowsStay
  <2>4. CASE writer = c
    BY <1>3, <2>1, <2>3, <2>4 DEF RowFor, View
  <2>5. CASE writer # c
    <3>1. RowFor(c) = db[posting[c].key] /\ RowFor(c)' = db'[posting[c].key]
      BY <1>3, <2>1, <2>5 DEF RowFor, View
    <3>. QED
      BY <3>1, <1>4, <2>1, <2>2, <2>3 DEF Keeps
  <2>. QED
    BY <2>4, <2>5
<1>11. \A v \in Sweepers : \A k \in doomed'[v] : db'[k] # NoRow
  BY <1>4 DEF Inv, TypeOK, RowsStay, Keeps, SweepCommit
<1>. QED
  BY <1>4, <1>5, <1>6, <1>7, <1>8, <1>9, <1>10, <1>11 DEF Inv, RowsStay

(* Every step keeps the invariant, and every row of the table.             *)
LEMMA NextInv == Inv /\ [Next]_vars => Inv' /\ Keeps(db, db')
<1>. USE JobStoreAssumption
<1>. SUFFICES ASSUME Inv, [Next]_vars PROVE Inv' /\ Keeps(db, db')
  OBVIOUS
<1>1. ASSUME NEW c \in Crawlers, Normalize(c) \/ Select(c) PROVE Inv' /\ Keeps(db, db')
  BY <1>1, NormalizeInv, SelectInv
<1>2. ASSUME NEW c \in Crawlers, Insert(c) \/ Update(c) PROVE Inv' /\ Keeps(db, db')
  BY <1>2, InsertInv, UpdateInv
<1>3. ASSUME NEW c \in Crawlers, CommitBatch(c) PROVE Inv' /\ Keeps(db, db')
  BY <1>3, CommitBatchInv
<1>4. ASSUME NEW c \in Crawlers, UniqueViolation(c) PROVE Inv' /\ Keeps(db, db')
  BY <1>4, AbandonInv DEF UniqueViolation
<1>5. ASSUME NEW w \in Sweepers, SweepSelect(w) \/ SweepCommit(w)
      PROVE  Inv' /\ Keeps(db, db')
  BY <1>5, SweepSelectInv, SweepCommitInv
<1>6. ASSUME NEW s \in Sessions, LockTimeout(s) \/ Crash(s) PROVE Inv' /\ Keeps(db, db')
  BY <1>6, AbandonInv DEF LockTimeout, Crash
<1>7. CASE UNCHANGED vars
  BY <1>7 DEF Inv, TypeOK, PhasesOK, LockFreedWithBatch, NothingPending,
              LoadedUnderLockIsCurrent, RowsStay, Keeps, RowFor, View, vars, dbvars
<1>. QED
  BY <1>1, <1>2, <1>3, <1>4, <1>5, <1>6, <1>7 DEF Next, CrawlerStep, SweeperStep

LEMMA Invariance == Spec => []Inv
BY InitInv, NextInv, PTL DEF Spec
-----------------------------------------------------------------------------
(* Every variable keeps its type in every instance.                        *)
THEOREM TypeCorrect == Spec => []TypeOK
<1>1. Inv => TypeOK
  BY DEF Inv
<1>. QED
  BY <1>1, Invariance, PTL

(* The write lock is held only inside a batch, and without it nothing is   *)
(* uncommitted: upsert, sweep, exceptions and kills all let it go.         *)
THEOREM LockSafety == Spec => []LockFreedWithBatch
<1>1. Inv => LockFreedWithBatch
  BY DEF Inv
<1>. QED
  BY <1>1, Invariance, PTL

(* What an upsert loaded under the lock is what its UPDATE overwrites.     *)
THEOREM LoadsUnderLock == Spec => []LoadedUnderLockIsCurrent
<1>1. Inv => LoadedUnderLockIsCurrent
  BY DEF Inv
<1>. QED
  BY <1>1, Invariance, PTL

(* uq_jobs_source_identity and the upsert keep every committed row, under  *)
(* its id, for ever.                                                       *)
THEOREM RowIdentity == Spec => RowsKeepTheirId
<1>1. Inv /\ [Next]_vars =>
        [\A k \in Keys : db[k] # NoRow => db'[k] # NoRow /\ db'[k].id = db[k].id]_vars
  BY NextInv DEF Keeps
<1>. QED
  BY <1>1, Invariance, PTL DEF Spec, RowsKeepTheirId

(* Only its own flush takes a crawler from "flush" to "batch".             *)
LEMMA FlushStep ==
    ASSUME Inv, Next, NEW c \in Crawlers, pc[c] = "flush", pc'[c] = "batch"
    PROVE  Insert(c) \/ Update(c)
<1>. USE JobStoreAssumption
<1>. DEFINE PcOK == pc \in [Sessions -> {"idle", "select", "flush", "batch", "sweep"}]
<1>1. PcOK
  BY DEF Inv, TypeOK
<1>2. ASSUME NEW d \in Sessions, Abandon(d) PROVE FALSE
  BY <1>1, <1>2 DEF Abandon, Goto
<1>3. ASSUME NEW d \in Crawlers, Normalize(d) \/ Select(d) \/ CommitBatch(d)
      PROVE  FALSE
  BY <1>1, <1>3 DEF Normalize, Select, CommitBatch, Goto
<1>4. ASSUME NEW d \in Crawlers, d # c, Insert(d) \/ Update(d) PROVE FALSE
  BY <1>1, <1>4 DEF Insert, Update, Goto
<1>5. ASSUME NEW w \in Sweepers, SweepSelect(w) \/ SweepCommit(w) PROVE FALSE
  BY <1>1, <1>5 DEF SweepSelect, SweepCommit, Goto
<1>. QED
  BY <1>2, <1>3, <1>4, <1>5
  DEF Next, CrawlerStep, SweeperStep, UniqueViolation, LockTimeout, Crash

(* An upsert whose SELECT ran under the lock stores exactly its posting,   *)
(* whatever other crawlers and sweepers do between its statements.         *)
THEOREM ExactUnderLock == Spec => UpsertUnderLockIsExact
<1>. USE JobStoreAssumption, NoSessionAssumption
<1>. DEFINE Exact(c) ==
              writer = c /\ pc[c] = "flush" /\ pc'[c] = "batch" =>
                  LET row == pending'[posting[c].key] IN
                  /\ Whole(row)
                  /\ row.seen = posting[c].at
                  /\ row.active
<1>1. ASSUME Inv, Next, NEW c \in Crawlers PROVE Exact(c)
  <2>. SUFFICES ASSUME writer = c, pc[c] = "flush", pc'[c] = "batch"
                PROVE  LET row == pending'[posting[c].key] IN
                       Whole(row) /\ row.seen = posting[c].at /\ row.active
    OBVIOUS
  <2>. DEFINE stored == Created(posting[c])
  <2>1. Insert(c) \/ Update(c)
    BY <1>1, FlushStep
  <2>2. posting[c] \in Postings /\ View(c) \in Tables /\ View(c) = pending
    BY <1>1 DEF Inv, TypeOK, PhasesOK, View
  <2>3. CASE Insert(c)
    <3>1. pending'[posting[c].key] = Values(posting[c], posting[c].at)
      BY <2>2, <2>3 DEF Insert, Write, Created, Tables, Postings
    <3>. QED
      BY <3>1, <2>2 DEF Values, Whole
  <2>4. CASE Update(c)
    <3>1. loaded[c] = pending[posting[c].key] /\ loaded[c] \in Rows
      BY <1>1, <2>4 DEF Inv, TypeOK, LoadedUnderLockIsCurrent, Update
    <3>2. Values(posting[c], loaded[c].id) \in Rows
      BY <2>2, <3>1, ValuesRow DEF Rows
    <3>3. pending'[posting[c].key] = Updated(loaded[c], loaded[c], posting[c])
      BY <2>2, <2>4, <3>1 DEF Update, Write, Tables, Postings
    <3>4. pending'[posting[c].key] = Values(posting[c], loaded[c].id)
      BY <3>1, <3>2, <3>3, DirtyOfLoaded DEF Updated
    <3>. QED
      BY <3>4 DEF Values, Whole
  <2>. QED
    BY <2>1, <2>3, <2>4
<1>2. Inv /\ [Next]_vars => [\A c \in Crawlers : Exact(c)]_vars
  BY <1>1
<1>. QED
  BY <1>2, Invariance, PTL DEF Spec, UpsertUnderLockIsExact
-----------------------------------------------------------------------------
(* Rows that only one crawler writes                                       *)

(* Rows that differ in is_active at most                                   *)
SamePosting(a, b) ==
    IF a = NoRow THEN b = NoRow
    ELSE b # NoRow /\ b.title = a.title /\ b.hash = a.hash /\ b.seen = a.seen

(* What a crawler has in hand is of its sources; while no other crawler    *)
(* lists the key, the row is as it loaded it but for sweeps, and older.    *)
HandOK(c) ==
    pc[c] \in {"select", "flush"} =>
        /\ posting[c].key \in KeysOf[c]
        /\ posting[c].at <= now
        /\ Exclusive(posting[c].key) =>
              /\ RowFor(c) # NoRow => RowFor(c).seen <= posting[c].at
              /\ pc[c] = "flush" /\ loaded[c] # NoRow => SamePosting(loaded[c], RowFor(c))

FreshRow(row) == row # NoRow => Whole(row) /\ row.seen <= now

(* Row k of a table may follow the row of another: it is not older.        *)
Follows(k, old, new) == old[k] # NoRow => new[k] # NoRow /\ old[k].seen <= new[k].seen

ExclusiveOK(k) ==
    Exclusive(k) => FreshRow(db[k]) /\ FreshRow(pending[k]) /\ Follows(k, db, pending)

(* The inductive invariant of the rows only one crawler writes: a batch    *)
(* changes no key its crawler does not list, so nobody but sweepers comes  *)
(* between the SELECT and the UPDATE of such a row, lock or no lock.       *)
OwnInv ==
    /\ \A c \in Crawlers : writer = c => \A k \in Keys \ KeysOf[c] : pending[k] = db[k]
    /\ \A k \in Keys : ExclusiveOK(k)
    /\ \A c \in Crawlers : HandOK(c)
-----------------------------------------------------------------------------
LEMMA SoleOwner ==
    ASSUME NEW k \in Keys, Exclusive(k), NEW c \in Crawlers, k \in KeysOf[c],
           NEW d \in Crawlers, d # c
    PROVE  k \notin KeysOf[d]
<1>1. PICK o \in Crawlers : {e \in Crawlers : k \in KeysOf[e]} = {o}
  BY DEF Exclusive
<1>. QED
  BY <1>1

LEMMA RowTypes ==
    ASSUME Inv
    PROVE  /\ \A k \in Keys : db[k] \in Rows \cup {NoRow} /\ pending[k] \in Rows \cup {NoRow}
           /\ \A row \in Rows : row.seen \in Nat /\ row # NoRow
           /\ now \in Nat
           /\ \A c \in Crawlers : pc[c] \in {"select", "flush"} =>
                 /\ posting[c] \in Postings /\ posting[c].key \in Keys
                 /\ posting[c].at \in Nat
                 /\ RowFor(c) \in Rows \cup {NoRow}
           /\ \A c \in Crawlers : loaded[c] \in Rows \cup {NoRow}
  BY NoRowIsNoRow, JobStoreAssumption
  DEF Inv, TypeOK, PhasesOK, Tables, Rows, Postings, Instants, RowFor, View

(* A process that stands still keeps its hand while its row stays or is    *)
(* only swept.                                                             *)
LEMMA HandStays ==
    ASSUME Inv, OwnInv, now' \in Nat, now <= now', NEW d \in Crawlers,
           pc'[d] = pc[d], posting'[d] = posting[d], loaded'[d] = loaded[d],
           pc[d] \in {"select", "flush"} /\ Exclusive(posting[d].key)
              => SamePosting(RowFor(d), RowFor(d)')
    PROVE  HandOK(d)'
<1>. SUFFICES ASSUME pc[d] \in {"select", "flush"} PROVE HandOK(d)'
  BY DEF HandOK
<1>1. /\ posting[d].key \in KeysOf[d] /\ posting[d].at <= now /\ posting[d].at \in Nat
      /\ now \in Nat
  BY RowTypes DEF OwnInv, HandOK
<1>2. posting[d].at <= now'
  BY <1>1
<1>3. ASSUME Exclusive(posting[d].key)
      PROVE  /\ RowFor(d)' # NoRow => RowFor(d)'.seen <= posting[d].at
             /\ pc[d] = "flush" /\ loaded[d] # NoRow => SamePosting(loaded[d], RowFor(d)')
  BY <1>3 DEF OwnInv, HandOK, SamePosting
<1>. QED
  BY <1>1, <1>2, <1>3 DEF HandOK, SamePosting, Exclusive, RowFor, View

LEMMA InitOwn == Init => OwnInv
<1>. SUFFICES ASSUME Init PROVE OwnInv
  OBVIOUS
<1>1. \A c \in Crawlers : writer # c /\ pc[c] = "idle"
  BY JobStoreAssumption, NoSessionAssumption DEF Init
<1>2. \A k \in Keys : db[k] = NoRow /\ pending[k] = NoRow
  BY DEF Init
<1>. QED
  BY <1>1, <1>2 DEF OwnInv, HandOK, ExclusiveOK, FreshRow, Follows

LEMMA AbandonOwn ==
    ASSUME Inv, OwnInv, NEW s \in Sessions, Abandon(s)
    PROVE  OwnInv' /\ \A k \in Keys : Exclusive(k) => Follows(k, db, db')
<1>1. /\ db' = db /\ now' = now /\ now \in Nat
      /\ IF writer = s THEN pending' = db /\ writer' = NoSession
                       ELSE pending' = pending /\ writer' = writer
      /\ pc'[s] = "idle"
      /\ \A c \in Crawlers \ {s} :
            pc'[c] = pc[c] /\ posting'[c] = posting[c] /\ loaded'[c] = loaded[c]
  BY RowTypes, JobStoreAssumption
  DEF Inv, TypeOK, Abandon, SessionClosed, Rollback, Goto
<1>2. \A k \in Keys : db[k] # NoRow => db[k].seen <= db[k].seen
  BY RowTypes
<1>3. \A c \in Crawlers : writer' = c => \A k \in Keys \ KeysOf[c] : pending'[k] = db'[k]
  BY <1>1, NoSessionAssumption, JobStoreAssumption DEF OwnInv
<1>4. \A k \in Keys : ExclusiveOK(k)'
  BY <1>1, <1>2 DEF OwnInv, ExclusiveOK, FreshRow, Follows, Exclusive
<1>5. ASSUME NEW c \in Crawlers PROVE HandOK(c)'
  <2>1. CASE c = s
    BY <1>1, <2>1 DEF HandOK
  <2>2. CASE c # s
    <3>1. pc[c] \in {"select", "flush"} => RowFor(c)' = RowFor(c)
      BY <1>1, <2>2, NoSessionAssumption, JobStoreAssumption DEF RowFor, View
    <3>2. pc[c] \in {"select", "flush"} => SamePosting(RowFor(c), RowFor(c)')
      BY <3>1 DEF SamePosting
    <3>. QED
      BY <1>1, <2>2, <3>2, HandStays
  <2>. QED
    BY <2>1, <2>2
<1>. QED
  BY <1>1, <1>2, <1>3, <1>4, <1>5 DEF OwnInv, Follows

LEMMA NormalizeOwn ==
    ASSUME Inv, Inv', OwnInv, NEW c \in Crawlers, Normalize(c)
    PROVE  OwnInv' /\ \A k \in Keys : Exclusive(k) => Follows(k, db, db')
<1>1. PICK k \in KeysOf[c], title \in Titles :
          posting' = [posting EXCEPT ![c] = [key |-> k, title |-> title, at |-> now + 1]]
  BY DEF Normalize
<1>2. /\ now' = now + 1 /\ now \in Nat /\ pc'[c] = "select"
      /\ posting'[c].key = k /\ posting'[c].at = now + 1
      /\ \A d \in Crawlers \ {c} :
            pc'[d] = pc[d] /\ posting'[d] = posting[d] /\ loaded'[d] = loaded[d]
      /\ db' = db /\ pending' = pending /\ writer' = writer
  BY <1>1, RowTypes, JobStoreAssumption DEF Inv, TypeOK, Normalize, Goto, dbvars
<1>3. k \in Keys
  BY JobStoreAssumption
<1>4. ASSUME NEW j \in Keys
      PROVE  ExclusiveOK(j)' /\ (db[j] # NoRow => db[j].seen <= db[j].seen)
  <2>1. FreshRow(db[j]) => FreshRow(db[j])'
    BY <1>2, RowTypes DEF FreshRow, Whole
  <2>2. FreshRow(pending[j]) => FreshRow(pending[j])'
    BY <1>2, RowTypes DEF FreshRow, Whole
  <2>. QED
    BY <1>2, <2>1, <2>2, RowTypes DEF OwnInv, ExclusiveOK, Follows, Exclusive
<1>5. HandOK(c)'
  <2>1. ASSUME Exclusive(k), RowFor(c)' # NoRow PROVE RowFor(c)'.seen <= now + 1
    <3>1. RowFor(c)' \in {db[k], pending[k]}
      BY <1>2 DEF RowFor, View
    <3>2. FreshRow(db[k]) /\ FreshRow(pending[k])
      BY <1>3, <2>1 DEF OwnInv, ExclusiveOK
    <3>3. RowFor(c)' \in Rows /\ RowFor(c)'.seen <= now
      BY <1>3, <2>1, <3>1, <3>2, RowTypes DEF FreshRow
    <3>. QED
      BY <1>2, <3>3, RowTypes
  <2>2. pc'[c] # "flush" /\ k \in KeysOf[c] /\ now + 1 <= now'
    BY <1>2
  <2>. QED
    BY <1>2, <2>1, <2>2 DEF HandOK, Exclusive
<1>6. ASSUME NEW d \in Crawlers, d # c PROVE HandOK(d)'
  <2>1. pc[d] \in {"select", "flush"} => RowFor(d)' = RowFor(d)
    BY <1>2, <1>6 DEF RowFor, View
  <2>. QED
    BY <1>2, <1>6, <2>1, HandStays DEF SamePosting
<1>. QED
  BY <1>2, <1>4, <1>5, <1>6 DEF OwnInv, Follows

LEMMA SelectOwn ==
    ASSUME Inv, OwnInv, NEW c \in Crawlers, Select(c)
    PROVE  OwnInv' /\ \A k \in Keys : Exclusive(k) => Follows(k, db, db')
<1>1. /\ pc[c] = "select" /\ pc'[c] = "flush" /\ loaded'[c] = RowFor(c)
      /\ now' = now /\ now \in Nat /\ posting' = posting
      /\ \A d \in Crawlers \ {c} : pc'[d] = pc[d] /\ loaded'[d] = loaded[d]
      /\ db' = db /\ pending' = pending /\ writer' = writer
  BY RowTypes, JobStoreAssumption DEF Inv, TypeOK, Select, Goto, dbvars
<1>2. \A k \in Keys : ExclusiveOK(k)' /\ (db[k] # NoRow => db[k].seen <= db[k].seen)
  BY <1>1, RowTypes DEF OwnInv, ExclusiveOK, FreshRow, Follows, Exclusive
<1>3. \A d \in Crawlers : RowFor(d)' = RowFor(d)
  BY <1>1 DEF RowFor, View
<1>4. HandOK(c)'
  BY <1>1, <1>3 DEF OwnInv, HandOK, SamePosting, Exclusive
<1>5. ASSUME NEW d \in Crawlers, d # c PROVE HandOK(d)'
  BY <1>1, <1>3, <1>5, HandStays DEF SamePosting
<1>. QED
  BY <1>1, <1>2, <1>4, <1>5 DEF OwnInv, Follows

(* The row a flush writes is of the posting in hand, if no other crawler   *)
(* lists its key.                                                          *)
LEMMA FlushOwn ==
    ASSUME Inv, OwnInv, NEW c \in Crawlers, pc[c] = "flush", NEW row \in Rows,
           Exclusive(posting[c].key) =>
              Whole(row) /\ row.seen = posting[c].at,
           Write(c, [View(c) EXCEPT ![posting[c].key] = row]),
           Goto(c, "batch"),
           UNCHANGED <<now, posting, loaded, doomed, cutoff>>
    PROVE  OwnInv' /\ \A k \in Keys : Exclusive(k) => Follows(k, db, db')
<1>. DEFINE key == posting[c].key
            image == [View(c) EXCEPT ![key] = row]
<1>1. /\ pc'[c] = "batch" /\ now' = now /\ posting' = posting /\ loaded' = loaded
      /\ \A d \in Crawlers \ {c} : pc'[d] = pc[d]
      /\ db' = db /\ pending' = image /\ writer' = c /\ writer \in {NoSession, c}
      /\ key \in Keys /\ key \in KeysOf[c] /\ posting[c].at <= now /\ now \in Nat
  BY RowTypes, JobStoreAssumption DEF Inv, TypeOK, Write, CanWrite, Goto, OwnInv, HandOK
<1>2. /\ image[key] = row
      /\ \A k \in Keys \ {key} : image[k] = View(c)[k]
  BY <1>1 DEF Inv, TypeOK, View, Tables
<1>3. /\ \A k \in Keys : db[k] # NoRow => db[k].seen <= db[k].seen
      /\ row # NoRow
  BY RowTypes
<1>. HIDE DEF image, key
<1>4. \A d \in Crawlers : writer' = d => \A k \in Keys \ KeysOf[d] : pending'[k] = db'[k]
  <2>1. \A k \in Keys \ KeysOf[c] : View(c)[k] = db[k]
    BY DEF OwnInv, View
  <2>. QED
    BY <1>1, <1>2, <2>1
<1>5. ASSUME NEW k \in Keys PROVE ExclusiveOK(k)'
  <2>. SUFFICES ASSUME Exclusive(k)
                PROVE  FreshRow(db[k]) /\ FreshRow(image[k]) /\ Follows(k, db, image)
    BY <1>1 DEF ExclusiveOK, FreshRow, Follows, Exclusive
  <2>1. FreshRow(db[k]) /\ FreshRow(View(c)[k]) /\ Follows(k, db, View(c))
    BY <1>3 DEF OwnInv, ExclusiveOK, View, Follows
  <2>2. CASE k # key
    BY <1>2, <2>1, <2>2 DEF Follows
  <2>3. CASE k = key
    <3>1. Whole(row) /\ row.seen = posting[c].at
      BY <2>3 DEF key
    <3>2. View(c)[key] # NoRow => View(c)[key].seen <= posting[c].at
      BY <2>3 DEF OwnInv, HandOK, RowFor, key
    <3>3. db[key] # NoRow => db[key].seen <= posting[c].at
      <4>1. View(c)[key] \in Rows \cup {NoRow} /\ db[key] \in Rows \cup {NoRow}
            /\ posting[c].at \in Nat
        BY <1>1, RowTypes DEF View
      <4>. QED
        BY <2>1, <2>3, <3>2, <4>1, RowTypes DEF Follows
    <3>. QED
      BY <1>1, <1>2, <1>3, <2>1, <2>3, <3>1, <3>3 DEF FreshRow, Follows
  <2>. QED
    BY <2>2, <2>3
<1>6. ASSUME NEW d \in Crawlers PROVE HandOK(d)'
  <2>1. CASE d = c
    BY <1>1, <2>1 DEF HandOK
  <2>2. CASE d # c
    <3>1. RowFor(d)' = RowFor(d)
      BY <1>1, <2>2, NoSessionAssumption, JobStoreAssumption DEF RowFor, View
    <3>. QED
      BY <1>1, <2>2, <3>1, HandStays DEF SamePosting
  <2>. QED
    BY <2>1, <2>2
<1>. QED
  BY <1>1, <1>3, <1>4, <1>5, <1>6 DEF OwnInv, Follows

LEMMA InsertOwn ==
    ASSUME Inv, OwnInv, NEW c \in Crawlers, Insert(c)
    PROVE  OwnInv' /\ \A k \in Keys : Exclusive(k) => Follows(k, db, db')
<1>1. posting[c] \in Postings
  BY DEF Inv, PhasesOK, Insert
<1>2. Created(posting[c]) \in Rows
  BY <1>1, ValuesRow DEF Created, Postings
<1>3. Whole(Created(posting[c])) /\ Created(posting[c]).seen = posting[c].at
  BY DEF Created, Values, Whole
<1>. QED
  BY <1>2, <1>3, FlushOwn DEF Insert

(* The columns an UPDATE leaves alone hold what the posting says already.  *)
LEMMA UpdateOwn ==
    ASSUME Inv, OwnInv, NEW c \in Crawlers, Update(c)
    PROVE  OwnInv' /\ \A k \in Keys : Exclusive(k) => Follows(k, db, db')
<1>. DEFINE new == Updated(RowFor(c), loaded[c], posting[c])
            values == Values(posting[c], loaded[c].id)
<1>1. posting[c] \in Postings /\ loaded[c] \in Rows /\ RowFor(c) \in Rows /\ pc[c] = "flush"
      /\ loaded[c] # NoRow
  BY JobStoreAssumption
  DEF Inv, TypeOK, PhasesOK, RowsStay, Update, RowFor, View, Tables, Postings
<1>2. values \in Rows
  BY <1>1, ValuesRow DEF Rows
<1>3. new \in Rows
  BY <1>1, <1>2, DirtyRow DEF Updated
<1>4. View(c) \in [Keys -> Rows \cup {NoRow}]
  BY DEF Inv, TypeOK, View, Tables
<1>5. Write(c, [View(c) EXCEPT ![posting[c].key] = new])
  BY <1>1, <1>4 DEF Update, RowFor, Postings
<1>6. ASSUME Exclusive(posting[c].key)
      PROVE  Whole(new) /\ new.seen = posting[c].at
  <2>1. SamePosting(loaded[c], RowFor(c))
    BY <1>1, <1>6 DEF OwnInv, HandOK
  <2>2. DOMAIN RowFor(c) = {"id", "title", "hash", "seen", "active"}
    BY <1>1 DEF Rows
  <2>3. new.title = values.title /\ new.hash = values.hash /\ new.seen = values.seen
    BY <1>1, <2>1, <2>2 DEF Updated, Dirty, SamePosting
  <2>. QED
    BY <2>3 DEF Values, Whole
<1>. HIDE DEF new
<1>. QED
  BY <1>1, <1>3, <1>5, <1>6, FlushOwn DEF Update

LEMMA CommitBatchOwn ==
    ASSUME Inv, OwnInv, NEW c \in Crawlers, CommitBatch(c)
    PROVE  OwnInv' /\ \A k \in Keys : Exclusive(k) => Follows(k, db, db')
<1>1. /\ pc'[c] = "idle" /\ now' = now /\ now \in Nat
      /\ \A d \in Crawlers \ {c} :
            pc'[d] = pc[d] /\ posting'[d] = posting[d] /\ loaded'[d] = loaded[d]
      /\ db' = View(c) /\ pending' = pending
      /\ writer' = IF writer = c THEN NoSession ELSE writer
  BY RowTypes, JobStoreAssumption DEF Inv, TypeOK, CommitBatch, Commit, Goto
<1>2. /\ \A k \in Keys : db[k] # NoRow => db[k].seen <= db[k].seen
      /\ \A k \in Keys : pending[k] # NoRow => pending[k].seen <= pending[k].seen
  BY RowTypes
<1>3. \A d \in Crawlers : writer' = d => \A k \in Keys \ KeysOf[d] : pending'[k] = db'[k]
  BY <1>1, NoSessionAssumption, JobStoreAssumption DEF OwnInv, View
<1>4. \A k \in Keys : Exclusive(k) =>
          ExclusiveOK(k)' /\ Follows(k, db, db')
  BY <1>1, <1>2 DEF OwnInv, ExclusiveOK, FreshRow, Follows, Exclusive, View
<1>5. ASSUME NEW d \in Crawlers PROVE HandOK(d)'
  <2>1. CASE d = c
    BY <1>1, <2>1 DEF HandOK
  <2>2. CASE d # c
    <3>1. ASSUME pc[d] \in {"select", "flush"}, Exclusive(posting[d].key)
          PROVE  RowFor(d)' = RowFor(d)
      <4>1. posting[d].key \in KeysOf[d] /\ posting[d].key \in Keys
        BY <3>1, RowTypes DEF OwnInv, HandOK
      <4>2. posting[d].key \notin KeysOf[c]
        BY <2>2, <3>1, <4>1, SoleOwner
      <4>3. writer = c => pending[posting[d].key] = db[posting[d].key]
        BY <4>1, <4>2 DEF OwnInv
      <4>. QED
        BY <1>1, <2>2, <4>3, NoSessionAssumption, JobStoreAssumption DEF RowFor, View
    <3>. QED
      BY <1>1, <2>2, <3>1, HandStays DEF SamePosting
  <2>. QED
    BY <2>1, <2>2
<1>. QED
  BY <1>1, <1>3, <1>4, <1>5 DEF OwnInv, ExclusiveOK, Exclusive

LEMMA SweepSelectOwn ==
    ASSUME Inv, OwnInv, NEW w \in Sweepers, SweepSelect(w)
    PROVE  OwnInv' /\ \A k \in Keys : Exclusive(k) => Follows(k, db, db')
<1>1. /\ now' = now /\ now \in Nat /\ posting' = posting /\ loaded' = loaded
      /\ \A c \in Crawlers : pc'[c] = pc[c]
      /\ db' = db /\ pending' = pending /\ writer' = writer
  BY RowTypes, JobStoreAssumption DEF Inv, TypeOK, SweepSelect, Goto, dbvars
<1>2. \A k \in Keys : ExclusiveOK(k)' /\ (db[k] # NoRow => db[k].seen <= db[k].seen)
  BY <1>1, RowTypes DEF OwnInv, ExclusiveOK, FreshRow, Follows, Exclusive
<1>3. ASSUME NEW c \in Crawlers PROVE HandOK(c)'
  <2>1. RowFor(c)' = RowFor(c)
    BY <1>1 DEF RowFor, View
  <2>. QED
    BY <1>1, <2>1, HandStays DEF SamePosting
<1>. QED
  BY <1>1, <1>2, <1>3 DEF OwnInv, Follows

LEMMA SweepCommitOwn ==
    ASSUME Inv, OwnInv, NEW w \in Sweepers, SweepCommit(w)
    PROVE  OwnInv' /\ \A k \in Keys : Exclusive(k) => Follows(k, db, db')
<1>. DEFINE swept == Deactivated(View(w), doomed[w])
<1>1. /\ now' = now /\ now \in Nat /\ posting' = posting /\ loaded' = loaded
      /\ \A c \in Crawlers : pc'[c] = pc[c]
  BY RowTypes, JobStoreAssumption DEF Inv, TypeOK, SweepCommit, Goto
<1>2. \A k \in Keys : db[k] # NoRow => db[k].seen <= db[k].seen
  BY RowTypes
<1>3. CASE doomed[w] = {}
  <2>1. db' = db /\ pending' = pending /\ writer' = writer
    BY <1>3 DEF SweepCommit, dbvars
  <2>2. \A k \in Keys : ExclusiveOK(k)'
    BY <1>1, <2>1 DEF OwnInv, ExclusiveOK, FreshRow, Follows, Exclusive
  <2>3. ASSUME NEW c \in Crawlers PROVE HandOK(c)'
    <3>1. RowFor(c)' = RowFor(c)
      BY <1>1, <2>1 DEF RowFor, View
    <3>. QED
      BY <1>1, <3>1, HandStays DEF SamePosting
  <2>. QED
    BY <1>2, <2>1, <2>2, <2>3 DEF OwnInv, Follows
<1>4. CASE doomed[w] # {}
  <2>1. db' = swept /\ pending' = swept /\ writer' = NoSession /\ writer = NoSession
    <3>1. WriteCommit(w, swept)
      BY <1>4 DEF SweepCommit, SweepSaved
    <3>. QED
      BY <3>1, JobStoreAssumption DEF WriteCommit, CanWrite, Inv, TypeOK
  <2>2. \A k \in Keys : SamePosting(db[k], swept[k])
    <3>1. View(w) = db /\ doomed[w] \subseteq Keys /\ \A k \in doomed[w] : db[k] # NoRow
      BY JobStoreAssumption, NoSessionAssumption DEF Inv, TypeOK, View, RowsStay
    <3>2. \A row \in Rows : LET off == [row EXCEPT !.active = FALSE] IN
              off \in Rows /\ off.title = row.title /\ off.hash = row.hash
              /\ off.seen = row.seen
      BY DEF Rows
    <3>. QED
      BY <3>1, <3>2, RowTypes DEF Deactivated, SamePosting
  <2>. HIDE DEF swept
  <2>3. \A k \in Keys : ExclusiveOK(k)' /\ (Exclusive(k) => Follows(k, db, db'))
    <3>. SUFFICES ASSUME NEW k \in Keys, Exclusive(k)
                  PROVE  FreshRow(swept[k]) /\ Follows(k, swept, swept) /\ Follows(k, db, swept)
      BY <1>1, <2>1 DEF ExclusiveOK, FreshRow, Follows, Exclusive
    <3>1. FreshRow(db[k]) /\ SamePosting(db[k], swept[k])
      BY <2>2 DEF OwnInv, ExclusiveOK
    <3>. QED
      BY <1>2, <3>1 DEF FreshRow, SamePosting, Follows, Whole
  <2>4. ASSUME NEW c \in Crawlers PROVE HandOK(c)'
    <3>1. pc[c] \in {"select", "flush"} => SamePosting(RowFor(c), RowFor(c)')
      <4>1. RowFor(c) = db[posting[c].key] /\ RowFor(c)' = swept[posting[c].key]
        BY <1>1, <2>1, NoSessionAssumption, JobStoreAssumption DEF RowFor, View
      <4>. QED
        BY <2>2, <4>1, RowTypes
    <3>. QED
      BY <1>1, <3>1, HandStays
  <2>. QED
    BY <2>1, <2>3, <2>4, NoSessionAssumption, JobStoreAssumption DEF OwnInv
<1>. QED
  BY <1>3, <1>4

LEMMA NextOwn ==
    Inv /\ OwnInv /\ [Next]_vars
        => OwnInv' /\ \A k \in Keys : Exclusive(k) => Follows(k, db, db')
<1>. USE JobStoreAssumption
<1>. SUFFICES ASSUME Inv, OwnInv, [Next]_vars
              PROVE  OwnInv' /\ \A k \in Keys : Exclusive(k) => Follows(k, db, db')
  OBVIOUS
<1>0. Inv'
  BY NextInv
<1>. DEFINE Goal == OwnInv' /\ \A k \in Keys : Exclusive(k) => Follows(k, db, db')
<1>1. ASSUME NEW c \in Crawlers, Normalize(c) \/ Select(c) \/ Insert(c) \/ Update(c)
                                   \/ CommitBatch(c)
      PROVE  Goal
  BY <1>0, <1>1, NormalizeOwn, SelectOwn, InsertOwn, UpdateOwn, CommitBatchOwn
<1>2. ASSUME NEW c \in Crawlers, UniqueViolation(c) PROVE Goal
  BY <1>2, AbandonOwn DEF UniqueViolation
<1>3. ASSUME NEW w \in Sweepers, SweepSelect(w) \/ SweepCommit(w) PROVE Goal
  BY <1>3, SweepSelectOwn, SweepCommitOwn
<1>4. ASSUME NEW s \in Sessions, LockTimeout(s) \/ Crash(s) PROVE Goal
  BY <1>4, AbandonOwn DEF LockTimeout, Crash
<1>5. CASE UNCHANGED vars
  <2>1. /\ db' = db /\ pending' = pending /\ writer' = writer /\ now' = now /\ pc' = pc
        /\ posting' = posting /\ loaded' = loaded
    BY <1>5 DEF vars, dbvars
  <2>2. \A k \in Keys : ExclusiveOK(k)' /\ (db[k] # NoRow => db[k].seen <= db[k].seen)
    BY <2>1, RowTypes DEF OwnInv, ExclusiveOK, FreshRow, Follows, Exclusive
  <2>3. ASSUME NEW c \in Crawlers PROVE HandOK(c)'
    <3>1. RowFor(c)' = RowFor(c)
      BY <2>1 DEF RowFor, View
    <3>. QED
      BY <2>1, <3>1 DEF OwnInv, HandOK, Exclusive
  <2>. QED
    BY <2>1, <2>2, <2>3 DEF OwnInv, Follows
<1>. QED
  BY <1>1, <1>2, <1>3, <1>4, <1>5 DEF Next, CrawlerStep, SweeperStep

LEMMA OwnInvariance == Spec => []OwnInv
BY InitOwn, NextOwn, Invariance, PTL DEF Spec

(* A row that only one crawler writes describes one posting, whatever the  *)
(* sweeps and kills, under the lock or not.                                *)
THEOREM ExclusiveWholeness == Spec => []ExclusiveRowsAreWhole
<1>1. OwnInv => ExclusiveRowsAreWhole
  BY DEF OwnInv, ExclusiveOK, FreshRow, ExclusiveRowsAreWhole
<1>. QED
  BY <1>1, OwnInvariance, PTL

(* ... and is never put back to an earlier sighting.                       *)
THEOREM ExclusiveFreshness == Spec => ExclusiveRowsOnlyGetFresher
<1>1. ASSUME Inv, OwnInv, Next, NEW k \in Keys, Exclusive(k), db[k] # NoRow
      PROVE  db'[k].seen >= db[k].seen
  <2>1. Inv' /\ Follows(k, db, db')
    BY <1>1, NextInv, NextOwn
  <2>2. db'[k] \in Rows /\ db[k] \in Rows
    BY <1>1, <2>1 DEF Inv, TypeOK, Tables, Follows
  <2>. QED
    BY <1>1, <2>1, <2>2, RowTypes DEF Follows
<1>2. Inv /\ OwnInv /\ [Next]_vars =>
        [\A k \in Keys : Exclusive(k) /\ db[k] # NoRow => db'[k].seen >= db[k].seen]_vars
  BY <1>1
<1>. QED
  BY <1>2, Invariance, OwnInvariance, PTL DEF Spec, ExclusiveRowsOnlyGetFresher

(* A crawl that loaded a swept row makes it active, lock or no lock.       *)
THEOREM SightRevives == Spec => SightRevivesSweptJob
<1>1. ASSUME Inv, Next, NEW c \in Crawlers, pc[c] = "flush", pc'[c] = "batch",
             loaded[c] # NoRow, ~loaded[c].active
      PROVE  pending'[posting[c].key].active
  <2>1. Update(c)
    BY <1>1, FlushStep DEF Insert
  <2>2. /\ posting[c] \in Postings /\ loaded[c] \in Rows /\ RowFor(c) \in Rows
        /\ View(c) \in [Keys -> Rows \cup {NoRow}]
    BY <1>1, JobStoreAssumption
    DEF Inv, TypeOK, PhasesOK, RowsStay, RowFor, View, Tables, Postings
  <2>3. pending'[posting[c].key] = Updated(RowFor(c), loaded[c], posting[c])
    BY <2>1, <2>2 DEF Update, Write, RowFor, Postings
  <2>4. "active" \in DOMAIN RowFor(c) /\ Values(posting[c], loaded[c].id).active = TRUE
        /\ loaded[c].active = FALSE
    BY <1>1, <2>2 DEF Rows, Values
  <2>. QED
    BY <2>3, <2>4 DEF Updated, Dirty
<1>2. Inv /\ [Next]_vars =>
        [\A c \in Crawlers :
            /\ pc[c] = "flush" /\ pc'[c] = "batch"
            /\ loaded[c] # NoRow
            /\ ~loaded[c].active
            => pending'[posting[c].key].active]_vars
  BY <1>1
<1>. QED
  BY <1>2, Invariance, PTL DEF Spec, SightRevivesSweptJob
=============================================================================
