-------------------------- MODULE CollectorProofs --------------------------
(***************************************************************************)
(* Theorems about Collector, for any number of processes, targets, plans,  *)
(* listings and kills: the lock is never held outside a batch, every       *)
(* selected adapter gets its state row, checkpoints do not run ahead of    *)
(* the data, a run that reports success has all its jobs in the table, and *)
(* a resumed run starts from what the run it resumes recorded.             *)
(***************************************************************************)
EXTENDS Collector, TLAPS

(* Types that do not depend on how many fetches there have been            *)
AnyCursor == Nat \cup {None}
AnyRun == [status : {"running", "success", "partial_success", "failed"},
           seen : Nat, created : Nat, updated : Nat, errors : Nat]
AnyState == [target : Targets, before : AnyCursor, after : AnyCursor]
AnyJob == [target : Targets, hash : Nat \X Nat, born : Sessions]
AnyResult == [at : Nat, jobs : Seq(JobIds), errors : Nat, next : AnyCursor]
AnyFetch == [run : Sessions, target : Targets, jobs : Seq(JobIds), next : AnyCursor]
Images == [runs : [Sessions -> AnyRun \cup {None}],
           states : [Sessions -> Seq(AnyState)],
           checkpoints : [Targets -> AnyCursor],
           jobs : [Keys -> AnyJob \cup {None}]]
Mems == [plan : Seq(Targets), origin : Sessions \cup {None},
         contexts : Seq(AnyCursor), closed : Nat, before : AnyCursor,
         result : AnyResult \cup {None}, k : Nat \ {0},
         loaded : AnyJob \cup {None}, found : AnyCursor,
         seen : Nat, created : Nat, updated : Nat, errors : Nat]

Typed ==
    /\ db \in Images
    /\ pending \in Images
    /\ writer \in Sessions \cup {NoSession}
    /\ pc \in [Sessions -> Labels]
    /\ mem \in [Sessions -> Mems]
    /\ fetched \in Seq(AnyFetch)

(* Every row of one jobs table is in the other.                            *)
JobsGrow(old, new) == \A k \in Keys : old[k] # None => new[k] # None

(* What a batch may change before it commits                               *)
BatchOK ==
    /\ NothingPending
    /\ \A p \in Sessions : writer = p => pc[p] \in InBatch
    /\ pending.states = db.states
    /\ \A p \in Sessions :
          IF writer = p THEN pending.runs[p] # None /\ pending.runs[p].status = "running"
                        ELSE pending.runs[p] = db.runs[p]
    /\ JobsGrow(db.jobs, pending.jobs)

Before == {"idle", "context", "create"}
Waits == {"adapter", "state"}
WithResult == InBatch \cup {"errors"}
Entered == {"fetch", "handler"} \cup WithResult

(* The state rows of a process, by how far it is in its plan               *)
RowsOK(p) ==
    LET m == mem[p]
        states == db.states[p]
    IN  /\ \A i \in 1 .. Len(states) : states[i].target = m.plan[i]
        /\ m.closed <= Len(states) /\ Len(states) <= Len(m.plan)
        /\ pc[p] \in Before => states = <<>> /\ db.runs[p] = None
        /\ pc[p] \in Waits => Len(states) = m.closed /\ m.closed < Len(m.plan)
        /\ pc[p] \in Entered =>
              /\ Len(states) = m.closed + 1
              /\ states[m.closed + 1].after = m.before
        /\ pc[p] \in {"finish", "done"} => Len(states) = Len(m.plan)
        /\ pc[p] \in Waits \cup Entered \cup {"finish"} => db.runs[p] # None
        /\ pc[p] # "done" /\ db.runs[p] # None => db.runs[p].status = "running"

(* A resumed run has a context for each adapter of its plan.               *)
OriginOK(p) ==
    LET m == mem[p] IN
    /\ pc[p] = "idle" => m.origin = None
    /\ pc[p] = "context" => m.origin # None /\ Len(m.plan) <= Len(db.states[m.origin])
    /\ m.origin # None /\ pc[p] \in {"create"} \cup Waits \cup Entered =>
          Len(m.contexts) = Len(m.plan)

(* The first n jobs of a listing of t are in a jobs table.                 *)
StoredIn(table, t, listing, n) == \A i \in 1 .. n : table[KeyOf(t, listing[i])] # None

(* The jobs in hand are stored up to k, and all of them at the checkpoint. *)
ProgressOK(p) ==
    LET m == mem[p]
        r == m.result
    IN  /\ pc[p] \in {"select", "flush"} =>
              m.k <= Len(r.jobs) /\ StoredIn(View(p).jobs, Target(p), r.jobs, m.k - 1)
        /\ pc[p] = "flush" /\ m.loaded # None => View(p).jobs[Job(p)] # None
        /\ pc[p] \in {"cpselect", "cpflush", "close"} =>
              StoredIn(View(p).jobs, Target(p), r.jobs, Len(r.jobs))
        /\ pc[p] \in {"cpselect", "cpflush"} => r.next # None

(* The result in hand is that of a fetch.                                  *)
ResultOK(p) ==
    LET m == mem[p]
        r == m.result
    IN  /\ pc[p] \notin InBatch \cup Ended => m.k = 1
        /\ pc[p] \in WithResult =>
              /\ r # None
              /\ r.at \in 1 .. Len(fetched)
              /\ LET f == fetched[r.at] IN
                 f.run = p /\ f.target = Target(p) /\ f.jobs = r.jobs /\ f.next = r.next
        /\ ProgressOK(p)

ProcessOK(p) == RowsOK(p) /\ OriginOK(p) /\ ResultOK(p)

(* A cursor of t is that of a fetch whose jobs are in the table, and whose *)
(* run is done with t and has recorded it.                                 *)
Covered(cursor, t, table, states, memory, fetches) ==
    \E i \in 1 .. Len(fetches) :
        LET f == fetches[i] IN
        /\ f.target = t
        /\ f.next = cursor
        /\ StoredIn(table, t, f.jobs, Len(f.jobs))
        /\ \E n \in 1 .. memory[f.run].closed :
              states[f.run][n].target = t /\ states[f.run][n].after = cursor

CoveredIn(image, t) ==
    Covered(image.checkpoints[t], t, image.jobs, db.states, mem, fetched)

(* In a batch the checkpoint in hand is ahead of its state row until the   *)
(* batch commits, and of nothing else.                                     *)
InHand(p, t) ==
    /\ pc[p] = "close"
    /\ t = Target(p)
    /\ pending.checkpoints[t] = mem[p].result.next

CoverOK ==
    /\ \A t \in Targets : db.checkpoints[t] # None => CoveredIn(db, t)
    /\ \A p \in Sessions : writer = p =>
          \A t \in Targets : pending.checkpoints[t] # None =>
              CoveredIn(pending, t) \/ InHand(p, t)

Inv == Typed /\ BatchOK /\ (\A p \in Sessions : ProcessOK(p)) /\ CoverOK
-----------------------------------------------------------------------------
(* Facts about the operators                                               *)

LEMMA NoneFacts ==
    /\ None \notin Nat /\ None \notin Sessions /\ None \notin Targets
    /\ None \notin AnyJob
    /\ None \notin AnyRun
    /\ None \notin AnyResult
<1>1. ASSUME None \in AnyRun PROVE FALSE
  <2>1. PICK status \in {"running", "success", "partial_success", "failed"}, seen \in Nat,
             created \in Nat, updated \in Nat, errors \in Nat :
             None = [status |-> status, seen |-> seen, created |-> created,
                     updated |-> updated, errors |-> errors]
    BY <1>1 DEF AnyRun
  <2>2. None \in [status : {status}, seen : Nat, created : Nat, updated : Nat, errors : Nat]
    BY <2>1
  <2> QED
    BY <2>2, CollectorAssumption
<1> QED
  BY <1>1, CollectorAssumption DEF AnyJob, AnyResult, AnyCursor

LEMMA LabelFacts ==
    /\ InBatch \subseteq Labels /\ Ended \subseteq Labels /\ Before \subseteq Labels
    /\ Waits \subseteq Labels /\ Entered \subseteq Labels /\ "finish" \in Labels
  BY DEF Labels, InBatch, Ended, Before, Waits, Entered, WithResult

LEMMA GrowTransitive ==
    ASSUME NEW a, NEW b, NEW c, JobsGrow(a, b), JobsGrow(b, c)
    PROVE  JobsGrow(a, c)
  BY DEF JobsGrow

LEMMA GrowReflexive == \A a : JobsGrow(a, a)
  BY DEF JobsGrow

LEMMA KeyType ==
    \A t \in Targets, id \in JobIds : KeyOf(t, id) \in Keys
  BY DEF KeyOf, Keys

LEMMA StoredGrows ==
    ASSUME NEW t \in Targets, NEW listing \in Seq(JobIds), NEW n \in 0 .. Len(listing),
           NEW old, NEW new, JobsGrow(old, new), StoredIn(old, t, listing, n)
    PROVE  StoredIn(new, t, listing, n)
<1> SUFFICES ASSUME NEW i \in 1 .. n PROVE new[KeyOf(t, listing[i])] # None
  BY DEF StoredIn
<1>1. listing[i] \in JobIds
  OBVIOUS
<1>2. KeyOf(t, listing[i]) \in Keys
  BY <1>1, KeyType
<1> QED
  BY <1>2 DEF StoredIn, JobsGrow

(* What a session sees of the other processes is what is committed.        *)
LEMMA ViewFacts ==
    ASSUME Typed, BatchOK, NEW p \in Sessions
    PROVE  /\ View(p) \in Images
           /\ View(p).states = db.states
           /\ JobsGrow(db.jobs, View(p).jobs)
           /\ \A q \in Sessions \ {p} : View(p).runs[q] = db.runs[q]
           /\ IF writer = p THEN View(p).runs[p] # None /\ View(p).runs[p].status = "running"
                            ELSE View(p).runs[p] = db.runs[p]
           /\ writer # p => View(p) = db
           /\ pc[p] \notin InBatch => View(p) = db
  BY GrowReflexive DEF Typed, BatchOK, View
-----------------------------------------------------------------------------
(* Steps of one process                                                    *)

(* A step of p leaves the other processes where they are.                  *)
Moves(p) ==
    /\ pc' \in [Sessions -> Labels]
    /\ mem' \in [Sessions -> Mems]
    /\ \A q \in Sessions \ {p} : pc'[q] = pc[q] /\ mem'[q] = mem[q]
    /\ mem[p].closed <= mem'[p].closed
    /\ fetched' \in Seq(AnyFetch)
    /\ Len(fetched) <= Len(fetched')
    /\ \A i \in 1 .. Len(fetched) : fetched'[i] = fetched[i]

(* It leaves alone their rows and what it is done with itself.             *)
Stable(p) ==
    /\ \A q \in Sessions \ {p} :
          /\ db'.states[q] = db.states[q]
          /\ db'.runs[q] = db.runs[q]
          /\ JobsGrow(View(q).jobs, View(q)'.jobs)
    /\ Len(db.states[p]) <= Len(db'.states[p])
    /\ \A n \in 1 .. mem[p].closed : db'.states[p][n] = db.states[p][n]

LEMMA OthersOK ==
    ASSUME Inv, NEW p \in Sessions, Moves(p), Stable(p), Typed'
    PROVE  \A q \in Sessions \ {p} : ProcessOK(q)'
<1> SUFFICES ASSUME NEW q \in Sessions, q # p PROVE ProcessOK(q)'
  OBVIOUS
<1>1. pc'[q] = pc[q] /\ mem'[q] = mem[q]
  BY DEF Moves
<1>2. db'.states[q] = db.states[q] /\ db'.runs[q] = db.runs[q]
  BY DEF Stable
<1>3. ProcessOK(q) /\ mem[q] \in Mems
  BY DEF Inv, Typed
<1>4. RowsOK(q)'
  BY <1>1, <1>2, <1>3 DEF ProcessOK, RowsOK
<1>5. OriginOK(q)'
  <2>1. \A o \in Sessions : /\ Len(db.states[o]) \in Nat /\ Len(db'.states[o]) \in Nat
                            /\ Len(db.states[o]) <= Len(db'.states[o])
    <3>1. \A o \in Sessions : db.states[o] \in Seq(AnyState) /\ db'.states[o] \in Seq(AnyState)
      BY DEF Inv, Typed, Images
    <3> QED
      BY <3>1 DEF Stable
  <2>2. mem[q].origin \in Sessions \cup {None} /\ Len(mem[q].plan) \in Nat
    BY <1>3 DEF Mems
  <2>3. pc[q] = "context" => Len(mem[q].plan) <= Len(db'.states[mem[q].origin])
    BY <1>3, <2>1, <2>2, SMTT(60) DEF ProcessOK, OriginOK
  <2> QED
    BY <1>1, <1>3, <2>3 DEF ProcessOK, OriginOK
<1>6. ResultOK(q)'
  <2> DEFINE r == mem[q].result
  <2>1. Target(q)' = Target(q) /\ Job(q)' = Job(q)
    BY <1>1 DEF Target, Job
  <2>2. JobsGrow(View(q).jobs, View(q)'.jobs)
    BY DEF Stable
  <2>3. ASSUME pc[q] \in WithResult
        PROVE  /\ r.at \in 1 .. Len(fetched) /\ r.at \in 1 .. Len(fetched')
               /\ fetched'[r.at] = fetched[r.at]
               /\ Target(q) \in Targets /\ r.jobs \in Seq(JobIds) /\ r # None
    <3>1. r # None /\ r.at \in 1 .. Len(fetched) /\ fetched[r.at].target = Target(q)
      BY <1>3, <2>3 DEF ProcessOK, ResultOK, ProgressOK
    <3>2. Len(fetched) \in Nat /\ Len(fetched') \in Nat /\ fetched[r.at] \in AnyFetch
      BY <3>1 DEF Inv, Typed, Moves
    <3>3. r \in AnyResult
      BY <1>3, <3>1 DEF Mems
    <3> QED
      BY <3>1, <3>2, <3>3, SMTT(60) DEF Moves, AnyFetch, AnyResult
  <2>4. ASSUME pc[q] \in {"select", "flush"}
        PROVE  StoredIn(View(q)'.jobs, Target(q), r.jobs, mem[q].k - 1)
    <3>1. /\ mem[q].k <= Len(r.jobs) /\ StoredIn(View(q).jobs, Target(q), r.jobs, mem[q].k - 1)
          /\ mem[q].k \in Nat \ {0}
      BY <1>3, <2>4 DEF ProcessOK, ResultOK, ProgressOK, Mems
    <3>2. Target(q) \in Targets /\ r.jobs \in Seq(JobIds) /\ Len(r.jobs) \in Nat
      BY <2>3, <2>4, SMTT(60) DEF WithResult, InBatch
    <3>3. mem[q].k - 1 \in 0 .. Len(r.jobs)
      BY <3>1, <3>2
    <3> QED
      BY <2>2, <3>1, <3>2, <3>3, StoredGrows
  <2>5. ASSUME pc[q] \in {"cpselect", "cpflush", "close"}
        PROVE  StoredIn(View(q)'.jobs, Target(q), r.jobs, Len(r.jobs))
    <3>1. StoredIn(View(q).jobs, Target(q), r.jobs, Len(r.jobs))
      BY <1>3, <2>5 DEF ProcessOK, ResultOK, ProgressOK
    <3>2. Target(q) \in Targets /\ r.jobs \in Seq(JobIds) /\ Len(r.jobs) \in Nat
      BY <2>3, <2>5, SMTT(60) DEF WithResult, InBatch
    <3> QED
      BY <2>2, <3>1, <3>2, StoredGrows
  <2>6. ASSUME pc[q] = "flush", mem[q].loaded # None
        PROVE  View(q)'.jobs[Job(q)] # None
    <3>1. Target(q) \in Targets /\ r.jobs \in Seq(JobIds) /\ mem[q].k \in 1 .. Len(r.jobs)
      BY <1>3, <2>3, <2>6 DEF WithResult, InBatch, ProcessOK, ResultOK, ProgressOK, Mems
    <3>2. Job(q) \in Keys
      BY <3>1, KeyType DEF Job
    <3> QED
      BY <1>3, <2>2, <2>6, <3>2 DEF ProcessOK, ResultOK, ProgressOK, JobsGrow
  <2> QED
    BY <1>1, <1>3, <2>1, <2>3, <2>4, <2>5, <2>6 DEF ProcessOK, ResultOK, ProgressOK
<1> QED
  BY <1>4, <1>5, <1>6 DEF ProcessOK

LEMMA CoveredStays ==
    ASSUME Inv, NEW p \in Sessions, Moves(p), Stable(p), Typed', NEW t \in Targets, NEW cursor,
           NEW old, NEW new, JobsGrow(old, new),
           Covered(cursor, t, old, db.states, mem, fetched)
    PROVE  Covered(cursor, t, new, db'.states, mem', fetched')
<1>1. PICK i \in 1 .. Len(fetched) :
          /\ fetched[i].target = t /\ fetched[i].next = cursor
          /\ StoredIn(old, t, fetched[i].jobs, Len(fetched[i].jobs))
          /\ \E n \in 1 .. mem[fetched[i].run].closed :
                /\ db.states[fetched[i].run][n].target = t
                /\ db.states[fetched[i].run][n].after = cursor
  BY DEF Covered
<1> DEFINE r == fetched[i].run
<1>2. PICK n \in 1 .. mem[r].closed :
          db.states[r][n].target = t /\ db.states[r][n].after = cursor
  BY <1>1
<1>3. Len(fetched) \in Nat /\ Len(fetched') \in Nat /\ fetched[i] \in AnyFetch
  BY DEF Inv, Typed
<1>4. i \in 1 .. Len(fetched') /\ fetched'[i] = fetched[i]
  BY <1>3 DEF Moves
<1>5. r \in Sessions /\ fetched[i].jobs \in Seq(JobIds) /\ Len(fetched[i].jobs) \in Nat
  BY <1>3 DEF AnyFetch
<1>6. StoredIn(new, t, fetched[i].jobs, Len(fetched[i].jobs))
  BY <1>1, <1>5, StoredGrows
<1>7. /\ mem[r].closed \in Nat /\ mem'[r].closed \in Nat /\ mem[r].closed <= mem'[r].closed
      /\ db'.states[r][n] = db.states[r][n]
  <2>1. mem[r] \in Mems /\ mem'[r] \in Mems
    BY <1>5 DEF Inv, Typed
  <2>2. mem[r].closed \in Nat /\ mem'[r].closed \in Nat
    BY <2>1 DEF Mems
  <2>3. CASE r = p
    BY <1>2, <2>2, <2>3 DEF Moves, Stable
  <2>4. CASE r # p
    BY <1>5, <2>2, <2>4 DEF Moves, Stable
  <2> QED
    BY <2>3, <2>4
<1>8. n \in 1 .. mem'[r].closed
  BY <1>7
<1> QED
  BY <1>1, <1>2, <1>4, <1>6, <1>7, <1>8 DEF Covered

LEMMA ViewCovered ==
    ASSUME Inv, NEW p \in Sessions, pc[p] # "close", NEW t \in Targets,
           View(p).checkpoints[t] # None
    PROVE  CoveredIn(View(p), t)
  BY DEF Inv, CoverOK, InHand, View

(* What p changes of an image                                              *)
Own(p, old, new) ==
    /\ \A q \in Sessions \ {p} : new.states[q] = old.states[q] /\ new.runs[q] = old.runs[q]
    /\ Len(old.states[p]) <= Len(new.states[p])
    /\ \A n \in 1 .. mem[p].closed : new.states[p][n] = old.states[p][n]
    /\ JobsGrow(old.jobs, new.jobs)

LEMMA SaveFrame ==
    ASSUME Inv, NEW p \in Sessions, NEW image \in Images, WriteCommit(p, image), Moves(p),
           Own(p, View(p), image)
    PROVE  Typed' /\ BatchOK' /\ Stable(p)
<1>1. /\ writer \in {NoSession, p} /\ db' = image /\ pending' = image /\ writer' = NoSession
      /\ NoSession \notin Sessions
  BY NoSessionAssumption DEF WriteCommit, CanWrite
<1>2. /\ View(p) \in Images /\ View(p).states = db.states
      /\ JobsGrow(db.jobs, View(p).jobs)
      /\ \A q \in Sessions \ {p} : View(p).runs[q] = db.runs[q]
  BY ViewFacts DEF Inv
<1>3. Typed'
  BY <1>1 DEF Typed, Moves
<1>4. BatchOK'
  BY <1>1, GrowReflexive DEF BatchOK, NothingPending
<1>5. JobsGrow(db.jobs, image.jobs)
  BY <1>2, GrowTransitive DEF Own
<1>6. \A q \in Sessions \ {p} : View(q) = db /\ View(q)' = image
  BY <1>1 DEF View
<1>7. Stable(p)
  BY <1>1, <1>2, <1>5, <1>6 DEF Stable, Own
<1> QED
  BY <1>3, <1>4, <1>7

(* A flush and commit outside a batch leave every checkpoint covered.      *)
LEMMA SaveInv ==
    ASSUME Inv, NEW p \in Sessions, NEW image \in Images, WriteCommit(p, image), Moves(p),
           Own(p, View(p), image), pc[p] # "close",
           image.checkpoints = View(p).checkpoints, ProcessOK(p)'
    PROVE  Inv'
<1>1. Typed' /\ BatchOK' /\ Stable(p)
  BY SaveFrame
<1>2. \A q \in Sessions : ProcessOK(q)'
  BY <1>1, OthersOK
<1>3. db' = image /\ writer' = NoSession /\ NoSession \notin Sessions
  BY NoSessionAssumption DEF WriteCommit
<1>4. ASSUME NEW t \in Targets, db'.checkpoints[t] # None PROVE CoveredIn(db, t)'
  <2>1. CoveredIn(View(p), t) /\ View(p).checkpoints[t] = db'.checkpoints[t]
    BY <1>3, <1>4, ViewCovered
  <2>2. JobsGrow(View(p).jobs, db'.jobs)
    BY <1>3 DEF Own
  <2> QED
    BY <1>1, <2>1, <2>2, CoveredStays DEF CoveredIn
<1>5. CoverOK'
  BY <1>3, <1>4 DEF CoverOK
<1> QED
  BY <1>1, <1>2, <1>5 DEF Inv

LEMMA FlushFrame ==
    ASSUME Inv, NEW p \in Sessions, NEW image \in Images, Write(p, image), Moves(p),
           image.states = View(p).states,
           \A q \in Sessions \ {p} : image.runs[q] = View(p).runs[q],
           image.runs[p] # None, image.runs[p].status = "running",
           JobsGrow(View(p).jobs, image.jobs), pc'[p] \in InBatch
    PROVE  /\ Typed' /\ BatchOK' /\ Stable(p)
           /\ writer' = p /\ pending' = image /\ UNCHANGED db
<1>1. /\ writer \in {NoSession, p} /\ writer' = p /\ pending' = image /\ UNCHANGED db
      /\ NoSession \notin Sessions
  BY NoSessionAssumption DEF Write, CanWrite
<1>2. /\ View(p).states = db.states
      /\ JobsGrow(db.jobs, View(p).jobs)
      /\ \A q \in Sessions \ {p} : View(p).runs[q] = db.runs[q]
  BY ViewFacts DEF Inv
<1>3. Typed'
  BY <1>1 DEF Typed, Moves, Inv
<1>4. JobsGrow(db.jobs, image.jobs)
  BY <1>2, GrowTransitive
<1>5. BatchOK'
  BY <1>1, <1>2, <1>4 DEF BatchOK, NothingPending
<1>6. \A q \in Sessions \ {p} : View(q) = db /\ View(q)' = db
  BY <1>1 DEF View
<1>7. Len(db.states[p]) <= Len(db'.states[p])
  <2>1. db.states[p] \in Seq(AnyState)
    BY DEF Inv, Typed, Images
  <2> QED
    BY <1>1, <2>1
<1>8. Stable(p)
  BY <1>1, <1>6, <1>7, GrowReflexive DEF Stable
<1> QED
  BY <1>1, <1>3, <1>5, <1>8

(* A flush that changes no checkpoint                                      *)
LEMMA FlushInv ==
    ASSUME Inv, NEW p \in Sessions, NEW image \in Images, Write(p, image), Moves(p),
           image.states = View(p).states,
           \A q \in Sessions \ {p} : image.runs[q] = View(p).runs[q],
           image.runs[p] # None, image.runs[p].status = "running",
           JobsGrow(View(p).jobs, image.jobs), pc'[p] \in InBatch, pc[p] # "close",
           image.checkpoints = View(p).checkpoints, ProcessOK(p)'
    PROVE  Inv'
<1>1. /\ Typed' /\ BatchOK' /\ Stable(p)
      /\ writer' = p /\ pending' = image /\ UNCHANGED db
  BY FlushFrame
<1>2. \A q \in Sessions : ProcessOK(q)'
  BY <1>1, OthersOK
<1>3. ASSUME NEW t \in Targets, db'.checkpoints[t] # None PROVE CoveredIn(db, t)'
  <2>1. CoveredIn(db, t) /\ JobsGrow(db.jobs, db'.jobs) /\ db'.checkpoints = db.checkpoints
    BY <1>1, <1>3, GrowReflexive DEF Inv, CoverOK
  <2> QED
    BY <1>1, <2>1, CoveredStays DEF CoveredIn
<1>4. ASSUME NEW t \in Targets, pending'.checkpoints[t] # None PROVE CoveredIn(pending, t)'
  <2>1. CoveredIn(View(p), t) /\ View(p).checkpoints[t] = pending'.checkpoints[t]
    BY <1>1, <1>4, ViewCovered
  <2>2. JobsGrow(View(p).jobs, pending'.jobs)
    BY <1>1
  <2> QED
    BY <1>1, <2>1, <2>2, CoveredStays DEF CoveredIn
<1>5. CoverOK'
  BY <1>1, <1>3, <1>4 DEF CoverOK
<1> QED
  BY <1>1, <1>2, <1>5 DEF Inv

(* Steps that leave the database as it is                                  *)
LEMMA QuietInv ==
    ASSUME Inv, NEW p \in Sessions, UNCHANGED dbvars, Moves(p),
           writer = p => pc'[p] \in InBatch /\ pc[p] # "close", ProcessOK(p)'
    PROVE  Inv'
<1>1. UNCHANGED <<db, pending, writer>>
  BY DEF dbvars
<1>2. Typed'
  BY <1>1 DEF Typed, Moves, Inv
<1>3. BatchOK'
  BY <1>1 DEF BatchOK, NothingPending, Moves, Inv
<1>4. Stable(p)
  <2>1. db.states[p] \in Seq(AnyState)
    BY DEF Inv, Typed, Images
  <2>2. \A q \in Sessions : View(q)' = View(q)
    BY <1>1 DEF View
  <2> QED
    BY <1>1, <2>1, <2>2, GrowReflexive DEF Stable
<1>5. \A q \in Sessions : ProcessOK(q)'
  BY <1>2, <1>4, OthersOK
<1>6. ASSUME NEW t \in Targets, NEW image, image \in {db, pending}, CoveredIn(image, t)
      PROVE  Covered(image.checkpoints[t], t, image.jobs, db'.states, mem', fetched')
  BY <1>2, <1>4, <1>6, CoveredStays, GrowReflexive DEF CoveredIn
<1>7. ASSUME NEW t \in Targets, db'.checkpoints[t] # None PROVE CoveredIn(db, t)'
  BY <1>1, <1>6, <1>7 DEF Inv, CoverOK, CoveredIn
<1>8. ASSUME NEW q \in Sessions, writer' = q, NEW t \in Targets, pending'.checkpoints[t] # None
      PROVE  CoveredIn(pending, t)' \/ InHand(q, t)'
  <2>1. CASE CoveredIn(pending, t)
    BY <1>1, <1>6, <2>1 DEF CoveredIn
  <2>2. CASE InHand(q, t)
    <3>1. q # p
      BY <1>1, <1>8, <2>2 DEF InHand
    <3>2. pc'[q] = pc[q] /\ mem'[q] = mem[q]
      BY <3>1 DEF Moves
    <3> QED
      BY <1>1, <2>2, <3>2 DEF InHand, Target
  <2> QED
    BY <1>1, <1>8, <2>1, <2>2 DEF Inv, CoverOK
<1>9. CoverOK'
  BY <1>7, <1>8 DEF CoverOK
<1> QED
  BY <1>2, <1>3, <1>5, <1>9 DEF Inv

LEMMA StartType == Start \in Mems
<1>1. <<>> \in Seq(Targets) /\ <<>> \in Seq(AnyCursor) /\ None \in AnyCursor
  BY DEF AnyCursor
<1> QED
  BY <1>1 DEF Start, Mems

LEMMA AbandonInv ==
    ASSUME Inv, NEW p \in Sessions, NEW label \in {"aborted", "killed"},
           pc[p] \notin {"idle"} \cup Ended, Abandon(p, label)
    PROVE  Inv'
<1> DEFINE m == [Start EXCEPT !.plan = mem[p].plan, !.origin = mem[p].origin,
                              !.closed = mem[p].closed]
<1>1. /\ pc' = [pc EXCEPT ![p] = label] /\ mem' = [mem EXCEPT ![p] = m]
      /\ UNCHANGED fetched /\ UNCHANGED db
      /\ writer' = (IF writer = p THEN NoSession ELSE writer)
      /\ pending' = (IF writer = p THEN db ELSE pending)
  BY DEF Abandon, Rollback, Goto
<1>2. mem[p] \in Mems /\ label \in Labels
  BY LabelFacts DEF Inv, Typed, Ended
<1>3. m \in Mems /\ m.plan = mem[p].plan /\ m.closed = mem[p].closed /\ m.closed <= mem[p].closed
  <2>1. /\ mem[p].plan \in Seq(Targets) /\ mem[p].origin \in Sessions \cup {None}
        /\ mem[p].closed \in Nat
    BY <1>2 DEF Mems
  <2>2. Start \in Mems
    BY StartType
  <2>3. m \in Mems
    BY <2>1, <2>2 DEF Mems
  <2>4. m.plan = mem[p].plan /\ m.closed = mem[p].closed
    BY <2>2 DEF Mems
  <2> QED
    BY <2>1, <2>3, <2>4
<1>4. pc'[p] = label /\ mem'[p] = m
  BY <1>1 DEF Inv, Typed
<1>5. Moves(p)
  BY <1>1, <1>2, <1>3, SMTT(60) DEF Moves, Inv, Typed, Mems
<1>6. Typed'
  BY <1>1, <1>5 DEF Typed, Moves, Inv
<1>7. BatchOK'
  BY <1>1, NoSessionAssumption, GrowReflexive DEF Inv, BatchOK, NothingPending
<1>8. Stable(p)
  <2>1. db.states[p] \in Seq(AnyState)
    BY DEF Inv, Typed, Images
  <2>2. \A q \in Sessions \ {p} : View(q)' = View(q)
    BY <1>1, NoSessionAssumption DEF View
  <2> QED
    BY <1>1, <2>1, <2>2, GrowReflexive DEF Stable
<1>9. ProcessOK(p)'
  <2>1. ProcessOK(p) /\ pc[p] # "done"
    BY DEF Inv, Ended
  <2>2. label \notin Before \cup Waits \cup Entered \cup {"finish", "done"}
    BY DEF Before, Waits, Entered, WithResult, InBatch
  <2>3. RowsOK(p)'
    BY <1>1, <1>3, <1>4, <2>1, <2>2 DEF ProcessOK, RowsOK
  <2>4. OriginOK(p)' /\ ResultOK(p)'
    BY <1>4, <2>2 DEF OriginOK, ResultOK, ProgressOK, Before, Entered, WithResult, InBatch, Ended
  <2> QED
    BY <2>3, <2>4 DEF ProcessOK
<1>10. \A q \in Sessions : ProcessOK(q)'
  BY <1>5, <1>6, <1>8, <1>9, OthersOK
<1>11. ASSUME NEW t \in Targets, db'.checkpoints[t] # None PROVE CoveredIn(db, t)'
  <2>1. CoveredIn(db, t)
    BY <1>1, <1>11 DEF Inv, CoverOK
  <2> QED
    BY <1>1, <1>5, <1>6, <1>8, <2>1, CoveredStays, GrowReflexive DEF CoveredIn
<1>12. ASSUME NEW q \in Sessions, writer' = q, NEW t \in Targets, pending'.checkpoints[t] # None
       PROVE  CoveredIn(pending, t)' \/ InHand(q, t)'
  <2>1. q # p /\ pending' = pending /\ writer = q
    BY <1>1, <1>12, NoSessionAssumption
  <2>2. CASE CoveredIn(pending, t)
    BY <1>5, <1>6, <1>8, <2>1, <2>2, CoveredStays, GrowReflexive DEF CoveredIn
  <2>3. CASE InHand(q, t)
    BY <1>5, <2>1, <2>3 DEF InHand, Target, Moves
  <2> QED
    BY <1>12, <2>1, <2>2, <2>3 DEF Inv, CoverOK
<1>13. CoverOK'
  BY <1>11, <1>12 DEF CoverOK
<1> QED
  BY <1>6, <1>7, <1>10, <1>13 DEF Inv
-----------------------------------------------------------------------------
(* The steps                                                               *)

(* What a step does to the process itself.                                 *)
LEMMA MemMoves ==
    ASSUME Inv, NEW p \in Sessions, NEW label \in Labels, Goto(p, label),
           NEW m \in Mems, mem' = [mem EXCEPT ![p] = m], mem[p].closed <= m.closed,
           UNCHANGED fetched
    PROVE  Moves(p) /\ pc'[p] = label /\ mem'[p] = m
  BY DEF Inv, Typed, Goto, Moves

LEMMA OwnMem ==
    ASSUME Inv, NEW p \in Sessions
    PROVE  /\ mem[p] \in Mems /\ mem[p].closed \in Nat /\ mem[p].plan \in Seq(Targets)
           /\ Len(mem[p].plan) \in Nat /\ mem[p] = [mem[p] EXCEPT !.k = mem[p].k]
           /\ mem = [mem EXCEPT ![p] = mem[p]]
           /\ db.states[p] \in Seq(AnyState) /\ Len(db.states[p]) \in Nat
  BY SMTT(60) DEF Inv, Typed, Mems, Images

LEMMA CrawlInv ==
    ASSUME Inv, NEW p \in Sessions, Crawl(p)
    PROVE  Inv'
<1>1. PICK plan \in Plans : mem' = [mem EXCEPT ![p].plan = plan]
  BY DEF Crawl
<1> DEFINE m == [mem[p] EXCEPT !.plan = plan]
<1>2. /\ pc[p] = "idle" /\ Goto(p, "create") /\ UNCHANGED dbvars /\ UNCHANGED fetched
  BY DEF Crawl, Free
<1>3. plan \in Seq(Targets) /\ Len(plan) \in Nat
  BY CollectorAssumption
<1>4. m \in Mems /\ m.plan = plan /\ m.closed = mem[p].closed /\ m.origin = mem[p].origin
      /\ m.k = mem[p].k /\ mem' = [mem EXCEPT ![p] = m] /\ mem[p].closed <= m.closed
  <2>1. mem[p] \in Mems /\ mem[p].closed \in Nat
    BY OwnMem
  <2>2. m \in Mems
    BY <1>3, <2>1 DEF Mems
  <2>3. m.plan = plan /\ m.closed = mem[p].closed /\ m.origin = mem[p].origin /\ m.k = mem[p].k
    BY <2>1 DEF Mems
  <2>4. mem' = [mem EXCEPT ![p] = m]
    BY <1>1
  <2> QED
    BY <2>1, <2>2, <2>3, <2>4
<1>5. Moves(p) /\ pc'[p] = "create" /\ mem'[p] = m
  BY <1>2, <1>4, MemMoves DEF Labels
<1>6. writer # p
  BY <1>2 DEF Inv, BatchOK, InBatch
<1>7. ProcessOK(p)'
  <2>1. ProcessOK(p) /\ UNCHANGED db
    BY <1>2 DEF Inv, dbvars
  <2>2. RowsOK(p)'
    BY <1>2, <1>3, <1>4, <1>5, <2>1, OwnMem
       DEF ProcessOK, RowsOK, Before, Waits, Entered, WithResult, InBatch
  <2>3. OriginOK(p)' /\ ResultOK(p)'
    BY <1>2, <1>4, <1>5, <2>1 DEF ProcessOK, OriginOK, ResultOK, ProgressOK, WithResult, InBatch, Ended
  <2> QED
    BY <2>2, <2>3 DEF ProcessOK
<1> QED
  BY <1>2, <1>5, <1>6, <1>7, QuietInv

(* An adapter in hand, and the run's row it has by then                    *)
LEMMA HandFacts ==
    ASSUME Inv, NEW p \in Sessions, pc[p] \in Waits \cup Entered \cup {"finish"}
    PROVE  /\ pc[p] # "finish" =>
                 mem[p].closed + 1 \in 1 .. Len(mem[p].plan) /\ Target(p) \in Targets
           /\ View(p).runs[p] \in AnyRun
           /\ View(p).runs[p] # None /\ View(p).runs[p].status = "running"
           /\ View(p) \in Images /\ View(p).states = db.states
<1>1. RowsOK(p)
  BY DEF Inv, ProcessOK
<1> DEFINE plan == mem[p].plan
<1>0. /\ mem[p].closed \in Nat /\ plan \in Seq(Targets) /\ Len(plan) \in Nat
      /\ Len(db.states[p]) \in Nat
  BY OwnMem
<1>2. pc[p] # "finish" => mem[p].closed + 1 \in 1 .. Len(plan)
  <2>1. pc[p] \in Waits => mem[p].closed < Len(plan)
    BY <1>1 DEF RowsOK
  <2>2. pc[p] \in Entered => mem[p].closed + 1 <= Len(plan)
    BY <1>1 DEF RowsOK
  <2> QED
    BY <1>0, <2>1, <2>2
<1>3. pc[p] # "finish" => Target(p) \in Targets
  BY <1>0, <1>2 DEF Target
<1>4. db.runs[p] # None /\ db.runs[p].status = "running"
  BY <1>1 DEF RowsOK, Waits, Entered, WithResult, InBatch
<1>5. View(p) \in Images /\ View(p).states = db.states
      /\ View(p).runs[p] # None /\ View(p).runs[p].status = "running"
  BY <1>4, ViewFacts DEF Inv
<1>6. View(p).runs[p] \in AnyRun
  BY <1>5 DEF Images
<1> QED
  BY <1>2, <1>3, <1>5, <1>6

LEMMA ResumeNamesInv ==
    ASSUME Inv, NEW p \in Sessions, ResumeNames(p)
    PROVE  Inv'
<1>1. PICK o \in Sessions :
          mem' = [mem EXCEPT ![p].origin = o,
                             ![p].plan = [i \in DOMAIN View(p).states[o] |->
                                             View(p).states[o][i].target]]
  BY DEF ResumeNames
<1> DEFINE rows == db.states[o]
           plan == [i \in DOMAIN rows |-> rows[i].target]
           m == [mem[p] EXCEPT !.origin = o, !.plan = plan]
<1>2. /\ pc[p] = "idle" /\ Goto(p, "context") /\ UNCHANGED dbvars /\ UNCHANGED fetched
  BY DEF ResumeNames, Free
<1>3. rows \in Seq(AnyState) /\ View(p).states = db.states
  BY ViewFacts DEF Inv, Typed, Images
<1>4. plan \in Seq(Targets) /\ Len(plan) = Len(rows) /\ Len(rows) \in Nat
  <2>1. \A i \in 1 .. Len(rows) : rows[i] \in AnyState
    BY <1>3
  <2>2. \A i \in 1 .. Len(rows) : rows[i].target \in Targets
    BY <2>1 DEF AnyState
  <2> QED
    BY <1>3, <2>2
<1>5. mem[p] \in Mems /\ mem[p].closed \in Nat
  BY OwnMem
<1>6. m \in Mems
  BY <1>4, <1>5 DEF Mems
<1>7. /\ m.plan = plan /\ m.closed = mem[p].closed /\ m.origin = o /\ m.k = mem[p].k
      /\ mem[p].closed <= m.closed /\ "context" \in Labels
  BY <1>5 DEF Mems, Labels
<1>8. mem' = [mem EXCEPT ![p] = m]
  <2>1. mem' = [mem EXCEPT ![p].origin = o, ![p].plan = plan]
    BY <1>1, <1>3
  <2> QED
    BY <2>1
<1>9. Moves(p) /\ pc'[p] = "context" /\ mem'[p] = m
  BY <1>2, <1>6, <1>7, <1>8, MemMoves
<1>10. writer # p
  BY <1>2 DEF Inv, BatchOK, InBatch
<1>11. ProcessOK(p)'
  <2>1. ProcessOK(p) /\ UNCHANGED db
    BY <1>2 DEF Inv, dbvars
  <2>2. RowsOK(p)'
    BY <1>2, <1>4, <1>7, <1>9, <2>1, OwnMem
       DEF ProcessOK, RowsOK, Before, Waits, Entered, WithResult, InBatch
  <2>3. o # None
    BY NoneFacts
  <2>4. OriginOK(p)'
    BY <1>4, <1>7, <1>9, <2>1, <2>3 DEF OriginOK, Waits, Entered, WithResult, InBatch
  <2>5. ResultOK(p)'
    BY <1>2, <1>7, <1>9, <2>1 DEF ProcessOK, ResultOK, ProgressOK, WithResult, InBatch, Ended
  <2> QED
    BY <2>2, <2>4, <2>5 DEF ProcessOK
<1> QED
  BY <1>2, <1>9, <1>10, <1>11, QuietInv

LEMMA ResumeContextsInv ==
    ASSUME Inv, NEW p \in Sessions, ResumeContexts(p)
    PROVE  Inv'
<1> DEFINE o == mem[p].origin
           rows == db.states[o]
           contexts == [i \in DOMAIN mem[p].plan |-> ResumePoint(rows[i])]
           m == [mem[p] EXCEPT !.contexts = contexts]
<1>1. /\ pc[p] = "context" /\ Goto(p, "create") /\ UNCHANGED dbvars /\ UNCHANGED fetched
  BY DEF ResumeContexts
<1>2. mem[p] \in Mems /\ mem[p].closed \in Nat /\ mem[p].plan \in Seq(Targets)
      /\ Len(mem[p].plan) \in Nat
  BY OwnMem
<1>3. o \in Sessions /\ Len(mem[p].plan) <= Len(rows)
  BY <1>1, <1>2 DEF Inv, ProcessOK, OriginOK, Mems
<1>4. rows \in Seq(AnyState) /\ View(p).states = db.states
  BY <1>3, ViewFacts DEF Inv, Typed, Images
<1>5. contexts \in Seq(AnyCursor) /\ Len(contexts) = Len(mem[p].plan)
  <2>1. \A i \in 1 .. Len(mem[p].plan) : rows[i] \in AnyState
    BY <1>2, <1>3, <1>4
  <2>2. \A i \in 1 .. Len(mem[p].plan) : ResumePoint(rows[i]) \in AnyCursor
    BY <2>1 DEF AnyState, ResumePoint
  <2> QED
    BY <1>2, <2>2
<1>6. m \in Mems
  BY <1>2, <1>5 DEF Mems
<1>7. /\ m.plan = mem[p].plan /\ m.closed = mem[p].closed /\ m.contexts = contexts
      /\ m.k = mem[p].k /\ mem[p].closed <= m.closed /\ "create" \in Labels
  BY <1>2 DEF Mems, Labels
<1>8. mem' = [mem EXCEPT ![p] = m]
  BY <1>4 DEF ResumeContexts
<1>9. Moves(p) /\ pc'[p] = "create" /\ mem'[p] = m
  BY <1>1, <1>6, <1>7, <1>8, MemMoves
<1>10. writer # p
  BY <1>1 DEF Inv, BatchOK, InBatch
<1>11. ProcessOK(p)'
  <2>1. ProcessOK(p) /\ UNCHANGED db
    BY <1>1 DEF Inv, dbvars
  <2>2. RowsOK(p)'
    BY <1>1, <1>7, <1>9, <2>1 DEF ProcessOK, RowsOK, Before, Waits, Entered, WithResult, InBatch
  <2>3. OriginOK(p)'
    BY <1>5, <1>7, <1>9 DEF OriginOK
  <2>4. ResultOK(p)'
    BY <1>1, <1>7, <1>9, <2>1 DEF ProcessOK, ResultOK, ProgressOK, WithResult, InBatch, Ended
  <2> QED
    BY <2>2, <2>3, <2>4 DEF ProcessOK
<1> QED
  BY <1>1, <1>9, <1>10, <1>11, QuietInv

LEMMA CreateRunInv ==
    ASSUME Inv, NEW p \in Sessions, CreateRun(p)
    PROVE  Inv'
<1> DEFINE image == [View(p) EXCEPT !.runs[p] = NewRun]
<1>1. /\ pc[p] = "create" /\ Goto(p, LoopHead(mem[p])) /\ UNCHANGED mem /\ UNCHANGED fetched
      /\ WriteCommit(p, image)
  BY DEF CreateRun
<1>2. View(p) \in Images /\ View(p) = db
  BY <1>1, ViewFacts DEF Inv, InBatch
<1>3. NewRun \in AnyRun /\ NewRun.status = "running"
  BY DEF NewRun, AnyRun
<1>4. /\ image \in Images /\ image.states = db.states /\ image.jobs = db.jobs
      /\ image.checkpoints = View(p).checkpoints
      /\ \A q \in Sessions : image.runs[q] = IF q = p THEN NewRun ELSE db.runs[q]
  BY <1>2, <1>3 DEF Images
<1>5. LoopHead(mem[p]) \in Labels
  BY DEF LoopHead, Labels
<1>6. mem[p] \in Mems /\ mem[p].closed \in Nat /\ mem = [mem EXCEPT ![p] = mem[p]]
      /\ Len(mem[p].plan) \in Nat /\ Len(db.states[p]) \in Nat
  BY OwnMem
<1>7. Moves(p) /\ pc'[p] = LoopHead(mem[p]) /\ mem'[p] = mem[p]
  BY <1>1, <1>5, <1>6, MemMoves
<1>8. Own(p, View(p), image)
  BY <1>2, <1>4, <1>6, GrowReflexive DEF Own
<1>9. db' = image
  BY <1>1 DEF WriteCommit
<1>10. ProcessOK(p)'
  <2>1. ProcessOK(p)
    BY DEF Inv
  <2>2. NewRun # None
    BY <1>3, NoneFacts
  <2>3. db.states[p] = <<>> /\ mem[p].closed = 0
    BY <1>1, <1>6, <2>1 DEF ProcessOK, RowsOK, Before
  <2>4. RowsOK(p)'
    BY <1>1, <1>3, <1>4, <1>6, <1>7, <1>9, <2>1, <2>2, <2>3
       DEF RowsOK, ProcessOK, LoopHead, Before, Waits, Entered, WithResult, InBatch
  <2>5. OriginOK(p)'
    BY <1>1, <1>7, <2>1 DEF ProcessOK, OriginOK, LoopHead
  <2>6. ResultOK(p)'
    BY <1>1, <1>7, <2>1 DEF ProcessOK, ResultOK, ProgressOK, LoopHead, WithResult, InBatch, Ended
  <2> QED
    BY <2>4, <2>5, <2>6 DEF ProcessOK
<1> QED
  BY <1>1, <1>4, <1>7, <1>8, <1>10, SaveInv

LEMMA ReadCheckpointInv ==
    ASSUME Inv, NEW p \in Sessions, ReadCheckpoint(p)
    PROVE  Inv'
<1> DEFINE m == [mem[p] EXCEPT !.before = CheckpointFor(p)]
<1>1. /\ pc[p] = "adapter" /\ Goto(p, "state") /\ UNCHANGED dbvars /\ UNCHANGED fetched
      /\ mem' = [mem EXCEPT ![p] = m]
  BY DEF ReadCheckpoint
<1>2. mem[p] \in Mems /\ mem[p].closed \in Nat /\ Len(mem[p].plan) \in Nat
  BY OwnMem
<1>3. Target(p) \in Targets /\ mem[p].closed + 1 \in 1 .. Len(mem[p].plan) /\ View(p) \in Images
  BY <1>1, HandFacts DEF Waits
<1>4. CheckpointFor(p) \in AnyCursor
  <2>1. CASE mem[p].origin # None
    <3>1. mem[p].contexts \in Seq(AnyCursor) /\ Len(mem[p].contexts) = Len(mem[p].plan)
      BY <1>1, <1>2, <2>1 DEF Mems, Inv, ProcessOK, OriginOK, Waits
    <3> QED
      BY <1>3, <2>1, <3>1 DEF CheckpointFor
  <2>2. CASE mem[p].origin = None
    BY <1>3, <2>2 DEF CheckpointFor, Images
  <2> QED
    BY <2>1, <2>2
<1>5. m \in Mems
  BY <1>2, <1>4 DEF Mems
<1>6. /\ m.plan = mem[p].plan /\ m.closed = mem[p].closed /\ m.contexts = mem[p].contexts
      /\ m.k = mem[p].k /\ m.origin = mem[p].origin
      /\ mem[p].closed <= m.closed /\ "state" \in Labels
  BY <1>2 DEF Mems, Labels
<1>7. Moves(p) /\ pc'[p] = "state" /\ mem'[p] = m
  BY <1>1, <1>5, <1>6, MemMoves
<1>8. writer # p
  BY <1>1 DEF Inv, BatchOK, InBatch
<1>9. ProcessOK(p)'
  <2>1. ProcessOK(p) /\ UNCHANGED db
    BY <1>1 DEF Inv, dbvars
  <2>2. RowsOK(p)'
    BY <1>1, <1>6, <1>7, <2>1 DEF ProcessOK, RowsOK, Before, Waits, Entered, WithResult, InBatch
  <2>3. OriginOK(p)'
    BY <1>1, <1>6, <1>7, <2>1 DEF ProcessOK, OriginOK, Waits
  <2>4. ResultOK(p)'
    BY <1>1, <1>6, <1>7, <2>1 DEF ProcessOK, ResultOK, ProgressOK, WithResult, InBatch, Ended
  <2> QED
    BY <2>2, <2>3, <2>4 DEF ProcessOK
<1> QED
  BY <1>1, <1>7, <1>8, <1>9, QuietInv

LEMMA CreateStateInv ==
    ASSUME Inv, NEW p \in Sessions, CreateState(p)
    PROVE  Inv'
<1> DEFINE row == NewState(Target(p), mem[p].before)
           rows == db.states[p]
           image == [View(p) EXCEPT !.states[p] = Append(@, row)]
<1>1. /\ pc[p] = "state" /\ Goto(p, "fetch") /\ UNCHANGED mem /\ UNCHANGED fetched
      /\ WriteCommit(p, image)
  BY DEF CreateState, StateSaved
<1>2. View(p) \in Images /\ View(p) = db
  BY <1>1, ViewFacts DEF Inv, InBatch
<1>3. mem[p] \in Mems /\ mem[p].closed \in Nat /\ mem = [mem EXCEPT ![p] = mem[p]]
      /\ mem[p].closed <= mem[p].closed
  <2>1. mem[p] \in Mems /\ mem[p].closed \in Nat /\ mem = [mem EXCEPT ![p] = mem[p]]
    BY OwnMem
  <2> QED
    BY <2>1
<1>4. Target(p) \in Targets /\ mem[p].closed + 1 \in 1 .. Len(mem[p].plan)
  BY <1>1, HandFacts DEF Waits
<1>5. row \in AnyState /\ row.target = Target(p) /\ row.after = mem[p].before
  BY <1>3, <1>4 DEF NewState, AnyState, Mems
<1>6. rows \in Seq(AnyState) /\ Len(rows) = mem[p].closed
  BY <1>1, OwnMem DEF Inv, ProcessOK, RowsOK, Waits
<1>7. /\ Append(rows, row) \in Seq(AnyState)
      /\ Len(Append(rows, row)) = mem[p].closed + 1
      /\ Append(rows, row)[mem[p].closed + 1] = row
      /\ \A n \in 1 .. mem[p].closed : Append(rows, row)[n] = rows[n]
  BY <1>3, <1>5, <1>6
<1>8. /\ image \in Images /\ image.runs = db.runs /\ image.jobs = db.jobs
      /\ image.checkpoints = View(p).checkpoints
      /\ \A q \in Sessions : image.states[q] = IF q = p THEN Append(rows, row) ELSE db.states[q]
  BY <1>2, <1>7 DEF Images
<1>9. Moves(p) /\ pc'[p] = "fetch" /\ mem'[p] = mem[p]
  <2>1. "fetch" \in Labels
    BY DEF Labels
  <2> QED
    BY <1>1, <1>3, <2>1, MemMoves
<1>10. Own(p, View(p), image)
  BY <1>2, <1>3, <1>6, <1>7, <1>8, GrowReflexive DEF Own
<1>11. db' = image
  BY <1>1 DEF WriteCommit
<1>12. ProcessOK(p)'
  <2>1. ProcessOK(p)
    BY DEF Inv
  <2>2. db'.states[p] = Append(rows, row) /\ db'.runs[p] = db.runs[p]
    BY <1>8, <1>11
  <2>3. \A i \in 1 .. mem[p].closed + 1 : db'.states[p][i].target = mem[p].plan[i]
    <3>1. row.target = mem[p].plan[mem[p].closed + 1]
      BY <1>5 DEF Target
    <3>2. \A i \in 1 .. mem[p].closed : rows[i].target = mem[p].plan[i]
      BY <1>6, <2>1 DEF ProcessOK, RowsOK
    <3> QED
      BY <1>3, <1>7, <2>2, <3>1, <3>2
  <2>4. RowsOK(p)'
    <3>1. /\ db.runs[p] # None /\ db.runs[p].status = "running"
      BY <1>1, <2>1 DEF ProcessOK, RowsOK, Waits
    <3> QED
      BY <1>3, <1>4, <1>5, <1>7, <1>9, <2>2, <2>3, <3>1 DEF RowsOK, Before, Waits
  <2>5. OriginOK(p)'
    BY <1>1, <1>9, <2>1 DEF ProcessOK, OriginOK, Waits
  <2>6. ResultOK(p)'
    BY <1>1, <1>9, <2>1 DEF ProcessOK, ResultOK, ProgressOK, WithResult, InBatch, Ended
  <2> QED
    BY <2>4, <2>5, <2>6 DEF ProcessOK
<1> QED
  BY <1>1, <1>8, <1>9, <1>10, <1>12, SaveInv

LEMMA FetchRaisesInv ==
    ASSUME Inv, NEW p \in Sessions, FetchRaises(p)
    PROVE  Inv'
<1>1. pc[p] = "fetch" /\ Goto(p, "handler") /\ UNCHANGED <<dbvars, mem, fetched>>
  BY DEF FetchRaises
<1>2. Moves(p) /\ pc'[p] = "handler" /\ mem'[p] = mem[p]
  <2>1. mem[p] \in Mems /\ mem[p].closed \in Nat /\ mem = [mem EXCEPT ![p] = mem[p]]
    BY OwnMem
  <2>2. "handler" \in Labels /\ mem[p].closed <= mem[p].closed
    BY <2>1 DEF Labels
  <2> QED
    BY <1>1, <2>1, <2>2, MemMoves
<1>3. writer # p
  BY <1>1 DEF Inv, BatchOK, InBatch
<1>4. ProcessOK(p)'
  <2>1. ProcessOK(p) /\ UNCHANGED db
    BY <1>1 DEF Inv, dbvars
  <2>2. RowsOK(p)'
    BY <1>1, <1>2, <2>1 DEF ProcessOK, RowsOK, Before, Waits, Entered
  <2>3. OriginOK(p)' /\ ResultOK(p)'
    BY <1>1, <1>2, <2>1
       DEF ProcessOK, OriginOK, ResultOK, ProgressOK, Entered, WithResult, InBatch, Ended
  <2> QED
    BY <2>2, <2>3 DEF ProcessOK
<1> QED
  BY <1>1, <1>2, <1>3, <1>4, QuietInv

(* What LoopHead finds when the adapter in hand is done with               *)
LEMMA NextAdapter ==
    ASSUME NEW m \in Mems, NEW length \in Nat, length = m.closed, length <= Len(m.plan)
    PROVE  /\ LoopHead(m) \in Labels
           /\ LoopHead(m) = "adapter" => m.closed < Len(m.plan)
           /\ LoopHead(m) = "finish" => length = Len(m.plan)
           /\ LoopHead(m) \in {"adapter", "finish"}
<1>1. Len(m.plan) \in Nat /\ m.closed \in Nat
  BY DEF Mems
<1> QED
  BY <1>1 DEF LoopHead, Labels

LEMMA RecordFailureInv ==
    ASSUME Inv, NEW p \in Sessions, RecordFailure(p)
    PROVE  Inv'
<1> DEFINE image == [View(p) EXCEPT !.runs[p].errors = mem[p].errors + 1]
           m == [mem[p] EXCEPT !.errors = @ + 1, !.closed = @ + 1, !.before = None]
<1>1. /\ pc[p] = "handler" /\ UNCHANGED fetched /\ WriteCommit(p, image)
      /\ mem' = [mem EXCEPT ![p].errors = @ + 1, ![p].closed = @ + 1, ![p].before = None]
      /\ Goto(p, LoopHead(mem'[p]))
  BY DEF RecordFailure, AfterFailure
<1>2. View(p) \in Images /\ View(p) = db
  BY <1>1, ViewFacts DEF Inv, InBatch
<1>3. mem[p] \in Mems /\ mem[p].closed \in Nat /\ mem[p].errors \in Nat
      /\ Len(mem[p].plan) \in Nat
  BY OwnMem DEF Mems
<1>4. View(p).runs[p] \in AnyRun /\ View(p).runs[p].status = "running"
  BY <1>1, HandFacts DEF Entered
<1> DEFINE row == [View(p).runs[p] EXCEPT !.errors = mem[p].errors + 1]
<1>5. row \in AnyRun /\ row.status = "running" /\ row # None
  <2>1. row \in AnyRun /\ row.status = "running"
    BY <1>3, <1>4, SMTT(60) DEF AnyRun
  <2> QED
    BY <2>1, NoneFacts
<1>6. /\ image \in Images /\ image.states = db.states /\ image.jobs = db.jobs
      /\ image.checkpoints = View(p).checkpoints
      /\ \A q \in Sessions : image.runs[q] = IF q = p THEN row ELSE db.runs[q]
  BY <1>2, <1>5 DEF Images
<1>7. /\ m \in Mems /\ m.closed = mem[p].closed + 1 /\ m.plan = mem[p].plan /\ m.k = mem[p].k
      /\ m.origin = mem[p].origin /\ m.contexts = mem[p].contexts /\ mem[p].closed <= m.closed
  <2>1. m \in Mems
    <3>1. None \in AnyCursor /\ mem[p].errors + 1 \in Nat /\ mem[p].closed + 1 \in Nat
      BY <1>3 DEF AnyCursor
    <3> QED
      BY <1>3, <3>1 DEF Mems
  <2>2. /\ m.closed = mem[p].closed + 1 /\ m.plan = mem[p].plan /\ m.k = mem[p].k
        /\ m.origin = mem[p].origin /\ m.contexts = mem[p].contexts
    BY <1>3 DEF Mems
  <2> QED
    BY <1>3, <2>1, <2>2
<1>8. mem' = [mem EXCEPT ![p] = m]
  BY <1>1
<1>9. mem'[p] = m
  BY <1>8 DEF Inv, Typed
<1>10. /\ Len(db.states[p]) = m.closed /\ m.closed <= Len(m.plan) /\ m.closed \in Nat
       /\ \A i \in 1 .. Len(db.states[p]) : db.states[p][i].target = m.plan[i]
  BY <1>1, <1>3, <1>7 DEF Inv, ProcessOK, RowsOK, Entered
<1>11. /\ LoopHead(m) \in Labels /\ LoopHead(m) \in {"adapter", "finish"}
       /\ LoopHead(m) = "adapter" => m.closed < Len(m.plan)
       /\ LoopHead(m) = "finish" => Len(db.states[p]) = Len(m.plan)
  BY <1>7, <1>10, NextAdapter
<1>12. Moves(p) /\ pc'[p] = LoopHead(m)
  <2>1. Goto(p, LoopHead(m))
    BY <1>1, <1>9 DEF Goto
  <2>2. UNCHANGED fetched
    BY <1>1
  <2> HIDE DEF m
  <2> QED
    BY <1>7, <1>8, <1>11, <2>1, <2>2, MemMoves
<1>13. Own(p, View(p), image)
  BY <1>2, <1>6, <1>10, GrowReflexive DEF Own
<1>14. db' = image
  BY <1>1 DEF WriteCommit
<1>15. ProcessOK(p)'
  <2>1. ProcessOK(p)
    BY DEF Inv
  <2>2. RowsOK(p)'
    BY <1>5, <1>6, <1>7, <1>9, <1>10, <1>11, <1>12, <1>14
       DEF RowsOK, Before, Waits, Entered, WithResult, InBatch
  <2>3. OriginOK(p)'
    BY <1>1, <1>7, <1>9, <1>11, <1>12, <2>1 DEF ProcessOK, OriginOK, Entered
  <2>4. ResultOK(p)'
    BY <1>1, <1>7, <1>9, <1>11, <1>12, <2>1 DEF ProcessOK, ResultOK, ProgressOK, WithResult, InBatch, Ended
  <2> QED
    BY <2>2, <2>3, <2>4 DEF ProcessOK
<1> QED
  BY <1>1, <1>6, <1>12, <1>13, <1>15, SaveInv

LEMMA FetchReturnsInv ==
    ASSUME Inv, NEW p \in Sessions, FetchReturns(p)
    PROVE  Inv'
<1> DEFINE now == Len(fetched) + 1
<1>1. PICK r \in Results(Target(p), now) :
          /\ fetched' = Append(fetched, [run |-> p, target |-> Target(p),
                                         jobs |-> r.jobs, next |-> r.next])
          /\ mem' = [mem EXCEPT ![p].result = [at |-> now, jobs |-> r.jobs,
                                               errors |-> r.errors, next |-> r.next]]
          /\ Goto(p, IF r.errors > 0 THEN "errors" ELSE AfterErrors(r))
  BY DEF FetchReturns
<1> DEFINE label == IF r.errors > 0 THEN "errors" ELSE AfterErrors(r)
           fetch == [run |-> p, target |-> Target(p), jobs |-> r.jobs, next |-> r.next]
           result == [at |-> now, jobs |-> r.jobs, errors |-> r.errors, next |-> r.next]
           m == [mem[p] EXCEPT !.result = result]
<1>2. pc[p] = "fetch" /\ UNCHANGED dbvars
  BY DEF FetchReturns
<1>3. mem[p] \in Mems /\ mem[p].closed \in Nat /\ Len(mem[p].plan) \in Nat
      /\ fetched \in Seq(AnyFetch) /\ Len(fetched) \in Nat
  BY OwnMem DEF Inv, Typed
<1>4. Target(p) \in Targets
  BY <1>2, HandFacts DEF Entered
<1>5. r.jobs \in Seq(JobIds) /\ r.errors \in Nat /\ r.next \in AnyCursor
  <2>1. NextCursor(Target(p), now) \in AnyCursor
    <3>1. CursorOf[Target(p)] \in {"instant", "constant", "none"}
      BY <1>4, CollectorAssumption
    <3>2. now \in Nat
      BY <1>3
    <3> QED
      BY <3>1, <3>2 DEF NextCursor, AnyCursor
  <2>2. \A jobs \in Listings : jobs \in Seq(JobIds)
    BY CollectorAssumption
  <2> QED
    BY <2>1, <2>2 DEF Results, AnyCursor
<1>6. fetch \in AnyFetch /\ result \in AnyResult
  BY <1>3, <1>4, <1>5 DEF AnyFetch, AnyResult
<1>7. /\ fetched' \in Seq(AnyFetch) /\ Len(fetched') = now /\ fetched'[now] = fetch
      /\ now \in 1 .. Len(fetched')
      /\ Len(fetched) <= Len(fetched')
      /\ \A i \in 1 .. Len(fetched) : fetched'[i] = fetched[i]
  BY <1>1, <1>3, <1>6
<1>8. /\ m \in Mems /\ m.closed = mem[p].closed /\ m.plan = mem[p].plan /\ m.k = mem[p].k
      /\ m.origin = mem[p].origin /\ m.contexts = mem[p].contexts /\ m.before = mem[p].before
      /\ m.result = result /\ m.loaded = mem[p].loaded
  BY <1>3, <1>6 DEF Mems
<1>9. mem' = [mem EXCEPT ![p] = m]
  BY <1>1
<1>10. label \in WithResult \ {"flush", "cpflush"} /\ label \in Labels
  BY DEF AfterErrors, AfterJobs, WithResult, InBatch, Labels
<1>11. Moves(p) /\ pc'[p] = label /\ mem'[p] = m
  BY <1>1, <1>3, <1>7, <1>8, <1>9, <1>10 DEF Moves, Goto, Inv, Typed
<1>12. writer # p
  BY <1>2 DEF Inv, BatchOK, InBatch
<1>13. ProcessOK(p)'
  <2>1. ProcessOK(p) /\ UNCHANGED db
    BY <1>2 DEF Inv, dbvars
  <2>2. RowsOK(p)'
    BY <1>2, <1>8, <1>10, <1>11, <2>1 DEF ProcessOK, RowsOK, Before, Waits, Entered, WithResult, InBatch
  <2>3. OriginOK(p)'
    BY <1>2, <1>8, <1>10, <1>11, <2>1
       DEF ProcessOK, OriginOK, Before, Waits, Entered, WithResult, InBatch
  <2>4. ResultOK(p)'
    <3>1. m.k = 1
      BY <1>2, <1>8, <2>1 DEF ProcessOK, ResultOK, ProgressOK, InBatch, Ended
    <3>2. Target(p)' = Target(p)
      BY <1>8, <1>11 DEF Target
    <3>3. /\ result # None /\ result.at = now /\ result.jobs = r.jobs /\ result.next = r.next
      <4>1. result # None
        BY <1>6, NoneFacts
      <4> QED
        BY <4>1
    <3>4. fetch.run = p /\ fetch.target = Target(p) /\ fetch.jobs = r.jobs /\ fetch.next = r.next
      OBVIOUS
    <3>5. label = "select" => 1 <= Len(r.jobs) /\ Len(r.jobs) \in Nat
      BY <1>5 DEF AfterErrors, AfterJobs
    <3>6. label \in {"cpselect", "close"} => r.jobs = <<>>
      BY DEF AfterErrors, AfterJobs
    <3>7. label = "cpselect" => r.next # None
      BY DEF AfterErrors, AfterJobs
    <3>8. \A table : StoredIn(table, Target(p), r.jobs, 1 - 1)
      BY DEF StoredIn
    <3>9. label \in {"cpselect", "close"} =>
              \A table : StoredIn(table, Target(p), r.jobs, Len(r.jobs))
      BY <3>6 DEF StoredIn
    <3> QED
      BY <1>7, <1>8, <1>10, <1>11, <3>1, <3>2, <3>3, <3>4, <3>5, <3>7, <3>8, <3>9
         DEF ResultOK, ProgressOK, WithResult, InBatch, Ended
  <2> QED
    BY <2>2, <2>3, <2>4 DEF ProcessOK
<1> QED
  BY <1>2, <1>11, <1>12, <1>13, QuietInv
(* A result in hand and the image its batch is built on                    *)
LEMMA BatchFacts ==
    ASSUME Inv, NEW p \in Sessions, pc[p] \in WithResult
    PROVE  /\ mem[p].result \in AnyResult /\ mem[p].result # None
           /\ mem[p].result.at \in 1 .. Len(fetched)
           /\ mem[p].result.jobs \in Seq(JobIds) /\ Len(mem[p].result.jobs) \in Nat
           /\ mem[p].result.errors \in Nat /\ mem[p].result.next \in AnyCursor
           /\ mem[p].errors \in Nat /\ mem[p].k \in Nat \ {0}
           /\ Target(p) \in Targets /\ View(p) \in Images /\ View(p).states = db.states
           /\ View(p).runs[p] \in AnyRun
           /\ View(p).runs[p] # None /\ View(p).runs[p].status = "running"
           /\ pc[p] \in {"select", "flush"} =>
                 mem[p].k \in 1 .. Len(mem[p].result.jobs) /\ Job(p) \in Keys
<1>1. ResultOK(p) /\ mem[p] \in Mems
  BY OwnMem DEF Inv, ProcessOK
<1>2. mem[p].result # None /\ mem[p].result.at \in 1 .. Len(fetched)
  BY <1>1 DEF ResultOK
<1>3. mem[p].result \in AnyResult /\ mem[p].errors \in Nat /\ mem[p].k \in Nat \ {0}
  BY <1>1, <1>2 DEF Mems
<1>4. /\ mem[p].result.jobs \in Seq(JobIds) /\ Len(mem[p].result.jobs) \in Nat
      /\ mem[p].result.errors \in Nat /\ mem[p].result.next \in AnyCursor
  BY <1>3 DEF AnyResult
<1>5. /\ Target(p) \in Targets /\ View(p) \in Images /\ View(p).states = db.states
      /\ View(p).runs[p] \in AnyRun
      /\ View(p).runs[p] # None /\ View(p).runs[p].status = "running"
  BY HandFacts DEF Entered, WithResult, InBatch
<1>6. ASSUME pc[p] \in {"select", "flush"}
      PROVE  mem[p].k \in 1 .. Len(mem[p].result.jobs) /\ Job(p) \in Keys
  <2>1. mem[p].k \in 1 .. Len(mem[p].result.jobs)
    BY <1>1, <1>3, <1>4, <1>6 DEF ResultOK, ProgressOK
  <2> QED
    BY <1>4, <1>5, <2>1, KeyType DEF Job
<1> QED
  BY <1>2, <1>3, <1>4, <1>5, <1>6

(* A step inside a batch keeps the adapter in hand.                        *)
SameHand(m, n) ==
    /\ n.plan = m.plan /\ n.closed = m.closed /\ n.origin = m.origin
    /\ n.contexts = m.contexts /\ n.before = m.before /\ n.result = m.result

LEMMA BatchStep ==
    ASSUME Inv, NEW p \in Sessions, pc[p] \in WithResult, pc'[p] \in InBatch,
           SameHand(mem[p], mem'[p]), UNCHANGED <<db, fetched>>, ProgressOK(p)'
    PROVE  ProcessOK(p)'
<1>1. ProcessOK(p)
  BY DEF Inv
<1>2. pc[p] \in Entered /\ pc'[p] \in Entered
  BY DEF Entered, WithResult
<1>3. RowsOK(p)'
  BY <1>1, <1>2 DEF ProcessOK, RowsOK, SameHand, Before, Waits, Entered, WithResult, InBatch
<1>4. OriginOK(p)'
  BY <1>1, <1>2 DEF ProcessOK, OriginOK, SameHand, Before, Waits, Entered, WithResult, InBatch
<1>5. ResultOK(p)'
  <2>1. Target(p)' = Target(p)
    BY DEF Target, SameHand
  <2> QED
    BY <1>1, <2>1 DEF ProcessOK, ResultOK, SameHand, WithResult
<1> QED
  BY <1>3, <1>4, <1>5 DEF ProcessOK

LEMMA RecordErrorsInv ==
    ASSUME Inv, NEW p \in Sessions, RecordErrors(p)
    PROVE  Inv'
<1> DEFINE r == mem[p].result
           row == [View(p).runs[p] EXCEPT !.errors = mem[p].errors + r.errors]
           image == [View(p) EXCEPT !.runs[p].errors = mem[p].errors + r.errors]
           m == [mem[p] EXCEPT !.errors = @ + r.errors]
           label == AfterErrors(r)
<1>1. /\ pc[p] = "errors" /\ UNCHANGED fetched /\ Write(p, image)
      /\ mem' = [mem EXCEPT ![p] = m] /\ Goto(p, label)
  BY DEF RecordErrors
<1>2. pc[p] \in WithResult /\ pc[p] # "close" /\ ProcessOK(p) /\ mem[p].k = 1
  <2>1. ResultOK(p)
    BY DEF Inv, ProcessOK
  <2> QED
    BY <1>1, <2>1 DEF WithResult, InBatch, Inv, ResultOK, Ended
<1>3. mem[p] \in Mems /\ mem[p].closed \in Nat
  BY OwnMem
<1>4. /\ View(p) \in Images /\ View(p).runs[p] \in AnyRun /\ View(p).runs[p].status = "running"
      /\ r.errors \in Nat /\ mem[p].errors \in Nat /\ r.jobs \in Seq(JobIds)
  BY <1>2, BatchFacts
<1>5. row \in AnyRun /\ row.status = "running" /\ row # None
  <2>1. row \in AnyRun /\ row.status = "running"
    BY <1>4, SMTT(60) DEF AnyRun
  <2> QED
    BY <2>1, NoneFacts
<1>6. /\ image \in Images /\ image.states = View(p).states /\ image.jobs = View(p).jobs
      /\ image.checkpoints = View(p).checkpoints
      /\ \A q \in Sessions : image.runs[q] = IF q = p THEN row ELSE View(p).runs[q]
  BY <1>4, <1>5 DEF Images
<1>7. m \in Mems /\ SameHand(mem[p], m) /\ m.k = mem[p].k /\ mem[p].closed <= m.closed
  <2>1. m \in Mems
    <3>1. mem[p].errors + r.errors \in Nat
      BY <1>3, <1>4
    <3> QED
      BY <1>3, <1>4, <3>1 DEF Mems
  <2>2. SameHand(mem[p], m) /\ m.k = mem[p].k
    BY <1>3 DEF Mems, SameHand
  <2> QED
    BY <1>3, <2>1, <2>2 DEF SameHand
<1>8. label \in InBatch /\ label \in Labels
  BY DEF AfterErrors, AfterJobs, InBatch, Labels
<1>9. Moves(p) /\ pc'[p] = label /\ mem'[p] = m
  <2> HIDE DEF m, label, image
  <2> QED
    BY <1>1, <1>7, <1>8, MemMoves
<1>10. ProgressOK(p)'
  <2>1. label = "select" => 1 <= Len(r.jobs)
    BY <1>4 DEF AfterErrors, AfterJobs
  <2>2. label \in {"cpselect", "close"} => r.jobs = <<>>
    BY DEF AfterErrors, AfterJobs
  <2>3. label = "cpselect" => r.next # None
    BY DEF AfterErrors, AfterJobs
  <2>4. \A table, t : StoredIn(table, t, r.jobs, 1 - 1)
    BY DEF StoredIn
  <2>5. label \in {"cpselect", "close"} =>
            \A table, t : StoredIn(table, t, r.jobs, Len(r.jobs))
    BY <2>2 DEF StoredIn
  <2>6. label \notin {"flush", "cpflush"}
    BY DEF AfterErrors, AfterJobs
  <2>7. mem'[p].result = r /\ mem'[p].k = 1
    BY <1>2, <1>7, <1>9 DEF SameHand
  <2> HIDE DEF m, label, image, r
  <2> QED
    BY <1>9, <2>1, <2>3, <2>4, <2>5, <2>6, <2>7 DEF ProgressOK
<1>11. ProcessOK(p)'
  BY <1>1, <1>2, <1>7, <1>8, <1>9, <1>10, BatchStep DEF Write
<1> QED
  BY <1>1, <1>2, <1>5, <1>6, <1>8, <1>9, <1>11, FlushInv, GrowReflexive, ZenonT(60)

LEMMA SelectJobInv ==
    ASSUME Inv, NEW p \in Sessions, SelectJob(p)
    PROVE  Inv'
<1> DEFINE row == View(p).jobs[Job(p)]
           m == [mem[p] EXCEPT !.seen = @ + 1, !.loaded = row]
<1>1. /\ pc[p] = "select" /\ UNCHANGED dbvars /\ UNCHANGED fetched
      /\ mem' = [mem EXCEPT ![p] = m] /\ Goto(p, "flush")
  BY DEF SelectJob
<1>2. pc[p] \in WithResult /\ "flush" \in InBatch /\ "flush" \in Labels
  BY <1>1 DEF WithResult, InBatch, Labels
<1>3. mem[p] \in Mems /\ mem[p].closed \in Nat /\ mem[p].seen \in Nat
  BY OwnMem DEF Mems
<1>4. row \in AnyJob \cup {None}
  <2>1. Job(p) \in Keys /\ View(p) \in Images
    BY <1>1, <1>2, BatchFacts
  <2> QED
    BY <2>1 DEF Images
<1>5. m \in Mems /\ SameHand(mem[p], m) /\ m.k = mem[p].k /\ m.loaded = row
      /\ mem[p].closed <= m.closed
  <2>1. m \in Mems
    <3>1. mem[p].seen + 1 \in Nat
      BY <1>3, <1>4
    <3> QED
      BY <1>3, <1>4, <3>1 DEF Mems
  <2>2. SameHand(mem[p], m) /\ m.k = mem[p].k /\ m.loaded = row
    BY <1>3 DEF Mems, SameHand
  <2> QED
    BY <1>3, <2>1, <2>2 DEF SameHand
<1>6. Moves(p) /\ pc'[p] = "flush" /\ mem'[p] = m
  <2> HIDE DEF m
  <2> QED
    BY <1>1, <1>2, <1>5, MemMoves
<1>7. ProgressOK(p)'
  <2>1. ProgressOK(p)
    BY DEF Inv, ProcessOK, ResultOK
  <2>2. View(p)' = View(p) /\ Target(p)' = Target(p) /\ Job(p)' = Job(p)
    BY <1>1, <1>5, <1>6 DEF View, dbvars, Target, Job, SameHand
  <2> QED
    BY <1>1, <1>5, <1>6, <2>1, <2>2 DEF ProgressOK, SameHand
<1>8. ProcessOK(p)'
  BY <1>1, <1>2, <1>5, <1>6, <1>7, BatchStep DEF dbvars
<1> QED
  BY <1>1, <1>2, <1>6, <1>8, QuietInv
(* The row of the job in hand is in the table: one job more is stored.     *)
LEMMA JobDoneInv ==
    ASSUME Inv, NEW p \in Sessions, pc[p] = "flush", NEW image \in Images, Write(p, image),
           image.states = View(p).states, image.runs = View(p).runs,
           image.checkpoints = View(p).checkpoints,
           JobsGrow(View(p).jobs, image.jobs), image.jobs[Job(p)] # None,
           NEW status \in {"created", "updated", "unchanged"}, NextJob(p, status),
           UNCHANGED fetched
    PROVE  Inv'
<1> DEFINE tally == Tally(mem[p], status)
           m == [tally EXCEPT !.k = @ + 1, !.loaded = None]
           r == mem[p].result
           label == IF tally.k < Len(tally.result.jobs) THEN "select"
                                                         ELSE AfterJobs(tally.result)
<1>1. mem' = [mem EXCEPT ![p] = m] /\ Goto(p, label)
  BY DEF NextJob
<1>2. /\ mem[p] \in Mems /\ mem[p].closed \in Nat /\ mem[p].created \in Nat
      /\ mem[p].updated \in Nat
  BY OwnMem DEF Mems
<1>3. /\ r.jobs \in Seq(JobIds) /\ Len(r.jobs) \in Nat /\ mem[p].k \in 1 .. Len(r.jobs)
      /\ Target(p) \in Targets /\ pc[p] \in WithResult /\ Job(p) \in Keys
      /\ View(p).runs[p] # None /\ View(p).runs[p].status = "running"
  BY BatchFacts DEF WithResult, InBatch
<1>4. tally \in Mems /\ SameHand(mem[p], tally) /\ tally.k = mem[p].k
  <2>1. mem[p].created + 1 \in Nat /\ mem[p].updated + 1 \in Nat
    BY <1>2
  <2>2. CASE status = "created"
    <3>1. tally = [mem[p] EXCEPT !.created = mem[p].created + 1]
      BY <2>2 DEF Tally
    <3> HIDE DEF tally
    <3> QED
      BY <1>2, <2>1, <3>1 DEF Mems, SameHand
  <2>3. CASE status = "updated"
    <3>1. tally = [mem[p] EXCEPT !.updated = mem[p].updated + 1]
      BY <2>3 DEF Tally
    <3> HIDE DEF tally
    <3> QED
      BY <1>2, <2>1, <3>1 DEF Mems, SameHand
  <2>4. CASE status = "unchanged"
    <3>1. tally = mem[p]
      BY <2>4 DEF Tally
    <3> HIDE DEF tally
    <3> QED
      BY <1>2, <3>1 DEF SameHand
  <2> QED
    BY <2>2, <2>3, <2>4
<1> HIDE DEF tally
<1>5. m \in Mems /\ SameHand(mem[p], m) /\ m.k = mem[p].k + 1 /\ mem[p].closed <= m.closed
  <2>1. tally.k + 1 \in Nat \ {0} /\ None \in AnyJob \cup {None}
    BY <1>3, <1>4
  <2>2. m \in Mems
    BY <1>4, <2>1 DEF Mems
  <2>3. SameHand(mem[p], m) /\ m.k = mem[p].k + 1
    BY <1>4 DEF Mems, SameHand
  <2> QED
    BY <1>2, <2>2, <2>3 DEF SameHand
<1>6. /\ label \in InBatch /\ label \in Labels /\ label \notin {"flush", "cpflush"}
      /\ label = "select" => mem[p].k < Len(r.jobs)
      /\ label \in {"cpselect", "close"} => mem[p].k = Len(r.jobs)
      /\ label = "cpselect" => r.next # None
  BY <1>3, <1>4 DEF AfterJobs, SameHand, InBatch, Labels
<1> HIDE DEF m, label, r
<1>7. Moves(p) /\ pc'[p] = label /\ mem'[p] = m
  BY <1>1, <1>5, <1>6, MemMoves
<1>8. StoredIn(image.jobs, Target(p), r.jobs, mem[p].k)
  <2>1. mem[p].k - 1 \in 0 .. Len(r.jobs)
    BY <1>3
  <2>2. StoredIn(View(p).jobs, Target(p), r.jobs, mem[p].k - 1)
    BY DEF Inv, ProcessOK, ResultOK, ProgressOK, r
  <2>3. StoredIn(image.jobs, Target(p), r.jobs, mem[p].k - 1)
    BY <1>3, <2>1, <2>2, StoredGrows
  <2>4. ASSUME NEW i \in 1 .. mem[p].k PROVE image.jobs[KeyOf(Target(p), r.jobs[i])] # None
    <3>1. CASE i = mem[p].k
      BY <3>1 DEF Job, r
    <3>2. CASE i # mem[p].k
      <4>1. i \in 1 .. mem[p].k - 1
        BY <1>3, <3>2
      <4> QED
        BY <2>3, <4>1 DEF StoredIn
    <3> QED
      BY <3>1, <3>2
  <2> QED
    BY <2>4 DEF StoredIn
<1>9. ProgressOK(p)'
  <2>1. View(p)' = image
    BY DEF Write, View
  <2>2. Target(p)' = Target(p) /\ mem'[p].result = r
    BY <1>5, <1>7 DEF Target, SameHand, r
  <2>3. label = "select" => m.k <= Len(r.jobs) /\ m.k - 1 = mem[p].k
    BY <1>3, <1>5, <1>6
  <2> QED
    BY <1>6, <1>7, <1>8, <2>1, <2>2, <2>3 DEF ProgressOK, InBatch
<1>10. ProcessOK(p)'
  BY <1>3, <1>5, <1>6, <1>7, <1>9, BatchStep DEF Write
<1> QED
  BY <1>3, <1>6, <1>7, <1>10, FlushInv

(* A job's row put in the image of a batch                                 *)
LEMMA PutJob ==
    ASSUME Inv, NEW p \in Sessions, NEW key \in Keys, NEW row \in AnyJob, View(p) \in Images
    PROVE  LET image == [View(p) EXCEPT !.jobs[key] = row] IN
           /\ image \in Images
           /\ image.states = View(p).states /\ image.runs = View(p).runs
           /\ image.checkpoints = View(p).checkpoints
           /\ JobsGrow(View(p).jobs, image.jobs)
           /\ image.jobs[key] # None
<1> DEFINE image == [View(p) EXCEPT !.jobs[key] = row]
<1>1. /\ image \in Images
      /\ image.states = View(p).states /\ image.runs = View(p).runs
      /\ image.checkpoints = View(p).checkpoints
      /\ image.jobs = [View(p).jobs EXCEPT ![key] = row]
  BY DEF Images
<1>2. row # None
  BY NoneFacts
<1>3. View(p).jobs \in [Keys -> AnyJob \cup {None}]
  BY DEF Images
<1>4. \A k \in Keys : image.jobs[k] = IF k = key THEN row ELSE View(p).jobs[k]
  BY <1>1, <1>3
<1> QED
  BY <1>1, <1>2, <1>4 DEF JobsGrow

LEMMA ValuesType ==
    ASSUME Inv, NEW p \in Sessions, pc[p] = "flush", NEW born \in Sessions
    PROVE  Values(p, born) \in AnyJob
<1>1. /\ Target(p) \in Targets /\ mem[p].result \in AnyResult /\ mem[p].k \in Nat
  BY BatchFacts DEF WithResult, InBatch
<1>2. mem[p].result.at \in Nat
  BY <1>1 DEF AnyResult
<1> QED
  BY <1>1, <1>2 DEF Values, AnyJob

LEMMA InsertJobInv ==
    ASSUME Inv, NEW p \in Sessions, InsertJob(p)
    PROVE  Inv'
<1> DEFINE row == Values(p, p)
           image == [View(p) EXCEPT !.jobs[Job(p)] = row]
<1>1. pc[p] = "flush" /\ Write(p, image) /\ NextJob(p, "created") /\ UNCHANGED fetched
  BY DEF InsertJob, JobFlushed
<1>2. View(p) \in Images /\ Job(p) \in Keys
  BY <1>1, BatchFacts DEF WithResult, InBatch
<1>3. row \in AnyJob
  BY <1>1, ValuesType
<1> HIDE DEF row
<1>4. /\ image \in Images
      /\ image.states = View(p).states /\ image.runs = View(p).runs
      /\ image.checkpoints = View(p).checkpoints
      /\ JobsGrow(View(p).jobs, image.jobs)
      /\ image.jobs[Job(p)] # None
  BY <1>2, <1>3, PutJob
<1> QED
  BY <1>1, <1>4, JobDoneInv

LEMMA UpdateJobInv ==
    ASSUME Inv, NEW p \in Sessions, UpdateJob(p)
    PROVE  Inv'
<1> DEFINE old == mem[p].loaded
           new == Values(p, old.born)
           current == View(p).jobs[Job(p)]
           row == Dirty(current, old, new)
           status == IF new.hash # old.hash THEN "updated" ELSE "unchanged"
           image == [View(p) EXCEPT !.jobs[Job(p)] = row]
<1>1. /\ pc[p] = "flush" /\ old # None /\ Write(p, image) /\ NextJob(p, status)
      /\ UNCHANGED fetched
  BY DEF UpdateJob, JobFlushed
<1>2. View(p) \in Images /\ Job(p) \in Keys
  BY <1>1, BatchFacts DEF WithResult, InBatch
<1>3. current \in AnyJob
  <2>1. current # None
    BY <1>1 DEF Inv, ProcessOK, ResultOK, ProgressOK
  <2> QED
    BY <1>2, <2>1 DEF Images
<1>4. old \in AnyJob
  <2>1. mem[p] \in Mems
    BY OwnMem
  <2> QED
    BY <1>1, <2>1 DEF Mems
<1>5. new \in AnyJob
  <2>1. old.born \in Sessions
    BY <1>4 DEF AnyJob
  <2> QED
    BY <1>1, <2>1, ValuesType
<1>6. row \in AnyJob
  <2> HIDE DEF current, old, new
  <2> QED
    BY <1>3, <1>5 DEF Dirty, AnyJob
<1> HIDE DEF row
<1>7. /\ image \in Images
      /\ image.states = View(p).states /\ image.runs = View(p).runs
      /\ image.checkpoints = View(p).checkpoints
      /\ JobsGrow(View(p).jobs, image.jobs)
      /\ image.jobs[Job(p)] # None
  BY <1>2, <1>6, PutJob
<1>8. status \in {"created", "updated", "unchanged"}
  OBVIOUS
<1> HIDE DEF image, status
<1> QED
  BY <1>1, <1>7, <1>8, JobDoneInv

LEMMA SelectCheckpointInv ==
    ASSUME Inv, NEW p \in Sessions, SelectCheckpoint(p)
    PROVE  Inv'
<1> DEFINE row == View(p).checkpoints[Target(p)]
           m == [mem[p] EXCEPT !.found = row]
<1>1. /\ pc[p] = "cpselect" /\ UNCHANGED dbvars /\ UNCHANGED fetched
      /\ mem' = [mem EXCEPT ![p] = m] /\ Goto(p, "cpflush")
  BY DEF SelectCheckpoint
<1>2. pc[p] \in WithResult /\ "cpflush" \in InBatch /\ "cpflush" \in Labels
  BY <1>1 DEF WithResult, InBatch, Labels
<1>3. mem[p] \in Mems /\ mem[p].closed \in Nat
  BY OwnMem
<1>4. row \in AnyCursor
  <2>1. Target(p) \in Targets /\ View(p) \in Images
    BY <1>2, BatchFacts
  <2> QED
    BY <2>1 DEF Images
<1>5. m \in Mems /\ SameHand(mem[p], m) /\ mem[p].closed <= m.closed
  <2>1. m \in Mems
    BY <1>3, <1>4 DEF Mems
  <2>2. SameHand(mem[p], m)
    BY <1>3 DEF Mems, SameHand
  <2> QED
    BY <1>3, <2>1, <2>2 DEF SameHand
<1>6. Moves(p) /\ pc'[p] = "cpflush" /\ mem'[p] = m
  <2> HIDE DEF m
  <2> QED
    BY <1>1, <1>2, <1>5, MemMoves
<1>7. ProgressOK(p)'
  <2>1. ProgressOK(p)
    BY DEF Inv, ProcessOK, ResultOK
  <2>2. View(p)' = View(p) /\ Target(p)' = Target(p)
    BY <1>1, <1>5, <1>6 DEF View, dbvars, Target, SameHand
  <2> QED
    BY <1>1, <1>5, <1>6, <2>1, <2>2 DEF ProgressOK, SameHand
<1>8. ProcessOK(p)'
  BY <1>1, <1>2, <1>5, <1>6, <1>7, BatchStep DEF dbvars
<1> QED
  BY <1>1, <1>2, <1>6, <1>8, QuietInv
LEMMA FlushCheckpointInv ==
    ASSUME Inv, NEW p \in Sessions, FlushCheckpoint(p)
    PROVE  Inv'
<1> DEFINE next == mem[p].result.next
           image == [View(p) EXCEPT !.checkpoints[Target(p)] = next]
           m == [mem[p] EXCEPT !.found = None]
<1>1. /\ pc[p] = "cpflush" /\ UNCHANGED fetched
      /\ mem' = [mem EXCEPT ![p] = m] /\ Goto(p, "close")
      /\ UNCHANGED dbvars \/ Write(p, image)
  BY DEF FlushCheckpoint, CheckpointFlushed
<1>2. pc[p] \in WithResult /\ "close" \in InBatch /\ "close" \in Labels /\ pc[p] # "close"
  BY <1>1 DEF WithResult, InBatch, Labels
<1>3. mem[p] \in Mems /\ mem[p].closed \in Nat
  BY OwnMem
<1>4. m \in Mems /\ SameHand(mem[p], m) /\ mem[p].closed <= m.closed
  <2>1. m \in Mems
    <3>1. None \in AnyCursor
      BY DEF AnyCursor
    <3> QED
      BY <1>3, <3>1 DEF Mems
  <2>2. SameHand(mem[p], m)
    BY <1>3 DEF Mems, SameHand
  <2> QED
    BY <1>3, <2>1, <2>2 DEF SameHand
<1>5. Moves(p) /\ pc'[p] = "close" /\ mem'[p] = m
  <2> HIDE DEF m
  <2> QED
    BY <1>1, <1>2, <1>4, MemMoves
<1>6. Target(p)' = Target(p) /\ mem'[p].result = mem[p].result
  BY <1>4, <1>5 DEF Target, SameHand
<1>7. ProgressOK(p)
  BY DEF Inv, ProcessOK, ResultOK
<1>8. CASE UNCHANGED dbvars
  <2>1. View(p)' = View(p)
    BY <1>8 DEF View, dbvars
  <2>2. ProgressOK(p)'
    BY <1>1, <1>5, <1>6, <1>7, <2>1 DEF ProgressOK
  <2>3. ProcessOK(p)'
    BY <1>1, <1>2, <1>4, <1>5, <1>8, <2>2, BatchStep DEF dbvars
  <2> QED
    BY <1>2, <1>5, <1>8, <2>3, QuietInv
<1>9. CASE Write(p, image)
  <2>1. /\ Target(p) \in Targets /\ View(p) \in Images /\ next \in AnyCursor
        /\ View(p).runs[p] # None /\ View(p).runs[p].status = "running"
    BY <1>2, BatchFacts
  <2>2. /\ image \in Images /\ image.states = View(p).states /\ image.jobs = View(p).jobs
        /\ image.runs = View(p).runs
        /\ \A t \in Targets : image.checkpoints[t] =
                                 IF t = Target(p) THEN next ELSE View(p).checkpoints[t]
    BY <2>1 DEF Images
  <2> HIDE DEF image
  <2>3. /\ Typed' /\ BatchOK' /\ Stable(p)
        /\ writer' = p /\ pending' = image /\ UNCHANGED db
    BY <1>2, <1>5, <1>9, <2>1, <2>2, GrowReflexive, FlushFrame
  <2>4. View(p)' = image
    BY <2>3 DEF View
  <2>5. ProgressOK(p)'
    BY <1>1, <1>5, <1>6, <1>7, <2>2, <2>4 DEF ProgressOK
  <2>6. ProcessOK(p)'
    BY <1>1, <1>2, <1>4, <1>5, <2>3, <2>5, BatchStep
  <2>7. \A q \in Sessions : ProcessOK(q)'
    BY <1>5, <2>3, <2>6, OthersOK
  <2>8. ASSUME NEW t \in Targets, db'.checkpoints[t] # None PROVE CoveredIn(db, t)'
    <3>1. CoveredIn(db, t) /\ JobsGrow(db.jobs, db'.jobs) /\ db'.checkpoints = db.checkpoints
      BY <2>3, <2>8, GrowReflexive DEF Inv, CoverOK
    <3> QED
      BY <1>5, <2>3, <3>1, CoveredStays DEF CoveredIn
  <2>9. ASSUME NEW t \in Targets, pending'.checkpoints[t] # None
        PROVE  CoveredIn(pending, t)' \/ InHand(p, t)'
    <3>1. CASE t = Target(p)
      BY <1>5, <1>6, <2>2, <2>3, <3>1 DEF InHand
    <3>2. CASE t # Target(p)
      <4>1. View(p).checkpoints[t] = pending'.checkpoints[t]
        BY <2>2, <2>3, <3>2
      <4>2. CoveredIn(View(p), t)
        BY <1>2, <2>9, <4>1, ViewCovered
      <4>3. JobsGrow(View(p).jobs, pending'.jobs)
        BY <2>2, <2>3, GrowReflexive
      <4> QED
        BY <1>5, <2>3, <4>1, <4>2, <4>3, CoveredStays DEF CoveredIn
    <3> QED
      BY <3>1, <3>2
  <2>10. CoverOK'
    BY <2>3, <2>8, <2>9 DEF CoverOK
  <2> QED
    BY <2>3, <2>7, <2>10 DEF Inv
<1> QED
  BY <1>1, <1>8, <1>9

(* The adapter in hand is done with: its state row is final.               *)
LEMMA CloseMoves ==
    ASSUME Inv, NEW p \in Sessions, Close(p)
    PROVE  /\ Moves(p) /\ pc[p] = "close" /\ pc'[p] = LoopHead(mem'[p])
           /\ UNCHANGED fetched
           /\ mem'[p] \in Mems /\ mem'[p].closed = mem[p].closed + 1
           /\ mem'[p].plan = mem[p].plan /\ mem'[p].origin = mem[p].origin
           /\ mem'[p].contexts = mem[p].contexts /\ mem'[p].k = 1
<1> DEFINE m == [mem[p] EXCEPT !.closed = @ + 1, !.before = None, !.result = None, !.k = 1]
<1>1. /\ pc[p] = "close" /\ UNCHANGED fetched
      /\ mem' = [mem EXCEPT ![p] = m] /\ Goto(p, LoopHead(mem'[p]))
  BY DEF Close
<1>2. mem[p] \in Mems /\ mem[p].closed \in Nat
  BY OwnMem
<1>3. m \in Mems
  <2>1. None \in AnyCursor /\ mem[p].closed + 1 \in Nat /\ 1 \in Nat \ {0}
    BY <1>2 DEF AnyCursor
  <2> QED
    BY <1>2, <2>1 DEF Mems
<1>4. /\ m.closed = mem[p].closed + 1 /\ m.plan = mem[p].plan /\ m.origin = mem[p].origin
      /\ m.contexts = mem[p].contexts /\ m.k = 1
  BY <1>2 DEF Mems
<1>5. mem'[p] = m
  BY <1>1 DEF Inv, Typed
<1> HIDE DEF m
<1>6. mem[p].closed <= m.closed /\ LoopHead(m) \in Labels
  BY <1>2, <1>4 DEF LoopHead, Labels
<1>7. Goto(p, LoopHead(m))
  BY <1>1, <1>5 DEF Goto
<1>8. Moves(p) /\ pc'[p] = LoopHead(m)
  BY <1>1, <1>3, <1>6, <1>7, MemMoves
<1> QED
  BY <1>1, <1>3, <1>4, <1>5, <1>8

LEMMA CloseProcess ==
    ASSUME Inv, NEW p \in Sessions, Close(p), db'.runs[p] # None, db'.runs[p].status = "running",
           Len(db'.states[p]) = Len(db.states[p]),
           \A i \in 1 .. Len(db.states[p]) : db'.states[p][i].target = db.states[p][i].target
    PROVE  ProcessOK(p)'
<1>1. ProcessOK(p) /\ pc[p] = "close" /\ pc[p] \in Entered
  BY CloseMoves DEF Inv, Entered, WithResult, InBatch
<1> DEFINE m == mem'[p]
<1>2. /\ pc'[p] = LoopHead(m) /\ m \in Mems /\ m.closed = mem[p].closed + 1
      /\ m.plan = mem[p].plan /\ m.origin = mem[p].origin
      /\ m.contexts = mem[p].contexts /\ m.k = 1
  BY CloseMoves
<1>3. /\ Len(db'.states[p]) = m.closed /\ m.closed <= Len(m.plan) /\ m.closed \in Nat
      /\ \A i \in 1 .. Len(db'.states[p]) : db'.states[p][i].target = m.plan[i]
  BY <1>1, <1>2, OwnMem DEF ProcessOK, RowsOK
<1> HIDE DEF m
<1>4. /\ LoopHead(m) \in {"adapter", "finish"}
      /\ LoopHead(m) = "adapter" => m.closed < Len(m.plan)
      /\ LoopHead(m) = "finish" => Len(db'.states[p]) = Len(m.plan)
  BY <1>2, <1>3, NextAdapter
<1>5. RowsOK(p)'
  BY <1>2, <1>3, <1>4 DEF RowsOK, Before, Waits, Entered, WithResult, InBatch, m
<1>6. OriginOK(p)'
  BY <1>1, <1>2, <1>4 DEF ProcessOK, OriginOK, m
<1>7. ResultOK(p)'
  BY <1>2, <1>4 DEF ResultOK, ProgressOK, WithResult, InBatch, Ended, m
<1> QED
  BY <1>5, <1>6, <1>7 DEF ProcessOK
(* What Close commits: the batch, with checkpoint_after in the state row.  *)
ClosedImage(p) ==
    IF CheckpointAfter(mem[p]) = mem[p].before
    THEN View(p)
    ELSE [View(p) EXCEPT !.states[p][mem[p].closed + 1].after = CheckpointAfter(mem[p])]

LEMMA ClosedImageFacts ==
    ASSUME Inv, NEW p \in Sessions, pc[p] = "close"
    PROVE  /\ ClosedImage(p) \in Images
           /\ ClosedImage(p).runs = View(p).runs /\ ClosedImage(p).jobs = View(p).jobs
           /\ ClosedImage(p).checkpoints = View(p).checkpoints
           /\ \A q \in Sessions \ {p} : ClosedImage(p).states[q] = db.states[q]
           /\ Len(ClosedImage(p).states[p]) = Len(db.states[p])
           /\ \A n \in 1 .. mem[p].closed : ClosedImage(p).states[p][n] = db.states[p][n]
           /\ \A i \in 1 .. Len(db.states[p]) :
                 /\ ClosedImage(p).states[p][i].target = db.states[p][i].target
                 /\ ClosedImage(p).states[p][i].before = db.states[p][i].before
           /\ mem[p].closed + 1 \in 1 .. Len(db.states[p])
           /\ ClosedImage(p).states[p][mem[p].closed + 1].target = Target(p)
           /\ ClosedImage(p).states[p][mem[p].closed + 1].after = CheckpointAfter(mem[p])
<1> DEFINE n == mem[p].closed + 1
           after == CheckpointAfter(mem[p])
           rows == db.states[p]
<1>1. /\ View(p) \in Images /\ View(p).states = db.states
      /\ mem[p].result.next \in AnyCursor
  BY BatchFacts DEF WithResult, InBatch
<1>2. mem[p] \in Mems /\ mem[p].closed \in Nat /\ rows \in Seq(AnyState) /\ Len(rows) \in Nat
  BY OwnMem
<1>3. Len(rows) = n /\ rows[n].after = mem[p].before /\ rows[n].target = Target(p)
  <2>1. RowsOK(p) /\ pc[p] \in Entered
    BY DEF Inv, ProcessOK, Entered, WithResult, InBatch
  <2>2. Len(rows) = n /\ rows[n].after = mem[p].before
    BY <2>1 DEF RowsOK
  <2> QED
    BY <1>2, <2>1, <2>2 DEF RowsOK, Target
<1>4. after \in AnyCursor
  BY <1>1, <1>2 DEF CheckpointAfter, Mems
<1>5. CASE after = mem[p].before
  BY <1>1, <1>2, <1>3, <1>5, SMTT(60) DEF ClosedImage
<1>6. CASE after # mem[p].before
  <2> DEFINE row == [rows[n] EXCEPT !.after = after]
             new == [rows EXCEPT ![n] = row]
             image == [View(p) EXCEPT !.states[p] = new]
  <2>1. ClosedImage(p) = image
    BY <1>1, <1>6 DEF ClosedImage
  <2>2. n \in 1 .. Len(rows) /\ rows[n] \in AnyState
    BY <1>2, <1>3
  <2>3. row \in AnyState /\ row.after = after /\ row.target = rows[n].target
        /\ row.before = rows[n].before
    BY <1>4, <2>2 DEF AnyState
  <2> HIDE DEF row
  <2>4. /\ new \in Seq(AnyState) /\ Len(new) = Len(rows) /\ new[n] = row
        /\ \A i \in 1 .. Len(rows) : i # n => new[i] = rows[i]
    BY <1>2, <2>2, <2>3
  <2> HIDE DEF new
  <2>5. /\ image \in Images /\ image.runs = View(p).runs /\ image.jobs = View(p).jobs
        /\ image.checkpoints = View(p).checkpoints
        /\ \A q \in Sessions : image.states[q] = IF q = p THEN new ELSE db.states[q]
    BY <1>1, <2>4 DEF Images
  <2> HIDE DEF image
  <2>6. \A i \in 1 .. mem[p].closed : i \in 1 .. Len(rows) /\ i # n
    BY <1>2, <1>3
  <2> QED
    BY <1>3, <2>1, <2>2, <2>3, <2>4, <2>5, <2>6
<1> QED
  BY <1>5, <1>6

LEMMA CloseInv ==
    ASSUME Inv, NEW p \in Sessions, Close(p)
    PROVE  Inv'
<1> DEFINE after == CheckpointAfter(mem[p])
           image == ClosedImage(p)
           r == mem[p].result
<1>1. /\ Moves(p) /\ pc[p] = "close" /\ UNCHANGED fetched /\ pc[p] \in WithResult
      /\ mem'[p].closed = mem[p].closed + 1 /\ pc'[p] = LoopHead(mem'[p])
  BY CloseMoves DEF WithResult, InBatch
<1>2. /\ r.at \in 1 .. Len(fetched) /\ r.jobs \in Seq(JobIds)
      /\ Target(p) \in Targets
      /\ View(p).runs[p] # None /\ View(p).runs[p].status = "running"
      /\ mem[p].closed \in Nat
  BY <1>1, BatchFacts, OwnMem
<1>3. CASE after = mem[p].before /\ writer # p
  <2>1. UNCHANGED dbvars
    <3>1. Commit(p)
      BY <1>3 DEF Close
    <3> QED
      BY <1>3, <3>1 DEF Commit, View, dbvars
  <2>2. View(p) = db
    BY <1>3 DEF View
  <2>3. db.states[p] \in Seq(AnyState)
    BY OwnMem
  <2>4. ProcessOK(p)'
    BY <1>2, <2>1, <2>2, <2>3, CloseProcess DEF dbvars
  <2> QED
    BY <1>1, <1>3, <2>1, <2>4, QuietInv
<1>4. CASE ~(after = mem[p].before /\ writer # p)
  <2>1. WriteCommit(p, image)
    <3>1. CASE after = mem[p].before
      <4>1. Commit(p) /\ writer = p
        BY <1>4, <3>1 DEF Close
      <4>2. image = pending
        BY <3>1, <4>1 DEF ClosedImage, View
      <4> QED
        BY <4>1, <4>2 DEF Commit, View, WriteCommit, CanWrite
    <3>2. CASE after # mem[p].before
      BY <3>2 DEF Close, ClosedImage
    <3> QED
      BY <3>1, <3>2
  <2>2. db' = image /\ writer' = NoSession /\ NoSession \notin Sessions
    BY <2>1, NoSessionAssumption DEF WriteCommit
  <2>3. /\ image \in Images /\ image.runs = View(p).runs /\ image.jobs = View(p).jobs
        /\ image.checkpoints = View(p).checkpoints
        /\ \A q \in Sessions \ {p} : image.states[q] = db.states[q]
        /\ Len(image.states[p]) = Len(db.states[p])
        /\ \A n \in 1 .. mem[p].closed : image.states[p][n] = db.states[p][n]
        /\ \A i \in 1 .. Len(db.states[p]) : image.states[p][i].target = db.states[p][i].target
        /\ image.states[p][mem[p].closed + 1].target = Target(p)
        /\ image.states[p][mem[p].closed + 1].after = after
    BY <1>1, ClosedImageFacts
  <2> HIDE DEF image
  <2>4. Own(p, View(p), image)
    <3>1. View(p).states = db.states /\ Len(db.states[p]) \in Nat
      BY ViewFacts, OwnMem DEF Inv
    <3> QED
      BY <2>3, <3>1, GrowReflexive DEF Own
  <2>5. Typed' /\ BatchOK' /\ Stable(p)
    BY <1>1, <2>1, <2>3, <2>4, SaveFrame
  <2>6. ProcessOK(p)'
    BY <1>2, <2>2, <2>3, CloseProcess
  <2>7. \A q \in Sessions : ProcessOK(q)'
    BY <1>1, <2>5, <2>6, OthersOK
  <2>8. ASSUME NEW t \in Targets, db'.checkpoints[t] # None PROVE CoveredIn(db, t)'
    <3>1. View(p).checkpoints[t] = db'.checkpoints[t] /\ db'.jobs = View(p).jobs
      BY <2>2, <2>3
    <3>2. CASE CoveredIn(View(p), t)
      BY <1>1, <2>5, <3>1, <3>2, CoveredStays, GrowReflexive DEF CoveredIn
    <3>3. CASE InHand(p, t) /\ writer = p
      <4> DEFINE f == fetched[r.at]
                 n == mem[p].closed + 1
      <4>1. t = Target(p) /\ db'.checkpoints[t] = r.next
        BY <3>1, <3>3 DEF InHand, View
      <4>2. after = r.next
        BY <2>8, <4>1 DEF CheckpointAfter
      <4>3. /\ f.run = p /\ f.target = t /\ f.jobs = r.jobs /\ f.next = r.next
            /\ StoredIn(View(p).jobs, t, r.jobs, Len(r.jobs))
        BY <1>1, <4>1 DEF Inv, ProcessOK, ResultOK, ProgressOK
      <4>4. n \in 1 .. mem'[f.run].closed
        BY <1>1, <1>2, <4>3
      <4>5. db'.states[f.run][n].target = t /\ db'.states[f.run][n].after = r.next
        BY <2>2, <2>3, <4>1, <4>2, <4>3
      <4>6. StoredIn(db'.jobs, t, f.jobs, Len(f.jobs))
        BY <3>1, <4>3
      <4>7. fetched' = fetched
        BY <1>1
      <4> QED
        BY <1>2, <4>1, <4>3, <4>4, <4>5, <4>6, <4>7 DEF CoveredIn, Covered
    <3> QED
      BY <2>8, <3>1, <3>2, <3>3 DEF Inv, CoverOK, View
  <2>9. CoverOK'
    BY <2>2, <2>8 DEF CoverOK
  <2> QED
    BY <2>5, <2>7, <2>9 DEF Inv
<1> QED
  BY <1>3, <1>4

LEMMA FinishInv ==
    ASSUME Inv, NEW p \in Sessions, Finish(p)
    PROVE  Inv'
<1> DEFINE row == [status |-> StatusFor(mem[p]), seen |-> mem[p].seen,
                   created |-> mem[p].created, updated |-> mem[p].updated,
                   errors |-> mem[p].errors]
           image == [View(p) EXCEPT !.runs[p] = row]
<1>1. /\ pc[p] = "finish" /\ WriteCommit(p, image) /\ Goto(p, "done")
      /\ UNCHANGED mem /\ UNCHANGED fetched
  BY DEF Finish
<1>2. /\ mem[p] \in Mems /\ mem[p].closed \in Nat /\ mem = [mem EXCEPT ![p] = mem[p]]
      /\ Len(db.states[p]) \in Nat
  BY OwnMem
<1>3. row \in AnyRun
  <2>1. StatusFor(mem[p]) \in {"running", "success", "partial_success", "failed"}
    BY DEF StatusFor
  <2> QED
    BY <1>2, <2>1 DEF AnyRun, Mems
<1>4. View(p) \in Images /\ View(p).states = db.states
  BY <1>1, HandFacts
<1> HIDE DEF row
<1>5. /\ image \in Images /\ image.states = db.states /\ image.jobs = View(p).jobs
      /\ image.checkpoints = View(p).checkpoints
      /\ \A q \in Sessions : image.runs[q] = IF q = p THEN row ELSE View(p).runs[q]
  BY <1>3, <1>4 DEF Images
<1> HIDE DEF image
<1>6. Moves(p) /\ pc'[p] = "done" /\ mem'[p] = mem[p]
  <2>1. mem[p].closed <= mem[p].closed /\ "done" \in Labels
    BY <1>2 DEF Labels, Ended
  <2> QED
    BY <1>1, <1>2, <2>1, MemMoves
<1>7. Own(p, View(p), image)
  BY <1>2, <1>4, <1>5, GrowReflexive DEF Own
<1>8. db' = image
  BY <1>1 DEF WriteCommit
<1>9. ProcessOK(p)'
  <2>1. ProcessOK(p)
    BY DEF Inv
  <2>2. RowsOK(p)'
    BY <1>1, <1>5, <1>6, <1>8, <2>1
       DEF ProcessOK, RowsOK, Before, Waits, Entered, WithResult, InBatch
  <2>3. OriginOK(p)' /\ ResultOK(p)'
    BY <1>6 DEF OriginOK, ResultOK, ProgressOK, Waits, Entered, WithResult, InBatch, Ended
  <2> QED
    BY <2>2, <2>3 DEF ProcessOK
<1> QED
  BY <1>1, <1>5, <1>6, <1>7, <1>9, SaveInv
-----------------------------------------------------------------------------
(* The invariant                                                           *)

LEMMA InitInv == Init => Inv
<1> SUFFICES ASSUME Init PROVE Inv
  OBVIOUS
<1>1. NoTables \in Images
  <2>1. /\ [p \in Sessions |-> None] \in [Sessions -> AnyRun \cup {None}]
        /\ [p \in Sessions |-> <<>>] \in [Sessions -> Seq(AnyState)]
        /\ [t \in Targets |-> None] \in [Targets -> AnyCursor]
        /\ [k \in Keys |-> None] \in [Keys -> AnyJob \cup {None}]
    BY DEF AnyCursor
  <2> QED
    BY <2>1 DEF NoTables, Images
<1>2. Typed
  <2>1. mem \in [Sessions -> Mems]
    BY StartType DEF Init
  <2>2. pc \in [Sessions -> Labels]
    BY DEF Init, Labels
  <2>3. fetched \in Seq(AnyFetch)
    BY DEF Init
  <2> QED
    BY <1>1, <2>1, <2>2, <2>3 DEF Init, Typed
<1>3. BatchOK
  BY NoSessionAssumption, GrowReflexive DEF Init, BatchOK, NothingPending
<1>4. ASSUME NEW p \in Sessions PROVE ProcessOK(p)
  <2>1. pc[p] = "idle" /\ mem[p] = Start /\ db.states[p] = <<>> /\ db.runs[p] = None
    BY <1>4 DEF Init, NoTables
  <2>2. /\ mem[p].closed = 0 /\ mem[p].origin = None /\ mem[p].k = 1
        /\ mem[p].plan = <<>>
    BY <2>1 DEF Start
  <2>3. RowsOK(p)
    BY <2>1, <2>2 DEF RowsOK, Before, Waits, Entered, WithResult, InBatch
  <2>4. OriginOK(p) /\ ResultOK(p)
    BY <2>1, <2>2 DEF OriginOK, ResultOK, ProgressOK, WithResult, InBatch, Ended
  <2> QED
    BY <2>3, <2>4 DEF ProcessOK
<1>5. CoverOK
  BY NoSessionAssumption DEF Init, NoTables, CoverOK
<1> QED
  BY <1>2, <1>3, <1>4, <1>5 DEF Inv

LEMMA StepInv ==
    ASSUME Inv, NEW p \in Sessions, Step(p)
    PROVE  Inv'
<1>1. CASE ResumeContexts(p)  BY <1>1, ResumeContextsInv
<1>2. CASE CreateRun(p)  BY <1>2, CreateRunInv
<1>3. CASE ReadCheckpoint(p)  BY <1>3, ReadCheckpointInv
<1>4. CASE CreateState(p)  BY <1>4, CreateStateInv
<1>5. CASE FetchRaises(p)  BY <1>5, FetchRaisesInv
<1>6. CASE RecordFailure(p)  BY <1>6, RecordFailureInv
<1>7. CASE FetchReturns(p)  BY <1>7, FetchReturnsInv
<1>8. CASE RecordErrors(p)  BY <1>8, RecordErrorsInv
<1>9. CASE SelectJob(p)  BY <1>9, SelectJobInv
<1>10. CASE InsertJob(p)  BY <1>10, InsertJobInv
<1>11. CASE UpdateJob(p)  BY <1>11, UpdateJobInv
<1>12. CASE SelectCheckpoint(p)  BY <1>12, SelectCheckpointInv
<1>13. CASE FlushCheckpoint(p)  BY <1>13, FlushCheckpointInv
<1>14. CASE Close(p)  BY <1>14, CloseInv
<1>15. CASE Finish(p)  BY <1>15, FinishInv
<1>16. CASE UniqueViolation(p)
  <2>1. pc[p] \notin {"idle"} \cup Ended
    BY <1>16 DEF UniqueViolation, Conflict, Ended
  <2> QED
    BY <1>16, <2>1, AbandonInv DEF UniqueViolation
<1>17. CASE LockTimeout(p)
  <2>1. pc[p] \notin {"idle"} \cup Ended
    BY <1>17 DEF LockTimeout, WillWrite, Ended
  <2> QED
    BY <1>17, <2>1, AbandonInv DEF LockTimeout
<1> QED
  BY <1>1, <1>2, <1>3, <1>4, <1>5, <1>6, <1>7, <1>8, <1>9, <1>10, <1>11, <1>12, <1>13,
     <1>14, <1>15, <1>16, <1>17 DEF Step

LEMMA StutterInv == Inv /\ UNCHANGED vars => Inv'
<1> SUFFICES ASSUME Inv, UNCHANGED vars PROVE Inv'
  OBVIOUS
<1>1. /\ db' = db /\ pending' = pending /\ writer' = writer
      /\ pc' = pc /\ mem' = mem /\ fetched' = fetched
  BY DEF vars, dbvars
<1>2. Typed' /\ BatchOK'
  BY <1>1 DEF Inv, Typed, BatchOK, NothingPending
<1>3. ASSUME NEW p \in Sessions PROVE ProcessOK(p)'
  <2>1. ProcessOK(p)
    BY DEF Inv
  <2>2. View(p)' = View(p) /\ Target(p)' = Target(p) /\ Job(p)' = Job(p)
    BY <1>1 DEF View, Target, Job
  <2> QED
    BY <1>1, <2>1, <2>2 DEF ProcessOK, RowsOK, OriginOK, ResultOK, ProgressOK
<1>4. CoverOK'
  BY <1>1 DEF Inv, CoverOK, CoveredIn, Covered, InHand, Target
<1> QED
  BY <1>2, <1>3, <1>4 DEF Inv

LEMMA Invariance == Spec => []Inv
<1>1. Inv /\ [Next]_vars => Inv'
  <2> SUFFICES ASSUME Inv, [Next]_vars PROVE Inv'
    OBVIOUS
  <2>1. CASE UNCHANGED vars
    BY <2>1, StutterInv
  <2>2. CASE Next
    <3>1. PICK p \in Sessions : Crawl(p) \/ ResumeNames(p) \/ Step(p) \/ Crash(p)
      BY <2>2 DEF Next
    <3>2. CASE Crash(p)
      BY <3>2, AbandonInv DEF Crash
    <3> QED
      BY <3>1, <3>2, CrawlInv, ResumeNamesInv, StepInv
  <2> QED
    BY <2>1, <2>2
<1> QED
  BY <1>1, InitInv, PTL DEF Spec
-----------------------------------------------------------------------------
(* The theorems                                                            *)

(* No crawl holds the database while it awaits a source, starts, fails or  *)
(* has ended, however many there are and wherever they are killed.         *)
THEOREM BatchesHoldTheLock == Spec => []LockOnlyInsideBatch
<1>1. Inv => LockOnlyInsideBatch
  BY DEF Inv, BatchOK, LockOnlyInsideBatch
<1> QED
  BY <1>1, Invariance, PTL

(* Every selected adapter gets its state row, in order, and none is        *)
(* skipped by the failure of another.                                      *)
THEOREM AdaptersGetTheirRows == Spec => []StatesFollowPlan
<1>1. ASSUME Inv PROVE StatesFollowPlan
  <2> SUFFICES ASSUME NEW p \in Sessions
               PROVE  /\ Len(db.states[p]) <= Len(mem[p].plan)
                      /\ \A i \in DOMAIN db.states[p] :
                            db.states[p][i].target = mem[p].plan[i]
                      /\ Finished(p) => Len(db.states[p]) = Len(mem[p].plan)
    BY DEF StatesFollowPlan
  <2>1. RowsOK(p) /\ db.states[p] \in Seq(AnyState)
    BY <1>1, OwnMem DEF Inv, ProcessOK
  <2>2. Finished(p) => pc[p] = "done"
    BY <2>1 DEF RowsOK, Finished
  <2> QED
    BY <2>1, <2>2, SMTT(60) DEF RowsOK
<1> QED
  BY <1>1, Invariance, PTL

(* The cursor of a source never points past a job that is not in the       *)
(* table, and some run's record shows where it came from.                  *)
THEOREM CheckpointsFollowTheData == Spec => []CheckpointsAreCovered
<1>1. ASSUME Inv PROVE CheckpointsAreCovered
  <2> SUFFICES ASSUME NEW t \in Targets, db.checkpoints[t] # None
               PROVE  \E i \in DOMAIN fetched :
                         /\ fetched[i].target = t
                         /\ fetched[i].next = db.checkpoints[t]
                         /\ Stored(fetched[i])
                         /\ \E n \in DOMAIN db.states[fetched[i].run] :
                               /\ db.states[fetched[i].run][n].target = t
                               /\ db.states[fetched[i].run][n].after = db.checkpoints[t]
    BY DEF CheckpointsAreCovered
  <2>1. PICK i \in 1 .. Len(fetched) :
            /\ fetched[i].target = t
            /\ fetched[i].next = db.checkpoints[t]
            /\ StoredIn(db.jobs, t, fetched[i].jobs, Len(fetched[i].jobs))
            /\ \E n \in 1 .. mem[fetched[i].run].closed :
                  /\ db.states[fetched[i].run][n].target = t
                  /\ db.states[fetched[i].run][n].after = db.checkpoints[t]
    BY <1>1 DEF Inv, CoverOK, CoveredIn, Covered
  <2>2. fetched \in Seq(AnyFetch) /\ fetched[i] \in AnyFetch
    BY <1>1 DEF Inv, Typed
  <2>3. fetched[i].run \in Sessions /\ fetched[i].jobs \in Seq(JobIds)
    BY <2>2 DEF AnyFetch
  <2>4. Stored(fetched[i])
    BY <2>1, <2>3 DEF Stored, StoredIn
  <2>5. PICK n \in 1 .. mem[fetched[i].run].closed :
            /\ db.states[fetched[i].run][n].target = t
            /\ db.states[fetched[i].run][n].after = db.checkpoints[t]
    BY <2>1
  <2>6. n \in DOMAIN db.states[fetched[i].run]
    <3>1. /\ mem[fetched[i].run].closed \in Nat
          /\ db.states[fetched[i].run] \in Seq(AnyState)
          /\ mem[fetched[i].run].closed <= Len(db.states[fetched[i].run])
      BY <1>1, <2>3, OwnMem DEF Inv, ProcessOK, RowsOK
    <3> QED
      BY <2>5, <3>1
  <2>7. i \in DOMAIN fetched
    BY <2>2
  <2> QED
    BY <2>1, <2>4, <2>5, <2>6, <2>7
<1> QED
  BY <1>1, Invariance, PTL
-----------------------------------------------------------------------------
(* Success and resumes: a second invariant on top of Inv                   *)

(* A fetch of t by p has returned, and its jobs are committed.             *)
Delivered(p, t) ==
    \E i \in 1 .. Len(fetched) :
        LET f == fetched[i] IN
        /\ f.run = p
        /\ f.target = t
        /\ StoredIn(db.jobs, t, f.jobs, Len(f.jobs))

(* Without an error, every adapter the run is done with was delivered.     *)
CompleteOK(p) ==
    LET m == mem[p] IN
    /\ pc[p] \in {"finish", "done"} => m.closed = Len(m.plan)
    /\ m.errors = 0 /\ pc[p] \notin {"aborted", "killed"} =>
          \A i \in 1 .. m.closed : Delivered(p, m.plan[i])
    /\ db.runs[p] # None /\ db.runs[p].status = "success" => m.errors = 0

(* The cursors row i of run o records                                      *)
Recorded(o, i) == {db.states[o][i].before, db.states[o][i].after}

(* What a process has read of the run it resumes is still recorded there.  *)
ResumeOK(p) ==
    LET m == mem[p] IN
    /\ pc[p] \in Entered => db.states[p][m.closed + 1].before = m.before
    /\ m.origin # None =>
          /\ Len(m.plan) <= Len(db.states[m.origin])
          /\ \A i \in 1 .. Len(m.plan) : m.plan[i] = db.states[m.origin][i].target
          /\ pc[p] \in {"create"} \cup Waits \cup Entered =>
                \A i \in 1 .. Len(m.plan) : m.contexts[i] \in Recorded(m.origin, i)
          /\ pc[p] = "state" => m.before \in Recorded(m.origin, m.closed + 1)
          /\ \A i \in 1 .. Len(db.states[p]) :
                db.states[p][i].before \in Recorded(m.origin, i)

RunInv == \A p \in Sessions : CompleteOK(p) /\ ResumeOK(p)
-----------------------------------------------------------------------------
(* Rows stay where they are and keep their targets; a checkpoint_after is  *)
(* only ever set over one that repeats checkpoint_before.                  *)
RowsKept(old, new) ==
    /\ Len(old) <= Len(new)
    /\ \A i \in 1 .. Len(old) :
          /\ new[i].target = old[i].target
          /\ new[i].before = old[i].before
          /\ new[i].after = old[i].after \/ old[i].after = old[i].before

(* What a step of p leaves as it is                                        *)
Frame(p) ==
    /\ \A q \in Sessions \ {p} :
          /\ pc'[q] = pc[q] /\ mem'[q] = mem[q]
          /\ db'.runs[q] = db.runs[q] /\ db'.states[q] = db.states[q]
    /\ RowsKept(db.states[p], db'.states[p])
    /\ JobsGrow(db.jobs, db'.jobs)
    /\ Len(fetched) <= Len(fetched')
    /\ \A i \in 1 .. Len(fetched) : fetched'[i] = fetched[i]

LEMMA SeqFacts ==
    ASSUME Inv, NEW p \in Sessions
    PROVE  /\ db.states[p] \in Seq(AnyState) /\ Len(db.states[p]) \in Nat
           /\ RowsKept(db.states[p], db.states[p])
           /\ Len(fetched) \in Nat
           /\ mem[p] \in Mems /\ mem[p].closed \in Nat /\ mem[p].errors \in Nat
           /\ mem[p].plan \in Seq(Targets) /\ Len(mem[p].plan) \in Nat
           /\ mem[p].origin \in Sessions \cup {None}
<1>1. /\ db.states[p] \in Seq(AnyState) /\ fetched \in Seq(AnyFetch) /\ mem[p] \in Mems
  BY DEF Inv, Typed, Images
<1>2. /\ mem[p].closed \in Nat /\ mem[p].errors \in Nat /\ mem[p].plan \in Seq(Targets)
      /\ mem[p].origin \in Sessions \cup {None}
  BY <1>1 DEF Mems
<1>3. RowsKept(db.states[p], db.states[p])
  BY <1>1 DEF RowsKept
<1> QED
  BY <1>1, <1>2, <1>3

(* A step that moves only p, and commits nothing                           *)
LEMMA QuietFrame ==
    ASSUME Inv, NEW p \in Sessions, UNCHANGED db, UNCHANGED fetched,
           NEW label, Goto(p, label), NEW m, mem' = [mem EXCEPT ![p] = m]
    PROVE  Frame(p) /\ pc'[p] = label /\ mem'[p] = m
<1>1. pc'[p] = label /\ mem'[p] = m
      /\ \A q \in Sessions \ {p} : pc'[q] = pc[q] /\ mem'[q] = mem[q]
  BY DEF Inv, Typed, Goto
<1> QED
  BY <1>1, SeqFacts, GrowReflexive DEF Frame
LEMMA DeliveredStays ==
    ASSUME Inv, Inv', NEW p \in Sessions, Frame(p), NEW q \in Sessions, NEW t \in Targets,
           Delivered(q, t)
    PROVE  Delivered(q, t)'
<1>1. PICK i \in 1 .. Len(fetched) :
          /\ fetched[i].run = q /\ fetched[i].target = t
          /\ StoredIn(db.jobs, t, fetched[i].jobs, Len(fetched[i].jobs))
  BY DEF Delivered
<1>2. /\ fetched \in Seq(AnyFetch) /\ Len(fetched) \in Nat /\ fetched[i] \in AnyFetch
      /\ fetched' \in Seq(AnyFetch) /\ Len(fetched') \in Nat
  BY DEF Inv, Typed
<1>3. fetched[i].jobs \in Seq(JobIds) /\ Len(fetched[i].jobs) \in Nat
  BY <1>2 DEF AnyFetch
<1>4. i \in 1 .. Len(fetched') /\ fetched'[i] = fetched[i]
  BY <1>2 DEF Frame
<1>5. StoredIn(db'.jobs, t, fetched[i].jobs, Len(fetched[i].jobs))
  BY <1>1, <1>3, StoredGrows DEF Frame
<1> QED
  BY <1>1, <1>4, <1>5 DEF Delivered

LEMMA RecordedStays ==
    ASSUME Inv, NEW p \in Sessions, Frame(p), NEW o \in Sessions
    PROVE  /\ Len(db.states[o]) <= Len(db'.states[o])
           /\ \A i \in 1 .. Len(db.states[o]) :
                 /\ db'.states[o][i].target = db.states[o][i].target
                 /\ db'.states[o][i].before = db.states[o][i].before
                 /\ Recorded(o, i) \subseteq Recorded(o, i)'
<1>1. RowsKept(db.states[o], db'.states[o])
  BY SeqFacts DEF Frame
<1> QED
  BY <1>1 DEF RowsKept, Recorded

LEMMA OthersRun ==
    ASSUME Inv, Inv', RunInv, NEW p \in Sessions, Frame(p), NEW q \in Sessions, q # p
    PROVE  CompleteOK(q)' /\ ResumeOK(q)'
<1>1. /\ pc'[q] = pc[q] /\ mem'[q] = mem[q]
      /\ db'.runs[q] = db.runs[q] /\ db'.states[q] = db.states[q]
  BY DEF Frame
<1>2. CompleteOK(q) /\ ResumeOK(q) /\ RowsOK(q)
  BY DEF RunInv, Inv, ProcessOK
<1>3. /\ mem[q].plan \in Seq(Targets) /\ mem[q].closed \in Nat /\ Len(mem[q].plan) \in Nat
      /\ Len(db.states[q]) \in Nat /\ mem[q].origin \in Sessions \cup {None}
      /\ mem[q].closed <= Len(mem[q].plan) /\ Len(db.states[q]) <= Len(mem[q].plan)
  BY <1>2, SeqFacts DEF RowsOK
<1>4. CompleteOK(q)'
  <2>1. ASSUME NEW i \in 1 .. mem[q].closed, Delivered(q, mem[q].plan[i])
        PROVE  Delivered(q, mem[q].plan[i])'
    <3>1. mem[q].plan[i] \in Targets
      BY <1>3
    <3> DEFINE t == mem[q].plan[i]
    <3>2. \A u \in Targets : Delivered(q, u) => Delivered(q, u)'
      BY DeliveredStays
    <3> QED
      BY <1>1, <2>1, <3>1, <3>2 DEF Delivered
  <2> QED
    BY <1>1, <1>2, <2>1 DEF CompleteOK, Delivered
<1>5. ResumeOK(q)'
  <2>1. CASE mem[q].origin = None
    BY <1>1, <1>2, <2>1 DEF ResumeOK
  <2>2. CASE mem[q].origin # None
    <3>0. PICK o \in Sessions : o = mem[q].origin
      BY <1>3, <2>2
    <3>1. /\ Len(db.states[o]) \in Nat /\ Len(db'.states[o]) \in Nat
          /\ Len(db.states[o]) <= Len(db'.states[o])
          /\ \A i \in 1 .. Len(db.states[o]) :
                /\ db'.states[o][i].target = db.states[o][i].target
                /\ Recorded(o, i) \subseteq Recorded(o, i)'
      <4>1. db.states[o] \in Seq(AnyState) /\ db'.states[o] \in Seq(AnyState)
        BY DEF Inv, Typed, Images
      <4>2. Len(db.states[o]) \in Nat /\ Len(db'.states[o]) \in Nat
        BY <4>1
      <4> QED
        BY <4>2, RecordedStays
    <3>2. /\ Len(mem[q].plan) <= Len(db.states[o]) /\ Len(mem[q].plan) <= Len(db'.states[o])
          /\ \A i \in 1 .. Len(mem[q].plan) : i \in 1 .. Len(db.states[o])
      <4>1. Len(mem[q].plan) <= Len(db.states[o])
        BY <1>2, <2>2, <3>0 DEF ResumeOK
      <4> QED
        BY <1>3, <3>1, <4>1, SMTT(60)
    <3>3. pc[q] = "state" => mem[q].closed + 1 \in 1 .. Len(mem[q].plan)
      BY <1>2, <1>3 DEF RowsOK, Waits
    <3>4. \A i \in 1 .. Len(db.states[q]) : i \in 1 .. Len(mem[q].plan)
      BY <1>3
    <3>5. /\ pc[q] \in Entered => db.states[q][mem[q].closed + 1].before = mem[q].before
          /\ \A i \in 1 .. Len(mem[q].plan) : mem[q].plan[i] = db.states[o][i].target
          /\ pc[q] \in {"create"} \cup Waits \cup Entered =>
                \A i \in 1 .. Len(mem[q].plan) : mem[q].contexts[i] \in Recorded(o, i)
          /\ pc[q] = "state" => mem[q].before \in Recorded(o, mem[q].closed + 1)
          /\ \A i \in 1 .. Len(db.states[q]) : db.states[q][i].before \in Recorded(o, i)
      BY <1>2, <2>2, <3>0 DEF ResumeOK
    <3>6. /\ \A i \in 1 .. Len(mem[q].plan) : mem[q].plan[i] = db'.states[o][i].target
          /\ pc[q] \in {"create"} \cup Waits \cup Entered =>
                \A i \in 1 .. Len(mem[q].plan) : mem[q].contexts[i] \in Recorded(o, i)'
          /\ pc[q] = "state" => mem[q].before \in Recorded(o, mem[q].closed + 1)'
          /\ \A i \in 1 .. Len(db.states[q]) : db.states[q][i].before \in Recorded(o, i)'
      <4>1. \A i \in 1 .. Len(mem[q].plan) :
                /\ db'.states[o][i].target = db.states[o][i].target
                /\ \A c \in Recorded(o, i) : c \in Recorded(o, i)'
        BY <3>1, <3>2
      <4>2. \A i \in 1 .. Len(mem[q].plan) : mem[q].plan[i] = db'.states[o][i].target
        BY <3>5, <4>1
      <4>3. pc[q] \in {"create"} \cup Waits \cup Entered =>
                \A i \in 1 .. Len(mem[q].plan) : mem[q].contexts[i] \in Recorded(o, i)'
        BY <3>5, <4>1
      <4>4. pc[q] = "state" => mem[q].before \in Recorded(o, mem[q].closed + 1)'
        <5> SUFFICES ASSUME pc[q] = "state"
                     PROVE  mem[q].before \in Recorded(o, mem[q].closed + 1)'
          OBVIOUS
        <5>1. PICK n \in 1 .. Len(mem[q].plan) : n = mem[q].closed + 1
          BY <3>3
        <5>2. mem[q].before \in Recorded(o, n)
          BY <3>5, <5>1
        <5>3. mem[q].before \in Recorded(o, n)'
          BY <4>1, <5>2
        <5> QED
          BY <1>1, <5>1, <5>3 DEF Recorded
      <4>5. \A i \in 1 .. Len(db.states[q]) : db.states[q][i].before \in Recorded(o, i)'
        BY <3>4, <3>5, <4>1
      <4> QED
        BY <4>2, <4>3, <4>4, <4>5
    <3>7. /\ pc[q] \in Entered => db'.states[q][mem[q].closed + 1].before = mem[q].before
          /\ \A i \in 1 .. Len(db'.states[q]) : db'.states[q][i].before \in Recorded(o, i)'
      BY <1>1, <3>5, <3>6
    <3> QED
      BY <1>1, <3>0, <3>2, <3>6, <3>7 DEF ResumeOK, Recorded
  <2> QED
    BY <2>1, <2>2
<1> QED
  BY <1>4, <1>5

(* A step of p that stays with the adapter in hand                         *)
SameAdapter(m, n) ==
    /\ n.plan = m.plan /\ n.closed = m.closed /\ n.origin = m.origin
    /\ n.contexts = m.contexts /\ n.before = m.before

LEMMA HandRun ==
    ASSUME Inv, Inv', RunInv, NEW p \in Sessions, Frame(p), UNCHANGED db,
           pc[p] \in Entered, pc'[p] \in Entered, SameAdapter(mem[p], mem'[p]),
           mem'[p].errors = 0 => mem[p].errors = 0
    PROVE  RunInv'
<1>1. CompleteOK(p) /\ ResumeOK(p) /\ RowsOK(p)
  BY DEF RunInv, Inv, ProcessOK
<1>2. CompleteOK(p)'
  <2>1. ASSUME mem'[p].errors = 0, NEW i \in 1 .. mem[p].closed
        PROVE  Delivered(p, mem[p].plan[i])'
    <3>1. Delivered(p, mem[p].plan[i])
      BY <1>1, <2>1 DEF CompleteOK, Entered, WithResult, InBatch
    <3>2. mem[p].plan[i] \in Targets
      BY <1>1, SeqFacts DEF RowsOK
    <3>3. \A u \in Targets : Delivered(p, u) => Delivered(p, u)'
      BY DeliveredStays
    <3>4. mem'[p].plan = mem[p].plan
      BY DEF SameAdapter
    <3> QED
      BY <3>1, <3>2, <3>3, <3>4 DEF Delivered
  <2>2. db.runs[p].status # "success" \/ db.runs[p] = None
    BY <1>1 DEF RowsOK, Entered, WithResult, InBatch
  <2> QED
    BY <2>1, <2>2 DEF CompleteOK, Delivered, SameAdapter, Entered, WithResult, InBatch
<1>3. ResumeOK(p)'
  BY <1>1 DEF ResumeOK, Recorded, SameAdapter, Waits, Entered, WithResult, InBatch
<1> QED
  BY <1>2, <1>3, OthersRun DEF RunInv
LEMMA FetchRaisesRun ==
    ASSUME Inv, Inv', RunInv, NEW p \in Sessions, FetchRaises(p)
    PROVE  RunInv'
<1>1. pc[p] = "fetch" /\ Goto(p, "handler") /\ UNCHANGED db /\ UNCHANGED mem /\ UNCHANGED fetched
  BY DEF FetchRaises, dbvars
<1>2. mem' = [mem EXCEPT ![p] = mem[p]]
  BY <1>1 DEF Inv, Typed
<1>3. Frame(p) /\ pc'[p] = "handler" /\ mem'[p] = mem[p]
  BY <1>1, <1>2, QuietFrame
<1> QED
  BY <1>1, <1>3, HandRun DEF Entered, SameAdapter

LEMMA FetchReturnsRun ==
    ASSUME Inv, Inv', RunInv, NEW p \in Sessions, FetchReturns(p)
    PROVE  RunInv'
<1>0. PICK r \in Results(Target(p), Len(fetched) + 1) :
          \E f, result :
            /\ fetched' = Append(fetched, f)
            /\ mem' = [mem EXCEPT ![p].result = result]
            /\ Goto(p, IF r.errors > 0 THEN "errors" ELSE AfterErrors(r))
  BY DEF FetchReturns
<1>1. PICK f, result :
          /\ fetched' = Append(fetched, f)
          /\ mem' = [mem EXCEPT ![p].result = result]
          /\ Goto(p, IF r.errors > 0 THEN "errors" ELSE AfterErrors(r))
  BY <1>0
<1>2. pc[p] = "fetch" /\ UNCHANGED db
  BY DEF FetchReturns, dbvars
<1>3. pc'[p] \in Entered
  BY <1>1 DEF Inv, Typed, Goto, AfterErrors, AfterJobs, Entered, WithResult, InBatch
<1>4. SameAdapter(mem[p], mem'[p]) /\ mem'[p].errors = mem[p].errors
  <2>1. mem[p] \in Mems /\ mem'[p] = [mem[p] EXCEPT !.result = result]
    BY <1>1, SeqFacts DEF Inv, Typed
  <2> QED
    BY <2>1 DEF Mems, SameAdapter
<1>5. Frame(p)
  <2>1. /\ Len(fetched) <= Len(fetched')
        /\ \A i \in 1 .. Len(fetched) : fetched'[i] = fetched[i]
    <3>1. fetched \in Seq(AnyFetch)
      BY DEF Inv, Typed
    <3>2. fetched \in Seq(AnyFetch \cup {f}) /\ f \in AnyFetch \cup {f}
      BY <3>1
    <3> QED
      BY <1>1, <3>2
  <2>2. \A q \in Sessions \ {p} : pc'[q] = pc[q] /\ mem'[q] = mem[q]
    BY <1>1 DEF Inv, Typed, Goto
  <2> QED
    BY <1>2, <2>1, <2>2, SeqFacts, GrowReflexive DEF Frame
<1> QED
  BY <1>2, <1>3, <1>4, <1>5, HandRun DEF Entered

(* Its batch, until it commits                                             *)
LEMMA BatchRun ==
    ASSUME Inv, Inv', RunInv, NEW p \in Sessions, UNCHANGED db, UNCHANGED fetched,
           pc[p] \in Entered, NEW label \in Entered, Goto(p, label),
           NEW m, mem' = [mem EXCEPT ![p] = m], SameAdapter(mem[p], m),
           m.errors = 0 => mem[p].errors = 0
    PROVE  RunInv'
<1>1. Frame(p) /\ pc'[p] = label /\ mem'[p] = m
  BY QuietFrame
<1> QED
  BY <1>1, HandRun

LEMMA RecordErrorsRun ==
    ASSUME Inv, Inv', RunInv, NEW p \in Sessions, RecordErrors(p)
    PROVE  RunInv'
<1> DEFINE m == [mem[p] EXCEPT !.errors = @ + mem[p].result.errors]
           label == AfterErrors(mem[p].result)
<1>1. /\ pc[p] = "errors" /\ UNCHANGED db /\ UNCHANGED fetched
      /\ mem' = [mem EXCEPT ![p] = m] /\ Goto(p, label)
  BY DEF RecordErrors, Write
<1>2. pc[p] \in Entered /\ label \in Entered
  BY <1>1 DEF AfterErrors, AfterJobs, Entered, WithResult, InBatch
<1>3. /\ mem[p] \in Mems /\ mem[p].errors \in Nat /\ mem[p].result.errors \in Nat
  BY <1>1, SeqFacts, BatchFacts DEF WithResult
<1>4. SameAdapter(mem[p], m) /\ m.errors = mem[p].errors + mem[p].result.errors
  BY <1>3 DEF Mems, SameAdapter
<1>5. m.errors = 0 => mem[p].errors = 0
  BY <1>3, <1>4
<1> HIDE DEF m, label
<1> QED
  BY <1>1, <1>2, <1>4, <1>5, BatchRun

LEMMA SelectJobRun ==
    ASSUME Inv, Inv', RunInv, NEW p \in Sessions, SelectJob(p)
    PROVE  RunInv'
<1> DEFINE m == [mem[p] EXCEPT !.seen = @ + 1, !.loaded = View(p).jobs[Job(p)]]
<1>1. /\ pc[p] = "select" /\ UNCHANGED db /\ UNCHANGED fetched
      /\ mem' = [mem EXCEPT ![p] = m] /\ Goto(p, "flush")
  BY DEF SelectJob, dbvars
<1>2. SameAdapter(mem[p], m) /\ m.errors = mem[p].errors
  BY SeqFacts DEF Mems, SameAdapter
<1>3. pc[p] \in Entered /\ "flush" \in Entered
  BY <1>1 DEF Entered, WithResult, InBatch
<1> HIDE DEF m
<1> QED
  BY <1>1, <1>2, <1>3, BatchRun

LEMMA NextJobRun ==
    ASSUME Inv, Inv', RunInv, NEW p \in Sessions, pc[p] = "flush", UNCHANGED db, UNCHANGED fetched,
           NEW status \in {"created", "updated", "unchanged"}, NextJob(p, status)
    PROVE  RunInv'
<1> DEFINE tally == Tally(mem[p], status)
           m == [tally EXCEPT !.k = @ + 1, !.loaded = None]
           label == IF tally.k < Len(tally.result.jobs) THEN "select"
                                                         ELSE AfterJobs(tally.result)
<1>1. mem' = [mem EXCEPT ![p] = m] /\ Goto(p, label)
  BY DEF NextJob
<1>2. pc[p] \in Entered /\ label \in Entered
  BY DEF AfterJobs, Entered, WithResult, InBatch
<1>3. mem[p] \in Mems
  BY SeqFacts
<1>4. SameAdapter(mem[p], m) /\ m.errors = mem[p].errors
  <2>1. CASE status = "created"
    BY <1>3, <2>1 DEF Tally, Mems, SameAdapter
  <2>2. CASE status = "updated"
    BY <1>3, <2>2 DEF Tally, Mems, SameAdapter
  <2>3. CASE status = "unchanged"
    BY <1>3, <2>3 DEF Tally, Mems, SameAdapter
  <2> QED
    BY <2>1, <2>2, <2>3
<1> HIDE DEF m, label
<1> QED
  BY <1>1, <1>2, <1>4, BatchRun

LEMMA InsertJobRun ==
    ASSUME Inv, Inv', RunInv, NEW p \in Sessions, InsertJob(p)
    PROVE  RunInv'
  BY NextJobRun DEF InsertJob, JobFlushed, Write

LEMMA UpdateJobRun ==
    ASSUME Inv, Inv', RunInv, NEW p \in Sessions, UpdateJob(p)
    PROVE  RunInv'
<1> DEFINE status == IF Values(p, mem[p].loaded.born).hash # mem[p].loaded.hash
                     THEN "updated" ELSE "unchanged"
<1>1. /\ pc[p] = "flush" /\ UNCHANGED db /\ UNCHANGED fetched
      /\ NextJob(p, status)
  BY DEF UpdateJob, JobFlushed, Write
<1>2. status \in {"created", "updated", "unchanged"}
  OBVIOUS
<1> HIDE DEF status
<1> QED
  BY <1>1, <1>2, NextJobRun

LEMMA SelectCheckpointRun ==
    ASSUME Inv, Inv', RunInv, NEW p \in Sessions, SelectCheckpoint(p)
    PROVE  RunInv'
<1> DEFINE m == [mem[p] EXCEPT !.found = View(p).checkpoints[Target(p)]]
<1>1. /\ pc[p] = "cpselect" /\ UNCHANGED db /\ UNCHANGED fetched
      /\ mem' = [mem EXCEPT ![p] = m] /\ Goto(p, "cpflush")
  BY DEF SelectCheckpoint, dbvars
<1>2. SameAdapter(mem[p], m) /\ m.errors = mem[p].errors
  BY SeqFacts DEF Mems, SameAdapter
<1>3. pc[p] \in Entered /\ "cpflush" \in Entered
  BY <1>1 DEF Entered, WithResult, InBatch
<1> HIDE DEF m
<1> QED
  BY <1>1, <1>2, <1>3, BatchRun

LEMMA FlushCheckpointRun ==
    ASSUME Inv, Inv', RunInv, NEW p \in Sessions, FlushCheckpoint(p)
    PROVE  RunInv'
<1> DEFINE m == [mem[p] EXCEPT !.found = None]
<1>1. /\ pc[p] = "cpflush" /\ UNCHANGED db /\ UNCHANGED fetched
      /\ mem' = [mem EXCEPT ![p] = m] /\ Goto(p, "close")
  BY DEF FlushCheckpoint, CheckpointFlushed, Write, dbvars
<1>2. SameAdapter(mem[p], m) /\ m.errors = mem[p].errors
  BY SeqFacts DEF Mems, SameAdapter
<1>3. pc[p] \in Entered /\ "close" \in Entered
  BY <1>1 DEF Entered, WithResult, InBatch
<1> HIDE DEF m
<1> QED
  BY <1>1, <1>2, <1>3, BatchRun
-----------------------------------------------------------------------------
(* The steps that start a process, commit or end one                       *)

(* What p has read of run o survives its own step.                         *)
LEMMA OriginStays ==
    ASSUME Inv, Inv', RunInv, NEW p \in Sessions, Frame(p),
           NEW o \in Sessions, mem[p].origin = o
    PROVE  /\ Len(mem[p].plan) <= Len(db'.states[o])
           /\ \A i \in 1 .. Len(mem[p].plan) :
                 /\ mem[p].plan[i] = db'.states[o][i].target
                 /\ pc[p] \in {"create"} \cup Waits \cup Entered =>
                       mem[p].contexts[i] \in Recorded(o, i)'
           /\ \A i \in 1 .. Len(db.states[p]) : db.states[p][i].before \in Recorded(o, i)'
<1>1. ResumeOK(p) /\ RowsOK(p) /\ mem[p].origin # None
  BY NoneFacts DEF RunInv, Inv, ProcessOK
<1>2. Len(mem[p].plan) \in Nat /\ Len(db.states[p]) \in Nat /\ Len(db.states[p]) <= Len(mem[p].plan)
  BY <1>1, SeqFacts DEF RowsOK
<1>3. /\ Len(db.states[o]) \in Nat /\ Len(db'.states[o]) \in Nat
      /\ Len(db.states[o]) <= Len(db'.states[o])
      /\ \A i \in 1 .. Len(db.states[o]) :
            /\ db'.states[o][i].target = db.states[o][i].target
            /\ Recorded(o, i) \subseteq Recorded(o, i)'
  <2>1. db.states[o] \in Seq(AnyState) /\ db'.states[o] \in Seq(AnyState)
    BY DEF Inv, Typed, Images
  <2>2. Len(db.states[o]) \in Nat /\ Len(db'.states[o]) \in Nat
    BY <2>1
  <2> QED
    BY <2>2, RecordedStays
<1>4. /\ Len(mem[p].plan) <= Len(db.states[o])
      /\ \A i \in 1 .. Len(mem[p].plan) : mem[p].plan[i] = db.states[o][i].target
      /\ pc[p] \in {"create"} \cup Waits \cup Entered =>
            \A i \in 1 .. Len(mem[p].plan) : mem[p].contexts[i] \in Recorded(o, i)
      /\ \A i \in 1 .. Len(db.states[p]) : db.states[p][i].before \in Recorded(o, i)
  BY <1>1 DEF ResumeOK
<1>5. \A i \in 1 .. Len(mem[p].plan) : i \in 1 .. Len(db.states[o])
  BY <1>2, <1>3, <1>4
<1>6. \A i \in 1 .. Len(mem[p].plan) :
          /\ db'.states[o][i].target = db.states[o][i].target
          /\ \A c \in Recorded(o, i) : c \in Recorded(o, i)'
  BY <1>3, <1>5
<1>7. \A i \in 1 .. Len(db.states[p]) : i \in 1 .. Len(mem[p].plan)
  BY <1>2
<1>8. Len(mem[p].plan) <= Len(db'.states[o])
  BY <1>2, <1>3, <1>4
<1>9. \A i \in 1 .. Len(db.states[p]) : db.states[p][i].before \in Recorded(o, i)'
  BY <1>4, <1>6, <1>7
<1> QED
  BY <1>4, <1>6, <1>8, <1>9

(* What was delivered to p stays delivered.                                *)
LEMMA DeliveriesStay ==
    ASSUME Inv, Inv', RunInv, NEW p \in Sessions, Frame(p), mem[p].errors = 0,
           pc[p] \notin {"aborted", "killed"}
    PROVE  \A i \in 1 .. mem[p].closed : \E t \in Targets :
              t = mem[p].plan[i] /\ Delivered(p, t)'
<1> SUFFICES ASSUME NEW i \in 1 .. mem[p].closed
             PROVE  \E t \in Targets : t = mem[p].plan[i] /\ Delivered(p, t)'
  OBVIOUS
<1>1. mem[p].plan[i] \in Targets
  <2>1. RowsOK(p)
    BY DEF Inv, ProcessOK
  <2> QED
    BY <2>1, SeqFacts DEF RowsOK
<1>2. PICK t \in Targets : t = mem[p].plan[i]
  BY <1>1
<1>3. Delivered(p, t)
  BY <1>2 DEF RunInv, CompleteOK
<1>4. Delivered(p, t)'
  BY <1>3, DeliveredStays
<1> QED
  BY <1>2, <1>4

LEMMA AbandonRun ==
    ASSUME Inv, Inv', RunInv, NEW p \in Sessions, NEW label \in {"aborted", "killed"},
           Abandon(p, label)
    PROVE  RunInv'
<1> DEFINE m == [Start EXCEPT !.plan = mem[p].plan, !.origin = mem[p].origin,
                              !.closed = mem[p].closed]
<1>1. /\ UNCHANGED db /\ UNCHANGED fetched
      /\ mem' = [mem EXCEPT ![p] = m] /\ Goto(p, label)
  BY DEF Abandon, Rollback
<1>2. m.plan = mem[p].plan /\ m.origin = mem[p].origin
  BY DEF Start
<1> HIDE DEF m
<1>3. Frame(p) /\ pc'[p] = label /\ mem'[p] = m
  BY <1>1, QuietFrame
<1>4. CompleteOK(p)'
  <2>1. RowsOK(p)'
    BY DEF Inv, ProcessOK
  <2> QED
    BY <1>3, <2>1 DEF CompleteOK, RowsOK
<1>5. ResumeOK(p)'
  <2>1. ResumeOK(p)
    BY DEF RunInv
  <2>2. db' = db /\ mem'[p].plan = mem[p].plan /\ mem'[p].origin = mem[p].origin
    BY <1>1, <1>2, <1>3
  <2>3. pc'[p] \notin {"create", "state"} \cup Waits \cup Entered
    BY <1>3 DEF Waits, Entered, WithResult, InBatch
  <2>4. ASSUME mem[p].origin # None
        PROVE  /\ Len(mem[p].plan) <= Len(db.states[mem[p].origin])
               /\ \A i \in 1 .. Len(mem[p].plan) :
                     mem[p].plan[i] = db.states[mem[p].origin][i].target
               /\ \A i \in 1 .. Len(db.states[p]) :
                     db.states[p][i].before \in Recorded(mem[p].origin, i)
    BY <2>1, <2>4 DEF ResumeOK
  <2> QED
    BY <2>2, <2>3, <2>4 DEF ResumeOK, Recorded
<1> QED
  BY <1>3, <1>4, <1>5, OthersRun DEF RunInv

LEMMA CrawlRun ==
    ASSUME Inv, Inv', RunInv, NEW p \in Sessions, Crawl(p)
    PROVE  RunInv'
<1>1. PICK plan \in Plans : mem' = [mem EXCEPT ![p].plan = plan]
  BY DEF Crawl
<1> DEFINE m == [mem[p] EXCEPT !.plan = plan]
<1>2. /\ pc[p] = "idle" /\ Goto(p, "create") /\ UNCHANGED db /\ UNCHANGED fetched
      /\ mem' = [mem EXCEPT ![p] = m]
  BY <1>1 DEF Crawl, Free, dbvars
<1>3. mem[p].origin = None /\ mem[p].closed = 0
  <2>1. RowsOK(p) /\ OriginOK(p)
    BY DEF Inv, ProcessOK
  <2> QED
    BY <1>2, <2>1, SeqFacts DEF RowsOK, OriginOK, Before
<1>4. m.origin = None /\ m.closed = 0
  BY <1>3, SeqFacts DEF Mems
<1> HIDE DEF m
<1>5. Frame(p) /\ pc'[p] = "create" /\ mem'[p] = m
  BY <1>2, QuietFrame
<1>6. CompleteOK(p)'
  <2>1. RowsOK(p)'
    BY DEF Inv, ProcessOK
  <2> QED
    BY <1>4, <1>5, <2>1 DEF CompleteOK, RowsOK
<1>7. ResumeOK(p)'
  BY <1>4, <1>5 DEF ResumeOK, Entered, WithResult, InBatch
<1> QED
  BY <1>5, <1>6, <1>7, OthersRun DEF RunInv

LEMMA ResumeNamesRun ==
    ASSUME Inv, Inv', RunInv, NEW p \in Sessions, ResumeNames(p)
    PROVE  RunInv'
<1>1. PICK o \in Sessions :
          mem' = [mem EXCEPT ![p].origin = o,
                             ![p].plan = [i \in DOMAIN View(p).states[o] |->
                                             View(p).states[o][i].target]]
  BY DEF ResumeNames
<1> DEFINE rows == db.states[o]
           plan == [i \in DOMAIN rows |-> rows[i].target]
           m == [mem[p] EXCEPT !.origin = o, !.plan = plan]
<1>2. /\ pc[p] = "idle" /\ Goto(p, "context") /\ UNCHANGED db /\ UNCHANGED fetched
  BY DEF ResumeNames, Free, dbvars
<1>3. mem' = [mem EXCEPT ![p] = m]
  <2>1. View(p).states = db.states
    BY ViewFacts DEF Inv
  <2>2. mem' = [mem EXCEPT ![p].origin = o, ![p].plan = plan]
    BY <1>1, <2>1
  <2> QED
    BY <2>2
<1>4. mem[p].closed = 0 /\ db.states[p] = <<>>
  <2>1. RowsOK(p)
    BY DEF Inv, ProcessOK
  <2> QED
    BY <1>2, <2>1, SeqFacts DEF RowsOK, Before
<1>5. rows \in Seq(AnyState) /\ Len(rows) \in Nat
  BY SeqFacts
<1>6. Len(plan) = Len(rows) /\ \A i \in 1 .. Len(plan) : plan[i] = rows[i].target
  BY <1>5
<1>7. m.origin = o /\ m.closed = 0 /\ m.plan = plan
  BY <1>4, SeqFacts DEF Mems
<1> HIDE DEF m, plan
<1>8. Frame(p) /\ pc'[p] = "context" /\ mem'[p] = m
  BY <1>2, <1>3, QuietFrame
<1>9. CompleteOK(p)'
  <2>1. RowsOK(p)'
    BY DEF Inv, ProcessOK
  <2> QED
    BY <1>7, <1>8, <2>1 DEF CompleteOK, RowsOK
<1>10. ResumeOK(p)'
  BY <1>2, <1>4, <1>5, <1>6, <1>7, <1>8 DEF ResumeOK, Waits, Entered, WithResult, InBatch
<1> QED
  BY <1>8, <1>9, <1>10, OthersRun DEF RunInv

LEMMA ResumeContextsRun ==
    ASSUME Inv, Inv', RunInv, NEW p \in Sessions, ResumeContexts(p)
    PROVE  RunInv'
<1> DEFINE o == mem[p].origin
           contexts == [i \in DOMAIN mem[p].plan |-> ResumePoint(db.states[o][i])]
           m == [mem[p] EXCEPT !.contexts = contexts]
<1>1. /\ pc[p] = "context" /\ Goto(p, "create") /\ UNCHANGED db /\ UNCHANGED fetched
      /\ mem' = [mem EXCEPT ![p] = m]
  BY ViewFacts DEF ResumeContexts, dbvars, Inv
<1>2. /\ m.plan = mem[p].plan /\ m.closed = mem[p].closed /\ m.origin = o
      /\ m.contexts = contexts
  BY SeqFacts DEF Mems
<1>3. \A i \in 1 .. Len(mem[p].plan) : contexts[i] \in Recorded(o, i)
  BY SeqFacts DEF ResumePoint, Recorded
<1> HIDE DEF m, contexts
<1>4. Frame(p) /\ pc'[p] = "create" /\ mem'[p] = m
  BY <1>1, QuietFrame
<1>5. RowsOK(p) /\ RowsOK(p)' /\ ResumeOK(p)
  BY DEF Inv, ProcessOK, RunInv
<1>6. CompleteOK(p)'
  <2>1. mem[p].closed = 0
    BY <1>1, <1>5, SeqFacts DEF RowsOK, Before
  <2> QED
    BY <1>2, <1>4, <1>5, <2>1 DEF CompleteOK, RowsOK
<1>7. ResumeOK(p)'
  <2>1. \A r, i : Recorded(r, i)' = Recorded(r, i)
    BY <1>1 DEF Recorded
  <2>2. o # None /\ db'.states = db.states
    BY <1>1 DEF Inv, ProcessOK, OriginOK
  <2>3. /\ Len(mem[p].plan) <= Len(db.states[o])
        /\ \A i \in 1 .. Len(mem[p].plan) : mem[p].plan[i] = db.states[o][i].target
        /\ \A i \in 1 .. Len(db.states[p]) : db.states[p][i].before \in Recorded(o, i)
    BY <1>5, <2>2 DEF ResumeOK
  <2> HIDE DEF o
  <2>4. mem'[p].plan = mem[p].plan /\ mem'[p].contexts = contexts /\ mem'[p].origin = o
    BY <1>2, <1>4
  <2> QED
    BY <1>3, <1>4, <2>1, <2>2, <2>3, <2>4 DEF ResumeOK, Recorded, Entered, WithResult, InBatch
<1> QED
  BY <1>4, <1>6, <1>7, OthersRun DEF RunInv

LEMMA ReadCheckpointRun ==
    ASSUME Inv, Inv', RunInv, NEW p \in Sessions, ReadCheckpoint(p)
    PROVE  RunInv'
<1> DEFINE m == [mem[p] EXCEPT !.before = CheckpointFor(p)]
<1>1. /\ pc[p] = "adapter" /\ Goto(p, "state") /\ UNCHANGED db /\ UNCHANGED fetched
      /\ mem' = [mem EXCEPT ![p] = m]
  BY DEF ReadCheckpoint, dbvars
<1>2. /\ m.plan = mem[p].plan /\ m.closed = mem[p].closed /\ m.origin = mem[p].origin
      /\ m.contexts = mem[p].contexts /\ m.before = CheckpointFor(p)
      /\ m.errors = mem[p].errors
  BY SeqFacts DEF Mems
<1> HIDE DEF m
<1>3. Frame(p) /\ pc'[p] = "state" /\ mem'[p] = m
  BY <1>1, QuietFrame
<1>4. RowsOK(p) /\ RowsOK(p)' /\ ResumeOK(p)
  BY DEF Inv, ProcessOK, RunInv
<1>5. CompleteOK(p)'
  BY <1>1, <1>2, <1>3, <1>4, DeliveriesStay, SMTT(60) DEF CompleteOK, RowsOK, Delivered
<1>6. ResumeOK(p)'
  <2>1. mem[p].origin # None => CheckpointFor(p) \in Recorded(mem[p].origin, mem[p].closed + 1)
    <3>1. mem[p].closed + 1 \in 1 .. Len(mem[p].plan)
      BY <1>1, <1>4, SeqFacts DEF RowsOK, Waits
    <3> QED
      BY <1>1, <1>4, <3>1 DEF ResumeOK, CheckpointFor, Waits
  <2>2. mem[p].origin = None => ResumeOK(p)'
    BY <1>2, <1>3 DEF ResumeOK, Entered, WithResult, InBatch
  <2>3. ASSUME mem[p].origin # None PROVE ResumeOK(p)'
    <3> DEFINE o == mem[p].origin
    <3>1. /\ Len(mem[p].plan) <= Len(db.states[o])
          /\ \A i \in 1 .. Len(mem[p].plan) :
                /\ mem[p].plan[i] = db.states[o][i].target
                /\ mem[p].contexts[i] \in Recorded(o, i)
          /\ \A i \in 1 .. Len(db.states[p]) : db.states[p][i].before \in Recorded(o, i)
      BY <1>1, <1>4, <2>3 DEF ResumeOK, Waits
    <3>2. \A r, i : Recorded(r, i)' = Recorded(r, i)
      BY <1>1 DEF Recorded
    <3>3. m.before \in Recorded(o, m.closed + 1)
      BY <1>2, <2>1, <2>3
    <3> HIDE DEF o
    <3>4. /\ mem'[p].plan = mem[p].plan /\ mem'[p].contexts = mem[p].contexts
          /\ mem'[p].origin = o /\ mem'[p] = m /\ db'.states = db.states
      BY <1>1, <1>2, <1>3 DEF o
    <3> QED
      BY <1>3, <3>1, <3>2, <3>3, <3>4 DEF ResumeOK, Recorded, Entered, WithResult, InBatch
  <2> QED
    BY <2>2, <2>3
<1> QED
  BY <1>3, <1>5, <1>6, OthersRun DEF RunInv
LEMMA SavedFrame ==
    ASSUME Inv, NEW p \in Sessions, NEW image, db' = image, UNCHANGED fetched,
           JobsGrow(View(p).jobs, image.jobs),
           \A q \in Sessions \ {p} :
              image.runs[q] = View(p).runs[q] /\ image.states[q] = db.states[q],
           RowsKept(db.states[p], image.states[p]),
           NEW label, Goto(p, label), NEW m, mem' = [mem EXCEPT ![p] = m]
    PROVE  Frame(p) /\ pc'[p] = label /\ mem'[p] = m
<1>1. pc'[p] = label /\ mem'[p] = m
      /\ \A q \in Sessions \ {p} : pc'[q] = pc[q] /\ mem'[q] = mem[q]
  BY DEF Inv, Typed, Goto
<1>2. JobsGrow(db.jobs, db'.jobs) /\ \A q \in Sessions \ {p} : db'.runs[q] = db.runs[q]
  <2>1. JobsGrow(db.jobs, View(p).jobs) /\ \A q \in Sessions \ {p} : View(p).runs[q] = db.runs[q]
    BY ViewFacts DEF Inv
  <2> QED
    BY <2>1, GrowTransitive
<1> QED
  BY <1>1, <1>2, SeqFacts DEF Frame

(* p goes to where no adapter is in hand.                                  *)
LEMMA ResumeKept ==
    ASSUME Inv, Inv', RunInv, NEW p \in Sessions, Frame(p),
           mem'[p].plan = mem[p].plan, mem'[p].origin = mem[p].origin,
           Len(db'.states[p]) = Len(db.states[p]), pc'[p] \in {"adapter", "finish", "done"},
           pc'[p] = "adapter" =>
              pc[p] \in {"create"} \cup Waits \cup Entered /\ mem'[p].contexts = mem[p].contexts
    PROVE  ResumeOK(p)'
<1>1. CASE mem[p].origin = None
  BY <1>1 DEF ResumeOK, Entered, WithResult, InBatch
<1>2. CASE mem[p].origin # None
  <2>1. PICK o \in Sessions : mem[p].origin = o
    BY <1>2, SeqFacts
  <2>2. /\ Len(mem[p].plan) <= Len(db'.states[o])
        /\ \A i \in 1 .. Len(mem[p].plan) :
              /\ mem[p].plan[i] = db'.states[o][i].target
              /\ pc[p] \in {"create"} \cup Waits \cup Entered =>
                    mem[p].contexts[i] \in Recorded(o, i)'
        /\ \A i \in 1 .. Len(db.states[p]) : db.states[p][i].before \in Recorded(o, i)'
    BY <2>1, OriginStays
  <2>3. \A i \in 1 .. Len(db.states[p]) : db'.states[p][i].before = db.states[p][i].before
    BY RecordedStays
  <2>4. \A i \in 1 .. Len(db'.states[p]) : db'.states[p][i].before \in Recorded(o, i)'
    BY <2>2, <2>3
  <2>5. pc'[p] \in {"create"} \cup Waits \cup Entered =>
            \A i \in 1 .. Len(mem'[p].plan) : mem'[p].contexts[i] \in Recorded(o, i)'
    BY <2>2 DEF Waits, Entered, WithResult, InBatch
  <2> QED
    BY <2>1, <2>2, <2>4, <2>5 DEF ResumeOK, Recorded, Entered, WithResult, InBatch
<1> QED
  BY <1>1, <1>2

LEMMA CreateRunRun ==
    ASSUME Inv, Inv', RunInv, NEW p \in Sessions, CreateRun(p)
    PROVE  RunInv'
<1> DEFINE image == [View(p) EXCEPT !.runs[p] = NewRun]
<1>1. /\ pc[p] = "create" /\ Goto(p, LoopHead(mem[p])) /\ UNCHANGED mem /\ UNCHANGED fetched
      /\ db' = image
  BY DEF CreateRun, WriteCommit
<1>2. View(p) \in Images /\ View(p) = db
  BY <1>1, ViewFacts DEF Inv, InBatch
<1>3. /\ image.states = db.states /\ image.jobs = View(p).jobs
      /\ \A q \in Sessions \ {p} : image.runs[q] = View(p).runs[q]
  BY <1>2 DEF Images
<1> HIDE DEF image
<1>4. Frame(p) /\ pc'[p] = LoopHead(mem[p]) /\ mem'[p] = mem[p]
  <2>1. mem' = [mem EXCEPT ![p] = mem[p]] /\ RowsKept(db.states[p], image.states[p])
    BY <1>1, <1>3, SeqFacts DEF Inv, Typed
  <2> QED
    BY <1>1, <1>3, <2>1, SavedFrame, GrowReflexive
<1>5. RowsOK(p) /\ RowsOK(p)'
  BY DEF Inv, ProcessOK
<1>6. mem[p].closed = 0
  BY <1>1, <1>5, SeqFacts DEF RowsOK, Before
<1>7. CompleteOK(p)'
  <2>1. LoopHead(mem[p]) = "finish" => mem[p].closed = Len(mem[p].plan)
    BY <1>6, SeqFacts DEF LoopHead
  <2>2. LoopHead(mem[p]) \in {"adapter", "finish"}
    BY DEF LoopHead
  <2> QED
    BY <1>4, <1>5, <1>6, <2>1, <2>2 DEF CompleteOK, RowsOK
<1>8. ResumeOK(p)'
  <2>1. LoopHead(mem[p]) \in {"adapter", "finish"}
    BY DEF LoopHead
  <2> QED
    BY <1>1, <1>3, <1>4, <2>1, ResumeKept
<1> QED
  BY <1>4, <1>7, <1>8, OthersRun DEF RunInv

LEMMA RecordFailureRun ==
    ASSUME Inv, Inv', RunInv, NEW p \in Sessions, RecordFailure(p)
    PROVE  RunInv'
<1> DEFINE image == [View(p) EXCEPT !.runs[p].errors = mem[p].errors + 1]
           m == [mem[p] EXCEPT !.errors = @ + 1, !.closed = @ + 1, !.before = None]
<1>1. /\ pc[p] = "handler" /\ UNCHANGED fetched /\ db' = image
      /\ mem' = [mem EXCEPT ![p].errors = @ + 1, ![p].closed = @ + 1, ![p].before = None]
      /\ Goto(p, LoopHead(mem'[p]))
  BY DEF RecordFailure, AfterFailure, WriteCommit
<1>2. View(p) \in Images /\ View(p) = db
  BY <1>1, ViewFacts DEF Inv, InBatch
<1>3. /\ image.states = db.states /\ image.jobs = View(p).jobs
      /\ \A q \in Sessions \ {p} : image.runs[q] = View(p).runs[q]
  BY <1>2 DEF Images
<1>4. mem' = [mem EXCEPT ![p] = m] /\ mem'[p] = m
  BY <1>1 DEF Inv, Typed
<1>5. /\ m.plan = mem[p].plan /\ m.origin = mem[p].origin /\ m.contexts = mem[p].contexts
      /\ m.errors = mem[p].errors + 1
  BY SeqFacts DEF Mems
<1> HIDE DEF image, m
<1>6. Goto(p, LoopHead(m))
  BY <1>1, <1>4 DEF Goto
<1>7. Frame(p) /\ pc'[p] = LoopHead(m)
  <2>1. RowsKept(db.states[p], image.states[p])
    BY <1>3, SeqFacts
  <2>2. db' = image /\ UNCHANGED fetched
    BY <1>1
  <2> QED
    BY <1>3, <1>4, <1>6, <2>1, <2>2, SavedFrame, GrowReflexive
<1>8. RowsOK(p)' /\ m \in Mems
  BY <1>4 DEF Inv, ProcessOK, Typed
<1>9. CompleteOK(p)'
  <2>1. LoopHead(m) = "finish" => m.closed = Len(m.plan)
    <3>1. /\ m.closed \in Nat /\ Len(m.plan) \in Nat /\ m.closed <= Len(db'.states[p])
          /\ Len(db'.states[p]) <= Len(m.plan) /\ Len(db'.states[p]) \in Nat
      <4>1. db'.states[p] = db.states[p] /\ Len(db.states[p]) \in Nat
        BY <1>1, <1>3, SeqFacts
      <4>2. m.closed \in Nat /\ m.plan \in Seq(Targets)
        BY <1>8 DEF Mems
      <4> QED
        BY <1>4, <1>8, <4>1, <4>2 DEF RowsOK
    <3> QED
      BY <3>1 DEF LoopHead
  <2>2. LoopHead(m) \in {"adapter", "finish"} /\ m.errors # 0
    BY <1>5, SeqFacts DEF LoopHead
  <2> QED
    BY <1>4, <1>7, <1>8, <2>1, <2>2 DEF CompleteOK, RowsOK
<1>10. ResumeOK(p)'
  <2>1. LoopHead(m) \in {"adapter", "finish"} /\ pc[p] \in Entered
    BY <1>1 DEF LoopHead, Entered
  <2> QED
    BY <1>1, <1>3, <1>4, <1>5, <1>7, <2>1, ResumeKept
<1> QED
  BY <1>7, <1>9, <1>10, OthersRun DEF RunInv

LEMMA FinishRun ==
    ASSUME Inv, Inv', RunInv, NEW p \in Sessions, Finish(p)
    PROVE  RunInv'
<1> DEFINE row == [status |-> StatusFor(mem[p]), seen |-> mem[p].seen,
                   created |-> mem[p].created, updated |-> mem[p].updated,
                   errors |-> mem[p].errors]
           image == [View(p) EXCEPT !.runs[p] = row]
<1>1. /\ pc[p] = "finish" /\ db' = image /\ Goto(p, "done")
      /\ UNCHANGED mem /\ UNCHANGED fetched
  BY DEF Finish, WriteCommit
<1>2. View(p) \in Images /\ View(p).states = db.states
  BY <1>1, HandFacts
<1>3. row.status = "success" => mem[p].errors = 0
  BY SeqFacts DEF StatusFor
<1> HIDE DEF row
<1>4. /\ image.states = db.states /\ image.jobs = View(p).jobs /\ image.runs[p] = row
      /\ \A q \in Sessions \ {p} : image.runs[q] = View(p).runs[q]
  BY <1>2 DEF Images
<1> HIDE DEF image
<1>5. Frame(p) /\ pc'[p] = "done" /\ mem'[p] = mem[p]
  <2>1. mem' = [mem EXCEPT ![p] = mem[p]] /\ RowsKept(db.states[p], image.states[p])
    BY <1>1, <1>4, SeqFacts DEF Inv, Typed
  <2> QED
    BY <1>1, <1>4, <2>1, SavedFrame, GrowReflexive
<1>6. CompleteOK(p)'
  <2>1. CompleteOK(p)
    BY DEF RunInv
  <2>2. mem[p].errors = 0 => \A i \in 1 .. mem[p].closed : Delivered(p, mem[p].plan[i])'
    BY <1>1, <1>5, DeliveriesStay DEF Delivered
  <2> QED
    BY <1>1, <1>3, <1>4, <1>5, <2>1, <2>2 DEF CompleteOK, Delivered
<1>7. ResumeOK(p)'
  BY <1>1, <1>4, <1>5, ResumeKept
<1> QED
  BY <1>5, <1>6, <1>7, OthersRun DEF RunInv
LEMMA CreateStateRun ==
    ASSUME Inv, Inv', RunInv, NEW p \in Sessions, CreateState(p)
    PROVE  RunInv'
<1> DEFINE row == NewState(Target(p), mem[p].before)
           rows == db.states[p]
           new == Append(rows, row)
           image == [View(p) EXCEPT !.states[p] = Append(@, row)]
<1>1. /\ pc[p] = "state" /\ Goto(p, "fetch") /\ UNCHANGED mem /\ UNCHANGED fetched
      /\ db' = image
  BY DEF CreateState, StateSaved, WriteCommit
<1>2. View(p) \in Images /\ View(p) = db
  BY <1>1, ViewFacts DEF Inv, InBatch
<1>3. RowsOK(p) /\ RowsOK(p)' /\ ResumeOK(p)
  BY DEF Inv, ProcessOK, RunInv
<1>4. /\ rows \in Seq(AnyState) /\ Len(rows) = mem[p].closed /\ mem[p].closed \in Nat
      /\ mem[p].closed + 1 \in 1 .. Len(mem[p].plan)
  BY <1>1, <1>3, SeqFacts, SMTT(60) DEF RowsOK, Waits
<1>5. row \in AnyState /\ row.before = mem[p].before
  <2>1. Target(p) \in Targets
    BY <1>1, HandFacts DEF Waits
  <2> QED
    BY <2>1, SeqFacts DEF NewState, AnyState, Mems
<1> HIDE DEF row
<1>6. /\ Len(new) = mem[p].closed + 1 /\ new[mem[p].closed + 1] = row
      /\ \A i \in 1 .. mem[p].closed : new[i] = rows[i]
  BY <1>4, <1>5
<1>7. /\ image.jobs = View(p).jobs /\ image.runs = View(p).runs /\ image.states[p] = new
      /\ \A q \in Sessions \ {p} : image.states[q] = db.states[q]
  BY <1>2 DEF Images
<1> HIDE DEF image, new
<1>8. Frame(p) /\ pc'[p] = "fetch" /\ mem'[p] = mem[p]
  <2>1. RowsKept(db.states[p], image.states[p])
    <3>1. RowsKept(rows, new)
      BY <1>4, <1>6, SMTT(60) DEF RowsKept
    <3> QED
      BY <1>7, <3>1
  <2>2. mem' = [mem EXCEPT ![p] = mem[p]]
    BY <1>1 DEF Inv, Typed
  <2>3. JobsGrow(View(p).jobs, image.jobs)
    BY <1>7, GrowReflexive
  <2>4. \A q \in Sessions \ {p} :
            image.runs[q] = View(p).runs[q] /\ image.states[q] = db.states[q]
    BY <1>7
  <2>5. db' = image /\ UNCHANGED fetched /\ Goto(p, "fetch")
    BY <1>1
  <2> DEFINE m == mem[p]
  <2>6. mem' = [mem EXCEPT ![p] = m]
    BY <2>2
  <2> HIDE DEF m
  <2>7. Frame(p) /\ pc'[p] = "fetch" /\ mem'[p] = m
    BY <2>1, <2>3, <2>4, <2>5, <2>6, SavedFrame, ZenonT(60)
  <2> QED
    BY <2>7 DEF m
<1>9. CompleteOK(p)'
  BY <1>1, <1>3, <1>8, DeliveriesStay, SMTT(60) DEF CompleteOK, RowsOK, Delivered
<1>10. ResumeOK(p)'
  <2>1. db'.states[p] = new
    BY <1>1, <1>7
  <2>2. pc'[p] \in Entered => db'.states[p][mem'[p].closed + 1].before = mem'[p].before
    BY <1>5, <1>6, <1>8, <2>1
  <2>3. CASE mem[p].origin = None
    BY <1>8, <2>2, <2>3 DEF ResumeOK
  <2>4. CASE mem[p].origin # None
    <3>1. PICK o \in Sessions : mem[p].origin = o
      BY <2>4, SeqFacts
    <3>2. /\ Len(mem[p].plan) <= Len(db'.states[o])
          /\ \A i \in 1 .. Len(mem[p].plan) :
                mem[p].plan[i] = db'.states[o][i].target /\ mem[p].contexts[i] \in Recorded(o, i)'
          /\ \A i \in 1 .. Len(rows) : rows[i].before \in Recorded(o, i)'
      BY <1>1, <1>8, <3>1, OriginStays DEF Waits
    <3>3. mem[p].before \in Recorded(o, mem[p].closed + 1)'
      <4>1. PICK n \in 1 .. Len(mem[p].plan) : n = mem[p].closed + 1
        BY <1>4
      <4>2. mem[p].before \in Recorded(o, n)
        BY <1>1, <1>3, <2>4, <3>1, <4>1 DEF ResumeOK
      <4>3. n \in 1 .. Len(db.states[o])
        <5>1. Len(mem[p].plan) <= Len(db.states[o])
          BY <1>3, <2>4, <3>1 DEF ResumeOK
        <5> QED
          BY <4>1, <5>1, SeqFacts, SMTT(60)
      <4>4. mem[p].before \in Recorded(o, n)'
        BY <1>8, <4>2, <4>3, RecordedStays
      <4> QED
        BY <1>8, <4>1, <4>4 DEF Recorded
    <3>4. \A i \in 1 .. Len(new) : new[i].before \in Recorded(o, i)'
      <4> SUFFICES ASSUME NEW i \in 1 .. Len(new) PROVE new[i].before \in Recorded(o, i)'
        OBVIOUS
      <4>1. CASE i = mem[p].closed + 1
        BY <1>5, <1>6, <1>8, <3>3, <4>1 DEF Recorded
      <4>2. CASE i # mem[p].closed + 1
        <5>1. i \in 1 .. mem[p].closed
          BY <1>4, <1>6, <4>2
        <5> QED
          BY <1>4, <1>6, <3>2, <5>1
      <4> QED
        BY <4>1, <4>2
    <3> QED
      BY <1>8, <2>1, <2>2, <2>4, <3>1, <3>2, <3>4 DEF ResumeOK, Recorded
  <2> QED
    BY <2>3, <2>4
<1> QED
  BY <1>8, <1>9, <1>10, OthersRun DEF RunInv

LEMMA CloseFrame ==
    ASSUME Inv, RunInv, NEW p \in Sessions, Close(p)
    PROVE  Frame(p)
<1> DEFINE image == ClosedImage(p)
           n == mem[p].closed + 1
           m == mem'[p]
           label == LoopHead(m)
<1>1. /\ pc[p] = "close" /\ Goto(p, label) /\ UNCHANGED fetched
      /\ mem' = [mem EXCEPT ![p] = m] /\ db' = image
  BY DEF Close, Commit, WriteCommit, ClosedImage, Inv, Typed
<1>2. RowsOK(p) /\ ResumeOK(p) /\ pc[p] \in Entered
  BY <1>1 DEF Inv, ProcessOK, RunInv, Entered, WithResult, InBatch
<1>3. /\ image.runs = View(p).runs /\ image.jobs = View(p).jobs
      /\ \A q \in Sessions \ {p} : image.states[q] = db.states[q]
      /\ Len(image.states[p]) = Len(db.states[p])
      /\ \A i \in 1 .. mem[p].closed : image.states[p][i] = db.states[p][i]
      /\ \A i \in 1 .. Len(db.states[p]) :
            /\ image.states[p][i].target = db.states[p][i].target
            /\ image.states[p][i].before = db.states[p][i].before
  BY <1>1, ClosedImageFacts
<1> HIDE DEF image
<1>4. RowsKept(db.states[p], image.states[p])
  <2>1. /\ Len(db.states[p]) = n /\ mem[p].closed \in Nat
        /\ db.states[p][n].after = mem[p].before /\ db.states[p][n].before = mem[p].before
    BY <1>2, SeqFacts DEF RowsOK, ResumeOK
  <2>2. \A i \in 1 .. Len(db.states[p]) : i \in 1 .. mem[p].closed \/ i = n
    BY <2>1
  <2>3. \A i \in 1 .. Len(db.states[p]) :
            image.states[p][i].after = db.states[p][i].after
              \/ db.states[p][i].after = db.states[p][i].before
    BY <1>3, <2>1, <2>2
  <2>4. Len(db.states[p]) <= Len(image.states[p])
    BY <1>3, SeqFacts
  <2> QED
    BY <1>3, <2>3, <2>4 DEF RowsKept
<1>5. JobsGrow(View(p).jobs, image.jobs)
  BY <1>3, GrowReflexive
<1>6. \A q \in Sessions \ {p} :
          image.runs[q] = View(p).runs[q] /\ image.states[q] = db.states[q]
  BY <1>3
<1> HIDE DEF m, label
<1> QED
  BY <1>1, <1>4, <1>5, <1>6, SavedFrame

LEMMA CloseRun ==
    ASSUME Inv, Inv', RunInv, NEW p \in Sessions, Close(p)
    PROVE  RunInv'
<1> DEFINE image == ClosedImage(p)
           r == mem[p].result
           n == mem[p].closed + 1
<1>1. db' = image
  BY DEF Close, Commit, WriteCommit, ClosedImage
<1>2. /\ pc[p] = "close" /\ pc'[p] = LoopHead(mem'[p]) /\ UNCHANGED fetched
      /\ Goto(p, LoopHead(mem'[p]))
      /\ mem'[p] \in Mems /\ mem'[p].closed = n /\ mem'[p].plan = mem[p].plan
      /\ mem'[p].origin = mem[p].origin /\ mem'[p].contexts = mem[p].contexts
      /\ mem' = [mem EXCEPT ![p] = mem'[p]]
  <2>1. Goto(p, LoopHead(mem'[p])) /\ mem' = [mem EXCEPT ![p] = mem'[p]]
    BY DEF Close, Inv, Typed
  <2> QED
    BY <2>1, CloseMoves
<1>3. mem'[p].errors = mem[p].errors
  <2>1. mem' = [mem EXCEPT ![p].closed = @ + 1, ![p].before = None,
                           ![p].result = None, ![p].k = 1]
    BY DEF Close
  <2> QED
    BY <2>1, SeqFacts DEF Inv, Typed, Mems
<1>4. RowsOK(p) /\ RowsOK(p)' /\ ResumeOK(p) /\ CompleteOK(p) /\ pc[p] \in Entered
  BY <1>2 DEF Inv, ProcessOK, RunInv, Entered, WithResult, InBatch
<1>5. /\ image.runs = View(p).runs /\ image.jobs = View(p).jobs
      /\ \A q \in Sessions \ {p} : image.states[q] = db.states[q]
      /\ Len(image.states[p]) = Len(db.states[p])
      /\ \A i \in 1 .. mem[p].closed : image.states[p][i] = db.states[p][i]
      /\ \A i \in 1 .. Len(db.states[p]) :
            /\ image.states[p][i].target = db.states[p][i].target
            /\ image.states[p][i].before = db.states[p][i].before
  BY <1>2, ClosedImageFacts
<1> HIDE DEF image
<1>7. Frame(p)
  BY CloseFrame
<1>8. PICK t \in Targets : t = mem[p].plan[n] /\ Delivered(p, t)'
  <2>1. Target(p) \in Targets /\ Target(p) = mem[p].plan[n] /\ r.at \in 1 .. Len(fetched)
    BY <1>2, BatchFacts DEF WithResult, InBatch, Target
  <2>2. PICK t \in Targets : t = Target(p)
    BY <2>1
  <2>3. /\ fetched[r.at].run = p /\ fetched[r.at].target = t /\ fetched[r.at].jobs = r.jobs
        /\ StoredIn(View(p).jobs, t, r.jobs, Len(r.jobs))
    BY <1>2, <2>2 DEF Inv, ProcessOK, ResultOK, ProgressOK, WithResult, InBatch
  <2>4. StoredIn(db'.jobs, t, r.jobs, Len(r.jobs)) /\ fetched' = fetched
    BY <1>1, <1>2, <1>5, <2>3
  <2>5. Delivered(p, t)'
    BY <2>1, <2>3, <2>4 DEF Delivered
  <2> QED
    BY <2>1, <2>2, <2>5
<1>9. CompleteOK(p)'
  <2>1. pc'[p] = "finish" => mem'[p].closed = Len(mem'[p].plan)
    <3>1. /\ mem'[p].closed \in Nat /\ Len(mem'[p].plan) \in Nat
          /\ mem'[p].closed <= Len(db'.states[p])
          /\ Len(db'.states[p]) <= Len(mem'[p].plan) /\ Len(db'.states[p]) \in Nat
      <4>1. mem'[p].closed \in Nat /\ mem'[p].plan \in Seq(Targets)
        BY <1>2 DEF Mems
      <4>2. Len(db'.states[p]) \in Nat
        BY <1>1, <1>5, SeqFacts
      <4> QED
        BY <1>4, <4>1, <4>2 DEF RowsOK
    <3> QED
      BY <1>2, <3>1 DEF LoopHead
  <2>2. pc'[p] \in {"adapter", "finish"}
    BY <1>2 DEF LoopHead
  <2>3. ASSUME mem'[p].errors = 0, NEW i \in 1 .. mem'[p].closed
        PROVE  Delivered(p, mem[p].plan[i])'
    <3>1. CASE i = n
      BY <1>2, <1>8, <3>1 DEF Delivered
    <3>2. CASE i # n
      <4>1. i \in 1 .. mem[p].closed
        BY <1>2, <3>2, SeqFacts
      <4>2. PICK u \in Targets : u = mem[p].plan[i] /\ Delivered(p, u)'
        BY <1>2, <1>3, <1>7, <2>3, <4>1, DeliveriesStay
      <4> QED
        BY <1>2, <4>2 DEF Delivered
    <3> QED
      BY <3>1, <3>2
  <2> QED
    BY <1>4, <2>1, <2>2, <2>3 DEF CompleteOK, RowsOK, Delivered
<1>10. ResumeOK(p)'
  <2>1. pc'[p] \in {"adapter", "finish"}
    BY <1>2 DEF LoopHead
  <2> QED
    BY <1>1, <1>2, <1>4, <1>5, <1>7, <2>1, ResumeKept
<1> QED
  BY <1>7, <1>9, <1>10, OthersRun DEF RunInv
-----------------------------------------------------------------------------
(* The second invariant                                                    *)

LEMMA InitRun == Init => RunInv
<1> SUFFICES ASSUME Init, NEW p \in Sessions PROVE CompleteOK(p) /\ ResumeOK(p)
  BY DEF RunInv
<1>1. pc[p] = "idle" /\ mem[p] = Start /\ db.states[p] = <<>> /\ db.runs[p] = None
  BY DEF Init, NoTables
<1>2. mem[p].closed = 0 /\ mem[p].origin = None /\ mem[p].errors = 0
  BY <1>1 DEF Start
<1> QED
  BY <1>1, <1>2 DEF CompleteOK, ResumeOK, Entered, WithResult, InBatch

LEMMA StepRun ==
    ASSUME Inv, Inv', RunInv, NEW p \in Sessions, Step(p)
    PROVE  RunInv'
<1>1. CASE ResumeContexts(p)  BY <1>1, ResumeContextsRun
<1>2. CASE CreateRun(p)  BY <1>2, CreateRunRun
<1>3. CASE ReadCheckpoint(p)  BY <1>3, ReadCheckpointRun
<1>4. CASE CreateState(p)  BY <1>4, CreateStateRun
<1>5. CASE FetchRaises(p)  BY <1>5, FetchRaisesRun
<1>6. CASE RecordFailure(p)  BY <1>6, RecordFailureRun
<1>7. CASE FetchReturns(p)  BY <1>7, FetchReturnsRun
<1>8. CASE RecordErrors(p)  BY <1>8, RecordErrorsRun
<1>9. CASE SelectJob(p)  BY <1>9, SelectJobRun
<1>10. CASE InsertJob(p)  BY <1>10, InsertJobRun
<1>11. CASE UpdateJob(p)  BY <1>11, UpdateJobRun
<1>12. CASE SelectCheckpoint(p)  BY <1>12, SelectCheckpointRun
<1>13. CASE FlushCheckpoint(p)  BY <1>13, FlushCheckpointRun
<1>14. CASE Close(p)  BY <1>14, CloseRun
<1>15. CASE Finish(p)  BY <1>15, FinishRun
<1>16. CASE UniqueViolation(p) \/ LockTimeout(p)
  BY <1>16, AbandonRun DEF UniqueViolation, LockTimeout
<1> QED
  BY <1>1, <1>2, <1>3, <1>4, <1>5, <1>6, <1>7, <1>8, <1>9, <1>10, <1>11, <1>12, <1>13,
     <1>14, <1>15, <1>16 DEF Step

LEMMA RunInvariance == Spec => []RunInv
<1>1. Inv /\ Inv' /\ RunInv /\ [Next]_vars => RunInv'
  <2> SUFFICES ASSUME Inv, Inv', RunInv, [Next]_vars PROVE RunInv'
    OBVIOUS
  <2>1. CASE UNCHANGED vars
    <3>1. db' = db /\ pc' = pc /\ mem' = mem /\ fetched' = fetched
      BY <2>1 DEF vars, dbvars
    <3> QED
      BY <3>1, ZenonT(60) DEF RunInv, CompleteOK, ResumeOK, Recorded, Delivered
  <2>2. CASE Next
    <3>1. PICK p \in Sessions : Crawl(p) \/ ResumeNames(p) \/ Step(p) \/ Crash(p)
      BY <2>2 DEF Next
    <3>2. CASE Crash(p)
      BY <3>2, AbandonRun DEF Crash
    <3> QED
      BY <3>1, <3>2, CrawlRun, ResumeNamesRun, StepRun
  <2> QED
    BY <2>1, <2>2
<1> QED
  BY <1>1, InitRun, Invariance, PTL DEF Spec
-----------------------------------------------------------------------------
(* The theorems                                                            *)

(* A run that reports success has every job of every selected adapter in   *)
(* the table.                                                              *)
THEOREM SuccessMeansDelivered == Spec => []SuccessIsComplete
<1>1. ASSUME Inv, RunInv PROVE SuccessIsComplete
  <2> SUFFICES ASSUME NEW p \in Sessions, Finished(p), db.runs[p].status = "success",
                      NEW n \in DOMAIN mem[p].plan
               PROVE  \E i \in DOMAIN fetched :
                         /\ fetched[i].run = p /\ fetched[i].target = mem[p].plan[n]
                         /\ Stored(fetched[i])
    BY DEF SuccessIsComplete
  <2>1. CompleteOK(p) /\ RowsOK(p)
    BY <1>1 DEF RunInv, Inv, ProcessOK
  <2>2. pc[p] = "done" /\ mem[p].errors = 0 /\ mem[p].closed = Len(mem[p].plan)
    BY <2>1 DEF RowsOK, CompleteOK, Finished
  <2>3. Delivered(p, mem[p].plan[n])
    BY <1>1, <2>1, <2>2, SeqFacts DEF CompleteOK
  <2>4. PICK i \in 1 .. Len(fetched) :
            /\ fetched[i].run = p /\ fetched[i].target = mem[p].plan[n]
            /\ StoredIn(db.jobs, mem[p].plan[n], fetched[i].jobs, Len(fetched[i].jobs))
    BY <2>3 DEF Delivered
  <2>5. fetched \in Seq(AnyFetch) /\ fetched[i] \in AnyFetch
    BY <1>1 DEF Inv, Typed
  <2>6. fetched[i].jobs \in Seq(JobIds)
    BY <2>5 DEF AnyFetch
  <2>7. Stored(fetched[i]) /\ i \in DOMAIN fetched
    BY <2>4, <2>5, <2>6 DEF Stored, StoredIn
  <2> QED
    BY <2>4, <2>7
<1> QED
  BY <1>1, Invariance, RunInvariance, PTL

(* A resumed run follows the record of the run it resumes, not whatever    *)
(* checkpoint of the source is the newest.                                 *)
THEOREM ResumesFollowTheRecord == Spec => []ResumeUsesRecordedState
<1>1. ASSUME Inv, RunInv PROVE ResumeUsesRecordedState
  <2> SUFFICES ASSUME NEW p \in Sessions, mem[p].origin # None,
                      NEW i \in DOMAIN db.states[p]
               PROVE  LET from == db.states[mem[p].origin][i] IN
                      /\ db.states[p][i].target = from.target
                      /\ db.states[p][i].before \in {from.before, from.after}
    BY DEF ResumeUsesRecordedState
  <2>1. ResumeOK(p) /\ RowsOK(p)
    BY <1>1 DEF RunInv, Inv, ProcessOK
  <2>2. i \in 1 .. Len(db.states[p]) /\ i \in 1 .. Len(mem[p].plan)
    BY <1>1, <2>1, SeqFacts DEF RowsOK
  <2> QED
    BY <2>1, <2>2 DEF ResumeOK, RowsOK, Recorded
<1> QED
  BY <1>1, Invariance, RunInvariance, PTL
=============================================================================
