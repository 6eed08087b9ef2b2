-------------------------- MODULE MigrationsProofs --------------------------
(***************************************************************************)
(* Theorems about Migrations: a stamp never runs ahead of the tables, for  *)
(* any number of commands that migrate, fail and are killed at any time.   *)
(***************************************************************************)
EXTENDS Migrations, TLAPS

Labels == {"idle", "heads", "ensure", "version_table", "create", "stamp",
           "ready", "failed", "killed"}

TypesOK ==
    /\ version \in {0, 1, 2}
    /\ pc \in [Commands -> Labels]
    /\ rev \in [Commands -> {0, 1, 2}]
    /\ done \in [Commands -> Nat]

TablesOf(r) == {Revisions[r][k] : k \in DOMAIN Revisions[r]}

(* What is stamped is there.                                               *)
StampsOK == \A r \in {1, 2} : r <= version => TablesOf(r) \subseteq tables

(* What its label says of a command's progress; what it created is there.  *)
Progress(p) ==
    /\ pc[p] \in {"idle", "heads", "ensure", "version_table"} => done[p] = 0
    /\ pc[p] \in {"ensure", "version_table"} => rev[p] = 0
    /\ pc[p] \in {"create", "stamp"} =>
          /\ rev[p] \in {0, 1}
          /\ rev[p] <= version
          /\ \A k \in 1 .. done[p] : Todo(p)[k] \in tables
    /\ pc[p] = "create" => done[p] < Len(Todo(p))
    /\ pc[p] = "stamp" => done[p] = Len(Todo(p))
    /\ pc[p] = "ready" => version = 2

ProgressOK == \A p \in Commands : Progress(p)

Inv == TypesOK /\ StampsOK /\ ProgressOK

LEMMA RevisionFacts ==
    /\ Revisions[1] = <<"crawl_runs", "jobs", "source_checkpoints", "crawl_run_errors">>
    /\ Revisions[2] = <<"crawl_run_adapter_states">>
    /\ Len(Revisions[1]) = 4 /\ DOMAIN Revisions[1] = 1 .. 4
    /\ Len(Revisions[2]) = 1 /\ DOMAIN Revisions[2] = 1 .. 1
  BY DEF Revisions, InitialSchema, RunAdapterStates

LEMMA InitInv == MigrateInit => Inv
  BY DEF MigrateInit, Inv, TypesOK, StampsOK, ProgressOK, Progress, Labels

(* A step of p alone, which takes back neither tables nor the version, is  *)
(* nothing to the others.                                                  *)
Alone(p) ==
    /\ \A q \in Commands \ {p} : pc'[q] = pc[q] /\ rev'[q] = rev[q] /\ done'[q] = done[q]
    /\ tables \subseteq tables'
    /\ version <= version'

LEMMA AloneInv ==
    ASSUME Inv, NEW p \in Commands, Alone(p), TypesOK', StampsOK', Progress(p)'
    PROVE  Inv'
<1>1. SUFFICES ASSUME NEW q \in Commands, q # p PROVE Progress(q)'
  BY <1>1 DEF Inv, ProgressOK
<1>2. pc'[q] = pc[q] /\ rev'[q] = rev[q] /\ done'[q] = done[q]
  BY <1>1 DEF Alone
<1>3. Todo(q)' = Todo(q)
  BY <1>2 DEF Todo
<1>4. Progress(q)
  BY <1>1 DEF Inv, ProgressOK
<1>5. version \in {0, 1, 2} /\ version' \in {0, 1, 2} /\ version <= version' /\ tables \subseteq tables'
  BY DEF Alone, Inv, TypesOK
<1>6. rev[q] \in {0, 1, 2}
  BY <1>1 DEF Inv, TypesOK
<1> QED
  BY <1>2, <1>3, <1>4, <1>5, <1>6 DEF Progress

(* Steps that create nothing and stamp nothing.                            *)
LEMMA QuietInv ==
    ASSUME Inv, NEW p \in Commands,
           Begin(p) \/ Kill(p) \/ ReadHeads(p) \/ LookForVersionTable(p)
    PROVE  Inv'
<1>1. TypesOK'
  BY DEF Begin, Kill, ReadHeads, LookForVersionTable, After, Latest, Goto, Inv, TypesOK, Labels
<1>2. StampsOK' /\ Alone(p)
  BY DEF Begin, Kill, ReadHeads, LookForVersionTable, Goto, Alone, Inv, StampsOK, TypesOK
<1>3. Progress(p)'
  <2>1. Progress(p) /\ done[p] \in Nat /\ version \in {0, 1, 2}
    BY DEF Inv, ProgressOK, TypesOK
  <2>2. CASE Begin(p)
    BY <2>1, <2>2 DEF Begin, Goto, Progress, Inv, TypesOK
  <2>3. CASE Kill(p)
    BY <2>1, <2>3 DEF Kill, Goto, Progress, Inv, TypesOK
  <2>4. CASE ReadHeads(p)
    <3>1. pc'[p] = After(version) /\ rev'[p] = version /\ done'[p] = 0 /\ version' = version
      BY <2>1, <2>4 DEF ReadHeads, Goto, Progress, Inv, TypesOK
    <3>2. Todo(p)' = Revisions[version + 1]
      BY <3>1 DEF Todo
    <3>3. CASE version = 0
      <4>1. pc'[p] = "ensure"
        BY <3>1, <3>3 DEF After, Latest
      <4> QED
        BY <3>1, <3>3, <4>1 DEF Progress
    <3>4. CASE version = 1
      <4>1. Todo(p)' = Revisions[2]
        BY <3>2, <3>4
      <4>2. pc'[p] = "create"
        BY <3>1, <3>4 DEF After, Latest
      <4> QED
        BY <3>1, <3>4, <4>1, <4>2, RevisionFacts DEF Progress
    <3>5. CASE version = 2
      BY <3>1, <3>5 DEF After, Latest, Progress
    <3> QED
      BY <2>1, <3>3, <3>4, <3>5
  <2>5. CASE LookForVersionTable(p)
    <3>1. /\ pc'[p] \in {"create", "version_table"}
          /\ rev'[p] = 0 /\ done'[p] = 0 /\ version' = version
      BY <2>1, <2>5 DEF LookForVersionTable, Goto, Progress, Inv, TypesOK
    <3>2. Todo(p)' = Revisions[1]
      BY <3>1 DEF Todo
    <3> QED
      BY <2>1, <3>1, <3>2, RevisionFacts DEF Progress
  <2> QED
    BY <2>2, <2>3, <2>4, <2>5
<1> QED
  BY <1>1, <1>2, <1>3, AloneInv

LEMMA CreateVersionTableInv ==
    ASSUME Inv, NEW p \in Commands, CreateVersionTable(p) PROVE Inv'
<1>1. TypesOK'
  BY DEF CreateVersionTable, CreateTable, Goto, Inv, TypesOK, Labels
<1>2. StampsOK' /\ Alone(p)
  BY DEF CreateVersionTable, CreateTable, Goto, Alone, Inv, StampsOK, TypesOK
<1>3. /\ pc'[p] \in {"create", "failed"}
      /\ rev'[p] = 0 /\ done'[p] = 0 /\ version' \in {0, 1, 2}
  BY DEF CreateVersionTable, CreateTable, Goto, Inv, ProgressOK, Progress, TypesOK
<1>4. Todo(p)' = Revisions[1]
  BY <1>3 DEF Todo
<1>5. Progress(p)'
  BY <1>3, <1>4, RevisionFacts DEF Progress
<1> QED
  BY <1>1, <1>2, <1>5, AloneInv

LEMMA CreateInv == ASSUME Inv, NEW p \in Commands, CreateNext(p) PROVE Inv'
<1>1. TypesOK'
  BY DEF CreateNext, CreateTable, Goto, Inv, TypesOK, Labels
<1>2. StampsOK' /\ Alone(p)
  BY DEF CreateNext, CreateTable, Goto, Alone, Inv, StampsOK, TypesOK
<1>3. /\ pc[p] = "create" /\ Progress(p) /\ done[p] \in Nat /\ version \in {0, 1, 2}
      /\ rev[p] \in {0, 1}
  BY DEF CreateNext, Inv, ProgressOK, Progress, TypesOK
<1>4. Todo(p)' = Todo(p) /\ Len(Todo(p)) \in Nat
  BY <1>3, RevisionFacts DEF CreateNext, CreateTable, Todo
<1>5. /\ pc'[p] \in {"create", "stamp", "failed"}
      /\ pc'[p] = "create" => done[p] + 1 # Len(Todo(p))
      /\ pc'[p] = "stamp" => done[p] + 1 = Len(Todo(p))
      /\ rev'[p] = rev[p] /\ done'[p] = done[p] + 1 /\ version' = version
      /\ tables' = tables \cup {Todo(p)[done[p] + 1]}
  BY DEF CreateNext, CreateTable, Goto, Inv, TypesOK
<1>6. \A k \in 1 .. done'[p] : Todo(p)[k] \in tables'
  <2>1. \A k \in 1 .. done[p] + 1 : k \in 1 .. done[p] \/ k = done[p] + 1
    BY <1>3
  <2> QED
    BY <1>3, <1>5, <2>1 DEF Progress
<1>7. Progress(p)'
  BY <1>3, <1>4, <1>5, <1>6 DEF Progress
<1> QED
  BY <1>1, <1>2, <1>7, AloneInv

LEMMA StampInv == ASSUME Inv, NEW p \in Commands, Stamp(p) PROVE Inv'
<1>1. /\ pc[p] = "stamp" /\ Progress(p) /\ version \in {0, 1, 2} /\ rev[p] \in {0, 1}
      /\ tables' = tables
  BY DEF Stamp, Inv, ProgressOK, Progress, TypesOK
<1>2. CASE version = rev[p]
  <2>1. /\ version' = version + 1 /\ rev'[p] = rev[p] + 1 /\ done'[p] = 0
        /\ pc'[p] = After(rev[p] + 1)
        /\ Alone(p)
    BY <1>1, <1>2 DEF Stamp, Goto, Alone, Inv, TypesOK
  <2>2. pc'[p] \in {"create", "ready"} /\ (pc'[p] = "create" => rev[p] = 0)
        /\ (pc'[p] = "ready" => rev[p] = 1)
    BY <1>1, <2>1 DEF After, Latest
  <2>3. TypesOK'
    BY <1>1, <1>2, <2>1, <2>2 DEF Stamp, Goto, Inv, TypesOK, Labels
  <2>4. TablesOf(version') \subseteq tables
    <3>1. done[p] = Len(Todo(p)) /\ \A k \in 1 .. done[p] : Todo(p)[k] \in tables
      BY <1>1 DEF Progress
    <3>2. Todo(p) = Revisions[version']
      BY <1>1, <1>2, <2>1 DEF Todo
    <3> QED
      BY <1>1, <1>2, <2>1, <3>1, <3>2, RevisionFacts DEF TablesOf
  <2>5. StampsOK'
    BY <1>1, <2>1, <2>4 DEF StampsOK, Inv, TablesOf
  <2>6. Progress(p)'
    <3>1. Todo(p)' = Revisions[rev[p] + 2]
      BY <1>1, <2>1 DEF Todo
    <3>2. CASE rev[p] = 0
      <4>1. Todo(p)' = Revisions[2]
        BY <3>1, <3>2
      <4> QED
        BY <1>2, <2>1, <2>2, <3>2, <4>1, RevisionFacts DEF Progress
    <3>3. CASE rev[p] = 1
      BY <1>2, <2>1, <2>2, <3>3 DEF Progress
    <3> QED
      BY <1>1, <3>2, <3>3
  <2> QED
    BY <2>1, <2>3, <2>5, <2>6, AloneInv
<1>3. CASE version # rev[p]
  <2>1. pc'[p] = "failed" /\ Alone(p) /\ version' = version /\ rev' = rev
    BY <1>1, <1>3 DEF Stamp, Goto, Alone, Inv, TypesOK
  <2>2. TypesOK'
    BY <1>1, <1>3, <2>1 DEF Stamp, Goto, Inv, TypesOK, Labels
  <2>3. StampsOK'
    BY <1>1, <2>1 DEF StampsOK, Inv, TablesOf
  <2>4. Progress(p)'
    BY <2>1 DEF Progress
  <2> QED
    BY <2>1, <2>2, <2>3, <2>4, AloneInv
<1> QED
  BY <1>2, <1>3

(* The inductive invariant holds throughout.                               *)
LEMMA Invariance == MigrateSpec => []Inv
<1>1. Inv /\ [MigrateNext]_migratevars => Inv'
  <2>1. SUFFICES ASSUME Inv, [MigrateNext]_migratevars PROVE Inv'
    OBVIOUS
  <2>2. CASE UNCHANGED migratevars
    BY <2>1, <2>2
    DEF migratevars, Inv, TypesOK, StampsOK, TablesOf, ProgressOK, Progress, Todo
  <2>3. CASE MigrateNext
    BY <2>1, <2>3, QuietInv, CreateVersionTableInv, CreateInv, StampInv DEF MigrateNext, Step
  <2> QED
    BY <2>1, <2>2, <2>3
<1> QED
  BY <1>1, InitInv, PTL DEF MigrateSpec

(* A command whose upgrade_database returns finds every table of the       *)
(* models, whichever other commands migrate, fail or are killed: what is   *)
(* stamped is there, and a command is only ready at the latest revision.   *)
THEOREM ReadyIsMigrated == MigrateSpec => []ReadyMeansMigrated
<1>1. Inv => ReadyMeansMigrated
  <2>1. SUFFICES ASSUME Inv, NEW p \in Commands, pc[p] = "ready"
                 PROVE  Schema \subseteq tables
    BY DEF ReadyMeansMigrated
  <2>2. TablesOf(1) \subseteq tables /\ TablesOf(2) \subseteq tables
    BY <2>1 DEF Inv, ProgressOK, Progress, StampsOK
  <2>3. Schema \subseteq TablesOf(1) \cup TablesOf(2)
    BY RevisionFacts DEF Schema, TablesOf
  <2> QED
    BY <2>2, <2>3
<1> QED
  BY <1>1, Invariance, PTL
=============================================================================
