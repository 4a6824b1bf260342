----------------------------- MODULE StartupProofs -----------------------------
(***************************************************************************)
(* Proofs about the migrations: for any number of instances, releases and  *)
(* migrations, whatever is killed when.                                    *)
(***************************************************************************)
EXTENDS Startup, TLAPS

--------------------------------------------------------------------------------
(* The inductive invariant. *)

\* An instance at migration v has seen the ones before it in schema_migrations.
SeenSoFar ==
    \A p \in Instances :
        at[p] \in {"check", "apply", "record", "commit"} =>
            /\ version[p] \in Nat \ {0}
            /\ \A v \in 1 .. version[p] - 1 : v \in db.migrations

WithinRelease ==
    \A p \in Instances :
        /\ release[p] \in 0 .. Latest
        /\ at[p] \in {"apply", "record", "commit"} => version[p] <= release[p]

\* What the holder of the write lock sees is the committed state and its own
\* migration, the next one.
WorkIsNext ==
    \A p \in Instances :
        /\ at[p] \in InTransaction =>
              /\ version[p] = Len(db.schema) + 1
              /\ work.schema = Append(db.schema, version[p])
        /\ at[p] = "record" => work.migrations = db.migrations
        /\ at[p] = "commit" => work.migrations = db.migrations \cup {version[p]}

MigrationInv == SchemaIsHistory /\ SeenSoFar /\ WithinRelease /\ WorkIsNext

AloneInv ==
    \A p \in Instances : alone[p] =>
        /\ \A q \in Instances : q # p => at[q] = "down"
        /\ at[p] = "apply" => version[p] \notin db.migrations

--------------------------------------------------------------------------------
(* Types. *)

LEMMA TypeInit == Init => TypeOK
  BY StartupAssumption DEF Init, TypeOK, Contents, Empty, Starting, InTransaction

\* An end leaves everything well formed, whoever held the lock.
LEMMA DownTyped ==
  ASSUME TypeOK, NEW p \in Instances, Down(p)
  PROVE  TypeOK'
  <1>1. /\ db' \in Contents /\ disk' \in Contents
        /\ version' \in [Instances -> Nat] /\ release' \in [Instances -> Nat]
        /\ port' \in [Instances -> Nat] /\ alone' \in [Instances -> BOOLEAN]
    BY DEF TypeOK, Down
  <1>2. work' \in Contents
    <2>1. Empty \in Contents
      BY DEF Empty, Contents
    <2> QED BY <2>1 DEF TypeOK, Down
  <1>3. ports' \in [1 .. Ports -> Instances \cup {Nobody, Stranger}]
    BY DEF TypeOK, Down
  <1>4. /\ at' \in [Instances -> Starting \cup {"down", "serving"}]
        /\ lock' \in Instances \cup {Nobody}
    BY DEF TypeOK, Down
  <1>5. \A q \in Instances : at'[q] \in InTransaction <=> lock' = q
    BY StartupAssumption DEF TypeOK, Down, InTransaction
  <1> QED BY <1>1, <1>2, <1>3, <1>4, <1>5 DEF TypeOK

LEMMA TypeStep == TypeOK /\ [Next]_vars => TypeOK'
  <1> SUFFICES ASSUME TypeOK, [Next]_vars PROVE TypeOK'
    OBVIOUS
  <1> USE StartupAssumption
  <1>1. ASSUME NEW p \in Instances, Start(p) PROVE TypeOK'
    BY <1>1 DEF TypeOK, Start, Goes, dbVars, Starting, InTransaction
  <1>2. ASSUME NEW p \in Instances, OpenDatabase(p) PROVE TypeOK'
    BY <1>2 DEF TypeOK, OpenDatabase, Goes, dbVars, Starting, InTransaction
  <1>3. ASSUME NEW p \in Instances, CreateTable(p) PROVE TypeOK'
    BY <1>3 DEF TypeOK, CreateTable, Goes, dbVars, Starting, InTransaction
  <1>4. ASSUME NEW p \in Instances, Skip(p) PROVE TypeOK'
    BY <1>4 DEF TypeOK, Skip, dbVars, Starting, InTransaction
  <1>5. ASSUME NEW p \in Instances, Missing(p) PROVE TypeOK'
    BY <1>5 DEF TypeOK, Missing, Goes, dbVars, Starting, InTransaction
  <1>6. ASSUME NEW p \in Instances, Apply(p) PROVE TypeOK'
    <2>1. work' \in Contents
      <3>1. db \in Contents /\ version[p] \in Nat
        BY DEF TypeOK
      <3>2. work' = [db EXCEPT !.schema = Append(@, version[p])]
        BY <1>6 DEF Apply
      <3>3. Append(db.schema, version[p]) \in Seq(Nat)
        BY <3>1 DEF Contents
      <3> QED BY <3>1, <3>2, <3>3 DEF Contents
    <2> QED BY <1>6, <2>1 DEF TypeOK, Apply, Goes, Starting, InTransaction
  <1>7. ASSUME NEW p \in Instances, Record(p) PROVE TypeOK'
    <2>1. work' \in Contents
      <3>1. work \in Contents /\ version[p] \in Nat
        BY DEF TypeOK
      <3>2. work' = [work EXCEPT !.migrations = @ \cup {version[p]}]
        BY <1>7 DEF Record
      <3>3. work.migrations \cup {version[p]} \in SUBSET Nat
        BY <3>1 DEF Contents
      <3> QED BY <3>1, <3>2, <3>3 DEF Contents
    <2> QED BY <1>7, <2>1 DEF TypeOK, Record, Goes, Starting, InTransaction
  <1>8. ASSUME NEW p \in Instances, Commit(p) PROVE TypeOK'
    <2>1. work' \in Contents
      BY <1>8 DEF Commit, Contents, Empty
    <2> QED BY <1>8, <2>1 DEF TypeOK, Commit, Goes, Starting, InTransaction
  <1>9. ASSUME NEW p \in Instances, Migrated(p) PROVE TypeOK'
    BY <1>9 DEF TypeOK, Migrated, Goes, dbVars, Starting, InTransaction
  <1>10. ASSUME NEW p \in Instances, Bind(p) PROVE TypeOK'
    BY <1>10 DEF TypeOK, Bind, Goes, dbVars, Starting, InTransaction
  <1>11. ASSUME NEW p \in Instances, NextPort(p) PROVE TypeOK'
    BY <1>11 DEF TypeOK, NextPort, dbVars, Starting, InTransaction
  <1>12. ASSUME NEW p \in Instances, Conflict(p) \/ Busy(p) \/ NoPort(p) \/ End(p) PROVE TypeOK'
    BY <1>12, DownTyped DEF Conflict, Busy, NoPort, End
  <1>13. CASE PowerLoss
    BY <1>13 DEF TypeOK, PowerLoss, Contents, Empty, Starting, InTransaction
  <1>14. CASE Sync
    BY <1>14 DEF TypeOK, Sync
  <1>15. CASE Strange
    BY <1>15 DEF TypeOK, Strange, dbVars
  <1>16. CASE UNCHANGED vars
    BY <1>16 DEF TypeOK, vars, dbVars
  <1> QED
    BY <1>1, <1>2, <1>3, <1>4, <1>5, <1>6, <1>7, <1>8, <1>9, <1>10, <1>11, <1>12, <1>13,
       <1>14, <1>15, <1>16
       DEF Next, Run, Migrate, Listen

\* Instances, lock, database and ports stay well formed, and the write lock is
\* held exactly by the instance that is in a migration's transaction.
THEOREM TypeCorrect == Spec => []TypeOK
  BY TypeInit, TypeStep, PTL DEF Spec

--------------------------------------------------------------------------------
(* The schema. *)

LEMMA HistoryLength ==
  ASSUME NEW c \in Contents, IsHistory(c)
  PROVE  /\ Len(c.schema) \in Nat
         /\ c.migrations = 1 .. Len(c.schema)
         /\ \A v : Has(c, v) <=> v \in c.migrations
  BY DEF Contents, IsHistory, Has

\* The first migration that is missing is the next one.
LEMMA MissingIsNext ==
  ASSUME NEW c \in Contents, IsHistory(c), NEW v \in Nat \ {0},
         \A u \in 1 .. v - 1 : u \in c.migrations, v \notin c.migrations
  PROVE  v = Len(c.schema) + 1
  <1> DEFINE n == Len(c.schema)
  <1>1. n \in Nat /\ c.migrations = 1 .. n
    BY HistoryLength
  <1>2. v > n
    BY <1>1
  <1>3. ~(v > n + 1)
    <2> SUFFICES ASSUME v > n + 1 PROVE FALSE
      OBVIOUS
    <2>1. n + 1 \in 1 .. v - 1
      BY <1>1
    <2> QED BY <2>1, <1>1
  <1> QED BY <1>1, <1>2, <1>3

LEMMA NextIsHistory ==
  ASSUME NEW c \in Contents, IsHistory(c), NEW d \in Contents,
         d.schema = Append(c.schema, Len(c.schema) + 1),
         d.migrations = c.migrations \cup {Len(c.schema) + 1}
  PROVE  IsHistory(d)
  <1> DEFINE n == Len(c.schema)
  <1>1. n \in Nat /\ c.migrations = 1 .. n /\ c.schema \in Seq(Nat)
    BY HistoryLength DEF Contents
  <1>2. DOMAIN d.schema = 1 .. n + 1
    BY <1>1
  <1>3. \A i \in 1 .. n + 1 : d.schema[i] = i
    BY <1>1 DEF IsHistory
  <1>4. d.migrations = 1 .. n + 1
    BY <1>1
  <1> QED BY <1>2, <1>3, <1>4 DEF IsHistory

LEMMA InvInit == Init => MigrationInv /\ AloneInv
  BY StartupAssumption
     DEF Init, MigrationInv, AloneInv, SchemaIsHistory, IsHistory, SeenSoFar, WithinRelease,
         WorkIsNext, InTransaction, Empty

\* What p claimed when it ended, nobody claims any more.
LEMMA DownKeepsInv ==
  ASSUME TypeOK, MigrationInv, NEW p \in Instances, Down(p)
  PROVE  MigrationInv'
  <1> USE DEF Down
  <1>1. /\ at' = [at EXCEPT ![p] = "down"] /\ db' = db /\ disk' = disk
        /\ at \in [Instances -> Starting \cup {"down", "serving"}]
        /\ version \in [Instances -> Nat] /\ release \in [Instances -> Nat]
    BY DEF TypeOK
  <1>2. SchemaIsHistory'
    BY <1>1 DEF MigrationInv, SchemaIsHistory, IsHistory
  <1>3. SeenSoFar'
    BY <1>1 DEF MigrationInv, SeenSoFar
  <1>4. WithinRelease'
    BY <1>1, StartupAssumption DEF MigrationInv, WithinRelease
  <1>5. WorkIsNext'
    <2> SUFFICES ASSUME NEW q \in Instances, at'[q] \in InTransaction
                 PROVE  q # p /\ version'[q] = version[q] /\ at'[q] = at[q] /\ work' = work
      BY <1>1 DEF MigrationInv, WorkIsNext, InTransaction
    <2>1. q # p /\ at'[q] = at[q] /\ version'[q] = version[q]
      BY <1>1 DEF InTransaction
    <2>2. lock = q
      BY <2>1 DEF TypeOK
    <2> QED BY <2>1, <2>2
  <1> QED BY <1>2, <1>3, <1>4, <1>5 DEF MigrationInv

\* The steps that change no committed data, but for the ends.
LEMMA QuietKeepsInv ==
  ASSUME TypeOK, MigrationInv, NEW p \in Instances,
         \/ Start(p) \/ OpenDatabase(p) \/ CreateTable(p) \/ Skip(p) \/ Missing(p)
         \/ Migrated(p) \/ Bind(p) \/ NextPort(p)
  PROVE  MigrationInv'
  <1>0. /\ at \in [Instances -> Starting \cup {"down", "serving"}]
        /\ version \in [Instances -> Nat] /\ release \in [Instances -> Nat]
    BY DEF TypeOK
  <1>1. UNCHANGED dbVars
    BY DEF Start, OpenDatabase, CreateTable, Skip, Missing, Migrated, Bind, NextPort
  <1>2. SchemaIsHistory'
    BY <1>1 DEF MigrationInv, SchemaIsHistory, IsHistory, dbVars
  <1>3. SeenSoFar'
    <2>1. CASE Skip(p)
      BY <1>0, <1>1, <2>1 DEF MigrationInv, SeenSoFar, Skip, dbVars
    <2>2. CASE CreateTable(p)
      BY <1>0, <1>1, <2>2 DEF MigrationInv, SeenSoFar, CreateTable, Goes, dbVars
    <2>3. CASE Start(p) \/ OpenDatabase(p) \/ Missing(p) \/ Migrated(p) \/ Bind(p) \/ NextPort(p)
      BY <1>0, <1>1, <2>3
         DEF MigrationInv, SeenSoFar, Start, OpenDatabase, Missing, Migrated, Bind, NextPort,
             Goes, dbVars
    <2> QED BY <2>1, <2>2, <2>3
  <1>4. WithinRelease'
    BY <1>0, StartupAssumption
       DEF MigrationInv, WithinRelease, Start, OpenDatabase, CreateTable, Skip, Missing,
           Migrated, Bind, NextPort, Goes
  <1>5. WorkIsNext'
    <2> SUFFICES ASSUME NEW q \in Instances, at'[q] \in InTransaction
                 PROVE  version'[q] = version[q] /\ at'[q] = at[q]
      BY <1>0, <1>1 DEF MigrationInv, WorkIsNext, InTransaction, dbVars
    <2> QED
      BY <1>0
         DEF InTransaction, Start, OpenDatabase, CreateTable, Skip, Missing, Migrated, Bind,
             NextPort, Goes
  <1> QED BY <1>2, <1>3, <1>4, <1>5 DEF MigrationInv

LEMMA ApplyKeepsInv ==
  ASSUME TypeOK, MigrationInv, NEW p \in Instances, Apply(p)
  PROVE  MigrationInv'
  <1>0. /\ at \in [Instances -> Starting \cup {"down", "serving"}]
        /\ at' = [at EXCEPT ![p] = "record"] /\ at[p] = "apply"
        /\ version' = version /\ release' = release /\ db' = db /\ disk' = disk
        /\ db \in Contents /\ IsHistory(db)
    BY DEF TypeOK, Apply, Goes, MigrationInv, SchemaIsHistory
  <1>1. SchemaIsHistory'
    BY <1>0 DEF MigrationInv, SchemaIsHistory, IsHistory
  <1>2. SeenSoFar' /\ WithinRelease'
    BY <1>0 DEF MigrationInv, SeenSoFar, WithinRelease
  <1>3. version[p] = Len(db.schema) + 1
    <2>1. /\ version[p] \in Nat \ {0}
          /\ \A v \in 1 .. version[p] - 1 : v \in db.migrations
      BY <1>0 DEF MigrationInv, SeenSoFar
    <2>2. version[p] \notin db.migrations
      BY <1>0, HistoryLength DEF Apply
    <2> QED BY <1>0, <2>1, <2>2, MissingIsNext
  <1>4. /\ work'.schema = Append(db.schema, version[p])
        /\ work'.migrations = db.migrations
    BY <1>0 DEF Apply, Contents
  <1>5. \A q \in Instances : at'[q] \in InTransaction => q = p
    BY <1>0, StartupAssumption DEF TypeOK, Apply, InTransaction
  <1>6. WorkIsNext'
    BY <1>0, <1>3, <1>4, <1>5 DEF WorkIsNext, InTransaction
  <1> QED BY <1>1, <1>2, <1>6 DEF MigrationInv

LEMMA RecordKeepsInv ==
  ASSUME TypeOK, MigrationInv, NEW p \in Instances, Record(p)
  PROVE  MigrationInv'
  <1>0. /\ at \in [Instances -> Starting \cup {"down", "serving"}]
        /\ at' = [at EXCEPT ![p] = "commit"] /\ at[p] = "record"
        /\ version' = version /\ release' = release /\ db' = db /\ disk' = disk
        /\ work \in Contents
    BY DEF TypeOK, Record, Goes
  <1>1. SchemaIsHistory'
    BY <1>0 DEF MigrationInv, SchemaIsHistory, IsHistory
  <1>2. SeenSoFar' /\ WithinRelease'
    BY <1>0 DEF MigrationInv, SeenSoFar, WithinRelease
  <1>3. /\ version[p] = Len(db.schema) + 1
        /\ work.schema = Append(db.schema, version[p])
        /\ work.migrations = db.migrations
    BY <1>0 DEF MigrationInv, WorkIsNext, InTransaction
  <1>4. work'.schema = work.schema /\ work'.migrations = work.migrations \cup {version[p]}
    BY <1>0 DEF Record, Contents
  <1>5. \A q \in Instances : at'[q] \in InTransaction => q = p
    BY <1>0 DEF TypeOK, InTransaction
  <1>6. WorkIsNext'
    BY <1>0, <1>3, <1>4, <1>5 DEF WorkIsNext, InTransaction
  <1> QED BY <1>1, <1>2, <1>6 DEF MigrationInv

\* The commit adds the next migration and takes nothing away, so that what the
\* others have seen stays true.
LEMMA CommitKeepsInv ==
  ASSUME TypeOK, MigrationInv, NEW p \in Instances, Commit(p)
  PROVE  MigrationInv'
  <1>0. /\ at \in [Instances -> Starting \cup {"down", "serving"}]
        /\ version \in [Instances -> Nat]
        /\ at' = [at EXCEPT ![p] = "check"] /\ at[p] = "commit"
        /\ version' = [version EXCEPT ![p] = @ + 1] /\ release' = release
        /\ db' = work /\ disk' = disk
        /\ work \in Contents /\ db \in Contents /\ IsHistory(db)
    BY DEF TypeOK, Commit, Goes, MigrationInv, SchemaIsHistory
  <1>1. /\ version[p] = Len(db.schema) + 1
        /\ work.schema = Append(db.schema, version[p])
        /\ work.migrations = db.migrations \cup {version[p]}
    BY <1>0 DEF MigrationInv, WorkIsNext, InTransaction
  <1>2. SchemaIsHistory'
    <2>1. IsHistory(work)
      BY <1>0, <1>1, NextIsHistory
    <2> QED BY <1>0, <2>1 DEF MigrationInv, SchemaIsHistory, IsHistory
  <1>3. SeenSoFar'
    <2>1. \A q \in Instances \ {p} : at'[q] = at[q] /\ version'[q] = version[q]
      BY <1>0
    <2>2. \A q \in Instances \ {p} :
             at'[q] \in {"check", "apply", "record", "commit"} =>
                /\ version'[q] \in Nat \ {0}
                /\ \A v \in 1 .. version'[q] - 1 : v \in db'.migrations
      BY <1>0, <1>1, <2>1 DEF MigrationInv, SeenSoFar
    <2>3. /\ version'[p] \in Nat \ {0}
          /\ \A v \in 1 .. version'[p] - 1 : v \in db'.migrations
      <3>1. /\ version[p] \in Nat \ {0}
            /\ \A v \in 1 .. version[p] - 1 : v \in db.migrations
        BY <1>0 DEF MigrationInv, SeenSoFar
      <3>2. version'[p] = version[p] + 1
        BY <1>0
      <3> QED BY <1>0, <1>1, <3>1, <3>2
    <2> QED BY <2>2, <2>3 DEF SeenSoFar
  <1>4. WithinRelease'
    BY <1>0 DEF MigrationInv, WithinRelease
  <1>5. \A q \in Instances : at'[q] \notin InTransaction
    BY <1>0 DEF TypeOK, InTransaction
  <1>6. WorkIsNext'
    BY <1>5 DEF WorkIsNext, InTransaction
  <1> QED BY <1>2, <1>3, <1>4, <1>6 DEF MigrationInv

LEMMA InvStep == TypeOK /\ MigrationInv /\ [Next]_vars => MigrationInv'
  <1> SUFFICES ASSUME TypeOK, MigrationInv, [Next]_vars PROVE MigrationInv'
    OBVIOUS
  <1>1. ASSUME NEW p \in Instances, Conflict(p) \/ Busy(p) \/ NoPort(p) \/ End(p)
        PROVE  MigrationInv'
    BY <1>1, DownKeepsInv DEF Conflict, Busy, NoPort, End
  <1>2. CASE PowerLoss
    BY <1>2, StartupAssumption
       DEF PowerLoss, MigrationInv, SchemaIsHistory, IsHistory, SeenSoFar, WithinRelease,
           WorkIsNext, InTransaction
  <1>3. CASE Sync
    BY <1>3 DEF Sync, MigrationInv, SchemaIsHistory, IsHistory, SeenSoFar, WithinRelease,
                WorkIsNext
  <1>4. CASE Strange \/ UNCHANGED vars
    BY <1>4 DEF Strange, vars, dbVars, MigrationInv, SchemaIsHistory, IsHistory, SeenSoFar,
                WithinRelease, WorkIsNext
  <1> QED
    BY <1>1, <1>2, <1>3, <1>4, QuietKeepsInv, ApplyKeepsInv, RecordKeepsInv, CommitKeepsInv
       DEF Next, Run, Migrate, Listen

\* The committed schema is that of the migrations 1 to some number, each once,
\* and schema_migrations records exactly these: for any instances and releases
\* and any crashes and power failures.
THEOREM SchemaSound == Spec => []SchemaIsHistory
  <1>1. Init => TypeOK /\ MigrationInv
    BY TypeInit, InvInit
  <1>2. TypeOK /\ MigrationInv /\ [Next]_vars => (TypeOK /\ MigrationInv)'
    BY TypeStep, InvStep
  <1>3. MigrationInv => SchemaIsHistory
    BY DEF MigrationInv
  <1> QED BY <1>1, <1>2, <1>3, PTL DEF Spec

--------------------------------------------------------------------------------
(* What the schema is for. *)

LEMMA ServedStep ==
  TypeOK /\ MigrationInv /\ ServesMigrated /\ [Next]_vars => ServesMigrated'
  <1> SUFFICES ASSUME TypeOK, MigrationInv, ServesMigrated, [Next]_vars,
                      NEW q \in Instances, at'[q] \in {"listen", "serving"}
               PROVE  1 .. release'[q] \subseteq db'.migrations
    BY DEF ServesMigrated
  <1>0. /\ at \in [Instances -> Starting \cup {"down", "serving"}]
        /\ version \in [Instances -> Nat] /\ release \in [Instances -> Nat]
    BY DEF TypeOK
  <1>1. ~PowerLoss
    BY DEF PowerLoss
  <1>2. db.migrations \subseteq db'.migrations
    <2>1. ASSUME NEW p \in Instances, Commit(p) PROVE db.migrations \subseteq db'.migrations
      BY <2>1 DEF Commit, Goes, MigrationInv, WorkIsNext, InTransaction
    <2>2. CASE UNCHANGED db
      BY <2>2
    <2> QED
      BY <1>1, <2>1, <2>2
         DEF Next, Run, Migrate, Listen, Start, OpenDatabase, CreateTable, Skip, Missing, Apply,
             Record, Migrated, Bind, NextPort, Conflict, Busy, NoPort, End, Down, Sync, Strange,
             vars, dbVars
  <1>3. ASSUME NEW p \in Instances, Migrated(p), q = p
        PROVE  1 .. release'[q] \subseteq db.migrations
    <2>1. /\ version[p] \in Nat \ {0}
          /\ \A v \in 1 .. version[p] - 1 : v \in db.migrations
      BY <1>3 DEF Migrated, Goes, MigrationInv, SeenSoFar
    <2>2. release'[p] = release[p] /\ release[p] < version[p] /\ release[p] \in Nat
      BY <1>0, <1>3 DEF Migrated
    <2> QED BY <1>3, <2>1, <2>2
  <1>4. CASE \A p \in Instances : ~(Migrated(p) /\ q = p)
    <2>1. at[q] \in {"listen", "serving"} /\ release'[q] = release[q]
      BY <1>0, <1>1, <1>4
         DEF Next, Run, Migrate, Listen, Start, OpenDatabase, CreateTable, Skip, Missing, Apply,
             Record, Commit, Migrated, Bind, NextPort, Conflict, Busy, NoPort, End, Down, Sync,
             Strange, vars, dbVars, Goes
    <2> QED BY <2>1, <1>2 DEF ServesMigrated
  <1> QED BY <1>2, <1>3, <1>4

\* No instance serves requests on a schema that lacks a migration of its
\* release, for any number of instances of any releases.
THEOREM ServingIsMigrated == Spec => []ServesMigrated
  <1>1. Init => TypeOK /\ MigrationInv /\ ServesMigrated
    BY TypeInit, InvInit DEF Init, ServesMigrated
  <1>2. TypeOK /\ MigrationInv /\ ServesMigrated /\ [Next]_vars
          => (TypeOK /\ MigrationInv /\ ServesMigrated)'
    BY TypeStep, InvStep, ServedStep
  <1> QED BY <1>1, <1>2, PTL DEF Spec

LEMMA AloneStep == TypeOK /\ AloneInv /\ [Next]_vars => AloneInv'
  <1> SUFFICES ASSUME TypeOK, AloneInv, [Next]_vars, NEW p \in Instances, alone'[p]
               PROVE  /\ \A q \in Instances : q # p => at'[q] = "down"
                      /\ at'[p] = "apply" => version'[p] \notin db'.migrations
    BY DEF AloneInv
  <1>0. /\ at \in [Instances -> Starting \cup {"down", "serving"}]
        /\ version \in [Instances -> Nat] /\ alone \in [Instances -> BOOLEAN]
    BY DEF TypeOK
  <1>1. ASSUME NEW o \in Instances, Start(o) PROVE at'[p] = "open" /\ \A q \in Instances : q # p => at'[q] = "down"
    BY <1>0, <1>1 DEF Start, Goes
  <1>2. ASSUME NEW o \in Instances, Run(o) \/ End(o), alone[p],
               \A q \in Instances : q # p => at[q] = "down"
        PROVE  /\ o = p
               /\ \A q \in Instances : q # p => at'[q] = "down"
               /\ at'[p] = "apply" => version'[p] \notin db'.migrations
    <2>1. at[o] # "down"
      BY <1>2
         DEF Run, Migrate, Listen, OpenDatabase, CreateTable, Skip, Missing, Apply, Record,
             Commit, Migrated, Bind, NextPort, Conflict, Busy, NoPort, End, Goes
    <2>2. o = p
      BY <1>2, <2>1
    <2>3. \A q \in Instances : q # p => at'[q] = at[q]
      BY <1>0, <1>2, <2>2
         DEF Run, Migrate, Listen, OpenDatabase, CreateTable, Skip, Missing, Apply, Record,
             Commit, Migrated, Bind, NextPort, Conflict, Busy, NoPort, End, Goes, Down
    <2>4. ASSUME at'[p] = "apply" PROVE Missing(p)
      BY <1>0, <1>2, <2>2, <2>4
         DEF Run, Migrate, Listen, OpenDatabase, CreateTable, Skip, Missing, Apply, Record,
             Commit, Migrated, Bind, NextPort, Conflict, Busy, NoPort, End, Goes, Down, Starting
    <2>5. Missing(p) => version'[p] \notin db'.migrations
      BY DEF Missing, dbVars
    <2> QED BY <1>2, <2>2, <2>3, <2>4, <2>5
  <1>3. CASE PowerLoss
    BY <1>3 DEF PowerLoss
  <1>4. CASE Sync \/ Strange \/ UNCHANGED vars
    BY <1>4 DEF Sync, Strange, vars, dbVars, AloneInv
  <1>5. ASSUME NEW o \in Instances, Run(o) \/ End(o) PROVE alone[p]
    BY <1>0, <1>5
       DEF Run, Migrate, Listen, OpenDatabase, CreateTable, Skip, Missing, Apply, Record,
           Commit, Migrated, Bind, NextPort, Conflict, Busy, NoPort, End, Down
  <1> QED
    BY <1>1, <1>2, <1>3, <1>4, <1>5 DEF Next, AloneInv

\* An instance that finds the tables there was overtaken by one that recorded
\* the migration; a start that no other overlaps never does.
THEOREM ConflictsHaveRivals == Spec => ConflictMeansRival
  <1> DEFINE All == TypeOK /\ MigrationInv /\ AloneInv
             Beaten(p) == ~alone[p] /\ version[p] \in db.migrations
  <1>1. Init => All
    BY TypeInit, InvInit
  <1>2. All /\ [Next]_vars => All'
    BY TypeStep, InvStep, AloneStep
  <1>3. All => \A p \in Instances : Conflict(p) => Beaten(p)
    <2> SUFFICES ASSUME All, NEW p \in Instances, Conflict(p) PROVE Beaten(p)
      OBVIOUS
    <2>1. version[p] \in db.migrations
      BY HistoryLength DEF Conflict, MigrationInv, SchemaIsHistory, TypeOK
    <2> QED BY <2>1 DEF Conflict, AloneInv
  <1>4. All /\ [Next]_vars => [\A p \in Instances : Conflict(p) => Beaten(p)]_vars
    BY <1>3
  <1> QED BY <1>1, <1>2, <1>4, PTL DEF Spec, ConflictMeansRival

--------------------------------------------------------------------------------
(* Refinement. *)

LEMMA SchemaStep == TypeOK /\ MigrationInv /\ [Next]_vars => [Schema!Next]_(Schema!schemaVars)
  <1> SUFFICES ASSUME TypeOK, MigrationInv, [Next]_vars
               PROVE  \/ Schema!Upgrade \/ Schema!Persist \/ Schema!PowerLoss
                      \/ UNCHANGED Schema!schemaVars
    BY DEF Schema!Next
  <1>1. ASSUME NEW p \in Instances, Commit(p) PROVE Schema!Upgrade
    <2>1. /\ at[p] = "commit" /\ db' = work /\ disk' = disk
          /\ db \in Contents
      BY <1>1 DEF Commit, Goes, TypeOK
    <2>2. /\ version[p] = Len(db.schema) + 1 /\ version[p] <= release[p]
          /\ release[p] \in 0 .. Latest
          /\ work.schema = Append(db.schema, version[p])
      BY <2>1 DEF MigrationInv, WorkIsNext, WithinRelease, InTransaction
    <2>3. Len(work.schema) = Len(db.schema) + 1 /\ Len(db.schema) \in Nat
      BY <2>1, <2>2 DEF Contents
    <2> QED BY <2>1, <2>2, <2>3, StartupAssumption DEF Schema!Upgrade
  <1>2. CASE Sync
    BY <1>2 DEF Sync, Schema!Persist
  <1>3. CASE PowerLoss
    BY <1>3 DEF PowerLoss, Schema!PowerLoss
  <1>4. CASE UNCHANGED <<db, disk>>
    BY <1>4 DEF Schema!schemaVars
  <1> QED
    BY <1>1, <1>2, <1>3, <1>4
       DEF Next, Run, Migrate, Listen, Start, OpenDatabase, CreateTable, Skip, Missing, Apply,
           Record, Migrated, Bind, NextPort, Conflict, Busy, NoPort, End, Down, Strange,
           vars, dbVars

\* The schema implements the abstract one, whose version goes up one by one and
\* is only undone by a power failure.
THEOREM SchemaRefines == Spec => ImplementsSchemaVersion
  <1>1. Init => Schema!Init
    BY DEF Init, Schema!Init, Empty
  <1>2. Init => TypeOK /\ MigrationInv
    BY TypeInit, InvInit
  <1>3. TypeOK /\ MigrationInv /\ [Next]_vars => (TypeOK /\ MigrationInv)'
    BY TypeStep, InvStep
  <1> QED
    BY <1>1, <1>2, <1>3, SchemaStep, PTL DEF Spec, ImplementsSchemaVersion, Schema!Spec
================================================================================
