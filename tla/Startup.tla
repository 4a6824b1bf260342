--------------------------------- MODULE Startup -------------------------------
(***************************************************************************)
(* How instances of the program start (run in main.go): each opens the     *)
(* database that they share, applies the migrations that are missing (Open *)
(* and Migrate) and binds the first free port (Listen).  Instances of      *)
(* older and newer releases may start at the same time, and any of them    *)
(* may end at any moment, by an error, a signal or a crash.                *)
(*                                                                         *)
(* SQLite gives the write lock to one transaction at a time and undoes an  *)
(* uncommitted one when its process ends.  With synchronous = NORMAL a     *)
(* power failure may also undo commits that were not synced.               *)
(***************************************************************************)
EXTENDS Naturals, Sequences

CONSTANTS
    Instances,
    Latest,      \* the number of migrations that the latest release embeds
    Releases,    \* a release is the number of migrations embedded in it
    Ports,       \* the number of ports that Listen tries
    Nobody,
    Stranger     \* a program that has a port

ASSUME StartupAssumption ==
    /\ Latest \in Nat /\ Releases \subseteq 0 .. Latest
    /\ Ports \in Nat
    /\ Nobody \notin Instances /\ Stranger \notin Instances
    /\ Nobody # Stranger

VARIABLES
    db,       \* the committed schema and schema_migrations
    disk,     \* what of it a power failure leaves
    lock,     \* who holds the write lock
    work,     \* schema and schema_migrations as the holder's transaction sees them
    at,       \* where each instance is
    version,  \* the migration it is at
    release,  \* its release
    port,     \* the port it tries or has, counted from DefaultStartPort
    ports,    \* who listens
    alone     \* history: no other instance has run since it started

dbVars == <<db, disk, lock, work>>
vars == <<dbVars, at, version, release, port, ports, alone>>

\* The statements of migration i have been executed once for each i in schema.
Contents == [schema : Seq(Nat), migrations : SUBSET Nat]
Empty == [schema |-> <<>>, migrations |-> {}]

Starting == {"open", "create", "check", "apply", "record", "commit", "listen"}
InTransaction == {"record", "commit"}

TypeOK ==
    /\ db \in Contents /\ disk \in Contents /\ work \in Contents
    /\ lock \in Instances \cup {Nobody}
    /\ at \in [Instances -> Starting \cup {"down", "serving"}]
    /\ version \in [Instances -> Nat] /\ release \in [Instances -> Nat]
    /\ port \in [Instances -> Nat]
    /\ ports \in [1 .. Ports -> Instances \cup {Nobody, Stranger}]
    /\ alone \in [Instances -> BOOLEAN]
    /\ \A p \in Instances : at[p] \in InTransaction <=> lock = p

Init ==
    /\ db = Empty /\ disk = Empty /\ work = Empty
    /\ lock = Nobody
    /\ at = [p \in Instances |-> "down"]
    /\ version = [p \in Instances |-> 1]
    /\ release = [p \in Instances |-> 0]
    /\ port = [p \in Instances |-> 1]
    /\ ports \in [1 .. Ports -> {Nobody, Stranger}]
    /\ alone = [p \in Instances |-> FALSE]

Goes(p, from, to) == at[p] = from /\ at' = [at EXCEPT ![p] = to]

--------------------------------------------------------------------------------
(* run, Open and Migrate. *)

Start(p) ==
    /\ Goes(p, "down", "open")
    /\ \E r \in Releases : release' = [release EXCEPT ![p] = r]
    /\ alone' = [q \in Instances |-> q = p /\ \A o \in Instances : at[o] = "down"]
    /\ UNCHANGED <<dbVars, version, port, ports>>

\* DataDir, sql.Open and the pragmas.
OpenDatabase(p) ==
    /\ Goes(p, "open", "create")
    /\ UNCHANGED <<dbVars, version, release, port, ports, alone>>

\* CREATE TABLE IF NOT EXISTS schema_migrations waits for the write lock, at
\* most for the busy timeout.
CreateTable(p) ==
    /\ lock = Nobody
    /\ Goes(p, "create", "check")
    /\ version' = [version EXCEPT ![p] = 1]
    /\ UNCHANGED <<dbVars, release, port, ports, alone>>

\* The query is not part of the transaction that follows.
Skip(p) ==
    /\ at[p] = "check"
    /\ version[p] <= release[p] /\ version[p] \in db.migrations
    /\ version' = [version EXCEPT ![p] = @ + 1]
    /\ UNCHANGED <<dbVars, at, release, port, ports, alone>>

Missing(p) ==
    /\ version[p] <= release[p] /\ version[p] \notin db.migrations
    /\ Goes(p, "check", "apply")
    /\ UNCHANGED <<dbVars, version, release, port, ports, alone>>

Has(contents, v) == \E i \in DOMAIN contents.schema : contents.schema[i] = v

\* Mutant: the file is executed outside the transaction.
ApplyAtOnce(p) ==
    /\ lock = Nobody /\ ~Has(db, version[p])
    /\ Goes(p, "apply", "record")
    /\ lock' = p
    /\ work' = [db EXCEPT !.schema = Append(@, version[p])]
    /\ db' = work'
    /\ UNCHANGED <<disk, version, release, port, ports, alone>>

\* Mutant: the file can be executed again.
ApplyAgain(p) ==
    /\ lock = Nobody
    /\ Goes(p, "apply", "record")
    /\ lock' = p
    /\ work' = [db EXCEPT !.schema = Append(@, version[p])]
    /\ UNCHANGED <<db, disk, version, release, port, ports, alone>>

\* Begin and the migration file, whose first statement takes the write lock.
Apply(p) ==
    /\ lock = Nobody /\ ~Has(db, version[p])
    /\ Goes(p, "apply", "record")
    /\ lock' = p
    /\ work' = [db EXCEPT !.schema = Append(@, version[p])]
    /\ UNCHANGED <<db, disk, version, release, port, ports, alone>>

Record(p) ==
    /\ Goes(p, "record", "commit")
    /\ work' = [work EXCEPT !.migrations = @ \cup {version[p]}]
    /\ UNCHANGED <<db, disk, lock, version, release, port, ports, alone>>

Commit(p) ==
    /\ Goes(p, "commit", "check")
    /\ db' = work /\ lock' = Nobody /\ work' = Empty
    /\ version' = [version EXCEPT ![p] = @ + 1]
    /\ UNCHANGED <<disk, release, port, ports, alone>>

\* Mutant: the last migration is left out.
MigratedEarly(p) ==
    /\ version[p] >= release[p]
    /\ Goes(p, "check", "listen")
    /\ port' = [port EXCEPT ![p] = 1]
    /\ UNCHANGED <<dbVars, version, release, ports, alone>>

Migrated(p) ==
    /\ version[p] > release[p]
    /\ Goes(p, "check", "listen")
    /\ port' = [port EXCEPT ![p] = 1]
    /\ UNCHANGED <<dbVars, version, release, ports, alone>>

--------------------------------------------------------------------------------
(* Listen. *)

Bind(p) ==
    /\ port[p] <= Ports /\ ports[port[p]] = Nobody
    /\ Goes(p, "listen", "serving")
    /\ ports' = [ports EXCEPT ![port[p]] = p]
    /\ UNCHANGED <<dbVars, version, release, port, alone>>

\* Mutant: the same port is tried again.
SamePort(p) ==
    /\ at[p] = "listen"
    /\ port[p] <= Ports /\ ports[port[p]] # Nobody
    /\ UNCHANGED <<dbVars, at, version, release, port, ports, alone>>

NextPort(p) ==
    /\ at[p] = "listen"
    /\ port[p] <= Ports /\ ports[port[p]] # Nobody
    /\ port' = [port EXCEPT ![p] = @ + 1]
    /\ UNCHANGED <<dbVars, at, version, release, ports, alone>>

--------------------------------------------------------------------------------
(* The ends. *)

\* Mutant: the transaction stays open.
DownLocked(p) ==
    /\ at' = [at EXCEPT ![p] = "down"]
    /\ ports' = [i \in 1 .. Ports |-> IF ports[i] = p THEN Nobody ELSE ports[i]]
    /\ version' = [version EXCEPT ![p] = 1]
    /\ release' = [release EXCEPT ![p] = 0]
    /\ port' = [port EXCEPT ![p] = 1]
    /\ alone' = [alone EXCEPT ![p] = FALSE]
    /\ UNCHANGED dbVars

\* Whatever the end, the transaction is rolled back and the port closed.
Down(p) ==
    /\ at' = [at EXCEPT ![p] = "down"]
    /\ IF lock = p THEN lock' = Nobody /\ work' = Empty ELSE UNCHANGED <<lock, work>>
    /\ ports' = [i \in 1 .. Ports |-> IF ports[i] = p THEN Nobody ELSE ports[i]]
    /\ version' = [version EXCEPT ![p] = 1]
    /\ release' = [release EXCEPT ![p] = 0]
    /\ port' = [port EXCEPT ![p] = 1]
    /\ alone' = [alone EXCEPT ![p] = FALSE]
    /\ UNCHANGED <<db, disk>>

\* The tables or columns that the migration creates are there.
Conflict(p) ==
    /\ at[p] = "apply" /\ lock = Nobody /\ Has(db, version[p])
    /\ Down(p)

NoPort(p) ==
    /\ at[p] = "listen" /\ port[p] > Ports
    /\ Down(p)

\* The busy timeout.
Busy(p) ==
    /\ at[p] \in {"create", "apply"} /\ lock # Nobody
    /\ Down(p)

\* Any other error, a signal or a crash.
End(p) == at[p] # "down" /\ Down(p)

PowerLoss ==
    /\ db' = disk /\ lock' = Nobody /\ work' = Empty
    /\ at' = [p \in Instances |-> "down"]
    /\ version' = [p \in Instances |-> 1]
    /\ release' = [p \in Instances |-> 0]
    /\ port' = [p \in Instances |-> 1]
    /\ ports' \in [1 .. Ports -> {Nobody, Stranger}]
    /\ alone' = [p \in Instances |-> FALSE]
    /\ UNCHANGED disk

\* A checkpoint.
Sync ==
    /\ disk' = db
    /\ UNCHANGED <<db, lock, work, at, version, release, port, ports, alone>>

\* Other programs come and go.
Strange ==
    /\ \E i \in 1 .. Ports :
          /\ ports[i] \in {Nobody, Stranger}
          /\ ports' = [ports EXCEPT ![i] = IF @ = Nobody THEN Stranger ELSE Nobody]
    /\ UNCHANGED <<dbVars, at, version, release, port, alone>>

--------------------------------------------------------------------------------
Migrate(p) ==
    \/ CreateTable(p) \/ Skip(p) \/ Missing(p)
    \/ Apply(p) \/ Record(p) \/ Commit(p) \/ Conflict(p)
    \/ Migrated(p) \/ Busy(p)

Listen(p) == Bind(p) \/ NextPort(p) \/ NoPort(p)

Run(p) == OpenDatabase(p) \/ Migrate(p) \/ Listen(p)

Next ==
    \/ \E p \in Instances : Start(p) \/ Run(p) \/ End(p)
    \/ PowerLoss \/ Sync \/ Strange

Spec == Init /\ [][Next]_vars

\* Each process goes on.
FairSpec == Spec /\ \A p \in Instances : WF_vars(Run(p))

--------------------------------------------------------------------------------
(* Properties. *)

\* The migrations executed are 1, 2, ... up to some number, each once and in
\* order, and schema_migrations says so: whatever instances are killed at
\* whatever moment, and when the power fails (migrate.go:53-82).
IsHistory(contents) ==
    /\ \A i \in DOMAIN contents.schema : contents.schema[i] = i
    /\ contents.migrations = DOMAIN contents.schema

SchemaIsHistory == IsHistory(db) /\ IsHistory(disk)

\* An instance that has come past Migrate finds every table and column that its
\* release knows, also when another one migrated (main.go:45-60).
ServesMigrated ==
    \A p \in Instances :
        at[p] \in {"listen", "serving"} => 1 .. release[p] \subseteq db.migrations

\* A start fails over tables that are already there only when another instance
\* started meanwhile and has recorded the migration: whatever ended earlier
\* starts, the program does not need repair, and the next start gets further
\* (migrate.go:55-82).
ConflictMeansRival ==
    [][\A p \in Instances :
          Conflict(p) => ~alone[p] /\ version[p] \in db.migrations]_vars

\* Every start ends: the program serves or exits (main.go:34-60).
StartEnds ==
    \A p \in Instances : at[p] \in Starting ~> at[p] \in {"serving", "down"}

Schema == INSTANCE SchemaVersion WITH version <- Len(db.schema),
                                      durable <- Len(disk.schema)

\* The schema implements the abstract one: it only ever goes one version up, but
\* for what a power failure undoes.
ImplementsSchemaVersion == Schema!Spec
================================================================================
