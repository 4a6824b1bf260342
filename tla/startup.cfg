SPECIFICATION FairSpec
CONSTANTS
    i1 = i1
    i2 = i2
    Instances = {i1, i2}
    Latest = 3
    Releases = {2, 3}
    Ports = 2
    Nobody = Nobody
    Stranger = Stranger
INVARIANTS
    TypeOK
    SchemaIsHistory
    ServesMigrated
PROPERTIES
    ConflictMeansRival
    StartEnds
    ImplementsSchemaVersion
