SPECIFICATION FairMigrationSpec
CONSTANTS
    old = old
    partial = partial
    full = full
    Runners = {old, partial, full}
    Latest = 3
    Checkout <- SomeCheckouts
    Target <- SomeTargets
    MaxFailures = 1
INVARIANTS
    MigrationTypeOK
    AppliedOnceInOrder
    PrerequisitesApplied
    SuccessIsUpToDate
PROPERTY SchemaCatchesUp
