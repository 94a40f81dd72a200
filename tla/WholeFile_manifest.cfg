SPECIFICATION WholeSpec
CONSTANTS
    BufferSize = 2
    Manifest = TRUE
    Filename <- MCManifest
    Target <- MCTarget
    Contents <- MCContents
    ReadSize = 2
    MaxWrites = 1
    MaxReads = 0
    MaxCrashes = 1
INVARIANTS
    ManifestNameSurvives
CHECK_DEADLOCK FALSE
