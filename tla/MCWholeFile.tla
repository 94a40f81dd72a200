--------------------------- MODULE MCWholeFile ---------------------------
EXTENDS WholeFile

MCFilename == <<"db", "tmp">>
MCTarget == <<"db", "CURRENT">>
MCManifest == <<"db", "MANIFEST">>

\* One that fits in the buffers and one that does not; no part of one is the
\* other.
MCContents == { <<1, 2, 3, 4>>, <<5, 6>> }

=============================================================================
