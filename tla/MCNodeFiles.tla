----------------------------- MODULE MCNodeFiles -----------------------------
\* NodeFiles is instantiated by its numbers alone.
EXTENDS NodeFiles
=============================================================================
