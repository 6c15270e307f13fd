-------------------------- MODULE MCNymFileTransfer --------------------------
\* Two chunks and windows of one: a request repairs less than the file, and the gap
\* may be in front of or behind what came.
EXTENDS NymFileTransfer
=============================================================================
