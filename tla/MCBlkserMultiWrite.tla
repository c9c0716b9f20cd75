-------------------------- MODULE MCBlkserMultiWrite --------------------------
EXTENDS BlkserMultiWrite

\* Both files open.
MCOpenOk == {}
\* The second file may be missing.
MCOpenMayFail == {2}
====
