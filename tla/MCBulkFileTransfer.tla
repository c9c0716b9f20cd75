-------------------------- MODULE MCBulkFileTransfer --------------------------
EXTENDS BulkFileTransfer

CONSTANTS n1, n2, n3, absent

\* /mnt/firmware: one full block; two full blocks and a tail; a file
\* exactly one 1024-byte transfer long; and a name that is not there.
MCNames == {n1, n2, n3, absent}
MCServed ==
    [n \in MCNames |->
        CASE n = n1 -> [full |-> 1, tail |-> FALSE]
          [] n = n2 -> [full |-> 2, tail |-> TRUE]
          [] n = n3 -> [full |-> 2, tail |-> FALSE]
          [] n = absent -> Missing]

\* Names of files that a single run saves whole when the server can open
\* them: neither ends in an odd number of full blocks.
MCNamesWhole == {n2, n3}
====
