------------------------- MODULE MCRuntimeCustody -------------------------
(* Instances of RuntimeCustody for TLC. *)
EXTENDS RuntimeCustody, TLC

CONSTANTS w, v, a, b, c

\* Everybody on one machine.
OneHost == [p \in Proc |-> "here"]

\* Of the two runs that may have left a lock, v ran on another machine that
\* shares the cache.
TwoHosts == [p \in Proc |-> IF p = v THEN "there" ELSE "here"]

Symmetric == Permutations((Proc \ Fallen) \ Approved) \cup Permutations(Inode)

\* Two states that differ in the shell variables of a run that no longer reads
\* them, or in the entries of a directory that is gone, have the same future.
Reads(p) == IF pc[p] \in {"ident", "judge", "write", "claim", "lost", "drop", "reread",
                          "reident", "unmark", "unclaim", "rename", "sweep"}
              THEN <<attempts[p], rec[p], erec[p], eino[p]>>
              ELSE IF pc[p] \in {"mkdir", "exists", "read", "scrap"}
                THEN <<attempts[p]>> ELSE <<>>
Entries(d) == IF Exists(d) THEN <<record[d], marker[d], crec[d], old[d]>> ELSE <<>>

Future == <<lock, ino, claimed, stage, blob, pc, out,
            [p \in Proc |-> <<Reads(p), Entries(p)>>]>>
=============================================================================
