-------------------------- MODULE MCOperationStore --------------------------
(* OperationStore for TLC.  The requests share keys, kinds and databases in  *)
(* every way that FindOrCreate tells apart.                                  *)
EXTENDS OperationStore, TLC

Request(kind, key, hash, db) == [kind |-> kind, key |-> key, hash |-> hash, db |-> db]

\* A request, another request under its key, one under another key on the same
\* database, and one under the same key of another kind on another database.
SomeRequests ==
    { Request("backup", "k1", "h1", "db1"), Request("backup", "k1", "h2", "db1"),
      Request("restore", "k2", "h1", "db1"), Request("restore", "k1", "h1", "db2") }

\* A request, another one under its key, and one under its key of another kind,
\* all on one database.
FewRequests ==
    { Request("backup", "k1", "h1", "db1"), Request("backup", "k1", "h2", "db1"),
      Request("restore", "k1", "h1", "db1") }

IdSymmetry == Permutations(Ids)
=============================================================================
