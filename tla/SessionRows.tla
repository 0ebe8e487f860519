----------------------------- MODULE SessionRows -----------------------------
(***************************************************************************)
(* How a database session writes a row it loaded earlier (db/session.py).  *)
(* The sessions never refresh a loaded row (expire_on_commit is off), and  *)
(* an UPDATE carries single columns.                                       *)
(***************************************************************************)
EXTENDS Integers

None == -1  \* an empty column

\* An UPDATE carries the columns that differ from the loaded copy, and every
\* timestamp assigned (SQLite returns them without a time zone, so a loaded
\* stamp never equals an assigned one).
WholeRow(now, copy, new, stamps) == new
Merge(now, copy, new, stamps) ==
  [k \in DOMAIN now |-> IF k \in stamps \/ new[k] # copy[k] THEN new[k] ELSE now[k]]
=============================================================================
