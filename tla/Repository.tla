----------------------------- MODULE Repository -----------------------------
(***************************************************************************)
(* What `repo.save(entity)` of TypeORM does to a row that already exists,  *)
(* as every service under backend/src uses it.  The library is not in the  *)
(* repository; the behaviour is the one the services rely on:              *)
(*                                                                         *)
(*   1. it SELECTs the row again and compares it with the entity in memory *)
(*      (Dirty: the columns in which they differ);                         *)
(*   2. it UPDATEs exactly those columns (Flush), or nothing if there are  *)
(*      none.                                                              *)
(*                                                                         *)
(* No entity has a @VersionColumn and no query takes a lock, so the entity *)
(* may be older than the row: a column that somebody else changed since it *)
(* was read is "dirty" and is put back.  Between 1 and 2 other UPDATEs may *)
(* commit, so two saves of one row can also interleave column by column.   *)
(*                                                                         *)
(* Rows and entities are records; a column is a field name.                *)
(***************************************************************************)

\* The columns in which the entity in memory differs from the row.
Dirty(entity, row) == {c \in DOMAIN row : entity[c] # row[c]}

\* The row after UPDATE ... SET of the given columns to the entity's values.
Flush(entity, columns, row) ==
    [c \in DOMAIN row |-> IF c \in columns THEN entity[c] ELSE row[c]]

=============================================================================
