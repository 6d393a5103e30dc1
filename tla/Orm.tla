-------------------------------- MODULE Orm --------------------------------
(***************************************************************************)
(* What the gateway's ORM session sends at a commit.  A handler loads a    *)
(* row, assigns attributes, and commits; the UPDATE carries the columns    *)
(* whose value the assignments changed and no other, whatever the row has  *)
(* become meanwhile (SQLAlchemy, with no version column on any model).     *)
(***************************************************************************)

\* The columns a handler changes: of the row it has read, assigned the values cols.
Changed(row, cols) ==
  [c \in {d \in DOMAIN cols : cols[d] # row[d]} |-> cols[c]]

\* The row an UPDATE of those columns leaves.
Updated(row, change) ==
  [c \in DOMAIN row |-> IF c \in DOMAIN change THEN change[c] ELSE row[c]]
=============================================================================
