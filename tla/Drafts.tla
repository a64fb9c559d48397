-------------------------------- MODULE Drafts -------------------------------
(***************************************************************************)
(* What the transactions of db() (app/database.py) need to say about       *)
(* tables.  A table is a function from keys to rows; what a transaction    *)
(* has written and not committed is a partial table laid over it.          *)
(***************************************************************************)

\* The table as its writer sees it: what is written over what is committed.
Over(written, table) ==
  [x \in DOMAIN table |-> IF x \in DOMAIN written THEN written[x] ELSE table[x]]

\* A row is written.
Put(written, x, row) ==
  [y \in DOMAIN written \union {x} |-> IF y = x THEN row ELSE written[y]]
=============================================================================
