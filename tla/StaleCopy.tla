------------------------------ MODULE StaleCopy ------------------------------
(***************************************************************************)
(* What a request writes.  A request reads a row into its session, decides *)
(* on that copy and, at its commit, writes the columns it has changed: a   *)
(* column whose new value equals the copy's is left as it is in the        *)
(* database, whatever has happened to it since.  SELECT ... FOR UPDATE     *)
(* does not refresh a copy that the session already holds.                 *)
(***************************************************************************)
Written(row, copy, new) ==
    [f \in DOMAIN row |-> IF new[f] # copy[f] THEN new[f] ELSE row[f]]
=============================================================================
