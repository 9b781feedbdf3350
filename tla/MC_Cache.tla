------------------------------ MODULE MC_Cache ------------------------------
(***************************************************************************)
(* Cache for a few processes.  "w" looks up, fetches, stores and prunes,   *)
(* "r" only reads, "m" prunes and clears.  The entries at the start are of *)
(* the kinds a read or a prune tells apart.                                *)
(***************************************************************************)
EXTENDS Cache, TLC

Roles ==
  [r |-> {"read"}, w |-> {"lock", "store", "prune"},
   m |-> {"prune", "clear"}]

MCOps == [p \in Procs |-> Roles[p]]

MCSchema == [p \in Procs |-> 1]

File(kind, schema, stale, size, used) ==
  [kind |-> kind, schema |-> schema, stored |-> 0, fresh |-> 0,
   stale |-> stale, size |-> size, used |-> used]

(* Nothing, an entry about to expire, one that is garbled, one whose value *)
(* no longer parses, and one of a later schema.                            *)
StockSmall ==
  {None, File("ok", 1, 0, 1, 0), File("garbled", 1, 9, 1, 0),
   File("badvalue", 1, 9, 1, 0), File("ok", 2, 9, 1, 0)}

(* Two sizes, two ages, one long unused and one expired. *)
StockMixed ==
  {File("ok", 1, 9, 1, 0), File("ok", 1, 9, 2, -1), File("ok", 1, 9, 1, -5),
   File("ok", 1, -1, 1, 0)}
=============================================================================
