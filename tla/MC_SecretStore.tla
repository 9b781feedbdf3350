--------------------------- MODULE MC_SecretStore ---------------------------
(* SecretStore for a few threads, with both lifetimes, and with one. *)
EXTENDS SecretStore

MCLifetimes ==
  {[idle |-> 2, maxAge |-> 3], [idle |-> 0, maxAge |-> 2]}
=============================================================================
