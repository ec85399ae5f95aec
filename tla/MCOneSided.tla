----------------------------- MODULE MCOneSided -----------------------------
(***************************************************************************)
(* The program that OneSided is checked with.                              *)
(***************************************************************************)
EXTENDS OneSided

\* main(), with two of its ten calls of ow_read, so that one sweep follows
\* another; and then rdma_write, which main() does not call, next to the other
\* kinds of wait and a second time.
MainAndWrites ==
    <<"read", "class", "read", "sweep", "sweep",
      "write", "read", "write", "sweep">>

=============================================================================
