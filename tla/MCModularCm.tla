----------------------------- MODULE MCModularCm -----------------------------
(* Small instances of ModularCm for TLC. *)
EXTENDS ModularCm

\* The number of transactions of each thread.
OneEach == <<1, 1>>
OneAndTwo == <<1, 2>>
=============================================================================
