----------------------------- MODULE MCAccounts -----------------------------
(* A small instance of Accounts for TLC, and its symmetry: passwords, tokens *)
(* and threads are interchangeable.                                          *)
EXTENDS Accounts, TLC

Symmetry == Permutations(Passwords) \cup Permutations(Tokens)
                \cup Permutations(Threads)
=============================================================================
