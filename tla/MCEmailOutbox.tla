----------------------------- MODULE MCEmailOutbox -----------------------------
(* Two server processes, three messages in batches of at most two. *)
EXTENDS EmailOutbox, TLC

CONSTANTS w1, w2
================================================================================
