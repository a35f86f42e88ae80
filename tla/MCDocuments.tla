------------------------------ MODULE MCDocuments ------------------------------
(* Two letters of two types; a record with up to two lines and two files. *)
EXTENDS Documents

CONSTANTS w1, w2, d1, d2, spt, ba, c1, c2, f1, f2, md

MCRoleOf == md :> "MD"

MCSymmetry == Permutations(Worker) \cup Permutations(Document) \cup Permutations(DocType)
              \cup Permutations(Content) \cup Permutations(File)
================================================================================
