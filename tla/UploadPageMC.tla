----------------------------- MODULE UploadPageMC -----------------------------
(***************************************************************************)
(* Instances of UploadPage for TLC.                                        *)
(***************************************************************************)
EXTENDS UploadPage, TLC

CONSTANTS march, april

\* Two exports whose hashes begin alike and a third one, if there is one.
Alike  == [c \in Content |-> IF c \in {march, april} THEN "8d3f2a01" ELSE "c90b11e7"]

\* Two exports whose hashes do not.
Apart  == [c \in Content |-> IF c = march THEN "8d3f2a01" ELSE "c90b11e7"]
=============================================================================
