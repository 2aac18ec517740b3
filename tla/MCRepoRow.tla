------------------------------ MODULE MCRepoRow ------------------------------
(* A small instance of RepoRow for TLC. *)
EXTENDS RepoRow, TLC

\* GitHub names the license of version 1 nowhere in the metadata, then only "Other".
MCMetadata == [v \in Version |-> IF v = 1 THEN "null" ELSE "other"]

\* Every version has a license of its own.
MCLicensed == [v \in Version |-> "spdx"]
=============================================================================
