------------------------------ MODULE MCJobReads ------------------------------
(* Model-checking instances of JobReads.  Records are numbers here: c1 has a   *)
(* row that comes before the one both bank files have.                         *)
EXTENDS JobReads, MCReconJobs

\* One job, and a client that meanwhile replaces its bank file, or its purchase file by one
\* that the pipeline rejects.
MCFilesRead == {Files2(c2, c1), Files2(c1, bad)}
AsyncAndAnyUpload ==
  [r \in Requests |-> IF r = r1 THEN {"async"} ELSE {"upload_bank", "upload_purchase"}]
\* Clients read the one job there is.
MCReads == ask # None => ask.job = r1
=============================================================================
