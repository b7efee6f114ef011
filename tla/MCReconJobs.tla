---------------------------- MODULE MCReconJobs ----------------------------
(* Model-checking instances of ReconJobs.                                     *)
EXTENDS ReconJobsInv, TLC

CONSTANTS r1, r2, c1, c2, bad, x1, x2

Files2(b, p) == [s \in Sources |-> IF s = "bank" THEN b ELSE p]

\* Two consistent uploads; an attempt that sees one file of each mixes them.
MCFiles == {Files2(c1, c2), Files2(c2, c1)}
\* The same, with a purchase file that parse_source accepts and the strict reader rejects.
MCFilesMixed == {Files2(c1, c2), Files2(c2, bad)}
MCParsable == {p \in Pair : bad \notin {p[s] : s \in Sources}}
\* The two bank files share a transaction id, and c1 has one of its own.
MCRowsOf == [c \in Contents |-> IF c = c1 THEN {x1, x2} ELSE {x2}]

AllAsync == [r \in Requests |-> {"async"}]
\* One job, and a client that meanwhile overwrites its purchase object.
AsyncAndUpload == [r \in Requests |-> IF r = r1 THEN {"async"} ELSE {"upload_purchase"}]
\* One job, and a request that submits another, reconciles at once or uploads a bank file.
AsyncThenAny ==
  [r \in Requests |-> IF r = r1 THEN {"async"} ELSE {"async", "sync", "upload_bank"}]

WorkerSymmetry == Permutations(Workers)
=============================================================================
