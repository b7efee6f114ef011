------------------------ MODULE IdempotentSubmission ------------------------
(***************************************************************************)
(* What the Idempotency-Key header promises a client, without tables or    *)
(* processes.  A client sends a request in the name of a tenant, with a    *)
(* key or without one.  Without a key it is answered with a job of its     *)
(* own; with one it belongs to the slot of its tenant and key, the first   *)
(* request answered for a slot owns it for ever, and every other one of    *)
(* the slot is answered with the owner and with nothing else.              *)
(***************************************************************************)
CONSTANTS Requests, Tenants, Keys, None

VARIABLES
  sent,    \* <<tenant, key or None>> of each request, None before it is sent
  owner,   \* the job a slot belongs to
  reply    \* the job a request was answered with

Slot == Tenants \X Keys
Keyless == Tenants \X {None}

Init ==
  /\ sent = [r \in Requests |-> None]
  /\ owner = [slot \in Slot |-> None]
  /\ reply = [r \in Requests |-> None]

Send(r) ==
  /\ sent[r] = None
  /\ \E as \in Slot \cup Keyless : sent' = [sent EXCEPT ![r] = as]
  /\ UNCHANGED <<owner, reply>>

\* The three answers: a job of one's own, the slot that was free, the slot's owner.
AnswerNew(r) ==
  /\ sent[r] \in Keyless /\ reply[r] = None
  /\ reply' = [reply EXCEPT ![r] = r]
  /\ UNCHANGED <<sent, owner>>

Claim(r) ==
  /\ sent[r] \in Slot /\ reply[r] = None
  /\ owner[sent[r]] = None
  /\ owner' = [owner EXCEPT ![sent[r]] = r]
  /\ reply' = [reply EXCEPT ![r] = r]
  /\ sent' = sent

Replay(r) ==
  /\ sent[r] \in Slot /\ reply[r] = None
  /\ owner[sent[r]] # None
  /\ reply' = [reply EXCEPT ![r] = owner[sent[r]]]
  /\ UNCHANGED <<sent, owner>>

Next == \E r \in Requests : Send(r) \/ AnswerNew(r) \/ Claim(r) \/ Replay(r)

Spec == Init /\ [][Next]_<<sent, owner, reply>>
=============================================================================
