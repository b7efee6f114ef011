-------------------------- MODULE SequentialReview --------------------------
(***************************************************************************)
(* The review desk as a client may think of it, without lookups, races or  *)
(* audit: cases arrive, and a request deals with the ids of its list one   *)
(* after the other, with each at a single instant.  It decides the case if *)
(* it is its tenant's and open then, and otherwise says truly why not.  A  *)
(* request that is cut short has dealt with the first ids of its list.     *)
(***************************************************************************)
EXTENDS Naturals, Sequences

CONSTANTS Deciders, CaseId, Asks, None,
  Arrivals   \* the sets of cases that arrive together

VARIABLES rows, ask, resolved, conflicts

Open == [status |-> "open", by |-> None]
Verdict(d) == [status |-> IF ask[d].action = "approve" THEN "approved" ELSE "rejected", by |-> d]

Init ==
  /\ rows = [c \in CaseId |-> None]
  /\ ask = [d \in Deciders |-> None]
  /\ resolved = [d \in Deciders |-> <<>>] /\ conflicts = [d \in Deciders |-> <<>>]

Arrive(cases) ==
  /\ rows' = [c \in CaseId |-> IF c \in cases /\ rows[c] = None THEN Open ELSE rows[c]]
  /\ UNCHANGED <<ask, resolved, conflicts>>

Request(d, q) ==
  /\ ask[d] = None
  /\ ask' = [ask EXCEPT ![d] = q]
  /\ UNCHANGED <<rows, resolved, conflicts>>

Answered(d) == Len(resolved[d]) + Len(conflicts[d])
InHand(d) == ask[d] # None /\ Answered(d) < Len(ask[d].ids)
Due(d) == ask[d].ids[Answered(d) + 1]
Visible(d) == Due(d)[1] = ask[d].tenant /\ rows[Due(d)] # None

Grant(d) ==
  /\ InHand(d) /\ Visible(d) /\ rows[Due(d)].status = "open"
  /\ rows' = [rows EXCEPT ![Due(d)] = Verdict(d)]
  /\ resolved' = [resolved EXCEPT ![d] = Append(@, Due(d))]
  /\ UNCHANGED <<ask, conflicts>>

Refuse(d, reason) ==
  /\ InHand(d)
  /\ \/ reason = "not_found" /\ ~Visible(d)
     \/ reason # "not_found" /\ Visible(d) /\ rows[Due(d)].status # "open"
  /\ conflicts' = [conflicts EXCEPT ![d] = Append(@, [case |-> Due(d), reason |-> reason])]
  /\ UNCHANGED <<rows, ask, resolved>>

Next ==
  \/ \E cases \in Arrivals : Arrive(cases)
  \/ \E d \in Deciders :
       \/ \E q \in Asks : Request(d, q)
       \/ Grant(d)
       \/ \E reason \in {"not_found", "already_resolved", "concurrent_update"} : Refuse(d, reason)

Spec == Init /\ [][Next]_<<rows, ask, resolved, conflicts>>
=============================================================================
