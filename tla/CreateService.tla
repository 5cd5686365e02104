--------------------------- MODULE CreateService ---------------------------
(***************************************************************************)
(* What BeginCreateWithBatch promises each caller, whatever the batching:  *)
(* the caller hears at most once about its machine, "success" only if the  *)
(* creation was accepted, "apiError" only if it was not; an operational    *)
(* error leaves the caller in the dark.                                    *)
(***************************************************************************)
CONSTANTS Requests

VARIABLES outcome,   \* request -> "none", "submitted", an answer, or "gaveUp"
          created    \* requests whose machine creation Azure accepted

serviceVars == <<outcome, created>>

Answers == {"success", "apiError", "opError"}

Init == outcome = [r \in Requests |-> "none"] /\ created = {}

Submit(r) ==
    /\ outcome[r] = "none"
    /\ outcome' = [outcome EXCEPT ![r] = "submitted"]
    /\ UNCHANGED created

\* Azure accepts several creations in one call, also of callers that no longer wait.
Accept(R) ==
    /\ \A r \in R : outcome[r] \in {"submitted", "gaveUp"} /\ r \notin created
    /\ created' = created \cup R
    /\ UNCHANGED outcome

Answer(r, a) ==
    /\ outcome[r] = "submitted"
    /\ a = "success" => r \in created
    /\ a = "apiError" => r \notin created
    /\ outcome' = [outcome EXCEPT ![r] = a]
    /\ UNCHANGED created

\* Turned away before it is submitted.
Refuse(r) ==
    /\ outcome[r] = "none"
    /\ outcome' = [outcome EXCEPT ![r] = "opError"]
    /\ UNCHANGED created

GiveUp(r) ==
    /\ outcome[r] = "submitted"
    /\ outcome' = [outcome EXCEPT ![r] = "gaveUp"]
    /\ UNCHANGED created

\* An answered caller comes back with a new machine.
Renew(r) ==
    /\ outcome[r] \in Answers
    /\ outcome' = [outcome EXCEPT ![r] = "none"]
    /\ created' = created \ {r}

Next ==
    \/ \E r \in Requests :
          \/ Submit(r) \/ Refuse(r) \/ GiveUp(r) \/ Renew(r)
          \/ \E a \in Answers : Answer(r, a)
    \/ \E R \in SUBSET Requests : Accept(R)

Spec == Init /\ [][Next]_serviceVars
=============================================================================
