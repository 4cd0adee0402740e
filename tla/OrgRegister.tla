----------------------------- MODULE OrgRegister -----------------------------
(***************************************************************************)
(* What the org file promises those who change it: however many write at   *)
(* once, and whoever is interrupted, the org goes from change to change.   *)
(* Each writer's change is made whole, to the org as it is, or not at all; *)
(* and an operator's hand may break the file and mend it.                  *)
(***************************************************************************)
EXTENDS Org

VARIABLES
    org,         \* what the file says
    outcome      \* [Writers -> "open", "made" or "not"]

Init ==
    /\ org \in {NoFile, Settled}
    /\ outcome = [w \in Writers |-> "open"]

Make(w) ==
    /\ outcome[w] = "open"
    /\ \E c \in Changes : Allowed(org, c) /\ org' = Changed(org, c, w)
    /\ outcome' = [outcome EXCEPT ![w] = "made"]

Decline(w) ==
    /\ outcome[w] = "open"
    /\ outcome' = [outcome EXCEPT ![w] = "not"]
    /\ UNCHANGED org

\* An edit in place: gone, then there.
Break == Loads(org) /\ org' = Torn /\ UNCHANGED outcome
Mend  == org = Torn /\ org' \in {o \in Content : Sound(o)} /\ UNCHANGED outcome

Next == Break \/ Mend \/ \E w \in Writers : Make(w) \/ Decline(w)

Spec == Init /\ [][Next]_<<org, outcome>>

=============================================================================
