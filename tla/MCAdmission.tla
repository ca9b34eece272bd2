---------------------------- MODULE MCAdmission ----------------------------
\* Instances of MailboxAdmission for TLC.
EXTENDS MailboxAdmission, TLC

CONSTANTS u1, u2, big, sys

\* Two small user messages, a larger one of lower priority, a system message.
MCMessages == {u1, u2, big, sys}
MCSystem == {sys}
MCSize == [m \in MCMessages |-> IF m = big THEN 2 ELSE 1]
MCPriority == [m \in MCMessages |-> IF m = big THEN 1 ELSE 0]
Symmetry == Permutations(Producers) \cup Permutations({u1, u2})

\* No action and no property tells the ways apart in which a message has ended,
\* or looks at the lane it was in.
Ended(m) == at[m] \in {"dropped", "rejected", "dead_letter", "lost", "received"}
MCView ==
    <<[vars EXCEPT ![2][1] = [m \in Messages |-> IF Ended(m) THEN "received" ELSE at[m]],
                   ![2][2] = [m \in Messages |-> IF Ended(m) THEN 0 ELSE lane[m]]]>>
=============================================================================
