-------------------------- MODULE LeadershipLease ---------------------------
(***************************************************************************)
(* A singleton elected through a leadership backend: every node's          *)
(* SingletonManagerCore asks its LeadershipBackendAdapter, which asks the  *)
(* backend (FakeLeadershipBackend) that issues leases and fencing tokens.  *)
(* Managers run on different nodes: only the backend's mutex is shared, so *)
(* a manager acts on an answer that may no longer hold.                    *)
(***************************************************************************)
EXTENDS Naturals

CONSTANTS
    Candidates,     \* nodes with a manager and an adapter
    MaxToken,       \* bound: leases issued
    NoOwner         \* model value

ASSUME LeaseAssumption == MaxToken \in Nat \ {0} /\ NoOwner \notin Candidates

VARIABLES
    stored,         \* the backend's StoredLease: present, owned, owner, token
    next_token,
    unavailable,
    told,           \* what try_acquire told each manager that has not concluded yet
    cached,         \* leases_ of each adapter: the token, or 0
    state,          \* SingletonState in each manager
    token           \* identity.fencing_token in each manager

backend == <<stored, next_token, unavailable>>
manager == <<cached, state, token>>
leaseVars == <<backend, told, manager>>

\* The backend has no entry for the singleton: it cannot be acquired until
\* force_grant() makes one.
NoLease == [present |-> FALSE, owned |-> FALSE, owner |-> NoOwner, token |-> 0]

\* An answer is the owner and token of a lease; Unasked: none is awaited.
NoWinner == [asked |-> TRUE, owner |-> NoOwner, token |-> 0]
Unasked == [asked |-> FALSE, owner |-> NoOwner, token |-> 0]

LeaseInit ==
    /\ stored = NoLease
    /\ next_token = 1
    /\ unavailable = FALSE
    /\ told = [n \in Candidates |-> Unasked]
    /\ cached = [n \in Candidates |-> 0]
    /\ state = [n \in Candidates |-> "Standby"]
    /\ token = [n \in Candidates |-> 0]

Grant(n) == [present |-> TRUE, owned |-> TRUE, owner |-> n, token |-> next_token]

Acquirable == ~unavailable /\ stored.present /\ ~stored.owned

\* try_acquire: a free lease is granted with a new token; the owner gets its
\* lease again; anyone else learns the owner.
TryAcquire(n) ==
    IF Acquirable
    THEN /\ next_token <= MaxToken
         /\ stored' = Grant(n)
         /\ next_token' = next_token + 1
    ELSE UNCHANGED <<stored, next_token>>

\* on_node_state_change asks through the adapter's elect().  The backend's
\* mutex covers this step only: what follows is the manager's own.
Ask(n) ==
    /\ ~told[n].asked
    /\ TryAcquire(n)
    /\ told' = [told EXCEPT ![n] =
                    IF ~unavailable /\ stored'.owned
                    THEN [asked |-> TRUE, owner |-> stored'.owner, token |-> stored'.token]
                    ELSE NoWinner]
    /\ UNCHANGED <<unavailable, manager>>

\* on_node_state_change, lines for a node that did not win.
StepDown(n) == IF state[n] \in {"Active", "Draining"} THEN "Standby" ELSE state[n]

\* Mutant: the token is counted up locally.
ActivateLocally(n) ==
    /\ state' = [state EXCEPT ![n] = IF @ = "Standby" THEN "Active" ELSE @]
    /\ token' = [token EXCEPT ![n] = IF state[n] = "Standby" THEN @ + 1 ELSE @]

\* The winner activates with the backend's token; one that is active or
\* draining keeps its state and the token it has.
Activate(n) ==
    /\ state' = [state EXCEPT ![n] = IF @ = "Standby" THEN "Active" ELSE @]
    /\ token' = [token EXCEPT ![n] = IF state[n] = "Standby" THEN
                    IF cached'[n] > 0 THEN cached'[n] ELSE @ + 1 ELSE @]

\* The rest of elect() and of on_node_state_change, when the thread goes on:
\* by then the backend may have given the lease to another node.
Conclude(n) ==
    /\ told[n].asked
    /\ cached' = [cached EXCEPT ![n] = told[n].token]
    /\ IF told[n].owner = n
       THEN Activate(n)
       ELSE /\ state' = [state EXCEPT ![n] = StepDown(n)]
            /\ UNCHANGED token
    /\ told' = [told EXCEPT ![n] = Unasked]
    /\ UNCHANGED backend

\* begin_drain and complete_drain take the manager's mutex, which a manager
\* that waits for the backend holds.
LeaderDrains(n) ==
    /\ ~told[n].asked /\ state[n] = "Active"
    /\ state' = [state EXCEPT ![n] = "Draining"]
    /\ UNCHANGED <<backend, told, cached, token>>

LeaderDrained(n) ==
    /\ ~told[n].asked /\ state[n] = "Draining"
    /\ state' = [state EXCEPT ![n] = "Standby"]
    /\ UNCHANGED <<backend, told, cached, token>>

\* release() with the lease of n, by the operator of the backend.
Release(n) ==
    /\ ~unavailable /\ stored.present /\ stored.owned /\ stored.owner = n
    /\ stored' = [stored EXCEPT !.owned = FALSE]
    /\ UNCHANGED <<next_token, unavailable, told, manager>>

Renew(n) ==
    /\ ~unavailable /\ stored.present /\ stored.owned /\ stored.owner = n
    /\ next_token <= MaxToken
    /\ stored' = [stored EXCEPT !.token = next_token]
    /\ next_token' = next_token + 1
    /\ UNCHANGED <<unavailable, told, manager>>

ForceGrant(n) ==
    /\ next_token <= MaxToken
    /\ stored' = Grant(n)
    /\ next_token' = next_token + 1
    /\ UNCHANGED <<unavailable, told, manager>>

ForceRevoke ==
    /\ stored.present
    /\ stored' = NoLease
    /\ UNCHANGED <<next_token, unavailable, told, manager>>

SimulateUnavailable ==
    /\ unavailable' = ~unavailable
    /\ UNCHANGED <<stored, next_token, told, manager>>

LeaseNext ==
    \/ \E n \in Candidates : \/ Ask(n) \/ Conclude(n)
                             \/ LeaderDrains(n) \/ LeaderDrained(n)
                             \/ Release(n) \/ Renew(n) \/ ForceGrant(n)
    \/ ForceRevoke \/ SimulateUnavailable

LeaseSpec == LeaseInit /\ [][LeaseNext]_leaseVars

-----------------------------------------------------------------------------
\* The backend's and the managers' fields have their types, and no manager is
\* left in Activating.
LeaseTypeOK ==
    /\ stored.owner \in Candidates \cup {NoOwner}
    /\ next_token \in 1 .. MaxToken + 1
    /\ cached \in [Candidates -> 0 .. MaxToken]
    /\ state \in [Candidates -> {"Standby", "Active", "Draining"}]

\* n was told that it owns the lease and has yet to act on it.
Won(n) == told[n].owner = n

\* No two nodes ever run the singleton under one fencing token, nor are about
\* to, whatever leases are granted, renewed, revoked or lost in between and
\* however late a manager acts on what it was told.
TokensDistinct ==
    \A m, n \in Candidates : m # n =>
        /\ token[m] # 0 => token[m] # token[n]
        /\ Won(m) => told[m].token # token[n]
        /\ Won(m) /\ Won(n) => told[m].token # told[n].token

\* The lease that is owned fences every other node: the one a manager runs
\* under, and the one a delayed manager is about to run under.
OwnerFences ==
    stored.owned =>
        \A m \in Candidates \ {stored.owner} :
            token[m] < stored.token /\ (Won(m) => told[m].token < stored.token)

\* A node never runs the singleton under an older token than it did before.
TokenGrows == [][\A n \in Candidates : token'[n] >= token[n]]_leaseVars

\* Tokens are distinct and only grow, and the owner's fences all others.
LeaseSafety == [](LeaseTypeOK /\ TokensDistinct /\ OwnerFences) /\ TokenGrows

-----------------------------------------------------------------------------
(* What the documentation promises and the code does not keep.             *)

\* A manager's token is that of its lease after each election it wins.
TokenCurrent ==
    [][\A n \in Candidates : Conclude(n) /\ state'[n] = "Active" =>
          token'[n] = cached'[n]]_leaseVars
=============================================================================
