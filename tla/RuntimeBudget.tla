---------------------------- MODULE RuntimeBudget ----------------------------
(***************************************************************************)
(* Runtime capabilities at the fabric (runtime.mjs): a capability carries  *)
(* the limits of the policy it was issued under, and each request with it  *)
(* is charged to the durable table `usage`.                                *)
(*                                                                         *)
(* issue and consume are one transaction each, so however many processes   *)
(* share the database they are steps here, and Store.clock refuses a clock *)
(* that goes back.  What makes the component hard is time: the limits are  *)
(* checked at the instants of requests and must hold for every interval,   *)
(* across capabilities and policies that come and go.                      *)
(*                                                                         *)
(* One subject is modelled; subjects share no budget.  What else a request *)
(* must match (columns, destination, device) only refuses more of them.    *)
(***************************************************************************)
EXTENDS Integers, Sequences, FiniteSetsExt

CONSTANTS
    Capabilities, \* that somebody may ask for
    ResourceOf,   \* the resource of a capability
    Requests,     \* request identifiers
    Costs,        \* what a request with a capability may cost: rows times
                  \* columns times weight, or 1 for service.connect
    Ceilings,     \* max_cost that may be asked for
    Lifetimes,    \* ttl_ms that may be asked for
    Policies,     \* the limits of each policy version
    Second,       \* the span of the rate and fan-out limits
    None,
    MaxTime       \* bound of the clock

Versions  == DOMAIN Policies
Resources == {ResourceOf[c] : c \in Capabilities}

Limit  == [duration : Nat \ {0}, limit : Nat \ {0}]
Policy == [max_cost : Nat, rate : Nat \ {0}, fanout : Nat \ {0}, windows : Seq(Limit)]

Capability == [policy : Versions, max_cost : Ceilings, issued_at : Nat, expires_at : Nat]
Charge     == [at : Nat, cost : Nat \ {0}, capability : Capabilities, request : Requests]

ASSUME BudgetAssumptions ==
    /\ Policies \in Seq(Policy) \ {<< >>}
    /\ Costs \in [Capabilities -> SUBSET (Nat \ {0})]
    /\ Ceilings \cup Lifetimes \subseteq Nat \ {0}
    /\ Second \in Nat \ {0}
    /\ MaxTime \in Nat
    /\ None \notin Capability

VARIABLES
    clock,
    active,  \* version of the active policy
    caps,    \* issued capabilities
    dead,    \* capabilities revoked, or whose resource has changed since
    usage    \* the table of charged requests

fabricVars == <<clock, active, caps, dead, usage>>

FabricTypeOK ==
    /\ clock \in 0..MaxTime
    /\ active \in Versions
    /\ caps \in [Capabilities -> Capability \cup {None}]
    /\ dead \subseteq {c \in Capabilities : caps[c] # None}
    /\ usage \subseteq Charge

FabricInit ==
    /\ clock = 0
    /\ active = 1
    /\ caps = [c \in Capabilities |-> None]
    /\ dead = {}
    /\ usage = {}
-----------------------------------------------------------------------------
Live(c) == caps[c] # None /\ caps[c].expires_at > clock /\ c \notin dead

\* The sums of consume.
Spent(charges) == MapThenSumSet(LAMBDA u : u.cost, charges)

OfCapability(c)   == {u \in usage : u.capability = c}
Since(duration)   == {u \in usage : u.at > clock - duration}
OfResource(r, duration) == {u \in Since(duration) : ResourceOf[u.capability] = r}

\* Deviation: what was spent with other capabilities is not counted.
AffordableAlone(c, cost) ==
    /\ Spent(OfCapability(c)) + cost <= caps[c].max_cost
    /\ \A i \in DOMAIN Policies[caps[c].policy].windows :
          LET w == Policies[caps[c].policy].windows[i] IN
          Spent(OfCapability(c) \cap Since(w.duration)) + cost <= w.limit

Affordable(c, cost) ==
    /\ Spent(OfCapability(c)) + cost <= caps[c].max_cost
    /\ \A i \in DOMAIN Policies[caps[c].policy].windows :
          LET w == Policies[caps[c].policy].windows[i] IN
          Spent(OfResource(ResourceOf[c], w.duration)) + cost <= w.limit

WithinRate(c) ==
    LET recent  == Since(Second)
        reached == {ResourceOf[u.capability] : u \in recent} IN
    /\ Cardinality(recent) < Policies[caps[c].policy].rate
    /\ ResourceOf[c] \in reached \/ Cardinality(reached) < Policies[caps[c].policy].fanout
-----------------------------------------------------------------------------
Tick ==
    /\ clock < MaxTime
    /\ clock' = clock + 1
    /\ UNCHANGED <<active, caps, dead, usage>>

\* A policy change has been executed; a capability names its policy's digest.
ActivatePolicy ==
    /\ active + 1 \in Versions
    /\ active' = active + 1
    /\ UNCHANGED <<clock, caps, dead, usage>>

Issue(c, max_cost, ttl) ==
    /\ caps[c] = None
    /\ max_cost <= Policies[active].max_cost
    /\ caps' = [caps EXCEPT ![c] = [policy |-> active, max_cost |-> max_cost,
                                    issued_at |-> clock, expires_at |-> clock + ttl]]
    /\ UNCHANGED <<clock, active, dead, usage>>

\* A revocation, or a change of the resource the capability was issued for.
Withdraw(c) ==
    /\ caps[c] # None
    /\ dead' = dead \cup {c}
    /\ UNCHANGED <<clock, active, caps, usage>>

Consume(c, r, cost) ==
    /\ Live(c)
    /\ caps[c].policy = active
    /\ \A u \in OfCapability(c) : u.request # r
    /\ Affordable(c, cost)
    /\ WithinRate(c)
    /\ usage' = usage \cup {[at |-> clock, cost |-> cost, capability |-> c, request |-> r]}
    /\ UNCHANGED <<clock, active, caps, dead>>

FabricNext ==
    \/ Tick
    \/ ActivatePolicy
    \/ \E c \in Capabilities :
          \/ \E max_cost \in Ceilings, ttl \in Lifetimes : Issue(c, max_cost, ttl)
          \/ Withdraw(c)
          \/ \E r \in Requests, cost \in Costs[c] : Consume(c, r, cost)
-----------------------------------------------------------------------------
\* Up to any request, and for every interval that ends with it, what was
\* charged to its resource under its policy or an earlier one is within the
\* limits its policy sets, however many capabilities it was charged to and in
\* whatever order (SRS DAT-002: rolling information budgets).
BudgetsHold ==
    \A u \in usage : LET p == caps[u.capability].policy IN
        \A i \in DOMAIN Policies[p].windows :
            LET w == Policies[p].windows[i] IN
            Spent({v \in usage : /\ v.at \in (u.at - w.duration + 1)..u.at
                                 /\ ResourceOf[v.capability] = ResourceOf[u.capability]
                                 /\ caps[v.capability].policy <= p}) <= w.limit

=============================================================================
