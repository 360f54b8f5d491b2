---------------------------- MODULE NetworkUsage ----------------------------
(***************************************************************************)
(* The usage memory of a network gate (network.mjs) beside the fabric that *)
(* issues its capabilities.  The gate keeps to the limits of its policy    *)
(* with incremental structures: one queue per duration with a head index   *)
(* and a count of destinations, created when first needed, advanced when   *)
(* looked at, compacted when half of it is past, and a prune once a second *)
(* that may forget everything.  `log`, what the gate has allowed, is no    *)
(* part of the program: it is what the memory is measured against.         *)
(*                                                                         *)
(* One device of one subject is modelled, which is one entry of the gate's *)
(* #usage map.  Health, quarantine, the revocations of the feed and the    *)
(* request rate of the gate's control calls only refuse more.              *)
(***************************************************************************)
EXTENDS RuntimeBudget, Bags, SequencesExt

CONSTANTS
    Services,   \* capabilities for service.connect, which a gate may import
    GatePolicy, \* the policy whose digest the gate was constructed with
    CacheSize,  \* maxEntries
    Longest,    \* how long a call is remembered, 30 days
    MaxIssued,  \* bound: issued capabilities
    MaxCalls    \* bound: requests charged at the fabric or allowed at the gate

\* The rate limit is a window of one second like the others, tried first.
Rule == <<[duration |-> Second, limit |-> Policies[GatePolicy].rate]>>
            \o Policies[GatePolicy].windows

Durations == {Rule[i].duration : i \in DOMAIN Rule}

\* The memory of a gate.
Call  == [at : Nat, destination : Resources]
Queue == [items : Seq(Call), head : Nat,
          destinations : UNION {[D -> Nat \ {0}] : D \in SUBSET Resources}]
Usage == [last : Nat, calls : Seq(Call), windows : [Durations -> Queue],
          seen  : UNION {[R -> Nat] : R \in SUBSET Requests},
          costs : UNION {[C -> [cost : Nat, expires_at : Nat]] : C \in SUBSET Services}]

ASSUME GateAssumptions ==
    /\ Services \subseteq Capabilities
    /\ GatePolicy \in Versions
    /\ CacheSize \in Nat \ {0} /\ {MaxIssued, MaxCalls} \subseteq Nat
    /\ Longest \in Nat /\ \A i \in DOMAIN Rule : Rule[i].duration <= Longest
    /\ None \notin Usage

VARIABLES
    cached,    \* imported capabilities
    memory,    \* the usage entry, or None
    nextPrune,
    log

gateVars == <<cached, memory, nextPrune, log>>
vars     == <<fabricVars, gateVars>>

Fresh == [last |-> clock, calls |-> << >>, windows |-> << >>, seen |-> << >>, costs |-> << >>]

QueueOK(q) ==
    /\ q.items \in Seq(Call)
    /\ q.head \in 0..Len(q.items)
    /\ IsABag(q.destinations) /\ DOMAIN q.destinations \subseteq Resources

TypeOK ==
    /\ FabricTypeOK
    /\ cached \subseteq {c \in Services : caps[c] # None}
    /\ memory # None =>
          /\ memory.last \in 0..clock
          /\ memory.calls \in Seq(Call)
          /\ DOMAIN memory.windows = Durations
          /\ \A d \in Durations : QueueOK(memory.windows[d])
          /\ DOMAIN memory.seen \subseteq Requests
          /\ DOMAIN memory.costs \subseteq cached
    /\ nextPrune \in 0..(MaxTime + Second)
    /\ \A k \in log : k.capability \in Services /\ k.request \in Requests /\ k.at \in 0..clock

Init ==
    /\ FabricInit
    /\ cached = {}
    /\ memory = None
    /\ nextPrune = 0
    /\ log = {}
-----------------------------------------------------------------------------
(* The queue of one duration.                                              *)

NewerThan(items, time) ==
    LET newer[n \in 0..Len(items)] ==
            IF n = 0 THEN << >>
            ELSE IF items[n].at > time THEN Append(newer[n - 1], items[n]) ELSE newer[n - 1]
    IN newer[Len(items)]

Destinations(items)    == [i \in DOMAIN items |-> items[i].destination]
Ahead(q)               == SubSeq(q.items, q.head + 1, Len(q.items))

\* Deviation: the items are cut off but the head stays where it was.
CompactedOnce(q) ==
    IF 2 * q.head >= Len(q.items) THEN [q EXCEPT !.items = Ahead(q)] ELSE q

Compacted(q) ==
    IF 2 * q.head >= Len(q.items) THEN [q EXCEPT !.items = Ahead(q), !.head = 0] ELSE q

\* The head passes what has left the window, up to the first item that has
\* not, and its destinations with it.
Passed(q, time) ==
    Min({n \in q.head..Len(q.items) : n = Len(q.items) \/ q.items[n + 1].at > time})

Advanced(q, duration) ==
    LET head == Passed(q, clock - duration)
        past == SubSeq(q.items, q.head + 1, head)
    IN
    Compacted([q EXCEPT !.head = head,
                        !.destinations = @ (-) ToBag(Destinations(past))])

\* #window: created from the remembered calls when first needed.
WindowOf(u, duration) ==
    Advanced(IF duration \in DOMAIN u.windows THEN u.windows[duration]
             ELSE LET items == NewerThan(u.calls, clock - duration) IN
                  [items |-> items, head |-> 0, destinations |-> ToBag(Destinations(items))],
             duration)

\* The usage after the first n limits have been looked at.
Looked(u, n) ==
    LET D == {Rule[i].duration : i \in 1..n} IN
    [u EXCEPT !.windows = [d \in DOMAIN @ \cup D |-> IF d \in D THEN WindowOf(u, d) ELSE @[d]]]

\* Deviation: a destination that is counted already is not counted again.
EnteredOnce(q, call) ==
    [q EXCEPT !.items = Append(@, call),
              !.destinations = @ (+) SetToBag({call.destination} \ DOMAIN @)]

\* A call enters every window that exists.
Entered(q, call) ==
    [q EXCEPT !.items = Append(@, call),
              !.destinations = @ (+) SetToBag({call.destination})]
-----------------------------------------------------------------------------
(* #pruneUsage.                                                            *)

Kept(f, Keep(_)) == [x \in {y \in DOMAIN f : Keep(y)} |-> f[x]]

\* Deviation: the costs of a capability go with its last remembered call.
PrunedWithCalls(u, present) ==
    LET v == [u EXCEPT !.calls   = NewerThan(@, clock - Longest),
                       !.windows = [d \in DOMAIN @ |-> Advanced(@[d], d)],
                       !.seen    = Kept(@, LAMBDA r : u.seen[r] > clock)]
    IN IF v.calls = << >> THEN None ELSE v

Pruned(u, present) ==
    LET v == [u EXCEPT !.calls   = NewerThan(@, clock - Longest),
                       !.windows = [d \in DOMAIN @ |-> Advanced(@[d], d)],
                       !.seen    = Kept(@, LAMBDA r : u.seen[r] > clock),
                       !.costs   = Kept(@, LAMBDA c : u.costs[c].expires_at > clock /\ c \in present)]
    IN IF v.calls = << >> /\ v.seen = << >> /\ v.costs = << >> THEN None ELSE v

PrunedMemory(present) == IF memory = None THEN None ELSE Pruned(memory, present)
-----------------------------------------------------------------------------
\* importCapability; what has expired makes room first, even for a refusal.
Import(c) ==
    LET present == {d \in cached : caps[d].expires_at > clock} IN
    /\ c \in Services
    /\ caps[c] # None
    /\ caps[c].expires_at > clock
    /\ caps[c].policy = GatePolicy
    /\ memory' = PrunedMemory(present)
    /\ cached' = IF Cardinality(present) < CacheSize THEN present \cup {c} ELSE present
    /\ UNCHANGED <<fabricVars, nextPrune, log>>

\* The limits that a usage has reached, for a call to a destination.
Reached(u, destination) ==
    {i \in DOMAIN Rule :
        LET q == WindowOf(u, Rule[i].duration) IN
        \/ Len(q.items) - q.head >= Rule[i].limit
        \/ /\ i = 1
           /\ destination \notin DOMAIN q.destinations
           /\ Cardinality(DOMAIN q.destinations) >= Policies[GatePolicy].fanout}

CostOf(u, c) == IF c \in DOMAIN u.costs THEN u.costs[c].cost ELSE 0

\* One entry of a map, set.
Put(f, x, v) == [y \in DOMAIN f \cup {x} |-> IF y = x THEN v ELSE f[y]]

\* The usage after a call with capability c and request r.
Charged(u, c, r) ==
    LET call == [at |-> clock, destination |-> ResourceOf[c]] IN
    [last    |-> clock,
     calls   |-> Append(u.calls, call),
     windows |-> [d \in DOMAIN u.windows |-> Entered(u.windows[d], call)],
     seen    |-> Put(u.seen, r, caps[c].expires_at),
     costs   |-> Put(u.costs, c, [cost |-> CostOf(u, c) + 1, expires_at |-> caps[c].expires_at])]

\* decide, from the point where it is certain that the capability is valid.
\* What it refuses leaves a usage that is already kept with some windows
\* advanced, and one that is not kept unborn.
Decide(c, r) ==
    LET kept    == IF clock >= nextPrune THEN PrunedMemory(cached) ELSE memory
        u       == IF kept = None THEN Fresh ELSE kept
        reached == Reached(u, ResourceOf[c])
        refused == r \in DOMAIN u.seen \/ CostOf(u, c) >= caps[c].max_cost
        looked  == IF reached = {} THEN Len(Rule) ELSE Min(reached)
    IN
    /\ c \in cached
    /\ caps[c].expires_at > clock
    /\ clock >= u.last
    /\ nextPrune' = IF clock >= nextPrune THEN clock + Second ELSE nextPrune
    /\ \/ /\ refused
          /\ memory' = kept
          /\ UNCHANGED log
       \/ /\ ~refused /\ reached # {}
          /\ memory' = IF kept = None THEN None ELSE Looked(u, looked)
          /\ UNCHANGED log
       \/ /\ ~refused /\ reached = {}
          /\ memory' = Charged(Looked(u, looked), c, r)
          /\ log' = log \cup {[at |-> clock, capability |-> c, request |-> r]}
    /\ UNCHANGED <<fabricVars, cached>>

\* The fabric and the gate share no counts, so a behaviour needs only one.
Bounded ==
    /\ cached = {} \/ usage \cup dead = {}
    /\ Cardinality({c \in Capabilities : caps[c] # None}) <= MaxIssued
    /\ Cardinality(usage) + Cardinality(log) <= MaxCalls

Next ==
    /\ \/ FabricNext /\ UNCHANGED gateVars
       \/ \E c \in Services : Import(c) \/ \E r \in Requests : Decide(c, r)
    /\ Bounded'

Spec == Init /\ [][Next]_vars
-----------------------------------------------------------------------------
(* What the gate is for, said of the log alone.                            *)

Allowed(duration) == {k \in log : k.at > clock - duration}

\* A request identifier counts as new again when the capability it was used
\* with has expired.
New(r) == \A k \in log : k.request = r => caps[k.capability].expires_at <= clock

WithinLimits(c) ==
    /\ Cardinality({k \in log : k.capability = c}) < caps[c].max_cost
    /\ \A i \in DOMAIN Rule : Cardinality(Allowed(Rule[i].duration)) < Rule[i].limit
    /\ LET reached == {ResourceOf[k.capability] : k \in Allowed(Second)} IN
       ResourceOf[c] \in reached \/ Cardinality(reached) < Policies[GatePolicy].fanout

\* The incremental memory decides every request as the limits over everything
\* ever allowed would: advancing, compacting, pruning, importing again and
\* forgetting lose nothing that still counts and keep nothing that does not.
\* Only an identifier whose capability has expired may be refused for longer,
\* until the next prune (network.mjs decide; SRS RUN-002 and NET-004).
DecidesAsDefined ==
    [][\A c \in Services, r \in Requests : Decide(c, r) =>
          /\ log' # log => New(r) /\ WithinLimits(c)
          /\ WithinLimits(c) /\ (\A k \in log : k.request # r) => log' # log]_vars

\* Every queue holds ahead of its head all calls of its window that the gate
\* has allowed, and counts their destinations.
WindowsAreExact ==
    memory # None => \A d \in DOMAIN memory.windows :
        LET q == memory.windows[d]
            live == NewerThan(Ahead(q), clock - d)
        IN /\ Len(live) = Cardinality(Allowed(d))
           /\ q.destinations = ToBag(Destinations(Ahead(q)))
=============================================================================
