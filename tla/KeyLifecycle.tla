---------------------------- MODULE KeyLifecycle ----------------------------
(***************************************************************************)
(* The keys of one purpose of one tenant (key-lifecycle.mjs): rotation and *)
(* recovery by a quorum of custodians, revocation, destruction, and the    *)
(* chain of completed requests a starting process follows to its key.      *)
(*                                                                         *)
(* The database is shared by the workers and each transaction on it is     *)
(* atomic; the key a worker signs with is in that worker's memory, and is  *)
(* replaced in the middle of the transaction that activates a request.     *)
(*                                                                         *)
(* A request and the key it generates have one name here.  A challenge and *)
(* the envelope made from it are one with the approval it is used for: an  *)
(* envelope over another state of the request is refused.                  *)
(***************************************************************************)
EXTENDS Naturals, FiniteSets

CONSTANTS
    Workers,      \* processes that share the database
    Custodians,   \* root_custodians
    DomainOf,     \* the failure domain of each custodian
    Threshold,    \* root_threshold
    Requests,     \* bound: rotations and recoveries
    Suites,       \* cryptographic suites
    GenesisSuite, \* the suite of the configured key
    Genesis,      \* the configured key
    SignsAudit,   \* whether the purpose is audit: every transaction is signed
    Delay,        \* recovery_delay_ms
    Ttl,          \* the longest life of an approval
    MaxTime,      \* bound: the clock
    MaxStarts     \* bound: restarts

Keys == {Genesis} \cup Requests

\* list returns no more than the newest records of a kind.  All lists here are
\* complete as long as there are no more requests than that; once there are,
\* a start no longer finds the beginning of the chain: see the README.
ListLimit == 500

ASSUME KeyAssumptions ==
    /\ IsFiniteSet(Requests)
    /\ Cardinality(Requests) <= ListLimit
    /\ Threshold \in Nat \ {0}
    /\ GenesisSuite \in Suites
    /\ Genesis \notin Requests
    /\ SignsAudit \in BOOLEAN
    /\ {Delay, Ttl, MaxTime, MaxStarts} \subseteq Nat

VARIABLES
    clock,
    request,   \* key-rotation and key-recovery
    approvals, \* their approvals: until when each custodian's counts, or 0
    ceremony,  \* requests a key-ceremony is recorded for
    history,   \* key-history: retired keys
    revoked,   \* revocation: keys
    destroyed, \* key-procedure: keys recorded as destroyed
    live,      \* custodians who are not revoked
    mem,       \* the key in the memory of each worker
    starts,    \* bound counter of Restart
    log,       \* keys that have signed an entry of the audit chain
    newest,    \* the key of the last activation that was committed
    torn       \* keys of activations that failed with the memory replaced

records == <<request, approvals, ceremony>>

retired == <<history, revoked, destroyed>>

vars == <<clock, records, retired, live, mem, starts, log, newest, torn>>

\* The migration policy of a key only matters by when its suite may sign.
Request == [status : {"NONE", "PENDING", "DONE"},
            kind : {"rotation", "recovery"}, old : Keys,
            from : 0..(MaxTime + Delay), suite : Suites, active : 0..MaxTime]

TypeOK ==
    /\ clock \in 0..MaxTime
    /\ request \in [Requests -> Request]
    /\ approvals \in [Requests -> [Custodians -> 0..(MaxTime + Ttl)]]
    /\ \A r \in Requests, c \in Custodians : approvals[r][c] <= clock + Ttl
    /\ ceremony \subseteq {r \in Requests : request[r].status # "NONE"}
    /\ history \subseteq Keys
    /\ revoked \subseteq Keys
    /\ destroyed \subseteq history \cap revoked
    /\ live \subseteq Custodians
    /\ mem \in [Workers -> Keys]
    /\ starts \in 0..MaxStarts
    /\ log \subseteq Keys
    /\ newest \in Keys
    /\ torn \subseteq Requests

Init ==
    /\ clock = 0
    /\ request = [r \in Requests |->
                    [status |-> "NONE", kind |-> "rotation", old |-> Genesis,
                     from |-> 0, suite |-> GenesisSuite, active |-> 0]]
    /\ approvals = [r \in Requests |-> [c \in Custodians |-> 0]]
    /\ ceremony = {}
    /\ history = {}
    /\ revoked = {}
    /\ destroyed = {}
    /\ live = Custodians
    /\ mem = [w \in Workers |-> Genesis]
    /\ starts = 0
    /\ log = {}
    /\ newest = Genesis
    /\ torn = {}
-----------------------------------------------------------------------------
SuiteOf(k) == IF k = Genesis THEN GenesisSuite ELSE request[k].suite

ActiveFrom(k) == IF k = Genesis THEN 0 ELSE request[k].active

Pending(r) == request[r].status = "PENDING"

\* Every transaction ends with an entry of the audit chain; without a key
\* that may sign it, it fails, and so does the entry about its failure.
CanSign(k) == SignsAudit => clock >= ActiveFrom(k)

Logged(k) == log' = IF SignsAudit THEN log \cup {k} ELSE log

Transaction(w) == CanSign(mem[w]) /\ Logged(mem[w])

Domains(S) == Cardinality({DomainOf[c] : c \in S})

\* Custodians whose approval of r still counts.
Approvers(r) == {c \in live : approvals[r][c] > clock}

Quorum(r) == Domains(Approvers(r)) >= Threshold
-----------------------------------------------------------------------------
(* restore: a starting process follows the completed requests from the     *)
(* configured key, and refuses to start where two continue from one key.   *)

\* Deviation: restore only reads the rotations.
CompletedRotation(r) == request[r].status = "DONE" /\ request[r].kind = "rotation"

Completed(r) == request[r].status = "DONE"

Successors(k) == {r \in Requests : Completed(r) /\ request[r].old = k}

OnChain ==
    {k \in Keys : \A S \in SUBSET Keys :
        Genesis \in S /\ (\A j \in S : Successors(j) \subseteq S) => k \in S}

Restored(k) == k \in OnChain /\ Successors(k) = {}

\* A worker that dies and has not started again is one that takes no step.
Restart(w) ==
    /\ starts < MaxStarts
    /\ \A k \in OnChain : \A q, r \in Successors(k) : q = r
    /\ \E k \in Keys : Restored(k) /\ mem' = [mem EXCEPT ![w] = k]
    /\ starts' = starts + 1
    /\ UNCHANGED <<clock, records, retired, live, log, newest, torn>>

\* Any other transaction of the tenant, and the entry about a refused one.
Record(w) ==
    /\ Transaction(w)
    /\ UNCHANGED <<clock, records, retired, live, mem, starts, newest, torn>>
-----------------------------------------------------------------------------
(* Requests.                                                               *)

Ask(w, r, kind, from, s, active) ==
    /\ live # {}
    /\ request[r].status = "NONE"
    /\ Transaction(w)
    /\ request' = [request EXCEPT ![r] =
           [status |-> "PENDING", kind |-> kind, old |-> mem[w], from |-> from,
            suite |-> s, active |-> active]]
    /\ UNCHANGED <<clock, approvals, ceremony, retired, live, mem, starts,
                   newest, torn>>

\* Deviation: any suite may be asked for.
StartRotationAnySuite(w, r) ==
    \E s \in Suites, from \in clock..MaxTime, active \in 0..MaxTime :
        /\ s = SuiteOf(mem[w]) => active = ActiveFrom(mem[w])
        /\ Ask(w, r, "rotation", from, s, active)

\* A new suite comes with a policy that says from when it may sign, whatever
\* the time of the rotation; the old suite keeps the policy it has.
StartRotation(w, r) ==
    \E s \in Suites, from \in clock..MaxTime, active \in 0..MaxTime :
        /\ IF s = SuiteOf(mem[w])
           THEN active = ActiveFrom(mem[w])
           ELSE s \notin {SuiteOf(k) : k \in history}
        /\ Ask(w, r, "rotation", from, s, active)

StartRecovery(w, r) ==
    Ask(w, r, "recovery", clock + Delay, SuiteOf(mem[w]), ActiveFrom(mem[w]))

\* The attesting custodians are as independent as the approving ones.
Ceremony(w, r) ==
    /\ Pending(r)
    /\ Domains(live) >= Threshold
    /\ Transaction(w)
    /\ ceremony' = ceremony \cup {r}
    /\ UNCHANGED <<clock, request, approvals, retired, live, mem, starts, newest,
                   torn>>

\* approve and approveRecovery.
Approve(w, c, r) ==
    /\ c \in live
    /\ Pending(r)
    /\ approvals[r][c] = 0
    /\ Transaction(w)
    /\ \E e \in (clock + 1)..(clock + Ttl) :
           approvals' = [approvals EXCEPT ![r][c] = e]
    /\ UNCHANGED <<clock, request, ceremony, retired, live, mem, starts, newest,
                   torn>>
-----------------------------------------------------------------------------
(* activateRotation and completeRecovery.                                  *)

Eligible(w, r) ==
    /\ live # {}
    /\ Pending(r)
    /\ request[r].old = mem[w]
    /\ r \in ceremony
    /\ clock >= request[r].from
    /\ Quorum(r)

\* Deviation: the history is written over.
UnretiredOrNot(k) == k \in Keys

\* The insertion into the history fails for a key that is already there.
Unretired(k) == k \notin history

\* Deviations: the replaced key is not kept for verification, or not revoked.
ActivateForgets(w, r) ==
    /\ Eligible(w, r)
    /\ Unretired(mem[w])
    /\ CanSign(r)
    /\ Logged(r)
    /\ revoked' = revoked \cup {mem[w]}
    /\ mem' = [mem EXCEPT ![w] = r]
    /\ request' = [request EXCEPT ![r].status = "DONE"]
    /\ newest' = r
    /\ UNCHANGED <<clock, approvals, ceremony, history, destroyed, live, starts,
                   torn>>

ActivateUnrevoked(w, r) ==
    /\ Eligible(w, r)
    /\ Unretired(mem[w])
    /\ CanSign(r)
    /\ Logged(r)
    /\ history' = history \cup {mem[w]}
    /\ mem' = [mem EXCEPT ![w] = r]
    /\ request' = [request EXCEPT ![r].status = "DONE"]
    /\ newest' = r
    /\ UNCHANGED <<clock, approvals, ceremony, revoked, destroyed, live, starts,
                   torn>>

\* The worker's key is retired and revoked, its memory is replaced, and the
\* new key signs the entry about it.
Activate(w, r) ==
    /\ Eligible(w, r)
    /\ Unretired(mem[w])
    /\ CanSign(r)
    /\ Logged(r)
    /\ history' = history \cup {mem[w]}
    /\ revoked' = revoked \cup {mem[w]}
    /\ mem' = [mem EXCEPT ![w] = r]
    /\ request' = [request EXCEPT ![r].status = "DONE"]
    /\ newest' = r
    /\ UNCHANGED <<clock, approvals, ceremony, destroyed, live, starts, torn>>

\* Once the memory is replaced a statement may fail: for an audit key whose
\* suite may not sign yet the entry always does.  The database is rolled
\* back, and the memory is not.
ActivateTorn(w, r) ==
    /\ Eligible(w, r)
    /\ Unretired(mem[w])
    /\ mem' = [mem EXCEPT ![w] = r]
    /\ torn' = torn \cup {r}
    /\ UNCHANGED <<clock, records, retired, live, starts, log, newest>>
-----------------------------------------------------------------------------
\* Any key that exists may be revoked, the current one too.
Revoke(w, k) ==
    /\ k \in {Genesis} \cup {r \in Requests : request[r].status # "NONE"}
    /\ Transaction(w)
    /\ revoked' = revoked \cup {k}
    /\ UNCHANGED <<clock, records, history, destroyed, live, mem, starts, newest,
                   torn>>

\* Deviation: a revoked key that is still in use is destroyed.
DestroyInUse(w, k) ==
    /\ live # {}
    /\ k \in revoked
    /\ Transaction(w)
    /\ destroyed' = destroyed \cup {k}
    /\ UNCHANGED <<clock, records, history, revoked, live, mem, starts, newest,
                   torn>>

Destroy(w, k) ==
    /\ live # {}
    /\ k \in history
    /\ k \in revoked
    /\ Transaction(w)
    /\ destroyed' = destroyed \cup {k}
    /\ UNCHANGED <<clock, records, history, revoked, live, mem, starts, newest,
                   torn>>

\* The identity of a custodian is revoked.
Dismiss(w, c) ==
    /\ c \in live
    /\ Transaction(w)
    /\ live' = live \ {c}
    /\ UNCHANGED <<clock, records, retired, mem, starts, newest, torn>>

Tick ==
    /\ clock < MaxTime
    /\ clock' = clock + 1
    /\ UNCHANGED <<records, retired, live, mem, starts, log, newest, torn>>

Next ==
    \/ \E w \in Workers : Restart(w) \/ Record(w)
    \/ \E w \in Workers, r \in Requests :
           \/ StartRotation(w, r)
           \/ StartRecovery(w, r)
           \/ Ceremony(w, r)
           \/ \E c \in Custodians : Approve(w, c, r)
           \/ Activate(w, r)
           \/ ActivateTorn(w, r)
    \/ \E w \in Workers, k \in Keys : Revoke(w, k) \/ Destroy(w, k)
    \/ \E w \in Workers, c \in Custodians : Dismiss(w, c)
    \/ Tick

Spec == Init /\ [][Next]_vars
-----------------------------------------------------------------------------
(* Properties.                                                             *)

\* The chain of a starting process never forks, whichever workers activate
\* requests made from one key, also after activations that failed half way:
\* restore never refuses to start.
OneSuccessor == \A k \in Keys : \A q, r \in Successors(k) : q = r

\* What a restart finds is never a retired key, so never one whose
\* destruction is recorded, and as long as no activation has failed half way
\* it is the key of the last activation.
RestartIsCurrent ==
    \A k \in Keys : Restored(k) =>
        /\ k \notin history \cup destroyed
        /\ torn = {} => k = newest

\* The public keys a restarted process exports (publicMaterial) verify every
\* entry of the audit chain, the entries included that workers signed with a
\* key another worker had replaced.
AuditStaysVerifiable ==
    torn = {} => \A k \in Keys : Restored(k) => log \subseteq history \cup {k}

\* Of the keys a worker accepts, its own and the retired ones that are not
\* revoked, only the newest is left: a key that was rotated or recovered
\* authorises nothing in any worker, also in one that still signs with it.
RetiredAuthoriseNothing ==
    torn = {} => \A w \in Workers :
        (history \cup {mem[w]}) \ revoked \subseteq {newest}

\* A committed activation never goes back to a suite that has been left.
SuitesNeverReturn ==
    [][torn = {} /\ newest' # newest =>
         \/ SuiteOf(newest') = SuiteOf(newest)
         \/ \A k \in history : SuiteOf(k) # SuiteOf(newest')]_vars
=============================================================================
