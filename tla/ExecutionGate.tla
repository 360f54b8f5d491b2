--------------------------- MODULE ExecutionGate ---------------------------
(***************************************************************************)
(* The commit gate: how a certified action capsule reaches the target and  *)
(* how its outcome comes back (Fabric.execute, finish, reconcile, cancel). *)
(*                                                                         *)
(* Every gate worker is a process or worker thread with its own Fabric     *)
(* over two shared SQLite files.  One immediate transaction on either file *)
(* is one atomic step; an execution takes three of them                    *)
(*     reserve (fabric.db)  ->  apply (target.db)  ->  finish (fabric.db)  *)
(* and a reconciliation reads outside any transaction before its finish,   *)
(* so other workers interleave and the process may die between any two.    *)
(*                                                                         *)
(* The predicates that make a capsule eligible (evidence, approvals,       *)
(* revocation, health, expiry) only restrict when Certify and Reserve      *)
(* happen; they are the subject of ActionAuthority and are left open here. *)
(***************************************************************************)
EXTENDS Naturals, FiniteSets

CONSTANTS
    Workers,        \* gate workers sharing the two databases
    Capsules,       \* action capsules, each with at most one certificate
    PolicyChanges,  \* the capsules of type policy.change
    Exports,        \* the capsules of type data.export, which mutate nothing
    Conditional,    \* types whose apply checks more than version and digest
    Resources,      \* target resources
    TargetOf,       \* the resource a capsule names
    NoCapsule,      \* an idle worker's capsule
    ShadowVersions, \* policy versions whose mode is "shadow"
    MaxSeeds,       \* bound: changes of the target made around the gate
    MaxCrashes      \* bound: worker deaths

ASSUME GateAssumptions ==
    /\ PolicyChanges \subseteq Capsules
    /\ Exports \subseteq Capsules \ PolicyChanges
    /\ Conditional \subseteq Capsules
    /\ TargetOf \in [Capsules -> Resources]
    /\ NoCapsule \notin Capsules
    /\ ShadowVersions \subseteq Nat
    /\ MaxSeeds \in Nat
    /\ MaxCrashes \in Nat

VARIABLES
    status,    \* fabric.db: capsule status (and outcome, once there is one)
    consumed,  \* fabric.db: the certificate's single-use flag
    base,      \* the target version the capsule binds (current_state.version)
    under,     \* the policy version the capsule binds
    policy,    \* fabric.db: version of the active policy
    history,   \* fabric.db: policy-history records [version, source]
    promoted,  \* policy changes whose production promotion is still current
    version,   \* target.db: version of each resource
    journal,   \* target.db: capsules whose transaction is journaled
    work,      \* what each worker has in memory
    seeds,     \* bound counter of Seed
    crashes    \* bound counter of Crash

vars == <<status, consumed, base, under, policy, history, promoted,
          version, journal, work, seeds, crashes>>

fabricDb == <<status, consumed, base, under, policy, history, promoted>>
targetDb == <<version, journal>>
bounds   == <<seeds, crashes>>

\* The statuses of a capsule; OPEN stands for every mutable one.
Dispatched == {"EXECUTING", "VERIFIED", "UNCERTAIN", "FAILED"}
Outcomes   == {"VERIFIED", "UNCERTAIN", "FAILED"}
Statuses   == {"NEW", "OPEN", "CERTIFIED", "CANCELLED"} \cup Dispatched

\* What a worker brings back from the target (or from its journal).
Answers == {"none", "confirmed", "invalid", "lost", "rejected"}
Places  == {"idle", "dispatch", "probe", "finish"}
Work    == [at : Places, capsule : Capsules \cup {NoCapsule}, answer : Answers]
Idle    == [at |-> "idle", capsule |-> NoCapsule, answer |-> "none"]

\* A worker that holds capsule c at a place of the program.
Holds(w, place, c) == work[w].at = place /\ work[w].capsule = c
Dispatching(c)     == \E w \in Workers : Holds(w, "dispatch", c)

Mutates(c) == c \notin Exports

TypeOK ==
    /\ status \in [Capsules -> Statuses]
    /\ consumed \in [Capsules -> BOOLEAN]
    /\ base \in [Capsules -> Nat]
    /\ under \in [Capsules -> Nat]
    /\ policy \in Nat \ {0}
    /\ history \subseteq [version : Nat, source : PolicyChanges]
    /\ promoted \subseteq PolicyChanges
    /\ version \in [Resources -> Nat]
    /\ journal \subseteq Capsules
    /\ work \in [Workers -> Work]
    /\ seeds \in 0..MaxSeeds
    /\ crashes \in 0..MaxCrashes

Init ==
    /\ status = [c \in Capsules |-> "NEW"]
    /\ consumed = [c \in Capsules |-> FALSE]
    /\ base = [c \in Capsules |-> 0]
    /\ under = [c \in Capsules |-> 0]
    /\ policy = 1
    /\ history = {}
    /\ promoted = {}
    /\ version = [r \in Resources |-> 0]
    /\ journal = {}
    /\ work = [w \in Workers |-> Idle]
    /\ seeds = 0
    /\ crashes = 0
-----------------------------------------------------------------------------
(* Single transactions on fabric.db, run by any worker that is between     *)
(* requests.                                                               *)

\* propose: the capsule binds the target state and the policy it was
\* drawn up against.
Propose(c) ==
    /\ status[c] = "NEW"
    /\ status' = [status EXCEPT ![c] = "OPEN"]
    /\ base' = [base EXCEPT ![c] = version[TargetOf[c]]]
    /\ under' = [under EXCEPT ![c] = policy]
    /\ UNCHANGED <<consumed, policy, history, promoted, targetDb, work, bounds>>

\* certificate: a re-evaluated ALLOW, which for any capsule needs the bound
\* policy to be the active one and for a policy change a current promotion.
Certify(c) ==
    /\ status[c] = "OPEN"
    /\ under[c] = policy
    /\ status' = [status EXCEPT ![c] = "CERTIFIED"]
    /\ promoted' = promoted \cup ({c} \cap PolicyChanges)
    /\ UNCHANGED <<consumed, base, under, policy, history, targetDb, work, bounds>>

\* cancel: anything that has not been dispatched.
Cancel(c) ==
    /\ status[c] \in {"OPEN", "CERTIFIED"}
    /\ status' = [status EXCEPT ![c] = "CANCELLED"]
    /\ UNCHANGED <<consumed, base, under, policy, history, promoted, targetDb,
                   work, bounds>>

\* A promotion stops being current: artifact revoked, custodian revoked,
\* execution key rotated.
LosePromotion(c) ==
    /\ c \in promoted
    /\ promoted' = promoted \ {c}
    /\ UNCHANGED <<status, consumed, base, under, policy, history, targetDb,
                   work, bounds>>

\* The target changes by another hand than the gate's.
Seed(r) ==
    /\ seeds < MaxSeeds
    /\ version' = [version EXCEPT ![r] = @ + 1]
    /\ seeds' = seeds + 1
    /\ UNCHANGED <<fabricDb, journal, work, crashes>>
-----------------------------------------------------------------------------
(* Fabric.execute, step by step.                                           *)

\* Deviation: an action in doubt may be executed again.
ExecutableAgain(c) ==
    /\ status[c] \in {"CERTIFIED", "EXECUTING", "UNCERTAIN"}
    /\ under[c] = policy
    /\ version[TargetOf[c]] = base[c]

\* The predicates the reservation transaction re-checks.
Executable(c) ==
    /\ ~consumed[c]
    /\ status[c] = "CERTIFIED"
    /\ under[c] = policy
    /\ c \in PolicyChanges => c \in promoted
    /\ version[TargetOf[c]] = base[c]
    /\ policy \notin ShadowVersions

\* Deviation: only the capsule record is marked.
ReserveCapsuleOnly(w, c) ==
    /\ work[w] = Idle
    /\ Executable(c)
    /\ status' = [status EXCEPT ![c] = "EXECUTING"]
    /\ work' = [work EXCEPT ![w] =
                  [at |-> "dispatch", capsule |-> c, answer |-> "none"]]
    /\ UNCHANGED <<consumed, base, under, policy, history, promoted, targetDb,
                   bounds>>

\* The reservation commits before anything is dispatched.
Reserve(w, c) ==
    /\ work[w] = Idle
    /\ Executable(c)
    /\ consumed' = [consumed EXCEPT ![c] = TRUE]
    /\ status' = [status EXCEPT ![c] = "EXECUTING"]
    /\ work' = [work EXCEPT ![w] =
                  [at |-> "dispatch", capsule |-> c, answer |-> "none"]]
    /\ UNCHANGED <<base, under, policy, history, promoted, targetDb, bounds>>

\* The worker leaves the target with an answer and goes on to finish.
Return(w, c, a) ==
    work' = [work EXCEPT ![w] = [at |-> "finish", capsule |-> c, answer |-> a]]

\* Deviation: the target relies on the version the reservation saw.
TargetApplyUnchecked(w, c, a) ==
    /\ Holds(w, "dispatch", c)
    /\ c \notin journal
    /\ a \in {"confirmed", "invalid", "lost"}
    /\ journal' = journal \cup {c}
    /\ version' = IF Mutates(c)
                  THEN [version EXCEPT ![TargetOf[c]] = @ + 1]
                  ELSE version
    /\ Return(w, c, a)
    /\ UNCHANGED <<fabricDb, bounds>>

\* The target's own transaction: compare-and-set and journal together.  The
\* response may be lost or mangled after the commit.  The branch that answers
\* an already journaled transaction from the journal is not modelled:
\* SingleDispatch shows that nobody ever takes it.
TargetApply(w, c, a) ==
    /\ Holds(w, "dispatch", c)
    /\ c \notin journal
    /\ version[TargetOf[c]] = base[c]
    /\ a \in {"confirmed", "invalid", "lost"}
    /\ journal' = journal \cup {c}
    /\ version' = IF Mutates(c)
                  THEN [version EXCEPT ![TargetOf[c]] = @ + 1]
                  ELSE version
    /\ Return(w, c, a)
    /\ UNCHANGED <<fabricDb, bounds>>

\* INV-409-STATE from the target: the compare-and-set, or a predicate of the
\* action's type, does not hold.
TargetReject(w, c) ==
    /\ Holds(w, "dispatch", c)
    /\ version[TargetOf[c]] # base[c] \/ c \in Conditional
    /\ Return(w, c, "rejected")
    /\ UNCHANGED <<fabricDb, targetDb, bounds>>

\* Any other error before the target's commit.
TargetFail(w, c) ==
    /\ Holds(w, "dispatch", c)
    /\ Return(w, c, "lost")
    /\ UNCHANGED <<fabricDb, targetDb, bounds>>

\* Deviation: the status COMPENSATED, which the SRS lists and no code produces.
ReportCompensated(a) == IF a = "confirmed" THEN "VERIFIED" ELSE "COMPENSATED"

\* What finish records: only a response that reproduces the authorised state
\* is a success, only a rejection by the target is a failure.
Report(a) == IF a = "confirmed" THEN "VERIFIED"
             ELSE IF a = "rejected" THEN "FAILED"
             ELSE "UNCERTAIN"

\* Deviations: a reconciled policy change is recorded but not activated; the
\* activation does not look at the sequence of versions.
ActivatesFirstTime(c, a) ==
    a = "confirmed" /\ c \in PolicyChanges /\ status[c] = "EXECUTING"
ActivatableOutOfTurn(c) == c \in promoted

\* A confirmed policy change installs the policy it carries, version
\* under[c] + 1, in the transaction that records its outcome.
Activates(c, a)  == a = "confirmed" /\ c \in PolicyChanges
Activatable(c)   == under[c] = policy /\ c \in promoted

\* finish never looks at the status or the outcome that is already recorded.
Finish(w, c) ==
    LET a == work[w].answer IN
    /\ Holds(w, "finish", c)
    /\ Activates(c, a) => Activatable(c)
    /\ status' = [status EXCEPT ![c] = Report(a)]
    /\ IF Activates(c, a)
       THEN /\ policy' = policy + 1
            /\ history' = history \cup {[version |-> policy + 1, source |-> c]}
       ELSE UNCHANGED <<policy, history>>
    /\ work' = [work EXCEPT ![w] = Idle]
    /\ UNCHANGED <<consumed, base, under, promoted, targetDb, bounds>>

\* Deviation: the refused transaction is tried again and again.
FinishRetries(w, c) ==
    /\ Holds(w, "finish", c)
    /\ Activates(c, work[w].answer)
    /\ ~Activatable(c)
    /\ UNCHANGED vars

\* finish throws out of its transaction when the activation is refused:
\* nothing is recorded and the request ends with an error.
FinishRefused(w, c) ==
    /\ Holds(w, "finish", c)
    /\ Activates(c, work[w].answer)
    /\ ~Activatable(c)
    /\ work' = [work EXCEPT ![w] = Idle]
    /\ UNCHANGED <<fabricDb, targetDb, bounds>>
-----------------------------------------------------------------------------
(* Fabric.reconcile: two reads outside any transaction, then finish.       *)

Settled(c) == status[c] \in {"VERIFIED", "FAILED"}

\* Deviation: only EXECUTING records are reconciled.
ReconcileExecutingOnly(w, c) ==
    /\ work[w] = Idle
    /\ status[c] = "EXECUTING"
    /\ work' = [work EXCEPT ![w] =
                  [at |-> "probe", capsule |-> c, answer |-> "none"]]
    /\ UNCHANGED <<fabricDb, targetDb, bounds>>

\* First read: nothing to do for a settled outcome.
ReconcileStart(w, c) ==
    /\ work[w] = Idle
    /\ ~Settled(c)
    /\ consumed[c]
    /\ work' = [work EXCEPT ![w] =
                  [at |-> "probe", capsule |-> c, answer |-> "none"]]
    /\ UNCHANGED <<fabricDb, targetDb, bounds>>

\* Deviation: what the journal does not confirm is dispatched again.
ReconcileRedispatch(w, c) ==
    /\ Holds(w, "probe", c)
    /\ IF c \in journal
       THEN Return(w, c, "confirmed")
       ELSE work' = [work EXCEPT ![w] =
                       [at |-> "dispatch", capsule |-> c, answer |-> "none"]]
    /\ UNCHANGED <<fabricDb, targetDb, bounds>>

\* Second read: the target's journal.
ReconcileProbe(w, c) ==
    /\ Holds(w, "probe", c)
    /\ Return(w, c, IF c \in journal THEN "confirmed" ELSE "lost")
    /\ UNCHANGED <<fabricDb, targetDb, bounds>>

\* The process dies between two transactions, or its next transaction throws
\* before recording anything (principal revoked, clock regression, busy
\* database).  What it held in memory is gone.
Crash(w) ==
    /\ crashes < MaxCrashes
    /\ work[w] # Idle
    /\ work' = [work EXCEPT ![w] = Idle]
    /\ crashes' = crashes + 1
    /\ UNCHANGED <<fabricDb, targetDb, seeds>>
-----------------------------------------------------------------------------
\* The synchronous continuation of a request in worker w.
Continue(w) ==
    \E c \in Capsules :
       \/ \E a \in Answers : TargetApply(w, c, a)
       \/ TargetReject(w, c)
       \/ TargetFail(w, c)
       \/ ReconcileProbe(w, c)
       \/ Finish(w, c)
       \/ FinishRefused(w, c)

Next ==
    \/ \E c \in Capsules :
          Propose(c) \/ Certify(c) \/ Cancel(c) \/ LosePromotion(c)
    \/ \E r \in Resources : Seed(r)
    \/ \E w \in Workers, c \in Capsules : Reserve(w, c) \/ ReconcileStart(w, c)
    \/ \E w \in Workers : Continue(w) \/ Crash(w)

Spec == Init /\ [][Next]_vars

\* A request runs to its end without waiting for anyone, and operators come
\* back to every record that is not settled (docs/RUNBOOKS.md, "Gate/process
\* outage and restart").
Fairness ==
    /\ \A w \in Workers : WF_vars(Continue(w))
    /\ \A c \in Capsules : SF_vars(\E w \in Workers : ReconcileStart(w, c))

FairSpec == Spec /\ Fairness
-----------------------------------------------------------------------------
(* Safety.                                                                 *)

\* Nothing reaches the target without a durable reservation, and a cancelled
\* capsule never does (execute reserves before it dispatches).
MutationNeedsReservation ==
    \A c \in Capsules :
       (c \in journal \/ Dispatching(c)) =>
          consumed[c] /\ status[c] \in Dispatched

\* The certificate and the capsule record, written by different functions,
\* never disagree about whether the action was dispatched.
RecordsAgree ==
    \A c \in Capsules : consumed[c] <=> status[c] \in Dispatched

\* A capsule is in the hands of at most one dispatching worker, and is not
\* dispatched once the target has journaled it, whatever reconciliations and
\* restarts run beside it.
SingleDispatch ==
    \A v, w \in Workers, c \in Capsules :
       Holds(v, "dispatch", c) /\ Holds(w, "dispatch", c) =>
          v = w /\ c \notin journal

\* VERIFIED is only recorded for a mutation the target has journaled
\* (docs/RUNBOOKS.md, "Target uncertainty").
VerifiedIsJournaled ==
    \A c \in Capsules : status[c] = "VERIFIED" => c \in journal

\* FAILED is only recorded when the mutation has not happened and no worker
\* can make it happen any more.
FailedNeverHappens ==
    \A c \in Capsules :
       status[c] = "FAILED" => c \notin journal /\ ~Dispatching(c)

\* Two mutations of one resource never build on the same version: the target
\* loses no update, although reservations do not lock it.
NoLostUpdate ==
    \A c, d \in journal :
       /\ c # d /\ Mutates(c) /\ Mutates(d) /\ TargetOf[c] = TargetOf[d]
       => base[c] # base[d]

\* Policy versions advance one by one, each from exactly one policy change
\* the target journaled under the version before it, and none activates twice.
PolicyLineage ==
    /\ {h.version : h \in history} = 2..policy
    /\ \A h \in history : h.source \in journal /\ h.version = under[h.source] + 1
    /\ \A g, h \in history : g.version = h.version \/ g.source = h.source => g = h

\* A policy change that is reported VERIFIED has been activated.
VerifiedPolicyIsActive ==
    \A c \in PolicyChanges :
       status[c] = "VERIFIED" => \E h \in history : h.source = c

(***************************************************************************)
(* The gate implements OneShotAction: an action's chance is open until the *)
(* certificate is consumed, in one worker's hands while it is dispatched,  *)
(* applied once journaled, and spent when that worker has let go of it.    *)
(***************************************************************************)
Phase(c) ==
    IF c \in journal               THEN "applied"
    ELSE IF Dispatching(c)         THEN "reserved"
    ELSE IF consumed[c]            THEN "spent"
    ELSE IF status[c] = "CANCELLED" THEN "closed"
    ELSE "open"

Recorded(c) == IF status[c] \in Outcomes THEN status[c] ELSE "none"

Shot == INSTANCE OneShotAction WITH
    Actions <- Capsules,
    phase   <- [c \in Capsules |-> Phase(c)],
    report  <- [c \in Capsules |-> Recorded(c)]

\* Every step of the gate is a step of OneShotAction or changes nothing it
\* can see (execute, finish and reconcile together).
ImplementsOneShot == Shot!ShotSpec

(* Action properties.                                                      *)

\* A success is never turned into a failure, nor a failure into a success.
OutcomesNeverContradict ==
    [][\A c \in Capsules :
          /\ status[c] = "VERIFIED" => status'[c] # "FAILED"
          /\ status[c] = "FAILED" => status'[c] # "VERIFIED"]_vars

\* VERIFIED and FAILED are the ends of the state model (section 3 of the SRS):
\* once recorded they stay.  With two workers the code does not keep this: see
\* the README.
SettledIsFinal ==
    [][\A c \in Capsules : Settled(c) => status'[c] = status[c]]_vars

(* Liveness.                                                               *)

\* A request always comes back to its worker.
RequestsEnd == \A w \in Workers : work[w] # Idle ~> work[w] = Idle

\* When operators keep reconciling, every mutation in the target's journal
\* that is not a policy change ends up VERIFIED for good.
JournaledIsVerified ==
    \A c \in Capsules \ PolicyChanges :
       c \in journal ~> [](status[c] = "VERIFIED")

\* The same for a policy change, as long as its promotion stays current.
PolicyChangeIsVerified ==
    \A c \in PolicyChanges :
       c \in journal ~> (status[c] = "VERIFIED" \/ c \notin promoted)
=============================================================================
