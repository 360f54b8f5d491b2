--------------------------- MODULE BatchExecution ---------------------------
(***************************************************************************)
(* Compositions: several certified capsules that are to reach the target   *)
(* together (composition.mjs, Fabric.reserveBatch,                         *)
(* SimulatedTarget.executeBatch), beside executions and reconciliations of *)
(* single capsules.                                                        *)
(*                                                                         *)
(* A batch is reserved in one transaction and applied in one transaction,  *)
(* but its children are finished one by one and its own outcome is         *)
(* recorded in yet another transaction.  Workers interleave, or die,       *)
(* between any two of them.                                                *)
(*                                                                         *)
(* A capsule's certificate is consumed exactly when its status is a        *)
(* dispatched one (RecordsAgree of ExecutionGate), so the flag is not kept *)
(* twice.  Evidence, approvals and expiry only restrict when a capsule is  *)
(* certified and a composition reserved, and are left open.                *)
(***************************************************************************)
EXTENDS Naturals, Sequences

CONSTANTS
    Workers,       \* gate workers sharing the two databases
    Capsules,      \* action capsules, none of them a policy change
    Exports,       \* the capsules of type data.export, which mutate nothing
    Resources,     \* target resources
    TargetOf,      \* the resource a capsule names
    Compositions,  \* batches somebody may create
    ChildrenOf,    \* the leaves of a composition, in the order of its tree
    NoComposition, \* the composition of a request about a single capsule
    Shadow,        \* whether the active policy's mode is "shadow"
    MaxCrashes     \* bound: worker deaths

Leaves(b)  == {ChildrenOf[b][i] : i \in 1..Len(ChildrenOf[b])}
Mutates(c) == c \notin Exports

\* What flattenComposition and create enforce on the children of a batch.
ASSUME BatchAssumptions ==
    /\ Exports \subseteq Capsules
    /\ TargetOf \in [Capsules -> Resources]
    /\ NoComposition \notin Compositions
    /\ ChildrenOf \in [Compositions -> Seq(Capsules)]
    /\ \A b \in Compositions :
          /\ Len(ChildrenOf[b]) > 0
          /\ \A i, j \in 1..Len(ChildrenOf[b]) :
                ChildrenOf[b][i] = ChildrenOf[b][j] => i = j
          /\ \A c, d \in Leaves(b) :
                Mutates(c) /\ Mutates(d) /\ TargetOf[c] = TargetOf[d] => c = d
    /\ Shadow \in BOOLEAN
    /\ MaxCrashes \in Nat

VARIABLES
    status,   \* fabric.db: capsule status, and outcome once there is one
    created,  \* fabric.db: compositions that exist
    started,  \* fabric.db: compositions that have been reserved
    outcome,  \* fabric.db: the recorded outcome of each composition
    version,  \* target.db: version of each resource
    journal,  \* target.db: capsules whose transaction is journaled
    work,     \* the request each worker has in memory
    crashes   \* bound counter of Crash

vars == <<status, created, started, outcome, version, journal, work, crashes>>

compositionDb == <<created, started, outcome>>
targetDb      == <<version, journal>>

Dispatched == {"EXECUTING", "VERIFIED", "UNCERTAIN", "FAILED"}
Statuses   == {"OPEN", "CERTIFIED", "CANCELLED"} \cup Dispatched
Outcomes   == {"VERIFIED", "UNCERTAIN", "FAILED"}

\* A request: the composition it is for, the children it has still to deal
\* with, the child outcomes it has collected, and the answer it has for the
\* children to do.  Its places: at the target; in the loop that finishes the
\* children of an execution; in the catch of that loop; in the three steps of
\* a child's reconciliation; about to record the outcome of the composition.
Places  == {"idle", "dispatch", "finish", "doubt", "look", "probe", "settle",
            "record"}
Answers == {"none", "confirmed", "rejected", "lost"}
Work    == [at : Places, batch : Compositions \cup {NoComposition},
            todo : Seq(Capsules), told : SUBSET Outcomes, answer : Answers]
Idle    == [at |-> "idle", batch |-> NoComposition, todo |-> <<>>,
            told |-> {}, answer |-> "none"]

Job(at, b, todo) ==
    [at |-> at, batch |-> b, todo |-> todo, told |-> {}, answer |-> "none"]

ToDo(w) == {work[w].todo[i] : i \in 1..Len(work[w].todo)}

Dispatching(c) == \E w \in Workers : work[w].at = "dispatch" /\ c \in ToDo(w)

TypeOK ==
    /\ status \in [Capsules -> Statuses]
    /\ created \subseteq Compositions
    /\ started \subseteq created
    /\ outcome \in [Compositions -> Outcomes \cup {"none"}]
    /\ version \in [Resources -> Nat]
    /\ journal \subseteq Capsules
    /\ work \in [Workers -> Work]
    /\ crashes \in 0..MaxCrashes

\* The capsules have been proposed, against version 0 of their resources.
Init ==
    /\ status = [c \in Capsules |-> "OPEN"]
    /\ created = {}
    /\ started = {}
    /\ outcome = [b \in Compositions |-> "none"]
    /\ version = [r \in Resources |-> 0]
    /\ journal = {}
    /\ work = [w \in Workers |-> Idle]
    /\ crashes = 0
-----------------------------------------------------------------------------
(* Single transactions on fabric.db.                                       *)

\* create: every child must still be mutable.
Create(b) ==
    /\ b \notin created
    /\ \A c \in Leaves(b) : status[c] = "OPEN"
    /\ created' = created \cup {b}
    /\ UNCHANGED <<status, started, outcome, targetDb, work, crashes>>

\* certificate, on the approvals of the capsule or of a batch.
Certify(c) ==
    /\ status[c] = "OPEN"
    /\ status' = [status EXCEPT ![c] = "CERTIFIED"]
    /\ UNCHANGED <<compositionDb, targetDb, work, crashes>>

Cancel(c) ==
    /\ status[c] \in {"OPEN", "CERTIFIED"}
    /\ status' = [status EXCEPT ![c] = "CANCELLED"]
    /\ UNCHANGED <<compositionDb, targetDb, work, crashes>>
-----------------------------------------------------------------------------
(* Execution of a composition, and of a single capsule.                    *)

Executable(c) == status[c] = "CERTIFIED" /\ version[TargetOf[c]] = 0

\* Deviation: one executable child is enough.
ReserveBatchOnFirst(w, b) ==
    /\ work[w] = Idle
    /\ b \in created \ started
    /\ Executable(Head(ChildrenOf[b]))
    /\ status' = [c \in Capsules |->
                    IF c \in Leaves(b) THEN "EXECUTING" ELSE status[c]]
    /\ started' = started \cup {b}
    /\ work' = [work EXCEPT ![w] = Job("dispatch", b, ChildrenOf[b])]
    /\ UNCHANGED <<created, outcome, targetDb, crashes>>

\* reserveBatch: the reservation of all children is one transaction.
ReserveBatch(w, b) ==
    /\ work[w] = Idle
    /\ b \in created \ started
    /\ \A c \in Leaves(b) : Executable(c)
    /\ status' = [c \in Capsules |->
                    IF c \in Leaves(b) THEN "EXECUTING" ELSE status[c]]
    /\ started' = started \cup {b}
    /\ work' = [work EXCEPT ![w] = Job("dispatch", b, ChildrenOf[b])]
    /\ UNCHANGED <<created, outcome, targetDb, crashes>>

\* The reservation of Fabric.execute, which a shadow policy turns into a
\* dry run.
ReserveAlone(w, c) ==
    /\ work[w] = Idle
    /\ Executable(c)
    /\ ~Shadow
    /\ status' = [status EXCEPT ![c] = "EXECUTING"]
    /\ work' = [work EXCEPT ![w] = Job("dispatch", NoComposition, <<c>>)]
    /\ UNCHANGED <<compositionDb, targetDb, crashes>>

\* The worker leaves the target.  Without an answer a composition goes to the
\* catch of its loop, a single execution straight to finish.
Return(w, a) ==
    work' = [work EXCEPT
               ![w].at = IF a = "lost" /\ work[w].batch # NoComposition
                         THEN "doubt" ELSE "finish",
               ![w].answer = a]

\* Child after child, the target still has the version the capsule binds: not
\* even an earlier child of the batch has changed the resource.
CompareAndSet(todo) ==
    \A i \in 1..Len(todo) :
       /\ version[TargetOf[todo[i]]] = 0
       /\ \A j \in 1..(i - 1) :
             Mutates(todo[j]) => TargetOf[todo[j]] # TargetOf[todo[i]]

\* Deviation: a transaction for each child, and an error after the first.
TargetApplyOneByOne(w, a) ==
    /\ work[w].at = "dispatch"
    /\ ToDo(w) \cap journal = {}
    /\ CompareAndSet(<<Head(work[w].todo)>>)
    /\ a = "lost"
    /\ journal' = journal \cup {Head(work[w].todo)}
    /\ UNCHANGED version
    /\ Return(w, a)
    /\ UNCHANGED <<status, compositionDb, crashes>>

\* The target's transaction: all children or none.
TargetApply(w, a) ==
    /\ work[w].at = "dispatch"
    /\ ToDo(w) \cap journal = {}
    /\ CompareAndSet(work[w].todo)
    /\ a \in {"confirmed", "lost"}
    /\ journal' = journal \cup ToDo(w)
    /\ version' = [r \in Resources |->
                     IF \E c \in ToDo(w) : Mutates(c) /\ TargetOf[c] = r
                     THEN version[r] + 1 ELSE version[r]]
    /\ Return(w, a)
    /\ UNCHANGED <<status, compositionDb, crashes>>

\* The target's compare-and-set fails: a failure of a single execution, an
\* error like any other for a composition.
TargetReject(w) ==
    /\ work[w].at = "dispatch"
    /\ ~CompareAndSet(work[w].todo)
    /\ Return(w, IF work[w].batch = NoComposition THEN "rejected" ELSE "lost")
    /\ UNCHANGED <<status, compositionDb, targetDb, crashes>>

\* Any other error before the target's commit.
TargetFail(w) ==
    /\ work[w].at = "dispatch"
    /\ Return(w, "lost")
    /\ UNCHANGED <<status, compositionDb, targetDb, crashes>>

Report(a) == IF a = "confirmed" THEN "VERIFIED"
             ELSE IF a = "rejected" THEN "FAILED"
             ELSE "UNCERTAIN"

\* What a request becomes when its first child is done: it goes on at a place
\* with the next one, or with the outcome of the composition.
Onward(x, at, o) ==
    IF Len(x.todo) > 1
    THEN [x EXCEPT !.at = at, !.todo = Tail(x.todo), !.told = x.told \cup {o}]
    ELSE IF x.batch = NoComposition THEN Idle
    ELSE [x EXCEPT !.at = "record", !.todo = <<>>, !.told = x.told \cup {o}]

Proceed(w, at, o) == work' = [work EXCEPT ![w] = Onward(work[w], at, o)]

\* One round of a finish loop: Fabric.finish for the next child.  A response
\* that does not reproduce the authorised state is no confirmation.
FinishChild(w, a) ==
    /\ work[w].at \in {"finish", "doubt"}
    /\ a = work[w].answer \/ a = "lost"
    /\ status' = [status EXCEPT ![Head(work[w].todo)] = Report(a)]
    /\ Proceed(w, work[w].at, Report(a))
    /\ UNCHANGED <<compositionDb, targetDb, crashes>>

\* A finish of the loop throws before it has recorded anything: the catch
\* finishes every child again, and keeps the outcomes collected so far.
FinishThrows(w) ==
    /\ work[w].at = "finish"
    /\ work[w].batch # NoComposition
    /\ work' = [work EXCEPT ![w].at = "doubt",
                            ![w].todo = ChildrenOf[work[w].batch],
                            ![w].answer = "lost"]
    /\ UNCHANGED <<status, compositionDb, targetDb, crashes>>

\* Deviation: children that differ make an outcome of its own.
VerdictPartial(told) == IF told = {"VERIFIED"} THEN "VERIFIED"
                        ELSE IF told = {"UNCERTAIN"} THEN "UNCERTAIN"
                        ELSE "PARTIAL"

\* The outcome of a composition from those of its children.
Verdict(told) == IF told = {"VERIFIED"} THEN "VERIFIED"
                 ELSE IF told = {"FAILED"} THEN "FAILED"
                 ELSE "UNCERTAIN"

\* Deviation: an outcome that is recorded stays.
RecordOutcomeOnce(w) ==
    /\ work[w].at = "record"
    /\ work[w].batch \in started
    /\ outcome' = IF outcome[work[w].batch] = "none"
                  THEN [outcome EXCEPT ![work[w].batch] = Verdict(work[w].told)]
                  ELSE outcome
    /\ work' = [work EXCEPT ![w] = Idle]
    /\ UNCHANGED <<status, created, started, targetDb, crashes>>

\* recordOutcome, whatever has been recorded before.
RecordOutcome(w) ==
    /\ work[w].at = "record"
    /\ work[w].batch \in started
    /\ outcome' = [outcome EXCEPT ![work[w].batch] = Verdict(work[w].told)]
    /\ work' = [work EXCEPT ![w] = Idle]
    /\ UNCHANGED <<status, created, started, targetDb, crashes>>
-----------------------------------------------------------------------------
(* Reconciliation of a composition, child by child, and of a single        *)
(* capsule.                                                                *)

ReconcileBatch(w, b) ==
    /\ work[w] = Idle
    /\ b \in started
    /\ work' = [work EXCEPT ![w] = Job("look", b, ChildrenOf[b])]
    /\ UNCHANGED <<status, compositionDb, targetDb, crashes>>

ReconcileAlone(w, c) ==
    /\ work[w] = Idle
    /\ status[c] \in {"EXECUTING", "UNCERTAIN"}
    /\ work' = [work EXCEPT ![w] = Job("look", NoComposition, <<c>>)]
    /\ UNCHANGED <<status, compositionDb, targetDb, crashes>>

\* First read of Fabric.reconcile: a settled outcome is returned as it is.
Look(w) ==
    LET o == status[Head(work[w].todo)] IN
    /\ work[w].at = "look"
    /\ IF o \in {"VERIFIED", "FAILED"}
       THEN Proceed(w, "look", o)
       ELSE work' = [work EXCEPT ![w].at = "probe"]
    /\ UNCHANGED <<status, compositionDb, targetDb, crashes>>

\* Deviation: what the journal does not confirm is dispatched again.
ProbeRedispatches(w) ==
    /\ work[w].at = "probe"
    /\ work' = IF Head(work[w].todo) \in journal
               THEN [work EXCEPT ![w].at = "settle", ![w].answer = "confirmed"]
               ELSE [work EXCEPT ![w].at = "dispatch"]
    /\ UNCHANGED <<status, compositionDb, targetDb, crashes>>

\* Second read: the target's journal.
Probe(w) ==
    /\ work[w].at = "probe"
    /\ work' = [work EXCEPT
                  ![w].at = "settle",
                  ![w].answer = IF Head(work[w].todo) \in journal
                                THEN "confirmed" ELSE "lost"]
    /\ UNCHANGED <<status, compositionDb, targetDb, crashes>>

\* Fabric.finish with what the journal said.
Settle(w) ==
    LET o == Report(work[w].answer) IN
    /\ work[w].at = "settle"
    /\ status' = [status EXCEPT ![Head(work[w].todo)] = o]
    /\ Proceed(w, "look", o)
    /\ UNCHANGED <<compositionDb, targetDb, crashes>>

\* The process dies between two transactions, or an error ends the request.
Crash(w) ==
    /\ crashes < MaxCrashes
    /\ work[w] # Idle
    /\ work' = [work EXCEPT ![w] = Idle]
    /\ crashes' = crashes + 1
    /\ UNCHANGED <<status, compositionDb, targetDb>>
-----------------------------------------------------------------------------
\* The synchronous continuation of a request in worker w.
Continue(w) ==
    \/ \E a \in Answers : TargetApply(w, a) \/ FinishChild(w, a)
    \/ TargetReject(w)
    \/ TargetFail(w)
    \/ FinishThrows(w)
    \/ RecordOutcome(w)
    \/ Look(w)
    \/ Probe(w)
    \/ Settle(w)

Next ==
    \/ \E b \in Compositions : Create(b)
    \/ \E c \in Capsules : Certify(c) \/ Cancel(c)
    \/ \E w \in Workers, b \in Compositions :
          ReserveBatch(w, b) \/ ReconcileBatch(w, b)
    \/ \E w \in Workers, c \in Capsules :
          ReserveAlone(w, c) \/ ReconcileAlone(w, c)
    \/ \E w \in Workers : Continue(w) \/ Crash(w)

Spec == Init /\ [][Next]_vars

\* Requests run to their end, and operators come back to every composition
\* that has been started (docs/RUNBOOKS.md).
Fairness ==
    /\ \A w \in Workers : WF_vars(Continue(w))
    /\ \A b \in Compositions : SF_vars(\E w \in Workers : ReconcileBatch(w, b))

FairSpec == Spec /\ Fairness
-----------------------------------------------------------------------------
(* Safety.                                                                 *)

\* The target has journaled all the children of a reserved composition or
\* none of them.
BatchIsAtomic ==
    \A b \in started : Leaves(b) \subseteq journal \/ Leaves(b) \cap journal = {}

\* A capsule is reserved by one request only: two started compositions share
\* no child, and no two workers have the same capsule at the target.
ChildReservedOnce ==
    /\ \A a, b \in started : a # b => Leaves(a) \cap Leaves(b) = {}
    /\ \A v, w \in Workers :
          /\ v # w
          /\ work[v].at = "dispatch"
          /\ work[w].at = "dispatch"
          => ToDo(v) \cap ToDo(w) = {}

(***************************************************************************)
(* To the world a composition is one action that happens at most once.     *)
(***************************************************************************)
Phase(b) ==
    IF b \notin started              THEN "open"
    ELSE IF Leaves(b) \subseteq journal THEN "applied"
    ELSE IF \E w \in Workers : work[w].at = "dispatch" /\ work[w].batch = b
                                     THEN "reserved"
    ELSE "spent"

Shot == INSTANCE OneShotAction WITH
    Actions <- Compositions,
    phase   <- [b \in Compositions |-> Phase(b)],
    report  <- outcome

\* Every step is a step of OneShotAction for one composition, or invisible
\* to it (Compositions.execute, recordOutcome and reconcile together).
BatchImplementsOneShot == Shot!ShotSpec

\* A gate in shadow mode is "read-only/dry-run" with "no mutation authority"
\* (section 5 of the SRS).
ShadowNeverMutates == Shadow => journal = {}

(* Liveness.                                                               *)

\* When operators keep reconciling a started composition, and the target has
\* journaled it, its outcome and those of its children end up VERIFIED.
JournaledBatchIsVerified ==
    \A b \in Compositions :
       b \in started /\ Leaves(b) \subseteq journal
       ~> [](/\ outcome[b] = "VERIFIED"
             /\ \A c \in Leaves(b) : status[c] = "VERIFIED")
=============================================================================
