---------------------------- MODULE RuntimeConfig ----------------------------
(***************************************************************************)
(* The signed runtime configuration of one tenant (runtime-config.mjs).    *)
(*                                                                         *)
(* It lives in three places: the memory of each gate worker, the file      *)
(* config.json, and the accepted state in fabric.db that carries the       *)
(* version floor over restarts.  Every runtime request first checks that   *)
(* they agree; a disagreement withdraws the authority of the gate until a  *)
(* signed reload.  The steps of check and reload are separate statements   *)
(* on the file and on the database, between which the other workers run.   *)
(*                                                                         *)
(* Snapshots that nobody signed never verify, and are all one: Unsigned.   *)
(* So is a snapshot beside identities that do not make its signers         *)
(* custodians any more.                                                    *)
(***************************************************************************)
EXTENDS Naturals, FiniteSets

CONSTANTS
    Workers,     \* processes that share the file and the database
    Snapshots,   \* configurations signed by a quorum of custodians
    VersionOf,   \* their versions
    Genesis,     \* the one the gate is set up with
    HasFile,     \* whether the gate's directory holds a config.json
    Unsigned,    \* a runtime_snapshot that does not verify
    Broken,      \* a file that does not parse, or lacks the tenant
    None,        \* no configuration
    MaxEvents,   \* bound: edits of the file, revocations and expiries
    MaxStarts    \* bound: process starts

ASSUME ConfigAssumptions ==
    /\ VersionOf \in [Snapshots -> Nat \ {0}]
    /\ Genesis \in Snapshots
    /\ HasFile \in BOOLEAN
    /\ Snapshots \cap {Unsigned, Broken, None} = {}
    /\ Broken # Unsigned
    /\ None # Unsigned
    /\ {MaxEvents, MaxStarts} \subseteq Nat

VARIABLES
    disk,    \* config.json: its runtime_snapshot, or Broken
    state,   \* fabric.db: the record runtime-config-state
    proc,    \* memory of each worker
    revoked, \* snapshots a signer of which has been revoked
    expired, \* snapshots past their expiry
    events,  \* bound counter of Happens
    starts   \* bound counter of Start

vars == <<disk, state, proc, revoked, expired, events, starts>>

world == <<revoked, expired, events, starts>>

\* Where a worker is: not running; idle; about to check; about to compare the
\* file; about to remember an acceptance; about to withdraw, before and after
\* it has read the floor it will record; about to write the file and to
\* install the configuration of a reload.
Places == {"down", "idle", "check", "compare", "remember", "withdraw", "record",
           "write", "install"}

\* boot: the check is the constructor's; snap: runtime_snapshot; acc: accepted;
\* gone: withdrawn; prior, new, floor: locals of check, reload and withdraw.
Proc == [at : Places, boot : BOOLEAN, snap : Snapshots \cup {Unsigned},
         acc : Snapshots \cup {None}, gone : BOOLEAN,
         prior : Snapshots \cup {None}, new : Snapshots \cup {None}, floor : Nat]

\* The version field of the record: version, prior_version, or neither.
State == [status : {"NONE", "ACCEPTED", "WITHDRAWN"},
          snap : Snapshots \cup {None}, floor : Nat]

TypeOK ==
    /\ disk \in Snapshots \cup {Unsigned, Broken}
    /\ state \in State
    /\ state.status = "ACCEPTED" <=> state.snap # None
    /\ state.status = "ACCEPTED" => state.floor = VersionOf[state.snap]
    /\ proc \in [Workers -> Proc]
    /\ revoked \subseteq Snapshots
    /\ expired \subseteq Snapshots
    /\ events \in 0..MaxEvents
    /\ starts \in 0..MaxStarts

Down == [at |-> "down", boot |-> FALSE, snap |-> Genesis, acc |-> None,
         gone |-> FALSE, prior |-> None, new |-> None, floor |-> 0]

Init ==
    /\ disk = Genesis
    /\ state = [status |-> "NONE", snap |-> None, floor |-> 0]
    /\ proc = [w \in Workers |-> Down]
    /\ revoked = {}
    /\ expired = {}
    /\ events = 0
    /\ starts = 0

Accepted(s)  == [status |-> "ACCEPTED", snap |-> s, floor |-> VersionOf[s]]
Withdrawal(n) == [status |-> "WITHDRAWN", snap |-> None, floor |-> n]

Move(w, p) == proc' = [proc EXCEPT ![w] = p]

\* The end of a request.  A constructor whose check fails leaves no process.
Served(p)  == [p EXCEPT !.at = "idle", !.boot = FALSE, !.prior = None]
Refused(p) == IF p.boot THEN Down
              ELSE [p EXCEPT !.at = "idle", !.prior = None, !.new = None,
                             !.floor = 0]
-----------------------------------------------------------------------------
(* The world around the workers.                                           *)

Happens == events < MaxEvents /\ events' = events + 1

\* Somebody edits config.json.
Edit(s) ==
    /\ Happens
    /\ disk' = s
    /\ UNCHANGED <<state, proc, revoked, expired, starts>>

RevokeSigner(s) ==
    /\ s \notin revoked
    /\ Happens
    /\ revoked' = revoked \cup {s}
    /\ UNCHANGED <<disk, state, proc, expired, starts>>

Expire(s) ==
    /\ s \notin expired
    /\ Happens
    /\ expired' = expired \cup {s}
    /\ UNCHANGED <<disk, state, proc, revoked, starts>>

\* A process loads the file and constructs its Fabric.
Start(w) ==
    /\ proc[w].at = "down"
    /\ starts < MaxStarts
    /\ disk # Broken
    /\ starts' = starts + 1
    /\ Move(w, [Down EXCEPT !.at = "check", !.boot = TRUE, !.snap = disk])
    /\ UNCHANGED <<disk, state, revoked, expired, events>>

\* A process dies, between any two statements.
Die(w) ==
    /\ proc[w].at # "down"
    /\ Move(w, Down)
    /\ UNCHANGED <<disk, state, world>>
-----------------------------------------------------------------------------
(* check.                                                                  *)

Request(w) ==
    /\ proc[w].at = "idle"
    /\ Move(w, [proc[w] EXCEPT !.at = "check"])
    /\ UNCHANGED <<disk, state, world>>

\* What the worker compares with: its memory, or the record of the database.
Prior(p) == IF p.acc # None THEN p.acc
            ELSE IF state.status = "ACCEPTED" THEN state.snap ELSE None

\* verifyRuntimeConfiguration.
Verifies(s) == s \in Snapshots \ (revoked \cup expired)

\* The rest of the check, once the file agrees.  What was accepted before is
\* verified and remembered again when the identities of its signers are not
\* the same; they are part of config.json, and only read at the start.
Verdict(p, same) ==
    IF p.snap = p.prior /\ p.snap \notin expired /\ (same \/ p.acc # None)
    THEN "idle"
    ELSE IF /\ Verifies(p.snap)
            /\ p.prior \in {None, p.snap} \/ VersionOf[p.snap] > VersionOf[p.prior]
    THEN "remember"
    ELSE "withdraw"

Decided(p, same) == IF Verdict(p, same) = "idle" THEN Served(p)
                    ELSE [p EXCEPT !.at = Verdict(p, same)]

\* Deviation: a worker that has accepted a configuration looks no further.
CheckFromMemory(w, due, same) ==
    LET p == [proc[w] EXCEPT !.prior = Prior(proc[w]),
                             !.gone = @ \/ (proc[w].acc = None /\ state.status = "WITHDRAWN")]
    IN
    /\ proc[w].at = "check"
    /\ Move(w, IF p.gone \/ p.snap \in revoked THEN [p EXCEPT !.at = "withdraw"]
               ELSE IF HasFile /\ (p.acc = None \/ due)
               THEN [p EXCEPT !.at = "compare"]
               ELSE Decided(p, same))
    /\ UNCHANGED <<disk, state, world>>

\* Deviation: the signers are not looked at again.
CheckUnrevoked(w, due, same) ==
    LET p == [proc[w] EXCEPT !.prior = Prior(proc[w]),
                             !.gone = @ \/ state.status = "WITHDRAWN"]
    IN
    /\ proc[w].at = "check"
    /\ Move(w, IF p.gone THEN [p EXCEPT !.at = "withdraw"]
               ELSE IF HasFile /\ (p.acc = None \/ due)
               THEN [p EXCEPT !.at = "compare"]
               ELSE Decided(p, same))
    /\ UNCHANGED <<disk, state, world>>

\* The record is read; a withdrawal, or a revoked signer, ends the check.  The
\* file is compared at the first check and when the interval has passed (due).
Check(w, due, same) ==
    LET p == [proc[w] EXCEPT !.prior = Prior(proc[w]),
                             !.gone = @ \/ state.status = "WITHDRAWN"]
    IN
    /\ proc[w].at = "check"
    /\ Move(w, IF p.gone \/ p.snap \in revoked THEN [p EXCEPT !.at = "withdraw"]
               ELSE IF HasFile /\ (p.acc = None \/ due)
               THEN [p EXCEPT !.at = "compare"]
               ELSE Decided(p, same))
    /\ UNCHANGED <<disk, state, world>>

Compare(w, same) ==
    /\ proc[w].at = "compare"
    /\ Move(w, IF disk = proc[w].snap THEN Decided(proc[w], same)
               ELSE [proc[w] EXCEPT !.at = "withdraw"])
    /\ UNCHANGED <<disk, state, world>>

\* remember, from check; a transaction that fails is a failed check.
Remember(w, ok) ==
    LET p == [proc[w] EXCEPT !.acc = proc[w].snap] IN
    /\ proc[w].at = "remember"
    /\ state' = IF ok THEN Accepted(p.snap) ELSE state
    /\ Move(w, IF ok THEN Served(p) ELSE [p EXCEPT !.at = "withdraw"])
    /\ UNCHANGED <<disk, world>>

\* withdraw: the record is read, and left alone if it is a withdrawal or this
\* worker has withdrawn before.
Withdraw(w) ==
    LET p == [proc[w] EXCEPT !.gone = TRUE] IN
    /\ proc[w].at = "withdraw"
    /\ Move(w, IF proc[w].gone \/ state.status = "WITHDRAWN" THEN Refused(p)
               ELSE [p EXCEPT !.at = "record", !.floor = state.floor])
    /\ UNCHANGED <<disk, state, world>>

\* Deviation: the record keeps the snapshot it withdraws.
RecordKeepsSnapshot(w, ok) ==
    /\ proc[w].at = "record"
    /\ state' = IF ok THEN [state EXCEPT !.status = "WITHDRAWN"] ELSE state
    /\ Move(w, Refused(proc[w]))
    /\ UNCHANGED <<disk, world>>

\* A transaction that fails leaves the withdrawal in this worker's memory only,
\* and no later request of this worker records it.
Record(w, ok) ==
    /\ proc[w].at = "record"
    /\ state' = IF ok THEN Withdrawal(proc[w].floor) ELSE state
    /\ Move(w, Refused(proc[w]))
    /\ UNCHANGED <<disk, world>>
-----------------------------------------------------------------------------
(* reload.                                                                 *)

\* Deviation: any signed configuration will do.
ReloadAny(w, s) ==
    /\ proc[w].at = "idle"
    /\ Verifies(s)
    /\ Move(w, [proc[w] EXCEPT !.gone = @ \/ state.status = "WITHDRAWN",
                               !.at = "write", !.new = s])
    /\ UNCHANGED <<disk, state, world>>

\* The new configuration must verify and advance the version this worker
\* accepted, or else the one of the record.  It is remembered as signed by
\* nobody who is revoked (Install): a revocation that commits in between is
\* found by the next check.
Reload(w, s) ==
    /\ proc[w].at = "idle"
    /\ Verifies(s)
    /\ LET p == [proc[w] EXCEPT !.gone = @ \/ state.status = "WITHDRAWN"] IN
       Move(w, IF VersionOf[s] > IF p.acc # None THEN VersionOf[p.acc] ELSE state.floor
               THEN [p EXCEPT !.at = "write", !.new = s]
               ELSE p)
    /\ UNCHANGED <<disk, state, world>>

\* A file that does not parse ends the reload; any other is written over.
WriteFile(w) ==
    /\ proc[w].at = "write"
    /\ IF HasFile /\ disk = Broken
       THEN Move(w, Refused(proc[w])) /\ UNCHANGED disk
       ELSE /\ disk' = IF HasFile THEN proc[w].new ELSE disk
            /\ Move(w, [proc[w] EXCEPT !.at = "install"])
    /\ UNCHANGED <<state, world>>

\* Memory is changed before the transaction that records the acceptance,
\* which may fail.
Install(w, ok) ==
    LET s == proc[w].new IN
    /\ proc[w].at = "install"
    /\ state' = IF ok THEN Accepted(s) ELSE state
    /\ Move(w, [proc[w] EXCEPT !.at = "idle", !.snap = s, !.acc = s,
                               !.gone = FALSE, !.new = None])
    /\ UNCHANGED <<disk, world>>
-----------------------------------------------------------------------------
\* The continuation of a request in worker w.
Continue(w) ==
    \/ \E same \in BOOLEAN : Compare(w, same) \/ \E due \in BOOLEAN : Check(w, due, same)
    \/ \E ok \in BOOLEAN : Remember(w, ok) \/ Record(w, ok) \/ Install(w, ok)
    \/ Withdraw(w)
    \/ WriteFile(w)

Next ==
    \/ \E s \in Snapshots \cup {Unsigned, Broken} : Edit(s)
    \/ \E s \in Snapshots : RevokeSigner(s) \/ Expire(s)
    \/ \E w \in Workers :
          \/ Start(w)
          \/ Die(w)
          \/ Request(w)
          \/ \E s \in Snapshots : Reload(w, s)
          \/ Continue(w)

Spec == Init /\ [][Next]_vars

\* Runtime requests keep arriving at every worker, and every request runs to
\* its end: the code between two statements waits for nobody.
Fairness ==
    \A w \in Workers : SF_vars(Request(w)) /\ WF_vars(Continue(w))

FairSpec == Spec /\ Fairness
-----------------------------------------------------------------------------
(* Properties.                                                             *)

\* While a process runs, what it accepts only gets newer, whatever the other
\* workers, the file and failing transactions do (check, reload).
WorkerNeverRollsBack ==
    [][\A w \in Workers :
          proc[w].acc # None /\ proc'[w].acc # None /\ proc[w].acc # proc'[w].acc
          => VersionOf[proc[w].acc] < VersionOf[proc'[w].acc]]_vars

Withdrawn(w) == proc[w].gone \/ proc[w].at = "down"

\* A withdrawal that is recorded reaches every worker, unless a signed
\* configuration is accepted again (persisted, withdraw).
WithdrawalSpreads ==
    \A w \in Workers :
       state.status = "WITHDRAWN" ~> (Withdrawn(w) \/ state.status # "WITHDRAWN")

\* No worker goes on with a configuration one of whose signers is revoked,
\* whether the revocation commits while it is in force or between the
\* verification and the end of a check or reload (check; RUN-010 of the SRS).
RevokedSnapshotIsDropped ==
    \A w \in Workers, s \in Snapshots :
       s \in revoked /\ proc[w].at # "down" /\ proc[w].snap = s
       ~> (Withdrawn(w) \/ proc[w].snap # s)

\* The version floor never falls (tests/runtime-hardening.test.mjs: "runtime
\* configuration rejection persists a version floor across a process restart").
\* With two workers the code does not keep this: see the README.
FloorNeverFalls == [][state.floor <= state'.floor]_vars
=============================================================================
