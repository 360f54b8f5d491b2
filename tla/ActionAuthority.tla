--------------------------- MODULE ActionAuthority ---------------------------
(***************************************************************************)
(* What an action may rest on until it is dispatched: attached evidence,   *)
(* approvals of the action or of a batch it belongs to, the policy and its *)
(* emergency restrictions, the certificate (fabric.mjs, policy.mjs,        *)
(* emergency.mjs, composition.mjs).                                        *)
(*                                                                         *)
(* Every operation is one transaction.  What makes the component hard is   *)
(* the time between them: a signer signs what a challenge showed, the      *)
(* statement arrives later, counts only when the action is evaluated, and  *)
(* until then evidence is attached, revoked, expires or is swept away,     *)
(* policies change and signers are revoked.                                *)
(*                                                                         *)
(* The evidence here supports its action and is of a kind the rule asks    *)
(* for; quantities, destinations and the rest of the rule's arithmetic     *)
(* only make more actions fail.  A decision DEFER is a matter of waiting.  *)
(***************************************************************************)
EXTENDS Naturals, FiniteSets

CONSTANTS
    Capsules,    \* action capsules
    ActorOf,     \* the subject that proposes a capsule
    Reducible,   \* exports of restricted columns, which the policy shields
    SuccessorOf, \* the reduced capsule of such an export
    Evidence,    \* signed evidence
    CapsuleOf,   \* the capsule an evidence envelope is signed for
    IssuerOf,    \* and its issuer
    FailureDomain, \* of issuers and of signers
    Signers,     \* approvers
    Batches,     \* compositions somebody may create
    ChildrenOf,  \* their children
    Scopes,      \* the sets of capsules that emergency policies may deny
    Independent, \* evidence domains the rule asks for
    Threshold,   \* approvals from different domains the rule asks for
    None,        \* no composition, no certificate
    MaxSigned,   \* bound: signed statements
    MaxEvents    \* bound: revocations, expiries, policy changes, restrictions, holds

Issuers  == {IssuerOf[e] : e \in Evidence}
Subjects == Signers \cup {ActorOf[c] : c \in Capsules}

\* The graph of a capsule says what has become of each of its evidence; a view
\* shows the graphs of several capsules.
Conditions == {"ok", "revoked", "gone"}
Graphs     == UNION {[E -> Conditions] : E \in SUBSET Evidence}
Views      == UNION {[C -> Graphs] : C \in SUBSET Capsules}

ASSUME AuthorityAssumptions ==
    /\ Reducible \subseteq Capsules
    /\ SuccessorOf \in [Reducible -> Capsules \ Reducible]
    /\ \A r, q \in Reducible : SuccessorOf[r] = SuccessorOf[q] => r = q
    /\ CapsuleOf \in [Evidence -> Capsules]
    /\ ChildrenOf \in [Batches -> SUBSET Capsules]
    /\ Scopes \subseteq SUBSET Capsules
    /\ None \notin Batches \cup Capsules \cup Evidence
    /\ None \notin [policy : Nat, graph : Graphs] \cup [policy : Nat, seen : Views]
    /\ {Independent, Threshold, MaxSigned, MaxEvents} \subseteq Nat

VARIABLES
    status,     \* of each capsule; OPEN stands for every mutable one
    under,      \* the policy version a capsule names
    attached,   \* the evidence of a capsule
    approvals,  \* the statements its record holds
    cert,       \* what its certificate binds
    successors, \* shielded capsules that have a successor
    batch,      \* what a composition's envelope describes
    started,    \* compositions that have been reserved
    signed,     \* the statements that have been signed
    lapsed,     \* those that have expired by themselves
    revoked,    \* evidence, issuers, subjects; a capsule for its certificate
    expired,    \* evidence, capsules and compositions
    gone,       \* evidence of which only a tombstone is left
    held,       \* evidence on legal hold
    active,     \* version of the active policy
    restricted, \* capsules an emergency policy denies
    events      \* bound counter of Happens

records == <<status, under, attached, approvals, cert, successors>>
batchDb == <<batch, started>>
world   == <<lapsed, revoked, expired, active, restricted, events>>
vars    == <<records, batchDb, signed, world, gone, held>>

Dispatched == {"EXECUTING", "SETTLED"}
Statuses   == {"none", "OPEN", "DENY", "CANCELLED", "CERTIFIED"} \cup Dispatched

TypeOK ==
    /\ status \in [Capsules -> Statuses]
    /\ under \in [Capsules -> Nat]
    /\ \A c \in Capsules :
          /\ attached[c] \subseteq {e \in Evidence : CapsuleOf[e] = c}
          /\ approvals[c] \subseteq {x \in signed : c \in DOMAIN x.seen}
          /\ status[c] \in {"CERTIFIED"} \cup Dispatched =>
                cert[c] \in [policy : 1..active, graph : Graphs]
          /\ status[c] \notin {"CERTIFIED", "CANCELLED"} \cup Dispatched => cert[c] = None
    /\ successors \subseteq Reducible
    /\ started \subseteq {b \in Batches : batch[b] # None}
    /\ \A b \in Batches : batch[b] = None \/ batch[b].policy \in 1..active
    /\ \A x \in signed : x.policy \in 1..active /\ DOMAIN x.seen \subseteq Capsules
    /\ lapsed \subseteq signed
    /\ revoked \subseteq Evidence \cup Issuers \cup Subjects \cup Capsules
    /\ expired \subseteq Evidence \cup Capsules \cup Batches
    /\ gone \subseteq UNION {attached[c] : c \in Capsules}
    /\ held \subseteq Evidence
    /\ active \in Nat
    /\ restricted \subseteq Capsules
    /\ events \in 0..MaxEvents

Init ==
    /\ status = [c \in Capsules |-> "none"]
    /\ under = [c \in Capsules |-> 0]
    /\ attached = [c \in Capsules |-> {}]
    /\ approvals = [c \in Capsules |-> {}]
    /\ cert = [c \in Capsules |-> None]
    /\ successors = {}
    /\ batch = [b \in Batches |-> None]
    /\ started = {}
    /\ signed = {}
    /\ lapsed = {}
    /\ revoked = {}
    /\ expired = {}
    /\ gone = {}
    /\ held = {}
    /\ active = 1
    /\ restricted = {}
    /\ events = 0
-----------------------------------------------------------------------------
(* What is compared and decided.                                           *)

\* graph: the digest of a capsule's evidence changes with a revocation of the
\* evidence or its issuer, and with its deletion.
Condition(e) == IF e \in gone THEN "gone"
                ELSE IF {e, IssuerOf[e]} \cap revoked # {} THEN "revoked"
                ELSE "ok"

Graph(c) == [e \in attached[c] |-> Condition(e)]

Mutable(c) == status[c] = "OPEN" /\ c \notin successors

\* A composition expires no later than its children, a statement no later than
\* the composition or the capsule it is about.
Ongoing(b) == ({b} \cup ChildrenOf[b]) \cap expired = {}
Unexpired(x) == x \notin lapsed /\ ({x.batch} \cup DOMAIN x.seen) \cap expired = {}

\* describe and current: the children of a composition are as they were.
View(C)    == [c \in C |-> Graph(c)]
Current(b) == /\ Ongoing(b)
              /\ batch[b] = [policy |-> active, seen |-> View(ChildrenOf[b])]

\* Deviation: an approval of a batch counts whatever became of the others.
CountedAlone(c) ==
    {x \in approvals[c] :
        /\ Unexpired(x)
        /\ x.signer \notin revoked
        /\ x.signer # ActorOf[c]
        /\ x.policy = active
        /\ x.seen[c] = Graph(c)}

\* resolve: an approval given to a batch holds while the batch is current.
Resolves(x) == x.batch # None => Current(x.batch)

\* The approvals an evaluation counts.
Counted(c) ==
    {x \in approvals[c] :
        /\ Unexpired(x)
        /\ x.signer \notin revoked
        /\ x.signer # ActorOf[c]
        /\ x.policy = active
        /\ x.seen[c] = Graph(c)
        /\ Resolves(x)}

Forbidden(c) == \/ c \in restricted
                \/ ActorOf[c] \in revoked
                \/ c \in expired
                \/ under[c] # active

Evidenced(c) ==
    /\ \A e \in attached[c] : Condition(e) = "ok" /\ e \notin expired
    /\ Cardinality({FailureDomain[IssuerOf[e]] : e \in attached[c]}) >= Independent

Approved(c) ==
    Cardinality({FailureDomain[x.signer] : x \in Counted(c)}) >= Threshold

\* evaluation and evaluatePolicy.
Decision(c) == IF Forbidden(c) THEN "DENY"
               ELSE IF c \in Reducible THEN "SHIELD"
               ELSE IF Evidenced(c) /\ Approved(c) THEN "ALLOW"
               ELSE "ESCROW"
-----------------------------------------------------------------------------
(* The world.                                                              *)

\* Repeating an event would change nothing.
Happens == events < MaxEvents /\ events' = events + 1

\* Fabric.revoke; a certificate can only be revoked once it has an identifier.
Revoke(id) ==
    /\ Happens
    /\ id \notin revoked
    /\ id \in Capsules => cert[id] # None
    /\ revoked' = revoked \cup {id}
    /\ UNCHANGED <<records, batchDb, signed, lapsed, expired, gone, held, active, restricted>>

Expire(x) ==
    /\ Happens
    /\ x \notin expired
    /\ expired' = expired \cup {x}
    /\ UNCHANGED <<records, batchDb, signed, lapsed, revoked, gone, held, active, restricted>>

Lapse(x) ==
    /\ Happens
    /\ x \notin lapsed
    /\ lapsed' = lapsed \cup {x}
    /\ UNCHANGED <<records, batchDb, signed, revoked, expired, gone, held, active, restricted>>

\* A policy change has been executed (ExecutionGate).
ActivatePolicy ==
    /\ Happens
    /\ active' = active + 1
    /\ UNCHANGED <<records, batchDb, signed, lapsed, revoked, expired, gone, held, restricted>>

\* EmergencyPolicies.activate, and the expiry of what it activated.
Restrict(C) ==
    /\ Happens
    /\ C # restricted
    /\ restricted' = C
    /\ UNCHANGED <<records, batchDb, signed, lapsed, revoked, expired, gone, held, active>>
-----------------------------------------------------------------------------
(* Until a capsule is certified.                                           *)

\* A record as propose and createShieldedProposal leave it.
Enter(c, v) ==
    /\ status' = [status EXCEPT ![c] = "OPEN"]
    /\ under' = [under EXCEPT ![c] = v]
    /\ UNCHANGED <<attached, approvals, cert, batchDb, signed, world, gone, held>>

Propose(c) ==
    /\ status[c] = "none"
    /\ \A r \in Reducible : c # SuccessorOf[r]
    /\ ActorOf[c] \notin revoked
    /\ Enter(c, active)
    /\ UNCHANGED successors

Shield(c) ==
    /\ c \in Reducible
    /\ Mutable(c)
    /\ Decision(c) = "SHIELD"
    /\ Enter(SuccessorOf[c], under[c])
    /\ successors' = successors \cup {c}

\* New evidence takes away the approvals of what there was before.
AttachEvidence(c, e) ==
    /\ Mutable(c)
    /\ CapsuleOf[e] = c
    /\ e \notin attached[c] \cup expired
    /\ {e, IssuerOf[e]} \cap revoked = {}
    /\ attached' = [attached EXCEPT ![c] = @ \cup {e}]
    /\ approvals' = [approvals EXCEPT ![c] = {}]
    /\ UNCHANGED <<status, under, cert, successors, batchDb, signed, world, gone, held>>

CreateBatch(b) ==
    /\ batch[b] = None
    /\ Ongoing(b)
    /\ \A c \in ChildrenOf[b] : Mutable(c)
    /\ batch' = [batch EXCEPT ![b] = [policy |-> active, seen |-> View(ChildrenOf[b])]]
    /\ UNCHANGED <<records, started, signed, world, gone, held>>

\* A signer signs what the challenge shows, and may do so anew (at) when a
\* statement has expired.
Sign(s, b, C) ==
    /\ Cardinality(signed) < MaxSigned
    /\ \A c \in C : Mutable(c)
    /\ signed' = signed \cup {[at |-> Cardinality(lapsed), signer |-> s, batch |-> b,
                               policy |-> active, seen |-> View(C)]}
    /\ UNCHANGED <<records, batchDb, world, gone, held>>

SignBatch(s, b) == Current(b) /\ Sign(s, b, ChildrenOf[b])

\* approve: what is asked of a statement about an action.
Approvable(x, c) ==
    /\ Unexpired(x)
    /\ x.signer \notin revoked
    /\ Mutable(c)
    /\ x.signer # ActorOf[c]
    /\ x.policy = active
    /\ x.seen[c] = Graph(c)
    /\ \A y \in approvals[c] : y.signer # x.signer

\* The approval of a batch enters every child or none.
Approve(x) ==
    LET C == DOMAIN x.seen IN
    /\ Resolves(x)
    /\ \A c \in C : Approvable(x, c)
    /\ approvals' = [c \in Capsules |->
                       approvals[c] \cup IF c \in C THEN {x} ELSE {}]
    /\ UNCHANGED <<status, under, attached, cert, successors, batchDb, signed, world, gone, held>>

\* Deviation: evaluate does not ask whether the action is still mutable.
EvaluateAnytime(c) ==
    /\ status[c] # "none"
    /\ Decision(c) = "DENY"
    /\ status' = [status EXCEPT ![c] = "DENY"]
    /\ UNCHANGED <<under, attached, approvals, cert, successors, batchDb, signed, world, gone, held>>

\* evaluate: only a denial is for good.
Evaluate(c) ==
    /\ Mutable(c)
    /\ Decision(c) = "DENY"
    /\ status' = [status EXCEPT ![c] = "DENY"]
    /\ UNCHANGED <<under, attached, approvals, cert, successors, batchDb, signed, world, gone, held>>

Certify(c) ==
    /\ Mutable(c)
    /\ Decision(c) = "ALLOW"
    /\ cert' = [cert EXCEPT ![c] = [policy |-> active, graph |-> Graph(c)]]
    /\ status' = [status EXCEPT ![c] = "CERTIFIED"]
    /\ UNCHANGED <<under, attached, approvals, successors, batchDb, signed, world, gone, held>>

Cancel(c) ==
    /\ status[c] \notin {"none"} \cup Dispatched
    /\ status' = [status EXCEPT ![c] = "CANCELLED"]
    /\ UNCHANGED <<under, attached, approvals, cert, successors, batchDb, signed, world, gone, held>>
-----------------------------------------------------------------------------
(* Reservation and after.                                                  *)

\* Deviation: a certificate is authority enough.
ExecutableOnce(c) == status[c] = "CERTIFIED" /\ cert[c].policy = active

\* The predicates the reservation evaluates again; a certificate expires with
\* the first approval of the record, counted or not.
Executable(c) ==
    /\ status[c] = "CERTIFIED"
    /\ c \notin revoked
    /\ \A x \in approvals[c] : Unexpired(x)
    /\ cert[c] = [policy |-> active, graph |-> Graph(c)]
    /\ Decision(c) = "ALLOW"

Reserved(C) ==
    /\ status' = [c \in Capsules |-> IF c \in C THEN "EXECUTING" ELSE status[c]]
    /\ UNCHANGED <<under, attached, approvals, cert, successors, batch, signed, world, gone, held>>

Reserve(c) == Executable(c) /\ Reserved({c}) /\ UNCHANGED started

\* current is checked just before the transaction; whatever ends it in between
\* also ends the certificate of a child.
ReserveBatch(b) ==
    /\ b \notin started
    /\ Current(b)
    /\ \A c \in ChildrenOf[b] : Executable(c)
    /\ Reserved(ChildrenOf[b])
    /\ started' = started \cup {b}

\* finish and reconcile, which may record that the outcome is unclear again.
Finish(c, s) ==
    /\ status[c] \in Dispatched
    /\ status' = [status EXCEPT ![c] = s]
    /\ UNCHANGED <<under, attached, approvals, cert, successors, batchDb, signed, world, gone, held>>
-----------------------------------------------------------------------------
(* Retention.                                                              *)

Hold(e, on) ==
    /\ Happens
    /\ on # (e \in held)
    /\ \E c \in Capsules : e \in attached[c] \ gone
    /\ held' = IF on THEN held \cup {e} ELSE held \ {e}
    /\ UNCHANGED <<records, batchDb, signed, lapsed, revoked, expired, active, restricted, gone>>

Ended == {"none", "DENY", "CANCELLED", "SETTLED"}

Erasable(e) == /\ e \notin held
               /\ \A c \in Capsules : e \in attached[c] => status[c] \in Ended

\* Deviation: the records forget the evidence that is deleted.
RetentionSweepForgets(E) ==
    /\ gone' = gone
    /\ attached' = [c \in Capsules |-> attached[c] \ {e \in E : Erasable(e)}]
    /\ UNCHANGED <<status, under, approvals, cert, successors, batchDb, signed, world, held>>

\* Evidence past its retention, in E, is replaced by a tombstone unless it is
\* held or an action still needs it.
RetentionSweep(E) ==
    /\ gone' = gone \cup {e \in E : Erasable(e)}
    /\ UNCHANGED <<records, batchDb, signed, world, held>>
-----------------------------------------------------------------------------
Next ==
    \/ \E id \in Evidence \cup Issuers \cup Subjects \cup Capsules : Revoke(id)
    \/ \E x \in Evidence \cup Capsules \cup Batches : Expire(x)
    \/ \E x \in signed : Lapse(x) \/ Approve(x)
    \/ ActivatePolicy
    \/ \E C \in Scopes : Restrict(C)
    \/ \E c \in Capsules :
          \/ Propose(c)
          \/ Shield(c)
          \/ \E e \in Evidence : AttachEvidence(c, e)
          \/ \E s \in Signers : Sign(s, None, {c})
          \/ Evaluate(c)
          \/ Certify(c)
          \/ Cancel(c)
          \/ Reserve(c)
          \/ \E s \in Dispatched : Finish(c, s)
    \/ \E b \in Batches :
          \/ CreateBatch(b)
          \/ \E s \in Signers : SignBatch(s, b)
          \/ ReserveBatch(b)
    \/ \E e \in Evidence, on \in BOOLEAN : Hold(e, on)
    \/ \E E \in SUBSET UNION {attached[c] \ gone : c \in Capsules} : RetentionSweep(E)

Spec == Init /\ [][Next]_vars
-----------------------------------------------------------------------------
(* Properties.                                                             *)

\* A statement stands as long as everything its signer was shown is so.
Stands(x) ==
    /\ Unexpired(x)
    /\ x.signer \notin revoked
    /\ x.policy = active
    /\ \A c \in DOMAIN x.seen : x.seen[c] = Graph(c)

\* Whatever is dispatched has been approved, at that moment, by signers from
\* enough domains, other than its actor, who were all shown exactly the
\* evidence and policy in force, and that for every capsule of the batch they
\* approved (docs/API.md: "Adding evidence invalidates prior approvals").
DispatchedAsSigned ==
    [][\A c \in Capsules : status[c] = "CERTIFIED" /\ status'[c] = "EXECUTING" =>
          Cardinality({FailureDomain[x.signer] :
                         x \in {y \in approvals[c] : Stands(y) /\ y.signer # ActorOf[c]}})
             >= Threshold]_vars

\* What an action rests on and has been withdrawn.
Withdrawn(c) ==
    \/ {c, ActorOf[c]} \cap revoked # {}
    \/ \E e \in attached[c] : Condition(e) # "ok" \/ e \in expired

\* An action with withdrawn authority can only be denied or cancelled
\* (docs/RUNBOOKS.md: a revocation "blocks future local use").
WithdrawalStopsAction ==
    [][\A c \in Capsules : status[c] \in {"OPEN", "CERTIFIED"} /\ Withdrawn(c) =>
          status'[c] \in {status[c], "DENY", "CANCELLED"}]_vars

\* A statement that does not stand any more never stands again: no order of
\* attaching, revoking, sweeping and changing policies brings a graph back.
AuthorityOnlyDecays ==
    [][\A x \in signed : Stands(x)' => Stands(x)]_vars
=============================================================================
