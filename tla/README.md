# Invariant Fabric in TLA+

Specifications of the program in this repository, model-checked with TLC and, where it matters most,
proved with TLAPS.  Every definition that stands for code is tied to its lines in `PROJECT.json`
("map"); source paths below are relative to `src/src/` unless they name another directory.

## 1. The system

Invariant Fabric decides whether an action proposed by some agent may change a target system, and
keeps the decision honest afterwards.  A *capsule* (a proposed action with its evidence, approvals and
policy) is certified, reserved, dispatched to a target, and its outcome recorded.  Beside this commit
path stand signed *capabilities* for repeated runtime requests, network gates that enforce them away
from the fabric, and the life cycles of identities, keys, policies and versions.

State lives in four kinds of place:

| place | written by | survives a restart |
|---|---|---|
| `fabric.db` (SQLite, `store.mjs`) | every component, one `BEGIN IMMEDIATE` transaction per operation | yes |
| `target.db` (SQLite, `target.mjs`) | the target simulator, in transactions of its own | yes |
| `config.json` | set-up, operators, and a configuration reload | yes |
| memory of each worker process: configuration, keys, withdrawn tenants, network gate caches | that process | no |

JavaScript runs each call to its end without yielding, so within one process only callbacks
interleave.  What makes the system hard is that several processes open the same two databases and the
same file: each transaction is atomic, but the operations are sequences of transactions on different
databases with reads between them, and a process may die, or a transaction fail, between any two.

### Components

| component | state | operations | talks to | what must be right | here |
|---|---|---|---|---|---|
| Commit gate (`fabric.mjs` execute, finish, reconcile, cancel) | capsule and certificate records, outcomes, active policy | reserve, dispatch, finish, reconcile, cancel | target, policy promotions, audit | an action takes effect at most once; the recorded outcome is true; an unclear one is settled | ExecutionGate |
| Target simulator (`target.mjs`) | versions, journal | execute, executeBatch, probe, seed | called by the gate | compare-and-set and journal are one step | ExecutionGate, BatchExecution |
| Compositions (`composition.mjs`) | composition records and outcomes | create, challenge, approve, execute, reconcile | gate, target | all or none; one reservation per child; an approval covers every child as shown | BatchExecution, ActionAuthority |
| Proposals, evidence, approvals (`fabric.mjs`) | capsules, evidence, SHIELD successors | propose, attach, challenge, approve, evaluate, shield, certificate, revoke, hold, sweep | policy, identities | nothing is dispatched on stale approvals or withdrawn authority | ActionAuthority |
| Policy (`policy.mjs`), emergency (`emergency.mjs`) | policies, promotions, emergency restriction | evaluate, promote, activate, restrict | gate | one line of versions; DENY wins | activation in ExecutionGate; evaluation and restrictions in ActionAuthority |
| Runtime gate (`runtime.mjs`) | usage table | issue, consume | configuration, revocations | budgets hold in every window, across capabilities and policies | RuntimeBudget |
| Runtime configuration (`runtime-config.mjs`) | memory, `config.json`, persisted record | check, withdraw, reload | every runtime request | no rollback; a withdrawal reaches all | RuntimeConfig |
| Revocation outbox (`revocation-outbox.mjs`) | sequence, entries, acknowledgements | enqueue, read, acknowledge | network gates | numbered without gaps | RevocationFeed |
| Network gate (`network.mjs`), proxy (`network-proxy.mjs`) | memory only | sync, revoke, import, reload, decide, endpoint health | outbox | the cursor never passes a revocation that is not in force; what is forgotten no longer counts | RevocationFeed, NetworkUsage (health and quarantine are not modelled) |
| Key lifecycle (`key-lifecycle.mjs`, `suites.mjs`) | rotations, recoveries, ceremonies, key history, memory | rotate, recover, revoke, destroy, restore at start | every signer, the audit chain | a restart finds the newest key; a retired key authorises nothing and its signatures stay verifiable | KeyLifecycle |
| Identities, sessions (`identity-lifecycle.mjs`, `server.mjs`) | authenticators, resets, epochs, grants, credentials; sessions in memory | enrol, reset, recover, reissue, log in | authorize | a reset ends what was opened before it; access ends with its credential | IdentitySessions |
| Operations, coverage, lifecycle, advisory, perception | independent records | one transaction each | gate, audit | small state machines without interaction | not modelled |
| Store, canonical form, crypto, schemas, audit views | hash chain, none | pure functions | everything | equality of digests is equality of contents | atomicity only |

### What is hard

`PROJECT.json` lists the hazards at their lines.  The recurring shapes are: a decision from reads
outside the transaction that acts on it (`reconcile`, `withdraw`, `reload`); an outcome overwritten by
a slower worker; a crash or a lost answer between the target's commit and the record of it; a loop
that fails half-way after some children have committed; a follower that must not skip an entry it
cannot store; and the memory of one worker out of step with the others.

## 2. Modules

### ExecutionGate, OneShotAction

`ExecutionGate` splits the gate at its transactions.  Each worker holds at most one request (`work`):
`Reserve` is the first transaction of `execute`; `TargetApply`, `TargetReject` and `TargetFail` are
the target's; `Finish` or `FinishRefused` is the second transaction; `ReconcileStart`,
`ReconcileProbe` and `Finish` are the three steps of `reconcile`.  `Crash` ends a request anywhere and
also stands for a transaction that throws.  `Seed` changes the target from outside, `LosePromotion`
ends a policy change's promotion.  Policies are their version numbers: `active` is the policy in force,
`under[c]` the policy and `base[c]` the target version a capsule was drawn up against.  Evidence,
approvals and schema rules only restrict when `Certify` may happen and are left open, so what is shown
holds for every way of deciding them.

`OneShotAction` is the promise made to the outside: an action is tried at most once, takes effect at
most once, and is reported as it was.  `ExecutionGate` implements it for each capsule (`Shot`, the
refinement mapping) as the property `ImplementsOneShot`.

### BatchExecution

Compositions over the same steps: `ReserveBatch` reserves all children in one transaction,
`TargetApply` applies them in one, and then one `FinishChild` per child and `RecordOutcome` follow in
separate ones.  `FinishThrows` is the failure of one finish: the code's catch then finishes every child
again, and the digests collected so far stay, so the list of outcomes may hold duplicates; the model
keeps the set of outcomes, which is all the verdict looks at.  A compare-and-set failure inside a batch
reaches the composition as an error like any other, so its children become UNCERTAIN and the branch for
a FAILED composition is never taken.  A composition in which a change of a resource precedes an export of
the same resource is always rejected by the target, since the export binds the version before the
change; the model's composition has the export first.  `BatchImplementsOneShot` shows that a composition, too, is a
one-shot action.  Single executions, cancellations and reconciliations of the children run beside it.
Approvals of batches (`challenge`, `approve`, `resolve`) decide when a child may be certified and are
in ActionAuthority.

### ActionAuthority

What `ExecutionGate` leaves open: when a capsule may be certified and whether its certificate still
holds at the reservation.  One action is one transaction.  `Sign` is the exception: a signer reads the
challenge and signs it, and the statement, kept in `signed`, may arrive at `Approve` at any later time
or never.  A statement records what its signer was shown (`seen`: for each capsule, the condition of
each attached piece of evidence) and the policy; comparing digests is comparing these.  The condition
is what enters the digest of the evidence graph: present, revoked, or replaced by a tombstone; expiry
does not enter it.  `Counted` is what `evaluation` lets through to the policy, batch approvals only while
`Current` holds for all children.  `Decision` keeps the order of the policy's answers.  `OPEN` stands for
every status in which a capsule may still change, and `EXECUTING` and `SETTLED` for what happens after
the reservation, which is ExecutionGate's and BatchExecution's subject.  Revocations, expiries, policy
changes, emergency restrictions and legal holds come from outside (`Happens`) and share one bound.
The three action properties are about the time between signature and dispatch: `DispatchedAsSigned` says
that at the reservation enough signers' statements describe the state as it is then, for
every child of the batch they signed; `WithdrawalStopsAction` that a capsule that lost its evidence, actor or
certificate ends; `AuthorityOnlyDecays` that no sequence of operations makes a stale statement
current again, which is why a certificate does not have to name the statements it rests on.

### RevocationFeed

The outbox and its acknowledgements are durable; a gate is a record with its cursor, the revoked
identifiers, the audit keys it was constructed with, its configuration (`live`, `floor`, `signer`) and
its capabilities, all lost in `Restart`.  `SyncRead` is the read of the outbox, after which `Follow` or
`Stop` deals with one entry at a time, while other processes append revocations; between its entries no
other call reaches the gate.  `SyncRead` may start after a foreign cursor, which models any caller of the public
`syncRevocations` and reaches the gap and replay branches.  `Applied` is `#applyRevocation`: an
envelope that does not verify is an error, one that is too old or does not fit also withdraws the gate.
`Serves` is what the revocations alone allow in `decide`.

### RuntimeConfig

`check` is cut at its statements on shared things: `Check` (the record and the signers), `Compare`
(the file), `Remember`; `withdraw` into `Withdraw` (reads the record) and `Record` (writes it);
`reload` into `Reload`, `WriteFile` and `Install`.  A worker's `proc` holds its place and locals, its
snapshot (`snap`), what it accepted (`acc`) and whether it considers the tenant withdrawn (`gone`).  `Start` is
the constructor, whose check must succeed: a process whose check fails does not come up.  The reload
interval is the choice `due`, failing transactions the choice `ok`, and whether the identities of the
signers are the remembered ones the choice `same`: they are part of `config.json` and read at the start only, so a
worker that has accepted a configuration knows them.  A file may hold a snapshot that does not verify
(`Unsigned`: a start with it withdraws the tenant, a reload writes it over) or not parse (`Broken`: no start, no reload).

### RuntimeBudget, NetworkUsage

`RuntimeBudget` is the fabric's side of the runtime path: `Issue` and `Consume` are one transaction each
and so one action each.  A capability names the policy it was issued under and carries its limits;
`dead` holds those that a revocation or a change of their resource has ended.  `BudgetsHold` takes the
table of charges as it is and asks of each charge whether its resource kept to the limits in the
interval that ends with it, while capabilities and policies come and go.

`NetworkUsage` adds a network gate beside the fabric, which shares the issued capabilities and nothing
else: a ceiling of three is three at the fabric and three at each gate, and a gate that restarts
begins anew.  `memory` is one entry of `#usage`: the remembered calls, one queue per duration
(`WindowOf`, `Advanced`, `Compacted`), the request identifiers (`seen`) and the counts (`costs`).
`Pruned` may forget any of it, and all of it at once.  `Decide` is `decide` from the point where the
capability is known to be valid, with what each refusal leaves behind: limits are looked at one after
the other, so an early refusal leaves the later queues untouched.  `log` is what was allowed;
`DecidesAsDefined` compares each decision with the limits as they would be read off the log, and
`WindowsAreExact` each queue with the calls of its window.

### KeyLifecycle

The keys of one purpose of one tenant.  The records are shared and each transaction on them is one
action; the key a worker signs with (`mem`) is its own.  A request and the key generated for it have one
name, so `request[r].old` is the chain a starting process follows (`Successors`, `OnChain`,
`Restored`).  `Restart` is `restore`: it refuses a forked chain, and a worker that is down is one that
takes no step.  `Activate` is both `activateRotation` and `completeRecovery`, which differ in names
only.  `ActivateTorn` is what their order of statements makes possible: the memory is replaced before
the request is stored, the entry signed and the transaction committed, so an activation that fails in
any of these leaves a worker with a key no record knows; for an audit key whose suite may not sign yet
it always does (`CanSign`).  `torn` remembers that this happened, and three properties make their promise
only as long as it has not.  `log` is the set of keys that have signed an entry of the audit chain: with
`SignsAudit` every transaction adds the key of its worker, whether that key has been retired by another
worker or not.  Approvals live at most `Ttl` and are never renewed, so a request may die (`Approvers`).
The history is read for `StartRotation` outside its transaction; that is one action here, since a key
retired in between makes the request one that can never be activated.

### IdentitySessions

One subject.  `epoch`, `base` and `enrolled` are its `identity-state`: `base` is the configured
authenticator, which `assertAssured` looks up by its id, and `enrolled` any that was added.
`Complete` takes over all of it and advances the epoch; nothing else is told, and each user of a
credential, session, grant or challenge compares its epoch (`Valid`, `Reissuable`).  A server is cut
where the code waits or reads again: `Login` checks the token, `OpenSession` reads the epoch anew
(`server.mjs:134`), `Bearer` and `Cookie` admit a request whose body has yet to arrive, `Operate` runs
it.  `Challenge` reads the epoch before its transaction, so it may store any epoch that has been.
Sessions are in the memory of one server (`Restart` loses them); an expiry of zero stands for a record
that does not exist.  A session remembers the credential it was opened with (`cred`), which the code
does not keep: it is what `AccessIsLive` speaks about.  The health of devices is configured and does not
change.

### ExecutionGateProofs, RevocationFeedProofs, KeyLifecycleProofs, IdentitySessionsProofs, BatchExecutionProofs, RuntimeConfigProofs, ActionAuthorityProofs, NetworkUsageProofs, MC modules

The proofs are in modules of their own.  The MC modules give the function-valued constants small
definitions and nothing else.  Definitions introduced by "Deviation" in a comment are plausible wrong
versions of the definition that follows; no specification uses them, and each property is tested
against one of them.

## 3. Runs

| run | question | instance |
|---|---|---|
| `gate_shared` | can two workers make an action happen twice, record a wrong outcome, lose an update or fork the policy? | 2 workers, an export and 2 policy changes on one resource, 1 crash, version 3 in shadow mode |
| `gate_live` | do requests end and do journaled changes become VERIFIED for good? | 2 workers, 2 capsules, one of them a policy change, 1 outside change, 1 crash |
| `gate_policy_stuck` | *violation* of `PolicyChangeIsVerified` | 1 worker, 2 policy changes of 2 resources |
| `batch_overlap` | is a composition all-or-nothing, reserved once, truthfully reported and settled? | 2 workers, 2 compositions that share an export, 1 crash |
| `batch_shadow` | *violation* of `ShadowNeverMutates` | 1 worker |
| `authority_withdrawn` | can an action be dispatched on authority that has changed or been withdrawn since it was signed? | an action with evidence, an export with its successor, a batch of action and successor, 1 actor and 1 signer, 2 statements, any 2 outside events |
| `feed_follow` | does a gate enforce what its cursor has passed, and does known-revoked access end? | 1 gate, caches of 2, 3 revocations, 2 configuration versions, 1 key rotation, 1 restart, limit of 1 tick |
| `feed_rotated` | *violation* of `RevokedLosesAccess` | 1 gate, 1 revocation, 1 rotation |
| `config_workers` | can a worker roll back, miss a withdrawal, or keep a configuration with a revoked signer? | 2 workers, 2 snapshots, unsigned and unreadable files, 2 starts, 2 events (edits, revocations, expiries) |
| `budget_windows` | does a budget hold for every interval, and does the gate's memory decide as the limits over its whole past would? | 2 services and a dataset on 2 resources, 2 policies, 2 capabilities, 3 calls, 5 ticks; windows of 2 and 4 ticks, calls forgotten after 4, capabilities after 5 |
| `keys_workers` | does a restart find the right key, does the audit chain stay verifiable, and does a retired key or suite come back? | 2 workers, 2 custodians in 2 domains, 2 requests, 2 suites, the audit purpose, 1 restart, 1 tick |
| `identity_resets` | does a reissue, grant or session of an older epoch work after a reset, does access outlive a credential, does anything lift a reset? | 2 servers with 1 session each, 2 signers, 2 requests, 1 reissue, 1 grant, 1 tick |

The runs leave out what other properties of theirs imply.  That VERIFIED and FAILED are true and never contradict each
other (`VerifiedIsJournaled`, `FailedNeverHappens`, `OutcomesNeverContradict`) is part of `ImplementsOneShot`, where a
report needs the phase it speaks of and phases never go back, and that a mutation is preceded by its reservation
(`MutationNeedsReservation`) by `RecordsAgree` and the same phases.  These are proved (section 5) but not run on
their own, like `OneSuccessor` of KeyLifecycle, without which `Restart` would be refused.

### Why the bounds are enough

Two workers and one resource are what every race in the gate needs: one that reads and one that writes
in between.  A third capsule lets a policy change be drawn up, overtaken, and drawn up against the new
policy.  One crash leaves a request half-done at any of its steps; the remaining worker then meets its records.  In the feed
a cache of two entries fills with the first two of three revocations of one kind, so
all four ends of `#applyRevocation` (stored, unsigned, stale, full) happen, and two configuration versions let a withdrawn gate come back.  Gates of one feed share
nothing but the outbox, so one gate shows what many do; the proofs take any number.  Two snapshots are an
older and a newer configuration.  Two requests are a key and its successor, two made from one key by two
workers, or a rotation and the recovery that competes with it; a restart in between shows the chain they left.  For
sessions, two requests are a reset and an enrolment in either order or two resets, one tick lets everything
expire once, and one slot makes the second login wait for the first session to end.
For authority, two children show a batch whose
sibling changes, two statements a stale approval and its replacement or an individual and a batch one, and two events a change followed by
another; counting domains beyond one signer is arithmetic of `evaluatePolicy`.  For
budgets, three calls in a window of four ticks leave a queue whose head has moved without a compaction; a capability that
outlives the memory of its calls (5 ticks against 4) is what a prune could get wrong; and a second that is two
ticks long lets identifiers outlive their capability until the next prune.  Fabric and gate are not used in the same behaviour
(`Bounded`), since they share no count.  `MaxSigned`, `MaxEvents`, `MaxStarts`, `MaxCrashes`, `MaxSeeds`, `MaxTime` and the like only cap counters.

`CHECK_DEADLOCK` is off everywhere because the systems may come to rest: once everything proposed is settled and the
bounded events are spent, nothing is left to do.

### Fairness

- `ExecutionGate`, `BatchExecution`: weak fairness of each worker's continuation (a JavaScript call
  waits for nobody; SQLite's busy errors end it, which is `Crash`), and strong fairness of the reconciliation of each record, which
  the runbook makes an operator's duty (`src/docs/RUNBOOKS.md:15`): it is possible only while a worker is free.  No fairness of proposals, approvals, executions or crashes.
- `RevocationFeed`: a call that began ends, and somebody keeps calling the proxy's `syncRevocations`.
  Nothing in the program calls it on a timer: this is an obligation of whoever embeds the proxy, and
  `KnownRevocationIsRefused` is only as good as it.
- `RuntimeConfig`: requests keep arriving at each running worker (strong fairness, since a worker that
  is asked to reload again and again is only idle in between), and each ends.

## 4. What the runs say about the code

- **A policy change can be stuck** (`gate_policy_stuck`): journaled by the target but overtaken by
  another activation, its finish throws each time and its record stays EXECUTING.
- **Shadow mode does not reach compositions** (`batch_shadow`).
- **A rotated audit key makes a running network gate deaf but not withdrawn** (`feed_rotated`).

Two more divergences are reached by the models and not the subject of a run of their own.  Both are
found at once by giving the property to the configuration named, under `Spec`:

- **A settled outcome may become UNCERTAIN again** (`SettledIsFinal`, `ExecutionGate_live.cfg`).  `reconcile`
  reads outside any transaction (`fabric.mjs:355-359`) and `finish` overwrites what it finds
  (`fabric.mjs:348`), while the state model ends at VERIFIED and FAILED
  (`src/spec/Invariant_Fabric_SRS_and_System_Architecture.md:103`).  It never turns a success into a
  failure or the reverse, and a later reconciliation restores the truth (`gate_shared`, `gate_live`).
  It takes a second worker that reconciles from an older read, or a composition: when one finish throws,
  the catch finishes children already recorded as VERIFIED again as UNCERTAIN, in the same worker
  (`composition.mjs:99-103`, `FinishThrows` in BatchExecution).
- **The version floor of the runtime configuration may fall with two workers** (`FloorNeverFalls`,
  `RuntimeConfig_workers.cfg`): `withdraw` and `reload` decide from what they read before their
  transaction, or from their own memory (`runtime-config.mjs:50`, `84`).  With one worker it holds (`SingleWorkerKeepsFloor`); so
  (`OnlyReloadLifts`) does "a withdrawal is lifted only by a reload", which a second worker can also break by remembering
  an acceptance it decided on before the withdrawal.

Seen while modelling, and not the subject of a run: a certificate names `certificate:<capsule id>` as its
revocation reference (`fabric.mjs:230`) while execution looks for `certificate:<certificate id>` (lines 249 and 277), so
revoking the reference revokes nothing; evidence that expired or was revoked stays attached and counts as an
issue in each evaluation, so attaching fresh evidence does not help and the action must be proposed again; a signer whose
approval went stale with the policy cannot approve again until evidence is attached (line 172), and an expired approval in the record
makes a certificate that is born expired (line 229).  `KeyLifecycle` revokes keys (lines 66, 70, 85)
without putting them in the outbox; the reload of a network gate does not ask whether it has received
a revocation of a signer of the new configuration; an entry older than the propagation limit stops the feed for good,
so a gate restarted later than that can never catch up from the outbox and stays withdrawn after each
sync; a withdrawn gate has a limit of zero, so it accepts only entries of the same instant; a proxy with more than 256 cache entries asks
`read` for more than it permits; once a withdrawal of the runtime configuration is recorded no process
can start, so only a process that is still running can take the signed reload; after a reload through
one worker the others find that the file differs and withdraw the tenant everywhere.  A worker whose key another
worker has replaced exports the audit chain with a list of public keys that lacks the newest one, so its export
does not verify until it restarts (`AuditStaysVerifiable` is about restarted processes); an activation that
fails half-way leaves its worker signing with a key that is in no record, also until it restarts, and what it has signed verifies nowhere
unless the request is activated after all.  A start reads the newest 500 rotations and 500 recoveries of a tenant, all purposes and
pending ones included (`key-lifecycle.mjs:13`, `store.mjs:74`).  Once there have been more, the oldest are
missing and it stops at the key before the first missing one, as a rule the configured key, long retired; the public keys of retired
keys (line 30), the suites that were left (line 55), the retired keys that may be destroyed (line 74) and the
ceremonies (lines 66, 85) are cut at 500 in the same way.  `KeyAssumptions` excludes this.
Resetting the authenticators of a subject is final: an enrolment adds an authenticator that
assurance never looks at (`ResetIsLasting`), so such a subject can hold sessions but never again a grant, whereas
the SRS speaks of "privilege restoration" as a separate action (line 176).  A login that checked its token just before a
reset completes gets a session of the new epoch (`server.mjs:134`); it ends with the credential at the latest, after 15
minutes (`AccessIsLive`), and a request admitted before a reset still runs after it (`server.mjs:140`).  After a policy
with a smaller fan-out is activated, a subject may go on reaching as many resources as before, for as long as it reaches
each of them once a second: `consume` refuses only a resource that was not reached in the last second (`runtime.mjs:93-94`),
and the first second under the new policy starts with what was reached under the old one.  A network gate cannot meet
this, as its policy is fixed when it is constructed.

## 5. What is proved

For all values of the constants that satisfy the named assumptions (`GateAssumptions` of ExecutionGate and of
NetworkUsage, `FeedAssumptions`, `KeyAssumptions`, `SessionAssumptions`, `BatchAssumptions`, `ConfigAssumptions`,
`AuthorityAssumptions`, `BudgetAssumptions`), with no fairness:

**ExecutionGateProofs.**  `TypeCorrect`; then the inductive invariant `GateInv`, in the parts that its
step lemmas treat one by one: reservations (`ReservationStep`: the two records agree, whoever is about to
dispatch holds a reservation nobody else holds, nothing journaled is dispatched again), outcomes
(`OutcomeStep`: an answer in a worker's memory is true of the journal, and a failure can no longer be
overtaken), versions (`VersionStep`: mutations of one resource bind different versions) and the policy
line (`LineageStep`).  None of the properties is inductive alone: that a VERIFIED outcome is true rests
on what workers hold in memory, and that a FAILED one stays true rests on the single reservation.  From
it follow `SingleUse`, `RecordsInStep`, `TruthfulOutcomes`, `LostUpdateFree`, `SinglePolicyLine`,
`VerifiedChangeActivated`, `NoContradiction`, and `Implementation`: each step maps to a step or a stutter of `OneShotAction`.

**BatchExecutionProofs.**  `BatchInv` says of the records what is true of the journal (`RecordsInv`: what is journaled
was dispatched, what is VERIFIED is journaled, no child of a started composition is FAILED), and of every request in a
worker's hands that it `Fits`: its shape (`Shaped`), that its children are reserved and of the composition it names
(`Reserved`), that an answer or a VERIFIED it has collected is true of the journal (`Told`), and that what it carries to the
target is not journaled and meets a started composition only if it is that composition (`Carried`).
`BatchIsAtomic` is not inductive: that the target's transaction completes no other composition rests on `Carried`, and
that a carrier is the only one rests on `ChildReservedOnce` and on compositions not being empty.  Four lemmas (`SteadyStep`,
`RequestStep`, `ReserveStep`, `ApplyStep`) say once what the actions have in common, and each action
is an instance of one of them.  From it follow `BatchTypes`, `AllOrNothing`, `NoDoubleReservation` and `BatchImplementation`:
the phase of a composition moves only with a request that carries it, and what is recorded of it is truthful in its phase.

**RevocationFeedProofs.**  The inductive invariant `FeedInv` has three parts: the types, among them
that a feed in a gate's hands names existing entries of the outbox; that everything up to the cursor
exists and is stored (`FollowedIsRefused`); and `AckedIsPassed`, that what an unrestarted gate has
acknowledged lies at or below its cursor.  `AckedIsRefused` is not inductive without that last part:
an acknowledgement is durable and says nothing of what the gate stored, and only the cursor ties the two.
From it follow `FeedTypes`, `CursorIsHonest`, `AcknowledgementIsHonest` and `GatesNeverForget`.

**KeyLifecycleProofs.**  `KeyInv` has a part that always holds and one that holds until an activation is torn.
The first (`Replacement`) says that keys are retired exactly by the requests that completed from them and that no
two completed from one key; the insertion into the history, which fails for a key that is already there,
is what keeps two workers from both activating (`ChainNeverForks`), torn activations included.  The second
(`Succession`, `FreeSuites`) says that every key in a memory, in the audit chain or in a pending request is
the newest or a retired one, and that a request made from the newest key asks for a suite nobody has left.
`RestartIsCurrent` is not inductive: it speaks of the chain, and only `Succession` says that its end is the newest
key.  From it follow `RestartFindsCurrentKey`, `AuditVerifiable`, `RetiredKeysPowerless`, `NoSuiteReturns` and
`KeyTypeCorrect`.

**IdentitySessionsProofs.**  `SessionInv` adds to the types, which bound each session by its credential, that
nothing is of an epoch that has not begun (`EpochsBegun`) and that a credential does not exist before its
challenge is completed (`IssuedOnce`): without the first an advanced epoch could make something valid again, without
the second a reissue could shorten a credential under a session.  From it follow `SessionTypes`,
`ResetsInvalidate`, `AccessIsBounded` and `ResetLasts`.

**RuntimeConfigProofs.**  `ConfigInv` adds to the types that whatever a worker has read on its way
through a check or a reload is ahead of what it has accepted (`Ahead`): a check compares from nothing older than
its memory, what is about to be remembered is the same or newer, and what is about to be installed is newer.  Without it the step
that stores the new configuration says nothing of the order of two versions, since other workers change the file
and the record between the reads.  Every action is an instance of `WorkerStepsOn`.  From it follow `ConfigTypes` and `NoRollbackInWorker`.
For one worker, `FloorInv` adds that what it is about to record is at or above the floor on record (`Backed`), because nothing
moves the record between its read and its write; `SingleWorkerKeepsFloor` and `OnlyReloadLifts` follow.

**ActionAuthorityProofs.**  The heart of `AuthorityInv` is `Shown`: what a signed statement shows of a
capsule precedes what is there now, in the order in which evidence is only added and its condition only worsens
(`Precedes`), and a statement about a batch shows what the batch's envelope describes.  `Monotone` says of every step that it moves up
in this order.  The order is antisymmetric (`Between`), so a statement that shows the present again after a step has
shown it before, which is `NothingRevives`.  `CountedStand` turns the shallow comparison of the code, which checks a batch
approval through its envelope, into the deep one of `DispatchedAsSigned`; `Envelopes` and the second part of
`Shown` are what it rests on.  `Identified` (a revoked certificate exists) and `Unborn` (a successor is not there
before its capsule is shielded) carry `WithdrawnNeverDispatched` over the steps that issue a certificate or enter a
capsule.

**NetworkUsageProofs.**  For the fabric, `FabricInv` is the types, that `usage` is finite and of the past, and that no
capability is of a later policy than the active one.  The last is what `BudgetsHold` needs: a new charge is of the
active policy, so it lies outside what older charges of an earlier policy add up, and what it adds up itself is what
`Affordable` looked at.  That a sum grows by the cost of a new charge (`SpentAdded`), however the fold
enumerates the set, is proved from the smallest set for which it would fail (`MinimalSet`) instead of by induction.

For the gate, `GateInv` states what the memory means.  Take everything that was ever allowed as a sequence in the
order of time (`Past`).  The remembered calls, and what each queue has ahead of its head, are suffixes of it that
leave out nothing which still counts (`Covers`); the counts are those of what is ahead (`Exact`).  `SeenFaithful` and
`CostsFaithful` say the same of identifiers and costs: what counts for a capability that has not expired is there,
which is why `Pruned` may drop the rest and why a memory that is forgotten altogether is as good as a fresh one
(`Remembered`).  The order of time is what makes a head index enough: the calls that have left a window are
a prefix (`CoversNewer`, `AdvancedAhead`).  `WindowsAreExact` is not inductive, since a queue may be made from the
remembered calls at any later time and a forgotten memory begins anew; only `Longest`, which no window exceeds
(an assumption, as the policy schema bounds windows by 30 days), keeps the remembered calls sufficient.  From `GateInv`
follow `NetworkTypes`, `BudgetsNeverExceeded`, `WindowsExact`, `DecidesByTheLimits`, and, with an induction of its own,
`LimitsAreKept`: no capability exceeds its volume, no window its limit, no second its fan-out.
At the fabric, where policies change under the charges, the same is proved of the rate (`RatesAreKept`) and, only
for policies whose fan-out never falls, of the fan-out (`FanoutIsKept`; section 4 says why).

**Only model-checked:** all liveness (`RequestsEnd`, `JournaledIsVerified`,
`JournaledBatchIsVerified`, `KnownRevocationIsRefused`, `WithdrawalSpreads`, `RevokedSnapshotIsDropped`), which needs
fairness and ENABLED, outside the prover's reach.
The violations are counterexamples of small instances.

## 6. Abstractions

Digests, signatures and canonical forms are equality of the values they bind.  Material written to the
target is its version.  Time is a tick counter in the feed and in the budgets, a choice (`due`, `Expire`) in the
configuration and in ActionAuthority, and absent elsewhere: in the gate, expiry of capsules and certificates
only disables steps that are already optional.  Audit records, alerts and coverage refreshes inside a transaction have no
effect on what the properties see.  Tenants do not share records, so each model is of one tenant.  Idempotency keys
belong to one transaction and are left out.  Lists are complete: the limits of `store.list` (500 requests and retired keys,
which `KeyAssumptions` states; 10000 capsules, pieces of evidence and emergency restrictions) are not reached.
Budgets are those of one subject on one device.  The limits of 10000 calls and identifiers of a gate are not reached, and its
clock does not go back (after a prune nothing is left that would notice).

## 7. Plan

Done: 1 ExecutionGate with OneShotAction and proofs; 2 BatchExecution with proofs; 3 RevocationFeed with proofs;
4 RuntimeConfig with proofs; 5 ActionAuthority with proofs; 6 RuntimeBudget with NetworkUsage and proofs; 7 KeyLifecycle with
proofs; 8 IdentitySessions with proofs.

Next, in this order:

9. **PolicyEvaluation**: precedence of rules and constraints as pure operators, and the promotion
   ladder (`policy.mjs:46-105`, `145-189`).
