---------------------------- MODULE RevocationFeed ----------------------------
(***************************************************************************)
(* Revocations on their way to the network gates: the durable outbox of    *)
(* fabric.db (revocation-outbox.mjs, Fabric.revoke), and the gates that    *)
(* follow it in memory (network.mjs, LocalNetworkProxy.syncRevocations).   *)
(*                                                                         *)
(* A gate keeps a cursor into the outbox and the identifiers it has been   *)
(* told of.  What it cannot apply in order, in time and within its bounds  *)
(* withdraws its configuration, and a gate without one refuses everything  *)
(* until a signed reload.  Everything a gate knows is lost in a restart.   *)
(*                                                                         *)
(* A gate also refuses for reasons left out here: endpoint health, expiry, *)
(* rate and budgets.  Serves is what the revocations alone would allow.    *)
(* Gates and fabric share one clock.                                       *)
(***************************************************************************)
EXTENDS Integers, Sequences, FiniteSets

CONSTANTS
    Gates,          \* network gates of one tenant
    Capabilities,   \* signed capabilities
    Subjects,       \* subjects they are issued to
    Keys,           \* signing keys of capabilities and configurations
    SubjectOf,      \* the subject of a capability
    KeyOf,          \* the key a capability is signed with
    Revocable,      \* bound: the identifiers somebody revokes
    ConfigSigner,   \* a key among the signers of each configuration version
    MaxEntries,     \* the bound of every cache of a gate (cache_entries)
    Slo,            \* revocation_slo_ms, in ticks of the model's clock
    MaxTime,        \* bound: ticks
    MaxRevocations, \* bound: revocations
    MaxPerId,       \* bound: revocations of one identifier
    MaxVersion,     \* bound: configuration versions
    MaxRotations,   \* bound: rotations of the audit key
    MaxRestarts     \* bound: restarts of each gate

Ids == Capabilities \cup Subjects \cup Keys

ASSUME FeedAssumptions ==
    /\ SubjectOf \in [Capabilities -> Subjects]
    /\ KeyOf \in [Capabilities -> Keys]
    /\ Revocable \subseteq Ids
    /\ ConfigSigner \in [1..MaxVersion -> Keys]
    /\ Capabilities \cap Subjects = {}
    /\ Capabilities \cap Keys = {}
    /\ Subjects \cap Keys = {}
    /\ MaxEntries \in Nat \ {0}
    /\ Slo \in Nat \ {0}
    /\ MaxVersion \in Nat \ {0}
    /\ {MaxTime, MaxRevocations, MaxPerId, MaxRotations, MaxRestarts} \subseteq Nat

VARIABLES
    now,      \* the clock
    auditKey, \* number of the audit key that signs revocations
    outbox,   \* fabric.db: the revocations, by sequence number
    acked,    \* fabric.db: <<gate, sequence>> of the acknowledgements
    gate,     \* memory of each gate
    feed,     \* sequence numbers a gate has been handed and not yet applied
    restarts  \* bound counter of Restart

vars == <<now, auditKey, outbox, acked, gate, feed, restarts>>

fabric == <<now, auditKey, outbox>>

Entry == [id : Ids, at : Nat, key : Nat]
Gate  == [live    : BOOLEAN,      \* has a configuration (#config)
          floor   : 1..MaxVersion, \* #configVersionFloor
          signer  : Keys,         \* #configSigners
          keys    : Nat,          \* revocationKeys: audit keys 0..keys
          cursor  : Nat,          \* #revocationCursor
          revoked : SUBSET Ids,   \* #revoked, #revokedSubjects, #revokedKeys
          caps    : SUBSET Capabilities]

TypeOK ==
    /\ now \in 0..MaxTime
    /\ auditKey \in 0..MaxRotations
    /\ outbox \in Seq(Entry)
    /\ acked \in SUBSET (Gates \X Nat)
    /\ gate \in [Gates -> Gate]
    /\ feed \in [Gates -> Seq(1..Len(outbox))]
    /\ restarts \in [Gates -> 0..MaxRestarts]

\* A gate as its constructor leaves it, with the snapshot of a version and
\* the audit keys there have been.
Constructed(v) ==
    [live |-> TRUE, floor |-> v, signer |-> ConfigSigner[v], keys |-> auditKey,
     cursor |-> 0, revoked |-> {}, caps |-> {}]

Init ==
    /\ now = 0
    /\ auditKey = 0
    /\ outbox = <<>>
    /\ acked = {}
    /\ gate = [g \in Gates |-> Constructed(1)]
    /\ feed = [g \in Gates |-> <<>>]
    /\ restarts = [g \in Gates |-> 0]
-----------------------------------------------------------------------------
(* The fabric.                                                             *)

Tick ==
    /\ now < MaxTime
    /\ now' = now + 1
    /\ UNCHANGED <<auditKey, outbox, acked, gate, feed, restarts>>

\* enqueue: the entry is signed with the audit key of this moment.
Enqueue(id) == outbox' = Append(outbox, [id |-> id, at |-> now, key |-> auditKey])

\* Fabric.revoke of a capability, a subject or a key: the revocation and its
\* sequence number are one transaction.
Revoke(id) ==
    /\ Len(outbox) < MaxRevocations
    /\ Cardinality({i \in DOMAIN outbox : outbox[i].id = id}) < MaxPerId
    /\ Enqueue(id)
    /\ UNCHANGED <<now, auditKey, acked, gate, feed, restarts>>

\* activateRotation or completeRecovery for the audit key.
RotateAudit ==
    /\ auditKey < MaxRotations
    /\ auditKey' = auditKey + 1
    /\ UNCHANGED <<now, outbox, acked, gate, feed, restarts>>
-----------------------------------------------------------------------------
(* What a gate does with one revocation (#applyRevocation).                *)

Unsigned(s, e) == e.key > s.keys

\* Without a configuration no age is acceptable.
Stale(s, e) == now - e.at > IF s.live THEN Slo ELSE 0

SameKind(x, y) == \E K \in {Capabilities, Subjects, Keys} : {x, y} \subseteq K

Full(s, e) ==
    /\ e.id \notin s.revoked
    /\ Cardinality({x \in s.revoked : SameKind(x, e.id)}) >= MaxEntries

Accepts(s, e) == ~Unsigned(s, e) /\ ~Stale(s, e) /\ ~Full(s, e)

\* A revoked signer of the configuration withdraws it.
Stored(s, e) == [s EXCEPT !.revoked = @ \cup {e.id},
                          !.live    = @ /\ e.id # s.signer]

Withdrawn(s) == [s EXCEPT !.live = FALSE]

\* Deviation: a stale or excessive entry is only refused.
RejectedMildly(s, e) == s

\* The exception for an envelope that does not verify leaves the gate as it
\* is; the other two withdraw it.
Rejected(s, e) == IF Unsigned(s, e) THEN s ELSE Withdrawn(s)

Applied(s, e) == IF Accepts(s, e) THEN Stored(s, e) ELSE Rejected(s, e)
-----------------------------------------------------------------------------
(* A gate.  A call is synchronous: between the entries of one feed the     *)
(* rest of the world may move, but no other call reaches the gate.         *)

\* Deviation: the cursor's own entry is read again.
SyncReadInclusive(g, after) ==
    /\ feed[g] = <<>>
    /\ after < Len(outbox)
    /\ feed' = [feed EXCEPT ![g] = [i \in 1..(Len(outbox) - after) |-> after + i - 1]]
    /\ UNCHANGED <<fabric, acked, gate, restarts>>

\* syncRevocations begins, with what read returned after a cursor: the gate's
\* own (the proxy), or another one.
SyncRead(g, after) ==
    /\ feed[g] = <<>>
    /\ after < Len(outbox)
    /\ LET n == IF Len(outbox) - after < MaxEntries
                THEN Len(outbox) - after ELSE MaxEntries
       IN  feed' = [feed EXCEPT ![g] = [i \in 1..n |-> after + i]]
    /\ UNCHANGED <<fabric, acked, gate, restarts>>

InOrder(g) == Head(feed[g]) = gate[g].cursor + 1

\* Deviation: the acknowledgement precedes the application.
FollowAckFirst(g, ok) ==
    LET n == Head(feed[g])  e == outbox[n] IN
    /\ feed[g] # <<>>
    /\ InOrder(g)
    /\ ~Unsigned(gate[g], e)
    /\ ok
    /\ acked' = acked \cup {<<g, n>>}
    /\ gate' = IF Accepts(gate[g], e)
               THEN [gate EXCEPT ![g] = [Stored(@, e) EXCEPT !.cursor = n]]
               ELSE [gate EXCEPT ![g] = Withdrawn(@)]
    /\ feed' = [feed EXCEPT ![g] = IF Accepts(gate[g], e) THEN Tail(@) ELSE <<>>]
    /\ UNCHANGED <<fabric, restarts>>

\* The next entry is applied, the cursor advanced, the entry acknowledged;
\* if the acknowledgement fails the rest of the feed is left.
Follow(g, ok) ==
    LET n == Head(feed[g])  e == outbox[n] IN
    /\ feed[g] # <<>>
    /\ InOrder(g)
    /\ Accepts(gate[g], e)
    /\ gate' = [gate EXCEPT ![g] = [Stored(@, e) EXCEPT !.cursor = n]]
    /\ acked' = IF ok THEN acked \cup {<<g, n>>} ELSE acked
    /\ feed' = [feed EXCEPT ![g] = IF ok THEN Tail(@) ELSE <<>>]
    /\ UNCHANGED <<fabric, restarts>>

\* Deviation: the cursor moves before the entry is applied.
StopAdvanced(g) ==
    LET n == Head(feed[g])  e == outbox[n] IN
    /\ feed[g] # <<>>
    /\ InOrder(g) => ~Accepts(gate[g], e)
    /\ gate' = IF InOrder(g)
               THEN [gate EXCEPT ![g] = [Rejected(@, e) EXCEPT !.cursor = n]]
               ELSE [gate EXCEPT ![g] = Withdrawn(@)]
    /\ feed' = [feed EXCEPT ![g] = <<>>]
    /\ UNCHANGED <<fabric, acked, restarts>>

\* A gap, a replay or an entry that is not accepted ends the call.
Stop(g) ==
    LET e == outbox[Head(feed[g])] IN
    /\ feed[g] # <<>>
    /\ InOrder(g) => ~Accepts(gate[g], e)
    /\ gate' = [gate EXCEPT ![g] = IF InOrder(g) THEN Rejected(@, e)
                                   ELSE Withdrawn(@)]
    /\ feed' = [feed EXCEPT ![g] = <<>>]
    /\ UNCHANGED <<fabric, acked, restarts>>

\* revoke: an envelope carried to the gate outside the feed, at any time.
RevokeDirectly(g, i) ==
    /\ feed[g] = <<>>
    /\ gate' = [gate EXCEPT ![g] = Applied(@, outbox[i])]
    /\ UNCHANGED <<fabric, acked, feed, restarts>>

\* importCapability.
Import(g, c) ==
    /\ feed[g] = <<>>
    /\ Cardinality(gate[g].caps) < MaxEntries \/ c \in gate[g].caps
    /\ KeyOf[c] \notin gate[g].revoked
    /\ gate' = [gate EXCEPT ![g].caps = @ \cup {c}]
    /\ UNCHANGED <<fabric, acked, feed, restarts>>

\* Deviation: a reload starts the caches afresh.
ReloadAfresh(g, v) ==
    /\ feed[g] = <<>>
    /\ v > gate[g].floor
    /\ gate' = [gate EXCEPT ![g] = [Constructed(v) EXCEPT
                                      !.cursor = gate[g].cursor,
                                      !.keys = gate[g].keys]]
    /\ UNCHANGED <<fabric, acked, feed, restarts>>

\* reload of a signed configuration that advances the version.
Reload(g, v) ==
    /\ feed[g] = <<>>
    /\ v > gate[g].floor
    /\ gate' = [gate EXCEPT ![g] = [@ EXCEPT !.live   = TRUE,
                                             !.floor  = v,
                                             !.signer = ConfigSigner[v]]]
    /\ UNCHANGED <<fabric, acked, feed, restarts>>

\* withdraw, called when another cache of the gate is full.
Withdraw(g) ==
    /\ feed[g] = <<>>
    /\ gate' = [gate EXCEPT ![g] = Withdrawn(@)]
    /\ UNCHANGED <<fabric, acked, feed, restarts>>

\* The process ends, even within a call, and starts with some snapshot.
Restart(g, v) ==
    /\ restarts[g] < MaxRestarts
    /\ restarts' = [restarts EXCEPT ![g] = @ + 1]
    /\ gate' = [gate EXCEPT ![g] = Constructed(v)]
    /\ feed' = [feed EXCEPT ![g] = <<>>]
    /\ UNCHANGED <<fabric, acked>>
-----------------------------------------------------------------------------
Next ==
    \/ Tick
    \/ \E id \in Revocable : Revoke(id)
    \/ RotateAudit
    \/ \E g \in Gates :
          \/ \E after \in 0..Len(outbox) : SyncRead(g, after)
          \/ \E ok \in BOOLEAN : Follow(g, ok)
          \/ Stop(g)
          \/ \E i \in 1..Len(outbox) : RevokeDirectly(g, i)
          \/ \E c \in Capabilities : Import(g, c)
          \/ \E v \in 1..MaxVersion : Reload(g, v) \/ Restart(g, v)
          \/ Withdraw(g)

Spec == Init /\ [][Next]_vars

\* Somebody keeps calling the proxy's syncRevocations for every gate (nothing
\* in the program does), and a call that began runs to its end.
Fairness ==
    \A g \in Gates :
       /\ WF_vars(SyncRead(g, gate[g].cursor))
       /\ WF_vars((\E ok \in BOOLEAN : Follow(g, ok)) \/ Stop(g))

FairSpec == Spec /\ Fairness
-----------------------------------------------------------------------------
(* Properties.                                                             *)

\* Whether a gate would let the holder of a capability through, as far as
\* revocations decide it.
Serves(g, c) ==
    /\ gate[g].live
    /\ c \in gate[g].caps
    /\ gate[g].revoked \cap {c, SubjectOf[c], KeyOf[c]} = {}

\* Everything the cursor has passed is in force: full caches, gaps, replays
\* and stale entries never let the cursor past a revocation that was not
\* stored (syncRevocations, #ensureRevocationCapacity).
FollowedIsRefused ==
    \A g \in Gates : \A i \in 1..gate[g].cursor :
       i \in DOMAIN outbox /\ outbox[i].id \in gate[g].revoked

\* A gate that has not been restarted enforces what it acknowledged, although
\* acknowledgements may fail and calls may end half-way.
AckedIsRefused ==
    \A g \in Gates, n \in 1..Len(outbox) :
       <<g, n>> \in acked /\ restarts[g] = 0 => outbox[n].id \in gate[g].revoked

\* Short of a restart, no step of the program makes a gate forget a
\* revocation, go back in the feed or accept an older configuration.
NothingForgotten ==
    [][\A g \in Gates :
          restarts'[g] = restarts[g] =>
             /\ gate[g].revoked \subseteq gate'[g].revoked
             /\ gate[g].cursor <= gate'[g].cursor
             /\ gate[g].floor <= gate'[g].floor
             /\ ~gate[g].live /\ gate'[g].live => gate[g].floor < gate'[g].floor]_vars

Concerns(e, c) == e.id \in {c, SubjectOf[c], KeyOf[c]}

\* A revocation in the outbox, signed with an audit key the gate knows, is
\* refused, again and again, by every gate that keeps reading the feed: it
\* follows, or it is withdrawn (syncRevocations, #applyRevocation).
KnownRevocationIsRefused ==
    \A g \in Gates, c \in Capabilities :
       (\E i \in 1..Len(outbox) :
           Concerns(outbox[i], c) /\ outbox[i].key <= gate[g].keys)
       ~> ~Serves(g, c)

\* Whoever is revoked loses access at every gate that keeps reading the feed
\* (RUN-004 of the SRS).
RevokedLosesAccess ==
    \A g \in Gates, c \in Capabilities :
       (\E i \in 1..Len(outbox) : Concerns(outbox[i], c)) ~> ~Serves(g, c)
=============================================================================
