------------------------- MODULE RevocationFeedProofs -------------------------
(***************************************************************************)
(* Proofs about RevocationFeed, for every number of gates, identifiers,    *)
(* revocations, restarts and rotations.                                    *)
(***************************************************************************)
EXTENDS RevocationFeed, SequenceTheorems, TLAPS

\* In the same incarnation of a gate an acknowledgement never runs ahead of
\* the cursor.
AckedIsPassed ==
    \A g \in Gates : \A n \in Nat :
       <<g, n>> \in acked /\ restarts[g] = 0 => n <= gate[g].cursor

FeedInv == TypeOK /\ FollowedIsRefused /\ AckedIsPassed

\* One revocation turns a gate state into a gate state, and touches nothing
\* but the configuration and the set of revocations, which only grows
\* (#applyRevocation).
LEMMA ApplicationType ==
    ASSUME NEW s \in Gate, NEW e \in Entry
    PROVE  /\ Applied(s, e) \in Gate
           /\ Stored(s, e) \in Gate
           /\ Rejected(s, e) \in Gate
           /\ Withdrawn(s) \in Gate
PROOF
<1>1. Stored(s, e) \in Gate
  BY DEF Stored, Gate, Entry
<1>2. Withdrawn(s) \in Gate
  BY DEF Withdrawn, Gate
<1>3. Rejected(s, e) \in Gate
  BY <1>2 DEF Rejected
<1> QED
  BY <1>1, <1>2, <1>3 DEF Applied

LEMMA ApplicationGrows ==
    ASSUME NEW s \in Gate, NEW e \in Entry,
           NEW t \in {Applied(s, e), Stored(s, e), Rejected(s, e), Withdrawn(s)}
    PROVE  /\ s.revoked \subseteq t.revoked
           /\ t.cursor = s.cursor
           /\ t.floor = s.floor
           /\ t.live => s.live
PROOF
  BY DEF Applied, Stored, Rejected, Withdrawn, Gate, Entry

\* A gate that has just been constructed is a gate state.
LEMMA ConstructedType ==
    ASSUME auditKey \in Nat, NEW v \in 1..MaxVersion
    PROVE  Constructed(v) \in Gate
PROOF
  BY FeedAssumptions DEF Constructed, Gate

\* What a gate has still to apply is in the outbox.
LEMMA FeedHead ==
    ASSUME TypeOK, NEW g \in Gates, feed[g] # <<>>
    PROVE  /\ Head(feed[g]) \in 1..Len(outbox)
           /\ outbox[Head(feed[g])] \in Entry
           /\ Tail(feed[g]) \in Seq(1..Len(outbox))
PROOF
<1>1. feed[g] \in Seq(1..Len(outbox))
  BY DEF TypeOK
<1>2. Head(feed[g]) \in 1..Len(outbox) /\ Tail(feed[g]) \in Seq(1..Len(outbox))
  BY <1>1, HeadTailProperties
<1>3. outbox \in Seq(Entry)
  BY DEF TypeOK
<1> QED
  BY <1>2, <1>3

LEMMA InitFeedInv == Init => FeedInv
PROOF
<1> SUFFICES ASSUME Init PROVE FeedInv
  OBVIOUS
<1>1. auditKey \in Nat /\ 1 \in 1..MaxVersion
  BY FeedAssumptions DEF Init
<1>2. \A g \in Gates : gate[g] = Constructed(1) /\ gate[g] \in Gate
  BY <1>1, ConstructedType DEF Init
<1>3. \A g \in Gates : gate[g].cursor = 0
  BY <1>2 DEF Constructed
<1>4. TypeOK
  <2>1. gate \in [Gates -> Gate]
    BY <1>2 DEF Init
  <2>2. feed \in [Gates -> Seq(1..Len(outbox))]
    BY DEF Init
  <2> QED
    BY <2>1, <2>2, FeedAssumptions DEF TypeOK, Init
<1>5. FollowedIsRefused
  BY <1>3 DEF FollowedIsRefused
<1>6. AckedIsPassed
  BY DEF AckedIsPassed, Init
<1> QED
  BY <1>4, <1>5, <1>6 DEF FeedInv

\* A step that leaves the cursor, the acknowledgements and the history alone
\* and lets the revocations of each gate only grow keeps the invariant.
LEMMA QuietStep ==
    ASSUME FeedInv, TypeOK',
           acked' = acked, restarts' = restarts,
           \A i \in 1..Len(outbox) : i \in DOMAIN outbox' /\ outbox'[i] = outbox[i],
           \A g \in Gates : /\ gate'[g].cursor = gate[g].cursor
                            /\ gate[g].revoked \subseteq gate'[g].revoked
    PROVE  FeedInv'
PROOF
<1>1. FollowedIsRefused'
  <2> SUFFICES ASSUME NEW g \in Gates, NEW i \in 1..gate'[g].cursor
               PROVE  i \in DOMAIN outbox' /\ outbox'[i].id \in gate'[g].revoked
    BY DEF FollowedIsRefused
  <2>1. i \in 1..gate[g].cursor
    OBVIOUS
  <2>2. i \in DOMAIN outbox /\ outbox[i].id \in gate[g].revoked
    BY <2>1 DEF FeedInv, FollowedIsRefused
  <2>3. i \in 1..Len(outbox)
    BY <2>2 DEF FeedInv, TypeOK
  <2> QED
    BY <2>2, <2>3
<1>2. AckedIsPassed'
  BY DEF FeedInv, AckedIsPassed
<1> QED
  BY <1>1, <1>2 DEF FeedInv

\* Fabric.revoke appends.
LEMMA RevokeStep == ASSUME FeedInv, NEW id \in Revocable, Revoke(id) PROVE FeedInv'
PROOF
<1> DEFINE e == [id |-> id, at |-> now, key |-> auditKey]
<1>1. TypeOK
  BY DEF FeedInv
<1>2. outbox \in Seq(Entry) /\ e \in Entry
  BY <1>1, FeedAssumptions DEF TypeOK, Entry
<1>3. /\ outbox' \in Seq(Entry)
      /\ Len(outbox') = Len(outbox) + 1
      /\ \A i \in 1..Len(outbox) : i \in DOMAIN outbox' /\ outbox'[i] = outbox[i]
  BY <1>2, AppendProperties DEF Revoke, Enqueue
<1>4. feed \in [Gates -> Seq(1..Len(outbox'))]
  <2> SUFFICES ASSUME NEW g \in Gates PROVE feed[g] \in Seq(1..Len(outbox'))
    BY <1>1 DEF TypeOK
  <2>1. feed[g] \in Seq(1..Len(outbox))
    BY <1>1 DEF TypeOK
  <2>2. 1..Len(outbox) \subseteq 1..Len(outbox')
    BY <1>2, <1>3
  <2> HIDE DEF e
  <2> QED
    BY <2>1, <2>2, SeqMonotonic
<1>5. TypeOK'
  BY <1>1, <1>3, <1>4 DEF Revoke, TypeOK
<1> QED
  BY <1>3, <1>5, QuietStep DEF Revoke

\* The clock, and a rotation of the audit key.
LEMMA FabricStep == ASSUME FeedInv, Tick \/ RotateAudit PROVE FeedInv'
PROOF
<1>1. TypeOK' /\ outbox' = outbox /\ acked' = acked /\ gate' = gate
      /\ restarts' = restarts
  BY FeedAssumptions DEF Tick, RotateAudit, FeedInv, TypeOK
<1>2. DOMAIN outbox = 1..Len(outbox)
  BY DEF FeedInv, TypeOK
<1> QED
  BY <1>1, <1>2, QuietStep

\* A call that only changes what one gate keeps beside its cursor.
LEMMA GateStep ==
    ASSUME FeedInv, NEW g \in Gates, NEW s \in Gate,
           s.cursor = gate[g].cursor, gate[g].revoked \subseteq s.revoked,
           gate' = [gate EXCEPT ![g] = s],
           feed' = feed \/ feed' = [feed EXCEPT ![g] = <<>>],
           UNCHANGED <<fabric, acked, restarts>>
    PROVE  FeedInv'
PROOF
<1>1. TypeOK
  BY DEF FeedInv
<1>2. <<>> \in Seq(1..Len(outbox))
  OBVIOUS
<1>3. TypeOK'
  BY <1>1, <1>2 DEF TypeOK, fabric
<1>4. \A h \in Gates : /\ gate'[h].cursor = gate[h].cursor
                       /\ gate[h].revoked \subseteq gate'[h].revoked
  BY <1>1 DEF TypeOK
<1>5. DOMAIN outbox = 1..Len(outbox)
  BY <1>1 DEF TypeOK
<1> QED
  BY <1>3, <1>4, <1>5, QuietStep DEF fabric

\* A feed that ends early, at an entry that is not accepted.
LEMMA StopStep == ASSUME FeedInv, NEW g \in Gates, Stop(g) PROVE FeedInv'
PROOF
<1> DEFINE e == outbox[Head(feed[g])]
           s == IF InOrder(g) THEN Rejected(gate[g], e) ELSE Withdrawn(gate[g])
<1>1. TypeOK /\ gate[g] \in Gate
  BY DEF FeedInv, TypeOK
<1>2. e \in Entry
  BY <1>1, FeedHead DEF Stop
<1>3. s \in Gate
  BY <1>1, <1>2, ApplicationType
<1>4. s.cursor = gate[g].cursor /\ gate[g].revoked \subseteq s.revoked
  BY <1>1, <1>2, ApplicationGrows
<1>5. gate' = [gate EXCEPT ![g] = s]
  BY DEF Stop
<1> QED
  BY <1>3, <1>4, <1>5, GateStep DEF Stop

\* An envelope outside the feed.
LEMMA RevokeDirectlyStep ==
    ASSUME FeedInv, NEW g \in Gates, NEW i \in 1..Len(outbox),
           RevokeDirectly(g, i)
    PROVE  FeedInv'
PROOF
<1>1. gate[g] \in Gate /\ outbox[i] \in Entry
  BY DEF FeedInv, TypeOK
<1>2. Applied(gate[g], outbox[i]) \in Gate
  BY <1>1, ApplicationType
<1>3. /\ Applied(gate[g], outbox[i]).cursor = gate[g].cursor
      /\ gate[g].revoked \subseteq Applied(gate[g], outbox[i]).revoked
  BY <1>1, ApplicationGrows
<1> QED
  BY <1>2, <1>3, GateStep DEF RevokeDirectly

\* importCapability, reload and withdraw.
LEMMA ControlStep ==
    ASSUME FeedInv, NEW g \in Gates,
           \/ \E c \in Capabilities : Import(g, c)
           \/ \E v \in 1..MaxVersion : Reload(g, v)
           \/ Withdraw(g)
    PROVE  FeedInv'
PROOF
<1>1. gate[g] \in Gate
  BY DEF FeedInv, TypeOK
<1>2. CASE \E c \in Capabilities : Import(g, c)
  <2>1. PICK c \in Capabilities : Import(g, c)
    BY <1>2
  <2> DEFINE s == [gate[g] EXCEPT !.caps = @ \cup {c}]
  <2>2. s \in Gate /\ s.cursor = gate[g].cursor /\ s.revoked = gate[g].revoked
    BY <1>1 DEF Gate
  <2>3. gate' = [gate EXCEPT ![g] = s]
    BY <2>1 DEF Import
  <2> QED
    BY <2>1, <2>2, <2>3, GateStep DEF Import
<1>3. CASE \E v \in 1..MaxVersion : Reload(g, v)
  <2>1. PICK v \in 1..MaxVersion : Reload(g, v)
    BY <1>3
  <2> DEFINE s == [gate[g] EXCEPT !.live = TRUE, !.floor = v,
                                  !.signer = ConfigSigner[v]]
  <2>2. s \in Gate /\ s.cursor = gate[g].cursor /\ s.revoked = gate[g].revoked
    BY <1>1, FeedAssumptions DEF Gate
  <2>3. gate' = [gate EXCEPT ![g] = s]
    BY <2>1 DEF Reload
  <2> QED
    BY <2>1, <2>2, <2>3, GateStep DEF Reload
<1>4. CASE Withdraw(g)
  <2>1. /\ Withdrawn(gate[g]) \in Gate
        /\ Withdrawn(gate[g]).cursor = gate[g].cursor
        /\ Withdrawn(gate[g]).revoked = gate[g].revoked
    BY <1>1 DEF Withdrawn, Gate
  <2> QED
    BY <1>4, <2>1, GateStep DEF Withdraw
<1> QED
  BY <1>2, <1>3, <1>4

\* A call of syncRevocations begins.
LEMMA SyncReadStep ==
    ASSUME FeedInv, NEW g \in Gates, NEW after \in 0..Len(outbox), SyncRead(g, after)
    PROVE  FeedInv'
PROOF
<1> DEFINE n == IF Len(outbox) - after < MaxEntries
                THEN Len(outbox) - after ELSE MaxEntries
           f == [i \in 1..n |-> after + i]
<1>1. TypeOK /\ Len(outbox) \in Nat
  BY DEF FeedInv, TypeOK
<1>2. n \in Nat /\ after + n <= Len(outbox)
  BY <1>1, FeedAssumptions
<1>3. \A i \in 1..n : after + i \in 1..Len(outbox)
  BY <1>1, <1>2
<1>4. f \in Seq(1..Len(outbox))
  <2> HIDE DEF n
  <2> QED
    BY <1>2, <1>3, IsASeq
<1>5. feed' = [feed EXCEPT ![g] = f]
  BY DEF SyncRead
<1>6. TypeOK'
  <2> HIDE DEF f
  <2> QED
    BY <1>1, <1>4, <1>5 DEF SyncRead, TypeOK, fabric
<1>7. DOMAIN outbox = 1..Len(outbox)
  BY <1>1 DEF TypeOK
<1> QED
  BY <1>6, <1>7, QuietStep DEF SyncRead, fabric

\* The next entry of the feed: the cursor moves with what is stored.
LEMMA FollowStep ==
    ASSUME FeedInv, NEW g \in Gates, NEW ok \in BOOLEAN, Follow(g, ok)
    PROVE  FeedInv'
PROOF
<1> DEFINE n == Head(feed[g])
           e == outbox[n]
           s == [Stored(gate[g], e) EXCEPT !.cursor = n]
<1>1. TypeOK /\ gate[g] \in Gate
  BY DEF FeedInv, TypeOK
<1>2. n \in 1..Len(outbox) /\ e \in Entry /\ Tail(feed[g]) \in Seq(1..Len(outbox))
  BY <1>1, FeedHead DEF Follow
<1>3. n = gate[g].cursor + 1
  BY DEF Follow, InOrder
<1>4. /\ s \in Gate
      /\ s.cursor = n
      /\ s.revoked = gate[g].revoked \cup {e.id}
  <2>1. Stored(gate[g], e) \in Gate
    BY <1>1, <1>2, ApplicationType
  <2>2. Stored(gate[g], e).revoked = gate[g].revoked \cup {e.id}
    BY <1>1 DEF Stored, Gate
  <2>3. Len(outbox) \in Nat
    BY <1>1 DEF TypeOK
  <2> QED
    BY <1>2, <2>1, <2>2, <2>3 DEF Gate
<1>5. gate' = [gate EXCEPT ![g] = s]
  BY DEF Follow
<1>6. feed' = [feed EXCEPT ![g] = IF ok THEN Tail(@) ELSE <<>>]
  BY DEF Follow
<1>7. acked' \in {acked, acked \cup {<<g, n>>}}
  BY DEF Follow
<1>8. outbox' = outbox /\ restarts' = restarts /\ now' = now /\ auditKey' = auditKey
  BY DEF Follow, fabric
<1> HIDE DEF n, e, s
<1>9. TypeOK'
  <2>1. gate' \in [Gates -> Gate]
    BY <1>1, <1>4, <1>5 DEF TypeOK
  <2>2. feed' \in [Gates -> Seq(1..Len(outbox))]
    <3>1. <<>> \in Seq(1..Len(outbox))
      BY EmptySeq
    <3>2. (IF ok THEN Tail(feed[g]) ELSE <<>>) \in Seq(1..Len(outbox))
      BY <1>2, <3>1
    <3> QED
      BY <1>1, <1>6, <3>2 DEF TypeOK
  <2>3. acked' \in SUBSET (Gates \X Nat)
    BY <1>1, <1>2, <1>7 DEF TypeOK
  <2> QED
    BY <1>1, <1>8, <2>1, <2>2, <2>3 DEF TypeOK
<1>10. FollowedIsRefused'
  <2> SUFFICES ASSUME NEW h \in Gates, NEW i \in 1..gate'[h].cursor
               PROVE  i \in DOMAIN outbox /\ outbox[i].id \in gate'[h].revoked
    BY <1>8 DEF FollowedIsRefused
  <2>1. CASE h = g /\ i = n
    BY <1>1, <1>2, <1>4, <1>5, <2>1 DEF TypeOK, e
  <2>2. CASE h # g \/ i # n
    <3>1. gate[h] \in Gate /\ gate[g] \in Gate
      BY <1>1 DEF TypeOK
    <3>2. gate'[h].cursor = IF h = g THEN n ELSE gate[h].cursor
      BY <1>1, <1>4, <1>5 DEF TypeOK
    <3>3. i \in 1..gate[h].cursor
      BY <1>3, <2>2, <3>1, <3>2 DEF Gate
    <3>4. i \in DOMAIN outbox /\ outbox[i].id \in gate[h].revoked
      BY <3>3 DEF FeedInv, FollowedIsRefused
    <3>5. gate[h].revoked \subseteq gate'[h].revoked
      BY <1>1, <1>4, <1>5 DEF TypeOK
    <3> QED
      BY <3>4, <3>5
  <2> QED
    BY <2>1, <2>2
<1>11. AckedIsPassed'
  <2> SUFFICES ASSUME NEW h \in Gates, NEW i \in Nat,
                      <<h, i>> \in acked', restarts[h] = 0
               PROVE  i <= gate'[h].cursor
    BY <1>8 DEF AckedIsPassed
  <2>1. CASE h = g /\ i = n
    BY <1>1, <1>2, <1>4, <1>5, <2>1 DEF TypeOK
  <2>2. CASE h # g \/ i # n
    <3>1. <<h, i>> \in acked
      BY <1>7, <2>2
    <3>2. i <= gate[h].cursor
      BY <3>1 DEF FeedInv, AckedIsPassed
    <3>3. CASE h = g
      BY <1>1, <1>3, <1>4, <1>5, <3>2, <3>3 DEF TypeOK, Gate
    <3>4. CASE h # g
      BY <1>1, <1>5, <3>2, <3>4 DEF TypeOK
    <3> QED
      BY <3>3, <3>4
  <2> QED
    BY <2>1, <2>2
<1> QED
  BY <1>9, <1>10, <1>11 DEF FeedInv

\* A restarted gate has passed nothing, and its acknowledgements are those of
\* an earlier incarnation.
LEMMA RestartStep ==
    ASSUME FeedInv, NEW g \in Gates, NEW v \in 1..MaxVersion, Restart(g, v)
    PROVE  FeedInv'
PROOF
<1>1. TypeOK /\ auditKey \in Nat
  BY FeedAssumptions DEF FeedInv, TypeOK
<1>2. Constructed(v) \in Gate /\ Constructed(v).cursor = 0
  BY <1>1, ConstructedType DEF Constructed
<1>3. gate' = [gate EXCEPT ![g] = Constructed(v)] /\ outbox' = outbox /\ acked' = acked
  BY DEF Restart, fabric
<1>4. restarts' = [restarts EXCEPT ![g] = @ + 1] /\ restarts[g] \in Nat
  BY <1>1, FeedAssumptions DEF Restart, TypeOK
<1>5. TypeOK'
  <2>1. gate' \in [Gates -> Gate]
    BY <1>1, <1>2, <1>3 DEF TypeOK
  <2>2. feed' \in [Gates -> Seq(1..Len(outbox))]
    BY <1>1 DEF TypeOK, Restart
  <2>3. restarts' \in [Gates -> 0..MaxRestarts]
    BY <1>1, FeedAssumptions DEF TypeOK, Restart
  <2> QED
    BY <1>1, <2>1, <2>2, <2>3 DEF TypeOK, Restart, fabric
<1>6. \A h \in Gates : gate'[h] = IF h = g THEN Constructed(v) ELSE gate[h]
  BY <1>1, <1>3 DEF TypeOK
<1>7. FollowedIsRefused'
  BY <1>2, <1>3, <1>6 DEF FeedInv, FollowedIsRefused
<1>8. AckedIsPassed'
  <2> SUFFICES ASSUME NEW h \in Gates, NEW i \in Nat,
                      <<h, i>> \in acked, restarts'[h] = 0
               PROVE  i <= gate'[h].cursor
    BY <1>3 DEF AckedIsPassed
  <2>1. h # g
    BY <1>1, <1>4 DEF TypeOK
  <2>2. restarts[h] = 0
    BY <1>1, <1>4, <2>1 DEF TypeOK
  <2> QED
    BY <1>6, <2>1, <2>2 DEF FeedInv, AckedIsPassed
<1> QED
  BY <1>5, <1>7, <1>8 DEF FeedInv

LEMMA FeedInvStep == FeedInv /\ [Next]_vars => FeedInv'
PROOF
<1> SUFFICES ASSUME FeedInv, [Next]_vars PROVE FeedInv'
  OBVIOUS
<1>1. CASE Tick \/ RotateAudit
  BY <1>1, FabricStep
<1>2. CASE \E id \in Revocable : Revoke(id)
  BY <1>2, RevokeStep
<1>3. ASSUME NEW g \in Gates,
             \/ \E c \in Capabilities : Import(g, c)
             \/ \E v \in 1..MaxVersion : Reload(g, v)
             \/ Withdraw(g)
      PROVE  FeedInv'
  BY <1>3, ControlStep
<1>4. ASSUME NEW g \in Gates, \E after \in 0..Len(outbox) : SyncRead(g, after)
      PROVE  FeedInv'
  BY <1>4, SyncReadStep
<1>5. ASSUME NEW g \in Gates, \E ok \in BOOLEAN : Follow(g, ok)
      PROVE  FeedInv'
  BY <1>5, FollowStep
<1>6. ASSUME NEW g \in Gates, Stop(g)
      PROVE  FeedInv'
  BY <1>6, StopStep
<1>7. ASSUME NEW g \in Gates, \E i \in 1..Len(outbox) : RevokeDirectly(g, i)
      PROVE  FeedInv'
  BY <1>7, RevokeDirectlyStep
<1>8. ASSUME NEW g \in Gates, \E v \in 1..MaxVersion : Restart(g, v)
      PROVE  FeedInv'
  BY <1>8, RestartStep
<1>9. CASE UNCHANGED vars
  BY <1>9 DEF FeedInv, TypeOK, FollowedIsRefused, AckedIsPassed, vars
<1> QED
  BY <1>1, <1>2, <1>3, <1>4, <1>5, <1>6, <1>7, <1>8, <1>9 DEF Next

\* The inductive invariant: types, the prefix that is in force, and the
\* acknowledgements of the present incarnation.
THEOREM FeedInvariant == Spec => []FeedInv
PROOF
<1> QED
  BY InitFeedInv, FeedInvStep, PTL DEF Spec

\* The variables of outbox and gates keep their types.
THEOREM FeedTypes == Spec => []TypeOK
PROOF
<1>1. FeedInv => TypeOK
  BY DEF FeedInv
<1> QED
  BY <1>1, FeedInvariant, PTL

\* Whatever the cursor of a gate has passed, the gate refuses: for every
\* bound of its caches, number of revocations and of restarts
\* (syncRevocations).
THEOREM CursorIsHonest == Spec => []FollowedIsRefused
PROOF
<1>1. FeedInv => FollowedIsRefused
  BY DEF FeedInv
<1> QED
  BY <1>1, FeedInvariant, PTL

\* What a gate acknowledged since it started, it refuses
\* (LocalNetworkProxy.syncRevocations, RuntimeRevocationOutbox.acknowledge).
THEOREM AcknowledgementIsHonest == Spec => []AckedIsRefused
PROOF
<1>1. FeedInv => AckedIsRefused
  <2> SUFFICES ASSUME FeedInv, NEW g \in Gates, NEW n \in 1..Len(outbox),
                      <<g, n>> \in acked, restarts[g] = 0
               PROVE  outbox[n].id \in gate[g].revoked
    BY DEF AckedIsRefused
  <2>1. n \in Nat /\ gate[g].cursor \in Nat
    BY DEF FeedInv, TypeOK, Gate
  <2>2. n \in 1..gate[g].cursor
    BY <2>1 DEF FeedInv, AckedIsPassed
  <2> QED
    BY <2>2 DEF FeedInv, FollowedIsRefused
<1> QED
  BY <1>1, FeedInvariant, PTL

\* Between two restarts a gate never forgets a revocation, goes back in the
\* feed, or becomes live again without a newer configuration.
THEOREM GatesNeverForget == Spec => NothingForgotten
PROOF
<1> DEFINE Kept(g) == /\ gate[g].revoked \subseteq gate'[g].revoked
                      /\ gate[g].cursor <= gate'[g].cursor
                      /\ gate[g].floor <= gate'[g].floor
                      /\ ~gate[g].live /\ gate'[g].live
                            => gate[g].floor < gate'[g].floor
           Kept2 == \A g \in Gates : restarts'[g] = restarts[g] => Kept(g)
<1>1. FeedInv /\ [Next]_vars => [Kept2]_vars
  <2> SUFFICES ASSUME FeedInv, Next, NEW g \in Gates, restarts'[g] = restarts[g]
               PROVE  Kept(g)
    OBVIOUS
  <2>1. /\ TypeOK
        /\ gate[g] \in Gate
        /\ gate[g].cursor \in Nat
        /\ gate[g].floor \in Nat
        /\ restarts[g] \in Nat
    <3>1. TypeOK /\ gate[g] \in Gate /\ restarts[g] \in 0..MaxRestarts
      BY DEF FeedInv, TypeOK
    <3>2. gate[g].cursor \in Nat /\ gate[g].floor \in 1..MaxVersion
      BY <3>1 DEF Gate
    <3> QED
      BY <3>1, <3>2, FeedAssumptions
  <2>2. CASE gate'[g] = gate[g]
    BY <2>1, <2>2
  <2>4. ASSUME NEW h \in Gates, Stop(h) PROVE Kept(g)
    <3>1. gate[h] \in Gate /\ outbox[Head(feed[h])] \in Entry
      BY <2>1, <2>4, FeedHead DEF Stop, TypeOK
    <3> DEFINE s == IF InOrder(h) THEN Rejected(gate[h], outbox[Head(feed[h])])
                    ELSE Withdrawn(gate[h])
    <3>2. /\ gate[h].revoked \subseteq s.revoked
          /\ s.cursor = gate[h].cursor
          /\ s.floor = gate[h].floor
          /\ s.live => gate[h].live
      BY <3>1, ApplicationGrows
    <3>3. gate' = [gate EXCEPT ![h] = s]
      BY <2>4 DEF Stop
    <3> HIDE DEF s
    <3> QED
      BY <2>1, <3>2, <3>3 DEF TypeOK
  <2>5. ASSUME NEW h \in Gates, NEW i \in 1..Len(outbox), RevokeDirectly(h, i)
        PROVE  Kept(g)
    <3>1. gate[h] \in Gate /\ outbox[i] \in Entry
      BY <2>1 DEF TypeOK
    <3> DEFINE s == Applied(gate[h], outbox[i])
    <3>2. /\ gate[h].revoked \subseteq s.revoked
          /\ s.cursor = gate[h].cursor
          /\ s.floor = gate[h].floor
          /\ s.live => gate[h].live
      BY <3>1, ApplicationGrows
    <3>3. gate' = [gate EXCEPT ![h] = s]
      BY <2>5 DEF RevokeDirectly
    <3> HIDE DEF s
    <3> QED
      BY <2>1, <3>2, <3>3 DEF TypeOK
  <2>6. ASSUME NEW h \in Gates, NEW ok \in BOOLEAN, Follow(h, ok) PROVE Kept(g)
    <3> DEFINE e == outbox[Head(feed[h])]
               t == Stored(gate[h], e)
               s == [t EXCEPT !.cursor = Head(feed[h])]
    <3>1. gate[h] \in Gate /\ e \in Entry
      BY <2>1, <2>6, FeedHead DEF Follow, TypeOK
    <3>2. /\ t \in Gate
          /\ gate[h].revoked \subseteq t.revoked
          /\ t.cursor = gate[h].cursor
          /\ t.floor = gate[h].floor
          /\ t.live => gate[h].live
      BY <3>1, ApplicationGrows, ApplicationType
    <3>3. gate' = [gate EXCEPT ![h] = s] /\ Head(feed[h]) = gate[h].cursor + 1
      BY <2>6 DEF Follow, InOrder
    <3> HIDE DEF e, t
    <3>4. /\ s.revoked = t.revoked /\ s.cursor = gate[h].cursor + 1
          /\ s.floor = t.floor /\ s.live = t.live
      BY <3>2, <3>3 DEF Gate
    <3> HIDE DEF s
    <3>5. CASE h = g
      <4>1. gate'[g] = s
        BY <2>1, <3>3, <3>5 DEF TypeOK
      <4> QED
        BY <2>1, <3>2, <3>4, <3>5, <4>1
    <3>6. CASE h # g
      <4>1. gate'[g] = gate[g]
        BY <2>1, <3>3, <3>6 DEF TypeOK
      <4> QED
        BY <2>2, <4>1
    <3> QED
      BY <3>5, <3>6
  <2>7. ASSUME NEW h \in Gates, NEW c \in Capabilities, Import(h, c) PROVE Kept(g)
    <3>1. /\ gate'[g].revoked = gate[g].revoked
          /\ gate'[g].cursor = gate[g].cursor
          /\ gate'[g].floor = gate[g].floor
          /\ gate'[g].live = gate[g].live
      BY <2>1, <2>7 DEF Import, TypeOK, Gate
    <3> QED
      BY <2>1, <3>1
  <2>8. ASSUME NEW h \in Gates, NEW v \in 1..MaxVersion, Reload(h, v) PROVE Kept(g)
    BY <2>1, <2>8 DEF Reload, TypeOK, Gate
  <2>9. ASSUME NEW h \in Gates, Withdraw(h) PROVE Kept(g)
    BY <2>1, <2>9 DEF Withdraw, Withdrawn, TypeOK, Gate
  <2>10. ASSUME NEW h \in Gates, NEW v \in 1..MaxVersion, Restart(h, v)
         PROVE  Kept(g)
    <3>1. h # g
      BY <2>1, <2>10 DEF Restart, TypeOK
    <3>2. gate'[g] = gate[g]
      BY <2>1, <2>10, <3>1 DEF Restart, TypeOK
    <3> QED
      BY <2>2, <3>2
  <2>11. ASSUME NEW h \in Gates, NEW after \in 0..Len(outbox), SyncRead(h, after)
         PROVE  Kept(g)
    BY <2>2, <2>11 DEF SyncRead
  <2>12. ASSUME Tick \/ RotateAudit \/ \E id \in Revocable : Revoke(id)
         PROVE  Kept(g)
    BY <2>2, <2>12 DEF Tick, RotateAudit, Revoke
  <2> HIDE DEF Kept
  <2> QED
    BY <2>4, <2>5, <2>6, <2>7, <2>8, <2>9, <2>10, <2>11, <2>12 DEF Next
<1> QED
  BY <1>1, FeedInvariant, PTL DEF Spec, NothingForgotten
=============================================================================
