----------------------- MODULE ActionAuthorityProofs ------------------------
(***************************************************************************)
(* Proofs about ActionAuthority, for any capsules, evidence, signers and   *)
(* batches, any thresholds and any number of events.                       *)
(***************************************************************************)
EXTENDS ActionAuthority, TLAPS

\* The types that the functions keep besides TypeOK.
FunctionTypes ==
    /\ attached \in [Capsules -> SUBSET Evidence]
    /\ approvals \in [Capsules -> SUBSET signed]
    /\ cert = [c \in Capsules |-> cert[c]]
    /\ batch = [b \in Batches |-> batch[b]]
    /\ active \in Nat \ {0}

\* Evidence is only added to a graph, and its condition only worsens.
Worsens(m, n) == m = n \/ m = "ok" \/ n = "gone"

Precedes(g, h) ==
    /\ DOMAIN g \subseteq DOMAIN h
    /\ \A e \in DOMAIN g : Worsens(g[e], h[e])

\* What a composition's envelope describes.
Envelopes ==
    \A b \in Batches : batch[b] # None =>
        /\ batch[b] \in [policy : Nat, seen : Views]
        /\ DOMAIN batch[b].seen = ChildrenOf[b]

\* What a signed statement shows was so once, and a statement about a batch
\* shows what its envelope describes.
Shown(x) ==
    /\ x.seen \in [DOMAIN x.seen -> Graphs]
    /\ \A c \in DOMAIN x.seen : Precedes(x.seen[c], Graph(c))
    /\ \/ x.batch = None /\ \E c \in Capsules : DOMAIN x.seen = {c}
       \/ /\ x.batch \in Batches /\ batch[x.batch] # None
          /\ batch[x.batch] = [policy |-> x.policy, seen |-> x.seen]

\* A certificate is revoked only when there is one; a successor does not exist
\* before its capsule is shielded.
Identified == \A c \in Capsules \cap revoked : cert[c] # None
Unborn     == \A r \in Reducible \ successors : status[SuccessorOf[r]] = "none"

AuthorityInv ==
    /\ TypeOK
    /\ FunctionTypes
    /\ Envelopes
    /\ \A x \in signed : Shown(x)
    /\ Identified
    /\ Unborn
-----------------------------------------------------------------------------
(* Graphs.                                                                 *)

LEMMA GraphFacts ==
    ASSUME FunctionTypes, NEW c \in Capsules
    PROVE  /\ Graph(c) \in [attached[c] -> Conditions]
           /\ Graph(c) \in Graphs
           /\ DOMAIN Graph(c) = attached[c]
           /\ \A e \in attached[c] : Graph(c)[e] = Condition(e)
PROOF
<1>1. \A e : Condition(e) \in Conditions
  BY DEF Condition, Conditions
<1>2. attached[c] \in SUBSET Evidence
  BY DEF FunctionTypes
<1>3. Graph(c) \in [attached[c] -> Conditions]
  BY <1>1 DEF Graph
<1>4. [attached[c] -> Conditions] \in {[E -> Conditions] : E \in SUBSET Evidence}
  BY <1>2
<1> QED
  BY <1>3, <1>4 DEF Graphs, Graph

LEMMA ViewFacts ==
    ASSUME FunctionTypes, NEW C \in SUBSET Capsules
    PROVE  /\ View(C) \in [C -> Graphs]
           /\ View(C) \in Views
           /\ DOMAIN View(C) = C
           /\ \A c \in C : View(C)[c] = Graph(c)
PROOF
<1>1. View(C) \in [C -> Graphs]
  BY GraphFacts DEF View
<1>2. [C -> Graphs] \in {[D -> Graphs] : D \in SUBSET Capsules}
  OBVIOUS
<1> QED
  BY <1>1, <1>2 DEF Views, View

\* What lies between a graph and itself is that graph.
LEMMA Between ==
    ASSUME NEW f \in Graphs, NEW g \in Graphs, Precedes(f, g), Precedes(g, f)
    PROVE  f = g
PROOF
<1>1. /\ f \in [DOMAIN f -> Conditions]
      /\ g \in [DOMAIN g -> Conditions]
  BY DEF Graphs
<1>2. DOMAIN f = DOMAIN g
  BY DEF Precedes
<1>3. \A e \in DOMAIN f : f[e] = g[e]
  BY <1>1, <1>2 DEF Precedes, Worsens, Conditions
<1> QED
  BY <1>1, <1>2, <1>3

LEMMA Transitive ==
    ASSUME NEW f \in Graphs, NEW g \in Graphs, NEW h \in Graphs,
           Precedes(f, g), Precedes(g, h)
    PROVE  Precedes(f, h)
PROOF
  BY DEF Precedes, Worsens

\* No step brings back the graph of a capsule.
LEMMA GraphsWorsen ==
    ASSUME FunctionTypes, FunctionTypes', NEW c \in Capsules,
           attached[c] \subseteq attached'[c],
           revoked \subseteq revoked', gone \subseteq gone'
    PROVE  Precedes(Graph(c), Graph(c)')
PROOF
<1>1. \A e : Worsens(Condition(e), Condition(e)')
  BY DEF Condition, Worsens
<1>2. /\ DOMAIN Graph(c) = attached[c]
      /\ \A e \in attached[c] : Graph(c)[e] = Condition(e)
  BY DEF Graph
<1>3. /\ DOMAIN Graph(c)' = attached'[c]
      /\ \A e \in attached'[c] : Graph(c)'[e] = Condition(e)'
  BY DEF Graph
<1> QED
  BY <1>1, <1>2, <1>3 DEF Precedes
-----------------------------------------------------------------------------
LEMMA InitAuthorityInv == Init => AuthorityInv
PROOF
<1> SUFFICES ASSUME Init PROVE AuthorityInv
  OBVIOUS
<1>1. TypeOK
  BY AuthorityAssumptions DEF Init, TypeOK, Statuses, Dispatched
<1>2. FunctionTypes /\ Envelopes /\ Identified
  BY DEF Init, FunctionTypes, Envelopes, Identified
<1>3. (\A x \in signed : Shown(x)) /\ Unborn
  BY AuthorityAssumptions DEF Init, Unborn
<1> QED
  BY <1>1, <1>2, <1>3 DEF AuthorityInv
-----------------------------------------------------------------------------
(* Steps.                                                                  *)

\* What is gone, spent or signed stays so, whatever the step.
Monotone ==
    /\ signed \subseteq signed' /\ lapsed \subseteq lapsed'
    /\ revoked \subseteq revoked' /\ expired \subseteq expired'
    /\ gone \subseteq gone'
    /\ active' \in {active, active + 1}
    /\ \A c \in Capsules : attached[c] \subseteq attached'[c]
    /\ \A b \in Batches : batch[b] # None => batch'[b] = batch[b]
    /\ \A c \in Capsules : cert[c] # None => cert'[c] # None

Grows == AuthorityInv' /\ Monotone

\* A step that signs nothing keeps the invariant when it is monotone and keeps
\* the types.
LEMMA UnsignedStep ==
    ASSUME AuthorityInv, Monotone, TypeOK', FunctionTypes', Envelopes',
           Identified', Unborn', signed' = signed
    PROVE  Grows
PROOF
<1>1. ASSUME NEW x \in signed PROVE Shown(x)'
  <2>1. /\ Shown(x) /\ DOMAIN x.seen \subseteq Capsules
        /\ FunctionTypes
    BY DEF AuthorityInv, TypeOK
  <2>2. \A c \in DOMAIN x.seen : Precedes(x.seen[c], Graph(c)')
    <3> SUFFICES ASSUME NEW c \in DOMAIN x.seen PROVE Precedes(x.seen[c], Graph(c)')
      OBVIOUS
    <3>1. c \in Capsules /\ x.seen[c] \in Graphs /\ Precedes(x.seen[c], Graph(c))
      BY <2>1 DEF Shown
    <3>2. Precedes(Graph(c), Graph(c)')
      BY <2>1, <3>1, GraphsWorsen DEF Monotone
    <3>3. Graph(c) \in Graphs
      BY <2>1, <3>1, GraphFacts
    <3>4. Graph(c)' \in Graphs
      <4>1. attached'[c] \in SUBSET Evidence
        BY <3>1 DEF FunctionTypes
      <4>2. Graph(c)' \in [attached'[c] -> Conditions]
        BY DEF Graph, Condition, Conditions
      <4>3. [attached'[c] -> Conditions] \in {[E -> Conditions] : E \in SUBSET Evidence}
        BY <4>1
      <4> QED
        BY <4>2, <4>3 DEF Graphs
    <3> QED
      BY <3>1, <3>2, <3>3, <3>4, Transitive
  <2>3. \/ x.batch = None /\ \E c \in Capsules : DOMAIN x.seen = {c}
        \/ /\ x.batch \in Batches /\ batch'[x.batch] # None
           /\ batch'[x.batch] = [policy |-> x.policy, seen |-> x.seen]
    <3>1. CASE x.batch = None /\ \E c \in Capsules : DOMAIN x.seen = {c}
      BY <3>1
    <3>2. CASE /\ x.batch \in Batches /\ batch[x.batch] # None
               /\ batch[x.batch] = [policy |-> x.policy, seen |-> x.seen]
      BY <3>2 DEF Monotone
    <3> QED
      BY <2>1, <3>1, <3>2 DEF Shown
  <2> QED
    BY <2>1, <2>2, <2>3 DEF Shown
<1> QED
  BY <1>1 DEF AuthorityInv, Grows

\* Events of the world touch no record.
LEMMA WorldStep ==
    ASSUME AuthorityInv,
           \/ \E id \in Evidence \cup Issuers \cup Subjects \cup Capsules : Revoke(id)
           \/ \E x \in Evidence \cup Capsules \cup Batches : Expire(x)
           \/ \E x \in signed : Lapse(x)
           \/ ActivatePolicy
           \/ \E C \in Scopes : Restrict(C)
           \/ \E e \in Evidence, on \in BOOLEAN : Hold(e, on)
           \/ \E E \in SUBSET UNION {attached[c] \ gone : c \in Capsules} : RetentionSweep(E)
           \/ UNCHANGED vars
    PROVE  Grows
PROOF
<1> USE DEF AuthorityInv, records, batchDb, world
<1>1. UNCHANGED <<records, batchDb, signed>>
  BY DEF Revoke, Expire, Lapse, ActivatePolicy, Restrict, Hold, RetentionSweep, vars
<1>2. /\ revoked \subseteq revoked' /\ expired \subseteq expired' /\ lapsed \subseteq lapsed'
      /\ gone \subseteq gone' /\ active' \in {active, active + 1}
  BY DEF Revoke, Expire, Lapse, ActivatePolicy, Restrict, Hold, RetentionSweep, vars
<1>3. /\ revoked' \subseteq Evidence \cup Issuers \cup Subjects \cup Capsules
      /\ expired' \subseteq Evidence \cup Capsules \cup Batches
      /\ lapsed' \subseteq signed
      /\ gone' \subseteq UNION {attached[c] : c \in Capsules}
      /\ held' \subseteq Evidence
      /\ restricted' \subseteq Capsules
  BY AuthorityAssumptions
     DEF TypeOK, Revoke, Expire, Lapse, ActivatePolicy, Restrict, Hold, RetentionSweep, vars
<1>4. events' \in 0..MaxEvents
  BY AuthorityAssumptions
     DEF TypeOK, Revoke, Expire, Lapse, ActivatePolicy, Restrict, Hold, RetentionSweep,
         Happens, vars
<1>5. active' \in Nat \ {0} /\ 1..active \subseteq 1..active'
  BY <1>2 DEF FunctionTypes
<1>6. TypeOK'
  BY <1>1, <1>3, <1>4, <1>5 DEF TypeOK
<1>7. FunctionTypes'
  BY <1>1, <1>5 DEF FunctionTypes
<1>8. Identified'
  <2>1. \A c \in Capsules \cap revoked' : cert[c] # None
    BY DEF Identified, Revoke, Expire, Lapse, ActivatePolicy, Restrict, Hold,
           RetentionSweep, vars
  <2> QED
    BY <1>1, <2>1 DEF Identified
<1>9. Envelopes' /\ Unborn'
  BY <1>1 DEF Envelopes, Unborn
<1>10. Monotone
  BY <1>1, <1>2 DEF Monotone
<1> QED
  BY <1>1, <1>6, <1>7, <1>8, <1>9, <1>10, UnsignedStep

\* Steps that change only the status of capsules, none of which becomes new
\* again or open.
LEMMA StatusStep ==
    ASSUME AuthorityInv,
           UNCHANGED <<under, attached, approvals, cert, successors, batch, signed,
                       world, gone, held>>,
           started' \subseteq {b \in Batches : batch[b] # None},
           status' \in [Capsules -> Statuses],
           \A c \in Capsules :
              \/ status'[c] = status[c]
              \/ status[c] # "none" /\ status'[c] = "CANCELLED"
              \/ status[c] = "OPEN" /\ status'[c] = "DENY"
              \/ /\ status[c] \in {"CERTIFIED"} \cup Dispatched
                 /\ status'[c] \in Dispatched
    PROVE  Grows
PROOF
<1> USE DEF AuthorityInv, world
<1>1. \A c \in Capsules :
         /\ status'[c] \in {"CERTIFIED"} \cup Dispatched =>
               cert[c] \in [policy : 1..active, graph : Graphs]
         /\ status'[c] \notin {"CERTIFIED", "CANCELLED"} \cup Dispatched => cert[c] = None
  BY DEF TypeOK, Dispatched
<1>2. TypeOK'
  BY <1>1 DEF TypeOK
<1>3. FunctionTypes' /\ Envelopes' /\ Identified'
  BY DEF FunctionTypes, Envelopes, Identified
<1>4. Unborn'
  BY AuthorityAssumptions DEF Unborn, Dispatched
<1>5. Monotone
  BY DEF Monotone
<1> QED
  BY <1>2, <1>3, <1>4, <1>5, UnsignedStep

LEMMA DecidingStep ==
    ASSUME AuthorityInv,
           \/ \E c \in Capsules : Evaluate(c) \/ Cancel(c) \/ Reserve(c)
           \/ \E c \in Capsules, s \in Dispatched : Finish(c, s)
           \/ \E b \in Batches : ReserveBatch(b)
    PROVE  Grows
PROOF
<1> USE DEF AuthorityInv, batchDb
<1>0. status \in [Capsules -> Statuses]
  BY DEF TypeOK
<1>1. ASSUME NEW c \in Capsules, NEW s \in Statuses,
             status' = [status EXCEPT ![c] = s], UNCHANGED started,
             UNCHANGED <<under, attached, approvals, cert, successors, batch, signed,
                         world, gone, held>>,
             \/ status[c] # "none" /\ s = "CANCELLED"
             \/ status[c] = "OPEN" /\ s = "DENY"
             \/ status[c] \in {"CERTIFIED"} \cup Dispatched /\ s \in Dispatched
      PROVE  Grows
  <2>1. status' \in [Capsules -> Statuses]
    BY <1>0, <1>1
  <2>2. started' \subseteq {b \in Batches : batch[b] # None}
    BY <1>1 DEF TypeOK
  <2>3. \A d \in Capsules : status'[d] = IF d = c THEN s ELSE status[d]
    BY <1>0, <1>1
  <2> HIDE DEF AuthorityInv
  <2> QED
    BY <1>1, <2>1, <2>2, <2>3, StatusStep
<1>2. ASSUME NEW c \in Capsules, Evaluate(c) PROVE Grows
  BY <1>1, <1>2 DEF Evaluate, Mutable, Statuses
<1>3. ASSUME NEW c \in Capsules, Cancel(c) PROVE Grows
  BY <1>1, <1>3 DEF Cancel, Statuses
<1>4. ASSUME NEW c \in Capsules, NEW s \in Dispatched, Finish(c, s) PROVE Grows
  BY <1>1, <1>4 DEF Finish, Statuses
<1>5. ASSUME NEW C \in SUBSET Capsules, \A c \in C : Executable(c), Reserved(C),
             started' \subseteq {b \in Batches : batch[b] # None}
      PROVE  Grows
  <2>1. status' \in [Capsules -> Statuses]
    BY <1>0, <1>5 DEF Reserved, Statuses, Dispatched
  <2>2. \A c \in Capsules :
           \/ status'[c] = status[c]
           \/ status[c] = "CERTIFIED" /\ status'[c] \in Dispatched
    BY <1>5 DEF Reserved, Executable, Dispatched
  <2> HIDE DEF AuthorityInv
  <2> QED
    BY <1>5, <2>1, <2>2, StatusStep DEF Reserved
<1>6. ASSUME NEW c \in Capsules, Reserve(c) PROVE Grows
  BY <1>5, <1>6 DEF Reserve, TypeOK
<1>7. ASSUME NEW b \in Batches, ReserveBatch(b) PROVE Grows
  <2>1. batch[b] # None
    <3>1. View(ChildrenOf[b]) \in Views
      BY AuthorityAssumptions, ViewFacts
    <3> QED
      BY <1>7, <3>1, AuthorityAssumptions DEF ReserveBatch, Current, FunctionTypes
  <2> QED
    BY <1>5, <1>7, <2>1, AuthorityAssumptions DEF ReserveBatch, TypeOK
<1> QED
  BY <1>2, <1>3, <1>4, <1>6, <1>7

\* A capsule enters once, so that nothing it had is forgotten.
LEMMA EnterStep ==
    ASSUME AuthorityInv, NEW c \in Capsules, NEW v \in Nat, status[c] = "none",
           Enter(c, v), successors \subseteq successors', successors' \subseteq Reducible,
           \A r \in Reducible \ successors' : SuccessorOf[r] # c
    PROVE  Grows
PROOF
<1> USE DEF AuthorityInv, batchDb, world
<1>1. /\ UNCHANGED <<attached, approvals, cert, batch, started, signed, lapsed, revoked,
                     expired, active, restricted, events, gone, held>>
      /\ status' = [status EXCEPT ![c] = "OPEN"]
      /\ under' = [under EXCEPT ![c] = v]
  BY DEF Enter
<1>2. \A d \in Capsules : status'[d] = IF d = c THEN "OPEN" ELSE status[d]
  BY <1>1 DEF TypeOK
<1>3. cert[c] = None
  BY DEF TypeOK, Dispatched
<1>4. TypeOK'
  <2>1. status' \in [Capsules -> Statuses] /\ under' \in [Capsules -> Nat]
    BY <1>1 DEF TypeOK, Statuses
  <2>2. \A d \in Capsules :
           /\ status'[d] \in {"CERTIFIED"} \cup Dispatched =>
                 cert[d] \in [policy : 1..active, graph : Graphs]
           /\ status'[d] \notin {"CERTIFIED", "CANCELLED"} \cup Dispatched => cert[d] = None
    BY <1>2, <1>3 DEF TypeOK, Dispatched
  <2> QED
    BY <1>1, <2>1, <2>2 DEF TypeOK
<1>5. FunctionTypes' /\ Envelopes' /\ Identified'
  BY <1>1 DEF FunctionTypes, Envelopes, Identified
<1>6. Unborn'
  BY <1>2, AuthorityAssumptions DEF Unborn
<1>7. Monotone
  BY <1>1 DEF Monotone
<1> HIDE DEF AuthorityInv
<1> QED
  BY <1>1, <1>4, <1>5, <1>6, <1>7, UnsignedStep

LEMMA ProposingStep ==
    ASSUME AuthorityInv, NEW c \in Capsules, Propose(c) \/ Shield(c)
    PROVE  Grows
PROOF
<1>1. CASE Propose(c)
  <2>1. /\ status[c] = "none" /\ Enter(c, active) /\ successors' = successors
        /\ \A r \in Reducible : SuccessorOf[r] # c
    BY <1>1 DEF Propose
  <2>2. active \in Nat /\ successors \subseteq Reducible
    BY DEF AuthorityInv, TypeOK
  <2> QED
    BY <2>1, <2>2, EnterStep
<1>2. CASE Shield(c)
  <2>1. /\ c \in Reducible \ successors /\ Enter(SuccessorOf[c], under[c])
        /\ successors' = successors \cup {c}
    BY <1>2 DEF Shield, Mutable
  <2>2. under[c] \in Nat /\ successors \subseteq Reducible /\ SuccessorOf[c] \in Capsules
    BY <2>1, AuthorityAssumptions DEF AuthorityInv, TypeOK
  <2>3. status[SuccessorOf[c]] = "none"
    BY <2>1 DEF AuthorityInv, Unborn
  <2>4. \A r \in Reducible \ successors' : SuccessorOf[r] # SuccessorOf[c]
    BY <2>1, AuthorityAssumptions
  <2> QED
    BY <2>1, <2>2, <2>3, <2>4, EnterStep
<1> QED
  BY <1>1, <1>2

LEMMA AttachStep ==
    ASSUME AuthorityInv, NEW c \in Capsules, NEW e \in Evidence, AttachEvidence(c, e)
    PROVE  Grows
PROOF
<1> USE DEF AuthorityInv, batchDb, world
<1>1. /\ UNCHANGED <<status, under, cert, successors, batch, started, signed, lapsed,
                     revoked, expired, active, restricted, events, gone, held>>
      /\ CapsuleOf[e] = c
      /\ \A d \in Capsules : attached'[d] = IF d = c THEN attached[c] \cup {e} ELSE attached[d]
      /\ \A d \in Capsules : approvals'[d] = IF d = c THEN {} ELSE approvals[d]
      /\ attached' \in [Capsules -> SUBSET Evidence]
      /\ approvals' \in [Capsules -> SUBSET signed]
  BY DEF AttachEvidence, FunctionTypes
<1>2. TypeOK'
  <2>1. \A d \in Capsules :
           /\ attached'[d] \subseteq {x \in Evidence : CapsuleOf[x] = d}
           /\ approvals'[d] \subseteq {x \in signed : d \in DOMAIN x.seen}
    BY <1>1 DEF TypeOK
  <2>2. gone \subseteq UNION {attached'[d] : d \in Capsules}
    BY <1>1 DEF TypeOK
  <2> QED
    BY <1>1, <2>1, <2>2 DEF TypeOK
<1>3. FunctionTypes' /\ Envelopes' /\ Identified' /\ Unborn'
  BY <1>1 DEF FunctionTypes, Envelopes, Identified, Unborn
<1>4. Monotone
  BY <1>1 DEF Monotone
<1> HIDE DEF AuthorityInv
<1> QED
  BY <1>1, <1>2, <1>3, <1>4, UnsignedStep

LEMMA ApproveStep ==
    ASSUME AuthorityInv, NEW x \in signed, Approve(x) PROVE Grows
PROOF
<1> USE DEF AuthorityInv, batchDb, world
<1>1. /\ UNCHANGED <<status, under, attached, cert, successors, batch, started, signed,
                     lapsed, revoked, expired, active, restricted, events, gone, held>>
      /\ approvals' = [c \in Capsules |->
                         approvals[c] \cup IF c \in DOMAIN x.seen THEN {x} ELSE {}]
  BY DEF Approve
<1>2. \A d \in Capsules : approvals'[d] \subseteq {y \in signed : d \in DOMAIN y.seen}
  BY <1>1 DEF TypeOK
<1>3. approvals' \in [Capsules -> SUBSET signed]
  BY <1>1, <1>2
<1>4. TypeOK'
  BY <1>1, <1>2 DEF TypeOK
<1>5. FunctionTypes' /\ Envelopes' /\ Identified' /\ Unborn'
  BY <1>1, <1>3 DEF FunctionTypes, Envelopes, Identified, Unborn
<1>6. Monotone
  BY <1>1 DEF Monotone
<1> HIDE DEF AuthorityInv
<1> QED
  BY <1>1, <1>4, <1>5, <1>6, UnsignedStep

LEMMA CertifyStep ==
    ASSUME AuthorityInv, NEW c \in Capsules, Certify(c) PROVE Grows
PROOF
<1> USE DEF AuthorityInv, batchDb, world
<1> DEFINE k == [policy |-> active, graph |-> Graph(c)]
<1>1. /\ UNCHANGED <<under, attached, approvals, successors, batch, started, signed,
                     lapsed, revoked, expired, active, restricted, events, gone, held>>
      /\ status[c] = "OPEN"
      /\ status' = [status EXCEPT ![c] = "CERTIFIED"]
      /\ cert' = [cert EXCEPT ![c] = k]
  BY DEF Certify, Mutable
<1>2. k \in [policy : 1..active, graph : Graphs] /\ k # None
  <2>1. Graph(c) \in Graphs /\ active \in 1..active /\ active \in Nat
    BY GraphFacts DEF FunctionTypes
  <2> QED
    BY <2>1, AuthorityAssumptions
<1> HIDE DEF k
<1>3. /\ \A d \in Capsules : status'[d] = IF d = c THEN "CERTIFIED" ELSE status[d]
      /\ \A d \in Capsules : cert'[d] = IF d = c THEN k ELSE cert[d]
  BY <1>1 DEF TypeOK, FunctionTypes
<1>4. TypeOK'
  <2>1. status' \in [Capsules -> Statuses]
    BY <1>1 DEF TypeOK, Statuses
  <2>2. \A d \in Capsules :
           /\ status'[d] \in {"CERTIFIED"} \cup Dispatched =>
                 cert'[d] \in [policy : 1..active, graph : Graphs]
           /\ status'[d] \notin {"CERTIFIED", "CANCELLED"} \cup Dispatched => cert'[d] = None
    BY <1>2, <1>3 DEF TypeOK
  <2> QED
    BY <1>1, <2>1, <2>2 DEF TypeOK
<1>5. FunctionTypes'
  <2>1. cert' = [d \in Capsules |-> cert'[d]]
    BY <1>1 DEF FunctionTypes
  <2> QED
    BY <1>1, <2>1 DEF FunctionTypes
<1>6. Envelopes' /\ Identified' /\ Unborn'
  <2>1. Envelopes' /\ Identified'
    BY <1>1, <1>2, <1>3 DEF Envelopes, Identified
  <2>2. Unborn'
    BY <1>1, <1>3, AuthorityAssumptions DEF Unborn
  <2> QED
    BY <2>1, <2>2
<1>7. Monotone
  BY <1>1, <1>2, <1>3 DEF Monotone
<1> HIDE DEF AuthorityInv
<1> QED
  BY <1>1, <1>4, <1>5, <1>6, <1>7, UnsignedStep

LEMMA CreateBatchStep ==
    ASSUME AuthorityInv, NEW b \in Batches, CreateBatch(b) PROVE Grows
PROOF
<1> USE DEF AuthorityInv, world, records
<1> DEFINE k == [policy |-> active, seen |-> View(ChildrenOf[b])]
<1>1. /\ UNCHANGED <<status, under, attached, approvals, cert, successors, started,
                     signed, lapsed, revoked, expired, active, restricted, events, gone, held>>
      /\ batch[b] = None
      /\ batch' = [batch EXCEPT ![b] = k]
  BY DEF CreateBatch
<1>2. /\ k \in [policy : Nat, seen : Views] /\ k # None
      /\ k.policy = active /\ active \in 1..active
      /\ DOMAIN k.seen = ChildrenOf[b]
  <2>1. /\ View(ChildrenOf[b]) \in Views
        /\ DOMAIN View(ChildrenOf[b]) = ChildrenOf[b]
        /\ active \in 1..active /\ active \in Nat
    BY ViewFacts, AuthorityAssumptions DEF FunctionTypes
  <2> QED
    BY <2>1, AuthorityAssumptions
<1> HIDE DEF k
<1>3. \A d \in Batches : batch'[d] = IF d = b THEN k ELSE batch[d]
  BY <1>1 DEF FunctionTypes
<1>4. TypeOK'
  BY <1>1, <1>2, <1>3 DEF TypeOK
<1>5. FunctionTypes'
  <2>1. batch' = [d \in Batches |-> batch'[d]]
    BY <1>1 DEF FunctionTypes
  <2> QED
    BY <1>1, <2>1 DEF FunctionTypes
<1>6. Envelopes'
  BY <1>2, <1>3 DEF Envelopes
<1>7. Identified' /\ Unborn'
  BY <1>1 DEF Identified, Unborn
<1>8. Monotone
  BY <1>1, <1>2, <1>3 DEF Monotone
<1> HIDE DEF AuthorityInv
<1> QED
  BY <1>1, <1>4, <1>5, <1>6, <1>7, <1>8, UnsignedStep

\* What a signer signs is true when it is signed.
LEMMA SignStep ==
    ASSUME AuthorityInv, NEW s, NEW b, NEW C \in SUBSET Capsules, Sign(s, b, C),
           \/ b = None /\ \E c \in Capsules : C = {c}
           \/ b \in Batches /\ C = ChildrenOf[b] /\ Current(b)
    PROVE  Grows
PROOF
<1> USE DEF AuthorityInv, batchDb, world, records
<1> DEFINE x == [at |-> Cardinality(lapsed), signer |-> s, batch |-> b,
                 policy |-> active, seen |-> View(C)]
<1>1. /\ UNCHANGED <<status, under, attached, approvals, cert, successors, batch, started,
                     lapsed, revoked, expired, active, restricted, events, gone, held>>
      /\ signed' = signed \cup {x}
  BY DEF Sign
<1>2. /\ x.batch = b /\ x.policy = active /\ x.seen = View(C)
      /\ View(C) \in [C -> Graphs] /\ DOMAIN View(C) = C /\ View(C) \in Views
      /\ \A c \in C : View(C)[c] = Graph(c)
      /\ active \in 1..active /\ active \in Nat
  BY ViewFacts DEF FunctionTypes
<1> HIDE DEF x
<1>3. Shown(x)
  <2>1. \A c \in C : Precedes(Graph(c), Graph(c))
    BY DEF Precedes, Worsens
  <2>2. b \in Batches /\ Current(b) /\ C = ChildrenOf[b] =>
           batch[b] # None /\ batch[b] = [policy |-> active, seen |-> View(C)]
    <3>1. [policy |-> active, seen |-> View(C)] # None
      BY <1>2, AuthorityAssumptions
    <3> QED
      BY <3>1 DEF Current
  <2> QED
    BY <1>2, <2>1, <2>2 DEF Shown
<1>4. \A y \in signed' : Shown(y)
  BY <1>1, <1>3
<1>5. \A y \in signed' : Shown(y)'
  BY <1>1, <1>4 DEF Shown, Graph, Condition
<1>6. TypeOK'
  BY <1>1, <1>2 DEF TypeOK
<1>7. FunctionTypes' /\ Envelopes' /\ Identified' /\ Unborn'
  BY <1>1 DEF FunctionTypes, Envelopes, Identified, Unborn
<1>8. Monotone
  BY <1>1 DEF Monotone
<1> QED
  BY <1>5, <1>6, <1>7, <1>8 DEF Grows

LEMMA NextGrows == ASSUME AuthorityInv, [Next]_vars PROVE Grows
PROOF
<1>1. ASSUME NEW c \in Capsules, NEW s \in Signers, Sign(s, None, {c}) PROVE Grows
  <2>1. {c} \in SUBSET Capsules
    OBVIOUS
  <2> QED
    BY <1>1, <2>1, SignStep
<1>2. ASSUME NEW b \in Batches, NEW s \in Signers, SignBatch(s, b) PROVE Grows
  <2>1. ChildrenOf[b] \in SUBSET Capsules
    BY AuthorityAssumptions
  <2> QED
    BY <1>2, <2>1, SignStep DEF SignBatch
<1> QED
  BY <1>1, <1>2, WorldStep, DecidingStep, ProposingStep, AttachStep, ApproveStep,
     CertifyStep, CreateBatchStep DEF Next

\* Whatever is signed, attached, revoked, swept and decided in between, what
\* statements show is older than what is (Fabric.graph, Compositions.describe).
THEOREM AuthorityInvariant == Spec => []AuthorityInv
PROOF
<1>1. AuthorityInv /\ [Next]_vars => AuthorityInv'
  BY NextGrows DEF Grows
<1> QED
  BY <1>1, InitAuthorityInv, PTL DEF Spec

\* Every variable keeps its type; a certificate binds a policy that has been
\* active, and only capsules certified, dispatched or cancelled have one.
THEOREM AuthorityTypes == Spec => []TypeOK
PROOF
<1>1. AuthorityInv => TypeOK
  BY DEF AuthorityInv
<1> QED
  BY <1>1, AuthorityInvariant, PTL
-----------------------------------------------------------------------------
LEMMA StandsBefore ==
    ASSUME AuthorityInv, Grows, NEW x \in signed, Stands(x)'
    PROVE  Stands(x)
PROOF
<1>1. /\ Monotone /\ FunctionTypes /\ FunctionTypes'
      /\ Shown(x) /\ x.policy \in 1..active /\ DOMAIN x.seen \subseteq Capsules
  BY DEF AuthorityInv, Grows, TypeOK
<1>2. Unexpired(x) /\ x.signer \notin revoked
  BY <1>1 DEF Stands, Unexpired, Monotone
<1>3. x.policy = active
  <2>1. x.policy = active'
    BY DEF Stands
  <2> QED
    BY <1>1, <2>1 DEF Monotone, FunctionTypes
<1>4. ASSUME NEW c \in DOMAIN x.seen PROVE x.seen[c] = Graph(c)
  <2>1. /\ c \in Capsules /\ x.seen[c] \in Graphs
        /\ Precedes(x.seen[c], Graph(c)) /\ x.seen[c] = Graph(c)'
    BY <1>1, <1>4 DEF Shown, Stands
  <2>2. Precedes(Graph(c), x.seen[c])
    BY <1>1, <2>1, GraphsWorsen DEF Monotone
  <2>3. Graph(c) \in Graphs
    BY <1>1, <2>1, GraphFacts
  <2> QED
    BY <2>1, <2>2, <2>3, Between
<1> QED
  BY <1>2, <1>3, <1>4 DEF Stands

\* A statement that does not stand any more never stands again: no order of
\* attaching, revoking, sweeping and changing policies brings a graph back.
THEOREM NothingRevives == Spec => AuthorityOnlyDecays
PROOF
<1>1. AuthorityInv /\ [Next]_vars => [\A x \in signed : Stands(x)' => Stands(x)]_vars
  BY NextGrows, StandsBefore
<1> QED
  BY <1>1, AuthorityInvariant, PTL DEF Spec, AuthorityOnlyDecays
-----------------------------------------------------------------------------
\* The statements an evaluation counts are those that stand, and of a batch
\* that for all of its children.
LEMMA CountedStand ==
    ASSUME AuthorityInv, NEW c \in Capsules
    PROVE  Counted(c) = {y \in approvals[c] : Stands(y) /\ y.signer # ActorOf[c]}
PROOF
<1> SUFFICES ASSUME NEW x \in approvals[c]
             PROVE  /\ Unexpired(x) /\ x.signer \notin revoked /\ x.signer # ActorOf[c]
                    /\ x.policy = active /\ x.seen[c] = Graph(c) /\ Resolves(x)
                    <=> Stands(x) /\ x.signer # ActorOf[c]
  BY DEF Counted
<1>1. /\ c \in DOMAIN x.seen /\ Shown(x) /\ FunctionTypes /\ Envelopes
  BY DEF AuthorityInv, TypeOK
<1>2. CASE x.batch = None /\ \E d \in Capsules : DOMAIN x.seen = {d}
  BY <1>1, <1>2 DEF Stands, Resolves
<1>3. CASE /\ x.batch \in Batches /\ batch[x.batch] # None
           /\ batch[x.batch] = [policy |-> x.policy, seen |-> x.seen]
  <2> DEFINE b == x.batch
  <2>1. /\ b # None /\ ChildrenOf[b] \in SUBSET Capsules /\ DOMAIN x.seen = ChildrenOf[b]
        /\ x.seen \in [ChildrenOf[b] -> Graphs]
    BY <1>1, <1>3, AuthorityAssumptions DEF Envelopes, Shown
  <2>2. /\ View(ChildrenOf[b]) \in [ChildrenOf[b] -> Graphs]
        /\ \A d \in ChildrenOf[b] : View(ChildrenOf[b])[d] = Graph(d)
    BY <1>1, <2>1, ViewFacts
  <2>3. x.seen = View(ChildrenOf[b]) <=> \A d \in ChildrenOf[b] : x.seen[d] = Graph(d)
    BY <2>1, <2>2
  <2>4. Current(b) <=> /\ ({b} \cup ChildrenOf[b]) \cap expired = {}
                       /\ x.policy = active
                       /\ x.seen = View(ChildrenOf[b])
    BY <1>3 DEF Current, Ongoing
  <2> QED
    BY <1>1, <2>1, <2>3, <2>4 DEF Stands, Resolves, Unexpired
<1> QED
  BY <1>1, <1>2, <1>3 DEF Shown

\* What a step dispatches was executable.
LEMMA DispatchedExecutable ==
    ASSUME AuthorityInv, [Next]_vars, NEW c \in Capsules,
           status[c] = "CERTIFIED", status'[c] = "EXECUTING"
    PROVE  Executable(c)
PROOF
<1>0. status \in [Capsules -> Statuses]
  BY DEF AuthorityInv, TypeOK
<1>1. CASE status' = status
  BY <1>1
<1>2. ASSUME NEW d, NEW s, status' = [status EXCEPT ![d] = s], status[d] # "CERTIFIED" \/ s # "EXECUTING"
      PROVE  FALSE
  BY <1>0, <1>2
<1>3. ASSUME NEW C, Reserved(C), \A d \in C : Executable(d) PROVE Executable(c)
  BY <1>0, <1>3 DEF Reserved
<1>4. CASE \E d \in Capsules : Propose(d) \/ Shield(d)
  <2>1. \A r \in Reducible \ successors : status[SuccessorOf[r]] = "none"
    BY DEF AuthorityInv, Unborn
  <2> QED
    BY <1>2, <1>4, <2>1 DEF Propose, Shield, Enter, Mutable
<1>5. CASE \E d \in Capsules : Evaluate(d) \/ Certify(d) \/ Cancel(d) \/ \E s \in Dispatched : Finish(d, s)
  BY <1>2, <1>5 DEF Evaluate, Certify, Cancel, Finish, Mutable, Dispatched
<1>6. CASE (\E d \in Capsules : Reserve(d)) \/ (\E b \in Batches : ReserveBatch(b))
  BY <1>3, <1>6 DEF Reserve, ReserveBatch
<1> QED
  BY <1>1, <1>4, <1>5, <1>6
     DEF Next, Revoke, Expire, Lapse, Approve, ActivatePolicy, Restrict, AttachEvidence,
         Sign, SignBatch, CreateBatch, Hold, RetentionSweep, records, vars

\* Whatever is dispatched has been approved, at that moment, by signers from
\* enough domains, other than its actor, who were all shown exactly the
\* evidence and policy in force, for every capsule of the batch they approved.
THEOREM NothingUnsignedDispatched == Spec => DispatchedAsSigned
PROOF
<1>1. AuthorityInv /\ [Next]_vars =>
        [\A c \in Capsules : status[c] = "CERTIFIED" /\ status'[c] = "EXECUTING" =>
            Cardinality({FailureDomain[x.signer] :
                           x \in {y \in approvals[c] : Stands(y) /\ y.signer # ActorOf[c]}})
               >= Threshold]_vars
  <2> SUFFICES ASSUME AuthorityInv, [Next]_vars, NEW c \in Capsules,
                      status[c] = "CERTIFIED", status'[c] = "EXECUTING"
               PROVE  Cardinality({FailureDomain[x.signer] :
                         x \in {y \in approvals[c] : Stands(y) /\ y.signer # ActorOf[c]}})
                         >= Threshold
    OBVIOUS
  <2>1. Approved(c)
    BY DispatchedExecutable DEF Executable, Decision
  <2> QED
    BY <2>1, CountedStand DEF Approved
<1> QED
  BY <1>1, AuthorityInvariant, PTL DEF Spec, DispatchedAsSigned
-----------------------------------------------------------------------------
LEMMA AllowedNotWithdrawn ==
    ASSUME NEW c \in Capsules, c \notin revoked, Decision(c) = "ALLOW"
    PROVE  ~Withdrawn(c)
PROOF
<1>1. ~Forbidden(c) /\ Evidenced(c)
  BY DEF Decision
<1> QED
  BY <1>1 DEF Forbidden, Evidenced, Withdrawn

LEMMA WithdrawnStops ==
    ASSUME AuthorityInv, [Next]_vars, NEW c \in Capsules,
           status[c] \in {"OPEN", "CERTIFIED"}, Withdrawn(c)
    PROVE  status'[c] \in {status[c], "DENY", "CANCELLED"}
PROOF
<1>0. status \in [Capsules -> Statuses]
  BY DEF AuthorityInv, TypeOK
<1>1. CASE status' = status
  BY <1>1
<1>2. ASSUME NEW d, NEW s, status' = [status EXCEPT ![d] = s],
             d = c => s \in {status[c], "DENY", "CANCELLED"}
      PROVE  status'[c] \in {status[c], "DENY", "CANCELLED"}
  BY <1>0, <1>2
<1>3. ASSUME NEW C, Reserved(C), \A d \in C : Executable(d)
      PROVE  status'[c] \in {status[c], "DENY", "CANCELLED"}
  <2>1. c \notin C
    BY <1>3, AllowedNotWithdrawn DEF Executable
  <2> QED
    BY <1>3, <2>1 DEF Reserved
<1>4. CASE \E d \in Capsules : Propose(d) \/ Shield(d)
  <2>1. \A r \in Reducible \ successors : status[SuccessorOf[r]] = "none"
    BY DEF AuthorityInv, Unborn
  <2> QED
    BY <1>2, <1>4, <2>1 DEF Propose, Shield, Enter, Mutable
<1>5. ASSUME NEW d \in Capsules, Certify(d)
      PROVE  status'[c] \in {status[c], "DENY", "CANCELLED"}
  <2>1. d # c
    <3> SUFFICES ASSUME d = c PROVE FALSE
      OBVIOUS
    <3>1. status[c] = "OPEN" /\ Decision(c) = "ALLOW"
      BY <1>5 DEF Certify, Mutable
    <3>2. c \notin revoked
      BY <3>1 DEF AuthorityInv, Identified, TypeOK, Dispatched
    <3> QED
      BY <3>1, <3>2, AllowedNotWithdrawn
  <2> QED
    BY <1>2, <1>5, <2>1 DEF Certify
<1>6. CASE \E d \in Capsules : Evaluate(d) \/ Cancel(d) \/ \E s \in Dispatched : Finish(d, s)
  BY <1>2, <1>6 DEF Evaluate, Cancel, Finish, Dispatched
<1>7. CASE (\E d \in Capsules : Reserve(d)) \/ (\E b \in Batches : ReserveBatch(b))
  BY <1>3, <1>7 DEF Reserve, ReserveBatch
<1> QED
  BY <1>1, <1>4, <1>5, <1>6, <1>7
     DEF Next, Revoke, Expire, Lapse, Approve, ActivatePolicy, Restrict, AttachEvidence,
         Sign, SignBatch, CreateBatch, Hold, RetentionSweep, records, vars

\* An action with withdrawn authority can only be denied or cancelled
\* (Fabric.executableDecision, evaluatePolicy, Fabric.revoke).
THEOREM WithdrawnNeverDispatched == Spec => WithdrawalStopsAction
PROOF
<1>1. AuthorityInv /\ [Next]_vars =>
        [\A c \in Capsules : status[c] \in {"OPEN", "CERTIFIED"} /\ Withdrawn(c) =>
            status'[c] \in {status[c], "DENY", "CANCELLED"}]_vars
  BY WithdrawnStops
<1> QED
  BY <1>1, AuthorityInvariant, PTL DEF Spec, WithdrawalStopsAction
=============================================================================
