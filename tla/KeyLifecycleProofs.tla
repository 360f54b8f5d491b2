-------------------------- MODULE KeyLifecycleProofs --------------------------
(***************************************************************************)
(* Proofs about KeyLifecycle, for every number of workers, custodians,     *)
(* requests and suites, every threshold and delay, and whether or not the  *)
(* keys sign the audit chain.                                              *)
(***************************************************************************)
EXTENDS KeyLifecycle, TLAPS

\* Keys are retired by the requests that replace them, once each.
Replacement ==
    /\ \A r \in Requests : Completed(r) => request[r].old \in history
    /\ \A k \in history : \E r \in Requests : Completed(r) /\ request[r].old = k
    /\ OneSuccessor

\* Keys that have been in use: the configured one and those of completed
\* requests.
Used(k) == k = Genesis \/ (k \in Requests /\ Completed(k))

\* Without a torn activation every key that is used, in a memory, in the audit
\* chain or as the one a request replaces, is the newest or a retired one.
InUse == history \cup {newest}

Succession ==
    /\ newest \notin history
    /\ \A k \in InUse : Used(k)
    /\ \A k \in Keys : Used(k) => k \in InUse
    /\ \A w \in Workers : mem[w] \in InUse
    /\ log \subseteq InUse
    /\ history \subseteq revoked
    /\ \A r \in Requests : Pending(r) => request[r].old \in InUse

\* A request from the newest key keeps its suite or asks for one nobody left.
SuiteIsFree(r) ==
    \/ SuiteOf(r) = SuiteOf(newest)
    \/ \A k \in history : SuiteOf(k) # SuiteOf(r)

FreeSuites ==
    \A r \in Requests :
        Pending(r) /\ request[r].old = newest => SuiteIsFree(r)

KeyInv ==
    /\ TypeOK
    /\ Replacement
    /\ torn = {} => Succession /\ FreeSuites

-----------------------------------------------------------------------------
(* Types.                                                                  *)

\* The suite of a key and the time from which it may sign.
LEMMA KeyFacts ==
    ASSUME TypeOK, NEW k \in Keys
    PROVE  /\ SuiteOf(k) \in Suites
           /\ ActiveFrom(k) \in 0..MaxTime
PROOF
  BY KeyAssumptions DEF SuiteOf, ActiveFrom, Keys, TypeOK, Request

\* A transaction adds at most the worker's key to the audit chain.
LEMMA LogGrows ==
    ASSUME TypeOK, NEW k \in Keys, Logged(k)
    PROVE  log' \subseteq log \cup {k} /\ log' \subseteq Keys
PROOF
  BY DEF Logged, TypeOK

LEMMA InitType == Init => TypeOK
PROOF
<1> SUFFICES ASSUME Init PROVE TypeOK
  OBVIOUS
<1>1. [status |-> "NONE", kind |-> "rotation", old |-> Genesis,
       from |-> 0, suite |-> GenesisSuite, active |-> 0] \in Request
  BY KeyAssumptions DEF Request, Keys
<1>2. request \in [Requests -> Request]
  BY <1>1 DEF Init
<1>3. approvals \in [Requests -> [Custodians -> 0..(MaxTime + Ttl)]]
  BY KeyAssumptions DEF Init
<1>4. \A r \in Requests, c \in Custodians : approvals[r][c] <= clock + Ttl
  BY KeyAssumptions DEF Init
<1> QED
  BY <1>2, <1>3, <1>4, KeyAssumptions DEF Init, TypeOK, Keys

LEMMA AskType ==
    ASSUME TypeOK, NEW w \in Workers, NEW r \in Requests,
           NEW kind \in {"rotation", "recovery"}, NEW from \in 0..(MaxTime + Delay),
           NEW s \in Suites, NEW active \in 0..MaxTime,
           Ask(w, r, kind, from, s, active)
    PROVE  TypeOK'
PROOF
<1>1. mem[w] \in Keys
  BY DEF TypeOK
<1>2. [status |-> "PENDING", kind |-> kind, old |-> mem[w], from |-> from,
       suite |-> s, active |-> active] \in Request
  BY <1>1 DEF Request
<1>3. request' \in [Requests -> Request]
  BY <1>2 DEF Ask, TypeOK, retired
<1>4. \A q \in Requests : request[q].status # "NONE" => request'[q].status # "NONE"
  BY <1>2 DEF Ask, TypeOK, retired
<1>5. log' \subseteq Keys
  BY <1>1, LogGrows DEF Ask, Transaction
<1> QED
  BY <1>3, <1>4, <1>5 DEF Ask, TypeOK, retired

LEMMA ApproveType ==
    ASSUME TypeOK, NEW w \in Workers, NEW c \in Custodians, NEW r \in Requests,
           Approve(w, c, r)
    PROVE  TypeOK'
PROOF
<1>1. log' \subseteq Keys
  BY LogGrows DEF Approve, Transaction, TypeOK
<1>2. PICK e \in (clock + 1)..(clock + Ttl) :
         approvals' = [approvals EXCEPT ![r][c] = e]
  BY DEF Approve
<1>3. clock \in Nat /\ clock <= MaxTime /\ Ttl \in Nat /\ MaxTime \in Nat
  BY KeyAssumptions DEF TypeOK
<1>4. e \in 0..(MaxTime + Ttl) /\ e <= clock + Ttl
  BY <1>3
<1>5. \A q \in Requests, d \in Custodians :
         approvals'[q][d] = IF q = r /\ d = c THEN e ELSE approvals[q][d]
  BY <1>2 DEF TypeOK
<1>6. approvals' \in [Requests -> [Custodians -> 0..(MaxTime + Ttl)]]
  BY <1>2, <1>4 DEF TypeOK
<1> QED
  BY <1>1, <1>4, <1>5, <1>6 DEF Approve, TypeOK, retired

LEMMA ActivateType ==
    ASSUME TypeOK, NEW w \in Workers, NEW r \in Requests, Activate(w, r)
    PROVE  TypeOK'
PROOF
<1>1. r \in Keys /\ mem[w] \in Keys
  BY DEF TypeOK, Keys
<1>2. log' \subseteq Keys
  BY <1>1, LogGrows DEF Activate
<1>3. request' \in [Requests -> Request]
  BY DEF Activate, TypeOK, Request
<1>4. \A q \in Requests : request[q].status # "NONE" => request'[q].status # "NONE"
  BY DEF Activate, TypeOK, Request
<1>5. history' \subseteq Keys /\ revoked' \subseteq Keys
      /\ destroyed' \subseteq history' \cap revoked'
  BY <1>1 DEF Activate, TypeOK
<1>6. mem' \in [Workers -> Keys] /\ newest' \in Keys
  BY <1>1 DEF Activate, TypeOK
<1>7. ceremony' \subseteq {q \in Requests : request'[q].status # "NONE"}
  BY <1>4 DEF Activate, TypeOK
<1>8. UNCHANGED <<clock, approvals, live, starts, torn>>
  BY DEF Activate
<1> QED
  BY <1>2, <1>3, <1>5, <1>6, <1>7, <1>8 DEF TypeOK

\* Every step keeps the types.
LEMMA NextType == TypeOK /\ [Next]_vars => TypeOK'
PROOF
<1> SUFFICES ASSUME TypeOK, [Next]_vars PROVE TypeOK'
  OBVIOUS
<1> USE DEF records, retired
<1>1. ASSUME NEW w \in Workers, Restart(w) PROVE TypeOK'
  <2>1. PICK k \in Keys : mem' = [mem EXCEPT ![w] = k]
    BY <1>1 DEF Restart
  <2>2. mem' \in [Workers -> Keys]
    BY <2>1 DEF TypeOK
  <2>3. starts' \in 0..MaxStarts
    BY <1>1, KeyAssumptions DEF Restart, TypeOK
  <2>4. UNCHANGED <<clock, records, retired, live, log, newest, torn>>
    BY <1>1 DEF Restart
  <2> QED
    BY <2>2, <2>3, <2>4 DEF TypeOK
<1>2. ASSUME NEW w \in Workers, Record(w) PROVE TypeOK'
  BY <1>2, LogGrows DEF Record, Transaction, TypeOK
<1>3. ASSUME NEW w \in Workers, NEW r \in Requests, StartRotation(w, r)
      PROVE  TypeOK'
  <2>1. PICK s \in Suites, from \in clock..MaxTime, active \in 0..MaxTime :
           Ask(w, r, "rotation", from, s, active)
    BY <1>3 DEF StartRotation
  <2>2. from \in 0..(MaxTime + Delay)
    BY KeyAssumptions DEF TypeOK
  <2> QED
    BY <2>1, <2>2, AskType
<1>4. ASSUME NEW w \in Workers, NEW r \in Requests, StartRecovery(w, r)
      PROVE  TypeOK'
  <2>1. mem[w] \in Keys
    BY DEF TypeOK
  <2>2. clock + Delay \in 0..(MaxTime + Delay)
    BY KeyAssumptions DEF TypeOK
  <2> QED
    BY <1>4, <2>1, <2>2, KeyFacts, AskType DEF StartRecovery
<1>5. ASSUME NEW w \in Workers, NEW r \in Requests, Ceremony(w, r) PROVE TypeOK'
  BY <1>5, LogGrows DEF Ceremony, Transaction, Pending, TypeOK
<1>6. ASSUME NEW w \in Workers, NEW r \in Requests, NEW c \in Custodians,
             Approve(w, c, r)
      PROVE  TypeOK'
  BY <1>6, ApproveType
<1>7. ASSUME NEW w \in Workers, NEW r \in Requests, Activate(w, r) PROVE TypeOK'
  BY <1>7, ActivateType
<1>8. ASSUME NEW w \in Workers, NEW r \in Requests, ActivateTorn(w, r)
      PROVE  TypeOK'
  BY <1>8 DEF ActivateTorn, TypeOK, Keys
<1>9. ASSUME NEW w \in Workers, NEW k \in Keys, Revoke(w, k) PROVE TypeOK'
  BY <1>9, LogGrows DEF Revoke, Transaction, TypeOK
<1>10. ASSUME NEW w \in Workers, NEW k \in Keys, Destroy(w, k) PROVE TypeOK'
  BY <1>10, LogGrows DEF Destroy, Transaction, TypeOK
<1>11. ASSUME NEW w \in Workers, NEW c \in Custodians, Dismiss(w, c)
       PROVE  TypeOK'
  BY <1>11, LogGrows DEF Dismiss, Transaction, TypeOK
<1>12. CASE Tick
  <2>1. \A r \in Requests, c \in Custodians : approvals[r][c] <= clock' + Ttl
    <3>1. clock \in Nat /\ clock' = clock + 1 /\ Ttl \in Nat
      BY <1>12, KeyAssumptions DEF Tick, TypeOK
    <3> SUFFICES ASSUME NEW r \in Requests, NEW c \in Custodians
                 PROVE  approvals[r][c] <= clock' + Ttl
      OBVIOUS
    <3>2. approvals[r][c] \in 0..(MaxTime + Ttl) /\ approvals[r][c] <= clock + Ttl
      BY DEF TypeOK
    <3> QED
      BY <3>1, <3>2, KeyAssumptions
  <2>2. clock' \in 0..MaxTime
    BY <1>12, KeyAssumptions DEF Tick, TypeOK
  <2> QED
    BY <1>12, <2>1, <2>2 DEF Tick, TypeOK
<1>13. CASE UNCHANGED vars
  BY <1>13 DEF vars, TypeOK
<1> QED
  BY <1>1, <1>2, <1>3, <1>4, <1>5, <1>6, <1>7, <1>8, <1>9, <1>10, <1>11, <1>12,
     <1>13 DEF Next
-----------------------------------------------------------------------------
(* The invariant.                                                          *)

\* The end of the chain is no retired key, and the newest one when every
\* activation was committed or undone.
LEMMA RestoredIsNewest ==
    ASSUME TypeOK, Replacement, NEW k \in Keys, Restored(k)
    PROVE  k \notin history /\ (Succession => k = newest)
PROOF
<1>1. k \notin history
  <2> SUFFICES ASSUME k \in history PROVE FALSE
    OBVIOUS
  <2>1. PICK r \in Requests : Completed(r) /\ request[r].old = k
    BY DEF Replacement
  <2> QED
    BY <2>1 DEF Restored, Successors
<1>2. ASSUME Succession PROVE k = newest
  <2> DEFINE U == {j \in Keys : Used(j)}
  <2>1. U \in SUBSET Keys /\ Genesis \in U
    BY DEF Used, Keys
  <2>2. \A j \in U : Successors(j) \subseteq U
    BY DEF Successors, Used, Keys
  <2>3. k \in U
    BY <2>1, <2>2 DEF Restored, OnChain
  <2> QED
    BY <1>1, <1>2, <2>3 DEF Succession, InUse
<1> QED
  BY <1>1, <1>2

LEMMA InitKeyInv == Init => KeyInv
PROOF
<1> SUFFICES ASSUME Init PROVE KeyInv
  OBVIOUS
<1>1. TypeOK
  BY InitType
<1>2. \A r \in Requests : request[r].status = "NONE"
  BY DEF Init
<1>3. Replacement
  BY <1>2 DEF Init, Replacement, OneSuccessor, Successors, Completed
<1>4. Succession
  BY <1>2 DEF Init, Succession, InUse, Used, Completed, Pending, Keys
<1>5. FreeSuites
  BY <1>2 DEF FreeSuites, Pending
<1> QED
  BY <1>1, <1>3, <1>4, <1>5 DEF KeyInv

\* A step that activates nothing and asks for nothing.
LEMMA QuietKeyStep ==
    ASSUME KeyInv, TypeOK', UNCHANGED <<request, history, mem, newest, torn>>,
           revoked \subseteq revoked',
           \A k \in log' : k \in log \/ \E w \in Workers : k = mem[w]
    PROVE  KeyInv'
PROOF
<1>1. Replacement'
  BY DEF KeyInv, Replacement, OneSuccessor, Successors, Completed
<1>2. ASSUME torn' = {} PROVE Succession'
  <2>1. Succession
    BY <1>2 DEF KeyInv
  <2>2. InUse' = InUse /\ \A k \in Keys : Used(k)' <=> Used(k)
    BY DEF InUse, Used, Completed
  <2>3. InUse \subseteq Keys
    BY DEF KeyInv, TypeOK, InUse
  <2> QED
    BY <2>1, <2>2, <2>3 DEF Succession, Pending
<1>3. ASSUME torn' = {} PROVE FreeSuites'
  BY <1>3 DEF KeyInv, FreeSuites, SuiteIsFree, SuiteOf, Pending
<1> QED
  BY <1>1, <1>2, <1>3 DEF KeyInv

LEMMA RestartKeeps ==
    ASSUME KeyInv, TypeOK', NEW w \in Workers, Restart(w) PROVE KeyInv'
PROOF
<1>1. PICK k \in Keys : Restored(k) /\ mem' = [mem EXCEPT ![w] = k]
  BY DEF Restart
<1>2. UNCHANGED <<request, history, revoked, log, newest, torn>>
  BY DEF Restart, records, retired
<1>3. Replacement'
  BY <1>2 DEF KeyInv, Replacement, OneSuccessor, Successors, Completed
<1>4. ASSUME torn' = {} PROVE Succession'
  <2>1. Succession
    BY <1>2, <1>4 DEF KeyInv
  <2>2. k \in InUse
    BY <1>1, <2>1, RestoredIsNewest DEF KeyInv, InUse
  <2>3. InUse' = InUse /\ \A j \in Keys : Used(j)' <=> Used(j)
    BY <1>2 DEF InUse, Used, Completed
  <2>4. InUse \subseteq Keys
    BY DEF KeyInv, TypeOK, InUse
  <2>5. \A v \in Workers : mem'[v] \in InUse
    BY <1>1, <2>1, <2>2 DEF Succession, KeyInv, TypeOK
  <2> QED
    BY <1>2, <2>1, <2>3, <2>4, <2>5 DEF Succession, Pending
<1>5. ASSUME torn' = {} PROVE FreeSuites'
  BY <1>2, <1>5 DEF KeyInv, FreeSuites, SuiteIsFree, SuiteOf, Pending
<1> QED
  BY <1>3, <1>4, <1>5 DEF KeyInv

\* A new request replaces a key in use, and one from the newest key has a
\* suite that nobody left.
LEMMA AskKeeps ==
    ASSUME KeyInv, TypeOK', NEW w \in Workers, NEW r \in Requests, NEW kind,
           NEW from, NEW s \in Suites, NEW active, Ask(w, r, kind, from, s, active),
           \/ s = SuiteOf(mem[w])
           \/ \A k \in history : SuiteOf(k) # s
    PROVE  KeyInv'
PROOF
<1>1. /\ request[r].status = "NONE"
      /\ UNCHANGED <<history, revoked, mem, newest, torn>>
      /\ \A q \in Requests : q # r => request'[q] = request[q]
      /\ request'[r] = [status |-> "PENDING", kind |-> kind, old |-> mem[w],
                        from |-> from, suite |-> s, active |-> active]
  BY DEF Ask, retired, KeyInv, TypeOK
<1>2. \A q \in Requests : Completed(q)' <=> Completed(q)
  BY <1>1 DEF Completed
<1>3. \A q \in Requests : Completed(q) => request'[q] = request[q]
  BY <1>1 DEF Completed
<1>4. \A k \in Keys : Successors(k)' = Successors(k)
  BY <1>2, <1>3 DEF Successors
<1>5. Replacement'
  BY <1>1, <1>2, <1>3, <1>4 DEF KeyInv, Replacement, OneSuccessor
<1>6. InUse \subseteq Keys
  BY DEF KeyInv, TypeOK, InUse
<1>7. ASSUME torn' = {} PROVE Succession'
  <2>1. Succession
    BY <1>1, <1>7 DEF KeyInv
  <2>2. InUse' = InUse /\ \A j \in Keys : Used(j)' <=> Used(j)
    BY <1>1, <1>2 DEF InUse, Used
  <2>3. log' \subseteq InUse
    BY <1>6, <2>1, LogGrows DEF Ask, Transaction, Succession, KeyInv
  <2>4. \A q \in Requests : Pending(q)' => request'[q].old \in InUse
    BY <1>1, <2>1 DEF Succession, Pending
  <2> QED
    BY <1>1, <1>6, <2>1, <2>2, <2>3, <2>4 DEF Succession
<1>8. ASSUME torn' = {} PROVE FreeSuites'
  <2>1. Succession /\ FreeSuites
    BY <1>1, <1>8 DEF KeyInv
  <2>2. \A k \in InUse : SuiteOf(k)' = SuiteOf(k)
    BY <1>1, <2>1 DEF Succession, Used, SuiteOf, Completed
  <2>3. \A k \in history : SuiteOf(k)' = SuiteOf(k)
    BY <2>2 DEF InUse
  <2>4. SuiteOf(newest)' = SuiteOf(newest)
    BY <1>1, <2>2 DEF InUse, SuiteOf
  <2> SUFFICES ASSUME NEW q \in Requests, Pending(q)', request'[q].old = newest'
               PROVE  SuiteIsFree(q)'
    BY DEF FreeSuites
  <2>5. q # Genesis
    BY KeyAssumptions
  <2>6. CASE q = r
    <3>1. mem[w] = newest
      BY <1>1, <2>6
    <3>2. SuiteOf(q)' = s
      BY <1>1, <2>5, <2>6 DEF SuiteOf
    <3> QED
      BY <1>1, <2>3, <2>4, <3>1, <3>2 DEF SuiteIsFree
  <2>7. CASE q # r
    <3>1. SuiteIsFree(q)
      BY <1>1, <2>1, <2>7 DEF FreeSuites, Pending
    <3>2. SuiteOf(q)' = SuiteOf(q)
      BY <1>1, <2>5, <2>7 DEF SuiteOf
    <3> QED
      BY <1>1, <2>3, <2>4, <3>1, <3>2 DEF SuiteIsFree
  <2> QED
    BY <2>6, <2>7
<1> QED
  BY <1>5, <1>7, <1>8 DEF KeyInv

\* The activation retires the newest key, which no request had replaced.
LEMMA ActivateKeeps ==
    ASSUME KeyInv, TypeOK', NEW w \in Workers, NEW r \in Requests, Activate(w, r)
    PROVE  KeyInv'
PROOF
<1>1. /\ Pending(r) /\ request[r].old = mem[w] /\ mem[w] \notin history
      /\ history' = history \cup {mem[w]}
      /\ revoked' = revoked \cup {mem[w]}
      /\ mem' = [mem EXCEPT ![w] = r]
      /\ request' = [request EXCEPT ![r].status = "DONE"]
      /\ newest' = r
      /\ torn' = torn
      /\ Logged(r)
  BY DEF Activate, Eligible, Unretired
<1>2. request \in [Requests -> Request] /\ mem \in [Workers -> Keys]
  BY DEF KeyInv, TypeOK
<1>3. /\ \A q \in Requests : request'[q].old = request[q].old
      /\ \A q \in Requests : request'[q].suite = request[q].suite
      /\ \A q \in Requests : Completed(q)' <=> Completed(q) \/ q = r
      /\ \A q \in Requests : Pending(q)' <=> Pending(q) /\ q # r
  BY <1>1, <1>2 DEF Completed, Pending, Request
<1>4. Replacement'
  <2>1. \A q \in Requests : Completed(q)' => request'[q].old \in history'
    BY <1>1, <1>3 DEF KeyInv, Replacement
  <2>2. \A k \in history' : \E q \in Requests : Completed(q)' /\ request'[q].old = k
    BY <1>1, <1>3 DEF KeyInv, Replacement
  <2>3. ASSUME NEW k \in Keys, NEW p \in Successors(k)', NEW q \in Successors(k)'
        PROVE  p = q
    <3>1. /\ p \in Requests /\ (Completed(p) \/ p = r) /\ request[p].old = k
          /\ q \in Requests /\ (Completed(q) \/ q = r) /\ request[q].old = k
      BY <1>3 DEF Successors
    <3>2. \A x \in Requests : Completed(x) => request[x].old \in history
      BY DEF KeyInv, Replacement
    <3>3. CASE Completed(p) /\ Completed(q)
      BY <3>1, <3>3 DEF KeyInv, Replacement, OneSuccessor, Successors
    <3> QED
      BY <1>1, <3>1, <3>2, <3>3
  <2> QED
    BY <2>1, <2>2, <2>3 DEF Replacement, OneSuccessor
<1>5. ASSUME torn' = {} PROVE Succession' /\ FreeSuites'
  <2>1. Succession /\ FreeSuites
    BY <1>1, <1>5 DEF KeyInv
  <2>2. mem[w] = newest
    BY <1>1, <2>1 DEF Succession, InUse
  <2>3. ~Used(r) /\ r \in Keys /\ r # Genesis
    BY <1>1, KeyAssumptions DEF Used, Completed, Pending, Keys
  <2>4. InUse' = InUse \cup {r} /\ history' = InUse /\ r \notin InUse
    BY <1>1, <2>1, <2>2, <2>3 DEF InUse, Succession
  <2>5. InUse \subseteq Keys
    BY DEF KeyInv, TypeOK, InUse
  <2>6. \A k \in Keys : Used(k)' <=> Used(k) \/ k = r
    BY <1>3, <2>3 DEF Used
  <2>7. log' \subseteq InUse'
    BY <1>1, <2>1, <2>3, <2>4, LogGrows DEF Succession, KeyInv
  <2>8. \A v \in Workers : mem'[v] \in InUse'
    BY <1>1, <1>2, <2>1, <2>4 DEF Succession
  <2>9. \A q \in Requests : Pending(q)' => request'[q].old \in InUse
    BY <1>3, <2>1 DEF Succession
  <2>10. history' \subseteq revoked'
    BY <1>1, <2>1 DEF Succession
  <2>11. newest' \notin history'
    BY <1>1, <2>4
  <2>12. /\ \A k \in InUse' : Used(k)'
         /\ \A k \in Keys : Used(k)' => k \in InUse'
    BY <2>1, <2>3, <2>4, <2>5, <2>6 DEF Succession
  <2>13. Succession'
    BY <2>4, <2>7, <2>8, <2>9, <2>10, <2>11, <2>12 DEF Succession
  <2>14. FreeSuites'
    BY <1>1, <2>4, <2>9 DEF FreeSuites
  <2> QED
    BY <2>13, <2>14
<1> QED
  BY <1>4, <1>5 DEF KeyInv

\* Every step keeps the invariant.
LEMMA NextKeyInv == KeyInv /\ [Next]_vars => KeyInv'
PROOF
<1> SUFFICES ASSUME KeyInv, [Next]_vars PROVE KeyInv'
  OBVIOUS
<1>0. TypeOK /\ TypeOK'
  BY NextType DEF KeyInv
<1>l. ASSUME NEW w \in Workers, Transaction(w)
      PROVE  \A k \in log' : k \in log \/ \E v \in Workers : k = mem[v]
  BY <1>0, <1>l, LogGrows DEF Transaction, TypeOK
<1>1. ASSUME NEW w \in Workers, Restart(w) PROVE KeyInv'
  BY <1>0, <1>1, RestartKeeps
<1>2. ASSUME NEW w \in Workers, Record(w) PROVE KeyInv'
  BY <1>0, <1>2, <1>l, QuietKeyStep DEF Record, records, retired
<1>3. ASSUME NEW w \in Workers, NEW r \in Requests, StartRotation(w, r)
      PROVE  KeyInv'
  <2>1. PICK s \in Suites, from \in clock..MaxTime, active \in 0..MaxTime :
           /\ s = SuiteOf(mem[w]) \/ s \notin {SuiteOf(k) : k \in history}
           /\ Ask(w, r, "rotation", from, s, active)
    BY <1>3 DEF StartRotation
  <2> QED
    BY <1>0, <2>1, AskKeeps
<1>4. ASSUME NEW w \in Workers, NEW r \in Requests, StartRecovery(w, r)
      PROVE  KeyInv'
  <2>1. mem[w] \in Keys /\ SuiteOf(mem[w]) \in Suites
    BY <1>0, KeyFacts DEF TypeOK
  <2> QED
    BY <1>0, <1>4, <2>1, AskKeeps DEF StartRecovery
<1>5. ASSUME NEW w \in Workers, NEW r \in Requests, Ceremony(w, r) PROVE KeyInv'
  BY <1>0, <1>5, <1>l, QuietKeyStep DEF Ceremony, retired
<1>6. ASSUME NEW w \in Workers, NEW r \in Requests, NEW c \in Custodians,
             Approve(w, c, r)
      PROVE  KeyInv'
  BY <1>0, <1>6, <1>l, QuietKeyStep DEF Approve, retired
<1>7. ASSUME NEW w \in Workers, NEW r \in Requests, Activate(w, r) PROVE KeyInv'
  BY <1>0, <1>7, ActivateKeeps
<1>8. ASSUME NEW w \in Workers, NEW r \in Requests, ActivateTorn(w, r)
      PROVE  KeyInv'
  <2>1. torn' # {} /\ UNCHANGED <<request, history>>
    BY <1>8 DEF ActivateTorn, records, retired
  <2>2. Replacement'
    BY <2>1 DEF KeyInv, Replacement, OneSuccessor, Successors, Completed
  <2> QED
    BY <1>0, <2>1, <2>2 DEF KeyInv
<1>9. ASSUME NEW w \in Workers, NEW k \in Keys, Revoke(w, k) PROVE KeyInv'
  BY <1>0, <1>9, <1>l, QuietKeyStep DEF Revoke, records
<1>10. ASSUME NEW w \in Workers, NEW k \in Keys, Destroy(w, k) PROVE KeyInv'
  BY <1>0, <1>10, <1>l, QuietKeyStep DEF Destroy, records
<1>11. ASSUME NEW w \in Workers, NEW c \in Custodians, Dismiss(w, c)
       PROVE  KeyInv'
  BY <1>0, <1>11, <1>l, QuietKeyStep DEF Dismiss, records, retired
<1>12. CASE Tick
  BY <1>0, <1>12, QuietKeyStep DEF Tick, records, retired
<1>13. CASE UNCHANGED vars
  BY <1>0, <1>13, QuietKeyStep DEF vars, records, retired
<1> QED
  BY <1>1, <1>2, <1>3, <1>4, <1>5, <1>6, <1>7, <1>8, <1>9, <1>10, <1>11, <1>12,
     <1>13 DEF Next

\* The invariant holds in every behaviour.
LEMMA KeyInvHolds == Spec => []KeyInv
PROOF
  BY InitKeyInv, NextKeyInv, PTL DEF Spec

-----------------------------------------------------------------------------
(* Theorems.                                                               *)

\* The state is well typed; only retired, revoked keys are destroyed.
THEOREM KeyTypeCorrect == Spec => []TypeOK
PROOF
<1>1. KeyInv => TypeOK
  BY DEF KeyInv
<1> QED
  BY <1>1, KeyInvHolds, PTL

\* No two activations replace one key, in whichever workers and whatever
\* failed before: a starting process finds one chain (restore).
THEOREM ChainNeverForks == Spec => []OneSuccessor
PROOF
<1>1. KeyInv => OneSuccessor
  BY DEF KeyInv, Replacement
<1> QED
  BY <1>1, KeyInvHolds, PTL

\* A restart never brings back a retired or a destroyed key, and finds the
\* newest one unless an activation has failed half way.
THEOREM RestartFindsCurrentKey == Spec => []RestartIsCurrent
PROOF
<1>1. KeyInv => RestartIsCurrent
  BY RestoredIsNewest DEF KeyInv, RestartIsCurrent, TypeOK
<1> QED
  BY <1>1, KeyInvHolds, PTL

\* What a restarted process exports verifies the whole audit chain.
THEOREM AuditVerifiable == Spec => []AuditStaysVerifiable
PROOF
<1>1. KeyInv => AuditStaysVerifiable
  BY RestoredIsNewest DEF KeyInv, AuditStaysVerifiable, Succession, InUse
<1> QED
  BY <1>1, KeyInvHolds, PTL

\* A rotated or recovered key authorises nothing in any worker.
THEOREM RetiredKeysPowerless == Spec => []RetiredAuthoriseNothing
PROOF
<1>1. KeyInv => RetiredAuthoriseNothing
  BY DEF KeyInv, RetiredAuthoriseNothing, Succession, InUse
<1> QED
  BY <1>1, KeyInvHolds, PTL

\* A suite that has been left does not come back.
THEOREM NoSuiteReturns == Spec => SuitesNeverReturn
PROOF
<1> DEFINE Step == torn = {} /\ newest' # newest =>
                     \/ SuiteOf(newest') = SuiteOf(newest)
                     \/ \A k \in history : SuiteOf(k) # SuiteOf(newest')
<1>1. ASSUME KeyInv, Next, torn = {}, newest' # newest PROVE Step
  <2>1. PICK w \in Workers, r \in Requests : Activate(w, r)
    BY <1>1 DEF Next, Restart, Record, StartRotation, StartRecovery, Ask, Ceremony,
                Approve, ActivateTorn, Revoke, Destroy, Dismiss, Tick
  <2>2. Pending(r) /\ request[r].old = mem[w] /\ mem[w] \notin history /\ newest' = r
    BY <2>1 DEF Activate, Eligible, Unretired
  <2>3. mem[w] = newest
    BY <1>1, <2>2 DEF KeyInv, Succession, InUse
  <2>4. SuiteIsFree(r)
    BY <1>1, <2>2, <2>3 DEF KeyInv, FreeSuites
  <2> QED
    BY <2>2, <2>4 DEF SuiteIsFree
<1>2. KeyInv /\ [Next]_vars => [Step]_vars
  BY <1>1 DEF vars
<1> QED
  BY <1>2, KeyInvHolds, PTL DEF Spec, SuitesNeverReturn
=============================================================================
