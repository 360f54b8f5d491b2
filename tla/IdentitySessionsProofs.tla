------------------------ MODULE IdentitySessionsProofs ------------------------
(***************************************************************************)
(* Proofs about IdentitySessions, for every number of servers, sessions,   *)
(* signers, requests, reissues and grants, and every lifetime.             *)
(***************************************************************************)
EXTENDS IdentitySessions, TLAPS

\* Nothing is of an epoch that has not begun.
EpochsBegun ==
    /\ \A c \in Credentials : credential[c].epoch <= epoch
    /\ \A k \in Reissues : reissue[k].epoch <= epoch
    /\ \A j \in Grants : grant[j].epoch <= epoch
    /\ \A w \in Workers, i \in Slots : sessions[w][i].epoch <= epoch

\* A credential exists once its challenge is completed.
IssuedOnce ==
    \A k \in Reissues : reissue[k].status # "COMPLETED" => credential[k].until = 0

SessionInv == TypeOK /\ EpochsBegun /\ IssuedOnce

USE DEF identity, lifecycle, tokens, servers

LEMMA InitSessionInv == Init => SessionInv
PROOF
<1> SUFFICES ASSUME Init PROVE SessionInv
  OBVIOUS
<1>1. Configured \in Credentials /\ \A k \in Reissues : k \in Credentials /\ k # Configured
  BY SessionAssumptions DEF Credentials
<1>2. credential \in [Credentials -> [epoch : Nat, until : Nat]]
  BY SessionAssumptions DEF Init
<1>3. sessions \in [Workers -> [Slots -> Session]]
  BY <1>1 DEF Init, Empty, Session
<1>4. \A w \in Workers, i \in Slots :
         /\ sessions[w][i].until = 0
         /\ sessions[w][i].epoch = 0
         /\ sessions[w][i].cred = Configured
  BY DEF Init, Empty
<1>5. credential[Configured].until \in Nat
  BY <1>1, <1>2
<1>6. TypeOK
  <2>1. \A w \in Workers, i \in Slots :
           sessions[w][i].until <= credential[sessions[w][i].cred].until
    BY <1>4, <1>5
  <2>2. clock \in 0..MaxTime
    BY SessionAssumptions DEF Init
  <2> QED
    BY <1>2, <1>3, <2>1, <2>2 DEF Init, TypeOK, Statuses, Operations
<1>7. EpochsBegun
  BY <1>4 DEF Init, EpochsBegun
<1>8. IssuedOnce
  BY <1>1 DEF Init, IssuedOnce
<1> QED
  BY <1>6, <1>7, <1>8 DEF SessionInv

\* A step that leaves the tokens and the sessions alone.
LEMMA QuietStep ==
    ASSUME SessionInv,
           UNCHANGED <<reissue, credential, grant, sessions, opening>>,
           epoch' \in Nat, epoch <= epoch',
           clock' \in 0..MaxTime,
           base' \in {"ACTIVE", "RESET_REQUIRED"},
           enrolled' \in {"NONE", "ACTIVE", "RESET_REQUIRED"},
           revoked' \subseteq Revocable,
           request' \in [Requests -> [status : Statuses, op : Operations]],
           approvals' \in [Requests -> [Signers -> Nat]],
           inflight' \in [Workers -> Credentials \cup {None}]
    PROVE  SessionInv'
PROOF
<1>1. TypeOK'
  BY DEF SessionInv, TypeOK
<1>2. EpochsBegun'
  BY DEF SessionInv, TypeOK, EpochsBegun, Session
<1> QED
  BY <1>1, <1>2 DEF SessionInv, IssuedOnce

\* A step that replaces the sessions of one server by sessions that end no
\* later than their credentials, and leaves the tokens alone.
LEMMA SessionStep ==
    ASSUME SessionInv, NEW w \in Workers, NEW t \in [Slots -> Session],
           UNCHANGED <<clock, epoch, base, enrolled, revoked, request, approvals,
                       reissue, credential, grant>>,
           sessions' = [sessions EXCEPT ![w] = t],
           \A i \in Slots : /\ t[i].until <= credential[t[i].cred].until
                            /\ t[i].epoch <= epoch,
           opening' = [opening EXCEPT ![w] = None] \/ opening' = opening,
           inflight' = [inflight EXCEPT ![w] = None] \/ inflight' = inflight
    PROVE  SessionInv'
PROOF
<1>1. sessions' \in [Workers -> [Slots -> Session]]
  BY DEF SessionInv, TypeOK
<1>2. \A v \in Workers : sessions'[v] = IF v = w THEN t ELSE sessions[v]
  BY DEF SessionInv, TypeOK
<1>3. \A v \in Workers, i \in Slots :
         sessions'[v][i].until <= credential'[sessions'[v][i].cred].until
  BY <1>2 DEF SessionInv, TypeOK
<1>4. /\ opening' \in [Workers -> Credentials \cup {None}]
      /\ inflight' \in [Workers -> Credentials \cup {None}]
  BY DEF SessionInv, TypeOK
<1>5. TypeOK'
  BY <1>1, <1>3, <1>4 DEF SessionInv, TypeOK
<1>6. EpochsBegun'
  BY <1>2 DEF SessionInv, EpochsBegun
<1> QED
  BY <1>5, <1>6 DEF SessionInv, IssuedOnce

\* Sweeping keeps what a session is.
LEMMA SweptFacts ==
    ASSUME SessionInv, NEW w \in Workers
    PROVE  /\ Swept(w) \in [Slots -> Session]
           /\ \A i \in Slots :
                 /\ Swept(w)[i].until <= credential[Swept(w)[i].cred].until
                 /\ Swept(w)[i].epoch <= epoch
PROOF
<1>1. /\ Empty \in Session
      /\ Empty.until <= credential[Empty.cred].until
      /\ Empty.epoch <= epoch
  <2>1. Configured \in Credentials
    BY DEF Credentials
  <2>2. credential[Configured].until \in Nat /\ epoch \in Nat
    BY <2>1 DEF SessionInv, TypeOK
  <2> QED
    BY <2>1, <2>2 DEF Empty, Session
<1>2. \A i \in Slots : /\ sessions[w][i] \in Session
                       /\ sessions[w][i].until <= credential[sessions[w][i].cred].until
                       /\ sessions[w][i].epoch <= epoch
  BY DEF SessionInv, TypeOK, EpochsBegun
<1>3. \A i \in Slots : Swept(w)[i] \in {Empty, sessions[w][i]}
  BY DEF Swept
<1>4. Swept(w) \in [Slots -> Session]
  BY <1>1, <1>2 DEF Swept
<1> QED
  BY <1>1, <1>2, <1>3, <1>4

\* A step that leaves identity, credentials and servers alone.
LEMMA TokenStep ==
    ASSUME SessionInv,
           UNCHANGED <<clock, epoch, base, enrolled, revoked, request, approvals,
                       credential, sessions, opening, inflight>>,
           grant' \in [Grants -> [status : Statuses, epoch : Nat, until : Nat]],
           reissue' \in [Reissues -> [status : Statuses, epoch : Nat, until : Nat]],
           \A j \in Grants : grant'[j].epoch <= epoch,
           \A k \in Reissues : reissue'[k].epoch <= epoch,
           \A k \in Reissues :
              reissue[k].status = "COMPLETED" => reissue'[k].status = "COMPLETED"
    PROVE  SessionInv'
PROOF
<1>1. TypeOK'
  BY DEF SessionInv, TypeOK
<1>2. EpochsBegun'
  BY DEF SessionInv, EpochsBegun
<1>3. IssuedOnce'
  BY DEF SessionInv, IssuedOnce
<1> QED
  BY <1>1, <1>2, <1>3 DEF SessionInv

LEMMA GrantStep ==
    ASSUME SessionInv, NEW j \in Grants, IssueJit(j) \/ ConsumeJit(j)
    PROVE  SessionInv'
PROOF
<1>1. /\ grant \in [Grants -> [status : Statuses, epoch : Nat, until : Nat]]
      /\ reissue \in [Reissues -> [status : Statuses, epoch : Nat, until : Nat]]
      /\ epoch \in Nat /\ clock \in Nat /\ Ttl \in Nat
  BY SessionAssumptions DEF SessionInv, TypeOK
<1>2. grant' \in [Grants -> [status : Statuses, epoch : Nat, until : Nat]]
  <2>1. CASE IssueJit(j)
    <3>1. PICK e \in (clock + 1)..(clock + Ttl) :
             grant' = [grant EXCEPT ![j] =
                         [status |-> "PENDING", epoch |-> epoch, until |-> e]]
      BY <2>1 DEF IssueJit
    <3>2. e \in Nat
      BY <1>1
    <3> QED
      BY <1>1, <3>1, <3>2 DEF Statuses
  <2>2. CASE ConsumeJit(j)
    BY <1>1, <2>2 DEF ConsumeJit, Statuses
  <2> QED
    BY <2>1, <2>2
<1>3. \A i \in Grants : grant'[i].epoch <= epoch
  BY <1>1 DEF SessionInv, EpochsBegun, IssueJit, ConsumeJit
<1>4. UNCHANGED <<clock, epoch, base, enrolled, revoked, request, approvals,
                  credential, sessions, opening, inflight, reissue>>
  BY DEF IssueJit, ConsumeJit
<1> QED
  BY <1>1, <1>2, <1>3, <1>4, TokenStep DEF SessionInv, EpochsBegun

LEMMA ChallengeStep ==
    ASSUME SessionInv, NEW k \in Reissues, Challenge(k) PROVE SessionInv'
PROOF
<1>1. /\ grant \in [Grants -> [status : Statuses, epoch : Nat, until : Nat]]
      /\ reissue \in [Reissues -> [status : Statuses, epoch : Nat, until : Nat]]
      /\ epoch \in Nat /\ clock \in Nat /\ Ttl \in Nat
  BY SessionAssumptions DEF SessionInv, TypeOK
<1>2. PICK e \in 1..epoch :
         reissue' = [reissue EXCEPT ![k] =
            [status |-> "PENDING", epoch |-> e, until |-> clock + Ttl]]
  BY DEF Challenge
<1>3. e \in Nat /\ e <= epoch /\ clock + Ttl \in Nat
  BY <1>1
<1>4. reissue' \in [Reissues -> [status : Statuses, epoch : Nat, until : Nat]]
  BY <1>1, <1>2, <1>3 DEF Statuses
<1>5. \A i \in Reissues : reissue'[i].epoch <= epoch
  BY <1>1, <1>2, <1>3 DEF SessionInv, EpochsBegun
<1>6. reissue[k].status = "NONE"
  BY DEF Challenge
<1>7. \A i \in Reissues : reissue[i].status = "COMPLETED" => reissue'[i] = reissue[i]
  BY <1>1, <1>2, <1>6
<1>8. UNCHANGED <<clock, epoch, base, enrolled, revoked, request, approvals,
                  credential, sessions, opening, inflight, grant>>
  BY DEF Challenge
<1> QED
  BY <1>1, <1>4, <1>5, <1>7, <1>8, TokenStep DEF SessionInv, EpochsBegun

\* The credential did not exist: no session goes back to it.
LEMMA ReissueStep ==
    ASSUME SessionInv, NEW k \in Reissues, Reissue(k) PROVE SessionInv'
PROOF
<1>1. /\ credential \in [Credentials -> [epoch : Nat, until : Nat]]
      /\ reissue \in [Reissues -> [status : Statuses, epoch : Nat, until : Nat]]
      /\ clock \in Nat /\ CredentialTtl \in Nat /\ k \in Credentials
  BY SessionAssumptions DEF SessionInv, TypeOK, Credentials
<1>2. /\ reissue[k].status = "PENDING" /\ reissue[k].epoch = epoch
      /\ credential' = [credential EXCEPT ![k] =
            [epoch |-> reissue[k].epoch, until |-> clock + CredentialTtl]]
      /\ reissue' = [reissue EXCEPT ![k].status = "COMPLETED"]
      /\ UNCHANGED <<clock, epoch, base, enrolled, revoked, request, approvals,
                     grant, sessions, opening, inflight>>
  BY DEF Reissue, Reissuable
<1>3. credential[k].until = 0
  BY <1>2 DEF SessionInv, IssuedOnce
<1>4. credential' \in [Credentials -> [epoch : Nat, until : Nat]]
  BY <1>1, <1>2
<1>5. reissue' \in [Reissues -> [status : Statuses, epoch : Nat, until : Nat]]
  BY <1>1, <1>2 DEF Statuses
<1>6. \A c \in Credentials : credential[c].until <= credential'[c].until
  BY <1>1, <1>2, <1>3
<1>7. \A w \in Workers, i \in Slots :
         sessions[w][i].until <= credential'[sessions[w][i].cred].until
  <2> SUFFICES ASSUME NEW w \in Workers, NEW i \in Slots
               PROVE  sessions[w][i].until <= credential'[sessions[w][i].cred].until
    OBVIOUS
  <2> DEFINE c == sessions[w][i].cred
  <2>1. sessions[w][i] \in Session
    BY DEF SessionInv, TypeOK
  <2>2. c \in Credentials /\ sessions[w][i].until \in Nat
    BY <2>1 DEF Session
  <2>3. sessions[w][i].until <= credential[c].until
    BY DEF SessionInv, TypeOK
  <2>4. credential[c].until \in Nat /\ credential'[c].until \in Nat
    BY <1>1, <1>4, <2>2
  <2> QED
    BY <1>6, <2>2, <2>3, <2>4
<1>8. TypeOK'
  BY <1>2, <1>4, <1>5, <1>7 DEF SessionInv, TypeOK
<1>9. EpochsBegun'
  <2>1. \A c \in Credentials : credential'[c].epoch <= epoch
    BY <1>1, <1>2 DEF SessionInv, EpochsBegun, TypeOK
  <2>2. \A j \in Reissues : reissue'[j].epoch <= epoch
    BY <1>1, <1>2 DEF SessionInv, EpochsBegun
  <2> QED
    BY <1>2, <2>1, <2>2 DEF SessionInv, EpochsBegun
<1>10. IssuedOnce'
  <2> SUFFICES ASSUME NEW j \in Reissues, reissue'[j].status # "COMPLETED"
               PROVE  credential'[j].until = 0
    BY DEF IssuedOnce
  <2>1. j # k /\ reissue'[j] = reissue[j] /\ j \in Credentials
    BY <1>1, <1>2 DEF Credentials
  <2> QED
    BY <1>1, <1>2, <2>1 DEF SessionInv, IssuedOnce
<1> QED
  BY <1>8, <1>9, <1>10 DEF SessionInv

LEMMA OpenStep ==
    ASSUME SessionInv, NEW w \in Workers, OpenSession(w) PROVE SessionInv'
PROOF
<1> DEFINE c == opening[w]
           u == Earlier(clock + SessionTtl, credential[c].until)
           x == [epoch |-> epoch, cred |-> c, until |-> u]
<1>1. c \in Credentials
  BY DEF OpenSession, Free, SessionInv, TypeOK
<1>2. /\ credential[c].until \in Nat /\ epoch \in Nat
      /\ clock \in Nat /\ SessionTtl \in Nat
  BY <1>1, SessionAssumptions DEF SessionInv, TypeOK
<1>3. u \in Nat /\ u <= credential[c].until
  BY <1>2 DEF Earlier
<1>4. x \in Session
  BY <1>1, <1>2, <1>3 DEF Session
<1>5. PICK i \in Slots : sessions' = [sessions EXCEPT ![w] = [Swept(w) EXCEPT ![i] = x]]
  BY DEF OpenSession
<1> DEFINE t == [Swept(w) EXCEPT ![i] = x]
<1>6. t \in [Slots -> Session] /\ \A j \in Slots : t[j] = IF j = i THEN x ELSE Swept(w)[j]
  BY <1>4, SweptFacts
<1>7. x.until <= credential[x.cred].until /\ x.epoch <= epoch
  BY <1>2, <1>3
<1> HIDE DEF x, t, u
<1>8. \A j \in Slots : /\ t[j].until <= credential[t[j].cred].until
                       /\ t[j].epoch <= epoch
  BY <1>6, <1>7, SweptFacts
<1>9. /\ UNCHANGED <<clock, epoch, base, enrolled, revoked, request, approvals,
                     reissue, credential, grant, inflight>>
      /\ opening' = [opening EXCEPT ![w] = None]
  BY DEF OpenSession
<1>10. sessions' = [sessions EXCEPT ![w] = t]
  BY <1>5 DEF t, x
<1> QED
  BY <1>6, <1>8, <1>9, <1>10, SessionStep

\* Logging out, being refused a login and starting again only remove sessions.
LEMMA LeaveStep ==
    ASSUME SessionInv, NEW w \in Workers,
           LoginRefused(w) \/ Restart(w) \/ \E i \in Slots : Logout(w, i)
    PROVE  SessionInv'
PROOF
<1>1. \A i \in Slots : /\ sessions[w][i] \in Session
                       /\ sessions[w][i].until <= credential[sessions[w][i].cred].until
                       /\ sessions[w][i].epoch <= epoch
  BY DEF SessionInv, TypeOK, EpochsBegun
<1>2. /\ Empty \in Session
      /\ Empty.until <= credential[Empty.cred].until
      /\ Empty.epoch <= epoch
  <2>1. Configured \in Credentials
    BY DEF Credentials
  <2>2. credential[Configured].until \in Nat /\ epoch \in Nat
    BY <2>1 DEF SessionInv, TypeOK
  <2> QED
    BY <2>1, <2>2 DEF Empty, Session
<1>3. CASE LoginRefused(w)
  <2>1. /\ sessions' = [sessions EXCEPT ![w] = Swept(w)]
        /\ UNCHANGED <<clock, epoch, base, enrolled, revoked, request, approvals,
                       reissue, credential, grant, inflight>>
        /\ opening' = [opening EXCEPT ![w] = None]
    BY <1>3 DEF LoginRefused
  <2> QED
    BY <2>1, SweptFacts, SessionStep
<1>4. CASE Restart(w)
  <2> DEFINE t == [i \in Slots |-> Empty]
  <2>1. /\ sessions' = [sessions EXCEPT ![w] = t]
        /\ UNCHANGED <<clock, epoch, base, enrolled, revoked, request, approvals,
                       reissue, credential, grant>>
        /\ opening' = [opening EXCEPT ![w] = None]
        /\ inflight' = [inflight EXCEPT ![w] = None]
    BY <1>4 DEF Restart
  <2>2. t \in [Slots -> Session] /\ \A i \in Slots : t[i] = Empty
    BY <1>2
  <2> HIDE DEF t
  <2>3. \A i \in Slots : /\ t[i].until <= credential[t[i].cred].until
                         /\ t[i].epoch <= epoch
    BY <1>2, <2>2
  <2> QED
    BY <2>1, <2>2, <2>3, SessionStep
<1>5. ASSUME NEW i \in Slots, Logout(w, i) PROVE SessionInv'
  <2> DEFINE t == [sessions[w] EXCEPT ![i] = Empty]
  <2>1. /\ sessions' = [sessions EXCEPT ![w] = t]
        /\ UNCHANGED <<clock, epoch, base, enrolled, revoked, request, approvals,
                       reissue, credential, grant, opening, inflight>>
    BY <1>5 DEF Logout, SessionInv, TypeOK
  <2>2. /\ t \in [Slots -> Session]
        /\ \A j \in Slots : t[j] \in {Empty, sessions[w][j]}
    BY <1>2 DEF SessionInv, TypeOK
  <2> HIDE DEF t
  <2>3. \A j \in Slots : /\ t[j].until <= credential[t[j].cred].until
                         /\ t[j].epoch <= epoch
    BY <1>1, <1>2, <2>2
  <2> QED
    BY <2>1, <2>2, <2>3, SessionStep
<1> QED
  BY <1>3, <1>4, <1>5

LEMMA LoginStep ==
    ASSUME SessionInv, NEW w \in Workers, NEW c \in Credentials, Login(w, c)
    PROVE  SessionInv'
PROOF
<1>1. opening' \in [Workers -> Credentials \cup {None}]
  BY DEF SessionInv, TypeOK, Login
<1>2. TypeOK'
  BY <1>1 DEF SessionInv, TypeOK, Login
<1>3. EpochsBegun'
  BY DEF SessionInv, EpochsBegun, Login
<1> QED
  BY <1>2, <1>3 DEF SessionInv, IssuedOnce, Login

\* Requests, revocations, operations and the clock.
LEMMA LifecycleStep ==
    ASSUME SessionInv, NEW q \in Requests,
           \/ \E op \in Operations : Ask(q, op)
           \/ \E s \in Signers : Approve(s, q)
           \/ Complete(q)
    PROVE  SessionInv'
PROOF
<1>1. /\ epoch \in Nat /\ clock \in Nat /\ clock \in 0..MaxTime /\ Ttl \in Nat
      /\ base \in {"ACTIVE", "RESET_REQUIRED"}
      /\ enrolled \in {"NONE", "ACTIVE", "RESET_REQUIRED"}
      /\ revoked \subseteq Revocable
      /\ request \in [Requests -> [status : Statuses, op : Operations]]
      /\ approvals \in [Requests -> [Signers -> Nat]]
      /\ inflight \in [Workers -> Credentials \cup {None}]
  BY SessionAssumptions DEF SessionInv, TypeOK
<1>2. ASSUME NEW op \in Operations, Ask(q, op) PROVE SessionInv'
  <2>1. request' \in [Requests -> [status : Statuses, op : Operations]]
    BY <1>1, <1>2 DEF Ask, Statuses
  <2>2. /\ UNCHANGED <<clock, epoch, base, enrolled, revoked, approvals,
                       reissue, credential, grant, sessions, opening, inflight>>
    BY <1>2 DEF Ask
  <2> QED
    BY <1>1, <2>1, <2>2, QuietStep
<1>3. ASSUME NEW s \in Signers, Approve(s, q) PROVE SessionInv'
  <2>1. PICK e \in (clock + 1)..(clock + Ttl) :
           approvals' = [approvals EXCEPT ![q][s] = e]
    BY <1>3 DEF Approve
  <2>2. e \in Nat
    BY <1>1
  <2>3. approvals' \in [Requests -> [Signers -> Nat]]
    BY <1>1, <2>1, <2>2
  <2>4. /\ UNCHANGED <<clock, epoch, base, enrolled, revoked, request,
                       reissue, credential, grant, sessions, opening, inflight>>
    BY <1>3 DEF Approve
  <2> QED
    BY <1>1, <2>3, <2>4, QuietStep
<1>4. CASE Complete(q)
  <2>1. /\ epoch' = epoch + 1
        /\ UNCHANGED <<clock, revoked, approvals,
                       reissue, credential, grant, sessions, opening, inflight>>
    BY <1>4 DEF Complete
  <2>2. request' \in [Requests -> [status : Statuses, op : Operations]]
    BY <1>1, <1>4 DEF Complete, Statuses
  <2>3. /\ base' \in {"ACTIVE", "RESET_REQUIRED"}
        /\ enrolled' \in {"NONE", "ACTIVE", "RESET_REQUIRED"}
    BY <1>1, <1>4 DEF Complete
  <2> QED
    BY <1>1, <2>1, <2>2, <2>3, QuietStep
<1> QED
  BY <1>2, <1>3, <1>4

LEMMA RequestStep ==
    ASSUME SessionInv, NEW w \in Workers, NEW c \in Credentials, Admit(w, c)
    PROVE  SessionInv'
PROOF
<1>1. /\ inflight' \in [Workers -> Credentials \cup {None}]
      /\ epoch \in Nat
  BY DEF SessionInv, TypeOK, Admit
<1>2. UNCHANGED <<clock, epoch, base, enrolled, revoked, request, approvals,
                  reissue, credential, grant, sessions, opening>>
  BY DEF Admit
<1> QED
  BY <1>1, <1>2, QuietStep DEF SessionInv, TypeOK

\* A request of a session goes back to its credential.
LEMMA CookieAdmits ==
    ASSUME SessionInv, NEW w \in Workers, NEW i \in Slots, Cookie(w, i)
    PROVE  /\ sessions[w][i].cred \in Credentials
           /\ Admit(w, sessions[w][i].cred)
           /\ credential[sessions[w][i].cred].until > clock
           /\ Subject \notin revoked
PROOF
<1>1. sessions[w][i] \in Session
  BY DEF SessionInv, TypeOK
<1>2. sessions[w][i].cred \in Credentials /\ sessions[w][i].until \in Nat
  BY <1>1 DEF Session
<1>3. credential[sessions[w][i].cred].until \in Nat /\ clock \in Nat
  BY <1>2 DEF SessionInv, TypeOK
<1>4. sessions[w][i].until <= credential[sessions[w][i].cred].until
  BY DEF SessionInv, TypeOK
<1> QED
  BY <1>2, <1>3, <1>4 DEF Cookie, Open, Valid

LEMMA OtherStep ==
    ASSUME SessionInv,
           (\E x \in Revocable : Revoke(x)) \/ (\E w \in Workers : Operate(w)) \/ Tick
    PROVE  SessionInv'
PROOF
<1>1. epoch \in Nat /\ clock \in Nat /\ MaxTime \in Nat
  BY SessionAssumptions DEF SessionInv, TypeOK
<1>2. ASSUME NEW x \in Revocable, Revoke(x) PROVE SessionInv'
  <2>1. /\ revoked' = revoked \cup {x}
        /\ UNCHANGED <<clock, epoch, base, enrolled, request, approvals,
                       reissue, credential, grant, sessions, opening, inflight>>
    BY <1>2 DEF Revoke
  <2> QED
    BY <1>1, <2>1, QuietStep DEF SessionInv, TypeOK
<1>3. ASSUME NEW w \in Workers, Operate(w) PROVE SessionInv'
  <2>1. /\ inflight' = [inflight EXCEPT ![w] = None]
        /\ UNCHANGED <<clock, epoch, base, enrolled, revoked, request, approvals,
                       reissue, credential, grant, sessions, opening>>
    BY <1>3 DEF Operate
  <2> QED
    BY <1>1, <2>1, QuietStep DEF SessionInv, TypeOK
<1>4. CASE Tick
  <2>1. /\ clock' = clock + 1 /\ clock < MaxTime
        /\ UNCHANGED <<epoch, base, enrolled, revoked, request, approvals,
                       reissue, credential, grant, sessions, opening, inflight>>
    BY <1>4 DEF Tick
  <2>2. clock' \in 0..MaxTime
    BY <1>1, <2>1
  <2> QED
    BY <1>1, <2>1, <2>2, QuietStep DEF SessionInv, TypeOK
<1> QED
  BY <1>2, <1>3, <1>4

LEMMA NextSessionInv == SessionInv /\ [Next]_vars => SessionInv'
PROOF
<1> SUFFICES ASSUME SessionInv, [Next]_vars PROVE SessionInv'
  OBVIOUS
<1>1. CASE UNCHANGED vars
  BY <1>1 DEF vars, SessionInv, TypeOK, EpochsBegun, IssuedOnce
<1>2. CASE \E q \in Requests :
             \/ \E op \in Operations : Ask(q, op)
             \/ \E s \in Signers : Approve(s, q)
             \/ Complete(q)
  BY <1>2, LifecycleStep
<1>3. CASE \E j \in Grants : IssueJit(j) \/ ConsumeJit(j)
  BY <1>3, GrantStep
<1>4. CASE (\E x \in Revocable : Revoke(x)) \/ Tick
  BY <1>4, OtherStep
<1>5. CASE \E k \in Reissues : Challenge(k) \/ Reissue(k)
  BY <1>5, ChallengeStep, ReissueStep
<1>6. ASSUME NEW w \in Workers, NEW c \in Credentials, Login(w, c) \/ Bearer(w, c)
      PROVE  SessionInv'
  BY <1>6, LoginStep, RequestStep DEF Bearer
<1>7. ASSUME NEW w \in Workers, NEW i \in Slots, Cookie(w, i)
      PROVE  SessionInv'
  BY <1>7, CookieAdmits, RequestStep
<1>8. ASSUME NEW w \in Workers,
             \/ OpenSession(w) \/ LoginRefused(w) \/ Operate(w) \/ Restart(w)
             \/ \E i \in Slots : Logout(w, i)
      PROVE  SessionInv'
  BY <1>8, OpenStep, LeaveStep, OtherStep
<1> QED
  BY <1>1, <1>2, <1>3, <1>4, <1>5, <1>6, <1>7, <1>8 DEF Next

LEMMA SessionInvHolds == Spec => []SessionInv
PROOF
  BY InitSessionInv, NextSessionInv, PTL DEF Spec

\* Every record keeps its shape, and no session in the memory of any server
\* outlives the credential it was opened with (server.mjs, login).
THEOREM SessionTypes == Spec => []TypeOK
PROOF
<1>1. SessionInv => TypeOK
  BY DEF SessionInv
<1> QED
  BY <1>1, SessionInvHolds, PTL

\* Whatever the servers remember and however many resets complete: a completed
\* reset, recovery or enrolment leaves no credential, session, grant or
\* challenge of before it good for anything (identity-lifecycle.mjs, complete).
THEOREM ResetsInvalidate == Spec => ResetInvalidates
PROOF
<1>1. ASSUME SessionInv, [Next]_vars, NEW q \in Requests,
             request[q].status = "PENDING", request'[q].status = "COMPLETED"
      PROVE  Complete(q)
  <2>1. request \in [Requests -> [status : Statuses, op : Operations]]
    BY <1>1 DEF SessionInv, TypeOK
  <2>2. request' # request
    BY <1>1
  <2>3. PICK r \in Requests : (\E op \in Operations : Ask(r, op)) \/ Complete(r)
    BY <1>1, <2>2 DEF Next, vars, Approve, IssueJit, ConsumeJit, Revoke, Challenge,
       Reissue, Login, Bearer, Cookie, Admit, OpenSession, LoginRefused, Logout,
       Operate, Restart, Tick
  <2>4. ~\E op \in Operations : Ask(r, op)
    BY <1>1, <2>1 DEF Ask
  <2> QED
    BY <1>1, <2>1, <2>3, <2>4 DEF Complete
<1>2. ASSUME SessionInv, NEW q \in Requests, Complete(q)
      PROVE  /\ \A c \in Credentials : ~Authentic(c)'
             /\ \A w \in Workers, i \in Slots : ~Open(sessions[w][i])'
             /\ \A j \in Grants : ~Usable(j)'
             /\ \A k \in Reissues : ~Reissuable(k)'
  <2>1. /\ epoch' = epoch + 1 /\ epoch \in Nat
        /\ UNCHANGED <<reissue, credential, grant, sessions>>
    BY <1>2 DEF Complete, SessionInv, TypeOK
  <2>2. /\ \A c \in Credentials : credential'[c].epoch # epoch'
        /\ \A k \in Reissues : reissue'[k].epoch # epoch'
        /\ \A j \in Grants : grant'[j].epoch # epoch'
        /\ \A w \in Workers, i \in Slots : sessions'[w][i].epoch # epoch'
    BY <1>2, <2>1 DEF SessionInv, TypeOK, EpochsBegun, Session
  <2> QED
    BY <2>2 DEF Authentic, Open, Usable, Reissuable, Valid
<1>3. SessionInv /\ [Next]_vars =>
        [\A q \in Requests :
          request[q].status = "PENDING" /\ request'[q].status = "COMPLETED" =>
             /\ \A c \in Credentials : ~Authentic(c)'
             /\ \A w \in Workers, i \in Slots : ~Open(sessions[w][i])'
             /\ \A j \in Grants : ~Usable(j)'
             /\ \A k \in Reissues : ~Reissuable(k)']_vars
  BY <1>1, <1>2
<1> QED
  BY <1>3, SessionInvHolds, PTL DEF Spec, ResetInvalidates

\* A request is admitted only while the credential it goes back to lives and
\* the subject is not revoked: the bound on a session that was opened while a
\* reset completed (server.mjs, login and auth).
THEOREM AccessIsBounded == Spec => AccessIsLive
PROOF
<1>1. ASSUME SessionInv, [Next]_vars, NEW w \in Workers,
             inflight[w] = None, inflight'[w] # None
      PROVE  /\ credential[inflight'[w]].until > clock
             /\ Subject \notin revoked
  <2>1. inflight \in [Workers -> Credentials \cup {None}]
    BY <1>1 DEF SessionInv, TypeOK
  <2>2. inflight' # inflight
    BY <1>1
  <2>3. PICK v \in Workers :
           \/ \E c \in Credentials : Bearer(v, c)
           \/ \E i \in Slots : Cookie(v, i)
           \/ Operate(v) \/ Restart(v)
    BY <1>1, <2>2 DEF Next, vars, Ask, Approve, Complete, IssueJit, ConsumeJit,
       Revoke, Challenge, Reissue, Login, OpenSession, LoginRefused, Logout, Tick
  <2>4. ~(Operate(v) \/ Restart(v))
    BY <1>1, <2>1 DEF Operate, Restart
  <2>5. ASSUME NEW c \in Credentials, Admit(v, c) PROVE inflight'[w] = c
    BY <1>1, <2>1, <2>5 DEF Admit
  <2>6. ASSUME NEW c \in Credentials, Bearer(v, c)
        PROVE  credential[inflight'[w]].until > clock /\ Subject \notin revoked
    BY <2>5, <2>6 DEF Bearer, Authentic, Valid
  <2>7. ASSUME NEW i \in Slots, Cookie(v, i)
        PROVE  credential[inflight'[w]].until > clock /\ Subject \notin revoked
    BY <1>1, <2>5, <2>7, CookieAdmits
  <2> QED
    BY <2>3, <2>4, <2>6, <2>7
<1>2. SessionInv /\ [Next]_vars =>
        [\A w \in Workers :
          inflight[w] = None /\ inflight'[w] # None =>
             /\ credential[inflight'[w]].until > clock
             /\ Subject \notin revoked]_vars
  BY <1>1
<1> QED
  BY <1>2, SessionInvHolds, PTL DEF Spec, AccessIsLive

\* No operation of the system gives a subject that was reset, or revoked, its
\* assurance back (identity-lifecycle.mjs, assertAssured).
THEOREM ResetLasts == Spec => ResetIsLasting
PROOF
<1>1. ASSUME SessionInv, [Next]_vars
      PROVE  (base' = "ACTIVE" => base = "ACTIVE") /\ revoked \subseteq revoked'
  BY <1>1 DEF Next, vars, Ask, Approve, Complete, IssueJit, ConsumeJit, Revoke,
     Challenge, Reissue, Login, Bearer, Cookie, Admit, OpenSession, LoginRefused,
     Logout, Operate, Restart, Tick
<1>2. SessionInv /\ [Next]_vars => [~Assured => ~Assured']_vars
  BY <1>1 DEF Assured
<1> QED
  BY <1>2, SessionInvHolds, PTL DEF Spec, ResetIsLasting
=============================================================================
