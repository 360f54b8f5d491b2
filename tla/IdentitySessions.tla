-------------------------- MODULE IdentitySessions --------------------------
(***************************************************************************)
(* One subject, its identity record and what lets it in: the reset,        *)
(* recovery and enrolment of its authenticators and the just-in-time       *)
(* grants (identity-lifecycle.mjs), the bearer credentials, their reissue  *)
(* and the sessions in the memory of each server (server.mjs).             *)
(*                                                                         *)
(* Every credential, session and grant carries the session epoch it was    *)
(* made in; completing a reset advances the epoch, in the shared database, *)
(* and takes no further action against any of them.                        *)
(*                                                                         *)
(* A challenge and the envelopes made from it are one with the call they   *)
(* are used in, and a reissued credential has the name of its challenge.   *)
(***************************************************************************)
EXTENDS Naturals, FiniteSets

CONSTANTS
    Workers,         \* HTTP servers that share the database
    Slots,           \* sessions a server holds at most (sessions.size < 1000)
    Subject,         \* the subject
    Signers,         \* custodians and approvers other than the subject
    DomainOf,        \* their failure domains
    Threshold,       \* root_threshold
    Requests,        \* bound: identity lifecycle requests
    Reissues,        \* bound: credential reissues
    Grants,          \* bound: just-in-time grants
    Revocable,       \* which of the subject, the signers and the grants may
                     \* be revoked
    Configured,      \* the configured credential
    ConfiguredUntil, \* its expiry
    None,            \* no credential
    CredentialTtl,   \* 15 minutes
    SessionTtl,      \* 15 minutes
    Ttl,             \* 5 minutes: approvals, challenges, grants
    MaxTime          \* bound: the clock

Credentials == {Configured} \cup Reissues

ASSUME SessionAssumptions ==
    /\ Subject \notin Signers
    /\ Revocable \subseteq {Subject} \cup Signers \cup Grants
    /\ Configured \notin Reissues
    /\ None \notin Credentials
    /\ Threshold \in Nat \ {0}
    /\ {ConfiguredUntil, CredentialTtl, SessionTtl, Ttl, MaxTime} \subseteq Nat

VARIABLES
    clock,
    epoch,      \* session_epoch of the identity-state
    base,       \* status of the configured authenticator
    enrolled,   \* status of the authenticator enrolled last, or NONE
    revoked,    \* revocation: of the subject, of signers and of grants
    request,    \* identity-lifecycle
    approvals,  \* their approvals: until when each signer's counts, or 0
    reissue,    \* credential-reissue
    credential, \* http-credential and the configuration's auth
    grant,      \* identity-jit
    sessions,   \* the sessions each server remembers
    opening,    \* a login between its token's check and its session
    inflight    \* a request between its admission and its operation

identity == <<epoch, base, enrolled>>

lifecycle == <<request, approvals>>

tokens == <<reissue, credential, grant>>

servers == <<sessions, opening, inflight>>

vars == <<clock, identity, revoked, lifecycle, tokens, servers>>

\* ACCOUNT_RECOVERY does to authenticators and epoch what MFA_RESET does.
Operations == {"MFA_RESET", "AUTHENTICATOR_ENROLL"}

Statuses == {"NONE", "PENDING", "COMPLETED"}

\* An expiry of zero stands for a record that does not exist.
Session == [epoch : Nat, until : Nat, cred : Credentials]

Empty == [epoch |-> 0, until |-> 0, cred |-> Configured]

\* No session outlives the credential it was opened with.
TypeOK ==
    /\ clock \in 0..MaxTime
    /\ epoch \in Nat
    /\ base \in {"ACTIVE", "RESET_REQUIRED"}
    /\ enrolled \in {"NONE", "ACTIVE", "RESET_REQUIRED"}
    /\ revoked \subseteq Revocable
    /\ request \in [Requests -> [status : Statuses, op : Operations]]
    /\ approvals \in [Requests -> [Signers -> Nat]]
    /\ reissue \in [Reissues -> [status : Statuses, epoch : Nat, until : Nat]]
    /\ credential \in [Credentials -> [epoch : Nat, until : Nat]]
    /\ grant \in [Grants -> [status : Statuses, epoch : Nat, until : Nat]]
    /\ sessions \in [Workers -> [Slots -> Session]]
    /\ \A w \in Workers, i \in Slots :
           sessions[w][i].until <= credential[sessions[w][i].cred].until
    /\ opening \in [Workers -> Credentials \cup {None}]
    /\ inflight \in [Workers -> Credentials \cup {None}]

Init ==
    /\ clock = 0
    /\ epoch = 0
    /\ base = "ACTIVE"
    /\ enrolled = "NONE"
    /\ revoked = {}
    /\ request = [q \in Requests |-> [status |-> "NONE", op |-> "MFA_RESET"]]
    /\ approvals = [q \in Requests |-> [s \in Signers |-> 0]]
    /\ reissue = [k \in Reissues |-> [status |-> "NONE", epoch |-> 0, until |-> 0]]
    /\ credential = [c \in Credentials |->
          [epoch |-> 0, until |-> IF c = Configured THEN ConfiguredUntil ELSE 0]]
    /\ grant = [j \in Grants |-> [status |-> "NONE", epoch |-> 0, until |-> 0]]
    /\ sessions = [w \in Workers |-> [i \in Slots |-> Empty]]
    /\ opening = [w \in Workers |-> None]
    /\ inflight = [w \in Workers |-> None]
-----------------------------------------------------------------------------
Domains(S) == Cardinality({DomainOf[s] : s \in S})

Live == Signers \ revoked

\* sessionValid, for what was made in epoch e and expires at t.
Valid(e, t) == e = epoch /\ t > clock /\ Subject \notin revoked

\* authenticateToken.
Authentic(c) == Valid(credential[c].epoch, credential[c].until)

\* The session of a request (auth).
Open(s) == Valid(s.epoch, s.until)

\* Deviation: any active authenticator will do.
AssuredByAny == "ACTIVE" \in {base, enrolled} /\ Subject \notin revoked

\* assertAssured looks the configured authenticator up again by its id, which
\* an enrolment does not change.
Assured == base = "ACTIVE" /\ Subject \notin revoked
-----------------------------------------------------------------------------
(* Identity lifecycle.                                                     *)

Ask(q, op) ==
    /\ request[q].status = "NONE"
    /\ request' = [request EXCEPT ![q] = [status |-> "PENDING", op |-> op]]
    /\ UNCHANGED <<clock, identity, revoked, approvals, tokens, servers>>

Approve(s, q) ==
    /\ s \in Live
    /\ request[q].status = "PENDING"
    /\ approvals[q][s] = 0
    /\ \E e \in (clock + 1)..(clock + Ttl) :
           approvals' = [approvals EXCEPT ![q][s] = e]
    /\ UNCHANGED <<clock, identity, revoked, request, tokens, servers>>

Approvers(q) == {s \in Live : approvals[q][s] > clock}

\* Deviation: the state of an earlier reset is not taken over.
CompleteFromBase(q) ==
    /\ request[q].status = "PENDING"
    /\ Domains(Approvers(q)) >= 2
    /\ epoch' = 1
    /\ IF request[q].op = "MFA_RESET"
       THEN base' = "RESET_REQUIRED" /\ enrolled' = "NONE"
       ELSE base' = "ACTIVE" /\ enrolled' = "ACTIVE"
    /\ request' = [request EXCEPT ![q].status = "COMPLETED"]
    /\ UNCHANGED <<clock, revoked, approvals, tokens, servers>>

\* A reset spoils every authenticator; an enrolment adds one.
Complete(q) ==
    /\ request[q].status = "PENDING"
    /\ Domains(Approvers(q)) >= 2
    /\ epoch' = epoch + 1
    /\ IF request[q].op = "MFA_RESET"
       THEN /\ base' = "RESET_REQUIRED"
            /\ enrolled' = IF enrolled = "NONE" THEN "NONE" ELSE "RESET_REQUIRED"
       ELSE /\ enrolled' = "ACTIVE"
            /\ UNCHANGED base
    /\ request' = [request EXCEPT ![q].status = "COMPLETED"]
    /\ UNCHANGED <<clock, revoked, approvals, tokens, servers>>

IssueJit(j) ==
    /\ grant[j].status = "NONE"
    /\ Assured
    /\ \E e \in (clock + 1)..(clock + Ttl) :
           grant' = [grant EXCEPT ![j] =
                        [status |-> "PENDING", epoch |-> epoch, until |-> e]]
    /\ UNCHANGED <<clock, identity, revoked, lifecycle, reissue, credential, servers>>

\* A grant that was used differs from the envelope its holder presents.
Usable(j) ==
    /\ grant[j].status = "PENDING"
    /\ Valid(grant[j].epoch, grant[j].until)
    /\ j \notin revoked
    /\ Assured

ConsumeJit(j) ==
    /\ Usable(j)
    /\ grant' = [grant EXCEPT ![j].status = "COMPLETED"]
    /\ UNCHANGED <<clock, identity, revoked, lifecycle, reissue, credential, servers>>

Revoke(x) ==
    /\ revoked' = revoked \cup {x}
    /\ UNCHANGED <<clock, identity, lifecycle, tokens, servers>>
-----------------------------------------------------------------------------
(* Credential reissue.                                                     *)

\* The epoch is read before the transaction that stores the challenge: any
\* number of resets may complete in between.
Challenge(k) ==
    /\ reissue[k].status = "NONE"
    /\ \E e \in 1..epoch :
           reissue' = [reissue EXCEPT ![k] =
                [status |-> "PENDING", epoch |-> e, until |-> clock + Ttl]]
    /\ UNCHANGED <<clock, identity, revoked, lifecycle, credential, grant, servers>>

Reissuable(k) ==
    /\ reissue[k].status = "PENDING"
    /\ reissue[k].until > clock
    /\ reissue[k].epoch = epoch

\* The signers vouch for the challenge; the credential is of its epoch.
Reissue(k) ==
    /\ Reissuable(k)
    /\ Domains(Live) >= Threshold
    /\ credential' = [credential EXCEPT ![k] =
          [epoch |-> reissue[k].epoch, until |-> clock + CredentialTtl]]
    /\ reissue' = [reissue EXCEPT ![k].status = "COMPLETED"]
    /\ UNCHANGED <<clock, identity, revoked, lifecycle, grant, servers>>
-----------------------------------------------------------------------------
(* Servers.  Between two statements on the database the other servers run; *)
(* a server that is opening a session does nothing else.                   *)

Free(w) == opening[w] = None

Login(w, c) ==
    /\ Free(w)
    /\ Authentic(c)
    /\ opening' = [opening EXCEPT ![w] = c]
    /\ UNCHANGED <<clock, identity, revoked, lifecycle, tokens, sessions, inflight>>

\* Expired sessions make room.
Swept(w) ==
    [i \in Slots |-> IF sessions[w][i].until <= clock THEN Empty ELSE sessions[w][i]]

Earlier(s, t) == IF s <= t THEN s ELSE t

\* Deviation: a session lives as long as any other.
OpenSessionForLonger(w) ==
    /\ ~Free(w)
    /\ \E i \in Slots :
          /\ Swept(w)[i] = Empty
          /\ sessions' = [sessions EXCEPT ![w] = [Swept(w) EXCEPT ![i] =
                [epoch |-> epoch, until |-> clock + SessionTtl,
                 cred |-> opening[w]]]]
    /\ opening' = [opening EXCEPT ![w] = None]
    /\ UNCHANGED <<clock, identity, revoked, lifecycle, tokens, inflight>>

\* The epoch is read again: it may be of a reset that came after the check.
OpenSession(w) ==
    /\ ~Free(w)
    /\ \E i \in Slots :
          /\ Swept(w)[i] = Empty
          /\ sessions' = [sessions EXCEPT ![w] = [Swept(w) EXCEPT ![i] =
                [epoch |-> epoch, cred |-> opening[w],
                 until |-> Earlier(clock + SessionTtl,
                                   credential[opening[w]].until)]]]
    /\ opening' = [opening EXCEPT ![w] = None]
    /\ UNCHANGED <<clock, identity, revoked, lifecycle, tokens, inflight>>

\* No room: the login is refused.
LoginRefused(w) ==
    /\ ~Free(w)
    /\ \A i \in Slots : Swept(w)[i] # Empty
    /\ sessions' = [sessions EXCEPT ![w] = Swept(w)]
    /\ opening' = [opening EXCEPT ![w] = None]
    /\ UNCHANGED <<clock, identity, revoked, lifecycle, tokens, inflight>>

Admit(w, c) ==
    /\ Free(w)
    /\ inflight[w] = None
    /\ inflight' = [inflight EXCEPT ![w] = c]
    /\ UNCHANGED <<clock, identity, revoked, lifecycle, tokens, sessions, opening>>

\* A request is admitted by its bearer token or by its session.
Bearer(w, c) == Authentic(c) /\ Admit(w, c)

Cookie(w, i) == Open(sessions[w][i]) /\ Admit(w, sessions[w][i].cred)

\* Once its body has arrived the operation runs; it looks at revocations
\* again, and not at the epoch.
Operate(w) ==
    /\ Free(w)
    /\ inflight[w] # None
    /\ inflight' = [inflight EXCEPT ![w] = None]
    /\ UNCHANGED <<clock, identity, revoked, lifecycle, tokens, sessions, opening>>

\* The request may name one session and be admitted by a bearer token.
Logout(w, i) ==
    /\ Free(w)
    /\ TRUE \in {Open(sessions[w][i])} \cup {Authentic(c) : c \in Credentials}
    /\ sessions' = [sessions EXCEPT ![w][i] = Empty]
    /\ UNCHANGED <<clock, identity, revoked, lifecycle, tokens, opening, inflight>>

\* A server that starts again has no sessions.
Restart(w) ==
    /\ sessions' = [sessions EXCEPT ![w] = [i \in Slots |-> Empty]]
    /\ opening' = [opening EXCEPT ![w] = None]
    /\ inflight' = [inflight EXCEPT ![w] = None]
    /\ UNCHANGED <<clock, identity, revoked, lifecycle, tokens>>

Tick ==
    /\ clock < MaxTime
    /\ clock' = clock + 1
    /\ UNCHANGED <<identity, revoked, lifecycle, tokens, servers>>

Next ==
    \/ \E q \in Requests :
           \/ \E op \in Operations : Ask(q, op)
           \/ \E s \in Signers : Approve(s, q)
           \/ Complete(q)
    \/ \E j \in Grants : IssueJit(j) \/ ConsumeJit(j)
    \/ \E x \in Revocable : Revoke(x)
    \/ \E k \in Reissues : Challenge(k) \/ Reissue(k)
    \/ \E w \in Workers :
           \/ \E c \in Credentials : Login(w, c) \/ Bearer(w, c)
           \/ OpenSession(w)
           \/ LoginRefused(w)
           \/ \E i \in Slots : Cookie(w, i) \/ Logout(w, i)
           \/ Operate(w)
           \/ Restart(w)
    \/ Tick

Spec == Init /\ [][Next]_vars
-----------------------------------------------------------------------------
(* Properties.                                                             *)

\* A completed reset, recovery or enrolment leaves nothing of what was there:
\* no credential, no session in the memory of any server, no grant and no
\* challenge made before it is good for anything afterwards
\* (docs/API.md: "the prior credential is intentionally invalidated").
ResetInvalidates ==
    [][\A q \in Requests :
          request[q].status = "PENDING" /\ request'[q].status = "COMPLETED" =>
             /\ \A c \in Credentials : ~Authentic(c)'
             /\ \A w \in Workers, i \in Slots : ~Open(sessions[w][i])'
             /\ \A j \in Grants : ~Usable(j)'
             /\ \A k \in Reissues : ~Reissuable(k)']_vars

\* A request is admitted only while the credential it goes back to is
\* unexpired and the subject is not revoked, also in a session that was
\* opened while a reset completed.
AccessIsLive ==
    [][\A w \in Workers :
          inflight[w] = None /\ inflight'[w] # None =>
             /\ credential[inflight'[w]].until > clock
             /\ Subject \notin revoked]_vars

\* Nothing lifts a reset: no enrolment, reissue or login gives the subject
\* back the assurance a grant or a proposal needs.
ResetIsLasting == [][~Assured => ~Assured']_vars
=============================================================================
