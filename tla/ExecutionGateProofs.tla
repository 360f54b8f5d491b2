------------------------ MODULE ExecutionGateProofs ------------------------
(* The safety of ExecutionGate for every set of workers, capsules and      *)
(* resources.  The properties are not inductive by themselves: what a      *)
(* worker holds in memory has to be tied to the two databases first.       *)
EXTENDS ExecutionGate, TLAPS

\* What a busy worker holds has been reserved.
HeldIsReserved ==
    \A w \in Workers :
       \/ work[w] = Idle
       \/ /\ work[w].at # "idle"
          /\ work[w].capsule \in Capsules
          /\ consumed[work[w].capsule]

\* What is journaled has been reserved.
JournaledIsReserved == \A c \in journal : consumed[c]

\* The answer a worker takes to finish is still true when it gets there.
AnswersStayTrue ==
    \A w \in Workers : work[w].at = "finish" =>
       /\ work[w].answer = "confirmed" => work[w].capsule \in journal
       /\ work[w].answer = "rejected" =>
             work[w].capsule \notin journal /\ ~Dispatching(work[w].capsule)

\* The target has moved past the version a journaled mutation was built on.
BasesAreSuperseded ==
    \A c \in journal : Mutates(c) => base[c] < version[TargetOf[c]]

\* Who may touch the target, and who has.
ReservationInv ==
    HeldIsReserved /\ RecordsAgree /\ JournaledIsReserved /\ SingleDispatch

\* What is known, and recorded, about it.
OutcomeInv == AnswersStayTrue /\ VerifiedIsJournaled /\ FailedNeverHappens

VersionInv == BasesAreSuperseded /\ NoLostUpdate

LineageInv == PolicyLineage /\ VerifiedPolicyIsActive

GateInv == TypeOK /\ ReservationInv /\ OutcomeInv /\ VersionInv /\ LineageInv
-----------------------------------------------------------------------------
\* The gate starts in its domain.
LEMMA TypeInit == Init => TypeOK
BY GateAssumptions
   DEF Init, TypeOK, Statuses, Dispatched, Work, Places, Answers, Idle

\* No step of the gate leaves a variable's domain.
LEMMA TypeStep == TypeOK /\ [Next]_vars => TypeOK'
<1> USE GateAssumptions
<1> SUFFICES ASSUME TypeOK, [Next]_vars PROVE TypeOK'
  OBVIOUS
<1> USE DEF TypeOK, Statuses, Dispatched, fabricDb, targetDb, bounds
<1>1. ASSUME NEW c \in Capsules, Propose(c) PROVE TypeOK'
  BY <1>1 DEF Propose
<1>2. ASSUME NEW c \in Capsules, Certify(c) PROVE TypeOK'
  BY <1>2 DEF Certify
<1>3. ASSUME NEW c \in Capsules, Cancel(c) PROVE TypeOK'
  BY <1>3 DEF Cancel
<1>4. ASSUME NEW c \in Capsules, LosePromotion(c) PROVE TypeOK'
  BY <1>4 DEF LosePromotion
<1>5. ASSUME NEW r \in Resources, Seed(r) PROVE TypeOK'
  BY <1>5 DEF Seed
<1>6. ASSUME NEW w \in Workers, NEW c \in Capsules, Reserve(w, c) PROVE TypeOK'
  BY <1>6 DEF Reserve, Work, Places, Answers
<1>7. ASSUME NEW w \in Workers, NEW c \in Capsules, ReconcileStart(w, c)
      PROVE TypeOK'
  BY <1>7 DEF ReconcileStart, Work, Places, Answers
<1>8. ASSUME NEW w \in Workers, NEW c \in Capsules, NEW a \in Answers,
             TargetApply(w, c, a)
      PROVE TypeOK'
  BY <1>8 DEF TargetApply, Return, Work, Places, Answers
<1>9. ASSUME NEW w \in Workers, NEW c \in Capsules, TargetReject(w, c)
      PROVE TypeOK'
  BY <1>9 DEF TargetReject, Return, Work, Places, Answers
<1>10. ASSUME NEW w \in Workers, NEW c \in Capsules, TargetFail(w, c)
       PROVE TypeOK'
  BY <1>10 DEF TargetFail, Return, Work, Places, Answers
<1>11. ASSUME NEW w \in Workers, NEW c \in Capsules, ReconcileProbe(w, c)
       PROVE TypeOK'
  BY <1>11 DEF ReconcileProbe, Return, Work, Places, Answers
<1>12. ASSUME NEW w \in Workers, NEW c \in Capsules, Finish(w, c)
       PROVE TypeOK'
  BY <1>12 DEF Finish, Report, Activates, Work, Places, Answers, Idle
<1>13. ASSUME NEW w \in Workers, NEW c \in Capsules, FinishRefused(w, c)
       PROVE TypeOK'
  BY <1>13 DEF FinishRefused, Work, Places, Answers, Idle
<1>14. ASSUME NEW w \in Workers, Crash(w) PROVE TypeOK'
  BY <1>14 DEF Crash, Work, Places, Answers, Idle
<1>15. CASE UNCHANGED vars
  BY <1>15 DEF vars
<1> QED
  BY <1>1, <1>2, <1>3, <1>4, <1>5, <1>6, <1>7, <1>8, <1>9, <1>10, <1>11,
     <1>12, <1>13, <1>14, <1>15 DEF Next, Continue

\* Every variable keeps its type: no transaction of execute, finish, reconcile
\* or cancel writes a status, answer or version outside its domain.
THEOREM TypeCorrect == Spec => []TypeOK
BY TypeInit, TypeStep, PTL DEF Spec
-----------------------------------------------------------------------------
\* What the steps below see of the types.
LEMMA WorkIsTyped ==
    ASSUME TypeOK
    PROVE  /\ status \in [Capsules -> Statuses]
           /\ consumed \in [Capsules -> BOOLEAN]
           /\ work \in [Workers -> Work]
BY DEF TypeOK

\* Only a reservation puts an action into a worker's hands, and it marks both
\* records; every later step of that worker stays with the same capsule.
LEMMA ReservationStep ==
    ASSUME TypeOK, ReservationInv, [Next]_vars PROVE ReservationInv'
<1> USE WorkIsTyped
    DEF ReservationInv, HeldIsReserved, RecordsAgree, JournaledIsReserved,
        SingleDispatch, Holds, Work, Places, Answers, Idle, Statuses,
        Dispatched, fabricDb, targetDb, bounds
<1>1. ASSUME NEW c \in Capsules, Propose(c)
      PROVE ReservationInv'
  BY <1>1 DEF Propose
<1>2. ASSUME NEW c \in Capsules, Certify(c)
      PROVE ReservationInv'
  BY <1>2 DEF Certify
<1>3. ASSUME NEW c \in Capsules, Cancel(c)
      PROVE ReservationInv'
  BY <1>3 DEF Cancel
<1>4. ASSUME NEW c \in Capsules, LosePromotion(c)
      PROVE ReservationInv'
  BY <1>4 DEF LosePromotion
<1>5. ASSUME NEW r \in Resources, Seed(r)
      PROVE ReservationInv'
  BY <1>5 DEF Seed
<1>6. ASSUME NEW w \in Workers, NEW c \in Capsules, Reserve(w, c)
      PROVE ReservationInv'
  BY <1>6 DEF Reserve, Executable
<1>7. ASSUME NEW w \in Workers, NEW c \in Capsules, ReconcileStart(w, c)
      PROVE ReservationInv'
  BY <1>7 DEF ReconcileStart
<1>8. ASSUME NEW w \in Workers, NEW c \in Capsules, NEW a \in Answers, TargetApply(w, c, a)
      PROVE ReservationInv'
  BY <1>8 DEF TargetApply, Return
<1>9. ASSUME NEW w \in Workers, NEW c \in Capsules, TargetReject(w, c)
      PROVE ReservationInv'
  BY <1>9 DEF TargetReject, Return
<1>10. ASSUME NEW w \in Workers, NEW c \in Capsules, TargetFail(w, c)
      PROVE ReservationInv'
  BY <1>10 DEF TargetFail, Return
<1>11. ASSUME NEW w \in Workers, NEW c \in Capsules, ReconcileProbe(w, c)
      PROVE ReservationInv'
  BY <1>11 DEF ReconcileProbe, Return
<1>12. ASSUME NEW w \in Workers, NEW c \in Capsules, Finish(w, c)
      PROVE ReservationInv'
  BY <1>12 DEF Finish, Report
<1>13. ASSUME NEW w \in Workers, NEW c \in Capsules, FinishRefused(w, c)
      PROVE ReservationInv'
  BY <1>13 DEF FinishRefused
<1>14. ASSUME NEW w \in Workers, Crash(w)
      PROVE ReservationInv'
  BY <1>14 DEF Crash
<1>15. CASE UNCHANGED vars
  BY <1>15 DEF vars
<1> QED
  BY <1>1, <1>2, <1>3, <1>4, <1>5, <1>6, <1>7, <1>8, <1>9, <1>10, <1>11,
     <1>12, <1>13, <1>14, <1>15 DEF Next, Continue

\* An answer stays true because the only worker that could falsify it is the
\* one that brought it back.
LEMMA OutcomeStep ==
    ASSUME TypeOK, ReservationInv, OutcomeInv, [Next]_vars PROVE OutcomeInv'
<1> USE WorkIsTyped
    DEF ReservationInv, HeldIsReserved, RecordsAgree, SingleDispatch,
        OutcomeInv, AnswersStayTrue, VerifiedIsJournaled, FailedNeverHappens,
        Dispatching, Holds, Work, Places, Answers, Idle, Statuses, Dispatched,
        fabricDb, targetDb, bounds
<1>1. ASSUME NEW c \in Capsules, Propose(c)
      PROVE OutcomeInv'
  BY <1>1 DEF Propose
<1>2. ASSUME NEW c \in Capsules, Certify(c)
      PROVE OutcomeInv'
  BY <1>2 DEF Certify
<1>3. ASSUME NEW c \in Capsules, Cancel(c)
      PROVE OutcomeInv'
  BY <1>3 DEF Cancel
<1>4. ASSUME NEW c \in Capsules, LosePromotion(c)
      PROVE OutcomeInv'
  BY <1>4 DEF LosePromotion
<1>5. ASSUME NEW r \in Resources, Seed(r)
      PROVE OutcomeInv'
  BY <1>5 DEF Seed
<1>6. ASSUME NEW w \in Workers, NEW c \in Capsules, Reserve(w, c)
      PROVE OutcomeInv'
  BY <1>6 DEF Reserve, Executable
<1>7. ASSUME NEW w \in Workers, NEW c \in Capsules, ReconcileStart(w, c)
      PROVE OutcomeInv'
  BY <1>7 DEF ReconcileStart
<1>8. ASSUME NEW w \in Workers, NEW c \in Capsules, NEW a \in Answers, TargetApply(w, c, a)
      PROVE OutcomeInv'
  BY <1>8 DEF TargetApply, Return
<1>9. ASSUME NEW w \in Workers, NEW c \in Capsules, TargetReject(w, c)
      PROVE OutcomeInv'
  BY <1>9 DEF TargetReject, Return
<1>10. ASSUME NEW w \in Workers, NEW c \in Capsules, TargetFail(w, c)
      PROVE OutcomeInv'
  BY <1>10 DEF TargetFail, Return
<1>11. ASSUME NEW w \in Workers, NEW c \in Capsules, ReconcileProbe(w, c)
      PROVE OutcomeInv'
  BY <1>11 DEF ReconcileProbe, Return
<1>12. ASSUME NEW w \in Workers, NEW c \in Capsules, Finish(w, c)
      PROVE OutcomeInv'
  BY <1>12 DEF Finish, Report
<1>13. ASSUME NEW w \in Workers, NEW c \in Capsules, FinishRefused(w, c)
      PROVE OutcomeInv'
  BY <1>13 DEF FinishRefused
<1>14. ASSUME NEW w \in Workers, Crash(w)
      PROVE OutcomeInv'
  BY <1>14 DEF Crash
<1>15. CASE UNCHANGED vars
  BY <1>15 DEF vars
<1> QED
  BY <1>1, <1>2, <1>3, <1>4, <1>5, <1>6, <1>7, <1>8, <1>9, <1>10, <1>11,
     <1>12, <1>13, <1>14, <1>15 DEF Next, Continue

\* Only the target's own transaction adds to the journal, and its
\* compare-and-set makes the version it supersedes unavailable to any other.
LEMMA VersionStep ==
    ASSUME TypeOK, ReservationInv, VersionInv, [Next]_vars PROVE VersionInv'
<1> USE GateAssumptions
    DEF TypeOK, ReservationInv, RecordsAgree, JournaledIsReserved, VersionInv,
        BasesAreSuperseded, NoLostUpdate, Mutates, Dispatched, fabricDb,
        targetDb, bounds
<1>1. ASSUME NEW c \in Capsules, Propose(c) PROVE VersionInv'
  <2>1. c \notin journal
    BY <1>1 DEF Propose
  <2> QED
    BY <2>1, <1>1 DEF Propose
<1>2. ASSUME NEW r \in Resources, Seed(r) PROVE VersionInv'
  BY <1>2 DEF Seed
<1>3. ASSUME NEW w \in Workers, NEW c \in Capsules, NEW a \in Answers,
             TargetApply(w, c, a)
      PROVE  VersionInv'
  BY <1>3 DEF TargetApply
<1>4. CASE UNCHANGED <<base, version, journal>>
  BY <1>4
<1> QED
  BY <1>1, <1>2, <1>3, <1>4
     DEF Next, Continue, Certify, Cancel, LosePromotion, Reserve,
         ReconcileStart, TargetReject, TargetFail, ReconcileProbe, Finish,
         FinishRefused, Crash, vars

\* The activation adds the one version that follows the active policy, under
\* which the activated change was drawn up.
LEMMA LineageStep ==
    ASSUME TypeOK, ReservationInv, OutcomeInv, LineageInv, [Next]_vars
    PROVE  LineageInv'
<1> USE GateAssumptions
    DEF TypeOK, ReservationInv, RecordsAgree, JournaledIsReserved, LineageInv,
        PolicyLineage, VerifiedPolicyIsActive, Statuses, Dispatched, fabricDb,
        targetDb, bounds
<1>1. ASSUME NEW c \in Capsules, Propose(c) PROVE LineageInv'
  <2>1. c \notin journal
    BY <1>1 DEF Propose
  <2> QED
    BY <2>1, <1>1 DEF Propose
<1>2. ASSUME NEW w \in Workers, NEW c \in Capsules, Finish(w, c),
             Activates(c, work[w].answer)
      PROVE  LineageInv'
  <2> DEFINE new == [version |-> policy + 1, source |-> c]
  <2>1. /\ history' = history \cup {new}
        /\ policy' = policy + 1
        /\ under' = under /\ journal' = journal
        /\ status' = [status EXCEPT ![c] = "VERIFIED"]
    BY <1>2 DEF Finish, Report, Activates
  <2>2. c \in PolicyChanges /\ c \in journal /\ under[c] = policy
    BY <1>2 DEF Finish, Activates, Activatable, OutcomeInv, AnswersStayTrue, Holds
  <2>3. policy \in Nat /\ policy >= 1
    OBVIOUS
  <2>4. {h.version : h \in history'} = 2..policy'
    <3>1. {h.version : h \in history'} = {h.version : h \in history} \cup {policy + 1}
      <4>1. new.version = policy + 1
        OBVIOUS
      <4>2. history' = history \cup {new}
        BY <2>1
      <4> HIDE DEF new
      <4> QED
        BY <4>1, <4>2
    <3>2. 2..(policy + 1) = (2..policy) \cup {policy + 1}
      BY <2>3
    <3> QED
      BY <2>1, <3>1, <3>2
  <2>5. \A h \in history : h.version # policy + 1 /\ h.source # c
    BY <2>2, <2>3
  <2>6. \A g, h \in history' : g.version = h.version \/ g.source = h.source => g = h
    BY <2>1, <2>5
  <2>7. \A h \in history' : h.source \in journal' /\ h.version = under'[h.source] + 1
    BY <2>1, <2>2
  <2>8. VerifiedPolicyIsActive'
    <3> SUFFICES ASSUME NEW d \in PolicyChanges, status'[d] = "VERIFIED"
                 PROVE  \E h \in history' : h.source = d
      OBVIOUS
    <3>1. CASE d = c
      <4>1. new \in history' /\ new.source = d
        BY <2>1, <3>1
      <4> QED
        BY <4>1
    <3>2. CASE d # c
      BY <2>1, <3>2
    <3> QED
      BY <3>1, <3>2
  <2> QED
    BY <2>4, <2>6, <2>7, <2>8
<1>3. ASSUME NEW w \in Workers, NEW c \in Capsules, Finish(w, c),
             ~Activates(c, work[w].answer)
      PROVE  LineageInv'
  BY <1>3 DEF Finish, Report, Activates
<1>4. ASSUME NEW w \in Workers, NEW c \in Capsules, NEW a \in Answers,
             TargetApply(w, c, a)
      PROVE  LineageInv'
  BY <1>4 DEF TargetApply
<1>5. ASSUME UNCHANGED <<under, policy, history, journal>>,
             \A c \in Capsules : status'[c] = "VERIFIED" => status[c] = "VERIFIED"
      PROVE  LineageInv'
  BY <1>5
<1>6. ASSUME NEW c \in Capsules, Certify(c) \/ Cancel(c) PROVE LineageInv'
  BY <1>5, <1>6 DEF Certify, Cancel
<1>7. ASSUME NEW w \in Workers, NEW c \in Capsules, Reserve(w, c) PROVE LineageInv'
  BY <1>5, <1>7 DEF Reserve
<1>8. CASE UNCHANGED <<under, policy, history, journal, status>>
  BY <1>5, <1>8
<1> QED
  BY <1>1, <1>2, <1>3, <1>4, <1>6, <1>7, <1>8
     DEF Next, Continue, LosePromotion, Seed, ReconcileStart, TargetReject,
         TargetFail, ReconcileProbe, FinishRefused, Crash, vars
-----------------------------------------------------------------------------
\* The empty gate satisfies the invariant.
LEMMA GateInit == Init => GateInv
<1> SUFFICES ASSUME Init PROVE GateInv
  OBVIOUS
<1>1. TypeOK
  BY TypeInit
<1>2. ReservationInv /\ OutcomeInv /\ VersionInv
  BY DEF Init, ReservationInv, HeldIsReserved, RecordsAgree,
         JournaledIsReserved, SingleDispatch, Holds, OutcomeInv,
         AnswersStayTrue, VerifiedIsJournaled, FailedNeverHappens, VersionInv,
         BasesAreSuperseded, NoLostUpdate, Idle, Dispatched
<1>3. LineageInv
  <2>1. {h.version : h \in history} = {} /\ 2..policy = {}
    BY DEF Init
  <2> QED
    BY <2>1, GateAssumptions
       DEF Init, LineageInv, PolicyLineage, VerifiedPolicyIsActive
<1> QED
  BY <1>1, <1>2, <1>3 DEF GateInv

\* The inductive invariant of the commit gate.
THEOREM GateInvariant == Spec => []GateInv
<1>1. GateInv /\ [Next]_vars => GateInv'
  BY TypeStep, ReservationStep, OutcomeStep, VersionStep, LineageStep DEF GateInv
<1> QED
  BY <1>1, GateInit, PTL DEF Spec

\* Nothing reaches the target without a durable reservation, and at most one
\* worker ever carries it there (execute commits the reservation first).
THEOREM SingleUse == Spec => [](MutationNeedsReservation /\ SingleDispatch)
<1>1. GateInv => MutationNeedsReservation /\ SingleDispatch
  BY DEF GateInv, TypeOK, ReservationInv, HeldIsReserved, RecordsAgree,
         JournaledIsReserved, MutationNeedsReservation, Dispatching, Holds, Idle
<1> QED
  BY <1>1, GateInvariant, PTL

\* The capsule and its certificate never disagree on whether the certificate is
\* consumed: no step, cancellation included, marks the one and not the other.
THEOREM RecordsInStep == Spec => []RecordsAgree
<1>1. GateInv => RecordsAgree
  BY DEF GateInv, ReservationInv
<1> QED
  BY <1>1, GateInvariant, PTL

\* What the gate reports is what the target's journal holds (finish, reconcile).
THEOREM TruthfulOutcomes == Spec => [](VerifiedIsJournaled /\ FailedNeverHappens)
<1>1. GateInv => VerifiedIsJournaled /\ FailedNeverHappens
  BY DEF GateInv, OutcomeInv
<1> QED
  BY <1>1, GateInvariant, PTL

\* No two mutations build on one version of a resource (the target's
\* compare-and-set, whatever the reservations of other workers saw).
THEOREM LostUpdateFree == Spec => []NoLostUpdate
<1>1. GateInv => NoLostUpdate
  BY DEF GateInv, VersionInv
<1> QED
  BY <1>1, GateInvariant, PTL

\* Policy versions form one unbroken line, each with one journaled source
\* (the activation branch of finish).
THEOREM SinglePolicyLine == Spec => []PolicyLineage
<1>1. GateInv => PolicyLineage
  BY DEF GateInv, LineageInv
<1> QED
  BY <1>1, GateInvariant, PTL

\* A policy change reported VERIFIED has been activated, by whichever worker
\* recorded it (finish).
THEOREM VerifiedChangeActivated == Spec => []VerifiedPolicyIsActive
<1>1. GateInv => VerifiedPolicyIsActive
  BY DEF GateInv, LineageInv
<1> QED
  BY <1>1, GateInvariant, PTL

\* A success is never rewritten into a failure, nor a failure into a success,
\* although finish overwrites whatever is recorded.
THEOREM NoContradiction == Spec => OutcomesNeverContradict
<1> DEFINE Consistent ==
      \A c \in Capsules :
         /\ status[c] = "VERIFIED" => status'[c] # "FAILED"
         /\ status[c] = "FAILED" => status'[c] # "VERIFIED"
<1>1. GateInv /\ GateInv' /\ [Next]_vars => Consistent
  <2> SUFFICES ASSUME GateInv, GateInv', [Next]_vars, NEW c \in Capsules
               PROVE  /\ status[c] = "VERIFIED" => status'[c] # "FAILED"
                      /\ status[c] = "FAILED" => status'[c] # "VERIFIED"
    OBVIOUS
  <2>1. journal \subseteq journal'
    BY DEF Next, Continue, vars, targetDb, Propose, Certify, Cancel,
           LosePromotion, Seed, Reserve, ReconcileStart, TargetApply,
           TargetReject, TargetFail, ReconcileProbe, Finish, FinishRefused, Crash
  <2>2. status[c] = "VERIFIED" => status'[c] # "FAILED"
    BY <2>1 DEF GateInv, OutcomeInv, VerifiedIsJournaled, FailedNeverHappens
  <2>3. ASSUME status[c] = "FAILED", status'[c] = "VERIFIED" PROVE FALSE
    <3>1. c \notin journal /\ c \in journal' /\ ~Dispatching(c)
      BY <2>3 DEF GateInv, OutcomeInv, VerifiedIsJournaled, FailedNeverHappens
    <3>2. PICK w \in Workers, d \in Capsules, a \in Answers : TargetApply(w, d, a)
      BY <3>1 DEF Next, Continue, vars, targetDb, Propose, Certify, Cancel,
           LosePromotion, Seed, Reserve, ReconcileStart, TargetReject,
           TargetFail, ReconcileProbe, Finish, FinishRefused, Crash
    <3> QED
      BY <3>1, <3>2 DEF TargetApply, Dispatching
  <2> QED
    BY <2>2, <2>3
<1> QED
  BY <1>1, GateInvariant, PTL DEF Spec, OutcomesNeverContradict

-----------------------------------------------------------------------------
(* The gate implements OneShotAction.                                      *)

\* A step that moves one capsule's phase along is an abstract Advance.
LEMMA MovesAdvance ==
    ASSUME NEW c \in Capsules, <<Phase(c), Phase(c)'>> \in Shot!Moves,
           \A d \in Capsules \ {c} : Phase(d)' = Phase(d),
           \A d \in Capsules : Recorded(d)' = Recorded(d)
    PROVE  Shot!ShotNext
<1>1. Phase(c)' \in Shot!Phases
  BY DEF Phase, Shot!Phases
<1>2. Shot!Advance(c, Phase(c)')
  BY DEF Shot!Advance
<1> QED
  BY <1>1, <1>2 DEF Shot!ShotNext

\* A step that records a truthful outcome is an abstract Tell.
LEMMA OutcomesTell ==
    ASSUME NEW c \in Capsules, NEW r \in Outcomes, Recorded(c)' = r,
           \/ r = "UNCERTAIN" /\ Phase(c) \in {"reserved", "applied", "spent"}
           \/ r = "VERIFIED" /\ Phase(c) = "applied"
           \/ r = "FAILED" /\ Phase(c) = "spent",
           \A d \in Capsules \ {c} : Recorded(d)' = Recorded(d),
           \A d \in Capsules : Phase(d)' = Phase(d)
    PROVE  Shot!ShotNext
<1>1. r \in Shot!Reports
  BY DEF Outcomes, Shot!Reports
<1>2. Shot!Tell(c, r)
  BY DEF Shot!Tell, Shot!Truthful
<1> QED
  BY <1>1, <1>2 DEF Shot!ShotNext

\* Every step of the gate is an abstract step or invisible.
LEMMA ShotStep ==
    ASSUME GateInv, [Next]_vars PROVE [Shot!ShotNext]_(Shot!shotVars)
<1> DEFINE Still(c) == Phase(c)' = Phase(c) /\ Recorded(c)' = Recorded(c)
<1>0. (\A c \in Capsules : Still(c)) => UNCHANGED Shot!shotVars
  BY DEF Shot!shotVars
<1> USE GateAssumptions
    DEF GateInv, TypeOK, ReservationInv, HeldIsReserved, RecordsAgree,
        JournaledIsReserved, SingleDispatch, Phase, Recorded, Dispatching,
        Holds, Work, Places, Answers, Idle, Statuses, Dispatched, Outcomes,
        fabricDb, targetDb, bounds
<1>1. ASSUME NEW c \in Capsules, Propose(c) \/ Certify(c)
      PROVE  \A d \in Capsules : Still(d)
  BY <1>1 DEF Propose, Certify
<1>2. ASSUME NEW c \in Capsules, Cancel(c) PROVE Shot!ShotNext
  <2>1. <<Phase(c), Phase(c)'>> \in Shot!Moves
    BY <1>2 DEF Cancel, Shot!Moves
  <2>2. \A d \in Capsules \ {c} : Phase(d)' = Phase(d)
    BY <1>2 DEF Cancel
  <2>3. \A d \in Capsules : Recorded(d)' = Recorded(d)
    BY <1>2 DEF Cancel
  <2> QED
    BY <2>1, <2>2, <2>3, MovesAdvance
<1>3. ASSUME NEW w \in Workers, NEW c \in Capsules, Reserve(w, c)
      PROVE  Shot!ShotNext
  <2>1. <<Phase(c), Phase(c)'>> \in Shot!Moves
    BY <1>3 DEF Reserve, Executable, Shot!Moves
  <2>2. \A d \in Capsules \ {c} : Phase(d)' = Phase(d)
    BY <1>3 DEF Reserve, Executable
  <2>3. \A d \in Capsules : Recorded(d)' = Recorded(d)
    BY <1>3 DEF Reserve, Executable
  <2> QED
    BY <2>1, <2>2, <2>3, MovesAdvance
<1>4. ASSUME NEW w \in Workers, NEW c \in Capsules, NEW a \in Answers,
             TargetApply(w, c, a)
      PROVE  Shot!ShotNext
  <2>1. <<Phase(c), Phase(c)'>> \in Shot!Moves
    BY <1>4 DEF TargetApply, Return, Shot!Moves
  <2>2. \A d \in Capsules \ {c} : Phase(d)' = Phase(d)
    BY <1>4 DEF TargetApply, Return
  <2>3. \A d \in Capsules : Recorded(d)' = Recorded(d)
    BY <1>4 DEF TargetApply, Return
  <2> QED
    BY <2>1, <2>2, <2>3, MovesAdvance
<1>5. ASSUME NEW w \in Workers, NEW c \in Capsules,
             TargetReject(w, c) \/ TargetFail(w, c)
      PROVE  Shot!ShotNext
  <2>1. <<Phase(c), Phase(c)'>> \in Shot!Moves
    BY <1>5 DEF TargetReject, TargetFail, Return, Shot!Moves
  <2>2. \A d \in Capsules \ {c} : Phase(d)' = Phase(d)
    BY <1>5 DEF TargetReject, TargetFail, Return
  <2>3. \A d \in Capsules : Recorded(d)' = Recorded(d)
    BY <1>5 DEF TargetReject, TargetFail, Return
  <2> QED
    BY <2>1, <2>2, <2>3, MovesAdvance
<1>6. ASSUME NEW w \in Workers, NEW c \in Capsules, Finish(w, c)
      PROVE  Shot!ShotNext
  <2> DEFINE r == Report(work[w].answer)
  <2>1. r \in Outcomes /\ Recorded(c)' = r
    BY <1>6 DEF Finish, Report
  <2>2. \/ r = "UNCERTAIN" /\ Phase(c) \in {"reserved", "applied", "spent"}
        \/ r = "VERIFIED" /\ Phase(c) = "applied"
        \/ r = "FAILED" /\ Phase(c) = "spent"
    BY <1>6 DEF Finish, Report, OutcomeInv, AnswersStayTrue
  <2>3. \A d \in Capsules \ {c} : Recorded(d)' = Recorded(d)
    BY <1>6 DEF Finish
  <2>4. \A d \in Capsules : Phase(d)' = Phase(d)
    BY <1>6 DEF Finish, Report
  <2> HIDE DEF r
  <2> QED
    BY <2>1, <2>2, <2>3, <2>4, OutcomesTell
<1>7. ASSUME NEW w \in Workers, NEW c \in Capsules,
             \/ ReconcileStart(w, c)
             \/ ReconcileProbe(w, c)
             \/ FinishRefused(w, c)
      PROVE  \A d \in Capsules : Still(d)
  <2>1. CASE ReconcileStart(w, c)
    BY <2>1 DEF ReconcileStart
  <2>2. CASE ReconcileProbe(w, c)
    BY <2>2 DEF ReconcileProbe, Return
  <2>3. CASE FinishRefused(w, c)
    BY <2>3 DEF FinishRefused
  <2> QED
    BY <1>7, <2>1, <2>2, <2>3
<1>8. ASSUME NEW w \in Workers, Crash(w)
      PROVE  Shot!ShotNext \/ \A d \in Capsules : Still(d)
  <2>1. ASSUME NEW c \in Capsules, Holds(w, "dispatch", c)
        PROVE  Shot!ShotNext
    <3>1. <<Phase(c), Phase(c)'>> \in Shot!Moves
      BY <1>8, <2>1 DEF Crash, Shot!Moves
    <3>2. \A d \in Capsules \ {c} : Phase(d)' = Phase(d)
      BY <1>8, <2>1 DEF Crash
    <3>3. \A d \in Capsules : Recorded(d)' = Recorded(d)
      BY <1>8 DEF Crash
    <3> QED
      BY <3>1, <3>2, <3>3, MovesAdvance
  <2>2. CASE work[w].at # "dispatch"
    BY <1>8, <2>2 DEF Crash
  <2>3. work[w].at = "dispatch" => work[w].capsule \in Capsules
    OBVIOUS
  <2> QED
    BY <2>1, <2>2, <2>3
<1>9. ASSUME UNCHANGED <<status, consumed, journal, work>>
      PROVE  \A d \in Capsules : Still(d)
  BY <1>9
<1> HIDE DEF Still
<1> QED
  BY <1>0, <1>1, <1>2, <1>3, <1>4, <1>5, <1>6, <1>7, <1>8, <1>9
     DEF Next, Continue, LosePromotion, Seed, vars

\* Seen from outside, workers, crashes and reconciliations together are one
\* shot per action and truthful reports about it.
THEOREM Implementation == Spec => ImplementsOneShot
<1>1. Init => Shot!ShotInit
  BY DEF Init, Shot!ShotInit, Phase, Recorded, Dispatching, Holds, Idle, Outcomes
<1>2. GateInv /\ [Next]_vars => [Shot!ShotNext]_(Shot!shotVars)
  BY ShotStep
<1> QED
  BY <1>1, <1>2, GateInvariant, PTL DEF Spec, ImplementsOneShot, Shot!ShotSpec
=============================================================================
