------------------------ MODULE RuntimeConfigProofs -------------------------
(***************************************************************************)
(* Proofs about RuntimeConfig, for every number of workers and every set   *)
(* of signed configurations, with or without a file.                       *)
(***************************************************************************)
EXTENDS RuntimeConfig, TLAPS

\* What a worker in the middle of a check or reload holds is not older than
\* what it has accepted.
Ahead(p) ==
    /\ p.at \in {"compare", "remember"} /\ p.acc # None => p.prior = p.acc
    /\ p.at = "remember" =>
          /\ p.snap \in Snapshots
          /\ p.prior \in {None, p.snap} \/ VersionOf[p.snap] > VersionOf[p.prior]
    /\ p.at \in {"write", "install"} => p.new # None
    /\ p.at \in {"write", "install"} /\ p.acc # None =>
          VersionOf[p.new] > VersionOf[p.acc]

ConfigInv ==
    /\ TypeOK
    /\ \A w \in Workers : Ahead(proc[w])

\* What a step does to the memory of a worker that goes on running.
Onwards(p, q) ==
    p.acc # None /\ q.acc # None /\ p.acc # q.acc
    => VersionOf[p.acc] < VersionOf[q.acc]

LEMMA DownFits == Down \in Proc /\ Ahead(Down) /\ Down.acc = None
PROOF
<1>1. Down \in Proc
  BY ConfigAssumptions DEF Down, Proc, Places
<1> QED
  BY <1>1 DEF Down, Ahead

LEMMA InitConfigInv == Init => ConfigInv
PROOF
<1> SUFFICES ASSUME Init PROVE ConfigInv
  OBVIOUS
<1>1. TypeOK
  BY DownFits, ConfigAssumptions DEF Init, TypeOK, State
<1>2. \A w \in Workers : Ahead(proc[w])
  BY DownFits DEF Init
<1> QED
  BY <1>1, <1>2 DEF ConfigInv
-----------------------------------------------------------------------------
\* The end of a request forgets its locals.
LEMMA EndFits ==
    ASSUME NEW p \in Proc
    PROVE  /\ Served(p) \in Proc /\ Ahead(Served(p)) /\ Served(p).acc = p.acc
           /\ Refused(p) \in Proc /\ Ahead(Refused(p)) /\ Onwards(p, Refused(p))
PROOF
<1>1. /\ Served(p) \in Proc /\ Served(p).at = "idle" /\ Served(p).acc = p.acc
  BY DEF Served, Proc, Places
<1>2. CASE p.boot
  BY <1>1, <1>2, DownFits DEF Refused, Onwards, Ahead
<1>3. CASE ~p.boot
  <2>1. /\ Refused(p) \in Proc /\ Refused(p).at = "idle" /\ Refused(p).acc = p.acc
    BY <1>3 DEF Refused, Proc, Places
  <2> QED
    BY <1>1, <2>1 DEF Onwards, Ahead
<1> QED
  BY <1>2, <1>3

\* The last part of the check, from a state whose prior is what was accepted.
LEMMA DecidedFits ==
    ASSUME NEW p \in Proc, p.acc # None => p.prior = p.acc, NEW same
    PROVE  /\ Decided(p, same) \in Proc /\ Ahead(Decided(p, same))
           /\ Decided(p, same).acc = p.acc
PROOF
<1>1. CASE Verdict(p, same) = "idle"
  BY <1>1, EndFits DEF Decided
<1>2. CASE Verdict(p, same) # "idle"
  <2> DEFINE q == [p EXCEPT !.at = Verdict(p, same)]
  <2>1. Verdict(p, same) \in {"withdraw", "remember"}
    BY <1>2 DEF Verdict
  <2>2. Verdict(p, same) = "remember" =>
           /\ p.snap \in Snapshots
           /\ p.prior \in {None, p.snap} \/ VersionOf[p.snap] > VersionOf[p.prior]
    BY DEF Verdict, Verifies
  <2>3. /\ q \in Proc /\ q.at = Verdict(p, same) /\ q.acc = p.acc /\ q.prior = p.prior
        /\ q.snap = p.snap
    BY <2>1 DEF Proc, Places
  <2>4. Decided(p, same) = q
    BY <1>2 DEF Decided
  <2> HIDE DEF q
  <2>5. Ahead(q)
    BY <2>1, <2>2, <2>3 DEF Ahead
  <2> QED
    BY <2>3, <2>4, <2>5
<1> QED
  BY <1>1, <1>2

\* A step of one worker keeps the invariant when its memory and the record
\* of the database remain what they may be.
LEMMA WorkerStep ==
    ASSUME ConfigInv, NEW w \in Workers, NEW q \in Proc, Ahead(q), Move(w, q),
           disk' \in Snapshots \cup {Unsigned, Broken},
           UNCHANGED <<revoked, expired, events>>, starts' \in 0..MaxStarts,
           \/ state' = state
           \/ \E s \in Snapshots : state' = Accepted(s)
           \/ \E n \in Nat : state' = Withdrawal(n)
    PROVE  ConfigInv'
PROOF
<1> DEFINE Fits(r) == /\ r \in State
                      /\ r.status = "ACCEPTED" <=> r.snap # None
                      /\ r.status = "ACCEPTED" => r.floor = VersionOf[r.snap]
<1>1. Fits(state')
  <2>1. CASE state' = state
    BY <2>1 DEF ConfigInv, TypeOK
  <2>2. \A s \in Snapshots : Fits(Accepted(s))
    BY ConfigAssumptions DEF Accepted, State
  <2>3. \A n \in Nat : Fits(Withdrawal(n))
    BY DEF Withdrawal, State
  <2> HIDE DEF Fits
  <2> QED
    BY <2>1, <2>2, <2>3
<1>2. \A v \in Workers : proc'[v] = IF v = w THEN q ELSE proc[v]
  BY DEF ConfigInv, TypeOK, Move
<1>3. proc' \in [Workers -> Proc]
  BY DEF ConfigInv, TypeOK, Move
<1>4. \A v \in Workers : Ahead(proc[v])'
  BY <1>2 DEF ConfigInv, Ahead
<1> QED
  BY <1>1, <1>3, <1>4 DEF ConfigInv, TypeOK

\* The same, with what the worker may never do added.
StepsOn(w) ==
    /\ ConfigInv'
    /\ Onwards(proc[w], proc'[w])
    /\ \A v \in Workers \ {w} : proc'[v] = proc[v]

LEMMA WorkerStepsOn ==
    ASSUME ConfigInv, NEW w \in Workers, NEW q \in Proc, Ahead(q), Move(w, q),
           Onwards(proc[w], q),
           disk' \in Snapshots \cup {Unsigned, Broken},
           UNCHANGED <<revoked, expired, events>>, starts' \in 0..MaxStarts,
           \/ state' = state
           \/ \E s \in Snapshots : state' = Accepted(s)
           \/ \E n \in Nat : state' = Withdrawal(n)
    PROVE  StepsOn(w)
PROOF
<1>1. \A v \in Workers : proc'[v] = IF v = w THEN q ELSE proc[v]
  BY DEF ConfigInv, TypeOK, Move
<1>2. ConfigInv'
  BY WorkerStep
<1> QED
  BY <1>1, <1>2 DEF StepsOn

LEMMA ProcFacts ==
    ASSUME ConfigInv, NEW w \in Workers
    PROVE  /\ proc[w] \in Proc /\ Ahead(proc[w])
           /\ disk \in Snapshots \cup {Unsigned, Broken}
           /\ starts \in 0..MaxStarts
           /\ state.floor \in Nat
           /\ state.status = "ACCEPTED" => state.snap \in Snapshots
PROOF
  BY DEF ConfigInv, TypeOK, State

LEMMA StartOn == ASSUME ConfigInv, NEW w \in Workers, Start(w) PROVE StepsOn(w)
PROOF
<1> DEFINE q == [Down EXCEPT !.at = "check", !.boot = TRUE, !.snap = disk]
<1>1. /\ Move(w, q) /\ disk \in Snapshots \cup {Unsigned}
      /\ UNCHANGED <<disk, state, revoked, expired, events>>
      /\ starts' \in 0..MaxStarts
  BY ProcFacts, ConfigAssumptions DEF Start
<1>2. q \in Proc /\ q.at = "check" /\ q.acc = None
  BY <1>1, ConfigAssumptions DEF Down, Proc, Places
<1> HIDE DEF q
<1>3. Ahead(q) /\ Onwards(proc[w], q)
  BY <1>2 DEF Ahead, Onwards
<1> QED
  BY <1>1, <1>2, <1>3, ProcFacts, WorkerStepsOn

LEMMA DieOn == ASSUME ConfigInv, NEW w \in Workers, Die(w) PROVE StepsOn(w)
PROOF
<1>1. Onwards(proc[w], Down)
  BY DownFits DEF Onwards
<1> QED
  BY <1>1, DownFits, ProcFacts, WorkerStepsOn DEF Die, world

LEMMA RequestOn == ASSUME ConfigInv, NEW w \in Workers, Request(w) PROVE StepsOn(w)
PROOF
<1> DEFINE q == [proc[w] EXCEPT !.at = "check"]
<1>1. q \in Proc /\ q.at = "check" /\ q.acc = proc[w].acc
  BY ProcFacts DEF Proc, Places
<1>2. Move(w, q) /\ UNCHANGED <<disk, state, revoked, expired, events, starts>>
  BY DEF Request, world
<1> HIDE DEF q
<1>3. Ahead(q) /\ Onwards(proc[w], q)
  BY <1>1 DEF Ahead, Onwards
<1> QED
  BY <1>1, <1>2, <1>3, ProcFacts, WorkerStepsOn

\* Whatever the check finds, what it compares with is what was accepted.
LEMMA CheckOn ==
    ASSUME ConfigInv, NEW w \in Workers, NEW due, NEW same, Check(w, due, same)
    PROVE  StepsOn(w)
PROOF
<1> DEFINE p == [proc[w] EXCEPT !.prior = Prior(proc[w]),
                                !.gone = @ \/ state.status = "WITHDRAWN"]
           q == IF p.gone \/ p.snap \in revoked THEN [p EXCEPT !.at = "withdraw"]
                ELSE IF HasFile /\ (p.acc = None \/ due)
                THEN [p EXCEPT !.at = "compare"]
                ELSE Decided(p, same)
<1>1. Prior(proc[w]) \in Snapshots \cup {None}
  BY ProcFacts DEF Prior, Proc
<1>2. /\ p \in Proc /\ p.acc = proc[w].acc /\ p.prior = Prior(proc[w])
  BY <1>1, ProcFacts DEF Proc
<1>3. p.acc # None => p.prior = p.acc
  BY <1>2 DEF Prior
<1>4. Move(w, q) /\ UNCHANGED <<disk, state, revoked, expired, events, starts>>
  BY DEF Check, world
<1> HIDE DEF p
<1>5. q \in Proc /\ Ahead(q) /\ q.acc = p.acc
  <2>1. ASSUME NEW at \in {"withdraw", "compare"}
        PROVE  /\ [p EXCEPT !.at = at] \in Proc
               /\ Ahead([p EXCEPT !.at = at])
               /\ [p EXCEPT !.at = at].acc = p.acc
    BY <1>2, <1>3 DEF Proc, Places, Ahead
  <2> QED
    BY <1>2, <1>3, <2>1, DecidedFits
<1> HIDE DEF q
<1>6. Onwards(proc[w], q)
  BY <1>2, <1>5 DEF Onwards
<1> QED
  BY <1>4, <1>5, <1>6, ProcFacts, WorkerStepsOn

LEMMA CompareOn ==
    ASSUME ConfigInv, NEW w \in Workers, NEW same, Compare(w, same)
    PROVE  StepsOn(w)
PROOF
<1> DEFINE p == proc[w]
           q == IF disk = p.snap THEN Decided(p, same) ELSE [p EXCEPT !.at = "withdraw"]
<1>1. p \in Proc /\ (p.acc # None => p.prior = p.acc)
  BY ProcFacts DEF Compare, Ahead
<1>2. Move(w, q) /\ UNCHANGED <<disk, state, revoked, expired, events, starts>>
  BY DEF Compare, world
<1>3. q \in Proc /\ Ahead(q) /\ q.acc = p.acc
  <2>1. /\ [p EXCEPT !.at = "withdraw"] \in Proc
        /\ Ahead([p EXCEPT !.at = "withdraw"])
        /\ [p EXCEPT !.at = "withdraw"].acc = p.acc
    BY <1>1 DEF Proc, Places, Ahead
  <2> QED
    BY <1>1, <2>1, DecidedFits
<1> HIDE DEF q
<1>4. Onwards(proc[w], q)
  BY <1>3 DEF Onwards
<1> QED
  BY <1>2, <1>3, <1>4, ProcFacts, WorkerStepsOn

LEMMA RememberOn ==
    ASSUME ConfigInv, NEW w \in Workers, NEW ok \in BOOLEAN, Remember(w, ok)
    PROVE  StepsOn(w)
PROOF
<1> DEFINE p == [proc[w] EXCEPT !.acc = proc[w].snap]
           q == IF ok THEN Served(p) ELSE [p EXCEPT !.at = "withdraw"]
<1>1. /\ proc[w].snap \in Snapshots
      /\ p \in Proc /\ p.acc = proc[w].snap /\ p.snap = proc[w].snap
  BY ProcFacts DEF Proc, Remember, Ahead
<1>2. /\ Move(w, q) /\ UNCHANGED <<disk, revoked, expired, events, starts>>
      /\ state' = IF ok THEN Accepted(p.snap) ELSE state
  BY DEF Remember, world
<1>3. Onwards(proc[w], p)
  <2>1. proc[w].acc \in {None, proc[w].snap} \/ VersionOf[proc[w].acc] < VersionOf[proc[w].snap]
    BY ProcFacts, ConfigAssumptions DEF Remember, Ahead, Proc
  <2> QED
    BY <1>1, <2>1 DEF Onwards
<1> HIDE DEF p
<1>4. q \in Proc /\ Ahead(q) /\ q.acc = p.acc
  <2>1. /\ [p EXCEPT !.at = "withdraw"] \in Proc
        /\ Ahead([p EXCEPT !.at = "withdraw"])
        /\ [p EXCEPT !.at = "withdraw"].acc = p.acc
    BY <1>1 DEF Proc, Places, Ahead
  <2> QED
    BY <1>1, <2>1, EndFits
<1> HIDE DEF q
<1>5. Onwards(proc[w], q)
  BY <1>3, <1>4 DEF Onwards
<1> QED
  BY <1>1, <1>2, <1>4, <1>5, ProcFacts, WorkerStepsOn

LEMMA WithdrawOn == ASSUME ConfigInv, NEW w \in Workers, Withdraw(w) PROVE StepsOn(w)
PROOF
<1> DEFINE p == [proc[w] EXCEPT !.gone = TRUE]
           q == IF proc[w].gone \/ state.status = "WITHDRAWN" THEN Refused(p)
                ELSE [p EXCEPT !.at = "record", !.floor = state.floor]
<1>1. p \in Proc /\ p.acc = proc[w].acc
  BY ProcFacts DEF Proc
<1>2. Move(w, q) /\ UNCHANGED <<disk, state, revoked, expired, events, starts>>
  BY DEF Withdraw, world
<1> HIDE DEF p
<1>3. q \in Proc /\ Ahead(q) /\ Onwards(p, q)
  <2> DEFINE r == [p EXCEPT !.at = "record", !.floor = state.floor]
  <2>1. r \in Proc /\ r.at = "record" /\ r.acc = p.acc
    BY <1>1, ProcFacts DEF Proc, Places
  <2> HIDE DEF r
  <2>2. Ahead(r) /\ Onwards(p, r)
    BY <2>1 DEF Ahead, Onwards
  <2> QED
    BY <1>1, <2>1, <2>2, EndFits DEF r
<1> HIDE DEF q
<1>4. Onwards(proc[w], q)
  BY <1>1, <1>3 DEF Onwards
<1> QED
  BY <1>2, <1>3, <1>4, ProcFacts, WorkerStepsOn

LEMMA RecordOn ==
    ASSUME ConfigInv, NEW w \in Workers, NEW ok \in BOOLEAN, Record(w, ok)
    PROVE  StepsOn(w)
PROOF
<1>1. /\ Move(w, Refused(proc[w]))
      /\ UNCHANGED <<disk, revoked, expired, events, starts>>
      /\ state' = state \/ state' = Withdrawal(proc[w].floor)
  BY DEF Record, world
<1>2. proc[w].floor \in Nat
  BY ProcFacts DEF Proc
<1> QED
  BY <1>1, <1>2, EndFits, ProcFacts, WorkerStepsOn
-----------------------------------------------------------------------------
(* Reload.                                                                 *)

LEMMA ReloadOn ==
    ASSUME ConfigInv, NEW w \in Workers, NEW s \in Snapshots, Reload(w, s)
    PROVE  StepsOn(w)
PROOF
<1> DEFINE p == [proc[w] EXCEPT !.gone = @ \/ state.status = "WITHDRAWN"]
           r == [p EXCEPT !.at = "write", !.new = s]
           newer == VersionOf[s] > IF p.acc # None THEN VersionOf[p.acc] ELSE state.floor
           q == IF newer THEN r ELSE p
<1>1. /\ p \in Proc /\ p.acc = proc[w].acc /\ p.at = "idle"
  BY ProcFacts DEF Proc, Reload
<1>2. Move(w, q) /\ UNCHANGED <<disk, state, revoked, expired, events, starts>>
  BY DEF Reload, world
<1>3. newer /\ p.acc # None => VersionOf[s] > VersionOf[p.acc]
  OBVIOUS
<1> HIDE DEF p, newer
<1>4. r \in Proc /\ r.at = "write" /\ r.new = s /\ r.acc = p.acc
  BY <1>1 DEF Proc, Places
<1> HIDE DEF r
<1>5. newer => Ahead(r)
  BY <1>3, <1>4, ConfigAssumptions DEF Ahead
<1>6. Ahead(p)
  BY <1>1 DEF Ahead
<1>7. q \in Proc /\ Ahead(q) /\ q.acc = p.acc
  BY <1>1, <1>4, <1>5, <1>6
<1> HIDE DEF q
<1>8. Onwards(proc[w], q)
  BY <1>1, <1>7 DEF Onwards
<1> QED
  BY <1>2, <1>7, <1>8, ProcFacts, WorkerStepsOn

LEMMA WriteFileOn == ASSUME ConfigInv, NEW w \in Workers, WriteFile(w) PROVE StepsOn(w)
PROOF
<1> DEFINE r == [proc[w] EXCEPT !.at = "install"]
<1>1. /\ proc[w].at = "write" /\ proc[w].new \in Snapshots
      /\ UNCHANGED <<state, revoked, expired, events, starts>>
  BY ProcFacts DEF WriteFile, Ahead, Proc, world
<1>2. /\ r \in Proc /\ r.at = "install" /\ r.new = proc[w].new /\ r.acc = proc[w].acc
  BY ProcFacts DEF Proc, Places
<1>3. \/ Move(w, Refused(proc[w])) /\ disk' = disk
      \/ Move(w, r) /\ disk' \in Snapshots \cup {Unsigned, Broken}
  BY <1>1, ProcFacts DEF WriteFile
<1> HIDE DEF r
<1>4. Ahead(r) /\ Onwards(proc[w], r)
  BY <1>1, <1>2, ProcFacts DEF Ahead, Onwards
<1> QED
  BY <1>1, <1>2, <1>3, <1>4, EndFits, ProcFacts, WorkerStepsOn

LEMMA InstallOn ==
    ASSUME ConfigInv, NEW w \in Workers, NEW ok \in BOOLEAN, Install(w, ok)
    PROVE  StepsOn(w)
PROOF
<1> DEFINE s == proc[w].new
           q == [proc[w] EXCEPT !.at = "idle", !.snap = s, !.acc = s,
                                !.gone = FALSE, !.new = None]
<1>1. /\ s \in Snapshots
      /\ proc[w].acc # None => VersionOf[s] > VersionOf[proc[w].acc]
      /\ Move(w, q) /\ UNCHANGED <<disk, revoked, expired, events, starts>>
      /\ state' = state \/ state' = Accepted(s)
  BY ProcFacts DEF Install, Ahead, Proc, world
<1>2. q \in Proc /\ q.at = "idle" /\ q.acc = s
  BY <1>1, ProcFacts DEF Proc, Places
<1> HIDE DEF q, s
<1>3. Ahead(q)
  BY <1>2 DEF Ahead
<1>4. Onwards(proc[w], q)
  BY <1>1, <1>2, ProcFacts, ConfigAssumptions DEF Onwards, Proc
<1> QED
  BY <1>1, <1>2, <1>3, <1>4, ProcFacts, WorkerStepsOn
-----------------------------------------------------------------------------
\* The world changes the file, not the workers.
LEMMA WorldStep ==
    ASSUME ConfigInv,
           \/ \E s \in Snapshots \cup {Unsigned, Broken} : Edit(s)
           \/ \E s \in Snapshots : RevokeSigner(s) \/ Expire(s)
           \/ UNCHANGED vars
    PROVE  ConfigInv' /\ proc' = proc
PROOF
<1>1. proc' = proc /\ state' = state
  BY DEF Edit, RevokeSigner, Expire, vars
<1>2. TypeOK'
  BY ConfigAssumptions
     DEF ConfigInv, TypeOK, Edit, RevokeSigner, Expire, Happens, vars, world
<1>3. (\A w \in Workers : Ahead(proc[w]))'
  BY <1>1 DEF ConfigInv, Ahead
<1> QED
  BY <1>1, <1>2, <1>3 DEF ConfigInv

LEMMA NextStepsOn ==
    ASSUME ConfigInv, [Next]_vars
    PROVE  ConfigInv' /\ \A w \in Workers : Onwards(proc[w], proc'[w])
PROOF
<1>1. ASSUME NEW w \in Workers, StepsOn(w)
      PROVE  ConfigInv' /\ \A v \in Workers : Onwards(proc[v], proc'[v])
  BY <1>1 DEF StepsOn, Onwards
<1>2. ASSUME NEW w \in Workers, Continue(w) PROVE StepsOn(w)
  BY <1>2, CheckOn, CompareOn, RememberOn, RecordOn, InstallOn, WithdrawOn,
     WriteFileOn DEF Continue
<1>3. ASSUME ConfigInv', proc' = proc
      PROVE  ConfigInv' /\ \A v \in Workers : Onwards(proc[v], proc'[v])
  BY <1>3 DEF Onwards
<1> QED
  BY <1>1, <1>2, <1>3, StartOn, DieOn, RequestOn, ReloadOn, WorldStep DEF Next

\* Whatever workers, edits, failing transactions and deaths interleave, a
\* worker in the middle of a check or reload is ahead of what it accepted.
THEOREM ConfigInvariant == Spec => []ConfigInv
PROOF
<1>1. ConfigInv /\ [Next]_vars => ConfigInv'
  BY NextStepsOn
<1> QED
  BY <1>1, InitConfigInv, PTL DEF Spec

\* Every variable keeps its type; the record of an acceptance carries the
\* version of what it accepts as its floor (remember, withdraw).
THEOREM ConfigTypes == Spec => []TypeOK
PROOF
<1>1. ConfigInv => TypeOK
  BY DEF ConfigInv
<1> QED
  BY <1>1, ConfigInvariant, PTL

\* While a process runs, what it accepts only gets newer, whatever the other
\* workers, the file and failing transactions do (check, reload).
THEOREM NoRollbackInWorker == Spec => WorkerNeverRollsBack
PROOF
<1>1. ConfigInv /\ [Next]_vars =>
        [\A w \in Workers :
            proc[w].acc # None /\ proc'[w].acc # None /\ proc[w].acc # proc'[w].acc
            => VersionOf[proc[w].acc] < VersionOf[proc'[w].acc]]_vars
  BY NextStepsOn DEF Onwards
<1> QED
  BY <1>1, ConfigInvariant, PTL DEF Spec, WorkerNeverRollsBack
-----------------------------------------------------------------------------
(* One worker.  The floor and the withdrawal survive any number of its     *)
(* starts, deaths and failing transactions; with two workers they do not.  *)

\* What the only worker holds is backed by the record: nothing has moved the
\* record since it was read.
Backed(p, s) ==
    /\ p.acc # None => s.floor <= VersionOf[p.acc]
    /\ p.at \in {"compare", "remember"} => s.status # "WITHDRAWN"
    /\ p.at = "compare" => IF p.prior = None THEN s.floor = 0
                           ELSE s.floor <= VersionOf[p.prior]
    /\ p.at = "remember" => s.floor <= VersionOf[p.snap]
    /\ p.at = "record" => p.floor = s.floor
    /\ p.at \in {"write", "install"} => s.floor < VersionOf[p.new]

FloorInv(w) ==
    /\ state.status = "NONE" => state.floor = 0
    /\ Backed(proc[w], state)

\* What a step does to the record.
FloorOn(w) ==
    /\ FloorInv(w)'
    /\ state.floor <= state'.floor
    /\ state.status = "WITHDRAWN" /\ state'.status # "WITHDRAWN" => proc[w].at = "install"

LEMMA InitFloorInv == \A w \in Workers : Init => FloorInv(w)
PROOF
<1> SUFFICES ASSUME NEW w \in Workers, Init PROVE FloorInv(w)
  OBVIOUS
<1>1. proc[w] = Down /\ Down.at = "down" /\ Down.acc = None
  BY DEF Init, Down
<1> QED
  BY <1>1 DEF Init, FloorInv, Backed

LEMMA EndBacked ==
    ASSUME NEW p \in Proc, NEW s, p.acc # None => s.floor <= VersionOf[p.acc]
    PROVE  Backed(Served(p), s) /\ Backed(Refused(p), s) /\ Backed(Down, s)
PROOF
<1>1. Served(p).at = "idle" /\ Served(p).acc = p.acc
  BY DEF Served, Proc
<1>2. Down.at = "down" /\ Down.acc = None
  BY DEF Down
<1>3. Refused(p) = Down \/ (Refused(p).at = "idle" /\ Refused(p).acc = p.acc)
  BY DEF Refused, Proc
<1> QED
  BY <1>1, <1>2, <1>3 DEF Backed

\* A step that leaves the record alone.
LEMMA UnrecordedOn ==
    ASSUME ConfigInv, NEW w \in Workers, FloorInv(w), state' = state,
           NEW q, Move(w, q), Backed(q, state)
    PROVE  FloorOn(w)
PROOF
<1>1. proc'[w] = q
  BY DEF ConfigInv, TypeOK, Move
<1>2. state.floor <= state.floor
  BY ProcFacts
<1> QED
  BY <1>1, <1>2 DEF FloorOn, FloorInv

\* The last part of the check.
LEMMA DecidedBacked ==
    ASSUME NEW p \in Proc, NEW s, s.floor \in Nat, s.status # "WITHDRAWN",
           p.acc # None => s.floor <= VersionOf[p.acc], NEW same,
           IF p.prior = None THEN s.floor = 0 ELSE s.floor <= VersionOf[p.prior]
    PROVE  Backed(Decided(p, same), s)
PROOF
<1> DEFINE q == Decided(p, same)
<1>1. CASE Verdict(p, same) = "idle"
  BY <1>1, EndBacked DEF Decided
<1>2. CASE Verdict(p, same) = "withdraw"
  <2>1. q.at = "withdraw" /\ q.acc = p.acc
    BY <1>2 DEF Decided, Proc
  <2> QED
    BY <2>1 DEF Backed
<1>3. CASE Verdict(p, same) = "remember"
  <2>1. /\ q.at = "remember" /\ q.acc = p.acc /\ q.snap = p.snap
        /\ p.prior \in {None, p.snap} \/ VersionOf[p.snap] > VersionOf[p.prior]
        /\ p.snap \in Snapshots
    BY <1>3 DEF Decided, Verdict, Verifies, Proc
  <2>2. VersionOf[p.snap] \in Nat
    BY <2>1, ConfigAssumptions
  <2>3. s.floor <= VersionOf[p.snap]
    <3>1. CASE p.prior = None
      BY <2>2, <3>1
    <3>2. CASE p.prior # None
      <4>1. VersionOf[p.prior] \in Nat
        BY <3>2, ConfigAssumptions DEF Proc
      <4> QED
        BY <2>1, <2>2, <3>2, <4>1
    <3> QED
      BY <3>1, <3>2
  <2> HIDE DEF q
  <2>4. Backed(q, s)
    BY <2>1, <2>3 DEF Backed
  <2> QED
    BY <2>4 DEF q
<1> QED
  BY <1>1, <1>2, <1>3 DEF Verdict

LEMMA FloorContinues ==
    ASSUME ConfigInv, NEW w \in Workers, FloorInv(w), Continue(w)
    PROVE  FloorOn(w)
PROOF
<1> DEFINE p == proc[w]
<1>1. /\ p \in Proc /\ Ahead(p) /\ Backed(p, state) /\ state \in State
      /\ state.floor \in Nat /\ proc \in [Workers -> Proc]
      /\ p.acc # None => state.floor <= VersionOf[p.acc]
      /\ VersionOf \in [Snapshots -> Nat]
  BY ProcFacts, ConfigAssumptions DEF FloorInv, Backed, ConfigInv, TypeOK
<1>2. ASSUME NEW due, NEW same, Check(w, due, same) PROVE FloorOn(w)
  <2> DEFINE r == [p EXCEPT !.prior = Prior(p), !.gone = @ \/ state.status = "WITHDRAWN"]
             q == IF r.gone \/ r.snap \in revoked THEN [r EXCEPT !.at = "withdraw"]
                  ELSE IF HasFile /\ (r.acc = None \/ due)
                  THEN [r EXCEPT !.at = "compare"]
                  ELSE Decided(r, same)
  <2>1. Move(w, q) /\ state' = state
    BY <1>2 DEF Check, world
  <2>2. Prior(p) \in Snapshots \cup {None}
    BY <1>1, ProcFacts DEF Prior, Proc
  <2>3. /\ r \in Proc /\ r.acc = p.acc /\ r.prior = Prior(p)
        /\ r.gone <=> p.gone \/ state.status = "WITHDRAWN"
    BY <1>1, <2>2 DEF Proc
  <2>4. ASSUME ~r.gone
        PROVE  IF r.prior = None THEN state.floor = 0 ELSE state.floor <= VersionOf[r.prior]
    <3>1. state.status \in {"NONE", "ACCEPTED"}
      BY <1>1, <2>3, <2>4 DEF State
    <3>2. CASE p.acc # None
      BY <1>1, <2>3, <3>2 DEF Prior
    <3>3. CASE p.acc = None /\ state.status = "ACCEPTED"
      <4>1. r.prior = state.snap /\ state.snap # None /\ state.floor = VersionOf[state.snap]
        BY <2>3, <3>3 DEF Prior, ConfigInv, TypeOK
      <4> QED
        BY <1>1, <4>1
    <3>4. CASE p.acc = None /\ state.status = "NONE"
      BY <2>3, <3>4 DEF Prior, FloorInv
    <3> QED
      BY <3>1, <3>2, <3>3, <3>4
  <2> HIDE DEF r
  <2>5. Backed([r EXCEPT !.at = "withdraw"], state)
    <3>1. /\ [r EXCEPT !.at = "withdraw"].at = "withdraw"
          /\ [r EXCEPT !.at = "withdraw"].acc = r.acc
      BY <2>3 DEF Proc
    <3> QED
      BY <1>1, <2>3, <3>1 DEF Backed
  <2>6. ~r.gone => Backed([r EXCEPT !.at = "compare"], state)
    <3>1. /\ [r EXCEPT !.at = "compare"].at = "compare"
          /\ [r EXCEPT !.at = "compare"].acc = r.acc
          /\ [r EXCEPT !.at = "compare"].prior = r.prior
      BY <2>3 DEF Proc
    <3> QED
      BY <1>1, <2>3, <2>4, <3>1 DEF Backed
  <2>7. ~r.gone => Backed(Decided(r, same), state)
    BY <1>1, <2>3, <2>4, DecidedBacked
  <2>8. Backed(q, state)
    BY <2>5, <2>6, <2>7
  <2> HIDE DEF q
  <2> QED
    BY <2>1, <2>8, UnrecordedOn
<1>3. ASSUME NEW same, Compare(w, same) PROVE FloorOn(w)
  <2> DEFINE q == IF disk = p.snap THEN Decided(p, same) ELSE [p EXCEPT !.at = "withdraw"]
  <2>1. Move(w, q) /\ state' = state /\ p.at = "compare"
    BY <1>3 DEF Compare, world
  <2>2. Backed(Decided(p, same), state)
    BY <1>1, <2>1, DecidedBacked DEF Backed
  <2>3. Backed([p EXCEPT !.at = "withdraw"], state)
    <3>1. /\ [p EXCEPT !.at = "withdraw"].at = "withdraw"
          /\ [p EXCEPT !.at = "withdraw"].acc = p.acc
      BY <1>1 DEF Proc
    <3> QED
      BY <1>1, <3>1 DEF Backed
  <2>4. Backed(q, state)
    BY <2>2, <2>3
  <2> HIDE DEF q
  <2> QED
    BY <2>1, <2>4, UnrecordedOn
<1>4. ASSUME NEW ok \in BOOLEAN, Remember(w, ok) PROVE FloorOn(w)
  <2> DEFINE r == [p EXCEPT !.acc = p.snap]
             q == IF ok THEN Served(r) ELSE [r EXCEPT !.at = "withdraw"]
  <2>1. /\ Move(w, q) /\ p.at = "remember"
        /\ state' = IF ok THEN Accepted(p.snap) ELSE state
    BY <1>1, <1>4 DEF Remember, Proc
  <2>2. r \in Proc /\ r.acc = p.snap /\ p.snap \in Snapshots /\ r.acc # None
    BY <1>1, <2>1, ConfigAssumptions DEF Proc, Ahead
  <2>3. /\ state.floor <= VersionOf[p.snap] /\ VersionOf[p.snap] \in Nat
        /\ state.status # "WITHDRAWN"
    BY <1>1, <2>1, <2>2 DEF Backed
  <2> HIDE DEF r
  <2>4. CASE ok
    <3>1. state'.floor = VersionOf[p.snap] /\ state'.status = "ACCEPTED"
      BY <2>1, <2>4 DEF Accepted
    <3>2. Backed(q, state') /\ proc'[w] = q
      BY <1>1, <2>1, <2>2, <2>3, <2>4, <3>1, EndBacked DEF Move
    <3> QED
      BY <2>3, <3>1, <3>2 DEF FloorOn, FloorInv
  <2>5. CASE ~ok
    <3>1. q.at = "withdraw" /\ q.acc = p.snap
      BY <2>2, <2>5 DEF Proc
    <3>2. Backed(q, state)
      BY <2>3, <3>1 DEF Backed
    <3> HIDE DEF q
    <3> QED
      BY <2>1, <2>5, <3>2, UnrecordedOn
  <2> QED
    BY <2>4, <2>5
<1>5. CASE Withdraw(w)
  <2> DEFINE r == [p EXCEPT !.gone = TRUE]
             q == IF p.gone \/ state.status = "WITHDRAWN" THEN Refused(r)
                  ELSE [r EXCEPT !.at = "record", !.floor = state.floor]
  <2>1. Move(w, q) /\ state' = state
    BY <1>5 DEF Withdraw, world
  <2>2. r \in Proc /\ r.acc = p.acc
    BY <1>1 DEF Proc
  <2>3. Backed(Refused(r), state)
    BY <1>1, <2>2, EndBacked
  <2>4. Backed([r EXCEPT !.at = "record", !.floor = state.floor], state)
    <3> DEFINE t == [r EXCEPT !.at = "record", !.floor = state.floor]
    <3>1. t.at = "record" /\ t.floor = state.floor /\ t.acc = p.acc
      BY <1>1 DEF Proc
    <3> HIDE DEF t
    <3>2. Backed(t, state)
      BY <1>1, <3>1 DEF Backed
    <3> QED
      BY <3>2 DEF t
  <2>5. Backed(q, state)
    BY <2>3, <2>4
  <2> HIDE DEF q
  <2> QED
    BY <2>1, <2>5, UnrecordedOn
<1>6. ASSUME NEW ok \in BOOLEAN, Record(w, ok) PROVE FloorOn(w)
  <2>1. /\ Move(w, Refused(p)) /\ p.at = "record" /\ p.floor = state.floor
        /\ state' = IF ok THEN Withdrawal(state.floor) ELSE state
    BY <1>1, <1>6 DEF Record, Backed
  <2>2. /\ state'.floor = state.floor
        /\ state' = state \/ state'.status = "WITHDRAWN"
    BY <2>1 DEF Withdrawal
  <2>3. Backed(Refused(p), state') /\ proc'[w] = Refused(p)
    BY <1>1, <2>1, <2>2, EndBacked DEF Move
  <2> QED
    BY <1>1, <2>2, <2>3 DEF FloorOn, FloorInv
<1>7. ASSUME NEW ok \in BOOLEAN, Install(w, ok) PROVE FloorOn(w)
  <2> DEFINE s == p.new
             q == [p EXCEPT !.at = "idle", !.snap = s, !.acc = s, !.gone = FALSE, !.new = None]
  <2>1. /\ Move(w, q) /\ p.at = "install"
        /\ state' = IF ok THEN Accepted(s) ELSE state
    BY <1>7 DEF Install
  <2>2. /\ s \in Snapshots /\ VersionOf[s] \in Nat
        /\ state.floor <= VersionOf[s]
    BY <1>1, <2>1 DEF Ahead, Backed, Proc
  <2>3. q.at = "idle" /\ q.acc = s
    BY <1>1 DEF Proc
  <2>4. state' = state \/ (state'.floor = VersionOf[s] /\ state'.status = "ACCEPTED")
    BY <2>1 DEF Accepted
  <2>5. proc'[w] = q
    BY <1>1, <2>1 DEF Move
  <2> HIDE DEF q, s
  <2>6. Backed(q, state') /\ state.floor <= state'.floor
    BY <1>1, <2>2, <2>3, <2>4 DEF Backed
  <2> QED
    BY <2>1, <2>4, <2>5, <2>6 DEF FloorOn, FloorInv
<1>8. CASE WriteFile(w)
  <2> DEFINE q == [p EXCEPT !.at = "install"]
  <2>1. /\ p.at = "write" /\ state' = state
        /\ Move(w, Refused(p)) \/ Move(w, q)
    BY <1>8 DEF WriteFile, world
  <2>2. Backed(Refused(p), state)
    BY <1>1, EndBacked
  <2>3. Backed(q, state)
    <3>1. q.at = "install" /\ q.acc = p.acc /\ q.new = p.new
      BY <1>1 DEF Proc
    <3> QED
      BY <1>1, <2>1, <3>1 DEF Backed
  <2> HIDE DEF q
  <2> QED
    BY <2>1, <2>2, <2>3, UnrecordedOn
<1> QED
  BY <1>2, <1>3, <1>4, <1>5, <1>6, <1>7, <1>8 DEF Continue

LEMMA FloorStep ==
    ASSUME ConfigInv, NEW w \in Workers, Workers = {w}, FloorInv(w), [Next]_vars
    PROVE  FloorOn(w)
PROOF
<1> DEFINE p == proc[w]
<1>1. /\ p \in Proc /\ Backed(p, state) /\ state.floor \in Nat
      /\ p.acc # None => state.floor <= VersionOf[p.acc]
      /\ VersionOf \in [Snapshots -> Nat]
  BY ProcFacts, ConfigAssumptions DEF FloorInv, Backed
<1>2. CASE \/ \E s \in Snapshots \cup {Unsigned, Broken} : Edit(s)
           \/ \E s \in Snapshots : RevokeSigner(s) \/ Expire(s)
           \/ UNCHANGED vars
  <2>1. proc' = proc /\ state' = state
    BY <1>2 DEF Edit, RevokeSigner, Expire, vars
  <2>2. state.floor <= state.floor
    BY <1>1
  <2> QED
    BY <2>1, <2>2 DEF FloorOn, FloorInv
<1>3. CASE Start(w)
  <2> DEFINE q == [Down EXCEPT !.at = "check", !.boot = TRUE, !.snap = disk]
  <2>1. Move(w, q) /\ state' = state /\ q.at = "check" /\ q.acc = None
    BY <1>3 DEF Start, Down
  <2> HIDE DEF q
  <2>2. Backed(q, state)
    BY <2>1 DEF Backed
  <2> QED
    BY <2>1, <2>2, UnrecordedOn
<1>4. CASE Die(w)
  <2>1. Move(w, Down) /\ state' = state /\ Backed(Down, state)
    BY <1>1, <1>4, EndBacked DEF Die, world
  <2> QED
    BY <2>1, UnrecordedOn
<1>5. CASE Request(w)
  <2> DEFINE q == [p EXCEPT !.at = "check"]
  <2>1. Move(w, q) /\ state' = state /\ q.at = "check" /\ q.acc = p.acc
    BY <1>1, <1>5 DEF Request, world, Proc
  <2> HIDE DEF q
  <2>2. Backed(q, state)
    BY <1>1, <2>1 DEF Backed
  <2> QED
    BY <2>1, <2>2, UnrecordedOn
<1>6. ASSUME NEW s \in Snapshots, Reload(w, s) PROVE FloorOn(w)
  <2> DEFINE r == [p EXCEPT !.gone = @ \/ state.status = "WITHDRAWN"]
             t == [r EXCEPT !.at = "write", !.new = s]
             newer == VersionOf[s] > IF p.acc # None THEN VersionOf[p.acc] ELSE state.floor
  <2>1. /\ r.acc = p.acc /\ r.at = p.at /\ p.at = "idle"
        /\ t.at = "write" /\ t.new = s /\ t.acc = p.acc
    BY <1>1, <1>6 DEF Reload, Proc
  <2>2. Move(w, IF newer THEN t ELSE r) /\ state' = state
    BY <1>6, <2>1 DEF Reload, world
  <2>3. Backed(r, state)
    <3> HIDE DEF r
    <3> QED
      BY <1>1, <2>1 DEF Backed
  <2>4. newer => state.floor < VersionOf[s]
    <3>1. p.acc # None => VersionOf[p.acc] \in Nat
      BY <1>1 DEF Proc
    <3>2. VersionOf[s] \in Nat
      BY <1>1
    <3> QED
      BY <1>1, <3>1, <3>2
  <2>5. newer => Backed(t, state)
    <3> HIDE DEF t, newer
    <3> QED
      BY <1>1, <2>1, <2>4 DEF Backed
  <2> HIDE DEF r, t, newer
  <2> QED
    BY <2>2, <2>3, <2>5, UnrecordedOn
<1> QED
  BY <1>2, <1>3, <1>4, <1>5, <1>6, FloorContinues DEF Next

\* With one worker the version floor never falls, whatever is edited, revoked or fails, and
\* however often the process dies and starts (tests/runtime-hardening.test.mjs).
THEOREM SingleWorkerKeepsFloor ==
    ASSUME NEW w \in Workers, Workers = {w}
    PROVE  Spec => FloorNeverFalls
PROOF
<1>1. Init => FloorInv(w)
  BY InitFloorInv
<1>2. ConfigInv /\ FloorInv(w) /\ [Next]_vars => FloorInv(w)' /\ [state.floor <= state'.floor]_vars
  BY FloorStep DEF FloorOn
<1> QED
  BY <1>1, <1>2, ConfigInvariant, PTL DEF Spec, FloorNeverFalls

\* With one worker only a signed reload lifts a withdrawal that is recorded: neither a restart
\* nor a check that began before it does (withdraw, remember, reload).
THEOREM OnlyReloadLifts ==
    ASSUME NEW w \in Workers, Workers = {w}
    PROVE  Spec => [][state.status = "WITHDRAWN" /\ state'.status # "WITHDRAWN"
                      => proc[w].at = "install"]_vars
PROOF
<1>1. Init => FloorInv(w)
  BY InitFloorInv
<1>2. ConfigInv /\ FloorInv(w) /\ [Next]_vars =>
          /\ FloorInv(w)'
          /\ [state.status = "WITHDRAWN" /\ state'.status # "WITHDRAWN"
              => proc[w].at = "install"]_vars
  BY FloorStep DEF FloorOn
<1> QED
  BY <1>1, <1>2, ConfigInvariant, PTL DEF Spec
=============================================================================
