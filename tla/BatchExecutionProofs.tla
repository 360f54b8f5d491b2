------------------------ MODULE BatchExecutionProofs ------------------------
(***************************************************************************)
(* Proofs about BatchExecution, for every number of workers, capsules and  *)
(* compositions of any shape, whether or not the policy is in shadow mode. *)
(***************************************************************************)
EXTENDS BatchExecution, TLAPS

Elems(s) == {s[i] : i \in 1..Len(s)}

\* What a request in the hands of a worker may be, whatever the others do.
Shaped(x) ==
    /\ x.at = "idle" => x = Idle
    /\ x.at \notin {"idle", "record"} => Len(x.todo) > 0
    /\ x.batch = NoComposition =>
          /\ x.at \notin {"doubt", "record"}
          /\ x.at # "idle" => Len(x.todo) = 1
    /\ x.at = "dispatch" /\ x.batch # NoComposition => x.todo = ChildrenOf[x.batch]
    /\ x.at = "doubt" => x.answer = "lost"
    /\ x.at = "settle" => x.answer # "rejected"
    /\ x.at = "finish" /\ x.answer = "rejected" => x.batch = NoComposition

\* It is about reserved capsules, of a composition that was started.
Reserved(x) ==
    /\ \A c \in Elems(x.todo) : status[c] \in Dispatched
    /\ x.batch # NoComposition =>
          x.batch \in started /\ Elems(x.todo) \subseteq Leaves(x.batch)

\* What it has been told is true.
Told(x) ==
    /\ x.batch # NoComposition =>
          /\ x.told \subseteq {"VERIFIED", "UNCERTAIN"}
          /\ "VERIFIED" \in x.told => Leaves(x.batch) \subseteq journal
    /\ x.at = "finish" /\ x.answer = "confirmed" => Elems(x.todo) \subseteq journal
    /\ x.at = "settle" /\ x.answer = "confirmed" => Head(x.todo) \in journal
    /\ x.at = "finish" /\ x.answer = "rejected" =>
          \A b \in started : Leaves(b) \cap Elems(x.todo) = {}

\* At the target it has what nobody has brought there before, and a child of
\* a started composition only with its siblings.
Carried(x) ==
    x.at = "dispatch" =>
        /\ Elems(x.todo) \cap journal = {}
        /\ \A b \in started : Leaves(b) \cap Elems(x.todo) # {} => x.batch = b

Fits(x) == Shaped(x) /\ Reserved(x) /\ Told(x) /\ Carried(x)

\* What the records say is true of the journal.
RecordsInv ==
    /\ \A c \in journal : status[c] \in Dispatched
    /\ \A c \in Capsules : status[c] = "VERIFIED" => c \in journal
    /\ \A b \in started : \A c \in Leaves(b) :
          status[c] \in Dispatched /\ status[c] # "FAILED"

BatchInv ==
    /\ TypeOK
    /\ RecordsInv
    /\ \A w \in Workers : Fits(work[w])
    /\ BatchIsAtomic
    /\ ChildReservedOnce
-----------------------------------------------------------------------------
(* Sequences.                                                              *)

LEMMA HeadAndTail ==
    ASSUME NEW S, NEW s \in Seq(S), Len(s) > 0
    PROVE  /\ Head(s) \in Elems(s) /\ Head(s) \in S
           /\ Tail(s) \in Seq(S) /\ Elems(Tail(s)) \subseteq Elems(s)
           /\ Elems(s) \subseteq S
           /\ Len(s) \in Nat /\ Len(s) > 0 /\ Len(Tail(s)) = Len(s) - 1
           /\ Len(s) = 1 => Elems(s) = {Head(s)}
PROOF
<1>1. Len(s) \in Nat /\ Len(s) > 0 /\ Head(s) = s[1]
  OBVIOUS
<1>2. \A i \in 1..Len(s) : s[i] \in S
  OBVIOUS
<1>3. Tail(s) \in Seq(S) /\ Len(Tail(s)) = Len(s) - 1
      /\ \A i \in 1..Len(Tail(s)) : Tail(s)[i] = s[i + 1]
  OBVIOUS
<1>4. Head(s) \in Elems(s) /\ Elems(s) \subseteq S
  BY <1>1, <1>2 DEF Elems
<1>5. Elems(Tail(s)) \subseteq Elems(s)
  <2> SUFFICES ASSUME NEW i \in 1..Len(Tail(s)) PROVE Tail(s)[i] \in Elems(s)
    BY DEF Elems
  <2>1. i + 1 \in 1..Len(s) /\ Tail(s)[i] = s[i + 1]
    BY <1>1, <1>3
  <2> QED
    BY <2>1 DEF Elems
<1>6. Len(s) = 1 => Elems(s) = {Head(s)}
  BY <1>1 DEF Elems
<1> QED
  BY <1>1, <1>3, <1>4, <1>5, <1>6

LEMMA LeavesFacts ==
    ASSUME NEW b \in Compositions
    PROVE  /\ ChildrenOf[b] \in Seq(Capsules)
           /\ Len(ChildrenOf[b]) > 0
           /\ Leaves(b) = Elems(ChildrenOf[b])
           /\ Leaves(b) \subseteq Capsules
           /\ Leaves(b) # {}
PROOF
<1>1. ChildrenOf[b] \in Seq(Capsules) /\ Len(ChildrenOf[b]) > 0
  BY BatchAssumptions
<1>2. Leaves(b) = Elems(ChildrenOf[b])
  BY DEF Leaves, Elems
<1> QED
  BY <1>1, <1>2, HeadAndTail

LEMMA IdleFits == Idle \in Work /\ Idle.at = "idle" /\ Fits(Idle)
PROOF
<1>1. Idle \in Work
  BY DEF Idle, Work, Places, Answers
<1>2. Idle.todo = <<>> /\ Idle.at = "idle" /\ Idle.batch = NoComposition
      /\ Idle.answer = "none"
  BY DEF Idle
<1>3. Elems(<<>>) = {}
  BY DEF Elems
<1> QED
  BY <1>1, <1>2, <1>3 DEF Fits, Shaped, Reserved, Told, Carried

LEMMA InitBatchInv == Init => BatchInv
PROOF
<1> SUFFICES ASSUME Init PROVE BatchInv
  OBVIOUS
<1>1. TypeOK
  BY IdleFits, BatchAssumptions DEF Init, TypeOK, Statuses
<1>2. \A w \in Workers : work[w] = Idle
  BY DEF Init
<1>3. RecordsInv /\ BatchIsAtomic
  BY DEF Init, RecordsInv, BatchIsAtomic
<1>4. ChildReservedOnce
  BY <1>2, IdleFits DEF Init, ChildReservedOnce
<1> QED
  BY <1>1, <1>2, <1>3, <1>4, IdleFits DEF BatchInv
-----------------------------------------------------------------------------
(* Steps.                                                                  *)

\* What the types say of a worker's request.
LEMMA WorkFacts ==
    ASSUME TypeOK, NEW w \in Workers
    PROVE  /\ work[w] \in Work
           /\ work[w].todo \in Seq(Capsules)
           /\ ToDo(w) = Elems(work[w].todo)
           /\ ToDo(w) \subseteq Capsules
PROOF
<1>1. work[w] \in Work /\ work[w].todo \in Seq(Capsules)
  BY DEF TypeOK, Work
<1>2. ToDo(w) = Elems(work[w].todo)
  BY DEF ToDo, Elems
<1>3. \A i \in 1..Len(work[w].todo) : work[w].todo[i] \in Capsules
  BY <1>1
<1> QED
  BY <1>1, <1>2, <1>3 DEF Elems

\* A step that reserves nothing and reaches no target: records of reserved
\* capsules change truthfully, requests change to requests that fit.
LEMMA SteadyStep ==
    ASSUME BatchInv, TypeOK', UNCHANGED <<started, journal>>,
           \A c \in Capsules : status[c] \in Dispatched => status'[c] \in Dispatched,
           \A c \in Capsules : status'[c] = "VERIFIED" => c \in journal,
           \A b \in started : \A c \in Leaves(b) : status'[c] # "FAILED",
           \A w \in Workers : \/ work'[w] = work[w]
                              \/ work'[w].at # "dispatch" /\ Fits(work'[w])
    PROVE  BatchInv'
PROOF
<1>1. /\ started \subseteq Compositions
      /\ journal \subseteq Capsules
      /\ \A b \in started : Leaves(b) \subseteq Capsules
  BY LeavesFacts DEF BatchInv, TypeOK
<1>2. \A w \in Workers : Fits(work'[w])
  BY DEF BatchInv
<1>3. \A w \in Workers : Elems(work'[w].todo) \subseteq Capsules
  <2>1. \A w \in Workers : work'[w].todo \in Seq(Capsules)
    BY DEF TypeOK, Work
  <2>2. ASSUME NEW w \in Workers, NEW i \in 1..Len(work'[w].todo)
        PROVE  work'[w].todo[i] \in Capsules
    BY <2>1
  <2> QED
    BY <2>2 DEF Elems
<1>4. \A w \in Workers : Fits(work[w])'
  <2> SUFFICES ASSUME NEW w \in Workers PROVE Fits(work[w])'
    OBVIOUS
  <2>1. Shaped(work[w])'
    BY <1>2 DEF Fits, Shaped
  <2>2. Reserved(work[w])'
    BY <1>2, <1>3 DEF Fits, Reserved
  <2>3. Told(work[w])'
    BY <1>2 DEF Fits, Told
  <2>4. Carried(work[w])'
    BY <1>2 DEF Fits, Carried
  <2> QED
    BY <2>1, <2>2, <2>3, <2>4 DEF Fits
<1>5. RecordsInv'
  BY <1>1 DEF BatchInv, RecordsInv
<1>6. BatchIsAtomic'
  BY DEF BatchInv, BatchIsAtomic
<1>7. ChildReservedOnce'
  <2>1. \A v \in Workers : work'[v].at = "dispatch" =>
           work'[v] = work[v] /\ ToDo(v)' = ToDo(v)
    BY DEF ToDo
  <2>2. \A v, u \in Workers :
           v # u /\ work[v].at = "dispatch" /\ work[u].at = "dispatch"
           => ToDo(v) \cap ToDo(u) = {}
    BY DEF BatchInv, ChildReservedOnce
  <2>3. \A v, u \in Workers :
           v # u /\ work'[v].at = "dispatch" /\ work'[u].at = "dispatch"
           => ToDo(v)' \cap ToDo(u)' = {}
    BY <2>1, <2>2
  <2>4. \A a, b \in started' : a # b => Leaves(a) \cap Leaves(b) = {}
    BY DEF BatchInv, ChildReservedOnce
  <2> QED
    BY <2>3, <2>4 DEF ChildReservedOnce
<1> QED
  BY <1>4, <1>5, <1>6, <1>7 DEF BatchInv

\* A reservation takes capsules that are in nobody's hands.
LEMMA ReserveStep ==
    ASSUME BatchInv, TypeOK', NEW w \in Workers, NEW x \in Work,
           x.at = "dispatch", x.told = {}, Shaped(x),
           \A c \in Elems(x.todo) : Executable(c),
           work' = [work EXCEPT ![w] = x],
           UNCHANGED journal,
           \A c \in Capsules : status'[c] =
               IF c \in Elems(x.todo) THEN "EXECUTING" ELSE status[c],
           \/ x.batch = NoComposition /\ started' = started
           \/ /\ x.batch \in Compositions \ started
              /\ started' = started \cup {x.batch}
              /\ Elems(x.todo) = Leaves(x.batch)
    PROVE  BatchInv'
PROOF
<1>1. /\ started \subseteq Compositions
      /\ journal \subseteq Capsules
      /\ NoComposition \notin started
      /\ \A b \in Compositions : Leaves(b) \subseteq Capsules
      /\ x.todo \in Seq(Capsules)
  BY LeavesFacts, BatchAssumptions DEF BatchInv, TypeOK, Work
<1>2. Elems(x.todo) \subseteq Capsules
  <2>1. \A i \in 1..Len(x.todo) : x.todo[i] \in Capsules
    BY <1>1
  <2> QED
    BY <2>1 DEF Elems
<1>3. /\ \A c \in Elems(x.todo) : status[c] \notin Dispatched
      /\ Elems(x.todo) \cap journal = {}
      /\ \A b \in started : Leaves(b) \cap Elems(x.todo) = {}
      /\ \A v \in Workers : Elems(work[v].todo) \cap Elems(x.todo) = {}
  <2>1. \A c \in Elems(x.todo) : status[c] \notin Dispatched
    BY DEF Executable, Dispatched
  <2> QED
    BY <2>1 DEF BatchInv, RecordsInv, Fits, Reserved
<1>4. \A v \in Workers : work'[v] = IF v = w THEN x ELSE work[v]
  BY DEF BatchInv, TypeOK
<1>5. \A v \in Workers : Fits(work[v])'
  <2>1. Fits(work[w])'
    <3>1. Shaped(work[w])'
      BY <1>4 DEF Shaped
    <3>2. Reserved(work[w])'
      BY <1>2, <1>4 DEF Reserved, Dispatched
    <3>3. Told(work[w])'
      BY <1>4 DEF Told
    <3>4. Carried(work[w])'
      BY <1>3, <1>4 DEF Carried
    <3> QED
      BY <3>1, <3>2, <3>3, <3>4 DEF Fits
  <2>2. ASSUME NEW v \in Workers, v # w PROVE Fits(work[v])'
    <3>1. work'[v] = work[v] /\ Fits(work[v]) /\ Elems(work[v].todo) \subseteq Capsules
      BY <1>4, <2>2, WorkFacts DEF BatchInv
    <3>2. Shaped(work[v])'
      BY <3>1 DEF Fits, Shaped
    <3>3. Reserved(work[v])'
      BY <1>3, <3>1 DEF Fits, Reserved
    <3>4. Told(work[v])'
      BY <1>3, <3>1 DEF Fits, Told
    <3>5. Carried(work[v])'
      BY <1>3, <3>1 DEF Fits, Carried
    <3> QED
      BY <3>2, <3>3, <3>4, <3>5 DEF Fits
  <2> QED
    BY <2>1, <2>2
<1>6. RecordsInv'
  BY <1>1, <1>2, <1>3 DEF BatchInv, RecordsInv, Dispatched
<1>7. BatchIsAtomic'
  BY <1>3 DEF BatchInv, BatchIsAtomic
<1>8. ChildReservedOnce'
  <2>1. \A v \in Workers : ToDo(v) = Elems(work[v].todo) /\ ToDo(v)' = Elems(work'[v].todo)
    BY DEF ToDo, Elems
  <2>2. \A a, b \in started' : a # b => Leaves(a) \cap Leaves(b) = {}
    BY <1>3 DEF BatchInv, ChildReservedOnce
  <2>3. ASSUME NEW u \in Workers, NEW v \in Workers, u # v,
               work'[u].at = "dispatch", work'[v].at = "dispatch"
        PROVE  Elems(work'[u].todo) \cap Elems(work'[v].todo) = {}
    BY <1>3, <1>4, <2>1, <2>3 DEF BatchInv, ChildReservedOnce
  <2> QED
    BY <2>1, <2>2, <2>3 DEF ChildReservedOnce
<1> QED
  BY <1>5, <1>6, <1>7, <1>8 DEF BatchInv

\* The target's transaction applies all that one request carries.
LEMMA ApplyStep ==
    ASSUME BatchInv, NEW w \in Workers, NEW a \in Answers, TargetApply(w, a)
    PROVE  BatchInv'
PROOF
<1> DEFINE x == work[w]
           y == [x EXCEPT !.at = IF a = "lost" /\ x.batch # NoComposition
                                 THEN "doubt" ELSE "finish",
                          !.answer = a]
<1>1. /\ x \in Work /\ x.todo \in Seq(Capsules)
      /\ ToDo(w) = Elems(x.todo) /\ ToDo(w) \subseteq Capsules
  BY WorkFacts DEF BatchInv
<1>2. /\ x.at = "dispatch" /\ ToDo(w) \cap journal = {}
      /\ a \in {"confirmed", "lost"}
      /\ journal' = journal \cup ToDo(w)
      /\ work' = [work EXCEPT ![w] = y]
      /\ UNCHANGED <<status, created, started, outcome, crashes>>
  BY DEF TargetApply, Return, compositionDb
<1>3. /\ y \in Work
      /\ y.at = IF a = "lost" /\ x.batch # NoComposition THEN "doubt" ELSE "finish"
      /\ y.answer = a /\ y.batch = x.batch /\ y.todo = x.todo /\ y.told = x.told
  BY <1>1, <1>2 DEF Work, Places
<1> HIDE DEF y
<1>4. \A v \in Workers : work'[v] = IF v = w THEN y ELSE work[v]
  BY <1>2 DEF BatchInv, TypeOK
<1>5. Shaped(x) /\ Reserved(x) /\ Told(x) /\ Carried(x)
  BY DEF BatchInv, Fits
<1>6. TypeOK'
  <2>1. version' \in [Resources -> Nat]
    BY DEF BatchInv, TypeOK, TargetApply
  <2>2. work' \in [Workers -> Work]
    BY <1>2, <1>3 DEF BatchInv, TypeOK
  <2> QED
    BY <1>1, <1>2, <2>1, <2>2 DEF BatchInv, TypeOK
<1>7. Fits(work[w])'
  <2>1. Shaped(work[w])'
    BY <1>2, <1>3, <1>4, <1>5 DEF Shaped
  <2>2. Reserved(work[w])'
    BY <1>2, <1>3, <1>4, <1>5 DEF Reserved
  <2>3. Told(work[w])'
    BY <1>1, <1>2, <1>3, <1>4, <1>5 DEF Told
  <2>4. Carried(work[w])'
    BY <1>3, <1>4 DEF Carried
  <2> QED
    BY <2>1, <2>2, <2>3, <2>4 DEF Fits
<1>8. ASSUME NEW v \in Workers, v # w PROVE Fits(work[v])'
  <2>1. /\ work'[v] = work[v] /\ Fits(work[v])
        /\ ToDo(v) = Elems(work[v].todo)
    BY <1>4, <1>8, WorkFacts DEF BatchInv
  <2>2. work[v].at = "dispatch" => Elems(work[v].todo) \cap ToDo(w) = {}
    BY <1>2, <1>8, <2>1 DEF BatchInv, ChildReservedOnce
  <2>3. Shaped(work[v])' /\ Reserved(work[v])'
    BY <1>2, <2>1 DEF Fits, Shaped, Reserved
  <2>4. Told(work[v])'
    BY <1>2, <2>1 DEF Fits, Told
  <2>5. Carried(work[v])'
    BY <1>2, <2>1, <2>2 DEF Fits, Carried
  <2> QED
    BY <2>3, <2>4, <2>5 DEF Fits
<1>9. RecordsInv'
  BY <1>1, <1>2, <1>5 DEF BatchInv, RecordsInv, Reserved
<1>10. BatchIsAtomic'
  <2> SUFFICES ASSUME NEW b \in started
               PROVE  Leaves(b) \subseteq journal' \/ Leaves(b) \cap journal' = {}
    BY <1>2 DEF BatchIsAtomic
  <2>1. Leaves(b) \subseteq journal \/ Leaves(b) \cap journal = {}
    BY DEF BatchInv, BatchIsAtomic
  <2>2. CASE Leaves(b) \cap ToDo(w) = {}
    BY <1>2, <2>1, <2>2
  <2>3. CASE Leaves(b) \cap ToDo(w) # {}
    <3>1. x.batch = b
      BY <1>1, <1>2, <1>5, <2>3 DEF Carried
    <3>2. b \in Compositions
      BY DEF BatchInv, TypeOK
    <3>3. x.todo = ChildrenOf[b]
      BY <1>2, <1>5, <3>1, <3>2, BatchAssumptions DEF Shaped
    <3>4. ToDo(w) = Leaves(b)
      BY <1>1, <3>2, <3>3, LeavesFacts
    <3> QED
      BY <1>2, <3>4
  <2> QED
    BY <2>2, <2>3
<1>11. ChildReservedOnce'
  <2>1. \A v \in Workers : work'[v].at = "dispatch" =>
           work'[v] = work[v] /\ ToDo(v)' = ToDo(v)
    BY <1>3, <1>4 DEF ToDo
  <2>2. \A v, u \in Workers :
           v # u /\ work[v].at = "dispatch" /\ work[u].at = "dispatch"
           => ToDo(v) \cap ToDo(u) = {}
    BY DEF BatchInv, ChildReservedOnce
  <2>3. \A v, u \in Workers :
           v # u /\ work'[v].at = "dispatch" /\ work'[u].at = "dispatch"
           => ToDo(v)' \cap ToDo(u)' = {}
    BY <2>1, <2>2
  <2>4. \A p, q \in started' : p # q => Leaves(p) \cap Leaves(q) = {}
    BY <1>2 DEF BatchInv, ChildReservedOnce
  <2> QED
    BY <2>3, <2>4 DEF ChildReservedOnce
<1> QED
  BY <1>6, <1>7, <1>8, <1>9, <1>10, <1>11 DEF BatchInv

\* One journaled child of a request's composition is all of them.
LEMMA ChildJournaled ==
    ASSUME BatchInv, NEW w \in Workers, work[w].batch # NoComposition,
           NEW c \in Elems(work[w].todo), c \in journal
    PROVE  Leaves(work[w].batch) \subseteq journal
PROOF
  BY DEF BatchInv, Fits, Reserved, BatchIsAtomic

\* The next child, or the outcome, is a request that fits.
LEMMA ProceedFits ==
    ASSUME BatchInv, NEW w \in Workers, NEW o \in Outcomes,
           NEW at \in {"finish", "doubt", "look"},
           work[w].at \in {"finish", "doubt", "look", "settle"},
           at = "finish" <=> work[w].at = "finish",
           at = "doubt" <=> work[w].at = "doubt",
           work[w].batch # NoComposition =>
              /\ o # "FAILED"
              /\ o = "VERIFIED" => Leaves(work[w].batch) \subseteq journal
    PROVE  /\ Onward(work[w], at, o) \in Work
           /\ Onward(work[w], at, o).at # "dispatch"
           /\ Fits(Onward(work[w], at, o))
PROOF
<1> DEFINE x == work[w]
           y == Onward(x, at, o)
<1>1. /\ x \in Work /\ x.todo \in Seq(Capsules)
      /\ Shaped(x) /\ Reserved(x) /\ Told(x)
  BY WorkFacts DEF BatchInv, Fits
<1>2. Len(x.todo) > 0
  BY <1>1 DEF Shaped
<1>3. /\ Tail(x.todo) \in Seq(Capsules)
      /\ Elems(Tail(x.todo)) \subseteq Elems(x.todo)
      /\ Len(x.todo) \in Nat /\ Len(Tail(x.todo)) = Len(x.todo) - 1
  BY <1>1, <1>2, HeadAndTail
<1>4. Elems(<<>>) = {}
  BY DEF Elems
<1>0. /\ at \in Places /\ "record" \in Places
      /\ x.told \cup {o} \in SUBSET Outcomes
      /\ <<>> \in Seq(Capsules)
      /\ x.at # "idle"
  <2>1. x.told \in SUBSET Outcomes
    BY <1>1 DEF Work
  <2> QED
    BY <2>1 DEF Places
<1>5. CASE Len(x.todo) > 1
  <2>1. y = [x EXCEPT !.at = at, !.todo = Tail(x.todo), !.told = x.told \cup {o}]
    BY <1>5 DEF Onward
  <2>2. /\ y \in Work
        /\ y.at = at /\ y.todo = Tail(x.todo) /\ y.told = x.told \cup {o}
        /\ y.batch = x.batch /\ y.answer = x.answer
    BY <1>0, <1>1, <1>3, <2>1 DEF Work
  <2>3. x.batch # NoComposition
    <3> DEFINE n == Len(x.todo)
    <3>1. n \in Nat /\ n > 1
      BY <1>3, <1>5
    <3> HIDE DEF n
    <3>2. n # 1
      BY <3>1
    <3>3. x.batch = NoComposition => n = 1
      BY <1>0, <1>1 DEF Shaped, n
    <3> QED
      BY <3>2, <3>3
  <2> HIDE DEF y, x
  <2>4. Shaped(y)
    BY <1>1, <1>3, <1>5, <2>2, <2>3 DEF Shaped, x
  <2>5. Reserved(y)
    BY <1>1, <1>3, <2>2 DEF Reserved
  <2>6. Told(y)
    BY <1>1, <1>3, <2>2, <2>3 DEF Told, Outcomes, Shaped, x
  <2>7. Carried(y) /\ y.at # "dispatch"
    BY <2>2 DEF Carried
  <2> QED
    BY <2>2, <2>4, <2>5, <2>6, <2>7 DEF Fits, x, y
<1>6. CASE ~(Len(x.todo) > 1) /\ x.batch = NoComposition
  <2>1. y = Idle
    BY <1>6 DEF Onward
  <2> QED
    BY <2>1, IdleFits
<1>7. CASE ~(Len(x.todo) > 1) /\ x.batch # NoComposition
  <2>1. y = [x EXCEPT !.at = "record", !.todo = <<>>, !.told = x.told \cup {o}]
    BY <1>7 DEF Onward
  <2>2. /\ y \in Work
        /\ y.at = "record" /\ y.todo = <<>> /\ y.told = x.told \cup {o}
        /\ y.batch = x.batch /\ y.answer = x.answer
    BY <1>0, <1>1, <2>1 DEF Work
  <2> HIDE DEF y, x
  <2>3. Shaped(y) /\ Carried(y) /\ y.at # "dispatch"
    BY <1>7, <2>2 DEF Shaped, Carried
  <2>4. Reserved(y)
    BY <1>1, <1>4, <2>2 DEF Reserved
  <2>5. Told(y)
    BY <1>1, <1>7, <2>2 DEF Told, Outcomes, x
  <2> QED
    BY <2>2, <2>3, <2>4, <2>5 DEF Fits, x, y
<1> QED
  BY <1>5, <1>6, <1>7

\* The finish of a child records what is true of the journal.
LEMMA FinishStep ==
    ASSUME BatchInv, NEW w \in Workers, NEW a \in Answers, FinishChild(w, a)
    PROVE  BatchInv'
PROOF
<1> DEFINE x == work[w]
           c == Head(x.todo)
           y == Onward(x, x.at, Report(a))
<1>1. /\ x \in Work /\ x.todo \in Seq(Capsules)
      /\ Shaped(x) /\ Reserved(x) /\ Told(x)
  BY WorkFacts DEF BatchInv, Fits
<1>2. /\ x.at \in {"finish", "doubt"}
      /\ a = x.answer \/ a = "lost"
      /\ status' = [status EXCEPT ![c] = Report(a)]
      /\ UNCHANGED <<created, started, outcome, version, journal, crashes>>
  BY DEF FinishChild, compositionDb, targetDb
<1>3. work' = [work EXCEPT ![w] = y]
  BY DEF FinishChild, Proceed
<1>4. /\ Len(x.todo) > 0
      /\ c \in Elems(x.todo) /\ c \in Capsules
  BY <1>1, <1>2, HeadAndTail DEF Shaped
<1>5. Report(a) \in Outcomes
  BY DEF Report, Outcomes
<1>6. Report(a) = "VERIFIED" => x.at = "finish" /\ c \in journal
  BY <1>1, <1>2, <1>4 DEF Report, Shaped, Told
<1>7. Report(a) = "FAILED" =>
         /\ x.batch = NoComposition
         /\ \A b \in started : c \notin Leaves(b)
  BY <1>1, <1>2, <1>4 DEF Report, Shaped, Told
<1>8. y \in Work /\ y.at # "dispatch" /\ Fits(y)
  <2>1. x.batch # NoComposition =>
           /\ Report(a) # "FAILED"
           /\ Report(a) = "VERIFIED" => Leaves(x.batch) \subseteq journal
    BY <1>4, <1>6, <1>7, ChildJournaled
  <2> HIDE DEF c
  <2> QED
    BY <1>2, <1>5, <2>1, ProceedFits
<1> HIDE DEF y
<1>9. TypeOK'
  <2>1. status' \in [Capsules -> Statuses]
    BY <1>2, <1>5 DEF BatchInv, TypeOK, Statuses, Dispatched, Outcomes
  <2>2. work' \in [Workers -> Work]
    BY <1>3, <1>8 DEF BatchInv, TypeOK
  <2> QED
    BY <1>2, <2>1, <2>2 DEF BatchInv, TypeOK
<1>10. \A d \in Capsules : status'[d] = IF d = c THEN Report(a) ELSE status[d]
  BY <1>2 DEF BatchInv, TypeOK
<1>11. \A d \in Capsules : status[d] \in Dispatched => status'[d] \in Dispatched
  BY <1>5, <1>10 DEF Outcomes, Dispatched
<1>12. \A d \in Capsules : status'[d] = "VERIFIED" => d \in journal
  BY <1>6, <1>10 DEF BatchInv, RecordsInv
<1>13. \A b \in started : \A d \in Leaves(b) : status'[d] # "FAILED"
  <2>1. \A b \in started : Leaves(b) \subseteq Capsules
    BY LeavesFacts DEF BatchInv, TypeOK
  <2> HIDE DEF c
  <2> QED
    BY <1>7, <1>10, <2>1 DEF BatchInv, RecordsInv
<1>14. \A v \in Workers : \/ work'[v] = work[v]
                          \/ work'[v].at # "dispatch" /\ Fits(work'[v])
  BY <1>3, <1>8 DEF BatchInv, TypeOK
<1> QED
  BY <1>2, <1>9, <1>11, <1>12, <1>13, <1>14, SteadyStep

LEMMA SettleStep ==
    ASSUME BatchInv, NEW w \in Workers, Settle(w) PROVE BatchInv'
PROOF
<1> DEFINE x == work[w]
           c == Head(x.todo)
           o == Report(x.answer)
           y == Onward(x, "look", o)
<1>1. /\ x \in Work /\ x.todo \in Seq(Capsules)
      /\ Shaped(x) /\ Reserved(x) /\ Told(x)
  BY WorkFacts DEF BatchInv, Fits
<1>2. /\ x.at = "settle"
      /\ status' = [status EXCEPT ![c] = o]
      /\ UNCHANGED <<created, started, outcome, version, journal, crashes>>
  BY DEF Settle, compositionDb, targetDb
<1>3. work' = [work EXCEPT ![w] = y]
  BY DEF Settle, Proceed
<1>4. /\ Len(x.todo) > 0
      /\ c \in Elems(x.todo) /\ c \in Capsules
  BY <1>1, <1>2, HeadAndTail DEF Shaped
<1>5. o \in {"VERIFIED", "UNCERTAIN"}
  BY <1>1, <1>2 DEF Report, Shaped
<1>6. o = "VERIFIED" => c \in journal
  BY <1>1, <1>2 DEF Report, Told
<1>7. y \in Work /\ y.at # "dispatch" /\ Fits(y)
  <2>1. x.batch # NoComposition =>
           /\ o # "FAILED"
           /\ o = "VERIFIED" => Leaves(x.batch) \subseteq journal
    BY <1>4, <1>5, <1>6, ChildJournaled
  <2>2. o \in Outcomes
    BY <1>5 DEF Outcomes
  <2> HIDE DEF c, o
  <2> QED
    BY <1>2, <2>1, <2>2, ProceedFits
<1> HIDE DEF y, o
<1>8. TypeOK'
  <2>1. status' \in [Capsules -> Statuses]
    BY <1>2, <1>5 DEF BatchInv, TypeOK, Statuses, Dispatched
  <2>2. work' \in [Workers -> Work]
    BY <1>3, <1>7 DEF BatchInv, TypeOK
  <2> QED
    BY <1>2, <2>1, <2>2 DEF BatchInv, TypeOK
<1>9. \A d \in Capsules : status'[d] = IF d = c THEN o ELSE status[d]
  BY <1>2 DEF BatchInv, TypeOK
<1>10. \A d \in Capsules : status[d] \in Dispatched => status'[d] \in Dispatched
  BY <1>5, <1>9 DEF Dispatched
<1>11. \A d \in Capsules : status'[d] = "VERIFIED" => d \in journal
  BY <1>6, <1>9 DEF BatchInv, RecordsInv
<1>12. \A b \in started : \A d \in Leaves(b) : status'[d] # "FAILED"
  <2>1. \A b \in started : Leaves(b) \subseteq Capsules
    BY LeavesFacts DEF BatchInv, TypeOK
  <2> QED
    BY <1>5, <1>9, <2>1 DEF BatchInv, RecordsInv
<1>13. \A v \in Workers : \/ work'[v] = work[v]
                          \/ work'[v].at # "dispatch" /\ Fits(work'[v])
  BY <1>3, <1>7 DEF BatchInv, TypeOK
<1> QED
  BY <1>2, <1>8, <1>10, <1>11, <1>12, <1>13, SteadyStep

\* A step of one request that touches no record of a capsule and reaches no
\* target.
LEMMA RequestStep ==
    ASSUME BatchInv, NEW w \in Workers, NEW y \in Work,
           y.at # "dispatch", Fits(y), work' = [work EXCEPT ![w] = y],
           UNCHANGED <<status, created, started, version, journal>>,
           outcome' \in [Compositions -> Outcomes \cup {"none"}],
           crashes' \in 0..MaxCrashes
    PROVE  BatchInv'
PROOF
<1>1. TypeOK'
  BY DEF BatchInv, TypeOK
<1>2. \A v \in Workers : \/ work'[v] = work[v]
                         \/ work'[v].at # "dispatch" /\ Fits(work'[v])
  BY DEF BatchInv, TypeOK
<1>3. \A b \in started : \A c \in Leaves(b) : status'[c] # "FAILED"
  BY DEF BatchInv, RecordsInv
<1>4. \A c \in Capsules : status'[c] = "VERIFIED" => c \in journal
  BY DEF BatchInv, RecordsInv
<1> QED
  BY <1>1, <1>2, <1>3, <1>4, SteadyStep

\* The bound counter and the outcomes that most steps leave alone.
LEMMA SteadyTypes ==
    ASSUME BatchInv
    PROVE  /\ outcome \in [Compositions -> Outcomes \cup {"none"}]
           /\ crashes \in 0..MaxCrashes
           /\ started \subseteq Compositions
           /\ NoComposition \notin started
PROOF
  BY BatchAssumptions DEF BatchInv, TypeOK

\* The target has refused, or has not been reached.
LEMMA UnreachedStep ==
    ASSUME BatchInv, NEW w \in Workers, NEW a \in Answers,
           work[w].at = "dispatch",
           a = "lost" \/ (a = "rejected" /\ work[w].batch = NoComposition),
           Return(w, a), UNCHANGED <<status, compositionDb, targetDb, crashes>>
    PROVE  BatchInv'
PROOF
<1> DEFINE x == work[w]
           y == [x EXCEPT !.at = IF a = "lost" /\ x.batch # NoComposition
                                 THEN "doubt" ELSE "finish",
                          !.answer = a]
<1>1. /\ x \in Work
      /\ Shaped(x) /\ Reserved(x) /\ Told(x) /\ Carried(x)
  BY WorkFacts DEF BatchInv, Fits
<1>2. /\ y \in Work
      /\ y.at = IF a = "lost" /\ x.batch # NoComposition THEN "doubt" ELSE "finish"
      /\ y.answer = a /\ y.batch = x.batch /\ y.todo = x.todo /\ y.told = x.told
  BY <1>1 DEF Work, Places
<1>3. work' = [work EXCEPT ![w] = y]
  BY DEF Return
<1> HIDE DEF y
<1>4. Shaped(y)
  BY <1>1, <1>2 DEF Shaped
<1>5. Reserved(y)
  BY <1>1, <1>2 DEF Reserved
<1>6. Told(y)
  BY <1>1, <1>2, SteadyTypes DEF Told, Carried
<1>7. Carried(y) /\ y.at # "dispatch"
  BY <1>2 DEF Carried
<1> QED
  BY <1>2, <1>3, <1>4, <1>5, <1>6, <1>7, SteadyTypes, RequestStep
     DEF Fits, compositionDb, targetDb

LEMMA FinishThrowsStep ==
    ASSUME BatchInv, NEW w \in Workers, FinishThrows(w) PROVE BatchInv'
PROOF
<1> DEFINE x == work[w]
           y == [x EXCEPT !.at = "doubt", !.todo = ChildrenOf[x.batch],
                          !.answer = "lost"]
<1>1. /\ x \in Work /\ Shaped(x) /\ Reserved(x) /\ Told(x)
  BY WorkFacts DEF BatchInv, Fits
<1>2. /\ x.at = "finish" /\ x.batch # NoComposition
      /\ work' = [work EXCEPT ![w] = y]
      /\ UNCHANGED <<status, created, started, outcome, version, journal, crashes>>
  BY DEF FinishThrows, compositionDb, targetDb
<1>3. x.batch \in started /\ x.batch \in Compositions
  BY <1>1, <1>2, SteadyTypes DEF Reserved
<1>4. /\ ChildrenOf[x.batch] \in Seq(Capsules) /\ Len(ChildrenOf[x.batch]) > 0
      /\ Leaves(x.batch) = Elems(ChildrenOf[x.batch])
  BY <1>3, LeavesFacts
<1>5. /\ y \in Work
      /\ y.at = "doubt" /\ y.answer = "lost" /\ y.batch = x.batch
      /\ y.todo = ChildrenOf[x.batch] /\ y.told = x.told
  BY <1>1, <1>4 DEF Work, Places, Answers
<1> HIDE DEF y
<1>6. Shaped(y)
  BY <1>2, <1>4, <1>5 DEF Shaped
<1>7. Reserved(y)
  BY <1>3, <1>4, <1>5 DEF Reserved, BatchInv, RecordsInv
<1>8. Told(y)
  BY <1>1, <1>5 DEF Told
<1>9. Carried(y) /\ y.at # "dispatch"
  BY <1>5 DEF Carried
<1> QED
  BY <1>2, <1>5, <1>6, <1>7, <1>8, <1>9, SteadyTypes, RequestStep DEF Fits

LEMMA LookStep ==
    ASSUME BatchInv, NEW w \in Workers, Look(w) PROVE BatchInv'
PROOF
<1> DEFINE x == work[w]
           o == status[Head(x.todo)]
           y == IF o \in {"VERIFIED", "FAILED"} THEN Onward(x, "look", o)
                ELSE [x EXCEPT !.at = "probe"]
<1>1. /\ x \in Work /\ x.todo \in Seq(Capsules)
      /\ Shaped(x) /\ Reserved(x) /\ Told(x)
  BY WorkFacts DEF BatchInv, Fits
<1>2. /\ x.at = "look" /\ work' = [work EXCEPT ![w] = y]
      /\ UNCHANGED <<status, created, started, outcome, version, journal, crashes>>
  BY DEF Look, Proceed, compositionDb, targetDb
<1>3. /\ Head(x.todo) \in Elems(x.todo) /\ Head(x.todo) \in Capsules
  BY <1>1, <1>2, HeadAndTail DEF Shaped
<1>4. y \in Work /\ y.at # "dispatch" /\ Fits(y)
  <2>1. CASE o \in {"VERIFIED", "FAILED"}
    <3>1. x.batch # NoComposition => o # "FAILED"
      BY <1>1, <1>3 DEF Reserved, BatchInv, RecordsInv
    <3>2. o = "VERIFIED" => Head(x.todo) \in journal
      BY <1>3 DEF BatchInv, RecordsInv
    <3>3. x.batch # NoComposition /\ o = "VERIFIED" => Leaves(x.batch) \subseteq journal
      BY <1>3, <3>2, ChildJournaled
    <3>4. o \in Outcomes /\ y = Onward(x, "look", o)
      BY <2>1 DEF Outcomes
    <3> HIDE DEF o, y
    <3> QED
      BY <1>2, <3>1, <3>3, <3>4, ProceedFits
  <2>2. CASE ~(o \in {"VERIFIED", "FAILED"})
    <3>1. /\ y \in Work
          /\ y.at = "probe" /\ y.answer = x.answer /\ y.batch = x.batch
          /\ y.todo = x.todo /\ y.told = x.told
      BY <1>1, <2>2 DEF Work, Places
    <3> HIDE DEF y, o
    <3>2. Shaped(y)
      BY <1>1, <1>2, <3>1 DEF Shaped
    <3>3. Reserved(y) /\ Told(y) /\ Carried(y)
      BY <1>1, <3>1 DEF Reserved, Told, Carried
    <3> QED
      BY <3>1, <3>2, <3>3 DEF Fits
  <2> QED
    BY <2>1, <2>2
<1> HIDE DEF y
<1> QED
  BY <1>2, <1>4, SteadyTypes, RequestStep

LEMMA ProbeStep ==
    ASSUME BatchInv, NEW w \in Workers, Probe(w) PROVE BatchInv'
PROOF
<1> DEFINE x == work[w]
           a == IF Head(x.todo) \in journal THEN "confirmed" ELSE "lost"
           y == [x EXCEPT !.at = "settle", !.answer = a]
<1>1. x \in Work /\ Shaped(x) /\ Reserved(x) /\ Told(x)
  BY WorkFacts DEF BatchInv, Fits
<1>2. /\ x.at = "probe" /\ work' = [work EXCEPT ![w] = y]
      /\ UNCHANGED <<status, created, started, outcome, version, journal, crashes>>
  BY DEF Probe, compositionDb, targetDb
<1>3. /\ y \in Work
      /\ y.at = "settle" /\ y.answer = a /\ y.batch = x.batch
      /\ y.todo = x.todo /\ y.told = x.told
  BY <1>1 DEF Work, Places, Answers
<1>4. a = "lost" \/ (a = "confirmed" /\ Head(x.todo) \in journal)
  OBVIOUS
<1> HIDE DEF y, a
<1>5. Shaped(y)
  BY <1>1, <1>2, <1>3, <1>4 DEF Shaped
<1>6. Reserved(y) /\ Carried(y)
  BY <1>1, <1>3 DEF Reserved, Carried
<1>7. Told(y)
  BY <1>1, <1>3, <1>4 DEF Told
<1> QED
  BY <1>2, <1>3, <1>5, <1>6, <1>7, SteadyTypes, RequestStep DEF Fits

LEMMA RecordOutcomeStep ==
    ASSUME BatchInv, NEW w \in Workers, RecordOutcome(w) PROVE BatchInv'
PROOF
<1>1. Verdict(work[w].told) \in Outcomes
  BY DEF Verdict, Outcomes
<1>2. outcome' \in [Compositions -> Outcomes \cup {"none"}]
  BY <1>1, SteadyTypes DEF RecordOutcome
<1>3. /\ work' = [work EXCEPT ![w] = Idle]
      /\ UNCHANGED <<status, created, started, version, journal, crashes>>
  BY DEF RecordOutcome, targetDb
<1> QED
  BY <1>2, <1>3, IdleFits, SteadyTypes, RequestStep

LEMMA CrashStep ==
    ASSUME BatchInv, NEW w \in Workers, Crash(w) PROVE BatchInv'
PROOF
<1>1. /\ work' = [work EXCEPT ![w] = Idle]
      /\ UNCHANGED <<status, created, started, outcome, version, journal>>
      /\ crashes < MaxCrashes /\ crashes' = crashes + 1
  BY DEF Crash, compositionDb, targetDb
<1>2. crashes' \in 0..MaxCrashes
  BY <1>1, SteadyTypes, BatchAssumptions
<1> QED
  BY <1>1, <1>2, IdleFits, SteadyTypes, RequestStep

\* A reconciliation starts with capsules that were reserved.
LEMMA ReconcileStep ==
    ASSUME BatchInv, NEW w \in Workers,
           \/ \E b \in Compositions : ReconcileBatch(w, b)
           \/ \E c \in Capsules : ReconcileAlone(w, c)
    PROVE  BatchInv'
PROOF
<1>1. ASSUME NEW b \in Compositions, ReconcileBatch(w, b) PROVE BatchInv'
  <2> DEFINE y == Job("look", b, ChildrenOf[b])
  <2>1. /\ ChildrenOf[b] \in Seq(Capsules) /\ Len(ChildrenOf[b]) > 0
        /\ Leaves(b) = Elems(ChildrenOf[b])
    BY LeavesFacts
  <2>2. /\ y \in Work /\ y.at = "look" /\ y.batch = b
        /\ y.todo = ChildrenOf[b] /\ y.told = {} /\ y.answer = "none"
    BY <2>1 DEF Job, Work, Places, Answers
  <2>3. /\ b \in started /\ b # NoComposition
        /\ work' = [work EXCEPT ![w] = y]
        /\ UNCHANGED <<status, created, started, outcome, version, journal, crashes>>
    BY <1>1, BatchAssumptions DEF ReconcileBatch, compositionDb, targetDb
  <2> HIDE DEF y
  <2>4. Shaped(y)
    BY <2>1, <2>2, <2>3 DEF Shaped
  <2>5. Reserved(y)
    BY <2>1, <2>2, <2>3 DEF Reserved, BatchInv, RecordsInv
  <2>6. Told(y) /\ Carried(y)
    BY <2>2 DEF Told, Carried
  <2> QED
    BY <2>2, <2>3, <2>4, <2>5, <2>6, SteadyTypes, RequestStep DEF Fits
<1>2. ASSUME NEW c \in Capsules, ReconcileAlone(w, c) PROVE BatchInv'
  <2> DEFINE y == Job("look", NoComposition, <<c>>)
  <2>1. <<c>> \in Seq(Capsules) /\ Len(<<c>>) = 1 /\ Elems(<<c>>) = {c}
    BY DEF Elems
  <2>2. /\ y \in Work /\ y.at = "look" /\ y.batch = NoComposition
        /\ y.todo = <<c>> /\ y.told = {} /\ y.answer = "none"
    BY <2>1 DEF Job, Work, Places, Answers
  <2>3. /\ status[c] \in {"EXECUTING", "UNCERTAIN"}
        /\ work' = [work EXCEPT ![w] = y]
        /\ UNCHANGED <<status, created, started, outcome, version, journal, crashes>>
    BY <1>2 DEF ReconcileAlone, compositionDb, targetDb
  <2> HIDE DEF y
  <2>4. Shaped(y)
    BY <2>1, <2>2 DEF Shaped
  <2>5. Reserved(y)
    BY <2>1, <2>2, <2>3 DEF Reserved, Dispatched
  <2>6. Told(y) /\ Carried(y)
    BY <2>2 DEF Told, Carried
  <2> QED
    BY <2>2, <2>3, <2>4, <2>5, <2>6, SteadyTypes, RequestStep DEF Fits
<1> QED
  BY <1>1, <1>2

LEMMA ReservationStep ==
    ASSUME BatchInv, NEW w \in Workers,
           \/ \E b \in Compositions : ReserveBatch(w, b)
           \/ \E c \in Capsules : ReserveAlone(w, c)
    PROVE  BatchInv'
PROOF
<1>1. ASSUME NEW b \in Compositions, ReserveBatch(w, b) PROVE BatchInv'
  <2> DEFINE x == Job("dispatch", b, ChildrenOf[b])
  <2>1. /\ ChildrenOf[b] \in Seq(Capsules) /\ Len(ChildrenOf[b]) > 0
        /\ Leaves(b) = Elems(ChildrenOf[b])
    BY LeavesFacts
  <2>2. /\ x \in Work /\ x.at = "dispatch" /\ x.batch = b
        /\ x.todo = ChildrenOf[b] /\ x.told = {} /\ x.answer = "none"
    BY <2>1 DEF Job, Work, Places, Answers
  <2>3. /\ b \in created \ started /\ b # NoComposition
        /\ \A c \in Leaves(b) : Executable(c)
        /\ work' = [work EXCEPT ![w] = x]
        /\ started' = started \cup {b}
        /\ status' = [c \in Capsules |->
                        IF c \in Leaves(b) THEN "EXECUTING" ELSE status[c]]
        /\ UNCHANGED <<created, outcome, version, journal, crashes>>
    BY <1>1, BatchAssumptions DEF ReserveBatch, targetDb
  <2> HIDE DEF x
  <2>4. Shaped(x)
    BY <2>1, <2>2, <2>3 DEF Shaped
  <2>5. TypeOK'
    <3>1. status' \in [Capsules -> Statuses]
      BY <2>3 DEF BatchInv, TypeOK, Statuses, Dispatched
    <3>2. work' \in [Workers -> Work]
      BY <2>2, <2>3 DEF BatchInv, TypeOK
    <3> QED
      BY <2>3, <3>1, <3>2 DEF BatchInv, TypeOK
  <2>6. \A c \in Capsules : status'[c] =
           IF c \in Elems(x.todo) THEN "EXECUTING" ELSE status[c]
    BY <2>1, <2>2, <2>3
  <2> QED
    BY <2>1, <2>2, <2>3, <2>4, <2>5, <2>6, ReserveStep
<1>2. ASSUME NEW c \in Capsules, ReserveAlone(w, c) PROVE BatchInv'
  <2> DEFINE x == Job("dispatch", NoComposition, <<c>>)
  <2>1. <<c>> \in Seq(Capsules) /\ Len(<<c>>) = 1 /\ Elems(<<c>>) = {c}
    BY DEF Elems
  <2>2. /\ x \in Work /\ x.at = "dispatch" /\ x.batch = NoComposition
        /\ x.todo = <<c>> /\ x.told = {} /\ x.answer = "none"
    BY <2>1 DEF Job, Work, Places, Answers
  <2>3. /\ Executable(c)
        /\ work' = [work EXCEPT ![w] = x]
        /\ status' = [status EXCEPT ![c] = "EXECUTING"]
        /\ UNCHANGED <<created, started, outcome, version, journal, crashes>>
    BY <1>2 DEF ReserveAlone, compositionDb, targetDb
  <2> HIDE DEF x
  <2>4. Shaped(x)
    BY <2>1, <2>2 DEF Shaped
  <2>5. TypeOK'
    <3>1. status' \in [Capsules -> Statuses]
      BY <2>3 DEF BatchInv, TypeOK, Statuses, Dispatched
    <3>2. work' \in [Workers -> Work]
      BY <2>2, <2>3 DEF BatchInv, TypeOK
    <3> QED
      BY <2>3, <3>1, <3>2 DEF BatchInv, TypeOK
  <2>6. \A d \in Capsules : status'[d] =
           IF d \in Elems(x.todo) THEN "EXECUTING" ELSE status[d]
    BY <2>1, <2>2, <2>3 DEF BatchInv, TypeOK
  <2> QED
    BY <2>1, <2>2, <2>3, <2>4, <2>5, <2>6, ReserveStep
<1> QED
  BY <1>1, <1>2

\* What happens to capsules and compositions before any reservation.
LEMMA PrepareStep ==
    ASSUME BatchInv,
           \/ \E b \in Compositions : Create(b)
           \/ \E c \in Capsules : Certify(c) \/ Cancel(c)
    PROVE  BatchInv'
PROOF
<1>1. /\ UNCHANGED <<started, journal, work>>
      /\ \A c \in Capsules :
            \/ status'[c] = status[c]
            \/ status[c] \notin Dispatched /\ status'[c] \in {"CERTIFIED", "CANCELLED"}
  BY DEF BatchInv, TypeOK, Create, Certify, Cancel, compositionDb, targetDb, Dispatched
<1>2. TypeOK'
  BY DEF BatchInv, TypeOK, Create, Certify, Cancel, compositionDb, targetDb, Statuses
<1>3. \A b \in started : \A c \in Leaves(b) : c \in Capsules
  BY LeavesFacts DEF BatchInv, TypeOK
<1>4. \A c \in Capsules : status[c] \in Dispatched => status'[c] \in Dispatched
  BY <1>1
<1>5. \A c \in Capsules : status'[c] = "VERIFIED" => c \in journal
  BY <1>1 DEF BatchInv, RecordsInv
<1>6. \A b \in started : \A c \in Leaves(b) : status'[c] # "FAILED"
  BY <1>1, <1>3 DEF BatchInv, RecordsInv
<1>7. UNCHANGED <<started, journal>>
  BY <1>1
<1>8. \A w \in Workers : \/ work'[w] = work[w]
                         \/ work'[w].at # "dispatch" /\ Fits(work'[w])
  <2>1. work' = work
    BY <1>1
  <2>2. \A w \in Workers : work'[w] = work[w]
    BY <2>1
  <2> QED
    BY <2>2
<1> QED
  BY <1>2, <1>4, <1>5, <1>6, <1>7, <1>8, SteadyStep

LEMMA NextBatchInv == BatchInv /\ [Next]_vars => BatchInv'
PROOF
<1> SUFFICES ASSUME BatchInv, [Next]_vars PROVE BatchInv'
  OBVIOUS
<1>1. ASSUME NEW w \in Workers, Continue(w) PROVE BatchInv'
  <2>1. CASE TargetReject(w)
    <3>1. \E a \in Answers :
             /\ a = "lost" \/ (a = "rejected" /\ work[w].batch = NoComposition)
             /\ Return(w, a)
      <4>1. CASE work[w].batch = NoComposition
        BY <2>1, <4>1 DEF TargetReject, Answers
      <4>2. CASE work[w].batch # NoComposition
        BY <2>1, <4>2 DEF TargetReject, Answers
      <4> QED
        BY <4>1, <4>2
    <3>2. /\ work[w].at = "dispatch"
          /\ UNCHANGED <<status, compositionDb, targetDb, crashes>>
      BY <2>1 DEF TargetReject
    <3> QED
      BY <3>1, <3>2, UnreachedStep
  <2>2. CASE TargetFail(w)
    <3>1. /\ "lost" \in Answers
          /\ work[w].at = "dispatch"
          /\ Return(w, "lost")
          /\ UNCHANGED <<status, compositionDb, targetDb, crashes>>
      BY <2>2 DEF TargetFail, Answers
    <3> QED
      BY <3>1, UnreachedStep
  <2> QED
    BY <1>1, <2>1, <2>2, ApplyStep, FinishStep, FinishThrowsStep,
       RecordOutcomeStep, LookStep, ProbeStep, SettleStep DEF Continue
<1>2. CASE UNCHANGED vars
  BY <1>2, SteadyStep DEF vars, BatchInv, TypeOK, RecordsInv
<1> QED
  BY <1>1, <1>2, PrepareStep, ReservationStep, ReconcileStep, CrashStep DEF Next

\* Whatever workers interleave, throw and die, requests fit what is recorded
\* and journaled (Compositions, Fabric.reserveBatch, SimulatedTarget).
THEOREM BatchInvariant == Spec => []BatchInv
PROOF
<1> QED
  BY InitBatchInv, NextBatchInv, PTL DEF Spec

\* Every variable keeps its type; an outcome of a composition is one of the
\* three that Compositions.recordOutcome knows.
THEOREM BatchTypes == Spec => []TypeOK
PROOF
<1>1. BatchInv => TypeOK
  BY DEF BatchInv
<1> QED
  BY <1>1, BatchInvariant, PTL

\* The target's transaction journals all children of a composition or none,
\* and no other request takes one of them to the target
\* (SimulatedTarget.executeBatch).
THEOREM AllOrNothing == Spec => []BatchIsAtomic
PROOF
<1>1. BatchInv => BatchIsAtomic
  BY DEF BatchInv
<1> QED
  BY <1>1, BatchInvariant, PTL

\* No capsule is reserved for two compositions, nor carried to the target by
\* two workers (Fabric.reserveBatch, Fabric.execute).
THEOREM NoDoubleReservation == Spec => []ChildReservedOnce
PROOF
<1>1. BatchInv => ChildReservedOnce
  BY DEF BatchInv
<1> QED
  BY <1>1, BatchInvariant, PTL
-----------------------------------------------------------------------------
(* A composition implements OneShotAction.                                 *)

Carries(w, b) == work[w].at = "dispatch" /\ work[w].batch = b

\* Where the target has journaled nothing new, a phase moves only with the
\* requests at the target.
LEMMA PhaseStill ==
    ASSUME NEW b \in Compositions,
           UNCHANGED journal, b \in started' <=> b \in started,
           \A w \in Workers : Carries(w, b)' <=> Carries(w, b)
    PROVE  Phase(b)' = Phase(b)
PROOF
<1>1. (\E w \in Workers : Carries(w, b)') <=> (\E w \in Workers : Carries(w, b))
  OBVIOUS
<1> QED
  BY <1>1 DEF Phase, Carries

\* A step that moves one composition's phase along is an abstract Advance.
LEMMA MovesAdvance ==
    ASSUME NEW b \in Compositions, <<Phase(b), Phase(b)'>> \in Shot!Moves,
           \A d \in Compositions \ {b} : Phase(d)' = Phase(d),
           outcome' = outcome
    PROVE  Shot!ShotNext
PROOF
<1>1. Phase(b)' \in Shot!Phases
  BY DEF Phase, Shot!Phases
<1>2. Shot!Advance(b, Phase(b)')
  BY DEF Shot!Advance
<1> QED
  BY <1>1, <1>2 DEF Shot!ShotNext

\* A request at the target with a composition is the only one.
LEMMA OneCarrier ==
    ASSUME BatchInv, NEW w \in Workers, NEW b \in Compositions, Carries(w, b)
    PROVE  /\ b \in started
           /\ ToDo(w) = Leaves(b)
           /\ Leaves(b) \cap journal = {} /\ Leaves(b) # {}
           /\ Phase(b) = "reserved"
           /\ \A v \in Workers : Carries(v, b) => v = w
PROOF
<1>1. \A v \in Workers : Carries(v, b) => b \in started /\ ToDo(v) = Leaves(b)
  <2> SUFFICES ASSUME NEW v \in Workers, Carries(v, b)
               PROVE  b \in started /\ ToDo(v) = Leaves(b)
    OBVIOUS
  <2>1. b # NoComposition
    BY BatchAssumptions
  <2>2. Fits(work[v]) /\ ToDo(v) = Elems(work[v].todo)
    BY WorkFacts DEF BatchInv
  <2>3. work[v].todo = ChildrenOf[b] /\ b \in started
    BY <2>1, <2>2 DEF Carries, Fits, Shaped, Reserved
  <2> QED
    BY <2>2, <2>3, LeavesFacts
<1>2. Leaves(b) \cap journal = {} /\ Leaves(b) # {}
  <2>1. ToDo(w) \cap journal = {}
    BY WorkFacts DEF BatchInv, Fits, Carried, Carries
  <2> QED
    BY <1>1, <2>1, LeavesFacts
<1>3. \A v \in Workers : Carries(v, b) => v = w
  BY <1>1, <1>2 DEF BatchInv, ChildReservedOnce, Carries
<1>4. Phase(b) = "reserved"
  BY <1>1, <1>2 DEF Phase, Carries
<1> QED
  BY <1>1, <1>2, <1>3, <1>4

\* The one chance of a composition is lost with the request that carries it.
LEMMA LeaveStep ==
    ASSUME BatchInv, NEW w \in Workers, NEW y, y.at # "dispatch",
           work' = [work EXCEPT ![w] = y],
           UNCHANGED <<started, journal, outcome>>
    PROVE  [Shot!ShotNext]_(Shot!shotVars)
PROOF
<1>1. \A v \in Workers : work'[v] = IF v = w THEN y ELSE work[v]
  BY DEF BatchInv, TypeOK
<1>2. \A b \in Compositions, v \in Workers : v # w => (Carries(v, b)' <=> Carries(v, b))
  BY <1>1 DEF Carries
<1>3. \A b \in Compositions : ~Carries(w, b)'
  BY <1>1 DEF Carries
<1>4. CASE \A b \in Compositions : ~Carries(w, b)
  <2>1. \A b \in Compositions : Phase(b)' = Phase(b)
    BY <1>2, <1>3, <1>4, PhaseStill
  <2> QED
    BY <2>1 DEF Shot!shotVars
<1>5. ASSUME NEW b \in Compositions, Carries(w, b) PROVE Shot!ShotNext
  <2>1. Phase(b) = "reserved"
    BY <1>5, OneCarrier
  <2>2. Phase(b)' = "spent"
    <3>1. /\ b \in started /\ ~(Leaves(b) \subseteq journal)
          /\ \A v \in Workers : ~Carries(v, b)'
      BY <1>2, <1>3, <1>5, OneCarrier
    <3> QED
      BY <3>1 DEF Phase, Carries
  <2>3. \A d \in Compositions \ {b} : ~Carries(w, d)
    BY <1>5 DEF Carries
  <2>4. \A d \in Compositions \ {b} : Phase(d)' = Phase(d)
    BY <1>2, <1>3, <2>3, PhaseStill
  <2>5. <<Phase(b), Phase(b)'>> \in Shot!Moves
    BY <2>1, <2>2 DEF Shot!Moves
  <2> QED
    BY <2>4, <2>5, MovesAdvance
<1> QED
  BY <1>4, <1>5

LEMMA OnwardLeaves ==
    ASSUME NEW x \in Work, NEW at, NEW o, at # "dispatch"
    PROVE  Onward(x, at, o).at # "dispatch"
PROOF
<1>1. CASE Len(x.todo) > 1
  BY <1>1 DEF Onward, Work
<1>2. CASE ~(Len(x.todo) > 1)
  BY <1>2, IdleFits DEF Onward, Work
<1> QED
  BY <1>1, <1>2

\* Requests that do not reach the target, or come back from it unheard.
LEMMA RequestShot ==
    ASSUME BatchInv, NEW w \in Workers,
           \/ TargetReject(w) \/ TargetFail(w) \/ FinishThrows(w)
           \/ Look(w) \/ Probe(w) \/ Settle(w) \/ Crash(w)
           \/ \E a \in Answers : FinishChild(w, a)
           \/ \E b \in Compositions : ReconcileBatch(w, b)
           \/ \E c \in Capsules : ReconcileAlone(w, c)
    PROVE  [Shot!ShotNext]_(Shot!shotVars)
PROOF
<1> DEFINE Away(y) == y.at # "dispatch" /\ work' = [work EXCEPT ![w] = y]
<1>1. work[w] \in Work
  BY WorkFacts DEF BatchInv
<1>2. UNCHANGED <<started, journal, outcome>>
  BY DEF TargetReject, TargetFail, FinishThrows, Look, Probe, Settle, Crash,
         FinishChild, ReconcileBatch, ReconcileAlone, compositionDb, targetDb
<1>3. \E y : Away(y)
  <2>1. ASSUME NEW a, Return(w, a) PROVE \E y : Away(y)
    <3> DEFINE y == [work[w] EXCEPT
                       !.at = IF a = "lost" /\ work[w].batch # NoComposition
                              THEN "doubt" ELSE "finish",
                       !.answer = a]
    <3>1. work' = [work EXCEPT ![w] = y]
      BY <2>1 DEF Return
    <3>2. y.at # "dispatch"
      BY <1>1 DEF Work
    <3> QED
      BY <3>1, <3>2
  <2>2. CASE TargetReject(w) \/ TargetFail(w)
    BY <2>1, <2>2 DEF TargetReject, TargetFail
  <2>3. CASE FinishThrows(w)
    <3> DEFINE y == [work[w] EXCEPT !.at = "doubt",
                                    !.todo = ChildrenOf[work[w].batch],
                                    !.answer = "lost"]
    <3>1. work' = [work EXCEPT ![w] = y] /\ y.at = "doubt"
      BY <1>1, <2>3 DEF FinishThrows, Work
    <3> HIDE DEF y
    <3> QED
      BY <3>1
  <2>4. CASE Probe(w)
    <3> DEFINE y == [work[w] EXCEPT !.at = "settle",
                                    !.answer = IF Head(work[w].todo) \in journal
                                               THEN "confirmed" ELSE "lost"]
    <3>1. work' = [work EXCEPT ![w] = y] /\ y.at = "settle"
      BY <1>1, <2>4 DEF Probe, Work
    <3> HIDE DEF y
    <3> QED
      BY <3>1
  <2>5. CASE Crash(w)
    BY <2>5, IdleFits DEF Crash
  <2>6. ASSUME NEW at, NEW o, at # "dispatch", Proceed(w, at, o)
        PROVE  \E y : Away(y)
    BY <1>1, <2>6, OnwardLeaves DEF Proceed
  <2>7. CASE Look(w)
    <3>1. CASE work' = [work EXCEPT ![w].at = "probe"]
      <4> DEFINE y == [work[w] EXCEPT !.at = "probe"]
      <4>1. work' = [work EXCEPT ![w] = y] /\ y.at = "probe"
        BY <1>1, <3>1 DEF Work
      <4> HIDE DEF y
      <4> QED
        BY <4>1
    <3>2. CASE Proceed(w, "look", status[Head(work[w].todo)])
      BY <2>6, <3>2
    <3> QED
      BY <2>7, <3>1, <3>2 DEF Look
  <2>8. CASE Settle(w)
    BY <2>6, <2>8 DEF Settle
  <2>9. ASSUME NEW a \in Answers, FinishChild(w, a) PROVE \E y : Away(y)
    <3>1. work[w].at # "dispatch" /\ Proceed(w, work[w].at, Report(a))
      BY <2>9 DEF FinishChild
    <3> QED
      BY <2>6, <3>1
  <2>10. ASSUME NEW b, NEW todo, work' = [work EXCEPT ![w] = Job("look", b, todo)]
         PROVE  \E y : Away(y)
    <3>1. Job("look", b, todo).at = "look"
      BY DEF Job
    <3> QED
      BY <2>10, <3>1
  <2> QED
    BY <2>2, <2>3, <2>4, <2>5, <2>7, <2>8, <2>9, <2>10
       DEF ReconcileBatch, ReconcileAlone
<1> QED
  BY <1>2, <1>3, LeaveStep

\* What leaves the compositions, the target and the requests there alone.
LEMMA QuietShot ==
    ASSUME UNCHANGED <<started, journal, outcome>>,
           \A w \in Workers : \A b \in Compositions :
              Carries(w, b)' <=> Carries(w, b)
    PROVE  UNCHANGED Shot!shotVars
PROOF
<1>1. \A b \in Compositions : Phase(b)' = Phase(b)
  BY PhaseStill
<1> QED
  BY <1>1 DEF Shot!shotVars

LEMMA PrepareShot ==
    ASSUME BatchInv,
           \/ \E b \in Compositions : Create(b)
           \/ \E c \in Capsules : Certify(c) \/ Cancel(c)
           \/ \E w \in Workers, c \in Capsules : ReserveAlone(w, c)
           \/ UNCHANGED vars
    PROVE  UNCHANGED Shot!shotVars
PROOF
<1>1. UNCHANGED <<started, journal, outcome>>
  BY DEF Create, Certify, Cancel, ReserveAlone, vars, compositionDb, targetDb
<1>2. \A w \in Workers : \A b \in Compositions :
         Carries(w, b)' <=> Carries(w, b)
  <2>1. CASE work' = work
    BY <2>1 DEF Carries
  <2>2. ASSUME NEW w \in Workers, NEW c \in Capsules, ReserveAlone(w, c)
        PROVE  \A v \in Workers : \A b \in Compositions :
                  Carries(v, b)' <=> Carries(v, b)
    <3>1. work[w].at # "dispatch" /\ NoComposition \notin Compositions
      BY <2>2, IdleFits, BatchAssumptions DEF ReserveAlone
    <3>2. \A v \in Workers : work'[v] =
             IF v = w THEN Job("dispatch", NoComposition, <<c>>) ELSE work[v]
      BY <2>2 DEF ReserveAlone, BatchInv, TypeOK
    <3>3. Job("dispatch", NoComposition, <<c>>).batch = NoComposition
      BY DEF Job
    <3> QED
      BY <3>1, <3>2, <3>3 DEF Carries
  <2> QED
    BY <2>1, <2>2 DEF Create, Certify, Cancel, vars
<1> QED
  BY <1>1, <1>2, QuietShot

LEMMA ReserveShot ==
    ASSUME BatchInv, NEW w \in Workers, NEW b \in Compositions, ReserveBatch(w, b)
    PROVE  Shot!ShotNext
PROOF
<1>1. /\ work[w].at # "dispatch" /\ b \notin started
      /\ started' = started \cup {b}
      /\ UNCHANGED <<journal, outcome>>
      /\ \A c \in Leaves(b) : Executable(c)
  BY IdleFits DEF ReserveBatch, targetDb
<1>2. \A v \in Workers : work'[v] =
         IF v = w THEN Job("dispatch", b, ChildrenOf[b]) ELSE work[v]
  BY DEF ReserveBatch, BatchInv, TypeOK
<1>3. /\ Job("dispatch", b, ChildrenOf[b]).at = "dispatch"
      /\ Job("dispatch", b, ChildrenOf[b]).batch = b
  BY DEF Job
<1>4. ~(Leaves(b) \subseteq journal)
  <2>1. \A c \in Leaves(b) : c \notin journal
    BY <1>1 DEF Executable, BatchInv, RecordsInv, Dispatched
  <2> QED
    BY <2>1, LeavesFacts
<1>5. Phase(b) = "open"
  BY <1>1 DEF Phase
<1>6. Phase(b)' = "reserved"
  BY <1>1, <1>2, <1>3, <1>4 DEF Phase
<1>7. \A d \in Compositions \ {b} : Phase(d)' = Phase(d)
  <2> SUFFICES ASSUME NEW d \in Compositions \ {b} PROVE Phase(d)' = Phase(d)
    OBVIOUS
  <2>1. \A v \in Workers : Carries(v, d)' <=> Carries(v, d)
    BY <1>1, <1>2, <1>3 DEF Carries
  <2>2. d \in started' <=> d \in started
    BY <1>1
  <2> QED
    BY <1>1, <2>1, <2>2, PhaseStill
<1>8. <<Phase(b), Phase(b)'>> \in Shot!Moves
  BY <1>5, <1>6 DEF Shot!Moves
<1> QED
  BY <1>1, <1>7, <1>8, MovesAdvance

\* The target's transaction is the moment a composition takes effect; it
\* completes no composition but the one it is for.
LEMMA ApplyShot ==
    ASSUME BatchInv, NEW w \in Workers, NEW a \in Answers, TargetApply(w, a)
    PROVE  [Shot!ShotNext]_(Shot!shotVars)
PROOF
<1>1. /\ work[w].at = "dispatch"
      /\ journal' = journal \cup ToDo(w)
      /\ UNCHANGED <<started, outcome>>
  BY DEF TargetApply, compositionDb
<1>2. \A v \in Workers : /\ v # w => work'[v] = work[v]
                         /\ v = w => work'[v].at # "dispatch"
  BY WorkFacts DEF TargetApply, Return, BatchInv, TypeOK, Work
<1>3. \A d \in Compositions : ~Carries(w, d) => Phase(d)' = Phase(d)
  <2> SUFFICES ASSUME NEW d \in Compositions, ~Carries(w, d)
               PROVE  Phase(d)' = Phase(d)
    OBVIOUS
  <2>1. \A v \in Workers : Carries(v, d)' <=> Carries(v, d)
    BY <1>2 DEF Carries
  <2>2. d \in started => (Leaves(d) \subseteq journal' <=> Leaves(d) \subseteq journal)
    <3>1. d \in started => Leaves(d) \cap ToDo(w) = {}
      BY <1>1, WorkFacts DEF BatchInv, Fits, Carried, Carries
    <3> QED
      BY <1>1, <3>1
  <2>3. (\E v \in Workers : Carries(v, d)') <=> (\E v \in Workers : Carries(v, d))
    BY <2>1
  <2> QED
    BY <1>1, <2>2, <2>3 DEF Phase, Carries
<1>4. ASSUME NEW b \in Compositions, Carries(w, b) PROVE Shot!ShotNext
  <2>1. Phase(b) = "reserved" /\ b \in started /\ ToDo(w) = Leaves(b)
    BY <1>4, OneCarrier
  <2>2. Phase(b)' = "applied"
    BY <1>1, <2>1 DEF Phase
  <2>3. <<Phase(b), Phase(b)'>> \in Shot!Moves
    BY <2>1, <2>2 DEF Shot!Moves
  <2>4. \A d \in Compositions \ {b} : Phase(d)' = Phase(d)
    BY <1>3, <1>4 DEF Carries
  <2> QED
    BY <1>1, <2>3, <2>4, MovesAdvance
<1>5. CASE \A b \in Compositions : ~Carries(w, b)
  BY <1>1, <1>3, <1>5 DEF Shot!shotVars
<1> QED
  BY <1>4, <1>5

\* The outcome of a composition is told truthfully.
LEMMA TellShot ==
    ASSUME BatchInv, NEW w \in Workers, RecordOutcome(w)
    PROVE  Shot!ShotNext
PROOF
<1> DEFINE b == work[w].batch
           r == Verdict(work[w].told)
<1>1. /\ work[w].at = "record" /\ b \in started
      /\ outcome' = [outcome EXCEPT ![b] = r]
      /\ UNCHANGED <<started, journal>>
      /\ work' = [work EXCEPT ![w] = Idle]
  BY DEF RecordOutcome, targetDb
<1>2. b \in Compositions /\ b # NoComposition
  BY <1>1, SteadyTypes
<1>3. /\ work[w].told \subseteq {"VERIFIED", "UNCERTAIN"}
      /\ "VERIFIED" \in work[w].told => Leaves(b) \subseteq journal
  BY <1>2 DEF BatchInv, Fits, Told
<1>4. \/ r = "UNCERTAIN"
      \/ r = "VERIFIED" /\ Leaves(b) \subseteq journal
  BY <1>3 DEF Verdict
<1>5. \A d \in Compositions : Phase(d)' = Phase(d)
  <2>1. \A v \in Workers : \A d \in Compositions : Carries(v, d)' <=> Carries(v, d)
    BY <1>1, IdleFits DEF Carries, BatchInv, TypeOK
  <2> QED
    BY <1>1, <2>1, PhaseStill
<1>6. Phase(b) \in {"reserved", "applied", "spent"}
  BY <1>1 DEF Phase
<1>7. Leaves(b) \subseteq journal => Phase(b) = "applied"
  BY <1>1 DEF Phase
<1> HIDE DEF b, r
<1>8. Shot!Tell(b, r)
  <2>1. Shot!Truthful(b, r)
    BY <1>2, <1>4, <1>6, <1>7 DEF Shot!Truthful
  <2>2. UNCHANGED [d \in Compositions |-> Phase(d)]
    BY <1>5
  <2> QED
    BY <1>1, <2>1, <2>2 DEF Shot!Tell
<1>9. r \in Shot!Reports
  BY <1>4 DEF Shot!Reports
<1> QED
  BY <1>2, <1>8, <1>9 DEF Shot!ShotNext

LEMMA BatchShotStep ==
    ASSUME BatchInv, [Next]_vars PROVE [Shot!ShotNext]_(Shot!shotVars)
PROOF
<1>1. ASSUME NEW w \in Workers, Continue(w) \/ Crash(w)
      PROVE  [Shot!ShotNext]_(Shot!shotVars)
  BY <1>1, RequestShot, ApplyShot, TellShot DEF Continue
<1> QED
  BY <1>1, PrepareShot, ReserveShot, RequestShot DEF Next

\* Seen from outside, a composition takes effect at most once, and entirely,
\* and what Compositions records of it is never wrong: reservation, target,
\* finish loop, its catch, deaths and reconciliations together are one shot.
THEOREM BatchImplementation == Spec => BatchImplementsOneShot
PROOF
<1>1. Init => Shot!ShotInit
  BY DEF Init, Shot!ShotInit, Phase
<1>2. BatchInv /\ [Next]_vars => [Shot!ShotNext]_(Shot!shotVars)
  BY BatchShotStep
<1> QED
  BY <1>1, <1>2, BatchInvariant, PTL DEF Spec, BatchImplementsOneShot, Shot!ShotSpec
=============================================================================
