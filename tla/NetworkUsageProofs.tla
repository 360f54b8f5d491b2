------------------------- MODULE NetworkUsageProofs -------------------------
(***************************************************************************)
(* Proofs about NetworkUsage and RuntimeBudget, for any capabilities,      *)
(* policies, limits, cache size and memory span.                           *)
(*                                                                         *)
(* The fabric needs little more than its own property: what a charge adds  *)
(* is what was affordable.  The gate needs the log as a sequence in the    *)
(* order of time: the remembered calls, and what every window has ahead of *)
(* its head, are suffixes of it that leave out nothing which still counts. *)
(***************************************************************************)
EXTENDS NetworkUsage, FiniteSetTheorems, FunctionTheorems, SequenceTheorems,
        WellFoundedInduction, TLAPS
-----------------------------------------------------------------------------
(* Sums of charges.                                                        *)

\* A family of finite sets that is not empty has a member without a smaller
\* one: what induction over the elements of a set comes to.
LEMMA MinimalSet ==
    ASSUME NEW S, IsFiniteSet(S), NEW F \in SUBSET SUBSET S, F # {}
    PROVE  \E T \in F : \A U \in F : U \subseteq T => U = T
PROOF
<1>1. IsWellFoundedOn(StrictSubsetOrdering(S), FiniteSubsetsOf(S))
  BY FS_StrictSubsetOrderingWellFounded
<1>2. F \subseteq FiniteSubsetsOf(S)
  BY FS_FiniteSubsetsOfFinite
<1>3. PICK T \in F : \A U \in F : <<U, T>> \notin StrictSubsetOrdering(S)
  BY <1>1, <1>2, WFMin
<1> QED
  BY <1>3 DEF StrictSubsetOrdering

\* The element a sum takes first, and the function that adds up the subsets of
\* a set (MapThenFoldSet).
First(T) == CHOOSE x \in T : TRUE

Adds(f, S) ==
    f = [T \in SUBSET S |-> IF T = {} THEN 0 ELSE First(T).cost + f[T \ {First(T)}]]

LEMMA SpentAdds ==
    ASSUME NEW S
    PROVE  Spent(S) = (CHOOSE f : Adds(f, S))[S]
PROOF
  BY DEF Spent, MapThenSumSet, MapThenFoldSet, Adds, First

LEMMA FirstIn == ASSUME NEW T, T # {} PROVE First(T) \in T
PROOF
  BY DEF First

LEMMA AddsValue ==
    ASSUME NEW S, NEW f, Adds(f, S), NEW T \in SUBSET S
    PROVE  f[T] = IF T = {} THEN 0 ELSE First(T).cost + f[T \ {First(T)}]
PROOF
  BY DEF Adds

\* Two of them agree on what both add up.
LEMMA AddsAgree ==
    ASSUME NEW S, IsFiniteSet(S), NEW R, NEW f, NEW g, Adds(f, S), Adds(g, R), S \subseteq R
    PROVE  f[S] = g[S]
PROOF
<1> SUFFICES ASSUME f[S] # g[S] PROVE FALSE
  OBVIOUS
<1> DEFINE F == {T \in SUBSET S : f[T] # g[T]}
<1>1. PICK T \in F : \A U \in F : U \subseteq T => U = T
  <2>1. F \in SUBSET SUBSET S /\ F # {}
    OBVIOUS
  <2> HIDE DEF F
  <2> QED
    BY <2>1, MinimalSet
<1>2. T # {}
  BY <1>1, AddsValue
<1>3. First(T) \in T /\ T \ {First(T)} \in SUBSET S /\ T \in SUBSET R
  BY <1>1, <1>2, FirstIn
<1>4. f[T \ {First(T)}] = g[T \ {First(T)}]
  BY <1>1, <1>3
<1> QED
  BY <1>1, <1>2, <1>3, <1>4, AddsValue

LEMMA AddsExists ==
    ASSUME NEW S, IsFiniteSet(S)
    PROVE  \E f : Adds(f, S)
PROOF
<1> SUFFICES ASSUME ~ \E f : Adds(f, S) PROVE FALSE
  OBVIOUS
<1> DEFINE F == {T \in SUBSET S : ~ \E f : Adds(f, T)}
<1>1. PICK T \in F : \A U \in F : U \subseteq T => U = T
  <2>1. F \in SUBSET SUBSET S /\ F # {}
    OBVIOUS
  <2> HIDE DEF F
  <2> QED
    BY <2>1, MinimalSet
<1>2. \A U \in SUBSET T : IsFiniteSet(U)
  BY <1>1, FS_Subset
<1>3. ASSUME NEW U \in SUBSET T, U # T
      PROVE  \E f : Adds(f, U) /\ Spent(U) = f[U]
  <2>1. \E f : Adds(f, U)
    BY <1>1, <1>3
  <2>2. Adds(CHOOSE f : Adds(f, U), U)
    BY <2>1
  <2> QED
    BY <2>2, SpentAdds
<1> DEFINE g == [U \in SUBSET T |->
                    IF U = {} THEN 0 ELSE First(U).cost + Spent(U \ {First(U)})]
<1>4. ASSUME NEW U \in SUBSET T, U # T
      PROVE  Spent(U) = g[U]
  <2>1. PICK f : Adds(f, U) /\ Spent(U) = f[U]
    BY <1>3, <1>4
  <2>2. CASE U = {}
    BY <2>1, <2>2, AddsValue
  <2>3. CASE U # {}
    <3>1. First(U) \in U /\ U \ {First(U)} \in SUBSET T /\ U \ {First(U)} # T
      BY <2>3, <1>4, FirstIn
    <3>2. PICK h : Adds(h, U \ {First(U)}) /\ Spent(U \ {First(U)}) = h[U \ {First(U)}]
      BY <1>3, <3>1
    <3>3. h[U \ {First(U)}] = f[U \ {First(U)}]
      BY <1>2, <3>1, <3>2, <2>1, AddsAgree
    <3>4. f[U] = First(U).cost + f[U \ {First(U)}]
      BY <2>1, <2>3, AddsValue
    <3> QED
      BY <2>1, <2>3, <3>2, <3>3, <3>4
  <2> QED
    BY <2>2, <2>3
<1>5. Adds(g, T)
  <2>1. ASSUME NEW U \in SUBSET T, U # {}
        PROVE  Spent(U \ {First(U)}) = g[U \ {First(U)}]
    <3>1. First(U) \in U /\ U \ {First(U)} \in SUBSET T /\ U \ {First(U)} # T
      BY <2>1, FirstIn
    <3> HIDE DEF g
    <3> QED
      BY <3>1, <1>4
  <2>2. g = [U \in SUBSET T |-> IF U = {} THEN 0 ELSE First(U).cost + g[U \ {First(U)}]]
    BY <2>1
  <2> QED
    BY <2>2 DEF Adds
<1> QED
  BY <1>1, <1>5

\* The sum of charges meets its equation.
LEMMA SpentFirst ==
    ASSUME NEW S, IsFiniteSet(S)
    PROVE  Spent(S) = IF S = {} THEN 0 ELSE First(S).cost + Spent(S \ {First(S)})
PROOF
<1>1. PICK f : Adds(f, S) /\ Spent(S) = f[S]
  <2>1. Adds(CHOOSE f : Adds(f, S), S)
    BY AddsExists
  <2> QED
    BY <2>1, SpentAdds
<1>2. CASE S = {}
  BY <1>1, <1>2, AddsValue
<1>3. CASE S # {}
  <2>1. First(S) \in S /\ IsFiniteSet(S \ {First(S)}) /\ S \ {First(S)} \subseteq S
    BY <1>3, FS_RemoveElement, FirstIn
  <2>2. PICK h : Adds(h, S \ {First(S)}) /\ Spent(S \ {First(S)}) = h[S \ {First(S)}]
    <3>1. \E h : Adds(h, S \ {First(S)})
      BY <2>1, AddsExists
    <3>2. Adds(CHOOSE h : Adds(h, S \ {First(S)}), S \ {First(S)})
      BY <3>1
    <3> QED
      BY <3>2, SpentAdds
  <2>3. h[S \ {First(S)}] = f[S \ {First(S)}]
    BY <1>1, <2>1, <2>2, AddsAgree
  <2> QED
    BY <1>1, <1>3, <2>2, <2>3, AddsValue
<1> QED
  BY <1>2, <1>3

LEMMA SpentType ==
    ASSUME NEW S \in SUBSET Charge, IsFiniteSet(S)
    PROVE  Spent(S) \in Nat
PROOF
<1> SUFFICES ASSUME Spent(S) \notin Nat PROVE FALSE
  OBVIOUS
<1> DEFINE F == {T \in SUBSET S : Spent(T) \notin Nat}
<1>1. PICK T \in F : \A U \in F : U \subseteq T => U = T
  <2>1. F \in SUBSET SUBSET S /\ F # {}
    OBVIOUS
  <2> HIDE DEF F
  <2> QED
    BY <2>1, MinimalSet
<1>2. IsFiniteSet(T) /\ T \in SUBSET Charge
  BY <1>1, FS_Subset
<1>3. T # {}
  BY <1>1, <1>2, SpentFirst
<1>4. First(T) \in T /\ First(T).cost \in Nat
  BY <1>2, <1>3, FirstIn DEF Charge
<1>5. Spent(T \ {First(T)}) \in Nat
  BY <1>1, <1>4
<1> QED
  BY <1>1, <1>2, <1>3, <1>4, <1>5, SpentFirst

\* The order of the elements does not matter: any may be taken first.
LEMMA SpentAny ==
    ASSUME NEW S \in SUBSET Charge, IsFiniteSet(S), NEW x \in S
    PROVE  Spent(S) = x.cost + Spent(S \ {x})
PROOF
<1> SUFFICES ASSUME Spent(S) # x.cost + Spent(S \ {x}) PROVE FALSE
  OBVIOUS
<1> DEFINE F == {T \in SUBSET S : \E y \in T : Spent(T) # y.cost + Spent(T \ {y})}
<1>1. PICK T \in F : \A U \in F : U \subseteq T => U = T
  <2>1. F \in SUBSET SUBSET S /\ F # {}
    OBVIOUS
  <2> HIDE DEF F
  <2> QED
    BY <2>1, MinimalSet
<1>2. PICK y \in T : Spent(T) # y.cost + Spent(T \ {y})
  BY <1>1
<1> DEFINE z == First(T)
           R == T \ {y, z}
<1>3. \A U \in SUBSET T : IsFiniteSet(U) /\ Spent(U) \in Nat
  BY <1>1, FS_Subset, SpentType
<1>4. z \in T /\ Spent(T) = z.cost + Spent(T \ {z})
  BY <1>2, <1>3, FirstIn, SpentFirst
<1>5. z.cost \in Nat /\ y.cost \in Nat
  BY <1>1, <1>2, <1>4 DEF Charge
<1>6. \A U \in SUBSET T : U # T => \A v \in U : Spent(U) = v.cost + Spent(U \ {v})
  BY <1>1
<1>7. y # z
  BY <1>2, <1>4
<1>8. Spent(T \ {z}) = y.cost + Spent(R)
  <2>1. T \ {z} # T /\ y \in T \ {z} /\ (T \ {z}) \ {y} = R
    BY <1>2, <1>4, <1>7
  <2> QED
    BY ONLY <2>1, <1>6
<1>9. Spent(T \ {y}) = z.cost + Spent(R)
  <2>1. T \ {y} # T /\ z \in T \ {y} /\ (T \ {y}) \ {z} = R
    BY <1>2, <1>4, <1>7
  <2> QED
    BY ONLY <2>1, <1>6
<1>10. Spent(R) \in Nat
  BY <1>3
<1> QED
  BY <1>2, <1>4, <1>5, <1>8, <1>9, <1>10

LEMMA SpentAdded ==
    ASSUME NEW S \in SUBSET Charge, IsFiniteSet(S), NEW x \in Charge, x \notin S
    PROVE  Spent(S \cup {x}) = Spent(S) + x.cost
PROOF
<1>1. S \cup {x} \in SUBSET Charge /\ IsFiniteSet(S \cup {x}) /\ (S \cup {x}) \ {x} = S
  BY FS_AddElement
<1>2. Spent(S \cup {x}) = x.cost + Spent(S)
  BY <1>1, SpentAny
<1> QED
  BY <1>2, SpentType DEF Charge
-----------------------------------------------------------------------------
(* Budgets at the fabric.                                                  *)

\* Charges are finitely many and not later than the clock, and the policies of
\* capabilities are not newer than the active one.
FabricInv ==
    /\ FabricTypeOK
    /\ IsFiniteSet(usage)
    /\ \A u \in usage : u.at <= clock /\ caps[u.capability] # None
    /\ \A c \in Capabilities : caps[c] # None => caps[c].policy <= active
    /\ BudgetsHold

\* What BudgetsHold adds up for a charge and one of its limits.
Counted(u, duration) ==
    {v \in usage : /\ v.at \in (u.at - duration + 1)..u.at
                   /\ ResourceOf[v.capability] = ResourceOf[u.capability]
                   /\ caps[v.capability].policy <= caps[u.capability].policy}

LEMMA PolicyFacts ==
    ASSUME NEW p \in Versions
    PROVE  /\ p \in Nat \ {0}
           /\ Policies[p] \in Policy
           /\ \A i \in DOMAIN Policies[p].windows :
                 /\ Policies[p].windows[i].duration \in Nat \ {0}
                 /\ Policies[p].windows[i].limit \in Nat \ {0}
PROOF
<1>1. p \in 1..Len(Policies) /\ Policies[p] \in Policy
  BY BudgetAssumptions DEF Versions
<1>2. Policies[p].windows \in Seq(Limit)
  BY <1>1 DEF Policy
<1>3. \A i \in DOMAIN Policies[p].windows : Policies[p].windows[i] \in Limit
  BY <1>2
<1> QED
  BY <1>1, <1>3 DEF Limit

LEMMA InitFabricInv == FabricInit => FabricInv
PROOF
<1> SUFFICES ASSUME FabricInit PROVE FabricInv
  OBVIOUS
<1>1. FabricTypeOK
  BY BudgetAssumptions DEF FabricInit, FabricTypeOK, Versions
<1> QED
  BY <1>1, FS_EmptySet DEF FabricInit, FabricInv, BudgetsHold

\* A step that charges nothing leaves the budgets as they are.
LEMMA UnchargedStep ==
    ASSUME FabricInv, FabricTypeOK', usage' = usage,
           clock' >= clock, active' >= active,
           \A c \in Capabilities : caps'[c] # None => caps'[c].policy <= active',
           \A c \in Capabilities : caps[c] # None => caps'[c] = caps[c]
    PROVE  FabricInv'
PROOF
<1>1. \A u \in usage : /\ u \in Charge /\ u.capability \in Capabilities /\ u.at \in Nat
                       /\ u.at <= clock /\ caps[u.capability] # None
  BY DEF FabricInv, FabricTypeOK, Charge
<1>2. \A u \in usage : caps'[u.capability] = caps[u.capability]
  BY <1>1
<1>3. BudgetsHold'
  <2> SUFFICES ASSUME NEW u \in usage,
                      NEW i \in DOMAIN Policies[caps[u.capability].policy].windows
               PROVE  LET w == Policies[caps[u.capability].policy].windows[i] IN
                      Spent(Counted(u, w.duration)') <= w.limit
    BY <1>2 DEF BudgetsHold, Counted
  <2> DEFINE w == Policies[caps[u.capability].policy].windows[i]
  <2>1. Counted(u, w.duration)' = Counted(u, w.duration)
    BY <1>2 DEF Counted
  <2>2. Spent(Counted(u, w.duration)) <= w.limit
    BY DEF FabricInv, BudgetsHold, Counted
  <2> QED
    BY <2>1, <2>2
<1>4. clock \in Nat /\ clock' \in Nat
  BY BudgetAssumptions DEF FabricInv, FabricTypeOK
<1>5. \A u \in usage' : u.at <= clock' /\ caps'[u.capability] # None
  BY <1>1, <1>2, <1>4
<1> QED
  BY <1>3, <1>5 DEF FabricInv

\* The new charge, and every earlier charge of its instant under its policy, counts what
\* consume has added up; the others count what they did.
LEMMA ConsumeStep ==
    ASSUME FabricInv, NEW c \in Capabilities, NEW r \in Requests, NEW cost \in Costs[c],
           Consume(c, r, cost)
    PROVE  FabricInv'
PROOF
<1> DEFINE n == [at |-> clock, cost |-> cost, capability |-> c, request |-> r]
<1>1. /\ clock \in 0..MaxTime /\ clock \in Nat /\ active \in Versions
      /\ \A u \in usage : /\ u \in Charge /\ u.capability \in Capabilities /\ u.at \in Nat
                          /\ u.at <= clock /\ caps[u.capability] # None
      /\ IsFiniteSet(usage)
  BY BudgetAssumptions DEF FabricInv, FabricTypeOK, Charge
<1>2. /\ usage' = usage \cup {n} /\ UNCHANGED <<clock, active, caps, dead>>
      /\ caps[c] # None /\ caps[c].policy = active
      /\ Affordable(c, cost)
      /\ \A u \in usage : u.capability = c => u.request # r
  BY DEF Consume, Live, OfCapability
<1>3. n \in Charge /\ n \notin usage
  BY <1>1, <1>2, BudgetAssumptions DEF Charge
<1>4. FabricTypeOK'
  BY <1>2, <1>3 DEF FabricInv, FabricTypeOK
<1>5. \A u \in usage' : u.at <= clock' /\ caps'[u.capability] # None
  BY <1>1, <1>2
<1>6. IsFiniteSet(usage')
  BY <1>1, <1>2, FS_AddElement
<1>7. BudgetsHold'
  <2> SUFFICES ASSUME NEW u \in usage',
                      NEW i \in DOMAIN Policies[caps[u.capability].policy].windows
               PROVE  LET w == Policies[caps[u.capability].policy].windows[i] IN
                      Spent(Counted(u, w.duration)') <= w.limit
    BY <1>2 DEF BudgetsHold, Counted
  <2> DEFINE w == Policies[caps[u.capability].policy].windows[i]
             C == Counted(u, w.duration)
  <2>1. /\ u \in Charge /\ u.capability \in Capabilities /\ u.at \in Nat /\ u.at <= clock
        /\ caps[u.capability] \in Capability
    BY <1>1, <1>2, <1>3 DEF FabricInv, FabricTypeOK
  <2>2. w.duration \in Nat \ {0} /\ w.limit \in Nat \ {0}
    BY <2>1, PolicyFacts DEF Capability
  <2>3. C \in SUBSET Charge /\ IsFiniteSet(C) /\ n \notin C
    BY <1>1, <1>3, FS_Subset DEF Counted
  <2>4. CASE /\ u.at = clock /\ caps[u.capability].policy = active
             /\ ResourceOf[u.capability] = ResourceOf[c]
    <3>1. Counted(u, w.duration)' = C \cup {n}
      <4>1. n.at \in (u.at - w.duration + 1)..u.at
        BY <1>1, <2>2, <2>4
      <4>2. caps[n.capability].policy <= caps[u.capability].policy
        BY <1>1, <1>2, <2>4, PolicyFacts
      <4> QED
        BY <1>2, <2>4, <4>1, <4>2 DEF Counted
    <3>2. C = OfResource(ResourceOf[c], w.duration)
      <4>1. \A v \in usage : caps[v.capability].policy <= active
        BY <1>1 DEF FabricInv
      <4> QED
        BY <1>1, <2>2, <2>4, <4>1 DEF Counted, OfResource, Since
    <3>3. Spent(OfResource(ResourceOf[c], w.duration)) + cost <= w.limit
      BY <1>2, <2>4 DEF Affordable
    <3>4. Spent(C \cup {n}) = Spent(C) + n.cost
      BY <1>3, <2>3, SpentAdded
    <3> QED
      BY <3>1, <3>2, <3>3, <3>4
  <2>5. CASE ~(/\ u.at = clock /\ caps[u.capability].policy = active
               /\ ResourceOf[u.capability] = ResourceOf[c])
    <3>1. u \in usage
      BY <1>2, <2>5
    <3>2. caps[u.capability].policy <= active /\ caps[u.capability].policy \in Nat /\ active \in Nat
      BY <1>1, <2>1, <3>1, PolicyFacts DEF FabricInv, Capability
    <3>3. Counted(u, w.duration)' = C
      BY <1>1, <1>2, <2>1, <2>2, <2>5, <3>2 DEF Counted
    <3>4. Spent(C) <= w.limit
      BY <3>1 DEF FabricInv, BudgetsHold, Counted
    <3> QED
      BY <3>3, <3>4
  <2> QED
    BY <2>4, <2>5
<1>8. \A d \in Capabilities : caps'[d] # None => caps'[d].policy <= active'
  BY <1>2 DEF FabricInv
<1> QED
  BY <1>4, <1>5, <1>6, <1>7, <1>8 DEF FabricInv

LEMMA FabricStep ==
    ASSUME FabricInv, FabricNext \/ UNCHANGED fabricVars
    PROVE  FabricInv'
PROOF
<1>1. /\ clock \in 0..MaxTime /\ clock \in Nat /\ active \in Nat /\ active \in Versions
      /\ caps \in [Capabilities -> Capability \cup {None}]
      /\ dead \subseteq {c \in Capabilities : caps[c] # None}
      /\ usage \subseteq Charge
      /\ \A c \in Capabilities : caps[c] # None => caps[c].policy <= active
      /\ MaxTime \in Nat
  BY BudgetAssumptions, PolicyFacts DEF FabricInv, FabricTypeOK
<1>2. CASE Tick
  <2>1. FabricTypeOK'
    BY <1>1, <1>2 DEF Tick, FabricTypeOK
  <2> QED
    BY <1>1, <1>2, <2>1, UnchargedStep DEF Tick
<1>3. CASE ActivatePolicy
  <2>1. FabricTypeOK' /\ \A c \in Capabilities : caps[c] # None => caps[c].policy \in Nat
    BY <1>1, <1>3, PolicyFacts DEF ActivatePolicy, FabricTypeOK, Capability
  <2>2. \A c \in Capabilities : caps'[c] # None => caps'[c].policy <= active'
    BY <1>1, <1>3, <2>1 DEF ActivatePolicy
  <2> QED
    BY <1>1, <1>3, <2>1, <2>2, UnchargedStep DEF ActivatePolicy
<1>4. ASSUME NEW c \in Capabilities, NEW max_cost \in Ceilings, NEW ttl \in Lifetimes,
             Issue(c, max_cost, ttl)
      PROVE  FabricInv'
  <2> DEFINE new == [policy |-> active, max_cost |-> max_cost,
                     issued_at |-> clock, expires_at |-> clock + ttl]
  <2>1. new \in Capability
    BY <1>1, BudgetAssumptions DEF Capability
  <2>2. /\ caps[c] = None /\ caps' = [caps EXCEPT ![c] = new]
        /\ UNCHANGED <<clock, active, dead, usage>>
    BY <1>4 DEF Issue
  <2>3. FabricTypeOK'
    BY <1>1, <2>1, <2>2 DEF FabricTypeOK
  <2>4. \A d \in Capabilities : caps'[d] # None => caps'[d].policy <= active'
    BY <1>1, <2>2
  <2> QED
    BY <1>1, <2>2, <2>3, <2>4, UnchargedStep
<1>5. ASSUME NEW c \in Capabilities, Withdraw(c)
      PROVE  FabricInv'
  <2>1. FabricTypeOK'
    BY <1>1, <1>5 DEF Withdraw, FabricTypeOK
  <2> QED
    BY <1>1, <1>5, <2>1, UnchargedStep DEF Withdraw
<1>6. ASSUME NEW c \in Capabilities, NEW r \in Requests, NEW cost \in Costs[c],
             Consume(c, r, cost)
      PROVE  FabricInv'
  BY <1>6, ConsumeStep
<1>7. CASE UNCHANGED fabricVars
  <2>1. FabricTypeOK'
    BY <1>1, <1>7 DEF fabricVars, FabricTypeOK
  <2> QED
    BY <1>1, <1>7, <2>1, UnchargedStep DEF fabricVars
<1> QED
  BY <1>2, <1>3, <1>4, <1>5, <1>6, <1>7 DEF FabricNext
-----------------------------------------------------------------------------
(* Sequences of calls in the order of time.                                *)

LEMMA LeastNumber ==
    ASSUME NEW S \in SUBSET Nat, S # {}
    PROVE  \E n \in S : \A m \in S : n <= m
PROOF
<1> DEFINE R == {ss \in Nat \X Nat : ss[1] < ss[2]}
<1>1. IsWellFoundedOn(R, Nat)
  BY NatLessThanWellFounded DEF OpToRel
<1>2. PICK n \in S : \A m \in S : <<m, n>> \notin R
  <2> HIDE DEF R
  <2> QED
    BY <1>1, WFMin
<1>3. ASSUME NEW m \in S PROVE ~(m < n)
  <2>1. <<m, n>> \in Nat \X Nat /\ <<m, n>>[1] = m /\ <<m, n>>[2] = n /\ <<m, n>> \notin R
    BY <1>2
  <2> QED
    BY <2>1
<1> QED
  BY <1>2, <1>3

Sorted(s) == \A i, j \in 1..Len(s) : i <= j => s[i].at <= s[j].at

\* Up to n the calls are not newer than t, and from there on they are.
SplitAt(s, t, n) ==
    /\ n \in 0..Len(s)
    /\ \A i \in 1..Len(s) : s[i].at <= t <=> i <= n

LEMMA CallFacts ==
    ASSUME NEW s \in Seq(Call)
    PROVE  /\ Len(s) \in Nat
           /\ \A i \in 1..Len(s) : /\ s[i] \in Call /\ s[i].at \in Nat
                                   /\ s[i].destination \in Resources
PROOF
<1>1. \A i \in 1..Len(s) : s[i] \in Call
  OBVIOUS
<1> QED
  BY <1>1 DEF Call

LEMMA SuffixFacts ==
    ASSUME NEW s \in Seq(Call), NEW n \in 0..Len(s)
    PROVE  LET r == SubSeq(s, n + 1, Len(s)) IN
           /\ r \in Seq(Call)
           /\ Len(r) = Len(s) - n
           /\ \A i \in 1..Len(r) : r[i] = s[n + i]
PROOF
<1> DEFINE r == SubSeq(s, n + 1, Len(s))
<1>1. Len(s) \in Nat /\ \A i \in (n + 1)..Len(s) : s[i] \in Call
  BY CallFacts
<1>2. /\ r \in Seq(Call)
      /\ Len(r) = IF n + 1 <= Len(s) THEN Len(s) - (n + 1) + 1 ELSE 0
      /\ \A i \in 1..(Len(s) - (n + 1) + 1) : r[i] = s[n + 1 + i - 1]
  BY <1>1, SubSeqProperties
<1>3. Len(r) = Len(s) - n
  BY <1>1, <1>2
<1>4. \A i \in 1..Len(r) : r[i] = s[n + i]
  BY <1>1, <1>2, <1>3
<1> QED
  BY <1>2, <1>3, <1>4

\* Where a time splits a sequence is where the loop over it ends.
LEMMA SplitFirst ==
    ASSUME NEW s \in Seq(Call), Sorted(s), NEW t \in Int, NEW n \in 0..Len(s),
           n = Len(s) \/ s[n + 1].at > t, \A i \in 1..n : s[i].at <= t
    PROVE  SplitAt(s, t, n)
PROOF
<1> SUFFICES ASSUME NEW i \in 1..Len(s), n < i PROVE s[i].at > t
  BY CallFacts DEF SplitAt
<1>1. n + 1 \in 1..Len(s) /\ n + 1 <= i /\ s[n + 1].at > t
  BY CallFacts
<1> QED
  BY <1>1, CallFacts DEF Sorted

LEMMA SplitExists ==
    ASSUME NEW s \in Seq(Call), Sorted(s), NEW t \in Int
    PROVE  \E n : SplitAt(s, t, n)
PROOF
<1> DEFINE S == {n \in 0..Len(s) : n = Len(s) \/ s[n + 1].at > t}
<1>1. S \in SUBSET Nat /\ S # {}
  BY CallFacts
<1>2. PICK n \in S : \A m \in S : n <= m
  <2> HIDE DEF S
  <2> QED
    BY <1>1, LeastNumber
<1>3. \A i \in 1..n : s[i].at <= t
  <2> SUFFICES ASSUME NEW i \in 1..n, s[i].at > t PROVE FALSE
    BY <1>2, CallFacts
  <2>1. i - 1 \in 0..Len(s) /\ s[(i - 1) + 1].at > t /\ ~(n <= i - 1)
    BY <1>2, CallFacts
  <2> QED
    BY <1>2, <2>1
<1> QED
  BY <1>2, <1>3, SplitFirst

\* Of calls in the order of time, what filter keeps is a suffix.
LEMMA NewerSplit ==
    ASSUME NEW s \in Seq(Call), NEW t \in Int, NEW n, SplitAt(s, t, n)
    PROVE  NewerThan(s, t) = SubSeq(s, n + 1, Len(s))
PROOF
<1> DEFINE Filters(f) ==
              f = [m \in 0..Len(s) |->
                      IF m = 0 THEN << >>
                      ELSE IF s[m].at > t THEN Append(f[m - 1], s[m]) ELSE f[m - 1]]
           g == [m \in 0..Len(s) |-> SubSeq(s, n + 1, m)]
<1>1. n \in 0..Len(s) /\ Len(s) \in Nat /\ \A i \in 1..Len(s) : s[i] \in Call /\ s[i].at \in Nat
  BY CallFacts DEF SplitAt
<1>2. Filters(g)
  <2>1. g[0] = << >>
    BY <1>1, SubSeqEmpty
  <2>2. ASSUME NEW m \in 1..Len(s), m <= n
        PROVE  g[m] = g[m - 1] /\ ~(s[m].at > t)
    <3>1. ~(s[m].at > t)
      BY <1>1, <2>2 DEF SplitAt
    <3>2. g[m] = << >> /\ g[m - 1] = << >>
      BY <1>1, <2>2, SubSeqEmpty
    <3> QED
      BY <3>1, <3>2
  <2>3. ASSUME NEW m \in 1..Len(s), n < m
        PROVE  g[m] = Append(g[m - 1], s[m]) /\ s[m].at > t
    <3>1. s[m].at > t
      BY <1>1, <2>3 DEF SplitAt
    <3>2. SubSeq(s, n + 1, m) = SubSeq(s, n + 1, m - 1) \o <<s[m]>>
      BY <1>1, <2>3, SubSeqRecursiveSecond
    <3>3. SubSeq(s, n + 1, m - 1) \in Seq(Call)
      BY <1>1, <2>3, SubSeqProperties
    <3>4. SubSeq(s, n + 1, m - 1) \o <<s[m]>> = Append(SubSeq(s, n + 1, m - 1), s[m])
      BY <1>1, <3>3
    <3>5. m \in 0..Len(s) /\ m - 1 \in 0..Len(s)
      BY <1>1
    <3>6. g[m] = SubSeq(s, n + 1, m) /\ g[m - 1] = SubSeq(s, n + 1, m - 1)
      BY <3>5
    <3> QED
      BY <3>1, <3>2, <3>4, <3>6
  <2>4. ASSUME NEW m \in 0..Len(s)
        PROVE  g[m] = IF m = 0 THEN << >>
                      ELSE IF s[m].at > t THEN Append(g[m - 1], s[m]) ELSE g[m - 1]
    <3> HIDE DEF g
    <3>1. m = 0 \/ (m \in 1..Len(s) /\ m <= n) \/ (m \in 1..Len(s) /\ n < m)
      BY <1>1
    <3> QED
      BY <3>1, <2>1, <2>2, <2>3
  <2>5. DOMAIN g = 0..Len(s) /\ g = [m \in 0..Len(s) |-> g[m]]
    OBVIOUS
  <2> HIDE DEF g
  <2> QED
    BY <2>4, <2>5
<1>3. ASSUME NEW f, Filters(f)
      PROVE  f[Len(s)] = g[Len(s)]
  <2> DEFINE S == {m \in 0..Len(s) : f[m] # g[m]}
  <2> SUFFICES ASSUME S # {} PROVE FALSE
    <3>1. Len(s) \in 0..Len(s)
      BY <1>1
    <3> HIDE DEF g
    <3> QED
      BY <3>1
  <2>1. PICK m \in S : \A k \in S : m <= k
    <3>1. S \in SUBSET Nat
      BY <1>1
    <3> HIDE DEF S
    <3> QED
      BY <3>1, LeastNumber
  <2>2. m \in 0..Len(s) /\ f[m] # g[m]
    BY <2>1
  <2>3. \A h : Filters(h) => h[m] = IF m = 0 THEN << >>
                                    ELSE IF s[m].at > t THEN Append(h[m - 1], s[m]) ELSE h[m - 1]
    BY <2>2
  <2>4. m # 0 => m - 1 \in 0..Len(s) /\ ~(m <= m - 1)
    BY <1>1, <2>2
  <2>5. m # 0 => f[m - 1] = g[m - 1]
    BY <2>1, <2>4
  <2> HIDE DEF Filters, g
  <2> QED
    BY <1>2, <1>3, <2>2, <2>3, <2>5
<1>4. NewerThan(s, t) = (CHOOSE f : Filters(f))[Len(s)]
  BY DEF NewerThan
<1>5. g[Len(s)] = SubSeq(s, n + 1, Len(s))
  BY <1>1
<1> HIDE DEF Filters, g
<1>6. Filters(CHOOSE f : Filters(f))
  BY <1>2
<1> QED
  BY <1>3, <1>4, <1>5, <1>6
-----------------------------------------------------------------------------
(* Suffixes of what has happened.                                          *)

From(s, n) == SubSeq(s, n + 1, Len(s))

\* A suffix of the calls that leaves out only what is not newer than t.
Covers(s, calls, t) ==
    \E n \in 0..Len(calls) : s = From(calls, n) /\ \A i \in 1..n : calls[i].at <= t

LEMMA FromFrom ==
    ASSUME NEW s \in Seq(Call), NEW n \in 0..Len(s), NEW m \in 0..(Len(s) - n)
    PROVE  From(From(s, n), m) = From(s, n + m)
PROOF
<1> DEFINE r == From(s, n)
           a == From(r, m)
           b == From(s, n + m)
<1>1. /\ Len(s) \in Nat /\ r \in Seq(Call) /\ Len(r) = Len(s) - n
      /\ \A i \in 1..Len(r) : r[i] = s[n + i]
  BY CallFacts, SuffixFacts DEF From
<1>2. m \in 0..Len(r) /\ n + m \in 0..Len(s)
  BY <1>1
<1> HIDE DEF r
<1>3. a \in Seq(Call) /\ Len(a) = Len(r) - m /\ \A i \in 1..Len(a) : a[i] = r[m + i]
  BY <1>1, <1>2, SuffixFacts DEF From
<1>4. b \in Seq(Call) /\ Len(b) = Len(s) - (n + m) /\ \A i \in 1..Len(b) : b[i] = s[(n + m) + i]
  BY <1>2, SuffixFacts DEF From
<1> HIDE DEF a, b
<1>5. Len(a) = Len(b)
  BY <1>1, <1>2, <1>3, <1>4
<1>6. ASSUME NEW i \in 1..Len(a) PROVE a[i] = b[i]
  <2>1. m + i \in 1..Len(r) /\ n + (m + i) = (n + m) + i
    BY <1>1, <1>2, <1>3
  <2> QED
    BY <2>1, <1>1, <1>3, <1>4, <1>5
<1>7. a = b
  BY <1>3, <1>4, <1>5, <1>6, SeqEqual
<1> QED
  BY <1>7 DEF a, b, r

LEMMA FromAppend ==
    ASSUME NEW s \in Seq(Call), NEW n \in 0..Len(s), NEW x \in Call
    PROVE  From(Append(s, x), n) = Append(From(s, n), x)
PROOF
<1> DEFINE e == Append(s, x)
           r == From(s, n)
           a == From(e, n)
           b == Append(r, x)
<1>1. /\ Len(s) \in Nat /\ r \in Seq(Call) /\ Len(r) = Len(s) - n
      /\ \A i \in 1..Len(r) : r[i] = s[n + i]
  BY CallFacts, SuffixFacts DEF From
<1>2. /\ e \in Seq(Call) /\ Len(e) = Len(s) + 1 /\ \A i \in 1..Len(s) : e[i] = s[i]
      /\ e[Len(s) + 1] = x
  BY AppendProperties
<1> HIDE DEF e, r
<1>3. n \in 0..Len(e)
  BY <1>1, <1>2
<1>4. a \in Seq(Call) /\ Len(a) = Len(e) - n /\ \A i \in 1..Len(a) : a[i] = e[n + i]
  BY <1>2, <1>3, SuffixFacts DEF From
<1>5. /\ b \in Seq(Call) /\ Len(b) = Len(r) + 1 /\ \A i \in 1..Len(r) : b[i] = r[i]
      /\ b[Len(r) + 1] = x
  BY <1>1, AppendProperties
<1> HIDE DEF a, b
<1>6. Len(a) = Len(b)
  BY <1>1, <1>2, <1>4, <1>5
<1>7. ASSUME NEW i \in 1..Len(a) PROVE a[i] = b[i]
  <2>1. CASE i \in 1..Len(r)
    <3>1. n + i \in 1..Len(s)
      BY <1>1, <2>1
    <3> QED
      BY <3>1, <2>1, <1>1, <1>2, <1>4, <1>5
  <2>2. CASE i = Len(r) + 1
    <3>1. n + i = Len(s) + 1
      BY <1>1, <2>2
    <3> QED
      BY <3>1, <2>2, <1>2, <1>4, <1>5
  <2>3. i \in 1..Len(r) \/ i = Len(r) + 1
    BY <1>1, <1>5, <1>6
  <2> QED
    BY <2>1, <2>2, <2>3
<1>8. a = b
  BY <1>4, <1>5, <1>6, <1>7, SeqEqual
<1> QED
  BY <1>8 DEF a, b, e, r

LEMMA SortedAppend ==
    ASSUME NEW s \in Seq(Call), Sorted(s), NEW x \in Call, \A i \in 1..Len(s) : s[i].at <= x.at
    PROVE  Sorted(Append(s, x))
PROOF
<1> DEFINE e == Append(s, x)
<1>1. /\ Len(s) \in Nat /\ e \in Seq(Call) /\ Len(e) = Len(s) + 1
      /\ \A i \in 1..Len(s) : e[i] = s[i]
      /\ e[Len(s) + 1] = x /\ x.at \in Nat
  BY CallFacts, AppendProperties DEF Call
<1> HIDE DEF e
<1>2. ASSUME NEW i \in 1..Len(e), NEW j \in 1..Len(e), i <= j
      PROVE  e[i].at <= e[j].at
  <2>1. (i \in 1..Len(s) \/ i = Len(s) + 1) /\ (j \in 1..Len(s) \/ j = Len(s) + 1)
    BY <1>1
  <2> QED
    BY <2>1, <1>1, <1>2 DEF Sorted
<1>3. Sorted(e)
  BY <1>2 DEF Sorted
<1> QED
  BY <1>3 DEF e

\* What covers the calls is as good as all of them for what is newer.
LEMMA CoversNewer ==
    ASSUME NEW calls \in Seq(Call), Sorted(calls), NEW t \in Int, NEW s, Covers(s, calls, t)
    PROVE  /\ s \in Seq(Call)
           /\ Sorted(s)
           /\ NewerThan(s, t) = NewerThan(calls, t)
PROOF
<1>1. PICK n \in 0..Len(calls) : s = From(calls, n) /\ \A i \in 1..n : calls[i].at <= t
  BY DEF Covers
<1>2. /\ Len(calls) \in Nat /\ s \in Seq(Call) /\ Len(s) = Len(calls) - n
      /\ \A i \in 1..Len(s) : s[i] = calls[n + i]
  BY <1>1, CallFacts, SuffixFacts DEF From
<1>3. Sorted(s)
  <2> SUFFICES ASSUME NEW i \in 1..Len(s), NEW j \in 1..Len(s), i <= j
               PROVE  s[i].at <= s[j].at
    BY DEF Sorted
  <2>1. n + i \in 1..Len(calls) /\ n + j \in 1..Len(calls) /\ n + i <= n + j
    BY <1>1, <1>2
  <2> QED
    BY <2>1, <1>2 DEF Sorted
<1>4. PICK m : SplitAt(s, t, m)
  BY <1>2, <1>3, SplitExists
<1>5. m \in 0..Len(s) /\ \A i \in 1..Len(s) : s[i].at <= t <=> i <= m
  BY <1>4 DEF SplitAt
<1>6. SplitAt(calls, t, n + m)
  <2>1. n + m \in 0..Len(calls)
    BY <1>1, <1>2, <1>5
  <2>2. ASSUME NEW i \in 1..Len(calls) PROVE calls[i].at <= t <=> i <= n + m
    <3>1. CASE i <= n
      BY <1>1, <1>2, <1>5, <3>1
    <3>2. CASE i > n
      <4>1. i - n \in 1..Len(s) /\ n + (i - n) = i /\ (i - n <= m <=> i <= n + m)
        BY <1>1, <1>2, <1>5, <3>2
      <4> QED
        BY <4>1, <1>2, <1>5
    <3> QED
      BY <1>1, <1>2, <3>1, <3>2
  <2> QED
    BY <2>1, <2>2 DEF SplitAt
<1>7. NewerThan(s, t) = From(s, m)
  BY <1>2, <1>4, NewerSplit DEF From
<1>8. NewerThan(calls, t) = From(calls, n + m)
  BY <1>6, NewerSplit DEF From
<1>9. From(From(calls, n), m) = From(calls, n + m)
  BY <1>1, <1>2, <1>5, FromFrom
<1> QED
  BY <1>1, <1>2, <1>3, <1>7, <1>8, <1>9

LEMMA NewerCovers ==
    ASSUME NEW calls \in Seq(Call), Sorted(calls), NEW t \in Int
    PROVE  /\ Covers(NewerThan(calls, t), calls, t)
           /\ NewerThan(calls, t) = << >> => \A i \in 1..Len(calls) : calls[i].at <= t
PROOF
<1>1. PICK n : SplitAt(calls, t, n)
  BY SplitExists
<1>2. NewerThan(calls, t) = From(calls, n) /\ n \in 0..Len(calls)
  BY <1>1, NewerSplit DEF From, SplitAt
<1>3. \A i \in 1..n : calls[i].at <= t
  BY <1>1, CallFacts DEF SplitAt
<1>4. ASSUME NewerThan(calls, t) = << >>
      PROVE  \A i \in 1..Len(calls) : calls[i].at <= t
  <2>1. Len(From(calls, n)) = Len(calls) - n /\ Len(From(calls, n)) = 0
    BY <1>2, <1>4, SuffixFacts, EmptySeq DEF From
  <2>2. n = Len(calls)
    BY <2>1, <1>2, CallFacts
  <2> QED
    BY <2>2, <1>3
<1> QED
  BY <1>2, <1>3, <1>4 DEF Covers

LEMMA CoversLater ==
    ASSUME NEW calls \in Seq(Call), NEW t \in Int, NEW later \in Int, t <= later,
           NEW s, Covers(s, calls, t)
    PROVE  Covers(s, calls, later)
PROOF
<1>1. PICK n \in 0..Len(calls) : s = From(calls, n) /\ \A i \in 1..n : calls[i].at <= t
  BY DEF Covers
<1>2. \A i \in 1..n : calls[i].at <= later
  BY <1>1, CallFacts
<1> QED
  BY <1>1, <1>2 DEF Covers

LEMMA CoversAppend ==
    ASSUME NEW calls \in Seq(Call), NEW t \in Int, NEW s, Covers(s, calls, t), NEW x \in Call
    PROVE  Covers(Append(s, x), Append(calls, x), t)
PROOF
<1>1. PICK n \in 0..Len(calls) : s = From(calls, n) /\ \A i \in 1..n : calls[i].at <= t
  BY DEF Covers
<1>2. /\ Len(Append(calls, x)) = Len(calls) + 1 /\ Len(calls) \in Nat
      /\ \A i \in 1..Len(calls) : Append(calls, x)[i] = calls[i]
  BY CallFacts, AppendProperties
<1>3. n \in 0..Len(Append(calls, x)) /\ \A i \in 1..n : Append(calls, x)[i].at <= t
  BY <1>1, <1>2
<1>4. Append(s, x) = From(Append(calls, x), n)
  BY <1>1, FromAppend
<1> QED
  BY <1>3, <1>4 DEF Covers

LEMMA CoversNothing ==
    ASSUME NEW calls \in Seq(Call), NEW t \in Int, \A i \in 1..Len(calls) : calls[i].at <= t
    PROVE  Covers(<< >>, calls, t)
PROOF
<1>1. Len(calls) \in Nat
  BY CallFacts
<1>2. From(calls, Len(calls)) = << >>
  BY <1>1, SubSeqEmpty DEF From
<1> QED
  BY <1>1, <1>2 DEF Covers
-----------------------------------------------------------------------------
(* The counts of destinations.                                             *)

\* How often a destination occurs, and the bag of those that do.
At(s, x)  == {i \in 1..Len(s) : s[i].destination = x}
Tally(s)  == ToBag(Destinations(s))

LEMMA AtFacts ==
    ASSUME NEW s \in Seq(Call), NEW x
    PROVE  /\ IsFiniteSet(At(s, x)) /\ Cardinality(At(s, x)) \in Nat
           /\ Cardinality(At(s, x)) > 0 <=> \E i \in 1..Len(s) : s[i].destination = x
PROOF
<1>1. IsFiniteSet(1..Len(s))
  BY CallFacts, FS_Interval
<1>2. IsFiniteSet(At(s, x))
  BY <1>1, FS_Subset DEF At
<1>3. Cardinality(At(s, x)) \in Nat /\ (Cardinality(At(s, x)) = 0 <=> At(s, x) = {})
  BY <1>2, FS_CardinalityType, FS_EmptySet
<1>4. At(s, x) # {} <=> \E i \in 1..Len(s) : s[i].destination = x
  BY DEF At
<1> QED
  BY <1>2, <1>3, <1>4

LEMMA TallyValue ==
    ASSUME NEW s \in Seq(Call)
    PROVE  Tally(s) = [x \in {y \in Resources : Cardinality(At(s, y)) > 0} |->
                          Cardinality(At(s, x))]
PROOF
<1> DEFINE r == Destinations(s)
<1>1. /\ Len(s) \in Nat /\ DOMAIN s = 1..Len(s)
      /\ \A i \in 1..Len(s) : s[i].destination \in Resources
  BY CallFacts
<1>2. DOMAIN r = 1..Len(s) /\ \A i \in 1..Len(s) : r[i] = s[i].destination
  BY <1>1 DEF Destinations
<1> HIDE DEF r
<1>3. Range(r) = {y \in Resources : Cardinality(At(s, y)) > 0}
  <2>1. \A y : y \in Range(r) <=> \E i \in 1..Len(s) : s[i].destination = y
    BY <1>2 DEF Range
  <2>2. \A y : Cardinality(At(s, y)) > 0 <=> \E i \in 1..Len(s) : s[i].destination = y
    BY AtFacts
  <2> QED
    BY <2>1, <2>2, <1>1
<1>4. \A x : {i \in DOMAIN r : r[i] = x} = At(s, x)
  BY <1>2 DEF At
<1>5. ToBag(r) = [x \in Range(r) |-> Cardinality(At(s, x))]
  BY <1>4 DEF ToBag
<1> QED
  BY <1>3, <1>5 DEF Tally, r

\* The destinations with a count are those of the calls.
LEMMA TallyBag ==
    ASSUME NEW s \in Seq(Call)
    PROVE  /\ IsABag(Tally(s))
           /\ Tally(s) \in [DOMAIN Tally(s) -> Nat \ {0}]
           /\ DOMAIN Tally(s) \in SUBSET Resources
           /\ \A x : x \in DOMAIN Tally(s) <=> \E i \in 1..Len(s) : s[i].destination = x
PROOF
<1>1. \A i \in 1..Len(s) : s[i].destination \in Resources
  BY CallFacts
<1>2. \A x : /\ Cardinality(At(s, x)) \in Nat
             /\ Cardinality(At(s, x)) > 0 <=> \E i \in 1..Len(s) : s[i].destination = x
  BY AtFacts
<1> DEFINE b == Tally(s)
<1>3. DOMAIN b = {y \in Resources : Cardinality(At(s, y)) > 0}
  BY TallyValue
<1>4. b = [x \in DOMAIN b |-> Cardinality(At(s, x))]
  BY TallyValue
<1> HIDE DEF b
<1>5. \A x \in DOMAIN b : Cardinality(At(s, x)) \in Nat /\ Cardinality(At(s, x)) > 0
  BY <1>2, <1>3
<1>6. b \in [DOMAIN b -> {n \in Nat : n > 0}] /\ b \in [DOMAIN b -> Nat \ {0}]
  BY <1>4, <1>5
<1>7. \A x : x \in DOMAIN b <=> \E i \in 1..Len(s) : s[i].destination = x
  BY <1>1, <1>2, <1>3
<1> QED
  BY <1>3, <1>6, <1>7 DEF IsABag, b

LEMMA AtAppend ==
    ASSUME NEW s \in Seq(Call), NEW x \in Call, NEW y
    PROVE  Cardinality(At(Append(s, x), y)) =
               Cardinality(At(s, y)) + IF y = x.destination THEN 1 ELSE 0
PROOF
<1> DEFINE e == Append(s, x)
<1>1. /\ Len(s) \in Nat /\ Len(e) = Len(s) + 1 /\ \A i \in 1..Len(s) : e[i] = s[i]
      /\ e[Len(s) + 1] = x
  BY CallFacts, AppendProperties
<1> HIDE DEF e
<1>2. IsFiniteSet(At(s, y)) /\ Cardinality(At(s, y)) \in Nat
  BY AtFacts
<1>3. 1..Len(e) = 1..Len(s) \cup {Len(s) + 1}
  BY <1>1
<1>4. CASE y = x.destination
  <2>1. At(e, y) = At(s, y) \cup {Len(s) + 1}
    BY <1>1, <1>3, <1>4 DEF At
  <2>2. Len(s) + 1 \notin At(s, y)
    BY <1>1 DEF At
  <2>3. Cardinality(At(s, y) \cup {Len(s) + 1}) = Cardinality(At(s, y)) + 1
    BY <1>2, <2>2, FS_AddElement
  <2> QED
    BY <1>4, <2>1, <2>3 DEF e
<1>5. CASE y # x.destination
  <2>1. At(e, y) = At(s, y)
    BY <1>1, <1>3, <1>5 DEF At
  <2> QED
    BY <1>2, <1>5, <2>1 DEF e
<1> QED
  BY <1>4, <1>5

LEMMA TallyAppend ==
    ASSUME NEW s \in Seq(Call), NEW x \in Call
    PROVE  Tally(Append(s, x)) = Tally(s) (+) SetToBag({x.destination})
PROOF
<1> DEFINE y == x.destination
           b == Tally(s)
           one == SetToBag({y})
           sum == b (+) one
           e == Append(s, x)
<1>1. e \in Seq(Call) /\ y \in Resources
  BY AppendProperties DEF Call
<1>2. \A z : Cardinality(At(s, z)) \in Nat
  BY AtFacts
<1>3. \A z : Cardinality(At(e, z)) = Cardinality(At(s, z)) + IF z = y THEN 1 ELSE 0
  BY AtAppend
<1>4. /\ DOMAIN b = {z \in Resources : Cardinality(At(s, z)) > 0}
      /\ \A z \in DOMAIN b : b[z] = Cardinality(At(s, z))
  BY TallyValue
<1>5. DOMAIN one = {y} /\ one[y] = 1
  BY DEF SetToBag
<1>6. Tally(e) = [z \in {z \in Resources : Cardinality(At(e, z)) > 0} |-> Cardinality(At(e, z))]
  BY <1>1, TallyValue
<1> HIDE DEF b, one, e
<1>7. sum = [z \in DOMAIN b \cup DOMAIN one |->
                (IF z \in DOMAIN b THEN b[z] ELSE 0) + (IF z \in DOMAIN one THEN one[z] ELSE 0)]
  BY DEF (+)
<1>8. DOMAIN b \cup DOMAIN one = {z \in Resources : Cardinality(At(e, z)) > 0}
  BY <1>1, <1>2, <1>3, <1>4, <1>5
<1>9. \A z \in {z \in Resources : Cardinality(At(e, z)) > 0} :
          (IF z \in DOMAIN b THEN b[z] ELSE 0) + (IF z \in DOMAIN one THEN one[z] ELSE 0)
              = Cardinality(At(e, z))
  BY <1>2, <1>3, <1>4, <1>5
<1>10. sum = Tally(e)
  BY <1>6, <1>7, <1>8, <1>9
<1> QED
  BY <1>10 DEF b, one, e

LEMMA AtConcat ==
    ASSUME NEW s \in Seq(Call), NEW t \in Seq(Call), NEW y
    PROVE  Cardinality(At(s \o t, y)) = Cardinality(At(s, y)) + Cardinality(At(t, y))
PROOF
<1> DEFINE e == s \o t
           n == Len(s)
           B == {i \in (n + 1)..Len(e) : e[i].destination = y}
           f == [i \in At(t, y) |-> n + i]
<1>1. /\ n \in Nat /\ Len(t) \in Nat /\ Len(e) = n + Len(t)
      /\ \A i \in 1..(n + Len(t)) : e[i] = IF i <= n THEN s[i] ELSE t[i - n]
  BY CallFacts, ConcatProperties
<1>2. /\ IsFiniteSet(At(s, y)) /\ Cardinality(At(s, y)) \in Nat
      /\ IsFiniteSet(At(t, y)) /\ Cardinality(At(t, y)) \in Nat
  BY AtFacts
<1> HIDE DEF e, n
<1>3. f \in Bijection(At(t, y), B)
  <2>1. ASSUME NEW i \in At(t, y) PROVE n + i \in B
    <3>1. i \in 1..Len(t) /\ t[i].destination = y
      BY DEF At
    <3>2. n + i \in 1..(n + Len(t)) /\ ~(n + i <= n) /\ (n + i) - n = i /\ n + i \in (n + 1)..Len(e)
      BY <1>1, <3>1
    <3> QED
      BY <1>1, <3>1, <3>2
  <2>2. \A j, k \in At(t, y) : f[j] = f[k] => j = k
    BY <1>1 DEF At
  <2>3. ASSUME NEW i \in B PROVE \E j \in At(t, y) : f[j] = i
    <3>1. i \in (n + 1)..Len(e) /\ e[i].destination = y
      OBVIOUS
    <3>2. i - n \in 1..Len(t) /\ n + (i - n) = i /\ e[i] = t[i - n]
      BY <1>1, <3>1
    <3>3. i - n \in At(t, y)
      BY <3>1, <3>2 DEF At
    <3> QED
      BY <3>2, <3>3
  <2>4. f \in [At(t, y) -> B]
    BY <2>1
  <2> HIDE DEF f, B
  <2> QED
    BY <2>2, <2>3, <2>4, Fun_IsBij
<1>4. IsFiniteSet(B) /\ Cardinality(B) = Cardinality(At(t, y))
  BY <1>2, <1>3, FS_Bijection, Fun_ExistsBij
<1>5. At(e, y) = At(s, y) \cup B /\ At(s, y) \cap B = {}
  <2>1. \A i : i \in 1..Len(e) <=> i \in 1..n \/ i \in (n + 1)..Len(e)
    BY <1>1
  <2>2. \A i \in 1..n : i \in 1..(n + Len(t)) /\ e[i] = s[i]
    BY <1>1
  <2>3. At(s, y) = {i \in 1..n : s[i].destination = y}
    BY DEF At, n
  <2>4. \A i \in 1..n : i \notin (n + 1)..Len(e)
    BY <1>1
  <2> QED
    BY <2>1, <2>2, <2>3, <2>4 DEF At
<1> HIDE DEF B
<1>6. Cardinality(At(e, y)) = Cardinality(At(s, y)) + Cardinality(B) - Cardinality({})
  BY <1>2, <1>4, <1>5, FS_Union
<1> QED
  BY <1>2, <1>4, <1>6, FS_EmptySet DEF e

\* Taking away the counts of the first calls leaves those of the others.
LEMMA TallyRest ==
    ASSUME NEW s \in Seq(Call), NEW t \in Seq(Call)
    PROVE  Tally(s \o t) (-) Tally(s) = Tally(t)
PROOF
<1> DEFINE e == s \o t
           a == Tally(e)
           b == Tally(s)
           rest == a (-) b
           D == [z \in DOMAIN a |-> IF z \in DOMAIN b THEN a[z] - b[z] ELSE a[z]]
<1>1. e \in Seq(Call)
  BY ConcatProperties
<1>2. \A z : Cardinality(At(s, z)) \in Nat /\ Cardinality(At(t, z)) \in Nat
  BY AtFacts
<1>3. \A z : Cardinality(At(e, z)) = Cardinality(At(s, z)) + Cardinality(At(t, z))
  BY AtConcat
<1>4. /\ DOMAIN b = {z \in Resources : Cardinality(At(s, z)) > 0}
      /\ \A z \in DOMAIN b : b[z] = Cardinality(At(s, z))
  BY TallyValue
<1>5. /\ DOMAIN a = {z \in Resources : Cardinality(At(e, z)) > 0}
      /\ \A z \in DOMAIN a : a[z] = Cardinality(At(e, z))
  BY <1>1, TallyValue
<1>6. Tally(t) = [z \in {z \in Resources : Cardinality(At(t, z)) > 0} |-> Cardinality(At(t, z))]
  BY TallyValue
<1> HIDE DEF a, b, e
<1>7. rest = [z \in {d \in DOMAIN D : D[d] > 0} |-> D[z]]
  BY DEF (-)
<1>8. DOMAIN D = DOMAIN a /\ \A z \in DOMAIN D : D[z] = Cardinality(At(t, z))
  <2>1. ASSUME NEW z \in DOMAIN a
        PROVE  (IF z \in DOMAIN b THEN a[z] - b[z] ELSE a[z]) = Cardinality(At(t, z))
    BY <1>2, <1>3, <1>4, <1>5
  <2> QED
    BY <2>1
<1> HIDE DEF D
<1>9. {d \in DOMAIN D : D[d] > 0} = {z \in Resources : Cardinality(At(t, z)) > 0}
  BY <1>2, <1>3, <1>5, <1>8
<1>10. rest = Tally(t)
  BY <1>5, <1>6, <1>7, <1>8, <1>9
<1> QED
  BY <1>10 DEF a, b, e
-----------------------------------------------------------------------------
(* The queue of a duration.                                                *)

\* A queue that counts its destinations, and holds ahead of its head what
\* covers the calls of its window.
Counts(q) ==
    /\ q \in Queue
    /\ q.head \in 0..Len(q.items)
    /\ q.destinations = Tally(Ahead(q))

Exact(q, d, calls) == Counts(q) /\ Covers(Ahead(q), calls, clock - d)

LEMMA DurationFacts ==
    /\ \A d \in Durations : d \in Nat /\ d <= Longest
    /\ Longest \in Nat
    /\ \A i \in 1..Len(Rule) : Rule[i].duration \in Durations /\ Rule[i].limit \in Nat
    /\ Len(Rule) \in Nat \ {0} /\ DOMAIN Rule = 1..Len(Rule)
    /\ Rule[1].duration = Second
    /\ Policies[GatePolicy].fanout \in Nat
PROOF
<1>1. Policies[GatePolicy] \in Policy
  BY GateAssumptions, PolicyFacts
<1> DEFINE w == Policies[GatePolicy].windows
           one == [duration |-> Second, limit |-> Policies[GatePolicy].rate]
<1>2. w \in Seq(Limit) /\ one \in Limit /\ Policies[GatePolicy].fanout \in Nat
  BY <1>1, BudgetAssumptions DEF Policy, Limit
<1>3. /\ Rule \in Seq(Limit) /\ Len(Rule) = 1 + Len(w) /\ Len(w) \in Nat
      /\ Rule[1] = one
  <2>1. <<one>> \in Seq(Limit) /\ Len(<<one>>) = 1 /\ <<one>>[1] = one
    BY <1>2
  <2> HIDE DEF one, w
  <2>2. Len(w) \in Nat
    BY <1>2
  <2>3. Rule = <<one>> \o w
    BY DEF Rule, one, w
  <2> QED
    BY <1>2, <2>1, <2>2, <2>3, ConcatProperties
<1> HIDE DEF w
<1>4. /\ DOMAIN Rule = 1..Len(Rule)
      /\ \A i \in 1..Len(Rule) : Rule[i] \in Limit
  BY <1>3
<1>5. \A i \in 1..Len(Rule) : /\ Rule[i].duration \in Nat /\ Rule[i].limit \in Nat
                              /\ Rule[i].duration \in Durations
  BY <1>4 DEF Limit, Durations
<1>6. \A d \in Durations : d \in Nat /\ d <= Longest
  BY <1>4, <1>5, GateAssumptions DEF Durations
<1> QED
  BY <1>2, <1>3, <1>4, <1>5, <1>6, GateAssumptions

LEMMA AheadFacts ==
    ASSUME NEW q \in Queue, q.head \in 0..Len(q.items)
    PROVE  /\ q.items \in Seq(Call) /\ Len(q.items) \in Nat /\ q.head \in Nat
           /\ Ahead(q) = From(q.items, q.head)
           /\ Ahead(q) \in Seq(Call)
           /\ Len(Ahead(q)) = Len(q.items) - q.head
           /\ \A i \in 1..Len(Ahead(q)) : Ahead(q)[i] = q.items[q.head + i]
PROOF
<1>1. q.items \in Seq(Call) /\ q.head \in Nat
  BY DEF Queue
<1> QED
  BY <1>1, CallFacts, SuffixFacts DEF Ahead, From

\* The loop stops where the time splits what is ahead.
LEMMA PassedValue ==
    ASSUME NEW q \in Queue, q.head \in 0..Len(q.items), NEW t \in Int,
           NEW m, SplitAt(Ahead(q), t, m)
    PROVE  Passed(q, t) = q.head + m
PROOF
<1> DEFINE items == q.items
           head  == q.head
           a     == Ahead(q)
           S     == {n \in head..Len(items) : n = Len(items) \/ items[n + 1].at > t}
<1>1. /\ Len(items) \in Nat /\ head \in Nat /\ head <= Len(items)
      /\ Len(a) = Len(items) - head /\ \A i \in 1..Len(a) : a[i] = items[head + i]
      /\ a \in Seq(Call)
  BY AheadFacts
<1>2. m \in 0..Len(a) /\ \A i \in 1..Len(a) : a[i].at \in Nat /\ (a[i].at <= t <=> i <= m)
  BY <1>1, CallFacts DEF SplitAt
<1>3. Passed(q, t) = CHOOSE x \in S : \A y \in S : x =< y
  BY DEF Passed, Min
<1> HIDE DEF a, items, head
<1>4. head + m \in S
  <2>1. head + m \in head..Len(items)
    BY <1>1, <1>2
  <2>2. ASSUME head + m # Len(items) PROVE items[head + m + 1].at > t
    <3>1. m \in Nat /\ Len(a) \in Nat /\ m < Len(a)
      <4>1. m \in 0..Len(a) /\ Len(a) = Len(items) - head /\ head + m # Len(items)
        BY <1>1, <1>2, <2>2
      <4>2. Len(items) \in Nat /\ head \in Nat /\ head <= Len(items)
        BY <1>1
      <4> QED
        BY <4>1, <4>2
    <3>2. m + 1 \in 1..Len(a) /\ head + (m + 1) = head + m + 1 /\ ~(m + 1 <= m)
      BY <1>1, <3>1
    <3>3. a[m + 1] = items[head + m + 1] /\ a[m + 1].at \in Nat /\ ~(a[m + 1].at <= t)
      BY <3>2, <1>1, <1>2
    <3> QED
      BY <3>3
  <2> QED
    BY <2>1, <2>2
<1>5. ASSUME NEW n \in S PROVE head + m <= n
  <2> SUFFICES ASSUME n < head + m PROVE FALSE
    BY <1>1, <1>2
  <2>1. n \in head..Len(items) /\ n # Len(items) /\ items[n + 1].at > t
    BY <1>1, <1>2
  <2>2. (n + 1) - head \in 1..Len(a) /\ head + ((n + 1) - head) = n + 1 /\ (n + 1) - head <= m
    BY <1>1, <1>2, <2>1
  <2>3. a[(n + 1) - head] = items[n + 1]
    BY <2>2, <1>1
  <2>4. a[(n + 1) - head].at \in Nat /\ a[(n + 1) - head].at <= t
    BY <2>2, <1>2
  <2> QED
    BY <2>1, <2>3, <2>4
<1>6. \A n \in S : n \in Nat
  BY <1>1
<1> HIDE DEF S
<1>7. \A x \in S : (\A y \in S : x =< y) => x = head + m
  BY <1>1, <1>2, <1>4, <1>5, <1>6
<1>8. \A y \in S : head + m =< y
  BY <1>5
<1> QED
  BY <1>3, <1>4, <1>7, <1>8 DEF head

\* Compacting changes nothing that is ahead.
LEMMA CompactedAhead ==
    ASSUME NEW q \in Queue, q.head \in 0..Len(q.items)
    PROVE  LET k == Compacted(q) IN
           /\ k \in Queue /\ k.head \in 0..Len(k.items)
           /\ Ahead(k) = Ahead(q)
           /\ k.destinations = q.destinations
PROOF
<1> DEFINE a == Ahead(q)
           k == [q EXCEPT !.items = a, !.head = 0]
<1>1. a \in Seq(Call) /\ Len(a) \in Nat
  BY AheadFacts, CallFacts
<1>2. k \in Queue /\ k.items = a /\ k.head = 0 /\ k.destinations = q.destinations
  <2> HIDE DEF a
  <2> QED
    BY <1>1 DEF Queue
<1>3. Ahead(k) = SubSeq(a, 1, Len(a))
  BY <1>2 DEF Ahead
<1>4. SubSeq(a, 1, Len(a)) = a
  <2> HIDE DEF a
  <2> QED
    BY <1>1, SubSeqFull
<1> HIDE DEF k
<1>5. k.head \in 0..Len(k.items)
  BY <1>1, <1>2
<1> QED
  BY <1>2, <1>3, <1>4, <1>5 DEF Compacted, k

LEMMA AdvancedAhead ==
    ASSUME NEW q, Counts(q), Sorted(Ahead(q)), NEW d \in Nat, clock \in Nat
    PROVE  /\ Counts(Advanced(q, d))
           /\ Ahead(Advanced(q, d)) = NewerThan(Ahead(q), clock - d)
PROOF
<1> DEFINE t == clock - d
           a == Ahead(q)
           head == Passed(q, t)
           past == SubSeq(q.items, q.head + 1, head)
           r == [q EXCEPT !.head = head, !.destinations = @ (-) ToBag(Destinations(past))]
<1>1. /\ q \in Queue /\ q.head \in 0..Len(q.items) /\ q.destinations = Tally(a) /\ t \in Int
      /\ Sorted(a)
  BY DEF Counts
<1>2. /\ q.items \in Seq(Call) /\ Len(q.items) \in Nat /\ q.head \in Nat
      /\ a = From(q.items, q.head) /\ a \in Seq(Call)
      /\ Len(a) = Len(q.items) - q.head
  BY <1>1, AheadFacts
<1>3. PICK m : SplitAt(a, t, m)
  <2> HIDE DEF a, t
  <2> QED
    BY <1>1, <1>2, SplitExists
<1>4. m \in 0..Len(a) /\ head = q.head + m
  <2>1. m \in 0..Len(a)
    BY <1>3 DEF SplitAt
  <2> HIDE DEF t
  <2> QED
    BY <1>1, <1>3, <2>1, PassedValue
<1>5. NewerThan(a, t) = From(a, m) /\ From(a, m) = From(q.items, head)
  <2>1. NewerThan(a, t) = From(a, m)
    <3> HIDE DEF a, t
    <3> QED
      BY <1>1, <1>2, <1>3, NewerSplit DEF From
  <2>2. From(From(q.items, q.head), m) = From(q.items, q.head + m)
    BY <1>1, <1>2, <1>4, FromFrom
  <2> QED
    BY <2>1, <2>2, <1>2, <1>4
<1>6. a = past \o From(q.items, head)
  <2>1. /\ q.head + 1 \in 1..(Len(q.items) + 1)
        /\ q.head + m \in ((q.head + 1) - 1)..Len(q.items)
        /\ Len(q.items) \in (q.head + m)..Len(q.items)
    BY <1>1, <1>2, <1>4
  <2>2. SubSeq(q.items, q.head + 1, q.head + m) \o SubSeq(q.items, (q.head + m) + 1, Len(q.items))
            = SubSeq(q.items, q.head + 1, Len(q.items))
    BY <1>2, <2>1, ConcatAdjacentSubSeq
  <2> QED
    BY <1>2, <1>4, <2>2 DEF From
<1>7. past \in Seq(Call)
  <2>1. \A i \in (q.head + 1)..(q.head + m) : q.items[i] \in Call
    BY <1>1, <1>2, <1>4, CallFacts
  <2> QED
    BY <1>2, <1>4, <2>1, SubSeqProperties
<1>8. /\ head \in 0..Len(q.items)
      /\ From(q.items, head) \in Seq(Call)
  <2>1. head \in 0..Len(q.items)
    BY <1>1, <1>2, <1>4
  <2> QED
    BY <1>2, <2>1, SuffixFacts DEF From
<1> DEFINE rest == From(q.items, head)
<1>9. Tally(a) (-) Tally(past) = Tally(rest)
  <2> HIDE DEF a, past, head
  <2> QED
    BY <1>6, <1>7, <1>8, TallyRest
<1>10. /\ Tally(rest) \in [DOMAIN Tally(rest) -> Nat \ {0}]
       /\ DOMAIN Tally(rest) \in SUBSET Resources
  BY <1>8, TallyBag
<1>11. r = [q EXCEPT !.head = head, !.destinations = Tally(rest)]
  BY <1>1, <1>9 DEF Tally
<1> HIDE DEF head, a, t, past
<1>12. /\ r \in Queue /\ r.items = q.items /\ r.head = head /\ r.destinations = Tally(rest)
  <2>1. Tally(rest) \in UNION {[D -> Nat \ {0}] : D \in SUBSET Resources}
    BY <1>10
  <2>2. head \in Nat
    BY <1>2, <1>8
  <2> HIDE DEF rest, r
  <2> QED
    BY <1>1, <1>11, <2>1, <2>2 DEF Queue
<1> HIDE DEF r
<1>13. Ahead(r) = rest
  BY <1>12 DEF Ahead, From
<1>14. Advanced(q, d) = Compacted(r)
  BY DEF Advanced, r, head, past, t
<1> HIDE DEF rest
<1>15. /\ Compacted(r) \in Queue /\ Compacted(r).head \in 0..Len(Compacted(r).items)
       /\ Ahead(Compacted(r)) = rest /\ Compacted(r).destinations = Tally(rest)
  BY <1>8, <1>12, <1>13, CompactedAhead
<1>16. rest = NewerThan(a, t)
  BY <1>5 DEF rest
<1> QED
  BY <1>14, <1>15, <1>16 DEF Counts, a, t

\* A queue that is exact stays so when it is advanced, and keeps only its window.
LEMMA AdvancedExact ==
    ASSUME NEW calls \in Seq(Call), Sorted(calls), NEW q, NEW d \in Nat, clock \in Nat,
           Exact(q, d, calls)
    PROVE  /\ Exact(Advanced(q, d), d, calls)
           /\ Ahead(Advanced(q, d)) = NewerThan(calls, clock - d)
PROOF
<1>1. clock - d \in Int /\ Counts(q) /\ Covers(Ahead(q), calls, clock - d)
  BY DEF Exact
<1>2. Sorted(Ahead(q)) /\ NewerThan(Ahead(q), clock - d) = NewerThan(calls, clock - d)
  BY <1>1, CoversNewer
<1>3. Counts(Advanced(q, d)) /\ Ahead(Advanced(q, d)) = NewerThan(calls, clock - d)
  BY <1>1, <1>2, AdvancedAhead
<1>4. Covers(NewerThan(calls, clock - d), calls, clock - d)
  BY <1>1, NewerCovers
<1> QED
  BY <1>3, <1>4 DEF Exact

\* So is one that is made from the remembered calls.
LEMMA WindowExact ==
    ASSUME NEW calls \in Seq(Call), Sorted(calls), clock \in Nat, NEW u, NEW d \in Durations,
           Covers(u.calls, calls, clock - Longest),
           d \in DOMAIN u.windows => Exact(u.windows[d], d, calls)
    PROVE  /\ Exact(WindowOf(u, d), d, calls)
           /\ Ahead(WindowOf(u, d)) = NewerThan(calls, clock - d)
PROOF
<1>1. /\ d \in Nat /\ clock - d \in Int /\ clock - Longest \in Int
      /\ clock - Longest <= clock - d
  BY DurationFacts
<1> DEFINE items == NewerThan(u.calls, clock - d)
           new   == [items |-> items, head |-> 0, destinations |-> ToBag(Destinations(items))]
<1>2. Exact(new, d, calls)
  <2>1. Covers(u.calls, calls, clock - d)
    BY <1>1, CoversLater
  <2>2. items = NewerThan(calls, clock - d)
    BY <1>1, <2>1, CoversNewer
  <2>3. Covers(items, calls, clock - d)
    BY <1>1, <2>2, NewerCovers
  <2>4. items \in Seq(Call) /\ Len(items) \in Nat
    <3> HIDE DEF items
    <3> QED
      BY <1>1, <2>3, CoversNewer, CallFacts
  <2> HIDE DEF items
  <2>5. Ahead(new) = items
    BY <2>4, SubSeqFull DEF Ahead
  <2>6. /\ Tally(items) \in [DOMAIN Tally(items) -> Nat \ {0}]
        /\ DOMAIN Tally(items) \in SUBSET Resources
    BY <2>4, TallyBag
  <2>7. new.destinations = Tally(items) /\ new.items = items /\ new.head = 0
    BY DEF Tally
  <2>8. new \in Queue
    <3>1. Tally(items) \in UNION {[D -> Nat \ {0}] : D \in SUBSET Resources}
      BY <2>6
    <3>2. new = [items |-> items, head |-> 0, destinations |-> Tally(items)]
      BY DEF Tally
    <3> HIDE DEF new
    <3> QED
      BY <2>4, <3>1, <3>2 DEF Queue
  <2> HIDE DEF new
  <2> QED
    BY <2>3, <2>4, <2>5, <2>7, <2>8 DEF Exact, Counts
<1>3. WindowOf(u, d) = Advanced(IF d \in DOMAIN u.windows THEN u.windows[d] ELSE new, d)
  BY DEF WindowOf
<1> HIDE DEF new
<1> QED
  BY <1>1, <1>2, <1>3, AdvancedExact

\* A call that is allowed enters a window, and the calls.
LEMMA EnteredExact ==
    ASSUME NEW calls \in Seq(Call), NEW q, NEW d \in Nat, clock \in Nat, NEW x \in Call,
           Exact(q, d, calls)
    PROVE  Exact(Entered(q, x), d, Append(calls, x))
PROOF
<1> DEFINE e == Entered(q, x)
           bag == Tally(Ahead(q)) (+) SetToBag({x.destination})
<1>1. /\ q \in Queue /\ q.head \in 0..Len(q.items) /\ q.destinations = Tally(Ahead(q))
      /\ Covers(Ahead(q), calls, clock - d) /\ clock - d \in Int
  BY DEF Exact, Counts
<1>2. /\ q.items \in Seq(Call) /\ Len(q.items) \in Nat /\ q.head \in Nat
      /\ Ahead(q) = From(q.items, q.head) /\ Ahead(q) \in Seq(Call)
  BY <1>1, AheadFacts
<1>3. bag = Tally(Append(Ahead(q), x))
  BY <1>2, TallyAppend
<1>4. Append(Ahead(q), x) \in Seq(Call)
  BY <1>2, AppendProperties
<1>5. bag \in UNION {[D -> Nat \ {0}] : D \in SUBSET Resources}
  <2>1. /\ Tally(Append(Ahead(q), x)) \in [DOMAIN Tally(Append(Ahead(q), x)) -> Nat \ {0}]
        /\ DOMAIN Tally(Append(Ahead(q), x)) \in SUBSET Resources
    BY <1>4, TallyBag
  <2> HIDE DEF bag
  <2> QED
    BY <1>3, <2>1
<1>6. Append(q.items, x) \in Seq(Call) /\ Len(Append(q.items, x)) = Len(q.items) + 1
  BY <1>2, AppendProperties
<1>7. e = [q EXCEPT !.items = Append(q.items, x), !.destinations = bag]
  BY <1>1 DEF Entered
<1> HIDE DEF bag, e
<1>8. /\ e \in Queue /\ e.items = Append(q.items, x) /\ e.head = q.head /\ e.destinations = bag
  BY <1>1, <1>5, <1>6, <1>7 DEF Queue
<1>9. Ahead(e) = Append(Ahead(q), x)
  BY <1>1, <1>2, <1>8, FromAppend DEF Ahead, From
<1>10. e.head \in 0..Len(e.items)
  BY <1>1, <1>2, <1>6, <1>8
<1>11. Covers(Append(Ahead(q), x), Append(calls, x), clock - d)
  BY <1>1, CoversAppend
<1> QED
  BY <1>3, <1>8, <1>9, <1>10, <1>11 DEF Exact, Counts, e
-----------------------------------------------------------------------------
(* What the gate has allowed.                                              *)

LogOK ==
    /\ log \subseteq [at : Nat, capability : Services, request : Requests]
    /\ IsFiniteSet(log)
    /\ \A k \in log : /\ k.at <= clock
                      /\ caps[k.capability] # None
                      /\ k.capability \in cached \/ caps[k.capability].expires_at <= clock

CallsOf(h) == [i \in 1..Len(h) |-> [at |-> h[i].at, destination |-> ResourceOf[h[i].capability]]]

\* The log as a sequence, in the order of time.
Past(h) ==
    /\ h \in Seq(log)
    /\ \A i, j \in 1..Len(h) : h[i] = h[j] => i = j
    /\ \A k \in log : \E i \in 1..Len(h) : h[i] = k
    /\ Sorted(CallsOf(h))

LEMMA LogFacts ==
    ASSUME LogOK, NEW k \in log
    PROVE  /\ k = [at |-> k.at, capability |-> k.capability, request |-> k.request]
           /\ k.at \in Nat /\ k.at <= clock
           /\ k.capability \in Services /\ k.capability \in Capabilities
           /\ ResourceOf[k.capability] \in Resources
           /\ k.request \in Requests
           /\ caps[k.capability] # None
           /\ k.capability \in cached \/ caps[k.capability].expires_at <= clock
PROOF
<1>1. k \in [at : Nat, capability : Services, request : Requests]
  BY DEF LogOK
<1>2. k.capability \in Capabilities
  BY <1>1, GateAssumptions
<1>3. ResourceOf[k.capability] \in Resources
  BY <1>2 DEF Resources
<1> QED
  BY <1>1, <1>2, <1>3 DEF LogOK

LEMMA PastFacts ==
    ASSUME LogOK, NEW h, Past(h)
    PROVE  /\ Len(h) \in Nat /\ \A i \in 1..Len(h) : h[i] \in log
           /\ CallsOf(h) \in Seq(Call) /\ Len(CallsOf(h)) = Len(h)
           /\ \A i \in 1..Len(h) : /\ CallsOf(h)[i].at = h[i].at
                                   /\ CallsOf(h)[i].destination = ResourceOf[h[i].capability]
           /\ Sorted(CallsOf(h))
           /\ clock \in Nat => \A i \in 1..Len(CallsOf(h)) : CallsOf(h)[i].at <= clock
PROOF
<1> DEFINE c == CallsOf(h)
<1>1. Len(h) \in Nat /\ \A i \in 1..Len(h) : h[i] \in log
  BY DEF Past
<1>2. \A i \in 1..Len(h) : [at |-> h[i].at, destination |-> ResourceOf[h[i].capability]] \in Call
  BY <1>1, LogFacts DEF Call
<1>3. c \in [1..Len(h) -> Call]
  BY <1>2 DEF CallsOf
<1>4. c \in Seq(Call) /\ Len(c) = Len(h)
  <2> HIDE DEF c
  <2>1. c \in Seq(Call)
    BY <1>1, <1>3, SeqDef
  <2> QED
    BY <1>1, <1>3, <2>1
<1>5. \A i \in 1..Len(h) : /\ c[i].at = h[i].at
                           /\ c[i].destination = ResourceOf[h[i].capability]
  BY DEF CallsOf
<1>6. \A i \in 1..Len(h) : h[i].at <= clock
  BY <1>1, LogFacts
<1>7. Sorted(c)
  BY DEF Past
<1> HIDE DEF c
<1>8. \A i \in 1..Len(c) : c[i].at <= clock
  BY <1>4, <1>5, <1>6
<1> QED
  BY <1>1, <1>4, <1>5, <1>7, <1>8 DEF c

\* What is newer than a time counts the log since then, and its destinations.
LEMMA WindowCount ==
    ASSUME LogOK, clock \in Nat, NEW h, Past(h), NEW d \in Nat
    PROVE  LET s == NewerThan(CallsOf(h), clock - d) IN
           /\ s \in Seq(Call)
           /\ IsFiniteSet(Allowed(d)) /\ Len(s) = Cardinality(Allowed(d))
           /\ DOMAIN Tally(s) = {ResourceOf[k.capability] : k \in Allowed(d)}
PROOF
<1> DEFINE calls == CallsOf(h)
           t == clock - d
           s == NewerThan(calls, t)
           m == Len(h)
<1>1. /\ m \in Nat /\ \A i \in 1..m : h[i] \in log
      /\ calls \in Seq(Call) /\ Len(calls) = m
      /\ \A i \in 1..m : /\ calls[i].at = h[i].at
                         /\ calls[i].destination = ResourceOf[h[i].capability]
      /\ Sorted(calls) /\ t \in Int
  BY PastFacts
<1>2. /\ \A i, j \in 1..m : h[i] = h[j] => i = j
      /\ \A k \in log : \E i \in 1..m : h[i] = k
  BY DEF Past
<1>3. Allowed(d) = {k \in log : k.at > t}
  BY DEF Allowed
<1>4. \A k \in log : k.at \in Nat
  BY LogFacts
<1> HIDE DEF calls, t, m
<1>5. PICK n : SplitAt(calls, t, n)
  BY <1>1, SplitExists
<1>6. n \in 0..m /\ \A i \in 1..m : calls[i].at <= t <=> i <= n
  BY <1>1, <1>5 DEF SplitAt
<1>7. s = From(calls, n)
  BY <1>1, <1>5, NewerSplit DEF From
<1>8. s \in Seq(Call) /\ Len(s) = m - n /\ \A i \in 1..Len(s) : s[i] = calls[n + i]
  BY <1>1, <1>6, <1>7, SuffixFacts DEF From
<1> HIDE DEF s
<1>9. ASSUME NEW i \in 1..(m - n)
      PROVE  /\ n + i \in 1..m /\ h[n + i] \in Allowed(d)
             /\ s[i].destination = ResourceOf[h[n + i].capability]
  <2>1. n + i \in 1..m /\ ~(n + i <= n)
    BY <1>1, <1>6
  <2>2. h[n + i] \in log /\ h[n + i].at \in Nat /\ h[n + i].at = calls[n + i].at
    BY <1>1, <1>4, <2>1
  <2>3. ~(h[n + i].at <= t)
    BY <1>6, <2>1, <2>2
  <2>4. h[n + i].at > t
    BY <1>1, <2>2, <2>3
  <2> QED
    BY <1>1, <1>3, <1>8, <2>1, <2>2, <2>4
<1>10. ASSUME NEW k \in Allowed(d)
       PROVE  \E i \in 1..(m - n) : h[n + i] = k
  <2>1. k \in log /\ k.at > t /\ k.at \in Nat
    BY <1>3, <1>4
  <2>2. PICK j \in 1..m : h[j] = k
    BY <1>2, <2>1
  <2>3. ~(calls[j].at <= t)
    BY <1>1, <2>1, <2>2
  <2>4. ~(j <= n)
    BY <1>6, <2>3
  <2>5. j - n \in 1..(m - n) /\ n + (j - n) = j
    BY <1>1, <1>6, <2>4
  <2> QED
    BY <2>2, <2>5
<1> DEFINE f == [i \in 1..(m - n) |-> h[n + i]]
<1>11. f \in Bijection(1..(m - n), Allowed(d))
  <2>1. f \in [1..(m - n) -> Allowed(d)]
    BY <1>9
  <2>2. ASSUME NEW i \in 1..(m - n), NEW j \in 1..(m - n), f[i] = f[j] PROVE i = j
    <3>1. h[n + i] = h[n + j] /\ n + i \in 1..m /\ n + j \in 1..m
      BY <1>9, <2>2
    <3>2. n + i = n + j
      BY <1>2, <3>1
    <3> QED
      BY <1>1, <1>6, <3>2
  <2>3. \A k \in Allowed(d) : \E i \in 1..(m - n) : f[i] = k
    BY <1>10
  <2> HIDE DEF f
  <2> QED
    BY <2>1, <2>2, <2>3, Fun_IsBij
<1>12. m - n \in Nat
  BY <1>1, <1>6
<1>13. IsFiniteSet(Allowed(d)) /\ Cardinality(Allowed(d)) = m - n
  <2>1. ExistsBijection(1..(m - n), Allowed(d))
    <3> HIDE DEF f
    <3> QED
      BY <1>11, Fun_ExistsBij
  <2> QED
    BY <1>12, <2>1, FS_CountingElements, FS_NatBijection
<1>14. DOMAIN Tally(s) = {ResourceOf[k.capability] : k \in Allowed(d)}
  <2>1. \A x : x \in DOMAIN Tally(s) <=> \E i \in 1..(m - n) : s[i].destination = x
    BY <1>8, TallyBag
  <2>2. ASSUME NEW x \in DOMAIN Tally(s) PROVE \E k \in Allowed(d) : x = ResourceOf[k.capability]
    BY <1>9, <2>1
  <2>3. ASSUME NEW k \in Allowed(d) PROVE ResourceOf[k.capability] \in DOMAIN Tally(s)
    <3>1. PICK i \in 1..(m - n) : h[n + i] = k
      BY <1>10
    <3>2. s[i].destination = ResourceOf[k.capability]
      BY <1>9, <3>1
    <3> QED
      BY <2>1, <3>2
  <2> QED
    BY <2>2, <2>3
<1>15. s = NewerThan(CallsOf(h), clock - d)
  BY DEF s, calls, t
<1> QED
  BY <1>8, <1>13, <1>14, <1>15

\* What is allowed now is the latest.
LEMMA PastAppend ==
    ASSUME LogOK, clock \in Nat, NEW h, Past(h),
           NEW k \in [at : Nat, capability : Services, request : Requests],
           k.at = clock, k \notin log, log' = log \cup {k}
    PROVE  /\ Past(Append(h, k))'
           /\ CallsOf(Append(h, k)) =
                  Append(CallsOf(h), [at |-> clock, destination |-> ResourceOf[k.capability]])
PROOF
<1> DEFINE e == Append(h, k)
           x == [at |-> clock, destination |-> ResourceOf[k.capability]]
           c == CallsOf(h)
<1>1. /\ Len(h) \in Nat /\ \A i \in 1..Len(h) : h[i] \in log
      /\ c \in Seq(Call) /\ Len(c) = Len(h)
      /\ \A i \in 1..Len(h) : c[i] = [at |-> h[i].at, destination |-> ResourceOf[h[i].capability]]
      /\ Sorted(c) /\ \A i \in 1..Len(c) : c[i].at <= clock
  BY PastFacts DEF CallsOf
<1>2. h \in Seq(log') /\ k \in log'
  BY SeqMonotonic DEF Past
<1>3. /\ e \in Seq(log') /\ Len(e) = Len(h) + 1
      /\ \A i \in 1..Len(h) : e[i] = h[i]
      /\ e[Len(h) + 1] = k
  BY <1>2, AppendProperties
<1>4. x \in Call /\ x.at = clock
  <2>1. k.capability \in Capabilities
    BY GateAssumptions
  <2> QED
    BY <2>1 DEF Call, Resources
<1>5. /\ Append(c, x) \in Seq(Call) /\ Len(Append(c, x)) = Len(h) + 1
      /\ \A i \in 1..Len(h) : Append(c, x)[i] = c[i]
      /\ Append(c, x)[Len(h) + 1] = x
  BY <1>1, <1>4, AppendProperties
<1> HIDE DEF e, c
<1>6. CallsOf(e) = Append(c, x)
  <2>1. \A i \in 1..(Len(h) + 1) : i \in 1..Len(h) \/ i = Len(h) + 1
    BY <1>1
  <2>2. \A i \in 1..(Len(h) + 1) :
           [at |-> e[i].at, destination |-> ResourceOf[e[i].capability]] = Append(c, x)[i]
    BY <1>1, <1>3, <1>5, <2>1
  <2>3. Append(c, x) = [i \in 1..(Len(h) + 1) |-> Append(c, x)[i]]
    BY <1>5
  <2> HIDE DEF x
  <2> QED
    BY <1>3, <2>2, <2>3 DEF CallsOf
<1>7. Sorted(Append(c, x))
  <2> HIDE DEF x
  <2> QED
    BY <1>1, <1>4, SortedAppend
<1>8. ASSUME NEW i \in 1..Len(e), NEW j \in 1..Len(e), e[i] = e[j] PROVE i = j
  <2>1. (i \in 1..Len(h) \/ i = Len(h) + 1) /\ (j \in 1..Len(h) \/ j = Len(h) + 1)
    BY <1>1, <1>3
  <2>2. \A n, m \in 1..Len(h) : h[n] = h[m] => n = m
    BY DEF Past
  <2> QED
    BY <1>1, <1>3, <1>8, <2>1, <2>2
<1>9. ASSUME NEW l \in log' PROVE \E i \in 1..Len(e) : e[i] = l
  <2>1. CASE l = k
    BY <1>1, <1>3, <2>1
  <2>2. CASE l \in log
    <3>1. PICK i \in 1..Len(h) : h[i] = l
      BY <2>2 DEF Past
    <3>2. i \in 1..Len(e) /\ e[i] = l
      BY <1>1, <1>3, <3>1
    <3> QED
      BY <3>2
  <2> QED
    BY <2>1, <2>2
<1>10. Sorted(CallsOf(e))
  BY <1>6, <1>7
<1>11. Past(e)'
  BY <1>3, <1>8, <1>9, <1>10 DEF Past
<1> QED
  BY <1>6, <1>11 DEF e, c
-----------------------------------------------------------------------------
(* The memory, measured against the log.                                   *)

IsFcn(f) == f = [x \in DOMAIN f |-> f[x]]

IsUsage(u) ==
    /\ u = [last |-> u.last, calls |-> u.calls, windows |-> u.windows,
            seen |-> u.seen, costs |-> u.costs]
    /\ IsFcn(u.windows) /\ IsFcn(u.seen) /\ IsFcn(u.costs)

\* The calls and the windows hold what still counts of the calls of the log.
WindowsFaithful(u, calls) ==
    /\ Covers(u.calls, calls, clock - Longest)
    /\ DOMAIN u.windows \subseteq Durations
    /\ \A d \in DOMAIN u.windows : Exact(u.windows[d], d, calls)

\* Requests that are seen have been allowed, and those of a capability that has not expired
\* are seen for as long as it has not.
SeenFaithful(u) ==
    /\ \A r \in DOMAIN u.seen : /\ r \in Requests /\ u.seen[r] \in Nat
                                /\ \E k \in log : k.request = r
    /\ \A k \in log : caps[k.capability].expires_at > clock =>
           /\ k.request \in DOMAIN u.seen
           /\ u.seen[k.request] = caps[k.capability].expires_at

Charges(c) == {k \in log : k.capability = c}

\* The cost of an imported capability that has not expired is what was allowed with it.
CostsFaithful(u, P) ==
    /\ DOMAIN u.costs \subseteq P
    /\ \A c \in DOMAIN u.costs : /\ u.costs[c] \in [cost : Nat, expires_at : Nat]
                                 /\ u.costs[c].expires_at = caps[c].expires_at
    /\ \A c \in P : caps[c].expires_at > clock => CostOf(u, c) = Cardinality(Charges(c))

Faithful(u, P) ==
    /\ IsUsage(u)
    /\ SeenFaithful(u)
    /\ CostsFaithful(u, P)
    /\ \E h : Past(h) /\ WindowsFaithful(u, CallsOf(h))

\* The types of what the actions read.
Typed ==
    /\ clock \in Nat
    /\ caps \in [Capabilities -> Capability \cup {None}]
    /\ LogOK

LEMMA CapFacts ==
    ASSUME Typed, NEW c \in Capabilities, caps[c] # None
    PROVE  caps[c] \in Capability /\ caps[c].expires_at \in Nat
PROOF
  BY DEF Typed, Capability

LEMMA LogCapFacts ==
    ASSUME Typed, NEW k \in log
    PROVE  /\ k.capability \in Capabilities /\ caps[k.capability] # None
           /\ caps[k.capability].expires_at \in Nat
           /\ k.capability \in cached \/ ~(caps[k.capability].expires_at > clock)
           /\ k.request \in Requests
PROOF
<1>1. LogOK /\ clock \in Nat
  BY DEF Typed
<1>2. /\ k.capability \in Capabilities /\ caps[k.capability] # None /\ k.request \in Requests
      /\ k.capability \in cached \/ caps[k.capability].expires_at <= clock
  BY <1>1, LogFacts
<1>3. caps[k.capability].expires_at \in Nat
  BY <1>2, CapFacts
<1> QED
  BY <1>1, <1>2, <1>3

LEMMA FaithfulTypes ==
    ASSUME Typed, NEW P \in SUBSET Services, NEW u, Faithful(u, P),
           u.last \in Nat, DOMAIN u.windows = Durations
    PROVE  u \in Usage
PROOF
<1>1. PICK h : Past(h) /\ WindowsFaithful(u, CallsOf(h))
  BY DEF Faithful
<1>2. CallsOf(h) \in Seq(Call) /\ Sorted(CallsOf(h))
  BY <1>1, PastFacts DEF Typed
<1>3. clock - Longest \in Int
  BY DurationFacts DEF Typed
<1>4. u.calls \in Seq(Call)
  BY <1>1, <1>2, <1>3, CoversNewer DEF WindowsFaithful
<1>5. u.windows \in [Durations -> Queue]
  <2>1. \A d \in Durations : u.windows[d] \in Queue
    BY <1>1 DEF WindowsFaithful, Exact, Counts
  <2> QED
    BY <2>1 DEF Faithful, IsUsage, IsFcn
<1>6. u.seen \in UNION {[R -> Nat] : R \in SUBSET Requests}
  <2>1. DOMAIN u.seen \in SUBSET Requests /\ \A r \in DOMAIN u.seen : u.seen[r] \in Nat
    BY DEF Faithful, SeenFaithful
  <2>2. u.seen \in [DOMAIN u.seen -> Nat]
    BY <2>1 DEF Faithful, IsUsage, IsFcn
  <2> QED
    BY <2>1, <2>2
<1>7. u.costs \in UNION {[C -> [cost : Nat, expires_at : Nat]] : C \in SUBSET Services}
  <2>1. /\ DOMAIN u.costs \in SUBSET Services
        /\ \A c \in DOMAIN u.costs : u.costs[c] \in [cost : Nat, expires_at : Nat]
    BY DEF Faithful, CostsFaithful
  <2>2. u.costs \in [DOMAIN u.costs -> [cost : Nat, expires_at : Nat]]
    BY <2>1 DEF Faithful, IsUsage, IsFcn
  <2> QED
    BY <2>1, <2>2
<1>8. u = [last |-> u.last, calls |-> u.calls, windows |-> u.windows,
           seen |-> u.seen, costs |-> u.costs]
  BY DEF Faithful, IsUsage
<1> QED
  BY <1>4, <1>5, <1>6, <1>7, <1>8 DEF Usage

LEMMA Earlier ==
    \A x, y, l \in Nat : x <= y => x - l \in Int /\ y - l \in Int /\ x - l <= y - l
PROOF OBVIOUS

\* Time passes, and capabilities are issued.
LEMMA FaithfulLater ==
    ASSUME Typed, clock' \in Nat, clock <= clock', log' = log,
           \A c \in Capabilities : caps[c] # None => caps'[c] = caps[c],
           NEW P, \A c \in P : c \in Capabilities /\ caps[c] # None,
           NEW u, Faithful(u, P),
           NEW w, IsUsage(w), w.calls = u.calls, w.windows = u.windows,
           w.seen = u.seen, w.costs = u.costs
    PROVE  Faithful(w, P)'
PROOF
<1>1. \A c \in P : caps'[c] = caps[c] /\ caps[c].expires_at \in Nat
  BY CapFacts
<1>2. \A k \in log : /\ caps'[k.capability] = caps[k.capability]
                     /\ caps[k.capability].expires_at \in Nat
  BY LogCapFacts
<1>3. clock \in Nat
  BY DEF Typed
<1>4. SeenFaithful(w)'
  BY <1>2, <1>3 DEF Faithful, SeenFaithful
<1>5. CostsFaithful(w, P)'
  BY <1>1, <1>3 DEF Faithful, CostsFaithful, CostOf, Charges
<1>6. PICK h : Past(h) /\ WindowsFaithful(u, CallsOf(h))
  BY DEF Faithful
<1>7. CallsOf(h) \in Seq(Call)
  BY <1>6, PastFacts DEF Typed
<1>8. Past(h)'
  BY <1>6 DEF Past
<1>9. WindowsFaithful(w, CallsOf(h))'
  <2>1. Covers(w.calls, CallsOf(h), clock' - Longest)
    <3>1. /\ clock - Longest \in Int /\ clock' - Longest \in Int
          /\ clock - Longest <= clock' - Longest
      <4>1. Longest \in Nat
        BY DurationFacts
      <4> QED
        BY <1>3, <4>1, Earlier, Zenon
    <3> QED
      BY <1>6, <1>7, <3>1, CoversLater DEF WindowsFaithful
  <2>2. ASSUME NEW d \in DOMAIN w.windows
        PROVE  Exact(w.windows[d], d, CallsOf(h))'
    <3>1. /\ d \in Durations /\ Counts(w.windows[d])
          /\ Covers(Ahead(w.windows[d]), CallsOf(h), clock - d)
      BY <1>6 DEF WindowsFaithful, Exact
    <3>2. /\ clock - d \in Int /\ clock' - d \in Int /\ clock - d <= clock' - d
      <4>1. d \in Nat
        BY <3>1, DurationFacts
      <4> QED
        BY <1>3, <4>1, Earlier, Zenon
    <3>3. Covers(Ahead(w.windows[d]), CallsOf(h), clock' - d)
      BY <1>7, <3>1, <3>2, CoversLater
    <3> QED
      BY <3>1, <3>3 DEF Exact
  <2> QED
    BY <1>6, <2>1, <2>2 DEF WindowsFaithful
<1>10. \E g : Past(g)' /\ WindowsFaithful(w, CallsOf(g))'
  BY <1>8, <1>9
<1> QED
  BY <1>4, <1>5, <1>10 DEF Faithful
-----------------------------------------------------------------------------
(* The operations on the memory.                                           *)

\* Pruning forgets nothing that counts, and when it forgets everything nothing counts.
LEMMA PrunedFaithful ==
    ASSUME Typed, NEW P \in SUBSET Services, NEW u, Faithful(u, P), DOMAIN u.windows = Durations,
           u.last \in Nat, NEW present \in SUBSET P,
           \A c \in P : caps[c].expires_at > clock => c \in present,
           \A c \in P : caps[c] # None
    PROVE  LET v == Pruned(u, present) IN
           /\ v = None => Faithful(Fresh, present)
           /\ v # None => /\ Faithful(v, present) /\ v \in Usage
                          /\ v.last = u.last /\ DOMAIN v.windows = Durations
PROOF
<1> DEFINE calls   == NewerThan(u.calls, clock - Longest)
           windows == [d \in DOMAIN u.windows |-> Advanced(u.windows[d], d)]
           seen    == [r \in {y \in DOMAIN u.seen : u.seen[y] > clock} |-> u.seen[r]]
           costs   == [c \in {y \in DOMAIN u.costs : u.costs[y].expires_at > clock /\ y \in present}
                         |-> u.costs[c]]
           v == [last |-> u.last, calls |-> calls, windows |-> windows,
                 seen |-> seen, costs |-> costs]
<1>1. /\ u = [last |-> u.last, calls |-> u.calls, windows |-> u.windows,
              seen |-> u.seen, costs |-> u.costs]
      /\ SeenFaithful(u) /\ CostsFaithful(u, P)
  BY DEF Faithful, IsUsage
<1>2. PICK h : Past(h) /\ WindowsFaithful(u, CallsOf(h))
  BY DEF Faithful
<1>3. CallsOf(h) \in Seq(Call) /\ Sorted(CallsOf(h))
  BY <1>2, PastFacts DEF Typed
<1>4. clock \in Nat /\ clock - Longest \in Int
  BY DurationFacts DEF Typed
<1>5. Pruned(u, present) = IF calls = << >> /\ seen = << >> /\ costs = << >> THEN None ELSE v
  <2>1. [u EXCEPT !.calls   = calls,
                  !.windows = windows,
                  !.seen    = seen,
                  !.costs   = costs] = v
    <3> HIDE DEF calls, windows, seen, costs
    <3> DEFINE e == [u EXCEPT !.calls = calls, !.windows = windows, !.seen = seen, !.costs = costs]
    <3>1. DOMAIN u = {"last", "calls", "windows", "seen", "costs"}
      BY <1>1
    <3>2. DOMAIN e = DOMAIN u
      OBVIOUS
    <3>3. e.last = u.last
      BY <3>1
    <3>4. e.calls = calls
      BY <3>1
    <3>5. e.windows = windows
      BY <3>1
    <3>6. e.seen = seen
      BY <3>1
    <3>7. e.costs = costs
      BY <3>1
    <3>8. e = [x \in DOMAIN e |-> e[x]]
      OBVIOUS
    <3> HIDE DEF e
    <3>9. e = v
      BY <3>1, <3>2, <3>3, <3>4, <3>5, <3>6, <3>7, <3>8
    <3> QED
      BY <3>9 DEF e
  <2>2. Pruned(u, present) =
          LET x == [u EXCEPT !.calls   = calls,
                             !.windows = windows,
                             !.seen    = seen,
                             !.costs   = costs]
          IN IF x.calls = << >> /\ x.seen = << >> /\ x.costs = << >> THEN None ELSE x
    BY <1>1, Zenon DEF Pruned, Kept
  <2> HIDE DEF calls, windows, seen, costs
  <2> QED
    BY <2>1, <2>2
<1>6. SeenFaithful(v)
  <2>1. v.seen = seen
    OBVIOUS
  <2>2. DOMAIN seen \subseteq DOMAIN u.seen /\ \A r \in DOMAIN seen : seen[r] = u.seen[r]
    OBVIOUS
  <2>3. \A r \in DOMAIN u.seen : u.seen[r] > clock => r \in DOMAIN seen
    OBVIOUS
  <2> HIDE DEF seen, v
  <2> QED
    BY <1>1, <2>1, <2>2, <2>3 DEF SeenFaithful
<1>7. CostsFaithful(v, present)
  <2>1. v.costs = costs
    OBVIOUS
  <2>2. /\ DOMAIN costs \subseteq DOMAIN u.costs /\ DOMAIN costs \subseteq present
        /\ \A c \in DOMAIN costs : costs[c] = u.costs[c]
        /\ \A c \in DOMAIN u.costs :
              u.costs[c].expires_at > clock /\ c \in present => c \in DOMAIN costs
    OBVIOUS
  <2> HIDE DEF costs, v
  <2>3. ASSUME NEW c \in present, caps[c].expires_at > clock
        PROVE  CostOf(v, c) = Cardinality(Charges(c))
    <3>1. c \in DOMAIN costs <=> c \in DOMAIN u.costs
      BY <1>1, <2>2, <2>3 DEF CostsFaithful
    <3>2. CostOf(v, c) = CostOf(u, c)
      BY <2>1, <2>2, <3>1 DEF CostOf
    <3> QED
      BY <1>1, <2>3, <3>2 DEF CostsFaithful
  <2> QED
    BY <1>1, <2>1, <2>2, <2>3 DEF CostsFaithful
<1>8. WindowsFaithful(v, CallsOf(h)) /\ calls = NewerThan(CallsOf(h), clock - Longest)
  <2>1. Covers(u.calls, CallsOf(h), clock - Longest)
    BY <1>2 DEF WindowsFaithful
  <2>2. calls = NewerThan(CallsOf(h), clock - Longest)
    BY <1>3, <1>4, <2>1, CoversNewer
  <2>3. Covers(calls, CallsOf(h), clock - Longest)
    BY <1>3, <1>4, <2>2, NewerCovers
  <2>4. ASSUME NEW d \in Durations
        PROVE  Exact(Advanced(u.windows[d], d), d, CallsOf(h))
    <3>1. d \in Nat /\ Exact(u.windows[d], d, CallsOf(h))
      BY <1>2, DurationFacts DEF WindowsFaithful
    <3> QED
      BY <1>3, <1>4, <3>1, AdvancedExact
  <2>5. v.calls = calls /\ v.windows = windows
    OBVIOUS
  <2>6. DOMAIN windows = Durations /\ \A d \in Durations : windows[d] = Advanced(u.windows[d], d)
    OBVIOUS
  <2> HIDE DEF calls, windows, v
  <2> QED
    BY <2>2, <2>3, <2>4, <2>5, <2>6 DEF WindowsFaithful
<1>9. IsUsage(v)
  BY DEF IsUsage, IsFcn
<1>10. Faithful(v, present) /\ v.last = u.last /\ DOMAIN v.windows = Durations
  BY <1>2, <1>6, <1>7, <1>8, <1>9 DEF Faithful
<1>11. v \in Usage /\ v # None
  <2> HIDE DEF v
  <2>1. v \in Usage
    BY <1>10, FaithfulTypes
  <2> QED
    BY <2>1, GateAssumptions
<1>12. ASSUME calls = << >>, seen = << >>, costs = << >>
       PROVE  Faithful(Fresh, present)
  <2>1. DOMAIN << >> = {}
    OBVIOUS
  <2>2. \A i \in 1..Len(CallsOf(h)) : CallsOf(h)[i].at <= clock - Longest
    BY <1>3, <1>4, <1>8, <1>12, NewerCovers
  <2>3. Covers(<< >>, CallsOf(h), clock - Longest)
    BY <1>3, <1>4, <2>2, CoversNothing
  <2>4. WindowsFaithful(Fresh, CallsOf(h))
    BY <2>1, <2>3 DEF WindowsFaithful, Fresh
  <2>5. v.seen = << >> /\ v.costs = << >>
    BY <1>12
  <2> HIDE DEF v
  <2>6. SeenFaithful(Fresh)
    BY <1>6, <2>1, <2>5 DEF SeenFaithful, Fresh
  <2>7. CostsFaithful(Fresh, present)
    BY <1>7, <2>1, <2>5 DEF CostsFaithful, CostOf, Fresh
  <2>8. IsUsage(Fresh)
    BY DEF IsUsage, IsFcn, Fresh
  <2> QED
    BY <1>2, <2>4, <2>6, <2>7, <2>8 DEF Faithful
<1> HIDE DEF v, calls, seen, costs
<1>13. CASE calls = << >> /\ seen = << >> /\ costs = << >>
  BY <1>5, <1>12, <1>13
<1>14. CASE ~(calls = << >> /\ seen = << >> /\ costs = << >>)
  BY <1>5, <1>10, <1>14, <1>11
<1> QED
  BY <1>13, <1>14

\* Looking at some of the limits creates and advances their windows.
LEMMA LookedFaithful ==
    ASSUME Typed, NEW P, NEW u, Faithful(u, P), NEW n \in 0..Len(Rule)
    PROVE  LET v == Looked(u, n) IN
           /\ Faithful(v, P)
           /\ v.last = u.last /\ v.seen = u.seen /\ v.costs = u.costs
           /\ DOMAIN v.windows = DOMAIN u.windows \cup {Rule[i].duration : i \in 1..n}
PROOF
<1> DEFINE D == {Rule[i].duration : i \in 1..n}
           windows == [d \in DOMAIN u.windows \cup D |->
                          IF d \in D THEN WindowOf(u, d) ELSE u.windows[d]]
           v == [last |-> u.last, calls |-> u.calls, windows |-> windows,
                 seen |-> u.seen, costs |-> u.costs]
<1>1. /\ u = [last |-> u.last, calls |-> u.calls, windows |-> u.windows,
              seen |-> u.seen, costs |-> u.costs]
      /\ IsFcn(u.seen) /\ IsFcn(u.costs)
      /\ SeenFaithful(u) /\ CostsFaithful(u, P)
  BY DEF Faithful, IsUsage
<1>2. PICK h : Past(h) /\ WindowsFaithful(u, CallsOf(h))
  BY DEF Faithful
<1>3. CallsOf(h) \in Seq(Call) /\ Sorted(CallsOf(h)) /\ clock \in Nat
  BY <1>2, PastFacts DEF Typed
<1>4. Looked(u, n) = v
  <2>1. [u EXCEPT !.windows = windows] = v
    <3> HIDE DEF windows
    <3> QED
      BY <1>1
  <2>2. Looked(u, n) = [u EXCEPT !.windows = windows]
    BY DEF Looked
  <2> QED
    BY <2>1, <2>2
<1>5. D \subseteq Durations
  <2>1. \A i \in 1..n : i \in 1..Len(Rule)
    BY DurationFacts
  <2> QED
    BY <2>1, DurationFacts
<1>6. IsUsage(v)
  <2>1. IsFcn(windows)
    BY DEF IsFcn
  <2> HIDE DEF windows
  <2> QED
    BY <1>1, <2>1 DEF IsUsage
<1>7. /\ v.windows = windows /\ v.last = u.last /\ v.calls = u.calls
      /\ v.seen = u.seen /\ v.costs = u.costs
      /\ DOMAIN windows = DOMAIN u.windows \cup D
  OBVIOUS
<1>8. \A d \in DOMAIN windows : windows[d] = IF d \in D THEN WindowOf(u, d) ELSE u.windows[d]
  OBVIOUS
<1> HIDE DEF v, windows
<1>9. WindowsFaithful(v, CallsOf(h))
  <2>1. /\ Covers(u.calls, CallsOf(h), clock - Longest) /\ DOMAIN u.windows \subseteq Durations
        /\ \A d \in DOMAIN u.windows : Exact(u.windows[d], d, CallsOf(h))
    BY <1>2 DEF WindowsFaithful
  <2>2. \A d \in Durations : Exact(WindowOf(u, d), d, CallsOf(h))
    BY <1>3, <2>1, WindowExact
  <2>3. \A d \in DOMAIN windows : Exact(windows[d], d, CallsOf(h))
    BY <1>5, <1>7, <1>8, <2>1, <2>2
  <2> QED
    BY <1>5, <1>7, <2>1, <2>3 DEF WindowsFaithful
<1>10. SeenFaithful(v) /\ CostsFaithful(v, P)
  BY <1>1, <1>7 DEF SeenFaithful, CostsFaithful, CostOf
<1>11. Faithful(v, P)
  BY <1>2, <1>6, <1>9, <1>10 DEF Faithful
<1> QED
  BY <1>4, <1>7, <1>11

\* The destinations that a window has reached.
ReachedIn(d) == {ResourceOf[k.capability] : k \in Allowed(d)}

LEMMA ReachedFinite ==
    ASSUME NEW d, IsFiniteSet(Allowed(d))
    PROVE  IsFiniteSet(ReachedIn(d)) /\ Cardinality(ReachedIn(d)) \in Nat
PROOF
<1> DEFINE f == [k \in Allowed(d) |-> ResourceOf[k.capability]]
<1>1. f \in Surjection(Allowed(d), ReachedIn(d))
  <2>1. f \in [Allowed(d) -> ReachedIn(d)]
    BY DEF ReachedIn
  <2>2. \A x \in ReachedIn(d) : \E k \in Allowed(d) : f[k] = x
    BY DEF ReachedIn
  <2> HIDE DEF f
  <2> QED
    BY <2>1, <2>2, Fun_IsSurj
<1>2. IsFiniteSet(ReachedIn(d))
  <2> HIDE DEF f
  <2> QED
    BY <1>1, FS_Surjection
<1> QED
  BY <1>2, FS_CardinalityType

\* A faithful memory has reached a limit when the log has.
LEMMA ReachedByTheLog ==
    ASSUME Typed, NEW P, NEW u, Faithful(u, P), NEW x
    PROVE  /\ Reached(u, x) \subseteq 1..Len(Rule)
           /\ Reached(u, x) = {} <=>
                  /\ \A i \in DOMAIN Rule : Cardinality(Allowed(Rule[i].duration)) < Rule[i].limit
                  /\ \/ x \in ReachedIn(Second)
                     \/ Cardinality(ReachedIn(Second)) < Policies[GatePolicy].fanout
PROOF
<1>1. PICK h : Past(h) /\ WindowsFaithful(u, CallsOf(h))
  BY DEF Faithful
<1>2. CallsOf(h) \in Seq(Call) /\ Sorted(CallsOf(h)) /\ clock \in Nat /\ LogOK
  BY <1>1, PastFacts DEF Typed
<1>3. ASSUME NEW i \in 1..Len(Rule)
      PROVE  LET d == Rule[i].duration
                 q == WindowOf(u, d)
             IN /\ Len(q.items) - q.head = Cardinality(Allowed(d))
                /\ DOMAIN q.destinations = ReachedIn(d)
                /\ Cardinality(Allowed(d)) \in Nat /\ Cardinality(ReachedIn(d)) \in Nat
  <2> DEFINE d == Rule[i].duration
             q == WindowOf(u, d)
  <2>1. d \in Durations /\ d \in Nat
    BY DurationFacts
  <2> HIDE DEF d
  <2>2. Exact(q, d, CallsOf(h)) /\ Ahead(q) = NewerThan(CallsOf(h), clock - d)
    BY <1>1, <1>2, <2>1, WindowExact DEF WindowsFaithful
  <2> HIDE DEF q
  <2>3. Counts(q) /\ q \in Queue /\ q.head \in 0..Len(q.items)
    BY <2>2 DEF Exact, Counts
  <2>4. Len(Ahead(q)) = Len(q.items) - q.head
    BY <2>3, AheadFacts
  <2>5. /\ IsFiniteSet(Allowed(d)) /\ Len(Ahead(q)) = Cardinality(Allowed(d))
        /\ DOMAIN Tally(Ahead(q)) = ReachedIn(d)
    BY <1>1, <1>2, <2>1, <2>2, WindowCount DEF ReachedIn
  <2>6. Cardinality(Allowed(d)) \in Nat /\ Cardinality(ReachedIn(d)) \in Nat
    BY <2>5, ReachedFinite, FS_CardinalityType
  <2> QED
    BY <2>3, <2>4, <2>5, <2>6 DEF Counts, q, d
<1>4. /\ DOMAIN Rule = 1..Len(Rule) /\ 1 \in 1..Len(Rule) /\ Rule[1].duration = Second
      /\ \A i \in 1..Len(Rule) : Rule[i].limit \in Nat
      /\ Policies[GatePolicy].fanout \in Nat
  BY DurationFacts
<1> DEFINE Over(i) ==
              \/ Cardinality(Allowed(Rule[i].duration)) >= Rule[i].limit
              \/ /\ i = 1
                 /\ x \notin ReachedIn(Rule[i].duration)
                 /\ Cardinality(ReachedIn(Rule[i].duration)) >= Policies[GatePolicy].fanout
<1>5. Reached(u, x) = {i \in 1..Len(Rule) : Over(i)}
  BY <1>3, <1>4 DEF Reached
<1>6. ASSUME NEW i \in 1..Len(Rule)
      PROVE  ~Over(i) <=>
                /\ Cardinality(Allowed(Rule[i].duration)) < Rule[i].limit
                /\ i = 1 => \/ x \in ReachedIn(Second)
                            \/ Cardinality(ReachedIn(Second)) < Policies[GatePolicy].fanout
  <2>1. /\ Cardinality(Allowed(Rule[i].duration)) \in Nat
        /\ Cardinality(ReachedIn(Rule[i].duration)) \in Nat
    BY <1>3
  <2> QED
    BY <1>4, <2>1
<1> HIDE DEF Over
<1> QED
  BY <1>4, <1>5, <1>6

LEMMA CostType ==
    ASSUME NEW P, NEW u, CostsFaithful(u, P), NEW c
    PROVE  CostOf(u, c) \in Nat
PROOF
  BY DEF CostsFaithful, CostOf

\* What is charged is counted everywhere.
LEMMA ChargedFaithful ==
    ASSUME Typed, NEW P \in SUBSET Services, NEW u, Faithful(u, P), DOMAIN u.windows = Durations,
           NEW c \in P, caps[c] # None, caps[c].expires_at > clock,
           NEW r \in Requests, r \notin DOMAIN u.seen,
           UNCHANGED <<clock, caps>>,
           log' = log \cup {[at |-> clock, capability |-> c, request |-> r]},
           NEW v, v = Charged(u, c, r)
    PROVE  Faithful(v, P)' /\ v \in Usage /\ v.last = clock /\ DOMAIN v.windows = Durations
PROOF
<1> DEFINE k == [at |-> clock, capability |-> c, request |-> r]
           x == [at |-> clock, destination |-> ResourceOf[c]]
           new == [cost |-> CostOf(u, c) + 1, expires_at |-> caps[c].expires_at]
           windows == [d \in DOMAIN u.windows |-> Entered(u.windows[d], x)]
<1>1. SeenFaithful(u) /\ CostsFaithful(u, P)
  BY DEF Faithful
<1>2. PICK h : Past(h) /\ WindowsFaithful(u, CallsOf(h))
  BY DEF Faithful
<1>3. CallsOf(h) \in Seq(Call) /\ Sorted(CallsOf(h)) /\ clock \in Nat /\ LogOK
  BY <1>2, PastFacts DEF Typed
<1>4. c \in Services /\ c \in Capabilities /\ caps[c].expires_at \in Nat
  BY GateAssumptions, CapFacts
<1>5. x \in Call /\ k \in [at : Nat, capability : Services, request : Requests]
  BY <1>3, <1>4 DEF Call, Resources
<1>6. k \notin log
  BY <1>1, <1>4 DEF SeenFaithful
<1>7. PICK g : Past(g)' /\ CallsOf(g) = Append(CallsOf(h), x)
  <2>1. k.at = clock /\ k.capability = c
    OBVIOUS
  <2> HIDE DEF k
  <2> QED
    BY <1>2, <1>3, <1>5, <1>6, <2>1, PastAppend DEF k
<1>8. /\ v.last = clock /\ v.calls = Append(u.calls, x) /\ v.windows = windows
      /\ v.seen = Put(u.seen, r, caps[c].expires_at) /\ v.costs = Put(u.costs, c, new)
      /\ v = [last |-> v.last, calls |-> v.calls, windows |-> v.windows,
              seen |-> v.seen, costs |-> v.costs]
  BY DEF Charged
<1>9. /\ DOMAIN v.windows = Durations /\ IsFcn(v.windows)
      /\ \A d \in Durations : v.windows[d] = Entered(u.windows[d], x)
  BY <1>8 DEF IsFcn
<1> HIDE DEF windows, x, k, new
<1>10. WindowsFaithful(v, CallsOf(g))'
  <2>1. ASSUME NEW d \in Durations
        PROVE  Exact(v.windows[d], d, Append(CallsOf(h), x))
    <3>1. Exact(u.windows[d], d, CallsOf(h)) /\ d \in Nat
      BY <1>2, DurationFacts DEF WindowsFaithful
    <3> QED
      BY <1>3, <1>5, <1>9, <3>1, EnteredExact
  <2>2. Covers(v.calls, Append(CallsOf(h), x), clock - Longest)
    <3>1. clock - Longest \in Int
      BY <1>3, DurationFacts
    <3> QED
      BY <1>2, <1>3, <1>5, <1>8, <3>1, CoversAppend DEF WindowsFaithful
  <2> QED
    BY <1>7, <1>9, <2>1, <2>2 DEF WindowsFaithful, Exact
<1>11. /\ IsFcn(v.seen) /\ DOMAIN v.seen = DOMAIN u.seen \cup {r}
       /\ v.seen[r] = caps[c].expires_at
       /\ \A y \in DOMAIN u.seen : y # r /\ v.seen[y] = u.seen[y]
  <2> DEFINE e == caps[c].expires_at
  <2>1. v.seen = Put(u.seen, r, e)
    BY <1>8
  <2> HIDE DEF e
  <2>2. IsFcn(v.seen) /\ DOMAIN v.seen = DOMAIN u.seen \cup {r}
    BY <2>1 DEF Put, IsFcn
  <2>3. \A y \in DOMAIN u.seen \cup {r} : v.seen[y] = IF y = r THEN e ELSE u.seen[y]
    BY <2>1 DEF Put, IsFcn
  <2> QED
    BY <2>2, <2>3 DEF e
<1>12. SeenFaithful(v)'
  <2>1. ASSUME NEW y \in DOMAIN v.seen
        PROVE  y \in Requests /\ v.seen[y] \in Nat /\ \E l \in log' : l.request = y
    <3>1. CASE y = r
      <4>1. k \in log' /\ k.request = r
        BY DEF k
      <4> QED
        BY <1>4, <1>11, <3>1, <4>1
    <3>2. CASE y \in DOMAIN u.seen
      BY <1>1, <1>11, <3>2 DEF SeenFaithful
    <3> QED
      BY <1>11, <3>1, <3>2
  <2>2. ASSUME NEW l \in log', caps[l.capability].expires_at > clock
        PROVE  l.request \in DOMAIN v.seen /\ v.seen[l.request] = caps[l.capability].expires_at
    <3>1. CASE l = k
      BY <1>11, <3>1 DEF k
    <3>2. CASE l \in log
      BY <1>1, <1>11, <2>2, <3>2 DEF SeenFaithful
    <3>3. l = k \/ l \in log
      BY DEF k
    <3> QED
      BY <3>1, <3>2, <3>3
  <2> QED
    BY <2>1, <2>2 DEF SeenFaithful
<1>13. /\ IsFcn(v.costs) /\ DOMAIN v.costs = DOMAIN u.costs \cup {c}
       /\ v.costs[c] = new
       /\ \A y \in DOMAIN u.costs \ {c} : v.costs[y] = u.costs[y]
  <2>1. v.costs = Put(u.costs, c, new)
    BY <1>8
  <2>2. IsFcn(v.costs) /\ DOMAIN v.costs = DOMAIN u.costs \cup {c}
    BY <2>1 DEF Put, IsFcn
  <2>3. \A y \in DOMAIN u.costs \cup {c} : v.costs[y] = IF y = c THEN new ELSE u.costs[y]
    BY <2>1 DEF Put, IsFcn
  <2> QED
    BY <2>2, <2>3
<1>14. /\ new \in [cost : Nat, expires_at : Nat] /\ new.expires_at = caps[c].expires_at
       /\ new.cost = CostOf(u, c) + 1
  <2>1. CostOf(u, c) \in Nat
    BY <1>1, CostType
  <2> QED
    BY <1>4, <2>1 DEF new
<1>15. \A y \in DOMAIN v.costs : /\ y \in P /\ v.costs[y] \in [cost : Nat, expires_at : Nat]
                                 /\ v.costs[y].expires_at = caps[y].expires_at
  BY <1>1, <1>13, <1>14 DEF CostsFaithful
<1>16. CostsFaithful(v, P)'
  <2>1. ASSUME NEW y \in P, caps[y].expires_at > clock
        PROVE  CostOf(v, y) = Cardinality(Charges(y)')
    <3>1. IsFiniteSet(Charges(y)) /\ CostOf(u, y) = Cardinality(Charges(y))
      BY <1>1, <1>3, <2>1, FS_Subset DEF Charges, LogOK, CostsFaithful
    <3>2. CASE y = c
      <4>1. Charges(y)' = Charges(y) \cup {k} /\ k \notin Charges(y)
        BY <1>6, <3>2 DEF Charges, k
      <4>2. Cardinality(Charges(y)') = Cardinality(Charges(y)) + 1
        BY <3>1, <4>1, FS_AddElement
      <4> QED
        BY <1>13, <1>14, <3>1, <3>2, <4>2 DEF CostOf
    <3>3. CASE y # c
      <4>1. Charges(y)' = Charges(y)
        BY <3>3 DEF Charges
      <4>2. CostOf(v, y) = CostOf(u, y)
        BY <1>13, <3>3 DEF CostOf
      <4> QED
        BY <3>1, <4>1, <4>2
    <3> QED
      BY <3>2, <3>3
  <2>2. (DOMAIN v.costs \subseteq P)
    BY <1>15
  <2> QED
    BY <1>15, <2>1, <2>2 DEF CostsFaithful, CostOf
<1>17. IsUsage(v)
  BY <1>8, <1>9, <1>11, <1>13 DEF IsUsage
<1>18. Faithful(v, P)'
  <2>1. \E f : Past(f)' /\ WindowsFaithful(v, CallsOf(f))'
    BY <1>7, <1>10
  <2> QED
    BY <1>12, <1>16, <1>17, <2>1 DEF Faithful
<1>19. v \in Usage
  <2>1. v.calls \in Seq(Call)
    <3>1. clock - Longest \in Int
      BY <1>3, DurationFacts
    <3>2. u.calls \in Seq(Call)
      BY <1>2, <1>3, <3>1, CoversNewer DEF WindowsFaithful
    <3> QED
      BY <1>5, <1>8, <3>2, AppendProperties
  <2>2. v.windows \in [Durations -> Queue]
    <3>1. ASSUME NEW d \in Durations PROVE v.windows[d] \in Queue
      <4>1. Exact(u.windows[d], d, CallsOf(h)) /\ d \in Nat
        BY <1>2, DurationFacts DEF WindowsFaithful
      <4> QED
        BY <1>3, <1>5, <1>9, <4>1, EnteredExact DEF Exact, Counts
    <3> QED
      BY <1>9, <3>1 DEF IsFcn
  <2>3. v.seen \in UNION {[R -> Nat] : R \in SUBSET Requests}
    <3>1. DOMAIN v.seen \in SUBSET Requests /\ \A y \in DOMAIN v.seen : v.seen[y] \in Nat
      BY <1>12 DEF SeenFaithful
    <3>2. v.seen \in [DOMAIN v.seen -> Nat]
      BY <1>11, <3>1 DEF IsFcn
    <3> QED
      BY <3>1, <3>2
  <2>4. v.costs \in UNION {[C -> [cost : Nat, expires_at : Nat]] : C \in SUBSET Services}
    <3>1. DOMAIN v.costs \in SUBSET Services
      BY <1>15
    <3>2. v.costs \in [DOMAIN v.costs -> [cost : Nat, expires_at : Nat]]
      BY <1>13, <1>15 DEF IsFcn
    <3> QED
      BY <3>1, <3>2
  <2> QED
    BY <1>3, <1>8, <2>1, <2>2, <2>3, <2>4 DEF Usage
<1> QED
  BY <1>8, <1>9, <1>18, <1>19
-----------------------------------------------------------------------------
(* The invariant.                                                          *)

\* A memory that is forgotten remembers as much as a fresh one.
Remembered == IF memory = None THEN Fresh ELSE memory

GateInv ==
    /\ FabricInv
    /\ cached \subseteq {c \in Services : caps[c] # None}
    /\ nextPrune \in 0..(MaxTime + Second)
    /\ LogOK
    /\ memory # None => memory \in Usage /\ memory.last <= clock
    /\ Faithful(Remembered, cached)

LEMMA GateFacts ==
    ASSUME GateInv
    PROVE  /\ Typed
           /\ clock \in 0..MaxTime /\ MaxTime \in Nat /\ Second \in Nat
           /\ cached \in SUBSET Services
           /\ \A c \in cached : c \in Capabilities /\ caps[c] # None
PROOF
<1>1. FabricTypeOK /\ LogOK /\ cached \subseteq {c \in Services : caps[c] # None}
  BY DEF GateInv, FabricInv
<1>2. clock \in 0..MaxTime /\ clock \in Nat /\ MaxTime \in Nat /\ Second \in Nat
  BY <1>1, BudgetAssumptions DEF FabricTypeOK
<1>3. caps \in [Capabilities -> Capability \cup {None}]
  BY <1>1 DEF FabricTypeOK
<1> QED
  BY <1>1, <1>2, <1>3, GateAssumptions DEF Typed

\* A memory has a window for every duration.
LEMMA MemoryFacts ==
    ASSUME memory \in Usage
    PROVE  IsUsage(memory) /\ DOMAIN memory.windows = Durations /\ memory.last \in Nat
PROOF
<1>1. /\ memory.windows \in [Durations -> Queue] /\ memory.last \in Nat
      /\ memory.seen \in UNION {[R -> Nat] : R \in SUBSET Requests}
      /\ memory.costs \in UNION {[C -> [cost : Nat, expires_at : Nat]] : C \in SUBSET Services}
      /\ memory = [last |-> memory.last, calls |-> memory.calls, windows |-> memory.windows,
                   seen |-> memory.seen, costs |-> memory.costs]
  BY DEF Usage
<1>2. IsFcn(memory.windows)
  BY <1>1 DEF IsFcn
<1>3. IsFcn(memory.seen)
  BY <1>1 DEF IsFcn
<1>4. IsFcn(memory.costs)
  BY <1>1 DEF IsFcn
<1> QED
  BY <1>1, <1>2, <1>3, <1>4 DEF IsUsage

LEMMA FreshIsUsage == IsUsage(Fresh)
PROOF
  BY DEF IsUsage, IsFcn, Fresh

LEMMA InitGateInv == Init => GateInv
PROOF
<1> SUFFICES ASSUME Init PROVE GateInv
  OBVIOUS
<1>1. /\ FabricInv /\ clock = 0 /\ cached = {} /\ memory = None /\ nextPrune = 0 /\ log = {}
  BY InitFabricInv DEF Init, FabricInit
<1>2. nextPrune \in 0..(MaxTime + Second)
  BY <1>1, BudgetAssumptions
<1>3. LogOK
  BY <1>1, FS_EmptySet DEF LogOK
<1>4. DOMAIN << >> = {} /\ Len(<< >>) = 0 /\ << >> \in Seq(log) /\ << >> \in Seq(Call)
  OBVIOUS
<1>5. CallsOf(<< >>) = << >>
  BY <1>4 DEF CallsOf
<1>6. Past(<< >>)
  BY <1>1, <1>4, <1>5 DEF Past, Sorted
<1>7. WindowsFaithful(Fresh, << >>)
  <2>1. Covers(<< >>, << >>, clock - Longest)
    <3> DEFINE e == << >>
    <3>1. clock - Longest \in Int
      BY <1>1, DurationFacts
    <3>2. e \in Seq(Call) /\ Len(e) = 0
      BY <1>4
    <3>3. \A i \in 1..Len(e) : e[i].at <= clock - Longest
      BY <3>2
    <3>4. Covers(<< >>, e, clock - Longest)
      <4> HIDE DEF e
      <4> QED
        BY <3>1, <3>2, <3>3, CoversNothing
    <3> QED
      BY <3>4
  <2> QED
    BY <1>4, <2>1 DEF WindowsFaithful, Fresh
<1>8. SeenFaithful(Fresh) /\ CostsFaithful(Fresh, cached)
  BY <1>1, <1>4 DEF SeenFaithful, CostsFaithful, Fresh
<1>9. Faithful(Fresh, cached)
  BY <1>5, <1>6, <1>7, <1>8, FreshIsUsage DEF Faithful
<1> QED
  BY <1>1, <1>2, <1>3, <1>9 DEF GateInv, Remembered

\* The fabric never changes a capability that it has issued.
LEMMA FabricKeeps ==
    ASSUME FabricInv, FabricNext \/ UNCHANGED fabricVars
    PROVE  /\ clock <= clock'
           /\ \A c \in Capabilities : caps[c] # None => caps'[c] = caps[c]
PROOF
<1>1. clock \in Nat /\ caps \in [Capabilities -> Capability \cup {None}]
  BY BudgetAssumptions DEF FabricInv, FabricTypeOK
<1> QED
  BY <1>1 DEF FabricNext, Tick, ActivatePolicy, Issue, Withdraw, Consume, fabricVars

LEMMA FabricGateStep ==
    ASSUME GateInv, FabricNext \/ UNCHANGED fabricVars, UNCHANGED gateVars
    PROVE  GateInv'
PROOF
<1>1. /\ Typed /\ clock \in Nat /\ MaxTime \in Nat /\ cached \in SUBSET Services
      /\ \A c \in cached : c \in Capabilities /\ caps[c] # None
  BY GateFacts
<1>2. FabricInv /\ FabricInv'
  BY FabricStep DEF GateInv
<1>3. /\ clock <= clock' /\ clock' \in Nat
      /\ \A c \in Capabilities : caps[c] # None => caps'[c] = caps[c]
  BY <1>1, <1>2, FabricKeeps DEF FabricInv, FabricTypeOK
<1>4. UNCHANGED <<cached, memory, nextPrune, log>>
  BY DEF gateVars
<1>5. cached' \subseteq {c \in Services : caps'[c] # None}
  BY <1>1, <1>3, <1>4
<1>6. LogOK'
  <2>1. ASSUME NEW k \in log
        PROVE  /\ k.at <= clock' /\ caps'[k.capability] # None
               /\ k.capability \in cached \/ caps'[k.capability].expires_at <= clock'
    <3>1. LogOK
      BY <1>1 DEF Typed
    <3>2. /\ k.at \in Nat /\ k.at <= clock /\ k.capability \in Capabilities
          /\ caps[k.capability] # None
          /\ k.capability \in cached \/ caps[k.capability].expires_at <= clock
      BY <3>1, LogFacts
    <3>3. caps'[k.capability] = caps[k.capability] /\ caps[k.capability].expires_at \in Nat
      BY <1>1, <1>3, <3>2, CapFacts
    <3> QED
      BY <1>1, <1>3, <3>2, <3>3
  <2> QED
    BY <1>1, <1>4, <2>1 DEF LogOK, Typed
<1>7. memory' # None => memory' \in Usage /\ memory'.last <= clock'
  <2> SUFFICES ASSUME memory # None PROVE memory.last <= clock' /\ memory \in Usage
    BY <1>4
  <2>1. memory \in Usage /\ memory.last <= clock /\ memory.last \in Nat
    BY MemoryFacts DEF GateInv
  <2> QED
    BY <1>1, <1>3, <2>1
<1>8. Faithful(Remembered, cached)'
  <2>1. CASE memory = None
    <3>1. Faithful(Fresh, cached)
      BY <2>1 DEF GateInv, Remembered
    <3>2. PICK w : w = Fresh'
      OBVIOUS
    <3>3. /\ IsUsage(w) /\ w.calls = Fresh.calls /\ w.windows = Fresh.windows
          /\ w.seen = Fresh.seen /\ w.costs = Fresh.costs
      BY <3>2 DEF IsUsage, IsFcn, Fresh
    <3>4. Faithful(w, cached)'
      BY <1>1, <1>3, <1>4, <3>1, <3>3, FaithfulLater
    <3>5. Remembered' = Fresh'
      BY <1>4, <2>1 DEF Remembered
    <3> QED
      BY <3>2, <3>4, <3>5
  <2>2. CASE memory # None
    <3>1. Faithful(memory, cached) /\ IsUsage(memory)
      BY <2>2 DEF GateInv, Remembered, Faithful
    <3>2. Faithful(memory, cached)'
      BY <1>1, <1>3, <1>4, <3>1, FaithfulLater
    <3>3. Remembered' = memory'
      BY <1>4, <2>2 DEF Remembered
    <3> QED
      BY <3>2, <3>3
  <2> QED
    BY <2>1, <2>2
<1> QED
  BY <1>2, <1>4, <1>5, <1>6, <1>7, <1>8 DEF GateInv

\* A step that allows nothing and changes nothing at the fabric.
LEMMA QuietStep ==
    ASSUME GateInv, UNCHANGED <<fabricVars, log>>, nextPrune' \in 0..(MaxTime + Second),
           NEW P \in SUBSET Services, cached' = P, \A c \in P : caps[c] # None,
           \A c \in cached : caps[c].expires_at > clock => c \in P,
           NEW m, memory' = m, m # None => m \in Usage /\ m.last <= clock,
           Faithful(IF m = None THEN Fresh ELSE m, P)
    PROVE  GateInv'
PROOF
<1>1. Typed /\ clock \in Nat /\ \A c \in P : c \in Capabilities /\ caps[c] # None
  BY GateFacts, GateAssumptions
<1>2. UNCHANGED <<clock, active, caps, dead, usage, log>>
  BY DEF fabricVars
<1>3. FabricInv'
  BY FabricStep DEF GateInv
<1>4. LogOK'
  <2>1. \A k \in log : k.capability \in P \/ caps[k.capability].expires_at <= clock
    <3> SUFFICES ASSUME NEW k \in log, caps[k.capability].expires_at > clock
                 PROVE  k.capability \in P
      BY <1>1, LogCapFacts
    <3> QED
      BY <1>1, LogCapFacts
  <2> QED
    BY <1>1, <1>2, <2>1 DEF LogOK, Typed
<1>5. PICK u : u = IF m = None THEN Fresh ELSE m
  OBVIOUS
<1>6. Faithful(u, P) /\ IsUsage(u)
  BY <1>5 DEF Faithful
<1>7. Faithful(u, P)'
  BY <1>1, <1>2, <1>6, FaithfulLater
<1>8. Remembered' = u
  BY <1>2, <1>5 DEF Remembered, Fresh
<1>9. Faithful(Remembered, cached)'
  BY <1>7, <1>8
<1> QED
  BY <1>2, <1>3, <1>4, <1>9 DEF GateInv

\* Pruning the memory, even when there is none.
LEMMA PrunedMemoryFaithful ==
    ASSUME GateInv, NEW present \in SUBSET cached,
           \A c \in cached : caps[c].expires_at > clock => c \in present
    PROVE  LET m == PrunedMemory(present) IN
           /\ m # None => m \in Usage /\ m.last <= clock
           /\ Faithful(IF m = None THEN Fresh ELSE m, present)
PROOF
<1>1. /\ Typed /\ cached \in SUBSET Services /\ \A c \in cached : caps[c] # None
  BY GateFacts
<1>2. CASE memory = None
  <2>1. Faithful(Fresh, cached) /\ PrunedMemory(present) = None
    BY <1>2 DEF GateInv, Remembered, PrunedMemory
  <2>2. CostsFaithful(Fresh, present)
    <3>1. DOMAIN Fresh.costs = {}
      BY DEF Fresh
    <3> QED
      BY <2>1, <3>1 DEF Faithful, CostsFaithful
  <2>3. Faithful(Fresh, present)
    BY <2>1, <2>2 DEF Faithful
  <2> QED
    BY <2>1, <2>3
<1>3. CASE memory # None
  <2>1. /\ Faithful(memory, cached) /\ memory \in Usage /\ memory.last <= clock
        /\ DOMAIN memory.windows = Durations /\ memory.last \in Nat
    BY <1>3, MemoryFacts DEF GateInv, Remembered
  <2> DEFINE v == Pruned(memory, present)
  <2>2. /\ v = None => Faithful(Fresh, present)
        /\ v # None => Faithful(v, present) /\ v \in Usage /\ v.last = memory.last
    BY <1>1, <2>1, PrunedFaithful
  <2>3. PrunedMemory(present) = v
    BY <1>3 DEF PrunedMemory
  <2> HIDE DEF v
  <2> QED
    BY <2>1, <2>2, <2>3
<1> QED
  BY <1>2, <1>3

LEMMA ImportStep ==
    ASSUME GateInv, NEW c \in Services, Import(c)
    PROVE  GateInv'
PROOF
<1> DEFINE present == {d \in cached : caps[d].expires_at > clock}
           m == PrunedMemory(present)
           u == IF m = None THEN Fresh ELSE m
<1>1. /\ caps[c] # None /\ caps[c].expires_at > clock
      /\ memory' = m
      /\ cached' = present \/ cached' = present \cup {c}
      /\ UNCHANGED <<fabricVars, nextPrune, log>>
  BY DEF Import
<1>2. /\ Typed /\ cached \in SUBSET Services /\ \A d \in cached : caps[d] # None
  BY GateFacts
<1>3. present \in SUBSET cached /\ \A d \in cached : caps[d].expires_at > clock => d \in present
  OBVIOUS
<1> HIDE DEF present
<1>4. (m # None => m \in Usage /\ m.last <= clock) /\ Faithful(u, present)
  BY <1>3, PrunedMemoryFaithful
<1>5. nextPrune' \in 0..(MaxTime + Second)
  BY <1>1 DEF GateInv
<1> HIDE DEF m
<1>6. CASE cached' = present
  BY <1>1, <1>2, <1>3, <1>4, <1>5, <1>6, QuietStep
<1>7. CASE cached' = present \cup {c} /\ c \notin present
  <2>1. c \notin cached
    BY <1>1, <1>3, <1>7
  <2>2. Charges(c) = {}
    <3> SUFFICES ASSUME NEW k \in log, k.capability = c PROVE FALSE
      BY DEF Charges
    <3> QED
      BY <1>1, <1>2, <2>1, LogCapFacts
  <2> HIDE DEF u
  <2>3. CostsFaithful(u, present \cup {c})
    <3>1. CostsFaithful(u, present)
      BY <1>4 DEF Faithful
    <3>2. c \notin DOMAIN u.costs
      BY <1>7, <3>1 DEF CostsFaithful
    <3>3. CostOf(u, c) = 0 /\ Cardinality(Charges(c)) = 0
      BY <2>2, <3>2, FS_EmptySet DEF CostOf
    <3> QED
      BY <3>1, <3>3 DEF CostsFaithful
  <2>4. Faithful(u, present \cup {c})
    BY <1>4, <2>3 DEF Faithful
  <2>5. present \cup {c} \in SUBSET Services /\ \A d \in present \cup {c} : caps[d] # None
    BY <1>1, <1>2, <1>3
  <2> QED
    BY <1>1, <1>3, <1>4, <1>5, <1>7, <2>4, <2>5, QuietStep DEF u
<1>8. present \cup {c} = present \/ c \notin present
  OBVIOUS
<1> QED
  BY <1>1, <1>6, <1>7, <1>8
-----------------------------------------------------------------------------
(* A decision.                                                             *)

\* What decide keeps of the memory, and what it starts from.
KeptNow  == IF clock >= nextPrune THEN PrunedMemory(cached) ELSE memory
UsageNow == IF KeptNow = None THEN Fresh ELSE KeptNow

LEMMA KeptFaithful ==
    ASSUME GateInv
    PROVE  /\ KeptNow # None => KeptNow \in Usage /\ KeptNow.last <= clock
           /\ Faithful(UsageNow, cached)
PROOF
<1>1. CASE clock >= nextPrune
  BY <1>1, PrunedMemoryFaithful DEF KeptNow, UsageNow
<1>2. CASE ~(clock >= nextPrune)
  BY <1>2 DEF KeptNow, UsageNow, GateInv, Remembered
<1> QED
  BY <1>1, <1>2

\* Decide, in these terms.
LEMMA DecideCases ==
    ASSUME NEW c, NEW r, Decide(c, r)
    PROVE  LET k       == [at |-> clock, capability |-> c, request |-> r]
               reached == Reached(UsageNow, ResourceOf[c])
               looked  == IF reached = {} THEN Len(Rule) ELSE Min(reached)
               refused == r \in DOMAIN UsageNow.seen \/ CostOf(UsageNow, c) >= caps[c].max_cost
           IN
           /\ c \in cached /\ caps[c].expires_at > clock
           /\ nextPrune' = IF clock >= nextPrune THEN clock + Second ELSE nextPrune
           /\ UNCHANGED <<fabricVars, cached>>
           /\ \/ /\ refused /\ memory' = KeptNow /\ UNCHANGED log
              \/ /\ ~refused /\ reached # {}
                 /\ memory' = IF KeptNow = None THEN None ELSE Looked(KeptNow, looked)
                 /\ UNCHANGED log
              \/ /\ ~refused /\ reached = {}
                 /\ memory' = Charged(Looked(UsageNow, looked), c, r)
                 /\ log' = log \cup {k}
PROOF
  BY Zenon DEF Decide, KeptNow, UsageNow

LEMMA DecideStep ==
    ASSUME GateInv, NEW c, NEW r \in Requests, Decide(c, r)
    PROVE  GateInv'
PROOF
<1> DEFINE k       == [at |-> clock, capability |-> c, request |-> r]
           reached == Reached(UsageNow, ResourceOf[c])
           looked  == IF reached = {} THEN Len(Rule) ELSE Min(reached)
           refused == r \in DOMAIN UsageNow.seen \/ CostOf(UsageNow, c) >= caps[c].max_cost
<1>1. /\ c \in cached /\ caps[c].expires_at > clock
      /\ nextPrune' = IF clock >= nextPrune THEN clock + Second ELSE nextPrune
      /\ UNCHANGED <<fabricVars, cached>>
      /\ \/ /\ refused /\ memory' = KeptNow /\ UNCHANGED log
         \/ /\ ~refused /\ reached # {}
            /\ memory' = IF KeptNow = None THEN None ELSE Looked(KeptNow, looked)
            /\ UNCHANGED log
         \/ /\ ~refused /\ reached = {}
            /\ memory' = Charged(Looked(UsageNow, looked), c, r)
            /\ log' = log \cup {k}
  BY DecideCases
<1>2. /\ Typed /\ clock \in 0..MaxTime /\ clock \in Nat /\ MaxTime \in Nat /\ Second \in Nat
      /\ cached \in SUBSET Services
      /\ \A d \in cached : d \in Capabilities /\ caps[d] # None
  BY GateFacts
<1>3. /\ KeptNow # None => KeptNow \in Usage /\ KeptNow.last <= clock
      /\ Faithful(UsageNow, cached)
  BY KeptFaithful
<1>4. nextPrune' \in 0..(MaxTime + Second)
  BY <1>1, <1>2 DEF GateInv
<1>5. looked \in 0..Len(Rule)
  <2>1. reached \subseteq 1..Len(Rule) /\ Len(Rule) \in Nat
    BY <1>2, <1>3, ReachedByTheLog, DurationFacts
  <2> HIDE DEF reached
  <2>2. ASSUME reached # {} PROVE Min(reached) \in reached
    <3>1. reached \in SUBSET Nat
      BY <2>1
    <3>2. PICK n \in reached : \A i \in reached : n <= i
      BY <2>2, <3>1, LeastNumber
    <3> QED
      BY <3>2 DEF Min
  <2>3. CASE reached = {}
    BY <2>1, <2>3
  <2>4. CASE reached # {}
    <3>1. Min(reached) \in 1..Len(Rule)
      BY <2>1, <2>2, <2>4
    <3>2. looked = Min(reached)
      BY <2>4
    <3> QED
      BY <2>1, <3>1, <3>2
  <2> QED
    BY <2>3, <2>4
<1> HIDE DEF looked
<1>6. CASE refused /\ memory' = KeptNow /\ UNCHANGED log
  <2>1. Faithful(IF KeptNow = None THEN Fresh ELSE KeptNow, cached)
    BY <1>3 DEF UsageNow
  <2> QED
    BY <1>1, <1>2, <1>3, <1>4, <1>6, <2>1, QuietStep
<1>7. CASE /\ memory' = IF KeptNow = None THEN None ELSE Looked(KeptNow, looked)
           /\ UNCHANGED log
  <2> DEFINE m == IF KeptNow = None THEN None ELSE Looked(KeptNow, looked)
  <2>1. /\ m # None => m \in Usage /\ m.last <= clock
        /\ Faithful(IF m = None THEN Fresh ELSE m, cached)
    <3>1. CASE KeptNow = None
      BY <1>3, <3>1 DEF UsageNow
    <3>2. CASE KeptNow # None
      <4> DEFINE v == Looked(KeptNow, looked)
      <4>1. Faithful(KeptNow, cached) /\ KeptNow \in Usage /\ KeptNow.last <= clock
        BY <1>3, <3>2 DEF UsageNow
      <4>2. DOMAIN KeptNow.windows = Durations /\ KeptNow.last \in Nat
        BY <4>1 DEF Usage
      <4>3. /\ Faithful(v, cached) /\ v.last = KeptNow.last
            /\ DOMAIN v.windows = DOMAIN KeptNow.windows \cup {Rule[i].duration : i \in 1..looked}
        BY <1>2, <1>5, <4>1, LookedFaithful
      <4>4. {Rule[i].duration : i \in 1..looked} \subseteq Durations
        <5>1. \A i \in 1..looked : i \in 1..Len(Rule)
          BY <1>5, DurationFacts
        <5> QED
          BY <5>1, DurationFacts
      <4> HIDE DEF v
      <4>5. v \in Usage
        BY <1>2, <4>2, <4>3, <4>4, FaithfulTypes
      <4>6. v # None
        BY <4>5, GateAssumptions
      <4> QED
        BY <3>2, <4>1, <4>3, <4>5, <4>6 DEF v
    <3> QED
      BY <3>1, <3>2
  <2>2. memory' = m
    BY <1>7
  <2> HIDE DEF m
  <2> QED
    BY <1>1, <1>2, <1>4, <1>7, <2>1, <2>2, QuietStep
<1>8. CASE /\ ~refused /\ reached = {}
           /\ memory' = Charged(Looked(UsageNow, looked), c, r)
           /\ log' = log \cup {k}
  <2> DEFINE u == Looked(UsageNow, looked)
  <2>1. /\ Faithful(u, cached) /\ u.seen = UsageNow.seen
        /\ DOMAIN u.windows = DOMAIN UsageNow.windows \cup {Rule[i].duration : i \in 1..looked}
    BY <1>2, <1>3, <1>5, LookedFaithful
  <2>2. DOMAIN u.windows = Durations
    <3>1. looked = Len(Rule)
      BY <1>8 DEF looked
    <3>2. {Rule[i].duration : i \in 1..looked} = Durations
      BY <3>1, DurationFacts DEF Durations
    <3>3. DOMAIN UsageNow.windows \subseteq Durations
      BY <1>3 DEF Faithful, WindowsFaithful
    <3> QED
      BY <2>1, <3>2, <3>3
  <2>3. r \notin DOMAIN u.seen
    BY <1>8, <2>1
  <2> HIDE DEF u
  <2>4. PICK v : v = Charged(u, c, r)
    OBVIOUS
  <2>5. UNCHANGED <<clock, active, caps, dead, usage, cached>>
    BY <1>1 DEF fabricVars
  <2>6. /\ Faithful(v, cached)' /\ v \in Usage /\ v.last = clock
    <3>1. c \in cached /\ caps[c] # None /\ caps[c].expires_at > clock
      BY <1>1, <1>2
    <3>2. log' = log \cup {[at |-> clock, capability |-> c, request |-> r]}
      BY <1>8
    <3>3. UNCHANGED <<clock, caps>>
      BY <2>5
    <3>4. Faithful(v, cached)' /\ v \in Usage /\ v.last = clock
      <4> HIDE DEF k, reached, refused
      <4> QED
        BY <1>2, <2>1, <2>2, <2>3, <2>4, <2>5, <3>1, <3>2, <3>3, ChargedFaithful
    <3> QED
      BY <3>4
  <2>7. v # None /\ memory' = v
    BY <1>8, <2>4, <2>6, GateAssumptions DEF u
  <2>8. FabricInv'
    BY <1>1, FabricStep DEF GateInv
  <2>9. LogOK'
    <3>1. k \in [at : Nat, capability : Services, request : Requests]
      BY <1>1, <1>2
    <3>2. LogOK
      BY <1>2 DEF Typed
    <3>3. k.at = clock /\ k.capability = c
      OBVIOUS
    <3> HIDE DEF k
    <3>4. IsFiniteSet(log')
      BY <1>8, <3>2, FS_AddElement DEF LogOK
    <3> QED
      BY <1>1, <1>2, <1>8, <2>5, <3>1, <3>2, <3>3, <3>4 DEF LogOK
  <2>10. Faithful(Remembered, cached)'
    <3>1. Remembered' = v
      BY <2>7 DEF Remembered
    <3> QED
      BY <2>5, <2>6, <3>1
  <2>11. memory' # None => memory' \in Usage /\ memory'.last <= clock'
    BY <1>2, <2>5, <2>6, <2>7
  <2>12. cached' \subseteq {d \in Services : caps'[d] # None}
    BY <1>2, <2>5
  <2> QED
    BY <1>4, <2>8, <2>9, <2>10, <2>11, <2>12 DEF GateInv
<1> QED
  BY <1>1, <1>6, <1>7, <1>8

LEMMA GateStep ==
    ASSUME GateInv, [Next]_vars
    PROVE  GateInv'
PROOF
<1>1. CASE FabricNext /\ UNCHANGED gateVars
  BY <1>1, FabricGateStep
<1>2. CASE UNCHANGED vars
  BY <1>2, FabricGateStep DEF vars
<1>3. ASSUME NEW c \in Services, Import(c) PROVE GateInv'
  BY <1>3, ImportStep
<1>4. ASSUME NEW c \in Services, NEW r \in Requests, Decide(c, r) PROVE GateInv'
  BY <1>4, DecideStep
<1> QED
  BY <1>1, <1>2, <1>3, <1>4 DEF Next

LEMMA GateInvariant == Spec => []GateInv
PROOF
<1>1. Init => GateInv
  BY InitGateInv
<1>2. GateInv /\ [Next]_vars => GateInv'
  BY GateStep
<1> QED
  BY <1>1, <1>2, PTL DEF Spec
-----------------------------------------------------------------------------
(* What follows.                                                           *)

\* The values of the gate's memory and of the fabric's tables stay in their sets
\* (network.mjs, runtime.mjs).
THEOREM NetworkTypes == Spec => []TypeOK
PROOF
<1>1. GateInv => TypeOK
  <2> SUFFICES ASSUME GateInv PROVE TypeOK
    OBVIOUS
  <2>1. /\ Typed /\ LogOK /\ clock \in Nat /\ FabricTypeOK
        /\ cached \subseteq {c \in Services : caps[c] # None}
        /\ nextPrune \in 0..(MaxTime + Second)
    BY GateFacts DEF GateInv, FabricInv, Typed
  <2>2. ASSUME memory # None
        PROVE  /\ memory.last \in 0..clock /\ memory.calls \in Seq(Call)
               /\ DOMAIN memory.windows = Durations
               /\ \A d \in Durations : QueueOK(memory.windows[d])
               /\ DOMAIN memory.seen \subseteq Requests
               /\ DOMAIN memory.costs \subseteq cached
    <3>1. /\ memory \in Usage /\ memory.last <= clock /\ memory.last \in Nat
          /\ DOMAIN memory.windows = Durations
          /\ Faithful(memory, cached)
      BY <2>2, MemoryFacts DEF GateInv, Remembered
    <3>2. PICK h : WindowsFaithful(memory, CallsOf(h))
      BY <3>1 DEF Faithful
    <3>3. ASSUME NEW d \in Durations PROVE QueueOK(memory.windows[d])
      <4> DEFINE q == memory.windows[d]
      <4>1. q \in Queue /\ q.head \in 0..Len(q.items) /\ q.destinations = Tally(Ahead(q))
        BY <3>1, <3>2 DEF WindowsFaithful, Exact, Counts
      <4> HIDE DEF q
      <4>2. q.items \in Seq(Call) /\ Ahead(q) \in Seq(Call)
        BY <4>1, AheadFacts
      <4>3. IsABag(q.destinations) /\ DOMAIN q.destinations \subseteq Resources
        BY <4>1, <4>2, TallyBag
      <4> QED
        BY <4>1, <4>2, <4>3 DEF QueueOK, q
    <3>4. memory.calls \in Seq(Call) /\ DOMAIN memory.seen \subseteq Requests
      BY <3>1 DEF Usage, Faithful, SeenFaithful
    <3>5. DOMAIN memory.costs \subseteq cached
      BY <3>1 DEF Faithful, CostsFaithful
    <3>6. memory.last \in 0..clock
      BY <2>1, <3>1
    <3> QED
      BY <3>1, <3>3, <3>4, <3>5, <3>6
  <2>3. ASSUME NEW k \in log
        PROVE  k.capability \in Services /\ k.request \in Requests /\ k.at \in 0..clock
    BY <2>1, LogFacts
  <2> QED
    BY <2>1, <2>2, <2>3 DEF TypeOK
<1> QED
  BY <1>1, GateInvariant, PTL

\* No resource is ever charged more in a window than the limits of the policy of the
\* charge allow, whatever capabilities come and go (runtime.mjs consume).
THEOREM BudgetsNeverExceeded == Spec => []BudgetsHold
PROOF
<1>1. GateInv => BudgetsHold
  BY DEF GateInv, FabricInv
<1> QED
  BY <1>1, GateInvariant, PTL

\* At every moment a window holds exactly the calls of its duration that the gate has
\* allowed, and the count of their destinations (network.mjs #window).
THEOREM WindowsExact == Spec => []WindowsAreExact
PROOF
<1>1. GateInv => WindowsAreExact
  <2> SUFFICES ASSUME GateInv, memory # None, NEW d \in DOMAIN memory.windows
               PROVE  LET q == memory.windows[d]
                          live == NewerThan(Ahead(q), clock - d)
                      IN /\ Len(live) = Cardinality(Allowed(d))
                         /\ q.destinations = ToBag(Destinations(Ahead(q)))
    BY DEF WindowsAreExact
  <2> DEFINE q == memory.windows[d]
  <2>1. Faithful(memory, cached) /\ LogOK /\ clock \in Nat
    BY GateFacts DEF GateInv, Remembered, Typed
  <2>2. PICK h : Past(h) /\ WindowsFaithful(memory, CallsOf(h))
    BY <2>1 DEF Faithful
  <2>3. Exact(q, d, CallsOf(h)) /\ d \in Nat /\ clock - d \in Int
    BY <2>1, <2>2, DurationFacts DEF WindowsFaithful
  <2> HIDE DEF q
  <2>4. CallsOf(h) \in Seq(Call) /\ Sorted(CallsOf(h))
    BY <2>1, <2>2, PastFacts
  <2>5. NewerThan(Ahead(q), clock - d) = NewerThan(CallsOf(h), clock - d)
    BY <2>3, <2>4, CoversNewer DEF Exact
  <2>6. Len(NewerThan(CallsOf(h), clock - d)) = Cardinality(Allowed(d))
    BY <2>1, <2>2, <2>3, WindowCount
  <2>7. q.destinations = ToBag(Destinations(Ahead(q)))
    BY <2>3 DEF Exact, Counts, Tally
  <2> QED
    BY <2>5, <2>6, <2>7 DEF q
<1> QED
  BY <1>1, GateInvariant, PTL

LEMMA DecidesByTheLog ==
    ASSUME GateInv, NEW c \in Services, NEW r \in Requests, Decide(c, r)
    PROVE  /\ log' # log => New(r) /\ WithinLimits(c)
           /\ WithinLimits(c) /\ (\A k \in log : k.request # r) => log' # log
PROOF
<1> DEFINE n       == [at |-> clock, capability |-> c, request |-> r]
           reached == Reached(UsageNow, ResourceOf[c])
           looked  == IF reached = {} THEN Len(Rule) ELSE Min(reached)
           spent   == CostOf(UsageNow, c)
           refused == r \in DOMAIN UsageNow.seen \/ spent >= caps[c].max_cost
<1>1. /\ c \in cached /\ caps[c].expires_at > clock
      /\ \/ refused /\ UNCHANGED log
         \/ ~refused /\ reached # {} /\ UNCHANGED log
         \/ ~refused /\ reached = {} /\ log' = log \cup {n}
  BY DecideCases
<1>2. /\ Typed /\ clock \in Nat
      /\ \A d \in cached : d \in Capabilities /\ caps[d] # None
  BY GateFacts
<1>3. /\ Faithful(UsageNow, cached)
      /\ SeenFaithful(UsageNow) /\ CostsFaithful(UsageNow, cached)
  BY KeptFaithful DEF Faithful
<1>4. caps[c].max_cost \in Nat /\ spent \in Nat /\ spent = Cardinality(Charges(c))
  <2>1. caps[c].max_cost \in Nat
    BY <1>1, <1>2, CapFacts, BudgetAssumptions DEF Capability
  <2>2. spent \in Nat /\ spent = Cardinality(Charges(c))
    BY <1>1, <1>3, CostType DEF CostsFaithful
  <2> QED
    BY <2>1, <2>2
<1>5. WithinLimits(c) <=> spent < caps[c].max_cost /\ reached = {}
  <2>1. reached = {} <=>
            /\ \A i \in DOMAIN Rule : Cardinality(Allowed(Rule[i].duration)) < Rule[i].limit
            /\ \/ ResourceOf[c] \in ReachedIn(Second)
               \/ Cardinality(ReachedIn(Second)) < Policies[GatePolicy].fanout
    BY <1>2, <1>3, ReachedByTheLog
  <2> HIDE DEF reached, spent
  <2> QED
    BY <1>4, <2>1 DEF WithinLimits, ReachedIn, Charges
<1>6. ASSUME log' # log
      PROVE  New(r) /\ WithinLimits(c)
  <2>1. ~refused /\ reached = {}
    BY <1>1, <1>6
  <2>2. New(r)
    <3> SUFFICES ASSUME NEW k \in log, k.request = r
                 PROVE  caps[k.capability].expires_at <= clock
      BY DEF New
    <3>1. ~(caps[k.capability].expires_at > clock)
      BY <1>3, <2>1 DEF SeenFaithful
    <3> QED
      BY <1>2, <3>1, LogCapFacts
  <2> HIDE DEF reached
  <2> QED
    BY <1>4, <1>5, <2>1, <2>2
<1>7. ASSUME WithinLimits(c), \A k \in log : k.request # r
      PROVE  log' # log
  <2>1. r \notin DOMAIN UsageNow.seen
    BY <1>3, <1>7 DEF SeenFaithful
  <2>2. ~refused /\ reached = {}
    <3> HIDE DEF reached
    <3> QED
      BY <1>4, <1>5, <1>7, <2>1
  <2>3. log' = log \cup {n}
    BY <1>1, <2>2
  <2>4. n \notin log
    BY <1>7
  <2> QED
    BY <2>3, <2>4
<1> QED
  BY <1>6, <1>7

\* However the memory was advanced, compacted, pruned or forgotten, a request is decided
\* as the limits over everything that was ever allowed would (network.mjs decide).
THEOREM DecidesByTheLimits == Spec => DecidesAsDefined
PROOF
<1>1. GateInv /\ [Next]_vars =>
          [\A c \in Services, r \in Requests : Decide(c, r) =>
              /\ log' # log => New(r) /\ WithinLimits(c)
              /\ WithinLimits(c) /\ (\A k \in log : k.request # r) => log' # log]_vars
  BY DecidesByTheLog
<1> QED
  BY <1>1, GateInvariant, PTL DEF Spec, DecidesAsDefined
-----------------------------------------------------------------------------
(* The limits themselves.                                                  *)

\* What a capability has been charged at the fabric.
VolumesHold ==
    \A c \in Capabilities : caps[c] # None => Spent(OfCapability(c)) <= caps[c].max_cost

LEMMA VolumeStep ==
    ASSUME FabricInv, FabricInv', VolumesHold, FabricNext \/ UNCHANGED fabricVars
    PROVE  VolumesHold'
PROOF
<1>1. /\ caps \in [Capabilities -> Capability \cup {None}]
      /\ IsFiniteSet(usage) /\ usage \in SUBSET Charge
      /\ \A u \in usage : caps[u.capability] # None
  BY DEF FabricInv, FabricTypeOK
<1>2. ASSUME usage' = usage,
             NEW c \in Capabilities, caps'[c] # None
      PROVE  Spent(OfCapability(c)') <= caps'[c].max_cost
  <2>1. OfCapability(c)' = OfCapability(c)
    BY <1>2 DEF OfCapability
  <2>2. CASE caps[c] # None
    <3>1. caps'[c] = caps[c]
      BY <2>2, FabricKeeps
    <3> QED
      BY <2>1, <2>2, <3>1 DEF VolumesHold
  <2>3. CASE caps[c] = None
    <3>1. OfCapability(c) = {}
      BY <1>1, <2>3 DEF OfCapability
    <3>2. Spent(OfCapability(c)) = 0
      BY <3>1, SpentFirst, FS_EmptySet
    <3>3. caps'[c].max_cost \in Nat
      BY <1>2, BudgetAssumptions DEF FabricInv, FabricTypeOK, Capability
    <3> QED
      BY <2>1, <3>2, <3>3
  <2> QED
    BY <2>2, <2>3
<1>3. ASSUME NEW c \in Capabilities, NEW r \in Requests, NEW cost \in Costs[c], Consume(c, r, cost),
             NEW d \in Capabilities, caps'[d] # None
      PROVE  Spent(OfCapability(d)') <= caps'[d].max_cost
  <2> DEFINE n == [at |-> clock, cost |-> cost, capability |-> c, request |-> r]
  <2>1. /\ usage' = usage \cup {n} /\ caps' = caps
        /\ Spent(OfCapability(c)) + cost <= caps[c].max_cost
        /\ n \notin OfCapability(c)
    BY <1>3 DEF Consume, Affordable
  <2>2. CASE d # c
    <3>1. OfCapability(d)' = OfCapability(d)
      BY <2>1, <2>2 DEF OfCapability
    <3> QED
      BY <1>3, <2>1, <3>1 DEF VolumesHold
  <2>3. CASE d = c
    <3>1. OfCapability(c)' = OfCapability(c) \cup {n}
      BY <2>1 DEF OfCapability
    <3>2. OfCapability(c) \in SUBSET Charge /\ IsFiniteSet(OfCapability(c))
      BY <1>1, FS_Subset DEF OfCapability
    <3>3. n \in Charge /\ n.cost = cost
      BY <2>1 DEF FabricInv, FabricTypeOK
    <3> HIDE DEF n
    <3>4. Spent(OfCapability(c) \cup {n}) = Spent(OfCapability(c)) + n.cost
      BY <2>1, <3>2, <3>3, SpentAdded
    <3> QED
      BY <2>1, <2>3, <3>1, <3>3, <3>4
  <2> QED
    BY <2>2, <2>3
<1>4. CASE usage' = usage
  BY <1>2, <1>4 DEF VolumesHold
<1>5. CASE \E c \in Capabilities, r \in Requests : \E cost \in Costs[c] : Consume(c, r, cost)
  BY <1>3, <1>5 DEF VolumesHold
<1>6. \/ usage' = usage
      \/ \E c \in Capabilities, r \in Requests : \E cost \in Costs[c] : Consume(c, r, cost)
  BY DEF FabricNext, Tick, ActivatePolicy, Issue, Withdraw, fabricVars
<1> QED
  BY <1>4, <1>5, <1>6

\* What the gate has allowed with a capability, in a window and in a second.
CallsHold ==
    /\ \A c \in Services : caps[c] # None => Cardinality(Charges(c)) <= caps[c].max_cost
    /\ \A i \in DOMAIN Rule : Cardinality(Allowed(Rule[i].duration)) <= Rule[i].limit
    /\ Cardinality(ReachedIn(Second)) <= Policies[GatePolicy].fanout

\* Time only takes calls out of a window.
LEMMA UnallowedStep ==
    ASSUME GateInv, GateInv', CallsHold, log' = log, clock <= clock',
           \A c \in Capabilities : caps[c] # None => caps'[c] = caps[c]
    PROVE  CallsHold'
PROOF
<1>1. Typed /\ clock \in Nat /\ clock' \in Nat /\ IsFiniteSet(log)
  BY GateFacts, BudgetAssumptions DEF Typed, LogOK, GateInv, FabricInv, FabricTypeOK
<1>2. ASSUME NEW d \in Durations
      PROVE  /\ Allowed(d)' \subseteq Allowed(d) /\ IsFiniteSet(Allowed(d))
             /\ Cardinality(Allowed(d)') <= Cardinality(Allowed(d))
             /\ Cardinality(Allowed(d)) \in Nat /\ Cardinality(Allowed(d)') \in Nat
  <2>1. Allowed(d)' \subseteq Allowed(d)
    <3> SUFFICES ASSUME NEW k \in log, k.at > clock' - d PROVE k.at > clock - d
      BY DEF Allowed
    <3>1. k.at \in Nat /\ d \in Nat
      BY <1>1, LogFacts, DurationFacts DEF Typed
    <3> QED
      BY <1>1, <3>1, Earlier
  <2>2. IsFiniteSet(Allowed(d))
    BY <1>1, FS_Subset DEF Allowed
  <2> QED
    BY <2>1, <2>2, FS_Subset, FS_CardinalityType
<1>3. ASSUME NEW c \in Services, caps'[c] # None
      PROVE  Cardinality(Charges(c)') <= caps'[c].max_cost
  <2>1. Charges(c)' = Charges(c) /\ c \in Capabilities
    BY GateAssumptions DEF Charges
  <2>2. CASE caps[c] # None
    <3>1. caps'[c] = caps[c]
      BY <2>1, <2>2
    <3> QED
      BY <2>1, <2>2, <3>1 DEF CallsHold
  <2>3. CASE caps[c] = None
    <3>1. Charges(c) = {}
      BY <1>1, <2>3, LogCapFacts DEF Charges
    <3>2. Cardinality(Charges(c)) = 0
      BY <3>1, FS_EmptySet
    <3>3. caps'[c].max_cost \in Nat
      BY <1>3, <2>1, BudgetAssumptions DEF GateInv, FabricInv, FabricTypeOK, Capability
    <3> QED
      BY <2>1, <3>2, <3>3
  <2> QED
    BY <2>2, <2>3
<1>4. ASSUME NEW i \in DOMAIN Rule
      PROVE  Cardinality(Allowed(Rule[i].duration)') <= Rule[i].limit
  <2>1. Rule[i].duration \in Durations /\ Rule[i].limit \in Nat
    BY DurationFacts
  <2>2. PICK d \in Durations : d = Rule[i].duration
    BY <2>1
  <2>3. Cardinality(Allowed(d)) <= Rule[i].limit
    BY <2>2 DEF CallsHold
  <2>4. /\ Cardinality(Allowed(d)') <= Cardinality(Allowed(d))
        /\ Cardinality(Allowed(d)) \in Nat /\ Cardinality(Allowed(d)') \in Nat
    BY <1>2
  <2>5. Cardinality(Allowed(d)') <= Rule[i].limit
    BY <2>1, <2>3, <2>4
  <2> QED
    BY <2>2, <2>5
<1>5. Cardinality(ReachedIn(Second)') <= Policies[GatePolicy].fanout
  <2>1. Second \in Durations /\ Policies[GatePolicy].fanout \in Nat
    BY DurationFacts DEF Durations
  <2>2. ReachedIn(Second)' \subseteq ReachedIn(Second)
    BY <1>2, <2>1 DEF ReachedIn
  <2>3. IsFiniteSet(ReachedIn(Second)) /\ Cardinality(ReachedIn(Second)) \in Nat
    BY <1>2, <2>1, ReachedFinite
  <2>4. /\ Cardinality(ReachedIn(Second)') <= Cardinality(ReachedIn(Second))
        /\ Cardinality(ReachedIn(Second)') \in Nat
    BY <2>2, <2>3, FS_Subset, FS_CardinalityType
  <2>5. Cardinality(ReachedIn(Second)) <= Policies[GatePolicy].fanout
    BY DEF CallsHold
  <2> QED
    BY <2>1, <2>3, <2>4, <2>5
<1> QED
  BY <1>3, <1>4, <1>5 DEF CallsHold

\* One more element makes a set larger by one at most.
LEMMA OneMore ==
    ASSUME NEW S, IsFiniteSet(S), NEW x, NEW T \in SUBSET (S \cup {x})
    PROVE  Cardinality(T) <= Cardinality(S) + 1 /\ Cardinality(T) \in Nat /\ Cardinality(S) \in Nat
PROOF
<1>1. IsFiniteSet(S \cup {x}) /\ Cardinality(S) \in Nat /\ Cardinality(S \cup {x}) \in Nat
  BY FS_AddElement, FS_CardinalityType
<1>2. Cardinality(S \cup {x}) <= Cardinality(S) + 1
  BY <1>1, FS_AddElement
<1>3. Cardinality(T) <= Cardinality(S \cup {x}) /\ Cardinality(T) \in Nat
  BY <1>1, FS_Subset, FS_CardinalityType
<1> QED
  BY <1>1, <1>2, <1>3

\* A call that is allowed had room under every limit.
LEMMA AllowedStep ==
    ASSUME GateInv, CallsHold, NEW c \in Services, NEW r \in Requests, Decide(c, r)
    PROVE  CallsHold'
PROOF
<1> DEFINE n == [at |-> clock, capability |-> c, request |-> r]
<1>1. /\ Typed /\ IsFiniteSet(log) /\ clock \in Nat
      /\ clock' = clock /\ caps' = caps
      /\ log' = log \/ log' = log \cup {n}
      /\ c \in Capabilities /\ caps[c] \in Capability
  <2>1. /\ c \in cached /\ UNCHANGED fabricVars
        /\ log' = log \/ log' = log \cup {n}
    BY DEF Decide
  <2>2. c \in Capabilities /\ caps[c] # None /\ Typed
    BY <2>1, GateFacts
  <2> QED
    BY <2>1, <2>2, CapFacts DEF fabricVars, Typed, LogOK
<1>2. CASE log' = log
  <2>1. \A d : Allowed(d)' = Allowed(d)
    BY <1>1, <1>2 DEF Allowed
  <2>2. ReachedIn(Second)' = ReachedIn(Second)
    BY <2>1 DEF ReachedIn
  <2>3. \A d : Charges(d)' = Charges(d)
    BY <1>2 DEF Charges
  <2> QED
    BY <1>1, <2>1, <2>2, <2>3 DEF CallsHold
<1>3. CASE log' # log
  <2>1. log' = log \cup {n} /\ WithinLimits(c)
    BY <1>1, <1>3, DecidesByTheLog
  <2>2. n.at = clock /\ n.capability = c
    OBVIOUS
  <2> HIDE DEF n
  <2>3. ASSUME NEW d \in Durations
        PROVE  /\ Allowed(d)' \in SUBSET (Allowed(d) \cup {n}) /\ IsFiniteSet(Allowed(d))
               /\ Cardinality(Allowed(d)) \in Nat
    <3>1. IsFiniteSet(Allowed(d))
      BY <1>1, FS_Subset DEF Allowed
    <3> QED
      BY <1>1, <2>1, <3>1, FS_CardinalityType DEF Allowed
  <2>4. ASSUME NEW d \in Services, caps[d] # None
        PROVE  Cardinality(Charges(d)') <= caps[d].max_cost
    <3>1. CASE d # c
      <4>1. Charges(d)' = Charges(d)
        BY <2>1, <2>2, <3>1 DEF Charges
      <4> QED
        BY <2>4, <4>1 DEF CallsHold
    <3>2. CASE d = c
      <4>1. Charges(c)' \subseteq Charges(c) \cup {n} /\ IsFiniteSet(Charges(c))
        BY <1>1, <2>1, FS_Subset DEF Charges
      <4>2. Cardinality(Charges(c)) < caps[c].max_cost /\ caps[c].max_cost \in Nat
        BY <1>1, <2>1, BudgetAssumptions DEF WithinLimits, Charges, Capability
      <4>3. /\ Cardinality(Charges(c)') <= Cardinality(Charges(c)) + 1
            /\ Cardinality(Charges(c)') \in Nat /\ Cardinality(Charges(c)) \in Nat
        BY <4>1, OneMore
      <4> QED
        BY <3>2, <4>2, <4>3
    <3> QED
      BY <3>1, <3>2
  <2>5. ASSUME NEW i \in DOMAIN Rule
        PROVE  Cardinality(Allowed(Rule[i].duration)') <= Rule[i].limit
    <3>1. Rule[i].duration \in Durations /\ Rule[i].limit \in Nat
      BY DurationFacts
    <3>2. PICK d \in Durations : d = Rule[i].duration
      BY <3>1
    <3>3. Cardinality(Allowed(d)) < Rule[i].limit
      BY <2>1, <3>2 DEF WithinLimits
    <3>4. /\ Cardinality(Allowed(d)') <= Cardinality(Allowed(d)) + 1
          /\ Cardinality(Allowed(d)') \in Nat /\ Cardinality(Allowed(d)) \in Nat
      BY <2>3, OneMore
    <3>5. Cardinality(Allowed(d)') <= Rule[i].limit
      BY <3>1, <3>3, <3>4
    <3> QED
      BY <3>2, <3>5
  <2>6. Cardinality(ReachedIn(Second)') <= Policies[GatePolicy].fanout
    <3>1. Second \in Durations /\ Policies[GatePolicy].fanout \in Nat
      BY DurationFacts DEF Durations
    <3>2. IsFiniteSet(ReachedIn(Second)) /\ Cardinality(ReachedIn(Second)) \in Nat
      BY <2>3, <3>1, ReachedFinite
    <3>3. /\ ReachedIn(Second)' \subseteq ReachedIn(Second) \cup {ResourceOf[c]}
          /\ \/ ResourceOf[c] \in ReachedIn(Second)
             \/ Cardinality(ReachedIn(Second)) < Policies[GatePolicy].fanout
      BY <2>1, <2>2, <2>3, <3>1 DEF ReachedIn, WithinLimits
    <3>4. /\ Cardinality(ReachedIn(Second)') <= Cardinality(ReachedIn(Second)) + 1
          /\ Cardinality(ReachedIn(Second)') \in Nat
      BY <3>2, <3>3, OneMore
    <3>5. CASE ResourceOf[c] \in ReachedIn(Second)
      <4>1. Cardinality(ReachedIn(Second)') <= Cardinality(ReachedIn(Second))
        BY <3>2, <3>3, <3>5, FS_Subset
      <4>2. Cardinality(ReachedIn(Second)) <= Policies[GatePolicy].fanout
        BY DEF CallsHold
      <4> QED
        BY <3>1, <3>2, <3>4, <4>1, <4>2
    <3>6. CASE Cardinality(ReachedIn(Second)) < Policies[GatePolicy].fanout
      BY <3>1, <3>2, <3>4, <3>6
    <3> QED
      BY <3>3, <3>5, <3>6
  <2> QED
    BY <1>1, <2>4, <2>5, <2>6 DEF CallsHold
<1> QED
  BY <1>2, <1>3

\* At no moment has a capability been charged more than its volume, at the fabric or at
\* the gate, or the gate allowed more calls in any of its windows, or reached more
\* resources in a second, than its policy says (runtime.mjs consume, network.mjs decide).
THEOREM LimitsAreKept == Spec => [](VolumesHold /\ CallsHold)
PROOF
<1>1. Init => VolumesHold /\ CallsHold
  <2> SUFFICES ASSUME Init PROVE VolumesHold /\ CallsHold
    OBVIOUS
  <2>1. log = {} /\ \A c \in Capabilities : caps[c] = None
    BY DEF Init, FabricInit
  <2>2. \A d : Allowed(d) = {} /\ ReachedIn(d) = {}
    BY <2>1 DEF Allowed, ReachedIn
  <2>3. \A d : Cardinality(Allowed(d)) = 0 /\ Cardinality(ReachedIn(d)) = 0
    BY <2>2, FS_EmptySet
  <2> QED
    BY <2>1, <2>3, DurationFacts, GateAssumptions DEF VolumesHold, CallsHold
<1>2. GateInv /\ GateInv' /\ VolumesHold /\ CallsHold /\ [Next]_vars => VolumesHold' /\ CallsHold'
  <2> SUFFICES ASSUME GateInv, GateInv', VolumesHold, CallsHold, [Next]_vars
               PROVE  VolumesHold' /\ CallsHold'
    OBVIOUS
  <2>1. CASE (FabricNext \/ UNCHANGED fabricVars) /\ UNCHANGED log
    <3>1. VolumesHold'
      BY <2>1, VolumeStep DEF GateInv
    <3>2. CallsHold'
      BY <2>1, FabricKeeps, UnallowedStep DEF GateInv
    <3> QED
      BY <3>1, <3>2
  <2>2. ASSUME NEW c \in Services, NEW r \in Requests, Decide(c, r)
        PROVE  VolumesHold' /\ CallsHold'
    <3>1. UNCHANGED fabricVars
      BY <2>2 DEF Decide
    <3> QED
      BY <2>2, <3>1, VolumeStep, AllowedStep DEF GateInv
  <2> QED
    BY <2>1, <2>2 DEF Next, Import, vars, gateVars
<1> QED
  BY <1>1, <1>2, GateInvariant, PTL DEF Spec
-----------------------------------------------------------------------------
(* The rate and the fan-out at the fabric.                                 *)

\* The charges of the second that ends with a charge, under its policy or an earlier one.
Recent(u) ==
    {v \in usage : /\ v.at \in (u.at - Second + 1)..u.at
                   /\ caps[v.capability].policy <= caps[u.capability].policy}

RatesHold ==
    \A u \in usage : Cardinality(Recent(u)) <= Policies[caps[u.capability].policy].rate

ResourcesOf(charges) == {ResourceOf[u.capability] : u \in charges}

FanoutHolds == Cardinality(ResourcesOf(Since(Second))) <= Policies[active].fanout

\* What a step of the gate is to the fabric.
LEMMA FabricSteps ==
    ASSUME [Next]_vars
    PROVE  FabricNext \/ UNCHANGED fabricVars
PROOF
  BY DEF Next, Import, Decide, vars

LEMMA ResourcesFinite ==
    ASSUME NEW S, IsFiniteSet(S)
    PROVE  IsFiniteSet(ResourcesOf(S)) /\ Cardinality(ResourcesOf(S)) \in Nat
PROOF
<1> DEFINE f == [u \in S |-> ResourceOf[u.capability]]
<1>1. f \in Surjection(S, ResourcesOf(S))
  <2>1. f \in [S -> ResourcesOf(S)]
    BY DEF ResourcesOf
  <2>2. \A x \in ResourcesOf(S) : \E u \in S : f[u] = x
    BY DEF ResourcesOf
  <2> HIDE DEF f
  <2> QED
    BY <2>1, <2>2, Fun_IsSurj
<1>2. IsFiniteSet(ResourcesOf(S))
  <2> HIDE DEF f
  <2> QED
    BY <1>1, FS_Surjection
<1> QED
  BY <1>2, FS_CardinalityType

\* A charge and the capability it names.
LEMMA ChargeFacts ==
    ASSUME FabricInv, NEW u \in usage
    PROVE  /\ u \in Charge /\ u.capability \in Capabilities /\ u.at \in Nat /\ u.at <= clock
           /\ caps[u.capability] # None /\ caps[u.capability] \in Capability
           /\ caps[u.capability].policy \in Nat /\ caps[u.capability].policy <= active
PROOF
<1>1. /\ u \in Charge /\ u.at <= clock /\ caps[u.capability] # None
      /\ caps \in [Capabilities -> Capability \cup {None}]
      /\ \A c \in Capabilities : caps[c] # None => caps[c].policy <= active
  BY DEF FabricInv, FabricTypeOK
<1>2. u.capability \in Capabilities /\ u.at \in Nat
  BY <1>1 DEF Charge
<1>3. caps[u.capability] \in Capability /\ caps[u.capability].policy \in Versions
  BY <1>1, <1>2 DEF Capability
<1> QED
  BY <1>1, <1>2, <1>3, PolicyFacts

LEMMA RateStep ==
    ASSUME FabricInv, FabricInv', RatesHold, FabricNext \/ UNCHANGED fabricVars
    PROVE  RatesHold'
PROOF
<1>1. /\ IsFiniteSet(usage) /\ clock \in Nat /\ Second \in Nat \ {0} /\ active \in Nat
      /\ active \in Versions
  BY BudgetAssumptions, PolicyFacts DEF FabricInv, FabricTypeOK
<1>2. \A u \in usage : caps'[u.capability] = caps[u.capability]
  BY ChargeFacts, FabricKeeps
<1>3. CASE usage' = usage
  <2>1. \A u \in usage : Recent(u)' = Recent(u)
    BY <1>2, <1>3 DEF Recent
  <2> QED
    BY <1>2, <1>3, <2>1 DEF RatesHold
<1>4. ASSUME NEW c \in Capabilities, NEW r \in Requests, NEW cost \in Costs[c], Consume(c, r, cost)
      PROVE  RatesHold'
  <2> DEFINE n == [at |-> clock, cost |-> cost, capability |-> c, request |-> r]
  <2>1. /\ usage' = usage \cup {n} /\ UNCHANGED <<clock, active, caps, dead>>
        /\ caps[c].policy = active /\ WithinRate(c)
    BY <1>4 DEF Consume, Live
  <2>2. n.at = clock /\ n.capability = c
    OBVIOUS
  <2> HIDE DEF n
  <2>3. SUFFICES ASSUME NEW u \in usage'
                 PROVE  Cardinality(Recent(u)') <= Policies[caps[u.capability].policy].rate
    BY <2>1 DEF RatesHold
  <2>4. /\ u.at \in Nat /\ u.at <= clock
        /\ caps[u.capability].policy \in Nat /\ caps[u.capability].policy <= active
    BY <1>1, <2>1, <2>2, ChargeFacts
  <2>5. CASE u.at = clock /\ caps[u.capability].policy = active
    <3> DEFINE S == Since(Second)
    <3>1. Recent(u)' \subseteq S \cup {n} /\ IsFiniteSet(S)
      <4>1. ASSUME NEW v \in usage, v.at \in (clock - Second + 1)..clock
            PROVE  v.at > clock - Second
        BY <1>1, <4>1, ChargeFacts
      <4> QED
        BY <1>1, <2>1, <2>5, <4>1, FS_Subset DEF Recent, Since
    <3>2. Cardinality(S) < Policies[active].rate /\ Policies[active].rate \in Nat
      BY <1>1, <2>1, PolicyFacts DEF WithinRate, Policy
    <3> HIDE DEF S
    <3>3. /\ Cardinality(Recent(u)') <= Cardinality(S) + 1
          /\ Cardinality(Recent(u)') \in Nat /\ Cardinality(S) \in Nat
      BY <3>1, OneMore
    <3> QED
      BY <2>5, <3>2, <3>3
  <2>6. CASE ~(u.at = clock /\ caps[u.capability].policy = active)
    <3>1. u \in usage
      BY <2>1, <2>2, <2>6
    <3>2. Recent(u)' = Recent(u)
      <4>1. n \notin Recent(u)'
        BY <1>1, <2>1, <2>2, <2>4, <2>6 DEF Recent
      <4> QED
        BY <2>1, <4>1 DEF Recent
    <3> QED
      BY <3>1, <3>2 DEF RatesHold
  <2> QED
    BY <2>5, <2>6
<1> QED
  BY <1>3, <1>4 DEF FabricNext, Tick, ActivatePolicy, Issue, Withdraw, fabricVars

LEMMA FanoutStep ==
    ASSUME FabricInv, FabricInv', FanoutHolds, FabricNext \/ UNCHANGED fabricVars,
           \A p \in Versions : p + 1 \in Versions => Policies[p].fanout <= Policies[p + 1].fanout
    PROVE  FanoutHolds'
PROOF
<1> DEFINE S == Since(Second)
<1>1. /\ clock \in Nat /\ clock' \in Nat /\ Second \in Nat /\ IsFiniteSet(S)
      /\ active \in Versions /\ active' \in Versions
  BY BudgetAssumptions, FS_Subset DEF FabricInv, FabricTypeOK, Since
<1>2. Policies[active].fanout \in Nat /\ Policies[active'].fanout \in Nat
  BY <1>1, PolicyFacts DEF Policy
<1>3. IsFiniteSet(ResourcesOf(S)) /\ Cardinality(ResourcesOf(S)) \in Nat
  <2> HIDE DEF S
  <2> QED
    BY <1>1, ResourcesFinite
<1>4. Policies[active].fanout <= Policies[active'].fanout
  <2>1. active' = active \/ active' = active + 1
    BY DEF FabricNext, Tick, ActivatePolicy, Issue, Withdraw, Consume, fabricVars
  <2> QED
    BY <1>1, <1>2, <2>1
<1>5. Cardinality(ResourcesOf(S)) <= Policies[active].fanout
  BY DEF FanoutHolds
<1>6. CASE usage' = usage
  <2>1. ResourcesOf(S)' \subseteq ResourcesOf(S)
    <3>1. clock <= clock'
      BY FabricKeeps
    <3>2. ASSUME NEW u \in usage, u.at > clock' - Second PROVE u.at > clock - Second
      BY <1>1, <3>1, <3>2, ChargeFacts, Earlier
    <3> QED
      BY <1>6, <3>2 DEF ResourcesOf, Since
  <2>2. /\ Cardinality(ResourcesOf(S)') <= Cardinality(ResourcesOf(S))
        /\ Cardinality(ResourcesOf(S)') \in Nat
    BY <1>3, <2>1, FS_Subset, FS_CardinalityType
  <2> HIDE DEF S
  <2>3. Cardinality(ResourcesOf(S)') <= Policies[active'].fanout
    BY <1>2, <1>3, <1>4, <1>5, <2>2
  <2> QED
    BY <2>3 DEF FanoutHolds, S
<1>7. ASSUME NEW c \in Capabilities, NEW r \in Requests, NEW cost \in Costs[c], Consume(c, r, cost)
      PROVE  FanoutHolds'
  <2>1. /\ UNCHANGED <<clock, active, caps, dead>>
        /\ caps[c].policy = active /\ WithinRate(c)
        /\ usage' = usage \cup {[at |-> clock, cost |-> cost, capability |-> c, request |-> r]}
    BY <1>7 DEF Consume, Live
  <2>2. \/ ResourceOf[c] \in ResourcesOf(S)
        \/ Cardinality(ResourcesOf(S)) < Policies[active].fanout
    BY <2>1 DEF WithinRate, ResourcesOf
  <2>3. ResourcesOf(S)' \subseteq ResourcesOf(S) \cup {ResourceOf[c]}
    BY <2>1 DEF ResourcesOf, Since
  <2>4. /\ Cardinality(ResourcesOf(S)') <= Cardinality(ResourcesOf(S)) + 1
        /\ Cardinality(ResourcesOf(S)') \in Nat
    <3> HIDE DEF S
    <3> QED
      BY <1>3, <2>3, OneMore
  <2>5. Cardinality(ResourcesOf(S)') <= Policies[active].fanout
    <3>1. CASE ResourceOf[c] \in ResourcesOf(S)
      <4>1. Cardinality(ResourcesOf(S)') <= Cardinality(ResourcesOf(S))
        BY <1>3, <2>3, <3>1, FS_Subset
      <4> HIDE DEF S
      <4> QED
        BY <1>2, <1>3, <1>5, <2>4, <4>1
    <3>2. CASE Cardinality(ResourcesOf(S)) < Policies[active].fanout
      <4> HIDE DEF S
      <4> QED
        BY <1>2, <1>3, <2>4, <3>2
    <3> QED
      BY <2>2, <3>1, <3>2
  <2> QED
    BY <2>1, <2>5 DEF FanoutHolds
<1> QED
  BY <1>6, <1>7 DEF FabricNext, Tick, ActivatePolicy, Issue, Withdraw, fabricVars

\* In no second that ends with a charge are there more charges, under its policy or an
\* earlier one, than its policy's rate (runtime.mjs consume).
THEOREM RatesAreKept == Spec => []RatesHold
PROOF
<1>1. Init => RatesHold
  BY DEF Init, FabricInit, RatesHold
<1>2. GateInv /\ GateInv' /\ RatesHold /\ [Next]_vars => RatesHold'
  BY RateStep, FabricSteps DEF GateInv
<1> QED
  BY <1>1, <1>2, GateInvariant, PTL DEF Spec

\* As long as no policy has a smaller fan-out than the one before it, no more resources are
\* reached in a second than the active policy says.  Without that it would be false: what
\* was reached in the last second may be reached again (runtime.mjs consume).
THEOREM FanoutIsKept ==
    ASSUME \A p \in Versions : p + 1 \in Versions => Policies[p].fanout <= Policies[p + 1].fanout
    PROVE  Spec => []FanoutHolds
PROOF
<1>1. Init => FanoutHolds
  <2> SUFFICES ASSUME Init PROVE FanoutHolds
    OBVIOUS
  <2>1. usage = {} /\ active \in Versions
    BY BudgetAssumptions DEF Init, FabricInit, Versions
  <2>2. ResourcesOf(Since(Second)) = {}
    BY <2>1 DEF ResourcesOf, Since
  <2>3. Cardinality(ResourcesOf(Since(Second))) = 0
    BY <2>2, FS_EmptySet
  <2> QED
    BY <2>1, <2>3, PolicyFacts DEF FanoutHolds, Policy
<1>2. GateInv /\ GateInv' /\ FanoutHolds /\ [Next]_vars => FanoutHolds'
  BY FanoutStep, FabricSteps DEF GateInv
<1> QED
  BY <1>1, <1>2, GateInvariant, PTL DEF Spec
=============================================================================
