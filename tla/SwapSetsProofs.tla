----------------------------- MODULE SwapSetsProofs -----------------------------
(***************************************************************************)
(* Swap sets are shown on all their graphs or on none, and nothing is      *)
(* logged on a leg of a half-done set; locks are given back on every path  *)
(* and threads never wait for each other in a circle.  For any finite      *)
(* number of graphs and any number of sets, threads and tries.             *)
(***************************************************************************)
EXTENDS SwapSets, FiniteSetTheorems, SequenceTheorems, TLAPS

(***************************************************************************)
(* The inductive invariant.  Of each graph: nothing is logged over a       *)
(* pending swap group, so it is the head; a set has one group in a log;    *)
(* what is marked is shown.                                                *)
(***************************************************************************)
OnePlace(l) == \A p, q \in 1..Len(l) : l[p] = l[q] /\ l[p] # 0 => p = q

LogInv ==
  \A g \in Graph : /\ OnePlace(log[g])
                   /\ PendingSwap(g) \subseteq {HeadOf(g)}
                   /\ marker[g] <= live[g]

(***************************************************************************)
(* Of each thread: which steps are its own, which locks it holds, and what *)
(* it knows of the graphs it has locked.                                   *)
(***************************************************************************)
Working == {"pass", "apply", "mark"}

Resolving == {"first", "legs"}

Shape(t, k) ==
  /\ k.pc # "idle" /\ t \in Writer =>
       /\ k.pc \notin Resolving \cup {"rebuild", "release"}
       /\ k.mode \in {"single", "in place", "swap"} /\ k.goal # "repair"
  /\ k.pc # "idle" /\ t \notin Writer =>
       /\ k.pc \notin {"stage", "checks", "append"}
       /\ k.mode \in {"catch up", "replay"} /\ k.goal \in {"none", "repair"} /\ k.at \in Graph
  /\ k.mode = "replay" => k.pc \in {"lock", "rebuild", "release"} /\ k.want = {k.at}
  /\ k.mode = "catch up" =>
       /\ k.pc \notin {"rebuild", "release"}
       /\ k.pc \notin Resolving => (k.sure <=> k.pc # "lock")
  /\ k.pc \in Working => k.goal # "none"

Owned(t, k) ==
  IF k.pc \in {"idle", "release"} THEN {}
  ELSE IF k.pc = "lock" THEN Held(t) \cap k.want
  ELSE IF k.mode = "catch up" /\ ~k.sure THEN {}
  ELSE k.want

Locks(t, k) ==
  /\ Held(t) = Owned(t, k)
  /\ k.pc = "lock" => Held(t) # k.want /\ \A h \in Held(t), g \in k.want \ Held(t) : h < g
  /\ k.todo \subseteq k.want /\ k.legs \subseteq k.want
  /\ k.pc \in Resolving \cup {"lock"} => k.legs = {} /\ (t \in Writer <=> k.todo # {})
  /\ k.pc \in Working \cup {"stage", "checks", "advance"} => k.todo # {}
  /\ k.pc \in {"append", "entries", "copies", "flip"} => k.legs # {}

Owes(k) == k.set \in Sets /\ k.legs = PendingLegs(k.set)

InPlace(k) == k.goal # "repair" \/ k.set = 0

\* What a pass over g, up to n, is about to apply.
Plain(g, n) == \A p \in 1..HeadOf(g) : marker[g] < p /\ p <= n => log[g][p] = 0

Knows(k) ==
  /\ k.pc = "legs" => k.set \in Sets
  /\ k.pc \in {"stage", "checks", "append"} \/ (k.pc \in Working /\ k.goal = "stage") =>
       \A g \in k.legs : ~Lags(g)
  /\ k.pc = "checks" => ~Lags(Min(k.todo))
  /\ k.pc \in Working /\ k.goal = "stage" => PendingSwap(Min(k.todo)) = {}
  /\ k.pc \in Working /\ k.goal # "stage" /\ InPlace(k) => \A g \in k.todo : PendingSwap(g) = {}
  /\ k.pc \in Working /\ ~InPlace(k) => Owes(k) /\ k.todo \subseteq k.legs
  /\ k.pc \in {"entries", "copies", "flip"} => Owes(k)
  /\ k.pc \in {"copies", "flip"} => \A g \in k.legs : k.upto[g] = HeadOf(g)
  /\ k.pc = "advance" =>
       k.set \in Sets /\ \A g \in k.todo : g \in LegsOf(k.set) /\ Shown(k.set, g)

Passes(k) ==
  /\ k.pc \in {"apply", "mark"} => LET g == Min(k.todo) IN
       /\ k.upto[g] <= HeadOf(g) /\ Plain(g, k.upto[g])
       /\ InPlace(k) => k.upto[g] = HeadOf(g)
  /\ k.pc = "mark" => LET g == Min(k.todo) IN marker[g] < k.upto[g] /\ marker[g] < live[g]

ThreadInv ==
  \A t \in Thread : /\ Shape(t, thread[t]) /\ Locks(t, thread[t])
                    /\ Knows(thread[t]) /\ Passes(thread[t])

IInv == TypeOK /\ LogInv /\ SetsVisibleTogether /\ ThreadInv

-----------------------------------------------------------------------------
(***************************************************************************)
(* The least element of a set of naturals: strict inclusion of finite sets *)
(* is well-founded, and 0..x is a proper subset of 0..y only below y.      *)
(***************************************************************************)
LEMMA MinInSet ==
  ASSUME NEW S, S \subseteq Nat, S # {}
  PROVE  Min(S) \in S /\ \A y \in S : Min(S) <= y
<1> DEFINE Below == {0..x : x \in S}
<1>1. Below \subseteq FiniteSubsetsOf(Nat)
  <2> SUFFICES ASSUME NEW x \in S  PROVE 0..x \in FiniteSubsetsOf(Nat)
    OBVIOUS
  <2>1. IsFiniteSet(0..x)
    BY FS_Interval
  <2> QED
    BY <2>1 DEF FiniteSubsetsOf
<1>2. Below # {}
  OBVIOUS
<1>3. IsWellFoundedOn(StrictSubsetOrdering(Nat), FiniteSubsetsOf(Nat))
  BY FS_StrictSubsetOrderingWellFounded
<1> HIDE DEF Below
<1>4. \E I \in Below : \A J \in Below : ~(<<J, I>> \in StrictSubsetOrdering(Nat))
  BY <1>1, <1>2, <1>3, WFMin
<1> USE DEF Below
<1>5. PICK x \in S : \A y \in S : ~(<<0..y, 0..x>> \in StrictSubsetOrdering(Nat))
  BY <1>4
<1>6. \A y \in S : x <= y
  <2> SUFFICES ASSUME NEW y \in S, y < x  PROVE FALSE
    OBVIOUS
  <2>1. 0..y \subseteq 0..x /\ 0..y # 0..x
    OBVIOUS
  <2>2. <<0..y, 0..x>> \in StrictSubsetOrdering(Nat)
    BY <2>1 DEF StrictSubsetOrdering
  <2> QED
    BY <1>5, <2>2
<1> QED
  BY <1>6 DEF Min

\* The leg at hand is one of those to do.
LEMMA LegAtHand ==
  ASSUME NEW k \in State, k.todo # {}
  PROVE  Min(k.todo) \in k.todo /\ Min(k.todo) \in Graph
<1>1. k.todo \subseteq Nat /\ k.todo \subseteq Graph
  BY SwapAssumption DEF State
<1> QED
  BY <1>1, MinInSet

LEMMA InitIInv == Init => IInv
<1> SUFFICES ASSUME Init  PROVE IInv
  OBVIOUS
<1>1. Idle \in State
  BY SwapAssumption DEF Idle, State, PC, Mode, Goal
<1>2. \A g \in Graph : HeadOf(g) = 0 /\ log[g] = <<>> /\ marker[g] = 0 /\ live[g] = 0 /\ 1..HeadOf(g) = {}
  BY DEF Init, HeadOf
<1>3. \A t \in Thread : Held(t) = {}
  BY SwapAssumption DEF Init, Held
<1>4. Sets = {}
  BY <1>2 DEF Sets
<1>5. LogInv /\ SetsVisibleTogether
  BY <1>2, <1>4 DEF LogInv, OnePlace, PendingSwap, SetsVisibleTogether
<1>6. TypeOK
  <2>1. log \in [Graph -> Seq(0..MaxSets)]
    BY <1>2 DEF Init
  <2>2. thread \in [Thread -> State] /\ \A t \in Thread : thread[t] = Idle
    BY <1>1 DEF Init
  <2>3. \A t \in Thread : thread[t].pc = "idle"
    BY <2>2 DEF Idle
  <2>4. /\ lock \in [Graph -> Thread \cup {NoThread}] /\ unit \in [Graph -> SUBSET Graph]
        /\ blocked \subseteq Graph /\ gated \subseteq Graph /\ onTheirOwn \subseteq Sets
        /\ marker \in [Graph -> Nat] /\ live \in [Graph -> Nat]
    BY DEF Init
  <2>5. \A g \in Graph : marker[g] \in 0..HeadOf(g) /\ live[g] \in 0..HeadOf(g)
    BY <1>2
  <2> QED
    BY <1>3, <2>1, <2>2, <2>3, <2>4, <2>5 DEF TypeOK
<1>7. ThreadInv
  BY <1>3 DEF Init, ThreadInv, Shape, Locks, Owned, Knows, Passes, Idle, Working, Resolving
<1> QED
  BY <1>5, <1>6, <1>7 DEF IInv

-----------------------------------------------------------------------------
(***************************************************************************)
(* The log.                                                                *)
(***************************************************************************)
LEMMA Element == ASSUME NEW S, NEW q \in Seq(S), NEW n \in 1..Len(q)  PROVE q[n] \in S
OBVIOUS

LEMMA OfGraph ==
  ASSUME TypeOK, NEW g \in Graph
  PROVE  /\ log[g] \in Seq(0..MaxSets) /\ HeadOf(g) \in Nat
         /\ marker[g] \in 0..HeadOf(g) /\ live[g] \in 0..HeadOf(g)
<1>1. log[g] \in Seq(0..MaxSets)
  BY DEF TypeOK
<1>2. HeadOf(g) \in Nat
  BY <1>1 DEF HeadOf
<1> QED
  BY <1>1, <1>2 DEF TypeOK

\* A set has one position on each of its legs.
LEMMA Placed ==
  ASSUME TypeOK, LogInv, NEW s \in Sets, NEW g \in LegsOf(s)
  PROVE  /\ g \in Graph /\ HeadOf(g) \in Nat /\ PositionOf(s, g) \in 1..HeadOf(g)
         /\ log[g][PositionOf(s, g)] = s /\ s # 0
         /\ \A p \in 1..HeadOf(g) : log[g][p] = s => p = PositionOf(s, g)
<1>1. g \in Graph /\ \E p \in 1..HeadOf(g) : log[g][p] = s
  BY DEF LegsOf
<1>2. HeadOf(g) \in Nat
  BY <1>1, OfGraph
<1>3. PositionOf(s, g) \in 1..HeadOf(g) /\ log[g][PositionOf(s, g)] = s
  BY <1>1 DEF PositionOf
<1>4. s # 0
  BY DEF Sets
<1>5. \A p, q \in 1..HeadOf(g) : log[g][p] = log[g][q] /\ log[g][p] # 0 => p = q
  BY <1>1 DEF LogInv, OnePlace, HeadOf
<1> QED
  BY <1>1, <1>2, <1>3, <1>4, <1>5

\* A leg of a set that is pending is the head of its graph; one that is not is shown.
LEMMA PendingOrShown ==
  ASSUME TypeOK, LogInv, NEW s \in Sets, NEW g \in LegsOf(s)
  PROVE  /\ g \in PendingLegs(s) => PositionOf(s, g) = HeadOf(g) /\ PendingSwap(g) # {}
         /\ g \notin PendingLegs(s) => Shown(s, g)
<1>1. /\ g \in Graph /\ HeadOf(g) \in Nat /\ PositionOf(s, g) \in 1..HeadOf(g)
      /\ log[g][PositionOf(s, g)] = s /\ s # 0
  BY Placed
<1>2. marker[g] \in Nat /\ live[g] \in Nat /\ marker[g] <= live[g]
  BY <1>1, OfGraph DEF LogInv
<1>3. PendingSwap(g) \subseteq {HeadOf(g)}
  BY <1>1 DEF LogInv
<1>4. g \in PendingLegs(s) => PositionOf(s, g) \in PendingSwap(g)
  BY <1>1, <1>2 DEF PendingLegs, PendingSwap
<1>5. g \notin PendingLegs(s) => PositionOf(s, g) <= marker[g]
  BY <1>1, <1>2 DEF PendingLegs
<1> QED
  BY <1>1, <1>2, <1>3, <1>4, <1>5 DEF Shown

\* What is logged under a position of some graph is a set or nothing.
LEMMA LoggedSet ==
  ASSUME TypeOK, NEW g \in Graph, NEW p \in 1..HeadOf(g), log[g][p] # 0
  PROVE  log[g][p] \in Sets /\ g \in LegsOf(log[g][p])
BY DEF Sets, LegsOf

(***************************************************************************)
(* A step of a thread t: what it does to the log and the content is under  *)
(* locks it holds, what it does to the locks concerns locks of its own.    *)
(***************************************************************************)
DbTypes ==
  /\ log \in [Graph -> Seq(0..MaxSets)]
  /\ marker \in [Graph -> Nat] /\ live \in [Graph -> Nat]
  /\ \A g \in Graph : marker[g] \in 0..HeadOf(g) /\ live[g] \in 0..HeadOf(g)
  /\ onTheirOwn \subseteq Sets

DbStep(t) ==
  /\ \A g \in Graph : lock[g] # t =>
       log'[g] = log[g] /\ marker'[g] = marker[g] /\ live'[g] = live[g]
  /\ \A s \in Sets : /\ s \in Sets' /\ LegsOf(s)' = LegsOf(s)
                     /\ \A g \in LegsOf(s) : PositionOf(s, g)' = PositionOf(s, g)
  /\ \A g \in Graph : marker[g] <= marker'[g]
  /\ DbTypes' /\ LogInv' /\ SetsVisibleTogether'

LockStep(t) ==
  /\ lock' \in [Graph -> Thread \cup {NoThread}]
  /\ \A g \in Graph : lock'[g] # lock[g] => {lock[g], lock'[g]} \subseteq {t, NoThread}

GateTypes == blocked \subseteq Graph /\ gated \subseteq Graph /\ unit \in [Graph -> SUBSET Graph]

LEMMA SameHeld ==
  ASSUME NEW t \in Thread, NEW u \in Thread, u # t, LockStep(t)
  PROVE  Held(u)' = Held(u)
BY SwapAssumption DEF LockStep, Held

LEMMA SameGraphs ==
  ASSUME IInv, NEW t \in Thread, DbStep(t), NEW g \in Graph, lock[g] # t
  PROVE  /\ log'[g] = log[g] /\ marker'[g] = marker[g] /\ live'[g] = live[g]
         /\ HeadOf(g)' = HeadOf(g) /\ PendingSwap(g)' = PendingSwap(g)
         /\ Lags(g)' = Lags(g) /\ \A n : Plain(g, n)' = Plain(g, n)
<1>1. log'[g] = log[g] /\ marker'[g] = marker[g] /\ live'[g] = live[g]
  BY DEF DbStep
<1> QED
  BY <1>1 DEF HeadOf, PendingSwap, Lags, Plain

LEMMA OthersLocks ==
  ASSUME IInv, NEW t \in Thread, NEW u \in Thread, u # t, LockStep(t), thread'[u] = thread[u]
  PROVE  Locks(u, thread[u])'
<1>1. Held(u)' = Held(u)
  BY SameHeld
<1>2. Locks(u, thread[u])
  BY DEF IInv, ThreadInv
<1> QED
  BY <1>1, <1>2 DEF Locks, Owned

\* What a thread past its locks works on is locked by it.
LEMMA WorksOnItsOwn ==
  ASSUME IInv, NEW u \in Thread, NEW k \in State, k = thread[u],
         k.pc \notin {"idle", "release", "lock"} \cup Resolving
  PROVE  \A g \in k.todo \cup k.legs : g \in Graph /\ lock[g] = u
<1>1. Shape(u, k) /\ Locks(u, k)
  BY DEF IInv, ThreadInv
<1>2. Held(u) = k.want
  BY <1>1 DEF Locks, Owned, Shape
<1> QED
  BY <1>1, <1>2 DEF Locks, Held

LEMMA OthersKnow ==
  ASSUME IInv, NEW t \in Thread, NEW u \in Thread, u # t, DbStep(t),
         NEW k \in State, k = thread[u]
  PROVE  Knows(k)' /\ Passes(k)'
<1> DEFINE Past == k.pc \notin {"idle", "release", "lock"} \cup Resolving
<1>1. Knows(k) /\ Passes(k) /\ Locks(u, k)
  BY DEF IInv, ThreadInv
<1>2. Past => \A g \in k.todo \cup k.legs :
        /\ g \in Graph
        /\ log'[g] = log[g] /\ marker'[g] = marker[g] /\ live'[g] = live[g]
        /\ HeadOf(g)' = HeadOf(g) /\ PendingSwap(g)' = PendingSwap(g)
        /\ Lags(g)' = Lags(g) /\ \A n : Plain(g, n)' = Plain(g, n)
  BY WorksOnItsOwn, SameGraphs
<1>3. \A s \in Sets : /\ s \in Sets' /\ LegsOf(s)' = LegsOf(s)
                      /\ \A g \in LegsOf(s) : PositionOf(s, g)' = PositionOf(s, g)
  BY DEF DbStep
<1>4. Past /\ k.pc \in Working \cup {"checks", "advance"} => Min(k.todo) \in k.todo
  BY <1>1, LegAtHand DEF Locks
<1>5. Past /\ Owes(k) => Owes(k)'
  <2> SUFFICES ASSUME Past, Owes(k)  PROVE Owes(k)'
    OBVIOUS
  <2>1. k.set \in Sets /\ k.legs = PendingLegs(k.set)
    BY DEF Owes
  <2>2. \A g \in LegsOf(k.set) :
          g \in Graph /\ marker[g] \in Nat /\ marker'[g] \in Nat /\ PositionOf(k.set, g) \in Nat
    <3> TAKE g \in LegsOf(k.set)
    <3>1. g \in Graph /\ PositionOf(k.set, g) \in 1..HeadOf(g) /\ HeadOf(g) \in Nat
      BY <2>1, Placed DEF IInv
    <3>2. marker[g] \in Nat
      BY <3>1, OfGraph DEF IInv
    <3>3. marker'[g] \in Nat
      <4>1. log'[g] \in Seq(0..MaxSets) /\ marker'[g] \in 0..Len(log'[g])
        BY <3>1 DEF DbStep, DbTypes, HeadOf
      <4> QED
        BY <4>1
    <3> QED
      BY <3>1, <3>2, <3>3
  <2>3. \A g \in k.legs : marker'[g] = marker[g]
    BY <1>2
  <2>4. \A g \in LegsOf(k.set) : marker[g] <= marker'[g] /\ g \in Graph
    BY DEF DbStep, LegsOf
  <2>5. PendingLegs(k.set)' = PendingLegs(k.set)
    BY <1>3, <2>1, <2>2, <2>3, <2>4 DEF PendingLegs
  <2> QED
    BY <1>3, <2>1, <2>5 DEF Owes
<1>6. k.pc = "advance" => \A g \in k.todo :
        (g \in LegsOf(k.set) /\ Shown(k.set, g))' = (g \in LegsOf(k.set) /\ Shown(k.set, g))
  BY <1>1, <1>2, <1>3 DEF Knows, Shown, Resolving
<1> HIDE DEF Past
<1>7. k.pc \in Working \cup {"stage", "checks", "append", "entries", "copies", "flip", "advance"} => Past
  BY DEF Past, Working, Resolving
<1>8. Knows(k)'
  BY <1>1, <1>2, <1>3, <1>4, <1>5, <1>6, <1>7 DEF Knows, InPlace, Working
<1>9. Passes(k)'
  BY <1>1, <1>2, <1>4, <1>7 DEF Passes, InPlace, Working
<1> QED
  BY <1>8, <1>9

(***************************************************************************)
(* What is left to show of a step of t: the log, the locks, the gate, and  *)
(* what t itself is then doing.                                            *)
(***************************************************************************)
LEMMA ThreadStep ==
  ASSUME IInv, NEW t \in Thread, NEW k \in State,
         thread' = [thread EXCEPT ![t] = k],
         DbStep(t), LockStep(t), GateTypes',
         Shape(t, k), Locks(t, k)', Knows(k)', Passes(k)'
  PROVE  IInv'
<1>1. thread' \in [Thread -> State] /\ thread'[t] = k
      /\ \A u \in Thread : u # t => thread'[u] = thread[u] /\ thread[u] \in State
  BY DEF IInv, TypeOK
<1>2. \A u \in Thread : /\ Shape(u, thread'[u]) /\ Locks(u, thread[u])'
                        /\ Knows(thread[u])' /\ Passes(thread[u])'
  <2> TAKE u \in Thread
  <2>1. CASE u = t
    <3>1. Locks(u, thread[u])'
      BY <1>1, <2>1 DEF Locks, Owned
    <3>2. Knows(thread[u])' /\ Passes(thread[u])'
      BY <1>1, <2>1 DEF Knows, Passes, Owes, InPlace
    <3> QED
      BY <1>1, <2>1, <3>1, <3>2
  <2>2. CASE u # t
    <3>1. Shape(u, thread'[u])
      BY <1>1, <2>2 DEF IInv, ThreadInv
    <3>2. Locks(u, thread[u])'
      BY <1>1, <2>2, OthersLocks
    <3>3. \A x \in State : x = thread[u] => Knows(x)' /\ Passes(x)'
      BY <2>2, OthersKnow
    <3>4. PICK x \in State : x = thread[u] /\ x = thread'[u]
      BY <1>1, <2>2
    <3>5. Knows(x)' /\ Passes(x)'
      BY <3>3, <3>4
    <3>6. Knows(thread[u])' /\ Passes(thread[u])'
      BY <3>4, <3>5 DEF Knows, Passes, Owes, InPlace
    <3> QED
      BY <3>1, <3>2, <3>6
  <2> QED
    BY <2>1, <2>2
<1>3. ThreadInv'
  BY <1>2 DEF ThreadInv, Shape
<1>4. \A u \in Thread : Held(u)' = Owned(u, thread[u])'
  BY <1>2 DEF Locks
<1>5. TypeOK'
  BY <1>1, <1>4 DEF TypeOK, DbStep, DbTypes, LockStep, GateTypes, Owned
<1> QED
  BY <1>3, <1>5 DEF IInv, DbStep

LEMMA IdleInState == Idle \in State
BY SwapAssumption DEF Idle, State, PC, Mode, Goal

\* A call that ends, having changed the log or not.
LEMMA Returns ==
  ASSUME IInv, NEW t \in Thread, Return(t), DbStep(t), GateTypes'
  PROVE  IInv'
<1>1. lock' = [g \in Graph |-> IF lock[g] = t THEN NoThread ELSE lock[g]] /\ thread' = [thread EXCEPT ![t] = Idle]
  BY DEF Return
<1>2. LockStep(t)
  BY <1>1 DEF LockStep, IInv, TypeOK
<1>3. Held(t)' = {}
  BY <1>1, SwapAssumption DEF Held
<1>4. Shape(t, Idle) /\ Locks(t, Idle)' /\ Knows(Idle)' /\ Passes(Idle)'
  BY <1>3 DEF Shape, Locks, Owned, Knows, Passes, Idle, Working, Resolving
<1> QED
  BY <1>1, <1>2, <1>4, IdleInState, ThreadStep

\* A step that keeps the locks and goes on as k.
LEMMA GoesOn ==
  ASSUME IInv, NEW t \in Thread, NEW k \in State,
         thread' = [thread EXCEPT ![t] = k], UNCHANGED lock,
         DbStep(t), GateTypes', Shape(t, k), Locks(t, k), Knows(k)', Passes(k)'
  PROVE  IInv'
<1>1. LockStep(t) /\ Held(t)' = Held(t)
  BY DEF LockStep, IInv, TypeOK, Held
<1>2. Locks(t, k)'
  BY <1>1 DEF Locks, Owned
<1> QED
  BY <1>1, <1>2, ThreadStep

\* A step that only reads the log.
LEMMA Reads ==
  ASSUME IInv, NEW t \in Thread, UNCHANGED <<dbVars, live>>
  PROVE  /\ DbStep(t)
         /\ \A k \in State : Knows(k)' = Knows(k) /\ Passes(k)' = Passes(k)
<1>1. UNCHANGED <<log, marker, live, onTheirOwn>>
  BY DEF dbVars
<1>a. Sets' = Sets /\ \A g : HeadOf(g)' = HeadOf(g) /\ PendingSwap(g)' = PendingSwap(g)
  BY <1>1 DEF Sets, HeadOf, PendingSwap
<1>b. \A s, g : LegsOf(s)' = LegsOf(s) /\ PositionOf(s, g)' = PositionOf(s, g) /\ Shown(s, g)' = Shown(s, g)
  BY <1>1 DEF Shown, LegsOf, PositionOf, HeadOf
<1>2. LogInv' /\ SetsVisibleTogether'
  BY <1>1, <1>a, <1>b DEF IInv, LogInv, SetsVisibleTogether
<1>3. DbTypes'
  <2>1. DbTypes
    BY DEF IInv, TypeOK, DbTypes
  <2> QED
    BY <1>1, <1>a, <2>1 DEF DbTypes
<1>4. \A s \in Sets : /\ s \in Sets' /\ LegsOf(s)' = LegsOf(s)
                      /\ \A g \in LegsOf(s) : PositionOf(s, g)' = PositionOf(s, g)
  BY <1>1 DEF Sets, LegsOf, PositionOf, HeadOf
<1>5. \A g \in Graph : marker[g] <= marker'[g]
  BY <1>1, OfGraph DEF IInv
<1>6. DbStep(t)
  BY <1>1, <1>2, <1>3, <1>4, <1>5 DEF DbStep
<1>7. \A k \in State : Knows(k)' = Knows(k) /\ Passes(k)' = Passes(k)
  BY <1>1 DEF Knows, Passes, Owes, InPlace, Plain, Lags, PendingSwap, PendingLegs, LegsOf, PositionOf,
              Sets, Shown, HeadOf
<1> QED
  BY <1>6, <1>7

LEMMA Own ==
  ASSUME IInv, NEW t \in Thread
  PROVE  \E k \in State : k = thread[t] /\ Shape(t, k) /\ Locks(t, k) /\ Knows(k) /\ Passes(k)
BY DEF IInv, TypeOK, ThreadInv

LEMMA GatesKept == ASSUME IInv, UNCHANGED gateVars  PROVE GateTypes'
BY DEF IInv, TypeOK, GateTypes, gateVars

\* A step that only reads, and keeps the locks and the gate.
LEMMA ReadsOn ==
  ASSUME IInv, NEW t \in Thread, NEW k \in State,
         thread' = [thread EXCEPT ![t] = k], UNCHANGED <<dbVars, live, lock>>, GateTypes',
         Shape(t, k), Locks(t, k), Knows(k), Passes(k)
  PROVE  IInv'
<1>1. DbStep(t) /\ \A x \in State : Knows(x)' = Knows(x) /\ Passes(x)' = Passes(x)
  BY Reads
<1> QED
  BY <1>1, GoesOn

\* A call that ends without having changed the log.
LEMMA ReadsAndReturns ==
  ASSUME IInv, NEW t \in Thread, Return(t), UNCHANGED <<dbVars, live>>, GateTypes'
  PROVE  IInv'
BY Reads, Returns

-----------------------------------------------------------------------------
(***************************************************************************)
(* Calls and their locks.                                                  *)
(***************************************************************************)
LEMMA SubmitStep ==
  ASSUME IInv, NEW w \in Writer, NEW mode \in {"single", "in place", "swap"}, NEW legs \in SUBSET Graph,
         legs # {}, Submit(w, mode, legs)
  PROVE  IInv'
<1> DEFINE k == [Idle EXCEPT !.pc = "lock", !.mode = mode, !.want = legs, !.todo = legs]
<1>1. PICK h \in State : h = thread[w] /\ Locks(w, h) /\ h.pc = "idle"
  BY Own DEF Submit, At, Thread
<1>2. k \in State
  BY IdleInState DEF State, PC, Mode
<1>3. Held(w) = {}
  BY <1>1 DEF Locks, Owned
<1>4. Shape(w, k) /\ Locks(w, k) /\ Knows(k) /\ Passes(k)
  BY <1>3 DEF Shape, Locks, Owned, Knows, Passes, Idle, Working, Resolving
<1> QED
  BY <1>2, <1>4, GatesKept, ReadsOn DEF Submit, Thread

LEMMA CatchUpStep ==
  ASSUME IInv, NEW r \in Repairer, NEW g \in Graph, CatchUp(r, g)
  PROVE  IInv'
<1> DEFINE k == [Idle EXCEPT !.pc = "first", !.mode = "catch up", !.at = g, !.tries = 1]
<1>1. PICK h \in State : h = thread[r] /\ Locks(r, h) /\ h.pc = "idle"
  BY Own DEF CatchUp, At, Thread
<1>2. k \in State
  BY IdleInState DEF State, PC, Mode
<1>3. Held(r) = {}
  BY <1>1 DEF Locks, Owned
<1>4. Shape(r, k) /\ Locks(r, k) /\ Knows(k) /\ Passes(k)
  BY <1>3, SwapAssumption DEF Shape, Locks, Owned, Knows, Passes, Idle, Working, Resolving
<1> QED
  BY <1>2, <1>4, GatesKept, ReadsOn DEF CatchUp, Thread

LEMMA ReplayStep ==
  ASSUME IInv, NEW r \in Repairer, NEW g \in Graph, Replay(r, g)
  PROVE  IInv'
<1> DEFINE k == [Idle EXCEPT !.pc = "lock", !.mode = "replay", !.at = g, !.want = {g}]
<1>1. PICK h \in State : h = thread[r] /\ Locks(r, h) /\ h.pc = "idle"
  BY Own DEF Replay, At, Thread
<1>2. k \in State
  BY IdleInState DEF State, PC, Mode
<1>3. Held(r) = {}
  BY <1>1 DEF Locks, Owned
<1>4. Shape(r, k) /\ Locks(r, k) /\ Knows(k) /\ Passes(k)
  BY <1>3, SwapAssumption DEF Shape, Locks, Owned, Knows, Passes, Idle, Working, Resolving
<1>5. GateTypes'
  BY DEF Replay, GateTypes, IInv, TypeOK
<1> QED
  BY <1>2, <1>4, <1>5, ReadsOn DEF Replay, Thread

LEMMA LockStepKeeps ==
  ASSUME IInv, NEW t \in Thread, Lock(t)
  PROVE  IInv'
<1>1. PICK k \in State : k = thread[t] /\ Shape(t, k) /\ Locks(t, k) /\ k.pc = "lock"
  BY Own DEF Lock, At
<1>2. Held(t) \subseteq k.want /\ k.want \ Held(t) # {} /\ k.want \subseteq Nat /\ k.want \subseteq Graph
  BY <1>1, SwapAssumption DEF Locks, Owned, State
<1>c. Min(k.want \ Held(t)) \in k.want \ Held(t)
  BY <1>2, MinInSet
<1>3. PICK g : /\ g = Min(k.want \ Held(t)) /\ g \in k.want \ Held(t) /\ g \in Graph
               /\ lock[g] = NoThread /\ lock' = [lock EXCEPT ![g] = t]
               /\ IF k.want \ Held(t) = {g}
                  THEN thread' = [thread EXCEPT ![t].pc = AfterLock(t), ![t].sure = TRUE]
                  ELSE UNCHANGED thread
  BY <1>1, <1>2, <1>c DEF Lock, NextLock
<1>a. lock \in [Graph -> Thread \cup {NoThread}]
  BY DEF IInv, TypeOK
<1>b. UNCHANGED <<dbVars, live>> /\ UNCHANGED gateVars
  BY DEF Lock
<1>4. LockStep(t) /\ Held(t)' = Held(t) \cup {g}
  BY <1>3, <1>a, SwapAssumption DEF LockStep, Held
<1>5. DbStep(t) /\ \A x \in State : Knows(x)' = Knows(x) /\ Passes(x)' = Passes(x)
  BY <1>b, Reads
<1>6. GateTypes'
  BY <1>b, GatesKept
<1>7. CASE k.want \ Held(t) = {g}
  <2>1. PICK after \in {"stage", "rebuild", "first"} :
          /\ after = AfterLock(t)
          /\ after = IF t \in Writer THEN "stage" ELSE IF k.mode = "replay" THEN "rebuild" ELSE "first"
    BY <1>1 DEF AfterLock, Shape
  <2> DEFINE m == [k EXCEPT !.pc = after, !.sure = TRUE]
  <2>2. m \in State
    BY <2>1 DEF State, PC
  <2>3. thread' = [thread EXCEPT ![t] = m]
    <3>1. thread' = [thread EXCEPT ![t].pc = after, ![t].sure = TRUE]
      BY <1>3, <1>7, <2>1
    <3> QED
      BY <1>1, <3>1
  <2>4. k.want = Held(t)'
    BY <1>2, <1>3, <1>4, <1>7
  <2>5. Shape(t, m)
    BY <1>1, <2>1 DEF Shape, State, Working, Resolving
  <2>6. k.mode \in {"replay", "catch up"} \/ t \in Writer
    BY <1>1 DEF Shape
  <2>7. /\ m.pc = after /\ m.sure /\ m.mode = k.mode /\ m.want = k.want
        /\ m.todo = k.todo /\ m.legs = k.legs /\ m.goal = k.goal
    BY DEF State
  <2>8. Locks(t, m)'
    BY <1>1, <2>1, <2>4, <2>6, <2>7 DEF Locks, Owned, Working, Resolving
  <2>9. Knows(m) /\ Passes(m)
    BY <1>1, <2>1, <2>7 DEF Knows, Passes, Locks, Working, Resolving
  <2> QED
    BY <1>4, <1>5, <1>6, <2>2, <2>3, <2>5, <2>8, <2>9, ThreadStep
<1>8. CASE k.want \ Held(t) # {g}
  <2>1. thread' = [thread EXCEPT ![t] = k]
    BY <1>1, <1>3, <1>8 DEF IInv, TypeOK
  <2>a. \A h \in Held(t)', x \in k.want \ Held(t)' : h < x
    <3>1. \A x \in k.want \ Held(t) : g <= x
      BY <1>2, <1>3, MinInSet
    <3>2. \A h \in Held(t), x \in k.want \ Held(t) : h < x
      BY <1>1 DEF Locks
    <3>3. \A x \in k.want : x \in Nat
      BY <1>2
    <3> QED
      BY <1>2, <1>3, <1>4, <3>1, <3>2, <3>3
  <2>2. Locks(t, k)'
    BY <1>1, <1>2, <1>3, <1>4, <1>8, <2>a DEF Locks, Owned
  <2>3. Knows(k) /\ Passes(k)
    BY <1>1 DEF IInv, ThreadInv
  <2> QED
    BY <1>1, <1>4, <1>5, <1>6, <2>1, <2>2, <2>3, ThreadStep
<1> QED
  BY <1>7, <1>8

-----------------------------------------------------------------------------
(***************************************************************************)
(* The unit.                                                               *)
(***************************************************************************)
\* What is resolved is what the thread may go on with, once it holds the locks.
LEMMA ResolvedStep ==
  ASSUME IInv, NEW t \in Thread, t \notin Writer, thread[t].pc \in Resolving, NEW s \in 0..MaxSets,
         NEW graphs \in SUBSET Graph, Resolved(t, s, graphs), UNCHANGED <<dbVars, live, gateVars>>,
         IF s = 0 THEN \A g \in graphs : PendingSwap(g) = {}
                  ELSE s \in Sets /\ graphs = PendingLegs(s)
  PROVE  IInv'
<1>1. PICK k \in State : k = thread[t] /\ Shape(t, k) /\ Locks(t, k) /\ k.pc \in Resolving
  BY Own
<1>2. /\ k.mode = "catch up" /\ k.pc \notin {"idle", "release", "lock"} /\ k.todo = {} /\ k.legs = {}
      /\ t \notin Writer
      /\ Held(t) = IF k.sure THEN k.want ELSE {}
  BY <1>1 DEF Shape, Locks, Owned, Resolving
<1>3. UNCHANGED <<dbVars, live>> /\ GateTypes'
  BY GatesKept DEF dbVars, gateVars
<1>4. CASE ~k.sure
  <2> DEFINE m == [k EXCEPT !.want = graphs, !.set = s, !.pc = IF graphs = {} THEN "first" ELSE "lock",
                            !.sure = graphs = {}]
  <2>1. thread' = [thread EXCEPT ![t] = m] /\ UNCHANGED lock
    BY <1>1, <1>4 DEF Resolved
  <2>2. PICK b \in BOOLEAN : b = (graphs = {})
    OBVIOUS
  <2>3. m = [k EXCEPT !.want = graphs, !.set = s, !.pc = IF b THEN "first" ELSE "lock", !.sure = b]
    BY <2>2
  <2>4. m \in State
    BY <2>3 DEF State, PC
  <2>5. /\ m.pc = IF graphs = {} THEN "first" ELSE "lock"
        /\ m.sure <=> graphs = {}
        /\ m.want = graphs /\ m.mode = k.mode /\ m.todo = k.todo /\ m.legs = k.legs /\ m.goal = k.goal
        /\ m.at = k.at
    BY <2>2, <2>3 DEF State
  <2> HIDE DEF m
  <2>6. Shape(t, m)
    BY <1>1, <1>2, <2>5 DEF Shape, Resolving, Working
  <2>7. Locks(t, m)
    BY <1>2, <1>4, <2>5 DEF Locks, Owned, Resolving, Working
  <2>8. Knows(m) /\ Passes(m)
    BY <2>5 DEF Knows, Passes, Working
  <2> QED
    BY <1>3, <2>1, <2>4, <2>6, <2>7, <2>8, ReadsOn
<1>5. CASE Return(t)
  BY <1>3, <1>5, ReadsAndReturns
<1>6. CASE k.sure /\ graphs \subseteq k.want /\ ~Return(t)
  <2> DEFINE m == [k EXCEPT !.pc = "pass", !.goal = "repair", !.set = s, !.todo = graphs, !.legs = graphs]
  <2>1. thread' = [thread EXCEPT ![t] = m] /\ UNCHANGED lock /\ graphs # {}
    BY <1>1, <1>6 DEF Resolved, StillCovered
  <2>2. m \in State
    BY DEF State, PC, Goal
  <2>3. /\ m.pc = "pass" /\ m.goal = "repair" /\ m.set = s /\ m.todo = graphs /\ m.legs = graphs
        /\ m.want = k.want /\ m.mode = k.mode /\ m.at = k.at /\ m.sure = k.sure
    BY DEF State
  <2> HIDE DEF m
  <2>4. Shape(t, m)
    BY <1>1, <1>2, <1>6, <2>3 DEF Shape, Resolving, Working
  <2>5. Locks(t, m)
    BY <1>2, <1>6, <2>1, <2>3 DEF Locks, Owned, Resolving, Working
  <2>6. Knows(m) /\ Passes(m)
    BY <2>3 DEF Knows, Passes, Working, InPlace, Owes
  <2> QED
    BY <1>3, <2>1, <2>2, <2>4, <2>5, <2>6, ReadsOn
<1>7. CASE k.sure /\ ~(graphs \subseteq k.want) /\ ~Return(t)
  <2> DEFINE m == [k EXCEPT !.pc = "first", !.want = {}, !.set = 0, !.sure = FALSE, !.tries = @ + 1]
  <2>1. /\ thread' = [thread EXCEPT ![t] = m]
        /\ lock' = [g \in Graph |-> IF lock[g] = t THEN NoThread ELSE lock[g]]
    BY <1>1, <1>7 DEF Resolved, StillCovered
  <2>a. 0 \in 0..MaxSets /\ k.tries + 1 \in Nat
    BY SwapAssumption DEF State
  <2>2. m \in State
    BY <2>a DEF State, PC
  <2>3. /\ m.pc = "first" /\ m.want = {} /\ ~m.sure /\ m.todo = {} /\ m.legs = {}
        /\ m.mode = k.mode /\ m.at = k.at /\ m.goal = k.goal
    BY <1>2 DEF State
  <2> HIDE DEF m
  <2>4. lock \in [Graph -> Thread \cup {NoThread}]
    BY DEF IInv, TypeOK
  <2>5. LockStep(t) /\ Held(t)' = {}
    BY <2>1, <2>4, SwapAssumption DEF LockStep, Held
  <2>6. Shape(t, m)
    BY <1>1, <1>2, <2>3 DEF Shape, Resolving, Working
  <2>7. Locks(t, m)'
    BY <1>2, <2>3, <2>5 DEF Locks, Owned, Resolving, Working
  <2>8. Knows(m) /\ Passes(m)
    BY <2>3 DEF Knows, Passes, Working
  <2>9. DbStep(t) /\ Knows(m)' /\ Passes(m)'
    BY <1>3, <2>2, <2>8, Reads
  <2> QED
    BY <1>3, <2>1, <2>2, <2>5, <2>6, <2>7, <2>9, ThreadStep
<1> QED
  BY <1>1, <1>4, <1>5, <1>6, <1>7 DEF State

LEMMA ResolveFirstStep ==
  ASSUME IInv, NEW r \in Repairer, ResolveFirst(r)
  PROVE  IInv'
<1>1. PICK k \in State : k = thread[r] /\ Shape(r, k) /\ Locks(r, k) /\ k.pc = "first" /\ r \in Thread
  BY Own DEF ResolveFirst, At, Thread
<1>2. r \notin Writer /\ k.at \in Graph /\ k.todo = {} /\ k.legs = {} /\ k.mode = "catch up"
  BY <1>1, SwapAssumption DEF Shape, Locks, Resolving
<1> PICK a \in Graph : a = k.at
  BY <1>2
<1>3. UNCHANGED <<dbVars, live>> /\ UNCHANGED gateVars /\ GateTypes'
  BY GatesKept DEF ResolveFirst
<1>4. CASE PendingSwap(a) = {} /\ Resolved(r, 0, {a})
  <2>1. {a} \in SUBSET Graph /\ 0 \in 0..MaxSets /\ \A g \in {a} : PendingSwap(g) = {}
    BY <1>4, SwapAssumption
  <2>2. UNCHANGED <<dbVars, live, gateVars>>
    BY <1>3
  <2> QED
    BY <1>1, <1>2, <1>4, <2>1, <2>2, ResolvedStep DEF Resolving
<1>5. CASE /\ PendingSwap(a) # {} /\ UNCHANGED lock
           /\ thread' = [thread EXCEPT ![r].pc = "legs", ![r].set = log[a][Min(PendingSwap(a))]]
  <2>1. marker[a] \in Nat /\ HeadOf(a) \in Nat /\ log[a] \in Seq(0..MaxSets)
    <3>1. TypeOK
      BY DEF IInv
    <3>2. log[a] \in Seq(0..MaxSets) /\ HeadOf(a) \in Nat /\ marker[a] \in 0..HeadOf(a)
      BY <3>1, OfGraph
    <3> QED
      BY <3>2
  <2>2. PendingSwap(a) \subseteq Nat
    BY <2>1 DEF PendingSwap
  <2>3. Min(PendingSwap(a)) \in PendingSwap(a)
    BY <1>5, <2>2, MinInSet
  <2>4. PICK p \in 1..HeadOf(a) : p = Min(PendingSwap(a)) /\ log[a][p] # 0
    <3>1. Min(PendingSwap(a)) \in (marker[a] + 1)..HeadOf(a) /\ log[a][Min(PendingSwap(a))] # 0
      BY <2>3 DEF PendingSwap
    <3> QED
      BY <2>1, <3>1
  <2>5. PICK s : s = log[a][p] /\ s \in Sets /\ s \in 0..MaxSets
    <3>1. log[a][p] \in Sets
      BY <2>4, LoggedSet DEF IInv
    <3>2. log[a][p] \in 0..MaxSets
      <4>1. p \in 1..Len(log[a])
        BY <2>4 DEF HeadOf
      <4> QED
        BY <2>1, <4>1, Element
    <3> QED
      BY <3>1, <3>2
  <2> DEFINE m == [k EXCEPT !.pc = "legs", !.set = s]
  <2>6. thread' = [thread EXCEPT ![r] = m]
    BY <1>1, <1>5, <2>4, <2>5
  <2>7. m \in State
    BY <2>5 DEF State, PC
  <2>8. /\ m.pc = "legs" /\ m.set = s /\ m.want = k.want /\ m.sure = k.sure /\ m.todo = k.todo
        /\ m.legs = k.legs /\ m.mode = k.mode /\ m.at = k.at /\ m.goal = k.goal
    BY DEF State
  <2> HIDE DEF m
  <2>9. Shape(r, m) /\ Locks(r, m) /\ Knows(m) /\ Passes(m)
    BY <1>1, <1>2, <2>5, <2>8 DEF Shape, Locks, Owned, Knows, Passes, Resolving, Working
  <2> QED
    BY <1>1, <1>3, <1>5, <2>6, <2>7, <2>9, ReadsOn
<1>6. CASE Return(r)
  BY <1>1, <1>3, <1>6, ReadsAndReturns
<1> QED
  BY <1>1, <1>4, <1>5, <1>6 DEF ResolveFirst

LEMMA ResolveLegsStep ==
  ASSUME IInv, NEW r \in Repairer, ResolveLegs(r)
  PROVE  IInv'
<1>1. PICK k \in State : k = thread[r] /\ Knows(k) /\ k.pc = "legs" /\ r \in Thread
  BY Own DEF ResolveLegs, At, Thread
<1>2. k.set \in Sets /\ k.set \in 0..MaxSets /\ k.set # 0 /\ PendingLegs(k.set) \in SUBSET Graph
  BY <1>1 DEF Knows, State, Sets, PendingLegs, LegsOf
<1>3. UNCHANGED <<dbVars, live, gateVars>> /\ UNCHANGED <<dbVars, live>> /\ GateTypes'
  BY GatesKept DEF ResolveLegs
<1>4. CASE Resolved(r, k.set, PendingLegs(k.set))
  <2>1. \A S \in SUBSET Graph : S = PendingLegs(k.set) /\ Resolved(r, k.set, S) => IInv'
    BY <1>1, <1>2, <1>3, SwapAssumption, ResolvedStep DEF Resolving
  <2> QED
    BY <1>2, <1>4, <2>1
<1>5. CASE Return(r)
  BY <1>1, <1>3, <1>5, ReadsAndReturns
<1> QED
  BY <1>1, <1>4, <1>5 DEF ResolveLegs

-----------------------------------------------------------------------------
(***************************************************************************)
(* Staging.                                                                *)
(***************************************************************************)
LEMMA StageStep ==
  ASSUME IInv, NEW w \in Writer, Stage(w)
  PROVE  IInv'
<1>1. PICK k \in State : /\ k = thread[w] /\ Shape(w, k) /\ Locks(w, k) /\ Knows(k) /\ k.pc = "stage"
                         /\ w \in Thread
  BY Own DEF Stage, At, Thread
<1>2. k.todo # {} /\ k.mode \in {"single", "in place", "swap"} /\ \A g \in k.legs : ~Lags(g)
  BY <1>1 DEF Locks, Shape, Knows
<1>3. PICK g \in Graph : g = Min(k.todo)
  BY <1>2, LegAtHand
<1>4. UNCHANGED <<dbVars, live>> /\ GateTypes'
  BY GatesKept DEF Stage
<1>5. CASE Return(w)
  BY <1>1, <1>4, <1>5, ReadsAndReturns
<1>6. CASE ~OwesSwap(g) /\ UNCHANGED lock /\ thread' = [thread EXCEPT ![w].pc = "pass", ![w].goal = "stage"]
  <2> DEFINE m == [k EXCEPT !.pc = "pass", !.goal = "stage"]
  <2>1. thread' = [thread EXCEPT ![w] = m]
    BY <1>1, <1>6
  <2>2. m \in State
    BY DEF State, PC, Goal
  <2>3. /\ m.pc = "pass" /\ m.goal = "stage" /\ m.todo = k.todo /\ m.legs = k.legs /\ m.want = k.want
        /\ m.mode = k.mode /\ m.sure = k.sure
    BY DEF State
  <2> HIDE DEF m
  <2>4. Shape(w, m) /\ Locks(w, m) /\ Passes(m)
    BY <1>1, <1>2, <2>3 DEF Shape, Locks, Owned, Passes, Working, Resolving
  <2>5. Knows(m)
    BY <1>2, <1>3, <1>6, <2>3 DEF Knows, Working, InPlace, OwesSwap
  <2> QED
    BY <1>1, <1>4, <1>6, <2>1, <2>2, <2>4, <2>5, ReadsOn
<1>7. CASE ~Lags(g) /\ UNCHANGED lock /\ Move(w, "checks")
  <2> DEFINE m == [k EXCEPT !.pc = "checks"]
  <2>1. thread' = [thread EXCEPT ![w] = m]
    BY <1>1, <1>7 DEF Move
  <2>2. m \in State
    BY DEF State, PC
  <2>3. /\ m.pc = "checks" /\ m.goal = k.goal /\ m.todo = k.todo /\ m.legs = k.legs /\ m.want = k.want
        /\ m.mode = k.mode /\ m.sure = k.sure
    BY DEF State
  <2> HIDE DEF m
  <2>4. Shape(w, m) /\ Locks(w, m) /\ Passes(m)
    BY <1>1, <1>2, <2>3 DEF Shape, Locks, Owned, Passes, Working, Resolving
  <2>5. Knows(m)
    BY <1>2, <1>3, <1>7, <2>3 DEF Knows, Working
  <2> QED
    BY <1>1, <1>4, <1>7, <2>1, <2>2, <2>4, <2>5, ReadsOn
<1> QED
  BY <1>1, <1>3, <1>5, <1>6, <1>7 DEF Stage, Leg

LEMMA ChecksStep ==
  ASSUME IInv, NEW w \in Writer, Checks(w)
  PROVE  IInv'
<1>1. PICK k \in State : /\ k = thread[w] /\ Shape(w, k) /\ Locks(w, k) /\ Knows(k) /\ k.pc = "checks"
                         /\ w \in Thread
  BY Own DEF Checks, At, Thread
<1>2. k.todo # {} /\ k.mode \in {"single", "in place", "swap"} /\ \A g \in k.legs : ~Lags(g)
  BY <1>1 DEF Locks, Shape, Knows
<1>3. PICK g \in Graph : g = Min(k.todo) /\ g \in k.todo /\ ~Lags(g)
  BY <1>1, <1>2, LegAtHand DEF Knows
<1>4. UNCHANGED <<dbVars, live>> /\ GateTypes'
  BY GatesKept DEF Checks
<1>5. CASE Return(w)
  BY <1>1, <1>4, <1>5, ReadsAndReturns
<1>6. CASE ~Return(w)
  <2>1. PICK changes \in BOOLEAN : Staged(w, changes)
    BY <1>6 DEF Checks
  <2>2. PICK legs : legs = IF changes THEN k.legs \cup {g} ELSE k.legs
    OBVIOUS
  <2>3. PICK rest : rest = k.todo \ {g}
    OBVIOUS
  <2> DEFINE m == [k EXCEPT !.pc = IF rest = {} THEN "append" ELSE "stage", !.todo = rest, !.legs = legs]
  <2>4. thread' = [thread EXCEPT ![w] = m] /\ UNCHANGED lock /\ ~(rest = {} /\ legs = {})
    BY <1>1, <1>3, <1>6, <2>1, <2>2, <2>3 DEF Staged, Leg
  <2>5. legs \subseteq k.legs \cup k.todo /\ rest \subseteq k.todo /\ \A h \in legs : ~Lags(h)
    BY <1>2, <1>3, <2>2, <2>3
  <2>6. m \in State
    BY <2>5 DEF State, PC
  <2>7. /\ m.pc = IF rest = {} THEN "append" ELSE "stage"
        /\ m.goal = k.goal /\ m.todo = rest /\ m.legs = legs /\ m.want = k.want
        /\ m.mode = k.mode /\ m.sure = k.sure
    BY DEF State
  <2> HIDE DEF m
  <2>8. Shape(w, m) /\ Passes(m)
    BY <1>1, <1>2, <2>7 DEF Shape, Passes, Working, Resolving
  <2>9. Locks(w, m)
    BY <1>1, <1>2, <2>4, <2>5, <2>7 DEF Locks, Owned, Working, Resolving
  <2>10. Knows(m)
    BY <2>5, <2>7 DEF Knows, Working
  <2> QED
    BY <1>1, <1>4, <2>4, <2>6, <2>8, <2>9, <2>10, ReadsOn
<1> QED
  BY <1>5, <1>6

-----------------------------------------------------------------------------
(***************************************************************************)
(* The append.                                                             *)
(***************************************************************************)
LEMMA Longer ==
  ASSUME NEW S, NEW q \in Seq(S), NEW s \in S
  PROVE  /\ Append(q, s) \in Seq(S) /\ Len(q) \in Nat /\ Len(Append(q, s)) = Len(q) + 1
         /\ Append(q, s)[Len(q) + 1] = s /\ \A p \in 1..Len(q) : Append(q, s)[p] = q[p]
OBVIOUS

\* What an append of s to graphs that owe nothing does.
LEMMA AppendKeeps ==
  ASSUME IInv, NEW t \in Thread, NEW legs \in SUBSET Graph, legs # {}, NEW s \in 0..MaxSets, s \notin Sets,
         \A g \in legs : lock[g] = t /\ ~Lags(g),
         log' = Logged(legs, s), UNCHANGED <<marker, live, onTheirOwn>>
  PROVE  /\ DbStep(t)
         /\ \A g \in legs : s = 0 => PendingSwap(g)' = {}
         /\ s # 0 => s \in Sets' /\ PendingLegs(s)' = legs
<1> DEFINE H(g) == HeadOf(g)
<1>1. \A g \in Graph : /\ log[g] \in Seq(0..MaxSets) /\ H(g) \in Nat
                       /\ marker[g] \in 0..H(g) /\ live[g] \in 0..H(g) /\ marker[g] <= live[g]
  BY OfGraph DEF IInv, LogInv
<1>2. \A g \in Graph \ legs : log'[g] = log[g] /\ H(g)' = H(g)
  BY DEF Logged, HeadOf
<1>3. \A g \in legs : /\ log'[g] \in Seq(0..MaxSets) /\ H(g)' = H(g) + 1
                      /\ log'[g][H(g) + 1] = s /\ \A p \in 1..H(g) : log'[g][p] = log[g][p]
                      /\ marker[g] = H(g)
  <2> TAKE g \in legs
  <2>1. log'[g] = Append(log[g], s)
    BY DEF Logged
  <2> QED
    BY <1>1, <2>1, Longer DEF HeadOf, Lags
<1>a. \A g \in Graph : \A p \in 1..H(g) : p \in 1..H(g)' /\ log'[g][p] = log[g][p]
  <2> TAKE g \in Graph
  <2>1. CASE g \in legs  BY <1>1, <1>3, <2>1
  <2>2. CASE g \notin legs  BY <1>2, <2>2
  <2> QED  BY <2>1, <2>2
<1>b. \A g \in Graph : \A p \in 1..H(g)' :
        p \in 1..H(g) \/ (g \in legs /\ p = H(g) + 1 /\ log'[g][p] = s)
  <2> TAKE g \in Graph
  <2>1. CASE g \in legs  BY <1>1, <1>3, <2>1
  <2>2. CASE g \notin legs  BY <1>2, <2>2
  <2> QED  BY <2>1, <2>2
<1>4. \A g \in Graph : OnePlace(log[g]) /\ PendingSwap(g) \subseteq {H(g)}
  BY DEF IInv, LogInv
<1>5. \A g \in Graph : \A p \in 1..H(g) : log[g][p] # 0 => log[g][p] \in Sets /\ log[g][p] # s
  BY LoggedSet DEF IInv
<1>6. \A r \in Sets : r \in Sets' /\ r # 0 /\ r # s /\ LegsOf(r)' = LegsOf(r)
  <2> TAKE r \in Sets
  <2>1. r # 0 /\ r # s
    BY DEF Sets
  <2>2. \A g \in Graph : (\E p \in 1..H(g)' : log'[g][p] = r) <=> (\E p \in 1..H(g) : log[g][p] = r)
    BY <1>a, <1>b, <2>1
  <2>3. LegsOf(r)' = LegsOf(r)
    BY <2>2 DEF LegsOf
  <2>4. \E g \in Graph : \E p \in 1..H(g) : log[g][p] = r
    BY DEF Sets
  <2>5. \E g \in Graph : \E p \in 1..H(g)' : log'[g][p] = r
    BY <2>2, <2>4
  <2>6. r \in Sets'
    BY <2>1, <2>5 DEF Sets
  <2> QED
    BY <2>1, <2>3, <2>6
<1>7. \A r \in Sets : \A g \in LegsOf(r) : PositionOf(r, g)' = PositionOf(r, g)
  <2> TAKE r \in Sets
  <2> TAKE g \in LegsOf(r)
  <2>1. /\ g \in Graph /\ PositionOf(r, g) \in 1..H(g) /\ log[g][PositionOf(r, g)] = r
        /\ \A p \in 1..H(g) : log[g][p] = r => p = PositionOf(r, g)
    BY Placed DEF IInv
  <2>2. \E p \in 1..H(g)' : log'[g][p] = r
    BY <1>a, <2>1
  <2>3. PositionOf(r, g)' \in 1..H(g)' /\ log'[g][PositionOf(r, g)'] = r
    BY <2>2 DEF PositionOf
  <2>4. PositionOf(r, g)' \in 1..H(g) /\ log[g][PositionOf(r, g)'] = r
    BY <1>a, <1>b, <1>6, <2>1, <2>3
  <2> QED
    BY <2>1, <2>4
<1>8. DbTypes'
  <2>1. log' \in [Graph -> Seq(0..MaxSets)]
    BY <1>1, <1>2, <1>3 DEF Logged
  <2>2. \A g \in Graph : marker'[g] \in 0..HeadOf(g)' /\ live'[g] \in 0..HeadOf(g)'
    BY <1>1, <1>2, <1>3
  <2>3. onTheirOwn' \subseteq Sets'
    BY <1>6 DEF IInv, TypeOK
  <2>4. marker' \in [Graph -> Nat] /\ live' \in [Graph -> Nat]
    BY DEF IInv, TypeOK
  <2> QED
    BY <2>1, <2>2, <2>3, <2>4 DEF DbTypes
<1>9. \A g \in legs : \A p \in 1..H(g)' : p > marker[g] => p = H(g)' /\ log'[g][p] = s
  BY <1>1, <1>3
<1>10. LogInv'
  <2> SUFFICES ASSUME NEW g \in Graph
               PROVE  (OnePlace(log[g]) /\ PendingSwap(g) \subseteq {HeadOf(g)} /\ marker[g] <= live[g])'
    BY DEF LogInv
  <2>1. CASE g \notin legs
    <3>1. log'[g] = log[g] /\ PendingSwap(g)' = PendingSwap(g) /\ HeadOf(g)' = HeadOf(g)
      BY <1>2, <2>1 DEF PendingSwap
    <3> QED
      BY <1>1, <1>4, <3>1 DEF OnePlace
  <2>2. CASE g \in legs
    <3>1. OnePlace(log'[g])
      <4> SUFFICES ASSUME NEW p \in 1..H(g)', NEW q \in 1..H(g)', log'[g][p] = log'[g][q], log'[g][p] # 0
                   PROVE  p = q
        BY DEF OnePlace, HeadOf
      <4>1. /\ (p \in 1..H(g) /\ log'[g][p] = log[g][p]) \/ (p = H(g) + 1 /\ log'[g][p] = s)
            /\ (q \in 1..H(g) /\ log'[g][q] = log[g][q]) \/ (q = H(g) + 1 /\ log'[g][q] = s)
        BY <1>a, <1>b
      <4>2. \A i, j \in 1..H(g) : log[g][i] = log[g][j] /\ log[g][i] # 0 => i = j
        BY <1>4 DEF OnePlace, HeadOf
      <4> QED
        BY <1>5, <4>1, <4>2
    <3>2. PendingSwap(g)' \subseteq {HeadOf(g)'}
      BY <1>1, <1>3, <1>9, <2>2 DEF PendingSwap
    <3> QED
      BY <1>1, <3>1, <3>2
  <2> QED
    BY <2>1, <2>2
<1>11. Sets' \subseteq Sets \cup {s}
  <2>1. \A g \in Graph : \A p \in 1..H(g)' : log'[g][p] # 0 => log'[g][p] \in Sets \cup {s}
    BY <1>a, <1>b, <1>5
  <2> QED
    BY <2>1 DEF Sets
<1>12. s # 0 => /\ s \in Sets' /\ LegsOf(s)' = legs
                /\ \A g \in legs : PositionOf(s, g)' = H(g) + 1
  <2> SUFFICES ASSUME s # 0
               PROVE  s \in Sets' /\ LegsOf(s)' = legs /\ \A g \in legs : PositionOf(s, g)' = H(g) + 1
    OBVIOUS
  <2>1. \A g \in Graph : \A p \in 1..H(g)' : log'[g][p] = s <=> (g \in legs /\ p = H(g) + 1)
    BY <1>1, <1>2, <1>3, <1>5, SMTT(30)
  <2>2. \A g \in legs : H(g) + 1 \in 1..H(g)'
    BY <1>1, <1>3
  <2>3. LegsOf(s)' = legs
    BY <2>1, <2>2 DEF LegsOf
  <2>4. PICK g \in legs : TRUE
    OBVIOUS
  <2>5. \E p \in 1..HeadOf(g)' : log'[g][p] = s
    BY <2>1, <2>2
  <2>6. s \in Sets'
    BY <2>5 DEF Sets
  <2>7. \A h \in legs : PositionOf(s, h)' = H(h) + 1
    BY <2>1, <2>2 DEF PositionOf
  <2> QED
    BY <2>3, <2>6, <2>7
<1>13. SetsVisibleTogether'
  <2> SUFFICES ASSUME NEW r \in Sets' \ onTheirOwn', NEW g \in LegsOf(r)', NEW h \in LegsOf(r)'
               PROVE  Shown(r, g)' <=> Shown(r, h)'
    BY DEF SetsVisibleTogether
  <2>1. CASE r \in Sets
    <3>1. Shown(r, g)' = Shown(r, g) /\ Shown(r, h)' = Shown(r, h) /\ g \in LegsOf(r) /\ h \in LegsOf(r)
      BY <1>6, <1>7, <2>1 DEF Shown
    <3> QED
      BY <2>1, <3>1 DEF IInv, SetsVisibleTogether
  <2>2. CASE r = s
    <3>1. s # 0
      BY <2>2 DEF Sets
    <3>2. ~Shown(r, g)' /\ ~Shown(r, h)'
      BY <1>1, <1>12, <2>2, <3>1 DEF Shown
    <3> QED
      BY <3>2
  <2> QED
    BY <1>11, <2>1, <2>2
<1>14. DbStep(t)
  BY <1>1, <1>2, <1>6, <1>7, <1>8, <1>10, <1>13 DEF DbStep
<1>15. \A g \in legs : s = 0 => PendingSwap(g)' = {}
  BY <1>1, <1>3, <1>9 DEF PendingSwap
<1>16. s # 0 => PendingLegs(s)' = legs
  BY <1>1, <1>3, <1>12 DEF PendingLegs
<1> QED
  BY <1>12, <1>14, <1>15, <1>16

LEMMA AppendStep ==
  ASSUME IInv, NEW w \in Writer, AppendLegs(w)
  PROVE  IInv'
<1>1. PICK k \in State : /\ k = thread[w] /\ Shape(w, k) /\ Locks(w, k) /\ Knows(k) /\ k.pc = "append"
                         /\ w \in Thread
  BY Own DEF AppendLegs, At, Thread
<1>2. /\ k.legs # {} /\ k.legs \subseteq Graph /\ k.mode \in {"single", "in place", "swap"}
      /\ \A g \in k.legs : ~Lags(g)
  BY <1>1 DEF Locks, Shape, Knows, State
<1>3. \A g \in k.legs : lock[g] = w
  BY <1>1, WorksOnItsOwn DEF Resolving
<1>4. UNCHANGED <<marker, live, onTheirOwn>> /\ UNCHANGED gateVars /\ GateTypes'
  BY GatesKept DEF AppendLegs
<1>5. CASE UNCHANGED log /\ Return(w)
  <2>1. UNCHANGED <<dbVars, live>>
    BY <1>4, <1>5 DEF dbVars
  <2> QED
    BY <1>1, <1>4, <1>5, <2>1, ReadsAndReturns
<1>6. CASE ~(UNCHANGED log /\ Return(w))
  <2>1. PICK s : /\ s = NewSet(w) /\ (k.mode = "swap" => Sets # 1..MaxSets)
                 /\ log' = Logged(k.legs, s) /\ UNCHANGED lock
                 /\ thread' = [thread EXCEPT ![w].pc = IF s = 0 THEN "pass" ELSE "entries",
                      ![w].goal = "commit", ![w].set = s, ![w].todo = k.legs, ![w].tries = 1]
    BY <1>1, <1>6 DEF AppendLegs
  <2>2. s \in 0..MaxSets /\ s \notin Sets
    <3>1. 0 \notin Sets /\ 0 \in 0..MaxSets
      BY SwapAssumption DEF Sets
    <3>2. CASE k.mode = "swap"
      <4>1. Sets \subseteq 1..MaxSets
        <5> SUFFICES ASSUME NEW r \in Sets  PROVE r \in 1..MaxSets
          OBVIOUS
        <5>1. PICK g \in Graph : \E p \in 1..HeadOf(g) : log[g][p] = r
          BY DEF Sets
        <5>2. log[g] \in Seq(0..MaxSets)
          BY <5>1, OfGraph DEF IInv
        <5>a. PICK p \in 1..Len(log[g]) : log[g][p] = r
          BY <5>1 DEF HeadOf
        <5>b. log[g][p] \in 0..MaxSets
          BY <5>2, Element
        <5>3. r \in 0..MaxSets /\ r # 0
          BY <5>a, <5>b DEF Sets
        <5> QED
          BY <5>3, SwapAssumption
      <4>a. Sets # 1..MaxSets
        BY <2>1, <3>2
      <4>b. (1..MaxSets) \ Sets # {}
        BY <4>1, <4>a, Zenon
      <4>2. (1..MaxSets) \ Sets # {} /\ (1..MaxSets) \ Sets \subseteq Nat
        BY <4>b, SwapAssumption
      <4>3. Min((1..MaxSets) \ Sets) \in (1..MaxSets) \ Sets
        BY <4>2, MinInSet
      <4>4. s \in (1..MaxSets) \ Sets
        BY <1>1, <2>1, <3>2, <4>3 DEF NewSet
      <4> QED
        BY <4>4
    <3>3. CASE k.mode # "swap"
      BY <1>1, <2>1, <3>1, <3>3 DEF NewSet
    <3> QED
      BY <3>2, <3>3
  <2>3. /\ DbStep(w)
        /\ \A g \in k.legs : s = 0 => PendingSwap(g)' = {}
        /\ s # 0 => s \in Sets' /\ PendingLegs(s)' = k.legs
    <3> PICK L \in SUBSET Graph : L = k.legs
      BY <1>2
    <3>1. L # {} /\ \A g \in L : lock[g] = w /\ ~Lags(g)
      BY <1>2, <1>3
    <3>2. log' = Logged(L, s)
      BY <2>1
    <3>3. UNCHANGED <<marker, live, onTheirOwn>>
      BY <1>4
    <3>4. w \in Thread
      BY <1>1
    <3>5. /\ DbStep(w)
          /\ \A g \in L : s = 0 => PendingSwap(g)' = {}
          /\ s # 0 => s \in Sets' /\ PendingLegs(s)' = L
      BY ONLY IInv, <2>2, <3>1, <3>2, <3>3, <3>4, L \in SUBSET Graph, AppendKeeps, Zenon
    <3> QED
      BY <3>5
  <2> DEFINE m == [k EXCEPT !.pc = IF s = 0 THEN "pass" ELSE "entries",
                            !.goal = "commit", !.set = s, !.todo = k.legs, !.tries = 1]
  <2>4. thread' = [thread EXCEPT ![w] = m]
    BY <1>1, <2>1
  <2>5. m \in State
    BY <1>2, <2>2 DEF State, PC, Goal
  <2>6. /\ m.pc = IF s = 0 THEN "pass" ELSE "entries"
        /\ m.goal = "commit" /\ m.set = s /\ m.todo = k.legs /\ m.legs = k.legs
        /\ m.want = k.want /\ m.mode = k.mode /\ m.sure = k.sure
    BY DEF State
  <2> HIDE DEF m
  <2>7. Shape(w, m) /\ Passes(m)'
    BY <1>1, <1>2, <2>6 DEF Shape, Passes, Working, Resolving
  <2>8. Locks(w, m)
    BY <1>1, <1>2, <2>6 DEF Locks, Owned, Working, Resolving
  <2>9. Knows(m)'
    BY <2>3, <2>6 DEF Knows, Working, InPlace, Owes
  <2> QED
    BY <1>1, <1>4, <2>1, <2>3, <2>4, <2>5, <2>7, <2>8, <2>9, GoesOn
<1> QED
  BY <1>5, <1>6

-----------------------------------------------------------------------------
(***************************************************************************)
(* The content and the markers.                                            *)
(***************************************************************************)
LEMMA LogKept ==
  ASSUME UNCHANGED log
  PROVE  /\ Sets' = Sets
         /\ \A g : HeadOf(g)' = HeadOf(g)
         /\ \A s : LegsOf(s)' = LegsOf(s)
         /\ \A s, g : PositionOf(s, g)' = PositionOf(s, g)
BY DEF Sets, HeadOf, LegsOf, PositionOf

\* What a step that keeps the log has to see to.
LEMMA ContentStep ==
  ASSUME IInv, NEW t \in Thread, UNCHANGED log, onTheirOwn' \subseteq Sets,
         marker' \in [Graph -> Nat], live' \in [Graph -> Nat],
         \A g \in Graph : /\ marker[g] <= marker'[g] /\ marker'[g] <= live'[g] /\ live'[g] <= HeadOf(g)
                          /\ lock[g] # t => marker'[g] = marker[g] /\ live'[g] = live[g],
         \A s \in Sets \ onTheirOwn' : \A g, h \in LegsOf(s) :
           live'[g] >= PositionOf(s, g) <=> live'[h] >= PositionOf(s, h)
  PROVE  DbStep(t)
<1>1. /\ Sets' = Sets /\ \A g : HeadOf(g)' = HeadOf(g)
      /\ \A s : LegsOf(s)' = LegsOf(s)
      /\ \A s, g : PositionOf(s, g)' = PositionOf(s, g)
  BY LogKept
<1>2. \A g \in Graph : HeadOf(g) \in Nat /\ marker[g] \in Nat
  BY OfGraph DEF IInv
<1>3. DbTypes'
  <2>1. log' \in [Graph -> Seq(0..MaxSets)]
    BY DEF IInv, TypeOK
  <2>2. \A g \in Graph : marker'[g] \in 0..HeadOf(g)' /\ live'[g] \in 0..HeadOf(g)'
    BY <1>1, <1>2
  <2> QED
    BY <1>1, <2>1, <2>2 DEF DbTypes
<1>4. LogInv'
  <2> SUFFICES ASSUME NEW g \in Graph
               PROVE  OnePlace(log'[g]) /\ PendingSwap(g)' \subseteq {HeadOf(g)'} /\ marker'[g] <= live'[g]
    BY DEF LogInv
  <2>1. OnePlace(log[g]) /\ PendingSwap(g) \subseteq {HeadOf(g)}
    BY DEF IInv, LogInv
  <2>2. PendingSwap(g)' \subseteq PendingSwap(g)
    BY <1>1, <1>2 DEF PendingSwap
  <2> QED
    BY <1>1, <2>1, <2>2
<1>5. SetsVisibleTogether'
  BY <1>1 DEF SetsVisibleTogether, Shown
<1> QED
  BY <1>1, <1>3, <1>4, <1>5 DEF DbStep

\* A pass in place shows nothing of a set: what it applies are groups of no set.
LEMMA AppliedInPlace ==
  ASSUME IInv, NEW t \in Thread, NEW g \in Graph, lock[g] = t, NEW n \in Nat, Plain(g, n),
         marker[g] < n, n <= HeadOf(g), UNCHANGED dbVars,
         live' \in {live, AppliedTo(g, marker[g] + 1)}
  PROVE  DbStep(t)
<1>1. \A h \in Graph : /\ HeadOf(h) \in Nat /\ marker[h] \in Nat /\ live[h] \in Nat
                       /\ marker[h] <= live[h] /\ live[h] <= HeadOf(h)
  BY OfGraph DEF IInv, LogInv
<1>2. UNCHANGED <<log, marker, onTheirOwn>>
  BY DEF dbVars
<1>3. marker \in [Graph -> Nat] /\ live \in [Graph -> Nat]
  BY DEF IInv, TypeOK
<1>4. /\ live' \in [Graph -> Nat]
      /\ \A h \in Graph : h # g => live'[h] = live[h]
      /\ live'[g] = live[g] \/ (live[g] < marker[g] + 1 /\ live'[g] = marker[g] + 1)
  BY <1>1, <1>3 DEF AppliedTo
<1>5. \A h \in Graph : /\ marker[h] <= marker'[h] /\ marker'[h] <= live'[h] /\ live'[h] <= HeadOf(h)
                       /\ lock[h] # t => marker'[h] = marker[h] /\ live'[h] = live[h]
  BY <1>1, <1>2, <1>4
<1>6. \A s \in Sets : \A h \in LegsOf(s) : live'[h] >= PositionOf(s, h) <=> live[h] >= PositionOf(s, h)
  <2> TAKE s \in Sets
  <2> TAKE h \in LegsOf(s)
  <2>1. /\ h \in Graph /\ PositionOf(s, h) \in 1..HeadOf(h)
        /\ log[h][PositionOf(s, h)] = s /\ s # 0
    BY Placed DEF IInv
  <2>2. CASE live'[h] = live[h]
    BY <2>2
  <2>3. CASE live'[h] # live[h]
    <3>1. h = g /\ live[g] = marker[g] /\ live'[g] = marker[g] + 1
      BY <1>1, <1>4, <2>1, <2>3
    <3>2. PositionOf(s, h) # marker[g] + 1
      BY <1>1, <2>1, <3>1 DEF Plain
    <3> QED
      BY <1>1, <2>1, <3>1, <3>2
  <2> QED
    BY <2>2, <2>3
<1>7. onTheirOwn' \subseteq Sets
  BY <1>2 DEF IInv, TypeOK
<1>8. \A s \in Sets \ onTheirOwn' : \A h, i \in LegsOf(s) :
        live'[h] >= PositionOf(s, h) <=> live'[i] >= PositionOf(s, i)
  <2>1. \A s \in Sets \ onTheirOwn : \A h, i \in LegsOf(s) :
          live[h] >= PositionOf(s, h) <=> live[i] >= PositionOf(s, i)
    BY DEF IInv, SetsVisibleTogether, Shown
  <2> QED
    BY <1>2, <1>6, <2>1
<1> QED
  BY <1>2, <1>3, <1>4, <1>5, <1>7, <1>8, ContentStep

-----------------------------------------------------------------------------
(***************************************************************************)
(* Passes over the log.                                                    *)
(***************************************************************************)
\* Nothing a thread knows of pending groups changes while log and markers stay.
LEMMA SamePending ==
  ASSUME UNCHANGED dbVars
  PROVE  /\ \A g : HeadOf(g)' = HeadOf(g) /\ PendingSwap(g)' = PendingSwap(g) /\ Lags(g)' = Lags(g)
         /\ \A g, n : Plain(g, n)' = Plain(g, n)
         /\ \A k : Owes(k)' = Owes(k)
BY DEF dbVars, HeadOf, PendingSwap, Lags, Plain, Owes, Sets, PendingLegs, LegsOf, PositionOf

LEMMA NextLegStep ==
  ASSUME IInv, NEW t \in Thread, NEW k \in State, k = thread[t], k.pc \in Working, k.goal # "stage",
         NextLeg(t), UNCHANGED dbVars, DbStep(t), GateTypes'
  PROVE  IInv'
<1>1. Shape(t, k) /\ Locks(t, k) /\ Knows(k)
  BY DEF IInv, ThreadInv
<1>2. PICK rest : rest = k.todo \ {Leg(t)}
  OBVIOUS
<1>3. /\ \A g \in Graph : PendingSwap(g)' = PendingSwap(g)
      /\ \A x : Owes(x)' = Owes(x)
  BY SamePending
<1>4. /\ InPlace(k) => \A g \in rest : PendingSwap(g) = {}
      /\ ~InPlace(k) => Owes(k) /\ rest \subseteq k.legs /\ k.legs # {}
      /\ k.todo \subseteq Graph /\ k.legs \subseteq Graph /\ rest \subseteq k.want /\ k.legs \subseteq k.want
  BY <1>1, <1>2 DEF Knows, Locks, State
<1>5. CASE Return(t)
  BY <1>5, Returns
<1>6. CASE ~Return(t) /\ rest # {}
  <2> DEFINE m == [k EXCEPT !.pc = "pass", !.todo = rest]
  <2>1. thread' = [thread EXCEPT ![t] = m] /\ UNCHANGED lock
    BY <1>2, <1>6 DEF NextLeg
  <2>2. m \in State
    BY <1>2, <1>4 DEF State, PC
  <2>3. /\ m.pc = "pass" /\ m.goal = k.goal /\ m.set = k.set /\ m.todo = rest /\ m.legs = k.legs
        /\ m.want = k.want /\ m.mode = k.mode /\ m.at = k.at /\ m.sure = k.sure
    BY DEF State
  <2> HIDE DEF m
  <2>4. Shape(t, m)
    BY <1>1, <2>3 DEF Shape, Resolving, Working
  <2>5. Locks(t, m)
    BY <1>1, <1>4, <1>6, <2>3 DEF Locks, Owned, Resolving, Working
  <2>6. Owes(k)' => Owes(m)'
    BY <2>3 DEF Owes
  <2>7. Knows(m)' /\ Passes(m)'
    BY <1>2, <1>3, <1>4, <2>3, <2>6 DEF Knows, Passes, Working, InPlace
  <2> QED
    BY <2>1, <2>2, <2>4, <2>5, <2>7, GoesOn
<1>7. CASE ~Return(t) /\ rest = {}
  <2> DEFINE m == [k EXCEPT !.pc = "entries", !.todo = k.legs, !.tries = 1]
  <2>1. thread' = [thread EXCEPT ![t] = m] /\ UNCHANGED lock /\ ~InPlace(k)
    BY <1>2, <1>7 DEF NextLeg, Repairs, InPlace
  <2>2. m \in State
    BY <1>4 DEF State, PC
  <2>3. /\ m.pc = "entries" /\ m.goal = k.goal /\ m.set = k.set /\ m.todo = k.legs /\ m.legs = k.legs
        /\ m.want = k.want /\ m.mode = k.mode /\ m.at = k.at /\ m.sure = k.sure
    BY DEF State
  <2> HIDE DEF m
  <2>4. Shape(t, m)
    BY <1>1, <2>3 DEF Shape, Resolving, Working
  <2>5. Locks(t, m)
    BY <1>1, <1>4, <2>1, <2>3 DEF Locks, Owned, Resolving, Working
  <2>6. Owes(m)'
    BY <1>3, <1>4, <2>1, <2>3 DEF Owes
  <2>7. Knows(m)' /\ Passes(m)'
    BY <2>3, <2>6 DEF Knows, Passes, Working
  <2> QED
    BY <2>1, <2>2, <2>4, <2>5, <2>7, GoesOn
<1> QED
  BY <1>5, <1>6, <1>7

LEMMA GiveUpStep ==
  ASSUME IInv, NEW t \in Thread, thread[t].pc \in Working, GiveUp(t), UNCHANGED dbVars, DbStep(t), GateTypes'
  PROVE  IInv'
<1>1. PICK k \in State : k = thread[t] /\ k.pc \in Working
  BY Own
<1>2. CASE Return(t)
  BY <1>2, Returns
<1>3. CASE ~Return(t)
  <2>1. k.goal # "stage" /\ NextLeg(t)
    BY <1>1, <1>3 DEF GiveUp
  <2> QED
    BY <1>1, <2>1, NextLegStep
<1> QED
  BY <1>2, <1>3

\* Where a pass ends: before the group of the set under repair, else at the head.
LEMMA WhereAPassEnds ==
  ASSUME IInv, NEW t \in Thread, NEW k \in State, k = thread[t], k.pc = "pass",
         NEW g \in Graph, g = Min(k.todo), g \in k.todo
  PROVE  /\ PassEnd(t, g) \in Nat /\ PassEnd(t, g) <= HeadOf(g) /\ Plain(g, PassEnd(t, g))
         /\ InPlace(k) => PassEnd(t, g) = HeadOf(g)
<1>1. Knows(k)
  BY DEF IInv, ThreadInv
<1>2. HeadOf(g) \in Nat /\ marker[g] \in Nat /\ PendingSwap(g) \subseteq {HeadOf(g)}
  BY OfGraph DEF IInv, LogInv
<1>3. \A p \in 1..HeadOf(g) : marker[g] < p /\ log[g][p] # 0 => p \in PendingSwap(g)
  BY <1>2 DEF PendingSwap
<1>4. CASE InPlace(k)
  <2>1. PassEnd(t, g) = HeadOf(g)
    BY <1>4 DEF PassEnd, Repairs, InPlace
  <2>2. PendingSwap(g) = {}
    BY <1>1, <1>4 DEF Knows, Working
  <2> QED
    BY <1>2, <1>3, <2>1, <2>2 DEF Plain
<1>5. CASE ~InPlace(k)
  <2>1. PassEnd(t, g) = PositionOf(k.set, g) - 1
    BY <1>5 DEF PassEnd, Repairs, InPlace
  <2>2. k.set \in Sets /\ g \in PendingLegs(k.set) /\ g \in LegsOf(k.set)
    BY <1>1, <1>5 DEF Knows, Working, InPlace, Owes, PendingLegs
  <2>3. PositionOf(k.set, g) = HeadOf(g) /\ PositionOf(k.set, g) \in 1..HeadOf(g)
    BY <2>2, PendingOrShown, Placed DEF IInv
  <2> QED
    BY <1>2, <1>3, <1>5, <2>1, <2>3 DEF Plain
<1> QED
  BY <1>4, <1>5

LEMMA PassStep ==
  ASSUME IInv, NEW t \in Thread, Pass(t)
  PROVE  IInv'
<1>1. PICK k \in State : k = thread[t] /\ Shape(t, k) /\ Locks(t, k) /\ Knows(k) /\ k.pc = "pass"
  BY Own DEF Pass, At
<1>2. k.todo # {}
  BY <1>1 DEF Locks, Working
<1>3. PICK g \in Graph : g = Min(k.todo) /\ g \in k.todo
  BY <1>2, LegAtHand
<1>4. UNCHANGED <<dbVars, live>> /\ UNCHANGED dbVars /\ GateTypes'
  BY GatesKept DEF Pass
<1>5. CASE GiveUp(t)
  <2>1. DbStep(t)
    BY <1>4, Reads
  <2> QED
    BY <1>1, <1>4, <1>5, <2>1, GiveUpStep DEF Working
<1>6. CASE UNCHANGED lock /\ thread' = [thread EXCEPT ![t].pc = "apply", ![t].upto[Leg(t)] = PassEnd(t, Leg(t))]
  <2>1. PICK n \in Nat : n = PassEnd(t, g) /\ n <= HeadOf(g) /\ Plain(g, n) /\ (InPlace(k) => n = HeadOf(g))
    BY <1>1, <1>3, WhereAPassEnds
  <2>2. Leg(t) = g
    BY <1>1, <1>3 DEF Leg
  <2> DEFINE m == [k EXCEPT !.pc = "apply", !.upto[g] = n]
  <2>3. thread' = [thread EXCEPT ![t] = m]
    BY <1>1, <1>6, <2>1, <2>2
  <2>4. m \in State
    BY DEF State, PC
  <2>5. /\ m.pc = "apply" /\ m.goal = k.goal /\ m.set = k.set /\ m.todo = k.todo /\ m.legs = k.legs
        /\ m.want = k.want /\ m.mode = k.mode /\ m.at = k.at /\ m.sure = k.sure /\ m.upto[g] = n
    BY DEF State
  <2> HIDE DEF m
  <2>6. Shape(t, m)
    BY <1>1, <2>5 DEF Shape, Resolving, Working
  <2>7. Locks(t, m)
    BY <1>1, <2>5 DEF Locks, Owned, Resolving, Working
  <2>8. Knows(m)
    BY <1>1, <2>5 DEF Knows, InPlace, Owes, Working
  <2>9. Passes(m)
    BY <1>3, <2>1, <2>5 DEF Passes, InPlace
  <2> QED
    BY <1>4, <1>6, <2>3, <2>4, <2>6, <2>7, <2>8, <2>9, ReadsOn
<1> QED
  BY <1>5, <1>6 DEF Pass


LEMMA ApplyKeeps ==
  ASSUME IInv, NEW t \in Thread, Apply(t)
  PROVE  IInv'
<1>1. PICK k \in State : /\ k = thread[t] /\ Shape(t, k) /\ Locks(t, k) /\ Knows(k) /\ Passes(k)
                         /\ k.pc = "apply"
  BY Own DEF Apply, At
<1>2. k.todo # {}
  BY <1>1 DEF Locks, Working
<1>3. PICK g \in Graph : g = Min(k.todo) /\ g \in k.todo /\ g = Leg(t)
  BY <1>1, <1>2, LegAtHand DEF Leg
<1>4. PICK n \in Nat : n = k.upto[g]
  BY DEF State
<1>5. UNCHANGED dbVars /\ UNCHANGED <<unit, gated>>
  BY DEF Apply
<1>6. n <= HeadOf(g) /\ Plain(g, n) /\ (InPlace(k) => n = HeadOf(g))
  BY <1>1, <1>3, <1>4 DEF Passes
<1>7. HeadOf(g) \in Nat /\ marker[g] \in 0..HeadOf(g) /\ live[g] \in Nat /\ live \in [Graph -> Nat]
  BY OfGraph DEF IInv, TypeOK
<1>8. GateTypes' <=> blocked' \subseteq Graph
  BY <1>5 DEF IInv, TypeOK, GateTypes
<1>9. blocked \subseteq Graph
  BY DEF IInv, TypeOK
<1>10. CASE NothingLeft(t)
  <2>1. UNCHANGED <<dbVars, live>> /\ GateTypes' /\ marker[g] >= n
    BY <1>1, <1>3, <1>4, <1>5, <1>8, <1>9, <1>10 DEF NothingLeft
  <2>2. CASE k.goal = "stage"
    <3> DEFINE m == [k EXCEPT !.pc = "checks"]
    <3>1. thread' = [thread EXCEPT ![t] = m] /\ UNCHANGED lock
      BY <1>1, <1>10, <2>2 DEF NothingLeft, Move
    <3>2. m \in State
      BY DEF State, PC
    <3>3. /\ m.pc = "checks" /\ m.goal = k.goal /\ m.todo = k.todo /\ m.legs = k.legs
          /\ m.want = k.want /\ m.mode = k.mode /\ m.sure = k.sure
      BY DEF State
    <3> HIDE DEF m
    <3>4. t \in Writer
      BY <1>1, <2>2 DEF Shape
    <3>5. Shape(t, m) /\ Passes(m)
      BY <1>1, <3>3, <3>4, SwapAssumption DEF Shape, Passes, Resolving, Working
    <3>6. Locks(t, m)
      BY <1>1, <3>3 DEF Locks, Owned, Resolving, Working
    <3>7. ~Lags(g)
      BY <1>6, <1>7, <2>1, <2>2 DEF InPlace, Lags
    <3>8. Knows(m)
      BY <1>1, <1>3, <2>2, <3>3, <3>7 DEF Knows, Working
    <3> QED
      BY <2>1, <3>1, <3>2, <3>5, <3>6, <3>8, ReadsOn
  <2>3. CASE k.goal # "stage"
    <3>1. DbStep(t)
      BY <2>1, Reads
    <3>2. NextLeg(t)
      BY <1>1, <1>10, <2>3 DEF NothingLeft
    <3>3. k.pc \in Working
      BY <1>1 DEF Working
    <3> QED
      BY <1>1, <1>5, <2>1, <2>3, <3>1, <3>2, <3>3, NextLegStep
  <2> QED
    BY <2>2, <2>3
<1>11. CASE ApplyEntry(t)
  <2>1. marker[g] < n /\ live' \in {live, AppliedTo(g, marker[g] + 1)}
    BY <1>1, <1>3, <1>4, <1>11 DEF ApplyEntry
  <2>2. lock[g] = t
    BY <1>1, <1>3, WorksOnItsOwn DEF Resolving
  <2>3. DbStep(t)
    BY <1>5, <1>6, <2>1, <2>2, AppliedInPlace
  <2>4. CASE UNCHANGED <<lock, blocked>> /\ Move(t, "mark") /\ live' = AppliedTo(g, marker[g] + 1)
    <3> DEFINE m == [k EXCEPT !.pc = "mark"]
    <3>1. thread' = [thread EXCEPT ![t] = m] /\ UNCHANGED lock /\ GateTypes'
      BY <1>1, <1>8, <1>9, <2>4 DEF Move
    <3>2. m \in State
      BY DEF State, PC
    <3>3. /\ m.pc = "mark" /\ m.goal = k.goal /\ m.set = k.set /\ m.todo = k.todo /\ m.legs = k.legs
          /\ m.want = k.want /\ m.mode = k.mode /\ m.at = k.at /\ m.sure = k.sure /\ m.upto = k.upto
      BY DEF State
    <3> HIDE DEF m
    <3>4. Shape(t, m)
      BY <1>1, <3>3 DEF Shape, Resolving, Working
    <3>5. Locks(t, m)
      BY <1>1, <3>3 DEF Locks, Owned, Resolving, Working
    <3>6. /\ \A h : HeadOf(h)' = HeadOf(h) /\ PendingSwap(h)' = PendingSwap(h) /\ Lags(h)' = Lags(h)
          /\ \A h, i : Plain(h, i)' = Plain(h, i)
          /\ \A x : Owes(x)' = Owes(x)
      BY <1>5, SamePending
    <3>7. Owes(k) => Owes(m)'
      BY <3>3, <3>6 DEF Owes
    <3>8. Knows(m)'
      BY <1>1, <3>3, <3>6, <3>7 DEF Knows, InPlace, Working
    <3>9. marker' = marker /\ live'[g] >= marker[g] + 1 /\ live'[g] \in Nat
      BY <1>5, <1>7, <2>4 DEF AppliedTo, dbVars
    <3>a. HeadOf(g)' = HeadOf(g) /\ Plain(g, n)' /\ Min(m.todo) = g /\ m.upto[g] = n
      BY <1>3, <1>4, <1>6, <3>3, <3>6
    <3>b. InPlace(m) => n = HeadOf(g)
      BY <1>6, <3>3 DEF InPlace
    <3>c. marker'[g] < n /\ marker'[g] < live'[g]
      BY <1>7, <2>1, <3>9
    <3>10. Passes(m)'
      BY <1>6, <3>a, <3>b, <3>c DEF Passes, InPlace
    <3> QED
      BY <2>3, <3>1, <3>2, <3>4, <3>5, <3>8, <3>10, GoesOn
  <2>5. CASE GiveUp(t) /\ UNCHANGED blocked
    <3>1. thread[t].pc \in Working /\ GateTypes'
      BY <1>1, <1>8, <1>9, <2>5 DEF Working
    <3> QED
      BY <1>5, <2>3, <2>5, <3>1, GiveUpStep
  <2>6. CASE Return(t) /\ blocked' = blocked \cup {g}
    BY <1>8, <1>9, <2>3, <2>6, Returns
  <2> QED
    BY <1>3, <1>11, <2>4, <2>5, <2>6 DEF ApplyEntry
<1> QED
  BY <1>10, <1>11 DEF Apply

\* What advancing the marker of one graph, up to what it shows, does.
LEMMA MarkKeeps ==
  ASSUME IInv, NEW t \in Thread, NEW g \in Graph, lock[g] = t, NEW n \in Nat,
         marker[g] <= n, n <= live[g], marker' = [marker EXCEPT ![g] = n], UNCHANGED <<log, live, onTheirOwn>>
  PROVE  DbStep(t)
<1>1. \A h \in Graph : /\ HeadOf(h) \in Nat /\ marker[h] \in Nat /\ live[h] \in Nat
                       /\ marker[h] <= live[h] /\ live[h] <= HeadOf(h)
  BY OfGraph DEF IInv, LogInv
<1>2. marker \in [Graph -> Nat] /\ live \in [Graph -> Nat] /\ onTheirOwn \subseteq Sets
  BY DEF IInv, TypeOK
<1>3. marker' \in [Graph -> Nat] /\ marker'[g] = n /\ \A h \in Graph : h # g => marker'[h] = marker[h]
  BY <1>2
<1>4. \A h \in Graph : /\ marker[h] <= marker'[h] /\ marker'[h] <= live'[h] /\ live'[h] <= HeadOf(h)
                       /\ lock[h] # t => marker'[h] = marker[h] /\ live'[h] = live[h]
  BY <1>1, <1>3
<1>5. \A s \in Sets \ onTheirOwn' : \A h, i \in LegsOf(s) :
        live'[h] >= PositionOf(s, h) <=> live'[i] >= PositionOf(s, i)
  BY DEF IInv, SetsVisibleTogether, Shown
<1> QED
  BY <1>2, <1>3, <1>4, <1>5, ContentStep

LEMMA MarkStep ==
  ASSUME IInv, NEW t \in Thread, Mark(t)
  PROVE  IInv'
<1>1. PICK k \in State : /\ k = thread[t] /\ Shape(t, k) /\ Locks(t, k) /\ Knows(k) /\ Passes(k)
                         /\ k.pc = "mark"
  BY Own DEF Mark, At
<1>2. k.todo # {}
  BY <1>1 DEF Locks, Working
<1>3. PICK g \in Graph : g = Min(k.todo) /\ g \in k.todo /\ g = Leg(t)
  BY <1>1, <1>2, LegAtHand DEF Leg
<1>4. PICK n \in Nat : n = k.upto[g]
  BY DEF State
<1>5. UNCHANGED <<log, live, onTheirOwn>> /\ GateTypes'
  BY GatesKept DEF Mark
<1>6. /\ n <= HeadOf(g) /\ Plain(g, n) /\ (InPlace(k) => n = HeadOf(g))
      /\ marker[g] < n /\ marker[g] < live[g]
  BY <1>1, <1>3, <1>4 DEF Passes
<1>7. \A h \in Graph : HeadOf(h) \in Nat /\ marker[h] \in Nat /\ live[h] \in Nat
  BY OfGraph DEF IInv
<1>8. marker \in [Graph -> Nat]
  BY DEF IInv, TypeOK
<1>9. CASE UNCHANGED marker
  <2>1. UNCHANGED <<dbVars, live>> /\ UNCHANGED dbVars
    BY <1>5, <1>9 DEF dbVars
  <2>2. DbStep(t)
    BY <2>1, Reads
  <2>3. CASE GiveUp(t)
    BY <1>1, <1>5, <2>1, <2>2, <2>3, GiveUpStep DEF Working
  <2>4. CASE Return(t)
    BY <1>5, <2>2, <2>4, Returns
  <2>5. marker'[g] # marker[g] + 1
    BY <1>7, <1>9
  <2>6. marker' # [marker EXCEPT ![g] = @ + 1]
    BY <1>8, <2>5
  <2> QED
    BY <1>3, <2>3, <2>4, <2>6 DEF Mark
<1>10. CASE marker' = [marker EXCEPT ![Leg(t)] = @ + 1] /\ Move(t, "apply") /\ UNCHANGED lock
  <2>1. lock[g] = t
    BY <1>1, <1>3, WorksOnItsOwn DEF Resolving
  <2>2. marker' = [marker EXCEPT ![g] = marker[g] + 1]
    BY <1>3, <1>10
  <2>3. DbStep(t)
    <3>1. PICK i \in Nat : i = marker[g] + 1
      BY <1>7
    <3>2. marker[g] <= i /\ i <= live[g]
      BY <1>6, <1>7, <3>1
    <3>3. marker' = [marker EXCEPT ![g] = i]
      BY <2>2, <3>1
    <3> QED
      BY <1>5, <2>1, <3>2, <3>3, MarkKeeps
  <2>4. marker'[g] = marker[g] + 1 /\ \A h \in Graph : h # g => marker'[h] = marker[h]
    BY <1>8, <2>2
  <2>5. /\ Sets' = Sets /\ \A h : HeadOf(h)' = HeadOf(h)
        /\ \A s : LegsOf(s)' = LegsOf(s)
        /\ \A s, h : PositionOf(s, h)' = PositionOf(s, h)
    BY <1>5, LogKept
  <2>6. \A h \in Graph : PendingSwap(h)' \subseteq PendingSwap(h) /\ (h # g => Lags(h)' = Lags(h))
    BY <1>5, <1>7, <2>4, <2>5 DEF PendingSwap, Lags
  <2>7. Plain(g, n)'
    BY <1>5, <1>6, <1>7, <2>4, <2>5 DEF Plain
  <2>8. \A h \in Graph : ~Lags(h) => h # g
    BY <1>6, <1>7 DEF Lags
  <2>9. ~InPlace(k) => Owes(k)'
    <3> SUFFICES ASSUME ~InPlace(k)  PROVE Owes(k)'
      OBVIOUS
    <3>1. k.set \in Sets /\ k.legs = PendingLegs(k.set) /\ g \in k.legs
      BY <1>1, <1>3 DEF Knows, Owes, Working
    <3>2. \A h \in LegsOf(k.set) : /\ h \in Graph /\ PositionOf(k.set, h) \in 1..HeadOf(h)
                                   /\ log[h][PositionOf(k.set, h)] = k.set /\ k.set # 0
      BY <3>1, Placed DEF IInv
    <3>3. g \in LegsOf(k.set) /\ marker[g] < PositionOf(k.set, g)
      BY <3>1 DEF PendingLegs
    <3>4. marker[g] + 1 < PositionOf(k.set, g)
      BY <1>6, <1>7, <3>2, <3>3 DEF Plain
    <3>5. PendingLegs(k.set)' = PendingLegs(k.set)
      BY <2>4, <2>5, <3>2, <3>3, <3>4 DEF PendingLegs
    <3> QED
      BY <2>5, <3>1, <3>5 DEF Owes
  <2> DEFINE m == [k EXCEPT !.pc = "apply"]
  <2>10. thread' = [thread EXCEPT ![t] = m] /\ UNCHANGED lock
    BY <1>1, <1>10 DEF Move
  <2>11. m \in State
    BY DEF State, PC
  <2>12. /\ m.pc = "apply" /\ m.goal = k.goal /\ m.set = k.set /\ m.todo = k.todo /\ m.legs = k.legs
         /\ m.want = k.want /\ m.mode = k.mode /\ m.at = k.at /\ m.sure = k.sure /\ m.upto = k.upto
    BY DEF State
  <2> HIDE DEF m
  <2>13. Shape(t, m)
    BY <1>1, <2>12 DEF Shape, Resolving, Working
  <2>14. Locks(t, m)
    BY <1>1, <2>12 DEF Locks, Owned, Resolving, Working
  <2>15. k.todo \subseteq Graph /\ k.legs \subseteq Graph
    BY DEF State
  <2>16. k.goal = "stage" => PendingSwap(Min(k.todo))' = {} /\ \A h \in k.legs : ~Lags(h)'
    BY <1>1, <1>3, <2>6, <2>8, <2>15 DEF Knows, Working
  <2>17. k.goal # "stage" /\ InPlace(k) => \A h \in k.todo : PendingSwap(h)' = {}
    BY <1>1, <2>6, <2>15 DEF Knows, Working
  <2>18. ~InPlace(k) => Owes(m)' /\ k.todo \subseteq k.legs
    BY <1>1, <2>9, <2>12 DEF Knows, Owes, Working
  <2>19. Knows(m)'
    BY <2>12, <2>16, <2>17, <2>18 DEF Knows, InPlace, Working
  <2>20. Passes(m)'
    BY <1>3, <1>4, <1>6, <2>5, <2>7, <2>12 DEF Passes, InPlace
  <2> QED
    BY <1>5, <2>3, <2>10, <2>11, <2>13, <2>14, <2>19, <2>20, GoesOn
<1> QED
  BY <1>9, <1>10 DEF Mark


-----------------------------------------------------------------------------
(***************************************************************************)
(* The swap.                                                               *)
(***************************************************************************)
LEMMA MaxOfTwo ==
  ASSUME NEW a \in Nat, NEW b \in Nat
  PROVE  Max({a, b}) = IF a >= b THEN a ELSE b
<1>1. \E x \in {a, b} : \A y \in {a, b} : x >= y
  OBVIOUS
<1>2. Max({a, b}) \in {a, b} /\ \A y \in {a, b} : Max({a, b}) >= y
  BY <1>1 DEF Max
<1> QED
  BY <1>2

LEMMA Blocks ==
  ASSUME IInv, NEW graphs \in SUBSET Graph, UNCHANGED gated, BlockUnit(graphs) \/ UnblockUnit(graphs)
  PROVE  GateTypes'
BY DEF IInv, TypeOK, GateTypes, BlockUnit, UnblockUnit

\* What a thread that swaps a set knows.
LEMMA Swapping ==
  ASSUME IInv, NEW t \in Thread, thread[t].pc \in {"entries", "copies", "flip"}
  PROVE  \E k \in State :
           /\ k = thread[t] /\ Shape(t, k) /\ Locks(t, k) /\ Knows(k)
           /\ k.set \in Sets /\ k.legs = PendingLegs(k.set) /\ k.legs # {} /\ k.legs \in SUBSET Graph
           /\ \A g \in k.legs : lock[g] = t
<1>1. PICK k \in State : k = thread[t] /\ Shape(t, k) /\ Locks(t, k) /\ Knows(k)
  BY Own
<1>2. k.set \in Sets /\ k.legs = PendingLegs(k.set) /\ k.legs # {} /\ k.legs \in SUBSET Graph
  BY <1>1 DEF Knows, Owes, Locks, State
<1>3. \A g \in k.legs : lock[g] = t
  BY <1>1, WorksOnItsOwn DEF Resolving
<1> QED
  BY <1>1, <1>2, <1>3

\* A try that ends the call without a rename.
LEMMA NoSwap ==
  ASSUME IInv, NEW t \in Thread, Return(t), UNCHANGED <<dbVars, live, gated>>,
         NEW legs \in SUBSET Graph, UNCHANGED <<blocked, unit>> \/ BlockUnit(legs)
  PROVE  IInv'
<1>1. UNCHANGED <<dbVars, live>> /\ UNCHANGED gated
  OBVIOUS
<1>2. CASE UNCHANGED <<blocked, unit>>
  <2>1. UNCHANGED gateVars
    BY <1>1, <1>2 DEF gateVars
  <2> QED
    BY <1>1, <2>1, GatesKept, ReadsAndReturns
<1>3. CASE BlockUnit(legs)
  BY <1>1, <1>3, Blocks, ReadsAndReturns
<1> QED
  BY <1>2, <1>3

\* m differs from k in the step, the entries or the tries at most.
Keeps(k, m) ==
  /\ m.goal = k.goal /\ m.set = k.set /\ m.todo = k.todo /\ m.legs = k.legs
  /\ m.want = k.want /\ m.mode = k.mode /\ m.at = k.at /\ m.sure = k.sure

\* A step from one try to the next, or from one part of a try to the next.
LEMMA TriesOn ==
  ASSUME IInv, NEW t \in Thread, NEW k \in State, k = thread[t], k.pc \in {"entries", "copies", "flip"},
         NEW m \in State, Keeps(k, m), m.pc \in {"copies", "flip"}, \A g \in k.legs : m.upto[g] = HeadOf(g),
         thread' = [thread EXCEPT ![t] = m],
         UNCHANGED <<dbVars, live, gated>>, UNCHANGED <<lock, blocked, unit>>
  PROVE  IInv'
<1>1. Shape(t, k) /\ Locks(t, k) /\ Knows(k)
  BY DEF IInv, ThreadInv
<1>2. UNCHANGED <<dbVars, live, lock>> /\ UNCHANGED gateVars
  BY DEF gateVars
<1>3. Shape(t, m)
  BY <1>1 DEF Keeps, Shape, Resolving, Working
<1>4. Locks(t, m)
  BY <1>1 DEF Keeps, Locks, Owned, Resolving, Working
<1>5. Knows(m) /\ Passes(m)
  BY <1>1 DEF Keeps, Knows, Passes, Owes, Working
<1> QED
  BY <1>2, <1>3, <1>4, <1>5, GatesKept, ReadsOn

LEMMA ReadEntriesStep ==
  ASSUME IInv, NEW t \in Thread, ReadEntries(t)
  PROVE  IInv'
<1>1. PICK k \in State : k = thread[t] /\ k.pc = "entries" /\ k.legs \in SUBSET Graph
  BY Swapping DEF ReadEntries, At
<1>2. UNCHANGED <<dbVars, live, gated>>
  BY DEF ReadEntries
<1>3. CASE SwapPending(t)
  <2>1. Return(t) /\ UNCHANGED <<blocked, unit>>
    BY <1>3 DEF SwapPending
  <2> QED
    BY <1>1, <1>2, <2>1, NoSwap
<1>4. CASE /\ UNCHANGED <<lock, blocked, unit>>
           /\ thread' = [thread EXCEPT ![t].pc = "copies",
                ![t].upto = [g \in Graph |-> IF g \in thread[t].legs THEN HeadOf(g) ELSE 0]]
  <2>1. PICK upto : upto = [g \in Graph |-> IF g \in k.legs THEN HeadOf(g) ELSE 0]
    OBVIOUS
  <2>2. \A g \in Graph : HeadOf(g) \in Nat
    BY OfGraph DEF IInv
  <2>3. upto \in [Graph -> Nat] /\ \A g \in k.legs : upto[g] = HeadOf(g)
    BY <1>1, <2>1, <2>2
  <2> DEFINE m == [k EXCEPT !.pc = "copies", !.upto = upto]
  <2>4. thread' = [thread EXCEPT ![t] = m]
    BY <1>1, <1>4, <2>1
  <2>5. m \in State
    BY <2>3 DEF State, PC
  <2>6. Keeps(k, m) /\ m.pc = "copies" /\ m.upto = upto
    BY DEF State, Keeps
  <2> HIDE DEF m
  <2> QED
    BY <1>1, <1>2, <1>4, <2>3, <2>4, <2>5, <2>6, TriesOn
<1> QED
  BY <1>3, <1>4 DEF ReadEntries

LEMMA StageCopiesStep ==
  ASSUME IInv, NEW t \in Thread, StageCopies(t)
  PROVE  IInv'
<1>1. PICK k \in State : k = thread[t] /\ k.pc = "copies" /\ k.legs \in SUBSET Graph /\ Knows(k)
  BY Swapping DEF StageCopies, At
<1>2. UNCHANGED <<dbVars, live, gated>>
  BY DEF StageCopies
<1>3. CASE SwapPending(t) \/ SwapRefused(t)
  <2>1. Return(t) /\ (UNCHANGED <<blocked, unit>> \/ BlockUnit(k.legs))
    BY <1>1, <1>3 DEF SwapPending, SwapRefused
  <2> QED
    BY <1>1, <1>2, <2>1, NoSwap
<1>4. CASE UNCHANGED <<lock, blocked, unit>> /\ thread' = [thread EXCEPT ![t].pc = "flip", ![t].upto = CopyOf(t)]
  <2>1. PICK upto : upto = CopyOf(t)
    OBVIOUS
  <2>2. \A g \in Graph : HeadOf(g) \in Nat /\ live[g] \in 0..HeadOf(g)
    BY OfGraph DEF IInv
  <2>3. \A g \in k.legs : k.upto[g] = HeadOf(g)
    BY <1>1 DEF Knows
  <2>4. \A g \in k.legs : Max({live[g], k.upto[g]}) = HeadOf(g)
    <3> TAKE g \in k.legs
    <3>1. k.upto[g] = HeadOf(g) /\ HeadOf(g) \in Nat /\ live[g] \in Nat /\ live[g] <= HeadOf(g)
      BY <1>1, <2>2, <2>3
    <3> QED
      BY <3>1, MaxOfTwo
  <2>5. upto = [g \in Graph |-> IF g \in k.legs THEN Max({live[g], k.upto[g]}) ELSE 0]
    BY <1>1, <2>1 DEF CopyOf
  <2>6. upto \in [Graph -> Nat] /\ \A g \in k.legs : upto[g] = HeadOf(g)
    BY <1>1, <2>2, <2>4, <2>5
  <2> DEFINE m == [k EXCEPT !.pc = "flip", !.upto = upto]
  <2>7. thread' = [thread EXCEPT ![t] = m]
    BY <1>1, <1>4, <2>1
  <2>8. m \in State
    BY <2>6 DEF State, PC
  <2>9. Keeps(k, m) /\ m.pc = "flip" /\ m.upto = upto
    BY DEF State, Keeps
  <2> HIDE DEF m
  <2> QED
    BY <1>1, <1>2, <1>4, <2>6, <2>7, <2>8, <2>9, TriesOn
<1> QED
  BY <1>3, <1>4 DEF StageCopies


\* One rename shows the whole set: its other legs are marked, and every other set a leg takes part in is shown.
LEMMA FlipShows ==
  ASSUME IInv, NEW t \in Thread, NEW k \in State, k = thread[t], k.pc = "flip", live' = Flipped(t),
         UNCHANGED dbVars
  PROVE  /\ DbStep(t)
         /\ \A g \in k.legs : g \in LegsOf(k.set) /\ Shown(k.set, g)'
<1>1. /\ Knows(k) /\ k.set \in Sets /\ k.legs = PendingLegs(k.set) /\ k.legs \in SUBSET Graph
      /\ \A g \in k.legs : lock[g] = t
  BY Swapping
<1>2. UNCHANGED <<log, marker, onTheirOwn>>
  BY DEF dbVars
<1>3. marker \in [Graph -> Nat] /\ live \in [Graph -> Nat] /\ onTheirOwn \subseteq Sets
  BY DEF IInv, TypeOK
<1>4. \A g \in Graph : /\ HeadOf(g) \in Nat /\ marker[g] \in Nat /\ live[g] \in Nat
                       /\ marker[g] <= live[g] /\ live[g] <= HeadOf(g)
  BY OfGraph DEF IInv, LogInv
<1>5. live' = [g \in Graph |-> IF g \in k.legs THEN k.upto[g] ELSE live[g]]
  BY <1>1 DEF Flipped
<1>6. \A g \in k.legs : live'[g] = HeadOf(g)
  BY <1>1, <1>5 DEF Knows
<1>7. \A g \in Graph \ k.legs : live'[g] = live[g]
  BY <1>5
<1>8. live' \in [Graph -> Nat]
  BY <1>1, <1>4, <1>5, <1>6, <1>7
<1>9. \A g \in Graph : /\ marker[g] <= marker'[g] /\ marker'[g] <= live'[g] /\ live'[g] <= HeadOf(g)
                       /\ live[g] <= live'[g]
                       /\ lock[g] # t => marker'[g] = marker[g] /\ live'[g] = live[g]
  <2> TAKE g \in Graph
  <2>1. CASE g \in k.legs  BY <1>1, <1>2, <1>4, <1>6, <2>1
  <2>2. CASE g \notin k.legs  BY <1>2, <1>4, <1>7, <2>2
  <2> QED  BY <2>1, <2>2
<1>10. \A g \in LegsOf(k.set) : live'[g] >= PositionOf(k.set, g)
  <2> TAKE g \in LegsOf(k.set)
  <2>1. g \in Graph /\ PositionOf(k.set, g) \in 1..HeadOf(g)
    BY <1>1, Placed DEF IInv
  <2>2. CASE g \in k.legs
    BY <1>4, <1>6, <2>1, <2>2
  <2>3. CASE g \notin k.legs
    <3>1. Shown(k.set, g)
      BY <1>1, <2>3, PendingOrShown DEF IInv
    <3> QED
      BY <1>7, <2>1, <2>3, <3>1 DEF Shown
  <2> QED
    BY <2>2, <2>3
<1>11. \A s \in Sets \ {k.set} : \A g \in LegsOf(s) :
         live'[g] >= PositionOf(s, g) <=> live[g] >= PositionOf(s, g)
  <2> TAKE s \in Sets \ {k.set}
  <2> TAKE g \in LegsOf(s)
  <2>1. g \in Graph /\ PositionOf(s, g) \in 1..HeadOf(g) /\ log[g][PositionOf(s, g)] = s
    BY Placed DEF IInv
  <2>2. CASE g \notin k.legs
    BY <1>7, <2>1, <2>2
  <2>3. CASE g \in k.legs
    <3>1. g \in LegsOf(k.set)
      BY <1>1, <2>3 DEF PendingLegs
    <3>2. PositionOf(k.set, g) = HeadOf(g) /\ log[g][PositionOf(k.set, g)] = k.set
      BY <1>1, <2>3, <3>1, PendingOrShown, Placed DEF IInv
    <3>3. g \notin PendingLegs(s)
      <4>1. g \in PendingLegs(s) => PositionOf(s, g) = HeadOf(g)
        BY PendingOrShown DEF IInv
      <4> QED
        BY <2>1, <3>2, <4>1
    <3>4. Shown(s, g)
      BY <3>3, PendingOrShown DEF IInv
    <3> QED
      BY <1>4, <1>8, <1>9, <2>1, <3>4 DEF Shown
  <2> QED
    BY <2>2, <2>3
<1>12. \A s \in Sets \ onTheirOwn' : \A g, h \in LegsOf(s) :
         live'[g] >= PositionOf(s, g) <=> live'[h] >= PositionOf(s, h)
  <2> TAKE s \in Sets \ onTheirOwn'
  <2>1. CASE s = k.set
    BY <1>10, <2>1
  <2>2. CASE s # k.set
    <3>1. \A g, h \in LegsOf(s) : live[g] >= PositionOf(s, g) <=> live[h] >= PositionOf(s, h)
      BY <1>2 DEF IInv, SetsVisibleTogether, Shown
    <3> QED
      BY <1>11, <2>2, <3>1
  <2> QED
    BY <2>1, <2>2
<1>13. DbStep(t)
  <2>1. marker' \in [Graph -> Nat] /\ onTheirOwn' \subseteq Sets /\ UNCHANGED log
    BY <1>2, <1>3
  <2> QED
    BY <1>8, <1>9, <1>12, <2>1, ContentStep
<1>14. \A g \in k.legs : g \in LegsOf(k.set) /\ Shown(k.set, g)'
  <2> TAKE g \in k.legs
  <2>1. g \in LegsOf(k.set)
    BY <1>1 DEF PendingLegs
  <2>2. PositionOf(k.set, g)' = PositionOf(k.set, g)
    BY <1>2, LogKept
  <2> QED
    BY <1>10, <2>1, <2>2 DEF Shown
<1> QED
  BY <1>13, <1>14

LEMMA FlipStep ==
  ASSUME IInv, NEW t \in Thread, Flip(t)
  PROVE  IInv'
<1>1. PICK k \in State : /\ k = thread[t] /\ k.pc = "flip" /\ Shape(t, k) /\ Locks(t, k) /\ Knows(k)
                         /\ k.set \in Sets /\ k.legs # {} /\ k.legs \in SUBSET Graph
  BY Swapping DEF Flip, At
<1>2. UNCHANGED dbVars /\ UNCHANGED gated
  BY DEF Flip
<1>3. CASE UNCHANGED live /\ Return(t) /\ (UNCHANGED <<blocked, unit>> \/ BlockUnit(k.legs))
  <2>1. UNCHANGED <<dbVars, live, gated>>
    BY <1>2, <1>3
  <2> QED
    BY <1>1, <1>3, <2>1, NoSwap
<1>4. CASE live' = Flipped(t) /\ SwapPending(t)
  <2>1. UNCHANGED gateVars /\ Return(t)
    BY <1>2, <1>4 DEF SwapPending, gateVars
  <2>2. DbStep(t)
    BY <1>1, <1>2, <1>4, FlipShows
  <2> QED
    BY <2>1, <2>2, GatesKept, Returns
<1>5. CASE /\ UNCHANGED live /\ UNCHANGED <<lock, blocked, unit>>
           /\ thread' = [thread EXCEPT ![t].pc = "copies", ![t].tries = @ + 1]
  <2> DEFINE m == [k EXCEPT !.pc = "copies", !.tries = k.tries + 1]
  <2>1. thread' = [thread EXCEPT ![t] = m]
    BY <1>1, <1>5
  <2>a. k.tries + 1 \in Nat
    BY DEF State
  <2>2. m \in State
    BY <2>a DEF State, PC
  <2>3. Keeps(k, m) /\ m.pc = "copies" /\ m.upto = k.upto
    BY DEF State, Keeps
  <2> HIDE DEF m
  <2>4. \A g \in k.legs : m.upto[g] = HeadOf(g)
    BY <1>1, <2>3 DEF Knows
  <2>5. UNCHANGED <<dbVars, live, gated>>
    BY <1>2, <1>5
  <2> QED
    BY <1>1, <1>5, <2>1, <2>2, <2>3, <2>4, <2>5, TriesOn
<1>6. CASE /\ live' = Flipped(t) /\ UNCHANGED <<lock, blocked, unit>>
           /\ thread' = [thread EXCEPT ![t].pc = "advance", ![t].todo = thread[t].legs]
  <2> DEFINE m == [k EXCEPT !.pc = "advance", !.todo = k.legs]
  <2>1. thread' = [thread EXCEPT ![t] = m]
    BY <1>1, <1>6
  <2>2. m \in State
    BY <1>1 DEF State, PC
  <2>3. /\ m.pc = "advance" /\ m.goal = k.goal /\ m.set = k.set /\ m.todo = k.legs /\ m.legs = k.legs
        /\ m.want = k.want /\ m.mode = k.mode /\ m.at = k.at /\ m.sure = k.sure
    BY DEF State
  <2> HIDE DEF m
  <2>4. DbStep(t) /\ \A g \in k.legs : g \in LegsOf(k.set) /\ Shown(k.set, g)'
    BY <1>1, <1>2, <1>6, FlipShows
  <2>5. UNCHANGED log /\ UNCHANGED gateVars
    BY <1>2, <1>6 DEF dbVars, gateVars
  <2>6. Sets' = Sets /\ LegsOf(k.set)' = LegsOf(k.set)
    BY <2>5, LogKept
  <2>7. Shape(t, m)
    BY <1>1, <2>3 DEF Shape, Resolving, Working
  <2>8. Locks(t, m)
    BY <1>1, <2>3 DEF Locks, Owned, Resolving, Working
  <2>9. \A g \in m.todo : (g \in LegsOf(m.set) /\ Shown(m.set, g))'
    BY <2>3, <2>4, <2>6 DEF Shown
  <2>10. Knows(m)' /\ Passes(m)'
    BY <1>1, <2>3, <2>6, <2>9 DEF Knows, Passes, Working
  <2>11. GateTypes' /\ UNCHANGED lock
    BY <1>6, <2>5, GatesKept
  <2> QED
    BY <2>1, <2>2, <2>4, <2>7, <2>8, <2>10, <2>11, GoesOn
<1> QED
  BY <1>1, <1>3, <1>4, <1>5, <1>6 DEF Flip, SwapPending, SwapRefused

LEMMA AdvanceStep ==
  ASSUME IInv, NEW t \in Thread, Advance(t)
  PROVE  IInv'
<1>1. PICK k \in State : k = thread[t] /\ k.pc = "advance" /\ Shape(t, k) /\ Locks(t, k) /\ Knows(k)
  BY Own DEF Advance, At
<1>2. k.todo # {}
  BY <1>1 DEF Locks
<1>3. PICK g \in Graph : g = Min(k.todo) /\ g \in k.todo /\ g = Leg(t)
  BY <1>1, <1>2, LegAtHand DEF Leg
<1>4. UNCHANGED <<log, live, onTheirOwn>> /\ UNCHANGED gated
  BY DEF Advance
<1>5. lock[g] = t /\ k.legs \in SUBSET Graph
  BY <1>1, <1>3, WorksOnItsOwn DEF Resolving, State
<1>6. CASE UNCHANGED marker /\ Return(t) /\ UNCHANGED <<blocked, unit>>
  <2>1. UNCHANGED <<dbVars, live, gated>>
    BY <1>4, <1>6 DEF dbVars
  <2> QED
    BY <1>5, <1>6, <2>1, NoSwap
<1>7. CASE /\ marker' = [marker EXCEPT ![g] = Max({@, PositionOf(k.set, g)})]
           /\ IF k.todo \ {g} = {}
              THEN Return(t) /\ UnblockUnit(k.legs)
              ELSE /\ thread' = [thread EXCEPT ![t].todo = k.todo \ {g}]
                   /\ UNCHANGED <<lock, blocked, unit>>
  <2>1. k.set \in Sets /\ \A h \in k.todo : h \in LegsOf(k.set) /\ Shown(k.set, h)
    BY <1>1 DEF Knows
  <2>2. PositionOf(k.set, g) \in 1..HeadOf(g) /\ live[g] >= PositionOf(k.set, g)
    BY <1>3, <2>1, Placed DEF Shown, IInv
  <2>3. HeadOf(g) \in Nat /\ marker[g] \in Nat /\ live[g] \in Nat /\ marker[g] <= live[g]
    BY OfGraph DEF IInv, LogInv
  <2>4. PICK n \in Nat : n = Max({marker[g], PositionOf(k.set, g)}) /\ marker[g] <= n /\ n <= live[g]
    BY <2>2, <2>3, MaxOfTwo
  <2>5. marker' = [marker EXCEPT ![g] = n]
    BY <1>7, <2>4
  <2>6. DbStep(t)
    BY <1>4, <1>5, <2>4, <2>5, MarkKeeps
  <2>7. CASE Return(t) /\ UnblockUnit(k.legs)
    BY <1>4, <1>5, <2>6, <2>7, Blocks, Returns
  <2>8. CASE /\ k.todo \ {g} # {} /\ UNCHANGED <<lock, blocked, unit>>
             /\ thread' = [thread EXCEPT ![t].todo = k.todo \ {g}]
    <3> DEFINE m == [k EXCEPT !.todo = k.todo \ {g}]
    <3>1. thread' = [thread EXCEPT ![t] = m] /\ UNCHANGED lock
      BY <1>1, <2>8
    <3>2. m \in State
      BY DEF State
    <3>3. /\ m.pc = "advance" /\ m.goal = k.goal /\ m.set = k.set /\ m.todo = k.todo \ {g} /\ m.legs = k.legs
          /\ m.want = k.want /\ m.mode = k.mode /\ m.at = k.at /\ m.sure = k.sure
      BY <1>1 DEF State
    <3> HIDE DEF m
    <3>4. UNCHANGED gateVars
      BY <1>4, <2>8 DEF gateVars
    <3>5. Shape(t, m)
      BY <1>1, <3>3 DEF Shape, Resolving, Working
    <3>6. Locks(t, m)
      BY <1>1, <2>8, <3>3 DEF Locks, Owned, Resolving, Working
    <3>7. Sets' = Sets /\ \A s : LegsOf(s)' = LegsOf(s) /\ \A h : Shown(s, h)' = Shown(s, h)
      BY <1>4, LogKept DEF Shown
    <3>8. Knows(m)' /\ Passes(m)'
      BY <2>1, <3>3, <3>7 DEF Knows, Passes, Working
    <3> QED
      BY <2>6, <3>1, <3>2, <3>4, <3>5, <3>6, <3>8, GatesKept, GoesOn
  <2> QED
    BY <1>7, <2>7, <2>8
<1> QED
  BY <1>1, <1>3, <1>6, <1>7 DEF Advance, SwapPending, RefPosition


-----------------------------------------------------------------------------
(***************************************************************************)
(* The replay, the restart.                                                *)
(***************************************************************************)
LEMMA RebuildStep ==
  ASSUME IInv, NEW r \in Repairer, Rebuild(r)
  PROVE  IInv'
<1>1. PICK k \in State : /\ k = thread[r] /\ k.pc = "rebuild" /\ Shape(r, k) /\ Locks(r, k)
                         /\ r \in Thread /\ r \notin Writer
  BY Own, SwapAssumption DEF Rebuild, At, Thread
<1>2. k.mode = "replay" /\ k.want = {k.at} /\ k.at \in Graph
  BY <1>1 DEF Shape
<1>3. PICK g \in Graph : g = k.at
  BY <1>2
<1>4. Held(r) = {g}
  BY <1>1, <1>2, <1>3 DEF Locks, Owned
<1>5. /\ live' = [live EXCEPT ![g] = HeadOf(g)] /\ marker' = [marker EXCEPT ![g] = HeadOf(g)]
      /\ lock' = [lock EXCEPT ![g] = NoThread] /\ gated' = gated \ {g} /\ UNCHANGED <<log, blocked, unit>>
      /\ onTheirOwn' = onTheirOwn \cup {log[g][p] : p \in PendingSwap(g)}
      /\ thread' = [thread EXCEPT ![r].pc = "release"]
  BY <1>1, <1>3 DEF Rebuild, Move
<1>6. /\ lock \in [Graph -> Thread \cup {NoThread}] /\ marker \in [Graph -> Nat] /\ live \in [Graph -> Nat]
      /\ onTheirOwn \subseteq Sets
  BY DEF IInv, TypeOK
<1>7. \A h \in Graph : /\ HeadOf(h) \in Nat /\ marker[h] \in Nat /\ live[h] \in Nat
                       /\ marker[h] <= live[h] /\ live[h] <= HeadOf(h)
  BY OfGraph DEF IInv, LogInv
<1>8. /\ live' \in [Graph -> Nat] /\ marker' \in [Graph -> Nat]
      /\ live'[g] = HeadOf(g) /\ marker'[g] = HeadOf(g)
      /\ \A h \in Graph : h # g => live'[h] = live[h] /\ marker'[h] = marker[h]
  BY <1>5, <1>6, <1>7
<1>9. lock[g] = r
  BY <1>4 DEF Held
<1>10. onTheirOwn' \subseteq Sets
  <2>1. \A p \in PendingSwap(g) : log[g][p] \in Sets
    <3> TAKE p \in PendingSwap(g)
    <3>1. p \in 1..HeadOf(g) /\ log[g][p] # 0
      BY <1>7 DEF PendingSwap
    <3> QED
      BY <3>1, LoggedSet DEF IInv
  <2> QED
    BY <1>5, <1>6, <2>1
<1>11. \A h \in Graph : /\ marker[h] <= marker'[h] /\ marker'[h] <= live'[h] /\ live'[h] <= HeadOf(h)
                        /\ lock[h] # r => marker'[h] = marker[h] /\ live'[h] = live[h]
  <2> TAKE h \in Graph
  <2>1. CASE h = g  BY <1>7, <1>8, <1>9, <2>1
  <2>2. CASE h # g  BY <1>7, <1>8, <2>2
  <2> QED  BY <2>1, <2>2
<1>12. \A s \in Sets \ onTheirOwn' : \A h \in LegsOf(s) :
         live'[h] >= PositionOf(s, h) <=> live[h] >= PositionOf(s, h)
  <2> TAKE s \in Sets \ onTheirOwn'
  <2> TAKE h \in LegsOf(s)
  <2>1. h \in Graph /\ PositionOf(s, h) \in 1..HeadOf(h) /\ log[h][PositionOf(s, h)] = s /\ s # 0
    BY Placed DEF IInv
  <2>2. CASE h # g
    BY <1>8, <2>1, <2>2
  <2>3. CASE h = g
    <3>1. PositionOf(s, h) \notin PendingSwap(g)
      BY <1>5, <2>1, <2>3
    <3>2. PositionOf(s, h) <= marker[g]
      BY <1>7, <2>1, <2>3, <3>1 DEF PendingSwap
    <3> QED
      BY <1>7, <1>8, <2>1, <2>3, <3>2
  <2> QED
    BY <2>2, <2>3
<1>13. \A s \in Sets \ onTheirOwn' : \A h, i \in LegsOf(s) :
         live'[h] >= PositionOf(s, h) <=> live'[i] >= PositionOf(s, i)
  <2> TAKE s \in Sets \ onTheirOwn'
  <2>1. \A h, i \in LegsOf(s) : live[h] >= PositionOf(s, h) <=> live[i] >= PositionOf(s, i)
    BY <1>5 DEF IInv, SetsVisibleTogether, Shown
  <2> QED
    BY <1>12, <2>1
<1>14. DbStep(r)
  BY <1>1, <1>5, <1>8, <1>10, <1>11, <1>13, ContentStep
<1> DEFINE m == [k EXCEPT !.pc = "release"]
<1>15. thread' = [thread EXCEPT ![r] = m]
  BY <1>1, <1>5
<1>16. m \in State
  BY DEF State, PC
<1>17. /\ m.pc = "release" /\ m.goal = k.goal /\ m.set = k.set /\ m.todo = k.todo /\ m.legs = k.legs
       /\ m.want = k.want /\ m.mode = k.mode /\ m.at = k.at /\ m.sure = k.sure
  BY DEF State
<1> HIDE DEF m
<1>18. LockStep(r) /\ Held(r)' = {}
  <2>1. LockStep(r)
    BY <1>5, <1>6, <1>9 DEF LockStep
  <2>2. \A h \in Graph : lock'[h] # r
    BY <1>1, <1>4, <1>5, <1>6, SwapAssumption DEF Held
  <2> QED
    BY <2>1, <2>2 DEF Held
<1>19. Shape(r, m) /\ Locks(r, m)' /\ Knows(m)' /\ Passes(m)'
  <2>1. Shape(r, m)
    BY <1>1, <1>17 DEF Shape, Resolving, Working
  <2>2. Locks(r, m)'
    BY <1>1, <1>17, <1>18 DEF Locks, Owned, Resolving, Working
  <2>3. Knows(m)' /\ Passes(m)'
    BY <1>17 DEF Knows, Passes, Working
  <2> QED
    BY <2>1, <2>2, <2>3
<1>20. GateTypes'
  BY <1>5 DEF IInv, TypeOK, GateTypes
<1> QED
  BY <1>1, <1>14, <1>15, <1>16, <1>18, <1>19, <1>20, ThreadStep

LEMMA ReleaseStep ==
  ASSUME IInv, NEW r \in Repairer, ReleaseReplayedLeg(r)
  PROVE  IInv'
<1>1. PICK k \in State : k = thread[r] /\ k.pc = "release" /\ Shape(r, k) /\ r \in Thread /\ r \notin Writer
  BY Own, SwapAssumption DEF ReleaseReplayedLeg, At, Thread
<1>2. k.at \in Graph
  BY <1>1 DEF Shape
<1>3. PICK legs \in SUBSET Graph : legs = unit[k.at]
  BY <1>2 DEF IInv, TypeOK
<1>4. UNCHANGED <<dbVars, live>> /\ UNCHANGED gated /\ Return(r)
  BY DEF ReleaseReplayedLeg
<1>5. UnblockUnit(legs) \/ UNCHANGED <<blocked, unit>>
  BY <1>1, <1>3 DEF ReleaseReplayedLeg
<1>6. GateTypes'
  <2>1. CASE UnblockUnit(legs)
    BY <1>4, <2>1, Blocks
  <2>2. CASE UNCHANGED <<blocked, unit>>
    <3>1. UNCHANGED gateVars
      BY <1>4, <2>2 DEF gateVars
    <3> QED
      BY <3>1, GatesKept
  <2> QED
    BY <1>5, <2>1, <2>2
<1> QED
  BY <1>1, <1>4, <1>6, ReadsAndReturns

LEMMA CrashStep ==
  ASSUME IInv, Crash
  PROVE  IInv'
<1>1. PICK t \in Thread : TRUE
  BY DEF Crash
<1>2. UNCHANGED <<dbVars, live>>
  BY DEF Crash
<1>3. /\ lock' = [g \in Graph |-> NoThread] /\ thread' = [u \in Thread |-> Idle]
      /\ blocked' = {} /\ unit' = [g \in Graph |-> {}] /\ gated' = {}
  BY DEF Crash
<1>4. DbTypes' /\ LogInv' /\ SetsVisibleTogether'
  BY <1>1, <1>2, Reads DEF DbStep
<1>5. \A u \in Thread : Held(u)' = {} /\ thread'[u] = Idle
  BY <1>3, SwapAssumption DEF Held
<1>6. \A u \in Thread : Shape(u, Idle) /\ Locks(u, Idle)' /\ Knows(Idle)' /\ Passes(Idle)'
  BY <1>5 DEF Shape, Locks, Owned, Knows, Passes, Idle, Working, Resolving
<1>7. ThreadInv'
  <2> SUFFICES ASSUME NEW u \in Thread
               PROVE  (Shape(u, thread[u]) /\ Locks(u, thread[u]) /\ Knows(thread[u]) /\ Passes(thread[u]))'
    BY DEF ThreadInv
  <2>1. thread'[u] = Idle
    BY <1>5
  <2>2. Shape(u, thread'[u]) /\ Locks(u, thread[u])'
    BY <1>6, <2>1 DEF Locks, Owned
  <2>3. Knows(thread[u])' /\ Passes(thread[u])'
    BY <1>6, <2>1 DEF Knows, Passes, Owes, InPlace
  <2> QED
    BY <2>2, <2>3 DEF Shape
<1>8. TypeOK'
  <2>1. thread' \in [Thread -> State] /\ lock' \in [Graph -> Thread \cup {NoThread}]
        /\ unit' \in [Graph -> SUBSET Graph] /\ blocked' \subseteq Graph /\ gated' \subseteq Graph
    BY <1>3, IdleInState
  <2>2. \A u \in Thread : Held(u)' = {} /\ thread'[u].pc = "idle"
    BY <1>5 DEF Idle
  <2> QED
    BY <1>4, <2>1, <2>2 DEF TypeOK, DbTypes
<1> QED
  BY <1>4, <1>7, <1>8 DEF IInv

-----------------------------------------------------------------------------
(***************************************************************************)
(* The theorems.                                                           *)
(***************************************************************************)
LEMMA SeveralLegs == ASSUME NEW L, Cardinality(L) > 1  PROVE L # {}
<1>1. Cardinality({}) = 0
  BY FS_EmptySet
<1>2. PICK n : n = Cardinality(L)
  OBVIOUS
<1>3. n > 1
  BY <1>2, Zenon
<1>4. n # 0
  BY <1>3
<1> QED
  BY <1>1, <1>2, <1>4, Zenon

LEMMA NextIInv ==
  ASSUME IInv, [Next]_vars
  PROVE  IInv'
<1>1. ASSUME NEW w \in Writer, Calls(w)  PROVE IInv'
  <2>1. CASE \E g \in Graph : Submit(w, "single", {g})
    BY <2>1, SubmitStep
  <2>2. ASSUME NEW mode \in {"in place", "swap"}, NEW legs \in SUBSET Graph,
               Cardinality(legs) > 1, Submit(w, mode, legs)
        PROVE  IInv'
    <3>1. legs # {}
      BY <2>2, SeveralLegs
    <3> QED
      BY <2>2, <3>1, SubmitStep
  <2> QED
    BY <1>1, <2>1, <2>2 DEF Calls
<1>2. CASE \E w \in Writer : Stage(w) \/ Checks(w) \/ AppendLegs(w)
  BY <1>2, StageStep, ChecksStep, AppendStep
<1>3. CASE \E r \in Repairer, g \in Graph : CatchUp(r, g) \/ Replay(r, g)
  BY <1>3, CatchUpStep, ReplayStep
<1>4. CASE \E r \in Repairer : ResolveFirst(r) \/ ResolveLegs(r) \/ Rebuild(r) \/ ReleaseReplayedLeg(r)
  BY <1>4, ResolveFirstStep, ResolveLegsStep, RebuildStep, ReleaseStep
<1>5. CASE \E t \in Thread : Lock(t) \/ ApplyStep(t)
  BY <1>5, LockStepKeeps, PassStep, ApplyKeeps, MarkStep DEF ApplyStep
<1>6. CASE \E t \in Thread : SwapStep(t)
  BY <1>6, ReadEntriesStep, StageCopiesStep, FlipStep, AdvanceStep DEF SwapStep
<1>7. CASE Crash
  BY <1>7, CrashStep
<1>8. CASE UNCHANGED vars
  <2> USE <1>8 DEF vars
  <2>1. UNCHANGED dbVars /\ Sets' = Sets /\ \A g : HeadOf(g)' = HeadOf(g)
    BY DEF dbVars, Sets, HeadOf
  <2>2. \A s, g : LegsOf(s)' = LegsOf(s) /\ PositionOf(s, g)' = PositionOf(s, g) /\ Shown(s, g)' = Shown(s, g)
    BY DEF LegsOf, PositionOf, Shown, HeadOf
  <2>3. \A t : Held(t)' = Held(t)
    BY DEF Held
  <2>4. LogInv' /\ SetsVisibleTogether'
    BY <2>1, <2>2 DEF IInv, LogInv, SetsVisibleTogether, PendingSwap
  <2>5. TypeOK'
    BY <2>1, <2>3 DEF IInv, TypeOK
  <2>6. \A t \in Thread : Shape(t, thread[t])' /\ Locks(t, thread[t])'
    BY <2>3, ZenonT(40) DEF IInv, ThreadInv, Shape, Locks, Owned
  <2>7. \A k : Knows(k)' = Knows(k) /\ Passes(k)' = Passes(k)
    BY DEF Knows, Passes, Owes, InPlace, Plain, Lags, PendingSwap, PendingLegs, LegsOf, PositionOf, Sets, Shown,
           HeadOf
  <2>8. \A t \in Thread : Knows(thread[t])' /\ Passes(thread[t])'
    BY <2>7 DEF IInv, ThreadInv
  <2> QED
    BY <2>4, <2>5, <2>6, <2>8 DEF IInv, ThreadInv
<1> QED
  BY <1>1, <1>2, <1>3, <1>4, <1>5, <1>6, <1>7, <1>8 DEF Next

\* The inductive invariant holds in every state of every run.
THEOREM Invariant == Spec => []IInv
<1>1. Init => IInv
  BY InitIInv
<1>2. IInv /\ [Next]_vars => IInv'
  BY NextIInv
<1> QED
  BY <1>1, <1>2, PTL DEF Spec


(***************************************************************************)
(* Every variable has its type, and a call that is past lock_all holds all *)
(* its locks until it ends and none afterwards, on every path.             *)
(***************************************************************************)
THEOREM LocksGivenBack == Spec => []TypeOK
<1>1. IInv => TypeOK
  BY DEF IInv
<1> QED
  BY <1>1, Invariant, PTL

(***************************************************************************)
(* A reader sees none or all of a swap set, whatever fails on the way: no  *)
(* rename, retry, half written marker, catch_up or restart leaves one      *)
(* graph with the set and another without it, unless a replay rebuilt a    *)
(* leg of it in place.                                                     *)
(***************************************************************************)
THEOREM NoneOrAll == Spec => []SetsVisibleTogether
<1>1. IInv => SetsVisibleTogether
  BY DEF IInv
<1> QED
  BY <1>1, Invariant, PTL

(***************************************************************************)
(* What is logged on a graph comes after whole sets: every set the graph   *)
(* takes part in is shown on all its graphs and marked on this one.        *)
(***************************************************************************)
THEOREM LoggedAfterWholeSets == Spec => WholeWhenLogged
<1>1. ASSUME IInv, [Next]_vars  PROVE [LoggedOver(Sets \ onTheirOwn)]_vars
  <2>1. CASE UNCHANGED log
    BY <2>1 DEF LoggedOver
  <2>2. CASE \E w \in Writer : AppendLegs(w)
    <3>1. PICK w \in Writer : AppendLegs(w)
      BY <2>2
    <3>2. PICK k \in State : k = thread[w] /\ Knows(k) /\ k.pc = "append"
      BY <1>1, <3>1, Own DEF AppendLegs, At, Thread
    <3>3. \A g \in k.legs : ~Lags(g)
      BY <3>2 DEF Knows
    <3>4. log' = Logged(k.legs, NewSet(w)) \/ UNCHANGED log
      BY <3>1, <3>2 DEF AppendLegs
    <3>5. \A g \in Graph : log'[g] # log[g] => ~Lags(g)
      BY <3>3, <3>4 DEF Logged
    <3>6. \A g \in Graph : ~Lags(g) =>
            \A s \in Sets \ onTheirOwn : g \in LegsOf(s) => SeenWhole(s, g)
      <4> SUFFICES ASSUME NEW g \in Graph, ~Lags(g), NEW s \in Sets \ onTheirOwn, g \in LegsOf(s)
                   PROVE  SeenWhole(s, g)
        OBVIOUS
      <4>1. PositionOf(s, g) \in 1..HeadOf(g) /\ HeadOf(g) \in Nat /\ marker[g] = HeadOf(g)
        BY <1>1, Placed DEF IInv, Lags
      <4>2. g \notin PendingLegs(s)
        BY <4>1 DEF PendingLegs
      <4>3. Shown(s, g)
        BY <1>1, <4>2, PendingOrShown DEF IInv
      <4> QED
        BY <1>1, <4>2, <4>3 DEF SeenWhole, IInv, SetsVisibleTogether
    <3> QED
      BY <3>5, <3>6 DEF LoggedOver
  <2>3. CASE Next /\ ~\E w \in Writer : AppendLegs(w)
    <3>1. UNCHANGED log
      BY <2>3 DEF Next, Calls, Submit, Stage, Checks, CatchUp, Replay, ResolveFirst, ResolveLegs, Rebuild,
                  ReleaseReplayedLeg, Lock, ApplyStep, Pass, Apply, Mark, SwapStep, ReadEntries, StageCopies,
                  Flip, Advance, Crash, dbVars
    <3> QED
      BY <2>1, <3>1
  <2>4. CASE UNCHANGED vars
    BY <2>4
  <2> QED
    BY <1>1, <2>2, <2>3, <2>4
<1> QED
  BY <1>1, Invariant, PTL DEF Spec, WholeWhenLogged

(***************************************************************************)
(* A step that moves the marker of one graph, if any, is an advance of     *)
(* GraphLog or changes nothing of it.                                      *)
(***************************************************************************)
LEMMA MovesOneMarker ==
  ASSUME IInv, IInv', NEW g \in Graph, NEW n \in Nat, UNCHANGED log,
         marker' = [marker EXCEPT ![g] = n], marker[g] <= n
  PROVE  [OneLog!Next]_(OneLog!vars)
<1>1. marker \in [Graph -> Nat] /\ HeadOf(g) \in Nat
  BY OfGraph DEF IInv, TypeOK
<1>2. \A h \in Graph : HeadOf(h)' = HeadOf(h)
  BY DEF HeadOf
<1>3. marker'[g] = n
  BY <1>1
<1>4. marker'[g] <= HeadOf(g)
  <2>1. marker'[g] \in 0..HeadOf(g)'
    BY DEF IInv, TypeOK
  <2> QED
    BY <1>1, <1>2, <2>1
<1>5. CASE marker[g] = n
  <2>1. marker' = marker
    BY <1>1, <1>5
  <2> QED
    BY <1>2, <2>1 DEF OneLog!vars
<1>6. CASE marker[g] # n
  <2>1. marker[g] < n
    BY <1>1, <1>6
  <2>2. OneLog!Advance(g)
    BY <1>2, <1>3, <1>4, <2>1 DEF OneLog!Advance
  <2> QED
    BY <2>2 DEF OneLog!Next
<1> QED
  BY <1>5, <1>6

\* An append gives the legs one entry each, all in one step, and moves no marker.
LEMMA AppendsTogether ==
  ASSUME IInv, NEW w \in Writer, AppendLegs(w)
  PROVE  [OneLog!Next]_(OneLog!vars)
<1> DEFINE h == [g \in Graph |-> HeadOf(g)]
<1>1. UNCHANGED marker /\ (log' = Logged(thread[w].legs, NewSet(w)) \/ UNCHANGED log)
  BY DEF AppendLegs
<1>2. \A g \in Graph : HeadOf(g) \in Nat /\ HeadOf(g)' \in Nat /\ HeadOf(g) <= HeadOf(g)'
  <2> SUFFICES ASSUME NEW g \in Graph
               PROVE  HeadOf(g) \in Nat /\ HeadOf(g)' \in Nat /\ HeadOf(g) <= HeadOf(g)'
    OBVIOUS
  <2>1. log[g] \in Seq(0..MaxSets) /\ HeadOf(g) = Len(log[g]) /\ HeadOf(g)' = Len(log'[g])
    BY DEF IInv, TypeOK, HeadOf
  <2>2. log'[g] = log[g] \/ log'[g] = Append(log[g], NewSet(w))
    BY <1>1 DEF Logged
  <2>3. Len(Append(log[g], NewSet(w))) = Len(log[g]) + 1
    <3>1. PICK s : s = NewSet(w)
      OBVIOUS
    <3>2. log[g] \in Seq((0..MaxSets) \cup {s})
      BY <2>1, SeqMonotonic
    <3>3. Len(Append(log[g], s)) = Len(log[g]) + 1
      BY <3>2, Longer
    <3> QED
      BY <3>1, <3>3
  <2> QED
    BY <2>1, <2>2, <2>3
<1>3. CASE h' = h
  BY <1>1, <1>3 DEF OneLog!vars
<1>4. CASE h' # h
  <2>1. DOMAIN h' = Graph /\ \A g \in Graph : h[g] <= h'[g]
    BY <1>2
  <2>2. OneLog!Append
    BY <1>1, <1>4, <2>1 DEF OneLog!Append
  <2> QED
    BY <2>2 DEF OneLog!Next
<1> QED
  BY <1>3, <1>4

(***************************************************************************)
(* Groups over several graphs, the swap of their copies, its markers and   *)
(* the replay of a leg implement the log of GraphLog: the legs of a group  *)
(* arrive in one step, and every marker moves on its own, forward and      *)
(* within the log.                                                         *)
(***************************************************************************)
THEOREM SwapSetsImplementGraphLog == Spec => ImplementsGraphLog
<1>1. Init => OneLog!Init
  BY DEF Init, OneLog!Init, HeadOf
<1>2. ASSUME IInv, IInv', [Next]_vars  PROVE [OneLog!Next]_(OneLog!vars)
  <2>1. CASE UNCHANGED <<log, marker>>
    BY <2>1 DEF OneLog!vars, HeadOf
  <2>2. ASSUME NEW w \in Writer, AppendLegs(w)  PROVE [OneLog!Next]_(OneLog!vars)
    BY <1>2, <2>2, AppendsTogether
  <2>3. ASSUME NEW t \in Thread, Mark(t)  PROVE [OneLog!Next]_(OneLog!vars)
    <3>1. PICK k \in State : k = thread[t] /\ Locks(t, k) /\ k.pc = "mark"
      BY <1>2, <2>3, Own DEF Mark, At
    <3>2. k.todo # {}
      BY <3>1 DEF Locks, Working
    <3>3. PICK g \in Graph : g = Leg(t)
      BY <3>1, <3>2, LegAtHand DEF Leg
    <3>4. PICK n \in Nat : n = marker[g] + 1 /\ marker[g] <= n
      BY <1>2, OfGraph DEF IInv
    <3>5. UNCHANGED log /\ (marker' = [marker EXCEPT ![g] = n] \/ UNCHANGED marker)
      BY <2>3, <3>3, <3>4 DEF Mark
    <3> QED
      BY <1>2, <2>1, <3>4, <3>5, MovesOneMarker
  <2>4. ASSUME NEW t \in Thread, Advance(t)  PROVE [OneLog!Next]_(OneLog!vars)
    <3>1. PICK k \in State : k = thread[t] /\ Locks(t, k) /\ Knows(k) /\ k.pc = "advance"
      BY <1>2, <2>4, Own DEF Advance, At
    <3>2. k.todo # {}
      BY <3>1 DEF Locks
    <3>3. PICK g \in Graph : g = Min(k.todo) /\ g \in k.todo /\ g = Leg(t)
      BY <3>1, <3>2, LegAtHand DEF Leg
    <3>4. k.set \in Sets /\ g \in LegsOf(k.set)
      BY <3>1, <3>3 DEF Knows
    <3>5. PositionOf(k.set, g) \in Nat
      BY <1>2, <3>4, Placed DEF IInv
    <3>6. marker[g] \in Nat
      BY <1>2, OfGraph DEF IInv
    <3>7. PICK n \in Nat : n = Max({marker[g], PositionOf(k.set, g)}) /\ marker[g] <= n
      BY <3>5, <3>6, MaxOfTwo
    <3>8. UNCHANGED log /\ (marker' = [marker EXCEPT ![g] = n] \/ UNCHANGED marker)
      BY <2>4, <3>1, <3>3, <3>7 DEF Advance, RefPosition
    <3> QED
      BY <1>2, <2>1, <3>7, <3>8, MovesOneMarker
  <2>5. ASSUME NEW r \in Repairer, Rebuild(r)  PROVE [OneLog!Next]_(OneLog!vars)
    <3>1. PICK g \in Graph : g = thread[r].at
      <4>1. PICK k \in State : k = thread[r] /\ k.pc = "rebuild" /\ Shape(r, k) /\ r \notin Writer
        BY <1>2, <2>5, Own, SwapAssumption DEF Rebuild, At, Thread
      <4> QED
        BY <4>1 DEF Shape
    <3>2. PICK n \in Nat : n = HeadOf(g) /\ marker[g] <= n
      <4>1. HeadOf(g) \in Nat /\ marker[g] \in 0..HeadOf(g)
        BY <1>2, OfGraph DEF IInv, TypeOK
      <4> QED
        BY <4>1
    <3>3. UNCHANGED log /\ marker' = [marker EXCEPT ![g] = n]
      BY <2>5, <3>1, <3>2 DEF Rebuild
    <3> QED
      BY <1>2, <3>2, <3>3, MovesOneMarker
  <2>6. CASE Next /\ ~\E t \in Thread : AppendLegs(t) \/ Mark(t) \/ Advance(t) \/ Rebuild(t)
    <3>1. UNCHANGED <<log, marker>>
      BY <2>6 DEF Next, Calls, Submit, Stage, Checks, CatchUp, Replay, ResolveFirst, ResolveLegs, Thread,
                  ReleaseReplayedLeg, Lock, ApplyStep, Pass, Apply, SwapStep, ReadEntries, StageCopies,
                  Flip, Crash, dbVars
    <3> QED
      BY <2>1, <3>1
  <2>7. CASE \E t \in Thread : AppendLegs(t) \/ Mark(t) \/ Advance(t) \/ Rebuild(t)
    <3>1. PICK t \in Thread : AppendLegs(t) \/ Mark(t) \/ Advance(t) \/ Rebuild(t)
      BY <2>7
    <3>2. CASE AppendLegs(t)
      <4>1. t \in Writer
        <5>1. PICK k \in State : k = thread[t] /\ Shape(t, k) /\ k.pc = "append"
          BY <1>2, <3>2, Own DEF AppendLegs, At
        <5> QED
          BY <5>1 DEF Shape
      <4> QED
        BY <2>2, <3>2, <4>1
    <3>3. CASE Rebuild(t)
      <4>1. t \in Repairer
        <5>1. PICK k \in State : k = thread[t] /\ Shape(t, k) /\ k.pc = "rebuild"
          BY <1>2, <3>3, Own DEF Rebuild, At
        <5>2. t \notin Writer
          BY <5>1 DEF Shape
        <5> QED
          BY <5>2 DEF Thread
      <4> QED
        BY <2>5, <3>3, <4>1
    <3> QED
      BY <2>3, <2>4, <3>1, <3>2, <3>3
  <2>8. CASE UNCHANGED vars
    BY <2>1, <2>8 DEF vars
  <2> QED
    BY <1>2, <2>6, <2>7, <2>8
<1> QED
  BY <1>1, <1>2, Invariant, PTL DEF Spec, OneLog!Spec, ImplementsGraphLog

(***************************************************************************)
(* The greatest element of a set of graphs: of the sets of graphs above    *)
(* one of its elements, the least by inclusion is that of the greatest.    *)
(***************************************************************************)
LEMMA GreatestGraph ==
  ASSUME NEW W, W \subseteq Graph, W # {}
  PROVE  \E x \in W : \A y \in W : y <= x
<1> DEFINE Above(x) == {g \in Graph : g > x}
           All == {Above(x) : x \in W}
<1>1. All \subseteq FiniteSubsetsOf(Graph)
  <2> SUFFICES ASSUME NEW x \in W  PROVE Above(x) \in FiniteSubsetsOf(Graph)
    OBVIOUS
  <2>1. Above(x) \subseteq Graph
    OBVIOUS
  <2>2. IsFiniteSet(Above(x))
    BY <2>1, SwapAssumption, FS_Subset
  <2> QED
    BY <2>1, <2>2 DEF FiniteSubsetsOf
<1>2. All # {}
  OBVIOUS
<1>3. IsWellFoundedOn(StrictSubsetOrdering(Graph), FiniteSubsetsOf(Graph))
  BY FS_StrictSubsetOrderingWellFounded
<1> HIDE DEF All
<1>4. \E I \in All : \A J \in All : ~(<<J, I>> \in StrictSubsetOrdering(Graph))
  BY <1>1, <1>2, <1>3, WFMin
<1> USE DEF All
<1>5. PICK x \in W : \A y \in W : ~(<<Above(y), Above(x)>> \in StrictSubsetOrdering(Graph))
  BY <1>4
<1>6. \A y \in W : y <= x
  <2> SUFFICES ASSUME NEW y \in W, ~(y <= x)  PROVE FALSE
    OBVIOUS
  <2>1. x \in Nat /\ y \in Nat /\ x < y /\ y \in Graph
    BY SwapAssumption
  <2>2. Above(y) \subseteq Above(x) /\ Above(y) # Above(x)
    <3>1. \A g \in Graph : g > y => g > x
      BY <2>1, SwapAssumption
    <3>2. y \in Above(x) /\ y \notin Above(y)
      BY <2>1
    <3> QED
      BY <3>1, <3>2
  <2>3. <<Above(y), Above(x)>> \in StrictSubsetOrdering(Graph)
    BY <2>2 DEF StrictSubsetOrdering
  <2> QED
    BY <1>5, <2>3
<1> QED
  BY <1>6

(***************************************************************************)
(* Locks are taken in ascending order of the names (lock_all), so the one  *)
(* who waits for the greatest graph waits for nobody who waits.            *)
(***************************************************************************)
THEOREM NobodyWaitsInACircle == Spec => []NoLockCycle
<1>1. ASSUME IInv  PROVE NoLockCycle
  <2> SUFFICES ASSUME NEW S \in SUBSET Thread, S # {}, \A t \in S : WaitsFor(t) \cap S # {}
               PROVE  FALSE
    BY DEF NoLockCycle
  <2> DEFINE wanted(t) == NextLock(t, thread[t].want \ Held(t))
  <2>1. \A t \in S :
          /\ At(t, "lock") /\ wanted(t) \in Graph /\ lock[wanted(t)] \in S
          /\ wanted(t) \in thread[t].want \ Held(t)
          /\ \A h \in Held(t) : h < wanted(t)
    <3> TAKE t \in S
    <3>1. At(t, "lock") /\ lock[wanted(t)] \in S
      BY DEF WaitsFor
    <3>2. PICK k \in State : k = thread[t] /\ Locks(t, k) /\ k.pc = "lock"
      BY <1>1, <3>1, Own DEF At
    <3>3. /\ k.want \ Held(t) # {} /\ k.want \ Held(t) \subseteq Nat /\ k.want \ Held(t) \subseteq Graph
          /\ \A h \in Held(t), g \in k.want \ Held(t) : h < g
      BY <3>2, SwapAssumption DEF Locks, Owned, State
    <3>4. Min(k.want \ Held(t)) \in k.want \ Held(t)
      BY <3>3, MinInSet
    <3>5. wanted(t) = Min(k.want \ Held(t))
      BY <3>2 DEF NextLock
    <3> QED
      BY <3>1, <3>2, <3>3, <3>4, <3>5
  <2> HIDE DEF wanted
  <2>2. {wanted(t) : t \in S} \subseteq Graph /\ {wanted(t) : t \in S} # {}
    BY <2>1
  <2>3. PICK x \in {wanted(t) : t \in S} : \A y \in {wanted(t) : t \in S} : y <= x
    BY <2>2, GreatestGraph
  <2>4. PICK t \in S : x = wanted(t)
    BY <2>3
  <2>5. PICK u \in S : u = lock[x]
    BY <2>1, <2>4
  <2>6. x \in Held(u) /\ x \in Graph
    BY <2>1, <2>4, <2>5 DEF Held
  <2>7. x < wanted(u) /\ wanted(u) <= x /\ wanted(u) \in Graph
    BY <2>1, <2>3, <2>6
  <2>8. x \in Nat /\ wanted(u) \in Nat
    BY <2>6, <2>7, SwapAssumption
  <2> QED
    BY <2>7, <2>8
<1> QED
  BY <1>1, Invariant, PTL
==============================================================================
