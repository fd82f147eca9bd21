------------------------ MODULE ThreadCounter_proofs ------------------------
(***************************************************************************)
(* The thread counter counts, for any number of threads: proofs of the     *)
(* invariants of ThreadCounter.                                            *)
(***************************************************************************)
EXTENDS ThreadCounter, FiniteSetTheorems, TLAPS

\* The threads that have been counted and not been joined, the initial one
\* included, and those that still have to count their join.
Counted == {u \in Thread : thread[u] \in {"requested", "failed", "running", "exited"}}
AfterJoins == {t \in Thread : at[t] = "joined"}

\* A thread is only inside a call or an access while it runs, and a thread to
\* be created belongs to one pthread_create.
PlacesInv ==
  /\ \A t \in Thread : at[t] # "program" => thread[t] = "running"
  /\ \A t \in Thread : at[t] = "create" => thread[target[t]] = "requested"
  /\ \A t, u \in Thread :
       at[t] = "create" /\ at[u] = "create" /\ target[t] = target[u] => t = u

CounterInv == ThreadCounter = Cardinality(Counted) + Cardinality(AfterJoins) - 1

IInv == TypeOK /\ PlacesInv /\ CounterInv /\ SkippedAlone

-----------------------------------------------------------------------------
LEMMA OneAndNone ==
  /\ \A x : Cardinality({x}) = 1
  /\ Cardinality({}) = 0
BY FS_EmptySet, FS_Singleton, Zenon

LEMMA FiniteSubset ==
  ASSUME NEW S, S \subseteq Thread
  PROVE  IsFiniteSet(S) /\ Cardinality(S) \in Nat
BY ThreadAssumption, FS_Subset, FS_CardinalityType DEF ThreadAssumption

LEMMA CountAdd ==
  ASSUME NEW S, S \subseteq Thread, NEW x \in Thread, x \notin S
  PROVE  Cardinality(S \cup {x}) = Cardinality(S) + 1
BY FiniteSubset, FS_AddElement

LEMMA CountRemove ==
  ASSUME NEW S, S \subseteq Thread, NEW x \in S
  PROVE  Cardinality(S \ {x}) = Cardinality(S) - 1
BY FiniteSubset, FS_RemoveElement

LEMMA CountTwo ==
  ASSUME NEW S, S \subseteq Thread, NEW x \in S, NEW y \in S, x # y
  PROVE  Cardinality(S) >= 2
<1>1. Cardinality(S \ {x}) = Cardinality(S) - 1
  BY CountRemove
<1>2. Cardinality((S \ {x}) \ {y}) = Cardinality(S \ {x}) - 1
  BY CountRemove
<1> QED
  BY <1>1, <1>2, FiniteSubset

-----------------------------------------------------------------------------
LEMMA InitIInv == Init => IInv
<1> SUFFICES ASSUME Init PROVE IInv
  OBVIOUS
<1>1. Counted = {Main} /\ AfterJoins = {}
  BY ThreadAssumption DEF Init, Counted, AfterJoins, ThreadAssumption
<1>2. CounterInv
  <2>1. Cardinality(Counted) = 1 /\ Cardinality(AfterJoins) = 0
    BY <1>1, OneAndNone, Zenon
  <2> QED
    BY <2>1 DEF Init, CounterInv
<1> QED
  BY <1>2 DEF Init, IInv, TypeOK, PlacesInv, SkippedAlone, Lives, Places

LEMMA TypeStep ==
  ASSUME TypeOK, Next
  PROVE  TypeOK'
<1>1. ASSUME NEW t \in Thread, NEW u \in Thread, Fork(t, u) \/ Join(t, u)
      PROVE  TypeOK'
  BY <1>1 DEF Fork, Join, TypeOK, Lives, Places
<1>2. ASSUME NEW t \in Thread,
             \/ Create(t) \/ CreateFails(t) \/ Exit(t) \/ AfterJoin(t)
             \/ LoadCounter(t) \/ Access(t)
      PROVE  TypeOK'
  BY <1>2 DEF Create, CreateFails, Exit, AfterJoin, LoadCounter, Access, TypeOK,
     Lives, Places
<1> QED
  BY <1>1, <1>2 DEF Next

LEMMA PlacesStep ==
  ASSUME TypeOK, PlacesInv, Next
  PROVE  PlacesInv'
<1>1. ASSUME NEW t \in Thread, NEW u \in Thread, Fork(t, u)
      PROVE  PlacesInv'
  BY <1>1 DEF Fork, InProgram, PlacesInv, TypeOK
<1>2. ASSUME NEW t \in Thread, NEW u \in Thread, Join(t, u)
      PROVE  PlacesInv'
  BY <1>2 DEF Join, InProgram, PlacesInv, TypeOK
<1>3. ASSUME NEW t \in Thread, Create(t) \/ CreateFails(t)
      PROVE  PlacesInv'
  BY <1>3 DEF Create, CreateFails, PlacesInv, TypeOK
<1>4. ASSUME NEW t \in Thread, Exit(t)
      PROVE  PlacesInv'
  BY <1>4 DEF Exit, InProgram, PlacesInv, TypeOK
<1>5. ASSUME NEW t \in Thread, AfterJoin(t) \/ LoadCounter(t) \/ Access(t)
      PROVE  PlacesInv'
  BY <1>5 DEF AfterJoin, LoadCounter, Access, InProgram, PlacesInv, TypeOK
<1> QED
  BY <1>1, <1>2, <1>3, <1>4, <1>5 DEF Next

LEMMA CounterStep ==
  ASSUME TypeOK, PlacesInv, CounterInv, Next
  PROVE  CounterInv'
<1>1. Counted \subseteq Thread /\ AfterJoins \subseteq Thread
  BY DEF Counted, AfterJoins
<1>2. Cardinality(Counted) \in Nat /\ Cardinality(AfterJoins) \in Nat
  BY <1>1, FiniteSubset
<1>3. ASSUME NEW t \in Thread, NEW u \in Thread, Fork(t, u)
      PROVE  CounterInv'
  <2>1. Counted' = Counted \cup {u} /\ u \notin Counted /\ AfterJoins' = AfterJoins
    BY <1>3 DEF Fork, InProgram, Counted, AfterJoins, TypeOK
  <2>2. Cardinality(Counted') = Cardinality(Counted) + 1
    BY <1>1, <2>1, CountAdd
  <2> QED
    BY <1>2, <1>3, <2>1, <2>2 DEF Fork, CounterInv
<1>4. ASSUME NEW t \in Thread, NEW u \in Thread, Join(t, u)
      PROVE  CounterInv'
  <2>1. /\ Counted' = Counted \ {u} /\ u \in Counted
        /\ AfterJoins' = AfterJoins \cup {t} /\ t \notin AfterJoins
    BY <1>4 DEF Join, InProgram, Counted, AfterJoins, TypeOK
  <2>2. /\ Cardinality(Counted') = Cardinality(Counted) - 1
        /\ Cardinality(AfterJoins') = Cardinality(AfterJoins) + 1
    BY <1>1, <2>1, CountAdd, CountRemove
  <2> QED
    BY <1>2, <1>4, <2>2 DEF Join, CounterInv
<1>5. ASSUME NEW t \in Thread, AfterJoin(t)
      PROVE  CounterInv'
  <2>1. Counted' = Counted /\ AfterJoins' = AfterJoins \ {t} /\ t \in AfterJoins
    BY <1>5 DEF AfterJoin, Counted, AfterJoins, TypeOK
  <2>2. Cardinality(AfterJoins') = Cardinality(AfterJoins) - 1
    BY <1>1, <2>1, CountRemove
  <2> QED
    BY <1>2, <1>5, <2>1, <2>2 DEF AfterJoin, CounterInv
<1>6. ASSUME NEW t \in Thread, Create(t) \/ CreateFails(t)
      PROVE  CounterInv'
  <2>1. Counted' = Counted /\ AfterJoins' = AfterJoins
    BY <1>6 DEF Create, CreateFails, PlacesInv, Counted, AfterJoins, TypeOK
  <2> QED
    BY <1>6, <2>1 DEF Create, CreateFails, CounterInv
<1>7. ASSUME NEW t \in Thread, Exit(t) \/ LoadCounter(t) \/ Access(t)
      PROVE  CounterInv'
  <2>1. Counted' = Counted /\ AfterJoins' = AfterJoins
    BY <1>7 DEF Exit, LoadCounter, Access, InProgram, Counted, AfterJoins, TypeOK
  <2> QED
    BY <1>7, <2>1 DEF Exit, LoadCounter, Access, CounterInv
<1> QED
  BY <1>3, <1>4, <1>5, <1>6, <1>7 DEF Next

\* The load reads zero only when the thread is the only one counted.
LEMMA ZeroMeansAlone ==
  ASSUME TypeOK, CounterInv, ThreadCounter = 0,
         NEW t \in Thread, thread[t] = "running",
         NEW u \in Thread \ {t}
  PROVE  thread[u] \notin {"requested", "running"}
<1>1. Counted \subseteq Thread /\ AfterJoins \subseteq Thread /\ t \in Counted
  BY DEF Counted, AfterJoins
<1>2. Cardinality(Counted) \in Nat /\ Cardinality(AfterJoins) \in Nat
  BY <1>1, FiniteSubset
<1>3. Cardinality(Counted) < 2
  BY <1>2 DEF CounterInv
<1>4. u \notin Counted
  BY <1>1, <1>2, <1>3, CountTwo
<1> QED
  BY <1>4 DEF Counted

LEMMA SkippedStep ==
  ASSUME IInv, Next
  PROVE  SkippedAlone'
<1>1. TypeOK /\ PlacesInv /\ CounterInv /\ SkippedAlone
  BY DEF IInv
<1>2. SUFFICES ASSUME NEW t \in Thread, at'[t] = "skip", NEW u \in Thread \ {t}
               PROVE  thread'[u] \notin {"requested", "running"}
  BY DEF SkippedAlone
<1>3. CASE at[t] = "skip"
  \* No other thread takes a step, and t leaves the place when it does.
  <2>1. \A w \in Thread \ {t} : thread[w] \notin {"requested", "running"}
    BY <1>1, <1>3 DEF SkippedAlone
  <2>2. ASSUME NEW w \in Thread, NEW x \in Thread, Fork(w, x) \/ Join(w, x)
        PROVE  FALSE
    BY <1>3, <2>1, <2>2 DEF Fork, Join, InProgram
  <2>3. ASSUME NEW w \in Thread,
               \/ Create(w) \/ CreateFails(w) \/ Exit(w) \/ AfterJoin(w)
               \/ LoadCounter(w)
        PROVE  FALSE
    BY <1>1, <1>3, <2>1, <2>3
       DEF Create, CreateFails, Exit, AfterJoin, LoadCounter, InProgram, PlacesInv
  <2>4. ASSUME NEW w \in Thread, Access(w)
        PROVE  FALSE
    BY <1>1, <1>2, <1>3, <2>1, <2>4 DEF Access, PlacesInv, TypeOK
  <2> QED
    BY <2>2, <2>3, <2>4 DEF Next
<1>4. CASE at[t] # "skip"
  <2>1. LoadCounter(t) /\ ThreadCounter = 0
    <3>1. ASSUME NEW w \in Thread, NEW x \in Thread, Fork(w, x) \/ Join(w, x)
          PROVE  at'[t] # "skip"
      BY <1>1, <1>4, <3>1 DEF Fork, Join, TypeOK
    <3>2. ASSUME NEW w \in Thread,
                 Create(w) \/ CreateFails(w) \/ Exit(w) \/ AfterJoin(w) \/ Access(w)
          PROVE  at'[t] # "skip"
      BY <1>1, <1>4, <3>2 DEF Create, CreateFails, Exit, AfterJoin, Access, TypeOK
    <3>3. ASSUME NEW w \in Thread, LoadCounter(w)
          PROVE  w = t /\ ThreadCounter = 0
      BY <1>1, <1>2, <1>4, <3>3 DEF LoadCounter, TypeOK
    <3> QED
      BY <1>2, <3>1, <3>2, <3>3 DEF Next
  <2>2. thread[u] \notin {"requested", "running"}
    BY <1>1, <2>1, ZeroMeansAlone DEF LoadCounter, InProgram
  <2> QED
    BY <2>1, <2>2 DEF LoadCounter
<1> QED
  BY <1>3, <1>4

LEMMA IInvHolds == Spec => []IInv
<1>1. IInv /\ [Next]_vars => IInv'
  <2> SUFFICES ASSUME IInv, [Next]_vars PROVE IInv'
    OBVIOUS
  <2>1. CASE Next
    BY <2>1, TypeStep, PlacesStep, CounterStep, SkippedStep DEF IInv
  <2>2. CASE UNCHANGED vars
    BY <2>2 DEF vars, IInv, TypeOK, PlacesInv, CounterInv, SkippedAlone, Counted,
       AfterJoins
  <2> QED
    BY <2>1, <2>2
<1> QED
  BY <1>1, InitIInv, PTL DEF Spec

\* However many threads create and join each other, an access goes without its
\* tsan call only when no other thread runs or is about to.
THEOREM SkippedOnlyAlone == Spec => []SkippedAlone
<1>1. IInv => SkippedAlone
  BY DEF IInv
<1> QED
  BY <1>1, IInvHolds, PTL

\* However the joins interleave, the counter is zero again when the only thread
\* left has counted the last one.
THEOREM CounterComesBack == Spec => []CounterSettles
<1>1. IInv => CounterSettles
  <2> SUFFICES ASSUME IInv, NEW t \in Thread, InProgram(t),
                      \A u \in Thread \ {t} : thread[u] \in {"none", "joined"}
               PROVE  ThreadCounter = 0
    BY DEF CounterSettles
  <2>1. Counted = {t}
    BY DEF Counted, InProgram
  <2>2. AfterJoins = {}
    BY DEF AfterJoins, InProgram, IInv, PlacesInv
  <2>3. Cardinality(Counted) = 1 /\ Cardinality(AfterJoins) = 0
    BY <2>1, <2>2, OneAndNone, Zenon
  <2> QED
    BY <2>3 DEF IInv, CounterInv
<1> QED
  BY <1>1, IInvHolds, PTL

=============================================================================
