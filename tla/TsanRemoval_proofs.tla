-------------------------- MODULE TsanRemoval_proofs --------------------------
(***************************************************************************)
(* The traversal of the call graph finds the functions that may run in     *)
(* parallel, no fewer and no more, for every program; the composed         *)
(* specification implements it.  Together the two passes hide no race of   *)
(* a program whose critical regions they can tell.                         *)
(***************************************************************************)
EXTENDS TsanRemoval, Iteration_proofs, TLAPS

PendingIn(stack, x) == \E k \in DOMAIN stack : x \in stack[k]

-----------------------------------------------------------------------------
(* The stack.                                                              *)

\* A call with something to follow is a frame of callees, otherwise there is none.
LEMMA FollowType ==
  ASSUME NEW callees \in SUBSET Callee
  PROVE  CallsToFollow(callees) \in Seq(SUBSET Callee)
<1>1. <<>> \in Seq(SUBSET Callee) /\ <<callees>> \in Seq(SUBSET Callee)
  OBVIOUS
<1> QED BY <1>1, Zenon DEF CallsToFollow

\* What is on a pushed stack was in the new frame or on the stack.
LEMMA PendingPushed ==
  ASSUME NEW callees \in SUBSET Callee, NEW stack \in Seq(SUBSET Callee), NEW x,
         NEW pushed, pushed = CallsToFollow(callees) \o stack
  PROVE  PendingIn(pushed, x) <=> x \in callees \/ PendingIn(stack, x)
<1>1. CASE callees = {}
  BY <1>1 DEF CallsToFollow, PendingIn
<1>2. CASE callees # {}
  <2>1. pushed = <<callees>> \o stack
    BY <1>2 DEF CallsToFollow
  <2>2. /\ Len(pushed) = Len(stack) + 1
        /\ pushed[1] = callees
        /\ \A k \in 1 .. Len(stack) : pushed[k + 1] = stack[k]
    BY <2>1
  <2>3. pushed \in Seq(SUBSET Callee)
    BY <2>1
  <2>4. ASSUME PendingIn(pushed, x) PROVE x \in callees \/ PendingIn(stack, x)
    <3>1. PICK k \in 1 .. Len(pushed) : x \in pushed[k]
      BY <2>3, <2>4 DEF PendingIn
    <3>2. CASE k = 1
      BY <3>1, <3>2, <2>2
    <3>3. CASE k # 1
      <4>1. k - 1 \in 1 .. Len(stack) /\ pushed[(k - 1) + 1] = stack[k - 1]
        BY <3>3, <2>2
      <4>2. x \in stack[k - 1]
        BY <3>1, <4>1
      <4> QED BY <4>1, <4>2 DEF PendingIn
    <3> QED BY <3>2, <3>3
  <2>5. ASSUME x \in callees PROVE PendingIn(pushed, x)
    <3>1. 1 \in DOMAIN pushed
      BY <2>2, <2>3
    <3> QED BY <3>1, <2>2, <2>5 DEF PendingIn
  <2>6. ASSUME PendingIn(stack, x) PROVE PendingIn(pushed, x)
    <3>1. PICK k \in 1 .. Len(stack) : x \in stack[k]
      BY <2>6 DEF PendingIn
    <3>2. k + 1 \in 1 .. Len(pushed) /\ x \in pushed[k + 1]
      BY <3>1, <2>2
    <3>3. DOMAIN pushed = 1 .. Len(pushed)
      BY <2>3
    <3> QED BY <3>2, <3>3, Zenon DEF PendingIn
  <2> QED BY <2>4, <2>5, <2>6
<1> QED BY <1>1, <1>2

\* What is on a stack is in its first frame or below.
LEMMA PendingSplit ==
  ASSUME NEW stack \in Seq(SUBSET Callee), stack # <<>>, NEW x
  PROVE  /\ Head(stack) \in SUBSET Callee
         /\ Tail(stack) \in Seq(SUBSET Callee)
         /\ PendingIn(stack, x) <=> x \in Head(stack) \/ PendingIn(Tail(stack), x)
<1>1. Head(stack) \in SUBSET Callee /\ Tail(stack) \in Seq(SUBSET Callee)
  OBVIOUS
<1>2. /\ Len(stack) = Len(Tail(stack)) + 1
      /\ Head(stack) = stack[1]
      /\ \A k \in 1 .. Len(Tail(stack)) : Tail(stack)[k] = stack[k + 1]
  OBVIOUS
<1>3. ASSUME PendingIn(stack, x) PROVE x \in Head(stack) \/ PendingIn(Tail(stack), x)
  <2>1. PICK k \in 1 .. Len(stack) : x \in stack[k]
    BY <1>3 DEF PendingIn
  <2>2. CASE k = 1
    BY <2>1, <2>2, <1>2
  <2>3. CASE k # 1
    <3>1. k - 1 \in 1 .. Len(Tail(stack)) /\ Tail(stack)[k - 1] = stack[(k - 1) + 1]
      BY <2>3, <1>2
    <3>2. x \in Tail(stack)[k - 1]
      BY <2>1, <3>1
    <3>3. DOMAIN Tail(stack) = 1 .. Len(Tail(stack))
      BY <1>1
    <3> QED BY <3>1, <3>2, <3>3, Zenon DEF PendingIn
  <2> QED BY <2>2, <2>3
<1>4. ASSUME x \in Head(stack) \/ PendingIn(Tail(stack), x) PROVE PendingIn(stack, x)
  <2>1. CASE x \in Head(stack)
    BY <2>1, <1>2 DEF PendingIn
  <2>2. CASE PendingIn(Tail(stack), x)
    <3>1. PICK k \in 1 .. Len(Tail(stack)) : x \in Tail(stack)[k]
      BY <2>2, <1>1 DEF PendingIn
    <3>2. k + 1 \in 1 .. Len(stack) /\ x \in stack[k + 1]
      BY <3>1, <1>2
    <3>3. DOMAIN stack = 1 .. Len(stack)
      OBVIOUS
    <3> QED BY <3>2, <3>3, Zenon DEF PendingIn
  <2> QED BY <1>4, <2>1, <2>2
<1> QED BY <1>1, <1>3, <1>4

-----------------------------------------------------------------------------
(* The invariant.                                                          *)

Found(f) == f \in parallel_functions \/ PendingIn(call_stack, <<f, TRUE>>)

\* The stack belongs to the traversal.
TraversalInv ==
  /\ phase # "collect" => call_stack = <<>>
  /\ phase = "collected" => functions = {}

\* The regions of what the outer loop has come to, and what the parallel
\* functions lead to, is found or about to be.
FollowedInv ==
  /\ \A f \in Function \ functions : \A r \in program.regions[f] : Found(r)
  /\ \A f \in parallel_functions :
       \A c \in program.calls[f] \cup program.regions[f] : Found(c)

\* What is found is in every closed set.
ExtraInv ==
  \A S \in SUBSET Function :
    ClosedUnderCalls(S) => \A f \in Function : Found(f) => f \in S

IInv == ParallelTypeOK /\ TraversalInv /\ FollowedInv /\ ExtraInv

\* The callees of a function of the module are functions of the module.
LEMMA CalleesType ==
  ASSUME program \in Programs, NEW f \in Function, NEW parallel \in BOOLEAN
  PROVE  /\ program.calls[f] \in SUBSET Function
         /\ program.regions[f] \in SUBSET Function
         /\ CalleesOf(f, parallel) \in SUBSET Callee
<1>1. program.calls \in [Function -> SUBSET Function]
      /\ program.regions \in [Function -> SUBSET Function]
  BY CallsAssumption
<1> QED BY <1>1 DEF CalleesOf, Callee

\* What one call of collectAllParallelFunctions leaves on the stack.
LEMMA CollectFollows ==
  ASSUME IInv, NEW f \in Function, NEW parallel \in BOOLEAN,
         NEW graph \in SUBSET Function, NEW callers \in Seq(SUBSET Callee),
         Collect(f, parallel, graph, callers)
  PROVE  /\ call_stack' \in Seq(SUBSET Callee)
         /\ call_graph' \in SUBSET Function
         /\ parallel_functions' \in SUBSET Function
         /\ parallel_functions \subseteq parallel_functions'
         /\ parallel_functions' \subseteq parallel_functions \cup {x \in {f} : parallel}
         /\ parallel => f \in parallel_functions'
         /\ \A x : PendingIn(callers, x) => PendingIn(call_stack', x)
         /\ \A x : PendingIn(call_stack', x) =>
              x \in CalleesOf(f, parallel) \/ PendingIn(callers, x)
         /\ f \notin parallel_functions /\ (parallel \/ f \notin graph) =>
              \A x \in CalleesOf(f, parallel) : PendingIn(call_stack', x)
<1>1. CalleesOf(f, parallel) \in SUBSET Callee
  BY CalleesType DEF IInv, ParallelTypeOK
<1>2. parallel_functions \in SUBSET Function
  BY DEF IInv, ParallelTypeOK
<1>3. CASE /\ f \in parallel_functions \/ (~ parallel /\ f \in graph)
           /\ call_graph' = graph
           /\ call_stack' = callers
           /\ UNCHANGED parallel_functions
  BY <1>2, <1>3
<1>4. CASE /\ f \notin parallel_functions
           /\ parallel \/ f \notin graph
           /\ parallel_functions' = parallel_functions \cup {x \in {f} : parallel}
           /\ call_graph' = graph \cup {x \in {f} : ~ parallel}
           /\ call_stack' = CallsToFollow(CalleesOf(f, parallel)) \o callers
  <2>1. call_stack' \in Seq(SUBSET Callee)
    <3>1. CallsToFollow(CalleesOf(f, parallel)) \in Seq(SUBSET Callee)
      BY <1>1, FollowType
    <3> QED BY <1>4, <3>1
  <2>2. \A x : PendingIn(call_stack', x) <=>
               x \in CalleesOf(f, parallel) \/ PendingIn(callers, x)
    <3>1. SUFFICES ASSUME NEW x
                   PROVE  PendingIn(call_stack', x) <=>
                            x \in CalleesOf(f, parallel) \/ PendingIn(callers, x)
      OBVIOUS
    <3>2. PICK callees \in SUBSET Callee : callees = CalleesOf(f, parallel)
      BY <1>1
    <3>3. call_stack' = CallsToFollow(callees) \o callers
      BY <1>4, <3>2
    <3>4. PendingIn(call_stack', x) <=> x \in callees \/ PendingIn(callers, x)
      BY <3>3, PendingPushed, Zenon
    <3> QED BY <3>2, <3>4
  <2> QED BY <1>2, <1>4, <2>1, <2>2
<1> QED BY <1>3, <1>4 DEF Collect

\* Found is kept by a call that follows f, where rest is what was pending without
\* it, and everything found afterwards was found or is led to by f.
LEMMA FoundKept ==
  ASSUME IInv, NEW f \in Function, NEW parallel \in BOOLEAN,
         NEW graph \in SUBSET Function, NEW callers \in Seq(SUBSET Callee),
         Collect(f, parallel, graph, callers),
         \A x : PendingIn(call_stack, x) => x = <<f, parallel>> \/ PendingIn(callers, x),
         \A x : PendingIn(callers, x) => PendingIn(call_stack, x)
  PROVE  /\ \A g : Found(g) => Found(g)'
         /\ \A g : Found(g)' =>
              \/ Found(g)
              \/ g = f /\ parallel
              \/ <<g, TRUE>> \in CalleesOf(f, parallel)
<1>1. ASSUME NEW g, Found(g) PROVE Found(g)'
  <2>1. CASE g \in parallel_functions
    BY <2>1, CollectFollows DEF Found
  <2>2. CASE PendingIn(call_stack, <<g, TRUE>>)
    <3>1. CASE <<g, TRUE>> = <<f, parallel>>
      BY <3>1, CollectFollows DEF Found
    <3>2. CASE PendingIn(callers, <<g, TRUE>>)
      <4>1. PendingIn(call_stack', <<g, TRUE>>)
        BY <3>2, CollectFollows
      <4> QED BY <4>1 DEF Found
    <3> QED BY <2>2, <3>1, <3>2
  <2> QED BY <1>1, <2>1, <2>2 DEF Found
<1>2. ASSUME NEW g, Found(g)'
      PROVE  Found(g) \/ (g = f /\ parallel) \/ <<g, TRUE>> \in CalleesOf(f, parallel)
  <2>1. CASE g \in parallel_functions'
    <3>1. g \in parallel_functions \cup {x \in {f} : parallel}
      BY <2>1, CollectFollows
    <3> QED BY <3>1 DEF Found
  <2>2. CASE PendingIn(call_stack', <<g, TRUE>>)
    <3>1. <<g, TRUE>> \in CalleesOf(f, parallel) \/ PendingIn(callers, <<g, TRUE>>)
      BY <2>2, CollectFollows
    <3> QED BY <3>1 DEF Found
  <2>3. g \in parallel_functions' \/ PendingIn(call_stack', <<g, TRUE>>)
    BY <1>2 DEF Found
  <2> QED BY <2>1, <2>2, <2>3
<1> QED BY <1>1, <1>2

\* What is pending besides the call that is taken from the stack.
LEMMA RestPending ==
  ASSUME call_stack \in Seq(SUBSET Callee), call_stack # <<>>, NEW y, y \in Head(call_stack),
         NEW callers, callers = CallsToFollow(Head(call_stack) \ {y}) \o Tail(call_stack)
  PROVE  /\ callers \in Seq(SUBSET Callee)
         /\ \A x : PendingIn(call_stack, x) => x = y \/ PendingIn(callers, x)
         /\ \A x : PendingIn(callers, x) => PendingIn(call_stack, x)
<1>1. Head(call_stack) \in SUBSET Callee /\ Tail(call_stack) \in Seq(SUBSET Callee)
  BY PendingSplit
<1>2. PICK rest \in SUBSET Callee : rest = Head(call_stack) \ {y}
  BY <1>1
<1>3. PICK below \in Seq(SUBSET Callee) : below = Tail(call_stack)
  BY <1>1
<1>4. callers = CallsToFollow(rest) \o below
  BY <1>2, <1>3
<1>5. callers \in Seq(SUBSET Callee)
  <2>1. PICK first \in Seq(SUBSET Callee) : first = CallsToFollow(rest)
    BY FollowType
  <2>2. first \o below \in Seq(SUBSET Callee)
    OBVIOUS
  <2> QED BY <1>4, <2>1, <2>2, Zenon
<1>6. ASSUME NEW x
      PROVE  /\ PendingIn(call_stack, x) => x = y \/ PendingIn(callers, x)
             /\ PendingIn(callers, x) => PendingIn(call_stack, x)
  <2>1. PendingIn(callers, x) <=> x \in rest \/ PendingIn(below, x)
    BY <1>4, PendingPushed, Zenon
  <2>2. PendingIn(call_stack, x) <=> x \in Head(call_stack) \/ PendingIn(below, x)
    BY <1>3, PendingSplit
  <2> QED BY <1>2, <2>1, <2>2
<1> QED BY <1>5, <1>6

-----------------------------------------------------------------------------
(* The steps.                                                              *)

LEMMA InitIInv == ParallelInit => IInv
<1> SUFFICES ASSUME ParallelInit PROVE IInv
  OBVIOUS
<1> USE DEF ParallelInit
<1>1. ParallelTypeOK
  BY DEF ParallelTypeOK, Phases
<1>2. \A x : ~ PendingIn(call_stack, x)
  BY DEF PendingIn
<1>3. TraversalInv
  BY DEF TraversalInv
<1>4. FollowedInv
  BY DEF FollowedInv
<1>5. ExtraInv
  BY <1>2 DEF ExtraInv, Found
<1> QED BY <1>1, <1>3, <1>4, <1>5 DEF IInv

\* A call of collectAllParallelFunctions that follows a callee, or starts at a
\* function of the outer loop, keeps what is true of found functions.
LEMMA CollectKeeps ==
  ASSUME IInv, phase = "collect", NEW f \in Function, NEW parallel \in BOOLEAN,
         NEW graph \in SUBSET Function, NEW callers \in Seq(SUBSET Callee),
         Collect(f, parallel, graph, callers),
         \A x : PendingIn(call_stack, x) => x = <<f, parallel>> \/ PendingIn(callers, x),
         \A x : PendingIn(callers, x) => PendingIn(call_stack, x),
         parallel => Found(f),
         \/ functions' = functions
         \/ functions' = functions \ {f} /\ graph = {},
         UNCHANGED <<program, phase>>
  PROVE  IInv'
<1>1. program \in Programs /\ functions \subseteq Function
  BY DEF IInv, ParallelTypeOK
<1>2. /\ program.calls[f] \in SUBSET Function
      /\ program.regions[f] \in SUBSET Function
  BY <1>1, CalleesType
<1>3. /\ \A g : Found(g) => Found(g)'
      /\ \A g : Found(g)' =>
           \/ Found(g)
           \/ g = f /\ parallel
           \/ <<g, TRUE>> \in CalleesOf(f, parallel)
  BY FoundKept
<1>4. ParallelTypeOK'
  BY <1>1, CollectFollows DEF IInv, ParallelTypeOK
<1>5. TraversalInv'
  BY DEF IInv, TraversalInv
<1>6. ASSUME NEW g \in Function \ functions', NEW r \in program.regions[g]
      PROVE  Found(r)'
  <2>1. CASE g \notin functions
    BY <1>3, <1>6, <2>1 DEF IInv, FollowedInv
  <2>2. CASE g = f /\ graph = {}
    <3>1. CASE f \in parallel_functions
      BY <1>3, <1>6, <2>2, <3>1 DEF IInv, FollowedInv
    <3>2. CASE f \notin parallel_functions
      <4>1. <<r, TRUE>> \in CalleesOf(f, parallel)
        BY <1>6, <2>2 DEF CalleesOf
      <4>2. PendingIn(call_stack', <<r, TRUE>>)
        BY <2>2, <3>2, <4>1, CollectFollows
      <4> QED BY <4>2 DEF Found
    <3> QED BY <3>1, <3>2
  <2> QED BY <1>6, <2>1, <2>2
<1>7. ASSUME NEW g \in parallel_functions', NEW c \in program.calls[g] \cup program.regions[g]
      PROVE  Found(c)'
  <2>1. CASE g \in parallel_functions
    BY <1>3, <1>7, <2>1 DEF IInv, FollowedInv
  <2>2. CASE g \notin parallel_functions
    <3>1. g = f /\ parallel
      BY <1>7, <2>2, CollectFollows
    <3>2. <<c, TRUE>> \in CalleesOf(f, parallel)
      BY <1>7, <3>1 DEF CalleesOf
    <3>3. PendingIn(call_stack', <<c, TRUE>>)
      BY <2>2, <3>1, <3>2, CollectFollows
    <3> QED BY <3>3 DEF Found
  <2> QED BY <2>1, <2>2
<1>8. ASSUME NEW S \in SUBSET Function, ClosedUnderCalls(S)', NEW g \in Function, Found(g)'
      PROVE  g \in S
  <2>1. ClosedUnderCalls(S)
    BY <1>8 DEF ClosedUnderCalls
  <2>2. CASE Found(g)
    BY <2>1, <2>2 DEF IInv, ExtraInv
  <2>3. CASE g = f /\ parallel
    BY <2>1, <2>3 DEF IInv, ExtraInv
  <2>4. CASE <<g, TRUE>> \in CalleesOf(f, parallel)
    <3>1. g \in program.regions[f] \/ (parallel /\ g \in program.calls[f])
      BY <2>4 DEF CalleesOf
    <3>2. parallel => f \in S
      BY <2>1 DEF IInv, ExtraInv
    <3> QED BY <2>1, <3>1, <3>2 DEF ClosedUnderCalls
  <2> QED BY <1>3, <1>8, <2>2, <2>3, <2>4
<1>9. FollowedInv'
  BY <1>6, <1>7 DEF FollowedInv
<1>10. ExtraInv'
  BY <1>8 DEF ExtraInv
<1> QED BY <1>4, <1>5, <1>9, <1>10 DEF IInv

LEMMA CollectFromIInv ==
  ASSUME IInv, NEW f \in Function, CollectFrom(f)
  PROVE  IInv'
<1>1. \A x : ~ PendingIn(call_stack, x)
  BY DEF CollectFrom, PendingIn
<1>2. PICK none \in SUBSET Function : none = {}
  OBVIOUS
<1>3. PICK empty \in Seq(SUBSET Callee) : empty = <<>>
  <2>1. <<>> \in Seq(SUBSET Callee)
    OBVIOUS
  <2> QED BY <2>1, Zenon
<1>4. \A x : ~ PendingIn(empty, x)
  BY <1>3 DEF PendingIn
<1>5. Collect(f, FALSE, none, empty)
  BY <1>2, <1>3 DEF CollectFrom
<1>6. /\ phase = "collect"
      /\ functions' = functions \ {f}
      /\ UNCHANGED <<program, phase>>
  BY DEF CollectFrom
<1> QED BY <1>1, <1>2, <1>4, <1>5, <1>6, CollectKeeps

LEMMA CollectCalleeIInv ==
  ASSUME IInv, NEW f \in Function, NEW parallel \in BOOLEAN, CollectCallee(f, parallel)
  PROVE  IInv'
<1>1. /\ call_stack \in Seq(SUBSET Callee)
      /\ call_graph \in SUBSET Function
      /\ call_stack # <<>>
      /\ <<f, parallel>> \in Head(call_stack)
  BY DEF IInv, ParallelTypeOK, CollectCallee
<1>2. phase = "collect"
  BY <1>1 DEF IInv, TraversalInv
<1>3. PICK callers : callers = CallsToFollow(Head(call_stack) \ {<<f, parallel>>})
                               \o Tail(call_stack)
  OBVIOUS
<1>4. /\ callers \in Seq(SUBSET Callee)
      /\ \A x : PendingIn(call_stack, x) => x = <<f, parallel>> \/ PendingIn(callers, x)
      /\ \A x : PendingIn(callers, x) => PendingIn(call_stack, x)
  BY <1>1, <1>3, RestPending
<1>5. Collect(f, parallel, call_graph, callers)
  BY <1>3 DEF CollectCallee
<1>6. parallel => Found(f)
  <2>1. PendingIn(call_stack, <<f, parallel>>)
    BY <1>1, PendingSplit
  <2> QED BY <2>1 DEF Found
<1>7. functions' = functions /\ UNCHANGED <<program, phase>>
  BY DEF CollectCallee
<1> QED BY <1>1, <1>2, <1>4, <1>5, <1>6, <1>7, CollectKeeps

\* The other steps leave alone what is found.
LEMMA PhaseIInv ==
  ASSUME IInv, CheckModule \/ Collected \/ UNCHANGED parallelVars
  PROVE  IInv'
<1>1. UNCHANGED <<program, functions, call_stack, call_graph, parallel_functions>>
  BY DEF CheckModule, Collected, parallelVars
<1>2. ParallelTypeOK'
  BY <1>1 DEF IInv, ParallelTypeOK, Phases, CheckModule, Collected, parallelVars
<1>3. TraversalInv'
  BY <1>1 DEF IInv, TraversalInv, CheckModule, Collected, parallelVars
<1>4. FollowedInv'
  BY <1>1 DEF IInv, FollowedInv, Found, PendingIn
<1>5. ExtraInv'
  BY <1>1 DEF IInv, ExtraInv, Found, PendingIn, ClosedUnderCalls
<1> QED BY <1>2, <1>3, <1>4, <1>5 DEF IInv

LEMMA NextIInv == IInv /\ [ParallelNext]_parallelVars => IInv'
  BY CollectFromIInv, CollectCalleeIInv, PhaseIInv DEF ParallelNext

LEMMA InvariantHolds == ParallelSpec => []IInv
  BY InitIInv, NextIInv, PTL DEF ParallelSpec

-----------------------------------------------------------------------------
\* A run of the passes and of the program is, for the traversal, a run of the
\* traversal: nothing else touches its variables.
THEOREM RemovalTraverses == Spec => ParallelSpec
<1>1. Init => ParallelInit
  BY DEF Init
<1>2. [Next]_vars => [ParallelNext]_parallelVars
  <2> SUFFICES ASSUME [Next]_vars
               PROVE  [ParallelNext]_parallelVars
    OBVIOUS
  <2>1. CASE RemoveSequential
    BY <2>1 DEF RemoveSequential, CollectAndCleanup, ParallelNext
  <2>2. CASE EliminateOnlyInCritical
    BY <2>2 DEF EliminateOnlyInCritical
  <2>3. CASE \E t \in Thread :
               \/ Execute(t) \/ Call(t) \/ Fork(t) \/ Join(t)
               \/ EnterCritical(t) \/ LeaveCritical(t)
               \/ \E u \in Thread : Create(t, u)
    BY <2>3 DEF Execute, Call, Fork, Join, EnterCritical, LeaveCritical, Create
  <2>4. CASE UNCHANGED vars
    BY <2>4 DEF vars
  <2> QED BY <2>1, <2>2, <2>3, <2>4 DEF Next
<1> QED BY <1>1, <1>2, PTL DEF Spec, ParallelSpec

\* When the traversal is over every region and all that a parallel function
\* calls is parallel: collect_and_cleanup takes no tsan call from them.
THEOREM NoneIsMissed == Spec => []NoneMissed
<1>1. IInv => NoneMissed
  <2> SUFFICES ASSUME IInv, phase = "collected"
               PROVE  ClosedUnderCalls(parallel_functions)
    BY DEF NoneMissed
  <2>1. functions = {} /\ \A x : ~ PendingIn(call_stack, x)
    BY DEF IInv, TraversalInv, PendingIn
  <2> QED BY <2>1 DEF IInv, FollowedInv, Found, ClosedUnderCalls
<1> QED BY <1>1, InvariantHolds, RemovalTraverses, PTL

\* Whatever set is closed under regions and their calls holds what the traversal
\* takes for parallel: it is the least one, no tsan call stays without need.
THEOREM NoneIsExtra == Spec => []NoneExtra
<1>1. IInv => NoneExtra
  BY DEF IInv, ExtraInv, Found, NoneExtra, ParallelTypeOK
<1> QED BY <1>1, InvariantHolds, RemovalTraverses, PTL

-----------------------------------------------------------------------------
(* What control reaches.                                                   *)

\* One more node, along the successors.
OneFurther(p, avoid) ==
  [X \in SUBSET Node(p) |-> X \cup ((UNION {p.nodes[n].succ : n \in X}) \ {avoid})]

LEMMA SuccessorsType ==
  ASSUME NEW p \in Programs, NEW n \in Node(p), NEW m \in p.nodes[n].succ
  PROVE  m \in Node(p) /\ p.nodes[m].fn = p.nodes[n].fn
  BY ProgramsAssumption

\* The recursive function repeats OneFurther as often as there are nodes.
LEMMA ReachedIterates ==
  ASSUME NEW p \in Programs, NEW from \in Node(p), NEW avoid
  PROVE  /\ OneFurther(p, avoid) \in [SUBSET Node(p) -> SUBSET Node(p)]
         /\ \A X \in SUBSET Node(p) : X \subseteq OneFurther(p, avoid)[X]
         /\ {from} \ {avoid} \in SUBSET Node(p)
         /\ IsFiniteSet(Node(p)) /\ Cardinality(Node(p)) \in Nat
         /\ \E g : /\ Iterates(g, OneFurther(p, avoid), {from} \ {avoid}, Cardinality(Node(p)))
                   /\ ReachedWithout(p, from, avoid) = g[Cardinality(Node(p))]
<1> DEFINE N == Cardinality(Node(p))
           start == {from} \ {avoid}
           next == OneFurther(p, avoid)
           repeated(h) == [k \in 0 .. N |->
                             IF k = 0 THEN start
                             ELSE h[k - 1] \cup ((UNION {p.nodes[n].succ : n \in h[k - 1]}) \ {avoid})]
<1>1. IsFiniteSet(Node(p)) /\ N \in Nat
  BY ProgramsAssumption, FS_CardinalityType
<1>2. next \in [SUBSET Node(p) -> SUBSET Node(p)]
  <2>1. ASSUME NEW X \in SUBSET Node(p)
        PROVE  UNION {p.nodes[n].succ : n \in X} \in SUBSET Node(p)
    BY SuccessorsType
  <2> QED BY <2>1 DEF OneFurther
<1>3. \A X \in SUBSET Node(p) : X \subseteq next[X]
  BY DEF OneFurther
<1>4. start \in SUBSET Node(p)
  OBVIOUS
<1>5. PICK g \in [0 .. N -> SUBSET Node(p)] : Iterates(g, next, start, N)
  <2> DEFINE S == SUBSET Node(p)
  <2>1. next \in [S -> S] /\ start \in S
    BY <1>2, <1>4
  <2> HIDE DEF S, next, start, N
  <2>2. \E h \in [0 .. N -> S] : Iterates(h, next, start, N)
    BY <1>1, <2>1, IterationExists
  <2> QED BY <2>2 DEF S
<1>6. g = repeated(g)
  <2>1. ASSUME NEW k \in 0 .. N PROVE g[k] = repeated(g)[k]
    <3>1. CASE k = 0
      BY <1>5, <3>1 DEF Iterates
    <3>2. CASE k # 0
      <4>1. k \in 1 .. N /\ k - 1 \in 0 .. N
        BY <1>1, <3>2
      <4>2. g[k] = next[g[k - 1]] /\ g[k - 1] \in SUBSET Node(p)
        BY <1>5, <4>1 DEF Iterates
      <4> QED BY <3>2, <4>2 DEF OneFurther
    <3> QED BY <3>1, <3>2
  <2> QED BY <1>5, <2>1
<1>7. PICK r : r = repeated(r) /\ ReachedWithout(p, from, avoid) = r[N]
  <2>1. ReachedWithout(p, from, avoid) = (CHOOSE h : h = repeated(h))[N]
    BY DEF ReachedWithout
  <2> HIDE DEF repeated
  <2>2. PICK r : r = (CHOOSE h : h = repeated(h))
    OBVIOUS
  <2>3. r = repeated(r)
    BY <1>6, <2>2
  <2> QED BY <2>1, <2>2, <2>3
<1>8. r[N] = g[N]
  <2> DEFINE Good == {n \in Nat : n \in 0 .. N => r[n] = g[n]}
  <2>0. \A k \in 0 .. N : r[k] = repeated(r)[k] /\ g[k] = repeated(g)[k]
    <3> HIDE DEF repeated
    <3> QED BY <1>6, <1>7, Zenon
  <2>1. 0 \in Good
    <3>1. 0 \in 0 .. N
      BY <1>1
    <3> QED BY <2>0, <3>1
  <2>2. ASSUME NEW n \in Nat, n \in Good PROVE n + 1 \in Good
    <3>1. CASE n + 1 \in 0 .. N
      <4>1. n \in 0 .. N /\ (n + 1) - 1 = n /\ n + 1 # 0
        BY <1>1, <3>1
      <4>2. r[n] = g[n]
        BY <2>2, <4>1
      <4>3. repeated(r)[n + 1] = repeated(g)[n + 1]
        BY <3>1, <4>1, <4>2
      <4>4. r[n + 1] = g[n + 1]
        <5> HIDE DEF repeated
        <5> QED BY <2>0, <3>1, <4>3, Zenon
      <4> QED BY <4>4
    <3>2. CASE n + 1 \notin 0 .. N
      BY <3>2
    <3> QED BY <3>1, <3>2
  <2> HIDE DEF Good
  <2>3. \A n \in Nat : n \in Good
    BY <2>1, <2>2, NatSetInduction
  <2> QED BY <1>1, <2>3 DEF Good
<1> QED BY <1>1, <1>2, <1>3, <1>4, <1>5, <1>7, <1>8

\* What is reached is closed under the successors, up to the node to avoid.
LEMMA ReachedClosed ==
  ASSUME NEW p \in Programs, NEW from \in Node(p), NEW avoid
  PROVE  /\ ReachedWithout(p, from, avoid) \subseteq Node(p)
         /\ from # avoid => from \in ReachedWithout(p, from, avoid)
         /\ \A n \in ReachedWithout(p, from, avoid) : \A m \in p.nodes[n].succ :
              m # avoid => m \in ReachedWithout(p, from, avoid)
         /\ avoid \notin ReachedWithout(p, from, avoid)
<1> DEFINE N == Cardinality(Node(p))
           R == ReachedWithout(p, from, avoid)
           next == OneFurther(p, avoid)
           start == {from} \ {avoid}
<1>1. /\ next \in [SUBSET Node(p) -> SUBSET Node(p)]
      /\ \A X \in SUBSET Node(p) : X \subseteq next[X]
      /\ start \in SUBSET Node(p)
      /\ IsFiniteSet(Node(p)) /\ N \in Nat
  BY ReachedIterates
<1>2. PICK g : Iterates(g, next, start, N) /\ R = g[N]
  BY ReachedIterates
<1>3. start \subseteq R /\ R \in SUBSET Node(p)
  <2> HIDE DEF next, start, N, R
  <2> QED BY <1>1, <1>2, IterationGrows
<1>4. next[R] = R
  <2>1. N >= Cardinality(Node(p))
    BY <1>1
  <2> HIDE DEF next, start, N, R
  <2> QED BY <1>1, <1>2, <2>1, IterationEnds
<1>5. ASSUME NEW n \in R, NEW m \in p.nodes[n].succ, m # avoid PROVE m \in R
  <2>1. m \in next[R]
    BY <1>3, <1>5 DEF OneFurther
  <2> QED BY <1>4, <2>1
<1>6. avoid \notin R
  <2> DEFINE X == Node(p) \ {avoid}
  <2>1. start \subseteq X
    OBVIOUS
  <2>2. ASSUME NEW Y \in SUBSET Node(p), Y \subseteq X PROVE next[Y] \subseteq X
    <3>1. next[Y] = Y \cup ((UNION {p.nodes[n].succ : n \in Y}) \ {avoid})
      BY DEF OneFurther
    <3>2. next[Y] \subseteq Node(p)
      BY <1>1
    <3> QED BY <2>2, <3>1, <3>2
  <2>3. \A Y \in SUBSET Node(p) : Y \subseteq X => next[Y] \subseteq X
    BY <2>2
  <2>4. R \subseteq X
    <3> DEFINE S == {Y \in SUBSET Node(p) : Y \subseteq X}
    <3>1. start \in S /\ \A Y \in S : next[Y] \in S
      <4> HIDE DEF next, start, N, R, X
      <4> QED BY <1>1, <2>1, <2>3
    <3>2. g[N] \in S
      <4> HIDE DEF next, start, N, R, X, S
      <4>1. N \in 0 .. N
        BY <1>1
      <4> QED BY <1>1, <1>2, <3>1, <4>1, IterationKeeps, Zenon
    <3> QED BY <1>2, <3>2
  <2> QED BY <2>4
<1> QED BY <1>3, <1>5, <1>6

\* It is the least such set.
LEMMA ReachedLeast ==
  ASSUME NEW p \in Programs, NEW from \in Node(p), NEW avoid, NEW X,
         from # avoid => from \in X,
         \A n \in X \cap Node(p) : \A m \in p.nodes[n].succ : m # avoid => m \in X
  PROVE  ReachedWithout(p, from, avoid) \subseteq X
<1> DEFINE N == Cardinality(Node(p))
           R == ReachedWithout(p, from, avoid)
           next == OneFurther(p, avoid)
           start == {from} \ {avoid}
<1>1. /\ next \in [SUBSET Node(p) -> SUBSET Node(p)]
      /\ start \in SUBSET Node(p)
      /\ N \in Nat
  BY ReachedIterates
<1>2. PICK g : Iterates(g, next, start, N) /\ R = g[N]
  BY ReachedIterates
<1>3. start \subseteq X
  OBVIOUS
<1>4. ASSUME NEW Y \in SUBSET Node(p), Y \subseteq X PROVE next[Y] \subseteq X
  <2>1. next[Y] = Y \cup ((UNION {p.nodes[n].succ : n \in Y}) \ {avoid})
    BY DEF OneFurther
  <2> QED BY <1>4, <2>1
<1>5. \A Y \in SUBSET Node(p) : Y \subseteq X => next[Y] \subseteq X
  BY <1>4
<1>6. g[N] \subseteq X
  <2> DEFINE S == {Y \in SUBSET Node(p) : Y \subseteq X}
  <2>1. start \in S /\ \A Y \in S : next[Y] \in S
    <3> HIDE DEF next, start, N, R
    <3> QED BY <1>1, <1>3, <1>5
  <2>2. g[N] \in S
    <3> HIDE DEF next, start, N, R, S
    <3>1. N \in 0 .. N
      BY <1>1
    <3> QED BY <1>1, <1>2, <2>1, <3>1, IterationKeeps, Zenon
  <2> QED BY <2>2
<1> QED BY <1>2, <1>6

\* Every run of the function of n comes to n, if it comes to it at all, along the
\* successors from the entry.
Visitable(p, n) ==
  \A X \in SUBSET Node(p) :
    p.entry[p.nodes[n].fn] \in X /\ (\A m \in X : p.nodes[m].succ \subseteq X) => n \in X

\* What the dominance says of an access holds of the runs: between the begin and the
\* end that it is compared with it is inside the region.
LEMMA DominatedInside ==
  ASSUME NEW p \in Programs, NEW n \in Node(p), NEW b \in RegionsAround(p, n),
         p.nodes[n].kind = "access", Visitable(p, n), FirstEnd(p, b) \in EndsOf(p, b)
  PROVE  n \in RegionFrom(p, b)
<1> DEFINE e == FirstEnd(p, b)
           entry == p.entry[p.nodes[n].fn]
           R1 == ReachedWithout(p, entry, n)
           R2 == ReachedWithout(p, entry, b)
           I == RegionFrom(p, b)
<1>1. /\ b \in Node(p) /\ p.nodes[b].kind = "critical" /\ p.nodes[b].fn = p.nodes[n].fn
      /\ e \in Node(p) /\ p.nodes[e].kind = "end_critical" /\ p.nodes[e].fn = p.nodes[n].fn
      /\ Dominates(p, b, n) /\ Dominates(p, n, e)
  BY DEF RegionsAround, NodesOfKind, EndsOf
<1>2. b # n /\ n # e /\ n \notin R2 /\ e \notin R1
  BY <1>1 DEF Dominates
<1>3. entry \in Node(p)
  BY ProgramsAssumption DEF BeginsAtEntry
<1>4. entry # n
  BY <1>2, <1>3, ReachedClosed
\* The begin leads into the region, which goes on to its end.
<1>5. ASSUME NEW m \in Node(p), m = b \/ (m \in I /\ m # e), NEW k \in p.nodes[m].succ
      PROVE  k \in I
  <2>1. k \in Node(p)
    BY SuccessorsType
  <2>2. CASE k = e
    BY <2>2 DEF RegionFrom
  <2>3. CASE m = b /\ k # e
    <3>1. k \in ReachedWithout(p, k, e)
      BY <2>1, <2>3, ReachedClosed
    <3> QED BY <2>3, <3>1 DEF RegionFrom
  <2>4. CASE m # b /\ k # e
    <3>1. PICK s \in p.nodes[b].succ : m \in ReachedWithout(p, s, e)
      BY <1>5, <2>4 DEF RegionFrom
    <3>2. s \in Node(p)
      BY <1>1, SuccessorsType
    <3>3. k \in ReachedWithout(p, s, e)
      BY <2>4, <3>1, <3>2, ReachedClosed
    <3> QED BY <3>3 DEF RegionFrom
  <2> QED BY <2>2, <2>3, <2>4
\* Before n is come to control is in the region or has not passed its begin.
<1>6. R1 \subseteq I \cup R2 \cup {b}
  <2> DEFINE X == R1 \cap (I \cup R2 \cup {b})
  <2>1. entry \in X
    BY <1>3, <1>4, ReachedClosed
  <2>2. ASSUME NEW m \in X \cap Node(p), NEW k \in p.nodes[m].succ, k # n PROVE k \in X
    <3>1. m \in Node(p) /\ k \in R1
      BY <1>3, <2>2, ReachedClosed
    <3>2. m # e
      BY <1>2
    <3>3. CASE m = b \/ m \in I
      BY <1>5, <3>1, <3>2, <3>3
    <3>4. CASE m \in R2
      BY <1>1, <1>3, <3>1, <3>4, ReachedClosed
    <3> QED BY <3>3, <3>4
  <2>3. R1 \subseteq X
    <3> HIDE DEF X
    <3> QED BY <1>3, <2>1, <2>2, ReachedLeast
  <2> QED BY <2>3
<1>7. SUFFICES ASSUME n \notin I PROVE FALSE
  OBVIOUS
<1>8. ASSUME NEW m \in R1, NEW k \in p.nodes[m].succ PROVE k \in R1
  <2>1. m \in Node(p)
    BY <1>3, ReachedClosed
  <2>2. CASE k = n
    <3>1. m \in I \cup R2 \cup {b} /\ m # e
      BY <1>2, <1>6
    <3>2. CASE m \in I \cup {b}
      BY <1>5, <1>7, <2>1, <2>2, <3>1, <3>2
    <3>3. CASE m \in R2
      BY <1>1, <1>2, <1>3, <2>2, <3>3, ReachedClosed
    <3> QED BY <3>1, <3>2, <3>3
  <2>3. CASE k # n
    BY <1>3, <2>3, ReachedClosed
  <2> QED BY <2>2, <2>3
<1>9. R1 \in SUBSET Node(p) /\ entry \in R1 /\ n \notin R1
  BY <1>3, <1>4, ReachedClosed
<1> QED BY <1>8, <1>9 DEF Visitable

-----------------------------------------------------------------------------
(* Where the threads are.                                                  *)

\* The regions a frame is in.
Holding(p, n) == {b \in NodesOfKind(p, "critical") : n \in RegionFrom(p, b)}

Places(p) == {n \in Node(p) : Visitable(p, n)}

\* The frames of a thread that is in the regions held: each region a frame is in is
\* held, and entered once.
FramesHold(p, frames, held) ==
  \A j \in DOMAIN frames : \A b \in Holding(p, frames[j]) :
    /\ p.nodes[b].what \in held
    /\ \A k \in DOMAIN frames : \A c \in Holding(p, frames[k]) :
         p.nodes[b].what = p.nodes[c].what => j = k /\ b = c

\* The main thread waits at a join, with frames of functions of S above it.
Waits(p, frames, S) ==
  \E k \in DOMAIN frames :
    /\ p.nodes[frames[k]].kind = "join"
    /\ \A j \in 1 .. k - 1 : p.nodes[frames[j]].fn \in S

FramesIn(p, frames, S) == \A k \in DOMAIN frames : p.nodes[frames[k]].fn \in S

\* A thread is moved: its first frame is replaced by a successor or returns.
Moved(p, frames, next) ==
  /\ frames # <<>>
  /\ \/ next = Tail(frames)
     \/ \E m \in p.nodes[Head(frames)].succ : next = <<m>> \o Tail(frames)

-----------------------------------------------------------------------------
(* Frames.                                                                 *)

LEMMA HeadTail ==
  ASSUME NEW S, NEW s \in Seq(S), s # <<>>
  PROVE  /\ Head(s) \in S /\ Head(s) = s[1] /\ 1 \in DOMAIN s
         /\ Tail(s) \in Seq(S)
         /\ \A k \in DOMAIN Tail(s) : k + 1 \in DOMAIN s /\ Tail(s)[k] = s[k + 1] /\ k \in Nat \ {0}
         /\ \A k \in DOMAIN s : k # 1 => k - 1 \in DOMAIN Tail(s) /\ Tail(s)[k - 1] = s[k]
  OBVIOUS

LEMMA Pushed ==
  ASSUME NEW S, NEW s \in Seq(S), NEW m \in S, NEW t, t = <<m>> \o s
  PROVE  /\ t \in Seq(S) /\ t # <<>>
         /\ 1 \in DOMAIN t /\ t[1] = m
         /\ \A k \in DOMAIN s : k \in Nat \ {0} /\ k + 1 \in DOMAIN t /\ t[k + 1] = s[k]
         /\ \A k \in DOMAIN t : k # 1 => k \in Nat /\ k - 1 \in DOMAIN s /\ t[k] = s[k - 1]
  OBVIOUS

LEMMA VisitableEntry ==
  ASSUME NEW p \in Programs, NEW f, BeginsAtEntry(p, f)
  PROVE  p.entry[f] \in Places(p)
  BY DEF BeginsAtEntry, Places, Visitable

LEMMA VisitableSucc ==
  ASSUME NEW p \in Programs, NEW n \in Places(p), NEW m \in p.nodes[n].succ
  PROVE  m \in Places(p)
<1>1. n \in Node(p) /\ Visitable(p, n)
  BY DEF Places
<1>2. m \in Node(p) /\ p.nodes[m].fn = p.nodes[n].fn
  BY <1>1, SuccessorsType
<1>3. Visitable(p, m)
  BY <1>1, <1>2 DEF Visitable
<1> QED BY <1>2, <1>3 DEF Places

\* A frame of a moved thread is one it had, or the successor of its first one.
LEMMA MovedFrames ==
  ASSUME NEW p \in Programs, NEW s \in Seq(Places(p)), NEW next, Moved(p, s, next)
  PROVE  /\ next \in Seq(Places(p))
         /\ \A S : FramesIn(p, s, S) => FramesIn(p, next, S)
         /\ \A S : Waits(p, s, S) /\ p.nodes[Head(s)].kind # "join" => Waits(p, next, S)
<1>1. /\ Head(s) \in Places(p) /\ Head(s) = s[1] /\ 1 \in DOMAIN s
      /\ Tail(s) \in Seq(Places(p))
      /\ \A k \in DOMAIN Tail(s) : k + 1 \in DOMAIN s /\ Tail(s)[k] = s[k + 1] /\ k \in Nat \ {0}
      /\ \A k \in DOMAIN s : k # 1 => k - 1 \in DOMAIN Tail(s) /\ Tail(s)[k - 1] = s[k]
  BY HeadTail DEF Moved
<1>2. CASE next = Tail(s)
  <2>1. ASSUME NEW S, FramesIn(p, s, S) PROVE FramesIn(p, next, S)
    BY <1>1, <1>2, <2>1 DEF FramesIn
  <2>2. ASSUME NEW S, Waits(p, s, S), p.nodes[Head(s)].kind # "join" PROVE Waits(p, next, S)
    <3>1. PICK k \in DOMAIN s : /\ p.nodes[s[k]].kind = "join"
                                /\ \A j \in 1 .. k - 1 : p.nodes[s[j]].fn \in S
      BY <2>2 DEF Waits
    <3>2. k # 1 /\ k \in Nat
      BY <1>1, <2>2, <3>1
    <3>3. k - 1 \in DOMAIN next /\ next[k - 1] = s[k]
      BY <1>1, <1>2, <3>2
    <3>4. ASSUME NEW j \in 1 .. (k - 1) - 1 PROVE p.nodes[next[j]].fn \in S
      <4>1. j + 1 \in 1 .. k - 1 /\ j + 1 \in DOMAIN s /\ j + 1 # 1 /\ (j + 1) - 1 = j
        BY <3>2
      <4>2. next[j] = s[j + 1]
        BY <1>1, <1>2, <4>1
      <4> QED BY <3>1, <4>1, <4>2
    <3> QED BY <3>1, <3>3, <3>4 DEF Waits
  <2> QED BY <1>1, <1>2, <2>1, <2>2
<1>3. CASE \E m \in p.nodes[Head(s)].succ : next = <<m>> \o Tail(s)
  <2>1. PICK m \in p.nodes[Head(s)].succ : next = <<m>> \o Tail(s)
    BY <1>3
  <2>2. /\ m \in Places(p) /\ Head(s) \in Node(p)
        /\ p.nodes[m].fn = p.nodes[Head(s)].fn
    BY <1>1, VisitableSucc, SuccessorsType DEF Places
  <2>3. /\ next \in Seq(Places(p))
        /\ 1 \in DOMAIN next /\ next[1] = m
        /\ \A k \in DOMAIN Tail(s) : k \in Nat \ {0} /\ k + 1 \in DOMAIN next /\ next[k + 1] = Tail(s)[k]
        /\ \A k \in DOMAIN next : k # 1 => k \in Nat /\ k - 1 \in DOMAIN Tail(s) /\ next[k] = Tail(s)[k - 1]
    BY <1>1, <2>1, <2>2, Pushed
  <2>4. \A k \in DOMAIN next : k # 1 => k \in DOMAIN s /\ next[k] = s[k]
    BY <1>1, <2>3
  <2>5. \A k \in DOMAIN s : k # 1 => k \in Nat /\ k \in DOMAIN next /\ next[k] = s[k]
    <3>1. ASSUME NEW k \in DOMAIN s, k # 1
          PROVE  k \in Nat /\ k \in DOMAIN next /\ next[k] = s[k]
      <4>1. k - 1 \in DOMAIN Tail(s) /\ Tail(s)[k - 1] = s[k] /\ k \in Nat /\ (k - 1) + 1 = k
        BY <1>1, <3>1
      <4> QED BY <2>3, <4>1
    <3> QED BY <3>1
  <2>6. ASSUME NEW S, FramesIn(p, s, S) PROVE FramesIn(p, next, S)
    BY <1>1, <2>2, <2>3, <2>4, <2>6 DEF FramesIn
  <2>7. ASSUME NEW S, Waits(p, s, S), p.nodes[Head(s)].kind # "join" PROVE Waits(p, next, S)
    <3>1. PICK k \in DOMAIN s : /\ p.nodes[s[k]].kind = "join"
                                /\ \A j \in 1 .. k - 1 : p.nodes[s[j]].fn \in S
      BY <2>7 DEF Waits
    <3>2. k # 1 /\ k \in DOMAIN next /\ next[k] = s[k] /\ k \in 1 .. Len(s)
      BY <1>1, <2>5, <2>7, <3>1
    <3>3. ASSUME NEW j \in 1 .. k - 1 PROVE p.nodes[next[j]].fn \in S
      <4>1. p.nodes[s[j]].fn \in S
        BY <3>1
      <4>2. CASE j = 1
        BY <1>1, <2>2, <2>3, <4>1, <4>2
      <4>3. CASE j # 1
        <5>1. j \in DOMAIN s
          BY <3>2
        <5> QED BY <2>5, <4>1, <4>3, <5>1
      <4> QED BY <4>2, <4>3
    <3> QED BY <3>1, <3>2, <3>3 DEF Waits
  <2> QED BY <2>3, <2>6, <2>7
<1> QED BY <1>2, <1>3 DEF Moved

\* A call puts the entry of a function before the frames.
LEMMA PushedFrames ==
  ASSUME NEW p \in Programs, NEW s \in Seq(Places(p)), NEW f, BeginsAtEntry(p, f),
         NEW next, next = <<p.entry[f]>> \o s
  PROVE  /\ next \in Seq(Places(p))
         /\ \A S : f \in S /\ FramesIn(p, s, S) => FramesIn(p, next, S)
         /\ \A S : f \in S /\ Waits(p, s, S) => Waits(p, next, S)
<1>1. p.entry[f] \in Places(p) /\ p.nodes[p.entry[f]].fn = f
  BY VisitableEntry DEF BeginsAtEntry
<1>2. /\ next \in Seq(Places(p))
      /\ 1 \in DOMAIN next /\ next[1] = p.entry[f]
      /\ \A k \in DOMAIN s : k \in Nat \ {0} /\ k + 1 \in DOMAIN next /\ next[k + 1] = s[k]
      /\ \A k \in DOMAIN next : k # 1 => k \in Nat /\ k - 1 \in DOMAIN s /\ next[k] = s[k - 1]
  BY <1>1, Pushed
<1>3. ASSUME NEW S, f \in S, FramesIn(p, s, S) PROVE FramesIn(p, next, S)
  BY <1>1, <1>2, <1>3 DEF FramesIn
<1>4. ASSUME NEW S, f \in S, Waits(p, s, S) PROVE Waits(p, next, S)
  <2>1. PICK k \in DOMAIN s : /\ p.nodes[s[k]].kind = "join"
                              /\ \A j \in 1 .. k - 1 : p.nodes[s[j]].fn \in S
    BY <1>4 DEF Waits
  <2>2. k \in Nat \ {0} /\ k \in 1 .. Len(s)
    BY <1>2
  <2>3. ASSUME NEW j \in 1 .. (k + 1) - 1 PROVE p.nodes[next[j]].fn \in S
    <3>1. CASE j = 1
      BY <1>1, <1>2, <1>4, <3>1
    <3>2. CASE j # 1
      <4>1. j - 1 \in 1 .. k - 1 /\ j - 1 \in DOMAIN s /\ (j - 1) + 1 = j
        BY <2>2, <3>2
      <4>2. next[j] = s[j - 1]
        BY <1>2, <4>1
      <4> QED BY <2>1, <4>1, <4>2
    <3> QED BY <3>1, <3>2
  <2> QED BY <1>2, <2>1, <2>3 DEF Waits
<1> QED BY <1>2, <1>3, <1>4

-----------------------------------------------------------------------------
(* Which regions the frames are in.                                        *)

LEMMA RegionSets ==
  ASSUME NEW p
  PROVE  /\ \A b \in NodesOfKind(p, "critical") : b \in Node(p)
         /\ \A n : Holding(p, n) \subseteq NodesOfKind(p, "critical")
  BY DEF NodesOfKind, Holding

\* A step within a function enters a region only at its begin, and leaves at its end.
LEMMA HoldingStep ==
  ASSUME NEW p \in Programs, StructuredRegions(p),
         NEW n \in Node(p), NEW m \in p.nodes[n].succ
  PROVE  /\ \A b \in Holding(p, m) : b \in Holding(p, n) \/ b = n
         /\ p.nodes[n].kind # "critical" => Holding(p, m) \subseteq Holding(p, n)
         /\ p.nodes[n].kind = "end_critical" =>
              \E b \in Holding(p, n) : /\ p.nodes[b].what = p.nodes[n].what
                                       /\ \A k \in p.nodes[n].succ : b \notin Holding(p, k)
<1>1. ASSUME NEW b \in Holding(p, m), b # n PROVE b \in Holding(p, n)
  <2>1. b \in NodesOfKind(p, "critical") /\ m \in RegionFrom(p, b)
    BY DEF Holding
  <2>2. n \in RegionFrom(p, b)
    BY <1>1, <2>1 DEF StructuredRegions
  <2> QED BY <2>1, <2>2 DEF Holding
<1>2. \A b \in Holding(p, m) : p.nodes[b].kind = "critical"
  BY DEF Holding, NodesOfKind
<1>3. ASSUME p.nodes[n].kind = "end_critical"
      PROVE  \E b \in Holding(p, n) : /\ p.nodes[b].what = p.nodes[n].what
                                       /\ \A k \in p.nodes[n].succ : b \notin Holding(p, k)
  <2>1. PICK b \in NodesOfKind(p, "critical") : FirstEnd(p, b) = n /\ p.nodes[b].what = p.nodes[n].what
    BY <1>3 DEF StructuredRegions, NodesOfKind
  <2>2. p.nodes[n].succ \cap RegionFrom(p, b) = {}
    BY <2>1 DEF StructuredRegions
  <2>3. n \in RegionFrom(p, b)
    BY <2>1 DEF RegionFrom
  <2> QED BY <2>1, <2>2, <2>3 DEF Holding
<1> QED BY <1>1, <1>2, <1>3

\* The entry of a function is in no region.
LEMMA EntryHoldsNothing ==
  ASSUME NEW p \in Programs, StructuredRegions(p), NEW f, BeginsAtEntry(p, f)
  PROVE  Holding(p, p.entry[f]) = {}
  BY DEF StructuredRegions, BeginsAtEntry, Holding

LEMMA PushedHold ==
  ASSUME NEW p \in Programs, NEW S, NEW s \in Seq(S), NEW m \in S, NEW held,
         FramesHold(p, s, held), Holding(p, m) = {}, NEW next, next = <<m>> \o s
  PROVE  FramesHold(p, next, held)
<1>1. /\ 1 \in DOMAIN next /\ next[1] = m
      /\ \A k \in DOMAIN next : k # 1 => k \in Nat /\ k - 1 \in DOMAIN s /\ next[k] = s[k - 1]
  BY Pushed
<1>2. ASSUME NEW j \in DOMAIN next, NEW b \in Holding(p, next[j])
      PROVE  /\ p.nodes[b].what \in held
             /\ \A k \in DOMAIN next : \A c \in Holding(p, next[k]) :
                  p.nodes[b].what = p.nodes[c].what => j = k /\ b = c
  <2>1. j \in Nat /\ j - 1 \in DOMAIN s /\ b \in Holding(p, s[j - 1])
    BY <1>1, <1>2
  <2>2. p.nodes[b].what \in held
    BY <2>1 DEF FramesHold
  <2>3. ASSUME NEW k \in DOMAIN next, NEW c \in Holding(p, next[k]),
               p.nodes[b].what = p.nodes[c].what
        PROVE  j = k /\ b = c
    <3>1. k \in Nat /\ k - 1 \in DOMAIN s /\ c \in Holding(p, s[k - 1])
      BY <1>1, <2>3
    <3>2. j - 1 = k - 1 /\ b = c
      BY <2>1, <2>3, <3>1 DEF FramesHold
    <3> QED BY <2>1, <3>1, <3>2
  <2> QED BY <2>2, <2>3
<1> QED BY <1>2 DEF FramesHold

LEMMA PoppedHold ==
  ASSUME NEW p \in Programs, NEW S, NEW s \in Seq(S), s # <<>>, NEW held,
         FramesHold(p, s, held)
  PROVE  FramesHold(p, Tail(s), held)
<1>1. \A k \in DOMAIN Tail(s) : k + 1 \in DOMAIN s /\ Tail(s)[k] = s[k + 1] /\ k \in Nat \ {0}
  BY HeadTail
<1>2. ASSUME NEW j \in DOMAIN Tail(s), NEW b \in Holding(p, Tail(s)[j])
      PROVE  /\ p.nodes[b].what \in held
             /\ \A k \in DOMAIN Tail(s) : \A c \in Holding(p, Tail(s)[k]) :
                  p.nodes[b].what = p.nodes[c].what => j = k /\ b = c
  <2>1. j + 1 \in DOMAIN s /\ b \in Holding(p, s[j + 1]) /\ j \in Nat
    BY <1>1, <1>2
  <2>2. p.nodes[b].what \in held
    BY <2>1 DEF FramesHold
  <2>3. ASSUME NEW k \in DOMAIN Tail(s), NEW c \in Holding(p, Tail(s)[k]),
               p.nodes[b].what = p.nodes[c].what
        PROVE  j = k /\ b = c
    <3>1. k \in Nat /\ k + 1 \in DOMAIN s /\ c \in Holding(p, s[k + 1])
      BY <1>1, <2>3
    <3>2. j + 1 = k + 1 /\ b = c
      BY <2>1, <2>3, <3>1 DEF FramesHold
    <3> QED BY <2>1, <3>1, <3>2
  <2> QED BY <2>2, <2>3
<1> QED BY <1>2 DEF FramesHold

\* Whatever set holds the names of what the frames are in will do.
LEMMA HoldLess ==
  ASSUME NEW p, NEW frames, NEW held, NEW less, FramesHold(p, frames, held),
         \A j \in DOMAIN frames : \A b \in Holding(p, frames[j]) : p.nodes[b].what \in less
  PROVE  FramesHold(p, frames, less)
  BY DEF FramesHold

\* The first frame is replaced.
LEMMA ReplacedAt ==
  ASSUME NEW S, NEW s \in Seq(S), s # <<>>, NEW m \in S, NEW next, next = <<m>> \o Tail(s)
  PROVE  /\ next \in Seq(S)
         /\ 1 \in DOMAIN next /\ next[1] = m
         /\ 1 \in DOMAIN s /\ s[1] = Head(s)
         /\ \A k \in DOMAIN next : k # 1 => k \in DOMAIN s /\ next[k] = s[k]
<1>1. next \in Seq(S) /\ DOMAIN next = 1 .. Len(s) /\ DOMAIN s = 1 .. Len(s)
  OBVIOUS
<1>2. ASSUME NEW k \in 1 .. Len(s), k # 1 PROVE next[k] = s[k]
  BY <1>2
<1> QED BY <1>1, <1>2

\* The frames of a thread that does not enter a region.
LEMMA MovedHold ==
  ASSUME NEW p \in Programs, StructuredRegions(p), NEW s \in Seq(Places(p)), NEW held,
         FramesHold(p, s, held), NEW next, Moved(p, s, next),
         p.nodes[Head(s)].kind # "critical"
  PROVE  FramesHold(p, next, held)
<1>1. CASE next = Tail(s)
  BY <1>1, PoppedHold DEF Moved
<1>2. CASE \E m \in p.nodes[Head(s)].succ : next = <<m>> \o Tail(s)
  <2>1. PICK m \in p.nodes[Head(s)].succ : next = <<m>> \o Tail(s)
    BY <1>2
  <2>2. s # <<>> /\ Head(s) \in Places(p) /\ Head(s) \in Node(p) /\ m \in Places(p)
    BY HeadTail, VisitableSucc DEF Moved, Places
  <2>3. /\ 1 \in DOMAIN s /\ s[1] = Head(s) /\ next[1] = m
        /\ \A k \in DOMAIN next : k # 1 => k \in DOMAIN s /\ next[k] = s[k]
    BY <2>1, <2>2, ReplacedAt
  <2>4. Holding(p, m) \subseteq Holding(p, Head(s))
    BY <2>2, HoldingStep
  <2>5. \A k \in DOMAIN next : k \in DOMAIN s /\ Holding(p, next[k]) \subseteq Holding(p, s[k])
    BY <2>3, <2>4
  <2> QED BY <2>5 DEF FramesHold
<1> QED BY <1>1, <1>2 DEF Moved

\* A thread that leaves a region was in no other one of that name.
LEMMA LeftHold ==
  ASSUME NEW p \in Programs, StructuredRegions(p), NEW s \in Seq(Places(p)), NEW held,
         FramesHold(p, s, held), NEW next, Moved(p, s, next),
         p.nodes[Head(s)].kind = "end_critical"
  PROVE  FramesHold(p, next, held \ {p.nodes[Head(s)].what})
<1>1. FramesHold(p, next, held)
  BY MovedHold
<1>2. /\ Head(s) \in Node(p) /\ Head(s) \in Places(p) /\ 1 \in DOMAIN s /\ s[1] = Head(s)
      /\ s # <<>>
  BY HeadTail DEF Moved, Places
<1>3. PICK b \in Holding(p, Head(s)) :
        /\ p.nodes[b].what = p.nodes[Head(s)].what
        /\ \A k \in p.nodes[Head(s)].succ : b \notin Holding(p, k)
  <2>1. CASE p.nodes[Head(s)].succ # {}
    BY <1>2, <2>1, HoldingStep
  <2>2. CASE p.nodes[Head(s)].succ = {}
    <3>1. PICK c \in NodesOfKind(p, "critical") :
            FirstEnd(p, c) = Head(s) /\ p.nodes[c].what = p.nodes[Head(s)].what
      BY <1>2 DEF StructuredRegions, NodesOfKind
    <3>2. c \in Holding(p, Head(s))
      BY <3>1 DEF Holding, RegionFrom
    <3> QED BY <2>2, <3>1, <3>2
  <2> QED BY <2>1, <2>2
<1>4. \A j \in DOMAIN s : \A c \in Holding(p, s[j]) :
        p.nodes[c].what = p.nodes[Head(s)].what => j = 1 /\ c = b
  BY <1>2, <1>3 DEF FramesHold
<1>5. ASSUME NEW j \in DOMAIN next, NEW c \in Holding(p, next[j])
      PROVE  p.nodes[c].what # p.nodes[Head(s)].what
  <2>1. CASE next = Tail(s)
    <3>1. j + 1 \in DOMAIN s /\ c \in Holding(p, s[j + 1]) /\ j \in Nat \ {0} /\ j + 1 # 1
      BY <1>2, <1>5, <2>1, HeadTail
    <3> QED BY <1>4, <3>1
  <2>2. CASE \E m \in p.nodes[Head(s)].succ : next = <<m>> \o Tail(s)
    <3>1. PICK m \in p.nodes[Head(s)].succ : next = <<m>> \o Tail(s)
      BY <2>2
    <3>2. m \in Places(p)
      BY <1>2, VisitableSucc
    <3>3. /\ next[1] = m
          /\ \A k \in DOMAIN next : k # 1 => k \in DOMAIN s /\ next[k] = s[k]
      BY <1>2, <3>1, <3>2, ReplacedAt
    <3>4. CASE j # 1
      BY <1>4, <1>5, <3>3, <3>4
    <3>5. CASE j = 1
      <4>1. c \in Holding(p, m) /\ c # b
        BY <1>3, <1>5, <3>3, <3>5
      <4>2. c \in Holding(p, Head(s))
        BY <1>2, <4>1, HoldingStep
      <4> QED BY <1>2, <1>4, <4>1, <4>2
    <3> QED BY <3>4, <3>5
  <2> QED BY <2>1, <2>2 DEF Moved
<1>6. \A j \in DOMAIN next : \A c \in Holding(p, next[j]) :
        p.nodes[c].what \in held \ {p.nodes[Head(s)].what}
  BY <1>1, <1>5 DEF FramesHold
<1> QED BY <1>1, <1>6, HoldLess

\* A thread enters no region of a name that it is in.
LEMMA EnteredHold ==
  ASSUME NEW p \in Programs, StructuredRegions(p), NEW s \in Seq(Places(p)), NEW held,
         FramesHold(p, s, held), NEW next, Moved(p, s, next),
         p.nodes[Head(s)].what \notin held
  PROVE  FramesHold(p, next, held \cup {p.nodes[Head(s)].what})
<1> DEFINE more == held \cup {p.nodes[Head(s)].what}
<1>1. /\ Head(s) \in Node(p) /\ Head(s) \in Places(p) /\ 1 \in DOMAIN s /\ s[1] = Head(s)
      /\ s # <<>>
  BY HeadTail DEF Moved, Places
<1>2. FramesHold(p, s, more)
  BY DEF FramesHold
<1>3. \A j \in DOMAIN s : \A c \in Holding(p, s[j]) : p.nodes[c].what # p.nodes[Head(s)].what
  BY DEF FramesHold
<1>4. CASE next = Tail(s)
  BY <1>1, <1>2, <1>4, PoppedHold
<1>5. CASE \E m \in p.nodes[Head(s)].succ : next = <<m>> \o Tail(s)
  <2>1. PICK m \in p.nodes[Head(s)].succ : next = <<m>> \o Tail(s)
    BY <1>5
  <2>2. m \in Places(p)
    BY <1>1, VisitableSucc
  <2>3. /\ next[1] = m
        /\ \A k \in DOMAIN next : k # 1 => k \in DOMAIN s /\ next[k] = s[k]
    BY <1>1, <2>1, <2>2, ReplacedAt
  <2>4. \A b \in Holding(p, m) : b \in Holding(p, Head(s)) \/ b = Head(s)
    BY <1>1, HoldingStep
  <2>5. \A k \in DOMAIN next : \A b \in Holding(p, next[k]) :
          \/ k \in DOMAIN s /\ b \in Holding(p, s[k])
          \/ k = 1 /\ b = Head(s)
    BY <1>1, <2>3, <2>4
  <2>6. ASSUME NEW j \in DOMAIN next, NEW b \in Holding(p, next[j])
        PROVE  /\ p.nodes[b].what \in more
               /\ \A k \in DOMAIN next : \A c \in Holding(p, next[k]) :
                    p.nodes[b].what = p.nodes[c].what => j = k /\ b = c
    <3>1. p.nodes[b].what \in more
      BY <1>2, <2>5, <2>6 DEF FramesHold
    <3>2. ASSUME NEW k \in DOMAIN next, NEW c \in Holding(p, next[k]),
                 p.nodes[b].what = p.nodes[c].what
          PROVE  j = k /\ b = c
      <4>1. CASE j \in DOMAIN s /\ b \in Holding(p, s[j])
        <5>1. k \in DOMAIN s /\ c \in Holding(p, s[k])
          BY <1>3, <2>5, <3>2, <4>1
        <5> QED BY <3>2, <4>1, <5>1 DEF FramesHold
      <4>2. CASE j = 1 /\ b = Head(s)
        BY <1>3, <2>5, <3>2, <4>2
      <4> QED BY <2>5, <2>6, <4>1, <4>2
    <3> QED BY <3>1, <3>2
  <2> HIDE DEF more
  <2>7. FramesHold(p, next, more)
    BY <2>6 DEF FramesHold
  <2> QED BY <2>7 DEF more
<1> QED BY <1>4, <1>5 DEF Moved

-----------------------------------------------------------------------------
(* The invariant of the passes and the runs.                               *)

\* The tsan calls that the removal in sequential code leaves.
Kept ==
  IF phase = "collected"
  THEN {n \in Accesses(program) : program.nodes[n].fn \in parallel_functions}
  ELSE Accesses(program)

CallsInv ==
  /\ phase \in {"collect", "collected"} => program.openmp_only
  /\ ~ eliminated => tsan_calls = Kept
  /\ eliminated => /\ phase \in {"collected", "refused"}
                   /\ tsan_calls = Kept \ RemovedInSameCritical(program, Kept)

\* Where the removal in sequential code is allowed the other threads are in parallel
\* functions, and so is the main thread until all of them are idle.
PositionsInv ==
  /\ position \in [Thread -> Seq(Places(program))]
  /\ ~ eliminated => \A u \in Thread \ {Main} : Idle(u)
  /\ phase = "collected" =>
       \A u \in Thread \ {Main} :
         /\ FramesIn(program, position[u], parallel_functions)
         /\ ~ Idle(u) => Waits(program, position[Main], parallel_functions)

\* No two threads are in critical regions of the same name, and a thread is in
\* those that its frames are in.
InsideInv ==
  /\ inside \in [Thread -> SUBSET {program.nodes[n].what : n \in Node(program)}]
  /\ \A t, u \in Thread : t # u => inside[t] \cap inside[u] = {}
  /\ StructuredRegions(program) =>
       \A t \in Thread : FramesHold(program, position[t], inside[t])

RInv == IInv /\ CallsInv /\ PositionsInv /\ InsideInv

-----------------------------------------------------------------------------
LEMMA ProgramKnown == RInv => program \in Programs
  BY DEF RInv, IInv, ParallelTypeOK

LEMMA WaitsHead ==
  ASSUME NEW p, NEW s, NEW S, NEW T, s \in Seq(T), s # <<>>, Waits(p, s, S),
         p.nodes[Head(s)].kind # "join"
  PROVE  p.nodes[Head(s)].fn \in S
<1>1. PICK k \in DOMAIN s : /\ p.nodes[s[k]].kind = "join"
                            /\ \A j \in 1 .. k - 1 : p.nodes[s[j]].fn \in S
  BY DEF Waits
<1>2. Head(s) = s[1] /\ k \in Nat \ {0}
  OBVIOUS
<1>3. k # 1
  BY <1>1, <1>2
<1>4. 1 \in 1 .. k - 1
  BY <1>2, <1>3
<1> QED BY <1>1, <1>2, <1>4

LEMMA ContinueMoves ==
  ASSUME RInv, NEW t \in Thread, position[t] # <<>>, NEW next \in Continue(t)
  PROVE  Moved(program, position[t], next)
  BY DEF Continue, Current, Moved

\* One thread moves.
LEMMA PositionsKept ==
  ASSUME RInv, eliminated, NEW t \in Thread, NEW next \in Seq(Places(program)),
         position' = [position EXCEPT ![t] = next], UNCHANGED <<parallelVars, eliminated>>,
         position[t] # <<>>,
         \A S : FramesIn(program, position[t], S) /\ phase = "collected" /\ S = parallel_functions
                  => FramesIn(program, next, S),
         \/ t # Main
         \/ \A u \in Thread \ {Main} : Idle(u)
         \/ \A S : Waits(program, position[t], S) /\ phase = "collected" /\ S = parallel_functions
                     => Waits(program, next, S)
  PROVE  PositionsInv'
<1> USE DEF RInv, PositionsInv, Idle
<1>1. /\ program' = program /\ phase' = phase /\ parallel_functions' = parallel_functions
      /\ eliminated' = eliminated
  BY DEF parallelVars
<1>2. /\ position' \in [Thread -> Seq(Places(program))]
      /\ position'[t] = next
      /\ \A u \in Thread \ {t} : position'[u] = position[u]
  OBVIOUS
<1>3. ASSUME phase = "collected", NEW u \in Thread \ {Main}
      PROVE  /\ FramesIn(program, position'[u], parallel_functions)
             /\ position'[u] # <<>> => Waits(program, position'[Main], parallel_functions)
  <2>0. Main \in Thread
    BY ThreadsAssumption
  <2>1. FramesIn(program, position'[u], parallel_functions)
    BY <1>2, <1>3
  <2>2. ASSUME position'[u] # <<>> PROVE Waits(program, position'[Main], parallel_functions)
    <3>1. CASE t = Main
      <4>1. position[u] # <<>>
        BY <1>2, <2>2, <3>1
      <4> QED BY <1>2, <1>3, <3>1, <4>1
    <3>2. CASE t # Main
      <4>1. position[u] # <<>>
        BY <1>2, <2>2
      <4> QED BY <1>2, <1>3, <2>0, <3>2, <4>1
    <3> QED BY <3>1, <3>2
  <2> QED BY <2>1, <2>2
<1> QED BY <1>1, <1>2, <1>3

LEMMA ThreadKeepsCalls ==
  ASSUME RInv, UNCHANGED <<parallelVars, tsan_calls, eliminated>>
  PROVE  CallsInv' /\ IInv'
<1>1. CallsInv'
  BY DEF RInv, CallsInv, Kept, parallelVars
<1>2. IInv'
  BY PhaseIInv DEF RInv
<1> QED BY <1>1, <1>2

\* One thread moves and stays in the regions it is in.
LEMMA InsideKept ==
  ASSUME RInv, NEW t \in Thread, NEW next,
         position' = [position EXCEPT ![t] = next], UNCHANGED <<parallelVars, inside>>,
         StructuredRegions(program) => FramesHold(program, next, inside[t])
  PROVE  InsideInv'
<1>1. program' = program /\ inside' = inside
  BY DEF parallelVars
<1>2. \A u \in Thread : position'[u] = IF u = t THEN next ELSE position[u]
  BY DEF RInv, PositionsInv
<1> QED BY <1>1, <1>2 DEF RInv, InsideInv

LEMMA ExecuteRInv ==
  ASSUME RInv, NEW t \in Thread, Execute(t)
  PROVE  RInv'
<1>1. PICK next \in Continue(t) :
        /\ eliminated /\ position[t] # <<>>
        /\ program.nodes[Head(position[t])].kind \in {"plain", "access"}
        /\ position' = [position EXCEPT ![t] = next]
        /\ UNCHANGED <<parallelVars, tsan_calls, eliminated, inside>>
  BY DEF Execute, Proceed, At
<1>2. Moved(program, position[t], next)
  BY <1>1, ContinueMoves
<1>3. program \in Programs /\ position[t] \in Seq(Places(program))
  BY ProgramKnown DEF RInv, PositionsInv
<1>4. PositionsInv'
  BY <1>1, <1>2, <1>3, MovedFrames, PositionsKept
<1>5. InsideInv'
  <2>1. StructuredRegions(program) => FramesHold(program, next, inside[t])
    BY <1>1, <1>2, <1>3, MovedHold DEF RInv, InsideInv
  <2> QED BY <1>1, <2>1, InsideKept
<1> QED BY <1>1, <1>4, <1>5, ThreadKeepsCalls DEF RInv

LEMMA JoinRInv ==
  ASSUME RInv, NEW t \in Thread, Join(t)
  PROVE  RInv'
<1>1. PICK next \in Continue(t) :
        /\ eliminated /\ position[t] # <<>>
        /\ program.nodes[Head(position[t])].kind = "join"
        /\ \A u \in Thread \ {t} : Idle(u)
        /\ position' = [position EXCEPT ![t] = next]
        /\ UNCHANGED <<parallelVars, tsan_calls, eliminated, inside>>
  BY DEF Join, Proceed, At
<1>2. Moved(program, position[t], next)
  BY <1>1, ContinueMoves
<1>3. program \in Programs /\ position[t] \in Seq(Places(program))
  BY ProgramKnown DEF RInv, PositionsInv
<1>4. PositionsInv'
  BY <1>1, <1>2, <1>3, MovedFrames, PositionsKept
<1>5. InsideInv'
  <2>1. StructuredRegions(program) => FramesHold(program, next, inside[t])
    BY <1>1, <1>2, <1>3, MovedHold DEF RInv, InsideInv
  <2> QED BY <1>1, <2>1, InsideKept
<1> QED BY <1>1, <1>4, <1>5, ThreadKeepsCalls DEF RInv

\* What a function that runs beside others calls is a parallel function.
LEMMA CalledBeside ==
  ASSUME RInv, NEW n \in Node(program), phase = "collected",
         program.nodes[n].kind = "fork"
           \/ (program.nodes[n].kind = "call" /\ program.nodes[n].fn \in parallel_functions)
  PROVE  program.nodes[n].what \in parallel_functions
<1>1. program \in Programs
  BY ProgramKnown
<1>2. /\ program.nodes[n].fn \in Function
      /\ program.nodes[n].kind = "call" => program.nodes[n].what \in program.calls[program.nodes[n].fn]
      /\ program.nodes[n].kind = "fork" => program.nodes[n].what \in program.regions[program.nodes[n].fn]
  BY <1>1, ProgramsAssumption
<1>3. functions = {} /\ call_stack = <<>>
  BY DEF RInv, IInv, TraversalInv
<1>4. \A f : Found(f) => f \in parallel_functions
  BY <1>3 DEF Found, PendingIn
<1> QED BY <1>2, <1>3, <1>4 DEF RInv, IInv, FollowedInv

LEMMA CallRInv ==
  ASSUME RInv, NEW t \in Thread, Call(t)
  PROVE  RInv'
<1> DEFINE n == Head(position[t])
           f == program.nodes[n].what
<1>1. PICK next \in Continue(t) :
        /\ eliminated /\ position[t] # <<>>
        /\ program.nodes[n].kind = "call"
        /\ position' = [position EXCEPT ![t] = <<program.entry[f]>> \o next]
        /\ UNCHANGED <<parallelVars, tsan_calls, eliminated, inside>>
  BY DEF Call, At, Current
<1>2. Moved(program, position[t], next)
  BY <1>1, ContinueMoves
<1>3. program \in Programs /\ position[t] \in Seq(Places(program))
  BY ProgramKnown DEF RInv, PositionsInv
<1>4. n \in Places(program) /\ n \in Node(program) /\ n = position[t][1] /\ 1 \in DOMAIN position[t]
  BY <1>1, <1>3, HeadTail DEF Places
<1>5. BeginsAtEntry(program, f)
  BY <1>1, <1>3, <1>4, ProgramsAssumption
<1>6. PICK pushed : pushed = <<program.entry[f]>> \o next
  OBVIOUS
<1>7. /\ next \in Seq(Places(program))
      /\ \A S : FramesIn(program, position[t], S) => FramesIn(program, next, S)
      /\ \A S : Waits(program, position[t], S) => Waits(program, next, S)
  BY <1>1, <1>2, <1>3, MovedFrames
<1>8. /\ pushed \in Seq(Places(program))
      /\ \A S : f \in S /\ FramesIn(program, next, S) => FramesIn(program, pushed, S)
      /\ \A S : f \in S /\ Waits(program, next, S) => Waits(program, pushed, S)
  <2> HIDE DEF n, f
  <2> QED BY <1>3, <1>5, <1>6, <1>7, PushedFrames
<1>9. ASSUME phase = "collected", FramesIn(program, position[t], parallel_functions)
               \/ Waits(program, position[t], parallel_functions)
      PROVE  f \in parallel_functions
  <2>1. program.nodes[n].fn \in parallel_functions
    BY <1>1, <1>3, <1>4, <1>9, WaitsHead DEF FramesIn
  <2> QED BY <1>1, <1>4, <1>9, <2>1, CalledBeside
<1>10. PositionsInv'
  <2> HIDE DEF n, f
  <2> QED BY <1>1, <1>6, <1>7, <1>8, <1>9, PositionsKept
<1>11. InsideInv'
  <2>1. ASSUME StructuredRegions(program) PROVE FramesHold(program, pushed, inside[t])
    <3>1. FramesHold(program, next, inside[t])
      BY <1>1, <1>2, <1>3, <2>1, MovedHold DEF RInv, InsideInv
    <3>2. Holding(program, program.entry[f]) = {} /\ program.entry[f] \in Places(program)
      BY <1>3, <1>5, <2>1, EntryHoldsNothing, VisitableEntry
    <3> HIDE DEF n, f
    <3> QED BY <1>3, <1>6, <1>7, <3>1, <3>2, PushedHold
  <2> QED BY <1>1, <1>6, <2>1, InsideKept
<1> QED BY <1>1, <1>10, <1>11, ThreadKeepsCalls DEF RInv

\* The team starts: the main thread waits for it.
LEMMA ForkRInv ==
  ASSUME RInv, NEW t \in Thread, Fork(t)
  PROVE  RInv'
<1> DEFINE n == Head(position[t])
           f == program.nodes[n].what
           P == Places(program)
<1>1. PICK next \in Continue(t) :
        /\ eliminated /\ position[t] # <<>> /\ t = Main
        /\ program.nodes[n].kind = "fork"
        /\ \A u \in Thread \ {t} : Idle(u)
        /\ position' = [u \in Thread |-> <<program.entry[f]>> \o IF u = t THEN next ELSE <<>>]
        /\ UNCHANGED <<parallelVars, tsan_calls, eliminated, inside>>
  BY DEF Fork, At, Current
<1>2. Moved(program, position[t], next)
  BY <1>1, ContinueMoves
<1>3. program \in Programs /\ position[t] \in Seq(P)
  BY ProgramKnown DEF RInv, PositionsInv
<1>4. n \in P /\ n \in Node(program) /\ Tail(position[t]) \in Seq(P)
  BY <1>1, <1>3, HeadTail DEF Places
<1>5. /\ BeginsAtEntry(program, f)
      /\ program.nodes[n].succ # {}
      /\ \A m \in program.nodes[n].succ : program.nodes[m].kind = "join"
  BY <1>1, <1>3, <1>4, ProgramsAssumption
<1>6. PICK m \in program.nodes[n].succ : next = <<m>> \o Tail(position[t])
  BY <1>1, <1>5 DEF Continue, Current
<1>7. m \in P /\ next \in Seq(P) /\ \A S : Waits(program, next, S)
  <2>1. m \in P
    BY <1>3, <1>4, VisitableSucc
  <2>2. next \in Seq(P) /\ 1 \in DOMAIN next /\ next[1] = m
    BY <1>4, <1>6, <2>1, Pushed
  <2>3. \A S : Waits(program, next, S)
    <3>1. \A S : \A j \in 1 .. 1 - 1 : program.nodes[next[j]].fn \in S
      OBVIOUS
    <3> QED BY <1>5, <2>2, <3>1 DEF Waits
  <2> QED BY <2>1, <2>2, <2>3
<1>8. <<>> \in Seq(P) /\ (\A S : FramesIn(program, <<>>, S))
      /\ (\A held : FramesHold(program, <<>>, held))
  BY DEF FramesIn, FramesHold
<1>9. \A u \in Thread : position'[u] = <<program.entry[f]>> \o (IF u = t THEN next ELSE <<>>)
  BY <1>1
<1>10. ASSUME NEW u \in Thread
       PROVE  /\ position'[u] \in Seq(P)
              /\ \A S : f \in S /\ u # t => FramesIn(program, position'[u], S)
              /\ \A S : f \in S /\ u = t => Waits(program, position'[u], S)
  <2>1. PICK rest : rest = IF u = t THEN next ELSE <<>>
    OBVIOUS
  <2>2. rest \in Seq(P) /\ position'[u] = <<program.entry[f]>> \o rest
    BY <1>7, <1>8, <1>9, <2>1
  <2>3. /\ position'[u] \in Seq(P)
        /\ \A S : f \in S /\ FramesIn(program, rest, S) => FramesIn(program, position'[u], S)
        /\ \A S : f \in S /\ Waits(program, rest, S) => Waits(program, position'[u], S)
    <3> HIDE DEF n, f
    <3> QED BY <1>3, <1>5, <2>2, PushedFrames
  <2> QED BY <1>7, <1>8, <2>1, <2>3
<1>11. phase = "collected" => f \in parallel_functions
  BY <1>1, <1>4, CalledBeside
<1>12. /\ program' = program /\ phase' = phase /\ parallel_functions' = parallel_functions
       /\ eliminated' = eliminated /\ inside' = inside
  BY <1>1 DEF parallelVars
<1>13. PositionsInv'
  <2> HIDE DEF n, f
  <2>1. position' \in [Thread -> Seq(P)]
    BY <1>1, <1>10
  <2>2. Main \in Thread /\ t = Main
    BY <1>1
  <2> QED BY <1>1, <1>10, <1>11, <1>12, <2>1, <2>2 DEF PositionsInv
<1>14. InsideInv'
  <2>1. ASSUME StructuredRegions(program), NEW u \in Thread
        PROVE  FramesHold(program, position'[u], inside[u])
    <3>1. PICK rest : rest = IF u = t THEN next ELSE <<>>
      OBVIOUS
    <3>2. rest \in Seq(P) /\ position'[u] = <<program.entry[f]>> \o rest
      BY <1>7, <1>8, <1>9, <3>1
    <3>3. FramesHold(program, rest, inside[u])
      <4>1. CASE u = t
        <5>1. FramesHold(program, next, inside[t])
          BY <1>1, <1>2, <1>3, <2>1, MovedHold DEF RInv, InsideInv
        <5> QED BY <3>1, <4>1, <5>1
      <4>2. CASE u # t
        BY <1>8, <3>1, <4>2
      <4> QED BY <4>1, <4>2
    <3>4. Holding(program, program.entry[f]) = {} /\ program.entry[f] \in P
      BY <1>3, <1>5, <2>1, EntryHoldsNothing, VisitableEntry
    <3> HIDE DEF n, f
    <3> QED BY <1>3, <3>2, <3>3, <3>4, PushedHold
  <2> QED BY <1>12, <2>1 DEF RInv, InsideInv
<1> QED BY <1>1, <1>13, <1>14, ThreadKeepsCalls DEF RInv

\* A thread of another library: the removal in sequential code has been refused.
LEMMA CreateRInv ==
  ASSUME RInv, NEW t \in Thread, NEW u \in Thread, Create(t, u)
  PROVE  RInv'
<1> DEFINE n == Head(position[t])
           f == program.nodes[n].what
           P == Places(program)
<1>1. PICK next \in Continue(t) :
        /\ eliminated /\ position[t] # <<>> /\ position[u] = <<>>
        /\ program.nodes[n].kind = "create"
        /\ position' = [position EXCEPT ![t] = next, ![u] = <<program.entry[f]>>]
        /\ UNCHANGED <<parallelVars, tsan_calls, eliminated, inside>>
  BY DEF Create, At, Current, Idle
<1>2. Moved(program, position[t], next)
  BY <1>1, ContinueMoves
<1>3. program \in Programs /\ position[t] \in Seq(P)
  BY ProgramKnown DEF RInv, PositionsInv
<1>4. n \in P /\ n \in Node(program)
  BY <1>1, <1>3, HeadTail DEF Places
<1>5. BeginsAtEntry(program, f) /\ ~ program.openmp_only
  BY <1>1, <1>3, <1>4, ProgramsAssumption
<1>6. phase # "collected"
  BY <1>5 DEF RInv, CallsInv
<1>7. next \in Seq(P) /\ program.entry[f] \in P
  BY <1>2, <1>3, <1>5, MovedFrames, VisitableEntry
<1>8. /\ program' = program /\ phase' = phase /\ eliminated' = eliminated /\ inside' = inside
  BY <1>1 DEF parallelVars
<1>9. \A v \in Thread : position'[v] = IF v = u THEN <<program.entry[f]>>
                                       ELSE IF v = t THEN next ELSE position[v]
  BY <1>1 DEF RInv, PositionsInv
<1>10. PositionsInv'
  <2>1. <<program.entry[f]>> \in Seq(P)
    BY <1>7
  <2>2. position' \in [Thread -> Seq(P)]
    BY <1>1, <1>7, <2>1 DEF RInv, PositionsInv
  <2> QED BY <1>1, <1>6, <1>8, <2>2 DEF PositionsInv
<1>11. InsideInv'
  <2>1. ASSUME StructuredRegions(program), NEW v \in Thread
        PROVE  FramesHold(program, position'[v], inside[v])
    <3>1. FramesHold(program, next, inside[t])
      BY <1>1, <1>2, <1>3, <2>1, MovedHold DEF RInv, InsideInv
    <3>2. Holding(program, program.entry[f]) = {}
      BY <1>3, <1>5, <2>1, EntryHoldsNothing
    <3>3. FramesHold(program, <<program.entry[f]>>, inside[v])
      <4>1. PICK frames : frames = <<program.entry[f]>>
        OBVIOUS
      <4>2. \A k \in DOMAIN frames : Holding(program, frames[k]) = {}
        BY <3>2, <4>1
      <4> QED BY <4>1, <4>2 DEF FramesHold
    <3>4. FramesHold(program, position[v], inside[v])
      BY <2>1 DEF RInv, InsideInv
    <3> QED BY <1>9, <3>1, <3>3, <3>4
  <2> QED BY <1>8, <2>1 DEF RInv, InsideInv
<1> QED BY <1>1, <1>10, <1>11, ThreadKeepsCalls DEF RInv

LEMMA EnterRInv ==
  ASSUME RInv, NEW t \in Thread, EnterCritical(t)
  PROVE  RInv'
<1> DEFINE n == Head(position[t])
           name == program.nodes[n].what
<1>1. PICK next \in Continue(t) :
        /\ eliminated /\ position[t] # <<>>
        /\ program.nodes[n].kind = "critical"
        /\ position' = [position EXCEPT ![t] = next]
        /\ \A u \in Thread : name \notin inside[u]
        /\ inside' = [inside EXCEPT ![t] = inside[t] \cup {name}]
        /\ UNCHANGED <<parallelVars, tsan_calls, eliminated>>
  BY DEF EnterCritical, Proceed, At, Current
<1>2. Moved(program, position[t], next)
  BY <1>1, ContinueMoves
<1>3. program \in Programs /\ position[t] \in Seq(Places(program))
  BY ProgramKnown DEF RInv, PositionsInv
<1>4. PositionsInv'
  BY <1>1, <1>2, <1>3, MovedFrames, PositionsKept
<1>5. InsideInv'
  <2>1. n \in Node(program)
    BY <1>1, <1>3, HeadTail DEF Places
  <2>2. program' = program
    BY <1>1 DEF parallelVars
  <2>3. \A u \in Thread : position'[u] = IF u = t THEN next ELSE position[u]
    BY <1>1 DEF RInv, PositionsInv
  <2>4. \A u \in Thread : inside'[u] = IF u = t THEN inside[t] \cup {name} ELSE inside[u]
    BY <1>1 DEF RInv, InsideInv
  <2>5. inside' \in [Thread -> SUBSET {program.nodes[k].what : k \in Node(program)}]
    BY <1>1, <2>1 DEF RInv, InsideInv
  <2>6. \A v, u \in Thread : v # u => inside'[v] \cap inside'[u] = {}
    BY <1>1, <2>4 DEF RInv, InsideInv
  <2>7. ASSUME StructuredRegions(program), NEW u \in Thread
        PROVE  FramesHold(program, position'[u], inside'[u])
    <3>1. FramesHold(program, next, inside[t] \cup {name})
      BY <1>1, <1>2, <1>3, <2>7, EnteredHold DEF RInv, InsideInv
    <3>2. FramesHold(program, position[u], inside[u])
      BY <2>7 DEF RInv, InsideInv
    <3> QED BY <2>3, <2>4, <3>1, <3>2
  <2> QED BY <2>2, <2>5, <2>6, <2>7 DEF InsideInv
<1> QED BY <1>1, <1>4, <1>5, ThreadKeepsCalls DEF RInv

LEMMA LeaveRInv ==
  ASSUME RInv, NEW t \in Thread, LeaveCritical(t)
  PROVE  RInv'
<1> DEFINE n == Head(position[t])
           name == program.nodes[n].what
<1>1. PICK next \in Continue(t) :
        /\ eliminated /\ position[t] # <<>>
        /\ program.nodes[n].kind = "end_critical"
        /\ position' = [position EXCEPT ![t] = next]
        /\ inside' = [inside EXCEPT ![t] = inside[t] \ {name}]
        /\ UNCHANGED <<parallelVars, tsan_calls, eliminated>>
  BY DEF LeaveCritical, Proceed, At, Current
<1>2. Moved(program, position[t], next)
  BY <1>1, ContinueMoves
<1>3. program \in Programs /\ position[t] \in Seq(Places(program))
  BY ProgramKnown DEF RInv, PositionsInv
<1>4. PositionsInv'
  BY <1>1, <1>2, <1>3, MovedFrames, PositionsKept
<1>5. InsideInv'
  <2>2. program' = program
    BY <1>1 DEF parallelVars
  <2>3. \A u \in Thread : position'[u] = IF u = t THEN next ELSE position[u]
    BY <1>1 DEF RInv, PositionsInv
  <2>4. \A u \in Thread : inside'[u] = IF u = t THEN inside[t] \ {name} ELSE inside[u]
    BY <1>1 DEF RInv, InsideInv
  <2>5. inside' \in [Thread -> SUBSET {program.nodes[k].what : k \in Node(program)}]
    BY <1>1 DEF RInv, InsideInv
  <2>6. \A v, u \in Thread : v # u => inside'[v] \cap inside'[u] = {}
    BY <1>1, <2>4 DEF RInv, InsideInv
  <2>7. ASSUME StructuredRegions(program), NEW u \in Thread
        PROVE  FramesHold(program, position'[u], inside'[u])
    <3>1. FramesHold(program, next, inside[t] \ {name})
      BY <1>1, <1>2, <1>3, <2>7, LeftHold DEF RInv, InsideInv
    <3>2. FramesHold(program, position[u], inside[u])
      BY <2>7 DEF RInv, InsideInv
    <3> QED BY <2>3, <2>4, <3>1, <3>2
  <2> QED BY <2>2, <2>5, <2>6, <2>7 DEF InsideInv
<1> QED BY <1>1, <1>4, <1>5, ThreadKeepsCalls DEF RInv

-----------------------------------------------------------------------------
(* The passes.                                                             *)

LEMMA InitRInv == Init => RInv
<1> SUFFICES ASSUME Init PROVE RInv
  OBVIOUS
<1>1. ParallelInit /\ program \in Programs /\ phase = "check" /\ eliminated = FALSE
  BY DEF Init, ParallelInit
<1>2. CallsInv
  BY <1>1 DEF Init, CallsInv, Kept
<1>3. BeginsAtEntry(program, MainFunction) /\ Main \in Thread
  BY <1>1, ProgramsAssumption, ThreadsAssumption
<1>4. program.entry[MainFunction] \in Places(program)
  BY <1>1, <1>3, VisitableEntry
<1>5. PositionsInv
  <2>1. <<>> \in Seq(Places(program))
        /\ <<program.entry[MainFunction]>> \in Seq(Places(program))
    BY <1>4
  <2>2. position \in [Thread -> Seq(Places(program))]
    BY <2>1 DEF Init
  <2>3. \A u \in Thread \ {Main} : Idle(u)
    BY DEF Init, Idle
  <2> QED BY <1>1, <2>2, <2>3 DEF PositionsInv
<1>6. InsideInv
  <2>1. ASSUME StructuredRegions(program), NEW t \in Thread
        PROVE  FramesHold(program, position[t], inside[t])
    <3>1. CASE t = Main
      <4>1. PICK frames : frames = <<program.entry[MainFunction]>>
        OBVIOUS
      <4>2. \A k \in DOMAIN frames : Holding(program, frames[k]) = {}
        BY <1>1, <1>3, <2>1, <4>1, EntryHoldsNothing
      <4>3. position[t] = frames
        BY <3>1, <4>1 DEF Init
      <4> QED BY <4>2, <4>3 DEF FramesHold
    <3>2. CASE t # Main
      <4>1. position[t] = <<>>
        BY <3>2 DEF Init
      <4> QED BY <4>1 DEF FramesHold
    <3> QED BY <3>1, <3>2
  <2>2. \A t \in Thread : inside[t] = {}
    BY DEF Init
  <2>3. inside \in [Thread -> SUBSET {program.nodes[n].what : n \in Node(program)}]
    BY DEF Init
  <2> QED BY <2>1, <2>2, <2>3 DEF InsideInv
<1> QED BY <1>1, <1>2, <1>5, <1>6, InitIInv DEF RInv

LEMMA RemoveRInv ==
  ASSUME RInv, RemoveSequential
  PROVE  RInv'
<1>1. /\ program' = program
      /\ UNCHANGED <<eliminated, runVars>>
  BY DEF RemoveSequential, CollectAndCleanup, Collected, CheckModule, CollectFrom, CollectCallee
<1>2. IInv'
  <2>1. ParallelNext
    BY DEF RemoveSequential, CollectAndCleanup, ParallelNext
  <2> QED BY <2>1, NextIInv DEF RInv
<1>3. phase \notin {"collected", "refused"}
  BY DEF RemoveSequential, CollectAndCleanup, Collected, CheckModule, CollectFrom, CollectCallee,
         RInv, IInv, TraversalInv
<1>4. ~ eliminated /\ tsan_calls = Accesses(program)
  BY <1>3 DEF RInv, CallsInv, Kept
<1>5. CallsInv'
  <2>1. CASE CollectAndCleanup
    BY <1>1, <1>4, <2>1 DEF CollectAndCleanup, Collected, RInv, CallsInv, Kept
  <2>2. CASE tsan_calls' = tsan_calls /\ CheckModule
    BY <1>1, <1>4, <2>2 DEF CheckModule, CallsInv, Kept
  <2>3. CASE /\ tsan_calls' = tsan_calls
             /\ \E f \in Function :
                  CollectFrom(f) \/ \E parallel \in BOOLEAN : CollectCallee(f, parallel)
    <3>1. phase' = phase
      BY <2>3 DEF CollectFrom, CollectCallee
    <3> QED BY <1>1, <1>3, <1>4, <2>3, <3>1 DEF RInv, CallsInv, Kept
  <2> QED BY <2>1, <2>2, <2>3 DEF RemoveSequential
<1>6. PositionsInv'
  <2>1. \A u \in Thread \ {Main} : position[u] = <<>>
    BY <1>4 DEF RInv, PositionsInv, Idle
  <2>2. \A S : FramesIn(program, <<>>, S)
    BY DEF FramesIn
  <2> QED BY <1>1, <2>1, <2>2 DEF RInv, PositionsInv, Idle, runVars
<1>7. InsideInv'
  BY <1>1 DEF RInv, InsideInv, runVars
<1> QED BY <1>2, <1>5, <1>6, <1>7 DEF RInv

LEMMA EliminateRInv ==
  ASSUME RInv, EliminateOnlyInCritical
  PROVE  RInv'
<1>1. UNCHANGED <<parallelVars, runVars>> /\ eliminated'
  BY DEF EliminateOnlyInCritical
<1>2. IInv'
  BY <1>1, PhaseIInv DEF RInv
<1>3. CallsInv'
  BY <1>1 DEF EliminateOnlyInCritical, RInv, CallsInv, Kept, parallelVars
<1>4. PositionsInv'
  BY <1>1 DEF RInv, PositionsInv, Idle, runVars, parallelVars
<1>5. InsideInv'
  BY <1>1 DEF RInv, InsideInv, runVars, parallelVars
<1> QED BY <1>2, <1>3, <1>4, <1>5 DEF RInv

LEMMA NextRInv == RInv /\ [Next]_vars => RInv'
<1> SUFFICES ASSUME RInv, [Next]_vars PROVE RInv'
  OBVIOUS
<1>1. CASE UNCHANGED vars
  <2>1. UNCHANGED <<parallelVars, tsan_calls, eliminated, runVars>>
    BY <1>1 DEF vars
  <2>2. PositionsInv'
    BY <2>1 DEF RInv, PositionsInv, Idle, runVars, parallelVars
  <2>3. InsideInv'
    BY <2>1 DEF RInv, InsideInv, runVars, parallelVars
  <2> QED BY <2>1, <2>2, <2>3, ThreadKeepsCalls DEF RInv
<1>2. CASE RemoveSequential
  BY <1>2, RemoveRInv
<1>3. CASE EliminateOnlyInCritical
  BY <1>3, EliminateRInv
<1>4. CASE \E t \in Thread :
             \/ Execute(t) \/ Call(t) \/ Fork(t) \/ Join(t)
             \/ EnterCritical(t) \/ LeaveCritical(t)
             \/ \E u \in Thread : Create(t, u)
  BY <1>4, ExecuteRInv, CallRInv, ForkRInv, JoinRInv, EnterRInv, LeaveRInv, CreateRInv
<1> QED BY <1>1, <1>2, <1>3, <1>4 DEF Next

-----------------------------------------------------------------------------
(* Two accesses at the same time.                                          *)

\* They keep their tsan calls in the removal in sequential code.
LEMMA RacingKept ==
  ASSUME RInv, NEW t \in Thread, NEW u \in Thread, Racing(t, u)
  PROVE  Head(position[t]) \in Kept
<1>1. /\ t # u /\ eliminated /\ position[t] # <<>> /\ position[u] # <<>>
      /\ program.nodes[Head(position[t])].kind = "access"
  BY DEF Racing, At
<1>2. position[t] \in Seq(Places(program))
  BY DEF RInv, PositionsInv
<1>3. Head(position[t]) = position[t][1] /\ 1 \in DOMAIN position[t]
      /\ Head(position[t]) \in Accesses(program)
  BY <1>1, <1>2, HeadTail DEF Places, Accesses, NodesOfKind
<1>4. ASSUME phase = "collected"
      PROVE  program.nodes[Head(position[t])].fn \in parallel_functions
  <2>1. CASE t = Main
    <3>1. Waits(program, position[t], parallel_functions)
      BY <1>1, <1>4, <2>1 DEF RInv, PositionsInv, Idle
    <3> QED BY <1>1, <1>2, <3>1, WaitsHead
  <2>2. CASE t # Main
    <3>1. FramesIn(program, position[t], parallel_functions)
      BY <1>4, <2>2 DEF RInv, PositionsInv
    <3> QED BY <1>3, <3>1 DEF FramesIn
  <2> QED BY <2>1, <2>2
<1> QED BY <1>3, <1>4 DEF Kept

\* An access with a name among its regions is in a region of that name.
LEMMA AccessInside ==
  ASSUME RInv, StructuredRegions(program), DominanceDecides(program),
         NEW t \in Thread, At(t, "access"),
         NEW name, name \in CriticalNames(program, Head(position[t]))
  PROVE  name \in inside[t]
<1> DEFINE n == Head(position[t])
<1>1. program \in Programs /\ position[t] \in Seq(Places(program)) /\ position[t] # <<>>
  BY ProgramKnown DEF RInv, PositionsInv, At
<1>2. n \in Node(program) /\ Visitable(program, n) /\ n = position[t][1] /\ 1 \in DOMAIN position[t]
  BY <1>1, HeadTail DEF Places
<1>3. program.nodes[n].kind = "access" /\ n \in NodesOfKind(program, "access")
  BY <1>2 DEF At, NodesOfKind
<1>4. PICK b \in RegionsAround(program, n) : program.nodes[b].what = name
  BY <1>3 DEF DominanceDecides
<1>5. b \in NodesOfKind(program, "critical") /\ FirstEnd(program, b) \in EndsOf(program, b)
  BY DEF RegionsAround, StructuredRegions
<1>6. n \in RegionFrom(program, b)
  BY <1>1, <1>2, <1>3, <1>5, DominatedInside
<1>7. b \in Holding(program, position[t][1])
  BY <1>2, <1>5, <1>6 DEF Holding
<1> QED BY <1>2, <1>4, <1>7 DEF RInv, InsideInv, FramesHold

LEMMA RInvNoRaceHidden ==
  RInv /\ RegionsProtect(program) => NoRaceHidden
<1> SUFFICES ASSUME RInv, RegionsProtect(program), NEW t \in Thread, NEW u \in Thread,
                    Racing(t, u), Head(position[t]) \notin tsan_calls
             PROVE  FALSE
  BY DEF NoRaceHidden
<1> DEFINE n == Head(position[t])
           m == Head(position[u])
<1>1. Racing(u, t) /\ eliminated /\ At(t, "access") /\ At(u, "access") /\ t # u
      /\ program.nodes[n].what = program.nodes[m].what
  BY DEF Racing, At, Current
<1>2. n \in Kept /\ m \in Kept
  BY <1>1, RacingKept
<1>3. n \in RemovedInSameCritical(program, Kept)
  BY <1>1, <1>2 DEF RInv, CallsInv
<1>4. PICK v : n \in RemovedUsages(program, Kept, v)
  BY <1>3 DEF RemovedInSameCritical
<1>5. CommonRegions(program, Kept, v) # {} /\ n \in TsanUsers(program, Kept, v)
  BY <1>4 DEF RemovedUsages
<1>6. m \in TsanUsers(program, Kept, v)
  <2>1. n \in NodesOfKind(program, "access") /\ m \in NodesOfKind(program, "access")
    BY <1>2 DEF Kept, Accesses
  <2> QED BY <1>1, <1>2, <1>5, <2>1 DEF TsanUsers, RegionsProtect, NamedAlike
<1>7. PICK name : name \in CommonRegions(program, Kept, v)
  BY <1>5
<1>8. name \in CriticalNames(program, n) /\ name \in CriticalNames(program, m)
  BY <1>5, <1>6, <1>7 DEF CommonRegions
<1>9. name \in inside[t] /\ name \in inside[u]
  BY <1>1, <1>8, AccessInside DEF RegionsProtect
<1> QED BY <1>1, <1>9 DEF RInv, InsideInv

\* Whatever the program and the number of threads, if its critical regions are
\* structured blocks, the dominance decides what is inside them and each variable is
\* named alike, the two passes hide no race: an access that another thread can make
\* at the same time still has its tsan call.
THEOREM RacesStayVisible == Spec => [](RegionsProtect(program) => NoRaceHidden)
<1>1. RInv => (RegionsProtect(program) => NoRaceHidden)
  BY RInvNoRaceHidden
<1> QED BY <1>1, InitRInv, NextRInv, PTL DEF Spec

=============================================================================
