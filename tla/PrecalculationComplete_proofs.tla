-------------------- MODULE PrecalculationComplete_proofs --------------------
(***************************************************************************)
(* Theorems about what the slice holds when the worklist is empty, and why *)
(* a value is in it.  Some promises do not hold for every program; their   *)
(* theorems name what they need of it.                                     *)
(***************************************************************************)
EXTENDS PrecalculationSlice_proofs

-----------------------------------------------------------------------------
(* What a theorem may ask of the program.                                  *)

\* Every block of a function can be reached from its entry block: a set of
\* instructions that is closed under the terminators before them has one of an
\* entry block.  The terminators are in the same function.
BlocksReachable ==
  /\ \A i \in Inst : \A t \in ControlledBy[i] : ParentOf[t] = ParentOf[i]
  /\ \A S \in SUBSET Inst :
       S # {} /\ (\A i \in S : ControlledBy[i] \subseteq S) => S \cap EntryInst # {}

-----------------------------------------------------------------------------
(* The functions of the slice.                                             *)

LEMMA DonePendsNothing ==
  ASSUME Done, NEW op, NEW x
  PROVE  ~ Pending(op, x)
BY EmptyStack, PendingFrames DEF Done, Analyzed

\* No instruction of the slice is left without a copy of its function, as long as
\* every block can be reached: the terminators before an instruction lead back to
\* the entry block, which asks for the function.
THEOREM ParentsAreIncluded ==
  ASSUME BlocksReachable
  PROVE  Spec => []ParentsIncluded
<1>1. TypeOK /\ ControlFlowClosed => ParentsIncluded
  <2> SUFFICES ASSUME TypeOK, ControlFlowClosed, Done, NEW v \in included \cap Inst
               PROVE  ParentOf[v] \in include_in_precompute
    BY DEF ParentsIncluded
  <2> DEFINE S == {u \in included \cap Inst : ParentOf[u] = ParentOf[v]}
  <2>1. ASSUME NEW u \in S PROVE ControlledBy[u] \subseteq S
    <3>1. u \in included \cap Inst /\ ParentOf[u] = ParentOf[v]
      OBVIOUS
    <3>2. ControlledBy[u] \subseteq included
      BY <3>1, DonePendsNothing DEF ControlFlowClosed
    <3>3. ControlledBy[u] \subseteq Inst
      BY <3>1, ProgramAssumption DEF ProgramAssumption
    <3> QED
      BY <3>1, <3>2, <3>3 DEF BlocksReachable
  <2>2. PICK u \in S : u \in EntryInst
    <3>1. S \in SUBSET Inst /\ S # {}
      OBVIOUS
    <3> HIDE DEF S
    <3> QED
      BY <2>1, <3>1 DEF BlocksReachable
  <2> QED
    BY <2>2 DEF ControlFlowClosed
<1> QED
  BY <1>1, TypeCorrect, ControlFlowStaysClosed, PTL

-----------------------------------------------------------------------------
(* What waits on the stack.                                                *)

\* What a call in progress still has to do: the rest of its loop, or itself.
Left(f) == IF f.rest = {} THEN {f.subject} ELSE f.rest

\* A call of op for s on the stack still has to come to x.
Waits(stack, op, s, x) ==
  \E f \in FramesOf(stack) : f.op = op /\ f.subject = s /\ x \in Left(f)

Waiting(op, s, x) == Waits(call_stack, op, s, x)

LEMMA WaitsConcat ==
  ASSUME NEW s, NEW t, IsStack(s), IsStack(t)
  PROVE  /\ IsStack(s \o t)
         /\ \A o, y, x : Waits(s \o t, o, y, x) <=> Waits(s, o, y, x) \/ Waits(t, o, y, x)
BY StackConcat DEF Waits

LEMMA WaitsEmpty == IsStack(<<>>) /\ \A o, y, x : ~ Waits(<<>>, o, y, x)
BY EmptyStack DEF Waits

LEMMA WaitsLoop ==
  ASSUME NEW op, NEW s, NEW r
  PROVE  /\ IsStack(Loop(op, s, r))
         /\ \A o, y, x : Waits(Loop(op, s, r), o, y, x) <=> o = op /\ y = s /\ x \in r
<1> DEFINE f == [op |-> op, subject |-> s, rest |-> r]
<1>1. f.op = op /\ f.subject = s /\ f.rest = r
  OBVIOUS
<1>2. IsStack(Loop(op, s, r)) /\ FramesOf(Loop(op, s, r)) = IF r = {} THEN {} ELSE {f}
  BY LoopStack
<1> HIDE DEF f
<1> QED
  BY <1>1, <1>2 DEF Waits, Left

LEMMA WaitsInvoke ==
  ASSUME NEW op, NEW s
  PROVE  /\ IsStack(Invoke(op, s))
         /\ \A o, y, x : Waits(Invoke(op, s), o, y, x) <=> o = op /\ y = s /\ x = s
<1> DEFINE f == [op |-> op, subject |-> s, rest |-> {}]
<1>1. f.op = op /\ f.subject = s /\ f.rest = {}
  OBVIOUS
<1>2. IsStack(Invoke(op, s)) /\ FramesOf(Invoke(op, s)) = {f}
  BY SingleStack DEF Invoke
<1> HIDE DEF f
<1> QED
  BY <1>1, <1>2 DEF Waits, Left

LEMMA WaitsHelpers ==
  /\ \A v, vs : /\ IsStack(IncludeNeeds(v, vs))
                /\ \A o, y, x : Waits(IncludeNeeds(v, vs), o, y, x) <=>
                                  v \in included /\ o = "include" /\ y = v /\ x \in vs
  /\ \A v : /\ IsStack(PtrUsages(v))
            /\ \A o, y, x : Waits(PtrUsages(v), o, y, x) <=>
                              v \in Pointer /\ o = "ptr_usages" /\ y = v /\ x \in Users(v)
  /\ \A f : /\ IsStack(TaintCallsites(f))
            /\ \A o, y, x : Waits(TaintCallsites(f), o, y, x) <=>
                              o = "callsites" /\ y = f /\ x \in Callsites(f)
BY WaitsLoop, WaitsEmpty DEF IncludeNeeds, PtrUsages, TaintCallsites

\* What waits while a call of op is the innermost one.
LEMMA WaitsRunning ==
  ASSUME TypeOK, NEW op, Running(op)
  PROVE  /\ IsStack(Callers)
         /\ Current \in Frame /\ Current.op = op
         /\ \A o, y, x : Waiting(o, y, x) <=> \/ Waits(Callers, o, y, x)
                                              \/ o = op /\ y = Current.subject /\ x \in Left(Current)
         /\ \A v : /\ IsStack(RestOfLoop(v))
                   /\ \A o, y, x : Waits(RestOfLoop(v), o, y, x) <=>
                        \/ Waits(Callers, o, y, x)
                        \/ o = op /\ y = Current.subject /\ x \in Current.rest \ {v}
<1>1. call_stack \in Seq(Frame) /\ call_stack # <<>> /\ Current.op = op /\ Current \in Frame
  BY RunningTypes DEF TypeOK, Running, Current
<1>2. IsStack(Callers) /\ FramesOf(call_stack) = {Current} \cup FramesOf(Callers)
  BY <1>1, TypedStack DEF Callers, Current
<1>3. \A o, y, x : Waiting(o, y, x) <=> \/ Waits(Callers, o, y, x)
                                        \/ o = op /\ y = Current.subject /\ x \in Left(Current)
  BY <1>1, <1>2 DEF Waiting, Waits
<1>4. ASSUME NEW v
      PROVE  /\ IsStack(RestOfLoop(v))
             /\ \A o, y, x : Waits(RestOfLoop(v), o, y, x) <=>
                  \/ Waits(Callers, o, y, x)
                  \/ o = op /\ y = Current.subject /\ x \in Current.rest \ {v}
  BY <1>1, <1>2, WaitsLoop, WaitsConcat DEF RestOfLoop
<1> QED
  BY <1>1, <1>2, <1>3, <1>4

\* What a running loop has left when it takes v.
LEMMA LoopTakes ==
  ASSUME TypeOK, NEW op, Running(op), NEW v, v \in Current.rest
  PROVE  \A o, y, x : Waiting(o, y, x) =>
           Waits(RestOfLoop(v), o, y, x) \/ (o = op /\ y = Current.subject /\ x = v)
<1>1. Left(Current) = Current.rest
  BY DEF Left
<1> QED
  BY <1>1, WaitsRunning

-----------------------------------------------------------------------------
(* The stack after a step: what the step starts, and what waited before.   *)

LEMMA StartedOnRest ==
  ASSUME NEW s, NEW w, IsStack(s), IsStack(w), call_stack' = s \o w
  PROVE  \A o, y, x : Waiting(o, y, x)' <=> Waits(s, o, y, x) \/ Waits(w, o, y, x)
BY WaitsConcat DEF Waiting

\* Loops that take v and start nothing.
LEMMA PassStack ==
  ASSUME TypeOK, NEW v \in Value,
         IncludeAgain(v) \/ PtrUsedPlainly(v) \/ PtrPhi(v) \/ PtrSelect(v) \/ PtrArg(v)
  PROVE  \A o, y, x : Waiting(o, y, x)' <=> Waits(RestOfLoop(v), o, y, x)
BY DEF IncludeAgain, PtrUsedPlainly, PtrPhi, PtrSelect, PtrArg, Waiting

LEMMA AnalyzedStack ==
  ASSUME TypeOK, AnalyzedValue \/ AnalyzedCfg
  PROVE  \A o, y, x : Waiting(o, y, x)' <=> Waits(Callers, o, y, x)
BY DEF AnalyzedValue, AnalyzedCfg, Waiting

LEMMA IncludeValueStack ==
  ASSUME TypeOK, NEW v \in Value, IncludeValue(v)
  PROVE  \A o, y, x : Waiting(o, y, x)' <=>
           \/ o = "include" /\ y = v /\ x \in Terminators(v) \cup needs[v]
           \/ /\ o = "callsites" /\ y = ParentOf[v] /\ x \in Callsites(ParentOf[v])
              /\ FunctionToInclude(v) # {}
           \/ Waits(RestOfLoop(v), o, y, x)
<1> DEFINE s == Loop("include", v, Terminators(v))
           t == IF FunctionToInclude(v) = {} THEN <<>> ELSE TaintCallsites(ParentOf[v])
           u == Loop("include", v, needs[v])
           w == RestOfLoop(v)
<1>1. call_stack' = s \o t \o u \o w
  BY DEF IncludeValue
<1>2. IsStack(s) /\ \A o, y, x : Waits(s, o, y, x) <=> o = "include" /\ y = v /\ x \in Terminators(v)
  BY WaitsLoop
<1>3. IsStack(t) /\ \A o, y, x : Waits(t, o, y, x) <=>
                      /\ o = "callsites" /\ y = ParentOf[v] /\ x \in Callsites(ParentOf[v])
                      /\ FunctionToInclude(v) # {}
  BY WaitsHelpers, WaitsEmpty
<1>4. IsStack(u) /\ \A o, y, x : Waits(u, o, y, x) <=> o = "include" /\ y = v /\ x \in needs[v]
  BY WaitsLoop
<1>5. IsStack(w)
  BY WaitsRunning DEF IncludeValue
<1> HIDE DEF s, t, u, w
<1>6. /\ IsStack(s \o t)
      /\ \A o, y, x : Waits(s \o t, o, y, x) <=> Waits(s, o, y, x) \/ Waits(t, o, y, x)
  BY <1>2, <1>3, WaitsConcat
<1>7. /\ IsStack(s \o t \o u)
      /\ \A o, y, x : Waits(s \o t \o u, o, y, x) <=> Waits(s \o t, o, y, x) \/ Waits(u, o, y, x)
  BY <1>4, <1>6, WaitsConcat
<1>8. \A o, y, x : Waits(s \o t \o u \o w, o, y, x) <=>
                     Waits(s \o t \o u, o, y, x) \/ Waits(w, o, y, x)
  BY <1>5, <1>7, WaitsConcat
<1> QED
  BY <1>1, <1>2, <1>3, <1>4, <1>6, <1>7, <1>8 DEF Waiting, w

LEMMA FunctionCallsiteStack ==
  ASSUME TypeOK, NEW c \in Value, IncludeFunctionCallsite(c)
  PROVE  \A o, y, x : Waiting(o, y, x)' <=>
           \/ /\ o = "callsites" /\ y = ParentOf[c] /\ x \in Callsites(ParentOf[c])
              /\ Current.subject \in include_all_callsites
              /\ ParentOf[c] \notin include_in_precompute
           \/ /\ o = "include" /\ y = c /\ x = c
              /\ Current.subject \in include_all_callsites
           \/ Waits(RestOfLoop(c), o, y, x)
<1> DEFINE s == IF ParentOf[c] \in include_in_precompute THEN <<>>
                ELSE TaintCallsites(ParentOf[c])
           t == Loop("include", c, {c})
           w == RestOfLoop(c)
<1>1. IF Current.subject \in include_all_callsites THEN call_stack' = s \o t \o w
      ELSE call_stack' = w
  BY DEF IncludeFunctionCallsite
<1>2. IsStack(s) /\ \A o, y, x : Waits(s, o, y, x) <=>
                      /\ o = "callsites" /\ y = ParentOf[c] /\ x \in Callsites(ParentOf[c])
                      /\ ParentOf[c] \notin include_in_precompute
  BY WaitsHelpers, WaitsEmpty
<1>3. IsStack(t) /\ \A o, y, x : Waits(t, o, y, x) <=> o = "include" /\ y = c /\ x = c
  BY WaitsLoop
<1>4. IsStack(w)
  BY WaitsRunning DEF IncludeFunctionCallsite
<1> HIDE DEF s, t, w
<1>5. /\ IsStack(s \o t)
      /\ \A o, y, x : Waits(s \o t, o, y, x) <=> Waits(s, o, y, x) \/ Waits(t, o, y, x)
  BY <1>2, <1>3, WaitsConcat
<1>6. \A o, y, x : Waits(s \o t \o w, o, y, x) <=> Waits(s \o t, o, y, x) \/ Waits(w, o, y, x)
  BY <1>4, <1>5, WaitsConcat
<1>7. CASE Current.subject \in include_all_callsites
  <2>1. \A o, y, x : Waiting(o, y, x)' <=> Waits(s \o t \o w, o, y, x)
    BY <1>1, <1>7 DEF Waiting
  <2> QED
    BY <1>2, <1>3, <1>5, <1>6, <1>7, <2>1 DEF w
<1>8. CASE Current.subject \notin include_all_callsites
  BY <1>1, <1>8 DEF Waiting, w
<1> QED
  BY <1>7, <1>8

LEMMA PhiIncomingStack ==
  ASSUME TypeOK, NEW v \in Value, VisitPhiIncoming(v)
  PROVE  \A o, y, x : Waiting(o, y, x)' <=>
           \/ Current.subject \in included /\ o = "include" /\ y = Current.subject /\ x = v
           \/ /\ Current.rest = {v} /\ Current.subject \in Pointer
              /\ o = "ptr_usages" /\ y = Current.subject /\ x \in Users(Current.subject)
           \/ Waits(RestOfLoop(v), o, y, x)
<1> DEFINE phi == Current.subject
           s == IncludeNeeds(phi, {v})
           w == RestOfLoop(v)
           t == IF Current.rest = {v} THEN PtrUsages(phi) ELSE <<>>
<1>1. call_stack' = s \o w \o t
  BY DEF VisitPhiIncoming
<1>2. IsStack(s) /\ \A o, y, x : Waits(s, o, y, x) <=>
                      phi \in included /\ o = "include" /\ y = phi /\ x = v
  BY WaitsHelpers
<1>3. IsStack(t) /\ \A o, y, x : Waits(t, o, y, x) <=>
                      /\ Current.rest = {v} /\ phi \in Pointer
                      /\ o = "ptr_usages" /\ y = phi /\ x \in Users(phi)
  BY WaitsHelpers, WaitsEmpty
<1>4. IsStack(w)
  BY WaitsRunning DEF VisitPhiIncoming
<1> HIDE DEF s, t, w
<1>5. /\ IsStack(s \o w)
      /\ \A o, y, x : Waits(s \o w, o, y, x) <=> Waits(s, o, y, x) \/ Waits(w, o, y, x)
  BY <1>2, <1>4, WaitsConcat
<1>6. \A o, y, x : Waits(s \o w \o t, o, y, x) <=> Waits(s \o w, o, y, x) \/ Waits(t, o, y, x)
  BY <1>3, <1>5, WaitsConcat
<1> QED
  BY <1>1, <1>2, <1>3, <1>5, <1>6 DEF Waiting, w

\* The loops over call sites: of an argument and of a returned pointer.
LEMMA CallsiteStack ==
  ASSUME TypeOK, NEW c \in Value
  PROVE  /\ VisitArgCallsite(c) =>
              \A o, y, x : Waiting(o, y, x)' <=>
                \/ /\ Current.subject \in included /\ o = "include" /\ y = Current.subject
                   /\ x = ArgOperand[c][Current.subject]
                \/ Waits(RestOfLoop(c), o, y, x)
         /\ PtrRetCallsite(c) =>
              \A o, y, x : Waiting(o, y, x)' <=>
                \/ Current.subject \in included /\ o = "include" /\ y = Current.subject /\ x = c
                \/ Waits(RestOfLoop(c), o, y, x)
<1>1. ASSUME VisitArgCallsite(c) \/ PtrRetCallsite(c) PROVE IsStack(RestOfLoop(c))
  BY <1>1, WaitsRunning DEF VisitArgCallsite, PtrRetCallsite
<1>2. ASSUME VisitArgCallsite(c)
      PROVE  \A o, y, x : Waiting(o, y, x)' <=>
               \/ Waits(IncludeNeeds(Current.subject, {ArgOperand[c][Current.subject]}), o, y, x)
               \/ Waits(RestOfLoop(c), o, y, x)
  <2>1. call_stack' = IncludeNeeds(Current.subject, {ArgOperand[c][Current.subject]})
                      \o RestOfLoop(c)
    BY <1>2 DEF VisitArgCallsite
  <2>2. IsStack(IncludeNeeds(Current.subject, {ArgOperand[c][Current.subject]}))
    BY WaitsHelpers
  <2> QED
    BY <1>1, <1>2, <2>1, <2>2, StartedOnRest
<1>3. ASSUME PtrRetCallsite(c)
      PROVE  \A o, y, x : Waiting(o, y, x)' <=>
               \/ Waits(IncludeNeeds(Current.subject, {c}), o, y, x)
               \/ Waits(RestOfLoop(c), o, y, x)
  <2>1. call_stack' = IncludeNeeds(Current.subject, {c}) \o RestOfLoop(c)
    BY <1>3 DEF PtrRetCallsite
  <2>2. IsStack(IncludeNeeds(Current.subject, {c}))
    BY WaitsHelpers
  <2> QED
    BY <1>1, <1>3, <2>1, <2>2, StartedOnRest
<1> QED
  BY <1>2, <1>3, WaitsHelpers

\* The uses of a pointer that start something.
LEMMA PtrUseStack ==
  ASSUME TypeOK, NEW u \in Value
  PROVE  /\ PtrStore(u) =>
              \A o, y, x : Waiting(o, y, x)' <=>
                \/ o = "visit_store" /\ y = u /\ x = u
                \/ Waits(RestOfLoop(u), o, y, x)
         /\ VisitCallFromPtr(u) =>
              \A o, y, x : Waiting(o, y, x)' <=>
                \/ /\ o = "ptr_args" /\ y = Current.subject
                   /\ x \in ArgsGetting(u, Current.subject)
                \/ Waits(RestOfLoop(u), o, y, x)
         /\ PtrRet(u) =>
              \A o, y, x : Waiting(o, y, x)' <=>
                \/ o = "ptr_ret" /\ y = Current.subject /\ x \in Callsites(ParentOf[u])
                \/ Waits(RestOfLoop(u), o, y, x)
<1>1. ASSUME PtrStore(u) \/ VisitCallFromPtr(u) \/ PtrRet(u) PROVE IsStack(RestOfLoop(u))
  BY <1>1, WaitsRunning DEF PtrStore, VisitCallFromPtr, PtrRet, UsedBy
<1>2. ASSUME PtrStore(u)
      PROVE  \A o, y, x : Waiting(o, y, x)' <=>
               \/ Waits(Invoke("visit_store", u), o, y, x)
               \/ Waits(RestOfLoop(u), o, y, x)
  <2>1. call_stack' = Invoke("visit_store", u)
                      \o RestOfLoop(u)
    BY <1>2 DEF PtrStore
  <2> QED
    BY <1>1, <1>2, <2>1, WaitsInvoke, StartedOnRest
<1>3. ASSUME VisitCallFromPtr(u)
      PROVE  \A o, y, x : Waiting(o, y, x)' <=>
               \/ Waits(Loop("ptr_args", Current.subject, ArgsGetting(u, Current.subject)), o, y, x)
               \/ Waits(RestOfLoop(u), o, y, x)
  <2>1. call_stack' = Loop("ptr_args", Current.subject, ArgsGetting(u, Current.subject))
                      \o RestOfLoop(u)
    BY <1>3 DEF VisitCallFromPtr
  <2> QED
    BY <1>1, <1>3, <2>1, WaitsLoop, StartedOnRest
<1>4. ASSUME PtrRet(u)
      PROVE  \A o, y, x : Waiting(o, y, x)' <=>
               \/ Waits(Loop("ptr_ret", Current.subject, Callsites(ParentOf[u])), o, y, x)
               \/ Waits(RestOfLoop(u), o, y, x)
  <2>1. call_stack' = Loop("ptr_ret", Current.subject, Callsites(ParentOf[u]))
                      \o RestOfLoop(u)
    BY <1>4 DEF PtrRet
  <2> QED
    BY <1>1, <1>4, <2>1, WaitsLoop, StartedOnRest
<1> QED
  BY <1>2, <1>3, <1>4, WaitsInvoke, WaitsLoop

LEMMA StoreStack ==
  ASSUME TypeOK, VisitStore
  PROVE  LET s == Current.subject
             p == PtrOperand[s]
         IN  \A o, y, x : Waiting(o, y, x)' <=>
               \/ o = "include" /\ y = s /\ x = p /\ s \in included
               \/ /\ o = "include" /\ y = s /\ x \in {s, p} \cup Operands[s]
                  /\ IsStoreImportant(s, InfoOf(p))
               \/ Waits(Callers, o, y, x)
<1> DEFINE s == Current.subject
           p == PtrOperand[s]
           n == IncludeNeeds(s, {p})
           t == Loop("include", s, Operands[s] \ {p})
           u == Loop("include", s, {s})
           w == Loop("include", s, {p})
           again == IF IsStoreImportant(s, InfoOf(p)) THEN t \o u \o w ELSE <<>>
<1>1. call_stack' = n \o again \o Callers
  BY DEF VisitStore
<1>2. IsStack(n) /\ \A o, y, x : Waits(n, o, y, x) <=>
                      o = "include" /\ y = s /\ x = p /\ s \in included
  <2>1. \A o, y, x : Waits(n, o, y, x) <=> s \in included /\ o = "include" /\ y = s /\ x \in {p}
    BY WaitsHelpers
  <2> QED
    BY <2>1, WaitsHelpers
<1>3. IsStack(t) /\ \A o, y, x : Waits(t, o, y, x) <=>
                      o = "include" /\ y = s /\ x \in Operands[s] \ {p}
  BY WaitsLoop
<1>4. IsStack(u) /\ \A o, y, x : Waits(u, o, y, x) <=> o = "include" /\ y = s /\ x \in {s}
  BY WaitsLoop
<1>5. IsStack(w) /\ \A o, y, x : Waits(w, o, y, x) <=> o = "include" /\ y = s /\ x \in {p}
  BY WaitsLoop
<1>6. IsStack(Callers)
  BY WaitsRunning DEF VisitStore
<1> HIDE DEF n, t, u, w
<1>7. /\ IsStack(t \o u)
      /\ \A o, y, x : Waits(t \o u, o, y, x) <=> Waits(t, o, y, x) \/ Waits(u, o, y, x)
  BY <1>3, <1>4, WaitsConcat
<1>8. /\ IsStack(t \o u \o w)
      /\ \A o, y, x : Waits(t \o u \o w, o, y, x) <=> Waits(t \o u, o, y, x) \/ Waits(w, o, y, x)
  BY <1>5, <1>7, WaitsConcat
<1>9. /\ IsStack(again)
      /\ \A o, y, x : Waits(again, o, y, x) <=>
           /\ o = "include" /\ y = s /\ x \in {s, p} \cup Operands[s]
           /\ IsStoreImportant(s, InfoOf(p))
  <2>1. CASE IsStoreImportant(s, InfoOf(p))
    <3>1. \A o, y, x : Waits(t \o u \o w, o, y, x) <=>
            o = "include" /\ y = s /\ x \in {s, p} \cup Operands[s]
      BY <1>3, <1>4, <1>5, <1>7, <1>8
    <3>2. again = t \o u \o w
      BY <2>1
    <3> HIDE DEF again
    <3> QED
      BY <1>8, <2>1, <3>1, <3>2
  <2>2. CASE ~ IsStoreImportant(s, InfoOf(p))
    BY <2>2, WaitsEmpty
  <2> QED
    BY <2>1, <2>2
<1> HIDE DEF again
<1>10. /\ IsStack(n \o again)
       /\ \A o, y, x : Waits(n \o again, o, y, x) <=> Waits(n, o, y, x) \/ Waits(again, o, y, x)
  BY <1>2, <1>9, WaitsConcat
<1>11. \A o, y, x : Waiting(o, y, x)' <=> Waits(n \o again, o, y, x) \/ Waits(Callers, o, y, x)
  BY <1>1, <1>6, <1>10, StartedOnRest
<1> HIDE DEF s, p
<1>12. \A o, y, x : Waiting(o, y, x)' <=>
         \/ o = "include" /\ y = s /\ x = p /\ s \in included
         \/ /\ o = "include" /\ y = s /\ x \in {s, p} \cup Operands[s]
            /\ IsStoreImportant(s, InfoOf(p))
         \/ Waits(Callers, o, y, x)
  BY <1>2, <1>9, <1>10, <1>11
<1> QED
  BY <1>12 DEF s, p

LEMMA CheckStack ==
  ASSUME TypeOK, CheckCall
  PROVE  \A o, y, x : Waiting(o, y, x)' <=>
           \/ /\ o = "include" /\ y = Current.subject /\ x = Current.subject
              /\ Current.subject \notin included /\ ShouldCallBeIncluded(Current.subject)
           \/ Waits(Callers, o, y, x)
<1> DEFINE c == Current.subject
           isNeeded == c \notin included /\ ShouldCallBeIncluded(c)
           s == IF isNeeded THEN Loop("include", c, {c}) ELSE <<>>
<1>1. call_stack' = s \o Callers
  BY DEF CheckCall
<1>2. /\ IsStack(s)
      /\ \A o, y, x : Waits(s, o, y, x) <=> o = "include" /\ y = c /\ x = c /\ isNeeded
  <2>1. CASE isNeeded
    <3>1. \A o, y, x : Waits(Loop("include", c, {c}), o, y, x) <=> o = "include" /\ y = c /\ x \in {c}
      BY WaitsLoop
    <3> QED
      BY <2>1, <3>1, WaitsLoop
  <2>2. CASE ~ isNeeded
    BY <2>2, WaitsEmpty
  <2> QED
    BY <2>1, <2>2
<1>3. IsStack(Callers)
  BY WaitsRunning DEF CheckCall
<1> HIDE DEF s
<1>4. \A o, y, x : Waiting(o, y, x)' <=> Waits(s, o, y, x) \/ Waits(Callers, o, y, x)
  BY <1>1, <1>2, <1>3, StartedOnRest
<1> QED
  BY <1>2, <1>4

\* Steps of analyze() and of a round start on an empty stack.
LEMMA NothingWaits ==
  ASSUME call_stack = <<>>
  PROVE  \A o, y, x : ~ Waiting(o, y, x)
BY WaitsEmpty DEF Waiting

LEMMA AnalyzeStack ==
  ASSUME NEW v \in Value
  PROVE  /\ AnalyzeValue(v) =>
              \A o, y, x : Waiting(o, y, x)' <=>
                o \in {"include", "requested_value"} /\ y = v /\ x = v
         /\ AnalyzeCfg(v) =>
              \A o, y, x : Waiting(o, y, x)' <=>
                o \in {"include", "requested_cfg"} /\ y = v /\ x = v
         /\ NextRound => \A o, y, x : ~ Waiting(o, y, x)'
<1> DEFINE s == Loop("include", v, {v})
<1>1. IsStack(s) /\ \A o, y, x : Waits(s, o, y, x) <=> o = "include" /\ y = v /\ x = v
  <2>1. \A o, y, x : Waits(s, o, y, x) <=> o = "include" /\ y = v /\ x \in {v}
    BY WaitsLoop
  <2> QED
    BY <2>1, WaitsLoop
<1> HIDE DEF s
<1>2. ASSUME AnalyzeValue(v)
      PROVE  \A o, y, x : Waiting(o, y, x)' <=> Waits(s, o, y, x) \/ Waits(Invoke("requested_value", v), o, y, x)
  <2>1. call_stack' = s \o Invoke("requested_value", v)
    BY <1>2 DEF AnalyzeValue, s
  <2>2. IsStack(Invoke("requested_value", v))
    BY WaitsInvoke
  <2> QED
    BY <1>1, <2>1, <2>2, StartedOnRest
<1>3. ASSUME AnalyzeCfg(v)
      PROVE  \A o, y, x : Waiting(o, y, x)' <=> Waits(s, o, y, x) \/ Waits(Invoke("requested_cfg", v), o, y, x)
  <2>1. call_stack' = s \o Invoke("requested_cfg", v)
    BY <1>3 DEF AnalyzeCfg, s
  <2>2. IsStack(Invoke("requested_cfg", v))
    BY WaitsInvoke
  <2> QED
    BY <1>1, <2>1, <2>2, StartedOnRest
<1>4. NextRound => \A o, y, x : ~ Waiting(o, y, x)'
  BY WaitsEmpty DEF NextRound, Analyzed, Waiting
<1> QED
  BY <1>1, <1>2, <1>3, <1>4, WaitsInvoke

\* A visit of v includes vs if v is included, and looks at the uses of v.
VisitWaits(v, vs, o, y, x) ==
  \/ v \in included /\ o = "include" /\ y = v /\ x \in vs
  \/ v \in Pointer /\ o = "ptr_usages" /\ y = v /\ x \in Users(v)

LEMMA NeedsAndUsages ==
  ASSUME NEW v, NEW vs, call_stack' = IncludeNeeds(v, vs) \o PtrUsages(v)
  PROVE  \A o, y, x : Waiting(o, y, x)' <=> VisitWaits(v, vs, o, y, x)
<1>1. IsStack(IncludeNeeds(v, vs)) /\ IsStack(PtrUsages(v))
  BY WaitsHelpers
<1>2. \A o, y, x : Waiting(o, y, x)' <=>
        Waits(IncludeNeeds(v, vs), o, y, x) \/ Waits(PtrUsages(v), o, y, x)
  BY <1>1, StartedOnRest
<1> QED
  BY <1>2, WaitsHelpers DEF VisitWaits

LEMMA VisitStack ==
  ASSUME NEW v \in Value
  PROVE  /\ VisitOperands(v) \/ VisitSelect(v) =>
              \A o, y, x : Waiting(o, y, x)' <=> VisitWaits(v, Operands[v], o, y, x)
         /\ VisitLoad(v) =>
              \A o, y, x : Waiting(o, y, x)' <=>
                v \in included /\ o = "include" /\ y = v /\ x = PtrOperand[v]
         /\ VisitStoreValue(v) =>
              \A o, y, x : Waiting(o, y, x)' <=> o = "visit_store" /\ y = v /\ x = v
         /\ VisitPhi(v) =>
              \A o, y, x : Waiting(o, y, x)' <=> o = "visit_phi" /\ y = v /\ x \in Operands[v]
         /\ VisitArg(v) =>
              \A o, y, x : Waiting(o, y, x)' <=>
                \/ /\ o = "visit_arg" /\ y = v /\ x \in Callsites(ParentOf[v])
                   /\ v \notin args_to_use
                \/ v \in Pointer /\ o = "ptr_usages" /\ y = v /\ x \in Users(v)
<1>1. ASSUME VisitOperands(v) \/ VisitSelect(v)
      PROVE  \A o, y, x : Waiting(o, y, x)' <=> VisitWaits(v, Operands[v], o, y, x)
  <2>1. call_stack' = IncludeNeeds(v, Operands[v]) \o PtrUsages(v)
    BY <1>1 DEF VisitOperands, VisitSelect
  <2> QED
    BY <2>1, NeedsAndUsages
<1>2. ASSUME VisitLoad(v)
      PROVE  \A o, y, x : Waiting(o, y, x)' <=>
                v \in included /\ o = "include" /\ y = v /\ x = PtrOperand[v]
  <2>1. call_stack' = IncludeNeeds(v, {PtrOperand[v]})
    BY <1>2 DEF VisitLoad
  <2>2. \A o, y, x : Waits(IncludeNeeds(v, {PtrOperand[v]}), o, y, x) <=>
          v \in included /\ o = "include" /\ y = v /\ x \in {PtrOperand[v]}
    BY WaitsHelpers
  <2> QED
    BY <2>1, <2>2 DEF Waiting
<1>3. ASSUME VisitStoreValue(v)
      PROVE  \A o, y, x : Waiting(o, y, x)' <=> o = "visit_store" /\ y = v /\ x = v
  <2>1. call_stack' = Invoke("visit_store", v)
    BY <1>3 DEF VisitStoreValue
  <2> QED
    BY <2>1, WaitsInvoke DEF Waiting
<1>4. ASSUME VisitPhi(v)
      PROVE  \A o, y, x : Waiting(o, y, x)' <=> o = "visit_phi" /\ y = v /\ x \in Operands[v]
  <2>1. call_stack' = Loop("visit_phi", v, Operands[v])
    BY <1>4 DEF VisitPhi
  <2> QED
    BY <2>1, WaitsLoop DEF Waiting
<1>5. ASSUME VisitArg(v)
      PROVE  \A o, y, x : Waiting(o, y, x)' <=>
                \/ /\ o = "visit_arg" /\ y = v /\ x \in Callsites(ParentOf[v])
                   /\ v \notin args_to_use
                \/ v \in Pointer /\ o = "ptr_usages" /\ y = v /\ x \in Users(v)
  <2> DEFINE s == IF v \in args_to_use THEN <<>>
                  ELSE Loop("visit_arg", v, Callsites(ParentOf[v]))
  <2>1. IsStack(s) /\ \A o, y, x : Waits(s, o, y, x) <=>
          /\ o = "visit_arg" /\ y = v /\ x \in Callsites(ParentOf[v])
          /\ v \notin args_to_use
    BY WaitsLoop, WaitsEmpty
  <2>2. call_stack' = s \o PtrUsages(v)
    BY <1>5 DEF VisitArg
  <2> HIDE DEF s
  <2>3. IsStack(PtrUsages(v))
    BY WaitsHelpers
  <2>4. \A o, y, x : Waiting(o, y, x)' <=> Waits(s, o, y, x) \/ Waits(PtrUsages(v), o, y, x)
    BY <2>1, <2>2, <2>3, StartedOnRest
  <2> QED
    BY <2>1, <2>4, WaitsHelpers
<1> QED
  BY <1>1, <1>2, <1>3, <1>4, <1>5

LEMMA CallStack ==
  ASSUME NEW c \in Value, VisitCall(c)
  PROVE  LET rets == IF IsRetvalNeeded(c) THEN ReturnsOf(CalledFunction[c]) ELSE {}
         IN  \A o, y, x : Waiting(o, y, x)' <=>
               \/ o = "check_call" /\ y = c /\ x = c
               \/ VisitWaits(c, rets, o, y, x)
<1> DEFINE rets == IF IsRetvalNeeded(c) THEN ReturnsOf(CalledFunction[c]) ELSE {}
           s == IncludeNeeds(c, rets)
           t == Invoke("check_call", c)
           u == PtrUsages(c)
<1>1. call_stack' = s \o t \o u
  BY DEF VisitCall
<1>2. IsStack(s) /\ \A o, y, x : Waits(s, o, y, x) <=>
                      c \in included /\ o = "include" /\ y = c /\ x \in rets
  BY WaitsHelpers
<1>3. IsStack(t) /\ \A o, y, x : Waits(t, o, y, x) <=> o = "check_call" /\ y = c /\ x = c
  BY WaitsInvoke
<1>4. IsStack(u) /\ \A o, y, x : Waits(u, o, y, x) <=>
                      c \in Pointer /\ o = "ptr_usages" /\ y = c /\ x \in Users(c)
  BY WaitsHelpers
<1> HIDE DEF rets, s, t, u
<1>5. /\ IsStack(s \o t)
      /\ \A o, y, x : Waits(s \o t, o, y, x) <=> Waits(s, o, y, x) \/ Waits(t, o, y, x)
  BY <1>2, <1>3, WaitsConcat
<1>6. \A o, y, x : Waiting(o, y, x)' <=> Waits(s \o t, o, y, x) \/ Waits(u, o, y, x)
  BY <1>1, <1>4, <1>5, StartedOnRest
<1>7. \A o, y, x : Waiting(o, y, x)' <=>
        (o = "check_call" /\ y = c /\ x = c) \/ VisitWaits(c, rets, o, y, x)
  BY <1>2, <1>3, <1>4, <1>5, <1>6 DEF VisitWaits
<1> QED
  BY <1>7 DEF rets

-----------------------------------------------------------------------------
(* What waits stays until the loop that comes to it takes it.              *)

\* The uses of a pointer.
PtrUse(u) ==
  \/ PtrUsedPlainly(u) \/ PtrStore(u) \/ PtrPhi(u) \/ PtrSelect(u)
  \/ VisitCallFromPtr(u) \/ PtrRet(u)

\* The innermost call is op for s, and it takes x.
Takes(op, s, x) ==
  /\ Running(op)
  /\ s = Current.subject
  /\ \/ op = "include" /\ (IncludeAgain(x) \/ IncludeValue(x))
     \/ op = "callsites" /\ IncludeFunctionCallsite(x)
     \/ op = "visit_phi" /\ VisitPhiIncoming(x)
     \/ op = "visit_arg" /\ VisitArgCallsite(x)
     \/ op = "ptr_usages" /\ PtrUse(x)
     \/ op = "ptr_args" /\ PtrArg(x)
     \/ op = "ptr_ret" /\ PtrRetCallsite(x)
     \/ op = "visit_store" /\ VisitStore
     \/ op = "check_call" /\ CheckCall
     \/ op = "requested_value" /\ AnalyzedValue
     \/ op = "requested_cfg" /\ AnalyzedCfg

\* Steps that start on an empty stack.
LEMMA StartingSteps ==
  ASSUME \/ NextRound
         \/ \E v \in Value :
              \/ AnalyzeValue(v) \/ AnalyzeCfg(v)
              \/ VisitOperands(v) \/ VisitLoad(v) \/ VisitStoreValue(v) \/ VisitPhi(v)
              \/ VisitSelect(v) \/ VisitArg(v) \/ VisitCall(v)
  PROVE  call_stack = <<>> /\ \A o, y, x : ~ Waiting(o, y, x)
<1>1. call_stack = <<>>
  BY DEF NextRound, AnalyzeValue, AnalyzeCfg, VisitOperands, VisitLoad,
     VisitStoreValue, VisitPhi, VisitSelect, VisitArg, VisitCall, Visit, Analyzed
<1> QED
  BY <1>1, NothingWaits

LEMMA WaitingKept ==
  ASSUME TypeOK, Next
  PROVE  \A o, y, x : Waiting(o, y, x) => Waiting(o, y, x)' \/ Takes(o, y, x)
<1>1. ASSUME NEW op, Running(op), NEW v \in Value, v \in Current.rest,
             \A o, y, x : Waits(RestOfLoop(v), o, y, x) => Waiting(o, y, x)',
             Takes(op, Current.subject, v)
      PROVE  \A o, y, x : Waiting(o, y, x) => Waiting(o, y, x)' \/ Takes(o, y, x)
  <2>1. \A o, y, x : Waiting(o, y, x) =>
          Waits(RestOfLoop(v), o, y, x) \/ (o = op /\ y = Current.subject /\ x = v)
    BY <1>1, LoopTakes
  <2> QED
    BY <1>1, <2>1
<1>2. ASSUME NEW op \in {"visit_store", "check_call", "requested_value", "requested_cfg"},
             Running(op),
             \A o, y, x : Waits(Callers, o, y, x) => Waiting(o, y, x)',
             \A x : Takes(op, Current.subject, x)
      PROVE  \A o, y, x : Waiting(o, y, x) => Waiting(o, y, x)' \/ Takes(o, y, x)
  BY <1>2, WaitsRunning
<1>3. ASSUME NEW v \in Value, IncludeAgain(v) \/ IncludeValue(v)
      PROVE  \A o, y, x : Waiting(o, y, x) => Waiting(o, y, x)' \/ Takes(o, y, x)
  <2>1. Running("include") /\ v \in Current.rest /\ Takes("include", Current.subject, v)
    BY <1>3 DEF IncludeAgain, IncludeValue, Takes
  <2>2. \A o, y, x : Waits(RestOfLoop(v), o, y, x) => Waiting(o, y, x)'
    BY <1>3, PassStack, IncludeValueStack
  <2> QED
    BY <1>1, <2>1, <2>2
<1>4. ASSUME NEW v \in Value, IncludeFunctionCallsite(v)
      PROVE  \A o, y, x : Waiting(o, y, x) => Waiting(o, y, x)' \/ Takes(o, y, x)
  <2>1. Running("callsites") /\ v \in Current.rest /\ Takes("callsites", Current.subject, v)
    BY <1>4 DEF IncludeFunctionCallsite, Takes
  <2>2. \A o, y, x : Waits(RestOfLoop(v), o, y, x) => Waiting(o, y, x)'
    BY <1>4, FunctionCallsiteStack
  <2> QED
    BY <1>1, <2>1, <2>2
<1>5. ASSUME NEW v \in Value, VisitPhiIncoming(v)
      PROVE  \A o, y, x : Waiting(o, y, x) => Waiting(o, y, x)' \/ Takes(o, y, x)
  <2>1. Running("visit_phi") /\ v \in Current.rest /\ Takes("visit_phi", Current.subject, v)
    BY <1>5 DEF VisitPhiIncoming, Takes
  <2>2. \A o, y, x : Waits(RestOfLoop(v), o, y, x) => Waiting(o, y, x)'
    BY <1>5, PhiIncomingStack
  <2> QED
    BY <1>1, <2>1, <2>2
<1>6. ASSUME NEW v \in Value, VisitArgCallsite(v)
      PROVE  \A o, y, x : Waiting(o, y, x) => Waiting(o, y, x)' \/ Takes(o, y, x)
  <2>1. Running("visit_arg") /\ v \in Current.rest /\ Takes("visit_arg", Current.subject, v)
    BY <1>6 DEF VisitArgCallsite, Takes
  <2>2. \A o, y, x : Waits(RestOfLoop(v), o, y, x) => Waiting(o, y, x)'
    BY <1>6, CallsiteStack
  <2> QED
    BY <1>1, <2>1, <2>2
<1>7. ASSUME NEW v \in Value, PtrRetCallsite(v)
      PROVE  \A o, y, x : Waiting(o, y, x) => Waiting(o, y, x)' \/ Takes(o, y, x)
  <2>1. Running("ptr_ret") /\ v \in Current.rest /\ Takes("ptr_ret", Current.subject, v)
    BY <1>7 DEF PtrRetCallsite, Takes
  <2>2. \A o, y, x : Waits(RestOfLoop(v), o, y, x) => Waiting(o, y, x)'
    BY <1>7, CallsiteStack
  <2> QED
    BY <1>1, <2>1, <2>2
<1>8. ASSUME NEW v \in Value, PtrArg(v)
      PROVE  \A o, y, x : Waiting(o, y, x) => Waiting(o, y, x)' \/ Takes(o, y, x)
  <2>1. Running("ptr_args") /\ v \in Current.rest /\ Takes("ptr_args", Current.subject, v)
    BY <1>8 DEF PtrArg, Takes
  <2>2. \A o, y, x : Waits(RestOfLoop(v), o, y, x) => Waiting(o, y, x)'
    BY <1>8, PassStack
  <2> QED
    BY <1>1, <2>1, <2>2
<1>9. ASSUME NEW v \in Value, PtrUse(v)
      PROVE  \A o, y, x : Waiting(o, y, x) => Waiting(o, y, x)' \/ Takes(o, y, x)
  <2>1. Running("ptr_usages") /\ v \in Current.rest
    BY <1>9 DEF PtrUse, PtrUsedPlainly, PtrStore, PtrPhi, PtrSelect, VisitCallFromPtr,
       PtrRet, UsedBy
  <2>2. Takes("ptr_usages", Current.subject, v)
    BY <1>9, <2>1 DEF Takes
  <2>3. \A o, y, x : Waits(RestOfLoop(v), o, y, x) => Waiting(o, y, x)'
    BY <1>9, PassStack, PtrUseStack DEF PtrUse
  <2> QED
    BY <1>1, <2>1, <2>2, <2>3
<1>10. ASSUME VisitStore
       PROVE  \A o, y, x : Waiting(o, y, x) => Waiting(o, y, x)' \/ Takes(o, y, x)
  <2>1. Running("visit_store") /\ \A x : Takes("visit_store", Current.subject, x)
    BY <1>10 DEF VisitStore, Takes
  <2>2. \A o, y, x : Waits(Callers, o, y, x) => Waiting(o, y, x)'
    BY <1>10, StoreStack
  <2> QED
    BY <1>2, <2>1, <2>2
<1>11. ASSUME CheckCall
       PROVE  \A o, y, x : Waiting(o, y, x) => Waiting(o, y, x)' \/ Takes(o, y, x)
  <2>1. Running("check_call") /\ \A x : Takes("check_call", Current.subject, x)
    BY <1>11 DEF CheckCall, Takes
  <2>2. \A o, y, x : Waits(Callers, o, y, x) => Waiting(o, y, x)'
    BY <1>11, CheckStack
  <2> QED
    BY <1>2, <2>1, <2>2
<1>12. ASSUME AnalyzedValue \/ AnalyzedCfg
       PROVE  \A o, y, x : Waiting(o, y, x) => Waiting(o, y, x)' \/ Takes(o, y, x)
  <2>1. \E op \in {"requested_value", "requested_cfg"} :
          Running(op) /\ \A x : Takes(op, Current.subject, x)
    BY <1>12 DEF AnalyzedValue, AnalyzedCfg, Takes
  <2>2. \A o, y, x : Waits(Callers, o, y, x) => Waiting(o, y, x)'
    BY <1>12, AnalyzedStack
  <2> QED
    BY <1>2, <2>1, <2>2
<1> QED
  BY <1>3, <1>4, <1>5, <1>6, <1>7, <1>8, <1>9, <1>10, <1>11, <1>12, StartingSteps
     DEF Next, PtrUse

\* Why a step includes x.
IncludeCause(x) ==
  \/ AnalyzeValue(x)
  \/ AnalyzeCfg(x)
  \/ IncludeFunctionCallsite(x) /\ Current.subject \in include_all_callsites
  \/ \E v \in Value : IncludeValue(v) /\ x \in Terminators(v) \cup needs[v]
  \/ \E v \in included : x \in needs'[v]
  \/ /\ VisitStore
     /\ x \in {Current.subject} \cup Operands[Current.subject]
     /\ IsStoreImportant(Current.subject, InfoOf(PtrOperand[Current.subject]))
  \/ CheckCall /\ x = Current.subject /\ ShouldCallBeIncluded(x)

\* Why a step starts a call of op for s that has to come to x.
StartCause(op, s, x) ==
  \/ op = "include" /\ IncludeCause(x)
  \/ /\ op = "callsites" /\ x \in Callsites(s)
     /\ s \in include_in_precompute' \ include_in_precompute
  \/ op = "visit_store" /\ x = s /\ (VisitStoreValue(s) \/ PtrStore(s))
  \/ op = "check_call" /\ x = s /\ VisitCall(s)
  \/ op = "visit_phi" /\ VisitPhi(s)
  \/ op = "visit_arg" /\ VisitArg(s) /\ s \notin args_to_use
  \/ op = "requested_value" /\ AnalyzeValue(s)
  \/ op = "requested_cfg" /\ AnalyzeCfg(s)
  \/ /\ op \in {"ptr_usages", "ptr_args", "ptr_ret"}
     /\ s \in to_visit \/ \E y : Waiting("visit_phi", s, y) \/ Waiting("ptr_usages", s, y)

LEMMA RestWaited ==
  ASSUME TypeOK, NEW op, Running(op), NEW v, v \in Current.rest
  PROVE  \A o, y, x : Waits(RestOfLoop(v), o, y, x) => Waiting(o, y, x)
<1>1. Left(Current) = Current.rest
  BY DEF Left
<1> QED
  BY <1>1, WaitsRunning

LEMMA NeedsIncluded ==
  ASSUME TypeOK, NEW v \in Value, NEW vs, InsertNeeds(v, vs), v \in included
  PROVE  \A x \in vs : IncludeCause(x)
BY DEF InsertNeeds, IncludeCause, TypeOK

LEMMA WaitingNew ==
  ASSUME TypeOK, Next
  PROVE  \A o, y, x : Waiting(o, y, x)' => Waiting(o, y, x) \/ StartCause(o, y, x)
<1> DEFINE Goal == \A o, y, x : Waiting(o, y, x)' => Waiting(o, y, x) \/ StartCause(o, y, x)
<1>1. ASSUME NEW v \in Value, IncludeAgain(v) \/ PtrUsedPlainly(v) \/ PtrPhi(v) \/ PtrSelect(v) \/ PtrArg(v)
      PROVE  Goal
  <2>1. v \in Current.rest /\ \E op : Running(op)
    BY <1>1 DEF IncludeAgain, PtrUsedPlainly, PtrPhi, PtrSelect, PtrArg, UsedBy
  <2> QED
    BY <1>1, <2>1, PassStack, RestWaited
<1>2. ASSUME NEW v \in Value, IncludeValue(v) PROVE Goal
  <2>1. v \in Current.rest /\ Running("include")
    BY <1>2 DEF IncludeValue
  <2>2. \A x \in Terminators(v) \cup needs[v] : IncludeCause(x)
    BY <1>2 DEF IncludeCause
  <2>3. FunctionToInclude(v) # {} => ParentOf[v] \in include_in_precompute' \ include_in_precompute
    BY <1>2 DEF IncludeValue, FunctionToInclude
  <2> QED
    BY <1>2, <2>1, <2>2, <2>3, IncludeValueStack, RestWaited DEF StartCause
<1>3. ASSUME NEW c \in Value, IncludeFunctionCallsite(c) PROVE Goal
  <2>1. c \in Current.rest /\ Running("callsites")
    BY <1>3 DEF IncludeFunctionCallsite
  <2>2. Current.subject \in include_all_callsites => IncludeCause(c)
    BY <1>3 DEF IncludeCause
  <2>3. Current.subject \in include_all_callsites /\ ParentOf[c] \notin include_in_precompute
          => ParentOf[c] \in include_in_precompute' \ include_in_precompute
    BY <1>3 DEF IncludeFunctionCallsite
  <2> QED
    BY <1>3, <2>1, <2>2, <2>3, FunctionCallsiteStack, RestWaited DEF StartCause
<1>4. ASSUME NEW v \in Value, VisitPhiIncoming(v) PROVE Goal
  <2>1. v \in Current.rest /\ Running("visit_phi") /\ InsertNeeds(Current.subject, {v})
    BY <1>4 DEF VisitPhiIncoming
  <2>2. Current.subject \in Value
    BY <2>1, WaitsRunning, FrameCases DEF OfKind
  <2>3. Current.subject \in included => IncludeCause(v)
    BY <2>1, <2>2, NeedsIncluded
  <2>4. Waiting("visit_phi", Current.subject, v)
    BY <2>1, WaitsRunning DEF Left
  <2> QED
    BY <1>4, <2>1, <2>3, <2>4, PhiIncomingStack, RestWaited DEF StartCause
<1>5. ASSUME NEW c \in Value, VisitArgCallsite(c) PROVE Goal
  <2> DEFINE a == Current.subject
  <2>1. c \in Current.rest /\ Running("visit_arg") /\ InsertNeeds(a, {ArgOperand[c][a]})
    BY <1>5 DEF VisitArgCallsite
  <2>2. a \in Value
    BY <2>1, WaitsRunning, FrameCases DEF OfKind
  <2>3. a \in included => IncludeCause(ArgOperand[c][a])
    BY <2>1, <2>2, NeedsIncluded
  <2>4. \A o, y, x : Waiting(o, y, x)' =>
          \/ a \in included /\ o = "include" /\ y = a /\ x = ArgOperand[c][a]
          \/ Waits(RestOfLoop(c), o, y, x)
    BY <1>5, CallsiteStack
  <2> QED
    BY <2>1, <2>3, <2>4, RestWaited DEF StartCause
<1>6. ASSUME NEW c \in Value, PtrRetCallsite(c) PROVE Goal
  <2> DEFINE p == Current.subject
  <2>1. c \in Current.rest /\ Running("ptr_ret") /\ InsertNeeds(p, {c})
    BY <1>6 DEF PtrRetCallsite
  <2>2. p \in Value
    BY <2>1, WaitsRunning, FrameCases, PointersAreValues
  <2>3. p \in included => IncludeCause(c)
    BY <2>1, <2>2, NeedsIncluded
  <2>4. \A o, y, x : Waiting(o, y, x)' =>
          \/ p \in included /\ o = "include" /\ y = p /\ x = c
          \/ Waits(RestOfLoop(c), o, y, x)
    BY <1>6, CallsiteStack
  <2> QED
    BY <2>1, <2>3, <2>4, RestWaited DEF StartCause
<1>7. ASSUME NEW u \in Value, PtrStore(u) \/ VisitCallFromPtr(u) \/ PtrRet(u) PROVE Goal
  <2>1. u \in Current.rest /\ Running("ptr_usages")
    BY <1>7 DEF PtrStore, VisitCallFromPtr, PtrRet, UsedBy
  <2>2. \A o, y, x : Waiting(o, y, x)' =>
          \/ PtrStore(u) /\ o = "visit_store" /\ y = u /\ x = u
          \/ o \in {"ptr_args", "ptr_ret"} /\ y = Current.subject
          \/ Waits(RestOfLoop(u), o, y, x)
    BY <1>7, PtrUseStack
  <2>3. Waiting("ptr_usages", Current.subject, u)
    BY <2>1, WaitsRunning DEF Left
  <2> QED
    BY <2>1, <2>2, <2>3, RestWaited DEF StartCause
<1>8. ASSUME VisitStore PROVE Goal
  <2> DEFINE s == Current.subject
             p == PtrOperand[s]
             inserted == IF IsStoreImportant(s, InfoOf(p)) THEN Operands[s] ELSE {p}
  <2>1. Running("visit_store") /\ InsertNeeds(s, inserted)
    BY <1>8 DEF VisitStore
  <2>2. s \in Value /\ p \in Operands[s]
    <3>1. s \in OfKind("store")
      BY <2>1, WaitsRunning, FrameCases
    <3> QED
      BY <3>1, ProgramAssumption DEF ProgramAssumption, OfKind
  <2>3. s \in included => IncludeCause(p)
    BY <2>1, <2>2, NeedsIncluded
  <2>4. IsStoreImportant(s, InfoOf(p)) => \A x \in {s, p} \cup Operands[s] : IncludeCause(x)
    BY <1>8, <2>2 DEF IncludeCause
  <2>5. \A o, y, x : Waiting(o, y, x)' =>
          \/ o = "include" /\ y = s /\ x = p /\ s \in included
          \/ /\ o = "include" /\ y = s /\ x \in {s, p} \cup Operands[s]
             /\ IsStoreImportant(s, InfoOf(p))
          \/ Waits(Callers, o, y, x)
    BY <1>8, StoreStack
  <2>6. \A o, y, x : Waits(Callers, o, y, x) => Waiting(o, y, x)
    BY <2>1, WaitsRunning
  <2> HIDE DEF inserted, p, s
  <2> QED
    BY <2>3, <2>4, <2>5, <2>6 DEF StartCause
<1>9. ASSUME CheckCall PROVE Goal
  <2>1. \A o, y, x : Waits(Callers, o, y, x) => Waiting(o, y, x)
    BY <1>9, WaitsRunning DEF CheckCall
  <2>2. ShouldCallBeIncluded(Current.subject) => IncludeCause(Current.subject)
    BY <1>9 DEF IncludeCause
  <2> QED
    BY <1>9, <2>1, <2>2, CheckStack DEF StartCause
<1>10. ASSUME AnalyzedValue \/ AnalyzedCfg PROVE Goal
  <2>1. \E op : Running(op)
    BY <1>10 DEF AnalyzedValue, AnalyzedCfg
  <2> QED
    BY <1>10, <2>1, AnalyzedStack, WaitsRunning
<1>11. ASSUME NEW v \in Value, AnalyzeValue(v) \/ AnalyzeCfg(v) PROVE Goal
  <2>1. IncludeCause(v)
    BY <1>11 DEF IncludeCause
  <2> QED
    BY <1>11, <2>1, AnalyzeStack DEF StartCause
<1>12. ASSUME NextRound PROVE Goal
  <2>1. \A v \in Value : \A o, y, x : ~ Waiting(o, y, x)'
    BY <1>12, AnalyzeStack
  <2>2. \A o, y, x : ~ Waiting(o, y, x)'
    BY <1>12, WaitsEmpty DEF NextRound, Analyzed, Waiting
  <2> QED
    BY <2>2
<1>13. ASSUME NEW v \in Value, VisitOperands(v) \/ VisitSelect(v) PROVE Goal
  <2>1. v \in included => \A x \in Operands[v] : IncludeCause(x)
    BY <1>13, NeedsIncluded DEF VisitOperands, VisitSelect
  <2> QED
    BY <1>13, <2>1, VisitStack DEF StartCause, VisitWaits, VisitOperands, VisitSelect, Visit
<1>14. ASSUME NEW v \in Value, VisitLoad(v) PROVE Goal
  <2>1. v \in included => IncludeCause(PtrOperand[v])
    BY <1>14, NeedsIncluded DEF VisitLoad
  <2> QED
    BY <1>14, <2>1, VisitStack DEF StartCause
<1>15. ASSUME NEW v \in Value, VisitStoreValue(v) \/ VisitPhi(v) \/ VisitArg(v) PROVE Goal
  <2>1. CASE VisitStoreValue(v) \/ VisitPhi(v)
    BY <2>1, VisitStack DEF StartCause
  <2>2. CASE VisitArg(v)
    <3>1. v \in to_visit
      BY <2>2 DEF VisitArg, Visit
    <3>2. \A o, y, x : Waiting(o, y, x)' =>
            \/ o = "visit_arg" /\ y = v /\ v \notin args_to_use
            \/ o = "ptr_usages" /\ y = v
      BY <2>2, VisitStack
    <3> QED
      BY <2>2, <3>1, <3>2 DEF StartCause
  <2> QED
    BY <1>15, <2>1, <2>2
<1>16. ASSUME NEW c \in Value, VisitCall(c) PROVE Goal
  <2> DEFINE rets == IF IsRetvalNeeded(c) THEN ReturnsOf(CalledFunction[c]) ELSE {}
  <2>1. c \in included => \A x \in rets : IncludeCause(x)
    BY <1>16, NeedsIncluded DEF VisitCall
  <2>2. \A o, y, x : Waiting(o, y, x)' =>
          (o = "check_call" /\ y = c /\ x = c) \/ VisitWaits(c, rets, o, y, x)
    BY <1>16, CallStack
  <2> HIDE DEF rets
  <2> QED
    BY <1>16, <2>1, <2>2 DEF StartCause, VisitWaits, VisitCall, Visit
<1> QED
  BY <1>1, <1>2, <1>3, <1>4, <1>5, <1>6, <1>7, <1>8, <1>9, <1>10, <1>11, <1>12, <1>13,
     <1>14, <1>15, <1>16 DEF Next

-----------------------------------------------------------------------------
(* What a step taints, needs and visits.                                   *)

\* Nothing is needed for a store's own sake.
NoStores == Value \ OfKind("store")

LEMMA NoStoreInOperands ==
  /\ \A v \in Value : Operands[v] \subseteq NoStores /\ Terminators(v) \subseteq NoStores
  /\ Pointer \subseteq NoStores
  /\ OfKind("ret") \subseteq NoStores
  /\ Call \subseteq NoStores
  /\ \A f : ReturnsOf(f) \subseteq NoStores
BY ProgramAssumption, StoreAssumption
   DEF ProgramAssumption, StoreAssumption, NoStores, Terminators, OfKind, Call, Inst, ReturnsOf

\* What a step may insert.
LEMMA ValueSteps ==
  ASSUME TypeOK, Next
  PROVE  /\ tainted_values \subseteq tainted_values'
         /\ \/ needs' = needs
            \/ \E v \in Value, vs \in SUBSET NoStores : InsertNeeds(v, vs)
            \/ \E u \in Value, p \in Pointer, op \in {"ptr_usages", "ptr_args"} :
                 Waiting(op, p, u) /\ InsertUser(u, p)
<1> DEFINE Goal == /\ tainted_values \subseteq tainted_values'
                   /\ \/ needs' = needs
                      \/ \E v \in Value, vs \in SUBSET NoStores : InsertNeeds(v, vs)
                      \/ \E u \in Value, p \in Pointer, op \in {"ptr_usages", "ptr_args"} :
                           Waiting(op, p, u) /\ InsertUser(u, p)
<1>1. ASSUME NEW v \in Value, NEW vs \in SUBSET NoStores, InsertNeeds(v, vs) PROVE Goal
  BY <1>1 DEF InsertNeeds
<1>2. ASSUME \/ AnalyzedValue \/ AnalyzedCfg \/ NextRound \/ CheckCall
             \/ \E v \in Value :
                  \/ AnalyzeValue(v) \/ AnalyzeCfg(v)
                  \/ IncludeAgain(v) \/ IncludeValue(v) \/ IncludeFunctionCallsite(v)
                  \/ VisitStoreValue(v) \/ VisitPhi(v) \/ VisitArg(v)
                  \/ PtrUsedPlainly(v) \/ PtrRet(v)
      PROVE  Goal
  BY <1>2 DEF AnalyzedValue, AnalyzedCfg, NextRound, CheckCall, AnalyzeValue, AnalyzeCfg,
     IncludeAgain, IncludeValue, IncludeFunctionCallsite, VisitStoreValue, VisitPhi,
     VisitArg, PtrUsedPlainly, PtrRet, valueVars
<1>3. ASSUME NEW v \in Value, VisitOperands(v) \/ VisitSelect(v) PROVE Goal
  <2>1. Operands[v] \in SUBSET NoStores /\ InsertNeeds(v, Operands[v])
    BY <1>3, NoStoreInOperands DEF VisitOperands, VisitSelect
  <2> QED
    BY <1>1, <2>1
<1>4. ASSUME NEW v \in Value, VisitLoad(v) PROVE Goal
  <2>1. v \in OfKind("load")
    BY <1>4 DEF VisitLoad, Visit, OfKind
  <2>2. {PtrOperand[v]} \in SUBSET NoStores
    BY <2>1, NoStoreInOperands, ProgramAssumption DEF ProgramAssumption
  <2> QED
    BY <1>1, <1>4, <2>2 DEF VisitLoad
<1>5. ASSUME VisitStore PROVE Goal
  <2> DEFINE s == Current.subject
             p == PtrOperand[s]
             inserted == IF IsStoreImportant(s, InfoOf(p)) THEN Operands[s] ELSE {p}
  <2>1. Running("visit_store") /\ InsertNeeds(s, inserted)
    BY <1>5 DEF VisitStore
  <2>2. s \in OfKind("store")
    BY <2>1, WaitsRunning, FrameCases
  <2>3. s \in Value /\ inserted \in SUBSET NoStores
    BY <2>2, NoStoreInOperands, ProgramAssumption DEF ProgramAssumption, OfKind
  <2> QED
    BY <1>1, <2>1, <2>3
<1>6. ASSUME NEW v \in Value, VisitPhiIncoming(v) PROVE Goal
  <2> DEFINE phi == Current.subject
  <2>1. Running("visit_phi") /\ v \in Current.rest /\ InsertNeeds(phi, {v})
    BY <1>6 DEF VisitPhiIncoming
  <2>2. phi \in Value /\ v \in Operands[phi]
    BY <2>1, WaitsRunning, FrameCases DEF OfKind
  <2>3. {v} \in SUBSET NoStores
    BY <2>2, NoStoreInOperands
  <2> QED
    BY <1>1, <2>1, <2>2, <2>3
<1>7. ASSUME NEW c \in Value, VisitArgCallsite(c) PROVE Goal
  <2> DEFINE a == Current.subject
  <2>1. Running("visit_arg") /\ c \in Current.rest /\ InsertNeeds(a, {ArgOperand[c][a]})
    BY <1>7 DEF VisitArgCallsite
  <2>2. a \in OfKind("arg") /\ c \in Callsites(ParentOf[a])
    BY <2>1, WaitsRunning, FrameCases
  <2>3. a \in Value /\ ArgOperand[c][a] \in Operands[c]
    BY <2>2, ProgramAssumption DEF ProgramAssumption, Callsites, OfKind
  <2>4. {ArgOperand[c][a]} \in SUBSET NoStores
    BY <2>3, NoStoreInOperands
  <2> QED
    BY <1>1, <2>1, <2>3, <2>4
<1>8. ASSUME NEW c \in Value, PtrRetCallsite(c) PROVE Goal
  <2>1. Running("ptr_ret") /\ c \in Current.rest /\ InsertNeeds(Current.subject, {c})
    BY <1>8 DEF PtrRetCallsite
  <2>2. Current.subject \in Value /\ c \in Pointer
    BY <2>1, WaitsRunning, FrameCases, PointersAreValues
  <2>3. {c} \in SUBSET NoStores
    BY <2>2, NoStoreInOperands
  <2> QED
    BY <1>1, <2>1, <2>2, <2>3
<1>9. ASSUME NEW c \in Value, VisitCall(c) PROVE Goal
  <2> DEFINE rets == IF IsRetvalNeeded(c) THEN ReturnsOf(CalledFunction[c]) ELSE {}
  <2>1. rets \in SUBSET NoStores /\ InsertNeeds(c, rets)
    BY <1>9, NoStoreInOperands DEF VisitCall
  <2> QED
    BY <1>1, <2>1
<1>10. ASSUME NEW u \in Value, PtrStore(u) \/ PtrPhi(u) \/ PtrSelect(u) \/ VisitCallFromPtr(u)
       PROVE  Goal
  <2>1. Running("ptr_usages") /\ u \in Current.rest
    BY <1>10 DEF PtrStore, PtrPhi, PtrSelect, VisitCallFromPtr, UsedBy
  <2>2. Current.subject \in Pointer /\ Waiting("ptr_usages", Current.subject, u)
    BY <2>1, WaitsRunning, FrameCases DEF Left
  <2>3. InsertUser(u, Current.subject) \/ UNCHANGED valueVars
    BY <1>10 DEF PtrStore, PtrPhi, PtrSelect, VisitCallFromPtr
  <2> QED
    BY <2>2, <2>3 DEF InsertUser, valueVars
<1>11. ASSUME NEW u \in Value, PtrArg(u) PROVE Goal
  <2>1. Running("ptr_args") /\ u \in Current.rest
    BY <1>11 DEF PtrArg
  <2>2. Current.subject \in Pointer /\ Waiting("ptr_args", Current.subject, u)
    BY <2>1, WaitsRunning, FrameCases DEF Left
  <2>3. InsertUser(u, Current.subject)
    BY <1>11 DEF PtrArg
  <2> QED
    BY <2>2, <2>3 DEF InsertUser
<1> QED
  BY <1>2, <1>3, <1>4, <1>5, <1>6, <1>7, <1>8, <1>9, <1>10, <1>11 DEF Next

\* Edges are never removed; what a step needs anew is no store.
LEMMA NeedsSteps ==
  ASSUME TypeOK, Next
  PROVE  /\ \A v \in Value : needs[v] \subseteq needs'[v] /\ needs'[v] \subseteq needs[v] \cup NoStores
         /\ \A v \in Value : \A x \in needs'[v] \ needs[v] :
              x \in tainted_values' \/ \E op \in {"ptr_usages", "ptr_args"} : \E u : Waiting(op, x, u)
<1>1. CASE needs' = needs
  BY <1>1
<1>2. ASSUME NEW v \in Value, NEW vs \in SUBSET NoStores, InsertNeeds(v, vs)
      PROVE  \A w \in Value : /\ needs[w] \subseteq needs'[w]
                              /\ needs'[w] \subseteq needs[w] \cup NoStores
                              /\ \A x \in needs'[w] \ needs[w] : x \in tainted_values'
  BY <1>2 DEF InsertNeeds, TypeOK
<1>3. ASSUME NEW u \in Value, NEW p \in Pointer, NEW op \in {"ptr_usages", "ptr_args"},
             Waiting(op, p, u), InsertUser(u, p)
      PROVE  \A w \in Value : /\ needs[w] \subseteq needs'[w]
                              /\ needs'[w] \subseteq needs[w] \cup NoStores
                              /\ \A x \in needs'[w] \ needs[w] : x = p
  BY <1>3, NoStoreInOperands DEF InsertUser, TypeOK
<1> QED
  BY <1>1, <1>2, <1>3, ValueSteps

-----------------------------------------------------------------------------
(* What is asked for is known.                                             *)

\* x is in the slice, or a call in progress is about to include it.
Asked(x) == x \in included \/ \E s : Waiting("include", s, x)

LEMMA IncludedSteps ==
  ASSUME TypeOK, Next
  PROVE  /\ included \subseteq included'
         /\ \A x \in included' \ included :
              IncludeValue(x) /\ Waiting("include", Current.subject, x)
<1>1. ASSUME NEW x \in Value, IncludeValue(x)
      PROVE  included' = included \cup {x} /\ Waiting("include", Current.subject, x)
  <2>1. Running("include") /\ x \in Current.rest
    BY <1>1 DEF IncludeValue
  <2> QED
    BY <1>1, <2>1, WaitsRunning DEF IncludeValue, Left
<1> QED
  BY <1>1, SliceSteps

LEMMA AskedKept ==
  ASSUME TypeOK, Next
  PROVE  \A x : Asked(x) => Asked(x)'
<1> SUFFICES ASSUME NEW x, Asked(x) PROVE Asked(x)'
  OBVIOUS
<1>1. CASE x \in included
  BY <1>1, IncludedSteps DEF Asked
<1>2. ASSUME NEW s, Waiting("include", s, x) PROVE Asked(x)'
  <2>1. CASE Waiting("include", s, x)'
    BY <2>1 DEF Asked
  <2>2. CASE Takes("include", s, x)
    BY <2>2, IncludedSteps DEF Takes, Asked, IncludeAgain, IncludeValue
  <2> QED
    BY <1>2, <2>1, <2>2, WaitingKept
<1> QED
  BY <1>1, <1>2 DEF Asked

LEMMA RoundSteps ==
  ASSUME Next
  PROVE  to_visit' \subseteq to_visit \cup tainted_values
BY DEF Next, AnalyzedValue, AnalyzedCfg, NextRound, VisitStore, CheckCall, AnalyzeValue,
   AnalyzeCfg, IncludeAgain, IncludeValue, IncludeFunctionCallsite, VisitOperands, VisitLoad,
   VisitStoreValue, VisitPhi, VisitPhiIncoming, VisitSelect, VisitArg, VisitArgCallsite,
   VisitCall, Visit, PtrUsedPlainly, PtrStore, PtrPhi, PtrSelect, VisitCallFromPtr, PtrArg,
   PtrRet, PtrRetCallsite

\* The calls that are made for a tainted value.
TaintedOps == {"visit_store", "check_call", "visit_phi", "ptr_usages", "ptr_args", "ptr_ret"}

TaintInv ==
  /\ \A x : Asked(x) => x \in tainted_values
  /\ \A v \in Value : needs[v] \subseteq tainted_values
  /\ to_visit \subseteq tainted_values
  /\ \A op \in TaintedOps : \A s, x : Waiting(op, s, x) => s \in tainted_values

LEMMA TaintStep ==
  ASSUME TypeOK, TaintInv, Next
  PROVE  TaintInv'
<1>1. tainted_values \subseteq tainted_values'
  BY ValueSteps
<1>2. \A v \in Value : needs'[v] \subseteq tainted_values'
  <2> SUFFICES ASSUME NEW v \in Value, NEW x \in needs'[v] PROVE x \in tainted_values'
    OBVIOUS
  <2>1. CASE x \in needs[v]
    BY <1>1, <2>1 DEF TaintInv
  <2>2. CASE x \notin needs[v]
    BY <1>1, <2>2, NeedsSteps DEF TaintInv, TaintedOps
  <2> QED
    BY <2>1, <2>2
<1>3. to_visit' \subseteq tainted_values'
  BY <1>1, RoundSteps DEF TaintInv
<1>4. ASSUME NEW op \in TaintedOps, NEW s, NEW x, Waiting(op, s, x)'
      PROVE  s \in tainted_values'
  <2>1. CASE Waiting(op, s, x)
    BY <1>1, <2>1 DEF TaintInv
  <2>2. CASE StartCause(op, s, x)
    <3>1. CASE op \in {"ptr_usages", "ptr_args", "ptr_ret"}
      BY <1>1, <2>2, <3>1 DEF StartCause, TaintInv, TaintedOps
    <3>2. CASE PtrStore(s)
      BY <3>2 DEF PtrStore, InsertUser
    <3>3. CASE VisitStoreValue(s) \/ VisitCall(s) \/ VisitPhi(s)
      BY <1>1, <3>3 DEF VisitStoreValue, VisitCall, VisitPhi, Visit, TaintInv
    <3> QED
      BY <2>2, <3>1, <3>2, <3>3 DEF StartCause, TaintedOps
  <2> QED
    BY <1>4, <2>1, <2>2, WaitingNew
<1>5. ASSUME NEW x, IncludeCause(x) PROVE x \in tainted_values'
  <2>1. CASE AnalyzeValue(x) \/ AnalyzeCfg(x) \/ IncludeFunctionCallsite(x)
    BY <2>1 DEF AnalyzeValue, AnalyzeCfg, IncludeFunctionCallsite
  <2>2. ASSUME NEW v \in Value, IncludeValue(v), x \in Terminators(v) \cup needs[v]
        PROVE  x \in tainted_values'
    BY <1>1, <2>2 DEF IncludeValue, TaintInv
  <2>3. ASSUME NEW v \in included, x \in needs'[v] PROVE x \in tainted_values'
    BY <1>2, <2>3 DEF TypeOK
  <2>4. CASE /\ VisitStore
             /\ x \in {Current.subject} \cup Operands[Current.subject]
             /\ IsStoreImportant(Current.subject, InfoOf(PtrOperand[Current.subject]))
    <3>1. Waiting("visit_store", Current.subject, Current.subject)
      <4>1. Running("visit_store")
        BY <2>4 DEF VisitStore
      <4> QED
        BY <4>1, WaitsRunning, FrameCases DEF Left
    <3>2. Operands[Current.subject] \subseteq tainted_values'
      BY <2>4 DEF VisitStore, InsertNeeds
    <3> QED
      BY <1>1, <2>4, <3>1, <3>2 DEF TaintInv, TaintedOps
  <2>5. CASE CheckCall /\ x = Current.subject
    <3>1. Waiting("check_call", Current.subject, Current.subject)
      <4>1. Running("check_call")
        BY <2>5 DEF CheckCall
      <4> QED
        BY <4>1, WaitsRunning, FrameCases DEF Left
    <3> QED
      BY <1>1, <2>5, <3>1 DEF TaintInv, TaintedOps
  <2> QED
    BY <1>5, <2>1, <2>2, <2>3, <2>4, <2>5 DEF IncludeCause
<1>6. ASSUME NEW x, Asked(x)' PROVE x \in tainted_values'
  <2>1. CASE x \in included'
    <3>1. Asked(x)
      BY <2>1, IncludedSteps DEF Asked
    <3> QED
      BY <1>1, <3>1 DEF TaintInv
  <2>2. ASSUME NEW s, Waiting("include", s, x)' PROVE x \in tainted_values'
    <3>1. Waiting("include", s, x) \/ IncludeCause(x)
      BY <2>2, WaitingNew DEF StartCause
    <3> QED
      BY <1>1, <1>5, <3>1 DEF TaintInv, Asked
  <2> QED
    BY <1>6, <2>1, <2>2 DEF Asked
<1> QED
  BY <1>2, <1>3, <1>4, <1>6 DEF TaintInv

LEMMA StutterKeepsCalls ==
  ASSUME UNCHANGED vars
  PROVE  \A op, s, x : (Waiting(op, s, x)' <=> Waiting(op, s, x)) /\ (Asked(x)' <=> Asked(x))
BY DEF Waiting, Waits, FramesOf, Asked, vars

LEMMA TaintedIsKnown == Spec => []TaintInv
<1>1. Init => TaintInv
  <2> SUFFICES ASSUME Init PROVE TaintInv
    OBVIOUS
  <2>1. \A op, s, x : ~ Waiting(op, s, x)
    BY NothingWaits DEF Init
  <2> QED
    BY <2>1 DEF Init, TaintInv, Asked
<1>2. TypeOK /\ TaintInv /\ [Next]_vars => TaintInv'
  <2> SUFFICES ASSUME TypeOK, TaintInv, UNCHANGED vars
               PROVE  TaintInv'
    BY TaintStep
  <2> QED
    BY StutterKeepsCalls DEF TaintInv, vars, valueVars
<1> QED
  BY <1>1, <1>2, TypeCorrect, PTL DEF Spec

-----------------------------------------------------------------------------
(* The operands of what is included.                                       *)

\* What a step marks as visited.
LEMMA VisitedSteps ==
  ASSUME TypeOK, Next
  PROVE  \A v \in visited' \ visited :
           \/ VisitOperands(v) \/ VisitLoad(v) \/ VisitSelect(v) \/ VisitArg(v) \/ VisitCall(v)
           \/ VisitStore /\ v \in OfKind("store")
           \/ \E x \in Value : VisitPhiIncoming(x) /\ v = Current.subject
           \/ AnalyzedCfg /\ v = Current.subject
<1> DEFINE Cause(v) ==
             \/ VisitOperands(v) \/ VisitLoad(v) \/ VisitSelect(v) \/ VisitArg(v) \/ VisitCall(v)
             \/ VisitStore /\ v \in OfKind("store")
             \/ \E x \in Value : VisitPhiIncoming(x) /\ v = Current.subject
             \/ AnalyzedCfg /\ v = Current.subject
<1>1. ASSUME VisitStore PROVE \A v \in visited' \ visited : Cause(v)
  <2>1. Current.subject \in OfKind("store")
    <3>1. Running("visit_store")
      BY <1>1 DEF VisitStore
    <3> QED
      BY <3>1, WaitsRunning, FrameCases
  <2>2. visited' \ visited \subseteq {Current.subject}
    BY <1>1 DEF VisitStore
  <2> QED
    BY <1>1, <2>1, <2>2
<1>2. ASSUME \/ AnalyzedValue \/ NextRound \/ CheckCall
             \/ \E v \in Value :
                  \/ AnalyzeValue(v) \/ AnalyzeCfg(v)
                  \/ IncludeAgain(v) \/ IncludeValue(v) \/ IncludeFunctionCallsite(v)
                  \/ VisitStoreValue(v) \/ VisitPhi(v) \/ VisitArgCallsite(v)
                  \/ PtrUsedPlainly(v) \/ PtrStore(v) \/ PtrPhi(v) \/ PtrSelect(v)
                  \/ VisitCallFromPtr(v) \/ PtrArg(v) \/ PtrRet(v) \/ PtrRetCallsite(v)
      PROVE  visited' \subseteq visited
  BY <1>2 DEF AnalyzedValue, NextRound, CheckCall, AnalyzeValue, AnalyzeCfg, IncludeAgain,
     IncludeValue, IncludeFunctionCallsite, VisitStoreValue, VisitPhi, VisitArgCallsite,
     PtrUsedPlainly, PtrStore, PtrPhi, PtrSelect, VisitCallFromPtr, PtrArg, PtrRet, PtrRetCallsite
<1>3. ASSUME AnalyzedCfg PROVE visited' \ visited \subseteq {Current.subject}
  BY <1>3 DEF AnalyzedCfg
<1>4. ASSUME NEW x \in Value, VisitPhiIncoming(x)
      PROVE  visited' \ visited \subseteq {Current.subject}
  BY <1>4 DEF VisitPhiIncoming
<1>5. ASSUME NEW x \in Value,
             VisitOperands(x) \/ VisitLoad(x) \/ VisitSelect(x) \/ VisitArg(x) \/ VisitCall(x)
      PROVE  visited' \ visited \subseteq {x}
  BY <1>5 DEF VisitOperands, VisitLoad, VisitSelect, VisitArg, VisitCall
<1> QED
  BY <1>1, <1>2, <1>3, <1>4, <1>5 DEF Next

\* What the analysis still has to insert is requested, and no store is ever needed.
RequestInv ==
  /\ to_precompute_value \subseteq request.value
  /\ to_precompute_cfg \subseteq request.cfg
  /\ \A i, x : Waiting("requested_cfg", i, x) => i \in request.cfg
  /\ \A v \in Value : needs[v] \subseteq NoStores

LEMMA RequestSteps ==
  ASSUME Next
  PROVE  /\ request' = request
         /\ to_precompute_value' \subseteq to_precompute_value
         /\ to_precompute_cfg' \subseteq to_precompute_cfg
BY DEF Next, AnalyzedValue, AnalyzedCfg, NextRound, VisitStore, CheckCall, AnalyzeValue,
   AnalyzeCfg, IncludeAgain, IncludeValue, IncludeFunctionCallsite, VisitOperands, VisitLoad,
   VisitStoreValue, VisitPhi, VisitPhiIncoming, VisitSelect, VisitArg, VisitArgCallsite,
   VisitCall, Visit, PtrUsedPlainly, PtrStore, PtrPhi, PtrSelect, VisitCallFromPtr, PtrArg,
   PtrRet, PtrRetCallsite, requestVars

LEMMA RequestStep ==
  ASSUME TypeOK, RequestInv, Next
  PROVE  RequestInv'
<1>1. ASSUME NEW i, NEW x, Waiting("requested_cfg", i, x)' PROVE i \in request.cfg
  <2>1. Waiting("requested_cfg", i, x) \/ AnalyzeCfg(i)
    BY <1>1, WaitingNew DEF StartCause
  <2> QED
    BY <2>1 DEF RequestInv, AnalyzeCfg
<1>2. \A v \in Value : needs'[v] \subseteq NoStores
  BY NeedsSteps DEF RequestInv
<1> QED
  BY <1>1, <1>2, RequestSteps DEF RequestInv

LEMMA OnlyRequestsAnalyzed == Spec => []RequestInv
<1>1. Init => RequestInv
  <2> SUFFICES ASSUME Init PROVE RequestInv
    OBVIOUS
  <2>1. \A op, s, x : ~ Waiting(op, s, x)
    BY NothingWaits DEF Init
  <2> QED
    BY <2>1 DEF Init, RequestInv
<1>2. TypeOK /\ RequestInv /\ [Next]_vars => RequestInv'
  <2> SUFFICES ASSUME TypeOK, RequestInv, UNCHANGED vars
               PROVE  RequestInv'
    BY RequestStep
  <2> QED
    BY StutterKeepsCalls DEF RequestInv, vars, requestVars, valueVars
<1> QED
  BY <1>1, <1>2, TypeCorrect, PTL DEF Spec

\* v is asked for together with x.
AskedWith(v, x) == x \in needs[v] /\ (v \in included => Asked(x))

LEMMA AskedWithKept ==
  ASSUME TypeOK, Next, NEW v \in Value
  PROVE  \A x : AskedWith(v, x) => AskedWith(v, x)'
<1> SUFFICES ASSUME NEW x, AskedWith(v, x) PROVE AskedWith(v, x)'
  OBVIOUS
<1>1. x \in needs'[v]
  BY NeedsSteps DEF AskedWith
<1>2. CASE v \in included
  BY <1>1, <1>2, AskedKept DEF AskedWith
<1>3. CASE v \in included' \ included
  <2>1. IncludeValue(v)
    BY <1>3, IncludedSteps
  <2>2. Waiting("include", v, x)'
    BY <2>1, IncludeValueStack DEF AskedWith
  <2> QED
    BY <1>1, <2>2 DEF AskedWith, Asked
<1> QED
  BY <1>1, <1>2, <1>3 DEF AskedWith

LEMMA AskedByLoop ==
  ASSUME TypeOK, NEW c \in Value, NEW s, s = Current.subject
  PROVE  /\ VisitPhiIncoming(c) => AskedWith(s, c)'
         /\ VisitArgCallsite(c) => AskedWith(s, ArgOperand[c][s])'
<1>1. ASSUME NEW x, s \in Value, InsertNeeds(s, {x}), included' = included,
             s \in included => Waiting("include", s, x)'
      PROVE  AskedWith(s, x)'
  <2>1. x \in needs'[s]
    BY <1>1 DEF InsertNeeds, TypeOK
  <2> QED
    BY <1>1, <2>1 DEF AskedWith, Asked
<1>2. ASSUME VisitPhiIncoming(c) PROVE AskedWith(s, c)'
  <2>1. Running("visit_phi") /\ InsertNeeds(s, {c}) /\ included' = included
    BY <1>2 DEF VisitPhiIncoming
  <2>2. s \in Value
    BY <2>1, WaitsRunning, FrameCases DEF OfKind
  <2>3. s \in included => Waiting("include", s, c)'
    BY <1>2, PhiIncomingStack
  <2> QED
    BY <1>1, <2>1, <2>2, <2>3
<1>3. ASSUME VisitArgCallsite(c) PROVE AskedWith(s, ArgOperand[c][s])'
  <2>1. Running("visit_arg") /\ InsertNeeds(s, {ArgOperand[c][s]}) /\ included' = included
    BY <1>3 DEF VisitArgCallsite
  <2>2. s \in Value
    BY <2>1, WaitsRunning, FrameCases DEF OfKind
  <2>3. s \in included => Waiting("include", s, ArgOperand[c][s])'
    BY <1>3, CallsiteStack
  <2> QED
    BY <1>1, <2>1, <2>2, <2>3
<1> QED
  BY <1>2, <1>3

\* The operands a loop has come to are known, and asked for with the subject.
PhiInv ==
  \A phi \in OfKind("phi") :
    phi \in visited \ request.cfg \/ (\E y : Waiting("visit_phi", phi, y)) =>
      \A x \in Operands[phi] : Waiting("visit_phi", phi, x) \/ AskedWith(phi, x)

ArgInv ==
  /\ visited \cap OfKind("arg") \subseteq args_to_use
  /\ \A a \in OfKind("arg") \cap args_to_use : \A c \in Callsites(ParentOf[a]) :
       Waiting("visit_arg", a, c) \/ AskedWith(a, ArgOperand[c][a])

\* Values whose operands one step asks for.
VisitedAtOnce ==
  {v \in Value : Kind[v] \in {"constant", "function", "plain", "ret", "load", "select"}}

OperandInv ==
  /\ \A v \in (VisitedAtOnce \cap visited \cap included) \ request.cfg :
       \A x \in Operands[v] : Asked(x)
  /\ \A s \in OfKind("store") : Asked(s) => \A x \in Operands[s] : Asked(x)
  /\ PhiInv
  /\ ArgInv

LEMMA PhiStep ==
  ASSUME TypeOK, RequestInv, PhiInv, Next
  PROVE  PhiInv'
<1> SUFFICES ASSUME NEW phi \in OfKind("phi"),
                    phi \in visited' \ request'.cfg \/ \E y : Waiting("visit_phi", phi, y)',
                    NEW x \in Operands[phi]
             PROVE  Waiting("visit_phi", phi, x)' \/ AskedWith(phi, x)'
  BY DEF PhiInv
<1>1. phi \in Value /\ Kind[phi] = "phi"
  BY DEF OfKind
<1>2. CASE phi \in visited \ request.cfg \/ \E y : Waiting("visit_phi", phi, y)
  <2>1. Waiting("visit_phi", phi, x) \/ AskedWith(phi, x)
    BY <1>2 DEF PhiInv
  <2>2. CASE AskedWith(phi, x)
    BY <1>1, <2>2, AskedWithKept
  <2>3. CASE Waiting("visit_phi", phi, x)
    <3>1. Waiting("visit_phi", phi, x)' \/ (VisitPhiIncoming(x) /\ phi = Current.subject)
      BY <2>3, WaitingKept DEF Takes
    <3>2. x \in Value
      BY <1>1, ProgramAssumption DEF ProgramAssumption
    <3> QED
      BY <3>1, <3>2, AskedByLoop
  <2> QED
    BY <2>1, <2>2, <2>3
<1>3. CASE VisitPhi(phi)
  BY <1>1, <1>3, VisitStack
<1>4. ASSUME NEW y, Waiting("visit_phi", phi, y)', ~ VisitPhi(phi)
      PROVE  Waiting("visit_phi", phi, y)
  BY <1>4, WaitingNew DEF StartCause
<1>5. ASSUME phi \in visited' \ visited, phi \notin request.cfg
      PROVE  \E y : Waiting("visit_phi", phi, y)
  <2>1. ~ VisitOperands(phi) /\ ~ VisitLoad(phi) /\ ~ VisitSelect(phi) /\ ~ VisitArg(phi)
          /\ ~ VisitCall(phi) /\ phi \notin OfKind("store")
    BY <1>1 DEF VisitOperands, VisitLoad, VisitSelect, VisitArg, VisitCall, Visit, OfKind
  <2>2. CASE AnalyzedCfg /\ phi = Current.subject
    <3>1. Running("requested_cfg")
      BY <2>2 DEF AnalyzedCfg
    <3>2. \E y : Waiting("requested_cfg", phi, y)
      BY <2>2, <3>1, WaitsRunning, FrameCases DEF Left
    <3> QED
      BY <1>5, <3>2 DEF RequestInv
  <2>3. ASSUME NEW y \in Value, VisitPhiIncoming(y), phi = Current.subject
        PROVE  Waiting("visit_phi", phi, y)
    <3>1. Running("visit_phi") /\ y \in Current.rest
      BY <2>3 DEF VisitPhiIncoming
    <3> QED
      BY <2>3, <3>1, WaitsRunning DEF Left
  <2> QED
    BY <1>5, <2>1, <2>2, <2>3, VisitedSteps
<1> QED
  BY <1>2, <1>3, <1>4, <1>5, RequestSteps

\* Where an argument starts to look up its call sites.
LEMMA ArgsLookedUp ==
  ASSUME Next
  PROVE  args_to_use \subseteq args_to_use' /\ \A a \in args_to_use' \ args_to_use : VisitArg(a)
<1>1. args_to_use' = args_to_use \/ \E v \in Value : VisitArg(v)
  BY DEF Next, AnalyzedValue, AnalyzedCfg, NextRound, VisitStore, CheckCall, AnalyzeValue,
   AnalyzeCfg, IncludeAgain, IncludeValue, IncludeFunctionCallsite, VisitOperands, VisitLoad,
   VisitStoreValue, VisitPhi, VisitPhiIncoming, VisitSelect, VisitArgCallsite,
   VisitCall, PtrUsedPlainly, PtrStore, PtrPhi, PtrSelect, VisitCallFromPtr, PtrArg,
   PtrRet, PtrRetCallsite
<1> QED
  BY <1>1 DEF VisitArg

LEMMA ArgStep ==
  ASSUME TypeOK, RequestInv, ArgInv, Next
  PROVE  ArgInv'
<1>1. args_to_use \subseteq args_to_use' /\ \A a \in args_to_use' \ args_to_use : VisitArg(a)
  BY ArgsLookedUp
<1>2. ASSUME NEW a \in (visited' \ visited) \cap OfKind("arg") PROVE a \in args_to_use'
  <2>1. a \in Value /\ Kind[a] = "arg"
    BY DEF OfKind
  <2>2. ~ VisitOperands(a) /\ ~ VisitLoad(a) /\ ~ VisitSelect(a) /\ ~ VisitCall(a)
          /\ a \notin OfKind("store")
    BY <2>1 DEF VisitOperands, VisitLoad, VisitSelect, VisitCall, Visit, OfKind
  <2>3. ~ (AnalyzedCfg /\ a = Current.subject)
    <3>1. ASSUME Running("requested_cfg") PROVE Current.subject \in Inst
      BY <3>1, WaitsRunning, FrameCases
    <3> QED
      BY <2>1, <3>1 DEF AnalyzedCfg, Inst
  <2>4. ~ \E x \in Value : VisitPhiIncoming(x) /\ a = Current.subject
    <3>1. ASSUME Running("visit_phi") PROVE Current.subject \in OfKind("phi")
      BY <3>1, WaitsRunning, FrameCases
    <3> QED
      BY <2>1, <3>1 DEF VisitPhiIncoming, OfKind
  <2>5. VisitArg(a)
    BY <2>2, <2>3, <2>4, VisitedSteps
  <2> QED
    BY <2>5 DEF VisitArg
<1>3. ASSUME NEW a \in OfKind("arg") \cap args_to_use', NEW c \in Callsites(ParentOf[a])
      PROVE  Waiting("visit_arg", a, c)' \/ AskedWith(a, ArgOperand[c][a])'
  <2>1. a \in Value /\ c \in Value
    BY DEF OfKind, Callsites, Call
  <2>2. CASE a \notin args_to_use
    BY <1>1, <2>1, <2>2, VisitStack
  <2>3. CASE a \in args_to_use /\ AskedWith(a, ArgOperand[c][a])
    BY <2>1, <2>3, AskedWithKept
  <2>4. CASE Waiting("visit_arg", a, c)
    <3>1. Waiting("visit_arg", a, c)' \/ (VisitArgCallsite(c) /\ a = Current.subject)
      BY <2>4, WaitingKept DEF Takes
    <3> QED
      BY <2>1, <3>1, AskedByLoop
  <2> QED
    BY <2>2, <2>3, <2>4 DEF ArgInv
<1> QED
  BY <1>1, <1>2, <1>3 DEF ArgInv

\* What s stores may be read later.
StoreMatters(s) == IsStoreImportant(s, InfoOf(PtrOperand[s]))

\* Only its own visit asks for a store.
LEMMA StoreAsked ==
  ASSUME TypeOK, RequestInv, Next, NEW s \in OfKind("store"), Asked(s)', ~ Asked(s)
  PROVE  VisitStore /\ s = Current.subject /\ StoreMatters(s)
<1>1. s \notin NoStores /\ s \in Value
  BY DEF NoStores, OfKind
<1>2. IncludeCause(s)
  <2>1. s \notin included'
    BY IncludedSteps DEF Asked
  <2>2. PICK y : Waiting("include", y, s)'
    BY <2>1 DEF Asked
  <2> QED
    BY <2>2, WaitingNew DEF StartCause, Asked
<1>3. ~ AnalyzeValue(s) /\ ~ AnalyzeCfg(s)
  BY <1>1, RequestAssumption
     DEF AnalyzeValue, AnalyzeCfg, RequestInv, RequestAssumption, NoStores, TypeOK
<1>4. ~ IncludeFunctionCallsite(s)
  <2>1. ASSUME Running("callsites") PROVE Current.rest \subseteq Call
    BY <2>1, WaitsRunning, FrameCases
  <2> QED
    BY <1>1, <2>1, NoStoreInOperands DEF IncludeFunctionCallsite
<1>5. ~ \E v \in Value : IncludeValue(v) /\ s \in Terminators(v) \cup needs[v]
  BY <1>1, NoStoreInOperands DEF RequestInv
<1>6. ~ \E v \in included : s \in needs'[v]
  BY <1>1, RequestStep DEF RequestInv, TypeOK
<1>7. ~ (CheckCall /\ s = Current.subject)
  <2>1. ASSUME Running("check_call") PROVE Current.subject \in Call
    BY <2>1, WaitsRunning, FrameCases
  <2> QED
    BY <1>1, <2>1, NoStoreInOperands DEF CheckCall
<1>8. /\ VisitStore
      /\ s \in {Current.subject} \cup Operands[Current.subject]
      /\ IsStoreImportant(Current.subject, InfoOf(PtrOperand[Current.subject]))
  BY <1>2, <1>3, <1>4, <1>5, <1>6, <1>7 DEF IncludeCause
<1>9. Current.subject \in Value
  <2>1. Running("visit_store")
    BY <1>8 DEF VisitStore
  <2> QED
    BY <2>1, WaitsRunning, FrameCases DEF OfKind
<1>10. s = Current.subject
  BY <1>1, <1>8, <1>9, NoStoreInOperands
<1> QED
  BY <1>8, <1>10 DEF StoreMatters

LEMMA OperandStep ==
  ASSUME TypeOK, RequestInv, OperandInv, Next
  PROVE  OperandInv'
<1>1. ASSUME NEW v \in (VisitedAtOnce \cap visited' \cap included') \ request'.cfg,
             NEW x \in Operands[v]
      PROVE  Asked(x)'
  <2>1. v \in Value /\ Kind[v] \in {"constant", "function", "plain", "ret", "load", "select"}
    BY DEF VisitedAtOnce
  <2>2. v \in included
    <3>1. ~ IncludeValue(v)
      BY DEF IncludeValue
    <3> QED
      BY <3>1, IncludedSteps
  <2>3. CASE v \in visited
    BY <2>2, <2>3, AskedKept, RequestSteps DEF OperandInv
  <2>4. CASE v \notin visited
    <3>1. ~ VisitArg(v) /\ ~ VisitCall(v) /\ v \notin OfKind("store") /\ v \notin OfKind("phi")
      BY <2>1 DEF VisitArg, VisitCall, Visit, OfKind
    <3>2. ~ (AnalyzedCfg /\ v = Current.subject)
      <4>1. ASSUME Running("requested_cfg") PROVE \E y : Waiting("requested_cfg", Current.subject, y)
        BY <4>1, WaitsRunning, FrameCases DEF Left
      <4> QED
        BY <4>1, RequestSteps DEF AnalyzedCfg, RequestInv
    <3>3. ~ \E y \in Value : VisitPhiIncoming(y) /\ v = Current.subject
      <4>1. ASSUME Running("visit_phi") PROVE Current.subject \in OfKind("phi")
        BY <4>1, WaitsRunning, FrameCases
      <4> QED
        BY <3>1, <4>1 DEF VisitPhiIncoming
    <3>4. VisitOperands(v) \/ VisitSelect(v) \/ VisitLoad(v)
      BY <2>4, <3>1, <3>2, <3>3, VisitedSteps
    <3>5. CASE VisitOperands(v) \/ VisitSelect(v)
      <4>1. Waiting("include", v, x)'
        BY <2>1, <2>2, <3>5, VisitStack DEF VisitWaits
      <4> QED
        BY <4>1 DEF Asked
    <3>6. CASE VisitLoad(v)
      <4>1. v \in OfKind("load")
        BY <2>1, <3>6 DEF VisitLoad, Visit, OfKind
      <4>2. x = PtrOperand[v]
        BY <4>1, ProgramAssumption DEF ProgramAssumption
      <4>3. Waiting("include", v, x)'
        BY <2>1, <2>2, <3>6, <4>2, VisitStack
      <4> QED
        BY <4>3 DEF Asked
    <3> QED
      BY <3>4, <3>5, <3>6
  <2> QED
    BY <2>3, <2>4
<1>2. ASSUME NEW s \in OfKind("store"), Asked(s)', NEW x \in Operands[s]
      PROVE  Asked(x)'
  <2>1. CASE Asked(s)
    BY <2>1, AskedKept DEF OperandInv
  <2>2. CASE ~ Asked(s)
    <3>1. VisitStore /\ s = Current.subject /\ StoreMatters(s)
      BY <1>2, <2>2, StoreAsked
    <3>2. Waiting("include", s, x)'
      BY <3>1, StoreStack DEF StoreMatters
    <3> QED
      BY <3>2 DEF Asked
  <2> QED
    BY <2>1, <2>2
<1>3. PhiInv' /\ ArgInv'
  BY PhiStep, ArgStep DEF OperandInv
<1> QED
  BY <1>1, <1>2, <1>3 DEF OperandInv

LEMMA OperandsAsked == Spec => []OperandInv
<1>1. Init => OperandInv
  <2> SUFFICES ASSUME Init PROVE OperandInv
    OBVIOUS
  <2>1. \A op, s, x : ~ Waiting(op, s, x)
    BY NothingWaits DEF Init
  <2> QED
    BY <2>1 DEF Init, OperandInv, PhiInv, ArgInv, Asked
<1>2. TypeOK /\ RequestInv /\ OperandInv /\ [Next]_vars => OperandInv'
  <2> SUFFICES ASSUME TypeOK, RequestInv, OperandInv, UNCHANGED vars
               PROVE  OperandInv'
    BY OperandStep
  <2>1. UNCHANGED <<request, visited, included, args_to_use, needs>>
    BY DEF vars, requestVars, valueVars
  <2>2. \A v, x : AskedWith(v, x)' <=> AskedWith(v, x)
    BY <2>1, StutterKeepsCalls DEF AskedWith
  <2>3. PhiInv' /\ ArgInv'
    BY <2>1, <2>2, StutterKeepsCalls DEF OperandInv, PhiInv, ArgInv
  <2> QED
    BY <2>1, <2>3, StutterKeepsCalls DEF OperandInv
<1> QED
  BY <1>1, <1>2, TypeCorrect, OnlyRequestsAnalyzed, PTL DEF Spec

\* The operands of a value are in the slice with it, whenever the analysis learns
\* that it is included and in whatever order it visits: an inclusion visits the
\* value again, and an edge that is found for an included value includes at once.
THEOREM OperandsAreIncluded == Spec => []OperandsIncluded
<1>1. TypeOK /\ TaintInv /\ OperandInv => OperandsIncluded
  <2> SUFFICES ASSUME TypeOK, TaintInv, OperandInv, Done, NEW v \in included \ request.cfg,
                      NEW x \in OperandsNeeded(v)
               PROVE  x \in included
    BY DEF OperandsIncluded
  <2>1. \A op, s, y : ~ Waiting(op, s, y)
    BY NothingWaits DEF Done, Analyzed
  <2>2. v \in visited /\ v \in Value
    BY DEF Done, TaintInv, Asked, TypeOK
  <2>3. \A y : Asked(y) => y \in included
    BY <2>1 DEF Asked
  <2>4. CASE v \in OfKind("arg")
    <3>1. PICK c \in Callsites(ParentOf[v]) : x = ArgOperand[c][v]
      BY <2>4 DEF OperandsNeeded
    <3>2. AskedWith(v, x)
      BY <2>1, <2>2, <2>4, <3>1 DEF OperandInv, ArgInv
    <3> QED
      BY <2>3, <3>2 DEF AskedWith
  <2>5. CASE v \notin OfKind("arg") /\ v \notin Call
    <3>1. x \in Operands[v]
      BY <2>5 DEF OperandsNeeded
    <3>2. CASE v \in OfKind("phi")
      BY <2>1, <2>2, <2>3, <3>1, <3>2 DEF OperandInv, PhiInv, AskedWith
    <3>3. CASE v \in OfKind("store")
      BY <2>3, <3>1, <3>3 DEF OperandInv, Asked
    <3>4. CASE v \notin OfKind("phi") \cup OfKind("store")
      <4>1. v \in VisitedAtOnce
        BY <2>2, <2>5, <3>4, ProgramAssumption
           DEF ProgramAssumption, Kinds, VisitedAtOnce, OfKind, Call
      <4> QED
        BY <2>2, <2>3, <3>1, <4>1 DEF OperandInv
    <3> QED
      BY <3>2, <3>3, <3>4
  <2>6. CASE v \in Call
    <3>1. v \notin OfKind("arg")
      BY <2>6 DEF Call, OfKind
    <3> QED
      BY <2>6, <3>1 DEF OperandsNeeded
  <2> QED
    BY <2>4, <2>5, <2>6
<1> QED
  BY <1>1, TypeCorrect, TaintedIsKnown, OperandsAsked, PTL

-----------------------------------------------------------------------------
(* The calls of what is included.                                          *)

\* A function that is used as a value is only called through pointers.
ValuesNotCalled == \A v \in OfKind("function") : Callsites(ParentOf[v]) = {}

CallerInv ==
  \A f \in include_in_precompute : \A c \in Callsites(f) :
    c \in tainted_values \/ Waiting("callsites", f, c)

LEMMA FunctionSteps ==
  ASSUME Next
  PROVE  \/ include_in_precompute' = include_in_precompute
         \/ \E v \in Value : IncludeValue(v)
         \/ \E c \in Value : IncludeFunctionCallsite(c)
BY DEF Next, AnalyzedValue, AnalyzedCfg, NextRound, VisitStore, CheckCall, AnalyzeValue,
   AnalyzeCfg, IncludeAgain, VisitOperands, VisitLoad, VisitStoreValue, VisitPhi,
   VisitPhiIncoming, VisitSelect, VisitArg, VisitArgCallsite, VisitCall, PtrUsedPlainly,
   PtrStore, PtrPhi, PtrSelect, VisitCallFromPtr, PtrArg, PtrRet, PtrRetCallsite, funcVars

LEMMA CallerStep ==
  ASSUME ValuesNotCalled, TypeOK, CallerInv, Next
  PROVE  CallerInv'
<1> SUFFICES ASSUME NEW f \in include_in_precompute', NEW c \in Callsites(f)
             PROVE  c \in tainted_values' \/ Waiting("callsites", f, c)'
  BY DEF CallerInv
<1>1. CASE f \in include_in_precompute
  <2>1. tainted_values \subseteq tainted_values'
    BY ValueSteps
  <2>2. CASE Waiting("callsites", f, c)
    <3>1. Waiting("callsites", f, c)' \/ IncludeFunctionCallsite(c)
      BY <2>2, WaitingKept DEF Takes
    <3> QED
      BY <3>1 DEF IncludeFunctionCallsite
  <2> QED
    BY <1>1, <2>1, <2>2 DEF CallerInv
<1>2. ASSUME f \notin include_in_precompute, NEW v \in Value, IncludeValue(v)
      PROVE  Waiting("callsites", f, c)'
  <2>1. ~ (Kind[v] = "function" /\ ParentOf[v] = f)
    BY DEF ValuesNotCalled, OfKind
  <2>2. f \in FunctionToInclude(v)
    BY <1>2, <2>1 DEF IncludeValue
  <2>3. f = ParentOf[v]
    BY <2>2 DEF FunctionToInclude
  <2> QED
    BY <1>2, <2>2, <2>3, IncludeValueStack
<1>3. ASSUME f \notin include_in_precompute, NEW d \in Value, IncludeFunctionCallsite(d)
      PROVE  Waiting("callsites", f, c)'
  <2>1. Current.subject \in include_all_callsites /\ f = ParentOf[d]
    BY <1>3 DEF IncludeFunctionCallsite, funcVars
  <2> QED
    BY <1>3, <2>1, FunctionCallsiteStack
<1> QED
  BY <1>1, <1>2, <1>3, FunctionSteps

\* No call of a copied function is unknown to the analysis when it ends: every call
\* of the function is tainted when the function is included, as far up as the calls
\* must stay.
THEOREM CallersAreKnown ==
  ASSUME ValuesNotCalled
  PROVE  Spec => []CallersKnown
<1>1. Init => CallerInv
  BY DEF Init, CallerInv
<1>2. TypeOK /\ CallerInv /\ [Next]_vars => CallerInv'
  <2> SUFFICES ASSUME TypeOK, CallerInv, UNCHANGED vars
               PROVE  CallerInv'
    BY CallerStep
  <2> QED
    BY StutterKeepsCalls DEF CallerInv, vars, funcVars, valueVars
<1>3. CallerInv => CallersKnown
  <2> SUFFICES ASSUME CallerInv, Done PROVE \A op, s, x : ~ Waiting(op, s, x)
    BY DEF CallerInv, CallersKnown
  <2> QED
    BY NothingWaits DEF Done, Analyzed
<1> QED
  BY <1>1, <1>2, <1>3, TypeCorrect, PTL DEF Spec

-----------------------------------------------------------------------------
(* The calls of the functions that hold a request.                         *)

\* A function that the slice has to call wherever the program does, because of what
\* the user asks for.
RequestedIn(f) == \E v \in (request.value \cup request.cfg) \cap Inst : ParentOf[v] = f

\* What is asked for is inserted, its function is marked, and a call of that function
\* is only left to be checked.
RequestedCallInv ==
  /\ \A v \in request.value : v \in to_precompute_value \/ Asked(v)
  /\ \A v \in request.cfg : v \in to_precompute_cfg \/ Asked(v)
  /\ \A i : Waiting("requested_cfg", i, i) => Asked(i)
  /\ \A v \in request.value \cap Inst :
       \/ v \in to_precompute_value
       \/ Waiting("requested_value", v, v)
       \/ ParentOf[v] \in include_all_callsites
  /\ \A v \in request.cfg :
       \/ v \in to_precompute_cfg
       \/ Waiting("requested_cfg", v, v)
       \/ ParentOf[v] \in include_all_callsites
  /\ \A c \in Call \cap visited : RequestedIn(CalledFunction[c]) =>
       \/ Asked(c)
       \/ Waiting("check_call", c, c) /\ CalledFunction[c] \in include_all_callsites

\* How the steps take requests, and that a function stays marked.
LEMMA MarkSteps ==
  ASSUME Next
  PROVE  /\ include_all_callsites \subseteq include_all_callsites'
         /\ \A v \in to_precompute_value \ to_precompute_value' : AnalyzeValue(v)
         /\ \A v \in to_precompute_cfg \ to_precompute_cfg' : AnalyzeCfg(v)
<1>1. CASE \E v \in Value : AnalyzeValue(v) \/ AnalyzeCfg(v)
  BY <1>1 DEF AnalyzeValue, AnalyzeCfg, funcVars
<1>2. CASE ~ \E v \in Value : AnalyzeValue(v) \/ AnalyzeCfg(v)
  <2>1. UNCHANGED <<to_precompute_value, to_precompute_cfg>>
    BY <1>2 DEF Next, AnalyzedValue, AnalyzedCfg, NextRound, VisitStore, CheckCall,
       IncludeAgain, IncludeValue, IncludeFunctionCallsite, VisitOperands, VisitLoad,
       VisitStoreValue, VisitPhi, VisitPhiIncoming, VisitSelect, VisitArg, VisitArgCallsite,
       VisitCall, Visit, PtrUsedPlainly, PtrStore, PtrPhi, PtrSelect, VisitCallFromPtr, PtrArg,
       PtrRet, PtrRetCallsite, requestVars
  <2>2. include_all_callsites \subseteq include_all_callsites'
    BY <1>2 DEF Next, AnalyzedValue, AnalyzedCfg, NextRound, VisitStore, CheckCall,
       IncludeAgain, IncludeValue, IncludeFunctionCallsite, VisitOperands, VisitLoad,
       VisitStoreValue, VisitPhi, VisitPhiIncoming, VisitSelect, VisitArg, VisitArgCallsite,
       VisitCall, Visit, PtrUsedPlainly, PtrStore, PtrPhi, PtrSelect, VisitCallFromPtr, PtrArg,
       PtrRet, PtrRetCallsite, funcVars
  <2> QED
    BY <2>1, <2>2
<1> QED
  BY <1>1, <1>2

LEMMA RequestedCallStep ==
  ASSUME TypeOK, RequestedCallInv, Next
  PROVE  RequestedCallInv'
<1>1. request' = request
  BY RequestSteps
<1>2. ASSUME NEW v \in request.value PROVE v \in to_precompute_value' \/ Asked(v)'
  <2>1. CASE Asked(v)
    BY <2>1, AskedKept
  <2>2. CASE v \in to_precompute_value \ to_precompute_value'
    <3>1. AnalyzeValue(v) /\ v \in Value
      BY <2>2, MarkSteps DEF TypeOK
    <3> QED
      BY <3>1, AnalyzeStack DEF Asked
  <2> QED
    BY <2>1, <2>2 DEF RequestedCallInv
<1>3. ASSUME NEW v \in request.cfg PROVE v \in to_precompute_cfg' \/ Asked(v)'
  <2>1. CASE Asked(v)
    BY <2>1, AskedKept
  <2>2. CASE v \in to_precompute_cfg \ to_precompute_cfg'
    <3>1. AnalyzeCfg(v) /\ v \in Value
      BY <2>2, MarkSteps DEF TypeOK, Inst
    <3> QED
      BY <3>1, AnalyzeStack DEF Asked
  <2> QED
    BY <2>1, <2>2 DEF RequestedCallInv
<1>4. ASSUME NEW i, Waiting("requested_cfg", i, i)' PROVE Asked(i)'
  <2>1. CASE Waiting("requested_cfg", i, i)
    BY <2>1, AskedKept DEF RequestedCallInv
  <2>2. CASE AnalyzeCfg(i)
    <3>1. i \in Value
      BY <2>2 DEF AnalyzeCfg, TypeOK, Inst
    <3> QED
      BY <2>2, <3>1, AnalyzeStack DEF Asked
  <2> QED
    BY <1>4, <2>1, <2>2, WaitingNew DEF StartCause
<1>5. ASSUME NEW v \in request.value \cap Inst
      PROVE  \/ v \in to_precompute_value'
             \/ Waiting("requested_value", v, v)'
             \/ ParentOf[v] \in include_all_callsites'
  <2>1. CASE v \in to_precompute_value \ to_precompute_value'
    <3>1. AnalyzeValue(v) /\ v \in Value
      BY <2>1, MarkSteps DEF TypeOK
    <3> QED
      BY <3>1, AnalyzeStack
  <2>2. CASE Waiting("requested_value", v, v)
    <3>1. Waiting("requested_value", v, v)' \/ (AnalyzedValue /\ v = Current.subject)
      BY <2>2, WaitingKept DEF Takes
    <3> QED
      BY <3>1 DEF AnalyzedValue
  <2>3. CASE ParentOf[v] \in include_all_callsites
    BY <2>3, MarkSteps
  <2> QED
    BY <2>1, <2>2, <2>3 DEF RequestedCallInv
<1>6. ASSUME NEW v \in request.cfg
      PROVE  \/ v \in to_precompute_cfg'
             \/ Waiting("requested_cfg", v, v)'
             \/ ParentOf[v] \in include_all_callsites'
  <2>1. CASE v \in to_precompute_cfg \ to_precompute_cfg'
    <3>1. AnalyzeCfg(v) /\ v \in Value
      BY <2>1, MarkSteps DEF TypeOK, Inst
    <3> QED
      BY <3>1, AnalyzeStack
  <2>2. CASE Waiting("requested_cfg", v, v)
    <3>1. Waiting("requested_cfg", v, v)' \/ (AnalyzedCfg /\ v = Current.subject)
      BY <2>2, WaitingKept DEF Takes
    <3> QED
      BY <3>1 DEF AnalyzedCfg
  <2>3. CASE ParentOf[v] \in include_all_callsites
    BY <2>3, MarkSteps
  <2> QED
    BY <2>1, <2>2, <2>3 DEF RequestedCallInv
<1>7. ASSUME NEW c \in Call \cap visited', RequestedIn(CalledFunction[c])
      PROVE  \/ Asked(c)'
             \/ Waiting("check_call", c, c)' /\ CalledFunction[c] \in include_all_callsites'
  <2>1. CASE Asked(c)
    BY <2>1, AskedKept
  <2>2. CASE Waiting("check_call", c, c) /\ CalledFunction[c] \in include_all_callsites
    <3>1. Waiting("check_call", c, c)' \/ (CheckCall /\ c = Current.subject)
      BY <2>2, WaitingKept DEF Takes
    <3>2. CASE CheckCall /\ c = Current.subject /\ c \notin included
      BY <2>2, <3>2, CheckStack DEF ShouldCallBeIncluded, Asked
    <3>3. CASE c \in included
      BY <3>3, IncludedSteps DEF Asked
    <3> QED
      BY <2>2, <3>1, <3>2, <3>3, MarkSteps
  <2>3. CASE c \notin visited
    <3>1. /\ ~ VisitOperands(c) /\ ~ VisitLoad(c) /\ ~ VisitSelect(c) /\ ~ VisitArg(c)
          /\ c \notin OfKind("store")
      BY DEF VisitOperands, VisitLoad, VisitSelect, VisitArg, Visit, OfKind, Call
    <3>2. ASSUME NEW x \in Value, VisitPhiIncoming(x) PROVE c # Current.subject
      <4>1. Running("visit_phi")
        BY <3>2 DEF VisitPhiIncoming
      <4> QED
        BY <4>1, WaitsRunning, FrameCases DEF OfKind, Call
    <3>3. VisitCall(c) \/ (AnalyzedCfg /\ c = Current.subject)
      BY <2>3, <3>1, <3>2, VisitedSteps
    <3>4. CASE VisitCall(c)
      <4>1. c \in Value
        BY DEF Call, OfKind
      <4>2. Waiting("check_call", c, c)'
        BY <3>4, <4>1, CallStack
      <4>3. to_precompute_value = {} /\ to_precompute_cfg = {} /\ \A op, s, x : ~ Waiting(op, s, x)
        BY <3>4, NothingWaits DEF VisitCall, Visit, Analyzed
      <4>4. CalledFunction[c] \in include_all_callsites
        BY <1>7, <4>3 DEF RequestedIn, RequestedCallInv
      <4> QED
        BY <4>2, <4>4, MarkSteps
    <3>5. CASE AnalyzedCfg /\ c = Current.subject
      <4>1. Running("requested_cfg")
        BY <3>5 DEF AnalyzedCfg
      <4>2. Waiting("requested_cfg", c, c)
        BY <3>5, <4>1, WaitsRunning, FrameCases DEF Left
      <4> QED
        BY <4>2, AskedKept DEF RequestedCallInv
    <3> QED
      BY <3>3, <3>4, <3>5
  <2> QED
    BY <1>7, <2>1, <2>2, <2>3 DEF RequestedCallInv
<1> QED
  BY <1>1, <1>2, <1>3, <1>4, <1>5, <1>6, <1>7 DEF RequestedCallInv, RequestedIn

\* "always include all calls to this func": no call of a function that holds what the
\* user asks for is left out of the slice, whichever of the calls the analysis came to
\* before the mark was set.
THEOREM CallsOfRequestsAreIncluded ==
  ASSUME BlocksReachable, ValuesNotCalled
  PROVE  Spec => [](Done => \A f \in Function : RequestedIn(f) => Callsites(f) \subseteq included)
<1> DEFINE CallsIncluded ==
             Done => \A f \in Function : RequestedIn(f) => Callsites(f) \subseteq included
<1>1. Init => RequestedCallInv
  <2> SUFFICES ASSUME Init PROVE RequestedCallInv
    OBVIOUS
  <2>1. \A op, s, x : ~ Waiting(op, s, x)
    BY NothingWaits DEF Init
  <2> QED
    BY <2>1 DEF Init, RequestedCallInv
<1>2. TypeOK /\ RequestedCallInv /\ [Next]_vars => RequestedCallInv'
  <2> SUFFICES ASSUME RequestedCallInv, UNCHANGED vars
               PROVE  RequestedCallInv'
    BY RequestedCallStep
  <2>1. UNCHANGED <<request, to_precompute_value, to_precompute_cfg, visited,
                    include_all_callsites>>
    BY DEF vars, requestVars, funcVars
  <2> QED
    BY <2>1, StutterKeepsCalls DEF RequestedCallInv, RequestedIn
<1>3. RequestedCallInv /\ ParentsIncluded /\ CallersKnown => CallsIncluded
  <2> SUFFICES ASSUME RequestedCallInv, ParentsIncluded, CallersKnown, Done,
                      NEW f, RequestedIn(f), NEW c \in Callsites(f)
               PROVE  c \in included
    OBVIOUS
  <2>1. \A op, s, x : ~ Waiting(op, s, x)
    BY NothingWaits DEF Done, Analyzed
  <2>2. PICK v \in (request.value \cup request.cfg) \cap Inst : ParentOf[v] = f
    BY DEF RequestedIn
  <2>3. v \in included
    BY <2>1, <2>2 DEF RequestedCallInv, Asked, Done, Analyzed
  <2>4. c \in Call \cap visited /\ CalledFunction[c] = f
    BY <2>2, <2>3 DEF ParentsIncluded, CallersKnown, Done, Callsites
  <2> QED
    BY <2>1, <2>4 DEF RequestedCallInv, Asked
<1> HIDE DEF CallsIncluded
<1>4. Spec => []CallsIncluded
  BY <1>1, <1>2, <1>3, TypeCorrect, ParentsAreIncluded, CallersAreKnown, PTL DEF Spec
<1> QED
  BY <1>4 DEF CallsIncluded

\* Where a function that holds a request is called, another request is held or nobody
\* calls: no call has to stay for the sake of a call that does.
CallersHoldRequests ==
  \A r \in Requests : \A v \in (r.value \cup r.cfg) \cap Inst : \A c \in Callsites(ParentOf[v]) :
    \/ \E w \in (r.value \cup r.cfg) \cap Inst : ParentOf[w] = ParentOf[c]
    \/ Callsites(ParentOf[c]) = {}

MarkInv ==
  /\ \A f \in include_all_callsites : RequestedIn(f) \/ Callsites(f) = {}
  /\ \A v : Waiting("requested_value", v, v) => v \in request.value
  /\ \A f, c : Waiting("callsites", f, c) => c \in Callsites(f)

LEMMA MarkStep ==
  ASSUME CallersHoldRequests, TypeOK, RequestInv, MarkInv, Next
  PROVE  MarkInv'
<1>1. \A f : RequestedIn(f)' <=> RequestedIn(f)
  BY RequestSteps DEF RequestedIn
<1>2. ASSUME NEW c \in Call, CalledFunction[c] \in include_all_callsites
      PROVE  RequestedIn(ParentOf[c]) \/ Callsites(ParentOf[c]) = {}
  <2>1. RequestedIn(CalledFunction[c])
    BY <1>2 DEF MarkInv, Callsites
  <2> QED
    BY <2>1 DEF RequestedIn, CallersHoldRequests, Callsites, TypeOK
<1>3. ASSUME NEW f \in include_all_callsites' \ include_all_callsites
      PROVE  RequestedIn(f) \/ Callsites(f) = {}
  <2>1. \/ AnalyzedValue \/ AnalyzedCfg \/ CheckCall
        \/ \E c \in Value : IncludeFunctionCallsite(c)
    BY <1>3 DEF Next, NextRound, VisitStore, AnalyzeValue, AnalyzeCfg,
       IncludeAgain, IncludeValue, VisitOperands, VisitLoad,
       VisitStoreValue, VisitPhi, VisitPhiIncoming, VisitSelect, VisitArg, VisitArgCallsite,
       VisitCall, Visit, PtrUsedPlainly, PtrStore, PtrPhi, PtrSelect, VisitCallFromPtr, PtrArg,
       PtrRet, PtrRetCallsite, funcVars
  <2>2. CASE AnalyzedValue
    <3>1. Running("requested_value") /\ Current.subject \in Inst /\ f = ParentOf[Current.subject]
      BY <1>3, <2>2 DEF AnalyzedValue
    <3>2. Waiting("requested_value", Current.subject, Current.subject)
      BY <3>1, WaitsRunning, FrameCases DEF Left
    <3> QED
      BY <3>1, <3>2 DEF MarkInv, RequestedIn
  <2>3. CASE AnalyzedCfg
    <3>1. Running("requested_cfg") /\ f = ParentOf[Current.subject]
      BY <1>3, <2>3 DEF AnalyzedCfg
    <3>2. Waiting("requested_cfg", Current.subject, Current.subject) /\ Current.subject \in Inst
      BY <3>1, WaitsRunning, FrameCases DEF Left
    <3> QED
      BY <3>1, <3>2 DEF RequestInv, RequestedIn
  <2>4. CASE CheckCall
    <3>1. Running("check_call") /\ f = ParentOf[Current.subject]
          /\ CalledFunction[Current.subject] \in include_all_callsites
      BY <1>3, <2>4 DEF CheckCall
    <3>2. Current.subject \in Call
      BY <3>1, WaitsRunning, FrameCases
    <3> QED
      BY <1>2, <3>1, <3>2
  <2>5. ASSUME NEW c \in Value, IncludeFunctionCallsite(c)
        PROVE  RequestedIn(f) \/ Callsites(f) = {}
    <3>1. Running("callsites") /\ c \in Current.rest /\ f = ParentOf[c]
          /\ Current.subject \in include_all_callsites
      BY <1>3, <2>5 DEF IncludeFunctionCallsite, funcVars
    <3>2. Waiting("callsites", Current.subject, c)
      BY <3>1, WaitsRunning DEF Left
    <3>3. c \in Call /\ CalledFunction[c] = Current.subject
      BY <3>2 DEF MarkInv, Callsites
    <3> QED
      BY <1>2, <3>1, <3>3
  <2> QED
    BY <2>1, <2>2, <2>3, <2>4, <2>5
<1>4. ASSUME NEW v, Waiting("requested_value", v, v)' PROVE v \in request.value
  <2>1. Waiting("requested_value", v, v) \/ AnalyzeValue(v)
    BY <1>4, WaitingNew DEF StartCause
  <2> QED
    BY <2>1 DEF MarkInv, RequestInv, AnalyzeValue
<1>5. ASSUME NEW f, NEW c, Waiting("callsites", f, c)' PROVE c \in Callsites(f)
  BY <1>5, WaitingNew DEF MarkInv, StartCause
<1> QED
  BY <1>1, <1>3, <1>4, <1>5, RequestSteps DEF MarkInv

\* Every call of a function that is marked stays in the slice, and so the copy comes to
\* what the user asks for wherever the program does, as long as the marks reach no
\* further than the functions with a request and their callers.
THEOREM AllCallsAreIncluded ==
  ASSUME BlocksReachable, ValuesNotCalled, CallersHoldRequests
  PROVE  Spec => []AllCallsitesIncluded
<1>1. Init => MarkInv
  <2> SUFFICES ASSUME Init PROVE MarkInv
    OBVIOUS
  <2>1. \A op, s, x : ~ Waiting(op, s, x)
    BY NothingWaits DEF Init
  <2> QED
    BY <2>1 DEF Init, MarkInv
<1>2. TypeOK /\ RequestInv /\ MarkInv /\ [Next]_vars => MarkInv'
  <2> SUFFICES ASSUME MarkInv, UNCHANGED vars
               PROVE  MarkInv'
    BY MarkStep
  <2>1. request' = request /\ include_all_callsites' = include_all_callsites
    BY DEF vars, requestVars, funcVars
  <2> QED
    BY <2>1, StutterKeepsCalls DEF MarkInv, RequestedIn
<1>3. TypeOK /\ MarkInv
        /\ (Done => \A f \in Function : RequestedIn(f) => Callsites(f) \subseteq included)
      => AllCallsitesIncluded
  BY DEF MarkInv, AllCallsitesIncluded, TypeOK
<1> QED
  BY <1>1, <1>2, <1>3, TypeCorrect, OnlyRequestsAnalyzed, CallsOfRequestsAreIncluded, PTL
     DEF Spec

-----------------------------------------------------------------------------
(* What the infos of pointers gain.                                        *)

\* No select yields a pointer: a pointer then keeps to the pointers it has once
\* shared an info with.
NoPointerSelects == OfKind("select") \cap Pointer = {}

\* A merge moves the pointers of the second info, and no other.
LEMMA MergeMoves ==
  ASSUME NoPointerSelects, TypeOK, ReferencesAreValid, UsersInv,
         NEW p \in Pointer, NEW q \in Pointer, InfoOf(p) # InfoOf(q),
         MergeWith(InfoOf(p), InfoOf(q))
  PROVE  \A r \in Pointer :
           InfoOf(r)' = IF InfoOf(r) = InfoOf(q) THEN InfoOf(p) ELSE InfoOf(r)
<1>1. PICK j \in Info : j = InfoOf(q)
  BY InfoTypes
<1>2. \A r \in Pointer : r \in ptrs_with_this_info[j] <=> InfoOf(r) = j
  <2>1. Groups!Taken = {}
    BY DEF NoPointerSelects, Groups!Taken
  <2>2. \A r \in Pointer : InfoOf(r) = ptr_info[r]
    BY DEF InfoOf, ReferencesAreValid
  <2> QED
    BY <1>1, <2>1, <2>2 DEF UsersInv, ReferencesAreValid
<1> QED
  BY <1>1, <1>2, MergeInfos

\* A step moves the infos that merge, and no info loses a load.
LEMMA InfosMove ==
  ASSUME NoPointerSelects, TypeOK, ReferencesAreValid, UsersInv, Next
  PROVE  \E move \in [Info -> Info] :
           /\ \A i \in Info : merged_with'[i] = move[merged_with[i]]
           /\ \A p \in Pointer : InfoOf(p)' = move[InfoOf(p)]
           /\ \A i \in Info : loads[i] \subseteq loads'[move[i]]
<1> DEFINE Moved(move) ==
             /\ \A i \in Info : merged_with'[i] = move[merged_with[i]]
             /\ \A p \in Pointer : InfoOf(p)' = move[InfoOf(p)]
             /\ \A i \in Info : loads[i] \subseteq loads'[move[i]]
<1>1. ASSUME UNCHANGED aliasVars, \A i \in Info : loads[i] \subseteq loads'[i]
      PROVE  Moved([i \in Info |-> i])
  BY <1>1 DEF aliasVars, InfoOf, TypeOK, Info
<1>2. ASSUME NEW p \in Pointer, Uses(p) PROVE \A i \in Info : loads[i] \subseteq loads'[i]
  BY <1>2 DEF Uses, TypeOK
<1>3. ASSUME NEW p \in Pointer, NEW q \in Pointer, InfoOf(p) # InfoOf(q),
             MergeWith(InfoOf(p), InfoOf(q))
      PROVE  \E move \in [Info -> Info] : Moved(move)
  <2>1. PICK i \in Info, j \in Info : i = InfoOf(p) /\ j = InfoOf(q) /\ i # j
    BY <1>3, InfoTypes
  <2>2. \A r \in Pointer : InfoOf(r)' = IF InfoOf(r) = j THEN i ELSE InfoOf(r)
    BY <1>3, <2>1, MergeMoves
  <2>4. /\ merged_with' = [k \in Info |-> IF merged_with[k] = j THEN i ELSE merged_with[k]]
        /\ loads' = [loads EXCEPT ![i] = @ \cup loads[j]]
    BY <1>3, <2>1 DEF MergeWith
  <2> DEFINE move == [k \in Info |-> IF k = j THEN i ELSE k]
  <2>5. move \in [Info -> Info] /\ \A k \in Info : move[k] = IF k = j THEN i ELSE k
    BY <2>1
  <2> HIDE DEF move
  <2>6. \A k \in Info : merged_with[k] \in Info
    BY DEF TypeOK
  <2>7. \A r \in Pointer : InfoOf(r) \in Info
    BY InfoTypes
  <2>8. \A k \in Info : merged_with'[k] = move[merged_with[k]]
    BY <2>4, <2>5, <2>6
  <2>9. \A r \in Pointer : InfoOf(r)' = move[InfoOf(r)]
    BY <2>2, <2>5, <2>7
  <2>10. \A k \in Info : loads[k] \subseteq loads'[move[k]]
    BY <2>1, <2>4, <2>5 DEF TypeOK
  <2> QED
    BY <2>5, <2>8, <2>9, <2>10
<1>4. ASSUME NEW v \in Value, VisitSelect(v) PROVE UNCHANGED <<aliasVars, loads>>
  <2>1. v \notin Pointer
    BY <1>4 DEF VisitSelect, Visit, NoPointerSelects, OfKind
  <2> QED
    BY <1>4, <2>1 DEF VisitSelect, aliasVars, infoVars
<1>5. [i \in Info |-> i] \in [Info -> Info]
  OBVIOUS
<1>6. ASSUME UNCHANGED <<aliasVars, infoVars>> PROVE UNCHANGED <<aliasVars, loads>>
  BY <1>6 DEF infoVars
<1>7. ASSUME NEW p \in Pointer, NEW q \in Pointer, InfoOf(p) = InfoOf(q),
             MergeWith(InfoOf(p), InfoOf(q))
      PROVE  UNCHANGED <<aliasVars, infoVars>>
  BY <1>7 DEF MergeWith
<1> HIDE DEF Moved
<1>8. \E move \in [Info -> Info] : Moved(move)
  BY <1>1, <1>2, <1>3, <1>4, <1>5, <1>6, <1>7, InfoSteps DEF Uses
<1> QED
  BY <1>8 DEF Moved

\* What is stored before inst may be read by one of the loads.
ReadLater(inst, reads) ==
  /\ reads # {}
  /\ \E l \in AllTransitiveInsts(reads), s \in TransitiveInsts[inst] :
       l # s /\ l \in ReachableFrom[s]

LEMMA ImportantIsRead ==
  /\ \A inst, i : IsStoreImportant(inst, i) <=> ReadLater(inst, loads[i])
  /\ \A inst, i : IsStoreImportant(inst, i)' <=> ReadLater(inst, loads'[i])
BY DEF IsStoreImportant, StoreHappensAfterAllLoads, ReadLater

LEMMA MoreIsRead ==
  ASSUME NEW inst, NEW S, NEW T, S \subseteq T, ReadLater(inst, S)
  PROVE  ReadLater(inst, T)
BY DEF ReadLater, AllTransitiveInsts

LEMMA CalleesAreFunctions ==
  ASSUME NEW f \in Function
  PROVE  CalleesWithin[f] \subseteq Function
<1> DEFINE reach[n \in 0 .. Cardinality(Function)] ==
             IF n = 0 THEN [g \in Function |-> {g}]
             ELSE LET shorter == reach[n - 1]
                  IN  [g \in Function |->
                         shorter[g] \cup
                         UNION {shorter[CalledFunction[c]] : c \in CallsFrom(g)}]
<1>1. CalleesWithin = [g \in Function |-> reach[Cardinality(Function)][g] \cap Function]
  BY DEF CalleesWithin
<1> HIDE DEF reach
<1> QED
  BY <1>1

\* What a function writes, and the calls that must stay, only grow.
LEMMA WrittenGrows ==
  ASSUME TypeOK, Next
  PROVE  /\ include_all_callsites \subseteq include_all_callsites'
         /\ \A f \in Function : ptr_written[f] \subseteq ptr_written'[f]
<1>1. include_all_callsites \subseteq include_all_callsites'
  BY DEF Next, AnalyzedValue, AnalyzedCfg, NextRound, VisitStore, CheckCall, AnalyzeValue,
     AnalyzeCfg, IncludeAgain, IncludeValue, IncludeFunctionCallsite, VisitOperands,
     VisitLoad, VisitStoreValue, VisitPhi, VisitPhiIncoming, VisitSelect, VisitArg,
     VisitArgCallsite, VisitCall, PtrUsedPlainly, PtrStore, PtrPhi, PtrSelect,
     VisitCallFromPtr, PtrArg, PtrRet, PtrRetCallsite, funcVars
<1>2. ptr_written' = ptr_written \/ VisitStore
  BY DEF Next, AnalyzedValue, AnalyzedCfg, NextRound, CheckCall, AnalyzeValue,
     AnalyzeCfg, IncludeAgain, IncludeValue, IncludeFunctionCallsite, VisitOperands,
     VisitLoad, VisitStoreValue, VisitPhi, VisitPhiIncoming, VisitSelect, VisitArg,
     VisitArgCallsite, VisitCall, PtrUsedPlainly, PtrStore, PtrPhi, PtrSelect,
     VisitCallFromPtr, PtrArg, PtrRet, PtrRetCallsite
<1>3. VisitStore => \A f \in Function : ptr_written[f] \subseteq ptr_written'[f]
  BY DEF VisitStore, TypeOK
<1> QED
  BY <1>1, <1>2, <1>3

\* A store or a call that matters goes on to matter.
LEMMA MattersKept ==
  ASSUME NoPointerSelects, TypeOK, ReferencesAreValid, UsersInv, Next
  PROVE  /\ \A s \in OfKind("store") : StoreMatters(s) => StoreMatters(s)'
         /\ \A c \in Call : ShouldCallBeIncluded(c) => ShouldCallBeIncluded(c)'
<1>1. PICK move \in [Info -> Info] :
        /\ \A i \in Info : merged_with'[i] = move[merged_with[i]]
        /\ \A p \in Pointer : InfoOf(p)' = move[InfoOf(p)]
        /\ \A i \in Info : loads[i] \subseteq loads'[move[i]]
  BY InfosMove
<1>2. ASSUME NEW s \in OfKind("store"), StoreMatters(s) PROVE StoreMatters(s)'
  <2>1. PtrOperand[s] \in Pointer
    BY ProgramAssumption DEF ProgramAssumption
  <2>2. PICK i \in Info : i = InfoOf(PtrOperand[s])
    BY <2>1, InfoTypes
  <2>3. InfoOf(PtrOperand[s])' = move[i] /\ loads[i] \subseteq loads'[move[i]]
    BY <1>1, <2>1, <2>2
  <2>4. ReadLater(s, loads[i])
    BY <1>2, <2>2, ImportantIsRead DEF StoreMatters
  <2>5. ReadLater(s, loads'[move[i]])
    BY <2>3, <2>4, MoreIsRead
  <2>6. IsStoreImportant(s, move[i])'
    BY <2>5, ImportantIsRead
  <2> QED
    BY <2>3, <2>6 DEF StoreMatters, IsStoreImportant, StoreHappensAfterAllLoads
<1>3. ASSUME NEW c \in Call, ShouldCallBeIncluded(c) PROVE ShouldCallBeIncluded(c)'
  <2>1. CASE CalledFunction[c] \in include_all_callsites
    BY <2>1, WrittenGrows DEF ShouldCallBeIncluded
  <2>2. ASSUME NEW i \in PtrWrittenRecursive(CalledFunction[c]),
               IsStoreImportant(c, merged_with[i])
        PROVE  ShouldCallBeIncluded(c)'
    <3>1. CalledFunction[c] \in Function
      BY ProgramAssumption DEF ProgramAssumption
    <3>2. PICK g \in CalleesWithin[CalledFunction[c]] : i \in ptr_written[g]
      BY DEF PtrWrittenRecursive
    <3>3. g \in Function
      BY <3>1, CalleesAreFunctions
    <3>4. i \in Info /\ i \in PtrWrittenRecursive(CalledFunction[c])'
      BY <3>2, <3>3, WrittenGrows DEF PtrWrittenRecursive, TypeOK
    <3>5. PICK j \in Info : j = merged_with[i]
      BY <3>4 DEF TypeOK
    <3>6. merged_with'[i] = move[j] /\ loads[j] \subseteq loads'[move[j]]
      BY <1>1, <3>4, <3>5
    <3>7. ReadLater(c, loads[j])
      BY <2>2, <3>5, ImportantIsRead
    <3>8. ReadLater(c, loads'[move[j]])
      BY <3>6, <3>7, MoreIsRead
    <3>9. IsStoreImportant(c, move[j])'
      BY <3>8, ImportantIsRead
    <3>10. IsStoreImportant(c, merged_with[i])'
      BY <3>6, <3>9 DEF IsStoreImportant, StoreHappensAfterAllLoads
    <3> QED
      BY <3>4, <3>10 DEF ShouldCallBeIncluded
  <2> QED
    BY <1>3, <2>1, <2>2 DEF ShouldCallBeIncluded
<1> QED
  BY <1>2, <1>3

-----------------------------------------------------------------------------
(* Why a value is in the slice.                                            *)

ReasonFor(x) ==
  \/ x \in NeededOrRequested
  \/ x \in Call /\ ShouldCallBeIncluded(x)
  \/ \E s \in OfKind("store") \cap tainted_values : x \in {s} \cup Operands[s] /\ StoreMatters(s)

ReasonInv ==
  /\ \A x : Asked(x) => ReasonFor(x)
  /\ \A s \in OfKind("store") : Asked(s) => StoreMatters(s)
  /\ \A f, c : Waiting("callsites", f, c) => c \in Callsites(f)

LEMMA ReasonKept ==
  ASSUME NoPointerSelects, TypeOK, ReferencesAreValid, UsersInv, Next
  PROVE  \A x : ReasonFor(x) => ReasonFor(x)'
<1>1. NeededOrRequested \subseteq NeededOrRequested'
  <2>1. included \subseteq included' /\ request' = request
    BY IncludedSteps, RequestSteps
  <2>2. \A u \in included : needs[u] \subseteq needs'[u]
    BY NeedsSteps DEF TypeOK
  <2> QED
    BY <2>1, <2>2 DEF NeededOrRequested
<1>2. tainted_values \subseteq tainted_values'
  BY ValueSteps
<1> QED
  BY <1>1, <1>2, MattersKept DEF ReasonFor

LEMMA CauseIsReason ==
  ASSUME NoPointerSelects, TypeOK, ReferencesAreValid, UsersInv, TaintInv, RequestInv,
         ReasonInv, Next, NEW x, IncludeCause(x)
  PROVE  ReasonFor(x)'
<1>1. CASE AnalyzeValue(x) \/ AnalyzeCfg(x)
  <2>1. x \in request.value \cup request.cfg /\ request' = request
    BY <1>1, RequestSteps DEF AnalyzeValue, AnalyzeCfg, RequestInv
  <2> QED
    BY <2>1 DEF ReasonFor, NeededOrRequested
<1>2. CASE IncludeFunctionCallsite(x) /\ Current.subject \in include_all_callsites
  <2>1. Running("callsites") /\ x \in Current.rest
    BY <1>2 DEF IncludeFunctionCallsite
  <2>2. x \in Callsites(Current.subject)
    BY <2>1, WaitsRunning DEF ReasonInv, Left
  <2>3. x \in Call /\ ShouldCallBeIncluded(x)
    BY <1>2, <2>2 DEF Callsites, ShouldCallBeIncluded
  <2> QED
    BY <2>3, ReasonKept DEF ReasonFor
<1>3. ASSUME NEW v \in Value, IncludeValue(v), x \in Terminators(v) \cup needs[v]
      PROVE  ReasonFor(x)'
  <2>1. v \in included' /\ needs' = needs
    BY <1>3 DEF IncludeValue
  <2> QED
    BY <1>3, <2>1 DEF ReasonFor, NeededOrRequested
<1>4. ASSUME NEW v \in included, x \in needs'[v] PROVE ReasonFor(x)'
  BY <1>4, IncludedSteps DEF ReasonFor, NeededOrRequested
<1>5. CASE /\ VisitStore
           /\ x \in {Current.subject} \cup Operands[Current.subject]
           /\ IsStoreImportant(Current.subject, InfoOf(PtrOperand[Current.subject]))
  <2>1. Running("visit_store")
    BY <1>5 DEF VisitStore
  <2>2. Current.subject \in OfKind("store") /\ Waiting("visit_store", Current.subject, Current.subject)
    BY <2>1, WaitsRunning, FrameCases DEF Left
  <2>3. Current.subject \in tainted_values /\ StoreMatters(Current.subject)
    BY <1>5, <2>2 DEF TaintInv, TaintedOps, StoreMatters
  <2>4. ReasonFor(x)
    BY <1>5, <2>2, <2>3 DEF ReasonFor
  <2> QED
    BY <2>4, ReasonKept
<1>6. CASE CheckCall /\ x = Current.subject /\ ShouldCallBeIncluded(x)
  <2>1. Running("check_call")
    BY <1>6 DEF CheckCall
  <2>2. x \in Call
    BY <1>6, <2>1, WaitsRunning, FrameCases
  <2> QED
    BY <1>6, <2>2, ReasonKept DEF ReasonFor
<1> QED
  BY <1>1, <1>2, <1>3, <1>4, <1>5, <1>6 DEF IncludeCause

LEMMA ReasonStep ==
  ASSUME NoPointerSelects, TypeOK, ReferencesAreValid, UsersInv, TaintInv, RequestInv,
         ReasonInv, Next
  PROVE  ReasonInv'
<1>1. ASSUME NEW x, Asked(x)' PROVE ReasonFor(x)'
  <2>1. CASE Asked(x)
    BY <2>1, ReasonKept DEF ReasonInv
  <2>2. CASE ~ Asked(x)
    <3>1. x \notin included'
      BY <2>2, IncludedSteps DEF Asked
    <3>2. PICK y : Waiting("include", y, x)'
      BY <1>1, <3>1 DEF Asked
    <3>3. IncludeCause(x)
      BY <2>2, <3>2, WaitingNew DEF StartCause, Asked
    <3> QED
      BY <3>3, CauseIsReason
  <2> QED
    BY <2>1, <2>2
<1>2. ASSUME NEW s \in OfKind("store"), Asked(s)' PROVE StoreMatters(s)'
  <2>1. StoreMatters(s)
    BY <1>2, StoreAsked DEF ReasonInv
  <2> QED
    BY <2>1, MattersKept
<1>3. ASSUME NEW f, NEW c, Waiting("callsites", f, c)' PROVE c \in Callsites(f)
  BY <1>3, WaitingNew DEF StartCause, ReasonInv
<1> QED
  BY <1>1, <1>2, <1>3 DEF ReasonInv

LEMMA ReasonsKnown ==
  ASSUME NoPointerSelects
  PROVE  Spec => []ReasonInv
<1>1. Init => ReasonInv
  <2> SUFFICES ASSUME Init PROVE ReasonInv
    OBVIOUS
  <2>1. \A op, s, x : ~ Waiting(op, s, x)
    BY NothingWaits DEF Init
  <2> QED
    BY <2>1 DEF Init, ReasonInv, Asked
<1>2. TypeOK /\ ReferencesAreValid /\ UsersInv /\ TaintInv /\ RequestInv /\ ReasonInv
        /\ [Next]_vars => ReasonInv'
  <2> SUFFICES ASSUME TypeOK, ReferencesAreValid, UsersInv, TaintInv, RequestInv, ReasonInv,
                      UNCHANGED vars
               PROVE  ReasonInv'
    BY ReasonStep
  <2>1. \A x : (ReasonFor(x)' <=> ReasonFor(x)) /\ (StoreMatters(x)' <=> StoreMatters(x))
    BY DEF ReasonFor, StoreMatters, NeededOrRequested, ShouldCallBeIncluded,
       PtrWrittenRecursive, IsStoreImportant, StoreHappensAfterAllLoads, InfoOf, vars,
       requestVars, valueVars, funcVars, aliasVars, infoVars
  <2> QED
    BY <2>1, StutterKeepsCalls DEF ReasonInv
<1> QED
  BY <1>1, <1>2, TypeCorrect, ReferencesStayValid, UsersStayKnown, TaintedIsKnown,
     OnlyRequestsAnalyzed, PTL DEF Spec

\* A store of the slice has a reader, in every later state: merges and new loads
\* only add readers.  A pointer that a select takes would lose them.
THEOREM IncludedStoresMatter ==
  ASSUME NoPointerSelects
  PROVE  Spec => []IncludedStoreMatters
<1>1. ReasonInv => IncludedStoreMatters
  BY DEF ReasonInv, IncludedStoreMatters, Asked, StoreMatters
<1> QED
  BY <1>1, ReasonsKnown, PTL

\* The slice is no larger than it must be: all that is in it is requested, needed by
\* something in it, or a call or a store whose effect is read.
THEOREM IncludedForReasons ==
  ASSUME NoPointerSelects
  PROVE  Spec => []IncludedForAReason
<1>1. ReasonInv => IncludedForAReason
  BY DEF ReasonInv, ReasonFor, IncludedForAReason, Asked, StoreMatters
<1> QED
  BY <1>1, ReasonsKnown, PTL

-----------------------------------------------------------------------------
(* The stores and the pointers that one address goes through.              *)

\* The instructions that a slice has to pass yield no pointer, so that every
\* pointer is visited for its uses.
PassedYieldNoPointer == \A r \in Requests : r.cfg \cap Pointer = {}

\* The phi r takes its last incoming value.
LastIncoming(r) ==
  \E x \in Value : VisitPhiIncoming(x) /\ Current.rest = {x} /\ r = Current.subject

\* Where an info gains loads, and which pointers stay visited.
LEMMA LoadSteps ==
  ASSUME NoPointerSelects, TypeOK, Next
  PROVE  \/ UNCHANGED <<aliasVars, loads>>
         \/ \E v \in Value : VisitLoad(v)
         \/ \E p, q \in Pointer :
              /\ MergeWith(InfoOf(p), InfoOf(q))
              /\ \A r \in visited' : \/ r \in visited \ ReVisitMerged(InfoOf(p), InfoOf(q))
                                     \/ LastIncoming(r)
<1> DEFINE Goal == \/ UNCHANGED <<aliasVars, loads>>
                   \/ \E v \in Value : VisitLoad(v)
                   \/ \E p, q \in Pointer :
                        /\ MergeWith(InfoOf(p), InfoOf(q))
                        /\ \A r \in visited' : \/ r \in visited \ ReVisitMerged(InfoOf(p), InfoOf(q))
                                               \/ LastIncoming(r)
<1>1. ASSUME NEW x \in Value, VisitPhiIncoming(x) PROVE Goal
  <2>1. Running("visit_phi") /\ x \in Current.rest
    BY <1>1 DEF VisitPhiIncoming
  <2>2. Current.subject \in OfKind("phi") /\ x \in Operands[Current.subject]
    BY <2>1, WaitsRunning, FrameCases
  <2>3. CASE Current.subject \in Pointer
    <3>1. x \in Pointer
      BY <2>2, <2>3, ProgramAssumption DEF ProgramAssumption
    <3>2. MergeWith(InfoOf(Current.subject), InfoOf(x))
      BY <1>1, <2>3 DEF VisitPhiIncoming
    <3>3. visited' \subseteq (visited \ ReVisitMerged(InfoOf(Current.subject), InfoOf(x)))
                             \cup (IF Current.rest = {x} THEN {Current.subject} ELSE {})
      BY <1>1, <2>3 DEF VisitPhiIncoming
    <3>4. \A r \in visited' :
            \/ r \in visited \ ReVisitMerged(InfoOf(Current.subject), InfoOf(x))
            \/ LastIncoming(r)
      BY <1>1, <3>3 DEF LastIncoming
    <3> QED
      BY <2>3, <3>1, <3>2, <3>4
  <2>4. CASE Current.subject \notin Pointer
    BY <1>1, <2>4 DEF VisitPhiIncoming, infoVars
  <2> QED
    BY <2>3, <2>4
<1>2. ASSUME NEW c \in Value, VisitArgCallsite(c) PROVE Goal
  <2> DEFINE a == Current.subject
             x == ArgOperand[c][a]
  <2>1. Running("visit_arg") /\ c \in Current.rest
    BY <1>2 DEF VisitArgCallsite
  <2>2. a \in OfKind("arg") /\ c \in Callsites(ParentOf[a])
    BY <2>1, WaitsRunning, FrameCases
  <2>3. CASE a \in Pointer
    <3>1. x \in Pointer
      BY <2>2, <2>3, ProgramAssumption DEF ProgramAssumption, Callsites
    <3>2. MergeWith(InfoOf(a), InfoOf(x)) /\ visited' \subseteq visited \ ReVisitMerged(InfoOf(a), InfoOf(x))
      BY <1>2, <2>3 DEF VisitArgCallsite
    <3> QED
      BY <2>3, <3>1, <3>2
  <2>4. CASE a \notin Pointer
    BY <1>2, <2>4 DEF VisitArgCallsite, infoVars
  <2> QED
    BY <2>3, <2>4
<1>3. ASSUME NEW u \in Value, PtrSelect(u) PROVE Goal
  <2>1. Running("ptr_usages") /\ u \in Current.rest /\ Kind[u] = "select"
    BY <1>3 DEF PtrSelect, UsedBy
  <2>2. Current.subject \in Pointer /\ Current.subject \in Operands[u]
    BY <2>1, WaitsRunning, FrameCases DEF Users
  <2>3. u \in OfKind("select") \ Pointer
    BY <2>1 DEF NoPointerSelects, OfKind
  <2> QED
    BY <2>2, <2>3, ProgramAssumption DEF ProgramAssumption
<1>4. ASSUME NEW a \in Value, PtrArg(a) PROVE Goal
  <2>1. Running("ptr_args") /\ a \in Current.rest
    BY <1>4 DEF PtrArg
  <2>2. Current.subject \in Pointer /\ a \in Pointer
    BY <2>1, WaitsRunning, FrameCases
  <2>3. /\ MergeWith(InfoOf(Current.subject), InfoOf(a))
        /\ visited' \subseteq visited \ ReVisitMerged(InfoOf(Current.subject), InfoOf(a))
    BY <1>4 DEF PtrArg
  <2> QED
    BY <2>2, <2>3
<1>5. ASSUME NEW c \in Value, PtrRetCallsite(c) PROVE Goal
  <2>1. Running("ptr_ret") /\ c \in Current.rest
    BY <1>5 DEF PtrRetCallsite
  <2>2. Current.subject \in Pointer /\ c \in Pointer
    BY <2>1, WaitsRunning, FrameCases
  <2>3. /\ MergeWith(InfoOf(Current.subject), InfoOf(c))
        /\ visited' \subseteq visited \ ReVisitMerged(InfoOf(Current.subject), InfoOf(c))
    BY <1>5 DEF PtrRetCallsite
  <2> QED
    BY <2>2, <2>3
<1>6. ASSUME NEW v \in Value, VisitSelect(v) PROVE Goal
  <2>1. v \notin Pointer
    BY <1>6 DEF VisitSelect, Visit, NoPointerSelects, OfKind
  <2> QED
    BY <1>6, <2>1 DEF VisitSelect, aliasVars, infoVars
<1>7. ASSUME \/ AnalyzedValue \/ AnalyzedCfg \/ NextRound \/ VisitStore \/ CheckCall
             \/ \E v \in Value :
                  \/ AnalyzeValue(v) \/ AnalyzeCfg(v)
                  \/ IncludeAgain(v) \/ IncludeValue(v) \/ IncludeFunctionCallsite(v)
                  \/ VisitOperands(v) \/ VisitStoreValue(v) \/ VisitPhi(v)
                  \/ VisitArg(v) \/ VisitCall(v)
                  \/ PtrUsedPlainly(v) \/ PtrStore(v) \/ PtrPhi(v)
                  \/ VisitCallFromPtr(v) \/ PtrRet(v)
      PROVE  UNCHANGED <<aliasVars, loads>>
  BY <1>7 DEF AnalyzedValue, AnalyzedCfg, NextRound, VisitStore, CheckCall, AnalyzeValue,
     AnalyzeCfg, IncludeAgain, IncludeValue, IncludeFunctionCallsite, VisitOperands,
     VisitStoreValue, VisitPhi, VisitArg, VisitCall, PtrUsedPlainly, PtrStore, PtrPhi,
     VisitCallFromPtr, PtrRet, infoVars
<1> QED
  BY <1>1, <1>2, <1>3, <1>4, <1>5, <1>6, <1>7 DEF Next

\* The loads of an info are those through its pointers, with the calls that lead to
\* them: infos that are not merged have no load in common.
LoadInv ==
  /\ \A i \in Info : loads[i] # {} => OfKind("load") \cap loads[i] # {}
  /\ \A i \in Info : merged_with[i] = i =>
       \A x \in OfKind("load") \cap loads[i] :
         InfoOf(PtrOperand[x]) = i /\ TransitiveInsts[x] \subseteq loads[i]

LEMMA LoadsWithCalls ==
  ASSUME NEW v \in OfKind("load")
  PROVE  /\ PtrOperand[v] \in Pointer
         /\ v \in TransitiveInsts[v] /\ TransitiveInsts[v] \cap OfKind("load") = {v}
<1>1. v \in Inst
  BY DEF OfKind, Inst
<1>2. Call \cap OfKind("load") = {}
  BY DEF Call, OfKind
<1> QED
  BY <1>1, <1>2, ProgramAssumption DEF ProgramAssumption, TransitiveInsts

LEMMA LoadStep ==
  ASSUME NoPointerSelects, TypeOK, ReferencesAreValid, UsersInv, LoadInv, Next
  PROVE  LoadInv'
<1>1. CASE UNCHANGED <<aliasVars, loads>>
  BY <1>1 DEF LoadInv, InfoOf, aliasVars
<1>2. ASSUME NEW v \in Value, VisitLoad(v) PROVE LoadInv'
  <2>1. v \in OfKind("load")
    BY <1>2 DEF VisitLoad, Visit, OfKind
  <2>2. PICK i \in Info : i = InfoOf(PtrOperand[v])
    BY <2>1, LoadsWithCalls, InfoTypes
  <2>3. loads' = [loads EXCEPT ![i] = @ \cup TransitiveInsts[v]] /\ UNCHANGED aliasVars
    BY <1>2, <2>2 DEF VisitLoad
  <2>4. \A r \in Pointer : InfoOf(r)' = InfoOf(r)
    BY <2>3 DEF InfoOf, aliasVars
  <2>5. \A k \in Info : loads'[k] = IF k = i THEN loads[k] \cup TransitiveInsts[v] ELSE loads[k]
    BY <2>3 DEF TypeOK
  <2>6. \A x \in OfKind("load") : InfoOf(PtrOperand[x])' = InfoOf(PtrOperand[x])
    BY <2>4, LoadsWithCalls
  <2>7. merged_with' = merged_with
    BY <2>3 DEF aliasVars
  <2>8. ASSUME NEW k \in Info, loads'[k] # {} PROVE OfKind("load") \cap loads'[k] # {}
    <3>1. CASE k = i
      BY <2>1, <2>5, <3>1, LoadsWithCalls
    <3>2. CASE k # i
      BY <2>5, <2>8, <3>2 DEF LoadInv
    <3> QED
      BY <3>1, <3>2
  <2>9. ASSUME NEW k \in Info, merged_with[k] = k, NEW x \in OfKind("load") \cap loads'[k]
        PROVE  InfoOf(PtrOperand[x]) = k /\ TransitiveInsts[x] \subseteq loads'[k]
    <3>1. CASE k = i /\ x = v
      BY <2>2, <2>5, <3>1
    <3>2. CASE ~ (k = i /\ x = v)
      <4>1. x \in loads[k]
        BY <2>1, <2>5, <2>9, <3>2, LoadsWithCalls
      <4> QED
        BY <2>5, <2>9, <4>1 DEF LoadInv
    <3> QED
      BY <3>1, <3>2
  <2> QED
    BY <2>6, <2>7, <2>8, <2>9 DEF LoadInv
<1>3. ASSUME NEW p \in Pointer, NEW q \in Pointer, MergeWith(InfoOf(p), InfoOf(q)),
             InfoOf(p) # InfoOf(q)
      PROVE  LoadInv'
  <2>1. PICK i \in Info, j \in Info : i = InfoOf(p) /\ j = InfoOf(q) /\ i # j
    BY <1>3, InfoTypes
  <2>2. \A x \in OfKind("load") :
          InfoOf(PtrOperand[x])' = IF InfoOf(PtrOperand[x]) = j THEN i ELSE InfoOf(PtrOperand[x])
    BY <1>3, <2>1, MergeMoves, LoadsWithCalls
  <2>3. /\ merged_with' = [k \in Info |-> IF merged_with[k] = j THEN i ELSE merged_with[k]]
        /\ loads' = [loads EXCEPT ![i] = @ \cup loads[j]]
    BY <1>3, <2>1 DEF MergeWith
  <2>4. \A k \in Info : loads'[k] = IF k = i THEN loads[i] \cup loads[j] ELSE loads[k]
    BY <2>1, <2>3 DEF TypeOK
  <2>5. merged_with[i] = i /\ merged_with[j] = j
    BY <2>1 DEF ReferencesAreValid, TypeOK, InfoOf, Info
  <2>6. ASSUME NEW k \in Info, merged_with'[k] = k PROVE merged_with[k] = k /\ k # j
    BY <2>1, <2>3, <2>5, <2>6
  <2>7. ASSUME NEW k \in Info, merged_with'[k] = k, NEW x \in OfKind("load") \cap loads'[k]
        PROVE  InfoOf(PtrOperand[x])' = k /\ TransitiveInsts[x] \subseteq loads'[k]
    <3>1. merged_with[k] = k /\ k # j
      BY <2>6, <2>7
    <3>2. CASE k = i
      BY <2>1, <2>2, <2>4, <2>5, <2>7, <3>2 DEF LoadInv
    <3>3. CASE k # i
      BY <2>1, <2>2, <2>4, <2>7, <3>1, <3>3 DEF LoadInv
    <3> QED
      BY <3>2, <3>3
  <2>8. ASSUME NEW k \in Info, loads'[k] # {} PROVE OfKind("load") \cap loads'[k] # {}
    BY <2>1, <2>4, <2>8 DEF LoadInv
  <2> QED
    BY <2>7, <2>8 DEF LoadInv
<1>4. ASSUME NEW p \in Pointer, NEW q \in Pointer, MergeWith(InfoOf(p), InfoOf(q)),
             InfoOf(p) = InfoOf(q)
      PROVE  UNCHANGED <<aliasVars, loads>>
  BY <1>4 DEF MergeWith, infoVars
<1> QED
  BY <1>1, <1>2, <1>3, <1>4, LoadSteps

LEMMA LoadsKnown ==
  ASSUME NoPointerSelects
  PROVE  Spec => []LoadInv
<1>1. Init => LoadInv
  BY DEF Init, LoadInv
<1>2. TypeOK /\ ReferencesAreValid /\ UsersInv /\ LoadInv /\ [Next]_vars => LoadInv'
  <2> SUFFICES ASSUME TypeOK, ReferencesAreValid, UsersInv, LoadInv, UNCHANGED vars
               PROVE  LoadInv'
    BY LoadStep
  <2> QED
    BY DEF LoadInv, InfoOf, vars, aliasVars, infoVars
<1> QED
  BY <1>1, <1>2, TypeCorrect, ReferencesStayValid, UsersStayKnown, PTL DEF Spec

\* A pointer whose info gains a load does not stay visited: propergate_changes
\* reaches it, and a merge that reports no change adds none.
LEMMA LoadsStay ==
  ASSUME NoPointerSelects, TypeOK, ReferencesAreValid, UsersInv, LoadInv, Next,
         NEW p \in Pointer, p \in visited', ~ LastIncoming(p)
  PROVE  (loads[InfoOf(p)])' = loads[InfoOf(p)]
<1>1. InfoOf(p) \in Info /\ merged_with[InfoOf(p)] = InfoOf(p) /\ p \in ptrs_with_this_info[InfoOf(p)]
  BY InfoTypes DEF ReferencesAreValid, InfoOf, TypeOK
<1>2. CASE UNCHANGED <<aliasVars, loads>>
  BY <1>2 DEF InfoOf, aliasVars
<1>3. ASSUME NEW v \in Value, VisitLoad(v) PROVE (loads[InfoOf(p)])' = loads[InfoOf(p)]
  <2>1. v \in OfKind("load") /\ v # p
    BY <1>3, ProgramAssumption DEF VisitLoad, Visit, OfKind, ProgramAssumption
  <2>2. PICK i \in Info : i = InfoOf(PtrOperand[v])
    BY <2>1, LoadsWithCalls, InfoTypes
  <2>3. /\ loads' = [loads EXCEPT ![i] = @ \cup TransitiveInsts[v]] /\ UNCHANGED aliasVars
        /\ v \notin loads[i] => p \notin ptrs_with_this_info[i]
    BY <1>3, <2>1, <2>2 DEF VisitLoad
  <2>4. InfoOf(p)' = InfoOf(p)
    BY <2>3 DEF InfoOf, aliasVars
  <2>5. CASE InfoOf(p) = i
    <3>1. v \in loads[i] /\ merged_with[i] = i
      BY <1>1, <2>3, <2>5
    <3>2. TransitiveInsts[v] \subseteq loads[i]
      BY <2>1, <2>2, <3>1 DEF LoadInv
    <3> QED
      BY <2>3, <2>4, <2>5, <3>2 DEF TypeOK
  <2>6. CASE InfoOf(p) # i
    BY <1>1, <2>3, <2>4, <2>6 DEF TypeOK
  <2> QED
    BY <2>5, <2>6
<1>4. ASSUME NEW q \in Pointer, NEW r \in Pointer, MergeWith(InfoOf(q), InfoOf(r)),
             p \notin ReVisitMerged(InfoOf(q), InfoOf(r))
      PROVE  (loads[InfoOf(p)])' = loads[InfoOf(p)]
  <2>1. CASE InfoOf(q) = InfoOf(r)
    BY <1>4, <2>1 DEF MergeWith, InfoOf, aliasVars, infoVars
  <2>2. CASE InfoOf(q) # InfoOf(r)
    <3>1. PICK i \in Info, j \in Info : i = InfoOf(q) /\ j = InfoOf(r) /\ i # j
      BY <2>2, InfoTypes
    <3>2. InfoOf(p)' = IF InfoOf(p) = j THEN i ELSE InfoOf(p)
      BY <1>4, <2>2, <3>1, MergeMoves
    <3>3. loads' = [loads EXCEPT ![i] = @ \cup loads[j]]
      BY <1>4, <3>1 DEF MergeWith
    <3>4. CASE MergeChanges(i, j)
      <4>1. InfoOf(p) # i /\ InfoOf(p) # j
        BY <1>1, <1>4, <3>1, <3>4 DEF ReVisitMerged
      <4> QED
        BY <1>1, <3>1, <3>2, <3>3, <4>1 DEF TypeOK
    <3>5. CASE ~ MergeChanges(i, j)
      <4>1. loads[j] \subseteq loads[i] /\ ((loads[i] = {}) <=> (loads[j] = {}))
        BY <3>5 DEF MergeChanges
      <4>2. merged_with[i] = i /\ merged_with[j] = j
        BY <3>1 DEF ReferencesAreValid, TypeOK, InfoOf, Info
      <4>3. loads[j] = {}
        BY <3>1, <4>1, <4>2 DEF LoadInv
      <4>4. \A k \in Info : loads'[k] = loads[k]
        BY <3>1, <3>3, <4>3 DEF TypeOK
      <4>5. loads[i] = loads[j]
        BY <4>1, <4>3
      <4> QED
        BY <1>1, <3>1, <3>2, <4>4, <4>5
    <3> QED
      BY <3>4, <3>5
  <2> QED
    BY <2>1, <2>2
<1> QED
  BY <1>2, <1>3, <1>4, LoadSteps

LEMMA PassedNoPointer ==
  ASSUME PassedYieldNoPointer, TypeOK, RequestInv, NEW p \in Pointer
  PROVE  ~ (AnalyzedCfg /\ p = Current.subject)
<1>1. ASSUME Running("requested_cfg") PROVE \E y : Waiting("requested_cfg", Current.subject, y)
  BY <1>1, WaitsRunning, FrameCases DEF Left
<1> QED
  BY <1>1 DEF AnalyzedCfg, RequestInv, PassedYieldNoPointer, TypeOK

\* A visit of a pointer ends with its uses.
LEMMA UsesLookedAt ==
  ASSUME PassedYieldNoPointer, TypeOK, RequestInv, Next, NEW p \in Pointer, p \in visited',
         p \notin visited \/ LastIncoming(p)
  PROVE  \A u \in Users(p) : Waiting("ptr_usages", p, u)'
<1>1. CASE LastIncoming(p)
  <2>1. PICK x \in Value : VisitPhiIncoming(x) /\ Current.rest = {x} /\ p = Current.subject
    BY <1>1 DEF LastIncoming
  <2> QED
    BY <2>1, PhiIncomingStack
<1>2. CASE p \notin visited
  <2>1. p \in Value /\ ~ VisitLoad(p) /\ p \notin OfKind("store")
    BY PointersAreValues, ProgramAssumption DEF ProgramAssumption, VisitLoad, Visit, OfKind
  <2>2. ASSUME NEW x \in Value, VisitPhiIncoming(x), p = Current.subject PROVE LastIncoming(p)
    BY <1>2, <2>2 DEF VisitPhiIncoming, LastIncoming
  <2>3. ~ (AnalyzedCfg /\ p = Current.subject)
    BY PassedNoPointer
  <2>4. VisitOperands(p) \/ VisitSelect(p) \/ VisitArg(p) \/ VisitCall(p) \/ LastIncoming(p)
    BY <1>2, <2>1, <2>2, <2>3, VisitedSteps
  <2>5. CASE VisitOperands(p) \/ VisitSelect(p) \/ VisitArg(p)
    BY <2>1, <2>5, VisitStack DEF VisitWaits
  <2>6. CASE VisitCall(p)
    BY <2>1, <2>6, CallStack DEF VisitWaits
  <2> QED
    BY <1>1, <2>4, <2>5, <2>6
<1> QED
  BY <1>1, <1>2

\* A store through a pointer that has been visited has been looked at since its
\* info has gained a load, or will be.
StoreInv ==
  \A s \in OfKind("store") : PtrOperand[s] \in visited =>
    \/ Waiting("ptr_usages", PtrOperand[s], s)
    \/ Waiting("visit_store", s, s)
    \/ ~ StoreMatters(s)
    \/ \A x \in {s} \cup Operands[s] : Asked(x)

LEMMA StoreStep ==
  ASSUME NoPointerSelects, PassedYieldNoPointer, TypeOK, ReferencesAreValid, UsersInv,
         RequestInv, LoadInv, StoreInv, Next
  PROVE  StoreInv'
<1> SUFFICES ASSUME NEW s \in OfKind("store"), PtrOperand[s] \in visited'
             PROVE  \/ Waiting("ptr_usages", PtrOperand[s], s)'
                    \/ Waiting("visit_store", s, s)'
                    \/ ~ StoreMatters(s)'
                    \/ \A x \in {s} \cup Operands[s] : Asked(x)'
  BY DEF StoreInv
<1> DEFINE p == PtrOperand[s]
<1>1. p \in Pointer /\ s \in Users(p) /\ s \in Value /\ p \in Operands[s]
  BY ProgramAssumption DEF ProgramAssumption, Users, OfKind
<1>2. CASE p \notin visited \/ LastIncoming(p)
  BY <1>1, <1>2, UsesLookedAt
<1>3. CASE Waiting("ptr_usages", p, s)
  <2>1. Waiting("ptr_usages", p, s)' \/ PtrUse(s)
    BY <1>3, WaitingKept DEF Takes
  <2>2. PtrUse(s) => PtrStore(s)
    BY DEF PtrUse, PtrUsedPlainly, PtrPhi, PtrSelect, VisitCallFromPtr, PtrRet, UsedBy, OfKind
  <2> QED
    BY <1>1, <2>1, <2>2, PtrUseStack
<1>4. CASE Waiting("visit_store", s, s)
  <2>1. Waiting("visit_store", s, s)' \/ (VisitStore /\ s = Current.subject)
    BY <1>4, WaitingKept DEF Takes
  <2>2. CASE VisitStore /\ s = Current.subject /\ StoreMatters(s)
    <3>1. \A x \in {s} \cup Operands[s] : Waiting("include", s, x)'
      BY <2>2, StoreStack DEF StoreMatters
    <3> QED
      BY <3>1 DEF Asked
  <2>3. CASE VisitStore /\ ~ StoreMatters(s)
    BY <2>3 DEF VisitStore, StoreMatters, IsStoreImportant, StoreHappensAfterAllLoads, InfoOf,
       aliasVars
  <2> QED
    BY <2>1, <2>2, <2>3
<1>5. CASE ~ StoreMatters(s) /\ ~ LastIncoming(p)
  <2>1. (loads[InfoOf(p)])' = loads[InfoOf(p)]
    BY <1>1, <1>5, LoadsStay
  <2> QED
    BY <1>5, <2>1 DEF StoreMatters, IsStoreImportant, StoreHappensAfterAllLoads
<1>6. CASE \A x \in {s} \cup Operands[s] : Asked(x)
  BY <1>6, AskedKept
<1> QED
  BY <1>2, <1>3, <1>4, <1>5, <1>6 DEF StoreInv

\* No write that is read is missing from the slice, however late its readers or the
\* other names of its pointer are found.
THEOREM StoresAreComplete ==
  ASSUME NoPointerSelects, PassedYieldNoPointer
  PROVE  Spec => []StoresComplete
<1>1. Init => StoreInv
  BY DEF Init, StoreInv
<1>2. TypeOK /\ ReferencesAreValid /\ UsersInv /\ RequestInv /\ LoadInv /\ StoreInv
        /\ [Next]_vars => StoreInv'
  <2> SUFFICES ASSUME TypeOK, ReferencesAreValid, UsersInv, RequestInv, LoadInv, StoreInv,
                      UNCHANGED vars
               PROVE  StoreInv'
    BY StoreStep
  <2>1. visited' = visited /\ \A s : StoreMatters(s)' <=> StoreMatters(s)
    BY DEF StoreMatters, IsStoreImportant, StoreHappensAfterAllLoads, InfoOf, vars, aliasVars,
       infoVars
  <2> QED
    BY <2>1, StutterKeepsCalls DEF StoreInv
<1>3. StoreInv => StoresComplete
  <2> SUFFICES ASSUME StoreInv, Done, NEW s \in OfKind("store"),
                      PtrOperand[s] \in tainted_values, StoreMatters(s)
               PROVE  {s} \cup Operands[s] \subseteq included
    BY DEF StoresComplete, StoreMatters
  <2>1. \A op, x, y : ~ Waiting(op, x, y)
    BY NothingWaits DEF Done, Analyzed
  <2>2. PtrOperand[s] \in visited
    BY DEF Done
  <2> QED
    BY <2>1, <2>2 DEF StoreInv, Asked
<1> QED
  BY <1>1, <1>2, <1>3, TypeCorrect, ReferencesStayValid, UsersStayKnown, OnlyRequestsAnalyzed,
     LoadsKnown, PTL DEF Spec

\* The pairs of an address that have been merged, or are about to be.
AliasInv ==
  /\ \A a \in OfKind("arg") \cap Pointer \cap args_to_use : \A c \in Callsites(ParentOf[a]) :
       Waiting("visit_arg", a, c) \/ InfoOf(a) = InfoOf(ArgOperand[c][a])
  /\ \A v \in OfKind("phi") \cap Pointer : v \in visited \/ (\E y : Waiting("visit_phi", v, y)) =>
       \A x \in Operands[v] : Waiting("visit_phi", v, x) \/ InfoOf(v) = InfoOf(x)
  /\ \A r \in OfKind("ret") : \A p \in Operands[r] \cap Pointer \cap visited :
       \A c \in Callsites(ParentOf[r]) :
         \/ Waiting("ptr_usages", p, r)
         \/ Waiting("ptr_ret", p, c)
         \/ InfoOf(p) = InfoOf(c)

\* Pointers that share an info go on to share one, and a merge makes two share one.
LEMMA SharedKept ==
  ASSUME NoPointerSelects, TypeOK, ReferencesAreValid, UsersInv, Next,
         NEW p \in Pointer, NEW q \in Pointer,
         InfoOf(p) = InfoOf(q) \/ MergeWith(InfoOf(p), InfoOf(q))
  PROVE  InfoOf(p)' = InfoOf(q)'
<1>1. CASE InfoOf(p) = InfoOf(q)
  BY <1>1, InfosMove
<1>2. CASE InfoOf(p) # InfoOf(q)
  BY <1>2, MergeMoves
<1> QED
  BY <1>1, <1>2

\* What holds the same address.
LEMMA AliasPointers ==
  /\ \A a \in OfKind("arg") \cap Pointer : \A c \in Callsites(ParentOf[a]) :
       c \in Value /\ ArgOperand[c][a] \in Pointer
  /\ \A v \in OfKind("phi") \cap Pointer : Operands[v] \subseteq Pointer
  /\ \A r \in OfKind("ret") : \A p \in Operands[r] \cap Pointer :
       r \in Users(p) /\ Callsites(ParentOf[r]) \subseteq Pointer \cap Value
BY ProgramAssumption DEF ProgramAssumption, Callsites, Call, Users, OfKind

LEMMA AliasStep ==
  ASSUME NoPointerSelects, PassedYieldNoPointer, TypeOK, ReferencesAreValid, UsersInv,
         RequestInv, AliasInv, Next
  PROVE  AliasInv'
<1>1. ASSUME NEW a \in OfKind("arg") \cap Pointer \cap args_to_use',
             NEW c \in Callsites(ParentOf[a])
      PROVE  Waiting("visit_arg", a, c)' \/ InfoOf(a)' = InfoOf(ArgOperand[c][a])'
  <2> DEFINE x == ArgOperand[c][a]
  <2>1. a \in Pointer /\ x \in Pointer /\ c \in Value /\ a \in Value
    BY AliasPointers, PointersAreValues
  <2>2. CASE a \notin args_to_use
    <3>1. VisitArg(a)
      BY <2>2, ArgsLookedUp
    <3> QED
      BY <2>1, <2>2, <3>1, VisitStack
  <2>3. CASE a \in args_to_use /\ InfoOf(a) = InfoOf(x)
    BY <2>1, <2>3, SharedKept
  <2>4. CASE Waiting("visit_arg", a, c)
    <3>1. Waiting("visit_arg", a, c)' \/ (VisitArgCallsite(c) /\ a = Current.subject)
      BY <2>4, WaitingKept DEF Takes
    <3>2. CASE VisitArgCallsite(c) /\ a = Current.subject
      <4>1. MergeWith(InfoOf(a), InfoOf(x))
        BY <2>1, <3>2 DEF VisitArgCallsite
      <4> QED
        BY <2>1, <4>1, SharedKept
    <3> QED
      BY <3>1, <3>2
  <2> QED
    BY <2>2, <2>3, <2>4 DEF AliasInv
<1>2. ASSUME NEW v \in OfKind("phi") \cap Pointer,
             v \in visited' \/ \E y : Waiting("visit_phi", v, y)',
             NEW x \in Operands[v]
      PROVE  Waiting("visit_phi", v, x)' \/ InfoOf(v)' = InfoOf(x)'
  <2>1. v \in Pointer /\ x \in Pointer /\ v \in Value /\ Kind[v] = "phi"
    BY AliasPointers DEF OfKind
  <2>2. \/ VisitPhi(v)
        \/ v \in visited \/ \E y : Waiting("visit_phi", v, y)
    <3>1. ASSUME NEW y, Waiting("visit_phi", v, y)'
          PROVE  VisitPhi(v) \/ Waiting("visit_phi", v, y)
      BY <3>1, WaitingNew DEF StartCause
    <3>2. ASSUME v \in visited', v \notin visited PROVE \E y : Waiting("visit_phi", v, y)
      <4>1. PICK y \in Value : VisitPhiIncoming(y) /\ v = Current.subject
        <5>1. /\ ~ VisitOperands(v) /\ ~ VisitLoad(v) /\ ~ VisitSelect(v) /\ ~ VisitArg(v)
              /\ ~ VisitCall(v) /\ v \notin OfKind("store")
          BY <2>1 DEF VisitOperands, VisitLoad, VisitSelect, VisitArg, VisitCall, Visit, OfKind
        <5>2. ~ (AnalyzedCfg /\ v = Current.subject)
          BY <2>1, PassedNoPointer
        <5> QED
          BY <3>2, <5>1, <5>2, VisitedSteps
      <4>2. Running("visit_phi") /\ y \in Current.rest
        BY <4>1 DEF VisitPhiIncoming
      <4> QED
        BY <4>1, <4>2, WaitsRunning DEF Left
    <3> QED
      BY <1>2, <3>1, <3>2
  <2>3. CASE VisitPhi(v)
    BY <2>1, <2>3, VisitStack
  <2>4. CASE InfoOf(v) = InfoOf(x)
    BY <2>1, <2>4, SharedKept
  <2>5. CASE Waiting("visit_phi", v, x)
    <3>1. Waiting("visit_phi", v, x)' \/ (VisitPhiIncoming(x) /\ v = Current.subject)
      BY <2>5, WaitingKept DEF Takes
    <3>2. CASE VisitPhiIncoming(x) /\ v = Current.subject
      <4>1. MergeWith(InfoOf(v), InfoOf(x))
        BY <2>1, <3>2 DEF VisitPhiIncoming
      <4> QED
        BY <2>1, <4>1, SharedKept
    <3> QED
      BY <3>1, <3>2
  <2> QED
    BY <2>2, <2>3, <2>4, <2>5 DEF AliasInv
<1>3. ASSUME NEW r \in OfKind("ret"), NEW p \in Operands[r] \cap Pointer \cap visited',
             NEW c \in Callsites(ParentOf[r])
      PROVE  \/ Waiting("ptr_usages", p, r)'
             \/ Waiting("ptr_ret", p, c)'
             \/ InfoOf(p)' = InfoOf(c)'
  <2>1. p \in Pointer /\ c \in Pointer /\ c \in Value /\ r \in Users(p) /\ r \in Value
    BY AliasPointers DEF OfKind
  <2>2. CASE p \notin visited
    BY <2>1, <2>2, UsesLookedAt
  <2>3. CASE InfoOf(p) = InfoOf(c)
    BY <2>1, <2>3, SharedKept
  <2>4. CASE Waiting("ptr_usages", p, r)
    <3>1. Waiting("ptr_usages", p, r)' \/ (PtrUse(r) /\ p = Current.subject)
      BY <2>4, WaitingKept DEF Takes
    <3>2. PtrUse(r) => PtrRet(r)
      BY DEF PtrUse, PtrUsedPlainly, PtrPhi, PtrSelect, PtrStore, VisitCallFromPtr, UsedBy, OfKind
    <3> QED
      BY <2>1, <3>1, <3>2, PtrUseStack
  <2>5. CASE Waiting("ptr_ret", p, c)
    <3>1. Waiting("ptr_ret", p, c)' \/ (PtrRetCallsite(c) /\ p = Current.subject)
      BY <2>5, WaitingKept DEF Takes
    <3>2. CASE PtrRetCallsite(c) /\ p = Current.subject
      <4>1. MergeWith(InfoOf(p), InfoOf(c))
        BY <3>2 DEF PtrRetCallsite
      <4> QED
        BY <2>1, <4>1, SharedKept
    <3> QED
      BY <3>1, <3>2
  <2> QED
    BY <2>2, <2>3, <2>4, <2>5 DEF AliasInv
<1> QED
  BY <1>1, <1>2, <1>3 DEF AliasInv

\* The names of one address share one info once the worklist is empty, whichever of
\* them was found first: what is read through one of them is what makes a write
\* through another important.
THEOREM OneInfoPerGroup ==
  ASSUME NoPointerSelects, PassedYieldNoPointer
  PROVE  Spec => []OneInfoPerAliasGroup
<1>1. Init => AliasInv
  <2> SUFFICES ASSUME Init PROVE AliasInv
    OBVIOUS
  <2>1. \A op, s, x : ~ Waiting(op, s, x)
    BY NothingWaits DEF Init
  <2> QED
    BY <2>1 DEF Init, AliasInv
<1>2. TypeOK /\ ReferencesAreValid /\ UsersInv /\ RequestInv /\ AliasInv /\ [Next]_vars
        => AliasInv'
  <2> SUFFICES ASSUME AliasInv, UNCHANGED vars
               PROVE  AliasInv'
    BY AliasStep
  <2>1. UNCHANGED <<visited, args_to_use>> /\ \A p : InfoOf(p)' = InfoOf(p)
    BY DEF InfoOf, vars, aliasVars
  <2> QED
    BY <2>1, StutterKeepsCalls DEF AliasInv
<1>3. TypeOK /\ OperandInv /\ AliasInv => OneInfoPerAliasGroup
  <2> SUFFICES ASSUME OperandInv, AliasInv, Done, NEW alias \in Aliases,
                      {alias[1], alias[2]} \subseteq tainted_values \cap Pointer
               PROVE  InfoOf(alias[1]) = InfoOf(alias[2])
    BY DEF OneInfoPerAliasGroup
  <2> DEFINE p == alias[1]
             q == alias[2]
  <2>1. \A op, s, y : ~ Waiting(op, s, y)
    BY NothingWaits DEF Done, Analyzed
  <2>2. p \in visited \cap Pointer /\ q \in visited \cap Pointer
    BY DEF Done
  <2>3. \/ \E c \in Call : /\ p \in FormalArgs(CalledFunction[c])
                           /\ q = ArgOperand[c][p]
        \/ /\ p \in OfKind("phi") \cup OfKind("select")
           /\ q \in SelectedBy(p)
        \/ \E r \in OfKind("ret") : p \in Operands[r] /\ q \in Callsites(ParentOf[r])
    <3>1. ASSUME NEW c \in Call,
                 alias \in {<<a, ArgOperand[c][a]>> : a \in FormalArgs(CalledFunction[c])}
          PROVE  p \in FormalArgs(CalledFunction[c]) /\ q = ArgOperand[c][p]
      BY <3>1
    <3>2. ASSUME NEW v \in OfKind("phi") \cup OfKind("select"),
                 alias \in {<<v, x>> : x \in SelectedBy(v)}
          PROVE  p = v /\ q \in SelectedBy(v)
      BY <3>2
    <3>3. ASSUME NEW r \in OfKind("ret"), alias \in Operands[r] \X Callsites(ParentOf[r])
          PROVE  p \in Operands[r] /\ q \in Callsites(ParentOf[r])
      BY <3>3
    <3>4. \/ \E c \in Call :
                alias \in {<<a, ArgOperand[c][a]>> : a \in FormalArgs(CalledFunction[c])}
          \/ \E v \in OfKind("phi") \cup OfKind("select") :
                alias \in {<<v, x>> : x \in SelectedBy(v)}
          \/ \E r \in OfKind("ret") : alias \in Operands[r] \X Callsites(ParentOf[r])
      BY DEF Aliases
    <3> QED
      BY <3>1, <3>2, <3>3, <3>4
  <2>4. CASE \E c \in Call : p \in FormalArgs(CalledFunction[c]) /\ q = ArgOperand[c][p]
    <3>1. PICK c \in Call : p \in FormalArgs(CalledFunction[c]) /\ q = ArgOperand[c][p]
      BY <2>4
    <3>2. p \in OfKind("arg") \cap Pointer \cap args_to_use /\ c \in Callsites(ParentOf[p])
      BY <2>2, <3>1 DEF FormalArgs, Callsites, OperandInv, ArgInv
    <3> QED
      BY <2>1, <3>1, <3>2 DEF AliasInv
  <2>5. CASE p \in OfKind("phi") \cup OfKind("select") /\ q \in SelectedBy(p)
    BY <2>1, <2>2, <2>5 DEF AliasInv, SelectedBy, NoPointerSelects
  <2>6. CASE \E r \in OfKind("ret") : p \in Operands[r] /\ q \in Callsites(ParentOf[r])
    BY <2>1, <2>2, <2>6 DEF AliasInv
  <2> QED
    BY <2>3, <2>4, <2>5, <2>6
<1> QED
  BY <1>1, <1>2, <1>3, TypeCorrect, ReferencesStayValid, UsersStayKnown, OnlyRequestsAnalyzed,
     OperandsAsked, PTL DEF Spec

=============================================================================
