------------------- MODULE PrecalculationAnalysis_proofs -------------------
(***************************************************************************)
(* Theorems about the precalculation analysis for every program: the types *)
(* of its state, the validity of the references between pointers and their *)
(* infos, the control flow of the slice, and the worklist.                 *)
(***************************************************************************)
EXTENDS PrecalculationSlice, TLAPS

-----------------------------------------------------------------------------
(* Facts about the program.                                                *)

LEMMA KindsOfValues ==
  /\ \A v \in Inst : v \in Value /\ ParentOf[v] \in Function
  /\ \A a \in OfKind("arg") : a \in Value /\ ParentOf[a] \in Function
  /\ \A v \in Value : Kind[v] = "function" => ParentOf[v] \in Function
  /\ \A k \in {"plain", "load", "store", "phi", "select", "ret", "call"} :
       OfKind(k) \subseteq Inst
  /\ Call = OfKind("call")
BY ProgramAssumption DEF Inst, OfKind, Call, ProgramAssumption

\* The IR relations yield values; terminators and transitive instructions are
\* instructions.
LEMMA RelationsOfValues ==
  /\ \A v \in Value : Operands[v] \subseteq Value
  /\ \A v \in Value : Users(v) \subseteq Value
  /\ \A v \in Value : Terminators(v) \subseteq Inst
  /\ \A f \in Function : Callsites(f) \subseteq Call /\ ReturnsOf(f) \subseteq Value
  /\ \A i \in Inst : TransitiveInsts[i] \subseteq Inst
  /\ \A v \in EntryInst : v \in Inst
<1>1. \A i \in Inst : TransitiveInsts[i] \subseteq Inst
  BY KindsOfValues DEF TransitiveInsts
<1> QED
  BY <1>1, ProgramAssumption
     DEF Users, Terminators, Callsites, ReturnsOf, OfKind, Call, ProgramAssumption

-----------------------------------------------------------------------------
(* Calls in progress.                                                      *)

\* What each call in progress may be about.
LEMMA FrameTypes ==
  /\ \A v \in Value : \A r \in SUBSET Value :
       [op |-> "include", subject |-> v, rest |-> r] \in Frame
  /\ \A f \in Function : \A r \in SUBSET Call :
       [op |-> "callsites", subject |-> f, rest |-> r] \in Frame
  /\ \A v \in Value : [op |-> "requested_value", subject |-> v, rest |-> {}] \in Frame
  /\ \A v \in Inst : [op |-> "requested_cfg", subject |-> v, rest |-> {}] \in Frame
  /\ \A v \in OfKind("store") : [op |-> "visit_store", subject |-> v, rest |-> {}] \in Frame
  /\ \A v \in Call : [op |-> "check_call", subject |-> v, rest |-> {}] \in Frame
  /\ \A v \in OfKind("phi") : \A r \in SUBSET Value : r \subseteq Operands[v] =>
       [op |-> "visit_phi", subject |-> v, rest |-> r] \in Frame
  /\ \A v \in OfKind("arg") : \A r \in SUBSET Call : r \subseteq Callsites(ParentOf[v]) =>
       [op |-> "visit_arg", subject |-> v, rest |-> r] \in Frame
  /\ \A v \in Pointer : \A r \in SUBSET Value : r \subseteq Users(v) =>
       [op |-> "ptr_usages", subject |-> v, rest |-> r] \in Frame
  /\ \A v \in Pointer : \A r \in SUBSET (OfKind("arg") \cap Pointer) :
       [op |-> "ptr_args", subject |-> v, rest |-> r] \in Frame
  /\ \A v \in Pointer : \A r \in SUBSET (Call \cap Pointer) :
       [op |-> "ptr_ret", subject |-> v, rest |-> r] \in Frame
BY DEF Frame

\* A call in progress is one of these.
LEMMA FrameCases ==
  ASSUME NEW f \in Frame
  PROVE  /\ f = [op |-> f.op, subject |-> f.subject, rest |-> f.rest]
         /\ f.op = "include" => f.subject \in Value /\ f.rest \subseteq Value
         /\ f.op = "callsites" => f.subject \in Function /\ f.rest \subseteq Call
         /\ f.op = "requested_value" => f.subject \in Value /\ f.rest = {}
         /\ f.op = "requested_cfg" => f.subject \in Inst /\ f.rest = {}
         /\ f.op = "visit_store" => f.subject \in OfKind("store") /\ f.rest = {}
         /\ f.op = "check_call" => f.subject \in Call /\ f.rest = {}
         /\ f.op = "visit_phi" => f.subject \in OfKind("phi") /\ f.rest \subseteq Operands[f.subject]
         /\ f.op = "visit_arg" => f.subject \in OfKind("arg") /\ f.rest \subseteq Callsites(ParentOf[f.subject])
         /\ f.op = "ptr_usages" => f.subject \in Pointer /\ f.rest \subseteq Users(f.subject)
         /\ f.op = "ptr_args" => f.subject \in Pointer /\ f.rest \subseteq OfKind("arg") \cap Pointer
         /\ f.op = "ptr_ret" => f.subject \in Pointer /\ f.rest \subseteq Call \cap Pointer
BY DEF Frame

\* A loop that has come further is still a call in progress.
LEMMA FrameShrinks ==
  ASSUME NEW f \in Frame, NEW r, r \subseteq f.rest
  PROVE  [op |-> f.op, subject |-> f.subject, rest |-> r] \in Frame
BY DEF Frame

LEMMA InvokeType ==
  ASSUME NEW op, NEW s, [op |-> op, subject |-> s, rest |-> {}] \in Frame
  PROVE  Invoke(op, s) \in Seq(Frame)
BY DEF Invoke

LEMMA LoopType ==
  ASSUME NEW op, NEW s, NEW r,
         r # {} => [op |-> op, subject |-> s, rest |-> r] \in Frame
  PROVE  Loop(op, s, r) \in Seq(Frame)
BY DEF Loop

LEMMA EmptyType == <<>> \in Seq(Frame)
OBVIOUS

LEMMA ConcatType ==
  ASSUME NEW s \in Seq(Frame), NEW t \in Seq(Frame)
  PROVE  s \o t \in Seq(Frame)
OBVIOUS

LEMMA Concat3Type ==
  ASSUME NEW s \in Seq(Frame), NEW t \in Seq(Frame), NEW u \in Seq(Frame)
  PROVE  s \o t \o u \in Seq(Frame)
BY ConcatType

LEMMA Concat4Type ==
  ASSUME NEW s \in Seq(Frame), NEW t \in Seq(Frame), NEW u \in Seq(Frame),
         NEW w \in Seq(Frame)
  PROVE  s \o t \o u \o w \in Seq(Frame)
BY Concat3Type, ConcatType

LEMMA RunningTypes ==
  ASSUME call_stack \in Seq(Frame), NEW op, Running(op)
  PROVE  /\ Current \in Frame
         /\ Current.op = op
         /\ Callers \in Seq(Frame)
         /\ \A x : RestOfLoop(x) \in Seq(Frame)
<1>1. /\ Current \in Frame
      /\ Current.op = op
      /\ Callers \in Seq(Frame)
  BY DEF Running, Current, Callers
<1>2. ASSUME NEW x
      PROVE  RestOfLoop(x) \in Seq(Frame)
  <2>1. [op |-> Current.op, subject |-> Current.subject,
         rest |-> Current.rest \ {x}] \in Frame
    BY <1>1, FrameShrinks
  <2>2. Loop(Current.op, Current.subject, Current.rest \ {x}) \in Seq(Frame)
    BY <2>1, LoopType
  <2> QED
    BY <1>1, <2>2, ConcatType DEF RestOfLoop
<1> QED
  BY <1>1, <1>2


-----------------------------------------------------------------------------
(* What the helpers of the actions yield.                                  *)

LEMMA InsertNeedsTypes ==
  ASSUME TypeOK, NEW v \in Value, NEW vs \in SUBSET Value
  PROVE  /\ NewlyNeeded(v, vs) \subseteq vs
         /\ IncludeNeeds(v, vs) \in Seq(Frame)
         /\ InsertNeeds(v, vs) => /\ tainted_values' \subseteq Value
                                  /\ needs' \in [Value -> SUBSET Value]
<1>1. IncludeNeeds(v, vs) \in Seq(Frame)
  BY FrameTypes, LoopType, EmptyType DEF IncludeNeeds
<1> QED
  BY <1>1 DEF TypeOK, NewlyNeeded, InsertNeeds

LEMMA InsertUserTypes ==
  ASSUME TypeOK, NEW u \in Value, NEW from \in Value
  PROVE  /\ NewUser(u, from) \subseteq Value
         /\ InsertUser(u, from) => /\ tainted_values' \subseteq Value
                                   /\ needs' \in [Value -> SUBSET Value]
BY DEF TypeOK, NewUser, InsertUser

LEMMA PtrUsagesType ==
  ASSUME NEW v \in Value
  PROVE  PtrUsages(v) \in Seq(Frame)
<1>1. v \in Pointer => Loop("ptr_usages", v, Users(v)) \in Seq(Frame)
  BY FrameTypes, RelationsOfValues, LoopType
<1> QED
  BY <1>1, EmptyType DEF PtrUsages

LEMMA PointersAreValues == Pointer \subseteq Value
BY ProgramAssumption DEF ProgramAssumption

LEMMA InfoTypes ==
  ASSUME TypeOK, NEW p \in Pointer
  PROVE  /\ InfoOf(p) \in Info
         /\ ptrs_with_this_info[InfoOf(p)] \subseteq Value
BY PointersAreValues DEF TypeOK, InfoOf, Info

\* A merge of two infos.
LEMMA MergeWithTypes ==
  ASSUME TypeOK, NEW i \in Info, NEW j \in Info, MergeWith(i, j)
  PROVE  /\ ptr_info' \in [Pointer -> Info]
         /\ merged_with' \in [Info -> Info]
         /\ ptrs_with_this_info' \in [Info -> SUBSET Pointer]
         /\ loads' \in [Info -> SUBSET Inst]
         /\ stores' \in [Info -> SUBSET Inst]
         /\ is_used_directly' \in [Info -> BOOLEAN]
<1>1. CASE i = j
  BY <1>1 DEF MergeWith, TypeOK, aliasVars, infoVars
<1>2. CASE i # j
  <2>1. ptr_info' \in [Pointer -> Info]
    BY <1>2 DEF MergeWith, TypeOK
  <2>2. merged_with' \in [Info -> Info]
    BY <1>2 DEF MergeWith, TypeOK
  <2>3. ptrs_with_this_info' \in [Info -> SUBSET Pointer]
    BY <1>2 DEF MergeWith, TypeOK
  <2>4. loads' \in [Info -> SUBSET Inst]
    BY <1>2 DEF MergeWith, TypeOK
  <2>5. stores' \in [Info -> SUBSET Inst]
    BY <1>2 DEF MergeWith, TypeOK
  <2>6. is_used_directly' \in [Info -> BOOLEAN]
    BY <1>2 DEF MergeWith, TypeOK
  <2> QED
    BY <2>1, <2>2, <2>3, <2>4, <2>5, <2>6
<1> QED
  BY <1>1, <1>2

LEMMA ReVisitTypes ==
  ASSUME TypeOK, NEW p \in Pointer, NEW q \in Pointer
  PROVE  ReVisitMerged(InfoOf(p), InfoOf(q)) \subseteq Value
BY InfoTypes DEF ReVisitMerged

-----------------------------------------------------------------------------
(* The actions keep the types.                                             *)

LEMMA InitTypes == Init => TypeOK
BY RequestAssumption DEF Init, TypeOK, Info

\* analyze().
LEMMA AnalyzeTypes ==
  ASSUME TypeOK,
         \/ \E v \in Value : AnalyzeValue(v) \/ AnalyzeCfg(v)
         \/ AnalyzedValue \/ AnalyzedCfg \/ NextRound
  PROVE  TypeOK'
<1>1. ASSUME NEW v \in Value, AnalyzeValue(v) PROVE TypeOK'
  <2>1. Loop("include", v, {v}) \in Seq(Frame) /\ Invoke("requested_value", v) \in Seq(Frame)
    BY FrameTypes, LoopType, InvokeType
  <2>2. call_stack' \in Seq(Frame)
    BY <1>1, <2>1, ConcatType DEF AnalyzeValue
  <2> QED
    BY <1>1, <2>2 DEF AnalyzeValue, TypeOK, funcVars, aliasVars, infoVars
<1>2. ASSUME NEW v \in Value, AnalyzeCfg(v) PROVE TypeOK'
  <2>1. v \in Inst
    BY <1>2 DEF AnalyzeCfg, TypeOK
  <2>2. Loop("include", v, {v}) \in Seq(Frame) /\ Invoke("requested_cfg", v) \in Seq(Frame)
    BY <2>1, FrameTypes, LoopType, InvokeType
  <2>3. call_stack' \in Seq(Frame)
    BY <1>2, <2>2, ConcatType DEF AnalyzeCfg
  <2> QED
    BY <1>2, <2>3 DEF AnalyzeCfg, TypeOK, funcVars, aliasVars, infoVars
<1>3. ASSUME AnalyzedValue PROVE TypeOK'
  <2>1. Current \in Frame /\ Callers \in Seq(Frame)
    BY <1>3, RunningTypes DEF AnalyzedValue, TypeOK
  <2>2. Current.subject \in Inst => ParentOf[Current.subject] \in Function
    BY KindsOfValues
  <2>3. visited' \subseteq Value /\ include_all_callsites' \subseteq Function
    BY <1>3, <2>2 DEF AnalyzedValue, TypeOK
  <2> QED
    BY <1>3, <2>1, <2>3
       DEF AnalyzedValue, TypeOK, requestVars, valueVars, aliasVars, infoVars
<1>4. ASSUME AnalyzedCfg PROVE TypeOK'
  <2>1. Current \in Frame /\ Callers \in Seq(Frame) /\ Current.op = "requested_cfg"
    BY <1>4, RunningTypes DEF AnalyzedCfg, TypeOK
  <2>2. Current.subject \in Inst
    BY <2>1, FrameCases
  <2>3. visited' \subseteq Value /\ include_all_callsites' \subseteq Function
    BY <1>4, <2>2, KindsOfValues DEF AnalyzedCfg, TypeOK
  <2> QED
    BY <1>4, <2>1, <2>3
       DEF AnalyzedCfg, TypeOK, requestVars, valueVars, aliasVars, infoVars
<1>5. ASSUME NextRound PROVE TypeOK'
  BY <1>5 DEF NextRound, TypeOK, requestVars, valueVars, funcVars, aliasVars, infoVars
<1> QED
  BY <1>1, <1>2, <1>3, <1>4, <1>5

\* include_value_in_precompute and insert_function_to_include.
LEMMA IncludeTypes ==
  ASSUME TypeOK, NEW v \in Value,
         IncludeAgain(v) \/ IncludeValue(v) \/ IncludeFunctionCallsite(v)
  PROVE  TypeOK'
<1>1. ASSUME IncludeAgain(v) PROVE TypeOK'
  <2>1. call_stack' \in Seq(Frame)
    BY <1>1, RunningTypes DEF IncludeAgain, TypeOK
  <2> QED
    BY <1>1, <2>1
       DEF IncludeAgain, TypeOK, requestVars, valueVars, funcVars, aliasVars, infoVars
<1>2. ASSUME IncludeValue(v) PROVE TypeOK'
  <2>1. RestOfLoop(v) \in Seq(Frame)
    BY <1>2, RunningTypes DEF IncludeValue, TypeOK
  <2>2. Terminators(v) \subseteq Value /\ FunctionToInclude(v) \subseteq Function
    BY RelationsOfValues, KindsOfValues DEF FunctionToInclude
  <2>3. Loop("include", v, Terminators(v)) \in Seq(Frame)
    BY <2>2, FrameTypes, LoopType
  <2>4. Loop("include", v, needs[v]) \in Seq(Frame)
    BY FrameTypes, LoopType DEF TypeOK
  <2>5. (IF FunctionToInclude(v) = {} THEN <<>> ELSE TaintCallsites(ParentOf[v]))
          \in Seq(Frame)
    <3>1. CASE FunctionToInclude(v) = {}
      BY <3>1, EmptyType
    <3>2. CASE FunctionToInclude(v) # {}
      <4>1. ParentOf[v] \in Function
        BY <3>2, KindsOfValues, RelationsOfValues DEF FunctionToInclude
      <4>2. TaintCallsites(ParentOf[v]) \in Seq(Frame)
        BY <4>1, FrameTypes, RelationsOfValues, LoopType DEF TaintCallsites
      <4> QED
        BY <3>2, <4>2
    <3> QED
      BY <3>1, <3>2
  <2>6. call_stack' \in Seq(Frame)
    BY <1>2, <2>1, <2>3, <2>4, <2>5, Concat4Type DEF IncludeValue
  <2>7. include_in_precompute' \subseteq Function
    BY <1>2, <2>2 DEF IncludeValue, TypeOK
  <2> QED
    BY <1>2, <2>2, <2>6, <2>7
       DEF IncludeValue, TypeOK, requestVars, aliasVars, infoVars
<1>3. ASSUME IncludeFunctionCallsite(v) PROVE TypeOK'
  <2> DEFINE parent == ParentOf[v]
  <2>1. RestOfLoop(v) \in Seq(Frame) /\ Current \in Frame /\ Current.op = "callsites"
    BY <1>3, RunningTypes DEF IncludeFunctionCallsite, TypeOK
  <2>2. v \in Call
    BY <1>3, <2>1, FrameCases DEF IncludeFunctionCallsite
  <2>3. parent \in Function
    BY <2>2, KindsOfValues
  <2>4. TaintCallsites(parent) \in Seq(Frame)
    BY <2>3, FrameTypes, RelationsOfValues, LoopType DEF TaintCallsites
  <2>5. Loop("include", v, {v}) \in Seq(Frame)
    BY FrameTypes, LoopType
  <2>6. (IF parent \in include_in_precompute THEN <<>> ELSE TaintCallsites(parent))
          \in Seq(Frame)
    BY <2>4, EmptyType
  <2>7. call_stack' \in Seq(Frame)
    <3>1. (IF parent \in include_in_precompute THEN <<>> ELSE TaintCallsites(parent))
            \o Loop("include", v, {v}) \o RestOfLoop(v) \in Seq(Frame)
      BY <2>1, <2>5, <2>6, Concat3Type
    <3>2. CASE Current.subject \in include_all_callsites
      BY <1>3, <3>1, <3>2 DEF IncludeFunctionCallsite
    <3>3. CASE Current.subject \notin include_all_callsites
      BY <1>3, <2>1, <3>3 DEF IncludeFunctionCallsite
    <3> QED
      BY <3>2, <3>3
  <2>8. /\ include_in_precompute' \subseteq Function
        /\ include_all_callsites' \subseteq Function
    BY <1>3, <2>3 DEF IncludeFunctionCallsite, TypeOK, funcVars
  <2> QED
    BY <1>3, <2>7, <2>8
       DEF IncludeFunctionCallsite, TypeOK, requestVars, aliasVars, infoVars
<1> QED
  BY <1>1, <1>2, <1>3

\* find_all_tainted_vals and visit_val of values that need no call of their own.
LEMMA VisitTypes ==
  ASSUME TypeOK, NEW v \in Value,
         \/ VisitOperands(v) \/ VisitStoreValue(v) \/ VisitPhi(v)
         \/ VisitSelect(v) \/ VisitArg(v)
  PROVE  TypeOK'
<1>1. ASSUME VisitOperands(v) PROVE TypeOK'
  <2>1. Operands[v] \in SUBSET Value
    BY RelationsOfValues
  <2>2. call_stack' \in Seq(Frame)
    BY <1>1, <2>1, InsertNeedsTypes, PtrUsagesType, ConcatType DEF VisitOperands
  <2>3. /\ tainted_values' \subseteq Value
        /\ needs' \in [Value -> SUBSET Value]
        /\ visited' \subseteq Value
    BY <1>1, <2>1, InsertNeedsTypes DEF VisitOperands, TypeOK
  <2> QED
    BY <1>1, <2>2, <2>3
       DEF VisitOperands, Visit, TypeOK, requestVars, funcVars, aliasVars, infoVars
<1>2. ASSUME VisitStoreValue(v) PROVE TypeOK'
  <2>1. v \in OfKind("store")
    BY <1>2 DEF VisitStoreValue, Visit, OfKind
  <2>2. call_stack' \in Seq(Frame)
    BY <1>2, <2>1, FrameTypes, InvokeType DEF VisitStoreValue
  <2> QED
    BY <1>2, <2>2 DEF VisitStoreValue, Visit, TypeOK, requestVars, valueVars,
       funcVars, aliasVars, infoVars
<1>3. ASSUME VisitPhi(v) PROVE TypeOK'
  <2>1. v \in OfKind("phi")
    BY <1>3 DEF VisitPhi, Visit, OfKind
  <2>2. call_stack' \in Seq(Frame)
    BY <1>3, <2>1, RelationsOfValues, FrameTypes, LoopType DEF VisitPhi
  <2> QED
    BY <1>3, <2>2 DEF VisitPhi, Visit, TypeOK, requestVars, valueVars,
       funcVars, aliasVars, infoVars
<1>4. ASSUME VisitSelect(v) PROVE TypeOK'
  <2>1. Operands[v] \in SUBSET Value
    BY RelationsOfValues
  <2>2. call_stack' \in Seq(Frame)
    BY <1>4, <2>1, InsertNeedsTypes, PtrUsagesType, ConcatType DEF VisitSelect
  <2>3. /\ tainted_values' \subseteq Value
        /\ needs' \in [Value -> SUBSET Value]
        /\ visited' \subseteq Value
    BY <1>4, <2>1, InsertNeedsTypes DEF VisitSelect, TypeOK
  <2>4. /\ ptr_info' \in [Pointer -> Info]
        /\ ptrs_with_this_info' \in [Info -> SUBSET Pointer]
    <3>1. CASE v \in Pointer
      <4>1. ptr_info[v] \in Info /\ SelectedBy(v) \subseteq Pointer
        BY <3>1 DEF TypeOK, SelectedBy
      <4>2. ptr_info' \in [Pointer -> Info]
        BY <1>4, <3>1, <4>1 DEF VisitSelect, TypeOK
      <4>3. ptrs_with_this_info' \in [Info -> SUBSET Pointer]
        BY <1>4, <3>1, <4>1 DEF VisitSelect, TypeOK
      <4> QED
        BY <4>2, <4>3
    <3>2. CASE v \notin Pointer
      BY <1>4, <3>2 DEF VisitSelect, TypeOK
    <3> QED
      BY <3>1, <3>2
  <2> QED
    BY <1>4, <2>2, <2>3, <2>4
       DEF VisitSelect, Visit, TypeOK, requestVars, funcVars, infoVars
<1>5. ASSUME VisitArg(v) PROVE TypeOK'
  <2>1. v \in OfKind("arg")
    BY <1>5 DEF VisitArg, Visit, OfKind
  <2>2. ParentOf[v] \in Function
    BY <2>1, KindsOfValues
  <2>3. Loop("visit_arg", v, Callsites(ParentOf[v])) \in Seq(Frame)
    BY <2>1, <2>2, RelationsOfValues, FrameTypes, LoopType
  <2>4. (IF v \in args_to_use THEN <<>>
         ELSE Loop("visit_arg", v, Callsites(ParentOf[v]))) \in Seq(Frame)
    BY <2>3, EmptyType
  <2>5. call_stack' \in Seq(Frame)
    BY <1>5, <2>4, PtrUsagesType, ConcatType DEF VisitArg
  <2> QED
    BY <1>5, <2>5 DEF VisitArg, Visit, TypeOK, requestVars, valueVars,
       funcVars, aliasVars, infoVars
<1> QED
  BY <1>1, <1>2, <1>3, <1>4, <1>5

\* Loads and stores.
LEMMA MemoryTypes ==
  ASSUME TypeOK,
         VisitStore \/ \E v \in Value : VisitLoad(v)
  PROVE  TypeOK'
<1>1. ASSUME NEW v \in Value, VisitLoad(v) PROVE TypeOK'
  <2> DEFINE p == PtrOperand[v]
             i == InfoOf(p)
  <2>1. v \in OfKind("load") /\ v \in Inst
    BY <1>1, KindsOfValues DEF VisitLoad, Visit, OfKind
  <2>2. p \in Pointer /\ p \in Value
    BY <2>1, PointersAreValues, ProgramAssumption DEF ProgramAssumption
  <2>3. i \in Info /\ ptrs_with_this_info[i] \subseteq Value
    BY <2>2, InfoTypes
  <2>4. TransitiveInsts[v] \subseteq Inst
    BY <2>1, RelationsOfValues
  <2>5. /\ NewlyNeeded(v, {p}) \subseteq {p}
        /\ IncludeNeeds(v, {p}) \in Seq(Frame)
        /\ InsertNeeds(v, {p}) => /\ tainted_values' \subseteq Value
                                  /\ needs' \in [Value -> SUBSET Value]
    BY <2>2, InsertNeedsTypes
  <2> HIDE DEF i
  <2>6. loads' \in [Info -> SUBSET Inst]
    BY <1>1, <2>3, <2>4 DEF VisitLoad, TypeOK, i
  <2>7. is_used_directly' \in [Info -> BOOLEAN]
    BY <1>1, <2>3 DEF VisitLoad, TypeOK, i
  <2>8. visited' \subseteq Value
    BY <1>1 DEF VisitLoad, TypeOK
  <2> QED
    BY <1>1, <2>5, <2>6, <2>7, <2>8
       DEF VisitLoad, Visit, TypeOK, requestVars, funcVars, aliasVars
<1>2. ASSUME VisitStore PROVE TypeOK'
  <2> DEFINE s == Current.subject
             p == PtrOperand[s]
             i == InfoOf(p)
             f == ParentOf[s]
             important == IsStoreImportant(s, i)
             inserted == IF important THEN Operands[s] ELSE {p}
  <2>1. Current \in Frame /\ Callers \in Seq(Frame) /\ Current.op = "visit_store"
    BY <1>2, RunningTypes DEF VisitStore, TypeOK
  <2>2. s \in OfKind("store") /\ s \in Inst /\ s \in Value /\ f \in Function
    BY <2>1, FrameCases, KindsOfValues
  <2>3. p \in Pointer /\ p \in Value
    BY <2>2, PointersAreValues, ProgramAssumption DEF ProgramAssumption
  <2>4. i \in Info
    BY <2>3, InfoTypes
  <2>5. TransitiveInsts[s] \subseteq Inst /\ Operands[s] \subseteq Value
    BY <2>2, RelationsOfValues
  <2>6. inserted \in SUBSET Value
    BY <2>3, <2>5
  <2>7. InsertNeeds(s, inserted) => /\ tainted_values' \subseteq Value
                                    /\ needs' \in [Value -> SUBSET Value]
    BY <2>2, <2>6, InsertNeedsTypes
  <2>8. IncludeNeeds(s, {p}) \in Seq(Frame)
    BY <2>2, <2>3, InsertNeedsTypes
  <2>9. /\ Loop("include", s, Operands[s] \ {p}) \in Seq(Frame)
        /\ Loop("include", s, {s}) \in Seq(Frame)
        /\ Loop("include", s, {p}) \in Seq(Frame)
    BY <2>2, <2>3, <2>5, FrameTypes, LoopType
  <2>10. Loop("include", s, Operands[s] \ {p}) \o Loop("include", s, {s})
           \o Loop("include", s, {p}) \in Seq(Frame)
    BY <2>9, Concat3Type
  <2>11. (IF important
          THEN Loop("include", s, Operands[s] \ {p}) \o Loop("include", s, {s})
               \o Loop("include", s, {p})
          ELSE <<>>) \in Seq(Frame)
    BY <2>10, EmptyType
  <2> HIDE DEF i, f, inserted, important, p, s
  <2>12. call_stack' \in Seq(Frame)
    <3>1. call_stack' =
            IncludeNeeds(s, {p})
            \o (IF important
                THEN Loop("include", s, Operands[s] \ {p}) \o Loop("include", s, {s})
                     \o Loop("include", s, {p})
                ELSE <<>>)
            \o Callers
      BY <1>2 DEF VisitStore, i, important, p, s
    <3> QED
      BY <2>1, <2>8, <2>11, <3>1, Concat3Type
  <2>13. stores' \in [Info -> SUBSET Inst]
    <3>1. stores' = [stores EXCEPT ![i] = @ \cup TransitiveInsts[s]]
      BY <1>2 DEF VisitStore, i, p, s
    <3> QED
      BY <2>4, <2>5, <3>1 DEF TypeOK
  <2>14. is_used_directly' \in [Info -> BOOLEAN]
    BY <1>2, <2>4 DEF VisitStore, TypeOK, i, p, s
  <2>15. ptr_written' \in [Function -> SUBSET Info]
    <3>1. \/ ptr_written' = [ptr_written EXCEPT ![f] = @ \cup {i}]
          \/ ptr_written' = ptr_written
      BY <1>2 DEF VisitStore, i, f, p, s
    <3> QED
      BY <2>2, <2>4, <3>1 DEF TypeOK
  <2>16. visited' \subseteq Value
    <3>1. visited' \subseteq visited \cup {s}
      BY <1>2 DEF VisitStore, s
    <3> QED
      BY <2>2, <3>1 DEF TypeOK
  <2>17. /\ tainted_values' \subseteq Value
         /\ needs' \in [Value -> SUBSET Value]
    BY <1>2, <2>7 DEF VisitStore, i, inserted, important, p, s
  <2> QED
    BY <1>2, <2>12, <2>13, <2>14, <2>15, <2>16, <2>17
       DEF VisitStore, TypeOK, requestVars, funcVars, aliasVars
<1> QED
  BY <1>1, <1>2

\* The incoming values of a phi and the call sites of an argument or a
\* returned pointer: v is the next one.
LEMMA LoopBodyTypes ==
  ASSUME TypeOK, NEW v \in Value,
         VisitPhiIncoming(v) \/ VisitArgCallsite(v) \/ PtrRetCallsite(v)
  PROVE  TypeOK'
<1>1. ASSUME VisitPhiIncoming(v) PROVE TypeOK'
  <2> DEFINE phi == Current.subject
             last == Current.rest = {v}
  <2>1. Current \in Frame /\ Current.op = "visit_phi" /\ RestOfLoop(v) \in Seq(Frame)
    BY <1>1, RunningTypes DEF VisitPhiIncoming, TypeOK
  <2>2. phi \in OfKind("phi") /\ v \in Operands[phi]
    BY <1>1, <2>1, FrameCases DEF VisitPhiIncoming
  <2>3. phi \in Value
    BY <2>2 DEF OfKind
  <2>4. phi \in Pointer => v \in Pointer
    BY <2>2, ProgramAssumption DEF ProgramAssumption
  <2>5. /\ IncludeNeeds(phi, {v}) \in Seq(Frame)
        /\ InsertNeeds(phi, {v}) => /\ tainted_values' \subseteq Value
                                    /\ needs' \in [Value -> SUBSET Value]
    BY <2>3, InsertNeedsTypes
  <2>6. (IF last THEN PtrUsages(phi) ELSE <<>>) \in Seq(Frame)
    BY <2>3, PtrUsagesType, EmptyType
  <2> HIDE DEF phi, last
  <2>7. call_stack' \in Seq(Frame)
    <3>1. call_stack' = IncludeNeeds(phi, {v}) \o RestOfLoop(v)
                        \o (IF last THEN PtrUsages(phi) ELSE <<>>)
      BY <1>1 DEF VisitPhiIncoming, phi, last
    <3> QED
      BY <2>1, <2>5, <2>6, <3>1, Concat3Type
  <2>8. visited' \subseteq Value
    <3>1. visited' \subseteq visited \cup {phi}
      BY <1>1 DEF VisitPhiIncoming, phi
    <3> QED
      BY <2>3, <3>1 DEF TypeOK
  <2>9. /\ ptr_info' \in [Pointer -> Info]
        /\ merged_with' \in [Info -> Info]
        /\ ptrs_with_this_info' \in [Info -> SUBSET Pointer]
        /\ loads' \in [Info -> SUBSET Inst]
        /\ stores' \in [Info -> SUBSET Inst]
        /\ is_used_directly' \in [Info -> BOOLEAN]
    <3>1. CASE phi \in Pointer
      BY <1>1, <2>4, <3>1, InfoTypes, MergeWithTypes DEF VisitPhiIncoming, phi
    <3>2. CASE phi \notin Pointer
      BY <1>1, <3>2 DEF VisitPhiIncoming, phi, TypeOK, aliasVars, infoVars
    <3> QED
      BY <3>1, <3>2
  <2>10. /\ tainted_values' \subseteq Value
         /\ needs' \in [Value -> SUBSET Value]
    BY <1>1, <2>5 DEF VisitPhiIncoming, phi
  <2> QED
    BY <1>1, <2>7, <2>8, <2>9, <2>10
       DEF VisitPhiIncoming, TypeOK, requestVars, funcVars
<1>2. ASSUME VisitArgCallsite(v) PROVE TypeOK'
  <2> DEFINE a == Current.subject
             x == ArgOperand[v][a]
  <2>1. Current \in Frame /\ Current.op = "visit_arg" /\ RestOfLoop(v) \in Seq(Frame)
    BY <1>2, RunningTypes DEF VisitArgCallsite, TypeOK
  <2>2. a \in OfKind("arg") /\ v \in Callsites(ParentOf[a])
    BY <1>2, <2>1, FrameCases DEF VisitArgCallsite
  <2>3. a \in Value /\ v \in Call /\ ParentOf[a] = CalledFunction[v]
    BY <2>2 DEF OfKind, Callsites
  <2>4. x \in Operands[v] /\ (a \in Pointer => x \in Pointer)
    BY <2>2, <2>3, ProgramAssumption DEF ProgramAssumption
  <2>5. x \in Value
    BY <2>4, RelationsOfValues
  <2>6. /\ IncludeNeeds(a, {x}) \in Seq(Frame)
        /\ InsertNeeds(a, {x}) => /\ tainted_values' \subseteq Value
                                  /\ needs' \in [Value -> SUBSET Value]
    BY <2>3, <2>5, InsertNeedsTypes
  <2> HIDE DEF a, x
  <2>7. call_stack' \in Seq(Frame)
    BY <1>2, <2>1, <2>6, ConcatType DEF VisitArgCallsite, a, x
  <2>8. visited' \subseteq Value
    BY <1>2 DEF VisitArgCallsite, TypeOK
  <2>9. /\ ptr_info' \in [Pointer -> Info]
        /\ merged_with' \in [Info -> Info]
        /\ ptrs_with_this_info' \in [Info -> SUBSET Pointer]
        /\ loads' \in [Info -> SUBSET Inst]
        /\ stores' \in [Info -> SUBSET Inst]
        /\ is_used_directly' \in [Info -> BOOLEAN]
    <3>1. CASE a \in Pointer
      BY <1>2, <2>4, <3>1, InfoTypes, MergeWithTypes DEF VisitArgCallsite, a, x
    <3>2. CASE a \notin Pointer
      BY <1>2, <3>2 DEF VisitArgCallsite, a, TypeOK, aliasVars, infoVars
    <3> QED
      BY <3>1, <3>2
  <2>10. /\ tainted_values' \subseteq Value
         /\ needs' \in [Value -> SUBSET Value]
    BY <1>2, <2>6 DEF VisitArgCallsite, a, x
  <2> QED
    BY <1>2, <2>7, <2>8, <2>9, <2>10
       DEF VisitArgCallsite, TypeOK, requestVars, funcVars
<1>3. ASSUME PtrRetCallsite(v) PROVE TypeOK'
  <2> DEFINE p == Current.subject
  <2>1. Current \in Frame /\ Current.op = "ptr_ret" /\ RestOfLoop(v) \in Seq(Frame)
    BY <1>3, RunningTypes DEF PtrRetCallsite, TypeOK
  <2>2. p \in Pointer /\ v \in Pointer
    BY <1>3, <2>1, FrameCases DEF PtrRetCallsite
  <2>3. p \in Value
    BY <2>2, PointersAreValues
  <2>4. /\ IncludeNeeds(p, {v}) \in Seq(Frame)
        /\ InsertNeeds(p, {v}) => /\ tainted_values' \subseteq Value
                                  /\ needs' \in [Value -> SUBSET Value]
    BY <2>3, InsertNeedsTypes
  <2>5. call_stack' \in Seq(Frame)
    BY <1>3, <2>1, <2>4, ConcatType DEF PtrRetCallsite
  <2>6. visited' \subseteq Value
    BY <1>3 DEF PtrRetCallsite, TypeOK
  <2>7. /\ ptr_info' \in [Pointer -> Info]
        /\ merged_with' \in [Info -> Info]
        /\ ptrs_with_this_info' \in [Info -> SUBSET Pointer]
        /\ loads' \in [Info -> SUBSET Inst]
        /\ stores' \in [Info -> SUBSET Inst]
        /\ is_used_directly' \in [Info -> BOOLEAN]
    BY <1>3, <2>2, InfoTypes, MergeWithTypes DEF PtrRetCallsite
  <2> QED
    BY <1>3, <2>4, <2>5, <2>6, <2>7
       DEF PtrRetCallsite, TypeOK, requestVars, funcVars
<1> QED
  BY <1>1, <1>2, <1>3

\* Calls.
LEMMA CallTypes ==
  ASSUME TypeOK,
         CheckCall \/ \E c \in Value : VisitCall(c)
  PROVE  TypeOK'
<1>1. ASSUME NEW c \in Value, VisitCall(c) PROVE TypeOK'
  <2> DEFINE rets == IF IsRetvalNeeded(c) THEN ReturnsOf(CalledFunction[c]) ELSE {}
  <2>1. c \in Call
    BY <1>1 DEF VisitCall, Visit, Call, OfKind
  <2>2. CalledFunction[c] \in Function
    BY <2>1, ProgramAssumption DEF ProgramAssumption
  <2>3. rets \in SUBSET Value
    BY <2>2, RelationsOfValues
  <2>4. /\ IncludeNeeds(c, rets) \in Seq(Frame)
        /\ InsertNeeds(c, rets) => /\ tainted_values' \subseteq Value
                                   /\ needs' \in [Value -> SUBSET Value]
    BY <2>3, InsertNeedsTypes
  <2>5. Invoke("check_call", c) \in Seq(Frame)
    BY <2>1, FrameTypes, InvokeType
  <2> HIDE DEF rets
  <2>6. call_stack' \in Seq(Frame)
    BY <1>1, <2>4, <2>5, PtrUsagesType, Concat3Type DEF VisitCall, rets
  <2>7. visited' \subseteq Value
    BY <1>1 DEF VisitCall, TypeOK
  <2>8. /\ tainted_values' \subseteq Value
        /\ needs' \in [Value -> SUBSET Value]
    BY <1>1, <2>4 DEF VisitCall, rets
  <2> QED
    BY <1>1, <2>6, <2>7, <2>8
       DEF VisitCall, Visit, TypeOK, requestVars, funcVars, aliasVars, infoVars
<1>2. ASSUME CheckCall PROVE TypeOK'
  <2> DEFINE c == Current.subject
             isNeeded == c \notin included /\ ShouldCallBeIncluded(c)
  <2>1. Current \in Frame /\ Current.op = "check_call" /\ Callers \in Seq(Frame)
    BY <1>2, RunningTypes DEF CheckCall, TypeOK
  <2>2. c \in Call
    BY <2>1, FrameCases
  <2>3. c \in Value /\ ParentOf[c] \in Function
    BY <2>2, KindsOfValues
  <2>4. (IF isNeeded THEN Loop("include", c, {c}) ELSE <<>>) \in Seq(Frame)
    BY <2>3, FrameTypes, LoopType, EmptyType
  <2> HIDE DEF c, isNeeded
  <2>5. call_stack' = (IF isNeeded THEN Loop("include", c, {c}) ELSE <<>>) \o Callers
    BY <1>2 DEF CheckCall, c, isNeeded
  <2>6. call_stack' \in Seq(Frame)
    BY <2>1, <2>4, <2>5, ConcatType
  <2>7. include_all_callsites' \subseteq include_all_callsites \cup {ParentOf[c]}
    BY <1>2 DEF CheckCall, c
  <2>8. include_all_callsites' \subseteq Function
    BY <2>3, <2>7 DEF TypeOK
  <2> QED
    BY <1>2, <2>6, <2>8
       DEF CheckCall, TypeOK, requestVars, valueVars, aliasVars, infoVars
<1> QED
  BY <1>1, <1>2

\* One user u of a pointer in visit_ptr_usages, or an argument that gets it.
LEMMA PtrUsageTypes ==
  ASSUME TypeOK, NEW u \in Value,
         \/ PtrUsedPlainly(u) \/ PtrStore(u) \/ PtrPhi(u) \/ PtrSelect(u)
         \/ VisitCallFromPtr(u) \/ PtrRet(u) \/ PtrArg(u)
  PROVE  TypeOK'
<1> DEFINE p == Current.subject
<1>1. ASSUME NEW kinds, UsedBy(u, kinds)
      PROVE  /\ p \in Pointer /\ p \in Value
             /\ u \in Users(p) /\ Kind[u] \in kinds
             /\ RestOfLoop(u) \in Seq(Frame)
  <2>1. Current \in Frame /\ Current.op = "ptr_usages" /\ RestOfLoop(u) \in Seq(Frame)
    BY <1>1, RunningTypes DEF UsedBy, TypeOK
  <2> QED
    BY <1>1, <2>1, FrameCases, PointersAreValues DEF UsedBy
<1>2. ASSUME PtrUsedPlainly(u) PROVE TypeOK'
  <2>1. call_stack' \in Seq(Frame)
    BY <1>1, <1>2 DEF PtrUsedPlainly
  <2> QED
    BY <1>2, <2>1 DEF PtrUsedPlainly, TypeOK, requestVars, valueVars, funcVars,
       aliasVars, infoVars
<1>3. ASSUME PtrStore(u) PROVE TypeOK'
  <2>1. /\ p \in Value /\ Kind[u] = "store" /\ RestOfLoop(u) \in Seq(Frame)
    BY <1>1, <1>3 DEF PtrStore
  <2>2. call_stack' \in Seq(Frame)
    <3>1. Invoke("visit_store", u) \in Seq(Frame)
      BY <2>1, FrameTypes, InvokeType DEF OfKind
    <3> QED
      BY <1>3, <2>1, <3>1, ConcatType DEF PtrStore
  <2>3. /\ tainted_values' \subseteq Value
        /\ needs' \in [Value -> SUBSET Value]
    BY <1>3, <2>1, InsertUserTypes DEF PtrStore
  <2> QED
    BY <1>3, <2>2, <2>3 DEF PtrStore, TypeOK, requestVars, funcVars, aliasVars, infoVars
<1>4. ASSUME PtrPhi(u) PROVE TypeOK'
  <2>1. p \in Value /\ RestOfLoop(u) \in Seq(Frame)
    BY <1>1, <1>4 DEF PtrPhi
  <2>2. /\ tainted_values' \subseteq Value
        /\ needs' \in [Value -> SUBSET Value]
    BY <1>4, <2>1, InsertUserTypes DEF PtrPhi
  <2> QED
    BY <1>4, <2>1, <2>2 DEF PtrPhi, TypeOK, requestVars, funcVars, aliasVars, infoVars
<1>5. ASSUME PtrSelect(u) PROVE TypeOK'
  <2>1. /\ p \in Value /\ p \in Pointer /\ u \in Users(p) /\ Kind[u] = "select"
        /\ RestOfLoop(u) \in Seq(Frame)
    BY <1>1, <1>5 DEF PtrSelect
  <2>2. u \in Pointer
    BY <2>1, ProgramAssumption DEF ProgramAssumption, Users, OfKind
  <2>3. /\ tainted_values' \subseteq Value
        /\ needs' \in [Value -> SUBSET Value]
    BY <1>5, <2>1, InsertUserTypes DEF PtrSelect
  <2>4. /\ ptr_info' \in [Pointer -> Info]
        /\ merged_with' \in [Info -> Info]
        /\ ptrs_with_this_info' \in [Info -> SUBSET Pointer]
        /\ loads' \in [Info -> SUBSET Inst]
        /\ stores' \in [Info -> SUBSET Inst]
        /\ is_used_directly' \in [Info -> BOOLEAN]
    BY <1>5, <2>1, <2>2, InfoTypes, MergeWithTypes DEF PtrSelect
  <2> QED
    BY <1>5, <2>1, <2>3, <2>4 DEF PtrSelect, TypeOK, requestVars, funcVars
<1>6. ASSUME VisitCallFromPtr(u) PROVE TypeOK'
  <2>1. /\ p \in Value /\ p \in Pointer /\ Kind[u] = "call"
        /\ RestOfLoop(u) \in Seq(Frame)
    BY <1>1, <1>6 DEF VisitCallFromPtr
  <2>2. ArgsGetting(u, p) \subseteq OfKind("arg") \cap Pointer
    BY <2>1, ProgramAssumption
       DEF ProgramAssumption, ArgsGetting, FormalArgs, Call, OfKind
  <2>3. Loop("ptr_args", p, ArgsGetting(u, p)) \in Seq(Frame)
    BY <2>1, <2>2, FrameTypes, LoopType
  <2>4. call_stack' \in Seq(Frame)
    BY <1>6, <2>1, <2>3, ConcatType DEF VisitCallFromPtr
  <2>5. /\ tainted_values' \subseteq Value
        /\ needs' \in [Value -> SUBSET Value]
    <3>1. InsertUser(u, p) \/ UNCHANGED valueVars
      BY <1>6 DEF VisitCallFromPtr
    <3> QED
      BY <2>1, <3>1, InsertUserTypes DEF valueVars, TypeOK
  <2>6. visited' \subseteq Value
    BY <1>6 DEF VisitCallFromPtr, TypeOK
  <2> QED
    BY <1>6, <2>4, <2>5, <2>6
       DEF VisitCallFromPtr, TypeOK, requestVars, funcVars, aliasVars, infoVars
<1>7. ASSUME PtrRet(u) PROVE TypeOK'
  <2>1. /\ p \in Pointer /\ u \in Users(p) /\ Kind[u] = "ret"
        /\ RestOfLoop(u) \in Seq(Frame)
    BY <1>1, <1>7 DEF PtrRet
  <2>2. Callsites(ParentOf[u]) \subseteq Call \cap Pointer
    BY <2>1, ProgramAssumption DEF ProgramAssumption, Callsites, Users, OfKind
  <2>3. Loop("ptr_ret", p, Callsites(ParentOf[u])) \in Seq(Frame)
    BY <2>1, <2>2, FrameTypes, LoopType
  <2>4. call_stack' \in Seq(Frame)
    BY <1>7, <2>1, <2>3, ConcatType DEF PtrRet
  <2> QED
    BY <1>7, <2>4
       DEF PtrRet, TypeOK, requestVars, valueVars, funcVars, aliasVars, infoVars
<1>8. ASSUME PtrArg(u) PROVE TypeOK'
  <2>1. Current \in Frame /\ Current.op = "ptr_args" /\ RestOfLoop(u) \in Seq(Frame)
    BY <1>8, RunningTypes DEF PtrArg, TypeOK
  <2>2. p \in Pointer /\ u \in Pointer /\ p \in Value
    BY <1>8, <2>1, FrameCases, PointersAreValues DEF PtrArg
  <2>3. /\ tainted_values' \subseteq Value
        /\ needs' \in [Value -> SUBSET Value]
    BY <1>8, <2>2, InsertUserTypes DEF PtrArg
  <2>4. /\ ptr_info' \in [Pointer -> Info]
        /\ merged_with' \in [Info -> Info]
        /\ ptrs_with_this_info' \in [Info -> SUBSET Pointer]
        /\ loads' \in [Info -> SUBSET Inst]
        /\ stores' \in [Info -> SUBSET Inst]
        /\ is_used_directly' \in [Info -> BOOLEAN]
    BY <1>8, <2>2, InfoTypes, MergeWithTypes DEF PtrArg
  <2> QED
    BY <1>8, <2>1, <2>3, <2>4 DEF PtrArg, TypeOK, requestVars, funcVars
<1> QED
  BY <1>2, <1>3, <1>4, <1>5, <1>6, <1>7, <1>8

\* Every call in progress, edge, info and function record of the analysis is
\* well-formed, whatever the program and the requests: an info belongs to a
\* pointer, a loop over users, call sites or incoming values only sees those.
THEOREM TypeCorrect == Spec => []TypeOK
<1>1. Init => TypeOK
  BY InitTypes
<1>2. TypeOK /\ [Next]_vars => TypeOK'
  <2> SUFFICES ASSUME TypeOK, [Next]_vars
               PROVE  TypeOK'
    OBVIOUS
  <2>1. CASE Next
    BY <2>1, AnalyzeTypes, IncludeTypes, VisitTypes, MemoryTypes, LoopBodyTypes,
       CallTypes, PtrUsageTypes DEF Next
  <2>2. CASE UNCHANGED vars
    BY <2>2 DEF TypeOK, vars, requestVars, valueVars, funcVars, aliasVars, infoVars
  <2> QED
    BY <2>1, <2>2
<1> QED
  BY <1>1, <1>2, PTL DEF Spec

=============================================================================
