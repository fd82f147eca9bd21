--------------------- MODULE PrecalculationSlice_proofs ---------------------
(***************************************************************************)
(* Theorems about the promises of PrecalculationSlice for every program.   *)
(***************************************************************************)
EXTENDS PrecalculationAnalysis_proofs

-----------------------------------------------------------------------------
(* References between pointers and infos.                                  *)

LEMMA MergeKeepsReferences ==
  ASSUME TypeOK, ReferencesAreValid, NEW p \in Pointer, NEW q \in Pointer,
         MergeWith(InfoOf(p), InfoOf(q))
  PROVE  ReferencesAreValid'
<1> DEFINE i == InfoOf(p)
           j == InfoOf(q)
<1>1. i \in Info /\ j \in Info
  BY InfoTypes
<1>2. merged_with[i] = i /\ merged_with[j] = j
  BY DEF ReferencesAreValid, TypeOK, InfoOf, Info
<1> HIDE DEF i, j
<1>3. CASE i = j
  BY <1>3 DEF MergeWith, ReferencesAreValid, aliasVars, i, j
<1>4. CASE i # j
  <2>1. /\ ptr_info' = [x \in Pointer |->
                          IF x \in ptrs_with_this_info[j] THEN i ELSE ptr_info[x]]
        /\ merged_with' = [k \in Info |->
                             IF merged_with[k] = j THEN i ELSE merged_with[k]]
        /\ ptrs_with_this_info' =
             [ptrs_with_this_info EXCEPT
                ![i] = @ \cup ptrs_with_this_info[j], ![j] = {}]
    BY <1>4 DEF MergeWith, i, j
  <2>2. ASSUME NEW x \in Pointer, x \in ptrs_with_this_info[j]
        PROVE  /\ merged_with'[ptr_info'[x]] = ptr_info'[x]
               /\ x \in ptrs_with_this_info'[ptr_info'[x]]
    BY <1>1, <1>2, <1>4, <2>1, <2>2 DEF TypeOK
  <2>3. ASSUME NEW x \in Pointer, x \notin ptrs_with_this_info[j]
        PROVE  /\ merged_with'[ptr_info'[x]] = ptr_info'[x]
               /\ x \in ptrs_with_this_info'[ptr_info'[x]]
    <3>1. /\ ptr_info[x] \in Info
          /\ merged_with[ptr_info[x]] = ptr_info[x]
          /\ x \in ptrs_with_this_info[ptr_info[x]]
          /\ ptr_info[x] # j
      BY <2>3 DEF ReferencesAreValid, TypeOK
    <3> QED
      BY <1>1, <1>4, <2>1, <2>3, <3>1 DEF TypeOK
  <2>4. ASSUME NEW k \in Info
        PROVE  merged_with'[merged_with'[k]] = merged_with'[k]
    <3>1. merged_with[k] \in Info /\ merged_with[merged_with[k]] = merged_with[k]
      BY DEF ReferencesAreValid, TypeOK
    <3> QED
      BY <1>1, <1>2, <1>4, <2>1, <3>1 DEF TypeOK
  <2> QED
    BY <2>2, <2>3, <2>4 DEF ReferencesAreValid
<1> QED
  BY <1>3, <1>4

\* The select shares its info with the pointers it chooses.
LEMMA SelectKeepsReferences ==
  ASSUME TypeOK, ReferencesAreValid, NEW v \in Value, VisitSelect(v)
  PROVE  ReferencesAreValid'
<1>1. CASE v \in Pointer
  <2> DEFINE i == ptr_info[v]
             S == SelectedBy(v)
  <2>1. /\ i \in Info
        /\ merged_with[i] = i
        /\ InfoOf(v) = i
    BY <1>1 DEF ReferencesAreValid, TypeOK, InfoOf
  <2>2. /\ ptr_info' = [p \in Pointer |-> IF p \in S THEN i ELSE ptr_info[p]]
        /\ ptrs_with_this_info' = [ptrs_with_this_info EXCEPT ![i] = @ \cup S]
        /\ merged_with' = merged_with
    BY <1>1, <2>1 DEF VisitSelect
  <2> HIDE DEF i, S
  <2> QED
    BY <2>1, <2>2 DEF ReferencesAreValid, TypeOK
<1>2. CASE v \notin Pointer
  BY <1>2 DEF VisitSelect, ReferencesAreValid
<1> QED
  BY <1>1, <1>2

\* A load or a store makes something known of the info of its pointer.
Uses(p) ==
  /\ UNCHANGED aliasVars
  /\ \E insts \in SUBSET Inst :
       \/ loads' = [loads EXCEPT ![InfoOf(p)] = @ \cup insts] /\ stores' = stores
       \/ stores' = [stores EXCEPT ![InfoOf(p)] = @ \cup insts] /\ loads' = loads
  /\ is_used_directly' = [is_used_directly EXCEPT ![InfoOf(p)] = TRUE]

\* What a step does to the infos.
LEMMA InfoSteps ==
  ASSUME TypeOK, Next
  PROVE  \/ UNCHANGED <<aliasVars, infoVars>>
         \/ \E p \in Pointer : Uses(p)
         \/ \E p, q \in Pointer : MergeWith(InfoOf(p), InfoOf(q))
         \/ \E v \in Value : VisitSelect(v)
<1> DEFINE Goal == \/ UNCHANGED <<aliasVars, infoVars>>
                   \/ \E p \in Pointer : Uses(p)
                   \/ \E p, q \in Pointer : MergeWith(InfoOf(p), InfoOf(q))
                   \/ \E v \in Value : VisitSelect(v)
<1>1. ASSUME NEW v \in Value, VisitPhiIncoming(v) PROVE Goal
  <2> DEFINE phi == Current.subject
  <2>1. Current \in Frame /\ Current.op = "visit_phi"
    BY <1>1, RunningTypes DEF VisitPhiIncoming, TypeOK
  <2>2. phi \in OfKind("phi") /\ v \in Operands[phi]
    BY <1>1, <2>1, FrameCases DEF VisitPhiIncoming
  <2>3. phi \in Pointer => v \in Pointer
    BY <2>2, ProgramAssumption DEF ProgramAssumption
  <2> QED
    BY <1>1, <2>3 DEF VisitPhiIncoming
<1>2. ASSUME NEW c \in Value, VisitArgCallsite(c) PROVE Goal
  <2> DEFINE a == Current.subject
  <2>1. Current \in Frame /\ Current.op = "visit_arg"
    BY <1>2, RunningTypes DEF VisitArgCallsite, TypeOK
  <2>2. a \in OfKind("arg") /\ c \in Callsites(ParentOf[a])
    BY <1>2, <2>1, FrameCases DEF VisitArgCallsite
  <2>3. c \in Call /\ ParentOf[a] = CalledFunction[c]
    BY <2>2 DEF Callsites
  <2>4. a \in Pointer => ArgOperand[c][a] \in Pointer
    BY <2>2, <2>3, ProgramAssumption DEF ProgramAssumption
  <2> QED
    BY <1>2, <2>4 DEF VisitArgCallsite
<1>3. ASSUME NEW c \in Value, PtrRetCallsite(c) PROVE Goal
  <2>1. Current \in Frame /\ Current.op = "ptr_ret"
    BY <1>3, RunningTypes DEF PtrRetCallsite, TypeOK
  <2>2. Current.subject \in Pointer /\ c \in Pointer
    BY <1>3, <2>1, FrameCases DEF PtrRetCallsite
  <2> QED
    BY <1>3, <2>2 DEF PtrRetCallsite
<1>4. ASSUME NEW u \in Value, PtrSelect(u) PROVE Goal
  <2>1. Current \in Frame /\ Current.op = "ptr_usages"
    BY <1>4, RunningTypes DEF PtrSelect, UsedBy, TypeOK
  <2>2. Current.subject \in Pointer /\ u \in Users(Current.subject) /\ Kind[u] = "select"
    BY <1>4, <2>1, FrameCases DEF PtrSelect, UsedBy
  <2>3. u \in Pointer
    BY <2>2, ProgramAssumption DEF ProgramAssumption, Users, OfKind
  <2> QED
    BY <1>4, <2>2, <2>3 DEF PtrSelect
<1>5. ASSUME NEW a \in Value, PtrArg(a) PROVE Goal
  <2>1. Current \in Frame /\ Current.op = "ptr_args"
    BY <1>5, RunningTypes DEF PtrArg, TypeOK
  <2>2. Current.subject \in Pointer /\ a \in Pointer
    BY <1>5, <2>1, FrameCases DEF PtrArg
  <2> QED
    BY <1>5, <2>2 DEF PtrArg
<1>6. ASSUME NEW v \in Value, VisitLoad(v) PROVE Goal
  <2> DEFINE p == PtrOperand[v]
  <2>1. v \in OfKind("load") /\ v \in Inst
    BY <1>6, KindsOfValues DEF VisitLoad, Visit, OfKind
  <2>2. p \in Pointer /\ TransitiveInsts[v] \in SUBSET Inst
    BY <2>1, ProgramAssumption, RelationsOfValues DEF ProgramAssumption
  <2>3. Uses(p)
    BY <1>6, <2>2 DEF VisitLoad, Uses
  <2> QED
    BY <2>2, <2>3
<1>7. ASSUME VisitStore PROVE Goal
  <2> DEFINE s == Current.subject
             p == PtrOperand[s]
  <2>1. Current \in Frame /\ Current.op = "visit_store"
    BY <1>7, RunningTypes DEF VisitStore, TypeOK
  <2>2. s \in OfKind("store") /\ s \in Inst
    BY <2>1, FrameCases, KindsOfValues
  <2>3. p \in Pointer /\ TransitiveInsts[s] \in SUBSET Inst
    BY <2>2, ProgramAssumption, RelationsOfValues DEF ProgramAssumption
  <2>4. Uses(p)
    BY <1>7, <2>3 DEF VisitStore, Uses
  <2> QED
    BY <2>3, <2>4
<1>8. ASSUME \/ AnalyzedValue \/ AnalyzedCfg \/ NextRound \/ CheckCall
             \/ \E v \in Value :
                  \/ AnalyzeValue(v) \/ AnalyzeCfg(v)
                  \/ IncludeAgain(v) \/ IncludeValue(v) \/ IncludeFunctionCallsite(v)
                  \/ VisitOperands(v) \/ VisitStoreValue(v)
                  \/ VisitPhi(v) \/ VisitArg(v) \/ VisitCall(v)
                  \/ PtrUsedPlainly(v) \/ PtrStore(v) \/ PtrPhi(v)
                  \/ VisitCallFromPtr(v) \/ PtrRet(v)
      PROVE  UNCHANGED <<aliasVars, infoVars>>
  BY <1>8 DEF AnalyzedValue, AnalyzedCfg, NextRound, CheckCall,
     AnalyzeValue, AnalyzeCfg, IncludeAgain, IncludeValue, IncludeFunctionCallsite,
     VisitOperands, VisitStoreValue, VisitPhi, VisitArg, VisitCall,
     PtrUsedPlainly, PtrStore, PtrPhi, VisitCallFromPtr, PtrRet
<1> HIDE DEF Goal
<1>9. (\E v \in Value : VisitSelect(v)) \/ UNCHANGED <<aliasVars, infoVars>> => Goal
  BY DEF Goal
<1>10. Goal
  BY <1>1, <1>2, <1>3, <1>4, <1>5, <1>6, <1>7, <1>8, <1>9 DEF Next
<1> QED
  BY <1>10 DEF Goal

\* The asserts on is_valid and on the users of an info hold for every program:
\* a merge redirects every user of the info it retires.
THEOREM ReferencesStayValid == Spec => []ReferencesAreValid
<1>1. Init => ReferencesAreValid
  BY DEF Init, ReferencesAreValid, Info
<1>2. TypeOK /\ ReferencesAreValid /\ [Next]_vars => ReferencesAreValid'
  <2> SUFFICES ASSUME TypeOK, ReferencesAreValid, [Next]_vars
               PROVE  ReferencesAreValid'
    OBVIOUS
  <2>1. CASE UNCHANGED aliasVars
    BY <2>1 DEF ReferencesAreValid, aliasVars
  <2>2. CASE UNCHANGED vars
    BY <2>1, <2>2 DEF vars, aliasVars
  <2>3. CASE Next
    BY <2>1, <2>3, InfoSteps, MergeKeepsReferences, SelectKeepsReferences DEF Uses
  <2> QED
    BY <2>2, <2>3
<1> QED
  BY <1>1, <1>2, TypeCorrect, PTL DEF Spec

-----------------------------------------------------------------------------
(* The infos implement the groups.                                         *)

\* The users of an info are the pointers that refer to it, and pointers that a
\* select has taken since.
UsersInv ==
  \A i \in Info : \A r \in ptrs_with_this_info[i] : ptr_info[r] = i \/ r \in Groups!Taken

LEMMA TakenBySelects ==
  ASSUME NEW v \in OfKind("select") \cap Pointer
  PROVE  SelectedBy(v) \subseteq Groups!Taken
BY DEF Groups!Taken

LEMMA UsersStep ==
  ASSUME TypeOK, ReferencesAreValid, UsersInv, Next
  PROVE  UsersInv'
<1>1. ASSUME UNCHANGED aliasVars PROVE UsersInv'
  BY <1>1 DEF UsersInv, aliasVars
<1>2. ASSUME NEW p \in Pointer, NEW q \in Pointer, MergeWith(InfoOf(p), InfoOf(q))
      PROVE  UsersInv'
  <2> DEFINE i == InfoOf(p)
             j == InfoOf(q)
  <2>1. i \in Info /\ j \in Info
    BY InfoTypes
  <2> HIDE DEF i, j
  <2>2. CASE i = j
    BY <1>1, <1>2, <2>2 DEF MergeWith, i, j
  <2>3. CASE i # j
    <3>1. /\ ptr_info' = [x \in Pointer |->
                            IF x \in ptrs_with_this_info[j] THEN i ELSE ptr_info[x]]
          /\ ptrs_with_this_info' =
               [ptrs_with_this_info EXCEPT
                  ![i] = @ \cup ptrs_with_this_info[j], ![j] = {}]
      BY <1>2, <2>3 DEF MergeWith, i, j
    <3> SUFFICES ASSUME NEW k \in Info, NEW r \in ptrs_with_this_info'[k],
                        r \notin Groups!Taken
                 PROVE  ptr_info'[r] = k
      BY DEF UsersInv
    <3>2. \A l \in Info : r \in ptrs_with_this_info[l] => ptr_info[r] = l
      BY DEF UsersInv
    <3>3. k # j /\ r \in Pointer
      BY <2>1, <2>3, <3>1 DEF TypeOK
    <3> QED
      BY <2>1, <2>3, <3>1, <3>2, <3>3 DEF TypeOK
  <2> QED
    BY <2>2, <2>3
<1>3. ASSUME NEW v \in Value, VisitSelect(v) PROVE UsersInv'
  <2>1. CASE v \in Pointer
    <3> DEFINE S == SelectedBy(v)
    <3>1. v \in OfKind("select")
      BY <1>3 DEF VisitSelect, Visit, OfKind
    <3>2. S \subseteq Groups!Taken
      BY <2>1, <3>1, TakenBySelects
    <3>3. InfoOf(v) \in Info
      BY <2>1, InfoTypes
    <3> HIDE DEF S
    <3>4. /\ ptr_info' = [p \in Pointer |-> IF p \in S THEN ptr_info[v] ELSE ptr_info[p]]
          /\ ptrs_with_this_info' = [ptrs_with_this_info EXCEPT ![InfoOf(v)] = @ \cup S]
      BY <1>3, <2>1 DEF VisitSelect, S
    <3> SUFFICES ASSUME NEW k \in Info, NEW r \in ptrs_with_this_info'[k],
                        r \notin Groups!Taken
                 PROVE  ptr_info'[r] = k
      BY DEF UsersInv
    <3>5. r \notin S /\ r \in ptrs_with_this_info[k]
      BY <3>2, <3>3, <3>4 DEF TypeOK
    <3> QED
      BY <3>4, <3>5 DEF UsersInv, TypeOK
  <2>2. CASE v \notin Pointer
    BY <1>3, <2>2 DEF VisitSelect, UsersInv
  <2> QED
    BY <2>1, <2>2
<1> QED
  BY <1>1, <1>2, <1>3, InfoSteps DEF Uses

LEMMA UsersStayKnown == Spec => []UsersInv
<1>1. Init => UsersInv
  BY DEF Init, UsersInv, Info
<1>2. TypeOK /\ ReferencesAreValid /\ UsersInv /\ [Next]_vars => UsersInv'
  <2> SUFFICES ASSUME TypeOK, ReferencesAreValid, UsersInv, UNCHANGED vars
               PROVE  UsersInv'
    BY UsersStep
  <2> QED
    BY DEF UsersInv, vars, aliasVars
<1> QED
  BY <1>1, <1>2, TypeCorrect, ReferencesStayValid, PTL DEF Spec

\* A merge redirects the users of the second info.
LEMMA MergeInfos ==
  ASSUME TypeOK, ReferencesAreValid, NEW p \in Pointer, NEW q \in Pointer,
         InfoOf(p) # InfoOf(q), MergeWith(InfoOf(p), InfoOf(q))
  PROVE  \A r \in Pointer :
           InfoOf(r)' = IF r \in ptrs_with_this_info[InfoOf(q)] THEN InfoOf(p) ELSE InfoOf(r)
<1> DEFINE i == InfoOf(p)
           j == InfoOf(q)
<1>1. i \in Info /\ j \in Info /\ merged_with[i] = i
  BY InfoTypes DEF ReferencesAreValid, TypeOK, InfoOf, Info
<1> HIDE DEF i, j
<1>2. /\ ptr_info' = [x \in Pointer |->
                        IF x \in ptrs_with_this_info[j] THEN i ELSE ptr_info[x]]
      /\ merged_with' = [k \in Info |-> IF merged_with[k] = j THEN i ELSE merged_with[k]]
  BY DEF MergeWith, i, j
<1>3. ASSUME NEW r \in Pointer
      PROVE  merged_with'[ptr_info'[r]] =
               IF r \in ptrs_with_this_info[j] THEN i ELSE merged_with[ptr_info[r]]
  <2>1. CASE r \in ptrs_with_this_info[j]
    BY <1>1, <1>2, <2>1
  <2>2. CASE r \notin ptrs_with_this_info[j]
    <3>1. /\ ptr_info[r] \in Info /\ merged_with[ptr_info[r]] = ptr_info[r]
          /\ ptr_info[r] # j
      BY <2>2 DEF ReferencesAreValid, TypeOK
    <3> QED
      BY <1>2, <2>2, <3>1
  <2> QED
    BY <2>1, <2>2
<1> QED
  BY <1>3 DEF InfoOf, i, j

LEMMA UsesIsLearn ==
  ASSUME TypeOK, NEW p \in Pointer, Uses(p)
  PROVE  Groups!Learn(p)
<1>1. \A r \in Pointer : InfoOf(r) \in Info /\ InfoOf(r)' = InfoOf(r)
  BY InfoTypes DEF Uses, InfoOf, aliasVars
<1>2. /\ \A i \in Info : loads[i] \subseteq loads'[i]
      /\ \A i \in Info \ {InfoOf(p)} : loads'[i] = loads[i]
  BY DEF Uses, TypeOK
<1>3. /\ \A i \in Info : stores[i] \subseteq stores'[i]
      /\ \A i \in Info \ {InfoOf(p)} : stores'[i] = stores[i]
  BY DEF Uses, TypeOK
<1>4. /\ \A i \in Info : is_used_directly[i] => is_used_directly'[i]
      /\ \A i \in Info \ {InfoOf(p)} : is_used_directly'[i] = is_used_directly[i]
  BY DEF Uses, TypeOK
<1> QED
  BY <1>1, <1>2, <1>3, <1>4 DEF Groups!Learn

LEMMA MergeIsMerge ==
  ASSUME TypeOK, ReferencesAreValid, UsersInv, NEW p \in Pointer, NEW q \in Pointer,
         InfoOf(p) # InfoOf(q), MergeWith(InfoOf(p), InfoOf(q))
  PROVE  Groups!Merge(p, q)
<1> DEFINE i == InfoOf(p)
           j == InfoOf(q)
           moved == ptrs_with_this_info[j]
           G(r) == {x \in Pointer : InfoOf(x) = InfoOf(r)}
           both == G(p) \cup moved
<1>1. /\ i \in Info /\ j \in Info /\ moved \subseteq Pointer
      /\ \A r \in Pointer : InfoOf(r) \in Info
  BY InfoTypes DEF TypeOK
<1>2. \A r \in Pointer : InfoOf(r)' = IF r \in moved THEN i ELSE InfoOf(r)
  BY MergeInfos
<1>3. \A r \in Pointer : InfoOf(r) = j => r \in moved
  BY DEF ReferencesAreValid, InfoOf
<1>4. \A r \in moved : InfoOf(r) = j \/ r \in Groups!Taken
  BY <1>1 DEF UsersInv, ReferencesAreValid, InfoOf
<1>5. /\ loads' = [loads EXCEPT ![i] = @ \cup loads[j]]
      /\ stores' = [stores EXCEPT ![i] = @ \cup stores[j]]
      /\ is_used_directly' = [is_used_directly EXCEPT ![i] = @ \/ is_used_directly[j]]
  BY DEF MergeWith
<1>6. i # j
  OBVIOUS
<1> HIDE DEF i, moved
<1>7. \A r \in Pointer : G(r)' = IF r \in both THEN both ELSE G(r) \ both
  <2> SUFFICES ASSUME NEW r \in Pointer
               PROVE  {x \in Pointer : InfoOf(x)' = InfoOf(r)'}
                        = IF r \in both THEN both ELSE G(r) \ both
    OBVIOUS
  <2>1. \A x \in Pointer : x \in both <=> InfoOf(x)' = i
    BY <1>2 DEF i
  <2>2. CASE r \in both
    BY <1>1, <2>1, <2>2
  <2>3. CASE r \notin both
    BY <1>1, <1>2, <2>1, <2>3
  <2> QED
    BY <2>2, <2>3
<1>8. G(p)' = both
  BY <1>7 DEF i
<1>9. G(p) \cup G(q) \subseteq both /\ both \subseteq G(p) \cup G(q) \cup Groups!Taken
  BY <1>1, <1>3, <1>4
<1>10. \A r \in Pointer : r \in both <=> InfoOf(r)' = i
  BY <1>2 DEF i
<1>11. \A r \in Pointer :
         /\ loads'[InfoOf(r)'] = IF r \in both THEN loads[i] \cup loads[j] ELSE loads[InfoOf(r)]
         /\ stores'[InfoOf(r)'] = IF r \in both THEN stores[i] \cup stores[j] ELSE stores[InfoOf(r)]
         /\ is_used_directly'[InfoOf(r)'] =
              IF r \in both THEN is_used_directly[i] \/ is_used_directly[j]
              ELSE is_used_directly[InfoOf(r)]
  BY <1>1, <1>2, <1>5, <1>10 DEF TypeOK
<1> HIDE DEF j, both
<1> QED
  BY <1>7, <1>8, <1>9, <1>11 DEF Groups!Merge, i, j

LEMMA SelectIsTake ==
  ASSUME TypeOK, ReferencesAreValid, NEW v \in Pointer, VisitSelect(v)
  PROVE  Groups!Take(v) /\ v \in OfKind("select") \cap Pointer
<1> DEFINE S == SelectedBy(v)
           G(r) == {x \in Pointer : InfoOf(x) = InfoOf(r)}
           joined == G(v) \cup S
<1>1. v \in OfKind("select") \cap Pointer /\ S \subseteq Pointer
  BY PointersAreValues DEF VisitSelect, Visit, OfKind, SelectedBy
<1>2. /\ ptr_info' = [p \in Pointer |-> IF p \in S THEN ptr_info[v] ELSE ptr_info[p]]
      /\ UNCHANGED <<merged_with, infoVars>>
  BY DEF VisitSelect
<1>3. \A r \in Pointer : InfoOf(r)' = IF r \in S THEN InfoOf(v) ELSE InfoOf(r)
  BY <1>2 DEF InfoOf
<1>4. \A r \in Pointer : r \in joined <=> InfoOf(r)' = InfoOf(v)
  BY <1>3
<1>5. \A r \in Pointer :
        {x \in Pointer : InfoOf(x)' = InfoOf(r)'} = IF r \in joined THEN joined ELSE G(r) \ S
  <2> SUFFICES ASSUME NEW r \in Pointer
               PROVE  {x \in Pointer : InfoOf(x)' = InfoOf(r)'}
                        = IF r \in joined THEN joined ELSE G(r) \ S
    OBVIOUS
  <2>1. CASE r \in joined
    BY <1>1, <1>4, <2>1
  <2>2. CASE r \notin joined
    BY <1>1, <1>3, <1>4, <2>2
  <2> QED
    BY <2>1, <2>2
<1>6. \A r \in Pointer :
        /\ loads'[InfoOf(r)'] = IF r \in joined THEN loads[InfoOf(v)] ELSE loads[InfoOf(r)]
        /\ stores'[InfoOf(r)'] = IF r \in joined THEN stores[InfoOf(v)] ELSE stores[InfoOf(r)]
        /\ is_used_directly'[InfoOf(r)'] =
             IF r \in joined THEN is_used_directly[InfoOf(v)] ELSE is_used_directly[InfoOf(r)]
  BY <1>2, <1>3, <1>4 DEF infoVars
<1> QED
  BY <1>1, <1>5, <1>6 DEF Groups!Take

\* Every step is one of the groups: whichever infos forward to which, in whatever
\* order the selects, phis, arguments and results are visited, what the analysis
\* knows of a pointer is what is known of its group.
THEOREM InfosImplementGroups == Spec => InfosActAsGroups
<1> DEFINE GroupVars ==
      <<[p \in Pointer |-> {q \in Pointer : InfoOf(q) = InfoOf(p)}],
        <<[p \in Pointer |-> loads[InfoOf(p)]],
          [p \in Pointer |-> stores[InfoOf(p)]],
          [p \in Pointer |-> is_used_directly[InfoOf(p)]]>> >>
<1>1. Init => Groups!Init
  BY DEF Init, Groups!Init, InfoOf, Info
<1>2. TypeOK /\ ReferencesAreValid /\ UsersInv /\ [Next]_vars => [Groups!Next]_GroupVars
  <2> SUFFICES ASSUME TypeOK, ReferencesAreValid, UsersInv, [Next]_vars
               PROVE  Groups!Next \/ UNCHANGED GroupVars
    OBVIOUS
  <2>1. CASE UNCHANGED <<aliasVars, infoVars>>
    BY <2>1 DEF aliasVars, infoVars, InfoOf
  <2>2. ASSUME NEW p \in Pointer, Uses(p) PROVE Groups!Next
    BY <2>2, UsesIsLearn DEF Groups!Next
  <2>3. ASSUME NEW p \in Pointer, NEW q \in Pointer, MergeWith(InfoOf(p), InfoOf(q))
        PROVE  Groups!Next \/ UNCHANGED <<aliasVars, infoVars>>
    <3>1. CASE InfoOf(p) = InfoOf(q)
      BY <2>3, <3>1 DEF MergeWith
    <3>2. CASE InfoOf(p) # InfoOf(q)
      BY <2>3, <3>2, MergeIsMerge DEF Groups!Next
    <3> QED
      BY <3>1, <3>2
  <2>4. ASSUME NEW v \in Value, VisitSelect(v)
        PROVE  Groups!Next \/ UNCHANGED <<aliasVars, infoVars>>
    <3>1. CASE v \in Pointer
      BY <2>4, <3>1, SelectIsTake DEF Groups!Next
    <3>2. CASE v \notin Pointer
      BY <2>4, <3>2 DEF VisitSelect, aliasVars
    <3> QED
      BY <3>1, <3>2
  <2>5. CASE UNCHANGED vars
    BY <2>1, <2>5 DEF vars
  <2> QED
    BY <2>1, <2>2, <2>3, <2>4, <2>5, InfoSteps
<1> QED
  BY <1>1, <1>2, TypeCorrect, ReferencesStayValid, UsersStayKnown, PTL
     DEF Spec, InfosActAsGroups, Groups!Spec, Groups!usage

-----------------------------------------------------------------------------
(* The calls in progress when a step is done.                              *)

FramesOf(stack) == {stack[k] : k \in DOMAIN stack}
IsStack(stack) == stack \in Seq(FramesOf(stack))

\* Calls of which none has been made by analyze() for a requested instruction.
Ordinary(stack) == IsStack(stack) /\ \A f \in FramesOf(stack) : f.op # "requested_cfg"

\* The callers of the innermost call with ordinary calls added.
Continues(stack) ==
  /\ IsStack(stack)
  /\ FramesOf(Callers) \subseteq FramesOf(stack)
  /\ \A f \in FramesOf(stack) : f.op # "requested_cfg" \/ f \in FramesOf(Callers)

LEMMA TypedStack ==
  ASSUME NEW s \in Seq(Frame)
  PROVE  /\ IsStack(s)
         /\ s # <<>> => FramesOf(s) = {Head(s)} \cup FramesOf(Tail(s)) /\ IsStack(Tail(s))
<1>1. \A t \in Seq(Frame) : IsStack(t)
  BY DEF IsStack, FramesOf
<1>2. ASSUME s # <<>>
      PROVE  FramesOf(s) = {Head(s)} \cup FramesOf(Tail(s))
  <2>1. FramesOf(s) \subseteq {Head(s)} \cup FramesOf(Tail(s))
    <3> SUFFICES ASSUME NEW k \in DOMAIN s, k # 1
                 PROVE  s[k] \in FramesOf(Tail(s))
      BY <1>2 DEF FramesOf
    <3>1. k - 1 \in DOMAIN Tail(s) /\ Tail(s)[k - 1] = s[k]
      BY <1>2
    <3> QED
      BY <3>1 DEF FramesOf
  <2>2. Head(s) \in FramesOf(s)
    BY <1>2 DEF FramesOf
  <2>3. ASSUME NEW k \in DOMAIN Tail(s)
        PROVE  Tail(s)[k] \in FramesOf(s)
    <3>1. k + 1 \in DOMAIN s /\ Tail(s)[k] = s[k + 1]
      BY <1>2
    <3> QED
      BY <3>1 DEF FramesOf
  <2> QED
    BY <2>1, <2>2, <2>3 DEF FramesOf
<1>3. s # <<>> => Tail(s) \in Seq(Frame)
  OBVIOUS
<1> QED
  BY <1>1, <1>2, <1>3

LEMMA StackConcat ==
  ASSUME NEW s, NEW t, IsStack(s), IsStack(t)
  PROVE  /\ IsStack(s \o t)
         /\ FramesOf(s \o t) = FramesOf(s) \cup FramesOf(t)
<1> DEFINE S == FramesOf(s) \cup FramesOf(t)
<1>1. s \in Seq(S) /\ t \in Seq(S)
  <2>1. s \in Seq(FramesOf(s)) /\ t \in Seq(FramesOf(t))
    BY DEF IsStack
  <2> HIDE DEF S
  <2>2. FramesOf(s) \subseteq S /\ FramesOf(t) \subseteq S
    BY DEF S
  <2> QED
    BY <2>1, <2>2
<1> HIDE DEF S
<1>2. FramesOf(s) \subseteq FramesOf(s \o t)
  <2> SUFFICES ASSUME NEW k \in DOMAIN s PROVE s[k] \in FramesOf(s \o t)
    BY DEF FramesOf
  <2>1. k \in DOMAIN (s \o t) /\ (s \o t)[k] = s[k]
    BY <1>1
  <2> QED
    BY <2>1 DEF FramesOf
<1>3. FramesOf(t) \subseteq FramesOf(s \o t)
  <2> SUFFICES ASSUME NEW k \in DOMAIN t PROVE t[k] \in FramesOf(s \o t)
    BY DEF FramesOf
  <2>1. k + Len(s) \in DOMAIN (s \o t) /\ (s \o t)[k + Len(s)] = t[k]
    BY <1>1
  <2> QED
    BY <2>1 DEF FramesOf
<1>4. FramesOf(s \o t) \subseteq S
  BY <1>1 DEF FramesOf
<1>5. FramesOf(s \o t) = S
  BY <1>2, <1>3, <1>4 DEF S
<1>6. s \o t \in Seq(S)
  BY <1>1
<1> QED
  BY <1>5, <1>6 DEF S, IsStack

LEMMA SingleStack ==
  ASSUME NEW f
  PROVE  IsStack(<<f>>) /\ FramesOf(<<f>>) = {f}
BY DEF IsStack, FramesOf

LEMMA EmptyStack == IsStack(<<>>) /\ FramesOf(<<>>) = {} /\ Ordinary(<<>>)
BY DEF IsStack, FramesOf, Ordinary

LEMMA LoopStack ==
  ASSUME NEW op, NEW s, NEW r
  PROVE  /\ IsStack(Loop(op, s, r))
         /\ FramesOf(Loop(op, s, r)) =
              IF r = {} THEN {} ELSE {[op |-> op, subject |-> s, rest |-> r]}
         /\ op # "requested_cfg" => Ordinary(Loop(op, s, r)) /\ Ordinary(Invoke(op, s))
<1> DEFINE f == [op |-> op, subject |-> s, rest |-> r]
           g == [op |-> op, subject |-> s, rest |-> {}]
<1>1. ASSUME r = {}
      PROVE  IsStack(Loop(op, s, r)) /\ FramesOf(Loop(op, s, r)) = {}
  BY <1>1, EmptyStack DEF Loop
<1>2. ASSUME r # {}
      PROVE  IsStack(Loop(op, s, r)) /\ FramesOf(Loop(op, s, r)) = {f}
  BY <1>2, SingleStack DEF Loop
<1>3. op # "requested_cfg" => Ordinary(Invoke(op, s))
  <2>1. IsStack(<<g>>) /\ FramesOf(<<g>>) = {g} /\ g.op = op
    BY SingleStack
  <2> QED
    BY <2>1 DEF Invoke, Ordinary
<1>4. op # "requested_cfg" => Ordinary(Loop(op, s, r))
  <2>1. CASE r = {}
    BY <2>1, EmptyStack DEF Loop
  <2>2. CASE r # {}
    <3>1. f.op = op
      OBVIOUS
    <3> QED
      BY <1>2, <2>2, <3>1 DEF Ordinary
  <2> QED
    BY <2>1, <2>2
<1> QED
  BY <1>1, <1>2, <1>3, <1>4

LEMMA OrdinaryConcat ==
  ASSUME NEW s, NEW t, Ordinary(s), Ordinary(t)
  PROVE  Ordinary(s \o t)
BY StackConcat DEF Ordinary

LEMMA OrdinaryHelpers ==
  /\ \A v, vs : Ordinary(IncludeNeeds(v, vs))
  /\ \A v : Ordinary(PtrUsages(v))
  /\ \A f : Ordinary(TaintCallsites(f))
BY LoopStack, EmptyStack DEF IncludeNeeds, PtrUsages, TaintCallsites

LEMMA ContinuesConcat ==
  ASSUME NEW s, NEW t, Ordinary(s), Continues(t)
  PROVE  Continues(s \o t) /\ Continues(t \o s)
BY StackConcat DEF Ordinary, Continues

LEMMA ContinuesRest ==
  ASSUME TypeOK, NEW op, Running(op)
  PROVE  /\ Continues(Callers)
         /\ op # "requested_cfg" => \A x : Continues(RestOfLoop(x))
<1>1. call_stack \in Seq(Frame) /\ call_stack # <<>> /\ Current.op = op
  BY DEF TypeOK, Running, Current
<1>2. IsStack(Callers)
  BY <1>1, TypedStack DEF Callers
<1>3. Continues(Callers)
  BY <1>2 DEF Continues
<1>4. ASSUME op # "requested_cfg", NEW x
      PROVE  Continues(RestOfLoop(x))
  BY <1>1, <1>3, <1>4, LoopStack, ContinuesConcat DEF RestOfLoop
<1> QED
  BY <1>3, <1>4

\* A step of a call in progress leaves its callers alone.
LEMMA RunningSteps ==
  ASSUME TypeOK, Next, call_stack # <<>>
  PROVE  Continues(call_stack')
<1>1. ASSUME AnalyzedValue \/ AnalyzedCfg PROVE Continues(call_stack')
  BY <1>1, ContinuesRest DEF AnalyzedValue, AnalyzedCfg
<1>2. ASSUME VisitStore PROVE Continues(call_stack')
  <2> DEFINE s == Current.subject
             p == PtrOperand[s]
             again == Loop("include", s, Operands[s] \ {p}) \o Loop("include", s, {s})
                      \o Loop("include", s, {p})
             more == IF IsStoreImportant(s, InfoOf(p)) THEN again ELSE <<>>
  <2>1. Ordinary(again)
    BY LoopStack, OrdinaryConcat
  <2>2. Ordinary(more)
    BY <2>1, EmptyStack
  <2>3. Ordinary(IncludeNeeds(s, {p}) \o more)
    BY <2>2, OrdinaryHelpers, OrdinaryConcat
  <2> HIDE DEF more
  <2>4. call_stack' = IncludeNeeds(s, {p}) \o more \o Callers
    BY <1>2 DEF VisitStore, more
  <2>5. Continues(Callers)
    BY <1>2, ContinuesRest DEF VisitStore
  <2> QED
    BY <2>3, <2>4, <2>5, ContinuesConcat
<1>3. ASSUME CheckCall PROVE Continues(call_stack')
  <2>1. \E s : Ordinary(s) /\ call_stack' = s \o Callers
    BY <1>3, LoopStack, EmptyStack DEF CheckCall
  <2> QED
    BY <1>3, <2>1, ContinuesRest, ContinuesConcat DEF CheckCall
<1>4. ASSUME NEW v \in Value,
             IncludeAgain(v) \/ PtrUsedPlainly(v) \/ PtrPhi(v) \/ PtrSelect(v) \/ PtrArg(v)
      PROVE  Continues(call_stack')
  BY <1>4, ContinuesRest
     DEF IncludeAgain, PtrUsedPlainly, PtrPhi, PtrSelect, PtrArg, UsedBy
<1>5. ASSUME NEW v \in Value, IncludeValue(v) PROVE Continues(call_stack')
  <2> DEFINE s == Loop("include", v, Terminators(v))
             t == IF FunctionToInclude(v) = {} THEN <<>> ELSE TaintCallsites(ParentOf[v])
             u == Loop("include", v, needs[v])
  <2>1. Ordinary(s) /\ Ordinary(t) /\ Ordinary(u)
    BY LoopStack, EmptyStack, OrdinaryHelpers
  <2> HIDE DEF s, t, u
  <2>2. Ordinary(s \o t \o u)
    BY <2>1, OrdinaryConcat
  <2>3. call_stack' = s \o t \o u \o RestOfLoop(v)
    BY <1>5 DEF IncludeValue, s, t, u
  <2> QED
    <3>1. Continues(RestOfLoop(v))
      BY <1>5, ContinuesRest DEF IncludeValue
    <3> QED
      BY <2>2, <2>3, <3>1, ContinuesConcat
<1>6. ASSUME NEW c \in Value, IncludeFunctionCallsite(c) PROVE Continues(call_stack')
  <2> DEFINE s == IF ParentOf[c] \in include_in_precompute THEN <<>>
                  ELSE TaintCallsites(ParentOf[c])
             t == Loop("include", c, {c})
  <2>1. Ordinary(s) /\ Ordinary(t)
    BY LoopStack, EmptyStack, OrdinaryHelpers
  <2>2. Continues(RestOfLoop(c))
    BY <1>6, ContinuesRest DEF IncludeFunctionCallsite
  <2> HIDE DEF s, t
  <2>3. Continues(s \o t \o RestOfLoop(c))
    BY <2>1, <2>2, OrdinaryConcat, ContinuesConcat
  <2>4. call_stack' = s \o t \o RestOfLoop(c) \/ call_stack' = RestOfLoop(c)
    BY <1>6 DEF IncludeFunctionCallsite, s, t
  <2> QED
    BY <2>2, <2>3, <2>4
<1>7. ASSUME NEW x \in Value, VisitPhiIncoming(x) PROVE Continues(call_stack')
  <2> DEFINE s == IncludeNeeds(Current.subject, {x})
             t == IF Current.rest = {x} THEN PtrUsages(Current.subject) ELSE <<>>
  <2>1. Ordinary(s) /\ Ordinary(t)
    BY EmptyStack, OrdinaryHelpers
  <2> HIDE DEF s, t
  <2>2. Continues(s \o RestOfLoop(x))
    BY <1>7, <2>1, ContinuesRest, ContinuesConcat DEF VisitPhiIncoming
  <2>3. call_stack' = s \o RestOfLoop(x) \o t
    BY <1>7 DEF VisitPhiIncoming, s, t
  <2> QED
    BY <2>1, <2>2, <2>3, ContinuesConcat
<1>8. ASSUME NEW v \in Value, VisitArgCallsite(v) \/ PtrRetCallsite(v)
      PROVE  Continues(call_stack')
  <2>1. \E x, vs : call_stack' = IncludeNeeds(x, vs) \o RestOfLoop(v)
    BY <1>8 DEF VisitArgCallsite, PtrRetCallsite
  <2>2. Continues(RestOfLoop(v))
    BY <1>8, ContinuesRest DEF VisitArgCallsite, PtrRetCallsite
  <2> QED
    BY <2>1, <2>2, OrdinaryHelpers, ContinuesConcat
<1>9. ASSUME NEW u \in Value, PtrStore(u) \/ VisitCallFromPtr(u) \/ PtrRet(u)
      PROVE  Continues(call_stack')
  <2>1. \E s : Ordinary(s) /\ call_stack' = s \o RestOfLoop(u)
    BY <1>9, LoopStack DEF PtrStore, VisitCallFromPtr, PtrRet
  <2>2. Continues(RestOfLoop(u))
    BY <1>9, ContinuesRest DEF PtrStore, VisitCallFromPtr, PtrRet, UsedBy
  <2> QED
    BY <2>1, <2>2, ContinuesConcat
<1>10. ~ \/ NextRound
         \/ \E v \in Value :
              \/ AnalyzeValue(v) \/ AnalyzeCfg(v)
              \/ VisitOperands(v) \/ VisitLoad(v) \/ VisitStoreValue(v) \/ VisitPhi(v)
              \/ VisitSelect(v) \/ VisitArg(v) \/ VisitCall(v)
  BY DEF NextRound, AnalyzeValue, AnalyzeCfg, VisitOperands, VisitLoad,
     VisitStoreValue, VisitPhi, VisitSelect, VisitArg, VisitCall, Visit, Analyzed
<1> QED
  BY <1>1, <1>2, <1>3, <1>4, <1>5, <1>6, <1>7, <1>8, <1>9, <1>10 DEF Next

-----------------------------------------------------------------------------
(* The worklist.                                                           *)

\* A round only starts when analyze() has inserted every request, and while it
\* goes on no requested instruction is still to be marked as visited.
WorklistInv ==
  /\ NoCallVisitedTwice
  /\ to_visit # {} => /\ to_precompute_value = {}
                      /\ to_precompute_cfg = {}
                      /\ Ordinary(call_stack)

LEMMA WorklistStep ==
  ASSUME TypeOK, WorklistInv, Next
  PROVE  WorklistInv'
<1>1. ASSUME call_stack # <<>>
      PROVE  /\ UNCHANGED <<requestVars, to_visit>>
             /\ visited' \cap Call \subseteq visited \/ ~ Ordinary(call_stack)
  <2>1. ASSUME AnalyzedCfg PROVE UNCHANGED <<requestVars, to_visit>> /\ ~ Ordinary(call_stack)
    <3>1. call_stack \in Seq(Frame) /\ Head(call_stack).op = "requested_cfg"
      BY <1>1, <2>1 DEF AnalyzedCfg, Running, TypeOK
    <3>2. Head(call_stack) \in FramesOf(call_stack)
      BY <1>1, <3>1, TypedStack
    <3> QED
      BY <2>1, <3>1, <3>2 DEF AnalyzedCfg, Ordinary
  <2>2. ASSUME VisitStore
        PROVE  UNCHANGED <<requestVars, to_visit>> /\ visited' \cap Call \subseteq visited
    <3>1. Current \in Frame /\ Current.op = "visit_store"
      BY <2>2, RunningTypes DEF VisitStore, TypeOK
    <3>2. Current.subject \notin Call
      BY <3>1, FrameCases DEF Call, OfKind
    <3>3. visited' \subseteq visited \cup {Current.subject}
      BY <2>2 DEF VisitStore
    <3> QED
      BY <2>2, <3>2, <3>3 DEF VisitStore
  <2>3. ASSUME NEW x \in Value, VisitPhiIncoming(x)
        PROVE  UNCHANGED <<requestVars, to_visit>> /\ visited' \cap Call \subseteq visited
    <3>1. Current \in Frame /\ Current.op = "visit_phi"
      BY <2>3, RunningTypes DEF VisitPhiIncoming, TypeOK
    <3>2. Current.subject \notin Call
      BY <3>1, FrameCases DEF Call, OfKind
    <3>3. visited' \subseteq visited \cup {Current.subject}
      BY <2>3 DEF VisitPhiIncoming
    <3> QED
      BY <2>3, <3>2, <3>3 DEF VisitPhiIncoming
  <2>4. ASSUME AnalyzedValue \/ CheckCall
        PROVE  UNCHANGED <<requestVars, to_visit>> /\ visited' \subseteq visited
    BY <2>4 DEF AnalyzedValue, CheckCall
  <2>5. ASSUME NEW v \in Value,
               \/ IncludeAgain(v) \/ IncludeValue(v) \/ IncludeFunctionCallsite(v)
               \/ VisitArgCallsite(v) \/ PtrRetCallsite(v)
        PROVE  UNCHANGED <<requestVars, to_visit>> /\ visited' \subseteq visited
    BY <2>5 DEF IncludeAgain, IncludeValue, IncludeFunctionCallsite,
       VisitArgCallsite, PtrRetCallsite
  <2>6. ASSUME NEW v \in Value,
               \/ PtrUsedPlainly(v) \/ PtrStore(v) \/ PtrPhi(v) \/ PtrSelect(v)
               \/ VisitCallFromPtr(v) \/ PtrArg(v) \/ PtrRet(v)
        PROVE  UNCHANGED <<requestVars, to_visit>> /\ visited' \subseteq visited
    BY <2>6 DEF PtrUsedPlainly, PtrStore, PtrPhi, PtrSelect, VisitCallFromPtr,
       PtrArg, PtrRet
  <2> HIDE DEF Next
  <2> QED
    BY <1>1, <2>1, <2>2, <2>3, <2>4, <2>5, <2>6
       DEF Next, NextRound, AnalyzeValue, AnalyzeCfg, VisitOperands, VisitLoad,
       VisitStoreValue, VisitPhi, VisitSelect, VisitArg, VisitCall, Visit, Analyzed
<1>2. ASSUME call_stack # <<>> PROVE WorklistInv'
  <2>1. Continues(call_stack')
    BY <1>2, RunningSteps
  <2>2. FramesOf(Callers) \subseteq FramesOf(call_stack)
    BY <1>2, TypedStack DEF TypeOK, Callers
  <2>3. Ordinary(call_stack) => Ordinary(call_stack')
    BY <2>1, <2>2 DEF Ordinary, Continues
  <2>4. Ordinary(call_stack') = Ordinary(call_stack)'
    BY DEF Ordinary, IsStack, FramesOf
  <2> QED
    BY <1>1, <1>2, <2>3, <2>4 DEF WorklistInv, NoCallVisitedTwice, requestVars
<1>3. ASSUME NEW v \in Value, AnalyzeValue(v) \/ AnalyzeCfg(v) PROVE WorklistInv'
  <2>1. to_visit = {} /\ to_visit' = {}
    BY <1>3 DEF AnalyzeValue, AnalyzeCfg, WorklistInv
  <2> QED
    BY <2>1 DEF WorklistInv, NoCallVisitedTwice
<1>4. ASSUME NextRound PROVE WorklistInv'
  <2>1. /\ to_visit' \cap visited' = {}
        /\ to_precompute_value' = {} /\ to_precompute_cfg' = {}
        /\ call_stack' = <<>>
    BY <1>4 DEF NextRound, Analyzed, requestVars
  <2>2. Ordinary(call_stack)'
    BY <2>1, EmptyStack DEF Ordinary, IsStack, FramesOf
  <2> QED
    BY <2>1, <2>2 DEF WorklistInv, NoCallVisitedTwice
<1>5. ASSUME NEW v \in Value,
             \/ VisitOperands(v) \/ VisitLoad(v) \/ VisitStoreValue(v) \/ VisitPhi(v)
             \/ VisitSelect(v) \/ VisitArg(v) \/ VisitCall(v)
      PROVE  WorklistInv'
  <2>1. /\ to_visit' = to_visit \ {v}
        /\ to_precompute_value' = {} /\ to_precompute_cfg' = {}
    BY <1>5 DEF VisitOperands, VisitLoad, VisitStoreValue, VisitPhi, VisitSelect,
       VisitArg, VisitCall, Visit, Analyzed, requestVars
  <2>2. visited' \subseteq visited \cup {v}
    BY <1>5 DEF VisitOperands, VisitLoad, VisitStoreValue, VisitPhi, VisitSelect,
       VisitArg, VisitCall
  <2>3. Ordinary(call_stack')
    <3>1. ASSUME VisitOperands(v) \/ VisitSelect(v) PROVE Ordinary(call_stack')
      BY <3>1, OrdinaryHelpers, OrdinaryConcat DEF VisitOperands, VisitSelect
    <3>2. ASSUME VisitLoad(v) PROVE Ordinary(call_stack')
      BY <3>2, OrdinaryHelpers DEF VisitLoad
    <3>3. ASSUME VisitStoreValue(v) \/ VisitPhi(v) PROVE Ordinary(call_stack')
      <4>1. Ordinary(Invoke("visit_store", v))
        BY LoopStack
      <4>2. Ordinary(Loop("visit_phi", v, Operands[v]))
        BY LoopStack
      <4> QED
        BY <3>3, <4>1, <4>2 DEF VisitStoreValue, VisitPhi
    <3>4. ASSUME VisitArg(v) PROVE Ordinary(call_stack')
      <4> DEFINE s == IF v \in args_to_use THEN <<>>
                      ELSE Loop("visit_arg", v, Callsites(ParentOf[v]))
      <4>1. Ordinary(s)
        BY LoopStack, EmptyStack
      <4> HIDE DEF s
      <4>2. call_stack' = s \o PtrUsages(v)
        BY <3>4 DEF VisitArg, s
      <4> QED
        BY <4>1, <4>2, OrdinaryHelpers, OrdinaryConcat
    <3>5. ASSUME VisitCall(v) PROVE Ordinary(call_stack')
      <4>1. \E vs : call_stack' = IncludeNeeds(v, vs) \o Invoke("check_call", v)
                                  \o PtrUsages(v)
        BY <3>5 DEF VisitCall
      <4>2. Ordinary(Invoke("check_call", v))
        BY LoopStack
      <4>3. \A vs : Ordinary(IncludeNeeds(v, vs) \o Invoke("check_call", v))
        BY <4>2, OrdinaryHelpers, OrdinaryConcat
      <4> QED
        BY <4>1, <4>3, OrdinaryHelpers, OrdinaryConcat
    <3> QED
      BY <1>5, <3>1, <3>2, <3>3, <3>4, <3>5
  <2>4. Ordinary(call_stack') = Ordinary(call_stack)'
    BY DEF Ordinary, IsStack, FramesOf
  <2> QED
    BY <2>1, <2>2, <2>3, <2>4 DEF WorklistInv, NoCallVisitedTwice
<1>6. \/ call_stack # <<>>
      \/ NextRound
      \/ \E v \in Value :
           \/ AnalyzeValue(v) \/ AnalyzeCfg(v)
           \/ VisitOperands(v) \/ VisitLoad(v) \/ VisitStoreValue(v) \/ VisitPhi(v)
           \/ VisitSelect(v) \/ VisitArg(v) \/ VisitCall(v)
  BY DEF Next, AnalyzedValue, AnalyzedCfg, VisitStore, CheckCall, IncludeAgain,
     IncludeValue, IncludeFunctionCallsite, VisitPhiIncoming, VisitArgCallsite,
     PtrUsedPlainly, PtrStore, PtrPhi, PtrSelect, VisitCallFromPtr, PtrArg, PtrRet,
     PtrRetCallsite, UsedBy, Running
<1> QED
  BY <1>2, <1>3, <1>4, <1>5, <1>6

\* The assert at the start of visit_call cannot fail, whatever the program: only
\* visiting a call marks it as visited, and the round visits it once.
THEOREM NoCallIsVisitedTwice == Spec => []NoCallVisitedTwice
<1>1. Init => WorklistInv
  BY DEF Init, WorklistInv, NoCallVisitedTwice
<1>2. TypeOK /\ WorklistInv /\ [Next]_vars => WorklistInv'
  <2> SUFFICES ASSUME TypeOK, WorklistInv, UNCHANGED vars
               PROVE  WorklistInv'
    BY WorklistStep
  <2> QED
    BY DEF WorklistInv, NoCallVisitedTwice, Ordinary, IsStack, FramesOf, vars, requestVars
<1>3. WorklistInv => NoCallVisitedTwice
  BY DEF WorklistInv
<1> QED
  BY <1>1, <1>2, <1>3, TypeCorrect, PTL DEF Spec

-----------------------------------------------------------------------------
(* Control flow.                                                           *)

LEMMA PendingFrames ==
  ASSUME NEW op, NEW x
  PROVE  Pending(op, x) <=> \E f \in FramesOf(call_stack) : f.op = op /\ x \in f.rest
BY DEF Pending, FramesOf

LEMMA PendingFramesNext ==
  ASSUME NEW op, NEW x
  PROVE  Pending(op, x)' <=> \E f \in FramesOf(call_stack') : f.op = op /\ x \in f.rest
BY DEF Pending, FramesOf

\* What is to be included is not forgotten.
LEMMA PendingKept ==
  ASSUME TypeOK, Next, NEW t, Pending("include", t)
  PROVE  Pending("include", t)' \/ t \in included'
<1>1. PICK f \in FramesOf(call_stack) : f.op = "include" /\ t \in f.rest
  BY PendingFrames
<1>2. call_stack # <<>>
  BY <1>1, EmptyStack
<1>3. Continues(call_stack')
  BY <1>2, RunningSteps
<1>4. FramesOf(call_stack) = {Current} \cup FramesOf(Callers)
  BY <1>2, TypedStack DEF TypeOK, Current, Callers
<1>5. CASE f \in FramesOf(Callers)
  BY <1>1, <1>3, <1>5, PendingFramesNext DEF Continues
<1>6. CASE f = Current
  <2>1. Current.op = "include"
    BY <1>1, <1>6
  <2>2. PICK v \in Value : IncludeAgain(v) \/ IncludeValue(v)
    BY <1>2, <2>1 DEF Next, AnalyzedValue, AnalyzedCfg, NextRound, VisitStore,
       CheckCall, AnalyzeValue, AnalyzeCfg, IncludeFunctionCallsite, VisitOperands,
       VisitLoad, VisitStoreValue, VisitPhi, VisitPhiIncoming, VisitSelect, VisitArg,
       VisitArgCallsite, VisitCall, PtrUsedPlainly, PtrStore, PtrPhi, PtrSelect,
       VisitCallFromPtr, PtrArg, PtrRet, PtrRetCallsite, UsedBy, Visit, Analyzed,
       Running, Current
  <2>3. v \in included'
    BY <2>2 DEF IncludeAgain, IncludeValue
  <2>4. CASE t # v
    <3> DEFINE g == [op |-> "include", subject |-> Current.subject,
                     rest |-> Current.rest \ {v}]
    <3>1. t \in g.rest /\ g.op = "include"
      BY <1>1, <1>6, <2>4
    <3>2. Continues(Callers) /\ Running("include")
      BY <2>2, ContinuesRest DEF IncludeAgain, IncludeValue
    <3>3. /\ IsStack(RestOfLoop(v))
          /\ FramesOf(RestOfLoop(v)) = {g} \cup FramesOf(Callers)
      BY <2>1, <3>1, <3>2, LoopStack, StackConcat DEF RestOfLoop, Continues
    <3> HIDE DEF g
    <3>4. g \in FramesOf(call_stack')
      <4>1. CASE IncludeAgain(v)
        BY <3>3, <4>1 DEF IncludeAgain
      <4>2. CASE IncludeValue(v)
        <5> DEFINE s == Loop("include", v, Terminators(v))
                   u == IF FunctionToInclude(v) = {} THEN <<>>
                        ELSE TaintCallsites(ParentOf[v])
                   w == Loop("include", v, needs[v])
        <5>1. Ordinary(s) /\ Ordinary(u) /\ Ordinary(w)
          BY LoopStack, EmptyStack, OrdinaryHelpers
        <5> HIDE DEF s, u, w
        <5>2. Ordinary(s \o u \o w)
          BY <5>1, OrdinaryConcat
        <5>3. call_stack' = s \o u \o w \o RestOfLoop(v)
          BY <4>2 DEF IncludeValue, s, u, w
        <5> QED
          BY <3>3, <5>2, <5>3, StackConcat DEF Ordinary
      <4> QED
        BY <2>2, <4>1, <4>2
    <3> QED
      BY <3>1, <3>4, PendingFramesNext
  <2> QED
    BY <2>3, <2>4
<1> QED
  BY <1>1, <1>4, <1>5, <1>6

\* Including a value asks for the terminators before its block.
LEMMA TerminatorsPending ==
  ASSUME TypeOK, NEW v \in Value, IncludeValue(v), NEW t \in Terminators(v)
  PROVE  Pending("include", t)'
<1> DEFINE s == Loop("include", v, Terminators(v))
           u == IF FunctionToInclude(v) = {} THEN <<>>
                ELSE TaintCallsites(ParentOf[v])
           w == Loop("include", v, needs[v])
           f == [op |-> "include", subject |-> v, rest |-> Terminators(v)]
<1>1. Ordinary(s) /\ Ordinary(u) /\ Ordinary(w)
  BY LoopStack, EmptyStack, OrdinaryHelpers
<1>2. f \in FramesOf(s) /\ f.op = "include" /\ t \in f.rest
  BY LoopStack
<1> HIDE DEF s, u, w, f
<1>3. f \in FramesOf(s \o u) /\ Ordinary(s \o u)
  BY <1>1, <1>2, StackConcat, OrdinaryConcat DEF Ordinary
<1>4. f \in FramesOf(s \o u \o w) /\ Ordinary(s \o u \o w)
  BY <1>1, <1>3, StackConcat, OrdinaryConcat DEF Ordinary
<1>5. Continues(RestOfLoop(v))
  BY ContinuesRest DEF IncludeValue
<1>6. call_stack' = s \o u \o w \o RestOfLoop(v)
  BY DEF IncludeValue, s, u, w
<1>7. f \in FramesOf(call_stack')
  BY <1>4, <1>5, <1>6, StackConcat DEF Ordinary, Continues
<1> QED
  BY <1>2, <1>7, PendingFramesNext

\* What a step does to the slice and its functions.
LEMMA SliceSteps ==
  ASSUME Next
  PROVE  /\ include_in_precompute \subseteq include_in_precompute'
         /\ included' = included \/ \E v \in Value : IncludeValue(v)
<1>1. ASSUME \/ AnalyzedValue \/ AnalyzedCfg \/ NextRound \/ VisitStore \/ CheckCall
             \/ \E v \in Value :
                  \/ AnalyzeValue(v) \/ AnalyzeCfg(v)
                  \/ IncludeAgain(v) \/ IncludeFunctionCallsite(v)
                  \/ VisitOperands(v) \/ VisitLoad(v) \/ VisitStoreValue(v)
                  \/ VisitPhi(v) \/ VisitPhiIncoming(v) \/ VisitSelect(v)
                  \/ VisitArg(v) \/ VisitArgCallsite(v) \/ VisitCall(v)
      PROVE  included' = included /\ include_in_precompute \subseteq include_in_precompute'
  BY <1>1 DEF AnalyzedValue, AnalyzedCfg, NextRound, VisitStore, CheckCall,
     AnalyzeValue, AnalyzeCfg, IncludeAgain, IncludeFunctionCallsite, VisitOperands,
     VisitLoad, VisitStoreValue, VisitPhi, VisitPhiIncoming, VisitSelect, VisitArg,
     VisitArgCallsite, VisitCall, funcVars
<1>2. ASSUME NEW v \in Value,
             \/ PtrUsedPlainly(v) \/ PtrStore(v) \/ PtrPhi(v) \/ PtrSelect(v)
             \/ VisitCallFromPtr(v) \/ PtrArg(v) \/ PtrRet(v) \/ PtrRetCallsite(v)
      PROVE  included' = included /\ include_in_precompute \subseteq include_in_precompute'
  BY <1>2 DEF PtrUsedPlainly, PtrStore, PtrPhi, PtrSelect, VisitCallFromPtr, PtrArg,
     PtrRet, PtrRetCallsite, funcVars
<1>3. ASSUME NEW v \in Value, IncludeValue(v)
      PROVE  include_in_precompute \subseteq include_in_precompute'
  BY <1>3 DEF IncludeValue
<1> QED
  BY <1>1, <1>2, <1>3 DEF Next

LEMMA ControlFlowStep ==
  ASSUME TypeOK, ControlFlowClosed, Next
  PROVE  ControlFlowClosed'
<1> SUFFICES ASSUME NEW u \in included' \cap Inst
             PROVE  /\ \A t \in ControlledBy[u] : t \in included' \/ Pending("include", t)'
                    /\ u \in EntryInst => ParentOf[u] \in include_in_precompute'
  BY DEF ControlFlowClosed
<1>1. included \subseteq included' /\ include_in_precompute \subseteq include_in_precompute'
  BY SliceSteps DEF IncludeValue
<1>2. CASE u \in included
  BY <1>1, <1>2, PendingKept DEF ControlFlowClosed
<1>3. CASE u \notin included
  <2>1. IncludeValue(u)
    <3>1. PICK v \in Value : IncludeValue(v)
      BY <1>3, SliceSteps
    <3>2. included' = included \cup {v}
      BY <3>1 DEF IncludeValue
    <3> QED
      BY <1>3, <3>1, <3>2
  <2>2. u \in Value /\ Terminators(u) = ControlledBy[u]
    BY KindsOfValues DEF Terminators
  <2>3. \A t \in ControlledBy[u] : Pending("include", t)'
    BY <2>1, <2>2, TerminatorsPending
  <2>4. u \in EntryInst => ParentOf[u] \in include_in_precompute'
    BY <2>1 DEF IncludeValue, FunctionToInclude
  <2> QED
    BY <2>3, <2>4
<1> QED
  BY <1>2, <1>3

\* No order of visits, no recursion and no cycle of blocks makes the analysis
\* lose a branch that controls an instruction of the slice, or the function of
\* an entry block: the early return for what is already included is sound.
THEOREM ControlFlowStaysClosed == Spec => []ControlFlowClosed
<1>1. Init => ControlFlowClosed
  BY DEF Init, ControlFlowClosed
<1>2. TypeOK /\ ControlFlowClosed /\ [Next]_vars => ControlFlowClosed'
  <2> SUFFICES ASSUME TypeOK, ControlFlowClosed, UNCHANGED vars
               PROVE  ControlFlowClosed'
    BY ControlFlowStep
  <2> QED
    BY DEF ControlFlowClosed, Pending, vars, funcVars
<1> QED
  BY <1>1, <1>2, TypeCorrect, PTL DEF Spec

=============================================================================
