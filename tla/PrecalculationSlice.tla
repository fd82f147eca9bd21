------------------------- MODULE PrecalculationSlice -------------------------
(***************************************************************************)
(* What the precalculation analysis promises about the slice it computes.  *)
(* Precompute_insertion.cpp copies the functions of the slice and removes  *)
(* every instruction from the copies that is not included.                 *)
(***************************************************************************)
EXTENDS PrecalculationAnalysis

\* x is the subject of a loop of op that has not come to it yet.
Pending(op, x) ==
  \E k \in DOMAIN call_stack : call_stack[k].op = op /\ x \in call_stack[k].rest

-----------------------------------------------------------------------------
(* Invariants.                                                             *)

\* The branches that decide whether an included instruction runs are in the
\* slice, and so is the function whose entry block holds it: otherwise the
\* pruned copy reaches the instruction when the program does not, or never
\* (include_value_in_precompute, insert_necessary_control_flow).
ControlFlowClosed ==
  \A v \in included \cap Inst :
    /\ \A t \in ControlledBy[v] : t \in included \/ Pending("include", t)
    /\ v \in EntryInst => ParentOf[v] \in include_in_precompute

\* "assert(!call_info->is_visited())" of visit_call: the worklist holds no
\* call that something else has visited since the round was collected.
NoCallVisitedTwice == to_visit \cap Call \cap visited = {}

\* The asserts on is_valid in PtrUsageInfo: a pointer refers to an info that
\* is not merged into another one, and that info knows it as a user, so that
\* propergate_changes reaches it.
ReferencesAreValid ==
  /\ \A p \in Pointer :
       /\ merged_with[ptr_info[p]] = ptr_info[p]
       /\ p \in ptrs_with_this_info[ptr_info[p]]
  /\ \A i \in Info : merged_with[merged_with[i]] = merged_with[i]

\* The assert in include_value_in_precompute: a store is only included when its
\* value can still be read.
IncludedStoreMatters ==
  \A s \in OfKind("store") \cap included : IsStoreImportant(s, InfoOf(PtrOperand[s]))

NeededOrRequested ==
  request.value \cup request.cfg \cup UNION {Terminators(u) \cup needs[u] : u \in included}

\* Nothing is in the slice without a reason the analysis knows: a request, the
\* control flow or the operands of something in the slice, a call that has to
\* stay or whose callee writes a value that is read, a store that is read.
IncludedForAReason ==
  \A v \in included \ NeededOrRequested :
    \/ v \in Call /\ ShouldCallBeIncluded(v)
    \/ \E s \in OfKind("store") \cap tainted_values :
         /\ v \in {s} \cup Operands[s]
         /\ IsStoreImportant(s, InfoOf(PtrOperand[s]))

-----------------------------------------------------------------------------
(* When the worklist is empty.                                             *)

\* What a value is computed of, for an argument at every call.  What a call yields
\* comes out of its callee, see CalleesIncluded.
OperandsNeeded(v) ==
  CASE v \in OfKind("arg") -> {ArgOperand[c][v] : c \in Callsites(ParentOf[v])}
    [] v \in Call          -> {}
    [] OTHER               -> Operands[v]

\* A value of the slice can be computed in the slice: its operands are in it,
\* for an argument those of every call.  An instruction that the slice only has to
\* pass is not computed.
OperandsIncluded ==
  Done => \A v \in included \ request.cfg : OperandsNeeded(v) \subseteq included

\* Every store through a known pointer that a load may read later is in the
\* slice, with its value and its pointer, however late the load is found.
StoresComplete ==
  Done => \A s \in OfKind("store") :
            /\ PtrOperand[s] \in tainted_values
            /\ IsStoreImportant(s, InfoOf(PtrOperand[s]))
            => {s} \cup Operands[s] \subseteq included

\* Pointers that hold the same address share one info ("so that we have only
\* one valid object per pointer alias group"): an argument and its operand, a
\* phi and an incoming value, a select and what it chooses, a returned pointer
\* and the call.  What is read through one of them makes the writes through the
\* other important.
Aliases ==
  (UNION {{<<a, ArgOperand[c][a]>> : a \in FormalArgs(CalledFunction[c])} : c \in Call})
  \cup (UNION {{<<v, x>> : x \in SelectedBy(v)} : v \in OfKind("phi") \cup OfKind("select")})
  \cup (UNION {Operands[r] \X Callsites(ParentOf[r]) : r \in OfKind("ret")})

OneInfoPerAliasGroup ==
  Done => \A alias \in Aliases :
            {alias[1], alias[2]} \subseteq tainted_values \cap Pointer
            => InfoOf(alias[1]) = InfoOf(alias[2])

\* The function of an included instruction is copied into the slice.
ParentsIncluded ==
  Done => \A v \in included \cap Inst : ParentOf[v] \in include_in_precompute

\* Every call of a function of the slice is known to the analysis, which decides
\* about it (CONTROL_FLOW_CALLEE_NEEDED).
CallersKnown ==
  Done => \A f \in include_in_precompute : Callsites(f) \subseteq tainted_values

ResultUsed(c) == \E u \in included \ request.cfg : c \in OperandsNeeded(u)

\* A call that the slice keeps calls a copy: replace_calls_in_copy expects
\* that the pruning removes a call of a function that has none.  If something in
\* the slice is computed of the result, the copy returns it ("we will visit the
\* call if the retval is needed").
CalleesIncluded ==
  Done => \A c \in included \cap Call :
            /\ CalledFunction[c] \in include_in_precompute
            /\ ResultUsed(c) => ReturnsOf(CalledFunction[c]) \subseteq included

\* "always include all calls to this func (it must always execute aka contains
\* the register precompute cals)": a function that holds a request, and every
\* function that leads to it.
AllCallsitesIncluded ==
  Done => \A f \in include_all_callsites : Callsites(f) \subseteq included

\* "for other functions, if the writes done by the func are not important
\* anymore, we can skip calling them": a known call that leads to a store of the
\* slice, at any depth, stays when what it writes may be read after the call.
WritingCallsIncluded ==
  Done => \A c \in Call \cap tainted_values : \A s \in OfKind("store") \cap included :
            /\ ParentOf[s] \in CalleesWithin[CalledFunction[c]]
            /\ IsStoreImportant(c, InfoOf(PtrOperand[s]))
            => c \in included

-----------------------------------------------------------------------------
(* Liveness.                                                               *)

\* The rounds of find_all_tainted_vals come to an end although every change of
\* an info, an edge or a function puts values back on the worklist.
Termination == <>Done

-----------------------------------------------------------------------------
(* Refinement.                                                             *)

\* A pointer is in the group of all pointers with its info, which says what is
\* known of the group.
Groups == INSTANCE AliasGroups WITH
  Chosen <- [v \in OfKind("select") \cap Pointer |-> SelectedBy(v)],
  group  <- [p \in Pointer |-> {q \in Pointer : InfoOf(q) = InfoOf(p)}],
  reads  <- [p \in Pointer |-> loads[InfoOf(p)]],
  writes <- [p \in Pointer |-> stores[InfoOf(p)]],
  direct <- [p \in Pointer |-> is_used_directly[InfoOf(p)]]

\* The infos, whatever of them is merged or revisited when, never say more or less
\* of a pointer than its group does.
InfosActAsGroups == Groups!Spec

=============================================================================
