----------------------- MODULE PrecalculationAnalysis -----------------------
(***************************************************************************)
(* The worklist that computes the slice: PrecalculationAnalysis of         *)
(* lib/precompute/compiler/precalculations.cpp with TaintedValue and       *)
(* PtrUsageInfo.                                                           *)
(*                                                                         *)
(* A value is tainted when the analysis knows it, and included when it     *)
(* belongs to the slice.  Visiting a tainted value taints what it depends  *)
(* on and, when it is included, includes it.  The program is sequential,   *)
(* but every loop over a std::set of shared pointers runs in the order of  *)
(* heap addresses, so each such loop takes its elements in any order.  The *)
(* calls in progress are on call_stack; one step runs one call up to the   *)
(* next nested one.                                                        *)
(***************************************************************************)
EXTENDS PrecalculationProgram

CONSTANT
  Requests   \* what the user may ask for: values to precompute (value), and
             \* instructions the slice has to pass (cfg)

\* The values are arguments of calls, the instructions are these calls.
ASSUME RequestAssumption ==
  Requests \subseteq [value : SUBSET (Value \ OfKind("store")),
                     cfg : SUBSET (Inst \ OfKind("store"))]

VARIABLES
  request,               \* what the user asks for
  to_precompute_value,   \* requested values analyze() has not inserted yet
  to_precompute_cfg,     \* requested instructions it has not inserted yet
  to_visit,              \* rest of the current round of find_all_tainted_vals
  call_stack,            \* calls in progress, innermost first
  tainted_values,
  visited,
  included,              \* tainted values with _include_in_precompute
  needs,                 \* TaintedValue::needs (needed_for is its inverse)
  include_in_precompute, \* functions the slice contains
  include_all_callsites, \* functions whose call sites must all be kept
  args_to_use,           \* arguments whose call sites have been looked up
  ptr_written,           \* pointer infos a function writes directly
  ptr_info,              \* the info object of a pointer
  merged_with,           \* the valid info an info forwards to, itself if valid
  ptrs_with_this_info,   \* the users of an info
  loads,
  stores,
  is_used_directly

valueVars == <<tainted_values, needs>>
funcVars == <<include_in_precompute, include_all_callsites>>
aliasVars == <<ptr_info, merged_with, ptrs_with_this_info>>
infoVars == <<loads, stores, is_used_directly>>
requestVars == <<request, to_precompute_value, to_precompute_cfg>>
vars == <<requestVars, to_visit, call_stack, valueVars, visited, included,
          funcVars, args_to_use, ptr_written, aliasVars, infoVars>>

\* An info object is named by the pointer it was created for.
Info == Pointer

\* The calls that can be in progress: the function (op), what it was called
\* with (subject), and what its loop still has to come to (rest).
Frame ==
  [op : {"include"}, subject : Value, rest : SUBSET Value]
  \cup [op : {"callsites"}, subject : Function, rest : SUBSET Call]
  \cup [op : {"requested_value"}, subject : Value, rest : {{}}]
  \cup [op : {"requested_cfg"}, subject : Inst, rest : {{}}]
  \cup [op : {"visit_store"}, subject : OfKind("store"), rest : {{}}]
  \cup [op : {"check_call"}, subject : Call, rest : {{}}]
  \cup {f \in [op : {"visit_phi"}, subject : OfKind("phi"), rest : SUBSET Value] :
          f.rest \subseteq Operands[f.subject]}
  \cup {f \in [op : {"visit_arg"}, subject : OfKind("arg"), rest : SUBSET Call] :
          f.rest \subseteq Callsites(ParentOf[f.subject])}
  \cup {f \in [op : {"ptr_usages"}, subject : Pointer, rest : SUBSET Value] :
          f.rest \subseteq Users(f.subject)}
  \cup [op : {"ptr_args"}, subject : Pointer, rest : SUBSET (OfKind("arg") \cap Pointer)]
  \cup [op : {"ptr_ret"}, subject : Pointer, rest : SUBSET (Call \cap Pointer)]

TypeOK ==
  /\ request \in Requests
  /\ to_precompute_value \subseteq Value
  /\ to_precompute_cfg \subseteq Inst
  /\ to_visit \subseteq Value
  /\ call_stack \in Seq(Frame)
  /\ tainted_values \subseteq Value
  /\ visited \subseteq Value
  /\ included \subseteq Value
  /\ needs \in [Value -> SUBSET Value]
  /\ include_in_precompute \subseteq Function
  /\ include_all_callsites \subseteq Function
  /\ args_to_use \subseteq Value
  /\ ptr_written \in [Function -> SUBSET Info]
  /\ ptr_info \in [Pointer -> Info]
  /\ merged_with \in [Info -> Info]
  /\ ptrs_with_this_info \in [Info -> SUBSET Pointer]
  /\ loads \in [Info -> SUBSET Inst]
  /\ stores \in [Info -> SUBSET Inst]
  /\ is_used_directly \in [Info -> BOOLEAN]

-----------------------------------------------------------------------------
(* Calls in progress.                                                      *)

\* A loop of function op over the values in rest; an empty loop is over.
Loop(op, subject, rest) ==
  IF rest = {} THEN <<>>
  ELSE <<[op |-> op, subject |-> subject, rest |-> rest]>>

\* A call that runs in one step of its own.
Invoke(op, subject) == <<[op |-> op, subject |-> subject, rest |-> {}]>>

Running(op) == call_stack # <<>> /\ Head(call_stack).op = op
Current == Head(call_stack)

\* The callers of the innermost call, and the stack once its loop took x.
Callers == Tail(call_stack)
RestOfLoop(x) == Loop(Current.op, Current.subject, Current.rest \ {x}) \o Callers

-----------------------------------------------------------------------------
(* insert_tainted_value.                                                   *)

\* v is needed for each of the values vs.
InsertNeeds(v, vs) ==
  /\ tainted_values' = tainted_values \cup vs
  /\ needs' = [needs EXCEPT ![v] = @ \cup vs]

\* Mutant: visits again on every insertion.
NeededAgain(v, vs) == vs

\* Inserted with an edge that was not known: visit (again).
NewlyNeeded(v, vs) == vs \ needs[v]

\* Mutants: never propagates the inclusion; propagates it for every value.
NeedsNotIncluded(v, vs) == <<>>

NeedsAlwaysIncluded(v, vs) == Loop("include", v, vs)

\* What is inserted as needed for an included value is included as well.
IncludeNeeds(v, vs) ==
  IF v \in included THEN Loop("include", v, vs) ELSE <<>>

\* u, a user of the value from, is inserted from it (needed_from = false).
InsertUser(u, from) ==
  /\ tainted_values' = tainted_values \cup {u}
  /\ needs' = [needs EXCEPT ![u] = @ \cup {from}]

NewUser(u, from) == IF from \in needs[u] THEN {} ELSE {u}

-----------------------------------------------------------------------------
(* Pointer infos.                                                          *)

InfoOf(p) == merged_with[ptr_info[p]]

\* Mutants: copies what is known without forwarding; forwards without
\* redirecting the users of the merged info.
CopyInsteadOfMerge(i, j) ==
  /\ loads' = [loads EXCEPT ![i] = @ \cup loads[j]]
  /\ stores' = [stores EXCEPT ![i] = @ \cup stores[j]]
  /\ is_used_directly' = [is_used_directly EXCEPT ![i] = @ \/ is_used_directly[j]]
  /\ UNCHANGED aliasVars

MergeKeepingReferences(i, j) ==
  /\ merged_with' = [merged_with EXCEPT ![j] = i]
  /\ UNCHANGED <<ptr_info, ptrs_with_this_info, infoVars>>

\* PtrUsageInfo::merge_with between two valid infos.
MergeWith(i, j) ==
  IF i = j THEN UNCHANGED <<aliasVars, infoVars>>
  ELSE
    /\ ptr_info' = [p \in Pointer |->
                      IF p \in ptrs_with_this_info[j] THEN i ELSE ptr_info[p]]
    /\ merged_with' = [k \in Info |->
                         IF merged_with[k] = j THEN i ELSE merged_with[k]]
    /\ ptrs_with_this_info' =
         [ptrs_with_this_info EXCEPT ![i] = @ \cup ptrs_with_this_info[j],
                                     ![j] = {}]
    /\ loads' = [loads EXCEPT ![i] = @ \cup loads[j]]
    /\ stores' = [stores EXCEPT ![i] = @ \cup stores[j]]
    /\ is_used_directly' =
         [is_used_directly EXCEPT ![i] = @ \/ is_used_directly[j]]

MergeChanges(i, j) ==
  \/ (loads[i] = {}) # (loads[j] = {})
  \/ (stores[i] = {}) # (stores[j] = {})
  \/ ~ loads[j] \subseteq loads[i]
  \/ ~ stores[j] \subseteq stores[i]
  \/ is_used_directly[j] /\ ~ is_used_directly[i]

\* Mutant: the users do not learn of the merge.
MergeWithoutRevisit(i, j) == {}

\* propergate_changes of a merge.
ReVisitMerged(i, j) ==
  IF i # j /\ MergeChanges(i, j)
  THEN ptrs_with_this_info[i] \cup ptrs_with_this_info[j]
  ELSE {}

-----------------------------------------------------------------------------
(* Which stores and calls matter.                                          *)

AllTransitiveInsts(insts) == UNION {TransitiveInsts[i] : i \in insts}

\* Mutant: ignores the calls that lead to the load and the store.
StoreHappensAfterDirectLoads(inst, i) ==
  \A l \in loads[i] : l = inst \/ l \notin ReachableFrom[inst]

StoreHappensAfterAllLoads(inst, i) ==
  \A l \in AllTransitiveInsts(loads[i]) : \A s \in TransitiveInsts[inst] :
     l = s \/ l \notin ReachableFrom[s]

IsStoreImportant(inst, i) ==
  loads[i] # {} /\ ~ StoreHappensAfterAllLoads(inst, i)

\* Mutant: only what f writes itself.
PtrWrittenDirectly(f) == ptr_written[f]

PtrWrittenRecursive(f) ==
  UNION {ptr_written[g] : g \in CalleesWithin[f]}

\* Mutant: takes a call for one whose result is ignored.
RetvalIgnored(c) == FALSE

IsRetvalNeeded(c) == Users(c) \cap tainted_values # {}

\* Mutant: asks for the writes only.
OnlyWritingCallIncluded(c) ==
  \E i \in PtrWrittenRecursive(CalledFunction[c]) : IsStoreImportant(c, merged_with[i])

ShouldCallBeIncluded(c) ==
  \/ CalledFunction[c] \in include_all_callsites
  \/ \E i \in PtrWrittenRecursive(CalledFunction[c]) :
       IsStoreImportant(c, merged_with[i])

-----------------------------------------------------------------------------
(* analyze().                                                              *)

Init ==
  /\ request \in Requests
  /\ to_precompute_value = request.value
  /\ to_precompute_cfg = request.cfg
  /\ to_visit = {}
  /\ call_stack = <<>>
  /\ tainted_values = {}
  /\ visited = {}
  /\ included = {}
  /\ needs = [v \in Value |-> {}]
  /\ include_in_precompute = {}
  /\ include_all_callsites = {}
  /\ args_to_use = {}
  /\ ptr_written = [f \in Function |-> {}]
  /\ ptr_info = [p \in Pointer |-> p]
  /\ merged_with = [i \in Info |-> i]
  /\ ptrs_with_this_info = [i \in Info |-> {i}]
  /\ loads = [i \in Info |-> {}]
  /\ stores = [i \in Info |-> {}]
  /\ is_used_directly = [i \in Info |-> FALSE]

AnalyzeValue(v) ==
  /\ call_stack = <<>>
  /\ v \in to_precompute_value
  /\ to_precompute_value' = to_precompute_value \ {v}
  /\ tainted_values' = tainted_values \cup {v}
  /\ call_stack' = Loop("include", v, {v}) \o Invoke("requested_value", v)
  /\ UNCHANGED <<request, to_precompute_cfg, to_visit, visited, included, needs,
                 funcVars, args_to_use, ptr_written, aliasVars, infoVars>>

\* The rest of the loop body: every call of the function has to stay.
AnalyzedValue ==
  /\ Running("requested_value")
  /\ call_stack' = Callers
  /\ IF Current.subject \in Inst
     THEN LET f == ParentOf[Current.subject]
          IN  /\ include_all_callsites' = include_all_callsites \cup {f}
              /\ visited' = visited \ Callsites(f)
     ELSE UNCHANGED <<include_all_callsites, visited>>
  /\ UNCHANGED <<requestVars, to_visit, valueVars, included,
                 include_in_precompute, args_to_use, ptr_written, aliasVars,
                 infoVars>>

AnalyzeCfg(i) ==
  /\ call_stack = <<>>
  /\ to_precompute_value = {}
  /\ i \in to_precompute_cfg
  /\ to_precompute_cfg' = to_precompute_cfg \ {i}
  /\ tainted_values' = tainted_values \cup {i}
  /\ call_stack' = Loop("include", i, {i}) \o Invoke("requested_cfg", i)
  /\ UNCHANGED <<request, to_precompute_value, to_visit, visited, included, needs,
                 funcVars, args_to_use, ptr_written, aliasVars, infoVars>>

AnalyzedCfg ==
  /\ Running("requested_cfg")
  /\ LET f == ParentOf[Current.subject]
     IN  /\ include_all_callsites' = include_all_callsites \cup {f}
         /\ visited' = (visited \cup {Current.subject}) \ Callsites(f)
  /\ call_stack' = Callers
  /\ UNCHANGED <<requestVars, to_visit, valueVars, included,
                 include_in_precompute, args_to_use, ptr_written, aliasVars,
                 infoVars>>

-----------------------------------------------------------------------------
(* include_value_in_precompute, insert_necessary_control_flow and          *)
(* insert_function_to_include.                                             *)

IncludeAgain(v) ==
  /\ Running("include")
  /\ v \in Current.rest
  /\ v \in included
  /\ call_stack' = RestOfLoop(v)
  /\ UNCHANGED <<requestVars, to_visit, valueVars, visited, included, funcVars,
                 args_to_use, ptr_written, aliasVars, infoVars>>

\* Mutants: no control flow; an entry block has no function; call sites are
\* left to be found.
NoTerminators(v) == {}

NoFunctionToInclude(v) == {}

CallsitesUntouched(f) == <<>>

Terminators(v) == IF v \in Inst THEN ControlledBy[v] ELSE {}

\* The function whose entry block holds v, unless it is included already.
FunctionToInclude(v) ==
  IF v \in EntryInst THEN {ParentOf[v]} \ include_in_precompute ELSE {}

\* The loop of insert_function_to_include over the call sites of f.
TaintCallsites(f) == Loop("callsites", f, Callsites(f))

IncludeValue(v) ==
  /\ Running("include")
  /\ v \in Current.rest
  /\ v \notin included
  /\ included' = included \cup {v}
  /\ visited' = visited \ {v}
  /\ tainted_values' = tainted_values \cup Terminators(v)
  /\ include_in_precompute' =
       include_in_precompute \cup FunctionToInclude(v)
         \cup {f \in Function : Kind[v] = "function" /\ ParentOf[v] = f}
  /\ call_stack' = Loop("include", v, Terminators(v))
                   \o (IF FunctionToInclude(v) = {} THEN <<>>
                       ELSE TaintCallsites(ParentOf[v]))
                   \o Loop("include", v, needs[v])
                   \o RestOfLoop(v)
  /\ UNCHANGED <<requestVars, to_visit, needs, include_all_callsites,
                 args_to_use, ptr_written, aliasVars, infoVars>>

\* insert_function_to_include looks at one call site c of the function.
IncludeFunctionCallsite(c) ==
  /\ Running("callsites")
  /\ c \in Current.rest
  /\ tainted_values' = tainted_values \cup {c}
  /\ visited' = visited \ {c}
  /\ LET parent == ParentOf[c]
     IN  IF Current.subject \in include_all_callsites
         THEN /\ include_all_callsites' = include_all_callsites \cup {parent}
              /\ include_in_precompute' = include_in_precompute \cup {parent}
              /\ call_stack' =
                   (IF parent \in include_in_precompute THEN <<>>
                    ELSE TaintCallsites(parent))
                   \o Loop("include", c, {c}) \o RestOfLoop(c)
         ELSE /\ call_stack' = RestOfLoop(c)
              /\ UNCHANGED funcVars
  /\ UNCHANGED <<requestVars, to_visit, needs, included, args_to_use,
                 ptr_written, aliasVars, infoVars>>

-----------------------------------------------------------------------------
(* find_all_tainted_vals and visit_val.                                    *)

Analyzed == call_stack = <<>> /\ to_precompute_value = {} /\ to_precompute_cfg = {}

\* Mutant: a round takes every value.
NextRoundOfAll ==
  /\ Analyzed
  /\ to_visit = {}
  /\ tainted_values \ visited # {}
  /\ to_visit' = tainted_values
  /\ UNCHANGED <<requestVars, call_stack, valueVars, visited, included,
                 funcVars, args_to_use, ptr_written, aliasVars, infoVars>>

NextRound ==
  /\ Analyzed
  /\ to_visit = {}
  /\ tainted_values \ visited # {}
  /\ to_visit' = tainted_values \ visited
  /\ UNCHANGED <<requestVars, call_stack, valueVars, visited, included,
                 funcVars, args_to_use, ptr_written, aliasVars, infoVars>>

Done == Analyzed /\ to_visit = {} /\ tainted_values \subseteq visited

\* The loop takes v, a value of one of the given kinds.
Visit(v, kinds) ==
  /\ Analyzed
  /\ v \in to_visit
  /\ Kind[v] \in kinds
  /\ to_visit' = to_visit \ {v}
  /\ UNCHANGED requestVars

\* visit_val ends with visit_ptr_usages when v is a pointer.
PtrUsages(v) ==
  IF v \in Pointer THEN Loop("ptr_usages", v, Users(v)) ELSE <<>>

\* Only the operands matter (a constant has none).
VisitOperands(v) ==
  /\ Visit(v, {"constant", "function", "plain", "ret"})
  /\ InsertNeeds(v, Operands[v])
  /\ visited' = (visited \ NewlyNeeded(v, Operands[v])) \cup {v}
  /\ call_stack' = IncludeNeeds(v, Operands[v]) \o PtrUsages(v)
  /\ UNCHANGED <<included, funcVars, args_to_use, ptr_written, aliasVars,
                 infoVars>>

VisitLoad(v) ==
  /\ Visit(v, {"load"})
  /\ LET p == PtrOperand[v]
         i == InfoOf(p)
         changed == v \notin loads[i] \/ ~ is_used_directly[i]
     IN  /\ InsertNeeds(v, {p})
         /\ loads' = [loads EXCEPT ![i] = @ \cup TransitiveInsts[v]]
         /\ is_used_directly' = [is_used_directly EXCEPT ![i] = TRUE]
         /\ visited' = (visited \ (NewlyNeeded(v, {p}) \cup
                          (IF changed THEN ptrs_with_this_info[i] ELSE {})))
                       \cup {v}
         /\ call_stack' = IncludeNeeds(v, {p})
  /\ UNCHANGED <<included, funcVars, args_to_use, ptr_written, aliasVars, stores>>

\* add_ptr_write: whether the insertion into the std::set finds i to be new.
\* The elements compare by the info they forward to, so a merge changes the
\* order of a set they are in, and the set may not find an info it holds under
\* the name of one merged into it.
AddPtrWrite(f, i) ==
  IF i \in ptr_written[f] THEN {FALSE}
  ELSE IF \E j \in ptr_written[f] : merged_with[j] = i THEN BOOLEAN
  ELSE {TRUE}

\* visit_val of a store, from the worklist or from visit_ptr_store.
VisitStoreValue(v) ==
  /\ Visit(v, {"store"})
  /\ call_stack' = Invoke("visit_store", v)
  /\ UNCHANGED <<valueVars, visited, included, funcVars, args_to_use,
                 ptr_written, aliasVars, infoVars>>

VisitStore ==
  /\ Running("visit_store")
  /\ LET s == Current.subject
         p == PtrOperand[s]
         i == InfoOf(p)
         f == ParentOf[s]
         important == IsStoreImportant(s, i)
         inserted == IF important THEN Operands[s] ELSE {p}
         changed == s \notin stores[i] \/ ~ is_used_directly[i]
     IN \E isNewWrite \in AddPtrWrite(f, i) :
         /\ InsertNeeds(s, inserted)
         /\ stores' = [stores EXCEPT ![i] = @ \cup TransitiveInsts[s]]
         /\ is_used_directly' = [is_used_directly EXCEPT ![i] = TRUE]
         /\ ptr_written' =
              IF isNewWrite THEN [ptr_written EXCEPT ![f] = @ \cup {i}]
              ELSE ptr_written
         /\ visited' =
              (visited \ (NewlyNeeded(s, inserted)
                          \cup (IF changed THEN ptrs_with_this_info[i] ELSE {})
                          \cup (IF isNewWrite THEN Callsites(f) ELSE {})))
              \cup {s}
         /\ call_stack' =
              IncludeNeeds(s, {p})
              \o (IF important
                  THEN Loop("include", s, Operands[s] \ {p})
                       \o Loop("include", s, {s}) \o Loop("include", s, {p})
                  ELSE <<>>)
              \o Callers
  /\ UNCHANGED <<requestVars, to_visit, included, funcVars, args_to_use,
                 aliasVars, loads>>

VisitPhi(v) ==
  /\ Visit(v, {"phi"})
  /\ call_stack' = Loop("visit_phi", v, Operands[v])
  /\ UNCHANGED <<valueVars, visited, included, funcVars, args_to_use,
                 ptr_written, aliasVars, infoVars>>

\* An incoming value of the phi; after the last one the phi counts as visited
\* whatever the merges changed.
VisitPhiIncoming(x) ==
  /\ Running("visit_phi")
  /\ x \in Current.rest
  /\ LET phi == Current.subject
         isPtr == phi \in Pointer
         last == Current.rest = {x}
         reVisited == NewlyNeeded(phi, {x}) \cup
           (IF isPtr THEN ReVisitMerged(InfoOf(phi), InfoOf(x)) ELSE {})
     IN  /\ InsertNeeds(phi, {x})
         /\ IF isPtr THEN MergeWith(InfoOf(phi), InfoOf(x))
            ELSE UNCHANGED <<aliasVars, infoVars>>
         /\ visited' = (visited \ reVisited) \cup (IF last THEN {phi} ELSE {})
         /\ call_stack' = IncludeNeeds(phi, {x}) \o RestOfLoop(x)
                          \o (IF last THEN PtrUsages(phi) ELSE <<>>)
  /\ UNCHANGED <<requestVars, to_visit, included, funcVars, args_to_use,
                 ptr_written>>

\* Mutant: the condition of a select counts as chosen.
SelectedWithCondition(v) == Operands[v]

SelectedBy(v) == Operands[v] \cap Pointer

\* The chosen pointers take over the info of the select.
VisitSelect(v) ==
  /\ Visit(v, {"select"})
  /\ InsertNeeds(v, Operands[v])
  /\ visited' = (visited \ NewlyNeeded(v, Operands[v])) \cup {v}
  /\ IF v \in Pointer
     THEN /\ ptr_info' = [p \in Pointer |->
                            IF p \in SelectedBy(v) THEN ptr_info[v]
                            ELSE ptr_info[p]]
          /\ ptrs_with_this_info' =
               [ptrs_with_this_info EXCEPT ![InfoOf(v)] = @ \cup SelectedBy(v)]
     ELSE UNCHANGED <<ptr_info, ptrs_with_this_info>>
  /\ call_stack' = IncludeNeeds(v, Operands[v]) \o PtrUsages(v)
  /\ UNCHANGED <<included, funcVars, args_to_use, ptr_written, merged_with,
                 infoVars>>

\* An argument looks up its call sites the first time it is visited.
VisitArg(a) ==
  /\ Visit(a, {"arg"})
  /\ visited' = visited \cup {a}
  /\ args_to_use' = args_to_use \cup {a}
  /\ call_stack' = (IF a \in args_to_use THEN <<>>
                    ELSE Loop("visit_arg", a, Callsites(ParentOf[a])))
                   \o PtrUsages(a)
  /\ UNCHANGED <<valueVars, included, funcVars, ptr_written, aliasVars, infoVars>>

VisitArgCallsite(c) ==
  /\ Running("visit_arg")
  /\ c \in Current.rest
  /\ LET a == Current.subject
         x == ArgOperand[c][a]
         isPtr == a \in Pointer
     IN  /\ InsertNeeds(a, {x})
         /\ IF isPtr THEN MergeWith(InfoOf(a), InfoOf(x))
            ELSE UNCHANGED <<aliasVars, infoVars>>
         /\ visited' = visited \ (NewlyNeeded(a, {x}) \cup
              (IF isPtr THEN ReVisitMerged(InfoOf(a), InfoOf(x)) ELSE {}))
         /\ call_stack' = IncludeNeeds(a, {x}) \o RestOfLoop(c)
  /\ UNCHANGED <<requestVars, to_visit, included, funcVars, args_to_use,
                 ptr_written>>

VisitCall(c) ==
  /\ Visit(c, {"call"})
  /\ LET rets == IF IsRetvalNeeded(c) THEN ReturnsOf(CalledFunction[c]) ELSE {}
     IN  /\ InsertNeeds(c, rets)
         /\ visited' = (visited \ NewlyNeeded(c, rets)) \cup {c}
         /\ call_stack' = IncludeNeeds(c, rets) \o Invoke("check_call", c)
                          \o PtrUsages(c)
  /\ UNCHANGED <<included, funcVars, args_to_use, ptr_written, aliasVars,
                 infoVars>>

\* check_if_call_should_be_included
CheckCall ==
  /\ Running("check_call")
  /\ LET c == Current.subject
         f == CalledFunction[c]
         isNeeded == c \notin included /\ ShouldCallBeIncluded(c)
     IN  /\ include_all_callsites' =
              IF isNeeded /\ f \in include_all_callsites
              THEN include_all_callsites \cup {ParentOf[c]}
              ELSE include_all_callsites
         /\ call_stack' = (IF isNeeded THEN Loop("include", c, {c}) ELSE <<>>)
                          \o Callers
  /\ UNCHANGED <<requestVars, to_visit, valueVars, visited, included,
                 include_in_precompute, args_to_use, ptr_written, aliasVars,
                 infoVars>>

-----------------------------------------------------------------------------
(* visit_ptr_usages: one user of the pointer p.                            *)

UsedBy(u, kinds) ==
  /\ Running("ptr_usages")
  /\ u \in Current.rest
  /\ Kind[u] \in kinds

\* Reading the value and comparing the pointer are allowed.
PtrUsedPlainly(u) ==
  /\ UsedBy(u, {"plain", "load"})
  /\ call_stack' = RestOfLoop(u)
  /\ UNCHANGED <<requestVars, to_visit, valueVars, visited, included, funcVars,
                 args_to_use, ptr_written, aliasVars, infoVars>>

\* Mutant: every store through the pointer is included.
IncludePtrStore(u) ==
  /\ UsedBy(u, {"store"})
  /\ InsertUser(u, Current.subject)
  /\ visited' = visited \ NewUser(u, Current.subject)
  /\ call_stack' = Loop("include", u, {u}) \o RestOfLoop(u)
  /\ UNCHANGED <<requestVars, to_visit, included, funcVars, args_to_use,
                 ptr_written, aliasVars, infoVars>>

\* visit_ptr_store; the flags it sets are those visit_store sets again.
PtrStore(u) ==
  /\ UsedBy(u, {"store"})
  /\ InsertUser(u, Current.subject)
  /\ visited' = visited \ NewUser(u, Current.subject)
  /\ call_stack' = Invoke("visit_store", u) \o RestOfLoop(u)
  /\ UNCHANGED <<requestVars, to_visit, included, funcVars, args_to_use,
                 ptr_written, aliasVars, infoVars>>

PtrPhi(u) ==
  /\ UsedBy(u, {"phi"})
  /\ InsertUser(u, Current.subject)
  /\ visited' = visited \ NewUser(u, Current.subject)
  /\ call_stack' = RestOfLoop(u)
  /\ UNCHANGED <<requestVars, to_visit, included, funcVars, args_to_use,
                 ptr_written, aliasVars, infoVars>>

PtrSelect(u) ==
  /\ UsedBy(u, {"select"})
  /\ LET p == Current.subject
     IN  /\ InsertUser(u, p)
         /\ MergeWith(InfoOf(p), InfoOf(u))
         /\ visited' = visited \ (NewUser(u, p) \cup
                                  ReVisitMerged(InfoOf(p), InfoOf(u)))
         /\ call_stack' = RestOfLoop(u)
  /\ UNCHANGED <<requestVars, to_visit, included, funcVars, args_to_use,
                 ptr_written>>

\* visit_call_from_ptr: the arguments of the callee that get p.
ArgsGetting(c, p) ==
  {a \in FormalArgs(CalledFunction[c]) : ArgOperand[c][a] = p} \ ReadOnlyArg

VisitCallFromPtr(c) ==
  /\ UsedBy(c, {"call"})
  /\ LET p == Current.subject
         args == ArgsGetting(c, p)
     IN  /\ IF args = {} THEN UNCHANGED valueVars ELSE InsertUser(c, p)
         /\ visited' = IF args = {} THEN visited ELSE visited \ NewUser(c, p)
         /\ call_stack' = Loop("ptr_args", p, args) \o RestOfLoop(c)
  /\ UNCHANGED <<requestVars, to_visit, included, funcVars, args_to_use,
                 ptr_written, aliasVars, infoVars>>

PtrArg(a) ==
  /\ Running("ptr_args")
  /\ a \in Current.rest
  /\ LET p == Current.subject
     IN  /\ InsertUser(a, p)
         /\ MergeWith(InfoOf(p), InfoOf(a))
         /\ visited' = visited \ (NewUser(a, p) \cup
                                  ReVisitMerged(InfoOf(p), InfoOf(a)))
         /\ call_stack' = RestOfLoop(a)
  /\ UNCHANGED <<requestVars, to_visit, included, funcVars, args_to_use,
                 ptr_written>>

\* visit_ptr_ret: every call of the function yields the pointer.
PtrRet(r) ==
  /\ UsedBy(r, {"ret"})
  /\ call_stack' = Loop("ptr_ret", Current.subject, Callsites(ParentOf[r]))
                   \o RestOfLoop(r)
  /\ UNCHANGED <<requestVars, to_visit, valueVars, visited, included, funcVars,
                 args_to_use, ptr_written, aliasVars, infoVars>>

PtrRetCallsite(c) ==
  /\ Running("ptr_ret")
  /\ c \in Current.rest
  /\ LET p == Current.subject
     IN  /\ InsertNeeds(p, {c})
         /\ MergeWith(InfoOf(p), InfoOf(c))
         /\ visited' = visited \ (NewlyNeeded(p, {c}) \cup
                                  ReVisitMerged(InfoOf(p), InfoOf(c)))
         /\ call_stack' = IncludeNeeds(p, {c}) \o RestOfLoop(c)
  /\ UNCHANGED <<requestVars, to_visit, included, funcVars, args_to_use,
                 ptr_written>>

-----------------------------------------------------------------------------
Next ==
  \/ AnalyzedValue \/ AnalyzedCfg \/ NextRound \/ VisitStore \/ CheckCall
  \/ \E v \in Value :
       \/ AnalyzeValue(v) \/ AnalyzeCfg(v)
       \/ IncludeAgain(v) \/ IncludeValue(v) \/ IncludeFunctionCallsite(v)
       \/ VisitOperands(v) \/ VisitLoad(v) \/ VisitStoreValue(v)
       \/ VisitPhi(v) \/ VisitPhiIncoming(v) \/ VisitSelect(v)
       \/ VisitArg(v) \/ VisitArgCallsite(v) \/ VisitCall(v)
       \/ PtrUsedPlainly(v) \/ PtrStore(v) \/ PtrPhi(v) \/ PtrSelect(v)
       \/ VisitCallFromPtr(v) \/ PtrArg(v) \/ PtrRet(v) \/ PtrRetCallsite(v)

Spec == Init /\ [][Next]_vars

\* The analysis is a sequential computation that nothing suspends.
FairSpec == Spec /\ WF_vars(Next)

=============================================================================
