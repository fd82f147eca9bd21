----------------------------- MODULE PtrAnalysis -----------------------------
(***************************************************************************)
(* The visits of PrecalculationAnalysis that meet members, pointees and    *)
(* calls of the standard library: GEPs, loads and stores of pointers, phis *)
(* and the users of a pointer, on the infos of PtrUsageInfo.  A program is *)
(* one function that is part of the slice; what decides on its branches is *)
(* computed without pointers, so that control flow meets no info.          *)
(***************************************************************************)
EXTENDS PtrUsageInfo, FiniteSets

CONSTANT
  Programs   \* [value : what each value is, code : the instructions in order,
             \*  loop : the first and the last one of a loop, request : values
             \*  to precompute, size : the cells of each object]

Ops == {"object", "plain", "load", "store", "gep", "phi", "call"}

ASSUME ProgramsAssumption ==
  \A P \in Programs : \A v \in DOMAIN P.value :
    /\ P.value[v].op \in Ops
    /\ P.value[v].op = "gep" => P.value[v].type \in DOMAIN Types
    /\ P.request \subseteq DOMAIN P.value

VARIABLES tainted_values, included, needs, to_visit

valueVars == <<tainted_values, included, needs>>
analysisVars == <<call_stack, visited, infoVars, valueVars, to_visit>>

Desc(v) == program.value[v]
Code == program.code
Op(v) == Desc(v).op
Arg(v) == Desc(v).ptr
Operands(v) == Desc(v).operands
Users(v) == {u \in Value : v \in Operands(u) \cup {Desc(u).ptr, Desc(u).val}}

\* get_gep_idxs: the indices up to the first that is no constant.
Path(gep) ==
  LET idx == Desc(gep).idx
      constant == {n \in DOMAIN idx : \A k \in 1 .. n - 1 : idx[k] # Wildcard}
  IN  SubSeq(idx, 1, Cardinality(constant))

\* The instructions control may come to from s, of one pass or, in a loop, of the next.
PositionOf(v) == CHOOSE n \in DOMAIN Code : Code[n] = v
InLoop(n) == program.loop # <<>> /\ program.loop[1] <= n /\ n <= program.loop[2]
MayFollow(s, l) ==
  LET n == PositionOf(s)
      m == PositionOf(l)
  IN  n < m \/ (InLoop(n) /\ InLoop(m))

is_store_important(s, i) == \E l \in info[i].loads : l # s /\ MayFollow(s, l)

-----------------------------------------------------------------------------
(* insert_tainted_value and include_value_in_precompute.                   *)

Included(vs) ==
  LET grow[n \in 0 .. Cardinality(Value)] ==
        IF n = 0 THEN vs \ included
        ELSE (UNION {{v} \cup needs[v] : v \in grow[n - 1]}) \ included
  IN  grow[Cardinality(Value)]

\* v needs the values vs; more is included as well.
IncludedNow(v, vs, more) == Included((IF v \in included \cup more THEN vs ELSE {}) \cup more)
ReVisited(v, vs, more) == (vs \ needs[v]) \cup IncludedNow(v, vs, more)

Insert(v, vs, more) ==
  /\ tainted_values' = tainted_values \cup vs
  /\ needs' = [needs EXCEPT ![v] = @ \cup vs]
  /\ included' = included \cup IncludedNow(v, vs, more)

\* The user u of the pointer p.
InsertUser(u, p) ==
  /\ tainted_values' = tainted_values \cup {u}
  /\ needs' = [needs EXCEPT ![u] = @ \cup {p}]
  /\ included' = included
NewUser(u, p) == IF p \in needs[u] THEN {} ELSE {u}

-----------------------------------------------------------------------------
(* The rounds of find_all_tainted_vals.                                    *)

Start ==
  /\ InfoInit
  /\ tainted_values = program.request
  /\ included = program.request
  /\ needs = [v \in Value |-> {}]
  /\ to_visit = {}

Done == call_stack = <<>> /\ to_visit = {} /\ tainted_values \subseteq visited

NextRound ==
  /\ call_stack = <<>>
  /\ to_visit = {}
  /\ ~ Done
  /\ to_visit' = tainted_values \ visited
  /\ UNCHANGED <<call_stack, visited, infoVars, valueVars>>

Visit(v, ops) ==
  /\ call_stack = <<>>
  /\ v \in to_visit
  /\ Op(v) \in ops
  /\ to_visit' = to_visit \ {v}

\* A call of a function of the analysis.
Invoke(op, v) == <<[op |-> op, value |-> v]>>
Loop(op, v, rest) ==
  IF rest = {} THEN <<>> ELSE <<[op |-> op, value |-> v, rest |-> rest]>>
RestOfLoop(x) == Loop(Current.op, Current.value, Current.rest \ {x}) \o Callers
PtrUsages(v) == IF v \in Pointer THEN Loop("visit_ptr_usages", v, Users(v)) ELSE <<>>

VisitPlain(v) ==
  /\ Visit(v, {"object", "plain"})
  /\ Insert(v, Operands(v), {})
  /\ visited' = (visited \ ReVisited(v, Operands(v), {})) \cup {v}
  /\ call_stack' = PtrUsages(v)
  /\ UNCHANGED infoVars

InfoIfPointer(v) == IF v \in Pointer THEN ptr_info[v] ELSE None

VisitLoad(v) ==
  /\ Visit(v, {"load"})
  /\ Insert(v, {Arg(v)}, {})
  /\ LET i == InfoOf(Arg(v))
     IN  /\ info' = [info EXCEPT ![i].loads = @ \cup {v}]
         /\ visited' = ((visited \ ReVisited(v, {Arg(v)}, {})) \cup {v})
                       \ ReVisitIf(v \notin info[i].loads, i)
         /\ call_stack' = Call("setIsUsedDirectly", i, InfoIfPointer(v)) \o PtrUsages(v)
  /\ UNCHANGED <<ptr_info, merged_with>>

\* visit_gep: the member first, then the indices.
VisitGep(v) ==
  /\ Visit(v, {"gep"})
  /\ Insert(v, {Arg(v)}, {})
  /\ visited' = (visited \ ReVisited(v, {Arg(v)}, {})) \cup {v}
  /\ call_stack' = Invoke("visit_gep", v) \o Invoke("visited_gep", v) \o PtrUsages(v)
  /\ UNCHANGED infoVars

AddMemberOfGep ==
  /\ Running("visit_gep")
  /\ LET v == Current.value
     IN  AddMember(ptr_info[Arg(v)], Desc(v).type, Path(v), ptr_info[v])
  /\ UNCHANGED <<to_visit, valueVars>>

VisitedGep ==
  /\ Running("visited_gep")
  /\ LET v == Current.value
     IN  /\ Insert(v, Operands(v), {})
         /\ visited' = (visited \ ReVisited(v, Operands(v), {})) \cup {v}
  /\ Pop
  /\ UNCHANGED <<to_visit, infoVars>>

\* A phi of pointers merges its incoming values, in any order, and counts as visited
\* whatever the merges change.
VisitPhi(v) ==
  /\ Visit(v, {"phi"})
  /\ call_stack' = Loop("visit_phi", v, Operands(v)) \o Invoke("visited_phi", v) \o PtrUsages(v)
  /\ UNCHANGED <<visited, infoVars, valueVars>>

VisitPhiIncoming(x) ==
  /\ Running("visit_phi")
  /\ x \in Current.rest
  /\ LET v == Current.value
     IN  /\ Insert(v, {x}, {})
         /\ visited' = visited \ ReVisited(v, {x}, {})
         /\ call_stack' = Call("merge_with", ptr_info[v], ptr_info[x]) \o RestOfLoop(x)
  /\ UNCHANGED <<to_visit, infoVars>>

VisitedPhi ==
  /\ Running("visited_phi")
  /\ visited' = visited \cup {Current.value}
  /\ Pop
  /\ UNCHANGED <<to_visit, infoVars, valueVars>>

-----------------------------------------------------------------------------
(* visit_store, from the worklist or from visit_ptr_store.                 *)

VisitStoreValue(v) ==
  /\ Visit(v, {"store"})
  /\ call_stack' = Invoke("visit_store", v)
  /\ UNCHANGED <<visited, infoVars, valueVars>>

VisitStore ==
  /\ Running("visit_store")
  /\ LET s == Current.value
         pointers == {Arg(s), Desc(s).val} \cap Pointer
     IN  /\ Insert(s, pointers, {})
         /\ visited' = (visited \cup {s}) \ ReVisited(s, pointers, {})
         /\ Push(Call("setIsUsedDirectly", ptr_info[Arg(s)], InfoIfPointer(Desc(s).val))
                 \o Invoke("visited_store", s))
  /\ UNCHANGED <<to_visit, infoVars>>

VisitedStore ==
  /\ Running("visited_store")
  /\ LET s == Current.value
         i == InfoOf(Arg(s))
         all == {Desc(s).val, s, Arg(s)}
         inserted == IF is_store_important(s, i) THEN {Desc(s).val} ELSE {}
         more == IF is_store_important(s, i) THEN all ELSE {}
     IN  /\ Insert(s, inserted, more)
         /\ info' = [info EXCEPT ![i].stores = @ \cup {s}]
         /\ visited' = visited \ (ReVisitIf(s \notin info[i].stores, i)
                                  \cup ReVisited(s, inserted, more))
  /\ Pop
  /\ UNCHANGED <<to_visit, ptr_info, merged_with>>

-----------------------------------------------------------------------------
(* Calls of the standard library with a pointer argument.                  *)

\* is_ptr_usage_in_std_indirect: the library may follow pointers it finds.
StdWrites ==
  /\ Running("std_writes")
  /\ LET c == Current.value
         i == InfoOf(Arg(c))
     IN  IF Desc(c).writes
         THEN /\ info' = [info EXCEPT ![i].stores = @ \cup {c}]
              /\ visited' = visited \ ReVisitIf(c \notin info[i].stores, i)
              /\ Push(Call("setDerivedPtrIsRelevant", i, None))
         ELSE Pop /\ UNCHANGED <<info, visited>>
  /\ UNCHANGED <<to_visit, valueVars, ptr_info, merged_with>>

StdReads ==
  /\ Running("std_reads")
  /\ LET c == Current.value
         i == InfoOf(Arg(c))
     IN  IF Desc(c).reads
         THEN /\ info' = [info EXCEPT ![i].loads = @ \cup {c}]
              /\ visited' = visited \ ReVisitIf(c \notin info[i].loads, i)
              /\ Push(Call("setDerivedPtrIsRelevant", i, None))
         ELSE Pop /\ UNCHANGED <<info, visited>>
  /\ UNCHANGED <<to_visit, valueVars, ptr_info, merged_with>>

\* include_call_to_std: the call, its argument and what the call does with it.
IncludeCallToStd(c) ==
  LET i == InfoOf(Arg(c))
      all == {c, Arg(c)}
      new == [info[i] EXCEPT !.loads = IF Desc(c).reads THEN @ \cup {c} ELSE @,
                             !.stores = IF Desc(c).writes THEN @ \cup {c} ELSE @,
                             !.whole_ptr_is_relevant = TRUE]
  IN  /\ tainted_values' = tainted_values \cup all
      /\ needs' = [needs EXCEPT ![c] = @ \cup {Arg(c)}]
      /\ included' = included \cup Included(all)
      /\ info' = [info EXCEPT ![i] = new]
      /\ visited' = visited \ (ReVisited(c, {Arg(c)}, all) \cup ReVisitIf(new # info[i], i))

StdIncludes ==
  /\ Running("std_includes")
  /\ LET c == Current.value
     IN  IF Desc(c).writes /\ is_store_important(c, InfoOf(Arg(c)))
         THEN IncludeCallToStd(c)
         ELSE UNCHANGED <<valueVars, info, visited>>
  /\ Pop
  /\ UNCHANGED <<to_visit, ptr_info, merged_with>>

\* visit_call: the result of the call is needed if one of its users is tainted.
VisitCall(c) ==
  /\ Visit(c, {"call"})
  /\ visited' = visited \cup {c}
  /\ call_stack' = (IF Users(c) \cap tainted_values # {}
                    THEN Invoke("visit_call_for_retval", c) ELSE <<>>)
                   \o (IF Arg(c) \in tainted_values \/ Users(c) \cap tainted_values # {}
                       THEN Invoke("std_writes", c) \o Invoke("std_reads", c)
                            \o (IF c \in included THEN <<>> ELSE Invoke("std_includes", c))
                       ELSE <<>>)
  /\ UNCHANGED <<infoVars, valueVars>>

VisitCallForRetval ==
  /\ Running("visit_call_for_retval")
  /\ IncludeCallToStd(Current.value)
  /\ Pop
  /\ UNCHANGED <<to_visit, ptr_info, merged_with>>

-----------------------------------------------------------------------------
(* visit_ptr_usages: one user of the pointer.                              *)

UsedBy(u, ops) ==
  /\ Running("visit_ptr_usages")
  /\ u \in Current.rest
  /\ Op(u) \in ops
  /\ UNCHANGED <<to_visit, ptr_info, merged_with>>

\* visit_ptr_store counts the store as one to the pointer even if the pointer is what
\* is stored.
PtrStore(u) ==
  /\ UsedBy(u, {"store"})
  /\ LET p == Current.value
         i == InfoOf(p)
         new == [info[i] EXCEPT !.is_used_directly = TRUE, !.stores = @ \cup {u}]
     IN  /\ InsertUser(u, p)
         /\ info' = [info EXCEPT ![i] = new]
         /\ visited' = visited \ (NewUser(u, p) \cup ReVisitIf(new # info[i], i))
         /\ call_stack' = (IF Arg(u) = p THEN Invoke("visit_store", u) ELSE <<>>)
                          \o RestOfLoop(u)

\* visit_ptr_load: another load of a pointer that is read through.
PointeeIsRead(r) ==
  /\ r.is_used_directly
  /\ r.direct # None
  /\ info[merged_with[r.direct]].loads # {}

PtrLoad(u) ==
  /\ UsedBy(u, {"load"})
  /\ LET p == Current.value
     IN  IF u \in Pointer /\ PointeeIsRead(info[InfoOf(p)])
         THEN InsertUser(u, p) /\ visited' = visited \ NewUser(u, p)
         ELSE UNCHANGED <<valueVars, visited>>
  /\ call_stack' = RestOfLoop(u)
  /\ UNCHANGED info

\* is_member_relevant: asking may set whole_ptr_is_relevant or change the keys.
PtrGep(u) ==
  /\ UsedBy(u, {"gep"})
  /\ LET p == Current.value
         i == InfoOf(p)
         fit == need_pad_for_gep(info[i], Desc(u).type)
         whole == info[i].whole_ptr_is_relevant
     IN  /\ info' = IF whole THEN info ELSE [info EXCEPT ![i] = fit.info]
         /\ IF whole \/ Matching(fit.info, fit.pad \o Path(u)) # {}
            THEN InsertUser(u, p) /\ visited' = visited \ NewUser(u, p)
            ELSE UNCHANGED <<valueVars, visited>>
  /\ call_stack' = RestOfLoop(u)

PtrPhi(u) ==
  /\ UsedBy(u, {"phi"})
  /\ InsertUser(u, Current.value)
  /\ visited' = visited \ NewUser(u, Current.value)
  /\ call_stack' = RestOfLoop(u)
  /\ UNCHANGED info

PtrUsedPlainly(u) ==
  /\ UsedBy(u, {"plain"})
  /\ call_stack' = RestOfLoop(u)
  /\ UNCHANGED <<valueVars, visited, info>>

PtrCall(u) ==
  /\ UsedBy(u, {"call"})
  /\ call_stack' = Invoke("std_writes", u) \o Invoke("std_includes", u)
                   \o Invoke("std_reads", u) \o RestOfLoop(u)
  /\ UNCHANGED <<valueVars, visited, info>>

-----------------------------------------------------------------------------
AnalysisStep ==
  \/ NextRound
  \/ InfoStep /\ UNCHANGED <<to_visit, valueVars>>
  \/ AddMemberOfGep \/ VisitedGep \/ VisitedPhi \/ VisitStore \/ VisitedStore
  \/ StdWrites \/ StdReads \/ StdIncludes \/ VisitCallForRetval
  \/ \E v \in Value :
       \/ VisitPlain(v) \/ VisitLoad(v) \/ VisitGep(v) \/ VisitPhi(v)
       \/ VisitPhiIncoming(v) \/ VisitStoreValue(v) \/ VisitCall(v)
       \/ PtrStore(v) \/ PtrLoad(v) \/ PtrGep(v) \/ PtrPhi(v) \/ PtrUsedPlainly(v)
       \/ PtrCall(v)

=============================================================================
