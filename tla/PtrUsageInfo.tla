---------------------------- MODULE PtrUsageInfo ----------------------------
(***************************************************************************)
(* The info objects of pointers with their members and pointees:           *)
(* lib/precompute/compiler/ptr_info.cpp.  PrecalculationAnalysis has       *)
(* pointers to plain data only; here an info also knows the infos of the   *)
(* addresses GEPs derive (important_members) and of what is loaded from    *)
(* the pointer (info_of_direct_usage), so one merge leads to others.  The  *)
(* calls in progress are on call_stack; each step runs one call up to the  *)
(* next nested one.                                                        *)
(*                                                                         *)
(* Reference counts are left out: no object is destroyed while in use.     *)
(***************************************************************************)
EXTENDS Integers, Sequences, SequencesExt, TLC

CONSTANT
  Types   \* [type -> size, element of an array, what a GEP of it may be]

Wildcard == 2^16       \* WILDCARD_IDX: above every index, for one that is no constant
None == "none"         \* a null pointer, a type that is not set

\* The sources of GEPs: i8 and ptr are void, as "cast to void*".
ASSUME TypesAssumption ==
  \A t \in DOMAIN Types :
    /\ Types[t].kind \in {"struct", "array", "void", "scalar"}
    /\ Types[t].size \in Nat \ {0}
    /\ Types[t].kind = "array" => Types[t].element \in DOMAIN Types

VARIABLES
  program,       \* see PtrAnalysis
  call_stack,    \* calls in progress, innermost first
  visited,       \* TaintedValue::_visited
  ptr_info,      \* TaintedValue::ptr_info
  merged_with,   \* the valid info an info forwards to, itself if valid
  info           \* what an info object says of its pointers

infoVars == <<ptr_info, merged_with, info>>

Value == DOMAIN program.value
Pointer == {v \in Value : program.value[v].is_pointer}

\* An info object is named by the pointer it was created for.
NewInfo ==
  [gep_type |-> None, members |-> <<>>, direct |-> None,
   is_used_directly |-> FALSE, whole_ptr_is_relevant |-> FALSE,
   is_derived_ptr_relevant |-> FALSE, loads |-> {}, stores |-> {}]

InfoInit ==
  /\ call_stack = <<>>
  /\ visited = {}
  /\ ptr_info = [p \in Pointer |-> p]
  /\ merged_with = [i \in Pointer |-> i]
  /\ info = [i \in Pointer |-> NewInfo]

InfoOf(p) == merged_with[ptr_info[p]]
ptrs_with_this_info(i) == {p \in Pointer : ptr_info[p] = i}

\* The calls on the stack.
Call(op, i, j) == <<[op |-> op, this |-> i, other |-> j]>>
Running(op) == call_stack # <<>> /\ Head(call_stack).op = op
Current == Head(call_stack)
Callers == Tail(call_stack)

-----------------------------------------------------------------------------
(* Members: the indices of a GEP, up to the first that is no constant.     *)

\* std::map keeps its keys in this order.
Before(a, b) ==
  \E n \in 1 .. Len(b) :
    /\ n = Len(a) + 1 \/ (n <= Len(a) /\ a[n] < b[n])
    /\ \A k \in 1 .. n - 1 : a[k] = b[k]

Keys(members) == SetToSortSeq(DOMAIN members, Before)

\* The shorter path goes on with zeros.
IndexAt(path, k) == IF k <= Len(path) THEN path[k] ELSE 0

\* Mutant: compares the paths as they are.
SamePath(a, b) == a = b

is_member_matching(a, b) ==
  \A k \in 1 .. Len(a) \cup 1 .. Len(b) :
    \/ IndexAt(a, k) = IndexAt(b, k)
    \/ \E n \in 1 .. k : Wildcard \in {IndexAt(a, n), IndexAt(b, n)}

Matching(r, path) == {key \in DOMAIN r.members : is_member_matching(path, key)}

\* find_info_for_gep_idx: the first match.
FoundKey(r, path) ==
  CHOOSE key \in Matching(r, path) :
    \A other \in Matching(r, path) \ {key} : Before(key, other)

\* need_pad_for_gep: what becomes of the info and whether a GEP of type t needs
\* a 0 in front, as it starts at an element of the array the others start at.
Padded(r, t) == [info |-> r, pad |-> <<0>>]
Fits(r) == [info |-> r, pad |-> <<>>]
AnyMember(r) == Fits([r EXCEPT !.whole_ptr_is_relevant = TRUE])

RaisedToArray(r, t) ==
  LET oldKey(key) == Tail(key)
      keys == {<<0>> \o key : key \in DOMAIN r.members}
  IN  [r EXCEPT !.gep_type = t, !.members = [key \in keys |-> r.members[oldKey(key)]]]

need_pad_for_gep(r, t) ==
  LET old == r.gep_type
      kind(x) == Types[x].kind
      elementOf(x, y) == kind(y) = "array" /\ Types[y].element = x
  IN  IF old \in {None, t} \/ Types[old].size = Types[t].size THEN Fits(r)
      ELSE IF "void" \in {kind(old), kind(t)} THEN AnyMember(r)
      ELSE IF elementOf(t, old) THEN Padded(r, t)
      ELSE IF elementOf(old, t) THEN Fits(RaisedToArray(r, t))
      ELSE IF {kind(old), kind(t)} = {"struct"} THEN Fits(r)
      ELSE AnyMember(r)

-----------------------------------------------------------------------------
(* What the analysis learns of one info.                                   *)

\* Mutant: also if nothing is new.
ReVisitAlways(changed, i) == ptrs_with_this_info(i)

\* propergate_changes puts the users of i back on the worklist.
ReVisitIf(changed, i) == IF changed THEN ptrs_with_this_info(i) ELSE {}

\* Mutant: whoever joins the group knows all of it.
NotChanged(i, j) == FALSE

Changed(i, j) ==
  LET this == info[i]
      other == info[j]
  IN  \/ (this.loads = {}) # (other.loads = {})
      \/ (this.stores = {}) # (other.stores = {})
      \/ this.whole_ptr_is_relevant # other.whole_ptr_is_relevant
      \/ this.is_derived_ptr_relevant # other.is_derived_ptr_relevant
      \/ ~ other.loads \subseteq this.loads
      \/ ~ other.stores \subseteq this.stores

United(this, other) ==
  [this EXCEPT
     !.loads = @ \cup other.loads,
     !.stores = @ \cup other.stores,
     !.whole_ptr_is_relevant = @ \/ other.whole_ptr_is_relevant,
     !.is_derived_ptr_relevant = @ \/ other.is_derived_ptr_relevant]

-----------------------------------------------------------------------------
(* The operations; each forwards to the valid info first.                  *)

Pop == call_stack' = Callers
Push(calls) == call_stack' = calls \o Callers

\* merge_with: the users and the flags of other come to this; its pointee and its
\* members follow.
MergeSame ==
  /\ Running("merge_with")
  /\ \/ Current.other = None
     \/ merged_with[Current.this] = merged_with[Current.other]
  /\ Pop
  /\ UNCHANGED <<visited, infoVars>>

MergeOther ==
  /\ Running("merge_with")
  /\ Current.other # None
  /\ LET i == merged_with[Current.this]
         j == merged_with[Current.other]
     IN  /\ i # j
         /\ merged_with' = [k \in Pointer |->
                              IF merged_with[k] = j THEN i ELSE merged_with[k]]
         /\ ptr_info' = [p \in Pointer |-> IF ptr_info[p] = j THEN i ELSE ptr_info[p]]
         /\ info' = [info EXCEPT ![i] = United(@, info[j])]
         /\ visited' = visited \ (ReVisitIf(Changed(i, j), i) \cup ReVisitIf(Changed(i, j), j))
         /\ Push((IF info[j].is_used_directly
                  THEN Call("setIsUsedDirectly", i, info[j].direct) ELSE <<>>)
                 \o Call("merge_members", i, j))

\* The members of other, in the order of their keys.  Whether they become part of
\* this is read from the object this, even if it has been merged itself by now.
\* other is cleared: it only forwards.
MergeMembers ==
  /\ Running("merge_members")
  /\ LET i == Current.this
         j == Current.other
         keys == Keys(info[j].members)
         member(n) == [op |-> "merge_member", this |-> i, path |-> keys[n],
                       other |-> info[j].members[keys[n]], gep_type |-> info[j].gep_type,
                       need_merging_gep |-> info[i].is_derived_ptr_relevant]
     IN  /\ info' = [info EXCEPT ![j].members = <<>>, ![j].direct = None]
         /\ Push([n \in DOMAIN keys |-> member(n)])
  /\ UNCHANGED <<visited, ptr_info, merged_with>>

MergeMember ==
  /\ Running("merge_member")
  /\ LET i == merged_with[Current.this]
         fit == IF info[i].gep_type = None
                THEN Fits([info[i] EXCEPT !.gep_type = Current.gep_type])
                ELSE need_pad_for_gep(info[i], Current.gep_type)
     IN  /\ info' = [info EXCEPT ![i] = fit.info]
         /\ Push(IF Current.need_merging_gep THEN Call("merge_with", i, Current.other)
                 ELSE <<[op |-> "add_important_member", this |-> i, other |-> Current.other,
                         path |-> fit.pad \o Current.path]>>)
  /\ UNCHANGED <<visited, ptr_info, merged_with>>

SetIsUsedDirectly ==
  /\ Running("setIsUsedDirectly")
  /\ LET i == merged_with[Current.this]
         pointee == Current.other
     IN  /\ info' = [info EXCEPT ![i].is_used_directly = TRUE,
                                 ![i].direct = IF pointee # None /\ @ = None
                                               THEN merged_with[pointee] ELSE @]
         /\ visited' = visited \ ReVisitIf(~ info[i].is_used_directly, i)
         /\ IF pointee # None /\ info[i].direct # None
            THEN Push(Call("merge_with", info[i].direct, pointee)) ELSE Pop
  /\ UNCHANGED <<ptr_info, merged_with>>

\* add_important_member for a path.
AddToSelf ==
  /\ Running("add_important_member")
  /\ merged_with[Current.other] = Current.this
  /\ Pop
  /\ UNCHANGED <<visited, infoVars>>

AddNewMember ==
  /\ Running("add_important_member")
  /\ LET i == Current.this
     IN  /\ merged_with[Current.other] # i
         /\ Matching(info[i], Current.path) = {}
         /\ info' = [info EXCEPT ![i].members = (Current.path :> Current.other) @@ @]
         /\ visited' = visited \ ptrs_with_this_info(i)
  /\ Pop
  /\ UNCHANGED <<ptr_info, merged_with>>

\* "new usage has wildcard but old usages may not": all usages that match become
\* one.  The set of infos to merge is ordered by address.
IsWider(found, path) == found[Len(found)] # Wildcard /\ path[Len(path)] # 0

WidenMember ==
  /\ Running("add_important_member")
  /\ LET i == Current.this
         path == Current.path
         old == info[i].members
         to_merge == {merged_with[old[key]] : key \in Matching(info[i], path)}
     IN  /\ merged_with[Current.other] # i
         /\ to_merge # {}
         /\ IsWider(FoundKey(info[i], path), path)
         /\ info' = [info EXCEPT ![i].members =
                       (path :> Current.other)
                       @@ [key \in DOMAIN @ \ Matching(info[i], path) |-> @[key]]]
         /\ \E order \in SetToSeqs(to_merge) :
              Push(FlattenSeq([n \in DOMAIN order |->
                                 Call("merge_with", Current.other, order[n])]))
  /\ UNCHANGED <<visited, ptr_info, merged_with>>

MergeWithMember ==
  /\ Running("add_important_member")
  /\ LET i == Current.this
         path == Current.path
     IN  /\ merged_with[Current.other] # i
         /\ Matching(info[i], path) # {}
         /\ ~ IsWider(FoundKey(info[i], path), path)
         /\ Push(Call("merge_with", info[i].members[FoundKey(info[i], path)], Current.other))
  /\ UNCHANGED <<visited, infoVars>>

\* add_important_member for a GEP of type t; result is the info of its value.
AddMember(base, t, path, result) ==
  LET i == merged_with[base]
      fit == need_pad_for_gep(
               [info[i] EXCEPT !.gep_type = IF @ = None THEN t ELSE @], t)
  IN  /\ IF merged_with[result] = i THEN Pop /\ info' = info
         ELSE IF info[i].is_derived_ptr_relevant
         THEN Push(Call("merge_with", i, result)) /\ info' = info
         ELSE /\ info' = [info EXCEPT ![i] = fit.info]
              /\ Push(<<[op |-> "add_important_member", this |-> i, other |-> result,
                         path |-> fit.pad \o path]>>)
      /\ UNCHANGED <<visited, ptr_info, merged_with>>

\* setDerivedPtrIsRelevant: all that is known to be derived becomes part of this.
SetDerivedPtrIsRelevant ==
  /\ Running("setDerivedPtrIsRelevant")
  /\ LET i == merged_with[Current.this]
         r == info[i]
         keys == Keys(r.members)
         to_merge == (IF r.direct = None THEN <<>> ELSE <<r.direct>>)
                     \o [n \in DOMAIN keys |-> r.members[keys[n]]]
     IN  IF r.is_derived_ptr_relevant THEN Pop /\ UNCHANGED <<visited, info>>
         ELSE /\ info' = [info EXCEPT ![i].is_derived_ptr_relevant = TRUE,
                                      ![i].whole_ptr_is_relevant = TRUE]
              /\ visited' = visited \ ReVisitIf(~ r.whole_ptr_is_relevant, i)
              /\ Push(FlattenSeq([n \in DOMAIN to_merge |-> Call("merge_with", i, to_merge[n])])
                      \o Call("propergate_changes", i, None))
  /\ UNCHANGED <<ptr_info, merged_with>>

PropergateChanges ==
  /\ Running("propergate_changes")
  /\ visited' = visited \ ptrs_with_this_info(merged_with[Current.this])
  /\ Pop
  /\ UNCHANGED infoVars

InfoStep ==
  \/ MergeSame \/ MergeOther \/ MergeMembers \/ MergeMember
  \/ SetIsUsedDirectly \/ SetDerivedPtrIsRelevant \/ PropergateChanges
  \/ AddToSelf \/ AddNewMember \/ WidenMember \/ MergeWithMember

=============================================================================
