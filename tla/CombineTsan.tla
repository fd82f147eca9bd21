------------------------------ MODULE CombineTsan ------------------------------
(***************************************************************************)
(* tsan_combine.cpp: the tsan calls of a segment that report the same      *)
(* pointer, neighbouring members of a struct or neighbouring elements of   *)
(* an array become one call.  A pointer of p has the pointer it is         *)
(* computed from (parent, a set of at most one), a kind, the struct it     *)
(* points to (getGEPstructTy, "" if none), whether its index is a          *)
(* constant, where it points (area, off) and the alignment of the accesses *)
(* through it.  Pointers with the same area differ by a constant.  A       *)
(* struct has its size and members: offset, kind and, for a nested struct, *)
(* its name; what is nested holds no further structs.                      *)
(***************************************************************************)
EXTENDS HappensBefore

ParentOf(p) == [q \in DOMAIN p.pointer |-> p.pointer[q].parent]

\* collect_base_ptr_to_tsan_call: the pointer and those it is computed from,
\* up to a constant.
BasePointers(p, q) ==
  {b \in Reach(ParentOf(p), {q}) : p.pointer[b].kind # "global"}

\* What remove_wrapper groups the calls by.
Bases(stage, p, q) == IF stage = "same" THEN {q} ELSE BasePointers(p, q)

Offset(p, base, q) == p.pointer[q].off - p.pointer[base].off

\* ptr_values_write or ptr_values_read of a base pointer.
CallsWithBase(stage, p, body, segment, base, kind) ==
  {i \in segment : body[i].kind = kind /\ base \in Bases(stage, p, body[i].ptr)}
PointersOf(body, calls) == {body[i].ptr : i \in calls}
CallsOf(body, calls, q) == {i \in calls : body[i].ptr = q}

\* replace_same: one of the calls stays, whichever the set begins with.
ReplaceSame(calls) ==
  IF Cardinality(calls) < 2 THEN {NoEdit} ELSE {Edit(calls \ {i}, {}) : i \in calls}

-----------------------------------------------------------------------------
(* Struct members.                                                          *)

\* getElementContainingOffset
Element(st, offset) ==
  CHOOSE m \in DOMAIN st.members :
    /\ st.members[m].off <= offset
    /\ \A n \in DOMAIN st.members : st.members[n].off <= offset => n <= m

\* getIdxVec: nothing for a pointer.
IdxVec(p, st, offset) ==
  LET m == Element(st, offset)
      member == st.members[m]
      inner == p.struct[member.inner]
      n == Element(inner, offset - member.off)
  IN  CASE member.kind = "pointer" -> <<>>
        [] member.kind = "plain" -> <<m>>
        [] member.kind = "struct" ->
             IF inner.members[n].kind = "pointer" THEN <<>> ELSE <<m, n>>

\* The end of the member at offset.
AfterElement(st, offset) ==
  LET m == Element(st, offset)
  IN  IF m = Len(st.members) THEN st.size ELSE st.members[m + 1].off

\* getOffsetAfterIdx
OffsetAfterIdx(p, st, offset) ==
  LET member == st.members[Element(st, offset)]
  IN  IF member.kind = "struct"
      THEN offset + AfterElement(p.struct[member.inner], offset - member.off)
      ELSE AfterElement(st, offset)

\* isAdjacentOffVec.  Indices count from one here: the last one of a vector is
\* compared with the number of elements of the outer struct plus one.
IsAdjacentOffVec(st, l, r) ==
  LET same == {i \in DOMAIN l \cap DOMAIN r : \A j \in 1 .. i : l[j] = r[j]}
      d == IF Cardinality(same) = Len(l) THEN Len(l) ELSE Cardinality(same) + 1
  IN  /\ r[d] - l[d] \in {0, 1}
      /\ \A j \in d + 1 .. Len(l) : l[j] = Len(st.members) + 1
      /\ \A j \in d + 1 .. Len(r) : r[j] = 1

\* One pointer of the loop "check for contingous part ranges": start is the first
\* pointer of the part, last the indices of the previous one, calls those to replace.
StructStep(p, body, calls, base, kind, final, s, q) ==
  LET st == p.struct[p.pointer[base].struct]
      idx == IdxVec(p, st, Offset(p, base, q))
      first == s.start = ""
      start == IF first THEN q ELSE s.start
      adjacent == first \/ IsAdjacentOffVec(st, s.last, idx)
      replaced == s.calls \cup CallsOf(body, calls, q)
      size == OffsetAfterIdx(p, st, Offset(p, base, q)) - Offset(p, base, start)
      range == [after |-> CHOOSE i \in Positions(body, "gep") : body[i].ptr = start,
                item |-> RangeCall(kind, start, size)]
  IN  CASE idx = <<>> -> [s EXCEPT !.start = ""]
        [] idx # <<>> /\ q = final /\ ~ adjacent -> s
        [] idx # <<>> /\ q # final /\ adjacent ->
             [s EXCEPT !.start = start, !.last = idx, !.calls = replaced]
        [] OTHER ->
             [start |-> q, last |-> idx, calls |-> {},
              edit |-> IF start = q THEN s.edit
                       ELSE Both(s.edit, Edit(replaced, {range}))]

\* The base itself and the pointers at constant offsets from it.
OffsetPtrs(p, base, ptrs) ==
  {q \in ptrs : q = base \/ (base \in p.pointer[q].parent /\ p.pointer[q].constant)}

\* range_replace_struct
ReplaceStruct(p, body, calls, base, kind) ==
  LET ptrs == OffsetPtrs(p, base, PointersOf(body, calls))
      sorted == SetToSortSeq(ptrs, LAMBDA a, b : Offset(p, base, a) < Offset(p, base, b))
      none == [start |-> "", last |-> <<>>, calls |-> {}, edit |-> NoEdit]
  IN  IF p.pointer[base].struct = "" \/ Cardinality(ptrs) < 2 THEN {NoEdit}
      ELSE {FoldLeft(LAMBDA s, q : StructStep(p, body, calls, base, kind, Last(sorted), s, q),
                     none, sorted).edit}

-----------------------------------------------------------------------------
(* Array elements.                                                          *)

IsGep(p, q) == p.pointer[q].kind = "gep"

\* A struct needs the gep and add pattern.
StructElement(p, q) == p.pointer[q].struct # "" /\ p.pointer[q].constant

\* An access that is smaller than its alignment may be a struct member.
Misaligned(p, body, calls, q) ==
  /\ IsGep(p, q) /\ p.pointer[q].struct = ""
  /\ \E i \in CallsOf(body, calls, q) : body[i].size < p.pointer[q].align

Distance(p, a, b) ==
  IF p.pointer[a].area = p.pointer[b].area THEN {p.pointer[b].off - p.pointer[a].off} ELSE {}

\* What sorting may return: byOffset does not order pointers of two areas.
Orders(p, ptrs) ==
  {o \in SetToSeqs(ptrs) :
     \A k \in 1 .. Len(o) - 1 : \A d \in Distance(p, o[k], o[k + 1]) : d >= 0}

\* The call of a pointer (getCall); a pointer with several ends the function.
TheCall(body, calls, q) == CHOOSE i \in CallsOf(body, calls, q) : TRUE

\* Mutant: the elements need not be adjacent.
LinkedAnyhow(p, body, calls, o, k) == Distance(p, o[k], o[k + 1]) # {}

\* The next pointer begins where the access of this one ends.
Linked(p, body, calls, o, k) ==
  body[TheCall(body, calls, o[k])].size \in Distance(p, o[k], o[k + 1])

\* The parts of an order that one range replaces.
Parts(p, body, calls, o) ==
  {part \in (DOMAIN o) \X (DOMAIN o) :
     LET a == part[1] b == part[2] IN
     /\ a < b
     /\ \A k \in a .. b - 1 : Linked(p, body, calls, o, k)
     /\ a > 1 => ~ Linked(p, body, calls, o, a - 1)
     /\ b < Len(o) => ~ Linked(p, body, calls, o, b)
     /\ \A k \in 1 .. Min({b + 1, Len(o)}) : Cardinality(CallsOf(body, calls, o[k])) = 1}

\* replace_array_or_reset: the range takes the place of the first call.
ArrayEdit(p, body, calls, kind, o) ==
  LET parts == Parts(p, body, calls, o)
      Calls(part) == {TheCall(body, calls, o[k]) : k \in part[1] .. part[2]}
      Size(part) == MapThenSumSet(LAMBDA i : body[i].size, Calls(part))
      range(part) == [after |-> TheCall(body, calls, o[part[1]]),
                      item |-> RangeCall(kind, o[part[1]], Size(part))]
  IN  Edit(UNION {Calls(part) : part \in parts}, {range(part) : part \in parts})

\* range_replace_array.  array_wrapper gives up if the first pointer of the map is
\* no gep.
ReplaceArray(p, body, calls, kind) ==
  LET ptrs == PointersOf(body, calls)
      elements == {q \in ptrs : ~ (IsGep(p, q) /\ StructElement(p, q))}
      edits == {ArrayEdit(p, body, calls, kind, o) : o \in Orders(p, elements)}
  IN  IF \/ Cardinality(elements) < 2
         \/ \A q \in ptrs : ~ IsGep(p, q)
         \/ \E q \in ptrs : Misaligned(p, body, calls, q)
      THEN {NoEdit}
      ELSE edits \cup {NoEdit : q \in {x \in ptrs : ~ IsGep(p, x)}}

-----------------------------------------------------------------------------
\* Mutant: structs first.
StructsFirst == <<"struct", "same", "array">>

\* The order of combine_tsan_calls.
CombineStages == <<"same", "struct", "array">>

Replace(stage, p, body, calls, base, kind) ==
  CASE stage = "same" -> ReplaceSame(calls)
    [] stage = "struct" -> ReplaceStruct(p, body, calls, base, kind)
    [] stage = "array" -> ReplaceArray(p, body, calls, kind)

\* remove_wrapper, for one base pointer: writes and reads are kept apart.
EditsOf(stage, p, body, segment, base) ==
  LET Edits(kind) ==
        Replace(stage, p, body, CallsWithBase(stage, p, body, segment, base, kind), base, kind)
  IN  {Both(w, r) : w \in Edits("write"), r \in Edits("read")}

BasesOf(stage, p, body, segment) ==
  UNION {Bases(stage, p, body[i].ptr) : i \in segment}

\* wrap_BB_replace: the edits of a stage, each for one base pointer of a segment.
\* The order of base pointers is that of a DenseMap; segments do not touch each
\* other's calls, so their order is left open too.
PossibleEdits(stage, p, body) ==
  UNION {UNION {EditsOf(stage, p, body, segment, base) :
                  base \in BasesOf(stage, p, body, segment)} :
           segment \in Segments(p, body)} \ {NoEdit}

\* The stage may find nothing to do.
NothingToReplace(stage, p, body) ==
  \A segment \in Segments(p, body) : \A base \in BasesOf(stage, p, body, segment) :
    NoEdit \in EditsOf(stage, p, body, segment, base)

=============================================================================
