----------------------------- MODULE SliceInsertion -----------------------------
(***************************************************************************)
(* Precompute_insertion.cpp and VtableManager.cpp: the functions of the    *)
(* slice are copied, the copies call each other, and what is not included  *)
(* is pruned.  The copy of an instruction keeps its name, and so does a    *)
(* block that is merged into the one before it: merged says where it is.   *)
(***************************************************************************)
EXTENDS SliceControl

VARIABLES
  insertion,   \* "analysis", "replace", "prune" or "inserted"
  remaining,   \* the copies the loop of insert_precomputation has to come to
  code         \* the copies: op and calls of the instructions, which are checked, and
               \* succ, incoming and merged of the blocks

insertionVars == <<insertion, remaining, code>>

Copied == slice.include_in_precompute
Included(x) == x \in slice.included

\* A function, its copy or no function at all.
Original(f) == [fn |-> f, copy |-> FALSE]
CopyOf(f) == [fn |-> f, copy |-> TRUE]
NullFunction == [fn |-> "", copy |-> FALSE]

\* The program as it is: what a virtual call finds is given by class.
OriginalCode(p) ==
  [op |-> [x \in Instr(p) |-> p.instr[x].op],
   calls |-> [x \in Calls(p) |->
     [c \in DOMAIN p.vtable |->
        Original(IF Indirect(p, x) THEN p.vtable[c][p.instr[x].slot] ELSE p.instr[x].callee)]],
   checked |-> {},
   succ |-> [b \in DOMAIN p.block |-> p.block[b].succ],
   incoming |-> [b \in DOMAIN p.block |-> p.block[b].incoming],
   merged |-> [b \in DOMAIN p.block |-> b]]

\* Mutant: what is not copied stays in the copy of a vtable.
KeepUncopied(c, slot) ==
  LET f == program.vtable[c][slot] IN IF f \in Copied THEN CopyOf(f) ELSE Original(f)

\* perform_vtable_change_in_copies: a vtable with a copied function gets a copy
\* (get_replaced_vtable), in which the functions that are not copied are null.
VtableEntry(c, slot) ==
  LET f == program.vtable[c][slot]
      replaced == Range(program.vtable[c]) \cap Copied # {}
  IN  CASE f \in Copied -> CopyOf(f)
        [] f \notin Copied /\ replaced -> NullFunction
        [] OTHER -> Original(f)

\* The copies, with the vtables they use.
CopyFunctions ==
  /\ insertion = "analysis"
  /\ AnalysisDone
  /\ insertion' = "replace"
  /\ remaining' = Copied
  /\ code' = [OriginalCode(program) EXCEPT !.calls =
       [x \in DOMAIN @ |->
          [c \in DOMAIN program.vtable |->
             IF Indirect(program, x) THEN VtableEntry(c, program.instr[x].slot) ELSE @[x][c]]]]

\* replace_exceptionless_invoke_with_call
Exceptionless(p, can, s, x) ==
  x \in Invokes(p) /\ (~ CallCanExcept(p, can, x) \/ ~ ExceptionCaseNeeded(p, can, s, x))

\* The null check of an indirect call.
NullChecked(p, s, x) == Indirect(p, x) /\ ~ RetvalNeeded(p, s, x)

\* MergeBlockIntoPredecessor of every block: one that is the only successor of its
\* only predecessor.  Phis name the block it went into from now on.
MergeBlocks(c, blocks) ==
  LET Into(b) == {a \in blocks \ {b} : /\ c.succ[a] = <<b>>
                                       /\ \A x \in blocks : b \in Range(c.succ[x]) => x = a}
      before == [b \in blocks |-> IF Into(b) = {} THEN b ELSE CHOOSE a \in Into(b) : TRUE]
      head[k \in 0 .. Cardinality(blocks)] ==
        IF k = 0 THEN [b \in blocks |-> b]
        ELSE LET h == head[k - 1] IN [b \in blocks |-> before[h[b]]]
      merged == head[Cardinality(blocks)] @@ c.merged
  IN  [c EXCEPT !.merged = merged,
                !.incoming = [b \in DOMAIN @ |->
                  IF b \in blocks /\ Into(b) # {} THEN <<>>
                  ELSE [i \in DOMAIN @[b] |-> merged[@[b][i]]]]]

\* replace_exceptionless_invoke_with_call and replace_calls_in_copy
ReplaceInCopy(f) ==
  LET body == InstrOf(program, f)
      calls == {x \in body : Exceptionless(program, can_except_in_precompute, slice, x)}
      renamed == {x \in body \cap Calls(program) :
                    Included(x) /\ ~ Indirect(program, x) /\ program.instr[x].callee \in Copied}
      checked == {x \in body \cap Calls(program) :
                    Included(x) /\ NullChecked(program, slice, x)}
      replaced == [code EXCEPT
        !.op = [x \in DOMAIN @ |-> IF x \in calls THEN "call" ELSE @[x]],
        !.calls = [x \in DOMAIN @ |->
          IF x \in renamed THEN [c \in DOMAIN @[x] |-> CopyOf(program.instr[x].callee)]
          ELSE @[x]],
        !.checked = @ \cup checked,
        !.succ = [b \in DOMAIN @ |-> IF Terminator(program, b) \in calls THEN <<Head(@[b])>>
                                     ELSE @[b]]]
  IN  code' = MergeBlocks(replaced, BlocksOf(program, f))

ReplaceCalls ==
  /\ insertion = "replace"
  /\ \E f \in remaining : ReplaceInCopy(f) /\ remaining' = remaining \ {f}
  /\ UNCHANGED insertion

-----------------------------------------------------------------------------
(* Pruning.                                                                 *)

\* The op of a pruned instruction: a terminator that may end elsewhere returns at
\* once; unconditional branches and landing pads stay.
PrunedOp(x, op) ==
  CASE Included(x) \/ op \in {"br", "pad"} -> op
    [] ~ Included(x) /\ op \in {"condbr", "invoke", "ret", "resume"} -> "return"
    [] OTHER -> "removed"

\* The edges between blocks: a checked invoke is split, and its first part branches
\* to the normal destination as well.
Edges(c, b) ==
  {[from |-> c.merged[a], checking |-> FALSE] : a \in {x \in DOMAIN c.succ : b \in Range(c.succ[x])}}
  \cup {[from |-> c.merged[a], checking |-> TRUE] :
          a \in {x \in DOMAIN c.succ :
                   /\ c.op[Terminator(program, x)] = "invoke"
                   /\ Terminator(program, x) \in c.checked
                   /\ c.succ[x][1] = b}}

\* EliminateUnreachableBlocks
Reachable(succ, entry) ==
  LET reach[k \in 0 .. Cardinality(DOMAIN succ)] ==
        IF k = 0 THEN {entry}
        ELSE LET before == reach[k - 1]
             IN  before \cup UNION {Range(succ[b]) : b \in before}
  IN  reach[Cardinality(DOMAIN succ)]

\* Mutant: the values of removed edges stay.
StaleKept(incoming, stale) == incoming

\* "there can be wrong phis now": the indices are collected, then removed one after
\* the other, each from what the ones before it have left.
RemoveIncoming(incoming, stale) ==
  FoldLeft(LAMBDA l, i : IF i \in DOMAIN l THEN RemoveAt(l, i) ELSE l,
           incoming, SetToSortSeq(stale, <))

\* Incoming values from unreachable blocks went with the block.
PhiIncoming(c, b) ==
  LET edges == Edges(c, b)
      stale == {i \in DOMAIN c.incoming[b] : \A e \in edges : e.from # c.incoming[b][i]}
  IN  IF Len(c.incoming[b]) = Cardinality(edges) THEN c.incoming[b]
      ELSE RemoveIncoming(c.incoming[b], stale)

\* prune_function_copy
PruneFunctionCopy(f) ==
  LET body == InstrOf(program, f)
      op == [x \in DOMAIN code.op |-> IF x \in body THEN PrunedOp(x, code.op[x]) ELSE code.op[x]]
      succ == [b \in DOMAIN code.succ |->
                 IF op[Terminator(program, b)] = "return" THEN <<>> ELSE code.succ[b]]
      reachable == Reachable(succ, program.function[f].entry)
      eliminated == [code EXCEPT
        !.op = op,
        !.succ = [b \in DOMAIN @ |->
          IF b \in BlocksOf(program, f) \ reachable THEN <<>> ELSE succ[b]],
        !.incoming = [b \in DOMAIN @ |->
          IF b \in reachable
          THEN SelectSeq(@[b], LAMBDA a : \E x \in reachable : code.merged[x] = a)
          ELSE @[b]]]
      merged == MergeBlocks(eliminated, reachable)
  IN  code' = [merged EXCEPT !.incoming = [b \in DOMAIN @ |->
                 IF b \in reachable THEN PhiIncoming(merged, b) ELSE @[b]]]

Prune ==
  /\ insertion = "prune"
  /\ \E f \in remaining : PruneFunctionCopy(f) /\ remaining' = remaining \ {f}
  /\ UNCHANGED insertion

NextLoop ==
  /\ insertion \in {"replace", "prune"} /\ remaining = {}
  /\ IF insertion = "replace" THEN insertion' = "prune" /\ remaining' = Copied
     ELSE insertion' = "inserted" /\ remaining' = {}
  /\ UNCHANGED code

=============================================================================
