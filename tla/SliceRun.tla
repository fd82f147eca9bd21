-------------------------------- MODULE SliceRun --------------------------------
(***************************************************************************)
(* A slice is built and then run beside the program it was made from.  The *)
(* slice runs ahead to the next instruction it has to decide at (a branch, *)
(* a call or a requested instruction that is included) and waits there     *)
(* until the program has come to the same instruction of the same calls;   *)
(* then both take the same branch, find the same class and meet the same   *)
(* exception.  precompute_main with precomputed data does what this says   *)
(* with the same data.                                                     *)
(***************************************************************************)
EXTENDS SliceInsertion

CONSTANT MaxDepth   \* bound on the calls in progress
ASSUME MaxDepthAssumption == MaxDepth \in Nat \ {0}

VARIABLES
  original,    \* the run of the program: its calls in progress, and how it stands
  precompute   \* the run of the slice

runVars == <<original, precompute>>
vars == <<exceptVars, slice, insertionVars, runVars>>

-----------------------------------------------------------------------------
(* One instruction of code c in a run r; choice says which branch is taken,*)
(* which class the object of a virtual call has and if an external call    *)
(* throws.                                                                  *)

Outcomes == [branch : 1 .. 2, class : DOMAIN program.vtable, throws : BOOLEAN]

At(b) == [block |-> b, index |-> 1]
Entry(f) == At(program.function[f].entry)
Here(stack) == program.block[Last(stack).block].code[Last(stack).index]
Running(r) == r.status = "running"

Goto(r, b) == [r EXCEPT !.stack = Append(Front(@), At(b))]

\* Behind an instruction; the last one of a block is followed by the first successor.
Continue(c, r) ==
  LET b == Last(r.stack).block
  IN  IF Here(r.stack) = Terminator(program, b) THEN Goto(r, c.succ[b][1])
      ELSE [r EXCEPT !.stack[Len(r.stack)].index = @ + 1]

Return(c, r) ==
  LET popped == [r EXCEPT !.stack = Front(@)]
  IN  IF popped.stack = <<>> THEN [popped EXCEPT !.status = "finished"]
      ELSE Continue(c, popped)

\* An exception comes out of the calls above the last invoke.
Unwound(c, r) ==
  LET catching == {k \in DOMAIN r.stack : c.op[Here(SubSeq(r.stack, 1, k))] = "invoke"}
      k == Max(catching)
  IN  IF catching = {} THEN [r EXCEPT !.stack = <<>>, !.status = "aborted"]
      ELSE Goto([r EXCEPT !.stack = SubSeq(@, 1, k)], c.succ[r.stack[k].block][2])

\* The slice must not come to a function that has no copy, or to none.
Call(c, r, x, choice) ==
  LET target == c.calls[x][choice.class]
      own == target.fn \in Own(program)
  IN  CASE target = NullFunction ->
             IF x \in c.checked THEN Continue(c, r) ELSE [r EXCEPT !.status = "null called"]
        [] own /\ target.copy # r.copy -> [r EXCEPT !.status = "escaped"]
        [] own /\ target.copy = r.copy -> [r EXCEPT !.stack = Append(@, Entry(target.fn))]
        [] target # NullFunction /\ ~ own ->
             IF program.function[target.fn].kind = "throws" /\ choice.throws
             THEN Unwound(c, r) ELSE Continue(c, r)

Execute(c, r, choice) ==
  LET x == Here(r.stack)
      b == Last(r.stack).block
  IN  CASE c.op[x] = "condbr" -> Goto(r, c.succ[b][choice.branch])
        [] c.op[x] \in {"call", "invoke"} -> Call(c, r, x, choice)
        [] c.op[x] \in {"ret", "return"} -> Return(c, r)
        [] c.op[x] = "resume" -> Unwound(c, [r EXCEPT !.stack = Front(@)])
        [] OTHER -> Continue(c, r)

-----------------------------------------------------------------------------
(* Both runs.                                                               *)

Run(f, copy) == [stack |-> <<Entry(f)>>, status |-> "running", copy |-> copy]
NoRun == [stack |-> <<>>, status |-> "finished", copy |-> TRUE]

\* create_precompute_main: if main was not copied there is nothing to precalculate.
Start ==
  /\ insertion = "inserted"
  /\ insertion' = "running"
  /\ original' = Run("main", FALSE)
  /\ precompute' = IF "main" \in Copied THEN Run("main", TRUE) ELSE NoRun
  /\ UNCHANGED <<exceptVars, slice, remaining, code>>

\* An instruction the slice decides at.
Decides(x) ==
  x \in program.request \/ (Included(x) /\ code.op[x] \in {"call", "invoke", "condbr"})

Stable == Running(precompute) => Decides(Here(precompute.stack))

SliceStep ==
  /\ insertion = "running" /\ ~ Stable
  /\ precompute' = Execute(code, precompute, CHOOSE choice \in Outcomes : TRUE)
  /\ UNCHANGED <<exceptVars, slice, insertionVars, original>>

Together == Running(precompute) /\ precompute.stack = original.stack

OriginalStep ==
  /\ insertion = "running" /\ Stable /\ Running(original)
  /\ \E choice \in Outcomes :
       /\ original' = Execute(OriginalCode(program), original, choice)
       /\ precompute' = IF Together THEN Execute(code, precompute, choice) ELSE precompute
  /\ Len(original'.stack) <= MaxDepth
  /\ UNCHANGED <<exceptVars, slice, insertionVars>>

-----------------------------------------------------------------------------

Init ==
  /\ ExceptInit
  /\ slice = EmptySlice(program)
  /\ insertion = "analysis" /\ remaining = {} /\ code = OriginalCode(program)
  /\ original = NoRun /\ precompute = NoRun

Analysis == (Request \/ Visit) /\ UNCHANGED <<exceptVars, insertionVars, runVars>>
Insertion ==
  (CopyFunctions \/ ReplaceCalls \/ Prune \/ NextLoop)
    /\ UNCHANGED <<exceptVars, slice, runVars>>

Next ==
  \/ ExceptNext /\ UNCHANGED <<slice, insertionVars, runVars>>
  \/ Analysis
  \/ Insertion
  \/ Start
  \/ SliceStep
  \/ OriginalStep

\* The pass is sequential code, its recursion goes on until it has returned.
Spec == Init /\ [][Next]_vars /\ WF_exceptVars(ExceptNext)

-----------------------------------------------------------------------------
(* Properties                                                               *)

\* The slice passes each requested instruction whenever the program does, in the
\* same calls ("this instruction location should be reached in precompute").
RequestsReached ==
  (insertion = "running" /\ Stable /\ Running(original)
     /\ Here(original.stack) \in program.request) => Together

\* The slice is at its end when the program is: it waits for nothing the program
\* does not do, and an exception the program survives does not end it.
SliceEnds ==
  (insertion = "running" /\ Stable /\ original.status = "finished")
    => precompute.status = "finished"

\* The slice calls only copies ("this function was not copied: it will not be
\* called during precalc").
NoOriginalRuns == precompute.status # "escaped"

\* No call of the slice goes to a null entry of a vtable ("if retval is used: the
\* precompute vtable can not contain null").
NoNullCalled == precompute.status # "null called"

\* After pruning a phi that is included has one incoming value for each block that
\* control can come from ("there can be wrong phis now").
PhisMatch ==
  insertion = "running" =>
    \A x \in slice.included : code.op[x] = "phi" =>
      LET b == BlockOf(program, x)
          edges == Edges(code, b)
      IN  code.merged[b] = b /\ edges # {} =>
            /\ Range(code.incoming[b]) = {e.from : e \in edges}
            /\ Len(code.incoming[b]) = Cardinality(edges)

=============================================================================
