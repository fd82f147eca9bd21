------------------------------ MODULE SliceControl ------------------------------
(***************************************************************************)
(* The part of the precalculation analysis that follows control flow       *)
(* through invokes, exceptions and virtual calls: what has to be in the    *)
(* slice so that it passes the requested instructions.  The state of the   *)
(* analysis is one record s, each operator a function of the source that   *)
(* changes it; one visit is one step.  What PrecalculationAnalysis models  *)
(* of memory and of arguments is left out here.                            *)
(***************************************************************************)
EXTENDS ExceptAnalysis

VARIABLE slice   \* the state of the analysis

EmptySlice(p) ==
  [tainted |-> {}, visited |-> {}, included |-> {}, needs |-> [x \in Instr(p) |-> {}],
   include_in_precompute |-> {}, include_all_callsites |-> {},
   requests |-> p.request]

\* can_except_in_precompute of a call.
CallCanExcept(p, can, c) == \E f \in CallTargets(p, c) : can[f]

\* is_invoke_exception_case_needed
ExceptionCaseNeeded(p, can, s, c) ==
  /\ Range(p.block[Unwind(p, c)].code) \cap s.tainted # {}
  /\ CallCanExcept(p, can, c)

\* is_retval_of_call_needed
RetvalNeeded(p, s, c) == \E x \in s.tainted : c \in p.instr[x].uses

\* Mutant: what the exception can come from does not matter.
GuardsNormal(p, can, x) ==
  {t \in {Terminator(p, a) : a \in Predecessors(p, BlockOf(p, x))} : t \notin Invokes(p)}

\* insert_necessary_control_flow: the terminators to include so that control comes
\* to the block of x ...
Guards(p, can, x) ==
  {t \in {Terminator(p, a) : a \in Predecessors(p, BlockOf(p, x))} :
     t \in Invokes(p) => Unwind(p, t) = BlockOf(p, x) /\ CallCanExcept(p, can, t)}

\* ... and the invokes that are tainted only, as their normal destination is needed.
NormalGuards(p, x) ==
  {t \in Invokes(p) : p.block[BlockOf(p, t)].succ[1] = BlockOf(p, x)}

-----------------------------------------------------------------------------
(* Inclusion.                                                               *)

\* One level of include_value_in_precompute: what x needs and is guarded by; the
\* function of an entry block, and all its call sites if they all have to be kept.
IncludeOnce(p, can, s, q) ==
  LET found == q.fns \ s.include_in_precompute
      kept == {c \in Calls(p) : CallTargets(p, c) \cap found \cap q.always # {}}
      parents == {FunctionOf(p, c) : c \in kept}
  IN  [inc |-> q.inc \cup kept \cup UNION {Guards(p, can, x) \cup s.needs[x] : x \in q.inc},
       fns |-> q.fns \cup parents \cup {FunctionOf(p, x) : x \in {y \in q.inc : InEntry(p, y)}},
       always |-> q.always \cup parents]

\* The recursion of include_value_in_precompute for all of X.
IncludeRecursive(p, can, s, X) ==
  LET rounds == Cardinality(Instr(p)) + 2 * Cardinality(Functions(p))
      reach[k \in 0 .. rounds] ==
        IF k = 0 THEN [inc |-> X, fns |-> s.include_in_precompute,
                       always |-> s.include_all_callsites]
        ELSE LET q == reach[k - 1] IN IncludeOnce(p, can, s, q)
  IN  reach[rounds]

\* include_value_in_precompute, with insert_function_to_include.
Include(p, can, s, X) ==
  LET q == IncludeRecursive(p, can, s, X)
      fresh == q.inc \ s.included
      sites == UNION {Callsites(p, f) : f \in q.fns \ s.include_in_precompute}
  IN  [s EXCEPT !.included = @ \cup fresh,
                !.include_in_precompute = q.fns,
                !.include_all_callsites = q.always,
                !.tainted = @ \cup fresh \cup sites
                              \cup UNION {NormalGuards(p, x) : x \in fresh},
                !.visited = @ \ (fresh \cup sites)]

\* insert_tainted_value of the values T that x needs.
InsertNeeds(p, can, s, x, T) ==
  LET inserted == [s EXCEPT !.tainted = @ \cup T,
                            !.visited = @ \ (T \ s.needs[x]),
                            !.needs[x] = @ \cup T]
  IN  IF x \in s.included THEN Include(p, can, inserted, T) ELSE inserted

\* A request of analyze: its function is always called.
IncludeRequest(p, can, s, x) ==
  LET f == FunctionOf(p, x)
      included == Include(p, can, s, {x})
  IN  [included EXCEPT !.visited = (@ \cup {x}) \ (Callsites(p, f) \cap included.tainted),
                       !.include_all_callsites = @ \cup {f},
                       !.requests = @ \ {x}]

-----------------------------------------------------------------------------
(* Visits.                                                                  *)

\* Mutant: the returns of one callee are enough.
RetvalOfOne(p, can, s, c) ==
  IF RetvalNeeded(p, s, c)
  THEN InsertNeeds(p, can, s, c, Terminators(p, CHOOSE f \in CallTargets(p, c) : TRUE, "ret"))
  ELSE s

\* visit_call_for_retval
VisitForRetval(p, can, s, c) ==
  IF RetvalNeeded(p, s, c)
  THEN InsertNeeds(p, can, s, c, UNION {Terminators(p, f, "ret") : f \in CallTargets(p, c)})
  ELSE s

\* Mutant: what the callee throws stays out.
ExceptionForgotten(p, can, s, c) == s

\* visit_invoke_for_exception: the calls of the callee that may throw are included.
VisitForException(p, can, s, c) ==
  LET throwing == {f \in CallTargets(p, c) \cap Own(p) : can[f]}
      calls == {x \in Calls(p) : FunctionOf(p, x) \in throwing /\ CallCanExcept(p, can, x)}
      resumes == IF c \in s.included THEN UNION {Terminators(p, f, "resume") : f \in throwing}
                 ELSE {}
      external == IF \E f \in CallTargets(p, c) : p.function[f].kind = "throws" THEN {c} ELSE {}
  IN  IF c \in Invokes(p) /\ ExceptionCaseNeeded(p, can, s, c)
      THEN Include(p, can, s, calls \cup resumes \cup external) ELSE s

\* check_if_call_should_be_included
CheckCall(p, can, s, c) ==
  IF c \notin s.included /\ CallTargets(p, c) \cap s.include_all_callsites # {}
  THEN LET marked == [s EXCEPT !.include_all_callsites = @ \cup {FunctionOf(p, c)}]
       IN  Include(p, can, marked, {c})
  ELSE s

\* visit_call
VisitCall(p, can, s, c) ==
  LET retval == VisitForRetval(p, can, s, c)
      exception == VisitForException(p, can, retval, c)
  IN  CheckCall(p, can, exception, c)

\* visit_val
VisitVal(p, can, s, x) ==
  LET visited == [s EXCEPT !.visited = @ \cup {x}]
  IN  IF x \in Calls(p) THEN VisitCall(p, can, visited, x)
      ELSE InsertNeeds(p, can, visited, x, p.instr[x].uses)

ToVisit == slice.tainted \ slice.visited

\* analyze: the requests in any order, then visits while there is something to visit.
Request ==
  /\ FunctionsAnalyzed
  /\ \E x \in slice.requests :
       slice' = IncludeRequest(program, can_except_in_precompute, slice, x)

Visit ==
  /\ FunctionsAnalyzed
  /\ slice.requests = {}
  /\ \E x \in ToVisit : slice' = VisitVal(program, can_except_in_precompute, slice, x)

AnalysisDone == FunctionsAnalyzed /\ slice.requests = {} /\ ToVisit = {}

=============================================================================
