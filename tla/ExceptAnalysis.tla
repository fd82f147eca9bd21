----------------------------- MODULE ExceptAnalysis -----------------------------
(***************************************************************************)
(* analyze_can_except_in_precompute: which functions may throw, found by a *)
(* recursion over the call graph before anything else is analyzed.  A      *)
(* function may be asked for again after its analysis, and while it is     *)
(* still being analyzed.                                                   *)
(***************************************************************************)
EXTENDS SliceCode

CONSTANT Program   \* the programs to choose from

\* What is called is in the module.
ASSUME ProgramAssumption ==
  \A p \in Program : \A f \in Own(p) : Callees(p, f) \subseteq Functions(p)

\* The programs are such as a compiler makes.
ASSUME WellFormedAssumption == \A p \in Program : WellFormed(p)

VARIABLES
  program,
  can_except_in_precompute,       \* per function
  analysis_except_in_precompute,  \* the functions being analyzed
  to_analyze,                     \* functions analyze_functions has to come to
  except_stack                    \* the calls in progress

exceptVars ==
  <<program, can_except_in_precompute, analysis_except_in_precompute, to_analyze, except_stack>>

\* A call in progress: the callees its loops have to come to, and the one whose
\* analysis it waits for ({} if none).
Frame(f) == [fn |-> f, left |-> Callees(program, f), callee |-> {}]
Frames(p) ==
  [fn : Own(p), left : SUBSET Functions(p), callee : {{}} \cup {{f} : f \in Functions(p)}]
Top == Last(except_stack)

\* can_except_in_precompute is initially true.
ExceptInit ==
  /\ program \in Program
  /\ can_except_in_precompute = [f \in Functions(program) |-> TRUE]
  /\ analysis_except_in_precompute = {}
  /\ to_analyze = Functions(program)
  /\ except_stack = <<>>

\* Mutant: the function counts as being analyzed before it is known to have a body.
FlagFirst(f, stack) ==
  /\ can_except_in_precompute' =
       [can_except_in_precompute EXCEPT ![f] = @ /\ program.function[f].kind # "nothrow"]
  /\ analysis_except_in_precompute' = analysis_except_in_precompute \cup {f}
  /\ except_stack' = IF f \in Own(program) THEN Append(stack, Frame(f)) ELSE stack

\* The function up to its loops: what has no body to look at is decided at once.
Analyze(f, stack) ==
  /\ can_except_in_precompute' =
       [can_except_in_precompute EXCEPT ![f] = @ /\ program.function[f].kind # "nothrow"]
  /\ IF f \in Own(program)
     THEN /\ except_stack' = Append(stack, Frame(f))
          /\ analysis_except_in_precompute' = analysis_except_in_precompute \cup {f}
     ELSE /\ except_stack' = stack
          /\ UNCHANGED analysis_except_in_precompute

\* The loop of analyze_functions.
AnalyzeFunction ==
  /\ except_stack = <<>>
  /\ \E f \in to_analyze :
       /\ to_analyze' = to_analyze \ {f}
       /\ Analyze(f, <<>>)
  /\ UNCHANGED program

Waiting(f) == ReplaceAt(except_stack, Len(except_stack), [Top EXCEPT !.callee = {f}])

\* Mutant: a function that is being analyzed is passed over.
SkipAnalyzed ==
  /\ except_stack # <<>> /\ Top.callee = {}
  /\ \E f \in Top.left :
       IF f \in analysis_except_in_precompute
       THEN /\ except_stack' = ReplaceAt(except_stack, Len(except_stack),
                                         [Top EXCEPT !.left = @ \ {f}])
            /\ UNCHANGED <<can_except_in_precompute, analysis_except_in_precompute>>
       ELSE Analyze(f, Waiting(f))
  /\ UNCHANGED <<program, to_analyze>>

\* The next callee: analyzed (again) unless that is in progress.
AnalyzeCallee ==
  /\ except_stack # <<>> /\ Top.callee = {}
  /\ \E f \in Top.left :
       IF f \in analysis_except_in_precompute
       THEN /\ except_stack' = Waiting(f)
            /\ UNCHANGED <<can_except_in_precompute, analysis_except_in_precompute>>
       ELSE Analyze(f, Waiting(f))
  /\ UNCHANGED <<program, to_analyze>>

\* Mutant: the loop starts again behind each callee.
StartAgain ==
  /\ except_stack # <<>>
  /\ \E f \in Top.callee :
       IF can_except_in_precompute[f] /\ f # Top.fn
       THEN /\ except_stack' = Front(except_stack)
            /\ analysis_except_in_precompute' = analysis_except_in_precompute \ {Top.fn}
       ELSE /\ except_stack' = ReplaceAt(except_stack, Len(except_stack), Frame(Top.fn))
            /\ UNCHANGED analysis_except_in_precompute
  /\ UNCHANGED <<program, can_except_in_precompute, to_analyze>>

\* Mutant: the way out of the loop leaves the function marked.
FlagStays ==
  /\ except_stack # <<>>
  /\ \E f \in Top.callee :
       IF can_except_in_precompute[f] /\ f # Top.fn
       THEN except_stack' = Front(except_stack)
       ELSE except_stack' = ReplaceAt(except_stack, Len(except_stack),
                                      [Top EXCEPT !.left = @ \ {f}, !.callee = {}])
  /\ UNCHANGED <<program, can_except_in_precompute, analysis_except_in_precompute, to_analyze>>

\* A callee that can throw ends the function, which can then throw too.
CheckCallee ==
  /\ except_stack # <<>>
  /\ \E f \in Top.callee :
       IF can_except_in_precompute[f] /\ f # Top.fn
       THEN /\ except_stack' = Front(except_stack)
            /\ analysis_except_in_precompute' = analysis_except_in_precompute \ {Top.fn}
       ELSE /\ except_stack' = ReplaceAt(except_stack, Len(except_stack),
                                         [Top EXCEPT !.left = @ \ {f}, !.callee = {}])
            /\ UNCHANGED analysis_except_in_precompute
  /\ UNCHANGED <<program, can_except_in_precompute, to_analyze>>

NoCalleeExcepts ==
  /\ except_stack # <<>> /\ Top.callee = {} /\ Top.left = {}
  /\ can_except_in_precompute' = [can_except_in_precompute EXCEPT ![Top.fn] = FALSE]
  /\ analysis_except_in_precompute' = analysis_except_in_precompute \ {Top.fn}
  /\ except_stack' = Front(except_stack)
  /\ UNCHANGED <<program, to_analyze>>

ExceptNext == AnalyzeFunction \/ AnalyzeCallee \/ CheckCallee \/ NoCalleeExcepts

ExceptSpec == ExceptInit /\ [][ExceptNext]_exceptVars /\ WF_exceptVars(ExceptNext)

FunctionsAnalyzed == to_analyze = {} /\ except_stack = <<>>

-----------------------------------------------------------------------------
(* Properties                                                               *)

ExceptTypeOK ==
  /\ can_except_in_precompute \in [Functions(program) -> BOOLEAN]
  /\ analysis_except_in_precompute \subseteq Own(program)
  /\ to_analyze \subseteq Functions(program)
  /\ except_stack \in Seq(Frames(program))

\* A function counts as being analyzed exactly while its analysis is in progress,
\* and no analysis is started twice (assert(not analysis_except_in_precompute)).
InProgressOnce ==
  /\ analysis_except_in_precompute = {except_stack[k].fn : k \in DOMAIN except_stack}
  /\ \A j, k \in DOMAIN except_stack : except_stack[j].fn = except_stack[k].fn => j = k

\* A set of functions that holds what throws and what calls one of its members.
ThrowClosed(p, T) ==
  /\ {f \in Functions(p) : p.function[f].kind = "throws"} \subseteq T
  /\ \A f \in Own(p) : Callees(p, f) \cap (T \ {f}) # {} => f \in T

\* What an exception may come out of: the least such set.
MayThrow(p) == {f \in Functions(p) : \A T \in SUBSET Functions(p) : ThrowClosed(p, T) => f \in T}

\* At every moment a function counts as one that can throw if it may, however
\* the recursion meets cycles of the call graph (the initial value is pessimistic
\* because "callee may not be properly initialized yet").
CanExceptSound == \A f \in MayThrow(program) : can_except_in_precompute[f]

\* A second analysis of a function finds what the first one found: no callee can
\* throw of a function that was found not to (assert(can_except_in_precompute)).
AnalysisRepeatable ==
  \A k \in DOMAIN except_stack : \A f \in except_stack[k].callee :
    (k = Len(except_stack) /\ can_except_in_precompute[f] /\ f # except_stack[k].fn)
      => can_except_in_precompute[except_stack[k].fn]

\* The recursion comes to an end although finished functions are analyzed again.
ExceptTermination == <>FunctionsAnalyzed

=============================================================================
