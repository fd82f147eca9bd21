----------------------------- MODULE HappensBefore -----------------------------
(***************************************************************************)
(* Instrumented code and the calls that order threads: the part of         *)
(* loop_optimize.cpp and tsan_combine.cpp that decides which tsan calls    *)
(* stand for the same moment.  A program p has the functions that each     *)
(* function calls (callees), and the body of the function that the threads *)
(* run: a sequence of items, which the passes edit.  An item is            *)
(*   access   a read or write through a pointer,                           *)
(*   tsan     the call that reports it, or a range of bytes,               *)
(*   gep      the instruction that computes a pointer,                     *)
(*   call     a call, with the functions it may reach (fns),               *)
(*   loop/end the ends of a loop: with them a basic block ends.            *)
(***************************************************************************)
EXTENDS Integers, Sequences, FiniteSets, FiniteSetsExt, SequencesExt

\* The functions of the thread libraries that the programs call.
ThreadFunctions ==
  {"__kmpc_barrier", "__kmpc_dispatch_next", "omp_get_thread_num", "omp_set_lock"}

\* func_names_whitelist
Whitelist == {"__kmpc_dispatch_next", "omp_get_thread_num"}

\* What from reaches along next, itself included.
Reach(next, from) ==
  LET reach[k \in 0 .. Cardinality(DOMAIN next)] ==
        IF k = 0 THEN from
        ELSE LET before == reach[k - 1]
             IN  before \cup UNION {next[n] : n \in before \cap DOMAIN next}
  IN  reach[Cardinality(DOMAIN next)]

\* Mutant: only the called functions themselves are looked at.
InfluenceOfCallee(p, item) ==
  item.op = "call" /\ item.fns \cap (ThreadFunctions \ Whitelist) # {}

\* mightInfluenceHappensBefore: alreadyVisited makes the recursion reachability.
MightInfluenceHappensBefore(p, item) ==
  /\ item.op = "call"
  /\ Reach(p.callees, item.fns) \cap (ThreadFunctions \ Whitelist) # {}

Positions(body, op) == {i \in DOMAIN body : body[i].op = op}

\* isAcceptableTsanCall, and no unaligned access.
TsanCalls(body) == {i \in Positions(body, "tsan") : ~ body[i].unaligned}

EndsSegment(p, item) ==
  item.op \in {"loop", "end"} \/ MightInfluenceHappensBefore(p, item)

\* wrap_happens_before_replace: the tsan calls of one basic block between two
\* calls that influence the order of the threads.
SameSegment(p, body, i, j) ==
  \A k \in (i .. j) \cup (j .. i) : ~ EndsSegment(p, body[k])
Segments(p, body) ==
  {{j \in TsanCalls(body) : SameSegment(p, body, i, j)} : i \in TsanCalls(body)}

-----------------------------------------------------------------------------
(* Edits of a body: calls to remove, and calls to insert after a position.  *)

NoEdit == [removed |-> {}, added |-> {}]
Edit(removed, added) == [removed |-> removed, added |-> added]
Both(e, f) == Edit(e.removed \cup f.removed, e.added \cup f.added)

\* Mutant: the replaced calls stay.
OnlyAdded(body, edit) ==
  FlattenSeq([i \in DOMAIN body |->
    <<body[i]>> \o SetToSeq({a.item : a \in {x \in edit.added : x.after = i}})])

Edited(body, edit) ==
  FlattenSeq([i \in DOMAIN body |->
    (IF i \in edit.removed THEN <<>> ELSE <<body[i]>>)
      \o SetToSeq({a.item : a \in {x \in edit.added : x.after = i}})])

\* A call of __tsan_write_range or __tsan_read_range: createTSANrange.
RangeCall(kind, ptr, size) ==
  [op |-> "tsan", kind |-> kind, ptr |-> ptr, size |-> size, unaligned |-> FALSE,
   once |-> FALSE, from |-> "", shift |-> 0]

=============================================================================
