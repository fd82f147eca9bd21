------------------------------ MODULE LoopOptimize ------------------------------
(***************************************************************************)
(* loop_optimize.cpp: tsan calls in a loop that need not run in every      *)
(* iteration.  A loop of p has the loop around it (outer, a set of at most *)
(* one); step gives by how much a pointer moves per iteration of a loop.   *)
(* chunk is the constant chunk size of the OpenMP loop of the function, 0  *)
(* if there is none.                                                       *)
(***************************************************************************)
EXTENDS HappensBefore

LoopBegin(body, l) == CHOOSE i \in Positions(body, "loop") : body[i].loop = l
LoopEnd(body, l) == CHOOSE i \in Positions(body, "end") : body[i].loop = l
InLoop(body, l) == LoopBegin(body, l) .. LoopEnd(body, l)

OuterOf(p) == [l \in DOMAIN p.loop |-> p.loop[l].outer]
LoopsAround(p, l) == Reach(OuterOf(p), {l})

\* getOpenMPbounds; the pass gives up on the chunk if there are several loops.
ChunkSize(p) ==
  IF p.chunk = 1 \/ Cardinality({l \in DOMAIN p.loop : p.loop[l].outer = {}}) > 1
  THEN 0 ELSE p.chunk

\* loopWrapper: a loop with a call that orders the threads is left alone.
LoopMayBeChanged(p, body, l) ==
  \A i \in InLoop(body, l) : ~ MightInfluenceHappensBefore(p, body[i])

\* The calls of a loop; those behind a flag are in blocks the loop does not know, and a
\* second flag would change nothing.
LoopCalls(body, l) ==
  {i \in Positions(body, "tsan") \cap InLoop(body, l) :
     ~ body[i].unaligned /\ ~ body[i].once}

\* isLoopInvariant: the pointer is computed outside.
LoopInvariant(body, l, q) ==
  \A i \in Positions(body, "gep") \cap InLoop(body, l) : body[i].ptr # q

\* The pointer is an AddRec of this loop with a constant step.
StepsIn(p, l, q) ==
  /\ p.pointer[q].step[l] # 0
  /\ \A m \in DOMAIN p.loop :
       l \in LoopsAround(p, m) \ {m} => p.pointer[q].step[m] = 0

AbsInt(n) == IF n < 0 THEN -n ELSE n

\* prepare_tsan_ranges: adjacent accesses in a loop over a chunk.
IsRange(p, body, l, i) ==
  /\ ~ LoopInvariant(body, l, body[i].ptr)
  /\ StepsIn(p, l, body[i].ptr)
  /\ AbsInt(p.pointer[body[i].ptr].step[l]) <= body[i].size
  /\ ChunkSize(p) > 1

\* The lowest address of the range, seen from the first iteration: evaluateAtIteration
\* if the pointer moves down.
LowerBound(p, l, q) ==
  LET step == p.pointer[q].step[l]
  IN  IF step < 0 THEN step * (ChunkSize(p) - 1) ELSE 0

\* Mutant: the trip count without the one that is added back later.
RangeOfTripCount(p, l, call) ==
  [call EXCEPT !.size = (ChunkSize(p) - 1) * call.size, !.once = TRUE,
               !.from = l, !.shift = LowerBound(p, l, call.ptr)]

\* createTSANcall: length = size_of(element) * (abs(last - base) + 1)
RangeOfChunk(p, l, call) ==
  [call EXCEPT !.size = ChunkSize(p) * call.size, !.once = TRUE,
               !.from = l, !.shift = LowerBound(p, l, call.ptr)]

\* create_tsan_replacement: the call behind a flag, itself or as a range.
OnlyOnce(p, body, l, i) ==
  CASE LoopInvariant(body, l, body[i].ptr) -> [body[i] EXCEPT !.once = TRUE]
    [] IsRange(p, body, l, i) -> RangeOfChunk(p, l, body[i])
    [] OTHER -> body[i]

\* perform_tsan_licm
PerformTsanLicm(p, body, l) ==
  [i \in DOMAIN body |->
     IF LoopMayBeChanged(p, body, l) /\ i \in LoopCalls(body, l)
     THEN OnlyOnce(p, body, l, i) ELSE body[i]]

\* A range makes processLoopsInFunc start again.
RemovesCalls(p, body, l) ==
  \E i \in LoopCalls(body, l) : PerformTsanLicm(p, body, l)[i].from # ""

=============================================================================
