------------------------------- MODULE SliceCode -------------------------------
(***************************************************************************)
(* The LLVM module that is sliced, as far as control flow, exceptions and  *)
(* virtual calls go.  A program p has                                      *)
(*   function  its kind: "own" has a body, "throws" is an external one     *)
(*             that may throw, "nothrow" one that does not (NoUnwind,      *)
(*             allocation, MPI, intrinsics); and the entry block           *)
(*   block     its function, code (a sequence of instructions), succ (a    *)
(*             sequence of blocks; normal and unwind destination of an     *)
(*             invoke) and incoming, the order in which its phi lists the  *)
(*             blocks before it (<<>>: no phi)                             *)
(*   instr     op, the callee or the slot of a virtual call, and the values*)
(*             it uses                                                     *)
(*   vtable    for each class and slot a function                          *)
(*   request   the instructions the execution has to pass.                 *)
(***************************************************************************)
EXTENDS Integers, Sequences, FiniteSets, FiniteSetsExt, SequencesExt

Instr(p) == DOMAIN p.instr
Functions(p) == DOMAIN p.function
Own(p) == {f \in Functions(p) : p.function[f].kind = "own"}

BlockOf(p, x) == CHOOSE b \in DOMAIN p.block : x \in Range(p.block[b].code)
FunctionOf(p, x) == p.block[BlockOf(p, x)].fn
InEntry(p, x) == p.function[FunctionOf(p, x)].entry = BlockOf(p, x)
InstrOf(p, f) == {x \in Instr(p) : FunctionOf(p, x) = f}

Terminator(p, b) == Last(p.block[b].code)
Predecessors(p, b) == {a \in DOMAIN p.block : b \in Range(p.block[a].succ)}
Terminators(p, f, op) == {x \in InstrOf(p, f) : p.instr[x].op = op}

Invokes(p) == {x \in Instr(p) : p.instr[x].op = "invoke"}
Calls(p) == {x \in Instr(p) : p.instr[x].op = "call"} \cup Invokes(p)
Unwind(p, x) == p.block[BlockOf(p, x)].succ[2]
Indirect(p, x) == p.instr[x].slot # ""

\* get_possible_call_targets
CallTargets(p, x) ==
  IF Indirect(p, x) THEN {p.vtable[c][p.instr[x].slot] : c \in DOMAIN p.vtable}
  ELSE {p.instr[x].callee}

Callsites(p, f) == {c \in Calls(p) : f \in CallTargets(p, c)}
Callees(p, f) == UNION {CallTargets(p, c) : c \in Calls(p) \cap InstrOf(p, f)}

BlocksOf(p, f) == {b \in DOMAIN p.block : p.block[b].fn = f}

-----------------------------------------------------------------------------
(* What holds of every program.                                            *)

TerminatorOps == {"br", "condbr", "invoke", "ret", "resume"}

\* A block ends with its only terminator.
BlockFormed(p, b) ==
  LET code == p.block[b].code
      next == p.block[b].succ
      op == p.instr[Terminator(p, b)].op
  IN  /\ p.block[b].fn \in Own(p)
      /\ code \in Seq(Instr(p)) \ {<<>>}
      /\ \A i \in DOMAIN code : p.instr[code[i]].op \in TerminatorOps <=> i = Len(code)
      /\ next \in Seq(BlocksOf(p, p.block[b].fn))
      /\ op = "br" => Len(next) = 1
      /\ op \in {"condbr", "invoke"} => Len(next) = 2
      /\ op \in {"ret", "resume"} => next = <<>>

\* What an instruction reads is in its function; what is passed to a call and what a
\* request reads is left out.
WellFormed(p) ==
  /\ IsFiniteSet(Instr(p)) /\ IsFiniteSet(Functions(p)) /\ IsFiniteSet(DOMAIN p.block)
  /\ "main" \in Own(p) /\ "" \notin Functions(p)
  /\ \A f \in Own(p) : p.function[f].entry \in BlocksOf(p, f)
  /\ \A b \in DOMAIN p.block : BlockFormed(p, b)
  /\ \A x \in Instr(p) : \E b \in DOMAIN p.block : x \in Range(p.block[b].code)
  /\ \A a, b \in DOMAIN p.block : \A i \in DOMAIN p.block[a].code, j \in DOMAIN p.block[b].code :
       p.block[a].code[i] = p.block[b].code[j] => a = b /\ i = j
  /\ \A x \in Instr(p) : p.instr[x].op \notin {"return", "removed"}
  /\ \A x \in Instr(p) : p.instr[x].uses \subseteq InstrOf(p, FunctionOf(p, x))
  /\ p.request \subseteq Instr(p) \ Calls(p)
  /\ \A x \in Calls(p) \cup p.request : p.instr[x].uses = {}

-----------------------------------------------------------------------------
(* What holds of some programs.                                            *)

\* Control comes to b from the entry of its function, without a landing pad.
EntryBefore(p, b) ==
  \A B \in SUBSET DOMAIN p.block :
    /\ b \in B
    /\ \A c \in B : \A a \in Predecessors(p, c) : Terminator(p, a) \notin Invokes(p) => a \in B
    => p.function[p.block[b].fn].entry \in B

\* A virtual function the result of which is used has a body and returns.
VirtualReturns(p) ==
  \A c \in Calls(p) : Indirect(p, c) /\ (\E x \in Instr(p) : c \in p.instr[x].uses) =>
    \A f \in CallTargets(p, c) :
      f \in Own(p) /\ \E r \in Terminators(p, f, "ret") : EntryBefore(p, BlockOf(p, r))

\* Some call of f is used.
Used(p, f) == \E x \in Instr(p) : \E c \in Calls(p) : c \in p.instr[x].uses /\ f \in CallTargets(p, c)

\* A program with neither exceptions nor virtual calls, in which each block is reached and
\* a function returns if its result is used.
PlainProgram(p) ==
  /\ \A x \in Instr(p) : p.instr[x].op \notin {"invoke", "resume"} /\ ~ Indirect(p, x)
  /\ \A b \in DOMAIN p.block : EntryBefore(p, b)
  /\ \A f \in Own(p) : Used(p, f) => Terminators(p, f, "ret") # {}

\* A request is in f.
HoldsRequest(p, f) == \E x \in p.request : FunctionOf(p, x) = f

\* Functions that a request can be below of: those that hold one, and their callers.
Leading(p, T) ==
  /\ \A f \in Own(p) : HoldsRequest(p, f) => f \in T
  /\ \A c \in Calls(p) : CallTargets(p, c) \cap T # {} => FunctionOf(p, c) \in T

\* The result of a function that only calls what holds a request is not used.
ResultsApart(p) ==
  \E T \in SUBSET Functions(p) :
    Leading(p, T) /\ \A f \in T : Used(p, f) => HoldsRequest(p, f)

=============================================================================
