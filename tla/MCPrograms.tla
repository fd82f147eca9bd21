------------------------------ MODULE MCPrograms ------------------------------
(***************************************************************************)
(* Small programs for TLC.  A program is a function from its values to     *)
(* their descriptions, a function from its blocks to their code, a request *)
(* and the slice it should get.                                            *)
(***************************************************************************)
EXTENDS Integers, FiniteSets, TLC

CONSTANT Programs   \* a sequence: the programs to analyze

\* Descriptions of values: the function of an argument is fn, the function of
\* an instruction that of its block.
Desc == [kind |-> "plain", ops |-> {}, ptr |-> FALSE, mem |-> "", fn |-> "",
         args |-> <<>>, readonly |-> FALSE]
Const == [Desc EXCEPT !.kind = "constant"]
Global == [Const EXCEPT !.ptr = TRUE]
Alloca == [Desc EXCEPT !.ptr = TRUE]
Plain(ops) == [Desc EXCEPT !.ops = ops]
LoadOf(p) == [Desc EXCEPT !.kind = "load", !.ops = {p}, !.mem = p]
StoreTo(p, x) == [Desc EXCEPT !.kind = "store", !.ops = {p, x}, !.mem = p]
Phi(ops) == [Desc EXCEPT !.kind = "phi", !.ops = ops]
Select(ops) == [Desc EXCEPT !.kind = "select", !.ops = ops]
Ret(ops) == [Desc EXCEPT !.kind = "ret", !.ops = ops]
Arg(f) == [Desc EXCEPT !.kind = "arg", !.fn = f]
FunctionValue(f) == [Desc EXCEPT !.kind = "function", !.fn = f]
\* args: a function from the arguments of f to the operands
CallOf(f, args) ==
  [Desc EXCEPT !.kind = "call", !.mem = f, !.args = args,
               !.ops = {args[a] : a \in DOMAIN args}]
Ptr(desc) == [desc EXCEPT !.ptr = TRUE]
ReadOnly(desc) == [desc EXCEPT !.readonly = TRUE]

\* A block of fn: its code in order and its successors.
Block(fn, code, succ) == [fn |-> fn, code |-> code, succ |-> succ, entry |-> FALSE]
Entry(fn, code, succ) == [Block(fn, code, succ) EXCEPT !.entry = TRUE]

NoArgs == [a \in {} |-> ""]

-----------------------------------------------------------------------------
(* chain: a helper called in main computes a value of its argument, the    *)
(* argument comes from a global that main writes before the call and again *)
(* after it.  *)
Chain ==
  [values |->
     "one" :> Const @@ "g" :> Global
     @@ "st" :> StoreTo("g", "one") @@ "x" :> LoadOf("g")
     @@ "cF" :> CallOf("F", "a" :> "x") @@ "late" :> StoreTo("g", "one")
     @@ "a" :> Arg("F") @@ "t" :> Plain({"a"}) @@ "r" :> Ret({}),
   blocks |->
     "main" :> Entry("main", <<"st", "x", "cF", "late">>, {})
     @@ "F" :> Entry("F", <<"t", "r">>, {}),
   request |-> {"t"}, cfg |-> {},
   slice |-> {"one", "g", "st", "x", "cF", "a", "t"}]

-----------------------------------------------------------------------------
(* writes: what is loaded has been written two calls down; a call that only *)
(* reads it and a call that writes it too late are not in the slice.        *)
Writes ==
  [values |->
     "one" :> Const @@ "p" :> Alloca
     @@ "cV" :> CallOf("V", "pv" :> "p") @@ "cR" :> CallOf("R", "pr" :> "p")
     @@ "x" :> LoadOf("p") @@ "cLate" :> CallOf("W", "pw" :> "p")
     @@ "pv" :> Ptr(Arg("V")) @@ "cW" :> CallOf("W", "pw" :> "pv")
     @@ "pw" :> Ptr(Arg("W")) @@ "s" :> StoreTo("pw", "one")
     @@ "pr" :> ReadOnly(Ptr(Arg("R"))) @@ "y" :> LoadOf("pr"),
   blocks |->
     "main" :> Entry("main", <<"p", "cV", "cR", "x", "cLate">>, {})
     @@ "V" :> Entry("V", <<"cW">>, {}) @@ "W" :> Entry("W", <<"s">>, {})
     @@ "R" :> Entry("R", <<"y">>, {}),
   request |-> {"x"}, cfg |-> {},
   slice |-> {"one", "p", "cV", "x", "pv", "cW", "pw", "s"}]

(* loop: the slice has to pass an instruction that a branch in a helper     *)
(* guards; the helper is called in a loop.                                  *)
LoopProgram ==
  [values |->
     "zero" :> Const @@ "g" :> Global
     @@ "st" :> StoreTo("g", "zero") @@ "br0" :> Plain({})
     @@ "i" :> Phi({"zero", "i2"}) @@ "c" :> Plain({"i"}) @@ "brc" :> Plain({"c"})
     @@ "cF" :> CallOf("F", "a" :> "i") @@ "i2" :> Plain({"i"}) @@ "br1" :> Plain({})
     @@ "late" :> StoreTo("g", "zero")
     @@ "a" :> Arg("F") @@ "l" :> LoadOf("g") @@ "brf" :> Plain({"l"})
     @@ "tag" :> Plain({"a"}) @@ "brt" :> Plain({}) @@ "rF" :> Ret({}),
   blocks |->
     "main" :> Entry("main", <<"st", "br0">>, {"head"})
     @@ "head" :> Block("main", <<"i", "c", "brc">>, {"body", "exit"})
     @@ "body" :> Block("main", <<"cF", "i2", "br1">>, {"head"})
     @@ "exit" :> Block("main", <<"late">>, {})
     @@ "F" :> Entry("F", <<"l", "brf">>, {"then", "end"})
     @@ "then" :> Block("F", <<"tag", "brt">>, {"end"})
     @@ "end" :> Block("F", <<"rF">>, {}),
   request |-> {}, cfg |-> {"tag"},
   slice |-> {"g", "st", "zero", "br0", "i", "c", "brc", "cF", "i2", "br1",
              "l", "brf", "tag"}]

(* alias: a phi and a select of pointers; every store through one of them    *)
(* before the load matters.                                                  *)
AliasProgram ==
  [values |->
     "one" :> Const @@ "p" :> Alloca @@ "q" :> Alloca
     @@ "s1" :> StoreTo("p", "one") @@ "br" :> Plain({})
     @@ "m" :> Ptr(Phi({"p", "q"})) @@ "sel" :> Ptr(Select({"one", "m", "z"}))
     @@ "z" :> Alloca @@ "s2" :> StoreTo("sel", "one") @@ "x" :> LoadOf("q")
     @@ "s3" :> StoreTo("z", "one"),
   blocks |->
     "main" :> Entry("main", <<"p", "q", "z", "s1", "br">>, {"join"})
     @@ "join" :> Block("main", <<"m", "sel", "s2", "x", "s3">>, {}),
   request |-> {"x"}, cfg |-> {},
   slice |-> {"one", "p", "q", "s1", "br", "m", "sel", "z", "s2", "x"}]

(* joined: the phi that makes a store and a load meet may be visited after     *)
(* both; the pointer of the store is no operand of it.                        *)
Joined ==
  [values |->
     "one" :> Const @@ "p" :> Alloca @@ "q" :> Alloca @@ "s" :> StoreTo("p", "one")
     @@ "address" :> Plain({"p"}) @@ "br" :> Plain({})
     @@ "m" :> Ptr(Phi({"p"})) @@ "brm" :> Plain({})
     @@ "n" :> Ptr(Phi({"m", "q"})) @@ "x" :> LoadOf("n") @@ "y" :> Plain({"x"})
     @@ "t" :> Plain({"y"}),
   blocks |->
     "main" :> Entry("main", <<"p", "q", "s", "address", "br">>, {"then", "end"})
     @@ "then" :> Block("main", <<"m", "brm">>, {"end"})
     @@ "end" :> Block("main", <<"n", "x", "y", "t">>, {}),
   request |-> {"address", "t"}, cfg |-> {},
   slice |-> {"one", "p", "q", "s", "address", "br", "m", "brm", "n", "x", "y", "t"}]

(* returned: a function returns its pointer argument.                        *)
Returned ==
  [values |->
     "one" :> Const @@ "p" :> Alloca @@ "c" :> Ptr(CallOf("Id", "a" :> "p"))
     @@ "s" :> StoreTo("c", "one") @@ "x" :> LoadOf("p")
     @@ "a" :> Ptr(Arg("Id")) @@ "r" :> Ret({"a"}),
   blocks |-> "main" :> Entry("main", <<"p", "c", "s", "x">>, {})
              @@ "Id" :> Entry("Id", <<"r">>, {}),
   request |-> {"x"}, cfg |-> {},
   slice |-> {"one", "p", "c", "s", "x", "a", "r"}]

(* recursive: a function that writes through its argument calls itself.      *)
Recursive ==
  [values |->
     "one" :> Const @@ "p" :> Alloca @@ "c" :> CallOf("R", "a" :> "p" @@ "n" :> "one")
     @@ "x" :> LoadOf("p") @@ "cLate" :> CallOf("R", "a" :> "p" @@ "n" :> "one")
     @@ "a" :> Ptr(Arg("R")) @@ "n" :> Arg("R") @@ "br" :> Plain({"n"})
     @@ "less" :> Plain({"n"}) @@ "s" :> StoreTo("a", "n")
     @@ "cR" :> CallOf("R", "a" :> "a" @@ "n" :> "less") @@ "r" :> Ret({}),
   blocks |-> "main" :> Entry("main", <<"p", "c", "x", "cLate">>, {})
              @@ "R" :> Entry("R", <<"less", "br">>, {"again", "end"})
              @@ "again" :> Block("R", <<"s", "cR">>, {"end"})
              @@ "end" :> Block("R", <<"r">>, {}),
   request |-> {"x"}, cfg |-> {},
   slice |-> {"one", "p", "c", "x", "a", "n", "br", "less", "s", "cR"}]

(* withdrawn: a select takes a pointer whose group merges with another later.  *)
Withdrawn ==
  [values |->
     "p" :> Alloca @@ "z" :> Alloca
     @@ "m" :> Ptr(Phi({"p"})) @@ "sel" :> Ptr(Select({"p", "z"}))
     @@ "n" :> Ptr(Phi({"m"})) @@ "br" :> Plain({}),
   blocks |-> "main" :> Entry("main", <<"p", "z", "br">>, {"join"})
              @@ "join" :> Block("main", <<"m", "n", "sel">>, {}),
   request |-> {"m", "sel"}, cfg |-> {},
   slice |-> {"p", "z", "m", "sel", "br"}]

(* register: the tagged load of a global is three calls below main, which    *)
(* are all needed; the callers write the global.                             *)
Register ==
  [values |->
     "one" :> Const @@ "g" :> Global @@ "cQ" :> CallOf("Q", NoArgs)
     @@ "stQ" :> StoreTo("g", "one") @@ "cP" :> CallOf("P", NoArgs)
     @@ "stP" :> StoreTo("g", "one") @@ "cF" :> CallOf("F", NoArgs)
     @@ "ld" :> LoadOf("g"),
   blocks |-> "main" :> Entry("main", <<"cQ">>, {}) @@ "Q" :> Entry("Q", <<"stQ", "cP">>, {})
              @@ "P" :> Entry("P", <<"stP", "cF">>, {}) @@ "F" :> Entry("F", <<"ld">>, {}),
   request |-> {"g", "ld"}, cfg |-> {},
   slice |-> {"one", "g", "cQ", "stQ", "cP", "stP", "cF", "ld"}]

(* lateload: a write that is found to be read after its call was visited.    *)
LateLoad ==
  [values |->
     "one" :> Const @@ "p" :> Alloca @@ "q" :> Alloca @@ "address" :> Plain({"p"})
     @@ "c1" :> CallOf("W", "pw" :> "p") @@ "x" :> LoadOf("p")
     @@ "c2" :> CallOf("W", "pw" :> "q") @@ "t" :> Plain({"c2"})
     @@ "y1" :> Plain({"x"}) @@ "y2" :> Plain({"y1"}) @@ "y3" :> Plain({"y2"})
     @@ "y4" :> Plain({"y3"}) @@ "u" :> Plain({"y4"})
     @@ "pw" :> Ptr(Arg("W")) @@ "s" :> StoreTo("pw", "one") @@ "r" :> Ret({"one"}),
   blocks |-> "main" :> Entry("main", <<"p", "q", "address", "c1", "x", "c2", "t",
                                        "y1", "y2", "y3", "y4", "u">>, {})
              @@ "W" :> Entry("W", <<"s", "r">>, {}),
   request |-> {"address", "t", "u"}, cfg |-> {},
   slice |-> {"one", "p", "q", "address", "c1", "x", "c2", "t", "y1", "y2",
              "y3", "y4", "u", "pw", "s", "r"}]

(* selectarg: a pointer is passed to a function that only reads it, and a     *)
(* select may choose it.                                                      *)
SelectArg ==
  [values |->
     "one" :> Const @@ "p" :> Alloca @@ "q" :> Alloca @@ "s" :> StoreTo("p", "one")
     @@ "cF" :> CallOf("F", "a" :> "p")
     @@ "sel" :> Ptr(Select({"p", "q"})) @@ "t" :> Plain({"sel"})
     @@ "a" :> ReadOnly(Ptr(Arg("F"))) @@ "x" :> LoadOf("a"),
   blocks |-> "main" :> Entry("main", <<"p", "q", "s", "cF", "sel", "t">>, {})
              @@ "F" :> Entry("F", <<"x">>, {}),
   request |-> {"x", "t"}, cfg |-> {},
   slice |-> {"one", "p", "q", "s", "cF", "a", "sel", "t", "x"}]

(* reselected: a select chooses what another select chooses as well.         *)
Reselected ==
  [values |->
     "one" :> Const @@ "p" :> Alloca @@ "w" :> Alloca @@ "s" :> StoreTo("p", "one")
     @@ "x" :> LoadOf("p")
     @@ "inner" :> Ptr(Select({"p", "w"})) @@ "outer" :> Ptr(Select({"inner", "w"}))
     @@ "u" :> Plain({"outer"}) @@ "t" :> Plain({"u"}),
   blocks |-> "main" :> Entry("main", <<"p", "w", "s", "x", "inner", "outer", "u", "t">>, {}),
   request |-> {"x", "t"}, cfg |-> {},
   slice |-> {"one", "p", "w", "s", "x", "inner", "outer", "u", "t"}]

(* returnedglobal: a function returns a global; one call ignores the result. *)
ReturnedGlobal ==
  [values |->
     "one" :> Const @@ "g" :> Global @@ "st" :> StoreTo("g", "one")
     @@ "c" :> Ptr(CallOf("Get", NoArgs)) @@ "x" :> LoadOf("g") @@ "r" :> Ret({"g"}),
   blocks |-> "main" :> Entry("main", <<"st", "c", "x">>, {}) @@ "Get" :> Entry("Get", <<"r">>, {}),
   request |-> {"x"}, cfg |-> {},
   slice |-> {"one", "g", "st", "x"}]

(* returnedlate: the result of a call is used, by a phi, after the call was     *)
(* visited; the call is in the slice for a request in its callee.             *)
ReturnedLate ==
  [values |->
     "one" :> Const @@ "g" :> Global @@ "c" :> Ptr(CallOf("Get", NoArgs))
     @@ "m" :> Ptr(Phi({"c"})) @@ "y" :> Plain({"m"}) @@ "t" :> Plain({"y"})
     @@ "cG" :> CallOf("G", NoArgs) @@ "r" :> Ret({"g"}) @@ "tag" :> Plain({"one"}),
   blocks |-> "main" :> Entry("main", <<"c", "m", "y", "t">>, {})
              @@ "Get" :> Entry("Get", <<"cG", "r">>, {})
              @@ "G" :> Entry("G", <<"tag">>, {}),
   request |-> {"t", "tag"}, cfg |-> {},
   slice |-> {"one", "g", "c", "m", "y", "t", "cG", "r", "tag"}]

(* comparedfunction: a function that writes a global is compared and called. *)
ComparedFunction ==
  [values |->
     "one" :> Const @@ "g" :> Global @@ "cW" :> CallOf("W", NoArgs)
     @@ "x" :> LoadOf("g") @@ "fW" :> FunctionValue("W") @@ "t" :> Plain({"fW"})
     @@ "s" :> StoreTo("g", "one"),
   blocks |-> "main" :> Entry("main", <<"cW", "x", "t">>, {}) @@ "W" :> Entry("W", <<"s">>, {}),
   request |-> {"t", "x"}, cfg |-> {},
   slice |-> {"one", "g", "cW", "x", "fW", "t", "s"}]

-----------------------------------------------------------------------------
(* The programs of each run.                                               *)

Slices == <<Chain, Writes, LoopProgram, AliasProgram, Joined, Returned, Recursive>>
Rounds == <<Returned, Recursive, AliasProgram, Withdrawn>>
JustReturnedLate == <<ReturnedLate>>
JustRegister == <<Register>>
JustLateLoad == <<LateLoad>>
JustSelectArg == <<SelectArg>>
JustReselected == <<Reselected>>
JustReturnedGlobal == <<ReturnedGlobal>>
JustComparedFunction == <<ComparedFunction>>

==============================================================================
