------------------------------- MODULE MCSliceRun -------------------------------
(***************************************************************************)
(* Small programs for SliceRun.                                            *)
(***************************************************************************)
EXTENDS SliceRun

Plain(op, used) == [op |-> op, callee |-> "", slot |-> "", uses |-> used]
Direct(op, f) == [Plain(op, {}) EXCEPT !.callee = f]
Virtual(op, s) == [Plain(op, {}) EXCEPT !.slot = s]

Body(entry) == [kind |-> "own", entry |-> entry]
External(k) == [kind |-> k, entry |-> ""]
Block(f, instrs, next) == [fn |-> f, code |-> instrs, succ |-> next, incoming |-> <<>>]
Phi(b, from) == [b EXCEPT !.incoming = from]
NoClass == [object |-> [none |-> ""]]

\* The request is in a handler, reached if the callee throws.
Handler ==
  [function |-> [main |-> Body("m"), work |-> Body("w"),
                 log |-> External("nothrow"), raise |-> External("throws")],
   block |-> [m |-> Block("main", <<"m_log", "m_work">>, <<"done", "pad">>),
              pad |-> Block("main", <<"p_pad", "p_req", "p_br">>, <<"done">>),
              done |-> Block("main", <<"ret">>, <<>>),
              w |-> Block("work", <<"w_val", "w_if">>, <<"w_throw", "w_end">>),
              w_throw |-> Block("work", <<"w_raise", "w_ret">>, <<>>),
              w_end |-> Block("work", <<"w_return">>, <<>>)],
   instr |-> [m_log |-> Direct("call", "log"), m_work |-> Direct("invoke", "work"),
              p_pad |-> Plain("pad", {}), p_req |-> Plain("request", {}),
              p_br |-> Plain("br", {}), ret |-> Plain("ret", {}),
              w_val |-> Plain("value", {}), w_if |-> Plain("condbr", {"w_val"}),
              w_raise |-> Direct("call", "raise"), w_ret |-> Plain("ret", {}),
              w_return |-> Plain("ret", {})],
   vtable |-> NoClass, request |-> {"p_req"}]

\* A request in a loop of a callee, behind a branch; another branch does not matter.
Loop ==
  [function |-> [main |-> Body("m"), work |-> Body("w"), log |-> External("nothrow")],
   block |-> [m |-> Block("main", <<"m_val", "m_if">>, <<"yes", "done">>),
              yes |-> Block("main", <<"m_work", "m_br">>, <<"done">>),
              done |-> Block("main", <<"d_val", "d_if">>, <<"d_yes", "end">>),
              d_yes |-> Block("main", <<"d_log", "d_br">>, <<"end">>),
              end |-> Block("main", <<"ret">>, <<>>),
              w |-> Block("work", <<"w_br">>, <<"w_body">>),
              w_body |-> Block("work", <<"w_req", "w_val", "w_if">>, <<"w_body", "w_end">>),
              w_end |-> Block("work", <<"w_ret">>, <<>>)],
   instr |-> [m_val |-> Plain("value", {}), m_if |-> Plain("condbr", {"m_val"}),
              m_work |-> Direct("call", "work"), m_br |-> Plain("br", {}),
              d_val |-> Plain("value", {}), d_if |-> Plain("condbr", {"d_val"}),
              d_log |-> Direct("call", "log"), d_br |-> Plain("br", {}),
              ret |-> Plain("ret", {}), w_br |-> Plain("br", {}),
              w_req |-> Plain("request", {}), w_val |-> Plain("value", {}),
              w_if |-> Plain("condbr", {"w_val"}), w_ret |-> Plain("ret", {})],
   vtable |-> NoClass, request |-> {"w_req"}]

\* Each class has one function that holds a request and one that does not.
Objects ==
  [function |-> [main |-> Body("m"), a_foo |-> Body("af"), a_bar |-> Body("ab"),
                 b_foo |-> Body("bf"), b_bar |-> Body("bb")],
   block |-> [m |-> Block("main", <<"foo", "bar", "ret">>, <<>>),
              af |-> Block("a_foo", <<"af_req", "af_ret">>, <<>>),
              ab |-> Block("a_bar", <<"ab_ret">>, <<>>),
              bf |-> Block("b_foo", <<"bf_ret">>, <<>>),
              bb |-> Block("b_bar", <<"bb_req", "bb_ret">>, <<>>)],
   instr |-> [foo |-> Virtual("call", "foo"), bar |-> Virtual("call", "bar"),
              ret |-> Plain("ret", {}),
              af_req |-> Plain("request", {}), af_ret |-> Plain("ret", {}),
              ab_ret |-> Plain("ret", {}), bf_ret |-> Plain("ret", {}),
              bb_req |-> Plain("request", {}), bb_ret |-> Plain("ret", {})],
   vtable |-> [A |-> [foo |-> "a_foo", bar |-> "a_bar"], B |-> [foo |-> "b_foo", bar |-> "b_bar"]],
   request |-> {"af_req", "bb_req"}]

\* Two invokes with one landing pad: the first cannot throw, the second can, and the
\* handler asks which one it was.
SharedPad ==
  [function |-> [main |-> Body("m"), safe |-> Body("s"), raise |-> External("throws")],
   block |-> [m |-> Block("main", <<"m_val", "m_if">>, <<"one", "two">>),
              one |-> Block("main", <<"one_safe">>, <<"done", "pad">>),
              two |-> Block("main", <<"two_raise">>, <<"done", "pad">>),
              pad |-> Phi(Block("main", <<"p_phi", "p_pad", "p_if">>, <<"send", "done">>),
                          <<"one", "two">>),
              send |-> Block("main", <<"p_req", "p_br">>, <<"done">>),
              done |-> Block("main", <<"ret">>, <<>>),
              s |-> Block("safe", <<"s_req", "s_ret">>, <<>>)],
   instr |-> [m_val |-> Plain("value", {}), m_if |-> Plain("condbr", {"m_val"}),
              one_safe |-> Direct("invoke", "safe"), two_raise |-> Direct("invoke", "raise"),
              p_phi |-> Plain("phi", {}), p_pad |-> Plain("pad", {}),
              p_if |-> Plain("condbr", {"p_phi"}), p_req |-> Plain("request", {}),
              p_br |-> Plain("br", {}), ret |-> Plain("ret", {}),
              s_req |-> Plain("request", {}), s_ret |-> Plain("ret", {})],
   vtable |-> NoClass, request |-> {"p_req", "s_req"}]

\* The exception goes through a function that cleans up and resumes.
Cleanup ==
  [function |-> [main |-> Body("m"), work |-> Body("w"), raise |-> External("throws")],
   block |-> [m |-> Block("main", <<"m_work">>, <<"done", "pad">>),
              pad |-> Block("main", <<"p_pad", "p_req", "p_br">>, <<"done">>),
              done |-> Block("main", <<"ret">>, <<>>),
              w |-> Block("work", <<"w_raise">>, <<"w_end", "w_clean">>),
              w_clean |-> Block("work", <<"w_pad", "w_resume">>, <<>>),
              w_end |-> Block("work", <<"w_ret">>, <<>>)],
   instr |-> [m_work |-> Direct("invoke", "work"),
              p_pad |-> Plain("pad", {}), p_req |-> Plain("request", {}),
              p_br |-> Plain("br", {}), ret |-> Plain("ret", {}),
              w_raise |-> Direct("invoke", "raise"), w_pad |-> Plain("pad", {}),
              w_resume |-> Plain("resume", {}), w_ret |-> Plain("ret", {})],
   vtable |-> NoClass, request |-> {"p_req"}]

\* What a virtual call returns decides on a request.
Decision ==
  [function |-> [main |-> Body("m"), a_foo |-> Body("af"), b_foo |-> Body("bf"),
                 b_bar |-> Body("bb"), log |-> External("nothrow")],
   block |-> [m |-> Block("main", <<"foo", "if">>, <<"yes", "done">>),
              yes |-> Block("main", <<"y_req", "y_br">>, <<"done">>),
              done |-> Block("main", <<"bar", "ret">>, <<>>),
              af |-> Block("a_foo", <<"af_val", "af_ret">>, <<>>),
              bf |-> Block("b_foo", <<"bf_log", "bf_val", "bf_ret">>, <<>>),
              bb |-> Block("b_bar", <<"bb_req", "bb_ret">>, <<>>)],
   instr |-> [foo |-> Virtual("call", "foo"), if |-> Plain("condbr", {"foo"}),
              y_req |-> Plain("request", {}), y_br |-> Plain("br", {}),
              bar |-> Virtual("call", "bar"), ret |-> Plain("ret", {}),
              af_val |-> Plain("value", {}), af_ret |-> Plain("ret", {"af_val"}),
              bf_log |-> Direct("call", "log"), bf_val |-> Plain("value", {}),
              bf_ret |-> Plain("ret", {"bf_val"}),
              bb_req |-> Plain("request", {}), bb_ret |-> Plain("ret", {})],
   vtable |-> [A |-> [foo |-> "a_foo", bar |-> "log"], B |-> [foo |-> "b_foo", bar |-> "b_bar"]],
   request |-> {"y_req", "bb_req"}]

\* Two functions that call each other; the request is behind the recursion, and
\* behind it an exception no one handles.
Recursion ==
  [function |-> [main |-> Body("m"), even |-> Body("e"), odd |-> Body("o"),
                 check |-> External("throws")],
   block |-> [m |-> Block("main", <<"m_even">>, <<"done", "pad">>),
              pad |-> Block("main", <<"p_pad", "p_resume">>, <<>>),
              done |-> Block("main", <<"ret">>, <<>>),
              e |-> Block("even", <<"e_val", "e_if">>, <<"e_call", "e_end">>),
              e_call |-> Block("even", <<"e_odd", "e_br">>, <<"e_end">>),
              e_end |-> Block("even", <<"e_req", "e_check", "e_ret">>, <<>>),
              o |-> Block("odd", <<"o_even", "o_ret">>, <<>>)],
   instr |-> [m_even |-> Direct("invoke", "even"), ret |-> Plain("ret", {}),
              p_pad |-> Plain("pad", {}), p_resume |-> Plain("resume", {}),
              e_val |-> Plain("value", {}), e_if |-> Plain("condbr", {"e_val"}),
              e_odd |-> Direct("call", "odd"), e_br |-> Plain("br", {}),
              e_req |-> Plain("request", {}), e_check |-> Direct("call", "check"),
              e_ret |-> Plain("ret", {}),
              o_even |-> Direct("call", "even"), o_ret |-> Plain("ret", {})],
   vtable |-> NoClass, request |-> {"e_req"}]

\* What work returns decides on a request, and what help returns on one of work.
Results ==
  [function |-> [main |-> Body("m"), work |-> Body("w"), help |-> Body("h"),
                 log |-> External("throws")],
   block |-> [m |-> Block("main", <<"m_work", "m_if">>, <<"yes", "done">>),
              yes |-> Block("main", <<"y_req", "y_work", "y_br">>, <<"done">>),
              done |-> Block("main", <<"d_log", "d_help", "ret">>, <<>>),
              w |-> Block("work", <<"w_help", "w_if">>, <<"w_body", "w_end">>),
              w_body |-> Block("work", <<"w_log", "w_req", "w_again">>, <<"w_body", "w_end">>),
              w_end |-> Block("work", <<"w_val", "w_ret">>, <<>>),
              h |-> Block("help", <<"h_log", "h_val", "h_ret">>, <<>>)],
   instr |-> [m_work |-> Direct("call", "work"), m_if |-> Plain("condbr", {"m_work"}),
              y_req |-> Plain("request", {}), y_work |-> Direct("call", "work"),
              y_br |-> Plain("br", {}), d_log |-> Direct("call", "log"),
              d_help |-> Direct("call", "help"), ret |-> Plain("ret", {}),
              w_help |-> Direct("call", "help"), w_if |-> Plain("condbr", {"w_help"}),
              w_log |-> Direct("call", "log"), w_req |-> Plain("request", {}),
              w_again |-> Plain("condbr", {"w_help"}), w_val |-> Plain("value", {}),
              w_ret |-> Plain("ret", {"w_val"}),
              h_log |-> Direct("call", "log"), h_val |-> Plain("value", {}),
              h_ret |-> Plain("ret", {"h_val"})],
   vtable |-> NoClass, request |-> {"y_req", "w_req"}]

MCProgram == {Handler, Loop, Objects, SharedPad, Cleanup, Decision, Recursion, Results}

\* What virtual calls return comes from bodies that return: no class has null there.
ASSUME MCVirtualReturns == \A p \in MCProgram : VirtualReturns(p)

\* The programs without exceptions and virtual calls.
ASSUME MCPlainPrograms == {p \in MCProgram : PlainProgram(p)} = {Loop, Results}
ASSUME MCResultsApart == ResultsApart(Loop) /\ ResultsApart(Results)

-----------------------------------------------------------------------------
(* Programs the slice of which does not do what the code says of it.        *)

\* The same with a function in between: deep is called, but not copied.
DeepHandler ==
  [function |-> [main |-> Body("m"), work |-> Body("w"), deep |-> Body("d"),
                 log |-> External("nothrow"), raise |-> External("throws")],
   block |-> [m |-> Block("main", <<"m_log", "m_work">>, <<"done", "pad">>),
              pad |-> Block("main", <<"p_pad", "p_req", "p_br">>, <<"done">>),
              done |-> Block("main", <<"ret">>, <<>>),
              w |-> Block("work", <<"w_deep", "w_ret">>, <<>>),
              d |-> Block("deep", <<"d_val", "d_if">>, <<"d_throw", "d_end">>),
              d_throw |-> Block("deep", <<"d_raise", "d_ret">>, <<>>),
              d_end |-> Block("deep", <<"d_return">>, <<>>)],
   instr |-> [m_log |-> Direct("call", "log"), m_work |-> Direct("invoke", "work"),
              p_pad |-> Plain("pad", {}), p_req |-> Plain("request", {}),
              p_br |-> Plain("br", {}), ret |-> Plain("ret", {}),
              w_deep |-> Direct("call", "deep"), w_ret |-> Plain("ret", {}),
              d_val |-> Plain("value", {}), d_if |-> Plain("condbr", {"d_val"}),
              d_raise |-> Direct("call", "raise"), d_ret |-> Plain("ret", {}),
              d_return |-> Plain("ret", {})],
   vtable |-> NoClass, request |-> {"p_req"}]

\* A branch in front of an invoke, a request behind the invoke.
BehindInvoke ==
  [function |-> [main |-> Body("m"), log |-> External("throws")],
   block |-> [m |-> Block("main", <<"m_val", "m_if">>, <<"yes", "done">>),
              yes |-> Block("main", <<"y_log">>, <<"next", "pad">>),
              next |-> Block("main", <<"n_req", "n_br">>, <<"done">>),
              pad |-> Block("main", <<"p_pad", "p_resume">>, <<>>),
              done |-> Block("main", <<"ret">>, <<>>)],
   instr |-> [m_val |-> Plain("value", {}), m_if |-> Plain("condbr", {"m_val"}),
              y_log |-> Direct("invoke", "log"),
              n_req |-> Plain("request", {}), n_br |-> Plain("br", {}),
              p_pad |-> Plain("pad", {}), p_resume |-> Plain("resume", {}),
              ret |-> Plain("ret", {})],
   vtable |-> NoClass, request |-> {"n_req"}]

\* Only one of the classes holds a request.
OneClass ==
  [Objects EXCEPT !.instr.bb_req = Plain("value", {}), !.request = {"af_req"}]

\* Three invokes with one landing pad, of which only the last can throw.
ThreeInvokes ==
  [SharedPad EXCEPT
     !.block = [@ EXCEPT !.m.succ = <<"one", "other">>, !.pad.incoming = <<"one", "between", "two">>]
               @@ [other |-> Block("main", <<"o_val", "o_if">>, <<"between", "two">>),
                   between |-> Block("main", <<"z_safe">>, <<"done", "pad">>)],
     !.instr = @ @@ [o_val |-> Plain("value", {}), o_if |-> Plain("condbr", {"o_val"}),
                     z_safe |-> Direct("invoke", "safe")]]

\* The two invokes in one block after the other.
InvokeAfterInvoke ==
  [SharedPad EXCEPT !.block.m.code = <<"m_val", "m_br">>, !.block.m.succ = <<"one">>,
                    !.block.one.succ = <<"two", "pad">>,
                    !.block.one.code = <<"m_if", "one_safe">>,
                    !.instr = [@ EXCEPT !.m_if = Plain("value", {})]
                              @@ [m_br |-> Plain("br", {})]]

\* The invoke has to be kept for what it calls before the handler is found to
\* call a request.
HandlerCalls ==
  [function |-> [main |-> Body("m"), work |-> Body("w"), report |-> Body("r"),
                 send |-> Body("s"), raise |-> External("throws")],
   block |-> [m |-> Block("main", <<"m_work">>, <<"done", "pad">>),
              pad |-> Block("main", <<"p_pad", "p_report", "p_br">>, <<"done">>),
              done |-> Block("main", <<"ret">>, <<>>),
              w |-> Block("work", <<"w_req", "w_val", "w_if">>, <<"w_throw", "w_end">>),
              w_throw |-> Block("work", <<"w_raise", "w_ret">>, <<>>),
              w_end |-> Block("work", <<"w_return">>, <<>>),
              r |-> Block("report", <<"r_send", "r_ret">>, <<>>),
              s |-> Block("send", <<"s_req", "s_ret">>, <<>>)],
   instr |-> [m_work |-> Direct("invoke", "work"),
              p_pad |-> Plain("pad", {}), p_report |-> Direct("call", "report"),
              p_br |-> Plain("br", {}), ret |-> Plain("ret", {}),
              w_req |-> Plain("request", {}),
              w_val |-> Plain("value", {}), w_if |-> Plain("condbr", {"w_val"}),
              w_raise |-> Direct("call", "raise"), w_ret |-> Plain("ret", {}),
              w_return |-> Plain("ret", {}),
              r_send |-> Direct("call", "send"), r_ret |-> Plain("ret", {}),
              s_req |-> Plain("request", {}), s_ret |-> Plain("ret", {})],
   vtable |-> NoClass, request |-> {"w_req", "s_req"}]

\* An exception in front of a request, caught by a handler that does not matter.
Swallowed ==
  [HandlerCalls EXCEPT !.block.w = Block("work", <<"w_raise", "w_req", "w_ret">>, <<>>),
                       !.block.w_throw = Block("work", <<"w_val", "w_if">>, <<"w_end", "w_end">>),
                       !.request = {"w_req"}]

\* One class implements foo by a function of a library.
LibraryMethod == [Decision EXCEPT !.vtable.B.foo = "log"]

\* One implementation of foo returns behind an invoke.
ReturnBehindInvoke ==
  [Decision EXCEPT
     !.block = [@ EXCEPT !.bf = Block("b_foo", <<"bf_log">>, <<"bf_end", "bf_pad">>)]
               @@ [bf_end |-> Block("b_foo", <<"bf_val", "bf_ret">>, <<>>),
                   bf_pad |-> Block("b_foo", <<"bf_resume">>, <<>>)],
     !.instr = [@ EXCEPT !.bf_log = Direct("invoke", "log")]
               @@ [bf_resume |-> Plain("resume", {})]]

\* One implementation of foo never returns.
NeverReturns ==
  [Decision EXCEPT !.block.bf.succ = <<"bf">>, !.instr.bf_ret = Plain("br", {})]

\* What inner returns is needed before work, which it calls, is found to send a request.
LateRequest ==
  [function |-> [main |-> Body("m"), inner |-> Body("i"), work |-> Body("w"), outer |-> Body("o")],
   block |-> [m |-> Block("main", <<"m_outer", "ret">>, <<>>),
              o |-> Block("outer", <<"o_inner", "o_if">>, <<"yes", "no">>),
              yes |-> Block("outer", <<"y_req", "y_br">>, <<"no">>),
              no |-> Block("outer", <<"n_inner", "o_ret">>, <<>>),
              i |-> Block("inner", <<"i_val", "i_work", "i_ret">>, <<>>),
              w |-> Block("work", <<"w_req", "w_ret">>, <<>>)],
   instr |-> [m_outer |-> Direct("call", "outer"), ret |-> Plain("ret", {}),
              o_inner |-> Direct("call", "inner"), o_if |-> Plain("condbr", {"o_inner"}),
              y_req |-> Plain("request", {}), y_br |-> Plain("br", {}),
              n_inner |-> Direct("call", "inner"), o_ret |-> Plain("ret", {}),
              i_val |-> Plain("value", {}), i_work |-> Direct("call", "work"),
              i_ret |-> Plain("ret", {"i_val"}),
              w_req |-> Plain("request", {}), w_ret |-> Plain("ret", {})],
   vtable |-> NoClass, request |-> {"y_req", "w_req"}]

ASSUME MCLateRequest == PlainProgram(LateRequest) /\ ~ ResultsApart(LateRequest)

DeepThrow == {DeepHandler}
MissedBranch == {BehindInvoke}
OriginalVtable == {OneClass}
PhiRemoval == {ThreeInvokes}
PhiMerge == {InvokeAfterInvoke}
LateHandler == {HandlerCalls}
SwallowedException == {Swallowed}
NullResult == {LibraryMethod}
BehindReturn == {ReturnBehindInvoke}
NoReturn == {NeverReturns}
EarlyResult == {LateRequest}

=============================================================================
