----------------------------- MODULE SliceRun_proofs -----------------------------
(***************************************************************************)
(* What holds of every program that is sliced and run beside its slice.    *)
(* The recursion of the exception analysis never misses a function that    *)
(* may throw.  The analysis closes the slice under what is needed and what *)
(* guards it; copying, replacing and pruning leave code that can be run;   *)
(* and so each call of the slice has somewhere to go.  Without exceptions  *)
(* and virtual calls the slice stays ahead of the program, and passes what  *)
(* is requested.                                                           *)
(***************************************************************************)
EXTENDS SliceRun, Iteration_proofs

\* The last frame is taken from the stack.
LEMMA Popped ==
  ASSUME NEW S, NEW s \in Seq(S), s # <<>>
  PROVE  /\ Len(s) \in Nat \ {0}
         /\ DOMAIN s = 1 .. Len(s)
         /\ Last(s) = s[Len(s)] /\ Last(s) \in S
         /\ Front(s) \in Seq(S)
         /\ DOMAIN Front(s) = 1 .. Len(s) - 1
         /\ \A k \in 1 .. Len(s) - 1 : Front(s)[k] = s[k]
  BY DEF Front, Last

\* The last frame of the stack is replaced.
LEMMA Replaced ==
  ASSUME NEW S, NEW s \in Seq(S), s # <<>>, NEW e \in S
  PROVE  /\ ReplaceAt(s, Len(s), e) \in Seq(S)
         /\ ReplaceAt(s, Len(s), e) # <<>>
         /\ Len(ReplaceAt(s, Len(s), e)) = Len(s)
         /\ DOMAIN ReplaceAt(s, Len(s), e) = DOMAIN s
         /\ \A k \in DOMAIN s : ReplaceAt(s, Len(s), e)[k] = IF k = Len(s) THEN e ELSE s[k]
  BY DEF ReplaceAt

\* A frame is put on the stack.
LEMMA Pushed ==
  ASSUME NEW S, NEW s \in Seq(S), NEW e \in S
  PROVE  /\ Append(s, e) \in Seq(S)
         /\ Append(s, e) # <<>>
         /\ Len(Append(s, e)) = Len(s) + 1
         /\ DOMAIN Append(s, e) = 1 .. Len(s) + 1
         /\ Append(s, e)[Len(s) + 1] = e
         /\ \A k \in 1 .. Len(s) : Append(s, e)[k] = s[k]
  OBVIOUS

-----------------------------------------------------------------------------
(* The invariant.                                                           *)

\* A call in progress waits for a callee it has not come past, and the callees it
\* has come past do not throw.
FrameOK(r) ==
  /\ r.left \subseteq Callees(program, r.fn)
  /\ r.callee \subseteq r.left
  /\ \A f \in Callees(program, r.fn) \ r.left : f = r.fn \/ ~ can_except_in_precompute[f]

\* What was found not to throw calls nothing that can.
NothrowClosed ==
  /\ \A f \in Functions(program) :
       program.function[f].kind = "throws" => can_except_in_precompute[f]
  /\ \A f \in Own(program) : ~ can_except_in_precompute[f]
       => \A g \in Callees(program, f) : g = f \/ ~ can_except_in_precompute[g]

ExceptInv ==
  /\ program \in Program
  /\ ExceptTypeOK
  /\ InProgressOnce
  /\ \A k \in DOMAIN except_stack : FrameOK(except_stack[k])
  /\ NothrowClosed

\* The flags only ever fall.
Falls ==
  /\ program' = program
  /\ can_except_in_precompute' \in [Functions(program) -> BOOLEAN]
  /\ \A f \in Functions(program) : ~ can_except_in_precompute[f] => ~ can_except_in_precompute'[f]

\* A function with a body only calls functions of the module.
LEMMA CalleesTyped ==
  ASSUME ExceptInv, NEW f \in Own(program)
  PROVE  Callees(program, f) \subseteq Functions(program) /\ f \in Functions(program)
  BY ProgramAssumption DEF ExceptInv, Own

\* A call returns.
LEMMA PopKeeps ==
  ASSUME ExceptInv, Falls, except_stack # <<>>, except_stack' = Front(except_stack),
         analysis_except_in_precompute' = analysis_except_in_precompute \ {Top.fn},
         UNCHANGED to_analyze, NothrowClosed'
  PROVE  ExceptInv'
<1>. DEFINE n == Len(except_stack)
<1>1. except_stack \in Seq(Frames(program))
  BY DEF ExceptInv, ExceptTypeOK
<1>2. /\ n \in Nat \ {0} /\ DOMAIN except_stack = 1 .. n /\ Top = except_stack[n]
      /\ except_stack' \in Seq(Frames(program))
      /\ DOMAIN except_stack' = 1 .. n - 1
      /\ \A k \in 1 .. n - 1 : except_stack'[k] = except_stack[k]
  BY <1>1, Popped DEF Top
<1>3. program' = program
  BY DEF Falls
<1>4. Frames(program)' = Frames(program)
  BY <1>3 DEF Frames, Own, Functions
<1>5. ExceptTypeOK'
  BY <1>2, <1>3, <1>4 DEF ExceptInv, ExceptTypeOK, Falls, Functions, Own
<1>6. InProgressOnce'
  <2>1. /\ analysis_except_in_precompute = {except_stack[k].fn : k \in 1 .. n}
        /\ \A j, k \in 1 .. n : except_stack[j].fn = except_stack[k].fn => j = k
    BY <1>2 DEF ExceptInv, InProgressOnce
  <2>2. n \in Nat \ {0} /\ Top = except_stack[n]
    BY <1>2
  <2>. HIDE DEF n
  <2>3. \A k \in 1 .. n - 1 : k \in 1 .. n /\ k # n
    BY <2>2
  <2>4. \A k \in 1 .. n : k = n \/ k \in 1 .. n - 1
    BY <2>2
  <2>5. n \in 1 .. n
    BY <2>2
  <2>6. \A k \in 1 .. n - 1 : except_stack'[k] = except_stack[k]
    BY <1>2
  <2>7. {except_stack[k].fn : k \in 1 .. n} \ {except_stack[n].fn}
          = {except_stack[k].fn : k \in 1 .. n - 1}
    BY <2>1, <2>3, <2>4, <2>5
  <2>8. {except_stack[k].fn : k \in 1 .. n - 1} = {except_stack'[k].fn : k \in 1 .. n - 1}
    BY <2>6
  <2>9. analysis_except_in_precompute' = {except_stack'[k].fn : k \in 1 .. n - 1}
    BY <2>2, <2>1, <2>7, <2>8
  <2>10. \A j, k \in 1 .. n - 1 : except_stack'[j].fn = except_stack'[k].fn => j = k
    BY <2>1, <2>3, <1>2
  <2>. QED
    BY <2>9, <2>10, <1>2 DEF InProgressOnce
<1>7. ASSUME NEW k \in 1 .. n - 1 PROVE FrameOK(except_stack[k])'
  <2>1. k \in 1 .. n
    BY <1>2
  <2>2. except_stack[k] \in Frames(program) /\ FrameOK(except_stack[k])
    BY <1>1, <1>2, <2>1 DEF ExceptInv
  <2>3. except_stack'[k] = except_stack[k]
    BY <1>2
  <2>4. except_stack[k].fn \in Own(program)
    BY <2>2 DEF Frames
  <2>. QED
    BY <2>2, <2>3, <2>4, <1>3, CalleesTyped DEF FrameOK, Falls
<1>. QED
  BY <1>2, <1>3, <1>5, <1>6, <1>7 DEF ExceptInv

\* The frame in progress changes: it waits for a callee or has come past one.
LEMMA TopKeeps ==
  ASSUME ExceptInv, except_stack # <<>>, NEW r \in Frames(program), r.fn = Top.fn, FrameOK(r),
         NEW s, s = ReplaceAt(except_stack, Len(except_stack), r)
  PROVE  /\ s \in Seq(Frames(program)) /\ s # <<>>
         /\ DOMAIN s = DOMAIN except_stack
         /\ \A k \in DOMAIN s : s[k].fn = except_stack[k].fn /\ FrameOK(s[k])
<1>1. except_stack \in Seq(Frames(program))
  BY DEF ExceptInv, ExceptTypeOK
<1>. DEFINE t == ReplaceAt(except_stack, Len(except_stack), r)
<1>2. /\ t \in Seq(Frames(program)) /\ t # <<>> /\ DOMAIN t = DOMAIN except_stack
      /\ \A k \in DOMAIN except_stack :
            t[k] = IF k = Len(except_stack) THEN r ELSE except_stack[k]
  <2>1. ReplaceAt(except_stack, Len(except_stack), r) \in Seq(Frames(program))
        /\ ReplaceAt(except_stack, Len(except_stack), r) # <<>>
    BY <1>1, Replaced
  <2>2. DOMAIN ReplaceAt(except_stack, Len(except_stack), r) = DOMAIN except_stack
    BY <1>1, Replaced
  <2>3. \A k \in DOMAIN except_stack :
          ReplaceAt(except_stack, Len(except_stack), r)[k]
            = IF k = Len(except_stack) THEN r ELSE except_stack[k]
    BY <1>1, Replaced
  <2>. QED
    BY <2>1, <2>2, <2>3
<1>3. s = t
  OBVIOUS
<1>. HIDE DEF t
<1>4. Top = except_stack[Len(except_stack)]
  BY <1>1, Popped DEF Top
<1>5. ASSUME NEW k \in DOMAIN s
      PROVE  s[k].fn = except_stack[k].fn /\ FrameOK(s[k])
  <2>1. CASE k = Len(except_stack)
    BY <1>2, <1>4, <1>3, <2>1
  <2>2. CASE k # Len(except_stack)
    BY <1>2, <1>3, <2>2 DEF ExceptInv
  <2>. QED
    BY <2>1, <2>2
<1>. QED
  BY <1>2, <1>5, <1>3

\* A step that changes the stack in this way only.
LEMMA TopStep ==
  ASSUME ExceptInv, except_stack # <<>>, NEW r \in Frames(program), r.fn = Top.fn, FrameOK(r),
         except_stack' = ReplaceAt(except_stack, Len(except_stack), r),
         UNCHANGED <<program, can_except_in_precompute, analysis_except_in_precompute, to_analyze>>
  PROVE  ExceptInv'
<1>1. /\ except_stack' \in Seq(Frames(program))
      /\ DOMAIN except_stack' = DOMAIN except_stack
      /\ \A k \in DOMAIN except_stack' :
            except_stack'[k].fn = except_stack[k].fn /\ FrameOK(except_stack'[k])
  BY TopKeeps
<1>2. ExceptTypeOK'
  BY <1>1 DEF ExceptInv, ExceptTypeOK, Frames, Functions, Own
<1>3. InProgressOnce'
  BY <1>1 DEF ExceptInv, InProgressOnce
<1>4. NothrowClosed'
  BY DEF ExceptInv, NothrowClosed, Functions, Own
<1>5. ASSUME NEW k \in DOMAIN except_stack' PROVE FrameOK(except_stack[k])'
  BY <1>1 DEF FrameOK
<1>. QED
  BY <1>2, <1>3, <1>4, <1>5 DEF ExceptInv

\* A function is asked for that is not being analyzed.
LEMMA AnalyzeKeeps ==
  ASSUME ExceptInv, NEW f \in Functions(program), f \notin analysis_except_in_precompute,
         NEW s \in Seq(Frames(program)), DOMAIN s = DOMAIN except_stack,
         \A k \in DOMAIN s : s[k].fn = except_stack[k].fn /\ FrameOK(s[k]),
         Analyze(f, s), program' = program, to_analyze' \subseteq Functions(program)
  PROVE  ExceptInv'
<1>1. Falls
  BY DEF Falls, Analyze, ExceptInv, ExceptTypeOK
<1>2. NothrowClosed'
  <2>1. ASSUME NEW g \in Functions(program), program.function[g].kind = "throws"
        PROVE  can_except_in_precompute'[g]
    BY <2>1 DEF Analyze, ExceptInv, ExceptTypeOK, NothrowClosed
  <2>2. ASSUME NEW g \in Own(program), ~ can_except_in_precompute'[g],
               NEW h \in Callees(program, g)
        PROVE  h = g \/ ~ can_except_in_precompute'[h]
    <3>1. g \in Functions(program) /\ h \in Functions(program)
      BY CalleesTyped
    <3>2. ~ can_except_in_precompute[g]
      BY <2>2, <3>1 DEF Analyze, ExceptInv, ExceptTypeOK, Own
    <3>3. h = g \/ ~ can_except_in_precompute[h]
      BY <3>2 DEF ExceptInv, NothrowClosed
    <3>. QED
      BY <3>1, <3>3, <1>1 DEF Falls
  <2>. QED
    BY <2>1, <2>2 DEF NothrowClosed
<1>3. ASSUME NEW r \in Frames(program), FrameOK(r)
      PROVE  FrameOK(r)'
  BY <1>1, <1>3, CalleesTyped DEF FrameOK, Falls, Frames
<1>4. CASE f \in Own(program)
  <2>. DEFINE n == Len(s)
  <2>1. Frame(f) \in Frames(program) /\ FrameOK(Frame(f)) /\ Frame(f).fn = f
    BY <1>4, CalleesTyped DEF Frame, Frames, FrameOK
  <2>2. except_stack' = Append(s, Frame(f))
        /\ analysis_except_in_precompute' = analysis_except_in_precompute \cup {f}
    BY <1>4 DEF Analyze
  <2>3. n \in Nat /\ DOMAIN s = 1 .. n
    OBVIOUS
  <2>4. /\ except_stack' \in Seq(Frames(program))
        /\ DOMAIN except_stack' = 1 .. n + 1
        /\ except_stack'[n + 1] = Frame(f)
        /\ \A k \in 1 .. n : except_stack'[k] = s[k]
    BY <2>1, <2>2, Pushed
  <2>. HIDE DEF n
  <2>5. \A k \in 1 .. n + 1 : k = n + 1 \/ k \in 1 .. n
    BY <2>3
  <2>6. \A k \in 1 .. n : k \in 1 .. n + 1 /\ k # n + 1
    BY <2>3
  <2>7. n + 1 \in 1 .. n + 1
    BY <2>3
  <2>8. ExceptTypeOK'
    BY <1>1, <1>4, <2>2, <2>4 DEF ExceptInv, ExceptTypeOK, Falls, Frames, Functions, Own
  <2>9. InProgressOnce'
    <3>1. /\ analysis_except_in_precompute = {s[k].fn : k \in 1 .. n}
          /\ \A j, k \in 1 .. n : s[j].fn = s[k].fn => j = k
      BY <2>3 DEF ExceptInv, InProgressOnce
    <3>2. analysis_except_in_precompute' = {except_stack'[k].fn : k \in 1 .. n + 1}
      BY <2>1, <2>2, <2>4, <2>5, <2>6, <2>7, <3>1
    <3>3. \A j, k \in 1 .. n + 1 : except_stack'[j].fn = except_stack'[k].fn => j = k
      BY <2>1, <2>4, <2>5, <3>1
    <3>. QED
      BY <2>4, <3>2, <3>3 DEF InProgressOnce
  <2>10. ASSUME NEW k \in 1 .. n + 1 PROVE FrameOK(except_stack[k])'
    BY <1>3, <2>1, <2>3, <2>4, <2>5
  <2>. QED
    BY <1>2, <2>4, <2>8, <2>9, <2>10 DEF ExceptInv
<1>5. CASE f \notin Own(program)
  <2>1. except_stack' = s /\ UNCHANGED analysis_except_in_precompute
    BY <1>5 DEF Analyze
  <2>2. ExceptTypeOK'
    BY <1>1, <2>1 DEF ExceptInv, ExceptTypeOK, Falls, Frames, Functions, Own
  <2>3. InProgressOnce'
    BY <2>1 DEF ExceptInv, InProgressOnce
  <2>4. \A k \in DOMAIN s : FrameOK(s[k])'
    BY <1>3
  <2>. QED
    BY <1>2, <2>1, <2>2, <2>3, <2>4 DEF ExceptInv
<1>. QED
  BY <1>4, <1>5

-----------------------------------------------------------------------------
(* The steps.                                                               *)

\* What is known of the call in progress.
LEMMA TopOK ==
  ASSUME ExceptInv, except_stack # <<>>
  PROVE  Top \in Frames(program) /\ Top.fn \in Own(program) /\ FrameOK(Top)
<1>1. except_stack \in Seq(Frames(program))
  BY DEF ExceptInv, ExceptTypeOK
<1>2. Len(except_stack) \in DOMAIN except_stack
  BY <1>1
<1>3. Top = except_stack[Len(except_stack)]
  BY <1>1, Popped DEF Top
<1>4. Top \in Frames(program)
  BY <1>1, <1>2, <1>3
<1>. QED
  BY <1>2, <1>3, <1>4 DEF ExceptInv, Frames

\* The stack while the call in progress waits for a callee.
LEMMA WaitingOK ==
  ASSUME ExceptInv, except_stack # <<>>, NEW f \in Top.left
  PROVE  /\ f \in Functions(program)
         /\ [Top EXCEPT !.callee = {f}] \in Frames(program)
         /\ [Top EXCEPT !.callee = {f}].fn = Top.fn
         /\ FrameOK([Top EXCEPT !.callee = {f}])
<1>1. Top \in Frames(program) /\ FrameOK(Top)
  BY TopOK
<1>2. f \in Functions(program)
  BY <1>1 DEF Frames
<1>. QED
  BY <1>1, <1>2 DEF Frames, FrameOK

\* The loop of analyze_functions keeps the invariant.
LEMMA FunctionStep == ExceptInv /\ AnalyzeFunction => ExceptInv'
<1>. SUFFICES ASSUME ExceptInv, AnalyzeFunction PROVE ExceptInv'
  OBVIOUS
<1>1. PICK f \in to_analyze : to_analyze' = to_analyze \ {f} /\ Analyze(f, <<>>)
  BY DEF AnalyzeFunction
<1>2. except_stack = <<>> /\ program' = program
  BY DEF AnalyzeFunction
<1>3. f \in Functions(program) /\ to_analyze' \subseteq Functions(program)
  BY <1>1 DEF ExceptInv, ExceptTypeOK
<1>4. f \notin analysis_except_in_precompute
  BY <1>2 DEF ExceptInv, InProgressOnce
<1>5. /\ <<>> \in Seq(Frames(program))
      /\ DOMAIN <<>> = DOMAIN except_stack
      /\ \A k \in DOMAIN <<>> : <<>>[k].fn = except_stack[k].fn /\ FrameOK(<<>>[k])
  BY <1>2
<1>. QED
  BY <1>1, <1>2, <1>3, <1>4, <1>5, AnalyzeKeeps

\* The loop over the callees keeps the invariant.
LEMMA CalleeStep == ExceptInv /\ AnalyzeCallee => ExceptInv'
<1>. SUFFICES ASSUME ExceptInv, AnalyzeCallee PROVE ExceptInv'
  OBVIOUS
<1>1. PICK f \in Top.left :
        IF f \in analysis_except_in_precompute
        THEN /\ except_stack' = Waiting(f)
             /\ UNCHANGED <<can_except_in_precompute, analysis_except_in_precompute>>
        ELSE Analyze(f, Waiting(f))
  BY DEF AnalyzeCallee
<1>2. except_stack # <<>> /\ program' = program /\ to_analyze' = to_analyze
  BY DEF AnalyzeCallee
<1>. DEFINE r == [Top EXCEPT !.callee = {f}]
<1>3. f \in Functions(program) /\ r \in Frames(program) /\ r.fn = Top.fn /\ FrameOK(r)
  BY <1>2, WaitingOK
<1>4. Waiting(f) = ReplaceAt(except_stack, Len(except_stack), r)
  BY DEF Waiting
<1>. HIDE DEF r
<1>5. CASE f \in analysis_except_in_precompute
  BY <1>1, <1>2, <1>3, <1>4, <1>5, TopStep
<1>6. CASE f \notin analysis_except_in_precompute
  <2>1. Analyze(f, Waiting(f))
    BY <1>1, <1>6
  <2>2. /\ Waiting(f) \in Seq(Frames(program))
        /\ DOMAIN Waiting(f) = DOMAIN except_stack
        /\ \A k \in DOMAIN Waiting(f) :
              Waiting(f)[k].fn = except_stack[k].fn /\ FrameOK(Waiting(f)[k])
    BY <1>2, <1>3, <1>4, TopKeeps
  <2>3. to_analyze' \subseteq Functions(program)
    BY <1>2 DEF ExceptInv, ExceptTypeOK
  <2>. QED
    BY <1>2, <1>3, <1>6, <2>1, <2>2, <2>3, AnalyzeKeeps
<1>. QED
  BY <1>5, <1>6

\* A callee that can throw ends the function: the invariant is kept.
LEMMA CheckStep == ExceptInv /\ CheckCallee => ExceptInv'
<1>. SUFFICES ASSUME ExceptInv, CheckCallee PROVE ExceptInv'
  OBVIOUS
<1>1. PICK f \in Top.callee :
        IF can_except_in_precompute[f] /\ f # Top.fn
        THEN /\ except_stack' = Front(except_stack)
             /\ analysis_except_in_precompute' = analysis_except_in_precompute \ {Top.fn}
        ELSE /\ except_stack' = ReplaceAt(except_stack, Len(except_stack),
                                          [Top EXCEPT !.left = @ \ {f}, !.callee = {}])
             /\ UNCHANGED analysis_except_in_precompute
  BY DEF CheckCallee
<1>2. except_stack # <<>> /\ UNCHANGED <<program, can_except_in_precompute, to_analyze>>
  BY DEF CheckCallee
<1>3. Top \in Frames(program) /\ FrameOK(Top)
  BY <1>2, TopOK
<1>4. CASE can_except_in_precompute[f] /\ f # Top.fn
  <2>1. Falls
    BY <1>2 DEF Falls, ExceptInv, ExceptTypeOK
  <2>2. NothrowClosed'
    BY <1>2 DEF ExceptInv, NothrowClosed, Functions, Own
  <2>. QED
    BY <1>1, <1>2, <1>4, <2>1, <2>2, PopKeeps
<1>5. CASE ~ (can_except_in_precompute[f] /\ f # Top.fn)
  <2>. DEFINE r == [Top EXCEPT !.left = @ \ {f}, !.callee = {}]
  <2>1. r \in Frames(program) /\ r.fn = Top.fn
    BY <1>3 DEF Frames
  <2>2. /\ r.left = Top.left \ {f} /\ r.callee = {}
    BY <1>3 DEF Frames
  <2>3. f = Top.fn \/ ~ can_except_in_precompute[f]
    BY <1>5
  <2>. HIDE DEF r
  <2>4. FrameOK(r)
    BY <1>3, <2>1, <2>2, <2>3 DEF FrameOK
  <2>5. except_stack' = ReplaceAt(except_stack, Len(except_stack), r)
        /\ UNCHANGED analysis_except_in_precompute
    BY <1>1, <1>5 DEF r
  <2>. QED
    BY <1>2, <2>1, <2>4, <2>5, TopStep
<1>. QED
  BY <1>4, <1>5

\* A function none of whose callees can throw cannot throw itself.
LEMMA ReturnStep == ExceptInv /\ NoCalleeExcepts => ExceptInv'
<1>. SUFFICES ASSUME ExceptInv, NoCalleeExcepts PROVE ExceptInv'
  OBVIOUS
<1>1. /\ except_stack # <<>> /\ Top.callee = {} /\ Top.left = {}
      /\ can_except_in_precompute' = [can_except_in_precompute EXCEPT ![Top.fn] = FALSE]
      /\ analysis_except_in_precompute' = analysis_except_in_precompute \ {Top.fn}
      /\ except_stack' = Front(except_stack)
      /\ program' = program /\ to_analyze' = to_analyze
  BY DEF NoCalleeExcepts
<1>2. Top \in Frames(program) /\ FrameOK(Top) /\ Top.fn \in Own(program)
  BY <1>1, TopOK
<1>3. Falls
  BY <1>1 DEF Falls, ExceptInv, ExceptTypeOK
<1>4. NothrowClosed'
  <2>1. ASSUME NEW g \in Functions(program), program.function[g].kind = "throws"
        PROVE  can_except_in_precompute'[g]
    BY <1>1, <1>2, <2>1 DEF ExceptInv, ExceptTypeOK, NothrowClosed, Own
  <2>2. ASSUME NEW g \in Own(program), ~ can_except_in_precompute'[g],
               NEW h \in Callees(program, g)
        PROVE  h = g \/ ~ can_except_in_precompute'[h]
    <3>1. g \in Functions(program) /\ h \in Functions(program)
      BY CalleesTyped
    <3>2. h = g \/ ~ can_except_in_precompute[h]
      <4>1. CASE g = Top.fn
        BY <1>1, <1>2, <4>1 DEF FrameOK
      <4>2. CASE g # Top.fn
        BY <1>1, <2>2, <3>1, <4>2 DEF ExceptInv, ExceptTypeOK, NothrowClosed
      <4>. QED
        BY <4>1, <4>2
    <3>. QED
      BY <3>1, <3>2, <1>3 DEF Falls
  <2>. QED
    BY <1>1, <2>1, <2>2 DEF NothrowClosed, Functions, Own
<1>. QED
  BY <1>1, <1>3, <1>4, PopKeeps

\* The invariant holds of every program, in every order of the loops.
THEOREM ExceptInvariant == ExceptSpec => []ExceptInv
<1>1. ExceptInit => ExceptInv
  BY DEF ExceptInit, ExceptInv, ExceptTypeOK, InProgressOnce, NothrowClosed, Own
<1>2. ExceptInv /\ [ExceptNext]_exceptVars => ExceptInv'
  <2>1. ExceptInv /\ UNCHANGED exceptVars => ExceptInv'
    BY DEF ExceptInv, exceptVars, ExceptTypeOK, InProgressOnce, NothrowClosed, FrameOK, Frames,
           Functions, Own
  <2>. QED
    BY <2>1, FunctionStep, CalleeStep, CheckStep, ReturnStep DEF ExceptNext
<1>. QED
  BY <1>1, <1>2, PTL DEF ExceptSpec

-----------------------------------------------------------------------------
(* What follows from it.                                                    *)

\* The flags and the calls in progress keep their types, whatever the recursion meets.
THEOREM ExceptTypeCorrect == ExceptSpec => []ExceptTypeOK
<1>1. ExceptInv => ExceptTypeOK
  BY DEF ExceptInv
<1>. QED
  BY <1>1, ExceptInvariant, PTL

\* No function that may throw is ever held not to.
THEOREM ThrowersKnown == ExceptSpec => []CanExceptSound
<1>1. ExceptInv => CanExceptSound
  <2>. SUFFICES ASSUME ExceptInv, NEW f \in MayThrow(program)
                PROVE  can_except_in_precompute[f]
    BY DEF CanExceptSound
  <2>. DEFINE T == {g \in Functions(program) : can_except_in_precompute[g]}
  <2>1. ThrowClosed(program, T)
    <3>1. {g \in Functions(program) : program.function[g].kind = "throws"} \subseteq T
      BY DEF ExceptInv, NothrowClosed
    <3>2. ASSUME NEW g \in Own(program), Callees(program, g) \cap (T \ {g}) # {}
          PROVE  g \in T
      BY <3>2, CalleesTyped DEF ExceptInv, NothrowClosed
    <3>. QED
      BY <3>1, <3>2 DEF ThrowClosed
  <2>2. f \in T
    BY <2>1 DEF MayThrow
  <2>. QED
    BY <2>2
<1>. QED
  BY <1>1, ExceptInvariant, PTL

\* A second analysis of a function never finds more than the first.
THEOREM SecondAnalysisAgrees == ExceptSpec => []AnalysisRepeatable
<1>1. ExceptInv => AnalysisRepeatable
  <2>. SUFFICES ASSUME ExceptInv, NEW k \in DOMAIN except_stack, NEW f \in except_stack[k].callee,
                       can_except_in_precompute[f], f # except_stack[k].fn
                PROVE  can_except_in_precompute[except_stack[k].fn]
    BY DEF AnalysisRepeatable
  <2>1. except_stack[k] \in Frames(program) /\ FrameOK(except_stack[k])
    BY DEF ExceptInv, ExceptTypeOK
  <2>2. except_stack[k].fn \in Own(program) /\ f \in Callees(program, except_stack[k].fn)
    BY <2>1 DEF Frames, FrameOK
  <2>. QED
    BY <2>2 DEF ExceptInv, NothrowClosed
<1>. QED
  BY <1>1, ExceptInvariant, PTL

\* A function is marked exactly while it is being analyzed, and never twice.
THEOREM AnalyzedOnce == ExceptSpec => []InProgressOnce
<1>1. ExceptInv => InProgressOnce
  BY DEF ExceptInv
<1>. QED
  BY <1>1, ExceptInvariant, PTL

-----------------------------------------------------------------------------
(* The whole pass.                                                         *)

\* The pass with the runs of program and slice implements the specification of the
\* exception analysis.
THEOREM SlicingAnalyzesExceptions == Spec => ExceptSpec
<1>1. Init => ExceptInit
  BY DEF Init
<1>2. [Next]_vars => [ExceptNext]_exceptVars
  <2>. SUFFICES ASSUME [Next]_vars
                PROVE  [ExceptNext]_exceptVars
    OBVIOUS
  <2>1. CASE ExceptNext
    BY <2>1
  <2>2. CASE Analysis \/ Insertion
    BY <2>2 DEF Analysis, Insertion
  <2>3. CASE Start \/ SliceStep \/ OriginalStep
    BY <2>3 DEF Start, SliceStep, OriginalStep
  <2>4. CASE UNCHANGED vars
    BY <2>4 DEF vars
  <2>. QED
    BY <2>1, <2>2, <2>3, <2>4 DEF Next
<1>. QED
  BY <1>1, <1>2, PTL DEF Spec, ExceptSpec

\* Whatever is included, copied, pruned or run, no function that may throw counts as
\* one that does not: invokes are only replaced by calls where nothing can throw.
THEOREM ThrowersStayKnown == Spec => [](CanExceptSound /\ AnalysisRepeatable /\ InProgressOnce)
  BY SlicingAnalyzesExceptions, ThrowersKnown, SecondAnalysisAgrees, AnalyzedOnce, PTL

-----------------------------------------------------------------------------
(* The program.                                                             *)

\* Each instruction has one place, a block of a function with a body.
LEMMA Placed ==
  ASSUME NEW p, WellFormed(p), NEW x \in Instr(p)
  PROVE  /\ BlockOf(p, x) \in DOMAIN p.block
         /\ x \in Range(p.block[BlockOf(p, x)].code)
         /\ \A b \in DOMAIN p.block : x \in Range(p.block[b].code) => b = BlockOf(p, x)
         /\ FunctionOf(p, x) \in Own(p)
         /\ FunctionOf(p, x) \in Functions(p)
<1>1. PICK b \in DOMAIN p.block : x \in Range(p.block[b].code)
  BY DEF WellFormed
<1>2. BlockOf(p, x) \in DOMAIN p.block /\ x \in Range(p.block[BlockOf(p, x)].code)
  BY <1>1 DEF BlockOf
<1>3. ASSUME NEW c \in DOMAIN p.block, x \in Range(p.block[c].code) PROVE c = BlockOf(p, x)
  <2>. DEFINE d == BlockOf(p, x)
  <2>1. PICK i \in DOMAIN p.block[c].code : x = p.block[c].code[i]
    BY <1>3 DEF Range
  <2>2. PICK j \in DOMAIN p.block[d].code : x = p.block[d].code[j]
    BY <1>2 DEF Range
  <2>. HIDE DEF d
  <2>3. d \in DOMAIN p.block
    BY <1>2 DEF d
  <2>4. c = d
    BY <2>1, <2>2, <2>3 DEF WellFormed
  <2>. QED
    BY <2>4 DEF d
<1>4. BlockFormed(p, BlockOf(p, x))
  BY <1>2 DEF WellFormed
<1>. QED
  BY <1>2, <1>3, <1>4 DEF BlockFormed, FunctionOf, Own

\* What a block is.
LEMMA Formed ==
  ASSUME NEW p, WellFormed(p), NEW b \in DOMAIN p.block
  PROVE  /\ p.block[b].fn \in Own(p)
         /\ p.block[b].fn \in Functions(p)
         /\ p.block[b].code \in Seq(Instr(p)) /\ p.block[b].code # <<>>
         /\ Len(p.block[b].code) \in Nat \ {0}
         /\ DOMAIN p.block[b].code = 1 .. Len(p.block[b].code)
         /\ Terminator(p, b) = p.block[b].code[Len(p.block[b].code)]
         /\ Terminator(p, b) \in Instr(p)
         /\ \A i \in DOMAIN p.block[b].code :
              /\ p.block[b].code[i] \in Instr(p)
              /\ BlockOf(p, p.block[b].code[i]) = b
              /\ FunctionOf(p, p.block[b].code[i]) = p.block[b].fn
              /\ p.instr[p.block[b].code[i]].op \in TerminatorOps <=> i = Len(p.block[b].code)
              /\ p.block[b].code[i] = Terminator(p, b) <=> i = Len(p.block[b].code)
         /\ BlockOf(p, Terminator(p, b)) = b
         /\ p.instr[Terminator(p, b)].op \in TerminatorOps
         /\ FunctionOf(p, Terminator(p, b)) = p.block[b].fn
         /\ p.block[b].succ \in Seq(BlocksOf(p, p.block[b].fn))
<1>1. BlockFormed(p, b)
  BY DEF WellFormed
<1>. DEFINE instrs == p.block[b].code
<1>2. /\ p.block[b].fn \in Own(p) /\ instrs \in Seq(Instr(p)) /\ instrs # <<>>
      /\ \A i \in DOMAIN instrs : p.instr[instrs[i]].op \in TerminatorOps <=> i = Len(instrs)
      /\ p.block[b].succ \in Seq(BlocksOf(p, p.block[b].fn))
  BY <1>1 DEF BlockFormed
<1>3. /\ Len(instrs) \in Nat \ {0} /\ DOMAIN instrs = 1 .. Len(instrs)
      /\ Terminator(p, b) = instrs[Len(instrs)]
      /\ \A i \in DOMAIN instrs : instrs[i] \in Instr(p)
  BY <1>2 DEF Terminator, Last
<1>4. ASSUME NEW i \in DOMAIN instrs PROVE BlockOf(p, instrs[i]) = b
  <2>1. instrs[i] \in Range(p.block[b].code)
    BY DEF Range
  <2>. QED
    BY <1>3, <2>1, Placed
<1>5. Len(instrs) \in DOMAIN instrs
  BY <1>3
<1>6. ASSUME NEW i \in DOMAIN instrs, instrs[i] = Terminator(p, b) PROVE i = Len(instrs)
  <2>1. \A j, k \in DOMAIN p.block[b].code : p.block[b].code[j] = p.block[b].code[k] => j = k
    BY DEF WellFormed
  <2>. QED
    BY <1>3, <1>5, <1>6, <2>1
<1>. QED
  BY <1>2, <1>3, <1>4, <1>5, <1>6 DEF FunctionOf, Own

\* What can be called is in the module.
LEMMA TargetsType ==
  ASSUME NEW p \in Program, WellFormed(p), NEW c \in Calls(p)
  PROVE  CallTargets(p, c) \subseteq Functions(p) /\ c \in Instr(p)
<1>1. c \in Instr(p)
  BY DEF Calls, Invokes
<1>2. FunctionOf(p, c) \in Own(p) /\ c \in InstrOf(p, FunctionOf(p, c))
  BY <1>1, Placed DEF InstrOf
<1>3. CallTargets(p, c) \subseteq Callees(p, FunctionOf(p, c))
  BY <1>2 DEF Callees
<1>. QED
  BY <1>1, <1>2, <1>3, ProgramAssumption

\* What guards an instruction is in its function.
LEMMA GuardsType ==
  ASSUME NEW p, WellFormed(p), NEW can, NEW x \in Instr(p)
  PROVE  /\ Guards(p, can, x) \subseteq Instr(p)
         /\ \A y \in Guards(p, can, x) : FunctionOf(p, y) = FunctionOf(p, x)
<1>. SUFFICES ASSUME NEW y \in Guards(p, can, x)
              PROVE  y \in Instr(p) /\ FunctionOf(p, y) = FunctionOf(p, x)
  OBVIOUS
<1>1. PICK a \in Predecessors(p, BlockOf(p, x)) : y = Terminator(p, a)
  BY DEF Guards
<1>2. a \in DOMAIN p.block /\ BlockOf(p, x) \in Range(p.block[a].succ)
  BY <1>1 DEF Predecessors
<1>3. BlockOf(p, x) \in BlocksOf(p, p.block[a].fn)
  BY <1>2, Formed DEF Range
<1>4. y \in Instr(p) /\ FunctionOf(p, y) = p.block[a].fn
  BY <1>1, <1>2, Formed
<1>5. FunctionOf(p, x) = p.block[a].fn
  BY <1>3 DEF FunctionOf, BlocksOf
<1>. QED
  BY <1>4, <1>5

\* The invokes in front of an instruction are instructions.
LEMMA NormalGuardsType ==
  ASSUME NEW p, NEW x
  PROVE  NormalGuards(p, x) \subseteq Instr(p)
  BY DEF NormalGuards, Invokes

-----------------------------------------------------------------------------
(* Inclusion: the recursion of include_value_in_precompute.                 *)

\* The state of the analysis.
SliceType(p, s) ==
  s \in [tainted : SUBSET Instr(p), visited : SUBSET Instr(p), included : SUBSET Instr(p),
         needs : [Instr(p) -> SUBSET Instr(p)],
         include_in_precompute : SUBSET Own(p), include_all_callsites : SUBSET Own(p),
         requests : SUBSET p.request]

\* What the recursion of an inclusion finds.
FoundSets(p) == [inc : SUBSET Instr(p), fns : SUBSET Own(p), always : SUBSET Own(p)]

\* One level of the recursion only adds.
LEMMA OnceType ==
  ASSUME NEW p \in Program, WellFormed(p), NEW s, SliceType(p, s), NEW can, NEW q \in FoundSets(p)
  PROVE  LET r == IncludeOnce(p, can, s, q)
         IN  /\ r \in FoundSets(p)
             /\ q.inc \subseteq r.inc /\ q.fns \subseteq r.fns /\ q.always \subseteq r.always
<1>. DEFINE found == q.fns \ s.include_in_precompute
            kept == {c \in Calls(p) : CallTargets(p, c) \cap found \cap q.always # {}}
            parents == {FunctionOf(p, c) : c \in kept}
            r == IncludeOnce(p, can, s, q)
<1>1. kept \subseteq Instr(p)
  BY TargetsType
<1>2. parents \subseteq Own(p)
  BY <1>1, Placed
<1>3. \A x \in q.inc : x \in Instr(p) /\ Guards(p, can, x) \cup s.needs[x] \subseteq Instr(p)
  BY GuardsType DEF FoundSets, SliceType
<1>4. {FunctionOf(p, x) : x \in {y \in q.inc : InEntry(p, y)}} \subseteq Own(p)
  BY <1>3, Placed
<1>. DEFINE inc == q.inc \cup kept \cup UNION {Guards(p, can, x) \cup s.needs[x] : x \in q.inc}
            fns == q.fns \cup parents \cup {FunctionOf(p, x) : x \in {y \in q.inc : InEntry(p, y)}}
            always == q.always \cup parents
<1>5. r = [inc |-> inc, fns |-> fns, always |-> always]
  BY DEF IncludeOnce
<1>6. inc \in SUBSET Instr(p)
  <2>1. UNION {Guards(p, can, x) \cup s.needs[x] : x \in q.inc} \subseteq Instr(p)
    BY <1>3
  <2>2. q.inc \subseteq Instr(p)
    BY DEF FoundSets
  <2>. QED
    BY <1>1, <2>1, <2>2
<1>7. fns \in SUBSET Own(p) /\ always \in SUBSET Own(p)
  BY <1>2, <1>4 DEF FoundSets
<1>8. q.inc \subseteq inc /\ q.fns \subseteq fns /\ q.always \subseteq always
  OBVIOUS
<1>. HIDE DEF inc, fns, always, r
<1>9. r \in FoundSets(p) /\ r.inc = inc /\ r.fns = fns /\ r.always = always
  BY <1>5, <1>6, <1>7 DEF FoundSets
<1>. QED
  BY <1>8, <1>9 DEF r

\* The recursion goes as deep as it has to: what it finds needs nothing more.  Whatever
\* holds of its beginning and is kept by each level holds of what it finds.
LEMMA RecursionCloses ==
  ASSUME NEW p \in Program, WellFormed(p), NEW s, SliceType(p, s), NEW can, NEW X \in SUBSET Instr(p)
  PROVE  LET q == IncludeRecursive(p, can, s, X)
             start == [inc |-> X, fns |-> s.include_in_precompute, always |-> s.include_all_callsites]
         IN  /\ q \in FoundSets(p)
             /\ IncludeOnce(p, can, s, q) = q
             /\ \A S \in SUBSET FoundSets(p) :
                  start \in S /\ (\A r \in S : IncludeOnce(p, can, s, r) \in S) => q \in S
<1>. DEFINE F == FoundSets(p)
            N == Cardinality(Instr(p)) + 2 * Cardinality(Functions(p))
            next == [r \in F |-> IncludeOnce(p, can, s, r)]
            start == [inc |-> X, fns |-> s.include_in_precompute, always |-> s.include_all_callsites]
            q == IncludeRecursive(p, can, s, X)
            repeated(h) == [k \in 0 .. N |-> IF k = 0 THEN start
                                             ELSE IncludeOnce(p, can, s, h[k - 1])]
<1>1. /\ IsFiniteSet(Instr(p)) /\ Cardinality(Instr(p)) \in Nat
      /\ IsFiniteSet(Own(p)) /\ Cardinality(Own(p)) \in Nat
      /\ Cardinality(Functions(p)) \in Nat /\ Cardinality(Own(p)) <= Cardinality(Functions(p))
  <2>1. IsFiniteSet(Instr(p)) /\ IsFiniteSet(Functions(p)) /\ Own(p) \in SUBSET Functions(p)
    BY DEF WellFormed, Own
  <2>. QED
    BY <2>1, FS_Subset, FS_CardinalityType
<1>2. N \in Nat
  BY <1>1
<1>3. next \in [F -> F]
  <2>1. ASSUME NEW r \in F PROVE IncludeOnce(p, can, s, r) \in F
    BY OnceType
  <2>. QED
    BY <2>1
<1>4. start \in F
  BY DEF FoundSets, SliceType
<1>5. PICK r : r = repeated(r) /\ q = r[N]
  <2>1. PICK g \in [0 .. N -> F] : Iterates(g, next, start, N)
    <3>. HIDE DEF F, next, start, N
    <3>. QED
      BY <1>2, <1>3, <1>4, IterationExists
  <2>2. g = repeated(g)
    <3>1. ASSUME NEW k \in 0 .. N PROVE g[k] = repeated(g)[k]
      <4>1. CASE k = 0
        BY <2>1, <4>1 DEF Iterates
      <4>2. CASE k # 0
        <5>1. k \in 1 .. N /\ k - 1 \in 0 .. N
          BY <1>2, <4>2
        <5>2. g[k] = next[g[k - 1]] /\ g[k - 1] \in F
          BY <2>1, <5>1 DEF Iterates
        <5>. QED
          BY <4>2, <5>2
      <4>. QED
        BY <4>1, <4>2
    <3>. QED
      BY <2>1, <3>1
  <2>3. q = (CHOOSE h : h = repeated(h))[N]
    BY DEF IncludeRecursive
  <2>. HIDE DEF repeated
  <2>4. PICK r : r = (CHOOSE h : h = repeated(h))
    OBVIOUS
  <2>5. r = repeated(r)
    BY <2>2, <2>4
  <2>. QED
    BY <2>3, <2>4, <2>5
<1>6. /\ DOMAIN r = 0 .. N /\ r[0] = start
      /\ \A k \in 1 .. N : r[k] = IncludeOnce(p, can, s, r[k - 1])
  <2>1. DOMAIN r = DOMAIN repeated(r) /\ \A k \in 0 .. N : r[k] = repeated(r)[k]
    <3>. HIDE DEF repeated
    <3>. QED
      BY <1>5, Zenon
  <2>2. 0 \in 0 .. N /\ \A k \in 1 .. N : k \in 0 .. N /\ k # 0
    BY <1>2
  <2>. QED
    BY <2>1, <2>2
<1>7. Iterates(r, next, start, N) /\ \A k \in 0 .. N : r[k] \in F
  <2>1. \A k \in 1 .. N : r[k - 1] \in F => r[k] = next[r[k - 1]]
    BY <1>6
  <2>. HIDE DEF F, next, start, N
  <2>. QED
    BY <1>2, <1>3, <1>4, <1>6, <2>1, Repeats
<1>8. q \in F
  BY <1>2, <1>5, <1>7
<1>9. IncludeOnce(p, can, s, q) = q
  <2>. DEFINE size == [e \in F |-> Cardinality(e.inc) + Cardinality(e.fns) + Cardinality(e.always)]
  <2>1. ASSUME NEW e \in F
        PROVE  /\ IsFiniteSet(e.inc) /\ IsFiniteSet(e.fns) /\ IsFiniteSet(e.always)
               /\ Cardinality(e.inc) \in Nat /\ Cardinality(e.fns) \in Nat
               /\ Cardinality(e.always) \in Nat
               /\ Cardinality(e.inc) <= Cardinality(Instr(p))
               /\ Cardinality(e.fns) <= Cardinality(Own(p))
               /\ Cardinality(e.always) <= Cardinality(Own(p))
    <3>1. e.inc \in SUBSET Instr(p) /\ e.fns \in SUBSET Own(p) /\ e.always \in SUBSET Own(p)
      BY DEF FoundSets
    <3>. QED
      BY <1>1, <3>1, FS_Subset, FS_CardinalityType
  <2>2. size \in [F -> 0 .. N]
    <3>1. ASSUME NEW e \in F
          PROVE  Cardinality(e.inc) + Cardinality(e.fns) + Cardinality(e.always) \in 0 .. N
      BY <1>1, <2>1
    <3>. QED
      BY <3>1
  <2>3. ASSUME NEW e \in F, next[e] # e PROVE size[next[e]] > size[e]
    <3>. DEFINE d == IncludeOnce(p, can, s, e)
    <3>1. /\ d \in F /\ d # e /\ next[e] = d
          /\ e.inc \in SUBSET d.inc /\ e.fns \in SUBSET d.fns /\ e.always \in SUBSET d.always
      BY <2>3, OnceType
    <3>2. e.inc # d.inc \/ e.fns # d.fns \/ e.always # d.always
      <4>. HIDE DEF d
      <4>. QED
        BY <3>1 DEF FoundSets
    <3>3. /\ Cardinality(e.inc) <= Cardinality(d.inc)
          /\ Cardinality(e.fns) <= Cardinality(d.fns)
          /\ Cardinality(e.always) <= Cardinality(d.always)
          /\ Cardinality(e.inc) = Cardinality(d.inc) => e.inc = d.inc
          /\ Cardinality(e.fns) = Cardinality(d.fns) => e.fns = d.fns
          /\ Cardinality(e.always) = Cardinality(d.always) => e.always = d.always
      <4>. HIDE DEF d
      <4>1. IsFiniteSet(d.inc) /\ IsFiniteSet(d.fns) /\ IsFiniteSet(d.always)
        BY <2>1, <3>1
      <4>. QED
        BY <3>1, <4>1, FS_Subset
    <3>4. size[next[e]] = Cardinality(d.inc) + Cardinality(d.fns) + Cardinality(d.always)
      BY <3>1
    <3>5. size[e] = Cardinality(e.inc) + Cardinality(e.fns) + Cardinality(e.always)
      OBVIOUS
    <3>6. /\ Cardinality(e.inc) \in Nat /\ Cardinality(e.fns) \in Nat /\ Cardinality(e.always) \in Nat
          /\ Cardinality(d.inc) \in Nat /\ Cardinality(d.fns) \in Nat /\ Cardinality(d.always) \in Nat
      BY <2>1, <3>1
    <3>7. \/ Cardinality(e.inc) # Cardinality(d.inc)
          \/ Cardinality(e.fns) # Cardinality(d.fns)
          \/ Cardinality(e.always) # Cardinality(d.always)
      BY <3>2, <3>3
    <3>8. \A a, b, c, x, y, z \in Nat :
             a <= x /\ b <= y /\ c <= z /\ (a # x \/ b # y \/ c # z) => x + y + z > a + b + c
      OBVIOUS
    <3>. HIDE DEF d, size, next, F, N, start, q, repeated
    <3>9. Cardinality(d.inc) + Cardinality(d.fns) + Cardinality(d.always)
            > Cardinality(e.inc) + Cardinality(e.fns) + Cardinality(e.always)
      BY <3>3, <3>6, <3>7, <3>8
    <3>. QED
      BY <3>4, <3>5, <3>9
  <2>4. next[r[N]] = r[N]
    <3>. HIDE DEF F, next, start, N, size
    <3>. QED
      BY <1>2, <1>3, <1>4, <1>7, <2>2, <2>3, IterationSettles
  <2>. QED
    BY <1>5, <1>8, <2>4
<1>10. ASSUME NEW S \in SUBSET F, start \in S, \A e \in S : IncludeOnce(p, can, s, e) \in S
       PROVE  q \in S
  <2>1. \A e \in S : next[e] \in S
    BY <1>10
  <2>2. \A k \in 0 .. N : r[k] \in S
    <3>. HIDE DEF F, next, start, N
    <3>. QED
      BY <1>2, <1>7, <1>10, <2>1, IterationKeeps, Zenon
  <2>. QED
    BY <1>2, <1>5, <2>2
<1>. QED
  BY <1>8, <1>9, <1>10

\* What is included brings what it needs and what guards it, and the function that
\* it is in the entry block of.
IncludedClosed(p, can, s) ==
  \A x \in s.included :
    /\ s.needs[x] \subseteq s.included
    /\ Guards(p, can, x) \subseteq s.included
    /\ InEntry(p, x) => FunctionOf(p, x) \in s.include_in_precompute

\* The slice the analysis has found so far.
SliceSound(p, can, s) ==
  /\ SliceType(p, s)
  /\ s.included \subseteq s.tainted
  /\ IncludedClosed(p, can, s)
  /\ \A x \in Instr(p) : s.needs[x] # {} => x \in s.tainted

\* r is a later state of the analysis than s.
Later(p, s, r) ==
  /\ s.tainted \subseteq r.tainted
  /\ s.included \subseteq r.included
  /\ s.include_in_precompute \subseteq r.include_in_precompute
  /\ s.include_all_callsites \subseteq r.include_all_callsites
  /\ \A x \in Instr(p) : s.needs[x] \subseteq r.needs[x]

\* Later and later again.
LEMMA LaterTwice ==
  ASSUME NEW p, NEW r, NEW s, NEW t, Later(p, r, s), Later(p, s, t)
  PROVE  Later(p, r, t)
  BY DEF Later

\* r is what is left of the state s by an inclusion of X that finds q.
Extends(p, can, s, X, q, r) ==
  LET fresh == q.inc \ s.included
      sites == UNION {Callsites(p, f) : f \in q.fns \ s.include_in_precompute}
  IN  /\ r.included = s.included \cup q.inc
      /\ r.include_in_precompute = q.fns
      /\ r.include_all_callsites = q.always
      /\ r.tainted = s.tainted \cup fresh \cup sites \cup UNION {NormalGuards(p, x) : x \in fresh}
      /\ r.visited = s.visited \ (fresh \cup sites)
      /\ r.needs = s.needs /\ r.requests = s.requests
      /\ X \subseteq q.inc /\ s.include_in_precompute \subseteq q.fns
      /\ s.include_all_callsites \subseteq q.always
      /\ SliceType(p, r)
      /\ q \in FoundSets(p) /\ IncludeOnce(p, can, s, q) = q

\* include_value_in_precompute: what the state is after it.
LEMMA IncludeExtends ==
  ASSUME NEW p \in Program, WellFormed(p), NEW can, NEW s, SliceType(p, s),
         NEW X \in SUBSET Instr(p),
         NEW q, q = IncludeRecursive(p, can, s, X),
         NEW r, r = Include(p, can, s, X)
  PROVE  Extends(p, can, s, X, q, r)
<1>. DEFINE start == [inc |-> X, fns |-> s.include_in_precompute, always |-> s.include_all_callsites]
            fresh == q.inc \ s.included
            sites == UNION {Callsites(p, f) : f \in q.fns \ s.include_in_precompute}
            normal == UNION {NormalGuards(p, x) : x \in fresh}
<1>1. /\ q \in FoundSets(p) /\ IncludeOnce(p, can, s, q) = q
      /\ \A S \in SUBSET FoundSets(p) :
           start \in S /\ (\A e \in S : IncludeOnce(p, can, s, e) \in S) => q \in S
  BY RecursionCloses
<1>2. q.inc \in SUBSET Instr(p) /\ q.fns \in SUBSET Own(p) /\ q.always \in SUBSET Own(p)
  BY <1>1 DEF FoundSets
<1>3. X \subseteq q.inc /\ s.include_in_precompute \subseteq q.fns /\ s.include_all_callsites \subseteq q.always
  <2>. DEFINE S == {e \in FoundSets(p) : /\ X \subseteq e.inc
                                         /\ s.include_in_precompute \subseteq e.fns
                                         /\ s.include_all_callsites \subseteq e.always}
  <2>1. start \in S
    BY DEF FoundSets, SliceType
  <2>2. ASSUME NEW e \in S PROVE IncludeOnce(p, can, s, e) \in S
    <3>. DEFINE d == IncludeOnce(p, can, s, e)
    <3>1. d \in FoundSets(p) /\ e.inc \subseteq d.inc /\ e.fns \subseteq d.fns /\ e.always \subseteq d.always
      BY OnceType
    <3>. HIDE DEF d
    <3>2. d \in S
      BY <3>1
    <3>. QED
      BY <3>2 DEF d
  <2>. HIDE DEF S
  <2>3. S \in SUBSET FoundSets(p)
    BY DEF S
  <2>4. q \in S
    BY <1>1, <2>1, <2>2, <2>3
  <2>. QED
    BY <2>4 DEF S
<1>4. r = [s EXCEPT !.included = @ \cup fresh,
                    !.include_in_precompute = q.fns,
                    !.include_all_callsites = q.always,
                    !.tainted = @ \cup fresh \cup sites \cup normal,
                    !.visited = @ \ (fresh \cup sites)]
  BY DEF Include
<1>5. sites \subseteq Instr(p) /\ normal \subseteq Instr(p) /\ fresh \subseteq Instr(p)
  <2>1. sites \subseteq Instr(p)
    BY DEF Callsites, Calls, Invokes
  <2>2. normal \subseteq Instr(p)
    BY NormalGuardsType
  <2>. QED
    BY <1>2, <2>1, <2>2
<1>. HIDE DEF sites, normal, fresh
<1>6. /\ r.included = s.included \cup fresh
      /\ r.include_in_precompute = q.fns
      /\ r.include_all_callsites = q.always
      /\ r.tainted = s.tainted \cup fresh \cup sites \cup normal
      /\ r.visited = s.visited \ (fresh \cup sites)
      /\ r.needs = s.needs /\ r.requests = s.requests
  BY <1>4 DEF SliceType
<1>7. SliceType(p, r)
  <2>1. /\ s.included \cup fresh \in SUBSET Instr(p)
        /\ s.tainted \cup fresh \cup sites \cup normal \in SUBSET Instr(p)
        /\ s.visited \ (fresh \cup sites) \in SUBSET Instr(p)
    BY <1>5 DEF SliceType
  <2>. QED
    BY <1>2, <1>4, <2>1 DEF SliceType
<1>8. s.included \cup fresh = s.included \cup q.inc
  BY DEF fresh
<1>. QED
  BY <1>1, <1>3, <1>6, <1>7, <1>8 DEF sites, normal, fresh, Extends

\* All is included that needs X, and that X is needed by.
IncludeReady(p, can, s, X) ==
  /\ SliceType(p, s)
  /\ s.included \subseteq s.tainted
  /\ \A x \in Instr(p) : s.needs[x] # {} => x \in s.tainted
  /\ \A x \in s.included :
       /\ s.needs[x] \subseteq s.included \cup X
       /\ Guards(p, can, x) \subseteq s.included
       /\ InEntry(p, x) => FunctionOf(p, x) \in s.include_in_precompute

\* An inclusion keeps the slice sound, also of what some instruction already needs.
LEMMA IncludeSound ==
  ASSUME NEW p \in Program, WellFormed(p), NEW can, NEW s, NEW X \in SUBSET Instr(p),
         IncludeReady(p, can, s, X), NEW r, r = Include(p, can, s, X)
  PROVE  /\ SliceSound(p, can, r) /\ Later(p, s, r)
         /\ X \subseteq r.included
         /\ r.needs = s.needs /\ r.requests = s.requests
         /\ r.visited \subseteq s.visited
<1>0. PICK q : q = IncludeRecursive(p, can, s, X)
  OBVIOUS
<1>1. Extends(p, can, s, X, q, r)
  BY <1>0, IncludeExtends DEF IncludeReady
<1>2. ASSUME NEW x \in q.inc
      PROVE  /\ s.needs[x] \subseteq q.inc /\ Guards(p, can, x) \subseteq q.inc
             /\ InEntry(p, x) => FunctionOf(p, x) \in q.fns
  <2>1. Guards(p, can, x) \cup s.needs[x] \subseteq IncludeOnce(p, can, s, q).inc
    BY DEF IncludeOnce
  <2>2. InEntry(p, x) => FunctionOf(p, x) \in IncludeOnce(p, can, s, q).fns
    BY DEF IncludeOnce
  <2>. QED
    BY <1>1, <2>1, <2>2 DEF Extends
<1>3. IncludedClosed(p, can, r)
  <2>. SUFFICES ASSUME NEW x \in r.included
                PROVE  /\ r.needs[x] \subseteq r.included /\ Guards(p, can, x) \subseteq r.included
                       /\ InEntry(p, x) => FunctionOf(p, x) \in r.include_in_precompute
    BY DEF IncludedClosed
  <2>1. CASE x \in q.inc
    BY <1>1, <1>2, <2>1 DEF Extends
  <2>2. CASE x \in s.included
    BY <1>1, <2>2 DEF IncludeReady, Extends
  <2>. QED
    BY <1>1, <2>1, <2>2 DEF Extends
<1>4. Later(p, s, r)
  BY <1>1 DEF Later, Extends
<1>5. r.included \subseteq r.tainted /\ \A x \in Instr(p) : r.needs[x] # {} => x \in r.tainted
  BY <1>1 DEF IncludeReady, Extends
<1>. QED
  BY <1>1, <1>3, <1>4, <1>5 DEF SliceSound, Extends

\* What an instruction needs is inserted.
LEMMA NeedsSound ==
  ASSUME NEW p \in Program, WellFormed(p), NEW can, NEW s, SliceSound(p, can, s),
         NEW x \in s.tainted, NEW T \in SUBSET Instr(p),
         NEW r, r = InsertNeeds(p, can, s, x, T)
  PROVE  /\ SliceSound(p, can, r) /\ Later(p, s, r)
         /\ r.needs = [s.needs EXCEPT ![x] = @ \cup T] /\ r.requests = s.requests
         /\ r.visited \subseteq s.visited \ (T \ s.needs[x])
         /\ T \subseteq r.tainted
<1>. DEFINE t == [s EXCEPT !.tainted = @ \cup T, !.visited = @ \ (T \ s.needs[x]), !.needs[x] = @ \cup T]
<1>1. x \in Instr(p)
  BY DEF SliceSound, SliceType
<1>2. /\ t.tainted = s.tainted \cup T /\ t.visited = s.visited \ (T \ s.needs[x])
      /\ t.needs = [s.needs EXCEPT ![x] = @ \cup T]
      /\ t.included = s.included /\ t.requests = s.requests
      /\ t.include_in_precompute = s.include_in_precompute
      /\ t.include_all_callsites = s.include_all_callsites
      /\ SliceType(p, t)
  BY <1>1 DEF SliceSound, SliceType
<1>3. r = IF x \in s.included THEN Include(p, can, t, T) ELSE t
  BY DEF InsertNeeds
<1>. HIDE DEF t
<1>4. \A y \in Instr(p) : t.needs[y] = IF y = x THEN s.needs[y] \cup T ELSE s.needs[y]
  BY <1>1, <1>2 DEF SliceSound, SliceType
<1>5. Later(p, s, t)
  BY <1>2, <1>4 DEF Later
<1>6. t.included \subseteq t.tainted /\ \A y \in Instr(p) : t.needs[y] # {} => y \in t.tainted
  BY <1>2, <1>4 DEF SliceSound
<1>7. s.included \subseteq Instr(p)
  BY DEF SliceSound, SliceType
<1>8. CASE x \in s.included
  <2>1. IncludeReady(p, can, t, T)
    BY <1>2, <1>4, <1>6, <1>7 DEF SliceSound, IncludedClosed, IncludeReady
  <2>2. r = Include(p, can, t, T)
    BY <1>3, <1>8
  <2>3. /\ SliceSound(p, can, r) /\ Later(p, t, r)
        /\ r.needs = t.needs /\ r.requests = t.requests /\ r.visited \subseteq t.visited
    BY <2>1, <2>2, IncludeSound
  <2>. QED
    BY <1>2, <1>5, <2>3, LaterTwice DEF Later
<1>9. CASE x \notin s.included
  <2>1. IncludedClosed(p, can, t)
    BY <1>2, <1>4, <1>7, <1>9 DEF SliceSound, IncludedClosed
  <2>. QED
    BY <1>2, <1>3, <1>5, <1>6, <1>9, <2>1 DEF SliceSound
<1>. QED
  BY <1>8, <1>9

-----------------------------------------------------------------------------
(* The analysis.                                                            *)

\* An inclusion keeps the slice sound.
LEMMA IncludeKeeps ==
  ASSUME NEW p \in Program, WellFormed(p), NEW can, NEW s, SliceSound(p, can, s),
         NEW X \in SUBSET Instr(p), NEW r, r = Include(p, can, s, X)
  PROVE  /\ SliceSound(p, can, r) /\ Later(p, s, r) /\ X \subseteq r.included
         /\ r.needs = s.needs /\ r.requests = s.requests /\ r.visited \subseteq s.visited
<1>1. IncludeReady(p, can, s, X)
  BY DEF SliceSound, IncludedClosed, IncludeReady
<1>. QED
  BY <1>1, IncludeSound

\* The returns of what a call can call.
CalledReturns(p, c) == UNION {Terminators(p, f, "ret") : f \in CallTargets(p, c)}

\* What was visited has what it needs; a call that is needed for its result and was
\* visited since then has the returns of what it calls.
VisitsSound(p, s) ==
  /\ \A x \in s.visited \ (Calls(p) \cup p.request) : p.instr[x].uses \subseteq s.needs[x]
  /\ \A x \in Instr(p) : \A c \in Calls(p) :
       c \in p.instr[x].uses /\ c \in s.needs[x] /\ c \in s.visited
         => CalledReturns(p, c) \subseteq s.needs[c]

\* The state of the analysis, between two visits.
AnalysisSound(p, can, s) == SliceSound(p, can, s) /\ VisitsSound(p, s)

\* The beginning of the analysis.
LEMMA EmptySound ==
  ASSUME NEW p, WellFormed(p), NEW can
  PROVE  AnalysisSound(p, can, EmptySlice(p)) /\ SliceType(p, EmptySlice(p))
<1>1. p.request \subseteq Instr(p)
  BY DEF WellFormed
<1>2. SliceType(p, EmptySlice(p))
  BY <1>1 DEF EmptySlice, SliceType
<1>. QED
  BY <1>2 DEF AnalysisSound, SliceSound, VisitsSound, IncludedClosed, EmptySlice

\* A request.
LEMMA RequestSound ==
  ASSUME NEW p \in Program, WellFormed(p), NEW can, NEW s, AnalysisSound(p, can, s),
         NEW x \in s.requests, NEW r, r = IncludeRequest(p, can, s, x)
  PROVE  AnalysisSound(p, can, r) /\ Later(p, s, r) /\ x \in r.included
         /\ r.requests = s.requests \ {x}
<1>1. x \in p.request /\ x \in Instr(p) \ Calls(p)
  BY DEF AnalysisSound, SliceSound, SliceType, WellFormed
<1>. DEFINE t == Include(p, can, s, {x})
            f == FunctionOf(p, x)
<1>2. /\ SliceSound(p, can, t) /\ Later(p, s, t) /\ x \in t.included
      /\ t.needs = s.needs /\ t.requests = s.requests /\ t.visited \subseteq s.visited
  <2>1. {x} \in SUBSET Instr(p)
    BY <1>1
  <2>2. /\ SliceSound(p, can, t) /\ Later(p, s, t) /\ {x} \subseteq t.included
        /\ t.needs = s.needs /\ t.requests = s.requests /\ t.visited \subseteq s.visited
    BY <2>1, IncludeKeeps DEF AnalysisSound
  <2>. QED
    BY <2>2
<1>3. r = [t EXCEPT !.visited = (@ \cup {x}) \ (Callsites(p, f) \cap t.tainted),
                    !.include_all_callsites = @ \cup {f},
                    !.requests = @ \ {x}]
  BY DEF IncludeRequest
<1>. HIDE DEF t
<1>4. /\ r.visited = (t.visited \cup {x}) \ (Callsites(p, f) \cap t.tainted)
      /\ r.include_all_callsites = t.include_all_callsites \cup {f}
      /\ r.requests = t.requests \ {x}
      /\ r.tainted = t.tainted /\ r.included = t.included /\ r.needs = t.needs
      /\ r.include_in_precompute = t.include_in_precompute
      /\ SliceType(p, r)
  <2>. DEFINE visited == (t.visited \cup {x}) \ (Callsites(p, f) \cap t.tainted)
              always == t.include_all_callsites \cup {f}
              requests == t.requests \ {x}
  <2>1. SliceType(p, t) /\ f \in Own(p)
    BY <1>1, <1>2, Placed DEF SliceSound
  <2>2. /\ visited \in SUBSET Instr(p) /\ always \in SUBSET Own(p)
        /\ requests \in SUBSET p.request
    BY <1>1, <2>1 DEF SliceType
  <2>3. r = [t EXCEPT !.visited = visited, !.include_all_callsites = always, !.requests = requests]
    BY <1>3, <2>1 DEF SliceType
  <2>. HIDE DEF f, visited, always, requests
  <2>4. /\ r.visited = visited /\ r.include_all_callsites = always /\ r.requests = requests
        /\ r.tainted = t.tainted /\ r.included = t.included /\ r.needs = t.needs
        /\ r.include_in_precompute = t.include_in_precompute
        /\ SliceType(p, r)
    BY <2>1, <2>2, <2>3 DEF SliceType
  <2>. QED
    BY <2>4 DEF visited, always, requests
<1>. HIDE DEF f
<1>5. SliceSound(p, can, r)
  BY <1>2, <1>4 DEF SliceSound, IncludedClosed
<1>6. Later(p, s, r)
  BY <1>2, <1>4 DEF Later
<1>7. VisitsSound(p, r)
  BY <1>1, <1>2, <1>4 DEF VisitsSound, AnalysisSound
<1>. QED
  BY <1>2, <1>4, <1>5, <1>6, <1>7 DEF AnalysisSound

\* A visit of an instruction that is no call.
LEMMA VisitPlainSound ==
  ASSUME NEW p \in Program, WellFormed(p), NEW can, NEW s, AnalysisSound(p, can, s),
         NEW x \in s.tainted, x \notin Calls(p), NEW r, r = VisitVal(p, can, s, x)
  PROVE  AnalysisSound(p, can, r) /\ Later(p, s, r) /\ r.requests = s.requests
<1>1. x \in Instr(p)
  BY DEF AnalysisSound, SliceSound, SliceType
<1>. DEFINE v == [s EXCEPT !.visited = @ \cup {x}]
            T == p.instr[x].uses
<1>2. /\ v.visited = s.visited \cup {x} /\ v.needs = s.needs /\ v.requests = s.requests
      /\ v.tainted = s.tainted /\ v.included = s.included
      /\ v.include_in_precompute = s.include_in_precompute
      /\ v.include_all_callsites = s.include_all_callsites
      /\ SliceType(p, v)
  BY <1>1 DEF AnalysisSound, SliceSound, SliceType
<1>3. r = InsertNeeds(p, can, v, x, T)
  BY DEF VisitVal
<1>. HIDE DEF v
<1>4. T \in SUBSET Instr(p)
  BY <1>1 DEF WellFormed, InstrOf
<1>. HIDE DEF T
<1>5. SliceSound(p, can, v)
  BY <1>2 DEF AnalysisSound, SliceSound, IncludedClosed
<1>6. /\ SliceSound(p, can, r) /\ Later(p, v, r)
      /\ r.needs = [v.needs EXCEPT ![x] = @ \cup T] /\ r.requests = v.requests
      /\ r.visited \subseteq v.visited \ (T \ v.needs[x])
  BY <1>2, <1>3, <1>4, <1>5, NeedsSound
<1>7. Later(p, s, r)
  BY <1>2, <1>6 DEF Later
<1>8. \A y \in Instr(p) : r.needs[y] = IF y = x THEN s.needs[y] \cup T ELSE s.needs[y]
  BY <1>2, <1>6 DEF SliceSound, SliceType
<1>9. VisitsSound(p, r)
  <2>1. ASSUME NEW y \in r.visited \ (Calls(p) \cup p.request)
        PROVE  p.instr[y].uses \subseteq r.needs[y]
    <3>1. y \in Instr(p) /\ y \in s.visited \cup {x}
      BY <1>2, <1>6 DEF SliceSound, SliceType
    <3>2. CASE y = x
      BY <1>8, <3>1, <3>2 DEF T
    <3>3. CASE y # x
      BY <1>8, <2>1, <3>1, <3>3 DEF AnalysisSound, VisitsSound
    <3>. QED
      BY <3>2, <3>3
  <2>2. ASSUME NEW y \in Instr(p), NEW c \in Calls(p), c \in p.instr[y].uses, c \in r.needs[y],
               c \in r.visited
        PROVE  CalledReturns(p, c) \subseteq r.needs[c]
    <3>1. c \in Instr(p) /\ c # x
      BY DEF Calls, Invokes
    <3>2. c \in s.visited /\ r.needs[c] = s.needs[c]
      BY <1>2, <1>6, <1>8, <2>2, <3>1
    <3>3. c \in s.needs[y]
      BY <1>2, <1>6, <1>8, <2>2
    <3>. QED
      BY <2>2, <3>2, <3>3 DEF AnalysisSound, VisitsSound
  <2>. QED
    BY <2>1, <2>2 DEF VisitsSound
<1>. QED
  BY <1>2, <1>6, <1>7, <1>9 DEF AnalysisSound

\* What the exception of an invoke needs, and a call that has to be kept.
LEMMA ExceptionSound ==
  ASSUME NEW p \in Program, WellFormed(p), NEW can, NEW s, AnalysisSound(p, can, s),
         NEW c \in Calls(p), NEW r, r = VisitForException(p, can, s, c)
  PROVE  AnalysisSound(p, can, r) /\ Later(p, s, r) /\ r.requests = s.requests
<1>. DEFINE throwing == {f \in CallTargets(p, c) \cap Own(p) : can[f]}
            calls == {x \in Calls(p) : FunctionOf(p, x) \in throwing /\ CallCanExcept(p, can, x)}
            resumes == IF c \in s.included THEN UNION {Terminators(p, f, "resume") : f \in throwing}
                       ELSE {}
            external == IF \E f \in CallTargets(p, c) : p.function[f].kind = "throws" THEN {c} ELSE {}
            X == calls \cup resumes \cup external
<1>1. r = IF c \in Invokes(p) /\ ExceptionCaseNeeded(p, can, s, c) THEN Include(p, can, s, X) ELSE s
  BY DEF VisitForException
<1>2. X \in SUBSET Instr(p)
  BY TargetsType DEF Terminators, InstrOf
<1>. HIDE DEF X
<1>3. CASE r = s
  BY <1>3 DEF Later
<1>4. CASE r = Include(p, can, s, X)
  <2>1. /\ SliceSound(p, can, r) /\ Later(p, s, r)
        /\ r.needs = s.needs /\ r.requests = s.requests /\ r.visited \subseteq s.visited
    BY <1>2, <1>4, IncludeKeeps DEF AnalysisSound
  <2>. QED
    BY <2>1 DEF AnalysisSound, VisitsSound
<1>. QED
  BY <1>1, <1>3, <1>4

\* A call that has to be kept since what it calls always has to be called.
LEMMA CheckCallSound ==
  ASSUME NEW p \in Program, WellFormed(p), NEW can, NEW s, AnalysisSound(p, can, s),
         NEW c \in Calls(p), NEW r, r = CheckCall(p, can, s, c)
  PROVE  AnalysisSound(p, can, r) /\ Later(p, s, r) /\ r.requests = s.requests
<1>. DEFINE m == [s EXCEPT !.include_all_callsites = @ \cup {FunctionOf(p, c)}]
            C == {c}
<1>1. r = s \/ r = Include(p, can, m, C)
  BY DEF CheckCall
<1>2. c \in Instr(p) /\ C \in SUBSET Instr(p)
  BY TargetsType
<1>3. /\ m.visited = s.visited /\ m.needs = s.needs /\ m.requests = s.requests
      /\ m.tainted = s.tainted /\ m.included = s.included
      /\ m.include_in_precompute = s.include_in_precompute
      /\ s.include_all_callsites \subseteq m.include_all_callsites
      /\ SliceType(p, m)
  BY <1>2, Placed DEF AnalysisSound, SliceSound, SliceType
<1>. HIDE DEF m, C
<1>4. SliceSound(p, can, m) /\ Later(p, s, m)
  BY <1>3 DEF AnalysisSound, SliceSound, IncludedClosed, Later
<1>5. CASE r = s
  BY <1>5 DEF Later
<1>6. CASE r = Include(p, can, m, C)
  <2>1. /\ SliceSound(p, can, r) /\ Later(p, m, r)
        /\ r.needs = m.needs /\ r.requests = m.requests /\ r.visited \subseteq m.visited
    BY <1>2, <1>4, <1>6, IncludeKeeps
  <2>2. Later(p, s, r)
    BY <1>4, <2>1, LaterTwice
  <2>. QED
    BY <1>3, <2>1, <2>2 DEF AnalysisSound, VisitsSound
<1>. QED
  BY <1>1, <1>5, <1>6

\* A visit of a call inserts the returns of what it calls if its result is needed.
LEMMA RetvalSound ==
  ASSUME NEW p \in Program, WellFormed(p), NEW can, NEW s, AnalysisSound(p, can, s),
         NEW c \in Calls(p), c \in s.tainted,
         NEW v, v = [s EXCEPT !.visited = @ \cup {c}],
         NEW r, r = VisitForRetval(p, can, v, c)
  PROVE  AnalysisSound(p, can, r) /\ Later(p, s, r) /\ r.requests = s.requests
<1>1. c \in Instr(p)
  BY TargetsType
<1>. DEFINE T == CalledReturns(p, c)
<1>2. /\ v.visited = s.visited \cup {c} /\ v.needs = s.needs /\ v.requests = s.requests
      /\ v.tainted = s.tainted /\ v.included = s.included
      /\ v.include_in_precompute = s.include_in_precompute
      /\ v.include_all_callsites = s.include_all_callsites
      /\ SliceType(p, v)
  BY <1>1 DEF AnalysisSound, SliceSound, SliceType
<1>3. SliceSound(p, can, v) /\ Later(p, s, v)
  BY <1>2 DEF AnalysisSound, SliceSound, IncludedClosed, Later
<1>4. r = IF RetvalNeeded(p, v, c) THEN InsertNeeds(p, can, v, c, T) ELSE v
  BY DEF VisitForRetval, CalledReturns
<1>5. T \in SUBSET Instr(p)
  BY DEF CalledReturns, Terminators, InstrOf
<1>6. CASE ~ RetvalNeeded(p, v, c)
  <2>1. r = v
    BY <1>4, <1>6
  <2>2. \A y \in Instr(p) : c \in p.instr[y].uses => c \notin s.needs[y]
    BY <1>2, <1>3, <1>6 DEF RetvalNeeded, SliceSound
  <2>3. VisitsSound(p, v)
    BY <1>2, <2>2 DEF AnalysisSound, VisitsSound
  <2>. QED
    BY <1>2, <1>3, <2>1, <2>3 DEF AnalysisSound
<1>7. CASE RetvalNeeded(p, v, c)
  <2>. HIDE DEF T
  <2>0. c \in v.tainted /\ r = InsertNeeds(p, can, v, c, T)
    BY <1>2, <1>4, <1>7
  <2>1. /\ SliceSound(p, can, r) /\ Later(p, v, r)
        /\ r.needs = [v.needs EXCEPT ![c] = @ \cup T] /\ r.requests = v.requests
        /\ r.visited \subseteq v.visited \ (T \ v.needs[c])
    BY ONLY p \in Program, WellFormed(p), <1>3, <1>5, <2>0, NeedsSound
  <2>2. \A y \in Instr(p) : r.needs[y] = IF y = c THEN s.needs[y] \cup T ELSE s.needs[y]
    <3>1. s.needs \in [Instr(p) -> SUBSET Instr(p)] /\ v.needs = s.needs
      BY <1>2 DEF SliceType
    <3>2. r.needs = [s.needs EXCEPT ![c] = @ \cup T]
      BY <2>1, <3>1
    <3>. QED
      BY <3>1, <3>2
  <2>3. ASSUME NEW y \in r.visited \ (Calls(p) \cup p.request)
        PROVE  p.instr[y].uses \subseteq r.needs[y]
    <3>1. y \in Instr(p) /\ y \in s.visited /\ y # c
      BY <1>2, <2>1, <2>3 DEF SliceSound, SliceType
    <3>. QED
      BY <2>2, <2>3, <3>1 DEF AnalysisSound, VisitsSound
  <2>4. ASSUME NEW y \in Instr(p), NEW d \in Calls(p), d \in p.instr[y].uses, d \in r.needs[y],
               d \in r.visited
        PROVE  CalledReturns(p, d) \subseteq r.needs[d]
    <3>1. d \in Instr(p) /\ y # c
      BY <2>4 DEF Calls, Invokes, WellFormed
    <3>2. CASE d = c
      BY <1>1, <2>2, <3>2 DEF T
    <3>3. CASE d # c
      BY <1>2, <2>1, <2>2, <2>4, <3>1, <3>3 DEF AnalysisSound, VisitsSound
    <3>. QED
      BY <3>2, <3>3
  <2>. QED
    BY <1>2, <1>3, <2>1, <2>3, <2>4, LaterTwice DEF AnalysisSound, VisitsSound
<1>. QED
  BY <1>6, <1>7

\* A visit.
LEMMA VisitSound ==
  ASSUME NEW p \in Program, WellFormed(p), NEW can, NEW s, AnalysisSound(p, can, s),
         NEW x \in s.tainted, NEW r, r = VisitVal(p, can, s, x)
  PROVE  AnalysisSound(p, can, r) /\ Later(p, s, r) /\ r.requests = s.requests
<1>1. CASE x \notin Calls(p)
  BY <1>1, VisitPlainSound
<1>2. CASE x \in Calls(p)
  <2>. DEFINE v == [s EXCEPT !.visited = @ \cup {x}]
              a == VisitForRetval(p, can, v, x)
              b == VisitForException(p, can, a, x)
  <2>1. r = CheckCall(p, can, b, x)
    BY <1>2 DEF VisitVal, VisitCall
  <2>2. AnalysisSound(p, can, a) /\ Later(p, s, a) /\ a.requests = s.requests
    BY <1>2, RetvalSound
  <2>. HIDE DEF v, a
  <2>3. AnalysisSound(p, can, b) /\ Later(p, a, b) /\ b.requests = a.requests
    BY <1>2, <2>2, ExceptionSound
  <2>. HIDE DEF b
  <2>4. AnalysisSound(p, can, r) /\ Later(p, b, r) /\ r.requests = b.requests
    BY <1>2, <2>1, <2>3, CheckCallSound
  <2>. QED
    BY <2>2, <2>3, <2>4, LaterTwice
<1>. QED
  BY <1>1, <1>2

\* The slice is sound from its beginning on, it is empty until the exceptions are known,
\* and it is finished when functions are copied.
SliceInv ==
  /\ program \in Program
  /\ AnalysisSound(program, can_except_in_precompute, slice)
  /\ ~ FunctionsAnalyzed => slice = EmptySlice(program)
  /\ insertion # "analysis" => AnalysisDone

\* Nothing is left to do of the exceptions when they are known.
LEMMA ExceptDone ==
  ASSUME FunctionsAnalyzed
  PROVE  ~ ExceptNext
  BY DEF FunctionsAnalyzed, ExceptNext, AnalyzeFunction, AnalyzeCallee, CheckCallee, NoCalleeExcepts

\* The slice is sound at each step of the pass.
THEOREM SliceInvariant == Spec => []SliceInv
<1>1. Init => SliceInv
  <2>. SUFFICES ASSUME Init PROVE SliceInv
    OBVIOUS
  <2>1. program \in Program /\ slice = EmptySlice(program) /\ insertion = "analysis"
    BY DEF Init, ExceptInit
  <2>2. WellFormed(program)
    BY <2>1, WellFormedAssumption
  <2>. QED
    BY <2>1, <2>2, EmptySound DEF SliceInv
<1>2. SliceInv /\ [Next]_vars => SliceInv'
  <2>. SUFFICES ASSUME SliceInv, [Next]_vars PROVE SliceInv'
    OBVIOUS
  <2>0. program \in Program /\ WellFormed(program)
    BY WellFormedAssumption DEF SliceInv
  <2>1. CASE ExceptNext /\ UNCHANGED <<slice, insertionVars, runVars>>
    <3>1. ~ FunctionsAnalyzed
      BY <2>1, ExceptDone
    <3>2. slice = EmptySlice(program) /\ insertion = "analysis"
      BY <3>1 DEF SliceInv, AnalysisDone
    <3>3. slice' = slice /\ insertion' = insertion /\ program' = program
      BY <2>1 DEF insertionVars, ExceptNext, AnalyzeFunction, AnalyzeCallee, CheckCallee,
                  NoCalleeExcepts
    <3>4. AnalysisSound(program, can_except_in_precompute', slice)
      BY <2>0, <3>2, EmptySound
    <3>. QED
      BY <2>0, <3>2, <3>3, <3>4 DEF SliceInv
  <2>2. CASE Analysis
    <3>1. /\ program' = program /\ can_except_in_precompute' = can_except_in_precompute
          /\ to_analyze' = to_analyze /\ except_stack' = except_stack /\ insertion' = insertion
      BY <2>2 DEF Analysis, exceptVars, insertionVars
    <3>2. FunctionsAnalyzed /\ FunctionsAnalyzed' /\ ~ AnalysisDone
      BY <2>2, <3>1 DEF Analysis, Request, Visit, FunctionsAnalyzed, AnalysisDone
    <3>3. AnalysisSound(program, can_except_in_precompute, slice')
      <4>1. CASE Request
        <5>1. PICK x \in slice.requests :
                slice' = IncludeRequest(program, can_except_in_precompute, slice, x)
          BY <4>1 DEF Request
        <5>. QED
          BY <2>0, <5>1, RequestSound DEF SliceInv
      <4>2. CASE Visit
        <5>1. PICK x \in ToVisit : slice' = VisitVal(program, can_except_in_precompute, slice, x)
          BY <4>2 DEF Visit
        <5>2. x \in slice.tainted
          BY DEF ToVisit
        <5>. QED
          BY <2>0, <5>1, <5>2, VisitSound DEF SliceInv
      <4>. QED
        BY <2>2, <4>1, <4>2 DEF Analysis
    <3>. QED
      BY <2>0, <3>1, <3>2, <3>3 DEF SliceInv
  <2>3. CASE UNCHANGED <<exceptVars, slice>> /\ (insertion' # "analysis" => AnalysisDone)
    BY <2>3 DEF SliceInv, exceptVars, FunctionsAnalyzed, AnalysisDone, ToVisit
  <2>4. CASE Insertion
    BY <2>3, <2>4 DEF SliceInv, Insertion, CopyFunctions, ReplaceCalls, Prune, NextLoop
  <2>5. CASE Start \/ SliceStep \/ OriginalStep
    BY <2>3, <2>5 DEF SliceInv, Start, SliceStep, OriginalStep, insertionVars
  <2>6. CASE UNCHANGED vars
    BY <2>3, <2>6 DEF SliceInv, vars, insertionVars
  <2>. QED
    BY <2>1, <2>2, <2>4, <2>5, <2>6 DEF Next
<1>. QED
  BY <1>1, <1>2, PTL DEF Spec

\* A function is in the slice if something of it is that its entry comes before.
LEMMA EntryIncluded ==
  ASSUME NEW p, WellFormed(p), NEW can, NEW s, SliceSound(p, can, s),
         NEW x \in s.included, EntryBefore(p, BlockOf(p, x))
  PROVE  FunctionOf(p, x) \in s.include_in_precompute
<1>. DEFINE B == {b \in DOMAIN p.block : \E y \in s.included : BlockOf(p, y) = b}
            e == p.function[FunctionOf(p, x)].entry
<1>1. s.included \subseteq Instr(p) /\ x \in Instr(p)
  BY DEF SliceSound, SliceType
<1>2. BlockOf(p, x) \in B
  BY <1>1, Placed
<1>3. ASSUME NEW c \in B, NEW a \in Predecessors(p, c), Terminator(p, a) \notin Invokes(p)
      PROVE  a \in B
  <2>1. PICK y \in s.included : BlockOf(p, y) = c
    OBVIOUS
  <2>2. Terminator(p, a) \in Guards(p, can, y)
    BY <1>3, <2>1 DEF Guards
  <2>3. Terminator(p, a) \in s.included
    BY <2>1, <2>2 DEF SliceSound, IncludedClosed
  <2>4. a \in DOMAIN p.block
    BY DEF Predecessors
  <2>. QED
    BY <2>3, <2>4, Formed
<1>4. e \in B
  <2>1. e = p.function[p.block[BlockOf(p, x)].fn].entry
    BY DEF FunctionOf
  <2>2. B \in SUBSET DOMAIN p.block
    OBVIOUS
  <2>. HIDE DEF B
  <2>. QED
    BY <1>2, <1>3, <2>1, <2>2 DEF EntryBefore
<1>5. PICK y \in s.included : BlockOf(p, y) = e
  BY <1>4
<1>6. FunctionOf(p, y) = FunctionOf(p, x)
  <2>1. FunctionOf(p, x) \in Own(p)
    BY <1>1, Placed
  <2>2. e \in BlocksOf(p, FunctionOf(p, x))
    BY <2>1 DEF WellFormed
  <2>3. p.block[e].fn = FunctionOf(p, x)
    BY <2>2 DEF BlocksOf
  <2>. QED
    BY <1>5, <2>3 DEF FunctionOf
<1>. QED
  BY <1>5, <1>6 DEF SliceSound, IncludedClosed, InEntry

\* When the analysis is done, a function is copied if one of its returns is needed by a call.
LEMMA ReturnsCopied ==
  ASSUME SliceInv, AnalysisDone,
         NEW c \in Calls(program), RetvalNeeded(program, slice, c), c \in slice.included,
         NEW f \in CallTargets(program, c),
         NEW r \in Terminators(program, f, "ret"), EntryBefore(program, BlockOf(program, r))
  PROVE  f \in Copied
<1>. DEFINE p == program
            s == slice
<1>1. /\ p \in Program /\ WellFormed(p)
      /\ SliceSound(p, can_except_in_precompute, s) /\ VisitsSound(p, s)
  BY WellFormedAssumption DEF SliceInv, AnalysisSound
<1>2. PICK u \in s.tainted : c \in p.instr[u].uses
  BY DEF RetvalNeeded
<1>3. u \in Instr(p) /\ c \in s.tainted
  BY <1>1 DEF SliceSound, SliceType
<1>4. u \notin Calls(p) \cup p.request
  BY <1>1, <1>2 DEF WellFormed
<1>5. u \in s.visited /\ c \in s.visited
  BY <1>3 DEF AnalysisDone, ToVisit
<1>6. c \in s.needs[u]
  BY <1>1, <1>2, <1>4, <1>5 DEF VisitsSound
<1>7. CalledReturns(p, c) \subseteq s.needs[c]
  BY <1>1, <1>2, <1>3, <1>5, <1>6 DEF VisitsSound
<1>8. CalledReturns(p, c) \subseteq s.included
  BY <1>1, <1>7 DEF SliceSound, IncludedClosed
<1>10. r \in s.included
  BY <1>8 DEF CalledReturns
<1>11. FunctionOf(p, r) = f
  BY DEF Terminators, InstrOf
<1>. HIDE DEF p, s
<1>12. f \in s.include_in_precompute
  BY <1>1, <1>10, <1>11, EntryIncluded DEF p
<1>. QED
  BY <1>12 DEF s, Copied

\* So is what a virtual call can call that is needed for its result.
LEMMA ResultsCopied ==
  ASSUME SliceInv, AnalysisDone, VirtualReturns(program),
         NEW c \in Calls(program), c \in slice.included, Indirect(program, c),
         RetvalNeeded(program, slice, c), NEW f \in CallTargets(program, c)
  PROVE  f \in Copied
<1>1. SliceSound(program, can_except_in_precompute, slice)
  BY DEF SliceInv, AnalysisSound
<1>2. PICK u \in slice.tainted : c \in program.instr[u].uses
  BY DEF RetvalNeeded
<1>3. u \in Instr(program)
  BY <1>1 DEF SliceSound, SliceType
<1>4. PICK r \in Terminators(program, f, "ret") : EntryBefore(program, BlockOf(program, r))
  BY <1>2, <1>3 DEF VirtualReturns
<1>. QED
  BY <1>4, ReturnsCopied

-----------------------------------------------------------------------------
(* The code of the copies.                                                  *)

\* The fields of the code of the copies.
CodeFields == {"op", "calls", "checked", "succ", "incoming", "merged"}

\* A block that control can come to in the copies: what it ends with has somewhere to go.
LiveBlock(c, R, b) ==
  LET op == c.op[Terminator(program, b)]
  IN  /\ b \in DOMAIN program.block /\ program.block[b].fn \in Copied
      /\ c.succ[b] \in Seq(R \cap BlocksOf(program, program.block[b].fn))
      /\ op \notin {"ret", "resume", "return"} => c.succ[b] # <<>>
      /\ op \in {"condbr", "invoke"} => Len(c.succ[b]) = 2

\* R holds all blocks that control can come to in the copies.
LiveBlocks(c, R) ==
  /\ \A f \in Copied : program.function[f].entry \in R
  /\ \A b \in R : LiveBlock(c, R, b)

\* What a call of the code may call: a function, its copy, or none that is copied.
TargetOK(x, k, t) ==
  /\ t \in {NullFunction} \cup UNION {{Original(f), CopyOf(f)} : f \in Functions(program)}
  /\ t.copy => t.fn \in Copied
  /\ t = NullFunction => Indirect(program, x) /\ program.vtable[k][program.instr[x].slot] \notin Copied
  /\ ~ Indirect(program, x) => t.fn = program.instr[x].callee

\* Each call of the code has such a target for each class.
TargetsOK(c) ==
  \A x \in Calls(program) : \A k \in DOMAIN program.vtable : TargetOK(x, k, c.calls[x][k])

\* An instruction of a copy in which calls are replaced.
ReplacedOK(c, x) ==
  x \in Calls(program) /\ Included(x) =>
    /\ NullChecked(program, slice, x) => x \in c.checked
    /\ ~ Indirect(program, x) /\ program.instr[x].callee \in Copied =>
         \A k \in DOMAIN program.vtable : c.calls[x][k].copy

\* The code while the copies of the functions A have their calls replaced, and those
\* of P are pruned.
CodeOK(c, A, P) ==
  /\ DOMAIN c = CodeFields
  /\ DOMAIN c.op = Instr(program) /\ DOMAIN c.calls = Calls(program)
  /\ DOMAIN c.succ = DOMAIN program.block
  /\ \A x \in Calls(program) : DOMAIN c.calls[x] = DOMAIN program.vtable
  /\ TargetsOK(c)
  /\ \A x \in Instr(program) :
       /\ c.op[x] \in {"condbr", "invoke"} => program.instr[x].op = c.op[x]
       /\ c.op[x] = "call" => x \in Calls(program)
       /\ FunctionOf(program, x) \notin P => c.op[x] \in {program.instr[x].op, "call"}
       /\ FunctionOf(program, x) \in A => ReplacedOK(c, x)
       /\ FunctionOf(program, x) \in P /\ c.op[x] \in {"call", "invoke", "condbr"} => Included(x)
  /\ \E R : LiveBlocks(c, R)

\* What the transitions of the code take for granted of the slice.
SliceReady == program \in Program /\ WellFormed(program) /\ Copied \subseteq Own(program)

\* Functions, copies and null are told apart.
LEMMA TargetFields ==
  ASSUME NEW f
  PROVE  /\ CopyOf(f).fn = f /\ CopyOf(f).copy = TRUE /\ CopyOf(f) # NullFunction
         /\ Original(f).fn = f /\ Original(f).copy = FALSE
         /\ NullFunction.fn = "" /\ NullFunction.copy = FALSE
  BY DEF CopyOf, Original, NullFunction

\* What can be called is one of them.
LEMMA TargetTyped ==
  ASSUME NEW f \in Functions(program)
  PROVE  {Original(f), CopyOf(f)} \subseteq
           {NullFunction} \cup UNION {{Original(g), CopyOf(g)} : g \in Functions(program)}
  OBVIOUS

\* Merging blocks changes no instruction and no edge.
LEMMA MergeKeeps ==
  ASSUME NEW c, DOMAIN c = CodeFields, NEW B, NEW m, m = MergeBlocks(c, B)
  PROVE  /\ DOMAIN m = CodeFields
         /\ m.op = c.op /\ m.calls = c.calls /\ m.checked = c.checked /\ m.succ = c.succ
<1>1. \E merged, incoming : m = [c EXCEPT !.merged = merged, !.incoming = incoming]
  BY DEF MergeBlocks
<1>. QED
  BY <1>1 DEF CodeFields

\* What is looked at stays, if only the order of phis and the names of blocks change.
LEMMA SameCode ==
  ASSUME NEW c, NEW d, NEW A, NEW P, CodeOK(c, A, P), DOMAIN d = CodeFields,
         d.op = c.op, d.calls = c.calls, d.checked = c.checked, d.succ = c.succ
  PROVE  CodeOK(d, A, P)
<1>1. TargetsOK(d) /\ \A x : ReplacedOK(c, x) => ReplacedOK(d, x)
  BY DEF CodeOK, TargetsOK, ReplacedOK
<1>2. \A R, b : LiveBlock(c, R, b) => LiveBlock(d, R, b)
  BY DEF LiveBlock
<1>3. \E R : LiveBlocks(d, R)
  BY <1>2 DEF CodeOK, LiveBlocks
<1>. QED
  BY <1>1, <1>3 DEF CodeOK

\* The copies are made, with the vtables they use.
LEMMA CopyOK ==
  ASSUME SliceReady, CopyFunctions
  PROVE  CodeOK(code', {}, {})
<1>. DEFINE o == OriginalCode(program)
            calls == [x \in DOMAIN o.calls |->
                        [c \in DOMAIN program.vtable |->
                           IF Indirect(program, x) THEN VtableEntry(c, program.instr[x].slot)
                           ELSE o.calls[x][c]]]
            R == {b \in DOMAIN program.block : program.block[b].fn \in Copied}
<1>. PICK d : d = code'
  OBVIOUS
<1>1. d = [o EXCEPT !.calls = calls]
  BY DEF CopyFunctions
<1>2. /\ DOMAIN o = CodeFields
      /\ o.op = [x \in Instr(program) |-> program.instr[x].op]
      /\ o.succ = [b \in DOMAIN program.block |-> program.block[b].succ]
      /\ DOMAIN o.calls = Calls(program)
      /\ \A x \in Calls(program) : \A c \in DOMAIN program.vtable :
           ~ Indirect(program, x) => o.calls[x][c] = Original(program.instr[x].callee)
  BY DEF OriginalCode, CodeFields
<1>. HIDE DEF o
<1>3. DOMAIN d = CodeFields /\ d.op = o.op /\ d.succ = o.succ /\ d.calls = calls
  BY <1>1, <1>2 DEF CodeFields
<1>4. /\ DOMAIN calls = Calls(program)
      /\ \A x \in Calls(program) : DOMAIN calls[x] = DOMAIN program.vtable
  BY <1>2
<1>5. TargetsOK(d)
  <2>. SUFFICES ASSUME NEW x \in Calls(program), NEW k \in DOMAIN program.vtable
                PROVE  TargetOK(x, k, d.calls[x][k])
    BY DEF TargetsOK
  <2>0. CallTargets(program, x) \subseteq Functions(program) /\ "" \notin Functions(program)
    BY TargetsType DEF SliceReady, WellFormed
  <2>1. CASE Indirect(program, x)
    <3>. DEFINE f == program.vtable[k][program.instr[x].slot]
                t == VtableEntry(k, program.instr[x].slot)
    <3>1. d.calls[x][k] = t
      BY <1>2, <1>3, <2>1
    <3>2. f \in Functions(program)
      BY <2>0, <2>1 DEF CallTargets
    <3>3. \/ f \in Copied /\ t = CopyOf(f)
          \/ f \notin Copied /\ t \in {NullFunction, Original(f)}
      BY DEF VtableEntry
    <3>. HIDE DEF t
    <3>4. t \in {NullFunction} \cup UNION {{Original(g), CopyOf(g)} : g \in Functions(program)}
      BY <3>2, <3>3, TargetTyped
    <3>5. t.copy => t.fn \in Copied
      BY <3>3, TargetFields
    <3>6. t = NullFunction => f \notin Copied
      BY <3>3, TargetFields
    <3>. QED
      BY <2>1, <3>1, <3>4, <3>5, <3>6 DEF TargetOK
  <2>2. CASE ~ Indirect(program, x)
    <3>. DEFINE f == program.instr[x].callee
                t == Original(f)
    <3>1. d.calls[x][k] = t
      BY <1>2, <1>3, <2>2
    <3>2. f \in Functions(program) /\ f # ""
      BY <2>0, <2>2 DEF CallTargets
    <3>. HIDE DEF f
    <3>3. t \in {NullFunction} \cup UNION {{Original(g), CopyOf(g)} : g \in Functions(program)}
      BY <3>2, TargetTyped
    <3>4. t # NullFunction /\ t.fn = f /\ ~ t.copy
      <4>1. t.fn = f /\ t.copy = FALSE /\ NullFunction.fn = ""
        BY TargetFields
      <4>. HIDE DEF t
      <4>. QED
        BY <3>2, <4>1
    <3>. HIDE DEF t
    <3>. QED
      BY <2>2, <3>1, <3>3, <3>4 DEF TargetOK, f
  <2>. QED
    BY <2>1, <2>2
<1>6. ASSUME NEW x \in Instr(program)
      PROVE  /\ d.op[x] = program.instr[x].op
             /\ d.op[x] = "call" => x \in Calls(program)
  BY <1>2, <1>3 DEF Calls
<1>7. ASSUME NEW b \in DOMAIN program.block
      PROVE  /\ d.op[Terminator(program, b)] \in TerminatorOps
             /\ d.succ[b] \in Seq(BlocksOf(program, program.block[b].fn))
             /\ d.op[Terminator(program, b)] = "br" => Len(d.succ[b]) = 1
             /\ Len(d.succ[b]) # 0 => d.succ[b] # <<>>
             /\ d.op[Terminator(program, b)] \in {"condbr", "invoke"} => Len(d.succ[b]) = 2
  <2>1. BlockFormed(program, b)
    BY DEF SliceReady, WellFormed
  <2>2. Terminator(program, b) \in Instr(program) /\ program.instr[Terminator(program, b)].op \in TerminatorOps
    BY Formed DEF SliceReady
  <2>3. d.succ[b] = program.block[b].succ
    BY <1>2, <1>3
  <2>. QED
    BY <1>6, <2>1, <2>2, <2>3 DEF BlockFormed
<1>8. LiveBlocks(d, R)
  <2>1. ASSUME NEW f \in Copied PROVE program.function[f].entry \in R
    <3>1. program.function[f].entry \in BlocksOf(program, f)
      BY DEF SliceReady, WellFormed
    <3>. QED
      BY <3>1 DEF BlocksOf
  <2>2. ASSUME NEW b \in R PROVE LiveBlock(d, R, b)
    <3>1. BlocksOf(program, program.block[b].fn) = R \cap BlocksOf(program, program.block[b].fn)
      BY DEF BlocksOf
    <3>2. b \in DOMAIN program.block /\ program.block[b].fn \in Copied
      OBVIOUS
    <3>. HIDE DEF R
    <3>3. d.succ[b] \in Seq(R \cap BlocksOf(program, program.block[b].fn))
      BY <1>7, <3>1, <3>2
    <3>4. /\ d.op[Terminator(program, b)] \notin {"ret", "resume", "return"} => d.succ[b] # <<>>
          /\ d.op[Terminator(program, b)] \in {"condbr", "invoke"} => Len(d.succ[b]) = 2
      <4>1. /\ d.op[Terminator(program, b)] \in {"br", "condbr", "invoke", "ret", "resume"}
            /\ d.op[Terminator(program, b)] = "br" => Len(d.succ[b]) = 1
            /\ Len(d.succ[b]) # 0 => d.succ[b] # <<>>
            /\ d.op[Terminator(program, b)] \in {"condbr", "invoke"} => Len(d.succ[b]) = 2
        BY <1>7, <3>2 DEF TerminatorOps
      <4>. QED
        BY <4>1
    <3>. QED
      BY <3>2, <3>3, <3>4 DEF LiveBlock
  <2>. QED
    BY <2>1, <2>2 DEF LiveBlocks
<1>. HIDE DEF calls, R
<1>10. DOMAIN d.op = Instr(program) /\ DOMAIN d.succ = DOMAIN program.block
  BY <1>2, <1>3
<1>. QED
  BY <1>3, <1>4, <1>5, <1>6, <1>8, <1>10 DEF CodeOK

\* The calls of a copy are replaced.
LEMMA ReplaceOK ==
  ASSUME SliceReady, NEW f \in Copied, NEW A, CodeOK(code, A, {}), ReplaceInCopy(f)
  PROVE  CodeOK(code', A \cup {f}, {})
<1>. DEFINE body == InstrOf(program, f)
            calls == {x \in body : Exceptionless(program, can_except_in_precompute, slice, x)}
            renamed == {x \in body \cap Calls(program) :
                          Included(x) /\ ~ Indirect(program, x) /\ program.instr[x].callee \in Copied}
            checked == {x \in body \cap Calls(program) : Included(x) /\ NullChecked(program, slice, x)}
            d == [code EXCEPT
                    !.op = [x \in DOMAIN @ |-> IF x \in calls THEN "call" ELSE @[x]],
                    !.calls = [x \in DOMAIN @ |->
                      IF x \in renamed THEN [c \in DOMAIN @[x] |-> CopyOf(program.instr[x].callee)]
                      ELSE @[x]],
                    !.checked = @ \cup checked,
                    !.succ = [b \in DOMAIN @ |-> IF Terminator(program, b) \in calls
                                                 THEN <<Head(@[b])>> ELSE @[b]]]
<1>1. code' = MergeBlocks(d, BlocksOf(program, f))
  BY DEF ReplaceInCopy
<1>2. /\ DOMAIN code = CodeFields /\ DOMAIN code.op = Instr(program)
      /\ DOMAIN code.calls = Calls(program) /\ DOMAIN code.succ = DOMAIN program.block
      /\ \A x \in Calls(program) : DOMAIN code.calls[x] = DOMAIN program.vtable
      /\ TargetsOK(code)
      /\ \A x \in Instr(program) :
           /\ code.op[x] \in {"condbr", "invoke"} => program.instr[x].op = code.op[x]
           /\ code.op[x] = "call" => x \in Calls(program)
           /\ code.op[x] \in {program.instr[x].op, "call"}
           /\ FunctionOf(program, x) \in A => ReplacedOK(code, x)
      /\ \E R : LiveBlocks(code, R)
  BY DEF CodeOK
<1>3. /\ DOMAIN d = CodeFields
      /\ d.op = [x \in Instr(program) |-> IF x \in calls THEN "call" ELSE code.op[x]]
      /\ d.calls = [x \in Calls(program) |->
                      IF x \in renamed
                      THEN [c \in DOMAIN code.calls[x] |-> CopyOf(program.instr[x].callee)]
                      ELSE code.calls[x]]
      /\ d.checked = code.checked \cup checked
      /\ d.succ = [b \in DOMAIN program.block |-> IF Terminator(program, b) \in calls
                                                  THEN <<Head(code.succ[b])>> ELSE code.succ[b]]
  BY <1>2 DEF CodeFields
<1>. HIDE DEF d
<1>4. /\ calls \subseteq Invokes(program)
      /\ \A x \in renamed : ~ Indirect(program, x) /\ program.instr[x].callee \in Copied
  BY DEF Exceptionless
<1>5. /\ \A x \in Calls(program) : FunctionOf(program, x) = f /\ Included(x) =>
           /\ NullChecked(program, slice, x) => x \in checked
           /\ ~ Indirect(program, x) /\ program.instr[x].callee \in Copied => x \in renamed
  BY DEF InstrOf, Calls, Invokes
<1>. HIDE DEF calls, renamed, checked
<1>6. /\ \A x \in Calls(program) : DOMAIN d.calls[x] = DOMAIN program.vtable
      /\ \A x \in Calls(program), k \in DOMAIN program.vtable :
           IF x \in renamed THEN d.calls[x][k] = CopyOf(program.instr[x].callee)
           ELSE d.calls[x][k] = code.calls[x][k]
  BY <1>2, <1>3
<1>7. TargetsOK(d)
  <2>. SUFFICES ASSUME NEW x \in Calls(program), NEW k \in DOMAIN program.vtable
                PROVE  TargetOK(x, k, d.calls[x][k])
    BY DEF TargetsOK
  <2>1. CASE x \in renamed
    <3>. DEFINE callee == program.instr[x].callee
                t == CopyOf(callee)
    <3>1. d.calls[x][k] = t
      BY <1>6, <2>1
    <3>2. callee \in Copied /\ callee \in Functions(program) /\ ~ Indirect(program, x)
      BY <1>4, <2>1 DEF SliceReady, Own
    <3>. HIDE DEF callee
    <3>3. t \in {NullFunction} \cup UNION {{Original(g), CopyOf(g)} : g \in Functions(program)}
      BY <3>2, TargetTyped
    <3>4. t # NullFunction /\ t.fn = callee
      BY TargetFields
    <3>. HIDE DEF t
    <3>. QED
      BY <3>1, <3>2, <3>3, <3>4 DEF TargetOK, callee
  <2>2. CASE x \notin renamed
    BY <1>2, <1>6, <2>2 DEF TargetsOK
  <2>. QED
    BY <2>1, <2>2
<1>8. ASSUME NEW x \in Instr(program)
      PROVE  /\ d.op[x] \in {"condbr", "invoke"} => program.instr[x].op = d.op[x]
             /\ d.op[x] = "call" => x \in Calls(program)
             /\ d.op[x] \in {program.instr[x].op, "call"}
             /\ FunctionOf(program, x) \in A \cup {f} => ReplacedOK(d, x)
  <2>1. /\ d.op[x] \in {"condbr", "invoke"} => program.instr[x].op = d.op[x]
        /\ d.op[x] = "call" => x \in Calls(program)
        /\ d.op[x] \in {program.instr[x].op, "call"}
    BY <1>2, <1>3, <1>4 DEF Calls
  <2>2. ASSUME x \in Calls(program), Included(x), FunctionOf(program, x) \in A \cup {f}
        PROVE  /\ NullChecked(program, slice, x) => x \in d.checked
               /\ ~ Indirect(program, x) /\ program.instr[x].callee \in Copied =>
                    \A k \in DOMAIN program.vtable : d.calls[x][k].copy
    <3>1. \A k \in DOMAIN program.vtable : x \in renamed => d.calls[x][k].copy
      BY <1>6, <2>2, TargetFields
    <3>2. CASE FunctionOf(program, x) = f
      BY <1>3, <1>5, <2>2, <3>1, <3>2
    <3>3. CASE FunctionOf(program, x) \in A
      <4>1. ReplacedOK(code, x)
        BY <1>2, <3>3
      <4>2. x \notin renamed => \A k \in DOMAIN program.vtable : d.calls[x][k] = code.calls[x][k]
        BY <1>6, <2>2
      <4>. QED
        BY <1>3, <2>2, <3>1, <4>1, <4>2 DEF ReplacedOK
    <3>. QED
      BY <2>2, <3>2, <3>3
  <2>. QED
    BY <2>1, <2>2 DEF ReplacedOK
<1>9. ASSUME NEW b \in DOMAIN program.block
      PROVE  Terminator(program, b) \in Instr(program)
  BY Formed DEF SliceReady
<1>10. PICK R : LiveBlocks(code, R)
  BY <1>2
<1>11. ASSUME NEW b \in R PROVE LiveBlock(d, R, b)
  <2>. DEFINE t == Terminator(program, b)
              S == R \cap BlocksOf(program, program.block[b].fn)
  <2>1. LiveBlock(code, R, b)
    BY <1>10 DEF LiveBlocks
  <2>2. b \in DOMAIN program.block /\ code.succ[b] \in Seq(S) /\ t \in Instr(program)
    BY <1>9, <2>1 DEF LiveBlock
  <2>3. CASE t \in calls
    <3>1. program.instr[t].op = "invoke"
      BY <1>4, <2>3 DEF Invokes
    <3>2. d.op[t] = "call" /\ d.succ[b] = <<Head(code.succ[b])>>
      BY <1>3, <2>2, <2>3
    <3>3. code.op[t] \notin {"ret", "resume", "return"} => code.succ[b] # <<>>
      BY <2>1 DEF LiveBlock
    <3>4. code.op[t] \in {"invoke", "call"}
      BY <1>2, <2>2, <3>1
    <3>5. <<Head(code.succ[b])>> \in Seq(S)
      <4>. HIDE DEF S
      <4>1. code.succ[b] # <<>>
        BY <3>3, <3>4
      <4>. QED
        BY <2>2, <4>1
    <3>. QED
      BY <2>1, <3>2, <3>5 DEF LiveBlock
  <2>4. CASE t \notin calls
    BY <1>3, <2>1, <2>2, <2>4 DEF LiveBlock
  <2>. QED
    BY <2>3, <2>4
<1>12. LiveBlocks(d, R)
  BY <1>10, <1>11 DEF LiveBlocks
<1>13. CodeOK(d, A \cup {f}, {})
  BY <1>3, <1>6, <1>7, <1>8, <1>12 DEF CodeOK
<1>. QED
  BY <1>1, <1>3, <1>13, MergeKeeps, SameCode

\* Of a set of blocks R that is not left along succ, the reachable ones are not left either.
LEMMA ReachableCloses ==
  ASSUME NEW succ, IsFiniteSet(DOMAIN succ), NEW R \in SUBSET DOMAIN succ, NEW entry \in R,
         \A b \in R : Range(succ[b]) \subseteq R,
         NEW r, r = Reachable(succ, entry)
  PROVE  entry \in r /\ r \subseteq R /\ \A b \in r : Range(succ[b]) \subseteq r
<1>. DEFINE N == Cardinality(DOMAIN succ)
            next == [X \in SUBSET R |-> X \cup UNION {Range(succ[b]) : b \in X}]
            start == {entry}
            repeated(h) == [k \in 0 .. N |-> IF k = 0 THEN start
                                             ELSE h[k - 1] \cup UNION {Range(succ[b]) : b \in h[k - 1]}]
<1>1. N \in Nat /\ IsFiniteSet(R) /\ N >= Cardinality(R)
  BY FS_CardinalityType, FS_Subset
<1>2. next \in [SUBSET R -> SUBSET R] /\ \A X \in SUBSET R : X \subseteq next[X]
  <2>1. ASSUME NEW X \in SUBSET R
        PROVE  X \cup UNION {Range(succ[b]) : b \in X} \in SUBSET R
    OBVIOUS
  <2>. QED
    BY <2>1
<1>3. start \in SUBSET R
  OBVIOUS
<1>4. PICK g : g = repeated(g) /\ r = g[N]
  <2>1. PICK g \in [0 .. N -> SUBSET R] : Iterates(g, next, start, N)
    <3>. HIDE DEF next, start, N
    <3>. QED
      BY <1>1, <1>2, <1>3, IterationExists
  <2>2. g = repeated(g)
    <3>1. ASSUME NEW k \in 0 .. N PROVE g[k] = repeated(g)[k]
      <4>1. CASE k = 0
        BY <2>1, <4>1 DEF Iterates
      <4>2. CASE k # 0
        <5>1. k \in 1 .. N /\ k - 1 \in 0 .. N
          BY <1>1, <4>2
        <5>2. g[k] = next[g[k - 1]] /\ g[k - 1] \in SUBSET R
          BY <2>1, <5>1 DEF Iterates
        <5>. QED
          BY <4>2, <5>2
      <4>. QED
        BY <4>1, <4>2
    <3>. QED
      BY <2>1, <3>1
  <2>3. r = (CHOOSE a : a = repeated(a))[N]
    BY DEF Reachable
  <2>. HIDE DEF repeated
  <2>4. PICK h : h = (CHOOSE a : a = repeated(a))
    OBVIOUS
  <2>5. h = repeated(h)
    BY <2>2, <2>4
  <2>. QED
    BY <2>3, <2>4, <2>5
<1>5. /\ DOMAIN g = 0 .. N /\ g[0] = start
      /\ \A k \in 1 .. N : g[k] = g[k - 1] \cup UNION {Range(succ[b]) : b \in g[k - 1]}
  <2>1. DOMAIN g = DOMAIN repeated(g) /\ \A k \in 0 .. N : g[k] = repeated(g)[k]
    <3>. HIDE DEF repeated
    <3>. QED
      BY <1>4, Zenon
  <2>2. 0 \in 0 .. N /\ \A k \in 1 .. N : k \in 0 .. N /\ k # 0
    BY <1>1
  <2>. QED
    BY <2>1, <2>2
<1>6. Iterates(g, next, start, N) /\ \A k \in 0 .. N : g[k] \in SUBSET R
  <2>1. \A k \in 1 .. N : g[k - 1] \in SUBSET R => g[k] = next[g[k - 1]]
    BY <1>5
  <2>. DEFINE F == SUBSET R
  <2>2. next \in [F -> F] /\ start \in F /\ \A k \in 1 .. N : g[k - 1] \in F => g[k] = next[g[k - 1]]
    BY <1>2, <1>3, <2>1
  <2>. HIDE DEF next, start, N, F
  <2>3. Iterates(g, next, start, N) /\ \A k \in 0 .. N : g[k] \in F
    BY <1>1, <1>5, <2>2, Repeats
  <2>. QED
    BY <2>3 DEF F
<1>7. next[r] = r /\ start \subseteq r /\ r \in SUBSET R
  <2>. HIDE DEF next, start, N
  <2>1. Iterates(g, next, start, N) /\ r = g[N]
    BY <1>4, <1>6
  <2>2. next[g[N]] = g[N]
    BY <1>1, <1>2, <1>3, <2>1, IterationEnds
  <2>3. start \subseteq g[N] /\ g[N] \in SUBSET R
    BY <1>1, <1>2, <1>3, <2>1, IterationGrows
  <2>. QED
    BY <2>1, <2>2, <2>3
<1>8. r = r \cup UNION {Range(succ[b]) : b \in r}
  BY <1>7
<1>9. \A b \in r : Range(succ[b]) \subseteq r
  <2>. SUFFICES ASSUME NEW b \in r, NEW a \in Range(succ[b]) PROVE a \in r
    OBVIOUS
  <2>1. a \in UNION {Range(succ[x]) : x \in r}
    OBVIOUS
  <2>. QED
    BY <1>8, <2>1
<1>. QED
  BY <1>7, <1>9

\* What becomes of a terminator, and of what decides.
LEMMA PrunedOps ==
  ASSUME NEW x, NEW op, NEW new, new = PrunedOp(x, op)
  PROVE  /\ new \in {op, "return", "removed"}
         /\ new \in {"call", "invoke", "condbr"} => new = op /\ Included(x)
         /\ op \in {"ret", "resume"} => new \in {op, "return"}
         /\ Included(x) => new = op
         /\ op = "removed" => new = op
  BY DEF PrunedOp

\* A sequence over the smaller set.
LEMMA SeqInto ==
  ASSUME NEW S, NEW T, NEW s \in Seq(S), Range(s) \subseteq T
  PROVE  s \in Seq(T)
  BY DEF Range

\* A copy is pruned.
LEMMA PruneOK ==
  ASSUME SliceReady, NEW A, NEW P, NEW f \in Copied, f \notin P, CodeOK(code, A, P),
         PruneFunctionCopy(f)
  PROVE  CodeOK(code', A, P \cup {f})
<1>. DEFINE body == InstrOf(program, f)
            op == [x \in DOMAIN code.op |-> IF x \in body THEN PrunedOp(x, code.op[x]) ELSE code.op[x]]
            succ == [b \in DOMAIN code.succ |->
                       IF op[Terminator(program, b)] = "return" THEN <<>> ELSE code.succ[b]]
            entry == program.function[f].entry
            reachable == Reachable(succ, entry)
            d == [code EXCEPT
                   !.op = op,
                   !.succ = [b \in DOMAIN @ |->
                     IF b \in BlocksOf(program, f) \ reachable THEN <<>> ELSE succ[b]],
                   !.incoming = [b \in DOMAIN @ |->
                     IF b \in reachable
                     THEN SelectSeq(@[b], LAMBDA a : \E x \in reachable : code.merged[x] = a)
                     ELSE @[b]]]
            m == MergeBlocks(d, reachable)
<1>1. code' = [m EXCEPT !.incoming = [b \in DOMAIN @ |->
                 IF b \in reachable THEN PhiIncoming(m, b) ELSE @[b]]]
  BY DEF PruneFunctionCopy
<1>2. /\ DOMAIN code = CodeFields /\ DOMAIN code.op = Instr(program)
      /\ DOMAIN code.calls = Calls(program) /\ DOMAIN code.succ = DOMAIN program.block
      /\ \A x \in Calls(program) : DOMAIN code.calls[x] = DOMAIN program.vtable
      /\ TargetsOK(code)
      /\ \A x \in Instr(program) :
           /\ code.op[x] \in {"condbr", "invoke"} => program.instr[x].op = code.op[x]
           /\ code.op[x] = "call" => x \in Calls(program)
           /\ FunctionOf(program, x) \notin P => code.op[x] \in {program.instr[x].op, "call"}
           /\ FunctionOf(program, x) \in A => ReplacedOK(code, x)
           /\ FunctionOf(program, x) \in P /\ code.op[x] \in {"call", "invoke", "condbr"} => Included(x)
      /\ \E R : LiveBlocks(code, R)
  BY DEF CodeOK
<1>3. /\ DOMAIN d = CodeFields /\ d.op = op /\ d.calls = code.calls /\ d.checked = code.checked
      /\ d.succ = [b \in DOMAIN program.block |->
                     IF b \in BlocksOf(program, f) \ reachable THEN <<>> ELSE succ[b]]
  <2>. HIDE DEF op, succ, reachable
  <2>. QED
    BY <1>2 DEF CodeFields
<1>4. /\ DOMAIN code' = CodeFields /\ code'.op = d.op /\ code'.calls = d.calls
      /\ code'.checked = d.checked /\ code'.succ = d.succ
  <2>. HIDE DEF d, reachable
  <2>1. /\ DOMAIN m = CodeFields
        /\ m.op = d.op /\ m.calls = d.calls /\ m.checked = d.checked /\ m.succ = d.succ
    BY <1>3, MergeKeeps
  <2>. HIDE DEF m
  <2>. QED
    BY <1>1, <2>1 DEF CodeFields
<1>. HIDE DEF d, m
<1>5. ASSUME NEW x \in Instr(program)
      PROVE  op[x] = IF FunctionOf(program, x) = f THEN PrunedOp(x, code.op[x]) ELSE code.op[x]
  BY <1>2 DEF InstrOf
<1>6. /\ DOMAIN op = Instr(program) /\ DOMAIN succ = DOMAIN program.block
      /\ \A b \in DOMAIN program.block :
           succ[b] = IF op[Terminator(program, b)] = "return" THEN <<>> ELSE code.succ[b]
  BY <1>2
<1>. HIDE DEF op, succ
<1>7. PICK R : LiveBlocks(code, R)
  BY <1>2
<1>. DEFINE S == R \cap BlocksOf(program, f)
<1>8. entry \in S /\ S \in SUBSET DOMAIN succ /\ \A b \in S : succ[b] \in Seq(S)
  <2>1. entry \in S
    BY <1>7 DEF LiveBlocks, SliceReady, WellFormed
  <2>2. S \in SUBSET DOMAIN succ
    BY <1>6 DEF BlocksOf
  <2>3. ASSUME NEW b \in S PROVE succ[b] \in Seq(S)
    <3>1. b \in DOMAIN program.block /\ program.block[b].fn = f
      BY DEF BlocksOf
    <3>2. code.succ[b] \in Seq(S)
      BY <1>7, <3>1 DEF LiveBlocks, LiveBlock
    <3>. HIDE DEF S
    <3>3. <<>> \in Seq(S)
      OBVIOUS
    <3>. QED
      BY <1>6, <3>1, <3>2, <3>3
  <2>. QED
    BY <2>1, <2>2, <2>3
<1>9. entry \in reachable /\ reachable \subseteq S /\ \A b \in reachable : succ[b] \in Seq(reachable)
  <2>. HIDE DEF S, reachable
  <2>1. IsFiniteSet(DOMAIN succ)
    BY <1>6 DEF SliceReady, WellFormed
  <2>2. \A b \in S : Range(succ[b]) \subseteq S
    BY <1>8 DEF Range
  <2>3. entry \in reachable /\ reachable \subseteq S /\ \A b \in reachable : Range(succ[b]) \subseteq reachable
    BY <1>8, <2>1, <2>2, ReachableCloses DEF reachable
  <2>4. ASSUME NEW b \in reachable PROVE succ[b] \in Seq(reachable)
    BY <1>8, <2>3, SeqInto
  <2>. QED
    BY <2>3, <2>4
<1>. HIDE DEF reachable
<1>. DEFINE L == {b \in R : program.block[b].fn = f => b \in reachable}
<1>10. ASSUME NEW b \in L PROVE LiveBlock(d, L, b)
  <2>. DEFINE t == Terminator(program, b)
              g == program.block[b].fn
  <2>1. /\ b \in DOMAIN program.block /\ g \in Copied /\ code.succ[b] \in Seq(R \cap BlocksOf(program, g))
        /\ code.op[t] \notin {"ret", "resume", "return"} => code.succ[b] # <<>>
        /\ code.op[t] \in {"condbr", "invoke"} => Len(code.succ[b]) = 2
    BY <1>7 DEF LiveBlocks, LiveBlock
  <2>2. t \in Instr(program) /\ FunctionOf(program, t) = g /\ program.instr[t].op \in TerminatorOps
    BY <2>1, Formed DEF SliceReady
  <2>3. d.op[t] = op[t] /\ d.succ[b] = succ[b]
    BY <1>3, <2>1 DEF BlocksOf
  <2>4. CASE g = f
    <3>1. d.succ[b] \in Seq(reachable) /\ reachable = L \cap BlocksOf(program, g)
      BY <1>9, <2>1, <2>3, <2>4 DEF BlocksOf
    <3>2. d.op[t] = PrunedOp(t, code.op[t]) /\ code.op[t] \in {program.instr[t].op, "call"}
      BY <1>2, <1>5, <2>2, <2>3, <2>4
    <3>3. code.op[t] # "return"
      BY <2>2, <3>2 DEF TerminatorOps
    <3>4. d.op[t] # "return" => d.succ[b] = code.succ[b]
      BY <1>6, <2>1, <2>3
    <3>5. /\ d.op[t] \notin {"ret", "resume", "return"} => code.op[t] \notin {"ret", "resume", "return"}
          /\ d.op[t] \in {"condbr", "invoke"} => code.op[t] = d.op[t]
      BY <3>2, <3>3, PrunedOps
    <3>6. /\ d.op[t] \notin {"ret", "resume", "return"} => d.succ[b] # <<>>
          /\ d.op[t] \in {"condbr", "invoke"} => Len(d.succ[b]) = 2
      BY <2>1, <3>4, <3>5
    <3>. HIDE DEF L
    <3>. QED
      BY <2>1, <3>1, <3>6 DEF LiveBlock
  <2>5. CASE g # f
    <3>1. d.op[t] = code.op[t] /\ d.succ[b] = IF d.op[t] = "return" THEN <<>> ELSE code.succ[b]
      BY <1>5, <1>6, <2>1, <2>2, <2>3, <2>5
    <3>2. R \cap BlocksOf(program, g) = L \cap BlocksOf(program, g)
      BY <2>5 DEF BlocksOf
    <3>. HIDE DEF L
    <3>3. d.succ[b] \in Seq(L \cap BlocksOf(program, g))
      BY <2>1, <3>1, <3>2
    <3>. QED
      BY <2>1, <3>1, <3>3 DEF LiveBlock
  <2>. QED
    BY <2>4, <2>5
<1>11. LiveBlocks(d, L)
  <2>1. ASSUME NEW g \in Copied PROVE program.function[g].entry \in L
    <3>1. program.function[g].entry \in R
      BY <1>7 DEF LiveBlocks
    <3>2. program.function[g].entry \in BlocksOf(program, g)
      BY DEF SliceReady, WellFormed
    <3>. QED
      BY <1>9, <3>1, <3>2 DEF BlocksOf
  <2>. HIDE DEF L
  <2>. QED
    BY <1>10, <2>1 DEF LiveBlocks
<1>. HIDE DEF L
<1>12. ASSUME NEW x \in Instr(program)
       PROVE  /\ d.op[x] \in {"condbr", "invoke"} => program.instr[x].op = d.op[x]
              /\ d.op[x] = "call" => x \in Calls(program)
              /\ FunctionOf(program, x) \notin P \cup {f} => d.op[x] \in {program.instr[x].op, "call"}
              /\ FunctionOf(program, x) \in A => ReplacedOK(d, x)
              /\ FunctionOf(program, x) \in P \cup {f} /\ d.op[x] \in {"call", "invoke", "condbr"}
                   => Included(x)
  <2>1. FunctionOf(program, x) \in A => ReplacedOK(d, x)
    BY <1>2, <1>3 DEF ReplacedOK
  <2>2. CASE FunctionOf(program, x) = f
    <3>1. d.op[x] = PrunedOp(x, code.op[x])
      BY <1>3, <1>5, <2>2
    <3>. QED
      BY <1>2, <2>1, <2>2, <3>1, PrunedOps
  <2>3. CASE FunctionOf(program, x) # f
    BY <1>2, <1>3, <1>5, <2>1, <2>3
  <2>. QED
    BY <2>2, <2>3
<1>13. TargetsOK(d)
  BY <1>2, <1>3 DEF TargetsOK
<1>14. CodeOK(d, A, P \cup {f})
  BY <1>2, <1>3, <1>6, <1>11, <1>12, <1>13 DEF CodeOK
<1>. QED
  BY <1>4, <1>14, SameCode

-----------------------------------------------------------------------------
(* A run of the code.                                                       *)

\* What ends a call.
FinishingOps == {"ret", "resume", "return"}

\* Code that can be run in the blocks of R by calls of copies, or by calls that are none.
RunnableCode(c, R, copy) ==
  /\ \A b \in R :
       /\ b \in DOMAIN program.block /\ c.succ[b] \in Seq(R)
       /\ c.op[Terminator(program, b)] \notin FinishingOps => c.succ[b] # <<>>
       /\ c.op[Terminator(program, b)] \in {"condbr", "invoke"} => Len(c.succ[b]) = 2
  /\ \A x \in Instr(program) :
       /\ c.op[x] \in {"condbr", "invoke"} => program.instr[x].op = c.op[x]
       /\ c.op[x] = "call" => x \in Calls(program)
  /\ \A x \in Calls(program) : \A k \in DOMAIN program.vtable :
       c.calls[x][k].fn \in Own(program) /\ c.calls[x][k].copy = copy =>
         program.function[c.calls[x][k].fn].entry \in R

\* Where a call in progress can be.
Places(R) ==
  {e \in [block : R, index : Nat \ {0}] : e.index <= Len(program.block[e.block].code)}
\* The instruction at a place.
InstrAt(e) == program.block[e.block].code[e.index]

\* The calls in progress: each but the last one waits at a call.
StackOK(c, R, stack) ==
  /\ stack \in Seq(Places(R)) /\ stack # <<>>
  /\ \A k \in 1 .. Len(stack) - 1 : c.op[InstrAt(stack[k])] \in {"call", "invoke"}

\* A run has the fields of one; what a step does not change of it.
RunFields == {"stack", "status", "copy"}
IsRun(r) == DOMAIN r = RunFields
SameRun(q, r) == q.status = r.status /\ q.copy = r.copy

\* What a place is.
LEMMA PlaceFacts ==
  ASSUME SliceReady, NEW R \in SUBSET DOMAIN program.block, NEW e \in Places(R)
  PROVE  /\ e.block \in R /\ e.index \in Nat \ {0}
         /\ e.index \in DOMAIN program.block[e.block].code
         /\ InstrAt(e) \in Instr(program) /\ BlockOf(program, InstrAt(e)) = e.block
         /\ e.index = Len(program.block[e.block].code) <=> InstrAt(e) = Terminator(program, e.block)
         /\ program.instr[InstrAt(e)].op \in TerminatorOps <=> InstrAt(e) = Terminator(program, e.block)
         /\ e = [block |-> e.block, index |-> e.index]
<1>1. e.block \in R /\ e.index \in Nat \ {0} /\ e.index <= Len(program.block[e.block].code)
      /\ e = [block |-> e.block, index |-> e.index]
  BY DEF Places
<1>2. e.index \in DOMAIN program.block[e.block].code
  BY <1>1, Formed DEF SliceReady
<1>. QED
  BY <1>1, <1>2, Formed DEF SliceReady, InstrAt

\* The first instruction of a block is a place.
LEMMA EntryPlace ==
  ASSUME SliceReady, NEW R \in SUBSET DOMAIN program.block, NEW b \in R
  PROVE  At(b) \in Places(R) /\ At(b).block = b /\ At(b).index = 1
  BY Formed DEF SliceReady, Places, At

\* The instruction a run is at, and those its callers wait at.
LEMMA HereIs ==
  ASSUME NEW S, NEW s \in Seq(S), s # <<>>
  PROVE  /\ Here(s) = InstrAt(s[Len(s)]) /\ Last(s) = s[Len(s)]
         /\ \A k \in DOMAIN s : Here(SubSeq(s, 1, k)) = InstrAt(s[k])
<1>1. Last(s) = s[Len(s)]
  BY DEF Last
<1>2. ASSUME NEW k \in DOMAIN s PROVE Last(SubSeq(s, 1, k)) = s[k]
  BY DEF Last
<1>. QED
  BY <1>1, <1>2 DEF Here, InstrAt

\* Control goes to another block.
LEMMA GotoKeeps ==
  ASSUME SliceReady, NEW R \in SUBSET DOMAIN program.block, NEW c,
         NEW r, IsRun(r), StackOK(c, R, r.stack), NEW b \in R
  PROVE  /\ IsRun(Goto(r, b)) /\ SameRun(Goto(r, b), r)
         /\ StackOK(c, R, Goto(r, b).stack)
         /\ Goto(r, b).stack = Append(Front(r.stack), At(b))
<1>. DEFINE s == Append(Front(r.stack), At(b))
<1>1. Goto(r, b) = [r EXCEPT !.stack = s]
  BY DEF Goto
<1>2. StackOK(c, R, s)
  <2>1. r.stack \in Seq(Places(R)) /\ r.stack # <<>> /\ At(b) \in Places(R)
    BY EntryPlace DEF StackOK
  <2>2. /\ Front(r.stack) \in Seq(Places(R)) /\ Len(r.stack) \in Nat \ {0}
        /\ DOMAIN Front(r.stack) = 1 .. Len(r.stack) - 1
        /\ \A k \in 1 .. Len(r.stack) - 1 : Front(r.stack)[k] = r.stack[k]
    BY <2>1, Popped
  <2>3. Len(Front(r.stack)) = Len(r.stack) - 1
    BY <2>2
  <2>4. /\ s \in Seq(Places(R)) /\ s # <<>> /\ Len(s) = Len(r.stack)
        /\ \A k \in 1 .. Len(r.stack) - 1 : s[k] = r.stack[k]
    BY <2>1, <2>2, <2>3, Pushed
  <2>. QED
    BY <2>4 DEF StackOK
<1>. HIDE DEF s
<1>. QED
  BY <1>1, <1>2 DEF RunFields, s, IsRun, SameRun

\* A call in progress goes on behind its instruction.
LEMMA ContinueKeeps ==
  ASSUME SliceReady, NEW R \in SUBSET DOMAIN program.block, NEW c, NEW copy, RunnableCode(c, R, copy),
         NEW r, IsRun(r), StackOK(c, R, r.stack),
         c.op[Here(r.stack)] \notin FinishingOps
  PROVE  /\ IsRun(Continue(c, r)) /\ SameRun(Continue(c, r), r)
         /\ StackOK(c, R, Continue(c, r).stack)
<1>. DEFINE s == r.stack
            n == Len(s)
            b == s[n].block
<1>1. /\ s \in Seq(Places(R)) /\ s # <<>> /\ n \in Nat \ {0} /\ s[n] \in Places(R)
      /\ Here(s) = InstrAt(s[n]) /\ Last(s) = s[n]
  BY HereIs, Popped DEF StackOK
<1>2. /\ b \in R /\ s[n].index \in Nat \ {0} /\ s[n].index \in DOMAIN program.block[b].code
      /\ s[n].index = Len(program.block[b].code) <=> InstrAt(s[n]) = Terminator(program, b)
  BY <1>1, PlaceFacts
<1>3. CASE Here(s) = Terminator(program, b)
  <2>. DEFINE next == c.succ[b][1]
  <2>1. Continue(c, r) = Goto(r, next)
    BY <1>1, <1>3 DEF Continue
  <2>2. c.succ[b] \in Seq(R) /\ c.succ[b] # <<>>
    BY <1>2, <1>3 DEF RunnableCode
  <2>3. next \in R
    BY <2>2
  <2>. HIDE DEF next
  <2>. QED
    BY <2>1, <2>3, GotoKeeps
<1>4. CASE Here(s) # Terminator(program, b)
  <2>. DEFINE e == [s[n] EXCEPT !.index = @ + 1]
              t == [s EXCEPT ![n] = e]
  <2>1. Continue(c, r) = [r EXCEPT !.stack = t]
    BY <1>1, <1>4 DEF Continue, RunFields, IsRun
  <2>2. e \in Places(R)
    <3>1. s[n].index + 1 <= Len(program.block[b].code)
      BY <1>1, <1>2, <1>4, Formed DEF SliceReady
    <3>. QED
      BY <1>1, <1>2, <3>1 DEF Places
  <2>. HIDE DEF e
  <2>3. t \in Seq(Places(R)) /\ t # <<>> /\ Len(t) = n /\ \A k \in 1 .. n - 1 : t[k] = s[k]
    BY <1>1, <2>2
  <2>4. StackOK(c, R, t)
    BY <2>3 DEF StackOK
  <2>. HIDE DEF t
  <2>. QED
    BY <2>1, <2>4 DEF RunFields, IsRun, SameRun
<1>. QED
  BY <1>3, <1>4

\* A call is finished.
LEMMA ReturnKeeps ==
  ASSUME SliceReady, NEW R \in SUBSET DOMAIN program.block, NEW c, NEW copy, RunnableCode(c, R, copy),
         NEW r, IsRun(r), StackOK(c, R, r.stack)
  PROVE  /\ IsRun(Return(c, r)) /\ Return(c, r).copy = r.copy
         /\ \/ StackOK(c, R, Return(c, r).stack) /\ SameRun(Return(c, r), r)
            \/ Return(c, r).stack = <<>> /\ Return(c, r).status = "finished"
<1>. DEFINE s == r.stack
            n == Len(s)
            popped == [r EXCEPT !.stack = Front(@)]
<1>1. /\ s \in Seq(Places(R)) /\ s # <<>> /\ n \in Nat \ {0}
      /\ Front(s) \in Seq(Places(R)) /\ DOMAIN Front(s) = 1 .. n - 1
      /\ \A k \in 1 .. n - 1 : Front(s)[k] = s[k]
  BY Popped DEF StackOK
<1>2. IsRun(popped) /\ popped.stack = Front(s) /\ SameRun(popped, r)
  BY DEF RunFields, IsRun, SameRun
<1>3. Return(c, r) = IF popped.stack = <<>> THEN [popped EXCEPT !.status = "finished"]
                     ELSE Continue(c, popped)
  BY DEF Return
<1>. HIDE DEF popped
<1>4. CASE popped.stack = <<>>
  BY <1>2, <1>3, <1>4 DEF RunFields, IsRun, SameRun
<1>5. CASE popped.stack # <<>>
  <2>1. StackOK(c, R, popped.stack)
    <3>1. Len(Front(s)) = n - 1
      BY <1>1
    <3>. QED
      BY <1>1, <1>2, <1>5, <3>1 DEF StackOK
  <2>2. c.op[Here(popped.stack)] \in {"call", "invoke"}
    <3>1. Len(Front(s)) = n - 1 /\ n - 1 \in 1 .. n - 1
      BY <1>1, <1>2, <1>5
    <3>2. Here(Front(s)) = InstrAt(Front(s)[Len(Front(s))])
      BY <1>1, <1>2, <1>5, HereIs
    <3>. QED
      BY <1>1, <1>2, <3>1, <3>2 DEF StackOK
  <2>3. c.op[Here(popped.stack)] \notin FinishingOps
    BY <2>2 DEF FinishingOps
  <2>4. Return(c, r) = Continue(c, popped)
    BY <1>3, <1>5
  <2>5. /\ IsRun(Continue(c, popped)) /\ SameRun(Continue(c, popped), popped)
        /\ StackOK(c, R, Continue(c, popped).stack)
    BY <1>2, <2>1, <2>3, ContinueKeeps
  <2>. QED
    BY <1>2, <2>4, <2>5 DEF SameRun
<1>. QED
  BY <1>4, <1>5

\* The first calls in progress.
LEMMA Prefix ==
  ASSUME NEW S, NEW s \in Seq(S), NEW k \in 1 .. Len(s)
  PROVE  /\ SubSeq(s, 1, k) \in Seq(S) /\ SubSeq(s, 1, k) # <<>>
         /\ Len(SubSeq(s, 1, k)) = k /\ \A j \in 1 .. k : SubSeq(s, 1, k)[j] = s[j]
  OBVIOUS

\* An exception is caught by the last invoke, or by none.
LEMMA UnwoundKeeps ==
  ASSUME SliceReady, NEW R \in SUBSET DOMAIN program.block, NEW c, NEW copy, RunnableCode(c, R, copy),
         NEW r, IsRun(r), r.stack \in Seq(Places(R)),
         \A k \in 1 .. Len(r.stack) - 1 : c.op[InstrAt(r.stack[k])] \in {"call", "invoke"}
  PROVE  /\ IsRun(Unwound(c, r)) /\ Unwound(c, r).copy = r.copy
         /\ \/ StackOK(c, R, Unwound(c, r).stack) /\ Unwound(c, r).status = r.status
            \/ Unwound(c, r).stack = <<>> /\ Unwound(c, r).status = "aborted"
<1>. DEFINE s == r.stack
            catching == {k \in DOMAIN s : c.op[Here(SubSeq(s, 1, k))] = "invoke"}
            k == Max(catching)
            u == [r EXCEPT !.stack = SubSeq(@, 1, k)]
            next == c.succ[s[k].block][2]
<1>1. Unwound(c, r) = IF catching = {} THEN [r EXCEPT !.stack = <<>>, !.status = "aborted"]
                      ELSE Goto(u, next)
  BY DEF Unwound
<1>2. CASE catching = {}
  <2>. HIDE DEF catching
  <2>. QED
    BY <1>1, <1>2 DEF IsRun, RunFields
<1>3. CASE catching # {}
  <2>1. k \in catching
    <3>1. Len(s) \in Nat /\ catching \in SUBSET (1 .. Len(s))
      OBVIOUS
    <3>. HIDE DEF catching
    <3>2. \E m \in catching : \A j \in catching : m >= j
      BY <1>3, <3>1, GreatestExists
    <3>. QED
      BY <3>2 DEF Max
  <2>. HIDE DEF k
  <2>2. k \in 1 .. Len(s) /\ s # <<>> /\ s[k] \in Places(R)
    BY <2>1
  <2>3. c.op[InstrAt(s[k])] = "invoke"
    BY <2>1, <2>2, HereIs
  <2>4. program.instr[InstrAt(s[k])].op = "invoke" /\ s[k].block \in R
    BY <2>2, <2>3, PlaceFacts DEF RunnableCode
  <2>5. InstrAt(s[k]) = Terminator(program, s[k].block)
    BY <2>2, <2>4, PlaceFacts DEF TerminatorOps
  <2>6. next \in R
    <3>1. c.succ[s[k].block] \in Seq(R) /\ Len(c.succ[s[k].block]) = 2
      BY <2>3, <2>4, <2>5 DEF RunnableCode
    <3>. QED
      BY <3>1
  <2>7. IsRun(u) /\ SameRun(u, r) /\ u.stack = SubSeq(s, 1, k)
    BY DEF IsRun, RunFields, SameRun
  <2>8. StackOK(c, R, u.stack)
    <3>1. /\ SubSeq(s, 1, k) \in Seq(Places(R)) /\ SubSeq(s, 1, k) # <<>>
          /\ Len(SubSeq(s, 1, k)) = k /\ \A j \in 1 .. k : SubSeq(s, 1, k)[j] = s[j]
      <4>. DEFINE S == Places(R)
      <4>1. s \in Seq(S)
        OBVIOUS
      <4>. HIDE DEF s, S
      <4>2. /\ SubSeq(s, 1, k) \in Seq(S) /\ SubSeq(s, 1, k) # <<>>
            /\ Len(SubSeq(s, 1, k)) = k /\ \A j \in 1 .. k : SubSeq(s, 1, k)[j] = s[j]
        BY <2>2, <4>1, Prefix
      <4>. QED
        BY <4>2 DEF S
    <3>. QED
      BY <2>2, <2>7, <3>1 DEF StackOK
  <2>. HIDE DEF u, next, catching
  <2>9. /\ IsRun(Goto(u, next)) /\ SameRun(Goto(u, next), u)
        /\ StackOK(c, R, Goto(u, next).stack)
    BY <2>6, <2>7, <2>8, GotoKeeps
  <2>10. Unwound(c, r) = Goto(u, next)
    BY <1>1, <1>3
  <2>. QED
    BY <2>7, <2>9, <2>10 DEF SameRun
<1>. QED
  BY <1>2, <1>3

\* How a step of a run can end.
StepOK(c, R, r, q) ==
  /\ IsRun(q) /\ q.copy = r.copy
  /\ \/ StackOK(c, R, q.stack) /\ q.status = r.status
     \/ q.stack = <<>> /\ q.status \in {"finished", "aborted"}
     \/ /\ q.status = "null called"
        /\ \E x \in Calls(program) \ c.checked : \E k \in DOMAIN program.vtable :
             /\ BlockOf(program, x) \in R /\ c.op[x] \in {"call", "invoke"}
             /\ c.calls[x][k] = NullFunction
     \/ /\ q.status = "escaped"
        /\ \E x \in Calls(program) : \E k \in DOMAIN program.vtable :
             /\ BlockOf(program, x) \in R /\ c.op[x] \in {"call", "invoke"}
             /\ c.calls[x][k].fn \in Own(program) /\ c.calls[x][k].copy # r.copy

\* A call: the function is entered, the call is passed over, or it throws.
LEMMA CallKeeps ==
  ASSUME SliceReady, NEW R \in SUBSET DOMAIN program.block, NEW c,
         NEW copy, RunnableCode(c, R, copy),
         NEW r, IsRun(r), StackOK(c, R, r.stack), r.copy = copy,
         NEW x, x = Here(r.stack), x \in Calls(program), c.op[x] \in {"call", "invoke"},
         NEW choice \in Outcomes
  PROVE  StepOK(c, R, r, Call(c, r, x, choice))
<1>. DEFINE k == choice.class
            target == c.calls[x][k]
            own == target.fn \in Own(program)
            q == Call(c, r, x, choice)
            s == r.stack
<1>1. k \in DOMAIN program.vtable
  BY DEF Outcomes
<1>. HIDE DEF k
<1>2. c.op[Here(s)] \notin FinishingOps
  BY DEF FinishingOps
<1>3. /\ s \in Seq(Places(R)) /\ s # <<>>
      /\ \A j \in 1 .. Len(s) - 1 : c.op[InstrAt(s[j])] \in {"call", "invoke"}
  BY DEF StackOK
<1>0. BlockOf(program, x) \in R
  <2>1. x = InstrAt(s[Len(s)]) /\ s[Len(s)] \in Places(R)
    BY <1>3, HereIs, Popped
  <2>. QED
    BY <2>1, PlaceFacts
<1>4. StepOK(c, R, r, Continue(c, r))
  <2>1. /\ IsRun(Continue(c, r)) /\ SameRun(Continue(c, r), r)
        /\ StackOK(c, R, Continue(c, r).stack)
    BY <1>2, ContinueKeeps
  <2>. QED
    BY <2>1 DEF StepOK, SameRun
<1>5. StepOK(c, R, r, Unwound(c, r))
  <2>1. /\ IsRun(Unwound(c, r)) /\ Unwound(c, r).copy = r.copy
        /\ \/ StackOK(c, R, Unwound(c, r).stack) /\ Unwound(c, r).status = r.status
           \/ Unwound(c, r).stack = <<>> /\ Unwound(c, r).status = "aborted"
    BY <1>3, UnwoundKeeps
  <2>. QED
    BY <2>1 DEF StepOK
<1>6. CASE target = NullFunction
  <2>1. q = IF x \in c.checked THEN Continue(c, r) ELSE [r EXCEPT !.status = "null called"]
    <3>1. ~ own
      BY <1>6, TargetFields DEF SliceReady, WellFormed, Own
    <3>. QED
      BY <1>6, <3>1 DEF Call, k
  <2>2. CASE x \in c.checked
    BY <1>4, <2>1, <2>2
  <2>3. CASE x \notin c.checked
    <3>1. q = [r EXCEPT !.status = "null called"]
      BY <2>1, <2>3
    <3>2. IsRun(q) /\ q.copy = r.copy /\ q.status = "null called"
      BY <3>1 DEF IsRun, RunFields
    <3>. QED
      BY <1>0, <1>1, <1>6, <2>3, <3>2 DEF StepOK
  <2>. QED
    BY <2>2, <2>3
<1>7. CASE target # NullFunction /\ own /\ target.copy # r.copy
  <2>1. q = [r EXCEPT !.status = "escaped"]
    BY <1>7 DEF Call, k
  <2>2. IsRun(q) /\ q.copy = r.copy /\ q.status = "escaped"
    BY <2>1 DEF IsRun, RunFields
  <2>. QED
    BY <1>0, <1>1, <1>7, <2>2 DEF StepOK
<1>8. CASE target # NullFunction /\ own /\ target.copy = r.copy
  <2>. DEFINE e == Entry(target.fn)
              t == Append(s, e)
  <2>1. q = [r EXCEPT !.stack = t]
    BY <1>8 DEF Call, k
  <2>2. program.function[target.fn].entry \in R
    BY <1>1, <1>8 DEF RunnableCode
  <2>3. e \in Places(R)
    BY <2>2, EntryPlace DEF Entry
  <2>. HIDE DEF e
  <2>4. t \in Seq(Places(R)) /\ t # <<>> /\ Len(t) = Len(s) + 1 /\ \A j \in 1 .. Len(s) : t[j] = s[j]
    BY <1>3, <2>3, Pushed
  <2>5. Len(s) \in Nat \ {0} /\ c.op[InstrAt(s[Len(s)])] \in {"call", "invoke"}
    BY <1>3, HereIs
  <2>6. StackOK(c, R, t)
    <3>1. ASSUME NEW j \in 1 .. Len(t) - 1 PROVE c.op[InstrAt(t[j])] \in {"call", "invoke"}
      <4>1. j \in 1 .. Len(s) /\ t[j] = s[j]
        BY <2>4, <2>5
      <4>2. j = Len(s) \/ j \in 1 .. Len(s) - 1
        BY <2>5, <4>1
      <4>. QED
        BY <1>3, <2>5, <4>1, <4>2
    <3>. QED
      BY <2>4, <3>1 DEF StackOK
  <2>. HIDE DEF t
  <2>7. IsRun(q) /\ q.copy = r.copy /\ q.status = r.status /\ q.stack = t
    BY <2>1 DEF IsRun, RunFields
  <2>. QED
    BY <2>6, <2>7 DEF StepOK
<1>9. CASE target # NullFunction /\ ~ own
  <2>1. q = IF program.function[target.fn].kind = "throws" /\ choice.throws
            THEN Unwound(c, r) ELSE Continue(c, r)
    BY <1>9 DEF Call, k
  <2>. QED
    BY <1>4, <1>5, <2>1
<1>. QED
  BY <1>6, <1>7, <1>8, <1>9

\* A step of a run keeps its calls in order.
LEMMA ExecuteKeeps ==
  ASSUME SliceReady, NEW R \in SUBSET DOMAIN program.block, NEW c,
         NEW copy, RunnableCode(c, R, copy),
         NEW r, IsRun(r), StackOK(c, R, r.stack), r.copy = copy, NEW choice,
         c.op[Here(r.stack)] \in {"call", "invoke", "condbr"} => choice \in Outcomes
  PROVE  StepOK(c, R, r, Execute(c, r, choice))
<1>. DEFINE s == r.stack
            x == Here(s)
            e == Last(s)
            b == e.block
            q == Execute(c, r, choice)
<1>1. /\ s \in Seq(Places(R)) /\ s # <<>> /\ Len(s) \in Nat \ {0} /\ e = s[Len(s)] /\ x = InstrAt(e)
      /\ e \in Places(R)
  BY HereIs, Popped DEF StackOK
<1>2. /\ b \in R /\ x \in Instr(program)
      /\ program.instr[x].op \in TerminatorOps <=> x = Terminator(program, b)
      /\ c.op[x] \in {"condbr", "invoke"} => program.instr[x].op = c.op[x]
      /\ c.op[x] = "call" => x \in Calls(program)
  BY <1>1, PlaceFacts DEF RunnableCode
<1>. HIDE DEF b, x
<1>3. CASE c.op[x] = "condbr"
  <2>. DEFINE next == c.succ[b][choice.branch]
  <2>1. q = Goto(r, next)
    BY <1>3 DEF Execute, b, x
  <2>2. x = Terminator(program, b)
    BY <1>2, <1>3 DEF TerminatorOps
  <2>3. c.succ[b] \in Seq(R) /\ Len(c.succ[b]) = 2
    BY <1>2, <1>3, <2>2 DEF RunnableCode
  <2>4. choice.branch \in 1 .. 2
    BY <1>3 DEF Outcomes, x
  <2>5. next \in R
    BY <2>3, <2>4
  <2>. HIDE DEF next
  <2>6. /\ IsRun(Goto(r, next)) /\ SameRun(Goto(r, next), r)
        /\ StackOK(c, R, Goto(r, next).stack)
    BY <2>5, GotoKeeps
  <2>. QED
    BY <2>1, <2>6 DEF StepOK, SameRun
<1>4. CASE c.op[x] \in {"call", "invoke"}
  <2>1. q = Call(c, r, x, choice)
    BY <1>4 DEF Execute, x
  <2>2. x \in Calls(program)
    BY <1>2, <1>4 DEF Calls, Invokes
  <2>3. choice \in Outcomes /\ x = Here(r.stack)
    BY <1>4 DEF x
  <2>. HIDE DEF q
  <2>4. StepOK(c, R, r, Call(c, r, x, choice))
    BY <1>4, <2>2, <2>3, CallKeeps
  <2>. QED
    BY <2>1, <2>4 DEF q
<1>5. CASE c.op[x] \in {"ret", "return"}
  <2>1. q = Return(c, r)
    BY <1>5 DEF Execute, x
  <2>2. /\ IsRun(Return(c, r)) /\ Return(c, r).copy = r.copy
        /\ \/ StackOK(c, R, Return(c, r).stack) /\ SameRun(Return(c, r), r)
           \/ Return(c, r).stack = <<>> /\ Return(c, r).status = "finished"
    BY ReturnKeeps
  <2>. QED
    BY <2>1, <2>2 DEF StepOK, SameRun
<1>6. CASE c.op[x] = "resume"
  <2>. DEFINE u == [r EXCEPT !.stack = Front(@)]
  <2>1. q = Unwound(c, u)
    BY <1>6 DEF Execute, x
  <2>2. IsRun(u) /\ u.stack = Front(s) /\ u.copy = r.copy /\ u.status = r.status
    BY DEF IsRun, RunFields
  <2>3. /\ Front(s) \in Seq(Places(R)) /\ Len(Front(s)) = Len(s) - 1
        /\ \A k \in 1 .. Len(Front(s)) - 1 : Front(s)[k] = s[k] /\ k \in 1 .. Len(s) - 1
    BY <1>1, Popped
  <2>4. \A k \in 1 .. Len(u.stack) - 1 : c.op[InstrAt(u.stack[k])] \in {"call", "invoke"}
    BY <2>2, <2>3 DEF StackOK
  <2>. HIDE DEF u, q
  <2>0. u.stack \in Seq(Places(R))
    BY <2>2, <2>3
  <2>5. /\ IsRun(Unwound(c, u)) /\ Unwound(c, u).copy = u.copy
        /\ \/ StackOK(c, R, Unwound(c, u).stack) /\ Unwound(c, u).status = u.status
           \/ Unwound(c, u).stack = <<>> /\ Unwound(c, u).status = "aborted"
    BY <2>0, <2>2, <2>4, UnwoundKeeps
  <2>. QED
    BY <2>1, <2>2, <2>5 DEF StepOK, q
<1>7. CASE c.op[x] \notin {"condbr", "call", "invoke", "ret", "return", "resume"}
  <2>1. q = Continue(c, r)
    BY <1>7 DEF Execute, x
  <2>2. c.op[Here(r.stack)] \notin FinishingOps
    BY <1>7 DEF FinishingOps, x
  <2>3. /\ IsRun(Continue(c, r)) /\ SameRun(Continue(c, r), r)
        /\ StackOK(c, R, Continue(c, r).stack)
    BY <2>2, ContinueKeeps
  <2>. QED
    BY <2>1, <2>3 DEF StepOK, SameRun
<1>. QED
  BY <1>3, <1>4, <1>5, <1>6, <1>7

-----------------------------------------------------------------------------
(* The code is sound in each phase, and the slice runs in it.               *)

\* The copies that have their calls replaced, and those that are pruned.
ReplacedCopies == IF insertion = "replace" THEN Copied \ remaining ELSE Copied
PrunedCopies ==
  CASE insertion = "replace" -> {}
    [] insertion = "prune" -> Copied \ remaining
    [] OTHER -> Copied

\* The copies, in each phase of the insertion.
CodeInv ==
  /\ insertion \in {"analysis", "replace", "prune", "inserted", "running"}
  /\ insertion # "analysis" =>
       remaining \subseteq Copied /\ CodeOK(code, ReplacedCopies, PrunedCopies)

\* The slice that is copied is one the code can be made of.
LEMMA ReadySlice ==
  ASSUME SliceInv
  PROVE  SliceReady
  BY WellFormedAssumption DEF SliceInv, AnalysisSound, SliceSound, SliceType, SliceReady, Copied

\* When functions are copied the analysis has nothing left to do.
LEMMA SliceStays ==
  ASSUME SliceInv, insertion # "analysis", [Next]_vars
  PROVE  /\ ~ ExceptNext /\ ~ Analysis
         /\ UNCHANGED <<program, slice, can_except_in_precompute>>
<1>1. FunctionsAnalyzed /\ AnalysisDone
  BY DEF SliceInv, AnalysisDone
<1>2. ~ ExceptNext
  BY <1>1, ExceptDone
<1>3. ~ Analysis
  BY <1>1 DEF Analysis, Request, Visit, AnalysisDone
<1>. QED
  BY <1>2, <1>3 DEF Next, Insertion, Start, SliceStep, OriginalStep, vars, exceptVars

\* The code is sound in each phase of the insertion.
THEOREM CodeInvariant == Spec => []CodeInv
<1>1. Init => CodeInv
  BY DEF Init, CodeInv
<1>2. SliceInv /\ CodeInv /\ [Next]_vars => CodeInv'
  <2>. SUFFICES ASSUME SliceInv, CodeInv, [Next]_vars PROVE CodeInv'
    OBVIOUS
  <2>0. SliceReady
    BY ReadySlice
  <2>1. CASE UNCHANGED <<insertion, remaining, code>>
    <3>1. CASE insertion = "analysis"
      BY <2>1, <3>1 DEF CodeInv
    <3>2. CASE insertion # "analysis"
      <4>1. UNCHANGED <<program, slice>>
        BY <3>2, SliceStays
      <4>. QED
        BY <2>1, <4>1 DEF CodeInv, CodeOK, ReplacedCopies, PrunedCopies, TargetsOK, TargetOK, ReplacedOK,
           LiveBlocks, LiveBlock, Copied, Included, NullChecked, RetvalNeeded
    <3>. QED
      BY <3>1, <3>2
  <2>. DEFINE OK(i, m, c) ==
         /\ i \in {"replace", "prune", "inserted", "running"} /\ m \subseteq Copied
         /\ CodeOK(c, IF i = "replace" THEN Copied \ m ELSE Copied,
                      CASE i = "replace" -> {} [] i = "prune" -> Copied \ m [] OTHER -> Copied)
  <2>2. ASSUME UNCHANGED <<program, slice>>, OK(insertion', remaining', code')
        PROVE  CodeInv'
    <3>. DEFINE A == IF insertion' = "replace" THEN Copied \ remaining' ELSE Copied
                P == CASE insertion' = "replace" -> {}
                       [] insertion' = "prune" -> Copied \ remaining'
                       [] OTHER -> Copied
    <3>1. Copied' = Copied /\ ReplacedCopies' = A /\ PrunedCopies' = P
      BY <2>2 DEF Copied, ReplacedCopies, PrunedCopies
    <3>2. \A x : ReplacedOK(code, x)' <=> ReplacedOK(code', x)
      BY <2>2 DEF ReplacedOK, Included, NullChecked, RetvalNeeded, Copied
    <3>3. TargetsOK(code)' <=> TargetsOK(code')
      BY <2>2 DEF TargetsOK, TargetOK, Copied
    <3>4. \A R : LiveBlocks(code, R)' <=> LiveBlocks(code', R)
      BY <2>2 DEF LiveBlocks, LiveBlock, Copied
    <3>5. CodeOK(code', A, P)
      BY <2>2
    <3>. HIDE DEF A, P
    <3>6. CodeOK(code, ReplacedCopies, PrunedCopies)'
      BY <2>2, <3>1, <3>2, <3>3, <3>4, <3>5 DEF CodeOK, Included
    <3>. QED
      BY <2>2, <3>1, <3>6 DEF CodeInv
  <2>3. insertion # "analysis" => OK(insertion, remaining, code)
    BY DEF CodeInv, ReplacedCopies, PrunedCopies
  <2>4. CASE CopyFunctions /\ UNCHANGED <<exceptVars, slice, runVars>>
    <3>1. CodeOK(code', {}, {})
      BY <2>0, <2>4, CopyOK
    <3>2. insertion' = "replace" /\ remaining' = Copied
      BY <2>4 DEF CopyFunctions
    <3>3. Copied \ Copied = {}
      OBVIOUS
    <3>4. OK(insertion', remaining', code')
      BY <3>1, <3>2, <3>3
    <3>. HIDE DEF OK
    <3>. QED
      BY <2>2, <2>4, <3>4 DEF exceptVars
  <2>5. CASE ReplaceCalls /\ UNCHANGED <<exceptVars, slice, runVars>>
    <3>1. PICK f \in remaining : ReplaceInCopy(f) /\ remaining' = remaining \ {f}
      BY <2>5 DEF ReplaceCalls
    <3>2. /\ insertion = "replace" /\ insertion' = "replace" /\ f \in Copied
          /\ remaining \subseteq Copied /\ CodeOK(code, Copied \ remaining, {})
      BY <2>3, <2>5 DEF ReplaceCalls
    <3>3. CodeOK(code', (Copied \ remaining) \cup {f}, {})
      BY <2>0, <3>1, <3>2, ReplaceOK
    <3>4. (Copied \ remaining) \cup {f} = Copied \ remaining' /\ remaining' \subseteq Copied
      BY <3>1, <3>2
    <3>5. OK(insertion', remaining', code')
      BY <3>2, <3>3, <3>4
    <3>. HIDE DEF OK
    <3>. QED
      BY <2>2, <2>5, <3>5 DEF exceptVars
  <2>6. CASE Prune /\ UNCHANGED <<exceptVars, slice, runVars>>
    <3>1. PICK f \in remaining : PruneFunctionCopy(f) /\ remaining' = remaining \ {f}
      BY <2>6 DEF Prune
    <3>2. /\ insertion = "prune" /\ insertion' = "prune" /\ f \in Copied
          /\ remaining \subseteq Copied /\ CodeOK(code, Copied, Copied \ remaining)
      BY <2>3, <2>6 DEF Prune
    <3>3. CodeOK(code', Copied, (Copied \ remaining) \cup {f})
      BY <2>0, <3>1, <3>2, PruneOK
    <3>4. (Copied \ remaining) \cup {f} = Copied \ remaining' /\ remaining' \subseteq Copied
      BY <3>1, <3>2
    <3>5. OK(insertion', remaining', code')
      BY <3>2, <3>3, <3>4
    <3>. HIDE DEF OK
    <3>. QED
      BY <2>2, <2>6, <3>5 DEF exceptVars
  <2>7. CASE NextLoop /\ UNCHANGED <<exceptVars, slice, runVars>>
    <3>1. /\ insertion \in {"replace", "prune"} /\ remaining = {} /\ code' = code
          /\ IF insertion = "replace" THEN insertion' = "prune" /\ remaining' = Copied
             ELSE insertion' = "inserted" /\ remaining' = {}
      BY <2>7 DEF NextLoop
    <3>2. OK(insertion, remaining, code) /\ Copied \ {} = Copied /\ Copied \ Copied = {}
      BY <2>3, <3>1
    <3>3. OK(insertion', remaining', code')
      BY <3>1, <3>2
    <3>. HIDE DEF OK
    <3>. QED
      BY <2>2, <2>7, <3>3 DEF exceptVars
  <2>8. CASE Start
    <3>1. /\ insertion = "inserted" /\ insertion' = "running" /\ remaining' = remaining /\ code' = code
          /\ UNCHANGED <<program, slice>>
      BY <2>8 DEF Start, exceptVars
    <3>2. OK(insertion', remaining', code')
      BY <2>3, <3>1
    <3>. HIDE DEF OK
    <3>. QED
      BY <2>2, <3>1, <3>2
  <2>. QED
    BY <2>1, <2>4, <2>5, <2>6, <2>7, <2>8
    DEF Next, Analysis, Insertion, SliceStep, OriginalStep, vars, insertionVars
<1>. QED
  BY <1>1, <1>2, SliceInvariant, PTL DEF Spec

\* An instruction of a copy is a call that goes to null, or to a function that is no copy.
NullCall ==
  \E x \in Calls(program) \ code.checked : \E k \in DOMAIN program.vtable :
    /\ FunctionOf(program, x) \in Copied /\ code.op[x] \in {"call", "invoke"}
    /\ code.calls[x][k] = NullFunction
EscapingCall ==
  \E x \in Calls(program) : \E k \in DOMAIN program.vtable :
    /\ FunctionOf(program, x) \in Copied /\ code.op[x] \in {"call", "invoke"}
    /\ code.calls[x][k].fn \in Own(program) /\ code.calls[x][k].copy # TRUE

\* The run of the slice stays in blocks that control can come to, or it has met one of these.
SliceRuns ==
  /\ IsRun(precompute) /\ precompute.copy = TRUE
  /\ \/ /\ precompute.status = "running"
        /\ \E R : LiveBlocks(code, R) /\ StackOK(code, R, precompute.stack)
     \/ precompute.status \in {"finished", "aborted"} /\ precompute.stack = <<>>
     \/ precompute.status = "null called" /\ NullCall
     \/ precompute.status = "escaped" /\ EscapingCall

\* The slice has run soundly since it was started.
RunInv ==
  /\ insertion # "running" => precompute = NoRun
  /\ insertion = "running" => SliceRuns

\* The blocks control can come to can be run.
LEMMA LiveRunnable ==
  ASSUME SliceReady, NEW c, NEW A, NEW P, CodeOK(c, A, P), NEW R, LiveBlocks(c, R)
  PROVE  /\ R \in SUBSET DOMAIN program.block /\ RunnableCode(c, R, TRUE)
         /\ \A b \in R : program.block[b].fn \in Copied
<1>1. ASSUME NEW b \in R
      PROVE  /\ b \in DOMAIN program.block /\ c.succ[b] \in Seq(R) /\ program.block[b].fn \in Copied
             /\ c.op[Terminator(program, b)] \notin FinishingOps => c.succ[b] # <<>>
             /\ c.op[Terminator(program, b)] \in {"condbr", "invoke"} => Len(c.succ[b]) = 2
  <2>1. LiveBlock(c, R, b)
    BY DEF LiveBlocks
  <2>2. c.succ[b] \in Seq(R)
    <3>1. c.succ[b] \in Seq(R \cap BlocksOf(program, program.block[b].fn))
      BY <2>1 DEF LiveBlock
    <3>. QED
      BY <3>1
  <2>. QED
    BY <2>1, <2>2 DEF LiveBlock, FinishingOps
<1>2. ASSUME NEW x \in Calls(program), NEW k \in DOMAIN program.vtable,
             c.calls[x][k].fn \in Own(program), c.calls[x][k].copy = TRUE
      PROVE  program.function[c.calls[x][k].fn].entry \in R
  BY <1>2 DEF CodeOK, TargetsOK, TargetOK, LiveBlocks
<1>3. ASSUME NEW x \in Instr(program)
      PROVE  /\ c.op[x] \in {"condbr", "invoke"} => program.instr[x].op = c.op[x]
             /\ c.op[x] = "call" => x \in Calls(program)
  BY DEF CodeOK
<1>. QED
  BY <1>1, <1>2, <1>3 DEF RunnableCode

\* A step of the slice.
LEMMA SliceRunsOn ==
  ASSUME SliceReady, CodeOK(code, Copied, Copied), SliceRuns, Running(precompute), NEW choice,
         Decides(Here(precompute.stack)) => choice \in Outcomes,
         UNCHANGED <<program, slice, code>>, precompute' = Execute(code, precompute, choice)
  PROVE  SliceRuns'
<1>. DEFINE r == precompute
            q == Execute(code, r, choice)
            x == Here(r.stack)
<1>1. PICK R : LiveBlocks(code, R) /\ StackOK(code, R, r.stack) /\ IsRun(r) /\ r.copy = TRUE
  BY DEF SliceRuns, Running
<1>2. /\ R \in SUBSET DOMAIN program.block /\ RunnableCode(code, R, TRUE)
      /\ \A b \in R : program.block[b].fn \in Copied
  BY <1>1, LiveRunnable
<1>3. x \in Instr(program) /\ FunctionOf(program, x) \in Copied
  <2>1. x = InstrAt(r.stack[Len(r.stack)]) /\ r.stack[Len(r.stack)] \in Places(R)
    BY <1>1, HereIs, Popped DEF StackOK
  <2>2. x \in Instr(program) /\ BlockOf(program, x) \in R
    BY <1>2, <2>1, PlaceFacts
  <2>. QED
    BY <1>2, <2>2 DEF FunctionOf
<1>4. code.op[x] \in {"call", "invoke", "condbr"} => choice \in Outcomes
  BY <1>3 DEF CodeOK, Decides
<1>. HIDE DEF x
<1>5. StepOK(code, R, r, q)
  <2>. HIDE DEF r
  <2>. QED
    BY <1>1, <1>2, <1>4, ExecuteKeeps DEF x
<1>6. NullCall' = NullCall /\ EscapingCall' = EscapingCall /\ \A S, s : LiveBlocks(code', S) = LiveBlocks(code, S)
  BY DEF NullCall, EscapingCall, Copied
<1>. HIDE DEF q
<1>7. precompute' = q /\ r.status = "running"
  BY DEF q, Running
<1>8. q.status = "null called" => q.status # "running"
  OBVIOUS
<1>9. IsRun(q) /\ q.copy = TRUE
  BY <1>1, <1>5 DEF StepOK
<1>10. CASE StackOK(code, R, q.stack) /\ q.status = r.status
  <2>1. (\E S : LiveBlocks(code, S) /\ StackOK(code, S, precompute.stack))'
    <3>1. LiveBlocks(code, R)'
      BY <1>1 DEF LiveBlocks, LiveBlock, Copied
    <3>2. StackOK(code, R, precompute.stack)'
      BY <1>7, <1>10 DEF StackOK, Places, InstrAt
    <3>. QED
      BY <3>1, <3>2
  <2>. QED
    BY <1>7, <1>9, <1>10, <2>1 DEF SliceRuns, IsRun
<1>11. CASE q.stack = <<>> /\ q.status \in {"finished", "aborted"}
  BY <1>7, <1>9, <1>11 DEF SliceRuns, IsRun
<1>12. CASE /\ q.status = "null called"
            /\ \E y \in Calls(program) \ code.checked : \E k \in DOMAIN program.vtable :
                 /\ BlockOf(program, y) \in R /\ code.op[y] \in {"call", "invoke"}
                 /\ code.calls[y][k] = NullFunction
  <2>1. NullCall
    BY <1>2, <1>12 DEF NullCall, FunctionOf
  <2>. QED
    BY <1>6, <1>7, <1>9, <1>12, <2>1 DEF SliceRuns, IsRun
<1>13. CASE /\ q.status = "escaped"
            /\ \E y \in Calls(program) : \E k \in DOMAIN program.vtable :
                 /\ BlockOf(program, y) \in R /\ code.op[y] \in {"call", "invoke"}
                 /\ code.calls[y][k].fn \in Own(program) /\ code.calls[y][k].copy # r.copy
  <2>1. EscapingCall
    BY <1>1, <1>2, <1>13 DEF EscapingCall, FunctionOf
  <2>. QED
    BY <1>6, <1>7, <1>9, <1>13, <2>1 DEF SliceRuns, IsRun
<1>. QED
  BY <1>5, <1>10, <1>11, <1>12, <1>13 DEF StepOK

\* The slice runs soundly.
THEOREM RunInvariant == Spec => []RunInv
<1>1. Init => RunInv
  BY DEF Init, RunInv
<1>2. SliceInv /\ CodeInv /\ RunInv /\ [Next]_vars => RunInv'
  <2>. SUFFICES ASSUME SliceInv, CodeInv, RunInv, [Next]_vars PROVE RunInv'
    OBVIOUS
  <2>0. SliceReady
    BY ReadySlice
  <2>1. CASE insertion # "running" /\ ~ Start
    <3>1. insertion' # "running" /\ precompute' = precompute
      BY <2>1 DEF Next, Analysis, Insertion, CopyFunctions, ReplaceCalls, Prune, NextLoop, SliceStep,
                  OriginalStep, vars, insertionVars, runVars
    <3>. QED
      BY <2>1, <3>1 DEF RunInv
  <2>2. CASE Start
    <3>1. /\ insertion = "inserted" /\ insertion' = "running"
          /\ UNCHANGED <<program, slice, code>>
          /\ precompute' = IF "main" \in Copied THEN Run("main", TRUE) ELSE NoRun
      BY <2>2 DEF Start, exceptVars
    <3>2. CASE "main" \notin Copied
      <4>1. precompute' = NoRun
        BY <3>1, <3>2
      <4>2. IsRun(NoRun) /\ NoRun.copy = TRUE /\ NoRun.status = "finished" /\ NoRun.stack = <<>>
        BY DEF NoRun, IsRun, RunFields
      <4>3. SliceRuns'
        BY <4>1, <4>2 DEF SliceRuns, IsRun
      <4>. QED
        BY <3>1, <4>3 DEF RunInv
    <3>3. CASE "main" \in Copied
      <4>. DEFINE b == program.function["main"].entry
                  s == <<At(b)>>
      <4>1. precompute' = [stack |-> s, status |-> "running", copy |-> TRUE]
        BY <3>1, <3>3 DEF Run, Entry
      <4>2. PICK R : LiveBlocks(code, R)
        BY <3>1 DEF CodeInv, CodeOK
      <4>3. b \in R /\ R \in SUBSET DOMAIN program.block
        BY <3>3, <4>2 DEF LiveBlocks, LiveBlock
      <4>4. At(b) \in Places(R)
        BY <2>0, <4>3, EntryPlace
      <4>. HIDE DEF b
      <4>5. StackOK(code, R, s)
        <5>1. Len(s) = 1 /\ s # <<>> /\ s \in Seq(Places(R))
          BY <4>4
        <5>. QED
          BY <5>1 DEF StackOK
      <4>. HIDE DEF s
      <4>6. (\E S : LiveBlocks(code, S) /\ StackOK(code, S, precompute.stack))'
        <5>1. LiveBlocks(code, R)'
          BY <3>1, <4>2 DEF LiveBlocks, LiveBlock, Copied
        <5>2. StackOK(code, R, precompute.stack)'
          <6>1. precompute'.stack = s
            BY <4>1
          <6>2. Places(R)' = Places(R) /\ \A e : InstrAt(e)' = InstrAt(e)
            BY <3>1 DEF Places, InstrAt
          <6>. QED
            BY <3>1, <4>5, <6>1, <6>2 DEF StackOK
        <5>. QED
          BY <5>1, <5>2
      <4>7. IsRun(precompute)' /\ (precompute.copy = TRUE)' /\ (precompute.status = "running")'
        BY <4>1 DEF IsRun, RunFields
      <4>. QED
        BY <3>1, <4>6, <4>7 DEF RunInv, SliceRuns
    <3>. QED
      BY <3>2, <3>3
  <2>3. CASE insertion = "running"
    <3>0. SliceRuns /\ CodeOK(code, Copied, Copied)
      BY <2>3 DEF RunInv, CodeInv, ReplacedCopies, PrunedCopies
    <3>1. UNCHANGED <<program, slice>> /\ ~ ExceptNext /\ ~ Analysis
      BY <2>3, SliceStays
    <3>2. insertion' = "running" /\ code' = code
      BY <2>3, <3>1 DEF Next, Insertion, CopyFunctions, ReplaceCalls, Prune, NextLoop, Start, SliceStep,
                        OriginalStep, vars, insertionVars
    <3>3. CASE precompute' = precompute
      BY <3>0, <3>1, <3>2, <3>3
      DEF RunInv, SliceRuns, NullCall, EscapingCall, Copied, LiveBlocks, LiveBlock, StackOK, Places,
          InstrAt, IsRun
    <3>4. CASE SliceStep
      <4>1. /\ ~ Stable
            /\ precompute' = Execute(code, precompute, CHOOSE choice \in Outcomes : TRUE)
        BY <3>4 DEF SliceStep
      <4>2. Running(precompute) /\ ~ Decides(Here(precompute.stack))
        BY <4>1 DEF Stable
      <4>3. SliceRuns'
        BY <2>0, <3>0, <3>1, <3>2, <4>1, <4>2, SliceRunsOn
      <4>. QED
        BY <3>2, <4>3 DEF RunInv
    <3>5. CASE OriginalStep
      <4>1. PICK choice \in Outcomes :
              precompute' = IF Together THEN Execute(code, precompute, choice) ELSE precompute
        BY <3>5 DEF OriginalStep
      <4>2. CASE ~ Together
        BY <3>3, <4>1, <4>2
      <4>3. CASE Together
        <5>1. Running(precompute) /\ precompute' = Execute(code, precompute, choice)
          BY <4>1, <4>3 DEF Together
        <5>2. SliceRuns'
          BY <2>0, <3>0, <3>1, <3>2, <5>1, SliceRunsOn
        <5>. QED
          BY <3>2, <5>2 DEF RunInv
      <4>. QED
        BY <4>2, <4>3
    <3>6. precompute' = precompute \/ SliceStep \/ OriginalStep
      BY <2>3, <3>1 DEF Next, Insertion, Start, vars, runVars
    <3>. QED
      BY <3>3, <3>4, <3>5, <3>6
  <2>. QED
    BY <2>1, <2>2, <2>3
<1>. QED
  BY <1>1, <1>2, SliceInvariant, CodeInvariant, PTL DEF Spec

\* No call of the slice goes to a null entry of a vtable, if whatever a virtual call can
\* call returns when the result is used.
THEOREM NullNeverCalled == Spec => [](VirtualReturns(program) => NoNullCalled)
<1>1. SliceInv /\ CodeInv /\ RunInv => (VirtualReturns(program) => NoNullCalled)
  <2>. SUFFICES ASSUME SliceInv, CodeInv, RunInv, VirtualReturns(program),
                       precompute.status = "null called"
                PROVE  FALSE
    BY DEF NoNullCalled
  <2>1. insertion = "running"
    <3>1. NoRun.status # "null called"
      BY DEF NoRun
    <3>. QED
      BY <3>1 DEF RunInv
  <2>2. PICK x \in Calls(program) \ code.checked, k \in DOMAIN program.vtable :
          /\ FunctionOf(program, x) \in Copied /\ code.op[x] \in {"call", "invoke"}
          /\ code.calls[x][k] = NullFunction
    BY <2>1 DEF RunInv, SliceRuns, NullCall
  <2>3. CodeOK(code, Copied, Copied) /\ AnalysisDone
    BY <2>1 DEF CodeInv, ReplacedCopies, PrunedCopies, SliceInv
  <2>4. x \in Instr(program)
    BY DEF Calls, Invokes
  <2>5. Included(x) /\ ReplacedOK(code, x)
    BY <2>2, <2>3, <2>4 DEF CodeOK
  <2>6. Indirect(program, x) /\ program.vtable[k][program.instr[x].slot] \notin Copied
    BY <2>2, <2>3 DEF CodeOK, TargetsOK, TargetOK
  <2>7. RetvalNeeded(program, slice, x)
    BY <2>2, <2>5, <2>6 DEF ReplacedOK, NullChecked
  <2>8. program.vtable[k][program.instr[x].slot] \in CallTargets(program, x)
    BY <2>2, <2>6 DEF CallTargets
  <2>. QED
    BY <2>3, <2>5, <2>6, <2>7, <2>8, ResultsCopied DEF Included
<1>. QED
  BY <1>1, SliceInvariant, CodeInvariant, RunInvariant, PTL

-----------------------------------------------------------------------------
(* Programs without exceptions and virtual calls: the slice stays in copies.*)

\* In a program with neither exceptions nor virtual calls: what always has to be called is
\* copied, and so is what an included call calls, unless it is needed for its result.
PlainSound(p, s) ==
  /\ s.include_all_callsites \subseteq s.include_in_precompute
  /\ \A c \in Calls(p) \cap s.included :
       CallTargets(p, c) \cap Own(p) \subseteq s.include_in_precompute \/ RetvalNeeded(p, s, c)
  /\ \A x \in Instr(p) : \A c \in Calls(p) : c \in s.needs[x] => c \in p.instr[x].uses

\* Such a program has no invokes, a call has one target, and what guards is no call.
LEMMA PlainFacts ==
  ASSUME NEW p \in Program, WellFormed(p), PlainProgram(p)
  PROVE  /\ Invokes(p) = {}
         /\ \A c \in Calls(p) : /\ c \in Instr(p) /\ p.instr[c].op = "call"
                                /\ CallTargets(p, c) = {p.instr[c].callee}
                                /\ p.instr[c].callee \in Functions(p)
         /\ \A can : \A x \in Instr(p) : Guards(p, can, x) \cap Calls(p) = {}
<1>1. Invokes(p) = {}
  BY DEF PlainProgram, Invokes
<1>2. ASSUME NEW c \in Calls(p)
      PROVE  /\ c \in Instr(p) /\ p.instr[c].op = "call"
             /\ CallTargets(p, c) = {p.instr[c].callee} /\ p.instr[c].callee \in Functions(p)
  <2>1. c \in Instr(p) /\ CallTargets(p, c) \subseteq Functions(p)
    BY TargetsType
  <2>2. CallTargets(p, c) = {p.instr[c].callee}
    BY <2>1 DEF PlainProgram, CallTargets
  <2>. QED
    BY <1>1, <2>1, <2>2 DEF Calls
<1>3. ASSUME NEW can, NEW x \in Instr(p), NEW t \in Guards(p, can, x) PROVE t \notin Calls(p)
  <2>1. PICK a \in DOMAIN p.block : t = Terminator(p, a)
    BY DEF Guards, Predecessors
  <2>2. p.instr[t].op \in TerminatorOps
    BY <2>1, Formed
  <2>3. p.instr[t].op # "call"
    BY <2>2 DEF TerminatorOps
  <2>. QED
    BY <1>2, <2>3
<1>. QED
  BY <1>1, <1>2, <1>3

\* What the recursion of an inclusion finds of such a program: a function that always has to
\* be called is found, and so is what a call calls that is found for what it calls.
LEMMA PlainRecursion ==
  ASSUME NEW p \in Program, WellFormed(p), PlainProgram(p), NEW can, NEW s, SliceType(p, s),
         NEW X \in SUBSET Instr(p), NEW q, q = IncludeRecursive(p, can, s, X),
         \A x \in Instr(p) : \A c \in Calls(p) : c \in s.needs[x] => c \in p.instr[x].uses
  PROVE  /\ q.always \subseteq s.include_all_callsites \cup q.fns
         /\ \A c \in Calls(p) \cap q.inc :
              c \in X \/ CallTargets(p, c) \subseteq q.fns \/ \E x \in q.inc : c \in p.instr[x].uses
<1>. DEFINE start == [inc |-> X, fns |-> s.include_in_precompute, always |-> s.include_all_callsites]
            Good(e) == /\ e.always \subseteq s.include_all_callsites \cup e.fns
                       /\ \A c \in Calls(p) \cap e.inc :
                            \/ c \in X
                            \/ CallTargets(p, c) \subseteq e.fns
                            \/ \E x \in e.inc : c \in p.instr[x].uses
            S == {e \in FoundSets(p) : Good(e)}
<1>1. \A T \in SUBSET FoundSets(p) :
        start \in T /\ (\A e \in T : IncludeOnce(p, can, s, e) \in T) => q \in T
  BY RecursionCloses
<1>2. start \in S
  <2>1. start \in FoundSets(p)
    BY DEF FoundSets, SliceType
  <2>2. start.always = s.include_all_callsites /\ start.inc = X
    OBVIOUS
  <2>. HIDE DEF start
  <2>. QED
    BY <2>1, <2>2
<1>3. ASSUME NEW e \in S PROVE IncludeOnce(p, can, s, e) \in S
  <2>. DEFINE d == IncludeOnce(p, can, s, e)
              found == e.fns \ s.include_in_precompute
              kept == {c \in Calls(p) : CallTargets(p, c) \cap found \cap e.always # {}}
              parents == {FunctionOf(p, c) : c \in kept}
  <2>1. d \in FoundSets(p) /\ e.inc \subseteq d.inc /\ e.fns \subseteq d.fns /\ e.always \subseteq d.always
    BY OnceType
  <2>2. /\ d.inc = e.inc \cup kept \cup UNION {Guards(p, can, x) \cup s.needs[x] : x \in e.inc}
        /\ d.fns = e.fns \cup parents \cup {FunctionOf(p, x) : x \in {y \in e.inc : InEntry(p, y)}}
        /\ d.always = e.always \cup parents
    BY DEF IncludeOnce
  <2>3. Good(e) /\ e.inc \subseteq Instr(p)
    BY DEF FoundSets
  <2>. HIDE DEF d
  <2>4. d.always \subseteq s.include_all_callsites \cup d.fns
    <3>1. e.always \subseteq s.include_all_callsites \cup e.fns
      BY <2>3
    <3>2. parents \subseteq d.fns
      BY <2>2
    <3>. HIDE DEF parents
    <3>. QED
      BY <2>1, <2>2, <3>1, <3>2
  <2>5. ASSUME NEW c \in Calls(p) \cap d.inc
        PROVE  c \in X \/ CallTargets(p, c) \subseteq d.fns \/ \E x \in d.inc : c \in p.instr[x].uses
    <3>1. CASE c \in e.inc
      BY <2>1, <2>3, <3>1
    <3>2. CASE c \in kept
      <4>1. CallTargets(p, c) \cap e.fns # {}
        BY <3>2
      <4>2. CallTargets(p, c) = {p.instr[c].callee}
        BY PlainFacts
      <4>. QED
        BY <2>1, <4>1, <4>2
    <3>3. CASE c \in UNION {Guards(p, can, x) \cup s.needs[x] : x \in e.inc}
      <4>1. PICK x \in e.inc : c \in Guards(p, can, x) \cup s.needs[x]
        BY <3>3
      <4>2. x \in Instr(p) /\ c \notin Guards(p, can, x)
        BY <2>3, PlainFacts
      <4>3. c \in p.instr[x].uses
        BY <4>1, <4>2
      <4>. QED
        BY <2>1, <4>3
    <3>. HIDE DEF kept
    <3>. QED
      BY <2>2, <3>1, <3>2, <3>3
  <2>. HIDE DEF S
  <2>6. d \in S
    BY <2>1, <2>4, <2>5 DEF S
  <2>. QED
    BY <2>6 DEF d
<1>. HIDE DEF S, start
<1>4. q \in S
  <2>1. S \in SUBSET FoundSets(p)
    BY DEF S
  <2>. QED
    BY <1>1, <1>2, <1>3, <2>1
<1>. QED
  BY <1>4 DEF S

\* An inclusion: its calls are needed for their results, or what they call is copied.
LEMMA PlainInclude ==
  ASSUME NEW p \in Program, WellFormed(p), PlainProgram(p), NEW can, NEW s, NEW X \in SUBSET Instr(p),
         IncludeReady(p, can, s, X), NEW r, r = Include(p, can, s, X),
         s.include_all_callsites \subseteq s.include_in_precompute \cup {FunctionOf(p, x) : x \in X},
         \A c \in Calls(p) \cap s.included :
           CallTargets(p, c) \cap Own(p) \subseteq s.include_in_precompute \/ RetvalNeeded(p, s, c),
         \A c \in Calls(p) \cap X :
           CallTargets(p, c) \cap Own(p) \subseteq s.include_in_precompute \/ RetvalNeeded(p, s, c),
         \A x \in Instr(p) : \A c \in Calls(p) : c \in s.needs[x] => c \in p.instr[x].uses
  PROVE  PlainSound(p, r)
<1>1. PICK q : q = IncludeRecursive(p, can, s, X)
  OBVIOUS
<1>2. SliceType(p, s)
  BY DEF IncludeReady
<1>3. Extends(p, can, s, X, q, r)
  BY <1>1, <1>2, IncludeExtends
<1>4. /\ q.always \subseteq s.include_all_callsites \cup q.fns
      /\ \A c \in Calls(p) \cap q.inc :
           c \in X \/ CallTargets(p, c) \subseteq q.fns \/ \E x \in q.inc : c \in p.instr[x].uses
  BY <1>1, <1>2, PlainRecursion
<1>5. SliceSound(p, can, r) /\ Later(p, s, r) /\ X \subseteq r.included
  BY IncludeSound
<1>6. /\ r.included = s.included \cup q.inc /\ r.include_in_precompute = q.fns
      /\ r.include_all_callsites = q.always /\ r.needs = s.needs
      /\ s.include_in_precompute \subseteq q.fns
  BY <1>3 DEF Extends
<1>7. ASSUME NEW x \in X PROVE FunctionOf(p, x) \in q.fns
  <2>1. x \in r.included /\ x \in Instr(p)
    BY <1>5
  <2>2. EntryBefore(p, BlockOf(p, x))
    BY <2>1, Placed DEF PlainProgram
  <2>. QED
    BY <1>5, <1>6, <2>1, <2>2, EntryIncluded
<1>8. r.include_all_callsites \subseteq r.include_in_precompute
  BY <1>4, <1>6, <1>7
<1>9. ASSUME NEW c, RetvalNeeded(p, s, c) PROVE RetvalNeeded(p, r, c)
  BY <1>5, <1>9 DEF RetvalNeeded, Later
<1>10. ASSUME NEW c \in Calls(p) \cap r.included
       PROVE  CallTargets(p, c) \cap Own(p) \subseteq r.include_in_precompute \/ RetvalNeeded(p, r, c)
  <2>1. CASE c \in s.included \cup X
    BY <1>6, <1>9, <2>1
  <2>2. CASE c \notin s.included \cup X
    <3>1. CallTargets(p, c) \subseteq q.fns \/ \E x \in q.inc : c \in p.instr[x].uses
      BY <1>4, <1>6, <2>2
    <3>2. q.inc \subseteq r.tainted
      BY <1>5, <1>6 DEF SliceSound
    <3>. QED
      BY <1>6, <3>1, <3>2 DEF RetvalNeeded
  <2>. QED
    BY <2>1, <2>2
<1>. QED
  BY <1>6, <1>8, <1>10 DEF PlainSound

\* An inclusion of what is no call.
LEMMA PlainIncluded ==
  ASSUME NEW p \in Program, WellFormed(p), PlainProgram(p), NEW can, NEW s, SliceSound(p, can, s),
         PlainSound(p, s), NEW X \in SUBSET Instr(p), X \cap Calls(p) = {},
         NEW r, r = Include(p, can, s, X)
  PROVE  PlainSound(p, r)
<1>1. IncludeReady(p, can, s, X)
  BY DEF SliceSound, IncludedClosed, IncludeReady
<1>. QED
  BY <1>1, PlainInclude DEF PlainSound

\* What an instruction uses, or the returns of what it calls.
LEMMA PlainNeeds ==
  ASSUME NEW p \in Program, WellFormed(p), PlainProgram(p), NEW can, NEW s, SliceSound(p, can, s),
         PlainSound(p, s), NEW x \in s.tainted, NEW T \in SUBSET Instr(p),
         T \cap Calls(p) \subseteq p.instr[x].uses,
         NEW r, r = InsertNeeds(p, can, s, x, T)
  PROVE  PlainSound(p, r)
<1>. DEFINE t == [s EXCEPT !.tainted = @ \cup T, !.visited = @ \ (T \ s.needs[x]), !.needs[x] = @ \cup T]
<1>1. x \in Instr(p)
  BY DEF SliceSound, SliceType
<1>2. /\ t.tainted = s.tainted \cup T
      /\ t.needs = [s.needs EXCEPT ![x] = @ \cup T]
      /\ t.included = s.included
      /\ t.include_in_precompute = s.include_in_precompute
      /\ t.include_all_callsites = s.include_all_callsites
      /\ SliceType(p, t)
  BY <1>1 DEF SliceSound, SliceType
<1>3. r = IF x \in s.included THEN Include(p, can, t, T) ELSE t
  BY DEF InsertNeeds
<1>. HIDE DEF t
<1>4. \A y \in Instr(p) : t.needs[y] = IF y = x THEN s.needs[y] \cup T ELSE s.needs[y]
  BY <1>1, <1>2 DEF SliceSound, SliceType
<1>5. PlainSound(p, t)
  <2>1. ASSUME NEW c, RetvalNeeded(p, s, c) PROVE RetvalNeeded(p, t, c)
    BY <1>2, <2>1 DEF RetvalNeeded
  <2>2. ASSUME NEW y \in Instr(p), NEW c \in Calls(p), c \in t.needs[y] PROVE c \in p.instr[y].uses
    BY <1>4, <2>2 DEF PlainSound
  <2>. QED
    BY <1>2, <2>1, <2>2 DEF PlainSound
<1>6. CASE x \in s.included
  <2>1. t.included \subseteq t.tainted /\ \A y \in Instr(p) : t.needs[y] # {} => y \in t.tainted
    BY <1>2, <1>4 DEF SliceSound
  <2>2. s.included \subseteq Instr(p)
    BY DEF SliceSound, SliceType
  <2>3. IncludeReady(p, can, t, T)
    BY <1>2, <1>4, <1>6, <2>1, <2>2 DEF SliceSound, IncludedClosed, IncludeReady
  <2>4. ASSUME NEW c \in Calls(p) \cap T PROVE RetvalNeeded(p, t, c)
    BY <1>2 DEF RetvalNeeded
  <2>. QED
    BY <1>3, <1>5, <1>6, <2>3, <2>4, PlainInclude DEF PlainSound
<1>. QED
  BY <1>3, <1>5, <1>6

\* A request.
LEMMA PlainRequest ==
  ASSUME NEW p \in Program, WellFormed(p), PlainProgram(p), NEW can, NEW s, AnalysisSound(p, can, s),
         PlainSound(p, s), NEW x \in s.requests, NEW r, r = IncludeRequest(p, can, s, x)
  PROVE  PlainSound(p, r)
<1>. DEFINE X == {x}
            t == Include(p, can, s, X)
            f == FunctionOf(p, x)
<1>1. x \in Instr(p) \ Calls(p)
  BY DEF AnalysisSound, SliceSound, SliceType, WellFormed
<1>2. X \in SUBSET Instr(p) /\ X \cap Calls(p) = {}
  BY <1>1
<1>. HIDE DEF X
<1>3. SliceSound(p, can, t) /\ X \subseteq t.included
  BY <1>2, IncludeKeeps DEF AnalysisSound
<1>4. PlainSound(p, t)
  BY <1>2, PlainIncluded DEF AnalysisSound
<1>5. f \in t.include_in_precompute
  <2>1. x \in t.included
    BY <1>3 DEF X
  <2>2. EntryBefore(p, BlockOf(p, x))
    BY <1>1, Placed DEF PlainProgram
  <2>. HIDE DEF t
  <2>. QED
    BY <1>3, <2>1, <2>2, EntryIncluded
<1>6. r = [t EXCEPT !.visited = (@ \cup {x}) \ (Callsites(p, f) \cap t.tainted),
                    !.include_all_callsites = @ \cup {f},
                    !.requests = @ \ {x}]
  BY DEF IncludeRequest, X
<1>. HIDE DEF t, f
<1>7. /\ r.include_all_callsites = t.include_all_callsites \cup {f}
      /\ r.tainted = t.tainted /\ r.included = t.included /\ r.needs = t.needs
      /\ r.include_in_precompute = t.include_in_precompute
  BY <1>3, <1>6 DEF SliceSound, SliceType
<1>. QED
  BY <1>4, <1>5, <1>7 DEF PlainSound, RetvalNeeded

\* A visit.
LEMMA PlainVisit ==
  ASSUME NEW p \in Program, WellFormed(p), PlainProgram(p), NEW can, NEW s, AnalysisSound(p, can, s),
         PlainSound(p, s), NEW x \in s.tainted, NEW r, r = VisitVal(p, can, s, x)
  PROVE  PlainSound(p, r)
<1>. DEFINE v == [s EXCEPT !.visited = @ \cup {x}]
<1>1. x \in Instr(p)
  BY DEF AnalysisSound, SliceSound, SliceType
<1>2. /\ v.needs = s.needs /\ v.tainted = s.tainted /\ v.included = s.included
      /\ v.include_in_precompute = s.include_in_precompute
      /\ v.include_all_callsites = s.include_all_callsites
      /\ SliceType(p, v)
  BY <1>1 DEF AnalysisSound, SliceSound, SliceType
<1>. HIDE DEF v
<1>3. SliceSound(p, can, v) /\ PlainSound(p, v)
  BY <1>2 DEF AnalysisSound, SliceSound, IncludedClosed, PlainSound, RetvalNeeded
<1>4. CASE x \notin Calls(p)
  <2>. DEFINE T == p.instr[x].uses
  <2>1. r = InsertNeeds(p, can, v, x, T)
    BY <1>4 DEF VisitVal, v
  <2>2. T \in SUBSET Instr(p) /\ T \cap Calls(p) \subseteq p.instr[x].uses
    BY <1>1 DEF WellFormed, InstrOf
  <2>. HIDE DEF T
  <2>. QED
    BY <1>2, <1>3, <2>1, <2>2, PlainNeeds
<1>5. CASE x \in Calls(p)
  <2>. DEFINE a == VisitForRetval(p, can, v, x)
              b == VisitForException(p, can, a, x)
  <2>1. r = CheckCall(p, can, b, x)
    BY <1>5 DEF VisitVal, VisitCall, v
  <2>2. b = a
    BY PlainFacts DEF VisitForException
  <2>3. SliceSound(p, can, a)
    BY <1>5, RetvalSound DEF v, AnalysisSound
  <2>4. PlainSound(p, a)
    <3>. DEFINE T == CalledReturns(p, x)
    <3>1. a = IF RetvalNeeded(p, v, x) THEN InsertNeeds(p, can, v, x, T) ELSE v
      BY DEF VisitForRetval, CalledReturns
    <3>2. T \in SUBSET Instr(p) /\ T \cap Calls(p) = {}
      <4>1. \A y \in T : y \in Instr(p) /\ p.instr[y].op = "ret"
        BY DEF CalledReturns, Terminators, InstrOf
      <4>2. \A y \in T : y \notin Calls(p)
        <5>. HIDE DEF T
        <5>. QED
          BY <4>1, PlainFacts
      <4>. QED
        BY <4>1, <4>2
    <3>. HIDE DEF T, a
    <3>. QED
      BY <1>2, <1>3, <3>1, <3>2, PlainNeeds
  <2>. HIDE DEF a, b
  <2>5. CASE r = a
    BY <2>4, <2>5
  <2>6. CASE r # a
    <3>. DEFINE m == [a EXCEPT !.include_all_callsites = @ \cup {FunctionOf(p, x)}]
                C == {x}
    <3>1. x \notin a.included /\ CallTargets(p, x) \cap a.include_all_callsites # {}
          /\ r = Include(p, can, m, C)
      BY <2>1, <2>2, <2>6 DEF CheckCall
    <3>2. /\ m.needs = a.needs /\ m.tainted = a.tainted /\ m.included = a.included
          /\ m.include_in_precompute = a.include_in_precompute
          /\ m.include_all_callsites = a.include_all_callsites \cup {FunctionOf(p, x)}
          /\ SliceType(p, m)
      BY <1>1, <2>3, Placed DEF SliceSound, SliceType
    <3>. HIDE DEF m
    <3>3. CallTargets(p, x) \subseteq m.include_in_precompute
      <4>1. CallTargets(p, x) = {p.instr[x].callee}
        BY <1>5, PlainFacts
      <4>. QED
        BY <2>4, <3>1, <3>2, <4>1 DEF PlainSound
    <3>4. m.include_all_callsites \subseteq m.include_in_precompute \cup {FunctionOf(p, y) : y \in C}
      BY <2>4, <3>2 DEF PlainSound
    <3>5. C \in SUBSET Instr(p) /\ \A c \in Calls(p) \cap C : c = x
      BY <1>1
    <3>. HIDE DEF C
    <3>6. IncludeReady(p, can, m, C)
      BY <2>3, <3>2 DEF SliceSound, IncludedClosed, IncludeReady
    <3>7. \A c \in Calls(p) \cap m.included :
            CallTargets(p, c) \cap Own(p) \subseteq m.include_in_precompute \/ RetvalNeeded(p, m, c)
      BY <2>4, <3>2 DEF PlainSound, RetvalNeeded
    <3>8. \A c \in Calls(p) \cap C :
            CallTargets(p, c) \cap Own(p) \subseteq m.include_in_precompute \/ RetvalNeeded(p, m, c)
      BY <3>3, <3>5
    <3>9. \A y \in Instr(p) : \A c \in Calls(p) : c \in m.needs[y] => c \in p.instr[y].uses
      BY <2>4, <3>2 DEF PlainSound
    <3>. QED
      BY <3>1, <3>4, <3>5, <3>6, <3>7, <3>8, <3>9, PlainInclude
  <2>. QED
    BY <2>5, <2>6
<1>. QED
  BY <1>4, <1>5

PlainInv == PlainProgram(program) => PlainSound(program, slice)

\* In such a program it holds at each step of the pass.
THEOREM PlainInvariant == Spec => []PlainInv
<1>1. Init => PlainInv
  BY DEF Init, PlainInv, PlainSound, EmptySlice
<1>2. SliceInv /\ PlainInv /\ [Next]_vars => PlainInv'
  <2>. SUFFICES ASSUME SliceInv, PlainInv, [Next]_vars, PlainProgram(program)'
                PROVE  PlainSound(program, slice)'
    BY DEF PlainInv
  <2>0. program \in Program /\ WellFormed(program)
    BY WellFormedAssumption DEF SliceInv
  <2>1. program' = program
    BY DEF Next, ExceptNext, AnalyzeFunction, AnalyzeCallee, CheckCallee, NoCalleeExcepts, Analysis,
           Insertion, Start, SliceStep, OriginalStep, vars, exceptVars
  <2>2. PlainProgram(program) /\ PlainSound(program, slice)
    BY <2>1 DEF PlainInv
  <2>3. CASE Request
    <3>1. PICK x \in slice.requests :
            slice' = IncludeRequest(program, can_except_in_precompute, slice, x)
      BY <2>3 DEF Request
    <3>. QED
      BY <2>0, <2>1, <2>2, <3>1, PlainRequest DEF SliceInv
  <2>4. CASE Visit
    <3>1. PICK x \in ToVisit : slice' = VisitVal(program, can_except_in_precompute, slice, x)
      BY <2>4 DEF Visit
    <3>2. x \in slice.tainted
      BY DEF ToVisit
    <3>. QED
      BY <2>0, <2>1, <2>2, <3>1, <3>2, PlainVisit DEF SliceInv
  <2>5. CASE slice' = slice
    BY <2>1, <2>2, <2>5
  <2>. QED
    BY <2>3, <2>4, <2>5 DEF Next, Analysis, Insertion, Start, SliceStep, OriginalStep, vars
<1>. QED
  BY <1>1, <1>2, SliceInvariant, PTL DEF Spec

\* When the analysis of such a program is done, what an included call calls is copied.
LEMMA PlainCopied ==
  ASSUME SliceInv, PlainInv, AnalysisDone, PlainProgram(program),
         NEW c \in Calls(program), Included(c), program.instr[c].callee \in Own(program)
  PROVE  program.instr[c].callee \in Copied
<1>. DEFINE f == program.instr[c].callee
<1>1. program \in Program /\ WellFormed(program)
  BY WellFormedAssumption DEF SliceInv
<1>2. CallTargets(program, c) = {f}
  BY <1>1, PlainFacts
<1>. HIDE DEF f
<1>3. f \in slice.include_in_precompute \/ RetvalNeeded(program, slice, c)
  BY <1>2 DEF PlainInv, PlainSound, Included, f
<1>4. CASE RetvalNeeded(program, slice, c)
  <2>1. PICK u \in slice.tainted : c \in program.instr[u].uses
    BY <1>4 DEF RetvalNeeded
  <2>2. u \in Instr(program)
    BY DEF SliceInv, AnalysisSound, SliceSound, SliceType
  <2>3. Used(program, f)
    BY <1>2, <2>1, <2>2 DEF Used
  <2>4. PICK r \in Terminators(program, f, "ret") : TRUE
    BY <2>3 DEF PlainProgram, f
  <2>5. r \in Instr(program)
    BY DEF Terminators, InstrOf
  <2>6. EntryBefore(program, BlockOf(program, r))
    BY <1>1, <2>5, Placed DEF PlainProgram
  <2>. QED
    BY <1>2, <1>4, <2>4, <2>6, ReturnsCopied DEF Included, f
<1>. QED
  BY <1>3, <1>4 DEF Copied, f

\* No function that was not copied runs during the precalculation, if there are neither
\* exceptions nor virtual calls and a function returns if its result is used.
THEOREM OriginalNeverRuns == Spec => [](PlainProgram(program) => NoOriginalRuns)
<1>1. SliceInv /\ PlainInv /\ CodeInv /\ RunInv => (PlainProgram(program) => NoOriginalRuns)
  <2>. SUFFICES ASSUME SliceInv, PlainInv, CodeInv, RunInv, PlainProgram(program),
                       precompute.status = "escaped"
                PROVE  FALSE
    BY DEF NoOriginalRuns
  <2>1. insertion = "running"
    <3>1. NoRun.status # "escaped"
      BY DEF NoRun
    <3>. QED
      BY <3>1 DEF RunInv
  <2>2. PICK x \in Calls(program), k \in DOMAIN program.vtable :
          /\ FunctionOf(program, x) \in Copied /\ code.op[x] \in {"call", "invoke"}
          /\ code.calls[x][k].fn \in Own(program) /\ code.calls[x][k].copy # TRUE
    BY <2>1 DEF RunInv, SliceRuns, EscapingCall
  <2>3. CodeOK(code, Copied, Copied) /\ AnalysisDone
    BY <2>1 DEF CodeInv, ReplacedCopies, PrunedCopies, SliceInv
  <2>4. x \in Instr(program)
    BY DEF Calls, Invokes
  <2>5. Included(x) /\ ReplacedOK(code, x)
    BY <2>2, <2>3, <2>4 DEF CodeOK
  <2>6. ~ Indirect(program, x)
    BY <2>4 DEF PlainProgram
  <2>7. code.calls[x][k].fn = program.instr[x].callee
    BY <2>3, <2>6 DEF CodeOK, TargetsOK, TargetOK
  <2>8. program.instr[x].callee \in Copied
    BY <2>2, <2>3, <2>5, <2>7, PlainCopied
  <2>. QED
    BY <2>2, <2>5, <2>6, <2>8 DEF ReplacedOK
<1>. QED
  BY <1>1, SliceInvariant, PlainInvariant, CodeInvariant, RunInvariant, PTL

-----------------------------------------------------------------------------
(* In such programs: the calls that lead to a request are in the slice.     *)

\* While the requests are handled each function that is copied holds a request or calls one
\* that does; later it may also be there for its result.
ForResult(p, s, f) == s.requests = {} /\ Used(p, f)

\* T holds the functions a request can be below of.  The calls C and the functions E are
\* not yet dealt with.
LeadSound(p, T, C, E, s) ==
  /\ s.visited \subseteq s.tainted
  /\ \A x \in p.request \ s.requests :
       x \in s.included /\ FunctionOf(p, x) \in s.include_all_callsites
  /\ s.include_all_callsites \subseteq T
  /\ \A f \in s.include_in_precompute : Callsites(p, f) \subseteq s.tainted
  /\ \A c \in Calls(p) \cap s.visited :
       CallTargets(p, c) \cap s.include_all_callsites \cap s.include_in_precompute # {}
         => c \in s.included \cup C
  /\ \A x \in s.included :
       FunctionOf(p, x) \in E \cup s.include_all_callsites \/ ForResult(p, s, FunctionOf(p, x))
  /\ \A f \in s.include_in_precompute : f \in E \cup s.include_all_callsites \/ ForResult(p, s, f)
  /\ \A x \in Instr(p) : \A y \in s.needs[x] :
       FunctionOf(p, y) = FunctionOf(p, x) \/ ForResult(p, s, FunctionOf(p, y))

\* The functions a request can be below of, where results are apart from requests.
LeadingApart(p, T) == Leading(p, T) /\ \A f \in T : Used(p, f) => HoldsRequest(p, f)

\* A function that leads to a request always has to be called when it is copied.
LEMMA LeadStale ==
  ASSUME NEW p, NEW T, LeadingApart(p, T), NEW C, NEW s, LeadSound(p, T, C, {}, s),
         NEW f \in s.include_in_precompute, f \in T
  PROVE  f \in s.include_all_callsites
<1>1. f \in s.include_all_callsites \/ ForResult(p, s, f)
  BY DEF LeadSound
<1>2. CASE ForResult(p, s, f)
  <2>1. HoldsRequest(p, f) /\ s.requests = {}
    BY <1>2 DEF LeadingApart, ForResult
  <2>2. PICK x \in p.request : FunctionOf(p, x) = f
    BY <2>1 DEF HoldsRequest
  <2>. QED
    BY <2>1, <2>2 DEF LeadSound
<1>. QED
  BY <1>1, <1>2

\* Where the functions of an inclusion are.
Within(p, T, E, U, inc, fns, always) ==
  /\ always \subseteq T
  /\ \A x \in inc : FunctionOf(p, x) \in E \cup always \cup U
  /\ fns \subseteq E \cup always \cup U

\* What an instruction needs is in its function or in U.
NeedsWithin(p, s, U) ==
  \A x \in Instr(p) : \A y \in s.needs[x] :
    FunctionOf(p, y) = FunctionOf(p, x) \/ FunctionOf(p, y) \in U

\* What the recursion of an inclusion finds is in functions that always have to be called,
\* in those it starts from, or in those that are there for their results.
LEMMA LeadRecursion ==
  ASSUME NEW p \in Program, WellFormed(p), NEW can, NEW s, SliceType(p, s),
         NEW X \in SUBSET Instr(p), NEW q, q = IncludeRecursive(p, can, s, X),
         NEW T, Leading(p, T), NEW E, NEW U,
         Within(p, T, E, U, X, s.include_in_precompute, s.include_all_callsites),
         NeedsWithin(p, s, U)
  PROVE  Within(p, T, E, U, q.inc, q.fns, q.always)
<1>. DEFINE start == [inc |-> X, fns |-> s.include_in_precompute, always |-> s.include_all_callsites]
            Good(e) == Within(p, T, E, U, e.inc, e.fns, e.always)
            S == {e \in FoundSets(p) : Good(e)}
<1>1. \A R \in SUBSET FoundSets(p) :
        start \in R /\ (\A e \in R : IncludeOnce(p, can, s, e) \in R) => q \in R
  BY RecursionCloses
<1>2. start \in S
  <2>1. start \in FoundSets(p)
    BY DEF FoundSets, SliceType
  <2>2. start.always = s.include_all_callsites /\ start.inc = X /\ start.fns = s.include_in_precompute
    OBVIOUS
  <2>. HIDE DEF start
  <2>. QED
    BY <2>1, <2>2
<1>. HIDE DEF start
<1>3. ASSUME NEW e \in S PROVE IncludeOnce(p, can, s, e) \in S
  <2>. DEFINE d == IncludeOnce(p, can, s, e)
              found == e.fns \ s.include_in_precompute
              kept == {c \in Calls(p) : CallTargets(p, c) \cap found \cap e.always # {}}
              parents == {FunctionOf(p, c) : c \in kept}
  <2>1. d \in FoundSets(p)
    BY OnceType
  <2>2. /\ d.inc = e.inc \cup kept \cup UNION {Guards(p, can, x) \cup s.needs[x] : x \in e.inc}
        /\ d.fns = e.fns \cup parents \cup {FunctionOf(p, x) : x \in {y \in e.inc : InEntry(p, y)}}
        /\ d.always = e.always \cup parents
    BY DEF IncludeOnce
  <2>3. /\ e.always \subseteq T
        /\ \A x \in e.inc : FunctionOf(p, x) \in E \cup e.always \cup U
        /\ e.fns \subseteq E \cup e.always \cup U
        /\ e.inc \subseteq Instr(p)
    BY DEF FoundSets, Within
  <2>4. \A c \in kept : FunctionOf(p, c) \in T /\ FunctionOf(p, c) \in parents
    BY <2>3 DEF Leading
  <2>. HIDE DEF d, kept
  <2>5. d.always \subseteq T
    BY <2>2, <2>3, <2>4
  <2>6. ASSUME NEW y \in d.inc PROVE FunctionOf(p, y) \in E \cup d.always \cup U
    <3>1. CASE y \in e.inc
      BY <2>2, <2>3, <3>1
    <3>2. CASE y \in kept
      BY <2>2, <2>4, <3>2
    <3>3. CASE y \in UNION {Guards(p, can, x) \cup s.needs[x] : x \in e.inc}
      <4>1. PICK x \in e.inc : y \in Guards(p, can, x) \cup s.needs[x]
        BY <3>3
      <4>2. x \in Instr(p) /\ FunctionOf(p, x) \in E \cup d.always \cup U
        BY <2>2, <2>3
      <4>3. FunctionOf(p, y) = FunctionOf(p, x) \/ FunctionOf(p, y) \in U
        BY <4>1, <4>2, GuardsType DEF NeedsWithin
      <4>. QED
        BY <4>2, <4>3
    <3>. QED
      BY <2>2, <3>1, <3>2, <3>3
  <2>7. d.fns \subseteq E \cup d.always \cup U
    <3>1. \A x \in e.inc : FunctionOf(p, x) \in E \cup d.always \cup U
      BY <2>2, <2>3
    <3>. QED
      BY <2>2, <2>3, <3>1
  <2>. HIDE DEF S
  <2>9. Good(d)
    BY <2>5, <2>6, <2>7 DEF Within
  <2>8. d \in S
    BY <2>1, <2>9 DEF S
  <2>. QED
    BY <2>8 DEF d
<1>. HIDE DEF S, start
<1>4. q \in S
  <2>1. S \in SUBSET FoundSets(p)
    BY DEF S
  <2>. QED
    BY <1>1, <1>2, <1>3, <2>1
<1>. QED
  BY <1>4 DEF S

\* An inclusion.
LEMMA LeadInclude ==
  ASSUME NEW p \in Program, WellFormed(p), NEW can, NEW s, SliceType(p, s),
         NEW T, LeadingApart(p, T), NEW C, NEW E, LeadSound(p, T, C, {}, s),
         NEW X \in SUBSET Instr(p),
         \A x \in X : \/ FunctionOf(p, x) \in E \cup s.include_all_callsites
                      \/ ForResult(p, s, FunctionOf(p, x)),
         NEW r, r = Include(p, can, s, X)
  PROVE  LeadSound(p, T, C, E, r)
<1>1. PICK q : q = IncludeRecursive(p, can, s, X)
  OBVIOUS
<1>2. Extends(p, can, s, X, q, r)
  BY <1>1, IncludeExtends
<1>. DEFINE U == {f \in Own(p) : ForResult(p, s, f)}
<1>3. \A x \in Instr(p) : FunctionOf(p, x) \in Own(p)
  BY Placed
<1>4. /\ q.always \subseteq T
      /\ \A x \in q.inc : FunctionOf(p, x) \in E \cup q.always \cup U
      /\ q.fns \subseteq E \cup q.always \cup U
  <2>1. Leading(p, T) /\ s.include_all_callsites \subseteq T
    BY DEF LeadingApart, LeadSound
  <2>2. \A x \in X : FunctionOf(p, x) \in E \cup s.include_all_callsites \cup U
    BY <1>3
  <2>3. s.include_in_precompute \subseteq E \cup s.include_all_callsites \cup U
    BY DEF LeadSound, SliceType
  <2>4. NeedsWithin(p, s, U)
    BY <1>3 DEF LeadSound, SliceType, NeedsWithin
  <2>. HIDE DEF U
  <2>5. Within(p, T, E, U, X, s.include_in_precompute, s.include_all_callsites)
    BY <2>1, <2>2, <2>3 DEF Within
  <2>6. Within(p, T, E, U, q.inc, q.fns, q.always)
    BY <1>1, <2>1, <2>4, <2>5, LeadRecursion
  <2>. QED
    BY <2>6 DEF Within
<1>5. \A f \in U : ForResult(p, r, f)
  BY <1>2 DEF Extends, ForResult
<1>. HIDE DEF U
<1>. DEFINE fresh == q.inc \ s.included
            sites == UNION {Callsites(p, f) : f \in q.fns \ s.include_in_precompute}
<1>6. /\ r.included = s.included \cup q.inc /\ r.include_in_precompute = q.fns
      /\ r.include_all_callsites = q.always
      /\ s.tainted \cup fresh \cup sites \subseteq r.tainted
      /\ r.visited = s.visited \ (fresh \cup sites)
      /\ r.needs = s.needs /\ r.requests = s.requests
      /\ s.include_in_precompute \subseteq q.fns /\ s.include_all_callsites \subseteq q.always
  BY <1>2 DEF Extends
<1>7. r.visited \subseteq r.tainted
  BY <1>6 DEF LeadSound
<1>8. \A x \in p.request \ r.requests :
        x \in r.included /\ FunctionOf(p, x) \in r.include_all_callsites
  BY <1>6 DEF LeadSound
<1>9. ASSUME NEW f \in r.include_in_precompute PROVE Callsites(p, f) \subseteq r.tainted
  <2>1. CASE f \in s.include_in_precompute
    BY <1>6, <2>1 DEF LeadSound
  <2>2. CASE f \notin s.include_in_precompute
    <3>1. Callsites(p, f) \subseteq sites
      BY <1>6, <2>2
    <3>. QED
      BY <1>6, <3>1
  <2>. QED
    BY <2>1, <2>2
<1>10. ASSUME NEW c \in Calls(p) \cap r.visited,
              NEW g \in CallTargets(p, c) \cap r.include_all_callsites \cap r.include_in_precompute
       PROVE  c \in r.included \cup C
  <2>1. c \in Callsites(p, g)
    BY DEF Callsites
  <2>2. c \in s.visited /\ c \notin sites
    BY <1>6
  <2>3. g \in s.include_in_precompute
    BY <1>6, <2>1, <2>2
  <2>4. g \in s.include_all_callsites
    BY <1>4, <1>6, <2>3, LeadStale
  <2>5. c \in s.included \cup C
    BY <2>2, <2>3, <2>4 DEF LeadSound
  <2>. QED
    BY <1>6, <2>5
<1>. HIDE DEF sites, fresh
<1>11. ASSUME NEW x \in r.included
       PROVE  \/ FunctionOf(p, x) \in E \cup r.include_all_callsites
              \/ ForResult(p, r, FunctionOf(p, x))
  <2>1. CASE x \in q.inc
    BY <1>4, <1>5, <1>6, <2>1
  <2>2. CASE x \in s.included
    BY <1>6, <2>2 DEF LeadSound, ForResult
  <2>. QED
    BY <1>6, <2>1, <2>2
<1>12. \A f \in r.include_in_precompute : f \in E \cup r.include_all_callsites \/ ForResult(p, r, f)
  BY <1>4, <1>5, <1>6
<1>13. \A x \in Instr(p) : \A y \in r.needs[x] :
         FunctionOf(p, y) = FunctionOf(p, x) \/ ForResult(p, r, FunctionOf(p, y))
  BY <1>6 DEF LeadSound, ForResult
<1>14. r.include_all_callsites \subseteq T
  BY <1>4, <1>6
<1>. QED
  BY <1>7, <1>8, <1>9, <1>10, <1>11, <1>12, <1>13, <1>14 DEF LeadSound

\* What an instruction needs is inserted.
LEMMA LeadNeeds ==
  ASSUME NEW p \in Program, WellFormed(p), NEW can, NEW s, SliceSound(p, can, s),
         NEW T, LeadingApart(p, T), NEW C, LeadSound(p, T, C, {}, s),
         NEW x \in s.tainted, NEW Y \in SUBSET Instr(p),
         \A y \in Y : FunctionOf(p, y) = FunctionOf(p, x) \/ ForResult(p, s, FunctionOf(p, y)),
         NEW r, r = InsertNeeds(p, can, s, x, Y)
  PROVE  LeadSound(p, T, C, {}, r)
<1>. DEFINE t == [s EXCEPT !.tainted = @ \cup Y, !.visited = @ \ (Y \ s.needs[x]), !.needs[x] = @ \cup Y]
<1>1. x \in Instr(p)
  BY DEF SliceSound, SliceType
<1>2. /\ t.tainted = s.tainted \cup Y
      /\ t.visited = s.visited \ (Y \ s.needs[x])
      /\ t.needs = [s.needs EXCEPT ![x] = @ \cup Y]
      /\ t.included = s.included /\ t.requests = s.requests
      /\ t.include_in_precompute = s.include_in_precompute
      /\ t.include_all_callsites = s.include_all_callsites
      /\ SliceType(p, t)
  BY <1>1 DEF SliceSound, SliceType
<1>3. r = IF x \in s.included THEN Include(p, can, t, Y) ELSE t
  BY DEF InsertNeeds
<1>. HIDE DEF t
<1>4. \A y \in Instr(p) : t.needs[y] = IF y = x THEN s.needs[y] \cup Y ELSE s.needs[y]
  BY <1>1, <1>2 DEF SliceSound, SliceType
<1>5. \A f : ForResult(p, t, f) = ForResult(p, s, f)
  BY <1>2 DEF ForResult
<1>6. LeadSound(p, T, C, {}, t)
  <2>1. ASSUME NEW z \in Instr(p), NEW y \in t.needs[z]
        PROVE  FunctionOf(p, y) = FunctionOf(p, z) \/ ForResult(p, t, FunctionOf(p, y))
    BY <1>4, <1>5 DEF LeadSound
  <2>2. \A f \in t.include_in_precompute : Callsites(p, f) \subseteq t.tainted
    BY <1>2 DEF LeadSound
  <2>3. t.visited \subseteq t.tainted
    BY <1>2 DEF LeadSound
  <2>4. \A f \in t.include_in_precompute :
          f \in {} \cup t.include_all_callsites \/ ForResult(p, t, f)
    BY <1>2, <1>5 DEF LeadSound
  <2>5. \A z \in t.included :
          FunctionOf(p, z) \in {} \cup t.include_all_callsites \/ ForResult(p, t, FunctionOf(p, z))
    BY <1>2, <1>5 DEF LeadSound
  <2>6. \A c \in Calls(p) \cap t.visited :
          CallTargets(p, c) \cap t.include_all_callsites \cap t.include_in_precompute # {}
            => c \in t.included \cup C
    BY <1>2 DEF LeadSound
  <2>7. \A z \in p.request \ t.requests :
          z \in t.included /\ FunctionOf(p, z) \in t.include_all_callsites
    BY <1>2 DEF LeadSound
  <2>8. t.include_all_callsites \subseteq T
    BY <1>2 DEF LeadSound
  <2>. QED
    BY ONLY <2>1, <2>2, <2>3, <2>4, <2>5, <2>6, <2>7, <2>8 DEF LeadSound
<1>7. CASE x \in s.included
  <2>1. FunctionOf(p, x) \in s.include_all_callsites \/ ForResult(p, s, FunctionOf(p, x))
    BY <1>7 DEF LeadSound
  <2>2. \A y \in Y : \/ FunctionOf(p, y) \in {} \cup t.include_all_callsites
                     \/ ForResult(p, t, FunctionOf(p, y))
    BY <1>2, <1>5, <2>1
  <2>3. r = Include(p, can, t, Y)
    BY <1>3, <1>7
  <2>. QED
    BY <1>2, <1>6, <2>2, <2>3, LeadInclude
<1>. QED
  BY <1>3, <1>6, <1>7

\* A request.
LEMMA LeadRequest ==
  ASSUME NEW p \in Program, WellFormed(p), NEW can, NEW s, AnalysisSound(p, can, s),
         NEW T, LeadingApart(p, T), LeadSound(p, T, {}, {}, s),
         NEW x \in s.requests, NEW r, r = IncludeRequest(p, can, s, x)
  PROVE  LeadSound(p, T, {}, {}, r)
<1>. DEFINE X == {x}
            t == Include(p, can, s, X)
            f == FunctionOf(p, x)
            E == {f}
<1>1. x \in Instr(p) \ Calls(p) /\ x \in p.request
  BY DEF AnalysisSound, SliceSound, SliceType, WellFormed
<1>2. X \in SUBSET Instr(p) /\ SliceType(p, s)
  BY <1>1 DEF AnalysisSound, SliceSound
<1>3. \A y \in X : \/ FunctionOf(p, y) \in E \cup s.include_all_callsites
                   \/ ForResult(p, s, FunctionOf(p, y))
  OBVIOUS
<1>4. r = [t EXCEPT !.visited = (@ \cup {x}) \ (Callsites(p, f) \cap t.tainted),
                    !.include_all_callsites = @ \cup {f},
                    !.requests = @ \ {x}]
  BY DEF IncludeRequest
<1>5. f \in T
  <2>1. f \in Own(p) /\ HoldsRequest(p, f)
    BY <1>1, Placed DEF HoldsRequest
  <2>. HIDE DEF f
  <2>. QED
    BY <2>1 DEF LeadingApart, Leading
<1>6. \A g : g \in E <=> g = f
  OBVIOUS
<1>7. \A y : y \in X <=> y = x
  OBVIOUS
<1>. HIDE DEF X, E
<1>8. SliceSound(p, can, t) /\ X \subseteq t.included /\ t.requests = s.requests
  BY <1>2, IncludeKeeps DEF AnalysisSound
<1>9. LeadSound(p, T, {}, E, t)
  BY <1>2, <1>3, LeadInclude
<1>. HIDE DEF t, f
<1>10. /\ r.include_all_callsites = t.include_all_callsites \cup {f}
       /\ r.visited = (t.visited \cup {x}) \ (Callsites(p, f) \cap t.tainted)
       /\ r.requests = t.requests \ {x}
       /\ r.tainted = t.tainted /\ r.included = t.included /\ r.needs = t.needs
       /\ r.include_in_precompute = t.include_in_precompute
  BY <1>4, <1>8 DEF SliceSound, SliceType
<1>11. \A g : ForResult(p, t, g) => ForResult(p, r, g)
  BY <1>10 DEF ForResult
<1>12. x \in t.included /\ t.included \subseteq t.tainted
  BY <1>7, <1>8 DEF SliceSound
<1>13. r.visited \subseteq r.tainted
  BY <1>9, <1>10, <1>12 DEF LeadSound
<1>14. ASSUME NEW y \in p.request \ r.requests
       PROVE  y \in r.included /\ FunctionOf(p, y) \in r.include_all_callsites
  <2>1. CASE y = x
    BY <1>10, <1>12, <2>1 DEF f
  <2>2. CASE y # x
    BY <1>9, <1>10, <2>2 DEF LeadSound
  <2>. QED
    BY <2>1, <2>2
<1>15. r.include_all_callsites \subseteq T
  BY <1>5, <1>9, <1>10 DEF LeadSound
<1>16. \A g \in r.include_in_precompute : Callsites(p, g) \subseteq r.tainted
  BY <1>9, <1>10 DEF LeadSound
<1>17. ASSUME NEW c \in Calls(p) \cap r.visited,
              NEW g \in CallTargets(p, c) \cap r.include_all_callsites \cap r.include_in_precompute
       PROVE  c \in r.included
  <2>1. c # x /\ c \in t.visited /\ c \notin Callsites(p, f) \cap t.tainted
    BY <1>1, <1>10
  <2>2. c \in Callsites(p, g)
    BY DEF Callsites
  <2>3. g # f
    BY <1>10, <1>16, <2>1, <2>2
  <2>4. g \in t.include_all_callsites
    BY <1>10, <2>3
  <2>. QED
    BY <1>9, <1>10, <2>1, <2>4 DEF LeadSound
<1>18. \A y \in r.included :
         FunctionOf(p, y) \in r.include_all_callsites \/ ForResult(p, r, FunctionOf(p, y))
  BY <1>6, <1>9, <1>10, <1>11 DEF LeadSound
<1>19. \A g \in r.include_in_precompute : g \in r.include_all_callsites \/ ForResult(p, r, g)
  BY <1>6, <1>9, <1>10, <1>11 DEF LeadSound
<1>20. \A y \in Instr(p) : \A z \in r.needs[y] :
         FunctionOf(p, z) = FunctionOf(p, y) \/ ForResult(p, r, FunctionOf(p, z))
  BY <1>9, <1>10, <1>11 DEF LeadSound
<1>. QED
  BY ONLY <1>13, <1>14, <1>15, <1>16, <1>17, <1>18, <1>19, <1>20 DEF LeadSound

\* A visit.
LEMMA LeadVisit ==
  ASSUME NEW p \in Program, WellFormed(p), PlainProgram(p), NEW can, NEW s, AnalysisSound(p, can, s),
         NEW T, LeadingApart(p, T), LeadSound(p, T, {}, {}, s), s.requests = {},
         NEW x \in s.tainted, NEW r, r = VisitVal(p, can, s, x)
  PROVE  LeadSound(p, T, {}, {}, r)
<1>. DEFINE v == [s EXCEPT !.visited = @ \cup {x}]
            C == {x}
<1>1. x \in Instr(p)
  BY DEF AnalysisSound, SliceSound, SliceType
<1>2. /\ v.needs = s.needs /\ v.tainted = s.tainted /\ v.included = s.included
      /\ v.include_in_precompute = s.include_in_precompute
      /\ v.include_all_callsites = s.include_all_callsites
      /\ v.visited = s.visited \cup {x} /\ v.requests = s.requests
      /\ SliceType(p, v)
  BY <1>1 DEF AnalysisSound, SliceSound, SliceType
<1>3. x \in C /\ \A y \in C : y = x
  OBVIOUS
<1>. HIDE DEF C
<1>. HIDE DEF v
<1>4. SliceSound(p, can, v)
  BY <1>2 DEF AnalysisSound, SliceSound, IncludedClosed
<1>5. \A f : ForResult(p, v, f) <=> Used(p, f)
  BY <1>2 DEF ForResult
<1>6. CASE x \notin Calls(p)
  <2>. DEFINE Y == p.instr[x].uses
  <2>1. r = InsertNeeds(p, can, v, x, Y)
    BY <1>6 DEF VisitVal, v
  <2>2. Y \in SUBSET Instr(p) /\ \A y \in Y : FunctionOf(p, y) = FunctionOf(p, x)
    BY <1>1 DEF WellFormed, InstrOf
  <2>. HIDE DEF Y
  <2>3. LeadSound(p, T, {}, {}, v)
    BY <1>2, <1>6 DEF LeadSound, ForResult
  <2>. QED
    BY <1>2, <1>4, <2>1, <2>2, <2>3, LeadNeeds
<1>7. CASE x \in Calls(p)
  <2>. DEFINE a == VisitForRetval(p, can, v, x)
              b == VisitForException(p, can, a, x)
  <2>0. LeadSound(p, T, C, {}, v)
    BY <1>2, <1>3 DEF LeadSound, ForResult
  <2>1. r = CheckCall(p, can, b, x)
    BY <1>7 DEF VisitVal, VisitCall, v
  <2>2. b = a
    BY PlainFacts DEF VisitForException
  <2>3. SliceSound(p, can, a) /\ a.requests = {}
    BY <1>7, RetvalSound DEF v, AnalysisSound
  <2>4. LeadSound(p, T, C, {}, a)
    <3>. DEFINE Y == CalledReturns(p, x)
    <3>1. a = IF RetvalNeeded(p, v, x) THEN InsertNeeds(p, can, v, x, Y) ELSE v
      BY DEF VisitForRetval, CalledReturns
    <3>2. Y \in SUBSET Instr(p) /\ \A y \in Y : FunctionOf(p, y) \in CallTargets(p, x)
      BY DEF CalledReturns, Terminators, InstrOf
    <3>. HIDE DEF Y, a
    <3>3. ASSUME RetvalNeeded(p, v, x), NEW f \in CallTargets(p, x) PROVE ForResult(p, v, f)
      <4>1. PICK u \in v.tainted : x \in p.instr[u].uses
        BY <3>3 DEF RetvalNeeded
      <4>2. u \in Instr(p)
        BY <1>2 DEF SliceType
      <4>3. Used(p, f)
        BY <1>7, <3>3, <4>1, <4>2 DEF Used
      <4>. QED
        BY <1>5, <4>3
    <3>. QED
      BY <1>2, <1>4, <2>0, <3>1, <3>2, <3>3, LeadNeeds
  <2>. HIDE DEF a, b
  <2>5. CASE x \in a.included
    <3>1. r = a
      BY <2>1, <2>2, <2>5 DEF CheckCall
    <3>. QED
      BY <1>3, <2>4, <2>5, <3>1 DEF LeadSound
  <2>6. CASE CallTargets(p, x) \cap a.include_all_callsites = {}
    <3>1. r = a
      BY <2>1, <2>2, <2>6 DEF CheckCall
    <3>. QED
      BY <1>3, <2>4, <2>6, <3>1 DEF LeadSound
  <2>7. CASE x \notin a.included /\ CallTargets(p, x) \cap a.include_all_callsites # {}
    <3>. DEFINE m == [a EXCEPT !.include_all_callsites = @ \cup {FunctionOf(p, x)}]
                X == {x}
                f == FunctionOf(p, x)
    <3>1. r = Include(p, can, m, X)
      BY <2>1, <2>2, <2>7 DEF CheckCall
    <3>2. /\ m.needs = a.needs /\ m.tainted = a.tainted /\ m.included = a.included
          /\ m.include_in_precompute = a.include_in_precompute
          /\ m.include_all_callsites = a.include_all_callsites \cup {f}
          /\ m.visited = a.visited /\ m.requests = a.requests
          /\ SliceType(p, m)
      BY <1>1, <2>3, Placed DEF SliceSound, SliceType
    <3>3. f \in T
      BY <1>7, <2>4, <2>7 DEF LeadSound, LeadingApart, Leading
    <3>. HIDE DEF m
    <3>4. f \in a.include_in_precompute => f \in a.include_all_callsites
      BY <2>4, <3>3, LeadStale
    <3>5. X \in SUBSET Instr(p) /\ x \in X
      BY <1>1
    <3>6. \A y \in X : \/ FunctionOf(p, y) \in {} \cup m.include_all_callsites
                       \/ ForResult(p, m, FunctionOf(p, y))
      BY <3>2
    <3>. HIDE DEF X, f
    <3>7. LeadSound(p, T, C, {}, m)
      <4>1. \A g : ForResult(p, m, g) = ForResult(p, a, g)
        BY <3>2 DEF ForResult
      <4>2. m.include_all_callsites \cap m.include_in_precompute
              = a.include_all_callsites \cap a.include_in_precompute
        BY <3>2, <3>4
      <4>3. \A c \in Calls(p) \cap m.visited :
              CallTargets(p, c) \cap m.include_all_callsites \cap m.include_in_precompute # {}
                => c \in m.included \cup C
        <5>. SUFFICES ASSUME NEW c \in Calls(p) \cap a.visited,
                             NEW g \in CallTargets(p, c), g \in m.include_all_callsites \cap m.include_in_precompute
                      PROVE  c \in m.included \cup C
          BY <3>2
        <5>1. g \in CallTargets(p, c) \cap a.include_all_callsites \cap a.include_in_precompute
          BY <4>2
        <5>. QED
          BY <2>4, <3>2, <5>1 DEF LeadSound
      <4>. QED
        BY <2>4, <3>2, <3>3, <4>1, <4>3 DEF LeadSound
    <3>8. LeadSound(p, T, C, {}, r)
      BY <3>1, <3>2, <3>5, <3>6, <3>7, LeadInclude
    <3>9. x \in r.included
      <4>1. SliceSound(p, can, m)
        BY <2>3, <3>2 DEF SliceSound, IncludedClosed
      <4>. QED
        BY <3>1, <3>5, <4>1, IncludeKeeps
    <3>. QED
      BY <1>3, <3>8, <3>9 DEF LeadSound
  <2>. QED
    BY <2>5, <2>6, <2>7
<1>. QED
  BY <1>6, <1>7

LeadInv ==
  PlainProgram(program) => \A T : LeadingApart(program, T) => LeadSound(program, T, {}, {}, slice)

\* In such a program it holds at each step of the pass.
THEOREM LeadInvariant == Spec => []LeadInv
<1>1. Init => LeadInv
  BY DEF Init, LeadInv, LeadSound, EmptySlice
<1>2. SliceInv /\ LeadInv /\ [Next]_vars => LeadInv'
  <2>0. SUFFICES ASSUME SliceInv, LeadInv, [Next]_vars, PlainProgram(program)'
                 PROVE  \A T : LeadingApart(program, T)' => LeadSound(program, T, {}, {}, slice)'
    BY DEF LeadInv
  <2>1. program' = program
    BY <2>0 DEF Next, ExceptNext, AnalyzeFunction, AnalyzeCallee, CheckCallee, NoCalleeExcepts,
                Analysis, Insertion, Start, SliceStep, OriginalStep, vars, exceptVars
  <2>. SUFFICES ASSUME NEW T, LeadingApart(program, T) PROVE LeadSound(program, T, {}, {}, slice')
    BY <2>1
  <2>2. program \in Program /\ WellFormed(program)
    BY <2>0, WellFormedAssumption DEF SliceInv
  <2>3. PlainProgram(program) /\ LeadSound(program, T, {}, {}, slice)
    BY <2>0, <2>1 DEF LeadInv
  <2>4. CASE Request
    <3>1. PICK x \in slice.requests :
            slice' = IncludeRequest(program, can_except_in_precompute, slice, x)
      BY <2>4 DEF Request
    <3>. QED
      BY <2>0, <2>2, <2>3, <3>1, LeadRequest DEF SliceInv
  <2>5. CASE Visit
    <3>1. PICK x \in ToVisit : slice' = VisitVal(program, can_except_in_precompute, slice, x)
      BY <2>5 DEF Visit
    <3>2. x \in slice.tainted /\ slice.requests = {}
      BY <2>5 DEF ToVisit, Visit
    <3>. QED
      BY <2>0, <2>2, <2>3, <3>1, <3>2, LeadVisit DEF SliceInv
  <2>6. CASE slice' = slice
    BY <2>3, <2>6
  <2>. QED
    BY <2>0, <2>4, <2>5, <2>6 DEF Next, Analysis, Insertion, Start, SliceStep, OriginalStep, vars
<1>. QED
  BY <1>1, <1>2, SliceInvariant, PTL DEF Spec

\* When the analysis is done a request is included, the function it is in and those that
\* call that one are copied, and each call that leads to a request is included.
LEMMA LeadDone ==
  ASSUME SliceInv, PlainInv, LeadInv, AnalysisDone, PlainProgram(program), ResultsApart(program)
  PROVE  /\ \A x \in program.request :
              Included(x) /\ FunctionOf(program, x) \in slice.include_all_callsites
         /\ \A c \in Calls(program) :
              program.instr[c].callee \in slice.include_all_callsites =>
                Included(c) /\ FunctionOf(program, c) \in slice.include_all_callsites
<1>1. program \in Program /\ WellFormed(program)
  BY WellFormedAssumption DEF SliceInv
<1>2. PICK T : LeadingApart(program, T)
  BY DEF ResultsApart, LeadingApart
<1>3. LeadSound(program, T, {}, {}, slice)
  BY <1>2 DEF LeadInv
<1>4. slice.requests = {} /\ slice.tainted \subseteq slice.visited
  BY DEF AnalysisDone, ToVisit
<1>5. \A x \in program.request :
        Included(x) /\ FunctionOf(program, x) \in slice.include_all_callsites
  BY <1>3, <1>4 DEF LeadSound, Included
<1>6. ASSUME NEW c \in Calls(program), program.instr[c].callee \in slice.include_all_callsites
      PROVE  Included(c) /\ FunctionOf(program, c) \in slice.include_all_callsites
  <2>. DEFINE g == program.instr[c].callee
              f == FunctionOf(program, c)
  <2>1. CallTargets(program, c) = {g} /\ c \in Instr(program)
    BY <1>1, PlainFacts
  <2>2. g \in slice.include_in_precompute /\ g \in slice.include_all_callsites
    BY <1>6 DEF PlainInv, PlainSound
  <2>. HIDE DEF g
  <2>3. c \in Callsites(program, g)
    BY <2>1 DEF Callsites
  <2>4. c \in slice.visited
    BY <1>3, <1>4, <2>2, <2>3 DEF LeadSound
  <2>5. c \in slice.included
    BY <1>3, <2>1, <2>2, <2>4 DEF LeadSound
  <2>6. f \in T
    BY <1>2, <1>3, <2>1, <2>2 DEF LeadSound, LeadingApart, Leading
  <2>7. EntryBefore(program, BlockOf(program, c))
    BY <1>1, <2>1, Placed DEF PlainProgram
  <2>8. f \in slice.include_in_precompute
    BY <1>1, <2>5, <2>7, EntryIncluded DEF SliceInv, AnalysisSound
  <2>. HIDE DEF f
  <2>9. f \in slice.include_all_callsites
    BY <1>1, <1>2, <1>3, <2>6, <2>8, LeadStale
  <2>. QED
    BY <2>5, <2>9 DEF Included, f
<1>. QED
  BY <1>5, <1>6

-----------------------------------------------------------------------------
(* The slice is ahead of the program, which has nothing to pass before it.  *)

\* The code of a program with neither exceptions nor virtual calls, the copies P of which are
\* pruned: no other instruction is changed, and a block has the successors it had or none.
PlainCode(c, P) ==
  /\ \A x \in Instr(program) :
       c.op[x] = IF FunctionOf(program, x) \in P THEN PrunedOp(x, program.instr[x].op)
                 ELSE program.instr[x].op
  /\ \A b \in DOMAIN program.block : c.succ[b] \in {program.block[b].succ, <<>>}

PlainCodeInv ==
  PlainProgram(program) /\ insertion # "analysis" => PlainCode(code, PrunedCopies)

\* The copies are made.
LEMMA PlainCopy ==
  ASSUME CopyFunctions
  PROVE  PlainCode(code', {})
<1>. DEFINE o == OriginalCode(program)
<1>1. \E calls : code' = [o EXCEPT !.calls = calls]
  BY DEF CopyFunctions
<1>2. /\ DOMAIN o = CodeFields
      /\ o.op = [x \in Instr(program) |-> program.instr[x].op]
      /\ o.succ = [b \in DOMAIN program.block |-> program.block[b].succ]
  BY DEF OriginalCode, CodeFields
<1>. HIDE DEF o
<1>3. code'.op = o.op /\ code'.succ = o.succ
  BY <1>1, <1>2 DEF CodeFields
<1>. QED
  BY <1>2, <1>3 DEF PlainCode

\* Their calls are replaced.
LEMMA PlainReplace ==
  ASSUME SliceReady, PlainProgram(program), NEW f, NEW A, CodeOK(code, A, {}), PlainCode(code, {}),
         ReplaceInCopy(f)
  PROVE  PlainCode(code', {})
<1>. DEFINE body == InstrOf(program, f)
            calls == {x \in body : Exceptionless(program, can_except_in_precompute, slice, x)}
            renamed == {x \in body \cap Calls(program) :
                          Included(x) /\ ~ Indirect(program, x) /\ program.instr[x].callee \in Copied}
            checked == {x \in body \cap Calls(program) : Included(x) /\ NullChecked(program, slice, x)}
            d == [code EXCEPT
                    !.op = [x \in DOMAIN @ |-> IF x \in calls THEN "call" ELSE @[x]],
                    !.calls = [x \in DOMAIN @ |->
                      IF x \in renamed THEN [c \in DOMAIN @[x] |-> CopyOf(program.instr[x].callee)]
                      ELSE @[x]],
                    !.checked = @ \cup checked,
                    !.succ = [b \in DOMAIN @ |-> IF Terminator(program, b) \in calls
                                                 THEN <<Head(@[b])>> ELSE @[b]]]
<1>1. code' = MergeBlocks(d, BlocksOf(program, f))
  BY DEF ReplaceInCopy
<1>2. /\ DOMAIN code = CodeFields /\ DOMAIN code.op = Instr(program)
      /\ DOMAIN code.succ = DOMAIN program.block
  BY DEF CodeOK
<1>3. calls = {}
  BY PlainFacts DEF Exceptionless, SliceReady
<1>. HIDE DEF calls, renamed, checked
<1>4. /\ DOMAIN d = CodeFields
      /\ d.op = [x \in Instr(program) |-> code.op[x]]
      /\ d.succ = [b \in DOMAIN program.block |-> code.succ[b]]
  BY <1>2, <1>3 DEF CodeFields
<1>. HIDE DEF d
<1>5. code'.op = d.op /\ code'.succ = d.succ
  BY <1>1, <1>4, MergeKeeps
<1>. QED
  BY <1>4, <1>5 DEF PlainCode

\* A copy is pruned.
LEMMA PlainPrune ==
  ASSUME SliceReady, NEW f, NEW A, NEW P, f \notin P, CodeOK(code, A, P), PlainCode(code, P),
         PruneFunctionCopy(f)
  PROVE  PlainCode(code', P \cup {f})
<1>. DEFINE body == InstrOf(program, f)
            op == [x \in DOMAIN code.op |-> IF x \in body THEN PrunedOp(x, code.op[x]) ELSE code.op[x]]
            succ == [b \in DOMAIN code.succ |->
                       IF op[Terminator(program, b)] = "return" THEN <<>> ELSE code.succ[b]]
            entry == program.function[f].entry
            reachable == Reachable(succ, entry)
            d == [code EXCEPT
                   !.op = op,
                   !.succ = [b \in DOMAIN @ |->
                     IF b \in BlocksOf(program, f) \ reachable THEN <<>> ELSE succ[b]],
                   !.incoming = [b \in DOMAIN @ |->
                     IF b \in reachable
                     THEN SelectSeq(@[b], LAMBDA a : \E x \in reachable : code.merged[x] = a)
                     ELSE @[b]]]
            m == MergeBlocks(d, reachable)
<1>1. code' = [m EXCEPT !.incoming = [b \in DOMAIN @ |->
                 IF b \in reachable THEN PhiIncoming(m, b) ELSE @[b]]]
  BY DEF PruneFunctionCopy
<1>2. /\ DOMAIN code = CodeFields /\ DOMAIN code.op = Instr(program)
      /\ DOMAIN code.succ = DOMAIN program.block
  BY DEF CodeOK
<1>3. /\ DOMAIN d = CodeFields /\ d.op = op
      /\ d.succ = [b \in DOMAIN program.block |->
                     IF b \in BlocksOf(program, f) \ reachable THEN <<>> ELSE succ[b]]
  <2>. HIDE DEF op, succ, reachable
  <2>. QED
    BY <1>2 DEF CodeFields
<1>4. code'.op = d.op /\ code'.succ = d.succ
  <2>. HIDE DEF d, reachable
  <2>1. DOMAIN m = CodeFields /\ m.op = d.op /\ m.succ = d.succ
    BY <1>3, MergeKeeps
  <2>. HIDE DEF m
  <2>. QED
    BY <1>1, <2>1 DEF CodeFields
<1>. HIDE DEF d, m
<1>5. ASSUME NEW x \in Instr(program)
      PROVE  op[x] = IF FunctionOf(program, x) = f THEN PrunedOp(x, code.op[x]) ELSE code.op[x]
  BY <1>2 DEF InstrOf
<1>6. \A b \in DOMAIN program.block : succ[b] \in {code.succ[b], <<>>}
  BY <1>2
<1>. HIDE DEF op, succ, reachable
<1>7. ASSUME NEW x \in Instr(program)
      PROVE  code'.op[x] = IF FunctionOf(program, x) \in P \cup {f}
                           THEN PrunedOp(x, program.instr[x].op) ELSE program.instr[x].op
  BY <1>3, <1>4, <1>5 DEF PlainCode
<1>8. ASSUME NEW b \in DOMAIN program.block
      PROVE  code'.succ[b] \in {program.block[b].succ, <<>>}
  BY <1>3, <1>4, <1>6 DEF PlainCode
<1>. QED
  BY <1>7, <1>8 DEF PlainCode

\* The code of such a program is plain in each phase of the insertion.
LEMMA PlainCodeInvariant == Spec => []PlainCodeInv
<1>1. Init => PlainCodeInv
  BY DEF Init, PlainCodeInv
<1>2. SliceInv /\ CodeInv /\ PlainCodeInv /\ [Next]_vars => PlainCodeInv'
  <2>0. SUFFICES ASSUME SliceInv, CodeInv, PlainCodeInv, [Next]_vars,
                        PlainProgram(program)', insertion' # "analysis"
                 PROVE  PlainCode(code, PrunedCopies)'
    BY DEF PlainCodeInv
  <2>1. SliceReady
    BY <2>0, ReadySlice
  <2>2. program' = program
    BY <2>0 DEF Next, ExceptNext, AnalyzeFunction, AnalyzeCallee, CheckCallee, NoCalleeExcepts, Analysis,
           Insertion, Start, SliceStep, OriginalStep, vars, exceptVars
  <2>3. PlainProgram(program)
    BY <2>0, <2>2
  <2>. DEFINE P(i, m) == CASE i = "replace" -> {}
                           [] i = "prune" -> Copied \ m
                           [] OTHER -> Copied
  <2>4. ASSUME slice' = slice, PlainCode(code', P(insertion', remaining'))
        PROVE  PlainCode(code, PrunedCopies)'
    <3>1. PrunedCopies' = P(insertion', remaining')
      BY <2>4 DEF PrunedCopies, Copied
    <3>2. \A x, op : PrunedOp(x, op)' = PrunedOp(x, op)
      BY <2>4 DEF PrunedOp, Included
    <3>. HIDE DEF P
    <3>. QED
      BY <2>2, <2>4, <3>1, <3>2 DEF PlainCode
  <2>5. insertion # "analysis" => PlainCode(code, P(insertion, remaining))
    BY <2>0, <2>3 DEF PlainCodeInv, PrunedCopies
  <2>6. insertion # "analysis" =>
          CodeOK(code, ReplacedCopies, P(insertion, remaining)) /\ remaining \subseteq Copied
    BY <2>0 DEF CodeInv, PrunedCopies
  <2>7. CASE UNCHANGED <<insertion, remaining, code>>
    <3>1. slice' = slice
      BY <2>0, <2>7, SliceStays
    <3>2. PlainCode(code', P(insertion', remaining'))
      BY <2>0, <2>5, <2>7
    <3>. HIDE DEF P
    <3>. QED
      BY <2>4, <3>1, <3>2
  <2>8. CASE CopyFunctions /\ UNCHANGED <<exceptVars, slice, runVars>>
    <3>1. PlainCode(code', {}) /\ insertion' = "replace"
      BY <2>8, PlainCopy DEF CopyFunctions
    <3>. QED
      BY <2>4, <2>8, <3>1
  <2>9. CASE ReplaceCalls /\ UNCHANGED <<exceptVars, slice, runVars>>
    <3>1. PICK f \in remaining : ReplaceInCopy(f)
      BY <2>9 DEF ReplaceCalls
    <3>2. insertion = "replace" /\ insertion' = "replace"
      BY <2>9 DEF ReplaceCalls
    <3>3. PlainCode(code', {})
      BY <2>1, <2>3, <2>5, <2>6, <3>1, <3>2, PlainReplace
    <3>. QED
      BY <2>4, <2>9, <3>2, <3>3
  <2>10. CASE Prune /\ UNCHANGED <<exceptVars, slice, runVars>>
    <3>1. PICK f \in remaining : PruneFunctionCopy(f) /\ remaining' = remaining \ {f}
      BY <2>10 DEF Prune
    <3>2. /\ insertion = "prune" /\ insertion' = "prune" /\ remaining \subseteq Copied
          /\ CodeOK(code, ReplacedCopies, Copied \ remaining) /\ PlainCode(code, Copied \ remaining)
      BY <2>5, <2>6, <2>10 DEF Prune
    <3>3. PlainCode(code', (Copied \ remaining) \cup {f})
      BY <2>1, <3>1, <3>2, PlainPrune
    <3>4. (Copied \ remaining) \cup {f} = Copied \ remaining'
      BY <3>1, <3>2
    <3>. QED
      BY <2>4, <2>10, <3>2, <3>3, <3>4
  <2>11. CASE NextLoop /\ UNCHANGED <<exceptVars, slice, runVars>>
    <3>1. /\ insertion \in {"replace", "prune"} /\ remaining = {} /\ code' = code
          /\ IF insertion = "replace" THEN insertion' = "prune" /\ remaining' = Copied
             ELSE insertion' = "inserted" /\ remaining' = {}
      BY <2>11 DEF NextLoop
    <3>2. Copied \ {} = Copied /\ Copied \ Copied = {}
      OBVIOUS
    <3>3. PlainCode(code', P(insertion', remaining'))
      BY <2>5, <3>1, <3>2
    <3>. HIDE DEF P
    <3>. QED
      BY <2>4, <2>11, <3>3
  <2>12. CASE Start
    <3>1. /\ insertion = "inserted" /\ insertion' = "running" /\ code' = code /\ slice' = slice
      BY <2>12 DEF Start
    <3>2. PlainCode(code', P(insertion', remaining'))
      BY <2>5, <3>1
    <3>. HIDE DEF P
    <3>. QED
      BY <2>4, <3>1, <3>2
  <2>. QED
    BY <2>0, <2>7, <2>8, <2>9, <2>10, <2>11, <2>12
    DEF Next, Analysis, Insertion, SliceStep, OriginalStep, vars, insertionVars
<1>. QED
  BY <1>1, <1>2, SliceInvariant, CodeInvariant, PTL DEF Spec

\* The place behind an instruction of the same block.
Behind(e) == [block |-> e.block, index |-> e.index + 1]

\* What a step does to the calls in progress s, of which it leaves t: the last one moves to
\* e, returns, or enters a function at e.
Moves(s, t, e) ==
  Len(t) = Len(s) /\ t[Len(s)] = e /\ \A k \in 1 .. Len(s) - 1 : t[k] = s[k]
Returns(s, t) ==
  /\ Len(t) = Len(s) - 1 /\ \A k \in 1 .. Len(s) - 2 : t[k] = s[k]
  /\ Len(s) > 1 => t[Len(s) - 1] = Behind(s[Len(s) - 1])
Enters(s, t, e) ==
  Len(t) = Len(s) + 1 /\ t[Len(s) + 1] = e /\ \A k \in 1 .. Len(s) : t[k] = s[k]

\* Control goes to another block.
LEMMA GotoMoves ==
  ASSUME NEW S, NEW r, IsRun(r), r.stack \in Seq(S), r.stack # <<>>, NEW b
  PROVE  Moves(r.stack, Goto(r, b).stack, At(b)) /\ SameRun(Goto(r, b), r)
<1>. DEFINE s == r.stack
            t == Append(Front(s), At(b))
<1>1. Goto(r, b).stack = t /\ SameRun(Goto(r, b), r)
  BY DEF Goto, IsRun, RunFields, SameRun
<1>2. /\ Front(s) \in Seq(S) /\ Len(s) \in Nat \ {0} /\ DOMAIN Front(s) = 1 .. Len(s) - 1
      /\ \A k \in 1 .. Len(s) - 1 : Front(s)[k] = s[k]
  BY Popped
<1>3. Len(Front(s)) = Len(s) - 1
  BY <1>2
<1>4. Len(t) = Len(s) /\ t[Len(s)] = At(b) /\ \A k \in 1 .. Len(s) - 1 : t[k] = s[k]
  BY <1>2, <1>3
<1>. QED
  BY <1>1, <1>4 DEF Moves

\* A call in progress goes on.
LEMMA ContinueMoves ==
  ASSUME NEW S, NEW r, IsRun(r), r.stack \in Seq(S), r.stack # <<>>, NEW c, NEW e,
         e = r.stack[Len(r.stack)], e.index \in Nat, e = [block |-> e.block, index |-> e.index]
  PROVE  /\ Moves(r.stack, Continue(c, r).stack,
                  IF InstrAt(e) = Terminator(program, e.block) THEN At(c.succ[e.block][1]) ELSE Behind(e))
         /\ SameRun(Continue(c, r), r)
<1>. DEFINE s == r.stack
            n == Len(s)
<1>1. Here(s) = InstrAt(e) /\ Last(s) = e /\ n \in Nat \ {0}
  BY HereIs, Popped
<1>2. CASE InstrAt(e) = Terminator(program, e.block)
  <2>1. Continue(c, r) = Goto(r, c.succ[e.block][1])
    BY <1>1, <1>2 DEF Continue
  <2>. QED
    BY <1>2, <2>1, GotoMoves
<1>3. CASE InstrAt(e) # Terminator(program, e.block)
  <2>. DEFINE d == [s[n] EXCEPT !.index = @ + 1]
              t == [s EXCEPT ![n] = d]
  <2>1. Continue(c, r) = [r EXCEPT !.stack = t]
    BY <1>1, <1>3 DEF Continue, RunFields, IsRun
  <2>2. d = Behind(e)
    BY DEF Behind
  <2>. HIDE DEF d
  <2>3. Len(t) = n /\ t[n] = d /\ \A k \in 1 .. n - 1 : t[k] = s[k]
    BY <1>1
  <2>. HIDE DEF t
  <2>4. Continue(c, r).stack = t /\ SameRun(Continue(c, r), r)
    BY <2>1 DEF RunFields, IsRun, SameRun
  <2>. QED
    BY <1>3, <2>2, <2>3, <2>4 DEF Moves
<1>. QED
  BY <1>2, <1>3

\* A call is finished: the one it was made by goes on behind it.
LEMMA ReturnMoves ==
  ASSUME NEW S, NEW r, IsRun(r), r.stack \in Seq(S), r.stack # <<>>, NEW c,
         \A k \in 1 .. Len(r.stack) - 1 :
           /\ InstrAt(r.stack[k]) # Terminator(program, r.stack[k].block)
           /\ r.stack[k].index \in Nat
           /\ r.stack[k] = [block |-> r.stack[k].block, index |-> r.stack[k].index]
  PROVE  /\ Returns(r.stack, Return(c, r).stack)
         /\ Return(c, r).copy = r.copy
         /\ Return(c, r).status = IF Len(r.stack) = 1 THEN "finished" ELSE r.status
<1>. DEFINE s == r.stack
            n == Len(s)
            popped == [r EXCEPT !.stack = Front(@)]
<1>0. /\ n \in Nat \ {0} /\ Front(s) \in Seq(S) /\ DOMAIN Front(s) = 1 .. n - 1
      /\ \A k \in 1 .. n - 1 : Front(s)[k] = s[k]
  BY Popped
<1>1. /\ n \in Nat \ {0} /\ Front(s) \in Seq(S) /\ Len(Front(s)) = n - 1
      /\ \A k \in 1 .. n - 1 : Front(s)[k] = s[k]
  <2>. HIDE DEF n
  <2>. QED
    BY <1>0
<1>2. IsRun(popped) /\ popped.stack = Front(s) /\ SameRun(popped, r)
  BY DEF RunFields, IsRun, SameRun
<1>3. Return(c, r) = IF popped.stack = <<>> THEN [popped EXCEPT !.status = "finished"]
                     ELSE Continue(c, popped)
  BY DEF Return
<1>. HIDE DEF popped
<1>4. CASE n = 1
  <2>1. Front(s) = <<>>
    BY <1>1, <1>4
  <2>2. /\ Return(c, r).stack = <<>> /\ Return(c, r).status = "finished"
        /\ Return(c, r).copy = r.copy
    BY <1>2, <1>3, <2>1 DEF IsRun, RunFields, SameRun
  <2>. QED
    BY <1>4, <2>2 DEF Returns
<1>5. CASE n # 1
  <2>. DEFINE e == s[n - 1]
  <2>0. n - 1 \in 1 .. n - 1
    <3>. HIDE DEF n
    <3>. QED
      BY <1>1, <1>5
  <2>1. n - 1 \in 1 .. n - 1 /\ popped.stack # <<>> /\ popped.stack[Len(popped.stack)] = e
    <3>1. Front(s)[n - 1] = e /\ Len(Front(s)) = n - 1
      BY <1>1, <2>0
    <3>. HIDE DEF n, e
    <3>2. Front(s) # <<>>
      BY <2>0, <3>1
    <3>. QED
      BY <1>2, <2>0, <3>1, <3>2
  <2>2. /\ InstrAt(e) # Terminator(program, e.block) /\ e.index \in Nat
        /\ e = [block |-> e.block, index |-> e.index]
    BY <2>1
  <2>. HIDE DEF e
  <2>3. Moves(popped.stack, Continue(c, popped).stack, Behind(e)) /\ SameRun(Continue(c, popped), popped)
    BY <1>1, <1>2, <2>1, <2>2, ContinueMoves
  <2>4. Return(c, r) = Continue(c, popped)
    BY <1>3, <2>1
  <2>5. \A k \in 1 .. n - 2 : k \in 1 .. (n - 1) - 1 /\ k \in 1 .. n - 1
    BY <1>1
  <2>. QED
    BY <1>1, <1>2, <1>5, <2>3, <2>4, <2>5 DEF Moves, Returns, SameRun, e
<1>. QED
  BY <1>4, <1>5

\* What a step of code c from r to q does, with neither invokes nor resumes.
PlainDoes(c, r, choice, q) ==
  LET s == r.stack
      e == s[Len(s)]
      x == InstrAt(e)
      op == c.op[x]
      target == c.calls[x][choice.class]
  IN  /\ op \in {"ret", "return"} =>
           /\ Returns(s, q.stack)
           /\ q.status = IF Len(s) = 1 THEN "finished" ELSE r.status
      /\ op = "condbr" =>
           Moves(s, q.stack, At(c.succ[e.block][choice.branch])) /\ q.status = r.status
      /\ op = "call" /\ target.fn \in Own(program) /\ target.copy = r.copy =>
           Enters(s, q.stack, Entry(target.fn)) /\ q.status = r.status
      /\ op = "call" /\ target.fn \notin Own(program) /\ target.fn # "" =>
           IF program.function[target.fn].kind = "throws" /\ choice.throws
           THEN q.status = "aborted"
           ELSE Moves(s, q.stack, Behind(e)) /\ q.status = r.status
      /\ op \notin {"ret", "return", "condbr", "call"} =>
           /\ Moves(s, q.stack, IF x = Terminator(program, e.block) THEN At(c.succ[e.block][1])
                                ELSE Behind(e))
           /\ q.status = r.status

\* Execute does this.
LEMMA PlainStep ==
  ASSUME SliceReady, PlainProgram(program), NEW R \in SUBSET DOMAIN program.block, NEW c,
         NEW r, RunnableCode(c, R, r.copy), IsRun(r), StackOK(c, R, r.stack),
         c.op[InstrAt(r.stack[Len(r.stack)])] \notin {"invoke", "resume"}, NEW choice
  PROVE  PlainDoes(c, r, choice, Execute(c, r, choice))
<1>. DEFINE s == r.stack
            n == Len(s)
            e == s[n]
            x == InstrAt(e)
            op == c.op[x]
            target == c.calls[x][choice.class]
            q == Execute(c, r, choice)
<1>1. /\ s \in Seq(Places(R)) /\ s # <<>> /\ n \in Nat \ {0} /\ e \in Places(R)
      /\ Here(s) = x /\ Last(s) = e
  BY HereIs, Popped DEF StackOK
<1>2. /\ e.index \in Nat /\ e = [block |-> e.block, index |-> e.index] /\ x \in Instr(program)
      /\ program.instr[x].op \in TerminatorOps <=> x = Terminator(program, e.block)
  BY <1>1, PlaceFacts
<1>3. Invokes(program) = {} /\ \A y \in Calls(program) : program.instr[y].op = "call"
  BY PlainFacts DEF SliceReady
<1>4. \A y \in Instr(program) : c.op[y] \in {"call", "invoke"} => program.instr[y].op = "call"
  <2>. SUFFICES ASSUME NEW y \in Instr(program), c.op[y] \in {"call", "invoke"}
                PROVE  program.instr[y].op = "call"
    OBVIOUS
  <2>1. c.op[y] = "invoke" => y \in Invokes(program)
    BY DEF RunnableCode, Invokes
  <2>2. c.op[y] = "call" => y \in Calls(program)
    BY DEF RunnableCode
  <2>. QED
    BY <1>3, <2>1, <2>2
<1>5. ASSUME NEW k \in 1 .. n - 1
      PROVE  /\ InstrAt(s[k]) # Terminator(program, s[k].block) /\ s[k].index \in Nat
             /\ s[k] = [block |-> s[k].block, index |-> s[k].index]
  <2>1. s[k] \in Places(R) /\ c.op[InstrAt(s[k])] \in {"call", "invoke"}
    BY <1>1 DEF StackOK
  <2>2. /\ InstrAt(s[k]) \in Instr(program) /\ s[k].index \in Nat
        /\ s[k] = [block |-> s[k].block, index |-> s[k].index]
        /\ program.instr[InstrAt(s[k])].op \in TerminatorOps
             <=> InstrAt(s[k]) = Terminator(program, s[k].block)
    BY <2>1, PlaceFacts
  <2>3. program.instr[InstrAt(s[k])].op = "call"
    BY <1>4, <2>1, <2>2
  <2>. QED
    BY <2>2, <2>3 DEF TerminatorOps
<1>6. CASE op \in {"ret", "return"}
  <2>1. q = Return(c, r)
    BY <1>1, <1>6 DEF Execute
  <2>2. Returns(s, Return(c, r).stack) /\ Return(c, r).status = IF n = 1 THEN "finished" ELSE r.status
    BY <1>1, <1>5, ReturnMoves
  <2>. QED
    BY <1>6, <2>1, <2>2 DEF PlainDoes
<1>7. CASE op = "condbr"
  <2>1. q = Goto(r, c.succ[e.block][choice.branch])
    BY <1>1, <1>7 DEF Execute
  <2>. QED
    BY <1>1, <1>7, <2>1, GotoMoves DEF SameRun, PlainDoes
<1>8. CASE op = "call"
  <2>1. q = Call(c, r, x, choice)
    BY <1>1, <1>8 DEF Execute
  <2>2. "" \notin Own(program)
    BY DEF SliceReady, WellFormed, Own
  <2>3. x # Terminator(program, e.block)
    BY <1>2, <1>4, <1>8 DEF TerminatorOps
  <2>4. Moves(s, Continue(c, r).stack, Behind(e)) /\ SameRun(Continue(c, r), r)
    BY <1>1, <1>2, <2>3, ContinueMoves
  <2>5. ASSUME target.fn \in Own(program), target.copy = r.copy
        PROVE  Enters(s, q.stack, Entry(target.fn)) /\ q.status = r.status
    <3>1. target # NullFunction
      BY <2>2, <2>5, TargetFields
    <3>2. q = [r EXCEPT !.stack = Append(@, Entry(target.fn))]
      BY <2>1, <2>5, <3>1 DEF Call
    <3>3. q.stack = Append(s, Entry(target.fn)) /\ q.status = r.status
      BY <3>2 DEF IsRun, RunFields
    <3>4. Enters(s, Append(s, Entry(target.fn)), Entry(target.fn))
      BY <1>1, Pushed DEF Enters
    <3>. QED
      BY <3>3, <3>4
  <2>6. ASSUME target.fn \notin Own(program), target.fn # ""
        PROVE  IF program.function[target.fn].kind = "throws" /\ choice.throws
               THEN q.status = "aborted" ELSE Moves(s, q.stack, Behind(e)) /\ q.status = r.status
    <3>1. target # NullFunction
      BY <2>6, TargetFields
    <3>2. q = IF program.function[target.fn].kind = "throws" /\ choice.throws
              THEN Unwound(c, r) ELSE Continue(c, r)
      BY <2>1, <2>6, <3>1 DEF Call
    <3>3. Unwound(c, r).status = "aborted"
      <4>. DEFINE catching == {k \in DOMAIN s : c.op[Here(SubSeq(s, 1, k))] = "invoke"}
      <4>1. ASSUME NEW k \in catching PROVE FALSE
        <5>1. k \in 1 .. n /\ Here(SubSeq(s, 1, k)) = InstrAt(s[k]) /\ s[k] \in Places(R)
          BY <1>1, HereIs
        <5>2. InstrAt(s[k]) \in Instr(program) /\ c.op[InstrAt(s[k])] = "invoke"
          BY <5>1, PlaceFacts
        <5>3. InstrAt(s[k]) \in Invokes(program)
          BY <5>2 DEF RunnableCode, Invokes
        <5>. QED
          BY <1>3, <5>3
      <4>2. catching = {}
        BY <4>1
      <4>3. Unwound(c, r) = [r EXCEPT !.stack = <<>>, !.status = "aborted"]
        BY <4>2 DEF Unwound
      <4>. QED
        BY <4>3 DEF IsRun, RunFields
    <3>. QED
      BY <2>4, <3>2, <3>3 DEF SameRun
  <2>. HIDE DEF target
  <2>. QED
    BY <1>8, <2>5, <2>6 DEF target, PlainDoes
<1>9. CASE op \notin {"ret", "return", "condbr", "call"}
  <2>1. q = Continue(c, r)
    BY <1>1, <1>9 DEF Execute
  <2>. QED
    BY <1>1, <1>2, <1>9, <2>1, ContinueMoves DEF SameRun, PlainDoes
<1>. HIDE DEF q
<1>. QED
  BY <1>6, <1>7, <1>8, <1>9 DEF PlainDoes, q

\* The places control can be at after e.
Successors(e) ==
  IF InstrAt(e) = Terminator(program, e.block)
  THEN {At(b) : b \in Range(program.block[e.block].succ)} ELSE {Behind(e)}

\* From each place of W the program comes to e, or goes on forever, and passes nothing before
\* that the slice decides at.
Leads(W, e) ==
  /\ e \in W
  /\ \A d \in W : \/ d = e
                  \/ /\ ~ Decides(InstrAt(d)) /\ program.instr[InstrAt(d)].op \notin {"condbr", "ret"}
                     /\ Successors(d) \subseteq W

\* From a place of W the program returns, or goes on forever, without that.
Invisible(W) == \A d \in W : ~ Decides(InstrAt(d)) /\ Successors(d) \subseteq W

\* The place at which call k of the calls in progress t is, or will be.
Resume(t, k) == IF k = Len(t) THEN t[k] ELSE Behind(t[k])

\* Such a call has nothing of what the slice has to pass before it returns.
AlwaysCalled(e) == program.block[e.block].fn \in slice.include_all_callsites
Silent(t, k) == ~ AlwaysCalled(t[k]) \/ \E W : Invisible(W) /\ Resume(t, k) \in W

\* The slice with the calls in progress s is ahead of the program with the calls t: it has
\* the same callers, the program comes to where the slice is, and has nothing to pass in the
\* calls above.
Ahead(t, s) ==
  /\ Len(s) <= Len(t)
  /\ \A k \in 1 .. Len(s) - 1 : s[k] = t[k]
  /\ Len(s) > 0 => \E W : Leads(W, s[Len(s)]) /\ Resume(t, Len(s)) \in W
  /\ \A k \in Len(s) + 1 .. Len(t) : Silent(t, k)

\* The program is where the slice is.
LEMMA AheadSame ==
  ASSUME NEW s, NEW t, Len(s) \in Nat, Len(t) = Len(s), \A k \in 1 .. Len(s) : s[k] = t[k]
  PROVE  Ahead(t, s)
<1>1. CASE Len(s) = 0
  BY <1>1 DEF Ahead
<1>2. CASE Len(s) > 0
  <2>. DEFINE e == s[Len(s)]
              W == {e}
  <2>1. Resume(t, Len(s)) = e
    BY <1>2 DEF Resume
  <2>2. Leads(W, e) /\ e \in W
    BY DEF Leads
  <2>. HIDE DEF W, e
  <2>3. \A k \in Len(s) + 1 .. Len(t) : FALSE
    OBVIOUS
  <2>. QED
    BY <1>2, <2>1, <2>2, <2>3 DEF Ahead, e
<1>. QED
  BY <1>1, <1>2

\* What the program does while it is behind is nothing the slice decides at, or it is in a
\* function that no request is below of.
LEMMA BehindIsQuiet ==
  ASSUME NEW s, NEW t, NEW n, Len(s) \in Nat, n = Len(t), n \in Nat \ {0}, Ahead(t, s),
         Len(s) = n => s[n] # t[n]
  PROVE  /\ ~ Decides(InstrAt(t[n])) \/ ~ AlwaysCalled(t[n])
         /\ Len(s) = n => /\ ~ Decides(InstrAt(t[n]))
                          /\ program.instr[InstrAt(t[n])].op \notin {"condbr", "ret"}
<1>1. Resume(t, n) = t[n]
  BY DEF Resume
<1>2. CASE Len(s) = n
  <2>1. PICK W : Leads(W, s[n]) /\ t[n] \in W
    BY <1>1, <1>2 DEF Ahead
  <2>. QED
    BY <1>2, <2>1 DEF Leads
<1>3. CASE Len(s) # n
  <2>1. n \in Len(s) + 1 .. n
    BY <1>3 DEF Ahead
  <2>2. Silent(t, n)
    BY <2>1 DEF Ahead
  <2>. QED
    BY <1>1, <1>3, <2>2 DEF Silent, Invisible
<1>. QED
  BY <1>2, <1>3

\* The program moves on behind the slice.
LEMMA BehindMoves ==
  ASSUME NEW s, NEW t, NEW n, Len(s) \in Nat, n = Len(t), n \in Nat \ {0}, Ahead(t, s),
         Len(s) = n => s[n] # t[n],
         NEW u, NEW d, Moves(t, u, d), d \in Successors(t[n]), AlwaysCalled(d) => AlwaysCalled(t[n])
  PROVE  Ahead(u, s)
<1>1. /\ Len(u) = n /\ u[n] = d /\ \A k \in 1 .. n - 1 : u[k] = t[k]
      /\ Resume(t, n) = t[n] /\ Resume(u, n) = d
      /\ Len(s) <= n
  BY DEF Moves, Resume, Ahead
<1>2. \A k \in 1 .. n - 1 : Resume(u, k) = Resume(t, k)
  BY <1>1 DEF Resume
<1>3. \A k \in 1 .. Len(s) - 1 : s[k] = u[k]
  BY <1>1 DEF Ahead
<1>4. ASSUME Len(s) > 0 PROVE \E W : Leads(W, s[Len(s)]) /\ Resume(u, Len(s)) \in W
  <2>1. PICK W : Leads(W, s[Len(s)]) /\ Resume(t, Len(s)) \in W
    BY <1>4 DEF Ahead
  <2>2. CASE Len(s) = n
    <3>1. Successors(t[n]) \subseteq W
      BY <1>1, <2>1, <2>2 DEF Leads
    <3>. QED
      BY <1>1, <2>1, <2>2, <3>1
  <2>3. CASE Len(s) # n
    <3>1. Len(s) \in 1 .. n - 1
      BY <1>1, <1>4, <2>3
    <3>. QED
      BY <1>2, <2>1, <3>1
  <2>. QED
    BY <2>2, <2>3
<1>5. ASSUME NEW k \in Len(s) + 1 .. n PROVE Silent(u, k)
  <2>1. Silent(t, k) /\ k \in 1 .. n
    BY <1>5 DEF Ahead
  <2>2. CASE k = n
    <3>1. CASE ~ AlwaysCalled(t[n])
      BY <1>1, <2>2, <3>1 DEF Silent
    <3>2. CASE \E W : Invisible(W) /\ Resume(t, n) \in W
      <4>1. PICK W : Invisible(W) /\ t[n] \in W
        BY <1>1, <3>2
      <4>2. d \in W
        BY <4>1 DEF Invisible
      <4>. QED
        BY <1>1, <2>2, <4>1, <4>2 DEF Silent
    <3>. QED
      BY <2>1, <2>2, <3>1, <3>2 DEF Silent
  <2>3. CASE k # n
    <3>1. k \in 1 .. n - 1
      BY <2>1, <2>3
    <3>. QED
      BY <1>1, <1>2, <2>1, <3>1 DEF Silent
  <2>. QED
    BY <2>2, <2>3
<1>. QED
  BY <1>1, <1>3, <1>4, <1>5 DEF Ahead

\* The program enters a function that no request is below of.
LEMMA BehindEnters ==
  ASSUME NEW s, NEW t, NEW n, Len(s) \in Nat, n = Len(t), n \in Nat \ {0}, Ahead(t, s),
         Len(s) = n => s[n] # t[n],
         NEW u, NEW d, Enters(t, u, d), Behind(t[n]) \in Successors(t[n]), ~ AlwaysCalled(d)
  PROVE  Ahead(u, s)
<1>1. /\ Len(u) = n + 1 /\ u[n + 1] = d /\ \A k \in 1 .. n : u[k] = t[k]
      /\ Resume(t, n) = t[n] /\ Resume(u, n) = Behind(t[n])
      /\ Len(s) <= n
  BY DEF Enters, Resume, Ahead
<1>2. \A k \in 1 .. n - 1 : Resume(u, k) = Resume(t, k)
  BY <1>1 DEF Resume
<1>3. \A k \in 1 .. Len(s) - 1 : s[k] = u[k]
  BY <1>1 DEF Ahead
<1>4. ASSUME Len(s) > 0 PROVE \E W : Leads(W, s[Len(s)]) /\ Resume(u, Len(s)) \in W
  <2>1. PICK W : Leads(W, s[Len(s)]) /\ Resume(t, Len(s)) \in W
    BY <1>4 DEF Ahead
  <2>2. CASE Len(s) = n
    <3>1. Successors(t[n]) \subseteq W
      BY <1>1, <2>1, <2>2 DEF Leads
    <3>. QED
      BY <1>1, <2>1, <2>2, <3>1
  <2>3. CASE Len(s) # n
    <3>1. Len(s) \in 1 .. n - 1
      BY <1>1, <1>4, <2>3
    <3>. QED
      BY <1>2, <2>1, <3>1
  <2>. QED
    BY <2>2, <2>3
<1>5. ASSUME NEW k \in Len(s) + 1 .. n + 1 PROVE Silent(u, k)
  <2>1. CASE k = n + 1
    BY <1>1, <2>1 DEF Silent
  <2>2. CASE k # n + 1
    <3>0. k \in 1 .. n /\ k \in Len(s) + 1 .. n
      BY <1>5, <2>2
    <3>1. Silent(t, k)
      BY <3>0 DEF Ahead
    <3>2. CASE k = n
      <4>1. CASE ~ AlwaysCalled(t[n])
        BY <1>1, <3>0, <3>2, <4>1 DEF Silent
      <4>2. CASE \E W : Invisible(W) /\ Resume(t, n) \in W
        <5>1. PICK W : Invisible(W) /\ t[n] \in W
          BY <1>1, <4>2
        <5>2. Behind(t[n]) \in W
          BY <5>1 DEF Invisible
        <5>. QED
          BY <1>1, <3>2, <5>1, <5>2 DEF Silent
      <4>. QED
        BY <3>1, <3>2, <4>1, <4>2 DEF Silent
    <3>3. CASE k # n
      <4>1. k \in 1 .. n - 1
        BY <3>0, <3>3
      <4>. QED
        BY <1>1, <1>2, <3>0, <3>1, <4>1 DEF Silent
    <3>. QED
      BY <3>2, <3>3
  <2>. QED
    BY <2>1, <2>2
<1>. QED
  BY <1>1, <1>3, <1>4, <1>5 DEF Ahead

\* The program returns from a call above those of the slice.
LEMMA BehindReturns ==
  ASSUME NEW s, NEW t, NEW n, Len(s) \in Nat, n = Len(t), n \in Nat \ {0}, Ahead(t, s), Len(s) # n,
         NEW u, Returns(t, u)
  PROVE  Ahead(u, s)
<1>1. /\ Len(u) = n - 1 /\ (\A k \in 1 .. n - 2 : u[k] = t[k])
      /\ n > 1 => u[n - 1] = Behind(t[n - 1])
      /\ Len(s) <= n - 1
  BY DEF Returns, Ahead
<1>2. ASSUME NEW k \in 1 .. n - 1
      PROVE  Resume(u, k) = Resume(t, k) /\ (AlwaysCalled(u[k]) <=> AlwaysCalled(t[k]))
  <2>1. CASE k = n - 1
    BY <1>1, <2>1 DEF Resume, AlwaysCalled, Behind
  <2>2. CASE k # n - 1
    <3>1. k \in 1 .. n - 2
      BY <2>2
    <3>. QED
      BY <1>1, <3>1 DEF Resume
  <2>. QED
    BY <2>1, <2>2
<1>3. \A k \in 1 .. Len(s) - 1 : s[k] = u[k]
  BY <1>1 DEF Ahead
<1>4. ASSUME Len(s) > 0 PROVE \E W : Leads(W, s[Len(s)]) /\ Resume(u, Len(s)) \in W
  <2>1. Len(s) \in 1 .. n - 1
    BY <1>1, <1>4
  <2>. QED
    BY <1>2, <1>4, <2>1 DEF Ahead
<1>5. ASSUME NEW k \in Len(s) + 1 .. n - 1 PROVE Silent(u, k)
  <2>1. k \in 1 .. n - 1 /\ k \in Len(s) + 1 .. n
    OBVIOUS
  <2>2. Silent(t, k)
    BY <2>1 DEF Ahead
  <2>. QED
    BY <1>2, <2>1, <2>2 DEF Silent
<1>. QED
  BY <1>1, <1>3, <1>4, <1>5 DEF Ahead

\* The slice moves on ahead of the program.
LEMMA AheadMoves ==
  ASSUME NEW s, NEW t, NEW m, m = Len(s), m \in Nat \ {0}, Len(t) \in Nat, Ahead(t, s),
         ~ Decides(InstrAt(s[m])), program.instr[InstrAt(s[m])].op \notin {"condbr", "ret"},
         NEW v, NEW d, Moves(s, v, d), Successors(s[m]) \subseteq {d}
  PROVE  Ahead(t, v)
<1>1. Len(v) = m /\ v[m] = d /\ \A k \in 1 .. m - 1 : v[k] = s[k]
  BY DEF Moves
<1>2. PICK W : Leads(W, s[m]) /\ Resume(t, m) \in W
  BY DEF Ahead
<1>. DEFINE V == W \cup {d}
<1>3. Leads(V, d)
  <2>1. d \in V
    OBVIOUS
  <2>2. ASSUME NEW e \in V, e # d
        PROVE  /\ ~ Decides(InstrAt(e)) /\ program.instr[InstrAt(e)].op \notin {"condbr", "ret"}
               /\ Successors(e) \subseteq V
    <3>1. e \in W
      BY <2>2
    <3>2. CASE e = s[m]
      BY <3>2
    <3>3. CASE e # s[m]
      BY <1>2, <3>1, <3>3 DEF Leads
    <3>. QED
      BY <3>2, <3>3
  <2>. QED
    BY <2>1, <2>2 DEF Leads
<1>4. Resume(t, m) \in V
  BY <1>2
<1>. HIDE DEF V
<1>. QED
  BY <1>1, <1>3, <1>4 DEF Ahead

\* The slice returns ahead of the program, that passes nothing more until it returns.
LEMMA AheadReturns ==
  ASSUME NEW s, NEW t, NEW m, m = Len(s), m \in Nat \ {0}, Len(t) \in Nat, Ahead(t, s),
         ~ Decides(InstrAt(s[m])), NEW V, Invisible(V), Successors(s[m]) \subseteq V,
         NEW v, Returns(s, v)
  PROVE  Ahead(t, v)
<1>1. /\ Len(v) = m - 1 /\ (\A k \in 1 .. m - 2 : v[k] = s[k])
      /\ m > 1 => v[m - 1] = Behind(s[m - 1])
      /\ m <= Len(t)
  BY DEF Returns, Ahead
<1>2. PICK W : Leads(W, s[m]) /\ Resume(t, m) \in W
  BY DEF Ahead
<1>3. Silent(t, m)
  <2>. DEFINE U == W \cup V
  <2>1. ASSUME NEW e \in U PROVE ~ Decides(InstrAt(e)) /\ Successors(e) \subseteq U
    <3>1. CASE e \in V
      BY <3>1 DEF Invisible
    <3>2. CASE e = s[m]
      BY <3>2
    <3>3. CASE e \in W /\ e # s[m]
      BY <1>2, <3>3 DEF Leads
    <3>. QED
      BY <3>1, <3>2, <3>3
  <2>2. Invisible(U)
    BY <2>1 DEF Invisible
  <2>3. Resume(t, m) \in U
    BY <1>2
  <2>. HIDE DEF U
  <2>. QED
    BY <2>2, <2>3 DEF Silent
<1>4. \A k \in 1 .. (m - 1) - 1 : v[k] = t[k]
  BY <1>1 DEF Ahead
<1>5. ASSUME m - 1 > 0 PROVE \E X : Leads(X, v[m - 1]) /\ Resume(t, m - 1) \in X
  <2>1. s[m - 1] = t[m - 1] /\ m - 1 # Len(t)
    BY <1>1, <1>5 DEF Ahead
  <2>2. Resume(t, m - 1) = v[m - 1]
    BY <1>1, <1>5, <2>1 DEF Resume
  <2>. DEFINE X == {v[m - 1]}
  <2>3. Leads(X, v[m - 1]) /\ v[m - 1] \in X
    BY DEF Leads
  <2>. QED
    BY <2>2, <2>3
<1>6. ASSUME NEW k \in m .. Len(t) PROVE Silent(t, k)
  <2>1. k = m \/ k \in m + 1 .. Len(t)
    OBVIOUS
  <2>. QED
    BY <1>3, <2>1 DEF Ahead
<1>7. (m - 1) + 1 = m /\ m - 1 <= Len(t)
  BY <1>1
<1>. QED
  BY <1>1, <1>4, <1>5, <1>6, <1>7 DEF Ahead

\* A program with neither exceptions nor virtual calls whose results are apart from its
\* requests runs beside its slice.
RunReady ==
  /\ SliceInv /\ PlainInv /\ LeadInv /\ AnalysisDone
  /\ PlainProgram(program) /\ ResultsApart(program)
  /\ CodeOK(code, Copied, Copied) /\ PlainCode(code, Copied)

\* What is at a place of such a program, and what comes after it.
LEMMA PlainPlace ==
  ASSUME SliceReady, PlainProgram(program), NEW R \in SUBSET DOMAIN program.block, NEW e \in Places(R),
         NEW x, x = InstrAt(e), NEW b, b = e.block, NEW op, op = program.instr[x].op,
         NEW next, next = program.block[b].succ
  PROVE  /\ x \in Instr(program) /\ b \in R /\ b \in DOMAIN program.block /\ BlockOf(program, x) = b
         /\ op \notin {"invoke", "resume", "return", "removed"}
         /\ x = Terminator(program, b) <=> op \in {"br", "condbr", "ret"}
         /\ next \in Seq(BlocksOf(program, program.block[b].fn))
         /\ op = "br" => Len(next) = 1 /\ Successors(e) = {At(next[1])}
         /\ op = "condbr" => Len(next) = 2 /\ Successors(e) = {At(next[1]), At(next[2])}
         /\ op = "ret" => Successors(e) = {}
         /\ op \notin {"br", "condbr", "ret"} => Successors(e) = {Behind(e)}
         /\ \A d \in Successors(e) : AlwaysCalled(d) <=> AlwaysCalled(e)
<1>1. /\ x \in Instr(program) /\ b \in R /\ b \in DOMAIN program.block /\ BlockOf(program, x) = b
      /\ op \in TerminatorOps <=> x = Terminator(program, b)
  BY PlaceFacts
<1>2. op \notin {"invoke", "resume", "return", "removed"}
  BY <1>1 DEF PlainProgram, SliceReady, WellFormed
<1>3. x = Terminator(program, b) <=> op \in {"br", "condbr", "ret"}
  BY <1>1, <1>2 DEF TerminatorOps
<1>4. next \in Seq(BlocksOf(program, program.block[b].fn))
  BY <1>1, Formed DEF SliceReady
<1>5. x = Terminator(program, b) =>
        /\ op = "br" => Len(next) = 1
        /\ op = "condbr" => Len(next) = 2
        /\ op = "ret" => next = <<>>
  <2>1. BlockFormed(program, b)
    BY <1>1 DEF SliceReady, WellFormed
  <2>. QED
    BY <2>1 DEF BlockFormed
<1>6. Successors(e) = IF op \in {"br", "condbr", "ret"} THEN {At(a) : a \in Range(next)} ELSE {Behind(e)}
  BY <1>3 DEF Successors
<1>7. /\ op = "br" => Range(next) = {next[1]}
      /\ op = "condbr" => Range(next) = {next[1], next[2]}
      /\ op = "ret" => Range(next) = {}
  <2>1. DOMAIN next = 1 .. Len(next)
    BY <1>4
  <2>2. ASSUME op = "br" PROVE DOMAIN next = {1}
    <3>1. Len(next) = 1
      BY <1>3, <1>5, <2>2
    <3>. QED
      BY ONLY <2>1, <3>1
  <2>3. ASSUME op = "condbr" PROVE DOMAIN next = {1, 2}
    <3>1. Len(next) = 2
      BY <1>3, <1>5, <2>3
    <3>. QED
      BY ONLY <2>1, <3>1
  <2>4. op = "ret" => DOMAIN next = {}
    BY <1>3, <1>5
  <2>. QED
    BY <2>2, <2>3, <2>4 DEF Range
<1>8. \A d \in Successors(e) : AlwaysCalled(d) <=> AlwaysCalled(e)
  <2>1. ASSUME NEW a \in Range(next) PROVE AlwaysCalled(At(a)) <=> AlwaysCalled(e)
    <3>1. a \in BlocksOf(program, program.block[b].fn)
      BY <1>4 DEF Range
    <3>2. program.block[a].fn = program.block[b].fn /\ At(a).block = a
      BY <3>1 DEF BlocksOf, At
    <3>. QED
      BY <3>2 DEF AlwaysCalled
  <2>2. AlwaysCalled(Behind(e)) <=> AlwaysCalled(e)
    BY DEF AlwaysCalled, Behind
  <2>. QED
    BY <1>6, <2>1, <2>2
<1>9. /\ op = "br" => Successors(e) = {At(next[1])}
      /\ op = "condbr" => Successors(e) = {At(next[1]), At(next[2])}
      /\ op = "ret" => Successors(e) = {}
  BY <1>6, <1>7
<1>. QED
  BY <1>1, <1>2, <1>3, <1>4, <1>5, <1>6, <1>8, <1>9

\* What the slice decides at: requests, and calls and branches that are included.
LEMMA PlainDecides ==
  ASSUME RunReady, NEW x \in Instr(program)
  PROVE  /\ Decides(x) <=>
              x \in program.request \/ (Included(x) /\ program.instr[x].op \in {"call", "condbr"})
         /\ Included(x) => code.op[x] = program.instr[x].op
         /\ Decides(x) => Included(x)
<1>1. SliceReady
  BY ReadySlice DEF RunReady
<1>2. Included(x) => code.op[x] = program.instr[x].op
  <2>1. code.op[x] = IF FunctionOf(program, x) \in Copied THEN PrunedOp(x, program.instr[x].op)
                     ELSE program.instr[x].op
    BY DEF RunReady, PlainCode
  <2>. QED
    BY <2>1, PrunedOps
<1>3. program.instr[x].op # "invoke"
  BY DEF RunReady, PlainProgram
<1>4. x \in program.request => Included(x)
  BY LeadDone DEF RunReady
<1>. QED
  BY <1>2, <1>3, <1>4 DEF Decides

\* The places of blocks that nothing is included of.
QuietPlaces ==
  {e \in Places(DOMAIN program.block) : \A x \in slice.included : BlockOf(program, x) # e.block}

\* A branch that is not included goes to such blocks, and they are not left.
LEMMA QuietBranches ==
  ASSUME RunReady, NEW b \in DOMAIN program.block, ~ Included(Terminator(program, b)),
         NEW a \in Range(program.block[b].succ)
  PROVE  At(a) \in QuietPlaces
<1>1. SliceReady /\ program \in Program
  BY ReadySlice DEF RunReady, SliceInv
<1>2. a \in DOMAIN program.block
  <2>1. program.block[b].succ \in Seq(BlocksOf(program, program.block[b].fn))
    BY <1>1, Formed DEF SliceReady
  <2>. QED
    BY <2>1 DEF Range, BlocksOf
<1>3. At(a) \in Places(DOMAIN program.block) /\ At(a).block = a
  BY <1>1, <1>2, EntryPlace
<1>4. ASSUME NEW x \in slice.included, BlockOf(program, x) = a PROVE FALSE
  <2>1. b \in Predecessors(program, BlockOf(program, x))
    BY <1>4 DEF Predecessors
  <2>2. Invokes(program) = {}
    BY <1>1, PlainFacts DEF RunReady, SliceReady
  <2>3. Terminator(program, b) \in Guards(program, can_except_in_precompute, x)
    BY <2>1, <2>2 DEF Guards
  <2>4. IncludedClosed(program, can_except_in_precompute, slice)
    BY DEF RunReady, SliceInv, AnalysisSound, SliceSound
  <2>. QED
    BY <2>3, <2>4 DEF IncludedClosed, Included
<1>. QED
  BY <1>3, <1>4 DEF QuietPlaces

\* So the program decides at nothing in them, and returns.
LEMMA QuietInvisible ==
  ASSUME RunReady
  PROVE  Invisible(QuietPlaces)
<1>. SUFFICES ASSUME NEW e \in QuietPlaces
              PROVE  ~ Decides(InstrAt(e)) /\ Successors(e) \subseteq QuietPlaces
  BY DEF Invisible
<1>. DEFINE x == InstrAt(e)
            b == e.block
<1>1. SliceReady /\ PlainProgram(program)
  BY ReadySlice DEF RunReady
<1>2. e \in Places(DOMAIN program.block) /\ \A y \in slice.included : BlockOf(program, y) # b
  BY DEF QuietPlaces
<1>3. x \in Instr(program) /\ b \in DOMAIN program.block /\ BlockOf(program, x) = b
      /\ (e.index = Len(program.block[b].code) <=> x = Terminator(program, b))
      /\ e.index \in Nat \ {0} /\ e.index \in DOMAIN program.block[b].code
  BY <1>1, <1>2, PlaceFacts
<1>4. ~ Included(x)
  BY <1>2, <1>3 DEF Included
<1>5. ~ Decides(x)
  BY <1>3, <1>4, PlainDecides
<1>6. CASE x = Terminator(program, b)
  <2>1. Successors(e) = {At(a) : a \in Range(program.block[b].succ)}
    BY <1>6 DEF Successors
  <2>2. ~ Included(Terminator(program, b))
    BY <1>4, <1>6
  <2>3. \A a \in Range(program.block[b].succ) : At(a) \in QuietPlaces
    BY <1>3, <2>2, QuietBranches
  <2>. QED
    BY <1>5, <2>1, <2>3
<1>7. CASE x # Terminator(program, b)
  <2>1. Successors(e) = {Behind(e)}
    BY <1>7 DEF Successors
  <2>2. e.index + 1 <= Len(program.block[b].code)
    BY <1>1, <1>3, <1>7, Formed DEF SliceReady
  <2>3. Behind(e) \in Places(DOMAIN program.block) /\ Behind(e).block = b
    BY <1>3, <2>2 DEF Places, Behind
  <2>. QED
    BY <1>2, <1>5, <2>1, <2>3 DEF QuietPlaces
<1>. QED
  BY <1>5, <1>6, <1>7

\* The slice goes on to what it decides at next.
LEMMA SliceGoesOn ==
  ASSUME RunReady, NEW r, IsRun(r), r.copy = TRUE, r.status = "running",
         NEW R, LiveBlocks(code, R), StackOK(code, R, r.stack),
         NEW t, Len(t) \in Nat, Ahead(t, r.stack), ~ Decides(Here(r.stack)),
         NEW choice, NEW q, q = Execute(code, r, choice)
  PROVE  q.status \in {"running", "finished"} /\ Ahead(t, q.stack)
<1>. DEFINE s == r.stack
            m == Len(s)
            e == s[m]
            x == InstrAt(e)
            b == e.block
            op == program.instr[x].op
            new == code.op[x]
            next == program.block[b].succ
<1>1. SliceReady /\ PlainProgram(program) /\ PlainCode(code, Copied)
  BY ReadySlice DEF RunReady
<1>2. /\ R \in SUBSET DOMAIN program.block /\ RunnableCode(code, R, TRUE)
      /\ \A a \in R : program.block[a].fn \in Copied
  BY <1>1, LiveRunnable DEF RunReady
<1>3. m \in Nat \ {0} /\ e \in Places(R) /\ Here(s) = x
  BY HereIs, Popped DEF StackOK
<1>4. /\ x \in Instr(program) /\ b \in R /\ b \in DOMAIN program.block /\ BlockOf(program, x) = b
      /\ op \notin {"invoke", "resume", "return", "removed"}
      /\ x = Terminator(program, b) <=> op \in {"br", "condbr", "ret"}
      /\ op = "br" => Len(next) = 1 /\ Successors(e) = {At(next[1])}
      /\ op = "ret" => Successors(e) = {}
      /\ op \notin {"br", "condbr", "ret"} => Successors(e) = {Behind(e)}
  BY <1>1, <1>2, <1>3, PlainPlace
<1>5. new = PrunedOp(x, op)
  BY <1>1, <1>2, <1>4 DEF PlainCode, FunctionOf
<1>6. ~ Decides(x)
  BY <1>3
<1>7. /\ new \notin {"invoke", "resume", "call", "condbr"}
      /\ new \in {"ret", "return"} => op \in {"ret", "condbr"}
      /\ op \in {"ret", "condbr"} => new \in {"ret", "return"}
      /\ op = "condbr" => ~ Included(x)
      /\ op = "br" => new = "br"
  <2>1. ~ (Included(x) /\ op \in {"call", "condbr"})
    BY <1>4, <1>6, PlainDecides
  <2>. QED
    BY <1>4, <1>5, <2>1 DEF PrunedOp
<1>8. /\ new \in {"ret", "return"} =>
           /\ Returns(s, q.stack)
           /\ q.status = IF m = 1 THEN "finished" ELSE r.status
      /\ new \notin {"ret", "return", "condbr", "call"} =>
           /\ Moves(s, q.stack, IF x = Terminator(program, b) THEN At(code.succ[b][1]) ELSE Behind(e))
           /\ q.status = r.status
  <2>1. RunnableCode(code, R, r.copy) /\ code.op[InstrAt(s[Len(s)])] \notin {"invoke", "resume"}
    BY <1>2, <1>7
  <2>2. PlainDoes(code, r, choice, q)
    BY <1>1, <1>2, <2>1, PlainStep
  <2>. QED
    BY <2>2 DEF PlainDoes
<1>. HIDE DEF x, b, op, new, next, e
<1>9. CASE new \in {"ret", "return"}
  <2>1. Successors(e) \subseteq QuietPlaces
    <3>1. CASE op = "ret"
      BY <1>4, <3>1
    <3>2. CASE op = "condbr"
      <4>1. x = Terminator(program, b) /\ ~ Included(x)
        BY <1>4, <1>7, <3>2
      <4>2. Successors(e) = {At(a) : a \in Range(program.block[b].succ)}
        BY <4>1 DEF Successors, x, b
      <4>. QED
        BY <1>4, <4>1, <4>2, QuietBranches
    <3>. QED
      BY <1>7, <1>9, <3>1, <3>2
  <2>2. Invisible(QuietPlaces)
    BY QuietInvisible
  <2>3. Ahead(t, q.stack)
    BY <1>3, <1>6, <1>8, <1>9, <2>1, <2>2, AheadReturns DEF x, e
  <2>. QED
    BY <1>8, <1>9, <2>3
<1>10. CASE new \notin {"ret", "return"}
  <2>. DEFINE d == IF x = Terminator(program, b) THEN At(code.succ[b][1]) ELSE Behind(e)
  <2>1. Moves(s, q.stack, d) /\ q.status = r.status
    BY <1>7, <1>8, <1>10
  <2>2. op \notin {"condbr", "ret"}
    BY <1>7, <1>10
  <2>3. Successors(e) \subseteq {d}
    <3>1. CASE x = Terminator(program, b)
      <4>1. op = "br" /\ new = "br"
        BY <1>4, <1>7, <2>2, <3>1
      <4>2. code.succ[b] # <<>>
        BY <1>4, <3>1, <4>1 DEF LiveBlocks, LiveBlock, new
      <4>3. code.succ[b] = next
        BY <1>1, <1>4, <4>2 DEF PlainCode, next
      <4>. QED
        BY <1>4, <3>1, <4>1, <4>3
    <3>2. CASE x # Terminator(program, b)
      BY <1>4, <2>2, <3>2
    <3>. QED
      BY <3>1, <3>2
  <2>. HIDE DEF d
  <2>4. Ahead(t, q.stack)
    BY <1>3, <1>6, <2>1, <2>2, <2>3, AheadMoves DEF x, e, op
  <2>. QED
    BY <2>1, <2>4
<1>. QED
  BY <1>9, <1>10

\* The code of the program itself.
LEMMA OriginalFields ==
  /\ \A x \in Instr(program) : OriginalCode(program).op[x] = program.instr[x].op
  /\ \A b \in DOMAIN program.block : OriginalCode(program).succ[b] = program.block[b].succ
  /\ PlainProgram(program) =>
       \A x \in Calls(program) : \A k \in DOMAIN program.vtable :
         x \in Instr(program) => OriginalCode(program).calls[x][k] = Original(program.instr[x].callee)
BY DEF OriginalCode, PlainProgram

\* It can be run in all blocks.
LEMMA OriginalRunnable ==
  ASSUME SliceReady, PlainProgram(program)
  PROVE  RunnableCode(OriginalCode(program), DOMAIN program.block, FALSE)
<1>. DEFINE c == OriginalCode(program)
            R == DOMAIN program.block
<1>1. /\ \A x \in Instr(program) : c.op[x] = program.instr[x].op
      /\ \A b \in R : c.succ[b] = program.block[b].succ
      /\ \A x \in Calls(program) : \A k \in DOMAIN program.vtable :
           x \in Instr(program) => c.calls[x][k] = Original(program.instr[x].callee)
  BY OriginalFields
<1>. HIDE DEF c
<1>2. ASSUME NEW b \in R
      PROVE  /\ c.succ[b] \in Seq(R)
             /\ c.op[Terminator(program, b)] \notin FinishingOps => c.succ[b] # <<>>
             /\ c.op[Terminator(program, b)] \in {"condbr", "invoke"} => Len(c.succ[b]) = 2
  <2>. DEFINE x == Terminator(program, b)
              next == program.block[b].succ
              op == program.instr[x].op
  <2>1. x \in Instr(program) /\ next \in Seq(BlocksOf(program, program.block[b].fn))
    BY <1>2, Formed DEF SliceReady
  <2>2. op \in TerminatorOps
    BY <1>2, Formed DEF SliceReady, WellFormed, BlockFormed
  <2>3. (op = "br" => Len(next) = 1) /\ (op \in {"condbr", "invoke"} => Len(next) = 2)
    BY <1>2 DEF SliceReady, WellFormed, BlockFormed
  <2>4. c.succ[b] = next /\ c.op[x] = op
    BY <1>1, <1>2, <2>1
  <2>5. next \in Seq(R)
    BY <2>1 DEF BlocksOf
  <2>. HIDE DEF next, op, x
  <2>6. op \notin FinishingOps => next # <<>>
    BY <2>2, <2>3 DEF FinishingOps, TerminatorOps
  <2>. QED
    BY <2>3, <2>4, <2>5, <2>6 DEF x
<1>3. ASSUME NEW x \in Instr(program)
      PROVE  /\ c.op[x] \in {"condbr", "invoke"} => program.instr[x].op = c.op[x]
             /\ c.op[x] = "call" => x \in Calls(program)
  BY <1>1 DEF Calls
<1>4. ASSUME NEW x \in Calls(program), NEW k \in DOMAIN program.vtable,
             c.calls[x][k].fn \in Own(program)
      PROVE  program.function[c.calls[x][k].fn].entry \in R
  BY <1>4 DEF SliceReady, WellFormed, BlocksOf
<1>. QED
  BY <1>2, <1>3, <1>4 DEF RunnableCode, c

\* A run of the program that has neither ended nor been aborted.
OriginalRun(r) ==
  /\ IsRun(r) /\ r.copy = FALSE
  /\ r.status = "running" /\ StackOK(OriginalCode(program), DOMAIN program.block, r.stack)
OriginalOver(r) ==
  IsRun(r) /\ r.copy = FALSE /\ r.status \in {"finished", "aborted"} /\ r.stack = <<>>

\* It goes on, returns from main, or is aborted: nothing of it is null or a copy.
LEMMA OriginalRunsOn ==
  ASSUME SliceReady, PlainProgram(program), NEW r, OriginalRun(r), NEW choice \in Outcomes,
         NEW q, q = Execute(OriginalCode(program), r, choice)
  PROVE  OriginalRun(q) \/ OriginalOver(q)
<1>. DEFINE c == OriginalCode(program)
            R == DOMAIN program.block
<1>1. RunnableCode(c, R, r.copy) /\ StackOK(c, R, r.stack) /\ IsRun(r) /\ r.status = "running"
  BY OriginalRunnable DEF OriginalRun
<1>2. \A x \in Calls(program) : \A k \in DOMAIN program.vtable :
        c.calls[x][k] # NullFunction /\ c.calls[x][k].copy = FALSE
  <2>. SUFFICES ASSUME NEW x \in Calls(program), NEW k \in DOMAIN program.vtable
                PROVE  c.calls[x][k] # NullFunction /\ c.calls[x][k].copy = FALSE
    OBVIOUS
  <2>1. x \in Instr(program) /\ program.instr[x].callee \in Functions(program)
    BY PlainFacts DEF SliceReady
  <2>2. c.calls[x][k] = Original(program.instr[x].callee)
    BY <2>1, OriginalFields
  <2>3. "" \notin Functions(program)
    BY DEF SliceReady, WellFormed
  <2>. DEFINE f == program.instr[x].callee
              u == c.calls[x][k]
  <2>4. Original(f).fn = f /\ Original(f).copy = FALSE /\ NullFunction.fn = ""
    BY TargetFields
  <2>. HIDE DEF f, u
  <2>5. u = Original(f) /\ f # ""
    BY <2>1, <2>2, <2>3 DEF f, u
  <2>. QED
    BY <2>4, <2>5 DEF u
<1>. HIDE DEF c
<1>3. StepOK(c, R, r, q)
  BY <1>1, ExecuteKeeps DEF c
<1>. QED
  BY <1>1, <1>2, <1>3 DEF StepOK, OriginalRun, OriginalOver, c

\* The program goes on behind the slice.
LEMMA OriginalGoesOn ==
  ASSUME RunReady, NEW r, OriginalRun(r), NEW s, Len(s) \in Nat, Ahead(r.stack, s),
         Len(s) = Len(r.stack) => s[Len(s)] # r.stack[Len(s)],
         NEW choice \in Outcomes, NEW q, q = Execute(OriginalCode(program), r, choice)
  PROVE  q.status = "aborted" \/ Ahead(q.stack, s)
<1>. DEFINE c == OriginalCode(program)
            R == DOMAIN program.block
            t == r.stack
            n == Len(t)
            e == t[n]
            x == InstrAt(e)
            b == e.block
            op == program.instr[x].op
            next == program.block[b].succ
            callee == program.instr[x].callee
<1>1. SliceReady /\ PlainProgram(program)
  BY ReadySlice DEF RunReady
<1>2. /\ IsRun(r) /\ StackOK(c, R, t) /\ RunnableCode(c, R, r.copy) /\ r.copy = FALSE
      /\ n \in Nat \ {0} /\ e \in Places(R)
  BY <1>1, OriginalRunnable, HereIs, Popped DEF OriginalRun, StackOK
<1>3. /\ x \in Instr(program) /\ b \in R /\ BlockOf(program, x) = b
      /\ op \notin {"invoke", "resume", "return", "removed"}
      /\ x = Terminator(program, b) <=> op \in {"br", "condbr", "ret"}
      /\ op = "br" => Len(next) = 1 /\ Successors(e) = {At(next[1])}
      /\ op = "condbr" => Len(next) = 2 /\ Successors(e) = {At(next[1]), At(next[2])}
      /\ op \notin {"br", "condbr", "ret"} => Successors(e) = {Behind(e)}
      /\ \A d \in Successors(e) : AlwaysCalled(d) <=> AlwaysCalled(e)
  BY <1>1, <1>2, PlainPlace
<1>4. c.op[x] = op /\ c.succ[b] = next
  BY <1>3, OriginalFields
<1>5. PlainDoes(c, r, choice, q)
  BY <1>1, <1>2, <1>3, <1>4, PlainStep
<1>6. /\ ~ Decides(x) \/ ~ AlwaysCalled(e)
      /\ Len(s) = n => ~ Decides(x) /\ op \notin {"condbr", "ret"}
  BY <1>2, BehindIsQuiet
<1>7. choice.branch \in 1 .. 2 /\ choice.class \in DOMAIN program.vtable
  BY DEF Outcomes
<1>. DEFINE target == c.calls[x][choice.class]
<1>8. /\ op = "ret" => Returns(t, q.stack)
      /\ op = "condbr" => Moves(t, q.stack, At(next[choice.branch]))
      /\ op = "call" /\ target.fn \in Own(program) /\ target.copy = r.copy =>
           Enters(t, q.stack, Entry(target.fn))
      /\ op = "call" /\ target.fn \notin Own(program) /\ target.fn # "" =>
           q.status = "aborted" \/ Moves(t, q.stack, Behind(e))
      /\ op \notin {"ret", "return", "condbr", "call"} =>
           Moves(t, q.stack, IF x = Terminator(program, b) THEN At(next[1]) ELSE Behind(e))
  BY <1>4, <1>5 DEF PlainDoes
<1>9. ASSUME NEW d \in Successors(e), Moves(t, q.stack, d)
      PROVE  Ahead(q.stack, s)
  BY <1>2, <1>3, <1>9, BehindMoves
<1>10. CASE op = "ret"
  BY <1>2, <1>6, <1>8, <1>10, BehindReturns
<1>11. CASE op = "condbr"
  <2>. DEFINE d == At(next[choice.branch])
  <2>1. choice.branch = 1 \/ choice.branch = 2
    BY <1>7
  <2>2. d \in Successors(e)
    BY <1>3, <1>11, <2>1
  <2>3. Moves(t, q.stack, d)
    BY <1>8, <1>11
  <2>. HIDE DEF d
  <2>. QED
    BY <1>9, <2>2, <2>3
<1>12. CASE op = "call"
  <2>1. x \in Calls(program) /\ callee \in Functions(program) /\ "" \notin Functions(program)
    BY <1>1, <1>3, <1>12, PlainFacts DEF Calls, SliceReady, WellFormed
  <2>2. target.fn = callee /\ target.copy = FALSE /\ callee # ""
    <3>1. target = Original(callee)
      BY <1>1, <1>3, <1>7, <2>1, OriginalFields
    <3>2. Original(callee).fn = callee /\ Original(callee).copy = FALSE
      BY TargetFields
    <3>. QED
      BY <2>1, <3>1, <3>2
  <2>3. Behind(e) \in Successors(e)
    BY <1>3, <1>12
  <2>4. CASE callee \notin Own(program)
    BY <1>8, <1>9, <1>12, <2>2, <2>3, <2>4
  <2>5. CASE callee \in Own(program)
    <3>1. Enters(t, q.stack, Entry(callee))
      BY <1>2, <1>8, <1>12, <2>2, <2>5
    <3>2. program.block[Entry(callee).block].fn = callee
      BY <1>1, <2>5 DEF Entry, At, SliceReady, WellFormed, BlocksOf
    <3>3. ~ AlwaysCalled(Entry(callee))
      <4>. SUFFICES ASSUME callee \in slice.include_all_callsites PROVE FALSE
        BY <3>2 DEF AlwaysCalled
      <4>1. Included(x) /\ FunctionOf(program, x) \in slice.include_all_callsites
        BY <2>1, LeadDone DEF RunReady
      <4>2. AlwaysCalled(e)
        BY <1>3, <4>1 DEF AlwaysCalled, FunctionOf
      <4>3. Decides(x)
        BY <1>3, <1>12, <4>1, PlainDecides
      <4>. QED
        BY <1>6, <4>2, <4>3
    <3>. QED
      BY <1>2, <2>3, <3>1, <3>3, BehindEnters
  <2>. QED
    BY <2>4, <2>5
<1>13. CASE op \notin {"ret", "condbr", "call"}
  <2>1. Moves(t, q.stack, IF x = Terminator(program, b) THEN At(next[1]) ELSE Behind(e))
    BY <1>3, <1>8, <1>13
  <2>2. (IF x = Terminator(program, b) THEN At(next[1]) ELSE Behind(e)) \in Successors(e)
    BY <1>3, <1>13
  <2>. QED
    BY <1>9, <2>1, <2>2
<1>. QED
  BY <1>10, <1>11, <1>12, <1>13

\* Two runs with the same calls in progress that do the same have the same afterwards.
LEMMA SameMoves ==
  ASSUME NEW s, Len(s) \in Nat \ {0}, NEW t, NEW u, NEW d,
         \/ Moves(s, t, d) /\ Moves(s, u, d)
         \/ Returns(s, t) /\ Returns(s, u)
         \/ Enters(s, t, d) /\ Enters(s, u, d)
  PROVE  Ahead(t, u)
<1>1. Len(u) \in Nat /\ Len(t) = Len(u) /\ \A k \in 1 .. Len(u) : u[k] = t[k]
  <2>1. CASE Moves(s, t, d) /\ Moves(s, u, d)
    BY <2>1 DEF Moves
  <2>2. CASE Returns(s, t) /\ Returns(s, u)
    <3>1. Len(t) = Len(s) - 1 /\ Len(u) = Len(s) - 1
      BY <2>2 DEF Returns
    <3>2. \A k \in 1 .. Len(s) - 1 : u[k] = t[k]
      BY <2>2 DEF Returns
    <3>. QED
      BY <3>1, <3>2
  <2>3. CASE Enters(s, t, d) /\ Enters(s, u, d)
    <3>1. Len(t) = Len(s) + 1 /\ Len(u) = Len(s) + 1
      BY <2>3 DEF Enters
    <3>2. \A k \in 1 .. Len(s) + 1 : u[k] = t[k]
      BY <2>3 DEF Enters
    <3>. QED
      BY <3>1, <3>2
  <2>. QED
    BY <2>1, <2>2, <2>3
<1>. QED
  BY <1>1, AheadSame

\* The program and the slice go on together from what the slice decides at.
LEMMA BothGoOn ==
  ASSUME RunReady, NEW r, OriginalRun(r), NEW p, IsRun(p), p.copy = TRUE, p.status = "running",
         NEW R, LiveBlocks(code, R), StackOK(code, R, p.stack), p.stack = r.stack,
         Decides(Here(p.stack)), NEW choice \in Outcomes,
         NEW q, q = Execute(OriginalCode(program), r, choice),
         NEW v, v = Execute(code, p, choice)
  PROVE  q.status = "aborted" \/ (v.status \in {"running", "finished"} /\ Ahead(q.stack, v.stack))
<1>. DEFINE c == OriginalCode(program)
            t == r.stack
            n == Len(t)
            e == t[n]
            x == InstrAt(e)
            b == e.block
            op == program.instr[x].op
            next == program.block[b].succ
            callee == program.instr[x].callee
            k == choice.class
            mine == c.calls[x][k]
            copied == code.calls[x][k]
<1>1. SliceReady /\ PlainProgram(program) /\ PlainCode(code, Copied) /\ CodeOK(code, Copied, Copied)
  BY ReadySlice DEF RunReady
<1>2. /\ IsRun(r) /\ StackOK(c, DOMAIN program.block, t) /\ r.copy = FALSE /\ r.status = "running"
      /\ RunnableCode(c, DOMAIN program.block, r.copy)
  BY <1>1, OriginalRunnable DEF OriginalRun
<1>3. /\ R \in SUBSET DOMAIN program.block /\ RunnableCode(code, R, p.copy)
      /\ \A a \in R : program.block[a].fn \in Copied
  BY <1>1, LiveRunnable
<1>4. n \in Nat \ {0} /\ e \in Places(R) /\ Here(t) = x
  BY HereIs, Popped DEF StackOK
<1>5. /\ x \in Instr(program) /\ b \in R /\ b \in DOMAIN program.block /\ BlockOf(program, x) = b
      /\ op \notin {"invoke", "resume", "return", "removed"}
      /\ x = Terminator(program, b) <=> op \in {"br", "condbr", "ret"}
  BY <1>1, <1>3, <1>4, PlainPlace
<1>6. Included(x) /\ code.op[x] = op
  BY <1>4, <1>5, PlainDecides
<1>7. c.op[x] = op /\ c.succ[b] = next
  BY <1>5, OriginalFields
<1>8. op \in {"br", "condbr"} => code.succ[b] = next
  <2>. SUFFICES ASSUME op \in {"br", "condbr"} PROVE code.succ[b] = next
    OBVIOUS
  <2>1. LiveBlock(code, R, b) /\ x = Terminator(program, b)
    BY <1>5 DEF LiveBlocks
  <2>2. code.succ[b] # <<>>
    BY <1>6, <2>1 DEF LiveBlock
  <2>. QED
    BY <1>1, <1>5, <2>2 DEF PlainCode
<1>9. PlainDoes(c, r, choice, q)
  BY <1>1, <1>2, <1>5, <1>7, PlainStep
<1>10. PlainDoes(code, p, choice, v)
  BY <1>1, <1>3, <1>5, <1>6, PlainStep
<1>11. /\ op \in {"ret", "return"} => Returns(t, q.stack)
       /\ op = "condbr" => Moves(t, q.stack, At(next[choice.branch]))
       /\ op = "call" /\ mine.fn \in Own(program) /\ mine.copy = r.copy =>
            Enters(t, q.stack, Entry(mine.fn))
       /\ op = "call" /\ mine.fn \notin Own(program) /\ mine.fn # "" =>
            IF program.function[mine.fn].kind = "throws" /\ choice.throws
            THEN q.status = "aborted" ELSE Moves(t, q.stack, Behind(e))
       /\ op \notin {"ret", "return", "condbr", "call"} =>
            Moves(t, q.stack, IF x = Terminator(program, b) THEN At(next[1]) ELSE Behind(e))
  BY <1>7, <1>9 DEF PlainDoes
<1>12. /\ op \in {"ret", "return"} =>
            Returns(t, v.stack) /\ v.status = IF n = 1 THEN "finished" ELSE "running"
       /\ op = "condbr" => Moves(t, v.stack, At(code.succ[b][choice.branch])) /\ v.status = "running"
       /\ op = "call" /\ copied.fn \in Own(program) /\ copied.copy = p.copy =>
            Enters(t, v.stack, Entry(copied.fn)) /\ v.status = "running"
       /\ op = "call" /\ copied.fn \notin Own(program) /\ copied.fn # "" =>
            IF program.function[copied.fn].kind = "throws" /\ choice.throws
            THEN v.status = "aborted" ELSE Moves(t, v.stack, Behind(e)) /\ v.status = "running"
       /\ op \notin {"ret", "return", "condbr", "call"} =>
            /\ Moves(t, v.stack, IF x = Terminator(program, b) THEN At(code.succ[b][1]) ELSE Behind(e))
            /\ v.status = "running"
  BY <1>6, <1>10 DEF PlainDoes
<1>13. CASE op = "ret"
  BY <1>4, <1>11, <1>12, <1>13, SameMoves
<1>14. CASE op = "condbr"
  BY <1>4, <1>8, <1>11, <1>12, <1>14, SameMoves
<1>15. CASE op = "call"
  <2>1. x \in Calls(program) /\ callee \in Functions(program) /\ callee # "" /\ ~ Indirect(program, x)
    <3>1. x \in Calls(program)
      BY <1>5, <1>15 DEF Calls
    <3>2. callee \in Functions(program) /\ "" \notin Functions(program)
      BY <1>1, <3>1, PlainFacts DEF SliceReady, WellFormed
    <3>3. ~ Indirect(program, x)
      BY <1>1, <1>5 DEF PlainProgram
    <3>. QED
      BY <3>1, <3>2, <3>3
  <2>2. k \in DOMAIN program.vtable
    BY DEF Outcomes
  <2>3. mine.fn = callee /\ mine.copy = FALSE
    <3>1. mine = Original(callee)
      BY <1>1, <1>5, <2>1, <2>2, OriginalFields
    <3>2. Original(callee).fn = callee /\ Original(callee).copy = FALSE
      BY TargetFields
    <3>. QED
      BY <3>1, <3>2
  <2>4. copied.fn = callee
    BY <1>1, <2>1, <2>2 DEF CodeOK, TargetsOK, TargetOK
  <2>5. CASE callee \in Own(program)
    <3>1. callee \in Copied
      BY <1>6, <2>1, <2>5, PlainCopied DEF RunReady
    <3>2. ReplacedOK(code, x)
      BY <1>1, <1>3, <1>5 DEF CodeOK, FunctionOf
    <3>3. copied.copy
      BY <1>6, <2>1, <2>2, <3>1, <3>2 DEF ReplacedOK
    <3>4. copied.copy = TRUE
      BY <1>1, <2>1, <2>2, <3>3, TargetFields DEF CodeOK, TargetsOK, TargetOK
    <3>5. Enters(t, q.stack, Entry(callee))
      BY <1>2, <1>11, <1>15, <2>3, <2>5
    <3>6. Enters(t, v.stack, Entry(callee)) /\ v.status = "running"
      BY <1>12, <1>15, <2>4, <2>5, <3>4
    <3>. QED
      BY <1>4, <3>5, <3>6, SameMoves
  <2>6. CASE callee \notin Own(program)
    <3>1. CASE program.function[callee].kind = "throws" /\ choice.throws
      BY <1>11, <1>15, <2>1, <2>3, <2>6, <3>1
    <3>2. CASE ~ (program.function[callee].kind = "throws" /\ choice.throws)
      <4>1. Moves(t, q.stack, Behind(e))
        BY <1>11, <1>15, <2>1, <2>3, <2>6, <3>2
      <4>2. Moves(t, v.stack, Behind(e)) /\ v.status = "running"
        BY <1>12, <1>15, <2>1, <2>4, <2>6, <3>2
      <4>. QED
        BY <1>4, <4>1, <4>2, SameMoves
    <3>. QED
      BY <3>1, <3>2
  <2>. QED
    BY <2>5, <2>6
<1>16. CASE op \notin {"ret", "condbr", "call"}
  <2>. DEFINE d == IF x = Terminator(program, b) THEN At(next[1]) ELSE Behind(e)
  <2>1. Moves(t, q.stack, d)
    BY <1>5, <1>11, <1>16
  <2>2. x = Terminator(program, b) => code.succ[b] = next
    BY <1>5, <1>8, <1>16
  <2>3. Moves(t, v.stack, d) /\ v.status = "running"
    BY <1>5, <1>12, <1>16, <2>2
  <2>. HIDE DEF d
  <2>. QED
    BY <1>4, <2>1, <2>3, SameMoves
<1>. QED
  BY <1>13, <1>14, <1>15, <1>16

\* The program runs, and the slice is ahead of it unless it was aborted.
RunsAhead ==
  /\ OriginalRun(original) \/ OriginalOver(original)
  /\ original.status # "aborted" =>
       precompute.status \in {"running", "finished"} /\ Ahead(original.stack, precompute.stack)
AheadInv ==
  PlainProgram(program) /\ ResultsApart(program) /\ insertion = "running" => RunsAhead

\* What is looked at, while neither the program nor the slice nor the code changes.
LEMMA AheadStays ==
  ASSUME UNCHANGED <<program, slice, code>>
  PROVE  /\ \A t, s : Ahead(t, s)' <=> Ahead(t, s)
         /\ \A r : OriginalRun(r)' <=> OriginalRun(r)
         /\ \A r : OriginalOver(r)' <=> OriginalOver(r)
<1>1. /\ \A e : InstrAt(e)' = InstrAt(e) /\ Successors(e)' = Successors(e)
      /\ \A x : Decides(x)' <=> Decides(x)
      /\ \A e : AlwaysCalled(e)' <=> AlwaysCalled(e)
      /\ \A R : Places(R)' = Places(R)
  BY DEF InstrAt, Successors, Decides, AlwaysCalled, Included, Places
<1>2. \A W, e : Leads(W, e)' <=> Leads(W, e)
  BY <1>1 DEF Leads
<1>3. \A W : Invisible(W)' <=> Invisible(W)
  BY <1>1 DEF Invisible
<1>4. \A t, k : Silent(t, k)' <=> Silent(t, k)
  BY <1>1, <1>3 DEF Silent, Resume
<1>5. \A t, s : Ahead(t, s)' <=> Ahead(t, s)
  BY <1>2, <1>4 DEF Ahead, Resume
<1>6. \A c, R, s : StackOK(c, R, s)' <=> StackOK(c, R, s)
  BY <1>1 DEF StackOK
<1>7. \A r : OriginalRun(r)' <=> OriginalRun(r)
  BY <1>6 DEF OriginalRun, IsRun
<1>8. \A r : OriginalOver(r)' <=> OriginalOver(r)
  BY DEF OriginalOver, IsRun
<1>. QED
  BY <1>5, <1>7, <1>8

\* The slice in a running pass.
LEMMA RunningSlice ==
  ASSUME SliceRuns, precompute.status \in {"running", "finished"}
  PROVE  /\ IsRun(precompute) /\ precompute.copy = TRUE
         /\ Len(precompute.stack) \in Nat
         /\ \/ /\ precompute.status = "running" /\ precompute.stack # <<>> /\ Len(precompute.stack) > 0
               /\ \E R : LiveBlocks(code, R) /\ StackOK(code, R, precompute.stack)
            \/ precompute.status = "finished" /\ precompute.stack = <<>>
<1>1. CASE precompute.status = "running"
  <2>1. PICK R : LiveBlocks(code, R) /\ StackOK(code, R, precompute.stack)
    BY <1>1 DEF SliceRuns
  <2>2. Len(precompute.stack) \in Nat \ {0} /\ precompute.stack # <<>>
    BY <2>1, Popped DEF StackOK
  <2>. QED
    BY <1>1, <2>1, <2>2 DEF SliceRuns
<1>2. CASE precompute.status = "finished"
  BY <1>2 DEF SliceRuns
<1>. QED
  BY <1>1, <1>2

\* If they do not go on together, the program is at another place than the slice.
LEMMA NotTogether ==
  ASSUME SliceRuns, OriginalRun(original), precompute.status \in {"running", "finished"},
         Ahead(original.stack, precompute.stack), ~ Together
  PROVE  Len(precompute.stack) = Len(original.stack) =>
           precompute.stack[Len(precompute.stack)] # original.stack[Len(precompute.stack)]
<1>. DEFINE s == precompute.stack
            t == original.stack
<1>. SUFFICES ASSUME Len(s) = Len(t), s[Len(s)] = t[Len(s)] PROVE FALSE
  OBVIOUS
<1>1. t \in Seq(Places(DOMAIN program.block)) /\ Len(t) \in Nat \ {0}
  BY Popped DEF OriginalRun, StackOK
<1>2. precompute.status = "running"
  BY <1>1, RunningSlice
<1>3. PICK R : StackOK(code, R, s)
  BY <1>2, RunningSlice
<1>4. s \in Seq(Places(R))
  BY <1>3 DEF StackOK
<1>5. \A k \in 1 .. Len(s) : s[k] = t[k]
  BY <1>1 DEF Ahead
<1>6. s = t
  <2>. HIDE DEF s, t
  <2>. QED
    BY <1>1, <1>4, <1>5
<1>. QED
  BY <1>2, <1>6 DEF Together, Running

\* The state the pass runs both in.
LEMMA RunningReady ==
  ASSUME SliceInv, PlainInv, LeadInv, CodeInv, RunInv, PlainCodeInv, insertion = "running",
         PlainProgram(program), ResultsApart(program)
  PROVE  RunReady /\ SliceRuns
  BY DEF RunReady, SliceInv, CodeInv, RunInv, PlainCodeInv, ReplacedCopies, PrunedCopies

\* Both begin in main, if the slice has a copy of it.
LEMMA StartAhead ==
  ASSUME SliceInv, PlainInv, PlainProgram(program), Start
  PROVE  RunsAhead'
<1>. DEFINE e == Entry("main")
            b == program.function["main"].entry
            t == <<e>>
<1>1. /\ UNCHANGED <<program, slice, code>>
      /\ original' = [stack |-> t, status |-> "running", copy |-> FALSE]
      /\ precompute' = IF "main" \in Copied THEN [stack |-> t, status |-> "running", copy |-> TRUE]
                       ELSE [stack |-> <<>>, status |-> "finished", copy |-> TRUE]
  BY DEF Start, exceptVars, Run, NoRun
<1>2. SliceReady
  BY ReadySlice
<1>3. b \in DOMAIN program.block /\ program.block[b].fn = "main"
  BY <1>2 DEF SliceReady, WellFormed, BlocksOf
<1>4. e \in Places(DOMAIN program.block) /\ e.block = b
  BY <1>2, <1>3, EntryPlace DEF Entry
<1>. HIDE DEF e, b
<1>5. t \in Seq(Places(DOMAIN program.block)) /\ Len(t) = 1 /\ t[1] = e /\ t # <<>>
  BY <1>4
<1>. HIDE DEF t
<1>6. OriginalRun(original')
  <2>1. StackOK(OriginalCode(program), DOMAIN program.block, t)
    BY <1>5 DEF StackOK
  <2>2. IsRun(original')
    BY <1>1 DEF IsRun, RunFields
  <2>. QED
    BY <1>1, <2>1, <2>2 DEF OriginalRun
<1>7. precompute'.status \in {"running", "finished"} /\ Ahead(original'.stack, precompute'.stack)
  <2>1. CASE "main" \in Copied
    BY <1>1, <1>5, <2>1, AheadSame
  <2>2. CASE "main" \notin Copied
    <3>1. ~ AlwaysCalled(e)
      BY <1>3, <1>4, <2>2 DEF AlwaysCalled, PlainInv, PlainSound, Copied
    <3>2. Silent(t, 1)
      BY <1>5, <3>1 DEF Silent
    <3>3. Ahead(t, <<>>)
      BY <1>5, <3>2 DEF Ahead
    <3>. QED
      BY <1>1, <2>2, <3>3
  <2>. QED
    BY <2>1, <2>2
<1>. QED
  BY <1>1, <1>6, <1>7, AheadStays DEF RunsAhead

\* The slice goes on alone.
LEMMA SliceStepAhead ==
  ASSUME RunReady, SliceRuns, RunsAhead, SliceStep
  PROVE  RunsAhead'
<1>. DEFINE choice == CHOOSE c \in Outcomes : TRUE
            q == Execute(code, precompute, choice)
<1>1. /\ UNCHANGED <<program, slice, code, original>> /\ precompute' = q
      /\ precompute.status = "running" /\ ~ Decides(Here(precompute.stack))
  BY DEF SliceStep, exceptVars, insertionVars, Stable, Running
<1>. HIDE DEF choice
<1>2. ASSUME original.status # "aborted"
      PROVE  q.status \in {"running", "finished"} /\ Ahead(original.stack, q.stack)
  <2>1. PICK R : LiveBlocks(code, R) /\ StackOK(code, R, precompute.stack)
    BY <1>1, RunningSlice
  <2>2. Len(original.stack) \in Nat
    BY Popped DEF RunsAhead, OriginalRun, OriginalOver, StackOK
  <2>3. Ahead(original.stack, precompute.stack) /\ IsRun(precompute) /\ precompute.copy = TRUE
    BY <1>1, <1>2, RunningSlice DEF RunsAhead
  <2>. QED
    BY <1>1, <2>1, <2>2, <2>3, SliceGoesOn
<1>. HIDE DEF q
<1>. QED
  BY <1>1, <1>2, AheadStays DEF RunsAhead

\* The program goes on, with the slice or alone.
LEMMA OriginalStepAhead ==
  ASSUME RunReady, SliceRuns, RunsAhead, OriginalStep
  PROVE  RunsAhead'
<1>1. PICK choice \in Outcomes :
        /\ original' = Execute(OriginalCode(program), original, choice)
        /\ precompute' = IF Together THEN Execute(code, precompute, choice) ELSE precompute
  BY DEF OriginalStep
<1>. DEFINE q == Execute(OriginalCode(program), original, choice)
            v == Execute(code, precompute, choice)
<1>2. UNCHANGED <<program, slice, code>> /\ Stable /\ original.status = "running"
  BY DEF OriginalStep, exceptVars, insertionVars, Running
<1>3. /\ OriginalRun(original) /\ precompute.status \in {"running", "finished"}
      /\ Ahead(original.stack, precompute.stack)
  BY <1>2 DEF RunsAhead, OriginalOver
<1>4. OriginalRun(q) \/ OriginalOver(q)
  BY <1>3, ReadySlice, OriginalRunsOn DEF RunReady
<1>5. CASE Together
  <2>1. /\ precompute.status = "running" /\ precompute.stack = original.stack
        /\ Decides(Here(precompute.stack)) /\ precompute' = v
    BY <1>1, <1>2, <1>5 DEF Together, Running, Stable
  <2>2. PICK R : LiveBlocks(code, R) /\ StackOK(code, R, precompute.stack)
    BY <2>1, RunningSlice
  <2>3. IsRun(precompute) /\ precompute.copy = TRUE
    BY <1>3, RunningSlice
  <2>4. q.status = "aborted" \/ (v.status \in {"running", "finished"} /\ Ahead(q.stack, v.stack))
    BY <1>3, <2>1, <2>2, <2>3, BothGoOn
  <2>. HIDE DEF q, v
  <2>5. original' = q
    BY <1>1 DEF q
  <2>. QED
    BY <1>2, <1>4, <2>1, <2>4, <2>5, AheadStays DEF RunsAhead
<1>6. CASE ~ Together
  <2>1. Len(precompute.stack) \in Nat
    BY <1>3, RunningSlice
  <2>2. Len(precompute.stack) = Len(original.stack) =>
          precompute.stack[Len(precompute.stack)] # original.stack[Len(precompute.stack)]
    BY <1>3, <1>6, NotTogether
  <2>3. q.status = "aborted" \/ Ahead(q.stack, precompute.stack)
    BY <1>3, <2>1, <2>2, OriginalGoesOn
  <2>. HIDE DEF q
  <2>4. original' = q /\ precompute' = precompute
    BY <1>1, <1>6 DEF q
  <2>. QED
    BY <1>2, <1>3, <1>4, <2>3, <2>4, AheadStays DEF RunsAhead
<1>. QED
  BY <1>5, <1>6

\* In such a program the slice is ahead at each step of the runs.
THEOREM AheadInvariant == Spec => []AheadInv
<1>1. Init => AheadInv
  BY DEF Init, AheadInv
<1>2. SliceInv /\ PlainInv /\ LeadInv /\ CodeInv /\ RunInv /\ PlainCodeInv /\ AheadInv /\ [Next]_vars => AheadInv'
  <2>0. SUFFICES ASSUME SliceInv, PlainInv, LeadInv, CodeInv, RunInv, PlainCodeInv, AheadInv, [Next]_vars,
                        PlainProgram(program)', ResultsApart(program)', insertion' = "running"
                 PROVE  RunsAhead'
    BY DEF AheadInv
  <2>1. program' = program
    BY <2>0 DEF Next, ExceptNext, AnalyzeFunction, AnalyzeCallee, CheckCallee, NoCalleeExcepts, Analysis,
           Insertion, Start, SliceStep, OriginalStep, vars, exceptVars
  <2>2. PlainProgram(program) /\ ResultsApart(program)
    BY <2>0, <2>1
  <2>3. CASE Start
    BY <2>0, <2>2, <2>3, StartAhead
  <2>4. CASE insertion # "running" /\ ~ Start
    BY <2>0, <2>4 DEF Next, Analysis, Insertion, CopyFunctions, ReplaceCalls, Prune, NextLoop, SliceStep,
       OriginalStep, vars, insertionVars
  <2>5. CASE insertion = "running" /\ ~ Start
    <3>1. RunReady /\ SliceRuns /\ RunsAhead
      BY <2>0, <2>2, <2>5, RunningReady DEF AheadInv
    <3>2. UNCHANGED <<program, slice>> /\ ~ ExceptNext /\ ~ Analysis
      BY <2>0, <2>5, SliceStays
    <3>3. CASE SliceStep
      BY <3>1, <3>3, SliceStepAhead
    <3>4. CASE OriginalStep
      BY <3>1, <3>4, OriginalStepAhead
    <3>5. CASE UNCHANGED vars
      <4>1. UNCHANGED <<program, slice, code, original, precompute>>
        BY <3>5 DEF vars, exceptVars, insertionVars, runVars
      <4>. QED
        BY <3>1, <4>1, AheadStays DEF RunsAhead
    <3>6. ~ Insertion
      BY <2>5 DEF Insertion, CopyFunctions, ReplaceCalls, Prune, NextLoop
    <3>. QED
      BY <2>0, <2>5, <3>2, <3>3, <3>4, <3>5, <3>6 DEF Next
  <2>. QED
    BY <2>3, <2>4, <2>5
<1>. QED
  BY <1>1, <1>2, SliceInvariant, PlainInvariant, LeadInvariant, CodeInvariant, RunInvariant,
     PlainCodeInvariant, PTL DEF Spec

\* In a program with neither exceptions nor virtual calls, in which the result of a function
\* that only calls what holds a request is not used, the slice passes each requested
\* instruction when the program does.
THEOREM RequestsPassed ==
  Spec => [](PlainProgram(program) /\ ResultsApart(program) => RequestsReached)
<1>1. SliceInv /\ PlainInv /\ LeadInv /\ CodeInv /\ RunInv /\ PlainCodeInv /\ AheadInv =>
        (PlainProgram(program) /\ ResultsApart(program) => RequestsReached)
  <2>0. SUFFICES ASSUME SliceInv, PlainInv, LeadInv, CodeInv, RunInv, PlainCodeInv, AheadInv,
                        PlainProgram(program), ResultsApart(program), insertion = "running"
                 PROVE  RequestsReached
    BY DEF RequestsReached
  <2>1. RunReady /\ SliceRuns /\ RunsAhead
    BY <2>0, RunningReady DEF AheadInv
  <2>2. ASSUME original.status = "running", Here(original.stack) \in program.request, ~ Together
        PROVE  FALSE
    <3>. DEFINE n == Len(original.stack)
                e == original.stack[n]
                x == InstrAt(e)
    <3>1. /\ OriginalRun(original) /\ precompute.status \in {"running", "finished"}
          /\ Ahead(original.stack, precompute.stack)
      BY <2>1, <2>2 DEF RunsAhead, OriginalOver
    <3>2. n \in Nat \ {0} /\ Here(original.stack) = x /\ e \in Places(DOMAIN program.block)
      BY <3>1, HereIs, Popped DEF OriginalRun, StackOK
    <3>3. BlockOf(program, x) = e.block
      BY <2>1, <3>2, ReadySlice, PlaceFacts DEF RunReady
    <3>4. Decides(x) /\ FunctionOf(program, x) \in slice.include_all_callsites
      BY <2>1, <2>2, <3>2, LeadDone DEF RunReady, Decides
    <3>5. AlwaysCalled(e)
      BY <3>3, <3>4 DEF AlwaysCalled, FunctionOf
    <3>6. Len(precompute.stack) \in Nat
      BY <2>1, <3>1, RunningSlice
    <3>7. Len(precompute.stack) = Len(original.stack) =>
            precompute.stack[Len(precompute.stack)] # original.stack[Len(precompute.stack)]
      BY <2>1, <2>2, <3>1, NotTogether
    <3>. HIDE DEF n, e, x
    <3>. QED
      BY <3>1, <3>2, <3>4, <3>5, <3>6, <3>7, BehindIsQuiet DEF n, e, x
  <2>. QED
    BY <2>2 DEF RequestsReached, Running
<1>. QED
  BY <1>1, SliceInvariant, PlainInvariant, LeadInvariant, CodeInvariant, RunInvariant,
     PlainCodeInvariant, AheadInvariant, PTL

\* The slice of such a program is at its end when the program is.
THEOREM SliceFinishes ==
  Spec => [](PlainProgram(program) /\ ResultsApart(program) => SliceEnds)
<1>1. SliceInv /\ PlainInv /\ LeadInv /\ CodeInv /\ RunInv /\ PlainCodeInv /\ AheadInv =>
        (PlainProgram(program) /\ ResultsApart(program) => SliceEnds)
  <2>0. SUFFICES ASSUME SliceInv, PlainInv, LeadInv, CodeInv, RunInv, PlainCodeInv, AheadInv,
                        PlainProgram(program), ResultsApart(program), insertion = "running"
                 PROVE  SliceEnds
    BY DEF SliceEnds
  <2>1. RunReady /\ SliceRuns /\ RunsAhead
    BY <2>0, RunningReady DEF AheadInv
  <2>2. ASSUME original.status = "finished"
        PROVE  precompute.status = "finished"
    <3>1. original.stack = <<>> /\ precompute.status \in {"running", "finished"}
          /\ Ahead(original.stack, precompute.stack)
      BY <2>1, <2>2 DEF RunsAhead, OriginalRun, OriginalOver
    <3>2. ~ (Len(precompute.stack) > 0)
      BY <2>1, <3>1, RunningSlice DEF Ahead
    <3>. QED
      BY <2>1, <3>1, <3>2, RunningSlice
  <2>. QED
    BY <2>2 DEF SliceEnds, Running
<1>. QED
  BY <1>1, SliceInvariant, PlainInvariant, LeadInvariant, CodeInvariant, RunInvariant,
     PlainCodeInvariant, AheadInvariant, PTL

=============================================================================
