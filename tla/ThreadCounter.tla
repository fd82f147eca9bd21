---------------------------- MODULE ThreadCounter ----------------------------
(***************************************************************************)
(* A POSIX thread program after pthread_mitigation.cpp has instrumented    *)
(* it.  The pass adds a global counter, an atomic increment before every   *)
(* pthread_create, an atomic decrement after every pthread_join, and makes *)
(* every tsan access call depend on a load of the counter that is not zero.*)
(* The threads, and what the calls return, are those of the program that   *)
(* runs with the instrumentation.                                          *)
(***************************************************************************)
EXTENDS Integers, FiniteSets

CONSTANTS
  Thread,   \* the threads the program may create, and the initial one
  Main      \* the initial thread

ASSUME ThreadAssumption ==
  /\ IsFiniteSet(Thread)
  /\ Main \in Thread

VARIABLES
  ThreadCounter,   \* PRECOMPUTE_STATIC_ANALYSIS_INTERNAL_THREAD_COUNTER
  thread,          \* life of each thread
  at,              \* where each thread is in the instrumented code
  target           \* the thread its pthread_create or pthread_join is about

vars == <<ThreadCounter, thread, at, target>>

\* requested: counted, and pthread_create still to come; failed: it returned
\* an error.
Lives == {"none", "requested", "failed", "running", "exited", "joined"}

\* create: before pthread_create; joined: after pthread_join, before the
\* decrement; tsan, skip: after the load, with and without the tsan call.
Places == {"program", "create", "joined", "tsan", "skip"}

TypeOK ==
  /\ ThreadCounter \in Int
  /\ thread \in [Thread -> Lives]
  /\ at \in [Thread -> Places]
  /\ target \in [Thread -> Thread]

Init ==
  /\ ThreadCounter = 0
  /\ thread = [t \in Thread |-> IF t = Main THEN "running" ELSE "none"]
  /\ at = [t \in Thread |-> "program"]
  /\ target = [t \in Thread |-> t]

InProgram(t) == thread[t] = "running" /\ at[t] = "program"

-----------------------------------------------------------------------------
(* wrap_fork: the increment is moved before the call.                      *)

\* Mutant: a call that is not counted.
ForkNotCounted(t, u) ==
  /\ InProgram(t)
  /\ thread[u] = "none"
  /\ thread' = [thread EXCEPT ![u] = "requested"]
  /\ at' = [at EXCEPT ![t] = "create"]
  /\ target' = [target EXCEPT ![t] = u]
  /\ UNCHANGED ThreadCounter

Fork(t, u) ==
  /\ InProgram(t)
  /\ thread[u] = "none"
  /\ ThreadCounter' = ThreadCounter + 1
  /\ thread' = [thread EXCEPT ![u] = "requested"]
  /\ at' = [at EXCEPT ![t] = "create"]
  /\ target' = [target EXCEPT ![t] = u]

\* pthread_create
Create(t) ==
  /\ at[t] = "create"
  /\ thread' = [thread EXCEPT ![target[t]] = "running"]
  /\ at' = [at EXCEPT ![t] = "program"]
  /\ UNCHANGED <<ThreadCounter, target>>

CreateFails(t) ==
  /\ at[t] = "create"
  /\ thread' = [thread EXCEPT ![target[t]] = "failed"]
  /\ at' = [at EXCEPT ![t] = "program"]
  /\ UNCHANGED <<ThreadCounter, target>>

-----------------------------------------------------------------------------
\* The thread function returns, or pthread_exit.
Exit(t) ==
  /\ InProgram(t)
  /\ thread' = [thread EXCEPT ![t] = "exited"]
  /\ UNCHANGED <<ThreadCounter, at, target>>

\* pthread_join waits for the thread to end; the program joins it once.
Join(t, u) ==
  /\ InProgram(t)
  /\ thread[u] = "exited"
  /\ thread' = [thread EXCEPT ![u] = "joined"]
  /\ at' = [at EXCEPT ![t] = "joined"]
  /\ target' = [target EXCEPT ![t] = u]
  /\ UNCHANGED ThreadCounter

\* pthread_join returns an error at once (EDEADLK: two threads join each
\* other, or a thread itself).
JoinFails(t, u) ==
  /\ InProgram(t)
  /\ thread[u] = "running"
  /\ at' = [at EXCEPT ![t] = "joined"]
  /\ target' = [target EXCEPT ![t] = u]
  /\ UNCHANGED <<ThreadCounter, thread>>

\* Mutant: the decrement is missing.
JoinDoesNotCount(t) ==
  /\ at[t] = "joined"
  /\ at' = [at EXCEPT ![t] = "program"]
  /\ UNCHANGED <<ThreadCounter, thread, target>>

\* wrap_join: the decrement is moved after the call, whatever it returned.
AfterJoin(t) ==
  /\ at[t] = "joined"
  /\ ThreadCounter' = ThreadCounter - 1
  /\ at' = [at EXCEPT ![t] = "program"]
  /\ UNCHANGED <<thread, target>>

-----------------------------------------------------------------------------
(* wrap_tsan_calls: a volatile load, a comparison and a branch around the  *)
(* call.                                                                   *)

LoadCounter(t) ==
  /\ InProgram(t)
  /\ at' = [at EXCEPT ![t] = IF ThreadCounter # 0 THEN "tsan" ELSE "skip"]
  /\ UNCHANGED <<ThreadCounter, thread, target>>

\* The access the tsan call was for.
Access(t) ==
  /\ at[t] \in {"tsan", "skip"}
  /\ at' = [at EXCEPT ![t] = "program"]
  /\ UNCHANGED <<ThreadCounter, thread, target>>

Next ==
  \E t \in Thread :
    \/ Create(t) \/ CreateFails(t) \/ Exit(t) \/ AfterJoin(t)
    \/ LoadCounter(t) \/ Access(t)
    \/ \E u \in Thread : Fork(t, u) \/ Join(t, u)

\* No pthread_join returns an error.
Spec == Init /\ [][Next]_vars

SpecWithJoinErrors ==
  Init /\ [][Next \/ \E t, u \in Thread : JoinFails(t, u)]_vars

-----------------------------------------------------------------------------
\* "removal of possible single-threaded regions": an access goes without its
\* tsan call only when no other thread can run at that moment, so that no race
\* is missed.
SkippedAlone ==
  \A t \in Thread : at[t] = "skip" =>
    \A u \in Thread \ {t} : thread[u] \notin {"requested", "running"}

\* The accesses after the last join are single-threaded again: when every
\* other thread has been joined, and none was counted and not created, the
\* counter is zero.
CounterSettles ==
  \A t \in Thread :
    /\ InProgram(t)
    /\ \A u \in Thread \ {t} : thread[u] \in {"none", "joined"}
    => ThreadCounter = 0

=============================================================================
