----------------------------- MODULE Threading ------------------------------
(***************************************************************************)
(* examples/threading/threading.c: a caller starts threads that sleep,     *)
(* obtain one mutex, hold it for a while and release it, and joins them.   *)
(* Time is a counter of ticks, Second of them to a second; it only matters *)
(* while somebody sleeps.                                                  *)
(***************************************************************************)
EXTENDS Naturals

CONSTANTS
  ThThreads,
  NoData,       (* thread_data that is not allocated *)
  Waits,        (* wait_to_obtain and wait_to_release arguments, in ticks  *)
  Second        (* ticks per second *)

ASSUME ThreadingAssumption ==
  "free" \notin ThThreads /\ (\A w \in Waits : w \in Nat) /\ Second \in Nat \ {0}

VARIABLES
  thNow,
  thMutex,      (* its owner, or "free" *)
  thPc,         (* where each thread is *)
  thData,       (* its struct thread_data, or NoData *)
  thWake,       (* when its sleep is over *)
  thSince       (* when it obtained the mutex *)

thVars == <<thNow, thMutex, thPc, thData, thWake, thSince>>

ThInit ==
  /\ thNow = 0 /\ thMutex = "free"
  /\ thPc = [t \in ThThreads |-> "none"] /\ thData = [t \in ThThreads |-> NoData]
  /\ thWake = [t \in ThThreads |-> 0] /\ thSince = [t \in ThThreads |-> 0]

ThGoto(t, from, to) == thPc[t] = from /\ thPc' = [thPc EXCEPT ![t] = to]

(* Mutant: the argument is taken for microseconds. *)
SleptTooLittle(wait) == (wait \div (1000 * Second)) * Second

(* sleep(ms / 1000) sleeps for whole seconds only. *)
Slept(wait) == (wait \div Second) * Second

(* start_thread_obtaining_mutex *)
ThStart(t) ==
  /\ ThGoto(t, "none", "started")
  /\ \E o, r \in Waits :
       thData' = [thData EXCEPT ![t] = [wait_to_obtain |-> o, wait_to_release |-> r,
                                         thread_complete_success |-> FALSE]]
  /\ UNCHANGED <<thNow, thMutex, thWake, thSince>>

(* malloc or pthread_create fails, and thread_data is freed. *)
ThStartFails(t) ==
  /\ ThGoto(t, "none", "not_started")
  /\ UNCHANGED <<thNow, thMutex, thData, thWake, thSince>>

(* threadfunc: the first sleep, *)
ThSleep(t) ==
  /\ ThGoto(t, "started", "obtaining")
  /\ thWake' = [thWake EXCEPT ![t] = thNow + Slept(thData[t].wait_to_obtain)]
  /\ UNCHANGED <<thNow, thMutex, thData, thSince>>

Awake(t) == thNow >= thWake[t]

(* pthread_mutex_lock and the second sleep, *)
ThLock(t) ==
  /\ Awake(t) /\ thMutex = "free" /\ ThGoto(t, "obtaining", "holding")
  /\ thMutex' = t /\ thSince' = [thSince EXCEPT ![t] = thNow]
  /\ thWake' = [thWake EXCEPT ![t] = thNow + Slept(thData[t].wait_to_release)]
  /\ UNCHANGED <<thNow, thData>>

(* The thread returns thread_data with its flag. *)
ThReturn(t, from, success) ==
  /\ Awake(t) /\ ThGoto(t, from, "returned")
  /\ thData' = [thData EXCEPT ![t].thread_complete_success = success]
  /\ UNCHANGED <<thNow, thWake, thSince>>

ThLockFails(t) == ThReturn(t, "obtaining", FALSE) /\ UNCHANGED thMutex

(* Mutant: the mutex is kept. *)
ThUnlockForgotten(t) == ThReturn(t, "holding", TRUE) /\ UNCHANGED thMutex

(* pthread_mutex_unlock. *)
ThUnlock(t) == ThReturn(t, "holding", TRUE) /\ thMutex' = "free"

ThUnlockFails(t) == ThReturn(t, "holding", FALSE) /\ UNCHANGED thMutex

(* The caller joins the thread, looks at the flag and frees thread_data.   *)
ThJoin(t) ==
  /\ ThGoto(t, "returned", IF thData[t].thread_complete_success THEN "joined" ELSE "joined_failed")
  /\ thData' = [thData EXCEPT ![t] = NoData]
  /\ UNCHANGED <<thNow, thMutex, thWake, thSince>>

ThTick ==
  /\ \E t \in ThThreads : ~Awake(t)
  /\ thNow' = thNow + 1
  /\ UNCHANGED <<thMutex, thPc, thData, thWake, thSince>>

ThRun(t) == ThSleep(t) \/ ThLock(t) \/ ThUnlock(t) \/ ThJoin(t)

ThNext ==
  \/ ThTick
  \/ \E t \in ThThreads :
       ThStart(t) \/ ThStartFails(t) \/ ThRun(t) \/ ThLockFails(t) \/ ThUnlockFails(t)

(* Time passes, and threads that can run do; nobody has to start one. *)
ThFairness == WF_thVars(ThTick) /\ \A t \in ThThreads : WF_thVars(ThRun(t))

ThSpec == ThInit /\ [][ThNext]_thVars /\ ThFairness
-----------------------------------------------------------------------------
(* A thread that reports success has held the mutex, alone, for more than  *)
(* wait_to_release_ms less one second: sleep takes whole seconds, so that  *)
(* the part below a second, which threading.h promises too, is not waited. *)
ThHoldsAlmostAsAsked ==
  [][\A t \in ThThreads :
       thPc[t] = "holding" /\ thPc'[t] = "returned" /\ thData'[t].thread_complete_success =>
         thMutex = t /\ thNow - thSince[t] + Second > thData[t].wait_to_release]_thVars

(* The owner's unlock failed: the mutex stays locked. *)
ThStuck ==
  \E t \in ThThreads :
    /\ thMutex = t
    /\ \/ thPc[t] = "joined_failed"
       \/ thPc[t] = "returned" /\ ~thData[t].thread_complete_success

(* Every thread that was started returns and is joined, unless an unlock   *)
(* has failed, which it then reports.                                      *)
ThCompletes ==
  \A t \in ThThreads : (thPc[t] = "started") ~> (thPc[t] \in {"joined", "joined_failed"} \/ ThStuck)
=============================================================================
