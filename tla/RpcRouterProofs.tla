---------------------------- MODULE RpcRouterProofs ----------------------------
(***************************************************************************)
(* Theorems about RpcRouter, for any set of callers.  What holds of the    *)
(* router follows from one fact: the waiter of a call is at any time in at *)
(* most one place, the table, the hands of one thread, or filled.          *)
(***************************************************************************)
EXTENDS RpcRouter, TLAPS

(* A call in the table has been made, and its waiter is empty.             *)
TableOK ==
    \A c \in pending : pc[c] \in {"submit", "wait", "unregister"} /\ waiter[c] = Empty

(* Only a thread in its broadcast has waiters to wake; they are empty, in  *)
(* no table and in no other thread's hands.                                *)
WakeOK ==
    \A t \in Threads :
        /\ wake[t] # {} => phase[t] = "wake"
        /\ \A c \in wake[t] :
              /\ c \notin pending /\ waiter[c] = Empty /\ pc[c] # "idle"
              /\ \A u \in Threads \ {t} : c \notin wake[u]

(* The waiter to which the dispatcher delivers is empty, and the           *)
(* dispatcher's alone.                                                     *)
DeliverOK ==
    phase["dispatcher"] = "deliver" =>
        /\ message \in executed /\ message \notin pending
        /\ waiter[message] = Empty /\ pc[message] # "idle"
        /\ \A t \in Threads : message \notin wake[t]

(* Results are of executed calls, at every point of their way.             *)
ResultOK ==
    /\ source \subseteq executed \cup {Fatal}
    /\ phase["dispatcher"] = "match" => message \in executed
    /\ \A c \in Callers :
          /\ waiter[c] \in {Empty, Fatal, c}
          /\ waiter[c] = c => c \in executed
          /\ waiter[c] # Empty => pc[c] # "idle"

(* How a call ended agrees with what became of it.                         *)
OutcomeOK ==
    /\ executed \subseteq requests
    /\ \A c \in Callers :
          /\ outcome[c] \in {Empty, Fatal, TimedOut, Rejected, c}
          /\ outcome[c] = c => c \in executed
          /\ outcome[c] = Rejected => pc[c] = "done"
          /\ c \in requests => pc[c] \in {"wait", "unregister", "done"} /\ outcome[c] # Rejected

(* Whoever has registered and not ended has a waiter that will be filled.  *)
HeldOK ==
    /\ \A c \in Callers :
          pc[c] \in {"submit", "wait"} => c \in pending \/ waiter[c] # Empty \/ OnItsWay(c)
    /\ terminal => pending = {}

IInv ==
    TypeOK /\ TableOK /\ WakeOK /\ DeliverOK /\ ResultOK /\ OutcomeOK /\ HeldOK
    /\ DispatcherSurvives

-----------------------------------------------------------------------------
(* Every action keeps IInv.  The caller's actions.                         *)

(* A waiter enters the table empty.                                        *)
LEMMA RegisterStep ==
  ASSUME NEW c \in Callers, IInv, Register(c)
  PROVE  IInv'
  BY DEF IInv, TypeOK, TableOK, WakeOK, DeliverOK, ResultOK, OutcomeOK, HeldOK,
         DispatcherSurvives, OnItsWay, Register, Goto, MayRegister, engineVars, threadVars

(* A call that is refused never had a waiter.                              *)
LEMMA RefuseStep ==
  ASSUME NEW c \in Callers, IInv, Refuse(c)
  PROVE  IInv'
  <1>1. TypeOK'
    BY DEF IInv, TypeOK, Refuse, Goto, engineVars, routerVars, threadVars
  <1>2. TableOK'
    BY DEF IInv, TableOK, Refuse, Goto, routerVars
  <1>3. WakeOK'
    BY DEF IInv, WakeOK, Refuse, Goto, routerVars, threadVars
  <1>4. DeliverOK'
    BY DEF IInv, DeliverOK, Refuse, Goto, engineVars, routerVars, threadVars
  <1>5. ResultOK'
    BY DEF IInv, ResultOK, Refuse, Goto, engineVars, threadVars
  <1>6. OutcomeOK'
    BY RouterAssumption DEF IInv, TypeOK, OutcomeOK, Refuse, Goto, engineVars
  <1>7. HeldOK'
    BY DEF IInv, HeldOK, OnItsWay, Refuse, Goto, routerVars, threadVars
  <1>8. DispatcherSurvives'
    BY DEF IInv, DispatcherSurvives, Refuse, threadVars
  <1> QED
    BY <1>1, <1>2, <1>3, <1>4, <1>5, <1>6, <1>7, <1>8 DEF IInv

(* A call is put into the request queue only while it is held.             *)
LEMMA SubmitStep ==
  ASSUME NEW c \in Callers, IInv, Submit(c)
  PROVE  IInv'
  <1>1. TypeOK'
    BY DEF IInv, TypeOK, Submit, Goto, routerVars, threadVars
  <1>2. TableOK'
    BY DEF IInv, TableOK, Submit, Goto, routerVars
  <1>3. WakeOK'
    BY DEF IInv, WakeOK, Submit, Goto, routerVars, threadVars
  <1>4. DeliverOK'
    BY DEF IInv, DeliverOK, Submit, Goto, routerVars, threadVars
  <1>5. ResultOK'
    BY DEF IInv, ResultOK, Submit, Goto, threadVars
  <1>6. OutcomeOK'
    BY DEF IInv, TypeOK, OutcomeOK, Submit, Goto
  <1>7. HeldOK'
    BY DEF IInv, HeldOK, OnItsWay, Submit, Goto, routerVars, threadVars
  <1>8. DispatcherSurvives'
    BY DEF IInv, DispatcherSurvives, Submit, threadVars
  <1> QED
    BY <1>1, <1>2, <1>3, <1>4, <1>5, <1>6, <1>7, <1>8 DEF IInv

(* A call that was not submitted ends.                                     *)
LEMMA SubmitFailsStep ==
  ASSUME NEW c \in Callers, IInv, SubmitFails(c)
  PROVE  IInv'
  <1>1. TypeOK'
    BY DEF IInv, TypeOK, SubmitFails, Goto, End, engineVars, routerVars, threadVars
  <1>2. TableOK'
    BY DEF IInv, TableOK, SubmitFails, Goto, End, routerVars
  <1>3. WakeOK'
    BY DEF IInv, WakeOK, SubmitFails, Goto, End, routerVars, threadVars
  <1>4. DeliverOK'
    BY DEF IInv, DeliverOK, SubmitFails, Goto, End, engineVars, routerVars, threadVars
  <1>5. ResultOK'
    BY DEF IInv, ResultOK, SubmitFails, Goto, End, engineVars, threadVars
  <1>6. OutcomeOK'
    BY RouterAssumption DEF IInv, OutcomeOK, SubmitFails, Goto, End, engineVars
  <1>7. HeldOK'
    BY DEF IInv, HeldOK, OnItsWay, SubmitFails, Goto, End, routerVars, threadVars
  <1>8. DispatcherSurvives'
    BY DEF IInv, DispatcherSurvives, SubmitFails, threadVars
  <1> QED
    BY <1>1, <1>2, <1>3, <1>4, <1>5, <1>6, <1>7, <1>8 DEF IInv

(* What a caller takes was put in for it.                                  *)
LEMMA GetStep ==
  ASSUME NEW c \in Callers, IInv, Get(c)
  PROVE  IInv'
  <1>1. TypeOK'
    BY DEF IInv, TypeOK, Get, Goto, End, engineVars, routerVars, threadVars
  <1>2. TableOK'
    BY DEF IInv, TableOK, Get, Goto, End, routerVars
  <1>3. WakeOK'
    BY DEF IInv, WakeOK, Get, Goto, End, routerVars, threadVars
  <1>4. DeliverOK'
    BY DEF IInv, DeliverOK, Get, Goto, End, engineVars, routerVars, threadVars
  <1>5. ResultOK'
    BY RouterAssumption DEF IInv, ResultOK, Get, Goto, End, engineVars, threadVars
  <1>6. OutcomeOK'
    BY RouterAssumption DEF IInv, OutcomeOK, ResultOK, Get, Goto, End, engineVars
  <1>7. HeldOK'
    BY DEF IInv, TypeOK, HeldOK, OnItsWay, Get, Goto, End, routerVars, threadVars
  <1>8. DispatcherSurvives'
    BY DEF IInv, DispatcherSurvives, Get, threadVars
  <1> QED
    BY <1>1, <1>2, <1>3, <1>4, <1>5, <1>6, <1>7, <1>8 DEF IInv

(* A caller that gives up leaves its waiter where it is.                   *)
LEMMA TimeOutStep ==
  ASSUME NEW c \in Callers, IInv, TimeOut(c)
  PROVE  IInv'
  <1>1. TypeOK'
    BY DEF IInv, TypeOK, TimeOut, Goto, End, engineVars, routerVars, threadVars
  <1>2. TableOK'
    BY DEF IInv, TableOK, TimeOut, Goto, End, routerVars
  <1>3. WakeOK'
    BY DEF IInv, WakeOK, TimeOut, Goto, End, routerVars, threadVars
  <1>4. DeliverOK'
    BY DEF IInv, DeliverOK, TimeOut, Goto, End, engineVars, routerVars, threadVars
  <1>5. ResultOK'
    BY DEF IInv, ResultOK, TimeOut, Goto, End, engineVars, threadVars
  <1>6. OutcomeOK'
    BY RouterAssumption DEF IInv, OutcomeOK, TimeOut, Goto, End, engineVars
  <1>7. HeldOK'
    BY DEF IInv, HeldOK, OnItsWay, TimeOut, Goto, End, routerVars, threadVars
  <1>8. DispatcherSurvives'
    BY DEF IInv, DispatcherSurvives, TimeOut, threadVars
  <1> QED
    BY <1>1, <1>2, <1>3, <1>4, <1>5, <1>6, <1>7, <1>8 DEF IInv

(* The waiter leaves the table, if it is still there.                      *)
LEMMA UnregisterStep ==
  ASSUME NEW c \in Callers, IInv, Unregister(c)
  PROVE  IInv'
  BY DEF IInv, TypeOK, TableOK, WakeOK, DeliverOK, ResultOK, OutcomeOK, HeldOK,
         DispatcherSurvives, OnItsWay, Unregister, Goto, engineVars, threadVars

-----------------------------------------------------------------------------
(* The orchestrator's and the dispatcher's actions.                        *)

(* A result of a call that is now executed.                                *)
LEMMA ExecuteStep ==
  ASSUME NEW c \in Callers, IInv, Execute(c)
  PROVE  IInv'
  BY DEF IInv, TypeOK, TableOK, WakeOK, DeliverOK, ResultOK, OutcomeOK, HeldOK,
         DispatcherSurvives, OnItsWay, Execute, callVars, routerVars, threadVars

(* A fatal error is no call's result.                                      *)
LEMMA DieStep ==
  ASSUME IInv, Die
  PROVE  IInv'
  BY DEF IInv, TypeOK, TableOK, WakeOK, DeliverOK, ResultOK, OutcomeOK, HeldOK,
         DispatcherSurvives, OnItsWay, Die, callVars, routerVars, threadVars

(* The dispatcher drops the last message.                                  *)
LEMMA CheckStep ==
  ASSUME IInv, Check
  PROVE  IInv'
  BY DEF IInv, TypeOK, TableOK, WakeOK, DeliverOK, ResultOK, OutcomeOK, HeldOK,
         DispatcherSurvives, OnItsWay, Threads, Phases, Check, Enter, callVars, engineVars,
         routerVars

(* A message in hand is of an executed call, or fatal.                     *)
LEMMA PollStep ==
  ASSUME NEW m \in source, IInv, Poll(m)
  PROVE  IInv'
  <1>1. TypeOK'
    BY DEF IInv, TypeOK, Phases, Poll, Enter, callVars, engineVars, routerVars
  <1>2. TableOK'
    BY DEF IInv, TableOK, Poll, callVars, routerVars
  <1>3. WakeOK'
    BY DEF IInv, WakeOK, Poll, Enter, callVars, routerVars
  <1>4. DeliverOK'
    BY DEF IInv, DeliverOK, Poll, Enter
  <1>5. ResultOK'
    BY DEF IInv, ResultOK, Poll, Enter, callVars, engineVars
  <1>6. OutcomeOK'
    BY DEF IInv, OutcomeOK, Poll, callVars, engineVars
  <1>7. HeldOK'
    BY DEF IInv, HeldOK, OnItsWay, Poll, callVars, routerVars
  <1>8. DispatcherSurvives'
    BY DEF IInv, DispatcherSurvives, Poll, Enter
  <1> QED
    BY <1>1, <1>2, <1>3, <1>4, <1>5, <1>6, <1>7, <1>8 DEF IInv

(* Nothing has come.                                                       *)
LEMMA PollEmptyStep ==
  ASSUME IInv, PollEmpty
  PROVE  IInv'
  BY DEF IInv, TypeOK, TableOK, WakeOK, DeliverOK, ResultOK, OutcomeOK, HeldOK,
         DispatcherSurvives, OnItsWay, Threads, Phases, PollEmpty, Enter, callVars,
         engineVars, routerVars

(* The dispatcher stops or begins its broadcast.                           *)
LEMMA SourceFailsStep ==
  ASSUME IInv, SourceFails
  PROVE  IInv'
  BY DEF IInv, TypeOK, TableOK, WakeOK, DeliverOK, ResultOK, OutcomeOK, HeldOK,
         DispatcherSurvives, OnItsWay, Threads, Phases, SourceFails, Enter, callVars,
         engineVars, routerVars

(* The waiter goes from the table into the dispatcher's hands.             *)
LEMMA MatchStep ==
  ASSUME IInv, Match
  PROVE  IInv'
  BY DEF IInv, TypeOK, TableOK, WakeOK, DeliverOK, ResultOK, OutcomeOK, HeldOK,
         DispatcherSurvives, OnItsWay, Threads, Phases, Match, Enter, Addressee, Matched,
         callVars, engineVars

(* The waiter the dispatcher holds is empty, so the message fits.          *)
LEMMA DeliverStep ==
  ASSUME IInv, Deliver
  PROVE  IInv'
  <1>1. TypeOK'
    BY DEF IInv, TypeOK, Phases, Deliver, Enter, callVars, engineVars, routerVars
  <1>2. TableOK'
    BY DEF IInv, TypeOK, TableOK, Deliver, callVars, routerVars, DeliverOK
  <1>3. WakeOK'
    BY DEF IInv, TypeOK, WakeOK, Deliver, Enter, callVars, routerVars, DeliverOK
  <1>4. DeliverOK'
    BY DEF IInv, TypeOK, DeliverOK, Threads, Deliver, Enter
  <1>5. ResultOK'
    BY DEF IInv, TypeOK, ResultOK, DeliverOK, Deliver, callVars, engineVars
  <1>6. OutcomeOK'
    BY DEF IInv, OutcomeOK, Deliver, callVars, engineVars
  <1>7. HeldOK'
    BY RouterAssumption DEF IInv, TypeOK, HeldOK, OnItsWay, Deliver, callVars, routerVars
  <1>8. DispatcherSurvives'
    BY DEF IInv, TypeOK, DispatcherSurvives, DeliverOK, Deliver, Enter
  <1> QED
    BY <1>1, <1>2, <1>3, <1>4, <1>5, <1>6, <1>7, <1>8 DEF IInv

-----------------------------------------------------------------------------
(* Close and the broadcast.                                                *)

(* Close begins its broadcast.                                             *)
LEMMA StopStep ==
  ASSUME IInv, Stop
  PROVE  IInv'
  BY DEF IInv, TypeOK, TableOK, WakeOK, DeliverOK, ResultOK, OutcomeOK, HeldOK,
         DispatcherSurvives, OnItsWay, Threads, Phases, Stop, Enter, callVars, engineVars

(* All waiters go from the table into one thread's hands.                  *)
LEMMA LatchStep ==
  ASSUME NEW t \in Threads, IInv, Latch(t)
  PROVE  IInv'
  <1>1. TypeOK'
    BY DEF IInv, TypeOK, Phases, Latch, Enter, ToWake, callVars, engineVars
  <1>2. TableOK'
    BY DEF IInv, TableOK, Latch
  <1>3. WakeOK'
    BY DEF IInv, TypeOK, WakeOK, TableOK, Latch, Enter, ToWake, callVars
  <1>4. DeliverOK'
    BY DEF IInv, DeliverOK, Latch, Enter, ToWake, callVars, engineVars
  <1>5. ResultOK'
    BY DEF IInv, ResultOK, Latch, Enter, callVars, engineVars
  <1>6. OutcomeOK'
    BY DEF IInv, OutcomeOK, Latch, callVars, engineVars
  <1>7. HeldOK'
    BY DEF IInv, TypeOK, HeldOK, OnItsWay, WakeOK, Latch, Enter, ToWake, callVars
  <1>8. DispatcherSurvives'
    BY DEF IInv, DispatcherSurvives, Latch, Enter
  <1> QED
    BY <1>1, <1>2, <1>3, <1>4, <1>5, <1>6, <1>7, <1>8 DEF IInv

(* The waiter a thread holds is filled as it lets go of it.                *)
LEMMA WakeStep ==
  ASSUME NEW t \in Threads, NEW c \in Callers, IInv, Wake(t, c)
  PROVE  IInv'
  <1>1. TypeOK'
    BY DEF IInv, TypeOK, Wake, callVars, engineVars, routerVars
  <1>2. TableOK'
    BY DEF IInv, TableOK, Wake, callVars, routerVars, WakeOK
  <1>3. WakeOK'
    BY DEF IInv, TypeOK, WakeOK, Wake, callVars, routerVars
  <1>4. DeliverOK'
    BY DEF IInv, DeliverOK, Wake, callVars, engineVars, routerVars
  <1>5. ResultOK'
    BY RouterAssumption DEF IInv, ResultOK, Wake, callVars, engineVars, WakeOK
  <1>6. OutcomeOK'
    BY DEF IInv, OutcomeOK, Wake, callVars, engineVars
  <1>7. HeldOK'
    BY RouterAssumption DEF IInv, TypeOK, HeldOK, OnItsWay, Wake, callVars, routerVars
  <1>8. DispatcherSurvives'
    BY DEF IInv, DispatcherSurvives, Wake
  <1> QED
    BY <1>1, <1>2, <1>3, <1>4, <1>5, <1>6, <1>7, <1>8 DEF IInv

(* A thread ends its broadcast with no waiter in its hands.                *)
LEMMA AwakeStep ==
  ASSUME NEW t \in Threads, IInv, Awake(t)
  PROVE  IInv'
  <1>1. TypeOK'
    BY DEF IInv, TypeOK, Phases, Awake, Enter, callVars, engineVars, routerVars
  <1>2. TableOK'
    BY DEF IInv, TableOK, Awake, callVars, routerVars
  <1>3. WakeOK'
    BY DEF IInv, WakeOK, Awake, Enter, callVars, routerVars
  <1>4. DeliverOK'
    BY DEF IInv, DeliverOK, Awake, Enter, callVars, engineVars, routerVars
  <1>5. ResultOK'
    BY DEF IInv, ResultOK, Awake, Enter, callVars, engineVars
  <1>6. OutcomeOK'
    BY DEF IInv, OutcomeOK, Awake, callVars, engineVars
  <1>7. HeldOK'
    BY DEF IInv, HeldOK, OnItsWay, Awake, Enter, callVars, routerVars
  <1>8. DispatcherSurvives'
    BY DEF IInv, DispatcherSurvives, Awake, Enter
  <1> QED
    BY <1>1, <1>2, <1>3, <1>4, <1>5, <1>6, <1>7, <1>8 DEF IInv

-----------------------------------------------------------------------------
(* The invariant.                                                          *)

(* Nothing is in the table, in hands or on its way at first.               *)
LEMMA InitIInv == Init => IInv
  <1> SUFFICES ASSUME Init
               PROVE  IInv
    OBVIOUS
  <1>1. TypeOK
    BY DEF Init, TypeOK, Threads, Phases
  <1>2. TableOK /\ WakeOK /\ DeliverOK /\ DispatcherSurvives
    BY DEF Init, TableOK, WakeOK, DeliverOK, DispatcherSurvives, Threads
  <1>3. ResultOK /\ OutcomeOK /\ HeldOK
    BY RouterAssumption DEF Init, ResultOK, OutcomeOK, HeldOK, Threads
  <1> QED
    BY <1>1, <1>2, <1>3 DEF IInv

(* A step that changes nothing keeps IInv.                                 *)
LEMMA StutterKeepsIInv == IInv /\ UNCHANGED vars => IInv'
  BY DEF IInv, TypeOK, TableOK, WakeOK, DeliverOK, ResultOK, OutcomeOK, HeldOK,
         DispatcherSurvives, OnItsWay, vars, callVars, engineVars, routerVars, threadVars

(* Every step keeps IInv.                                                  *)
LEMMA NextKeepsIInv == IInv /\ [Next]_vars => IInv'
  <1> SUFFICES ASSUME IInv, [Next]_vars
               PROVE  IInv'
    OBVIOUS
  <1>1. ASSUME NEW c \in Callers, Caller(c)
        PROVE  IInv'
    BY <1>1, RegisterStep, RefuseStep, SubmitStep, SubmitFailsStep, GetStep, TimeOutStep,
       UnregisterStep DEF Caller
  <1>2. CASE Dispatch
    BY <1>2, CheckStep, PollStep, PollEmptyStep, SourceFailsStep, MatchStep, DeliverStep
       DEF Dispatch
  <1>3. ASSUME NEW t \in Threads, Broadcast(t)
        PROVE  IInv'
    BY <1>3, LatchStep, WakeStep, AwakeStep DEF Broadcast
  <1> QED
    BY <1>1, <1>2, <1>3, ExecuteStep, DieStep, StopStep, StutterKeepsIInv DEF Next

(* IInv holds always.                                                      *)
LEMMA Invariance == Spec => []IInv
  BY InitIInv, NextKeepsIInv, PTL DEF Spec

(* Every reachable state is well typed.                                    *)
THEOREM RouterTypeCorrect == Spec => []TypeOK
  <1>1. IInv => TypeOK
    BY DEF IInv
  <1> QED
    BY <1>1, Invariance, PTL

(* Whoever waits for an answer is in the table, has its message, or is in  *)
(* the hands of a thread that will send it one.                            *)
THEOREM NobodyIsStranded == Spec => []NobodyStranded
  <1>1. IInv => NobodyStranded
    BY DEF IInv, HeldOK, NobodyStranded
  <1> QED
    BY <1>1, Invariance, PTL

(* The dispatcher never puts a message into a waiter that is full.         *)
THEOREM DispatcherLives == Spec => []DispatcherSurvives
  <1>1. IInv => DispatcherSurvives
    BY DEF IInv
  <1> QED
    BY <1>1, Invariance, PTL

-----------------------------------------------------------------------------
(* The router implements RpcCalls.                                         *)

(* What a caller sees depends on its own program counter and outcome.      *)
LEMMA SeenByOne ==
  ASSUME NEW c \in Callers, TypeOK,
         pc' = [pc EXCEPT ![c] = pc'[c]],
         outcome' = [outcome EXCEPT ![c] = outcome'[c]]
  PROVE  CallState' = [CallState EXCEPT ![c] = CallState'[c]]
  <1>1. \A x \in Callers \ {c} : pc'[x] = pc[x] /\ outcome'[x] = outcome[x]
    BY DEF TypeOK
  <1> QED
    BY <1>1 DEF CallState

(* Steps that leave all callers alone change nothing they see.             *)
LEMMA SeenByNone ==
  ASSUME UNCHANGED callVars
  PROVE  UNCHANGED CallState
  BY DEF CallState, callVars

(* The initial state is one of RpcCalls.                                   *)
LEMMA CallsInit == Init => Calls!Init
  BY DEF Init, Calls!Init, CallState, Seen

(* Each step is a step of RpcCalls or nothing to it.                       *)
LEMMA CallsStep ==
  ASSUME IInv, [Next]_vars
  PROVE  [Calls!Next]_<<CallState, executed, terminal \/ stopped>>
  <1> USE DEF IInv
  <1>1. ASSUME NEW c \in Callers, Register(c)
        PROVE  Calls!Call(c)
    <2>1. CallState[c] = "idle" /\ CallState'[c] = "open"
      BY <1>1 DEF Register, Goto, CallState, Seen, TypeOK
    <2> QED
      BY <1>1, <2>1, SeenByOne
         DEF Register, Goto, MayRegister, Calls!Call, TypeOK, engineVars
  <1>2. ASSUME NEW c \in Callers, Refuse(c)
        PROVE  Calls!Reject(c)
    <2>1. CallState[c] = "idle" /\ CallState'[c] = "rejected"
      BY <1>2, RouterAssumption DEF Refuse, Goto, CallState, Seen, TypeOK
    <2> QED
      BY <1>2, <2>1, SeenByOne
         DEF Refuse, Goto, MayRegister, Calls!Reject, TypeOK, engineVars, routerVars
  <1>3. ASSUME NEW c \in Callers, Submit(c)
        PROVE  UNCHANGED <<CallState, executed, terminal, stopped>>
    <2>1. CallState[c] = "open" /\ CallState'[c] = "open"
      BY <1>3 DEF Submit, Goto, CallState, Seen, TypeOK
    <2>2. CallState' = [CallState EXCEPT ![c] = "open"]
      BY <1>3, <2>1, SeenByOne DEF Submit, Goto, TypeOK
    <2> QED
      BY <1>3, <2>1, <2>2 DEF Submit, CallState, routerVars
  <1>4. ASSUME NEW c \in Callers, SubmitFails(c)
        PROVE  Calls!GiveUp(c, "failed")
    <2>1. CallState[c] = "open" /\ CallState'[c] = "failed"
      BY <1>4, RouterAssumption DEF SubmitFails, End, Goto, CallState, Seen, TypeOK
    <2> QED
      BY <1>4, <2>1, SeenByOne
         DEF SubmitFails, End, Goto, Calls!GiveUp, TypeOK, engineVars, routerVars
  <1>5. ASSUME NEW c \in Callers, Get(c)
        PROVE  Calls!Answer(c) \/ Calls!GiveUp(c, "failed")
    <2>1. CallState[c] = "open"
      BY <1>5 DEF Get, CallState, Seen, TypeOK
    <2>2. (waiter[c] = c /\ c \in executed) \/ waiter[c] = Fatal
      BY <1>5 DEF Get, ResultOK
    <2>3. CallState'[c] = IF waiter[c] = c THEN "answered" ELSE "failed"
      BY <1>5, <2>2, RouterAssumption DEF Get, End, Goto, CallState, Seen, TypeOK
    <2>4. CallState' = [CallState EXCEPT ![c] = CallState'[c]]
      BY <1>5, SeenByOne DEF Get, End, Goto, TypeOK
    <2>5. UNCHANGED <<executed, terminal, stopped>>
      BY <1>5 DEF Get, engineVars, routerVars
    <2>6. CASE waiter[c] = c /\ c \in executed
      BY <2>1, <2>3, <2>4, <2>5, <2>6 DEF Calls!Answer
    <2>7. CASE waiter[c] = Fatal
      <3>1. waiter[c] # c
        BY <2>7, RouterAssumption
      <3> QED
        BY <2>1, <2>3, <2>4, <2>5, <3>1 DEF Calls!GiveUp
    <2> QED
      BY <2>2, <2>6, <2>7
  <1>6. ASSUME NEW c \in Callers, TimeOut(c)
        PROVE  Calls!GiveUp(c, "timed_out")
    <2>1. CallState[c] = "open" /\ CallState'[c] = "timed_out"
      BY <1>6, RouterAssumption DEF TimeOut, End, Goto, CallState, Seen, TypeOK
    <2> QED
      BY <1>6, <2>1, SeenByOne
         DEF TimeOut, End, Goto, Calls!GiveUp, TypeOK, engineVars, routerVars
  <1>7. ASSUME NEW c \in Callers, Unregister(c)
        PROVE  UNCHANGED <<CallState, executed, terminal, stopped>>
    BY <1>7 DEF Unregister, Goto, CallState, Seen, TypeOK, engineVars
  <1>8. ASSUME NEW c \in Callers, Execute(c)
        PROVE  Calls!Execute(c)
    <2>1. CallState[c] \in {"open", "failed", "timed_out"}
      BY <1>8 DEF Execute, CallState, Seen, TypeOK, OutcomeOK
    <2> QED
      BY <1>8, <2>1, SeenByNone DEF Execute, Calls!Execute, routerVars
  <1>9. CASE Die
    BY <1>9, SeenByNone DEF Die, routerVars
  <1>10. CASE Dispatch
    BY <1>10, SeenByNone
       DEF Dispatch, Check, Poll, PollEmpty, SourceFails, Match, Deliver, engineVars, routerVars
  <1>11. CASE Stop
    <2>1. stopped' = TRUE /\ UNCHANGED <<CallState, executed>>
      BY <1>11, SeenByNone DEF Stop, engineVars
    <2>2. (terminal \/ stopped)' = TRUE
      BY <2>1
    <2> QED
      BY <2>1, <2>2 DEF Calls!Close, Calls!Next
  <1>12. ASSUME NEW t \in Threads, Broadcast(t)
         PROVE  Calls!Close \/ UNCHANGED <<CallState, executed, terminal, stopped>>
    BY <1>12, SeenByNone DEF Broadcast, Latch, Wake, Awake, Calls!Close, engineVars, routerVars
  <1>13. CASE UNCHANGED vars
    BY <1>13, SeenByNone DEF vars, engineVars, routerVars
  <1> QED
    BY <1>1, <1>2, <1>3, <1>4, <1>5, <1>6, <1>7, <1>8, <1>9, <1>10, <1>11, <1>12, <1>13
       DEF Next, Caller, Calls!Next

(* Callers of the router see what RpcCalls promises: a call ends once,     *)
(* with its own answer or without one.                                     *)
THEOREM RouterKeepsCalls == Spec => CallsKept
  BY CallsInit, CallsStep, Invariance, PTL DEF Spec, CallsKept, Calls!Spec

=============================================================================
