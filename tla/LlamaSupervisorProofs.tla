----------------------- MODULE LlamaSupervisorProofs ------------------------
(***************************************************************************)
(* LlamaSupervisor for every number of threads and children: no running    *)
(* child is forgotten, and the published address is that of the child the  *)
(* supervisor holds.  Both rest on the lock: while it is free, a held      *)
(* process has its port, so a running child is seen before a launch.       *)
(***************************************************************************)
EXTENDS LlamaSupervisor, TLAPS

\* Where a call follows a child, there is one.
CallsTyped ==
    \A t \in Thread :
        call[t].pc \in {"start_bind", "wait", "poll", "stop_terminate", "stop_wait", "kill_wait"}
            => call[t].proc \in Proc

\* The lock is held exactly by the thread between the launch and the binding,
\* and until then the process is the one it launched.
LockHeld ==
    \A t \in Thread :
        call[t].pc = "start_bind" => lock = t /\ process = call[t].proc

PortKnown == lock = None /\ process # None => port # None

IInv == TypeOK /\ CallsTyped /\ LockHeld /\ PortKnown /\ NoOrphan /\ AddressIsOurs

-----------------------------------------------------------------------------
LEMMA InitIInv == Init => IInv
  BY NoneIsNoThing DEF Init, IInv, TypeOK, Refusal, CallsTyped, LockHeld, PortKnown,
     NoOrphan, AddressIsOurs, Alive, Idle, Call, CallPC, ChildState

\* A step that only moves thread t, and not out of a stop that has yet to kill.
LEMMA OnlyTheCall ==
  ASSUME IInv, NEW t \in Thread, NEW c \in Call, Become(t, c),
         UNCHANGED <<process, port, lock, proc, job, lost, refused>>,
         c.pc # "start_bind", call[t].pc # "start_bind",
         c.pc \in {"wait", "poll", "stop_terminate", "stop_wait", "kill_wait"} => c.proc \in Proc,
         \A p \in Proc : Stopping(t, p) /\ Alive(p) /\ proc[p] # "killed" =>
             c.proc = p /\ c.pc \in {"stop_terminate", "stop_wait"}
  PROVE  IInv'
  <1> USE DEF IInv
  <1>1. TypeOK'      BY DEF TypeOK, Become
  <1>2. CallsTyped'  BY DEF TypeOK, Become, CallsTyped
  <1>3. LockHeld'    BY DEF TypeOK, Become, LockHeld
  <1>4. PortKnown'   BY DEF PortKnown
  <1>5. NoOrphan'
    <2> SUFFICES ASSUME NEW p \in Proc, Alive(p), p \notin lost, p # process, proc[p] # "killed",
                        <<"end", p>> \notin refused
                 PROVE  \E u \in Thread : Stopping(u, p)'
      BY DEF NoOrphan, Alive
    <2>1. PICK u \in Thread : Stopping(u, p)  BY DEF NoOrphan
    <2>2. Stopping(u, p)'  BY <2>1 DEF TypeOK, Become, Stopping
    <2> QED  BY <2>2
  <1>6. AddressIsOurs'  BY DEF AddressIsOurs, Alive
  <1> QED  BY <1>1, <1>2, <1>3, <1>4, <1>5, <1>6

LEMMA CallStep ==
  ASSUME IInv, NEW t \in Thread, CallStart(t) \/ CallStop(t) \/ Return(t)
  PROVE  IInv'
  <1>1. PICK c \in Call : /\ Become(t, c)
                          /\ c.pc \in {"start_lock", "stop_lock", "idle"}
                          /\ call[t].pc \in {"idle", "returned", "raised", "stopped"}
                          /\ UNCHANGED <<process, port, lock, proc, job, lost, refused>>
    <2>1. CASE CallStart(t)
      <3>1. [Idle EXCEPT !.pc = "start_lock"] \in Call  BY DEF Idle, Call, CallPC
      <3> QED  BY <3>1, <2>1 DEF CallStart, At, Idle
    <2>2. CASE CallStop(t)
      <3>1. PICK then \in {"none", "restart"} :
               Become(t, [Idle EXCEPT !.pc = "stop_lock", !.then = then])
        BY <2>2 DEF CallStop
      <3>2. [Idle EXCEPT !.pc = "stop_lock", !.then = then] \in Call
        BY DEF Idle, Call, CallPC
      <3> QED  BY <3>1, <3>2, <2>2 DEF CallStop, At, Idle
    <2>3. CASE Return(t)
      <3>1. Idle \in Call  BY DEF Idle, Call, CallPC
      <3> QED  BY <3>1, <2>3 DEF Return, Idle
    <2> QED  BY <2>1, <2>2, <2>3
  <1> QED  BY <1>1, OnlyTheCall DEF Stopping

\* The launch: a running child would have been seen, so nobody is forgotten.
LEMMA LaunchStep ==
  ASSUME IInv, NEW t \in Thread, NEW p \in Proc, At(t, "start_lock"), lock = None,
         ~(IsRunning /\ port # None), Launch(t, p)
  PROVE  IInv'
  <1> USE DEF IInv, Launch
  <1> DEFINE d == [Idle EXCEPT !.pc = "start_bind", !.proc = p]
  <1>0. d \in Call /\ d.pc = "start_bind" /\ d.proc = p
    BY DEF Idle, Call, CallPC
  <1>1. /\ proc' = [proc EXCEPT ![p] = "loading"] /\ process' = p /\ lock' = t
        /\ call' = [call EXCEPT ![t] = d]
        /\ UNCHANGED <<port, job, lost, refused>>
    BY DEF Become
  <1> HIDE DEF d
  <1>2. TypeOK'  BY <1>0, <1>1 DEF TypeOK, ChildState
  <1>3. CallsTyped'  BY <1>0, <1>1 DEF TypeOK, CallsTyped
  <1>4. \A u \in Thread : call[u].pc # "start_bind"
    BY NoneIsNoThing DEF LockHeld
  <1>5. LockHeld'  BY <1>0, <1>1, <1>4 DEF TypeOK, LockHeld
  <1>6. PortKnown'  BY <1>1, NoneIsNoThing DEF PortKnown
  <1>7. ~IsRunning  BY DEF PortKnown, IsRunning
  <1>8. NoOrphan'
    <2> SUFFICES ASSUME NEW q \in Proc, Alive(q)', q \notin lost, q # p, proc'[q] # "killed",
                        <<"end", q>> \notin refused
                 PROVE  \E u \in Thread : Stopping(u, q)'
      BY <1>1 DEF NoOrphan
    <2>1. Alive(q) /\ proc[q] # "killed"  BY <1>1 DEF TypeOK, Alive
    <2>2. q # process  BY <2>1, <1>7, NoneIsNoThing DEF IsRunning
    <2>3. PICK u \in Thread : Stopping(u, q)  BY <2>1, <2>2 DEF NoOrphan
    <2>4. u # t  BY <2>3 DEF Stopping, At
    <2> QED  BY <2>3, <2>4, <1>1 DEF TypeOK, Stopping
  <1>9. AddressIsOurs'
    <2>1. CASE port = p  BY <2>1, <1>1 DEF AddressIsOurs
    <2>2. CASE port # p
      BY <2>2, <1>1, <1>7 DEF AddressIsOurs, Alive, IsRunning, TypeOK
    <2> QED  BY <2>1, <2>2
  <1> QED  BY <1>2, <1>3, <1>5, <1>6, <1>8, <1>9

LEMMA BindStep == ASSUME IInv, NEW t \in Thread, StartBind(t) PROVE IInv'
  <1> USE DEF IInv
  <1> DEFINE p == call[t].proc
  <1>1. p \in Proc /\ lock = t /\ process = p /\ call[t].pc = "start_bind"
    BY DEF StartBind, At, CallsTyped, LockHeld
  <1>2. /\ port' = p /\ lock' = None /\ job' \subseteq Proc
        /\ refused' \subseteq Refusal \X Proc /\ refused \subseteq refused'
        /\ call' = [call EXCEPT ![t] = [call[t] EXCEPT !.pc = "wait"]]
        /\ UNCHANGED <<process, proc, lost>>
    BY <1>1 DEF StartBind, Assign, Goto, Become, TypeOK, Refusal
  <1>3. TypeOK'  BY <1>1, <1>2 DEF TypeOK, Call, CallPC
  <1>4. CallsTyped'  BY <1>1, <1>2 DEF TypeOK, CallsTyped, Call
  <1>5. LockHeld'  BY <1>1, <1>2 DEF TypeOK, LockHeld, Call
  <1>6. PortKnown'  BY <1>1, <1>2, NoneIsNoThing DEF PortKnown
  <1>7. NoOrphan'
    <2> SUFFICES ASSUME NEW q \in Proc, Alive(q), q \notin lost, q # process, proc[q] # "killed",
                        <<"end", q>> \notin refused
                 PROVE  \E u \in Thread : Stopping(u, q)'
      BY <1>2 DEF NoOrphan, Alive
    <2>1. PICK u \in Thread : Stopping(u, q)  BY DEF NoOrphan
    <2>2. u # t  BY <2>1, <1>1 DEF Stopping
    <2> QED  BY <2>1, <2>2, <1>2 DEF TypeOK, Stopping
  <1>8. AddressIsOurs'  BY <1>1, <1>2 DEF AddressIsOurs
  <1> QED  BY <1>3, <1>4, <1>5, <1>6, <1>7, <1>8

\* A running child moves on, or dies.
LEMMA ChildStep == ASSUME IInv, NEW p \in Proc, Load(p) \/ Die(p) PROVE IInv'
  <1> USE DEF IInv
  <1>1. /\ Alive(p) /\ UNCHANGED <<process, port, lock, call>>
        /\ job' \subseteq job /\ lost' \subseteq lost /\ refused' \subseteq refused
        /\ \E s \in {"serving", "dead"} : proc' = [proc EXCEPT ![p] = s]
    BY DEF Load, Die, Alive
  <1>2. TypeOK'  BY <1>1 DEF TypeOK, ChildState
  <1>3. CallsTyped' /\ LockHeld' /\ PortKnown'
    BY <1>1 DEF CallsTyped, LockHeld, PortKnown
  <1>4. NoOrphan'
    <2> SUFFICES ASSUME NEW q \in Proc, Alive(q)', q \notin lost', q # process, proc'[q] # "killed",
                        <<"end", q>> \notin refused'
                 PROVE  \E u \in Thread : Stopping(u, q)
      BY <1>1 DEF NoOrphan, Stopping
    <2>1. Alive(q)  BY <1>1 DEF TypeOK, Alive
    <2>2. proc[q] # "killed"  BY <1>1 DEF TypeOK, Alive, Load, Die
    <2>3. q \notin lost /\ <<"end", q>> \notin refused
      BY <1>1 DEF TypeOK, Alive, Load, Die
    <2> QED  BY <2>1, <2>2, <2>3 DEF NoOrphan
  <1>5. AddressIsOurs'
    <2>1. Alive(port)' => Alive(port) \/ port \notin Proc
      BY <1>1 DEF TypeOK, Alive
    <2> QED  BY <2>1, <1>1 DEF TypeOK, AddressIsOurs
  <1> QED  BY <1>2, <1>3, <1>4, <1>5

LEMMA StartStepKeeps == ASSUME IInv, NEW t \in Thread, StartStep(t) PROVE IInv'
  <1>0. call[t] \in Call  BY DEF IInv, TypeOK
  <1>1. CASE StartLock(t)
    <2>1. CASE IsRunning /\ port # None
      <3>1. [Idle EXCEPT !.pc = "returned", !.proc = port] \in Call
        BY DEF Idle, Call, CallPC, IInv, TypeOK
      <3> QED  BY <1>1, <2>1, <3>1, OnlyTheCall DEF StartLock, At, Stopping, Idle
    <2>2. CASE ~(IsRunning /\ port # None) /\ Become(t, [Idle EXCEPT !.pc = "raised"])
               /\ UNCHANGED <<process, port, lock, proc, job, lost, refused>>
      <3>1. [Idle EXCEPT !.pc = "raised"] \in Call  BY DEF Idle, Call, CallPC
      <3> QED  BY <1>1, <2>2, <3>1, OnlyTheCall DEF StartLock, At, Stopping, Idle
    <2>3. CASE ~(IsRunning /\ port # None) /\ \E p \in Proc : Launch(t, p)
      BY <1>1, <2>3, LaunchStep DEF StartLock
    <2> QED  BY <1>1, <2>1, <2>2, <2>3 DEF StartLock
  <1>2. CASE StartBind(t)  BY <1>2, BindStep
  <1>3. CASE WaitRunning(t)
    <2>1. [call[t] EXCEPT !.pc = "poll"] \in Call  BY <1>0 DEF Call, CallPC
    <2> QED  BY <1>0, <1>3, <2>1, OnlyTheCall
             DEF WaitRunning, At, Goto, Stopping, IInv, CallsTyped, Call
  <1>4. CASE WaitFails(t)
    <2>1. [Idle EXCEPT !.pc = "read_stderr", !.proc = process] \in Call
      BY DEF Idle, Call, CallPC, IInv, TypeOK
    <2> QED  BY <1>4, <2>1, OnlyTheCall DEF WaitFails, At, Stopping, Idle
  <1>5. CASE WaitTorn(t)
    <2>1. [Idle EXCEPT !.pc = "raised"] \in Call  BY DEF Idle, Call, CallPC
    <2> QED  BY <1>5, <2>1, OnlyTheCall DEF WaitTorn, At, Stopping, Idle
  <1>6. CASE Poll(t)
    <2>1. PICK pc \in {"ready", "wait"} : Become(t, [call[t] EXCEPT !.pc = pc])
      BY <1>6 DEF Poll, Goto
    <2>2. [call[t] EXCEPT !.pc = pc] \in Call  BY <1>0 DEF Call, CallPC
    <2> QED  BY <1>0, <1>6, <2>1, <2>2, OnlyTheCall
             DEF Poll, At, Stopping, IInv, CallsTyped, Call
  <1>7. CASE Ready(t)
    <2>1. [Idle EXCEPT !.pc = "returned", !.proc = port] \in Call
      BY DEF Idle, Call, CallPC, IInv, TypeOK
    <2> QED  BY <1>7, <2>1, OnlyTheCall DEF Ready, At, Stopping, Idle
  <1>8. CASE ReadStderr(t)
    <2>1. [Idle EXCEPT !.pc = "stop_lock", !.then = "raise"] \in Call
      BY DEF Idle, Call, CallPC
    <2> QED  BY <1>8, <2>1, OnlyTheCall DEF ReadStderr, At, Stopping, Idle
  <1> QED  BY <1>1, <1>2, <1>3, <1>4, <1>5, <1>6, <1>7, <1>8 DEF StartStep

LEMMA AfterStopIsIdle ==
  ASSUME IInv, NEW t \in Thread
  PROVE  AfterStop(t) \in Call /\ AfterStop(t).pc \in {"stopped", "raised", "start_lock"}
  <1>1. call[t].then \in {"none", "raise", "restart"}  BY DEF IInv, TypeOK, Call
  <1> QED  BY <1>1 DEF AfterStop, Idle, Call, CallPC

\* stop() lets go of the process in the step in which it takes it over.
LEMMA StopLockKeeps == ASSUME IInv, NEW t \in Thread, StopLock(t) PROVE IInv'
  <1> USE DEF IInv
  <1>1. PICK c \in Call :
          /\ Become(t, c) /\ c.pc # "start_bind"
          /\ c.pc \in {"wait", "poll", "stop_wait", "kill_wait"} => FALSE
          /\ c.pc = "stop_terminate" => c.proc = process /\ process \in Proc
          /\ IsRunning => c.pc = "stop_terminate"
    <2>1. CASE IsRunning
      <3>1. [call[t] EXCEPT !.pc = "stop_terminate", !.proc = process] \in Call
        BY DEF TypeOK, Call, CallPC
      <3> QED  BY <2>1, <3>1 DEF StopLock, IsRunning, TypeOK, Call
    <2>2. CASE ~IsRunning  BY <2>2, AfterStopIsIdle DEF StopLock
    <2> QED  BY <2>1, <2>2
  <1>2. /\ At(t, "stop_lock") /\ lock = None /\ process' = None /\ port' = None
        /\ UNCHANGED <<lock, proc, job, lost, refused>>
    BY DEF StopLock
  <1>3. TypeOK'  BY <1>1, <1>2 DEF TypeOK, Become
  <1>4. CallsTyped'  BY <1>1, <1>2 DEF TypeOK, CallsTyped, Become
  <1>5. LockHeld'  BY <1>1, <1>2, NoneIsNoThing DEF TypeOK, LockHeld, Become
  <1>6. PortKnown' /\ AddressIsOurs'  BY <1>2 DEF PortKnown, AddressIsOurs
  <1>7. NoOrphan'
    <2> SUFFICES ASSUME NEW q \in Proc, Alive(q), q \notin lost, proc[q] # "killed",
                        <<"end", q>> \notin refused
                 PROVE  \E u \in Thread : Stopping(u, q)'
      BY <1>2 DEF NoOrphan, Alive
    <2>1. CASE q = process
      <3>1. Stopping(t, q)'
        BY <2>1, <1>1, NoneIsNoThing DEF IsRunning, Become, Stopping, TypeOK
      <3> QED  BY <3>1
    <2>2. CASE q # process
      <3>1. PICK u \in Thread : Stopping(u, q)  BY <2>2 DEF NoOrphan
      <3>2. u # t  BY <3>1, <1>2 DEF Stopping, At
      <3> QED  BY <3>1, <3>2, <1>1 DEF Stopping, Become, TypeOK
    <2> QED  BY <2>1, <2>2
  <1> QED  BY <1>3, <1>4, <1>5, <1>6, <1>7

\* What ends the child, or would.
Signals(t) ==
    \/ At(t, "stop_terminate") /\ Signal(call[t].proc, "asked") /\ Goto(t, "stop_wait")
    \/ At(t, "stop_wait") /\ Signal(call[t].proc, "killed") /\ Goto(t, "kill_wait")

\* A signal does not bring a child to life, nor make one forgotten.
LEMMA SignalKeeps ==
  ASSUME IInv, NEW t \in Thread, Signals(t), UNCHANGED <<process, port, lock, job, lost, refused>>
  PROVE  IInv'
  <1> USE DEF IInv
  <1> DEFINE p == call[t].proc
  <1>1. p \in Proc /\ call[t] \in Call /\ call[t].pc \in {"stop_terminate", "stop_wait"}
    BY DEF Signals, At, CallsTyped, TypeOK
  <1>2. PICK s \in {"asked", "killed"}, pc \in {"stop_wait", "kill_wait"} :
          /\ s = "killed" <=> pc = "kill_wait"
          /\ proc' = [proc EXCEPT ![p] = IF Alive(p) THEN s ELSE proc[p]]
          /\ call' = [call EXCEPT ![t] = [call[t] EXCEPT !.pc = pc]]
    BY DEF Signals, Signal, Goto, Become
  <1>3. TypeOK'
    <2>1. [call[t] EXCEPT !.pc = pc] \in Call  BY <1>1 DEF Call, CallPC
    <2> QED  BY <1>1, <1>2, <2>1 DEF TypeOK, ChildState
  <1>4. CallsTyped'  BY <1>1, <1>2 DEF TypeOK, CallsTyped, Call
  <1>5. LockHeld'  BY <1>1, <1>2 DEF TypeOK, LockHeld, Call
  <1>6. PortKnown'  BY DEF PortKnown
  <1>7. \A q \in Proc : Alive(q)' => Alive(q)
    BY <1>1, <1>2 DEF TypeOK, Alive
  <1>8. NoOrphan'
    <2> SUFFICES ASSUME NEW q \in Proc, Alive(q)', q \notin lost, q # process, proc'[q] # "killed",
                        <<"end", q>> \notin refused
                 PROVE  \E u \in Thread : Stopping(u, q)'
      BY DEF NoOrphan
    <2>1. CASE q = p
      <3>1. pc = "stop_wait"  BY <2>1, <1>1, <1>2, <1>7 DEF TypeOK
      <3>2. Stopping(t, q)'  BY <2>1, <3>1, <1>1, <1>2 DEF Stopping, TypeOK, Call
      <3> QED  BY <3>2
    <2>2. CASE q # p
      <3>1. Alive(q) /\ proc[q] # "killed"  BY <2>2, <1>2, <1>7 DEF TypeOK
      <3>2. PICK u \in Thread : Stopping(u, q)  BY <3>1 DEF NoOrphan
      <3>3. u # t  BY <2>2, <3>2 DEF Stopping
      <3> QED  BY <3>2, <3>3, <1>2 DEF Stopping, TypeOK
    <2> QED  BY <2>1, <2>2
  <1>9. AddressIsOurs'  BY <1>2, <1>7 DEF AddressIsOurs, TypeOK
  <1> QED  BY <1>3, <1>4, <1>5, <1>6, <1>8, <1>9

\* A child that the system refuses to end is let go of, and known.
LEMMA RefusalKeeps ==
  ASSUME IInv, NEW t \in Thread, NEW c \in Call, Become(t, c),
         c.pc \in {"stopped", "raised", "start_lock"},
         call[t].pc \in {"stop_terminate", "stop_wait"}, RefusedToEnd(call[t].proc),
         UNCHANGED <<process, port, lock, job, lost>>
  PROVE  IInv'
  <1> USE DEF IInv
  <1> DEFINE p == call[t].proc
  <1>1. p \in Proc  BY DEF CallsTyped
  <1>2. proc' = proc /\ refused' = refused \cup {<<"end", p>>}  BY DEF RefusedToEnd
  <1>3. TypeOK'  BY <1>1, <1>2 DEF TypeOK, Become, Refusal
  <1>4. CallsTyped'  BY DEF TypeOK, Become, CallsTyped
  <1>5. LockHeld'  BY DEF TypeOK, Become, LockHeld
  <1>6. PortKnown'  BY DEF PortKnown
  <1>7. NoOrphan'
    <2> SUFFICES ASSUME NEW q \in Proc, Alive(q), q \notin lost, q # process, proc[q] # "killed",
                        <<"end", q>> \notin refused'
                 PROVE  \E u \in Thread : Stopping(u, q)'
      BY <1>2 DEF NoOrphan, Alive
    <2>1. q # p /\ <<"end", q>> \notin refused  BY <1>2
    <2>2. PICK u \in Thread : Stopping(u, q)  BY <2>1 DEF NoOrphan
    <2>3. u # t  BY <2>1, <2>2 DEF Stopping
    <2> QED  BY <2>2, <2>3 DEF TypeOK, Become, Stopping
  <1>8. AddressIsOurs'  BY <1>2 DEF AddressIsOurs, Alive
  <1> QED  BY <1>3, <1>4, <1>5, <1>6, <1>7, <1>8

LEMMA StopStepKeeps == ASSUME IInv, NEW t \in Thread, StopStep(t) PROVE IInv'
  <1>1. CASE StopLock(t)  BY <1>1, StopLockKeeps
  <1>2. CASE StopTerminate(t) \/ StopGraceOver(t)
    <2>1. [Idle EXCEPT !.pc = "raised"] \in Call  BY DEF Idle, Call, CallPC
    <2>2. \/ Signals(t) /\ UNCHANGED refused
          \/ /\ call[t].pc \in {"stop_terminate", "stop_wait"}
             /\ RefusedToEnd(call[t].proc)
             /\ Become(t, AfterStop(t)) \/ Become(t, [Idle EXCEPT !.pc = "raised"])
      BY <1>2 DEF StopTerminate, StopGraceOver, Signals, At
    <2>3. UNCHANGED <<process, port, lock, job, lost>>
      BY <1>2 DEF StopTerminate, StopGraceOver
    <2>4. [Idle EXCEPT !.pc = "raised"].pc = "raised"  BY DEF Idle
    <2> QED  BY <2>1, <2>2, <2>3, <2>4, SignalKeeps, RefusalKeeps, AfterStopIsIdle
  <1>3. CASE StopExited(t)
    BY <1>3, AfterStopIsIdle, OnlyTheCall DEF StopExited, Stopping
  <1>4. CASE KillGraceOver(t)
    BY <1>4, AfterStopIsIdle, OnlyTheCall DEF KillGraceOver, At, Stopping
  <1> QED  BY <1>1, <1>2, <1>3, <1>4 DEF StopStep

LEMMA DeathKeeps == ASSUME IInv, RuntimeDies PROVE IInv'
  <1> USE DEF IInv, RuntimeDies
  <1>1. Idle \in Call /\ Idle.pc = "idle"  BY DEF Idle, Call, CallPC
  <1>2. TypeOK'  BY <1>1 DEF TypeOK, ChildState
  <1>3. CallsTyped' /\ LockHeld'  BY <1>1 DEF CallsTyped, LockHeld
  <1>4. PortKnown' /\ AddressIsOurs'  BY DEF PortKnown, AddressIsOurs
  <1>5. NoOrphan'  BY DEF NoOrphan, Alive, TypeOK
  <1> QED  BY <1>2, <1>3, <1>4, <1>5

LEMMA NextKeepsIInv == IInv /\ [Next]_vars => IInv'
  <1> SUFFICES ASSUME IInv, [Next]_vars PROVE IInv'
    OBVIOUS
  <1>1. CASE \E t \in Thread : CallStart(t) \/ CallStop(t) \/ Return(t)
    BY <1>1, CallStep
  <1>2. CASE \E t \in Thread : StartStep(t)  BY <1>2, StartStepKeeps
  <1>3. CASE \E t \in Thread : StopStep(t)   BY <1>3, StopStepKeeps
  <1>4. CASE \E p \in Proc : Load(p) \/ Die(p)  BY <1>4, ChildStep
  <1>5. CASE RuntimeDies  BY <1>5, DeathKeeps
  <1>6. CASE UNCHANGED vars
    BY <1>6 DEF vars, IInv, TypeOK, CallsTyped, LockHeld, PortKnown, NoOrphan,
       AddressIsOurs, Alive, Stopping
  <1> QED  BY <1>1, <1>2, <1>3, <1>4, <1>5, <1>6 DEF Next

LEMMA IInvHolds == Spec => []IInv
  <1> QED  BY InitIInv, NextKeepsIInv, PTL DEF Spec

\* Whatever threads do, no running child of llama-server is forgotten
\* (start(), stop() and restart() of llama_supervisor.py).
THEOREM NoOrphanHolds == Spec => []NoOrphan
  <1>1. IInv => NoOrphan  BY DEF IInv
  <1> QED  BY IInvHolds, <1>1, PTL

\* The address that chat() reads without the lock is never that of a running
\* child the supervisor has let go of.
THEOREM AddressIsOursHolds == Spec => []AddressIsOurs
  <1>1. IInv => AddressIsOurs  BY DEF IInv
  <1> QED  BY IInvHolds, <1>1, PTL

\* The supervisor's fields and every call keep their types.
THEOREM SupervisorTyped == Spec => []TypeOK
  <1>1. IInv => TypeOK  BY DEF IInv
  <1> QED  BY IInvHolds, <1>1, PTL

-----------------------------------------------------------------------------
Unbound(t, p) == call[t].pc = "start_bind" /\ call[t].proc = p

\* Every running child is in the job, but for the one being launched and those
\* that the system refused to put there.
Bound ==
    JobObject => \A p \in Proc :
        Alive(p) /\ p \notin lost /\ p \notin job =>
            (\E t \in Thread : Unbound(t, p)) \/ <<"bind", p>> \in refused

LEMMA NextKeepsBound == IInv /\ Bound /\ [Next]_vars => Bound'
  <1> SUFFICES ASSUME IInv, Bound, [Next]_vars, JobObject,
                      NEW p \in Proc, Alive(p)', p \notin lost', p \notin job',
                      <<"bind", p>> \notin refused'
               PROVE  \E t \in Thread : Unbound(t, p)'
    BY DEF Bound
  <1> USE DEF IInv
  <1>1. CASE Alive(p) /\ UNCHANGED <<job, lost, refused, call>>
    <2>1. PICK u \in Thread : Unbound(u, p)  BY <1>1 DEF Bound
    <2> QED  BY <1>1, <2>1 DEF Unbound
  <1>2. CASE \E t \in Thread : StartBind(t)
    <2>1. PICK t \in Thread : StartBind(t)  BY <1>2
    <2>2. call[t].proc # p /\ Alive(p) /\ p \notin job /\ <<"bind", p>> \notin refused
      BY <2>1 DEF StartBind, Assign, Alive
    <2>3. PICK u \in Thread : Unbound(u, p)  BY <2>1, <2>2 DEF Bound, StartBind
    <2>4. u # t  BY <2>2, <2>3 DEF Unbound
    <2> QED  BY <2>1, <2>3, <2>4 DEF Unbound, StartBind, Goto, Become, TypeOK
  <1>3. CASE \E t \in Thread, q \in Proc : StartLock(t) /\ Launch(t, q)
    <2>1. PICK t \in Thread, q \in Proc : Launch(t, q) /\ At(t, "start_lock")
      BY <1>3 DEF StartLock
    <2>2. CASE q = p
      BY <2>1, <2>2 DEF Launch, Become, Idle, Unbound, TypeOK
    <2>3. CASE q # p
      <3>1. Alive(p) /\ lost' = lost /\ job' = job /\ refused' = refused
        BY <2>1, <2>3 DEF Launch, Alive, TypeOK
      <3>2. PICK u \in Thread : Unbound(u, p)  BY <3>1 DEF Bound
      <3>3. u # t  BY <2>1, <3>2 DEF Unbound, At
      <3> QED  BY <2>1, <3>2, <3>3 DEF Launch, Become, Unbound, TypeOK
    <2> QED  BY <2>2, <2>3
  <1>4. CASE RuntimeDies  BY <1>4 DEF RuntimeDies, Alive, TypeOK
  <1>5. CASE \E q \in Proc : Load(q) \/ Die(q)
    <2>1. PICK q \in Proc : Load(q) \/ Die(q)  BY <1>5
    <2>2. Alive(p) /\ p \notin lost /\ p \notin job /\ <<"bind", p>> \notin refused
      BY <2>1 DEF Load, Die, Alive, TypeOK
    <2>3. PICK u \in Thread : Unbound(u, p)  BY <2>2 DEF Bound
    <2> QED  BY <2>1, <2>3 DEF Load, Die, Unbound
  <1>6. CASE UNCHANGED vars  BY <1>1, <1>6 DEF vars, Alive
  <1>7. ASSUME NEW t \in Thread,
               CallStart(t) \/ CallStop(t) \/ Return(t) \/ StopStep(t)
                 \/ (StartStep(t) /\ ~StartBind(t) /\ ~\E q \in Proc : StartLock(t) /\ Launch(t, q))
        PROVE  \E u \in Thread : Unbound(u, p)'
    \* These launch no child, bind none and bring none to life.
    <2>1. job' = job /\ lost' = lost /\ refused \subseteq refused' /\ call[t].pc # "start_bind"
      BY <1>7 DEF CallStart, CallStop, Return, StopStep, StopLock, StopTerminate,
         StopGraceOver, StopExited, KillGraceOver, StartStep, StartLock, WaitRunning,
         WaitFails, WaitTorn, Poll, Ready, ReadStderr, At, RefusedToEnd
    <2>2. Alive(p)
      <3>1. proc' = proc \/ Signals(t)
        BY <1>7 DEF CallStart, CallStop, Return, StopStep, StopLock, StopTerminate,
           StopGraceOver, StopExited, KillGraceOver, StartStep, StartLock, WaitRunning,
           WaitFails, WaitTorn, Poll, Ready, ReadStderr, RefusedToEnd, Signals
      <3> QED  BY <3>1 DEF Signals, Signal, Alive, TypeOK
    <2>3. \E c : Become(t, c)
      BY <1>7 DEF CallStart, CallStop, Return, StopStep, StopLock, StopTerminate,
         StopGraceOver, StopExited, KillGraceOver, StartStep, StartLock, WaitRunning,
         WaitFails, WaitTorn, Poll, Ready, ReadStderr, Goto
    <2>4. PICK u \in Thread : Unbound(u, p)  BY <2>1, <2>2 DEF Bound
    <2>5. u # t  BY <2>1, <2>4 DEF Unbound
    <2> QED  BY <2>3, <2>4, <2>5 DEF Become, Unbound, TypeOK
  <1> QED
    BY <1>2, <1>3, <1>4, <1>5, <1>6, <1>7 DEF Next

\* A Runtime that dies leaves behind at most a child that start() has launched and
\* not yet bound to the job object, and those that the system refused to bind.
THEOREM DeathTakesTheChildHolds == Spec => DeathTakesTheChild
  <1>1. Init => Bound  BY DEF Init, Bound, Alive
  <1>2. Bound /\ [Next]_vars =>
          [ \A p \in lost' \ lost :
              JobObject => \/ \E t \in Thread : call[t].pc = "start_bind" /\ call[t].proc = p
                           \/ <<"bind", p>> \in refused ]_vars
    <2> SUFFICES ASSUME Bound, Next, NEW p \in lost' \ lost, JobObject
                 PROVE  (\E t \in Thread : Unbound(t, p)) \/ <<"bind", p>> \in refused
      BY DEF Unbound
    <2>1. CASE RuntimeDies  BY <2>1 DEF RuntimeDies, Bound
    <2>2. CASE ~RuntimeDies
      <3>1. lost' \subseteq lost
        BY <2>2 DEF Next, Load, Die, CallStart, CallStop, Return, StartStep, StopStep,
           StartLock, Launch, StartBind, WaitRunning, WaitFails, WaitTorn, Poll, Ready,
           ReadStderr, StopLock, StopTerminate, StopGraceOver, StopExited, KillGraceOver
      <3> QED  BY <3>1
    <2> QED  BY <2>1, <2>2
  <1> QED  BY <1>1, <1>2, IInvHolds, NextKeepsBound, PTL DEF Spec, DeathTakesTheChild
=============================================================================
