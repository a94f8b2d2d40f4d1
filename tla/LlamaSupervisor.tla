-------------------------- MODULE LlamaSupervisor ---------------------------
(***************************************************************************)
(* The supervisor of llama-server: one child process, started, awaited and *)
(* stopped by whichever threads of the Runtime call it (the preparation    *)
(* worker, the hourly entitlement check, the handlers of the local API).   *)
(*                                                                         *)
(* self._lock covers the launch and the moment stop() takes the process    *)
(* over; the waits, the health polls and the terminations run outside it,  *)
(* so calls overlap.  A step is what a thread does between two points where *)
(* another thread, the child or the operating system may come in.          *)
(***************************************************************************)
CONSTANTS
    Thread,     \* threads of the Runtime that call the supervisor
    Proc,       \* bound: child processes that can be launched
    JobObject,  \* the kill-on-close job could be created
    None

ASSUME NoneIsNoThing == None \notin Proc \cup Thread

VARIABLES
    process,    \* self._process
    port,       \* self._port, named by the child it was chosen for
    lock,       \* holder of self._lock
    proc,       \* [Proc -> ChildState]
    job,        \* children in the job object
    lost,       \* children left running by a Runtime that died
    refused,    \* history: what the system refused to do to a child that runs
    call        \* [Thread -> Call]

vars == <<process, port, lock, proc, job, lost, refused, call>>

-----------------------------------------------------------------------------
\* "asked": sent terminate(), which it may ignore; "killed": sent kill().
ChildState == {"unborn", "loading", "serving", "asked", "killed", "dead"}

CallPC == { "idle", "start_lock", "start_bind", "wait", "poll", "ready",
            "read_stderr", "stop_lock", "stop_terminate", "stop_wait",
            "kill_wait", "returned", "raised", "stopped" }

\* proc: the child the call launched, reads from or stops; or, once start() has
\* returned, the child whose address it returned.  then: what follows stop().
Call == [pc : CallPC, proc : Proc \cup {None}, then : {"none", "raise", "restart"}]

Idle == [pc |-> "idle", proc |-> None, then |-> "none"]

\* To put it into the job; to terminate or to kill it.
Refusal == {"bind", "end"}

TypeOK ==
    /\ process \in Proc \cup {None}
    /\ port \in Proc \cup {None}
    /\ lock \in Thread \cup {None}
    /\ proc \in [Proc -> ChildState]
    /\ job \subseteq Proc
    /\ lost \subseteq Proc
    /\ refused \subseteq Refusal \X Proc
    /\ call \in [Thread -> Call]

Init ==
    /\ process = None
    /\ port = None
    /\ lock = None
    /\ proc = [p \in Proc |-> "unborn"]
    /\ job = {}
    /\ lost = {}
    /\ refused = {}
    /\ call = [t \in Thread |-> Idle]

-----------------------------------------------------------------------------
Alive(p) == proc[p] \in {"loading", "serving", "asked", "killed"}

\* poll() is None for the process the supervisor holds.
IsRunning == process # None /\ Alive(process)

At(t, pc) == call[t].pc = pc

Become(t, c) == call' = [call EXCEPT ![t] = c]

Goto(t, pc) == Become(t, [call[t] EXCEPT !.pc = pc])

\* The process is signalled, unless it has exited.
Signal(p, state) ==
    proc' = [proc EXCEPT ![p] = IF Alive(p) THEN state ELSE proc[p]]

\* What follows stop() in start(), in restart() and in a plain call.
AfterStop(t) == CASE call[t].then = "none"    -> [Idle EXCEPT !.pc = "stopped"]
                  [] call[t].then = "raise"   -> [Idle EXCEPT !.pc = "raised"]
                  [] call[t].then = "restart" -> [Idle EXCEPT !.pc = "start_lock"]

-----------------------------------------------------------------------------
(* Calls.                                                                  *)

CallStart(t) ==
    /\ At(t, "idle")
    /\ Become(t, [Idle EXCEPT !.pc = "start_lock"])
    /\ UNCHANGED <<process, port, lock, proc, job, lost, refused>>

CallStop(t) ==
    /\ At(t, "idle")
    /\ \E then \in {"none", "restart"} :
          Become(t, [Idle EXCEPT !.pc = "stop_lock", !.then = then])
    /\ UNCHANGED <<process, port, lock, proc, job, lost, refused>>

Return(t) ==
    /\ call[t].pc \in {"returned", "raised", "stopped"}
    /\ Become(t, Idle)
    /\ UNCHANGED <<process, port, lock, proc, job, lost, refused>>

-----------------------------------------------------------------------------
(* start()                                                                 *)

Launch(t, p) ==
    /\ proc[p] = "unborn"
    /\ proc' = [proc EXCEPT ![p] = "loading"]
    /\ process' = p
    /\ lock' = t
    /\ Become(t, [Idle EXCEPT !.pc = "start_bind", !.proc = p])
    /\ UNCHANGED <<port, job, lost, refused>>

\* Mutant: a running child is not looked for.
StartLockAlways(t) ==
    /\ At(t, "start_lock")
    /\ lock = None
    /\ \E p \in Proc : Launch(t, p)

\* A running child's address is returned at once; otherwise a file is missing,
\* Popen fails, or a child is launched.
StartLock(t) ==
    /\ At(t, "start_lock")
    /\ lock = None
    /\ \/ /\ IsRunning /\ port # None
          /\ Become(t, [Idle EXCEPT !.pc = "returned", !.proc = port])
          /\ UNCHANGED <<process, port, lock, proc, job, lost, refused>>
       \/ /\ ~(IsRunning /\ port # None)
          /\ \/ /\ Become(t, [Idle EXCEPT !.pc = "raised"])
                /\ UNCHANGED <<process, port, lock, proc, job, lost, refused>>
             \/ \E p \in Proc : Launch(t, p)

\* Mutant: the child is not put into the job.
StartBindUnbound(t) ==
    /\ At(t, "start_bind")
    /\ port' = call[t].proc
    /\ lock' = None
    /\ Goto(t, "wait")
    /\ UNCHANGED <<process, proc, job, lost, refused>>

\* _assign_to_job() says nothing of its failures: the launch goes on without.
Assign(p) ==
    \/ ~(JobObject /\ Alive(p)) /\ UNCHANGED <<job, refused>>
    \/ JobObject /\ Alive(p) /\ job' = job \cup {p} /\ UNCHANGED refused
    \/ JobObject /\ Alive(p) /\ refused' = refused \cup {<<"bind", p>>} /\ UNCHANGED job

StartBind(t) ==
    /\ At(t, "start_bind")
    /\ port' = call[t].proc
    /\ Assign(call[t].proc)
    /\ lock' = None
    /\ Goto(t, "wait")
    /\ UNCHANGED <<process, proc, lost>>

WaitRunning(t) ==
    /\ At(t, "wait")
    /\ IsRunning
    /\ Goto(t, "poll")
    /\ UNCHANGED <<process, port, lock, proc, job, lost, refused>>

\* is_running() is false, or the deadline has passed: the error output of
\* whatever process the supervisor holds by now is read.
WaitFails(t) ==
    /\ At(t, "wait")
    /\ Become(t, [Idle EXCEPT !.pc = "read_stderr", !.proc = process])
    /\ UNCHANGED <<process, port, lock, proc, job, lost, refused>>

\* is_running() reads self._process twice; stop() came in between.
WaitTorn(t) ==
    /\ At(t, "wait")
    /\ process = None
    /\ Become(t, [Idle EXCEPT !.pc = "raised"])
    /\ UNCHANGED <<process, port, lock, proc, job, lost, refused>>

\* GET /health on the port of the child that this call launched.
Poll(t) ==
    /\ At(t, "poll")
    /\ Goto(t, IF proc[call[t].proc] = "serving" THEN "ready" ELSE "wait")
    /\ UNCHANGED <<process, port, lock, proc, job, lost, refused>>

\* return self.base_url
Ready(t) ==
    /\ At(t, "ready")
    /\ Become(t, [Idle EXCEPT !.pc = "returned", !.proc = port])
    /\ UNCHANGED <<process, port, lock, proc, job, lost, refused>>

\* Mutant: stop() is told the state to end in, not what it is to return to.
ReadStderrMisled(t) ==
    /\ At(t, "read_stderr")
    /\ call[t].proc \in Proc => ~Alive(call[t].proc)
    /\ Become(t, [Idle EXCEPT !.pc = "stop_lock", !.then = "raised"])
    /\ UNCHANGED <<process, port, lock, proc, job, lost, refused>>

\* stderr.read() comes back when the process has closed its end.
ReadStderr(t) ==
    /\ At(t, "read_stderr")
    /\ call[t].proc \in Proc => ~Alive(call[t].proc)
    /\ Become(t, [Idle EXCEPT !.pc = "stop_lock", !.then = "raise"])
    /\ UNCHANGED <<process, port, lock, proc, job, lost, refused>>

-----------------------------------------------------------------------------
(* stop()                                                                  *)

\* Mutant: the port is not cleared.
StopLockKeepsPort(t) ==
    /\ At(t, "stop_lock")
    /\ lock = None
    /\ process' = None
    /\ Become(t, IF IsRunning
                   THEN [call[t] EXCEPT !.pc = "stop_terminate", !.proc = process]
                   ELSE AfterStop(t))
    /\ UNCHANGED <<port, lock, proc, job, lost, refused>>

StopLock(t) ==
    /\ At(t, "stop_lock")
    /\ lock = None
    /\ process' = None
    /\ port' = None
    /\ Become(t, IF IsRunning
                   THEN [call[t] EXCEPT !.pc = "stop_terminate", !.proc = process]
                   ELSE AfterStop(t))
    /\ UNCHANGED <<lock, proc, job, lost, refused>>

RefusedToEnd(p) == Alive(p) /\ refused' = refused \cup {<<"end", p>>} /\ UNCHANGED proc

\* An exception of terminate() is swallowed, and stop() is over.
StopTerminate(t) ==
    /\ At(t, "stop_terminate")
    /\ \/ Signal(call[t].proc, "asked") /\ Goto(t, "stop_wait") /\ UNCHANGED refused
       \/ RefusedToEnd(call[t].proc) /\ Become(t, AfterStop(t))
    /\ UNCHANGED <<process, port, lock, job, lost>>

\* Mutant: the wait has no timeout.
StopGraceOverNever(t) ==
    /\ At(t, "stop_wait")
    /\ ~Alive(call[t].proc)
    /\ Become(t, AfterStop(t))
    /\ UNCHANGED <<process, port, lock, proc, job, lost, refused>>

\* The grace period is over.  An exception of kill() ends stop() and its caller.
StopGraceOver(t) ==
    /\ At(t, "stop_wait")
    /\ \/ Signal(call[t].proc, "killed") /\ Goto(t, "kill_wait") /\ UNCHANGED refused
       \/ RefusedToEnd(call[t].proc) /\ Become(t, [Idle EXCEPT !.pc = "raised"])
    /\ UNCHANGED <<process, port, lock, job, lost>>

StopExited(t) ==
    /\ call[t].pc \in {"stop_wait", "kill_wait"}
    /\ ~Alive(call[t].proc)
    /\ Become(t, AfterStop(t))
    /\ UNCHANGED <<process, port, lock, proc, job, lost, refused>>

KillGraceOver(t) ==
    /\ At(t, "kill_wait")
    /\ Become(t, AfterStop(t))
    /\ UNCHANGED <<process, port, lock, proc, job, lost, refused>>

-----------------------------------------------------------------------------
(* The children and the Runtime's own death.                               *)

Load(p) ==
    /\ proc[p] = "loading"
    /\ proc' = [proc EXCEPT ![p] = "serving"]
    /\ UNCHANGED <<process, port, lock, job, lost, refused, call>>

Die(p) ==
    /\ Alive(p)
    /\ proc' = [proc EXCEPT ![p] = "dead"]
    /\ job' = job \ {p} /\ lost' = lost \ {p}
    /\ refused' = refused \ (Refusal \X {p})
    /\ UNCHANGED <<process, port, lock, call>>

DieKilled(p) == proc[p] = "killed" /\ Die(p)

\* The Runtime is killed, and started again later: the system kills what is in
\* the job, the new Runtime knows of no child.
RuntimeDies ==
    /\ proc' = [p \in Proc |-> IF p \in job THEN "dead" ELSE proc[p]]
    /\ lost' = lost \cup {p \in Proc : Alive(p) /\ p \notin job}
    /\ process' = None
    /\ port' = None
    /\ lock' = None
    /\ job' = {}
    /\ call' = [t \in Thread |-> Idle]
    /\ refused' = {}

-----------------------------------------------------------------------------
StartStep(t) ==
    \/ StartLock(t) \/ StartBind(t)
    \/ WaitRunning(t) \/ WaitFails(t) \/ WaitTorn(t)
    \/ Poll(t) \/ Ready(t) \/ ReadStderr(t)

StopStep(t) ==
    \/ StopLock(t) \/ StopTerminate(t) \/ StopGraceOver(t)
    \/ StopExited(t) \/ KillGraceOver(t)

Next ==
    \/ \E t \in Thread : \/ CallStart(t) \/ CallStop(t) \/ Return(t)
                         \/ StartStep(t) \/ StopStep(t)
    \/ \E p \in Proc : Load(p) \/ Die(p)
    \/ RuntimeDies

Spec == Init /\ [][Next]_vars

\* Threads run on, the lock reaches who waits for it, deadlines pass, and a
\* killed process ends.  Nothing makes a child load or exit by itself.
FairSpec ==
    /\ Spec
    /\ \A t \in Thread :
          /\ WF_vars(StartBind(t)) /\ WF_vars(Poll(t)) /\ WF_vars(Ready(t))
          /\ WF_vars(ReadStderr(t)) /\ WF_vars(Return(t))
          /\ WF_vars(StopTerminate(t)) /\ WF_vars(StopExited(t))
          /\ WF_vars(StopGraceOver(t)) /\ WF_vars(KillGraceOver(t))
          /\ SF_vars(StartLock(t)) /\ SF_vars(StopLock(t)) /\ SF_vars(WaitFails(t))
    /\ \A p \in Proc : WF_vars(DieKilled(p))

-----------------------------------------------------------------------------
(* Properties.                                                             *)

Stopping(t, p) == call[t].proc = p /\ call[t].pc \in {"stop_terminate", "stop_wait"}

\* No running child is forgotten, whatever starts, stops and restarts overlap:
\* the supervisor holds it, a stop() is ending it, or it has been killed, unless
\* the system refused to end it ("no orphan is left": llama_supervisor.py:331-332).
NoOrphan ==
    \A p \in Proc : Alive(p) /\ p \notin lost =>
        \/ p = process
        \/ proc[p] = "killed"
        \/ \E t \in Thread : Stopping(t, p)
        \/ <<"end", p>> \in refused

\* chat() reads the address without the lock: it is never that of a running
\* child that the supervisor has let go of.
AddressIsOurs == port # None /\ Alive(port) => port = process

\* The Runtime may die at any point: a child outlives it only if it was launched
\* this instant and is not yet bound to the job, or if the system refused to bind
\* it, which start() does not notice (llama_supervisor.py:28-37, 101-119, 275-277).
DeathTakesTheChild ==
    [][ \A p \in lost' \ lost :
          JobObject => \/ \E t \in Thread : call[t].pc = "start_bind" /\ call[t].proc = p
                       \/ <<"bind", p>> \in refused ]_vars

StoppedChildDies ==
    \A p \in Proc :
        (\E t \in Thread : Stopping(t, p))
            ~> (proc[p] = "dead" \/ <<"end", p>> \in refused \/ p \in lost)

\* stop() comes back, even from a child that ignores it and while another
\* thread hangs in start(); and the child it took over dies, unless the system
\* refuses to end it or the Runtime dies first and leaves it behind.
StopReturns ==
    /\ \A t \in Thread :
          call[t].pc \in {"stop_lock", "stop_terminate", "stop_wait", "kill_wait"}
              ~> call[t].pc \in {"stopped", "raised", "start_lock", "idle"}
    /\ StoppedChildDies
=============================================================================
