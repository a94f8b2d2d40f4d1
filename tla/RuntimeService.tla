--------------------------- MODULE RuntimeService ---------------------------
(***************************************************************************)
(* The Runtime on the customer's computer: its link to the account, its    *)
(* view of the subscription and the way to a ready model.  One object is   *)
(* called by every thread of the local API, by the hourly entitlement      *)
(* thread and by the preparation thread; self._lock covers only activation *)
(* and the launch of a preparation.  A step is what a thread does between  *)
(* two accesses to the files, the phase, the engine or the server.         *)
(*                                                                         *)
(* The server is what DeviceRegistry promises: one seat, taken by a device *)
(* identity, and at most one accepted credential.  The model store and the *)
(* supervisor have modules of their own: here a download installs the file *)
(* or does not, and engine says that the supervisor holds a child.         *)
(***************************************************************************)
CONSTANTS
    Thread,     \* threads that serve the local API
    Loop,       \* those of them that are the entitlement thread
    Worker,     \* preparation threads
    Ident,      \* bound: device secrets that can be generated
    Cred,       \* bound: credentials the server can issue
    Ops,        \* operations of the local API in use
    ConfigModes,\* modes that govmind.config.json asks for
    PortBusy,   \* subset of BOOLEAN: may the preferred port be taken at start-up?
    Other,      \* another device in the seat
    None

Mode == {"local", "cloud", "demo"}

ASSUME RuntimeAssumption ==
    /\ Loop \subseteq Thread
    /\ Thread \cap Worker = {}
    /\ None \notin Thread \cup Worker \cup Ident \cup Cred
    /\ Other \notin Ident \cup {None}
    /\ ConfigModes \subseteq Mode
    /\ PortBusy \subseteq BOOLEAN

VARIABLES
    stored,     \* credential.bin
    identity,   \* device.bin
    installed,  \* the model file exists
    mode,       \* config.is_demo, config.is_cloud_chat
    lock,       \* holder of self._lock, an RLock
    worker,     \* self._worker
    phase,      \* state.phase
    engine,     \* the child that the supervisor holds
    linked,     \* server: the credential it accepts
    seat,       \* server: the identity of the active device
    open,       \* server: the subscription is serviceable
    issued,     \* server: credentials issued so far
    call        \* [Actor -> Call]

disk   == <<stored, identity, installed>>
memory == <<mode, lock, worker, phase, engine>>
server == <<linked, seat, open, issued>>
vars   == <<disk, memory, server, call>>

Actor == Thread \cup Worker

-----------------------------------------------------------------------------
Phase == { "awaiting_activation", "activating", "model_missing", "downloading_model",
           "verifying_model", "starting_model", "ready", "blocked", "error" }

Operation == { "activate", "refresh", "recheck", "start_download", "start_model",
               "stop_model", "restart_model", "chat" }

ASSUME OpsAssumption == Ops \subseteq Operation

CallPC == Operation \cup
    { "idle", "identify", "redeem", "store", "activation_failed", "spawn", "spawn_start",
      "unlinked", "ask", "deny_set", "deny_stop_last", "deny_stop", "deny_set_last",
      "forget", "forget_stop", "forget_set", "prepare", "prepare_mode",
      "read_for_model", "set_downloading", "ask_model", "download", "set_verifying",
      "check_model", "set_starting", "launch", "await_engine", "set_starting_demo", "probe",
      "set_ready", "set_missing", "set_error",
      "chat_linked", "chat_read", "chat_ask", "chat_denied" }

\* cred: the credential in the call's hands.  fresh: it generated the identity.
\* then: who called refresh_entitlement().
Call == [pc : CallPC, cred : Cred \cup {None}, fresh : BOOLEAN,
         then : {"end", "spawn", "prepare"}]

Idle == [pc |-> "idle", cred |-> None, fresh |-> FALSE, then |-> "end"]

TypeOK ==
    /\ stored \in Cred \cup {None}
    /\ identity \in Ident \cup {None}
    /\ installed \in BOOLEAN
    /\ mode \in Mode
    /\ lock \in Actor \cup {None}
    /\ worker \in Worker \cup {None}
    /\ phase \in Phase
    /\ engine \in {"none", "running", "dead"}
    /\ linked \in Cred \cup {None}
    /\ seat \in Ident \cup {None, Other}
    /\ open \in BOOLEAN
    /\ issued \subseteq Cred
    /\ call \in [Actor -> Call]

\* The fields that a start-up on a busy port rebuilds leave the mode out.
ModesAt(busy) == IF busy THEN {"local"} ELSE ConfigModes

Init ==
    /\ stored = None /\ identity = None /\ installed = FALSE
    /\ \E busy \in PortBusy : mode \in ModesAt(busy)
    /\ lock = None /\ phase = "awaiting_activation" /\ engine = "none"
    /\ linked = None /\ seat \in {None, Other} /\ open \in BOOLEAN /\ issued = {}
    /\ worker = None
    /\ call = [a \in Actor |-> Idle]

-----------------------------------------------------------------------------
At(a, pc) == call[a].pc = pc

Become(a, c) == call' = [call EXCEPT ![a] = c]

Goto(a, pc) == Become(a, [call[a] EXCEPT !.pc = pc])

Alive(w) == call[w].pc # "idle"

\* state.set(p), then on to pc.
SetPhase(a, p, pc) ==
    /\ phase' = p
    /\ Goto(a, pc)
    /\ UNCHANGED <<disk, mode, lock, worker, engine, server>>

SetPhaseAndEnd(a, p) ==
    /\ phase' = p
    /\ Become(a, Idle)
    /\ UNCHANGED <<disk, mode, lock, worker, engine, server>>

\* Where refresh_entitlement() returns to.
Refreshed(a, ok) ==
    CASE call[a].then = "spawn"          -> [Idle EXCEPT !.pc = "spawn"]
      [] call[a].then = "prepare" /\ ok  -> [Idle EXCEPT !.pc = "prepare_mode"]
      [] OTHER                           -> Idle

-----------------------------------------------------------------------------
(* Calls of the local API and of the entitlement thread.                   *)

\* Start-up begins a preparation before the API and the entitlement thread.
Boot ==
    /\ worker = None
    /\ \E w \in Worker : /\ worker' = w
                         /\ Become(w, [Idle EXCEPT !.pc = "prepare"])
    /\ UNCHANGED <<disk, mode, lock, phase, engine, server>>

Begin(t) ==
    /\ At(t, "idle") /\ worker # None
    /\ \E op \in (IF t \in Loop THEN {"refresh"} ELSE Ops) : Goto(t, op)
    /\ UNCHANGED <<disk, memory, server>>

\* POST /api/app/recheck
Recheck(t) ==
    /\ At(t, "recheck")
    /\ Become(t, IF stored = None THEN Idle
                   ELSE [Idle EXCEPT !.pc = "refresh", !.then = "spawn"])
    /\ UNCHANGED <<disk, memory, server>>

StartDownload(t) ==
    /\ At(t, "start_download")
    /\ Goto(t, "spawn")
    /\ UNCHANGED <<disk, memory, server>>

-----------------------------------------------------------------------------
(* activate()                                                              *)

\* Mutant: activations do not exclude each other.
ActivateUnlocked(t) ==
    /\ At(t, "activate")
    /\ IF stored # None
         THEN Goto(t, "spawn") /\ UNCHANGED phase
         ELSE phase' = "activating" /\ Goto(t, "identify")
    /\ UNCHANGED <<disk, mode, lock, worker, engine, server>>

Activate(t) ==
    /\ At(t, "activate")
    /\ lock = None
    /\ lock' = t
    /\ IF stored # None
         THEN Goto(t, "spawn") /\ UNCHANGED phase
         ELSE phase' = "activating" /\ Goto(t, "identify")
    /\ UNCHANGED <<disk, mode, worker, engine, server>>

\* The identity is kept if there is one; a failure here is not caught.
Identify(t) ==
    /\ At(t, "identify")
    /\ \/ /\ identity # None
          /\ Goto(t, "redeem")
          /\ UNCHANGED <<identity, lock>>
       \/ /\ identity = None
          /\ identity' \in Ident
          /\ Become(t, [Idle EXCEPT !.pc = "redeem", !.fresh = TRUE])
          /\ UNCHANGED lock
       \/ /\ identity = None
          /\ lock' = None
          /\ Become(t, Idle)
          /\ UNCHANGED identity
    /\ UNCHANGED <<stored, installed, mode, worker, phase, engine, server>>

\* The server redeems the token for the identity and issues a credential.
Grant(c) ==
    /\ open /\ seat \in {None, identity} /\ c \notin issued
    /\ seat' = identity /\ linked' = c /\ issued' = issued \cup {c}
    /\ UNCHANGED open

\* The redemption commits and the issue fails.
GrantHalf ==
    /\ open /\ seat \in {None, identity}
    /\ seat' = identity
    /\ UNCHANGED <<linked, open, issued>>

\* POST /api/runtime/activate: granted, granted with the reply lost, redeemed
\* only, or refused.
Redeem(t) ==
    /\ At(t, "redeem")
    /\ \/ \E c \in Cred : /\ Grant(c)
                          /\ \/ Become(t, [call[t] EXCEPT !.pc = "store", !.cred = c])
                             \/ Goto(t, "activation_failed")
       \/ (GrantHalf \/ UNCHANGED server) /\ Goto(t, "activation_failed")
    /\ UNCHANGED <<disk, memory>>

\* credentials.store() succeeds and the lock is released, or it fails.
Store(t) ==
    /\ At(t, "store")
    /\ \/ /\ stored' = call[t].cred
          /\ lock' = None
          /\ Become(t, [Idle EXCEPT !.pc = "spawn"])
       \/ /\ Goto(t, "activation_failed")
          /\ UNCHANGED <<stored, lock>>
    /\ UNCHANGED <<identity, installed, mode, worker, phase, engine, server>>

ActivationFailed(t) ==
    /\ At(t, "activation_failed")
    /\ identity' = IF call[t].fresh THEN None ELSE identity
    /\ stored' = None
    /\ phase' = "awaiting_activation"
    /\ lock' = None
    /\ Become(t, Idle)
    /\ UNCHANGED <<installed, mode, worker, engine, server>>

-----------------------------------------------------------------------------
(* start_background_preparation(); activate() may hold the lock already.   *)

\* Mutant: the lock is not reentrant.
SpawnNotReentrant(t) ==
    /\ At(t, "spawn")
    /\ lock = None
    /\ IF worker # None /\ Alive(worker)
         THEN Become(t, Idle) /\ UNCHANGED lock
         ELSE Goto(t, "spawn_start") /\ lock' = t
    /\ UNCHANGED <<disk, mode, worker, phase, engine, server>>

\* Mutant: the lock is not taken.
SpawnUnlocked(t) ==
    /\ At(t, "spawn")
    /\ lock' = IF lock = t THEN None ELSE lock
    /\ IF worker # None /\ Alive(worker)
         THEN Become(t, Idle)
         ELSE Goto(t, "spawn_start")
    /\ UNCHANGED <<disk, mode, worker, phase, engine, server>>

Spawn(t) ==
    /\ At(t, "spawn")
    /\ lock \in {None, t}
    /\ IF worker # None /\ Alive(worker)
         THEN Become(t, Idle) /\ lock' = None
         ELSE Goto(t, "spawn_start") /\ lock' = t
    /\ UNCHANGED <<disk, mode, worker, phase, engine, server>>

SpawnStart(t) ==
    /\ At(t, "spawn_start")
    /\ \E w \in Worker :
          /\ ~Alive(w)
          /\ worker' = w
          /\ call' = [call EXCEPT ![t] = Idle, ![w] = [Idle EXCEPT !.pc = "prepare"]]
    /\ lock' = None
    /\ UNCHANGED <<disk, mode, phase, engine, server>>

-----------------------------------------------------------------------------
(* refresh_entitlement()                                                   *)

Refresh(a) ==
    /\ At(a, "refresh")
    /\ Become(a, [call[a] EXCEPT !.pc = IF stored = None THEN "unlinked" ELSE "ask",
                                 !.cred = stored])
    /\ UNCHANGED <<disk, memory, server>>

\* No credential: AWAITING_ACTIVATION, also in prepare() and download_model().
Unlinked(a) ==
    /\ At(a, "unlinked")
    /\ phase' = "awaiting_activation"
    /\ Become(a, Refreshed(a, FALSE))
    /\ UNCHANGED <<disk, mode, lock, worker, engine, server>>

\* What the server says to a credential.
Verdicts(c) == IF c # linked THEN {"refused"}
               ELSE IF open THEN {"usable"} ELSE {"unusable", "forbidden"}

\* GET /api/runtime/entitlement was not answered, which is no denial.
AskOffline(a) ==
    /\ At(a, "ask")
    /\ Become(a, Refreshed(a, TRUE))
    /\ UNCHANGED <<disk, memory, server>>

\* The server answers with an error.
AskError(a) ==
    /\ At(a, "ask")
    /\ Goto(a, "deny_stop")
    /\ UNCHANGED <<disk, memory, server>>

AskAnswered(a) ==
    /\ At(a, "ask")
    /\ \E v \in Verdicts(call[a].cred) :
          CASE v = "usable"    -> Become(a, Refreshed(a, TRUE))
            [] v = "refused"   -> Goto(a, "forget")
            [] v = "forbidden" -> Goto(a, "deny_set")
            [] v = "unusable"  -> Goto(a, "deny_stop")
    /\ UNCHANGED <<disk, memory, server>>

\* After a 403 the phase is set first, after the other denials the engine is
\* stopped first.
DenySet(a) == At(a, "deny_set") /\ SetPhase(a, "blocked", "deny_stop_last")

DenyStopLast(a) ==
    /\ At(a, "deny_stop_last")
    /\ engine' = "none"
    /\ Become(a, Refreshed(a, FALSE))
    /\ UNCHANGED <<disk, mode, lock, worker, phase, server>>

\* Mutant: the denial is shown and the engine runs on.
DenyStopForgotten(a) ==
    /\ At(a, "deny_stop")
    /\ Goto(a, "deny_set_last")
    /\ UNCHANGED <<disk, memory, server>>

DenyStop(a) ==
    /\ At(a, "deny_stop")
    /\ engine' = "none"
    /\ Goto(a, "deny_set_last")
    /\ UNCHANGED <<disk, mode, lock, worker, phase, server>>

DenySetLast(a) ==
    /\ At(a, "deny_set_last")
    /\ phase' = "blocked"
    /\ Become(a, Refreshed(a, FALSE))
    /\ UNCHANGED <<disk, mode, lock, worker, engine, server>>

-----------------------------------------------------------------------------
(* _forget_credential()                                                    *)

\* Mutant: the refused credential is kept.
ForgetNothing(a) ==
    /\ At(a, "forget")
    /\ Goto(a, "forget_stop")
    /\ UNCHANGED <<disk, memory, server>>

Forget(a) ==
    /\ At(a, "forget")
    /\ stored' = None
    /\ Goto(a, "forget_stop")
    /\ UNCHANGED <<identity, installed, memory, server>>

ForgetStop(a) ==
    /\ At(a, "forget_stop")
    /\ engine' = "none"
    /\ Goto(a, "forget_set")
    /\ UNCHANGED <<disk, mode, lock, worker, phase, server>>

ForgetSet(a) ==
    /\ At(a, "forget_set")
    /\ phase' = "awaiting_activation"
    /\ Become(a, Refreshed(a, FALSE))
    /\ UNCHANGED <<disk, mode, lock, worker, engine, server>>

-----------------------------------------------------------------------------
(* prepare() and download_model()                                          *)

Prepare(w) ==
    /\ At(w, "prepare")
    /\ Become(w, [Idle EXCEPT !.pc = IF stored = None THEN "unlinked" ELSE "refresh",
                              !.then = "prepare"])
    /\ UNCHANGED <<disk, memory, server>>

PrepareMode(w) ==
    /\ At(w, "prepare_mode")
    /\ Goto(w, CASE mode = "demo"  -> "set_starting_demo"
                 [] mode = "cloud" -> "set_ready"
                 [] mode = "local" -> IF installed THEN "check_model" ELSE "read_for_model")
    /\ UNCHANGED <<disk, memory, server>>

ReadForModel(w) ==
    /\ At(w, "read_for_model")
    /\ Become(w, [call[w] EXCEPT !.pc = IF stored = None THEN "unlinked" ELSE "set_downloading",
                                 !.cred = stored])
    /\ UNCHANGED <<disk, memory, server>>

SetDownloading(w) == At(w, "set_downloading") /\ SetPhase(w, "downloading_model", "ask_model")

\* GET /api/runtime/model: any error but a refusal of the credential ends in ERROR.
AskModel(w) ==
    /\ At(w, "ask_model")
    /\ \/ "refused" \in Verdicts(call[w].cred) /\ Goto(w, "forget")
       \/ "usable" \in Verdicts(call[w].cred) /\ Goto(w, "download")
       \/ Goto(w, "set_error")
    /\ UNCHANGED <<disk, memory, server>>

\* ModelStore.download(): installed, cancelled, or failed.
Download(w) ==
    /\ At(w, "download")
    /\ \/ installed' = TRUE /\ Goto(w, "set_verifying")
       \/ Goto(w, "set_missing") /\ UNCHANGED installed
       \/ Goto(w, "set_error") /\ UNCHANGED installed
    /\ UNCHANGED <<stored, identity, memory, server>>

SetVerifying(w) == At(w, "set_verifying") /\ SetPhase(w, "verifying_model", "check_model")

-----------------------------------------------------------------------------
(* start_model(), stop_model(), restart_model()                            *)

\* Mutant: it is left to prepare() to know the mode.
StartModelAnyMode(a) ==
    /\ At(a, "start_model")
    /\ Goto(a, "check_model")
    /\ UNCHANGED <<disk, memory, server>>

StartModel(a) ==
    /\ At(a, "start_model")
    /\ Goto(a, CASE mode = "demo"  -> "set_starting_demo"
                 [] mode = "cloud" -> "set_ready"
                 [] mode = "local" -> "check_model")
    /\ UNCHANGED <<disk, memory, server>>

CheckModel(a) ==
    /\ At(a, "check_model")
    /\ Goto(a, IF installed THEN "set_starting" ELSE "set_missing")
    /\ UNCHANGED <<disk, memory, server>>

SetStarting(a) == At(a, "set_starting") /\ SetPhase(a, "starting_model", "launch")

\* LlamaSupervisor.start(): a running child will do, else one is launched.
Launch(a) ==
    /\ At(a, "launch")
    /\ \/ engine = "running" /\ Goto(a, "set_ready") /\ UNCHANGED engine
       \/ engine # "running" /\ engine' = "running" /\ Goto(a, "await_engine")
       \/ engine # "running" /\ Goto(a, "set_error") /\ UNCHANGED engine
    /\ UNCHANGED <<disk, mode, lock, worker, phase, server>>

\* It becomes ready; or it dies, is stopped or takes too long, and what runs is stopped.
\* Past the deadline start() reads the error output of a living child: it may not return.
AwaitEngine(a) ==
    /\ At(a, "await_engine")
    /\ \/ engine = "running" /\ Goto(a, "set_ready") /\ UNCHANGED engine
       \/ engine' = "none" /\ Goto(a, "set_error")
    /\ UNCHANGED <<disk, mode, lock, worker, phase, server>>

SetStartingDemo(a) == At(a, "set_starting_demo") /\ SetPhase(a, "starting_model", "probe")

Probe(a) ==
    /\ At(a, "probe")
    /\ \E pc \in {"set_ready", "set_error"} : Goto(a, pc)
    /\ UNCHANGED <<disk, memory, server>>

\* Mutant: the phase is the engine's word for it.
SetRunning(a) == At(a, "set_ready") /\ SetPhaseAndEnd(a, "running")

SetReady(a) == At(a, "set_ready") /\ SetPhaseAndEnd(a, "ready")
SetError(a) == At(a, "set_error") /\ SetPhaseAndEnd(a, "error")
SetMissing(a) == At(a, "set_missing") /\ SetPhaseAndEnd(a, "model_missing")

StopModel(t) ==
    /\ At(t, "stop_model")
    /\ \/ mode # "local" /\ Become(t, Idle) /\ UNCHANGED engine
       \/ mode = "local" /\ Goto(t, "set_missing") /\ engine' = "none"
    /\ UNCHANGED <<disk, mode, lock, worker, phase, server>>

RestartModel(t) ==
    /\ At(t, "restart_model")
    /\ engine' = IF mode = "local" THEN "none" ELSE engine
    /\ Goto(t, "start_model")
    /\ UNCHANGED <<disk, mode, lock, worker, phase, server>>

-----------------------------------------------------------------------------
(* chat() and _chat_cloud()                                                *)

Chat(t) ==
    /\ At(t, "chat")
    /\ Become(t, IF phase = "blocked" THEN Idle ELSE [Idle EXCEPT !.pc = "chat_linked"])
    /\ UNCHANGED <<disk, memory, server>>

\* Past this point a question to the model or the demo engine changes nothing.
ChatLinked(t) ==
    /\ At(t, "chat_linked")
    /\ Become(t, IF stored # None /\ mode = "cloud" THEN [Idle EXCEPT !.pc = "chat_read"]
                                                    ELSE Idle)
    /\ UNCHANGED <<disk, memory, server>>

ChatRead(t) ==
    /\ At(t, "chat_read")
    /\ Become(t, IF stored = None THEN Idle
                   ELSE [Idle EXCEPT !.pc = "chat_ask", !.cred = stored])
    /\ UNCHANGED <<disk, memory, server>>

\* POST /api/runtime/chat.  A reply, and any other error, change nothing here.
ChatAsk(t) ==
    /\ At(t, "chat_ask")
    /\ \/ "refused" \in Verdicts(call[t].cred) /\ Goto(t, "forget")
       \/ "forbidden" \in Verdicts(call[t].cred) /\ Goto(t, "chat_denied")
       \/ Become(t, Idle)
    /\ UNCHANGED <<disk, memory, server>>

ChatDenied(t) == At(t, "chat_denied") /\ SetPhaseAndEnd(t, "blocked")

-----------------------------------------------------------------------------
(* The engine, the server and the computer.                                *)

EngineDies ==
    /\ engine = "running"
    /\ engine' = "dead"
    /\ UNCHANGED <<disk, mode, lock, worker, phase, server, call>>

\* The owner revokes the device, or another one takes the seat.
SeatTaken ==
    /\ seat \in Ident
    /\ seat' \in {None, Other}
    /\ linked' = None
    /\ UNCHANGED <<disk, memory, open, issued, call>>

SeatFreed ==
    /\ seat = Other
    /\ seat' = None
    /\ UNCHANGED <<disk, memory, linked, open, issued, call>>

SubscriptionChanges ==
    /\ open' = ~open
    /\ UNCHANGED <<disk, memory, linked, seat, issued, call>>

\* The Runtime ends at any point, its child with it, and is started again.
Reboot ==
    /\ \E busy \in PortBusy : mode' \in ModesAt(busy)
    /\ lock' = None /\ phase' = "awaiting_activation" /\ engine' = "none"
    /\ worker' = None /\ call' = [a \in Actor |-> Idle]
    /\ UNCHANGED <<disk, server>>

-----------------------------------------------------------------------------
RefreshStep(a) ==
    \/ Refresh(a) \/ Unlinked(a) \/ AskOffline(a) \/ AskError(a) \/ AskAnswered(a)
    \/ DenySet(a) \/ DenyStopLast(a) \/ DenyStop(a) \/ DenySetLast(a)
    \/ Forget(a) \/ ForgetStop(a) \/ ForgetSet(a)

EngineStep(a) ==
    \/ CheckModel(a) \/ SetStarting(a) \/ Launch(a) \/ AwaitEngine(a)
    \/ SetStartingDemo(a) \/ Probe(a) \/ SetReady(a) \/ SetError(a) \/ SetMissing(a)

PrepareStep(w) ==
    \/ Prepare(w) \/ PrepareMode(w) \/ ReadForModel(w) \/ SetDownloading(w)
    \/ AskModel(w) \/ Download(w) \/ SetVerifying(w)

ActivateStep(t) ==
    \/ Activate(t) \/ Identify(t) \/ Redeem(t) \/ Store(t) \/ ActivationFailed(t)

ChatStep(t) ==
    \/ Chat(t) \/ ChatLinked(t) \/ ChatRead(t) \/ ChatAsk(t) \/ ChatDenied(t)

ApiStep(t) ==
    \/ Recheck(t) \/ StartDownload(t) \/ Spawn(t) \/ SpawnStart(t)
    \/ StartModel(t) \/ StopModel(t) \/ RestartModel(t)

Step(a) ==
    \/ RefreshStep(a) \/ EngineStep(a)
    \/ a \in Worker /\ PrepareStep(a)
    \/ a \in Thread /\ (ActivateStep(a) \/ ChatStep(a) \/ ApiStep(a))

Environment == EngineDies \/ SeatTaken \/ SeatFreed \/ SubscriptionChanges \/ Reboot

Next ==
    \/ Boot
    \/ \E t \in Thread : Begin(t)
    \/ \E a \in Actor : Step(a)
    \/ Environment

Spec == Init /\ [][Next]_vars

\* Nothing makes the engine ready, nor start() return.
RunsOn(a) == ~At(a, "await_engine") /\ Step(a)

\* The Runtime is not restarted for ever; threads run on, the lock reaches who
\* waits for it, the entitlement thread asks again and again, and a server
\* asked again and again answers at last.
FairSpec ==
    /\ Spec
    /\ <>[][~Reboot]_vars /\ WF_vars(Boot)
    /\ \A t \in Loop : WF_vars(Begin(t)) /\ SF_vars(AskAnswered(t))
    /\ \A a \in Actor : WF_vars(RunsOn(a))
    /\ \A t \in Thread \ Loop : SF_vars(Activate(t)) /\ SF_vars(Spawn(t))

-----------------------------------------------------------------------------
(* Properties.                                                             *)

\* "It starts no second one while one runs" (service.py:703): two preparations
\* would append to the same partial file.
OneWorker == \A v, w \in Worker : Alive(v) /\ Alive(w) => v = w

\* A device whose stored credential the server accepts has the identity that the
\* server linked: no activation that fails, repeats or overlaps takes it away
\* (service.py:240, 260-262).  It says nothing of a seat whose activation was
\* granted with the reply lost: no credential is stored for that one.
LinkedHasItsIdentity == stored # None /\ stored = linked => identity = seat

\* A linked device is not linked over: no activation replaces a credential that
\* another one has just stored (service.py:223-224).
StoredNotReplaced == [][stored # None /\ stored' # None => stored' = stored]_vars

\* "A refused credential kept would be sent again for ever" (service.py:208).
RefusedIsForgotten == \A c \in Cred : (stored = c /\ linked # c) ~> (stored # c)

\* No request and no preparation hangs on self._lock, nor on another call that does
\* not return: each comes back, or is itself in a start() that waits for its engine.
\* A repeated activation reenters the lock it holds (service.py:163-165, 240-243).
CallsReturn == \A a \in Actor : ~At(a, "idle") ~> At(a, "idle") \/ At(a, "await_engine")

\* "Erases a credential that the server has refused" (service.py:206).
OnlyRefusedIsForgotten == [][stored # None /\ stored' = None => stored # linked]_vars

\* The denial of the subscription reaches a running engine while the device is
\* linked, whoever launches it meanwhile (service.py:351-358).
DenialStopsEngine ==
    (~open /\ engine = "running") ~> (open \/ engine # "running" \/ stored = None)

\* "llama-server is never run in cloud mode", nor in demo mode, and nothing is
\* downloaded there, whatever the API is asked (service.py:367-376, 429-436).
NoEngineElsewhere ==
    mode # "local" => engine = "none" /\ phase \notin {"downloading_model", "verifying_model"}
=============================================================================
