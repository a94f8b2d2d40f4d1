------------------------ MODULE RuntimeServiceProofs ------------------------
(***************************************************************************)
(* RuntimeService for any threads, preparations, secrets and credentials.  *)
(* Everything about the link rests on the lock, which is held from the     *)
(* look at the credential to its storing; one preparation at a time rests  *)
(* on it too, and on start-up being alone.                                 *)
(***************************************************************************)
EXTENDS RuntimeService, TLAPS

\* The steps under the lock.
Locked == {"identify", "redeem", "store", "activation_failed", "spawn_start"}

\* The steps of a preparation.
Preparing ==
    { "idle", "unlinked", "refresh", "ask", "deny_set", "deny_stop_last", "deny_stop",
      "deny_set_last", "forget", "forget_stop", "forget_set", "prepare", "prepare_mode",
      "read_for_model", "set_downloading", "ask_model", "download", "set_verifying",
      "check_model", "set_starting", "launch", "await_engine", "set_starting_demo", "probe",
      "set_ready", "set_missing", "set_error" }

\* The steps that only local mode takes.
LocalOnly ==
    { "read_for_model", "set_downloading", "ask_model", "download", "set_verifying",
      "check_model", "set_starting", "launch", "await_engine" }

WorkersPrepare ==
    \A w \in Worker : call[w].pc \in Preparing /\ call[w].then # "spawn"

LockHeld == \A a \in Actor : call[a].pc \in Locked => lock = a

\* A preparation under way is the one that self._worker names, and there is none
\* when the next is about to start.
WorkerKnown == \A w \in Worker : Alive(w) => worker = w

SpawnAlone == \A a \in Actor, w \in Worker : At(a, "spawn_start") => ~Alive(w)

StartUpAlone == worker = None => \A a \in Actor : At(a, "idle")

\* An activation under way found no credential and knows who the seat went to.
NotYetStored ==
    \A a \in Actor : call[a].pc \in {"identify", "redeem", "store"} => stored = None

CarriedIsOurs ==
    \A a \in Actor : At(a, "store") =>
        call[a].cred # None /\ (call[a].cred = linked => identity = seat)

LocalSteps == \A a \in Actor : call[a].pc \in LocalOnly => mode = "local"

Preparations == WorkersPrepare /\ WorkerKnown /\ SpawnAlone /\ StartUpAlone

Link == LockHeld /\ NotYetStored /\ CarriedIsOurs /\ LinkedHasItsIdentity

Modes == LocalSteps /\ NoEngineElsewhere

IInv == TypeOK /\ Preparations /\ Link /\ Modes

-----------------------------------------------------------------------------
(* The step of one call outside the lock.                                  *)

\* What every such step keeps of the rest.
Quiet(a, c) ==
    /\ Become(a, c)
    /\ c.pc \notin Locked
    /\ worker # None
    /\ a \in Worker => ~At(a, "idle") /\ c.pc \in Preparing /\ c.then # "spawn"
    /\ c.pc \in LocalOnly => mode = "local"
    /\ lock' = lock \/ (lock \in {None, a} /\ lock' = None)
    /\ stored' \in {stored, None}
    /\ UNCHANGED <<identity, mode, worker, server>>
    /\ installed' \in BOOLEAN
    /\ phase' \in Phase
    /\ engine' \in {"none", "running", "dead"}
    /\ mode # "local" =>
          engine' = "none" /\ phase' \notin {"downloading_model", "verifying_model"}

LEMMA IdleIsCall ==
    /\ Idle \in Call
    /\ Idle.pc = "idle" /\ Idle.cred = None /\ Idle.then = "end"
  BY DEF Idle, Call, CallPC

\* A step that keeps to Quiet preserves the invariant.
LEMMA QuietStep ==
    ASSUME IInv, NEW a \in Actor, NEW c \in Call, Quiet(a, c)
    PROVE  IInv'
<1>1. /\ call' = [call EXCEPT ![a] = c] /\ call \in [Actor -> Call]
      /\ call'[a] = c /\ \A b \in Actor : b # a => call'[b] = call[b]
  BY DEF IInv, TypeOK, Quiet, Become
<1>2. TypeOK'
  <2>1. call' \in [Actor -> Call]
    BY <1>1
  <2>2. stored' \in Cred \cup {None} /\ lock' \in Actor \cup {None}
    BY DEF IInv, TypeOK, Quiet
  <2> QED BY <2>1, <2>2 DEF IInv, TypeOK, Quiet, server
<1>3. Preparations'
  <2>1. WorkersPrepare'
    BY <1>1 DEF IInv, Preparations, WorkersPrepare, Quiet, Actor
  <2>2. WorkerKnown'
    BY <1>1 DEF IInv, Preparations, WorkerKnown, Quiet, Actor, Alive, At
  <2>3. SpawnAlone'
    BY <1>1 DEF IInv, Preparations, SpawnAlone, Quiet, Actor, Alive, At, Locked
  <2>4. StartUpAlone'
    BY DEF StartUpAlone, Quiet
  <2> QED BY <2>1, <2>2, <2>3, <2>4 DEF Preparations
<1>4. Link'
  <2>1. LockHeld'
    BY <1>1, RuntimeAssumption DEF IInv, Link, LockHeld, Quiet, Actor
  <2>2. NotYetStored'
    BY <1>1 DEF IInv, Link, NotYetStored, Quiet, Locked
  <2>3. CarriedIsOurs'
    BY <1>1 DEF IInv, Link, CarriedIsOurs, Quiet, At, Locked, server
  <2>4. LinkedHasItsIdentity'
    BY DEF IInv, Link, LinkedHasItsIdentity, Quiet, server
  <2> QED BY <2>1, <2>2, <2>3, <2>4 DEF Link
<1>5. Modes'
  BY <1>1 DEF IInv, Modes, LocalSteps, NoEngineElsewhere, Quiet
<1> QED BY <1>2, <1>3, <1>4, <1>5 DEF IInv

\* A call that is under way has a type, and start-up is over.
LEMMA UnderWay ==
    ASSUME IInv, NEW a \in Actor, ~At(a, "idle")
    PROVE  /\ call[a] \in Call /\ worker # None
           /\ a \in Worker => call[a].then # "spawn"
  BY DEF IInv, TypeOK, Preparations, StartUpAlone, WorkersPrepare

LEMMA ToPC ==
    ASSUME NEW c \in Call, NEW pc \in CallPC
    PROVE  /\ [c EXCEPT !.pc = pc] \in Call
           /\ [c EXCEPT !.pc = pc].pc = pc
           /\ [c EXCEPT !.pc = pc].then = c.then
  BY DEF Call

LEMMA RefreshedIsQuiet ==
    ASSUME IInv, NEW a \in Actor, ~At(a, "idle"), NEW ok \in BOOLEAN
    PROVE  /\ Refreshed(a, ok) \in Call
           /\ Refreshed(a, ok).pc \in {"idle", "spawn", "prepare_mode"}
           /\ Refreshed(a, ok).pc = "spawn" => a \notin Worker
           /\ Refreshed(a, ok).then = "end"
<1>1. \A pc \in {"spawn", "prepare_mode"} :
         /\ [Idle EXCEPT !.pc = pc] \in Call
         /\ [Idle EXCEPT !.pc = pc].pc = pc
         /\ [Idle EXCEPT !.pc = pc].then = "end"
  BY IdleIsCall, ToPC DEF CallPC
<1> QED BY <1>1, UnderWay, IdleIsCall DEF Refreshed

\* refresh_entitlement() reads, asks and denies, and erases at most.
LEMMA RefreshPreserves ==
    ASSUME IInv, NEW a \in Actor, RefreshStep(a)
    PROVE  IInv'
<1> DEFINE To(pc) == [call[a] EXCEPT !.pc = pc]
<1>1. ~At(a, "idle")
  BY DEF RefreshStep, Refresh, Unlinked, AskOffline, AskError, AskAnswered, DenySet,
         DenyStopLast, DenyStop, DenySetLast, Forget, ForgetStop, ForgetSet, At
<1>2. call[a] \in Call /\ worker # None /\ (a \in Worker => call[a].then # "spawn")
  BY <1>1, UnderWay
<1>3. \A pc \in CallPC : To(pc) \in Call /\ To(pc).pc = pc /\ To(pc).then = call[a].then
  BY <1>2, ToPC
<1>4. \A ok \in BOOLEAN : /\ Refreshed(a, ok) \in Call
                          /\ Refreshed(a, ok).pc \in {"idle", "spawn", "prepare_mode"}
                          /\ Refreshed(a, ok).pc = "spawn" => a \notin Worker
                          /\ Refreshed(a, ok).then = "end"
  BY <1>1, RefreshedIsQuiet
<1> HIDE DEF To
<1>5. /\ installed \in BOOLEAN /\ phase \in Phase /\ engine \in {"none", "running", "dead"}
      /\ mode # "local" =>
            engine = "none" /\ phase \notin {"downloading_model", "verifying_model"}
  BY DEF IInv, TypeOK, Modes, NoEngineElsewhere
<1> USE <1>1, <1>2, <1>5 DEF Quiet, Locked, Preparing, LocalOnly, CallPC, Operation, Phase,
                             disk, memory, server
<1>6. CASE \E ok \in BOOLEAN : Quiet(a, Refreshed(a, ok))
  BY <1>4, <1>6, QuietStep
<1>7. CASE \E pc \in CallPC : Quiet(a, To(pc))
  BY <1>3, <1>7, QuietStep
<1>8. CASE Refresh(a)
  <2> DEFINE c == [call[a] EXCEPT !.pc = IF stored = None THEN "unlinked" ELSE "ask",
                                  !.cred = stored]
  <2>1. c \in Call /\ c.pc \in {"unlinked", "ask"} /\ c.then = call[a].then
    BY DEF Call, IInv, TypeOK
  <2>2. Quiet(a, c)
    BY <1>8, <2>1 DEF Refresh
  <2> QED BY <2>1, <2>2, QuietStep
<1>9. CASE Unlinked(a)
  BY <1>4, <1>6, <1>9 DEF Unlinked
<1>10. CASE AskOffline(a)
  BY <1>4, <1>6, <1>10 DEF AskOffline
<1>11. CASE AskError(a)
  BY <1>3, <1>7, <1>11 DEF AskError, Goto, To
<1>12. CASE AskAnswered(a)
  <2>1. UNCHANGED <<disk, memory, server>>
    BY <1>12 DEF AskAnswered
  <2>2. \/ Become(a, Refreshed(a, TRUE))
        \/ Goto(a, "forget") \/ Goto(a, "deny_set") \/ Goto(a, "deny_stop")
    BY <1>12 DEF AskAnswered, Verdicts
  <2>3. CASE Become(a, Refreshed(a, TRUE))
    BY <1>4, <1>6, <2>1, <2>3
  <2>4. CASE Goto(a, "forget") \/ Goto(a, "deny_set") \/ Goto(a, "deny_stop")
    BY <1>3, <1>7, <2>1, <2>4 DEF Goto, To
  <2> QED BY <2>2, <2>3, <2>4
<1>13. CASE DenySet(a)
  BY <1>3, <1>7, <1>13 DEF DenySet, SetPhase, Goto, To
<1>14. CASE DenyStopLast(a)
  BY <1>4, <1>6, <1>14 DEF DenyStopLast
<1>15. CASE DenyStop(a)
  BY <1>3, <1>7, <1>15 DEF DenyStop, Goto, To
<1>16. CASE DenySetLast(a)
  BY <1>4, <1>6, <1>16 DEF DenySetLast
<1>17. CASE Forget(a)
  BY <1>3, <1>7, <1>17 DEF Forget, Goto, To
<1>18. CASE ForgetStop(a)
  BY <1>3, <1>7, <1>18 DEF ForgetStop, Goto, To
<1>19. CASE ForgetSet(a)
  BY <1>4, <1>6, <1>19 DEF ForgetSet
<1> QED BY <1>8, <1>9, <1>10, <1>11, <1>12, <1>13, <1>14, <1>15, <1>16, <1>17, <1>18, <1>19
        DEF RefreshStep

\* start_model() and what it is made of move the phase and the engine.
LEMMA EnginePreserves ==
    ASSUME IInv, NEW a \in Actor, EngineStep(a)
    PROVE  IInv'
<1> DEFINE To(pc) == [call[a] EXCEPT !.pc = pc]
<1>1. ~At(a, "idle")
  BY DEF EngineStep, CheckModel, SetStarting, Launch, AwaitEngine, SetStartingDemo, Probe,
         SetReady, SetError, SetMissing, At
<1>2. call[a] \in Call /\ worker # None /\ (a \in Worker => call[a].then # "spawn")
  BY <1>1, UnderWay
<1>3. \A pc \in CallPC : To(pc) \in Call /\ To(pc).pc = pc /\ To(pc).then = call[a].then
  BY <1>2, ToPC
<1> HIDE DEF To
<1>4. /\ installed \in BOOLEAN /\ phase \in Phase /\ engine \in {"none", "running", "dead"}
      /\ mode # "local" =>
            engine = "none" /\ phase \notin {"downloading_model", "verifying_model"}
      /\ call[a].pc \in LocalOnly => mode = "local"
  BY DEF IInv, TypeOK, Modes, NoEngineElsewhere, LocalSteps
<1> USE <1>1, <1>2, <1>4 DEF Quiet, Locked, Preparing, LocalOnly, CallPC, Operation, Phase,
                             disk, memory, server
<1>5. CASE Quiet(a, Idle)
  BY <1>5, IdleIsCall, QuietStep
<1>6. CASE \E pc \in CallPC : Quiet(a, To(pc))
  BY <1>3, <1>6, QuietStep
<1>7. CASE CheckModel(a)
  BY <1>3, <1>6, <1>7 DEF CheckModel, Goto, To, At
<1>8. CASE SetStarting(a)
  BY <1>3, <1>6, <1>8 DEF SetStarting, SetPhase, Goto, To, At
<1>9. CASE Launch(a)
  BY <1>3, <1>6, <1>9 DEF Launch, Goto, To, At
<1>10. CASE AwaitEngine(a)
  BY <1>3, <1>6, <1>10 DEF AwaitEngine, Goto, To, At
<1>11. CASE SetStartingDemo(a)
  BY <1>3, <1>6, <1>11 DEF SetStartingDemo, SetPhase, Goto, To
<1>12. CASE Probe(a)
  <2>1. UNCHANGED <<disk, memory, server>>
    BY <1>12 DEF Probe
  <2>2. Goto(a, "set_ready") \/ Goto(a, "set_error")
    BY <1>12 DEF Probe
  <2> QED BY <1>3, <1>6, <2>1, <2>2 DEF Goto, To
<1>13. CASE SetReady(a)
  BY <1>5, <1>13, IdleIsCall DEF SetReady, SetPhaseAndEnd
<1>14. CASE SetError(a)
  BY <1>5, <1>14, IdleIsCall DEF SetError, SetPhaseAndEnd
<1>15. CASE SetMissing(a)
  BY <1>5, <1>15, IdleIsCall DEF SetMissing, SetPhaseAndEnd
<1> QED BY <1>7, <1>8, <1>9, <1>10, <1>11, <1>12, <1>13, <1>14, <1>15 DEF EngineStep

\* prepare() and download_model() go from one step to the next, as the mode allows.
LEMMA PreparePreserves ==
    ASSUME IInv, NEW a \in Worker, PrepareStep(a)
    PROVE  IInv'
<1> DEFINE To(pc) == [call[a] EXCEPT !.pc = pc]
<1>0. a \in Actor
  BY DEF Actor
<1>1. ~At(a, "idle")
  BY DEF PrepareStep, Prepare, PrepareMode, ReadForModel, SetDownloading, AskModel,
         Download, SetVerifying, At
<1>2. call[a] \in Call /\ worker # None /\ call[a].then # "spawn"
  BY <1>0, <1>1, UnderWay
<1>3. \A pc \in CallPC : To(pc) \in Call /\ To(pc).pc = pc /\ To(pc).then = call[a].then
  BY <1>2, ToPC
<1> HIDE DEF To
<1>4. /\ installed \in BOOLEAN /\ phase \in Phase /\ engine \in {"none", "running", "dead"}
      /\ mode # "local" =>
            engine = "none" /\ phase \notin {"downloading_model", "verifying_model"}
      /\ call[a].pc \in LocalOnly => mode = "local"
      /\ stored \in Cred \cup {None} /\ mode \in Mode
  BY <1>0 DEF IInv, TypeOK, Modes, NoEngineElsewhere, LocalSteps
<1> USE <1>0, <1>1, <1>2, <1>4 DEF Quiet, Locked, Preparing, LocalOnly, CallPC, Operation,
                                   Phase, disk, memory, server
<1>5. CASE \E c \in Call : Quiet(a, c)
  BY <1>5, QuietStep
<1>6. CASE \E pc \in CallPC : Quiet(a, To(pc))
  BY <1>3, <1>5, <1>6
<1>7. CASE Prepare(a)
  <2> DEFINE c == [Idle EXCEPT !.pc = IF stored = None THEN "unlinked" ELSE "refresh",
                               !.then = "prepare"]
  <2>1. c \in Call /\ c.pc \in {"unlinked", "refresh"} /\ c.then = "prepare"
    BY DEF Idle, Call
  <2>2. Quiet(a, c)
    BY <1>7, <2>1 DEF Prepare
  <2> QED BY <1>5, <2>1, <2>2
<1>8. CASE PrepareMode(a)
  <2>1. UNCHANGED <<disk, memory, server>>
    BY <1>8 DEF PrepareMode
  <2>2. PICK pc \in {"set_starting_demo", "set_ready", "check_model", "read_for_model"} :
            Goto(a, pc) /\ (pc \in LocalOnly => mode = "local")
    BY <1>8 DEF PrepareMode, Mode
  <2>3. pc \in CallPC /\ To(pc).pc = pc /\ To(pc).then = call[a].then /\ Become(a, To(pc))
    BY <1>3, <2>2 DEF Goto, To
  <2>4. Quiet(a, To(pc))
    BY <2>1, <2>2, <2>3
  <2> QED BY <1>6, <2>3, <2>4
<1>9. CASE ReadForModel(a)
  <2> DEFINE c == [call[a] EXCEPT !.pc = IF stored = None THEN "unlinked"
                                                          ELSE "set_downloading",
                                  !.cred = stored]
  <2>1. c \in Call /\ c.pc \in {"unlinked", "set_downloading"} /\ c.then = call[a].then
    BY DEF Call
  <2>2. Quiet(a, c)
    BY <1>9, <2>1 DEF ReadForModel, At
  <2> QED BY <1>5, <2>1, <2>2
<1>10. CASE SetDownloading(a)
  BY <1>3, <1>6, <1>10 DEF SetDownloading, SetPhase, Goto, To, At
<1>11. CASE AskModel(a)
  BY <1>3, <1>6, <1>11 DEF AskModel, Goto, To, At
<1>12. CASE Download(a)
  BY <1>3, <1>6, <1>12 DEF Download, Goto, To, At
<1>13. CASE SetVerifying(a)
  BY <1>3, <1>6, <1>13 DEF SetVerifying, SetPhase, Goto, To, At
<1> QED BY <1>7, <1>8, <1>9, <1>10, <1>11, <1>12, <1>13 DEF PrepareStep

\* A question erases a refused credential at most.
LEMMA ChatPreserves ==
    ASSUME IInv, NEW a \in Thread, ChatStep(a)
    PROVE  IInv'
<1> DEFINE To(pc) == [call[a] EXCEPT !.pc = pc]
<1>0. a \in Actor /\ a \notin Worker
  BY RuntimeAssumption DEF Actor
<1>1. ~At(a, "idle")
  BY DEF ChatStep, Chat, ChatLinked, ChatRead, ChatAsk, ChatDenied, At
<1>2. call[a] \in Call /\ worker # None
  BY <1>0, <1>1, UnderWay
<1>3. \A pc \in CallPC : /\ To(pc) \in Call /\ To(pc).pc = pc
                         /\ [Idle EXCEPT !.pc = pc] \in Call
                         /\ [Idle EXCEPT !.pc = pc].pc = pc
  BY <1>2, ToPC, IdleIsCall
<1> HIDE DEF To
<1>4. /\ installed \in BOOLEAN /\ phase \in Phase /\ engine \in {"none", "running", "dead"}
      /\ mode # "local" =>
            engine = "none" /\ phase \notin {"downloading_model", "verifying_model"}
      /\ stored \in Cred \cup {None}
  BY DEF IInv, TypeOK, Modes, NoEngineElsewhere
<1> USE <1>0, <1>1, <1>2, <1>4, IdleIsCall DEF Quiet, Locked, LocalOnly, CallPC, Operation,
                                               Phase, disk, memory, server
<1>5. CASE \E c \in Call : Quiet(a, c)
  BY <1>5, QuietStep
<1>6. CASE Chat(a)
  <2>1. Quiet(a, Idle) \/ Quiet(a, [Idle EXCEPT !.pc = "chat_linked"])
    BY <1>3, <1>6 DEF Chat
  <2> QED BY <1>3, <1>5, <2>1
<1>7. CASE ChatLinked(a)
  BY <1>3, <1>5, <1>7 DEF ChatLinked
<1>8. CASE ChatRead(a)
  <2> DEFINE c == [Idle EXCEPT !.pc = "chat_ask", !.cred = stored]
  <2>1. c \in Call /\ c.pc = "chat_ask"
    BY DEF Idle, Call
  <2>2. Quiet(a, Idle) \/ Quiet(a, c)
    BY <1>8, <2>1 DEF ChatRead
  <2> QED BY <1>5, <2>1, <2>2
<1>9. CASE ChatAsk(a)
  <2>1. \E pc \in {"forget", "chat_denied"} : Quiet(a, Idle) \/ Quiet(a, To(pc))
    BY <1>3, <1>9 DEF ChatAsk, Goto, To
  <2> QED BY <1>3, <1>5, <2>1
<1>10. CASE ChatDenied(a)
  BY <1>5, <1>10 DEF ChatDenied, SetPhaseAndEnd
<1> QED BY <1>6, <1>7, <1>8, <1>9, <1>10 DEF ChatStep

\* The calls of the API that only move on, stop the engine or find a preparation.
LeavesTheLock(a) ==
    \/ Recheck(a) \/ StartDownload(a) \/ StartModel(a) \/ StopModel(a)
    \/ RestartModel(a) \/ Begin(a)
    \/ Spawn(a) /\ call'[a].pc # "spawn_start"

LEMMA ApiPreserves ==
    ASSUME IInv, NEW a \in Thread, LeavesTheLock(a)
    PROVE  IInv'
<1> DEFINE To(pc) == [call[a] EXCEPT !.pc = pc]
<1>0. a \in Actor /\ a \notin Worker
  BY RuntimeAssumption DEF Actor
<1>1. worker # None
  BY <1>0, UnderWay
     DEF LeavesTheLock, Recheck, StartDownload, StartModel, StopModel, RestartModel, Begin,
         Spawn, At
<1>2. call[a] \in Call
  BY <1>0 DEF IInv, TypeOK
<1>3. \A pc \in CallPC : /\ To(pc) \in Call /\ To(pc).pc = pc
                         /\ [Idle EXCEPT !.pc = pc] \in Call
                         /\ [Idle EXCEPT !.pc = pc].pc = pc
  BY <1>2, ToPC, IdleIsCall
<1> HIDE DEF To
<1>4. /\ installed \in BOOLEAN /\ phase \in Phase /\ engine \in {"none", "running", "dead"}
      /\ mode # "local" =>
            engine = "none" /\ phase \notin {"downloading_model", "verifying_model"}
      /\ stored \in Cred \cup {None} /\ mode \in Mode
      /\ call \in [Actor -> Call]
  BY DEF IInv, TypeOK, Modes, NoEngineElsewhere
<1> USE <1>0, <1>1, <1>2, <1>4, IdleIsCall DEF Quiet, Locked, LocalOnly, CallPC, Operation,
                                               Phase, disk, memory, server
<1>5. CASE \E c \in Call : Quiet(a, c)
  BY <1>5, QuietStep
<1>6. CASE Recheck(a)
  <2> DEFINE c == [Idle EXCEPT !.pc = "refresh", !.then = "spawn"]
  <2>1. c \in Call /\ c.pc = "refresh"
    BY DEF Idle, Call
  <2>2. Quiet(a, Idle) \/ Quiet(a, c)
    BY <1>6, <2>1 DEF Recheck
  <2> QED BY <1>5, <2>1, <2>2
<1>7. CASE StartDownload(a)
  <2>1. Quiet(a, To("spawn"))
    BY <1>3, <1>7 DEF StartDownload, Goto, To
  <2> QED BY <1>3, <1>5, <2>1
<1>8. CASE StartModel(a)
  <2>1. UNCHANGED <<disk, memory, server>>
    BY <1>8 DEF StartModel
  <2>2. PICK pc \in {"set_starting_demo", "set_ready", "check_model"} :
            Goto(a, pc) /\ (pc \in LocalOnly => mode = "local")
    BY <1>8 DEF StartModel, Mode
  <2> QED BY <1>3, <1>5, <2>1, <2>2 DEF Goto, To
<1>9. CASE StopModel(a)
  <2>1. Quiet(a, Idle) \/ Quiet(a, To("set_missing"))
    BY <1>3, <1>9 DEF StopModel, Goto, To
  <2> QED BY <1>3, <1>5, <2>1
<1>10. CASE RestartModel(a)
  BY <1>3, <1>5, <1>10 DEF RestartModel, Goto, To
<1>11. CASE Begin(a)
  <2>1. UNCHANGED <<disk, memory, server>>
    BY <1>11 DEF Begin
  <2>2. PICK op \in Operation : Goto(a, op)
    BY <1>11, OpsAssumption DEF Begin
  <2>3. op \in CallPC /\ op \notin Locked \cup LocalOnly
    OBVIOUS
  <2>4. Quiet(a, To(op))
    BY <1>3, <2>1, <2>2, <2>3 DEF Goto, To
  <2> QED BY <1>3, <1>5, <2>3, <2>4
<1>12. CASE Spawn(a) /\ call'[a].pc # "spawn_start"
  BY <1>3, <1>5, <1>12 DEF Spawn, Goto, To, Become
<1> QED BY <1>6, <1>7, <1>8, <1>9, <1>10, <1>11, <1>12 DEF LeavesTheLock

-----------------------------------------------------------------------------
(* The steps under the lock.                                               *)

\* What a step of an activation keeps of the rest: only its own call moves, nobody
\* else is under the lock, and no preparation moves.
Alone(a, c) ==
    /\ Become(a, c)
    /\ a \in Thread /\ worker # None
    /\ lock' = a \/ (c.pc \notin Locked /\ lock' = None)
    /\ \A b \in Actor \ {a} : call[b].pc \notin Locked
    /\ c.pc \notin LocalOnly
    /\ c.pc = "spawn_start" => \A w \in Worker : ~Alive(w)
    /\ UNCHANGED <<installed, mode, worker, engine>>
    /\ phase' \in {phase, "activating", "awaiting_activation"}

LEMMA AloneStep ==
    ASSUME IInv, NEW a \in Actor, NEW c \in Call, Alone(a, c),
           stored' \in Cred \cup {None}, identity' \in Ident \cup {None},
           linked' \in Cred \cup {None}, seat' \in Ident \cup {None, Other},
           open' \in BOOLEAN, issued' \subseteq Cred,
           c.pc \in {"identify", "redeem", "store"} => stored' = None,
           c.pc = "store" => c.cred # None /\ (c.cred = linked' => identity' = seat'),
           LinkedHasItsIdentity'
    PROVE  IInv'
<1>1. /\ call' = [call EXCEPT ![a] = c] /\ call \in [Actor -> Call]
      /\ call'[a] = c /\ \A b \in Actor : b # a => call'[b] = call[b]
  BY DEF IInv, TypeOK, Alone, Become
<1>2. a \notin Worker
  BY RuntimeAssumption DEF Alone
<1>3. TypeOK'
  <2>1. call' \in [Actor -> Call]
    BY <1>1
  <2>2. lock' \in Actor \cup {None} /\ phase' \in Phase
    BY DEF IInv, TypeOK, Alone, Phase
  <2> QED BY <2>1, <2>2 DEF IInv, TypeOK, Alone
<1>4. Preparations'
  <2>1. WorkersPrepare' /\ WorkerKnown'
    BY <1>1, <1>2 DEF IInv, Preparations, WorkersPrepare, WorkerKnown, Alone, Actor, Alive
  <2>2. SpawnAlone'
    BY <1>1, <1>2 DEF SpawnAlone, Alone, Actor, Alive, At, Locked
  <2>3. StartUpAlone'
    BY DEF StartUpAlone, Alone
  <2> QED BY <2>1, <2>2, <2>3 DEF Preparations
<1>5. Link'
  <2>1. LockHeld' /\ NotYetStored' /\ CarriedIsOurs'
    BY <1>1 DEF LockHeld, NotYetStored, CarriedIsOurs, Alone, At, Locked
  <2> QED BY <2>1 DEF Link
<1>6. Modes'
  BY <1>1 DEF IInv, Modes, LocalSteps, NoEngineElsewhere, Alone
<1> QED BY <1>3, <1>4, <1>5, <1>6 DEF IInv

\* Who is under the lock, or finds it free, is alone there.
LEMMA AloneThere ==
    ASSUME IInv, NEW a \in Actor, call[a].pc \in Locked \/ lock \in {None, a}
    PROVE  \A b \in Actor \ {a} : call[b].pc \notin Locked
  BY RuntimeAssumption DEF IInv, Link, LockHeld, Actor

LEMMA ActivatePreserves ==
    ASSUME IInv, NEW a \in Thread, ActivateStep(a)
    PROVE  IInv'
<1> DEFINE To(pc) == [call[a] EXCEPT !.pc = pc]
<1>0. a \in Actor
  BY DEF Actor
<1>1. ~At(a, "idle") /\ (At(a, "activate") \/ call[a].pc \in Locked)
  BY DEF ActivateStep, Activate, Identify, Redeem, Store, ActivationFailed, At, Locked
<1>2. call[a] \in Call /\ worker # None
  BY <1>0, <1>1, UnderWay
<1>3. \A pc \in CallPC : /\ To(pc) \in Call /\ To(pc).pc = pc
                         /\ To(pc).cred = call[a].cred
  BY <1>2, ToPC DEF Call
<1> HIDE DEF To
<1>4. /\ stored \in Cred \cup {None} /\ identity \in Ident \cup {None}
      /\ linked \in Cred \cup {None} /\ seat \in Ident \cup {None, Other}
      /\ open \in BOOLEAN /\ issued \subseteq Cred
      /\ lock \in Actor \cup {None}
      /\ LinkedHasItsIdentity
      /\ call[a].pc \in Locked => lock = a
      /\ call[a].pc \in {"identify", "redeem", "store"} => stored = None
      /\ At(a, "store") => call[a].cred # None /\ (call[a].cred = linked => identity = seat)
  BY <1>0 DEF IInv, TypeOK, Link, LockHeld, NotYetStored, CarriedIsOurs
<1>5. call[a].pc \in Locked \/ lock \in {None, a} =>
         \A b \in Actor \ {a} : call[b].pc \notin Locked
  BY <1>0, AloneThere
<1> USE <1>0, <1>1, <1>2, <1>4, <1>5, IdleIsCall
    DEF Alone, Locked, LocalOnly, CallPC, Operation, disk, memory, server
<1>6. CASE Activate(a)
  <2>1. PICK pc \in {"spawn", "identify"} :
            Alone(a, To(pc)) /\ (pc = "identify" => stored = None)
    BY <1>3, <1>6 DEF Activate, Goto, To
  <2>2. UNCHANGED <<disk, server>>
    BY <1>6 DEF Activate
  <2>3. LinkedHasItsIdentity'
    BY <2>2 DEF LinkedHasItsIdentity
  <2> QED BY <1>3, <2>1, <2>2, <2>3, AloneStep
<1>7. CASE Identify(a)
  <2> DEFINE c == [Idle EXCEPT !.pc = "redeem", !.fresh = TRUE]
  <2>1. c \in Call /\ c.pc = "redeem"
    BY DEF Idle, Call
  <2>2. At(a, "identify") /\ UNCHANGED <<stored, installed, mode, worker, phase, engine, server>>
    BY <1>7 DEF Identify
  <2>3. stored = None /\ lock = a /\ identity' \in Ident \cup {None}
    BY <1>7, <2>2 DEF Identify, At
  <2>4. Alone(a, To("redeem")) \/ Alone(a, c) \/ Alone(a, Idle)
    BY <1>3, <1>7, <2>1, <2>2, <2>3 DEF Identify, Goto, To, At
  <2>5. LinkedHasItsIdentity'
    BY <2>2, <2>3 DEF LinkedHasItsIdentity
  <2> QED BY <1>3, <2>1, <2>2, <2>3, <2>4, <2>5, AloneStep
<1>8. CASE Redeem(a)
  <2>1. At(a, "redeem") /\ stored = None /\ lock = a /\ UNCHANGED <<disk, memory>>
    BY <1>8 DEF Redeem, At
  <2>2. LinkedHasItsIdentity'
    BY <2>1 DEF LinkedHasItsIdentity
  <2>3. /\ linked' \in Cred \cup {None} /\ seat' \in Ident \cup {None, Other}
        /\ open' \in BOOLEAN /\ issued' \subseteq Cred
    BY <1>8 DEF Redeem, Grant, GrantHalf
  <2>4. CASE Goto(a, "activation_failed")
    <3>1. Alone(a, To("activation_failed"))
      BY <1>3, <2>1, <2>4 DEF Goto, To, At
    <3> QED BY <1>3, <2>1, <2>2, <2>3, <3>1, AloneStep
  <2>5. CASE \E k \in Cred : Grant(k) /\ Become(a, [call[a] EXCEPT !.pc = "store", !.cred = k])
    <3>1. PICK k \in Cred :
              Grant(k) /\ Become(a, [call[a] EXCEPT !.pc = "store", !.cred = k])
      BY <2>5
    <3> DEFINE c == [call[a] EXCEPT !.pc = "store", !.cred = k]
    <3>2. c \in Call /\ c.pc = "store" /\ c.cred = k
      BY DEF Call
    <3>3. Alone(a, c)
      BY <2>1, <3>1, <3>2 DEF At
    <3>4. identity' = seat' /\ k # None
      BY <2>1, <3>1, RuntimeAssumption DEF Grant
    <3> QED BY <2>1, <2>2, <2>3, <3>2, <3>3, <3>4, AloneStep
  <2> QED BY <1>8, <2>4, <2>5 DEF Redeem
<1>9. CASE Store(a)
  <2> DEFINE c == [Idle EXCEPT !.pc = "spawn"]
  <2>1. c \in Call /\ c.pc = "spawn"
    BY DEF Idle, Call
  <2>2. At(a, "store") /\ lock = a /\ stored = None
        /\ UNCHANGED <<identity, installed, mode, worker, phase, engine, server>>
    BY <1>9 DEF Store, At
  <2>3. stored' \in Cred \cup {None} /\ (stored' = None \/ stored' = call[a].cred)
    BY <1>9, <2>2 DEF Store, Call
  <2>4. Alone(a, c) \/ Alone(a, To("activation_failed"))
    BY <1>3, <1>9, <2>1, <2>2 DEF Store, Goto, To, At
  <2>5. LinkedHasItsIdentity'
    BY <2>2, <2>3 DEF LinkedHasItsIdentity
  <2> QED BY <1>3, <2>1, <2>2, <2>3, <2>4, <2>5, AloneStep
<1>10. CASE ActivationFailed(a)
  <2>1. Alone(a, Idle)
    BY <1>10 DEF ActivationFailed, At
  <2>2. stored' = None /\ identity' \in Ident \cup {None} /\ UNCHANGED server
    BY <1>10 DEF ActivationFailed
  <2>3. LinkedHasItsIdentity'
    BY <2>2 DEF LinkedHasItsIdentity
  <2> QED BY <2>1, <2>2, <2>3, AloneStep
<1> QED BY <1>6, <1>7, <1>8, <1>9, <1>10 DEF ActivateStep

\* Nobody starts a preparation while one is under way.
LEMMA SpawnPreserves ==
    ASSUME IInv, NEW a \in Thread, Spawn(a), call'[a].pc = "spawn_start"
    PROVE  IInv'
<1> DEFINE c == [call[a] EXCEPT !.pc = "spawn_start"]
<1>1. a \in Actor /\ ~At(a, "idle")
  BY DEF Actor, Spawn, At
<1>2. call[a] \in Call /\ worker # None
  BY <1>1, UnderWay
<1>3. c \in Call /\ c.pc = "spawn_start"
  BY <1>2, ToPC DEF CallPC
<1>4. ~Alive(worker) /\ Become(a, c) /\ lock' = a /\ lock \in {None, a}
  <2>1. call \in [Actor -> Call]
    BY DEF IInv, TypeOK
  <2>2. ~Become(a, Idle)
    BY <1>1, <2>1, IdleIsCall DEF Become
  <2> QED BY <1>2, <2>2 DEF Spawn, Goto
<1>5. \A w \in Worker : ~Alive(w)
  BY <1>4 DEF IInv, Preparations, WorkerKnown
<1>6. Alone(a, c)
  BY <1>1, <1>2, <1>3, <1>4, <1>5, AloneThere DEF Alone, Locked, LocalOnly, Spawn, disk
<1>7. LinkedHasItsIdentity' /\ UNCHANGED <<disk, server>>
  BY DEF Spawn, IInv, Link, LinkedHasItsIdentity, disk, server
<1> QED BY <1>1, <1>3, <1>6, <1>7, AloneStep DEF IInv, TypeOK, disk, server

LEMMA SpawnStartPreserves ==
    ASSUME IInv, NEW a \in Thread, SpawnStart(a)
    PROVE  IInv'
<1> DEFINE c == [Idle EXCEPT !.pc = "prepare"]
<1>1. c \in Call /\ c.pc = "prepare" /\ c.then = "end"
  BY DEF Idle, Call, CallPC
<1>2. a \in Actor /\ a \notin Worker /\ Worker \subseteq Actor
  BY RuntimeAssumption DEF Actor
<1>3. PICK w \in Worker : /\ worker' = w
                          /\ call' = [call EXCEPT ![a] = Idle, ![w] = c]
  BY DEF SpawnStart
<1>4. /\ At(a, "spawn_start") /\ lock' = None
      /\ UNCHANGED <<disk, mode, phase, engine, server>>
  BY DEF SpawnStart
<1>5. /\ call' \in [Actor -> Call] /\ call'[a] = Idle /\ call'[w] = c
      /\ \A b \in Actor : b # a /\ b # w => call'[b] = call[b]
  BY <1>1, <1>2, <1>3, IdleIsCall DEF IInv, TypeOK
<1>6. (\A b \in Actor \ {a} : call[b].pc \notin Locked) /\ (\A v \in Worker : ~Alive(v))
  BY <1>2, <1>4, AloneThere DEF IInv, Preparations, SpawnAlone, Locked, At
<1>7. \A b \in Actor : call'[b].pc \notin Locked
  BY <1>1, <1>5, <1>6, IdleIsCall DEF Locked
<1>8. TypeOK'
  BY <1>3, <1>4, <1>5 DEF IInv, TypeOK, disk, server
<1>9. Preparations'
  <2>1. WorkersPrepare'
    BY <1>1, <1>2, <1>5 DEF IInv, Preparations, WorkersPrepare, Preparing
  <2>2. WorkerKnown'
    BY <1>2, <1>3, <1>5, <1>6 DEF WorkerKnown, Alive
  <2>3. SpawnAlone'
    BY <1>7 DEF SpawnAlone, At, Locked
  <2>4. StartUpAlone'
    BY <1>2, <1>3, RuntimeAssumption DEF StartUpAlone
  <2> QED BY <2>1, <2>2, <2>3, <2>4 DEF Preparations
<1>10. Link'
  <2>1. LockHeld' /\ NotYetStored' /\ CarriedIsOurs'
    BY <1>7 DEF LockHeld, NotYetStored, CarriedIsOurs, At, Locked
  <2>2. LinkedHasItsIdentity'
    BY <1>4 DEF IInv, Link, LinkedHasItsIdentity, disk, server
  <2> QED BY <2>1, <2>2 DEF Link
<1>11. Modes'
  BY <1>1, <1>4, <1>5, IdleIsCall
     DEF IInv, Modes, LocalSteps, NoEngineElsewhere, LocalOnly
<1> QED BY <1>8, <1>9, <1>10, <1>11 DEF IInv

-----------------------------------------------------------------------------
(* Start-up and what happens around the program.                           *)

LEMMA BootPreserves ==
    ASSUME IInv, Boot
    PROVE  IInv'
<1> DEFINE c == [Idle EXCEPT !.pc = "prepare"]
<1>1. c \in Call /\ c.pc = "prepare" /\ c.then = "end"
  BY DEF Idle, Call, CallPC
<1>2. PICK w \in Worker : worker' = w /\ call' = [call EXCEPT ![w] = c]
  BY DEF Boot, Become
<1>3. w \in Actor /\ Worker \subseteq Actor /\ \A b \in Actor : call[b].pc = "idle"
  BY DEF Boot, IInv, Preparations, StartUpAlone, Actor, At
<1>4. UNCHANGED <<disk, mode, lock, phase, engine, server>>
  BY DEF Boot
<1>5. /\ call' \in [Actor -> Call] /\ call'[w] = c
      /\ \A b \in Actor : b # w => call'[b] = call[b]
  BY <1>1, <1>2, <1>3 DEF IInv, TypeOK
<1>6. \A b \in Actor : call'[b].pc \in {"idle", "prepare"}
  BY <1>1, <1>3, <1>5
<1>7. TypeOK'
  BY <1>2, <1>4, <1>5 DEF IInv, TypeOK, disk, server
<1>8. Preparations'
  <2>1. WorkersPrepare'
    BY <1>1, <1>3, <1>5, <1>6 DEF IInv, Preparations, WorkersPrepare, Preparing
  <2>2. WorkerKnown'
    BY <1>2, <1>3, <1>5 DEF WorkerKnown, Alive
  <2>3. SpawnAlone'
    BY <1>6 DEF SpawnAlone, At
  <2>4. StartUpAlone'
    BY <1>2, <1>3, RuntimeAssumption DEF StartUpAlone
  <2> QED BY <2>1, <2>2, <2>3, <2>4 DEF Preparations
<1>9. Link'
  <2>1. LockHeld' /\ NotYetStored' /\ CarriedIsOurs'
    BY <1>6 DEF LockHeld, NotYetStored, CarriedIsOurs, At, Locked
  <2>2. LinkedHasItsIdentity'
    BY <1>4 DEF IInv, Link, LinkedHasItsIdentity, disk, server
  <2> QED BY <2>1, <2>2 DEF Link
<1>10. Modes'
  BY <1>4, <1>6 DEF IInv, Modes, LocalSteps, NoEngineElsewhere, LocalOnly
<1> QED BY <1>7, <1>8, <1>9, <1>10 DEF IInv

\* Where nothing is under way, the files, the mode and the server are all there is.
LEMMA Quiescent ==
    ASSUME call = [a \in Actor |-> Idle], LinkedHasItsIdentity, NoEngineElsewhere
    PROVE  Preparations /\ Link /\ Modes
<1>1. \A a \in Actor : call[a] = Idle
  OBVIOUS
<1>2. Worker \subseteq Actor
  BY DEF Actor
<1>3. Preparations
  BY <1>1, <1>2, IdleIsCall
     DEF Preparations, WorkersPrepare, WorkerKnown, SpawnAlone, StartUpAlone, Preparing,
         Alive, At
<1>4. Link
  BY <1>1, IdleIsCall DEF Link, LockHeld, NotYetStored, CarriedIsOurs, Locked, At
<1>5. Modes
  BY <1>1, IdleIsCall DEF Modes, LocalSteps, LocalOnly
<1> QED BY <1>3, <1>4, <1>5

LEMMA ModesAreModes == \A busy \in PortBusy : ModesAt(busy) \subseteq Mode
  BY RuntimeAssumption DEF ModesAt, Mode

LEMMA InitInv == Init => IInv
<1> SUFFICES ASSUME Init PROVE IInv
  OBVIOUS
<1>1. TypeOK
  BY ModesAreModes, IdleIsCall DEF Init, TypeOK, Phase
<1>2. LinkedHasItsIdentity /\ NoEngineElsewhere
  BY DEF Init, LinkedHasItsIdentity, NoEngineElsewhere
<1> QED BY <1>1, <1>2, Quiescent DEF IInv, Init

LEMMA EnvironmentPreserves ==
    ASSUME IInv, Environment
    PROVE  IInv'
<1> USE DEF disk, memory, server
<1>1. CASE EngineDies
  <2>1. TypeOK'
    BY <1>1 DEF EngineDies, IInv, TypeOK
  <2>2. Preparations' /\ Link'
    BY <1>1 DEF EngineDies, IInv, Preparations, WorkersPrepare, WorkerKnown, SpawnAlone,
                StartUpAlone, Link, LockHeld, NotYetStored, CarriedIsOurs,
                LinkedHasItsIdentity, Alive, At
  <2>3. Modes'
    BY <1>1 DEF EngineDies, IInv, Modes, LocalSteps, NoEngineElsewhere
  <2> QED BY <2>1, <2>2, <2>3 DEF IInv
<1>2. CASE SeatTaken \/ SeatFreed \/ SubscriptionChanges
  <2>1. UNCHANGED <<disk, memory, call>>
    BY <1>2 DEF SeatTaken, SeatFreed, SubscriptionChanges
  <2>2. TypeOK'
    BY <1>2, <2>1 DEF SeatTaken, SeatFreed, SubscriptionChanges, IInv, TypeOK
  <2>3. Preparations' /\ Modes'
    BY <2>1 DEF IInv, Preparations, WorkersPrepare, WorkerKnown, SpawnAlone, StartUpAlone,
                Modes, LocalSteps, NoEngineElsewhere, Alive, At
  <2>4. LockHeld' /\ NotYetStored'
    BY <2>1 DEF IInv, Link, LockHeld, NotYetStored
  <2>5. \/ linked' = None
        \/ linked' = linked /\ seat = Other
        \/ linked' = linked /\ seat' = seat
    BY <1>2 DEF SeatTaken, SeatFreed, SubscriptionChanges
  <2>6. identity # Other
    BY RuntimeAssumption DEF IInv, TypeOK
  <2>7. CarriedIsOurs' /\ LinkedHasItsIdentity'
    BY <2>1, <2>5, <2>6 DEF IInv, Link, CarriedIsOurs, LinkedHasItsIdentity, At
  <2> QED BY <2>2, <2>3, <2>4, <2>7 DEF IInv, Link
<1>3. CASE Reboot
  <2>1. TypeOK'
    BY <1>3, ModesAreModes, IdleIsCall DEF Reboot, IInv, TypeOK, Phase
  <2>2. call' = [a \in Actor |-> Idle]
    BY <1>3 DEF Reboot
  <2>3. \A a \in Actor : call'[a] = Idle
    BY <2>2
  <2>4. Worker \subseteq Actor
    BY DEF Actor
  <2>5. Preparations'
    BY <2>3, <2>4, IdleIsCall
       DEF Preparations, WorkersPrepare, WorkerKnown, SpawnAlone, StartUpAlone, Preparing,
           Alive, At
  <2>6. Link'
    BY <1>3, <2>3, IdleIsCall
       DEF Reboot, IInv, Link, LockHeld, NotYetStored, CarriedIsOurs, LinkedHasItsIdentity,
           Locked, At
  <2>7. Modes'
    BY <1>3, <2>3, IdleIsCall DEF Reboot, Modes, LocalSteps, LocalOnly, NoEngineElsewhere
  <2> QED BY <2>1, <2>5, <2>6, <2>7 DEF IInv
<1> QED BY <1>1, <1>2, <1>3 DEF Environment

-----------------------------------------------------------------------------
(* The theorems.                                                           *)

LEMMA NextInv == IInv /\ [Next]_vars => IInv'
<1> SUFFICES ASSUME IInv, [Next]_vars PROVE IInv'
  OBVIOUS
<1>1. CASE UNCHANGED vars
  BY <1>1 DEF vars, disk, memory, server, IInv, TypeOK, Preparations, WorkersPrepare,
              WorkerKnown, SpawnAlone, StartUpAlone, Link, LockHeld, NotYetStored,
              CarriedIsOurs, LinkedHasItsIdentity, Modes, LocalSteps, NoEngineElsewhere,
              Alive, At
<1>2. CASE Boot
  BY <1>2, BootPreserves
<1>3. ASSUME NEW t \in Thread, Begin(t) PROVE IInv'
  <2>1. LeavesTheLock(t)
    BY <1>3 DEF LeavesTheLock
  <2> QED BY <2>1, ApiPreserves
<1>4. ASSUME NEW a \in Actor, Step(a) PROVE IInv'
  <2>1. CASE RefreshStep(a)
    BY <2>1, RefreshPreserves
  <2>2. CASE EngineStep(a)
    BY <2>2, EnginePreserves
  <2>3. CASE a \in Worker /\ PrepareStep(a)
    BY <2>3, PreparePreserves
  <2>4. CASE a \in Thread /\ ActivateStep(a)
    BY <2>4, ActivatePreserves
  <2>5. CASE a \in Thread /\ ChatStep(a)
    BY <2>5, ChatPreserves
  <2>6. CASE a \in Thread /\ ApiStep(a)
    <3>1. CASE Spawn(a) /\ call'[a].pc = "spawn_start"
      BY <2>6, <3>1, SpawnPreserves
    <3>2. CASE SpawnStart(a)
      BY <2>6, <3>2, SpawnStartPreserves
    <3>3. CASE LeavesTheLock(a)
      BY <2>6, <3>3, ApiPreserves
    <3> QED BY <2>6, <3>1, <3>2, <3>3 DEF ApiStep, LeavesTheLock
  <2> QED BY <1>4, <2>1, <2>2, <2>3, <2>4, <2>5, <2>6 DEF Step
<1>5. CASE Environment
  BY <1>5, EnvironmentPreserves
<1> QED BY <1>1, <1>2, <1>3, <1>4, <1>5 DEF Next

\* The invariant that the properties of service.py below follow from.
THEOREM RuntimeInvariant == Spec => []IInv
  BY InitInv, NextInv, PTL DEF Spec

\* Every variable of the Runtime keeps to its type.
THEOREM RuntimeTyped == Spec => []TypeOK
<1>1. IInv => TypeOK
  BY DEF IInv
<1> QED BY <1>1, RuntimeInvariant, PTL

\* start_background_preparation() never has two preparations under way, for any
\* number of threads that call it, of repeated activations and of restarts.
THEOREM OneWorkerHolds == Spec => []OneWorker
<1>1. IInv => OneWorker
  BY DEF IInv, Preparations, WorkerKnown, OneWorker
<1> QED BY <1>1, RuntimeInvariant, PTL

\* A device whose stored credential the server accepts has the identity it was
\* linked by, however the activations of its threads overlap, fail and are cut short.
THEOREM LinkedHasItsIdentityHolds == Spec => []LinkedHasItsIdentity
<1>1. IInv => LinkedHasItsIdentity
  BY DEF IInv, Link
<1> QED BY <1>1, RuntimeInvariant, PTL

\* Cloud and demo mode run no engine and download nothing, whatever is asked.
THEOREM NoEngineElsewhereHolds == Spec => []NoEngineElsewhere
<1>1. IInv => NoEngineElsewhere
  BY DEF IInv, Modes
<1> QED BY <1>1, RuntimeInvariant, PTL

\* Only credentials.store() writes a credential, and it finds none there.
LEMMA OnlyStoreWrites ==
    ASSUME IInv, [Next]_vars
    PROVE  stored # None /\ stored' # None => stored' = stored
<1> USE DEF disk, memory, server
<1>1. CASE UNCHANGED vars
  BY <1>1 DEF vars
<1>2. CASE Boot
  BY <1>2 DEF Boot
<1>3. CASE \E t \in Thread : Begin(t)
  BY <1>3 DEF Begin
<1>4. ASSUME NEW a \in Actor, Step(a)
      PROVE  stored # None /\ stored' # None => stored' = stored
  <2>1. CASE RefreshStep(a)
    BY <2>1 DEF RefreshStep, Refresh, Unlinked, AskOffline, AskError, AskAnswered, DenySet,
                DenyStopLast, DenyStop, DenySetLast, Forget, ForgetStop, ForgetSet, SetPhase
  <2>2. CASE EngineStep(a)
    BY <2>2 DEF EngineStep, CheckModel, SetStarting, Launch, AwaitEngine, SetStartingDemo,
                Probe, SetReady, SetError, SetMissing, SetPhase, SetPhaseAndEnd
  <2>3. CASE PrepareStep(a)
    BY <2>3 DEF PrepareStep, Prepare, PrepareMode, ReadForModel, SetDownloading, AskModel,
                Download, SetVerifying, SetPhase
  <2>4. CASE ActivateStep(a)
    <3>1. CASE Store(a)
      BY <3>1 DEF Store, At, IInv, Link, NotYetStored
    <3> QED BY <2>4, <3>1 DEF ActivateStep, Activate, Identify, Redeem, ActivationFailed
  <2>5. CASE ChatStep(a)
    BY <2>5 DEF ChatStep, Chat, ChatLinked, ChatRead, ChatAsk, ChatDenied, SetPhaseAndEnd
  <2>6. CASE ApiStep(a)
    BY <2>6 DEF ApiStep, Recheck, StartDownload, Spawn, SpawnStart, StartModel, StopModel,
                RestartModel
  <2> QED BY <1>4, <2>1, <2>2, <2>3, <2>4, <2>5, <2>6 DEF Step
<1>5. CASE Environment
  BY <1>5 DEF Environment, EngineDies, SeatTaken, SeatFreed, SubscriptionChanges, Reboot
<1> QED BY <1>1, <1>2, <1>3, <1>4, <1>5 DEF Next

\* No activation replaces the credential that another one has stored.
THEOREM StoredNotReplacedHolds == Spec => StoredNotReplaced
<1>1. IInv /\ [Next]_vars => [stored # None /\ stored' # None => stored' = stored]_vars
  BY OnlyStoreWrites
<1> QED BY <1>1, RuntimeInvariant, PTL DEF Spec, StoredNotReplaced
=============================================================================
