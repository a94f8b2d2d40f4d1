# A verification project for GovMind

GovMind gives a government office an AI assistant on one licensed computer.
A browser extension signs the user in and installs a desktop *Runtime*; the
Runtime is linked to the office's subscription by a *backend* (FastAPI over
Supabase/PostgreSQL), downloads a model, runs `llama.cpp` and serves a local
window. The repository is under `src/`; this directory holds TLA+ modules
translated from it, the TLC configurations that check them, and proofs checked
by TLAPS. `NNNN:a-b` below are lines of `src/database/supabase/NNNN_*.sql`.

## 1. Inventory

| Part | State | Operations | Interacts with | What is hard | What makes it correct | Model |
|---|---|---|---|---|---|---|
| **Device registry** (`0002`, `0004`, `0005`, `entitlement_service`, `installation_session_service`, `device_credential_service`, `api/runtime`, `api/entitlements`) | installation sessions (one-time tokens), device activations, device credentials | issue a token, redeem it, issue/rotate a credential, activate directly, replace, revoke, authenticate, purge | every handler runs SQL functions over shared rows | READ COMMITTED interleavings, row locks taken in different orders, two transactions per activation, lost answers | one active device per subscription; a token buys one activation; a credential dies with its device; revocation is final; an answer was true at some moment of its call | `DeviceRegistry` |
| **Runtime link and lifecycle** (`runtime/govmind_runtime/service.py`, `state.py`, `control_plane.py`, `identity.py`, `main.py`) | device identity, credential file, phase, entitlement, worker thread | activate, refresh, download, start, stop, chat, prepare, shutdown | backend over HTTP, model store, supervisor, local API threads | concurrent callers, answers that arrive after the state moved on, crash between an answer and its save | a device whose stored credential the server accepts keeps its identity; a denial ends the engine | `RuntimeService` |
| **llama.cpp supervisor** (`llama_supervisor.py`) | child process, phase | start, stop, restart, health | child process, threads of the Runtime | start/stop races, death during loading | one child at a time; `stop` leaves none | `LlamaSupervisor` |
| **Model store** (`model_store.py`) | partial file, model file, cancel flag | download with resume, verify, install, cancel | artifact server, disk | interrupted streams, resume against a changed artifact, crash during hashing | only a verified model is installed | `ModelStore` |
| **Directory**: organizations, users, subscriptions (`directory_service`, `subscription_service`, `user_store`, `organization_settings_store`, `database/users`, `supabase_stores`, `api/users`, `api/organizations`, `api/dependencies`, `auth_service`) | organizations, accounts, subscriptions, access tokens | log in, create, update and disable accounts, rename and provision an organization, edit its subscription | three stores, the audit log | every request is a chain of store calls that read and decide before they write | addresses and slugs are one's; a licence is not exceeded by more than the race; an organization keeps an administrator; tenants are apart | `DirectoryStores`, `Directory` |
| **Registration** (`0003`, `registration_service`, `supabase_auth`) | auth identity, profile, workspace | create the identity, `register_organization`, undo, sign in | Supabase Auth and the database over HTTP | a saga with a compensating delete over a lossy link | no address is kept by an account without a workspace; what was committed stays | `Registration` |
| **Signing keys** (`supabase_jwks`, `supabase_auth`) | key cache, two time stamps, a lock | verify a token | Supabase JWKS | rotation of keys against a cache, a clock that is read before the lock | a retired key dies, a new one is learned | `SigningKeys` |
| **Workspace**: conversations, chat, files, retrieval, audit (`conversation_*`, `chat_service`, `file_*`, `document_service`, `rag_service`, `retrieval`, `audit_*`, their `api` and `database` modules, `supabase_stores`) | conversations, messages, file records, files on disk, chunks, log | create, rename, delete, ask; upload, index, delete, search; read | three stores, the disk, two chunk stores, the model | chains of calls over stores without a common transaction; a failure or a restart between two | exchanges are whole; a conversation is its owner's; a record leads to its file and to its chunks | `WorkspaceStores`, `Workspace` |
| **Runtime conversations** (`conversations.py`) | one JSON file under one lock | list, add, delete | the local API | a damaged file | nothing lost | - |
| **Extension** (`popup.js`, `lib/*`), **frontend**, **installer**, **settings**, **schemas** | pages and a stored step, view state, signed links, single rows | - | backend, Runtime | little | - | - |

## 2. Order of work and what composes what

1. `DeviceRegistry`; `AuthWindow` extends it with what was true during each
   authentication; `DeviceLicence` is the promise and `RegistryLicence` the
   refinement.
2. `LlamaSupervisor`, `ModelStore`, `RuntimeService`. In `RuntimeService` the
   register appears as what `DeviceLicence` promises, the supervisor as
   "holds a child", the store as a download that ends one way or the other.
3. `Directory` over `DirectoryStores`, `Workspace` over `WorkspaceStores`: the
   stores of the three modes are operators, the services and routes are the
   actions that call them. `Accounts` composes `Registration` and `SigningKeys`,
   the two parts of signing in with Supabase.
4. Proofs beside each: see section 6. Every safety and action property that a run
   checks has its theorem, and so has the refinement; liveness stays with TLC.

## 3. Modules and code

| Module | Models | Correspondence |
|---|---|---|
| `DeviceRegistry` | the register and its handlers | One action per SQL statement (or per group of statements that lock nothing new). `session`, `activation`, `credential` and the subscription are the rows; `req[r]` is a handler: its program counter is the next statement, its fields are the locals of the PL/pgSQL function. `Locks…` say which rows a transaction holds at each counter; a statement waits while another holds them. `Abort`, `DeadlockVictim` roll a transaction back. Python-side reads (`DirectRead`, `RevokeRead`, `ReplaceCheck`) are steps of their own because they commit on their own. |
| `AuthWindow` | `DeviceRegistry` and what was true during each authentication | History variables only: `Linked`, `Serves` are the conditions of `authenticate_device_credential`. |
| `DeviceLicence` | the promise: one device per subscription, one credential per device | Abstract: a device claims the seat, replaces the one in it or leaves it; a key is issued to the device in the seat. |
| `RegistryLicence` | `DeviceRegistry` implements `DeviceLicence` | `ImplementsLicence`: the mapping reads the committed rows, so a replacement under way still shows the old device. |
| `LlamaSupervisor` | `llama_supervisor.py` | One action per stretch of `start`, `stop`, `restart` between two points where another thread may run. `process`, `port`, `lock` are the fields; `proc` is the operating system's view of each child; `job` the kill-on-close job; `refused` remembers what the system refused to do to a child, put it into the job or end it, which the code does not notice or swallows. |
| `RuntimeService` | `service.py` with the parts of `api.py`, `main.py`, `identity.py`, `control_plane.py` and `state.py` it calls | A step per access to the credential, the phase, the engine or the server. `lock` is `self._lock`; `worker` is `self._worker`; `seat`, `linked`, `open` are what the backend knows of the account. |
| `ModelStore` | `model_store.py` | `part`, `model` are the two files as sequences of chunks, each known by the version it was served from; `blob` is the vendor's file and `announced` the size and hash the backend gives. |
| `DirectoryStores` | the stores of organizations, users and subscriptions | One operator per method and store: `Memory…` runs under the class lock, `Oracle…` is one statement that a unique index may undo, `Supabase…` is one PostgREST call. A refused write is a guard that fails. |
| `Directory` | login, the dependency that resolves the caller, the services and the routes of users, organizations and subscriptions | One action per store call, with the rules decided on what it returned; `req[r]` holds what the handler still needs. `CallFails` is a call that failed before its commit, or after it: then the next call never comes. |
| `Registration` | `registration_service.register`, `register_organization` (`0003`) and login | One action per HTTP call. `call[r].lost` is a commit whose reply did not arrive; `project` is how Supabase Auth is set up: no confirmation of addresses, confirmation, or confirmation with the same id for a repeated request. |
| `SigningKeys` | `_Cache` of `supabase_jwks.py` and its use | The lock is held by the thread that fetches. A fetch is three steps: asked, answered with what is published then, received or failed. `Expired` compares with the time the request read before it waited for the lock. |
| `Accounts` | the two, side by side | The specification that is checked and proved; the two share nothing. |
| `WorkspaceStores` | the stores of conversations, messages, file records, chunks and the log | As `DirectoryStores`; foreign keys and their `ON DELETE` are part of the write that sets them off. Oracle's transaction over the two messages of an exchange is three steps: a row, the other row, the commit (`Settle`). A row stands in `messages` from its insert, in the order of its id and time, and is `open`, then `kept` or `undone`; only what is kept is read (`Committed`), and a deletion of the conversation waits for open rows (`Settled`). |
| `Workspace` | the services and routes of conversations, chat, files, retrieval and audit | One action per store, disk or model call. `shown` is whose data an answer holds. `add_file` is a coroutine that calls a blocking service, so while an upload runs nobody else's request begins (`LoopIsFree`), but those begun go on. |
| `MC…` | small instances | Symmetry, values, and `MCDeployments`: which store is in use and which routes are called together. |
| `…Proofs` | theorems | Section 6. |

Operators marked *Mutant* beside an action are deliberately broken variants of
it, each the form a plausible bug would take; no specification uses them. They
show that the property they are listed with in `PROJECT.json` can fail.

## 4. Runs

| Run | Asks | Answer |
|---|---|---|
| `registry_safety` | two requests of any kind, one subscription, two devices, one token: the seat and how it is handed over, the credentials, revocation, and the refinement | holds |
| `registry_tokens` | two tokens and one device, so that the same device is activated twice and its credential rotated while it authenticates: one credential, no token burned twice or for nothing, every answer true at some moment of its call | holds |
| `registry_liveness` | is every request answered, although statements lock rows in opposite orders? | holds |
| `supervisor` | two threads, two children, and a system that may refuse to bind a child to the job or to end it: no orphan but a child that could not be ended, the address is ours, the Runtime's death takes every child it bound, `stop` returns and its child dies | holds |
| `runtime_link` | two API threads and the preparations activate, refresh and recheck; the device is replaced, replies are lost, the Runtime restarts | holds |
| `runtime_liveness` | local mode with the entitlement thread: refused credentials are forgotten, calls return unless they are in a `start()` that hangs, a closed subscription ends the engine | holds |
| `runtime_modes` | every operation in every mode, restarts included: only local mode runs an engine or downloads | holds |
| `runtime_stale_refusal` | is only a refused credential erased? | **violated** (section 5) |
| `model_store` | two versions of two and three chunks, resumed, cancelled, crashed and replaced | holds |
| `directory` | two requests at once over each of the three stores: are addresses and slugs unique, by how much can a licence be exceeded, when does the last administrator go, are tenants apart? | holds |
| `accounts` | two registrations at once in three kinds of projects, with lost replies and failed deletions; two requests at the key cache while keys are published and retired | holds |
| `workspace` | two requests at once over each pair of stores, with calls that fail and a restart: exchanges, privacy, records and chunks | holds |

**Bounds.** The sets in the `.cfg` files bound rows, devices, tokens,
credentials, requests, threads, children, secrets and versions. Each property
speaks of two things at most (two devices in one seat, two valid credentials of
one device, two preparations, one forgotten child besides the held one, two
accounts with one address), and each race needs two actors; every instance has
both. `ActIds`, `Creds`, `Tokens`, `UserIds`, `Ids`, `Conversations`, `Files` and `Paths`
are supplies of new rows: a behaviour that would need another row stops there,
which removes no shorter behaviour. One installation token is
enough for the seat, so the rotation of a credential, which takes a second
activation of one device, has an instance with two tokens and one device. Files
of two and three chunks give the three cases a resume distinguishes: shorter than,
equal to and longer than the other version. `Cred` in `RuntimeService` has two
elements in the runs where an old credential meets a new one.

`Directory` starts from the seed data: one organization with an administrator
and a colleague whose account may be disabled, and one or two seats; two more accounts
can be made, and one organization. Seats of one and two put the licence at its limit at once.
`Deployments` says for each store which routes are called together, those that
meet in the same rows; a request of another route reads or writes none of them.
`LastDay = 2` lets the first subscription expire.
`SigningKeys` has a cache age of 3, a pause of 2 and a fetch of at most 1: the age
is longer than the pause, as 3600 s is than 30 s, and a fetch can outlast the rest of
either; the proofs are for every length. `Workspace` has two accounts of one organization and one of another,
two conversations, two files and two paths; no exchange is begun in a conversation
with more than one message (`MaxMessages`), which leaves two at once, and the process is restarted once.

Sets in
`SYMMETRY` are used symmetrically by every definition; the `CHOOSE`s of the
refinement mapping pick from sets of at most one element. No run with a
liveness property uses symmetry. The runs `directory`, `accounts` and `workspace` do not check for deadlock:
their supplies of ids, or of time, end, and with them the behaviours.

**Time.** PostgreSQL's `now()` is the start of the transaction. The model lets
a token or a subscription expire between any two statements and evaluates the
clock at each of them, which allows more than the database does. A date is the step that
passes it (`TokenExpires`, `SubscriptionClock`); the operator may renew, suspend or
reschedule a subscription at any time (`SubscriptionUpdated`). `Directory` counts
days. `SigningKeys` has a clock that advances only while every thread waits for
the network or for the lock: what a thread does by itself takes no time.

**Fairness**, and why the code justifies it:

- *Register*: strong fairness per request, since PostgreSQL's lock queues are
  first come, first served; a deadlock's victim is chosen in finite time
  (`deadlock_timeout`).
- *Supervisor*: a thread runs on when it can (weak); a lock is granted to a thread
  that asks again and again (strong); a process that was killed dies. A
  child need not load, die or obey `terminate`. `WaitFails` is strong because each
  pass of the loop is bounded by the deadline. `ReadStderr` ends when its child does.
- *Runtime*: start-up begins its preparation (`Boot`); threads run on; the lock reaches its waiters; the entitlement thread
  comes back every hour (`Begin` of `Loop`); a server asked again and again
  answers at last; the Runtime is not restarted for ever. A call that waits for its
  engine inside `start()` (`AwaitEngine`) gets no fairness, since `start()` can hang:
  `CallsReturn` is about all other calls, those that wait for `self._lock` among them,
  and the other liveness properties hold whether `start()` comes back or not.
- *Model store*: nothing is promised before the world has settled (`Settle`: no
  more cancels, crashes, uploads, and the backend announces what is behind
  the link). After it, a download that is begun again and again finds room, is
  answered and gets a chunk. The retry itself is the user's or the start-up's.
- *Directory, Accounts, Workspace*: safety only. A request is a chain of calls
  without a wait or a retry: every promise worth making is about what it leaves behind.
  `LiveKeyIsLearned`, which sounds like progress, is a bound on time, and so safety.

## 5. What the runs found

**A refusal of the old credential erases the new one** (`service.py:211`):
`_forget_credential` neither locks nor compares. `runtime_stale_refusal` shows
a refresh with the old credential that is answered 401 after a new activation
has stored its own.

Observations made while modelling: behaviours of the model that no listed run
states as a property, because no property about them holds.

*Register and Runtime*

- authentication reads three rows at three times (`0005:289-320`), where the
  comments promise one statement without a window (`0005:236`,
  `device_credential_service.py:113-116`). What does hold is checked: `AnswersWereTrue`;
- two concurrent activations of one device: the second is told that *another*
  device holds the seat (`entitlement_service.py:424`, docstring 392-394);
- `start()` can hang (`llama_supervisor.py:318`, docstring 287): past the deadline it reads
  the standard error of a living child to its end, and the `stop()` that would
  end the child comes after;
- a child that the system refuses to put into the job object runs on without it, and
  nobody is told (`llama_supervisor.py:103`, `111-119`): it then outlives a Runtime that dies;
  and when `terminate()` or `kill()` raises, `stop()` returns with the child let go of and
  running (`353-354`, docstring 331-332);
- a second `start()` returns the address of a child that still loads
  (`llama_supervisor.py:244`, docstring 238);
- a linked device may stay unprepared (`service.py:278`, `705`): an activation finds a
  preparation alive that has already decided to end;
- when the reply to a granted activation is lost, a freshly made identity is
  deleted although the seat is bound to it, and the next attempt is a second device
  (`service.py:262`, docstring 226-227);
- a launch under way sets READY over the BLOCKED of a denial (`service.py:450`, comment
  667-668); the next hourly check stops the engine again, which is what
  `DenialStopsEngine` shows;
- any error answer of the server, a 500 included, blocks the Runtime
  (`service.py:338`, `state.py:35`), and after a renewal a usable answer leaves
  BLOCKED in place until a preparation runs (`service.py:351`);
- on a busy port `chat_mode` is dropped from the configuration (`main.py:118`), so
  a cloud installation becomes a local one;
- a complete partial file left by a crash during hashing meets a 416 and is deleted
  (`model_store.py:216-222`): the model still arrives, by a second download;
- a conversation file that cannot be read is taken for an empty list
  (`conversations.py:145`), and the next write replaces it.

*Directory and registration*

- provisioning checks the address before it creates the organization "so that no
  organization is left without an administrator" (`directory_service.py:68-69`), but the address may be taken in
  between, and in Supabase mode `create_user` is refused whatever it is given: the
  organization stays, and so does its slug (`directory_service.py:78`);
- an edit of a subscription writes back the fields it was not given as it read
  them (`subscription_service.py:151`): of two edits at once the later undoes the earlier, against
  "fields left empty do not change" (128);
- the free seat is looked for in one call and taken in another (`directory_service.py:208`, `269`): the
  licence can be exceeded by as many seats as requests overlap (`SeatOverrunIsBounded`), and stays exceeded;
- two administrators who disable each other leave nobody (`directory_service.py:299`);
- in a project that repeats the id of an unconfirmed account, the compensation of one
  registration can delete the account of another (`registration_service.py:286`); `RegisteredIsKept` excludes
  that setting and names why;
- the organization of a registration that was undone after a lost reply stays without an owner.

*Workspace*

- Supabase gets the two messages of an exchange one by one (`supabase_stores.py:669`), so that a cut leaves a
  question without its answer, which `conversation_service.py:183-186`,
  `conversation_store.py:137-138` and `api/chat.py:89` say must not be;
- Oracle commits the two messages together, but gives each row its id and its time when it
  is inserted (`database/conversations.py:80-83`, `322-332`): nothing keeps two exchanges recorded at
  once from standing question, question, answer, answer. The comment at `91-93` speaks of one exchange
  only;
- the enum `file_status` of Supabase has no `processed` (`file_service.py:145`): every upload
  that was indexed is answered with an error, with its file, record and chunks in place;
- the comment that deleting the record takes the chunks with it (`file_service.py:263-264`) is
  true of Oracle's chunk store with Oracle's files only; elsewhere a chunk store that is out of
  order leaves chunks without a file;
- the disk's copy is removed last "since a record without a file is better than
  a file without a record" (`file_service.py:271`), which is what the other order would give;
- the memory chunk store is lost at a restart while the records go on saying `processed`;
- an upload runs in a coroutine and blocks the event loop (`api/files.py:84`).

## 6. Proofs

All theorems are for every value of the constants that satisfies the named
assumptions. They are safety theorems, by induction over the steps.

- **`DeviceRegistryProofs`**: `Inv` is inductive: `TypeOK`, `RowsOK` (a row that
  exists has its parent) and `LocalsOK` (what a request at each statement has in
  hand exists). The types alone are not inductive: a statement that follows an id
  needs to know that the id is not null. `TypeCorrect` and `InvHolds` follow.
  `SeatInv` adds `LocksExclusive`, `OneActiveDevice`,
  `ReplacementSeesTheSeat`, `IssuedToActive`, `CredentialNeedsActiveDevice` and
  `OneCredentialPerDevice`. They need each other: a replacement may insert because the
  row it read is still the seat's, which holds because the subscription is locked;
  a credential is issued to an active device because the issuing transaction holds the
  activation's lock from its check to its insert; and one credential is left because the
  same lock excludes a second issue. `RevocationIsFinal` and
  `ReplacementKeepsTheSeat` follow step by step, and `SeatIsHandedOver` from the three.
- **`RegistrySafetyProofs`** rests on both. *Tokens*: `TokenInv` says that a redemption holds an
  unspent token's row until it burns it, and that whoever has something to show for a token
  finds it spent; only `RedeemBurn` and `RedeemInsert` spend one (`SessionWrites`), and each leaves the
  activation that was paid for (`BurnPays`): `TokenBuysActivation`. *Refinement*: the
  mapping picks the device and the credential with `CHOOSE`; `OneActiveDevice` and
  `OneCredentialPerDevice` make the choice the only one (`HolderIs`, `KeyIs`, and the same after a
  step), so that each statement of the register is one step of the licence or a stutter
  (`ActImplements`): an insertion claims the seat, a revocation leaves it, the commit of a
  replacement hands it over, a rotation issues a key, and everything else leaves both maps alone.
  *Answers*: `WindowInv` says what a call has seen by the time it is at each statement; the step that
  carries it is that a credential once dead stays dead, so that a strict call that is asked again
  for a dead credential cannot be served the second time.
- **`LlamaSupervisorProofs`**: `IInv` is `TypeOK`, `CallsTyped` (a call that polls or
  stops a child has one), `LockHeld` (between the launch and the binding the lock is the
  launching thread's and the process is its child), `PortKnown` (while the lock is free,
  a held process has its port), `NoOrphan` and `AddressIsOurs`. `NoOrphan` alone is not
  inductive: a launch must know that no child runs unseen, which the lock gives.
  `DeathTakesTheChild` follows step by step from `Bound`: where there is a job, every child
  that runs is in it, is at its launch, or was refused (`refused`).
- **`ModelStoreProofs`**: `IInv` is `TypeOK`, `Opened` (the partial file exists while
  it is written, resumed or checked), `Checked` (past the hash it is the whole version asked
  for) and `InstalledIsWhole`. `ProgressIsKept` follows step by step: what a step takes from
  the partial file it takes for one of the reasons the property names.
- **`RuntimeServiceProofs`**: `IInv` is `TypeOK`, `Preparations`, `Link` and `Modes`.
  `Link` says that whoever is between the look at the credential and its storing holds
  the lock, found none stored, and carries a credential issued to the identity on disk;
  without it an activation that fails could erase the identity of another that succeeded.
  `Preparations` says that a preparation under way is the one `self._worker` names, that
  whoever is about to start one saw none alive and still holds the lock, and that
  nothing runs before start-up's own preparation, which takes no lock. `Modes` adds to
  `NoEngineElsewhere` that a call past the mode's test is in local mode, which holds
  because the mode changes only at start-up. Most steps are outside the lock and
  keep one frame (`Quiet`); those of an activation keep another (`Alone`).
- **`DirectoryProofs`**: `DirInv` is `TypeOK`, `IdentitiesAreUnique` and `Proper` of every
  request. `Proper` ties a request to rows it read calls ago: its account is still there
  and in the organization the request works in, because nothing removes or moves an
  account; what the next call is given is there (`PayloadIsThere`); and whoever writes
  rights or states found before that they are another's (`RightsOfAnother`), which is what
  makes `LastAdminFallsToARace` follow: an administrator who is still one after his own step
  is left in the organization. Each action has one lemma, which gives the invariant and both
  action properties at once (`StepOK`). `SeatOverrunIsBounded` is a statement about sizes and
  needs two more facts, together `SeatsOK`: accounts are in organizations that are there, and a
  subscription has no more seats than its peak. Three lemmas about any tables carry it.
  `LoadTaken`: a request that found a seat free bounds the load by itself, whatever it was, since
  every other thread adds at most one, as a returning account or as a new one and not as
  both. `LoadFalls`: a step that adds nobody keeps the bound; an account that
  an update makes active was counted as returning. `LoadJoins`: a new account takes the place of
  the request that was joining.
- **`WorkspaceProofs`**: `Inv` is `TypeOK`, `RequestsKnow`, `PathsAreOwn` and `TablesOK`. A request
  acts on what it read several calls ago, so the invariant says what it *still* knows: in a chat
  the conversation was its own and, if it is still there, is (`KnowsTalk`), because ids are not given out
  twice; a file's path leads nowhere else, and the chunks that an upload saved are there or were taken by a
  deletion (`KnowsFile`). Three frames say what a step leaves of that to the others (`TalkKept`,
  `FilesKept`, `ChunksKept`), and one lemma per action shows that it keeps them (`StepKeeps`). `RecordsAreTrue` is in
  `TablesOK`; `ConversationIsPrivate` follows step by step (`OwnersAct`), and so does
  `OnlyLateChunksOutlive` (`LateChunks`): only the saving of chunks can make an orphan, and only when the
  deletion has been past. `ExchangesAreWhole` needs an invariant of its own, `Whole`, on top of `Inv`: `Heard`
  counts a message up to a place, and a request that is about to answer has asked once more than it
  answered (`Asked`), which neither another's message nor a failed call takes away (`OneSpeaks`). For Oracle it
  is the balance of rows that counts: the kept questions of a request are as many as its kept
  answers, and its open questions are one more than its open answers exactly while it is between its two inserts
  (`Even`, `Lent`). A row of another request changes none of it (`RowSpeaks`); a commit or a rollback moves
  the open ones over together (`EndSpeaks`); a restart settles everybody's; and a deletion, which waits for
  open rows, finds nothing lent (`SettledLendsNone`).
- **`AccountsProofs`**: `RegInv` adds to the types that requests name accounts that were
  given out, and that in a project that keeps ids apart no two requests work on one
  account, and one that does not know of a commit has no profile to lose
  (`ApartUnlessRepeated`): ids are given once, and only the request that got one registers
  or deletes it. `KeysInv` orders the moments: a request began before its fetch did, the
  fetch before its answer, and neither is older than `Timeout` while it runs
  (`MomentsAreOrdered`, `RepliesAreRecent`), with one thread inside the lock (`OneHolder`). From these
  `RetiredIsOld` bounds the age of a retired key in the cache by when it was fetched,
  `AcceptedIsRecent` that of a key a request has in hand, and `ForcedIsAccounted` says that the last
  forced fetch has brought what was published, has failed, or is still running.

The assumptions are on the constants, and each is in the module that declares them:
`None`, `Nothing` and `NoKey` are no id, address or row (`StoreAssumption`, `NoneIsNoRow`,
`NothingIsNoRow`, `KeysAssumption`, `RuntimeAssumption`); threads are not preparations
(`RuntimeAssumption`); every version has at least one chunk; the age of the key cache and its pause are
positive, as they are in the code; the seed data names two accounts with two
addresses, and there is at least one thread that serves requests (`DirectoryAssumption`:
with none, the bound of `SeatOverrunIsBounded` would be one below the licence); a deleted row is
none of the rows (`RowsAreFresh`). TLC evaluates them in every run.

Only model-checked: liveness (`RequestsAreAnswered`, `StopReturns`,
`RefusedIsForgotten`, `CallsReturn`, `DenialStopsEngine`,
`ModelArrives`), which rests on fairness and `ENABLED` and is outside this prover's reach; and the
counterexample of `runtime_stale_refusal`, which is TLC's by nature.

## 7. What is left out

- *Register*: the deletion of subscriptions, `last_seen_at` and `last_used_at`, the
  audit rows, device names, the hashing of secrets. Any error that is not a
  rejection of the database is the answer "unavailable". Row-level security is not
  modelled; the second look at `blocked_reason` in `GET /model` (`api/runtime.py:420-423`), which
  can only refuse what the first let through, is left out; an administrator's direct revocation (`0001:567-577`) is the update
  that `RevokeUpdate` makes. A foreign-key wait or deadlock during the
  redemption's insert is covered by `Abort`.
- *Supervisor*: the numbers of ports; the filling of the child's error pipe is
  only a child that never becomes ready; a Runtime that dies in the middle of `_assign_to_job`
  is one that dies before it or after it.
- *Runtime*: credential files
  that cannot be read or deleted; the cancelling of a download, which is
  `ModelStore`'s; the answers of chats in local and demo mode, which change
  nothing but the screen; account details.
- *Model store*: progress figures; a file damaged or deleted by hand after its
  installation; a second download at a time, excluded by `OneWorker`.
- *Directory*: the two store calls of the look for a free seat are one step (`subscription_service.py:85-86`;
  what they return is used calls later, which is the race that counts); that
  a login asks whether the organization is active (`auth_service.py:124`), since nothing here deactivates
  one; passwords, names and the start of a subscription; answers, since a
  refused request is forgotten; an update that passes a role and a state at once;
  reads other than those a rule rests on.
- *Accounts*: the timeout of a fetch of keys is per operation of the transport
  (`supabase_jwks.py:83`), so that a reply that comes in drops may take longer than `Timeout`, and a retired
  key lives as much longer; the stamps start as "long ago", where the code's 0.0 on a clock that
  has just started may make a first forced refresh wait; signatures, claims and their expiry; the sign-in's own limits; replies
  without an id that no account stands behind.
- *Workspace*: Oracle's clock is taken not to step back, so that the order of insertion is the order of reading; a
  row that was rolled back stays in the sequence as `undone`, unread, and counts for `MaxMessages`; the text of messages and files, the splitting into chunks and the ranking of
  what is found (pure functions of data that no property tells apart); limits on size and type of a file; paging
  and filters; the providers' HTTP, which is one step that answers or fails; the audit entries
  of other parts.
- *Runtime conversations*: each operation holds the one lock from its read to its
  write, so there is nothing to interleave; what a damaged file does is in section 5.
- *Runtime shell, installer, frontend, schemas, settings*: start-up and I/O with the operating
  system, build scripts, presentation, request shapes, single-row reads and upserts. The desktop window's polling is
  covered by `RuntimeService`, whose operations any caller may invoke at any time.
- *Extension*: pages of a wizard and the step they store. What it asks of the backend
  and of the Runtime is modelled on their side, from any caller and in any order.
