---------------------------- MODULE SigningKeys ----------------------------
(***************************************************************************)
(* The cache of the project's public signing keys (supabase_jwks.py) and   *)
(* the verification of an access token with it (supabase_auth.py).         *)
(* Threads share one cache behind one lock, which is held during a fetch.  *)
(* The project publishes and retires keys when it likes.  Time passes only *)
(* while every thread waits for the network or for the lock.               *)
(***************************************************************************)
EXTENDS Integers, FiniteSets

CONSTANTS
    Kids,            \* key identifiers
    Threads,         \* threads that serve requests
    Ttl,             \* CACHE_TTL_SECONDS
    Pause,           \* MIN_REFRESH_SECONDS
    Timeout,         \* supabase_timeout_seconds: the longest a fetch takes
    End,             \* bound: the last moment of the clock
    NoKey            \* no key, no time

ASSUME KeysAssumption ==
    /\ {Ttl, Pause} \subseteq Nat \ {0} /\ Timeout \in Nat /\ End \in Nat \ {0}
    /\ NoKey \notin Kids \cup Nat

Moments == 0 .. End

VARIABLES
    clock,           \* time.monotonic()
    published,       \* what the project publishes now: kids
    since,           \* history: [Kids -> when the key was published or retired last]
    keys,            \* _Cache._keys
    fetchedAt,       \* _Cache._fetched_at
    lastForced,      \* _Cache._last_forced_refresh
    thread,          \* [Threads -> a request with a token]
    failedAt         \* history: when the last forced fetch that failed began

keyVars == <<clock, published, since, keys, fetchedAt, lastForced, thread, failedAt>>

\* began: `now` of get().  asked: when the fetch began.  reply: what the project
\* had published when it answered.
ThreadPC == {"idle", "lock", "first", "forced", "decode"}

Thread == [pc : ThreadPC, kid : Kids \cup {NoKey}, began : Moments, asked : Moments,
           reply : SUBSET Kids \cup {NoKey}]

Idle == [pc |-> "idle", kid |-> NoKey, began |-> 0, asked |-> 0, reply |-> NoKey]

Here(t, pc) == thread[t].pc = pc
Holding(t) == thread[t].pc \in {"first", "forced"}

LockIsFree == \A t \in Threads : ~Holding(t)

Go(t, pc) == thread' = [thread EXCEPT ![t].pc = pc]
Answered(t) == thread' = [thread EXCEPT ![t] = Idle]

-----------------------------------------------------------------------------
\* A token signed with a key the project published at some time (header: kid);
\* get() reads the clock before it waits for the lock.
Verify(t, k) ==
    /\ Here(t, "idle")
    /\ thread' = [thread EXCEPT ![t] = [Idle EXCEPT !.pc = "lock", !.kid = k, !.began = clock]]
    /\ UNCHANGED <<clock, published, since, keys, fetchedAt, lastForced, failedAt>>

\* Mutant: a cache of that very age is taken for fresh.
ExpiredLater(t) == thread[t].began - fetchedAt > Ttl

Expired(t) == thread[t].began - fetchedAt >= Ttl

Fetch(t, pc) ==
    thread' = [thread EXCEPT ![t] = [@ EXCEPT !.pc = pc, !.asked = clock, !.reply = NoKey]]

\* Mutant: a refused request pushes the next fetch away.
AskAgainLater(t) ==
    \/ /\ clock - lastForced < Pause
       /\ Answered(t) /\ lastForced' = clock
    \/ /\ clock - lastForced >= Pause
       /\ Fetch(t, "forced") /\ lastForced' = clock

\* The key is not among those at hand: one more fetch, unless there was one lately.
AskAgain(t) ==
    \/ /\ clock - lastForced < Pause
       /\ Answered(t) /\ UNCHANGED lastForced
    \/ /\ clock - lastForced >= Pause
       /\ Fetch(t, "forced") /\ lastForced' = clock

Look(t, found) ==
    IF thread[t].kid \in found THEN Go(t, "decode") /\ UNCHANGED lastForced ELSE AskAgain(t)

Enter(t) ==
    /\ Here(t, "lock") /\ LockIsFree
    /\ IF keys = {} \/ Expired(t) THEN Fetch(t, "first") /\ UNCHANGED lastForced
                                  ELSE Look(t, keys)
    /\ UNCHANGED <<clock, published, since, keys, fetchedAt, failedAt>>

\* The project answers with what it publishes; the answer is on its way.
Serve(t) ==
    /\ Holding(t) /\ thread[t].reply = NoKey
    /\ thread' = [thread EXCEPT ![t].reply = published]
    /\ UNCHANGED <<clock, published, since, keys, fetchedAt, lastForced, failedAt>>

\* The keys are replaced as a whole.  After a first fetch the key is looked up
\* and may be fetched once more; a forced fetch decides.
FetchSucceeds(t) ==
    LET fresh == thread[t].reply
    IN  /\ Holding(t) /\ fresh \notin {NoKey, {}}
        /\ keys' = fresh /\ fetchedAt' = clock
        /\ \/ Here(t, "first") /\ Look(t, fresh)
           \/ /\ Here(t, "forced") /\ UNCHANGED lastForced
              /\ IF thread[t].kid \in fresh THEN Go(t, "decode") ELSE Answered(t)
        /\ UNCHANGED <<clock, published, since, failedAt>>

\* No answer, an error, or no key in it: 503, and the cache stays as it was.
FetchFails(t) ==
    /\ Holding(t) /\ Answered(t)
    /\ failedAt' = IF Here(t, "forced") THEN thread[t].asked ELSE failedAt
    /\ UNCHANGED <<clock, published, since, keys, fetchedAt, lastForced>>

\* Outside the lock, with the key object: whether the token is expired, or for
\* another issuer or audience, is left open.
Decode(t) ==
    /\ Here(t, "decode")
    /\ Answered(t)
    /\ UNCHANGED <<clock, published, since, keys, fetchedAt, lastForced, failedAt>>

-----------------------------------------------------------------------------
Publish(k) ==
    /\ k \notin published
    /\ published' = published \cup {k} /\ since' = [since EXCEPT ![k] = clock]
    /\ UNCHANGED <<clock, keys, fetchedAt, lastForced, thread, failedAt>>

Retire(k) ==
    /\ k \in published
    /\ published' = published \ {k} /\ since' = [since EXCEPT ![k] = clock]
    /\ UNCHANGED <<clock, keys, fetchedAt, lastForced, thread, failedAt>>

\* A fetch is given up after Timeout, and a thread that can go on does.
Tick ==
    /\ clock < End /\ clock' = clock + 1
    /\ \A t \in Threads : \/ Here(t, "idle")
                          \/ Holding(t) /\ clock < thread[t].asked + Timeout
                          \/ Here(t, "lock") /\ ~LockIsFree
    /\ UNCHANGED <<published, since, keys, fetchedAt, lastForced, thread, failedAt>>

KeysInit ==
    /\ clock = 0 /\ published = Kids
    /\ since = [k \in Kids |-> 0]
    /\ keys = {} /\ fetchedAt = -Ttl /\ lastForced = -Pause
    /\ thread = [t \in Threads |-> Idle]
    /\ failedAt = NoKey

KeysNext ==
    \/ \E t \in Threads :
          \/ \E k \in Kids : Verify(t, k)
          \/ Enter(t) \/ Serve(t) \/ FetchSucceeds(t) \/ FetchFails(t) \/ Decode(t)
    \/ \E k \in Kids : Publish(k) \/ Retire(k)
    \/ Tick

-----------------------------------------------------------------------------
KeysTypeOK ==
    /\ clock \in Moments /\ published \subseteq Kids /\ keys \subseteq Kids
    /\ since \in [Kids -> Moments]
    /\ fetchedAt \in Moments \cup {-Ttl} /\ lastForced \in Moments \cup {-Pause}
    /\ thread \in [Threads -> Thread]
    /\ failedAt \in Moments \cup {NoKey}
    /\ Cardinality({t \in Threads : Holding(t)}) <= 1

\* The token's key is refused: no such key, or none after the update.
Unknown(t) == (Enter(t) \/ FetchSucceeds(t)) /\ thread'[t] = Idle

\* Whatever fetches fail or are slow, and however long it waits for the lock, a
\* request that arrives later than the age of the cache and one fetch after its
\* key was retired is not accepted (CACHE_TTL_SECONDS).
RetiredKeyDies ==
    [][\A t \in Threads : Decode(t) /\ thread[t].kid \notin published =>
            thread[t].began < since[thread[t].kid] + Ttl + Timeout]_keyVars

\* After a rotation a request with the new key is refused as unknown only while
\* the pause of a fetch that failed, or of one that came too early, lasts: other
\* refusals do not lengthen it (MIN_REFRESH_SECONDS).
LiveKeyIsLearned ==
    [][\A t \in Threads : Unknown(t) /\ thread[t].kid \in published =>
            \/ clock < since[thread[t].kid] + Pause + Timeout
            \/ failedAt # NoKey /\ clock < failedAt + Pause + Timeout]_keyVars
=============================================================================
