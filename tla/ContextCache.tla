---------------------------- MODULE ContextCache ----------------------------
(***************************************************************************)
(* The process-wide cache of parsed and realized contexts behind the API   *)
(* handlers: api/cache.rs, get_or_realize and what it calls.               *)
(*                                                                         *)
(* Every request thread computes a 64-bit key of its inputs (context and   *)
(* sidecars), looks the key up under the mutex, and on a miss parses and   *)
(* realizes the inputs WITHOUT the mutex before it takes it again to evict *)
(* and insert.  The key is a hash: two inputs may share one.               *)
(*                                                                         *)
(* Parsing and realizing are one step whose result the inputs determine.   *)
(* The mutex is never poisoned: nothing under it can panic, so the         *)
(* `cache mutex poisoned` error is unreachable and left out.               *)
(***************************************************************************)
EXTENDS Naturals, FiniteSets

CONSTANTS
    Threads,          \* API worker threads
    Inputs,           \* the (context, sidecars) pairs requests carry
    Keys,             \* 64-bit hashes
    cache_key,        \* cache.rs cache_key: the hash of an input
    Rejected,         \* inputs that do not parse or do not realize
    Endless,          \* inputs whose realization does not finish
    MAX_CACHE_SIZE,   \* entries kept (64 in the code)
    Requests          \* bound: requests a thread serves

ASSUME CacheConstants ==
    /\ cache_key \in [Inputs -> Keys]
    /\ Rejected \subseteq Inputs
    /\ Endless \subseteq Inputs \ Rejected
    /\ MAX_CACHE_SIZE \in Nat \ {0}
    /\ Requests \in Nat

NoInput == "no input"
Free    == "free"
ASSUME NamesApart == NoInput \notin Inputs /\ Free \notin Threads

VARIABLES
    cache,     \* HashMap<u64, CacheEntry>: key -> [src, realized]
    lock,      \* the thread that holds the mutex, or Free
    at,        \* where each thread is in get_or_realize
    input,     \* the input of each thread's current request
    answer,    \* what the last request of each thread returned
    served     \* requests each thread has begun

cache_vars == <<cache, lock, at, input, answer, served>>

\* What realize_context makes of an input, kept apart from the input itself.
Realization(i) == <<"realized", i>>

Entries == [src : Inputs, realized : {Realization(i) : i \in Inputs}]
Answers == [kind : {"none", "err"}] \cup [kind : {"hit", "fresh"}, entry : Entries]
Stops   == {"idle", "lock lookup", "lookup", "realize", "lock insert", "insert"}

CacheTypeOK ==
    /\ DOMAIN cache \subseteq Keys
    /\ \A k \in DOMAIN cache : cache[k] \in Entries
    /\ lock \in Threads \cup {Free}
    /\ at \in [Threads -> Stops]
    /\ input \in [Threads -> Inputs \cup {NoInput}]
    /\ answer \in [Threads -> Answers]
    /\ served \in [Threads -> 0..Requests]

CacheInit ==
    /\ cache = [k \in {} |-> NoInput]
    /\ lock = Free
    /\ at = [t \in Threads |-> "idle"]
    /\ input = [t \in Threads |-> NoInput]
    /\ answer = [t \in Threads |-> [kind |-> "none"]]
    /\ served = [t \in Threads |-> 0]

Resume(t, place) == at' = [at EXCEPT ![t] = place]
Answer(t, a)     == answer' = [answer EXCEPT ![t] = a]

-----------------------------------------------------------------------------
\* A handler calls get_or_realize.
Begin(t, i) ==
    /\ at[t] = "idle" /\ served[t] < Requests
    /\ Resume(t, "lock lookup")
    /\ input' = [input EXCEPT ![t] = i]
    /\ served' = [served EXCEPT ![t] = @ + 1]
    /\ Answer(t, [kind |-> "none"])
    /\ UNCHANGED <<cache, lock>>

Lock(t) ==
    /\ lock = Free
    /\ lock' = t
    /\ \/ at[t] = "lock lookup" /\ Resume(t, "lookup")
       \/ at[t] = "lock insert" /\ Resume(t, "insert")
    /\ UNCHANGED <<cache, input, answer, served>>

\* The entry under the key was realized from exactly these inputs.
matches_key(k, i) == k = cache_key[i]
matches(k, i) == cache[k].src = i

Cached(i) == cache_key[i] \in DOMAIN cache /\ matches(cache_key[i], i)

\* A collision waits for the other design's entry to go.
Lookup_retry(t) ==
    /\ at[t] = "lookup"
    /\ lock' = Free
    /\ \/ /\ Cached(input[t])
          /\ Answer(t, [kind |-> "hit", entry |-> cache[cache_key[input[t]]]])
          /\ Resume(t, "idle")
       \/ /\ ~Cached(input[t])
          /\ Resume(t, IF cache_key[input[t]] \in DOMAIN cache
                       THEN "lock lookup" ELSE "realize")
          /\ UNCHANGED answer
    /\ UNCHANGED <<cache, input, served>>

\* Lines 100-112: the guard is dropped at the end of the block, hit or miss;
\* a collision falls through to a fresh realization.
Lookup(t) ==
    /\ at[t] = "lookup"
    /\ lock' = Free
    /\ \/ /\ Cached(input[t])
          /\ Answer(t, [kind |-> "hit", entry |-> cache[cache_key[input[t]]]])
          /\ Resume(t, "idle")
       \/ /\ ~Cached(input[t])
          /\ Resume(t, "realize")
          /\ UNCHANGED answer
    /\ UNCHANGED <<cache, input, served>>

\* Lines 115-127: an error returns without caching.
Realize(t) ==
    /\ at[t] = "realize" /\ input[t] \notin Endless
    /\ \/ /\ input[t] \in Rejected
          /\ Answer(t, [kind |-> "err"]) /\ Resume(t, "idle")
       \/ /\ input[t] \notin Rejected
          /\ Answer(t, [kind  |-> "fresh",
                        entry |-> [src |-> input[t], realized |-> Realization(input[t])]])
          /\ Resume(t, "lock insert")
    /\ UNCHANGED <<cache, lock, input, served>>

\* One arbitrary entry goes when the map is full, even if the key is in it.
Evict_over(kept) ==
    IF Cardinality(DOMAIN cache) > MAX_CACHE_SIZE
    THEN \E k \in DOMAIN cache : kept = DOMAIN cache \ {k}
    ELSE kept = DOMAIN cache

Evict(kept) ==
    IF Cardinality(DOMAIN cache) >= MAX_CACHE_SIZE
    THEN \E k \in DOMAIN cache : kept = DOMAIN cache \ {k}
    ELSE kept = DOMAIN cache

\* Lines 129-141.
Insert(t) ==
    /\ at[t] = "insert"
    /\ \E kept \in SUBSET DOMAIN cache :
         /\ Evict(kept)
         /\ cache' = [k \in kept \cup {cache_key[input[t]]} |->
                        IF k = cache_key[input[t]] THEN answer[t].entry ELSE cache[k]]
    /\ lock' = Free
    /\ Resume(t, "idle")
    /\ UNCHANGED <<input, answer, served>>

ThreadStep(t) == Lock(t) \/ Lookup(t) \/ Realize(t) \/ Insert(t)

\* Every thread has served its requests, or realizes an endless input.
Over(t) == \/ at[t] = "idle" /\ served[t] = Requests
           \/ at[t] = "realize" /\ input[t] \in Endless

AllServed == (\A t \in Threads : Over(t)) /\ UNCHANGED cache_vars

CacheNext == (\E t \in Threads : ThreadStep(t) \/ (\E i \in Inputs : Begin(t, i))) \/ AllServed

(***************************************************************************)
(* A thread that can run goes on.  std's Mutex is not fair, but every      *)
(* holder releases it after a few map operations and the requests are      *)
(* finitely many, so weak fairness of Lock is all that is assumed.         *)
(***************************************************************************)
CacheSpec == CacheInit /\ [][CacheNext]_cache_vars /\ \A t \in Threads : WF_cache_vars(ThreadStep(t))

-----------------------------------------------------------------------------
(***************************************************************************)
(* Whatever the collisions, evictions and interleaved insertions, a        *)
(* request is answered with the realization of its own inputs, and with an *)
(* error exactly if these inputs are rejected (cache.rs:31-34: a collision *)
(* would be a wrong-verdict path).                                         *)
(***************************************************************************)
AnswerIsOwn ==
    \A t \in Threads : at[t] = "idle" /\ answer[t].kind # "none" =>
        IF input[t] \in Rejected THEN answer[t].kind = "err"
        ELSE /\ answer[t].kind # "err"
             /\ answer[t].entry = [src |-> input[t], realized |-> Realization(input[t])]

(***************************************************************************)
(* The map never holds more than MAX_CACHE_SIZE entries although threads   *)
(* that missed together insert one after the other (cache.rs:129-141).     *)
(***************************************************************************)
Bounded == CacheTypeOK /\ Cardinality(DOMAIN cache) <= MAX_CACHE_SIZE

(***************************************************************************)
(* A request for a finite input is answered although another thread        *)
(* realizes for ever, and although its key is taken by other inputs: no    *)
(* mutex is held while realizing, a collision is a miss (cache.rs:107-115).*)
(***************************************************************************)
Answered ==
    \A t \in Threads : \A i \in Inputs \ Endless :
        at[t] = "lock lookup" /\ input[t] = i ~> at[t] = "idle"
=============================================================================
