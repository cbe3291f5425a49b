--------------------------- MODULE IdempotencyLock ---------------------------
(***************************************************************************)
(* IdempotencyHelper of ticket-service: executeWithIdempotency around an   *)
(* operation, for one idempotency key (keys share no state), call by call  *)
(* to Redis.  A call that Redis refuses falls back to a map in the memory  *)
(* of the process.  createShortTermTicket and createLongTermTicket clear   *)
(* the key after a success, activateTicket does not.                       *)
(***************************************************************************)
CONSTANTS
    Callers,       \* requests that carry the key
    Processes,     \* instances of ticket-service
    Home,          \* the instance that serves a caller
    Redis          \* the store they share

ASSUME HomeAssumption == Home \in [Callers -> Processes]
ASSUME RedisAssumption == Redis \notin Processes

VARIABLES
    operation,     \* the operation the key was made for
    locks,         \* per store, the lock key
    results,       \* the stores whose result key is set
    calls,         \* per caller, where its executeWithIdempotency is
    calm           \* history: no Redis call failed, no lock expired in use

vars == <<operation, locks, results, calls, calm>>

Stores == Processes \cup {Redis}

\* "bare": SET NX was done and EXPIRE was not; "timed": it will expire.
Lock == {"free", "bare", "timed"}

Steps == {"idle", "exists", "get", "wait", "lock", "expire", "run",
          "keep", "unlock", "release", "clear", "clearResult"}

Call == [pc     : Steps,
         exists : BOOLEAN,     \* what checkKey saw of the lock
         late   : BOOLEAN]     \* history: began when a result was stored

NoCall == [pc |-> "idle", exists |-> FALSE, late |-> FALSE]

TypeOK ==
    /\ operation \in {"create_ticket", "activate_ticket"}
    /\ locks \in [Stores -> Lock]
    /\ results \in SUBSET Stores
    /\ calls \in [Callers -> Call]
    /\ calm \in BOOLEAN

Init ==
    /\ operation \in {"create_ticket", "activate_ticket"}
    /\ locks = [s \in Stores |-> "free"]
    /\ results = {}
    /\ calls = [c \in Callers |-> NoCall]
    /\ calm = TRUE

-----------------------------------------------------------------------------
(* Helpers.                                                                *)

At(c, pc) == calls[c].pc = pc
Goto(c, pc) == calls' = [calls EXCEPT ![c].pc = pc]

\* Between lockOperation and the end of storeResult or releaseLock.
Inside(c) == calls[c].pc \in {"expire", "run", "keep", "unlock", "release"}

\* After executeWithIdempotency returned: creation clears the key.
AfterReturn == IF operation = "create_ticket" THEN "clear" ELSE "idle"

RedisAnswers == calm' = calm
RedisFails == calm' = FALSE

SetLock(s, lock) == locks' = [locks EXCEPT ![s] = lock]

\* Nobody is late for a result that is gone.
ResultGone(next) ==
    calls' = [c \in Callers |-> [next[c] EXCEPT !.late = FALSE]]

-----------------------------------------------------------------------------
(* checkKey.                                                               *)

Begin(c) ==
    /\ At(c, "idle")
    /\ calls' = [calls EXCEPT ![c] = [NoCall EXCEPT !.pc = "exists",
                                                    !.late = Redis \in results]]
    /\ UNCHANGED <<operation, locks, results, calm>>

\* Mutant: the cached result counts only while its lock exists.
Decide_LockFirst(c, exists, result) ==
    Goto(c, IF exists /\ result THEN AfterReturn ELSE IF exists THEN "wait" ELSE "lock")

\* A result is returned, a lock is waited for, and otherwise the key is free.
Decide(c, exists, result) ==
    Goto(c, IF result THEN AfterReturn ELSE IF exists THEN "wait" ELSE "lock")

CheckLock(c) ==
    /\ At(c, "exists")
    /\ \/ /\ RedisAnswers
          /\ calls' = [calls EXCEPT ![c].pc = "get", ![c].exists = locks[Redis] # "free"]
       \/ /\ RedisFails
          /\ Decide(c, locks[Home[c]] # "free", Home[c] \in results)
    /\ UNCHANGED <<operation, locks, results>>

CheckResult(c) ==
    /\ At(c, "get")
    /\ \/ /\ RedisAnswers
          /\ Decide(c, calls[c].exists, Redis \in results)
       \/ /\ RedisFails
          /\ Decide(c, locks[Home[c]] # "free", Home[c] \in results)
    /\ UNCHANGED <<operation, locks, results>>

\* One more check after a second, then 'Operation in progress'.
CheckAgain(c) ==
    /\ At(c, "wait")
    /\ \/ RedisAnswers /\ Goto(c, IF Redis \in results THEN AfterReturn ELSE "idle")
       \/ RedisFails /\ Goto(c, IF Home[c] \in results THEN AfterReturn ELSE "idle")
    /\ UNCHANGED <<operation, locks, results>>

-----------------------------------------------------------------------------
(* lockOperation, the operation, storeResult and releaseLock.              *)

\* Mutant: the lock in memory gets no timer.
LockInMemory_NoTimer(c) ==
    IF locks[Home[c]] = "free"
    THEN SetLock(Home[c], "bare") /\ Goto(c, "run")
    ELSE Goto(c, "idle") /\ UNCHANGED locks

\* Has and set in one turn of the event loop.
LockInMemory(c) ==
    IF locks[Home[c]] = "free"
    THEN SetLock(Home[c], "timed") /\ Goto(c, "run")
    ELSE Goto(c, "idle") /\ UNCHANGED locks

\* Mutant: SET without NX.
TakeLock_Set(c) ==
    /\ At(c, "lock")
    /\ \/ RedisAnswers /\ SetLock(Redis, "bare") /\ Goto(c, "expire")
       \/ RedisFails /\ LockInMemory(c)
    /\ UNCHANGED <<operation, results>>

\* SET NX; when it finds a lock the caller gets 'Operation already in progress'.
TakeLock(c) ==
    /\ At(c, "lock")
    /\ \/ /\ RedisAnswers
          /\ IF locks[Redis] = "free"
             THEN SetLock(Redis, "bare") /\ Goto(c, "expire")
             ELSE Goto(c, "idle") /\ UNCHANGED locks
       \/ RedisFails /\ LockInMemory(c)
    /\ UNCHANGED <<operation, results>>

\* EXPIRE; when Redis refuses it, lockOperation starts again in memory.
SetExpiry(c) ==
    /\ At(c, "expire")
    /\ \/ /\ RedisAnswers
          /\ SetLock(Redis, IF locks[Redis] = "free" THEN "free" ELSE "timed")
          /\ Goto(c, "run")
       \/ RedisFails /\ LockInMemory(c)
    /\ UNCHANGED <<operation, results>>

Succeed(c) ==
    /\ At(c, "run")
    /\ Goto(c, "keep")
    /\ UNCHANGED <<operation, locks, results, calm>>

Fail(c) ==
    /\ At(c, "run")
    /\ Goto(c, "release")
    /\ UNCHANGED <<operation, locks, results, calm>>

\* storeResult in memory: the result is kept and the lock goes, in one turn.
KeepInMemory(c) ==
    /\ results' = results \cup {Home[c]}
    /\ SetLock(Home[c], "free")
    /\ Goto(c, AfterReturn)

\* SETEX of the result, then DEL of the lock.
KeepResult(c) ==
    /\ At(c, "keep")
    /\ \/ /\ RedisAnswers
          /\ results' = results \cup {Redis}
          /\ Goto(c, "unlock")
          /\ UNCHANGED locks
       \/ RedisFails /\ KeepInMemory(c)
    /\ UNCHANGED <<operation>>

Unlock(c) ==
    /\ At(c, "unlock")
    /\ \/ /\ RedisAnswers
          /\ SetLock(Redis, "free")
          /\ Goto(c, AfterReturn)
          /\ UNCHANGED results
       \/ RedisFails /\ KeepInMemory(c)
    /\ UNCHANGED <<operation>>

ReleaseLock(c) ==
    /\ At(c, "release")
    /\ \/ RedisAnswers /\ SetLock(Redis, "free")
       \/ RedisFails /\ SetLock(Home[c], "free")
    /\ Goto(c, "idle")
    /\ UNCHANGED <<operation, results>>

-----------------------------------------------------------------------------
(* clearIdempotency, expiry and crashes.                                   *)

ClearInMemory(c) ==
    /\ SetLock(Home[c], "free")
    /\ results' = results \ {Home[c]}
    /\ Goto(c, "idle")

ClearLock(c) ==
    /\ At(c, "clear")
    /\ \/ /\ RedisAnswers
          /\ SetLock(Redis, "free")
          /\ Goto(c, "clearResult")
          /\ UNCHANGED results
       \/ RedisFails /\ ClearInMemory(c)
    /\ UNCHANGED <<operation>>

ClearResult(c) ==
    /\ At(c, "clearResult")
    /\ \/ /\ RedisAnswers
          /\ results' = results \ {Redis}
          /\ ResultGone([calls EXCEPT ![c].pc = "idle"])
          /\ UNCHANGED locks
       \/ RedisFails /\ ClearInMemory(c)
    /\ UNCHANGED <<operation>>

\* A time to live ends, possibly of a lock whose operation still runs.
ExpireLock(s) ==
    /\ locks[s] = "timed"
    /\ SetLock(s, "free")
    /\ calm' = (calm /\ \A c \in Callers : ~Inside(c))
    /\ UNCHANGED <<operation, results, calls>>

ExpireResult(s) ==
    /\ s \in results
    /\ results' = results \ {s}
    /\ IF s = Redis THEN ResultGone(calls) ELSE UNCHANGED calls
    /\ UNCHANGED <<operation, locks, calm>>

\* An instance dies, with its memory and what it was serving.
Crash(p) ==
    /\ \E c \in Callers : Home[c] = p /\ ~At(c, "idle")
    /\ calls' = [c \in Callers |-> IF Home[c] = p THEN NoCall ELSE calls[c]]
    /\ locks' = [locks EXCEPT ![p] = "free"]
    /\ results' = results \ {p}
    /\ UNCHANGED <<operation, calm>>

Step(c) ==
    \/ CheckLock(c) \/ CheckResult(c) \/ CheckAgain(c)
    \/ TakeLock(c) \/ SetExpiry(c) \/ Succeed(c) \/ Fail(c)
    \/ KeepResult(c) \/ Unlock(c) \/ ReleaseLock(c)
    \/ ClearLock(c) \/ ClearResult(c)

Next ==
    \/ \E c \in Callers : Begin(c) \/ Step(c)
    \/ \E s \in Stores : ExpireLock(s) \/ ExpireResult(s)
    \/ \E p \in Processes : Crash(p)

Spec == Init /\ [][Next]_vars

\* A call under way goes on, and a time to live comes to its end.
Fairness ==
    /\ \A c \in Callers : WF_vars(Step(c))
    /\ \A s \in Stores : WF_vars(ExpireLock(s))

LiveSpec == Spec /\ Fairness

-----------------------------------------------------------------------------
(* As long as Redis answers and no operation outlives its lock.            *)

\* Two callers never perform activate_ticket at the same time, wherever they are
\* between their Redis calls and whichever of them crash.  (Not so for ticket
\* creation, which clears the key after every success, whoever holds it then.)
MutualExclusion ==
    calm /\ operation = "activate_ticket"
    => \A c, d \in Callers : Inside(c) /\ Inside(d) => c = d

\* A retry that begins when the result is stored is answered from it: until that
\* result expires or is cleared, the retry never performs the operation again.
RetryIsAnswered ==
    calm => \A c \in Callers :
               calls[c].late => calls[c].pc \notin {"wait", "lock"} /\ ~Inside(c)

-----------------------------------------------------------------------------
(* Whatever fails.                                                         *)

\* SET NX without its EXPIRE, and nobody is about to do it.
Orphaned == locks[Redis] = "bare" /\ \A c \in Callers : ~At(c, "expire")

\* No key is refused for ever: with crashes, Redis failures and slow operations, a
\* lock in Redis or in memory goes away in the end.  The exception is a caller
\* that stops between SET NX and EXPIRE.
NoLockForEver ==
    [](~Orphaned) => \A s \in Stores : locks[s] # "free" ~> locks[s] = "free"
=============================================================================
