------------------------ MODULE IdempotencyLockProofs ------------------------
(***************************************************************************)
(* Theorems about IdempotencyLock, for any number of callers and           *)
(* instances.                                                              *)
(***************************************************************************)
EXTENDS IdempotencyLock, TLAPS

USE HomeAssumption, RedisAssumption

LEMMA HomeIsStore == Redis \in Stores /\ \A c \in Callers : Home[c] \in Stores
BY DEF Stores

LEMMA TypeInit == Init => TypeOK
BY HomeIsStore DEF Init, TypeOK, NoCall, Call, Steps, Lock

\* A step of one caller: it goes somewhere, and its lock and result are typed.
LEMMA TypeGoto ==
    ASSUME TypeOK, NEW c \in Callers, NEW pc \in Steps, Goto(c, pc)
    PROVE  calls' \in [Callers -> Call]
BY DEF TypeOK, Goto, Call

LEMMA TypeSetLock ==
    ASSUME TypeOK, NEW s \in Stores, NEW lock \in Lock, SetLock(s, lock)
    PROVE  locks' \in [Stores -> Lock]
BY DEF TypeOK, SetLock

LEMMA TypeStep == TypeOK /\ [Next]_vars => TypeOK'
<1> SUFFICES ASSUME TypeOK, [Next]_vars PROVE TypeOK'
  OBVIOUS
<1> USE HomeIsStore
<1>1. ASSUME NEW c \in Callers, Begin(c) PROVE TypeOK'
  <2> DEFINE begun == [NoCall EXCEPT !.pc = "exists", !.late = Redis \in results]
  <2>1. begun \in Call
    <3>1. CASE Redis \in results
      <4>1. begun = [NoCall EXCEPT !.pc = "exists", !.late = TRUE]
        BY <3>1
      <4> QED BY <4>1 DEF NoCall, Call, Steps
    <3>2. CASE Redis \notin results
      <4>0. (Redis \in results) = FALSE
        BY <3>2
      <4>1. begun = [NoCall EXCEPT !.pc = "exists", !.late = FALSE]
        BY <4>0, Zenon
      <4> QED BY <4>1 DEF NoCall, Call, Steps
    <3> QED BY <3>1, <3>2
  <2>2. calls' = [calls EXCEPT ![c] = begun]
    BY <1>1 DEF Begin
  <2> HIDE DEF begun
  <2>3. calls' \in [Callers -> Call]
    BY <2>1, <2>2 DEF TypeOK
  <2> QED BY <1>1, <2>3 DEF Begin, TypeOK
<1>2. ASSUME NEW c \in Callers, Step(c) PROVE TypeOK'
  <2>0. AfterReturn \in Steps
    BY DEF AfterReturn, Steps
  <2>1. ASSUME NEW exists, NEW result, Decide(c, exists, result)
        PROVE  calls' \in [Callers -> Call]
    BY <2>0, <2>1, TypeGoto DEF Decide, Steps
  <2>2. ASSUME LockInMemory(c)
        PROVE  calls' \in [Callers -> Call] /\ locks' \in [Stores -> Lock]
    <3>1. CASE locks[Home[c]] = "free"
      BY <2>2, <3>1, TypeGoto, TypeSetLock DEF LockInMemory, Steps, Lock
    <3>2. CASE locks[Home[c]] # "free"
      BY <2>2, <3>2, TypeGoto DEF LockInMemory, Steps, TypeOK
    <3> QED BY <3>1, <3>2
  <2>3. ASSUME KeepInMemory(c)
        PROVE  /\ calls' \in [Callers -> Call] /\ locks' \in [Stores -> Lock]
               /\ results' \in SUBSET Stores
    BY <2>0, <2>3, TypeGoto, TypeSetLock DEF KeepInMemory, Lock, TypeOK
  <2>4. ASSUME ClearInMemory(c)
        PROVE  /\ calls' \in [Callers -> Call] /\ locks' \in [Stores -> Lock]
               /\ results' \in SUBSET Stores
    BY <2>4, TypeGoto, TypeSetLock DEF ClearInMemory, Lock, Steps, TypeOK
  <2>5. ASSUME RedisAnswers \/ RedisFails PROVE calm' \in BOOLEAN
    BY <2>5 DEF RedisAnswers, RedisFails, TypeOK
  <2>6. CASE CheckLock(c)
    <3>1. CASE calls' = [calls EXCEPT ![c].pc = "get",
                                      ![c].exists = locks[Redis] # "free"]
      <4>1. calls' \in [Callers -> Call]
        BY <3>1 DEF TypeOK, Call, Steps
      <4> QED BY <2>5, <2>6, <4>1 DEF CheckLock, TypeOK
    <3>2. CASE Decide(c, locks[Home[c]] # "free", Home[c] \in results)
      BY <2>1, <2>5, <2>6, <3>2 DEF CheckLock, TypeOK
    <3> QED BY <2>6, <3>1, <3>2 DEF CheckLock
  <2>7. CASE CheckResult(c)
    BY <2>1, <2>5, <2>7 DEF CheckResult, TypeOK
  <2>8. CASE CheckAgain(c)
    <3>1. calls' \in [Callers -> Call]
      BY <2>0, <2>8, TypeGoto DEF CheckAgain, Steps
    <3> QED BY <2>5, <2>8, <3>1 DEF CheckAgain, TypeOK
  <2>9. CASE TakeLock(c)
    <3>1. calls' \in [Callers -> Call] /\ locks' \in [Stores -> Lock]
      BY <2>2, <2>9, TypeGoto, TypeSetLock DEF TakeLock, Steps, Lock, TypeOK
    <3> QED BY <2>5, <2>9, <3>1 DEF TakeLock, TypeOK
  <2>10. CASE SetExpiry(c)
    <3>1. calls' \in [Callers -> Call] /\ locks' \in [Stores -> Lock]
      BY <2>2, <2>10, TypeGoto, TypeSetLock DEF SetExpiry, Steps, Lock
    <3> QED BY <2>5, <2>10, <3>1 DEF SetExpiry, TypeOK
  <2>11. CASE Succeed(c) \/ Fail(c)
    <3>1. calls' \in [Callers -> Call]
      BY <2>11, TypeGoto DEF Succeed, Fail, Steps
    <3> QED BY <2>11, <3>1 DEF Succeed, Fail, TypeOK
  <2>12. CASE KeepResult(c)
    <3>1. /\ calls' \in [Callers -> Call] /\ locks' \in [Stores -> Lock]
          /\ results' \in SUBSET Stores
      BY <2>3, <2>12, TypeGoto DEF KeepResult, Steps, TypeOK
    <3> QED BY <2>5, <2>12, <3>1 DEF KeepResult, TypeOK
  <2>13. CASE Unlock(c)
    <3>1. /\ calls' \in [Callers -> Call] /\ locks' \in [Stores -> Lock]
          /\ results' \in SUBSET Stores
      BY <2>0, <2>3, <2>13, TypeGoto, TypeSetLock DEF Unlock, Lock, TypeOK
    <3> QED BY <2>5, <2>13, <3>1 DEF Unlock, TypeOK
  <2>14. CASE ReleaseLock(c)
    <3>1. calls' \in [Callers -> Call] /\ locks' \in [Stores -> Lock]
      BY <2>14, TypeGoto, TypeSetLock DEF ReleaseLock, Steps, Lock
    <3> QED BY <2>5, <2>14, <3>1 DEF ReleaseLock, TypeOK
  <2>15. CASE ClearLock(c)
    <3>1. /\ calls' \in [Callers -> Call] /\ locks' \in [Stores -> Lock]
          /\ results' \in SUBSET Stores
      BY <2>4, <2>15, TypeGoto, TypeSetLock DEF ClearLock, Steps, Lock, TypeOK
    <3> QED BY <2>5, <2>15, <3>1 DEF ClearLock, TypeOK
  <2>16. CASE ClearResult(c)
    <3>1. ASSUME ResultGone([calls EXCEPT ![c].pc = "idle"])
          PROVE  calls' \in [Callers -> Call]
      BY <3>1 DEF ResultGone, TypeOK, Call, Steps
    <3>2. /\ calls' \in [Callers -> Call] /\ locks' \in [Stores -> Lock]
          /\ results' \in SUBSET Stores
      BY <2>4, <2>16, <3>1 DEF ClearResult, TypeOK
    <3> QED BY <2>5, <2>16, <3>2 DEF ClearResult, TypeOK
  <2> QED
    BY <1>2, <2>6, <2>7, <2>8, <2>9, <2>10, <2>11, <2>12, <2>13, <2>14, <2>15, <2>16
       DEF Step
<1>3. ASSUME NEW s \in Stores, ExpireLock(s) PROVE TypeOK'
  <2>1. locks' \in [Stores -> Lock]
    BY <1>3, TypeSetLock DEF ExpireLock, Lock
  <2> QED BY <1>3, <2>1 DEF ExpireLock, TypeOK
<1>4. ASSUME NEW s \in Stores, ExpireResult(s) PROVE TypeOK'
  <2>1. calls' \in [Callers -> Call]
    <3>1. \A c \in Callers : [calls[c] EXCEPT !.late = FALSE] \in Call
      BY DEF TypeOK, Call
    <3>2. CASE s = Redis
      BY <1>4, <3>1, <3>2 DEF ExpireResult, ResultGone
    <3>3. CASE s # Redis
      BY <1>4, <3>3 DEF ExpireResult, TypeOK
    <3> QED BY <3>2, <3>3
  <2> QED BY <1>4, <2>1 DEF ExpireResult, TypeOK
<1>5. ASSUME NEW p \in Processes, Crash(p) PROVE TypeOK'
  <2>1. calls' \in [Callers -> Call]
    BY <1>5 DEF Crash, TypeOK, Call, NoCall, Steps
  <2>2. locks' \in [Stores -> Lock]
    BY <1>5 DEF Crash, TypeOK, Lock
  <2> QED BY <1>5, <2>1, <2>2 DEF Crash, TypeOK
<1>6. CASE UNCHANGED vars
  BY <1>6 DEF vars, TypeOK
<1> QED
  BY <1>1, <1>2, <1>3, <1>4, <1>5, <1>6 DEF Next

\* Whatever fails, the keys and the calls stay what they are declared to be.
THEOREM TypeCorrect == Spec => []TypeOK
<1> QED
  BY TypeInit, TypeStep, PTL DEF Spec

-----------------------------------------------------------------------------
(* Mutual exclusion.                                                       *)

\* Only the creation of a ticket clears its key.
NeverClears ==
    operation = "activate_ticket"
    => \A c \in Callers : calls[c].pc \notin {"clear", "clearResult"}

LEMMA NeverClearsStep == TypeOK /\ NeverClears /\ [Next]_vars => NeverClears'
<1> SUFFICES ASSUME TypeOK, NeverClears, [Next]_vars,
                    operation' = "activate_ticket"
             PROVE  NeverClears'
  BY DEF NeverClears
<1> DEFINE Clearing == {"clear", "clearResult"}
<1>0. operation = "activate_ticket"
  BY DEF Next, vars, Begin, Step, CheckLock, CheckResult, CheckAgain, TakeLock,
         SetExpiry, Succeed, Fail, KeepResult, Unlock, ReleaseLock, ClearLock,
         ClearResult, ExpireLock, ExpireResult, Crash
<1>1. AfterReturn = "idle"
  BY <1>0 DEF AfterReturn
<1>2. \A c \in Callers : calls[c].pc \notin Clearing
  BY <1>0 DEF NeverClears
<1>3. ASSUME NEW c \in Callers, NEW pc, pc \notin Clearing, Goto(c, pc)
      PROVE  NeverClears'
  BY <1>2, <1>3 DEF Goto, NeverClears, TypeOK
<1>4. ASSUME NEW c \in Callers, Begin(c) PROVE NeverClears'
  BY <1>2, <1>4 DEF Begin, NoCall, NeverClears, TypeOK
<1>5. ASSUME NEW c \in Callers, Step(c) PROVE NeverClears'
  <2>1. CASE CheckLock(c)
    <3>1. CASE calls' = [calls EXCEPT ![c].pc = "get",
                                      ![c].exists = locks[Redis] # "free"]
      BY <1>2, <3>1 DEF NeverClears, TypeOK, Call
    <3>2. CASE Decide(c, locks[Home[c]] # "free", Home[c] \in results)
      BY <1>1, <1>3, <3>2 DEF Decide
    <3> QED BY <2>1, <3>1, <3>2 DEF CheckLock
  <2>2. CASE ClearLock(c) \/ ClearResult(c)
    BY <1>2, <2>2 DEF ClearLock, ClearResult, At
  <2>3. CASE \/ CheckResult(c) \/ CheckAgain(c) \/ TakeLock(c) \/ SetExpiry(c)
             \/ Succeed(c) \/ Fail(c) \/ KeepResult(c) \/ Unlock(c)
             \/ ReleaseLock(c)
    <3>1. PICK pc \in Steps \ Clearing : Goto(c, pc)
      BY <1>1, <2>3 DEF CheckResult, CheckAgain, TakeLock, SetExpiry, Succeed, Fail,
                        KeepResult, Unlock, ReleaseLock, Decide, LockInMemory,
                        KeepInMemory, Steps
    <3> QED BY <1>3, <3>1
  <2> QED BY <1>5, <2>1, <2>2, <2>3 DEF Step
<1>6. ASSUME NEW s \in Stores, ExpireLock(s) \/ ExpireResult(s) PROVE NeverClears'
  <2>1. \A c \in Callers : calls'[c].pc = calls[c].pc
    BY <1>6 DEF ExpireLock, ExpireResult, ResultGone, TypeOK, Call
  <2> QED BY <1>2, <2>1 DEF NeverClears
<1>7. ASSUME NEW p \in Processes, Crash(p) PROVE NeverClears'
  BY <1>2, <1>7 DEF Crash, NoCall, NeverClears
<1>8. CASE UNCHANGED vars
  BY <1>2, <1>8 DEF vars, NeverClears
<1> QED
  BY <1>4, <1>5, <1>6, <1>7, <1>8 DEF Next

\* Whoever is inside holds the lock in Redis: nobody deletes a lock that is not
\* its own, since activate_ticket never clears its key.
Held ==
    calm /\ operation = "activate_ticket"
    => \A c \in Callers : Inside(c) => locks[Redis] # "free"

ExclusionInv == MutualExclusion /\ Held

\* Every other caller stays inside or outside, and the lock stays as it is.
LEMMA ExclusionFrame ==
    ASSUME ExclusionInv, UNCHANGED operation, calm' => calm,
           \A c \in Callers : Inside(c)' => Inside(c),
           locks'[Redis] = locks[Redis]
    PROVE  ExclusionInv'
BY DEF ExclusionInv, MutualExclusion, Held

LEMMA ExclusionStep == TypeOK /\ NeverClears /\ ExclusionInv /\ [Next]_vars => ExclusionInv'
<1> SUFFICES ASSUME TypeOK, NeverClears, ExclusionInv, [Next]_vars
             PROVE  ExclusionInv'
  OBVIOUS
<1> USE HomeIsStore
<1>0. \A c \in Callers : Home[c] # Redis
  OBVIOUS
<1>1. CASE ~calm' \/ operation' # "activate_ticket"
  BY <1>1 DEF ExclusionInv, MutualExclusion, Held
<1> SUFFICES ASSUME calm', operation' = "activate_ticket" PROVE ExclusionInv'
  BY <1>1
<1>2. ASSUME NEW c \in Callers, Begin(c) PROVE ExclusionInv'
  <2>1. \A d \in Callers : Inside(d)' => Inside(d)
    BY <1>2 DEF Begin, Inside, At, NoCall, TypeOK
  <2> QED BY <1>2, <2>1, ExclusionFrame DEF Begin
<1>3. ASSUME NEW c \in Callers, Step(c) PROVE ExclusionInv'
  <2>0. /\ operation = "activate_ticket" /\ operation' = operation
        /\ ~RedisFails
    BY <1>3 DEF Step, RedisFails, CheckLock, CheckResult, CheckAgain, TakeLock,
                SetExpiry, Succeed, Fail, KeepResult, Unlock, ReleaseLock,
                ClearLock, ClearResult
  <2>1. AfterReturn = "idle"
    BY <2>0 DEF AfterReturn
  \* Steps that leave the lock alone and let nobody in.
  <2>2. CASE \/ CheckLock(c) \/ CheckResult(c) \/ CheckAgain(c)
             \/ Succeed(c) \/ Fail(c) \/ KeepResult(c)
    <3>1. calm = calm' /\ locks' = locks
      BY <2>0, <2>2 DEF CheckLock, CheckResult, CheckAgain, Succeed, Fail,
                        KeepResult, RedisAnswers
    <3>2. \A d \in Callers : d # c => calls'[d] = calls[d]
      BY <2>0, <2>2 DEF CheckLock, CheckResult, CheckAgain, Succeed, Fail,
                        KeepResult, Decide, Goto, TypeOK
    <3>3. Inside(c)' => Inside(c)
      <4>1. CASE Succeed(c) \/ Fail(c) \/ KeepResult(c)
        BY <4>1 DEF Succeed, Fail, KeepResult, Inside, At
      <4>2. CASE CheckLock(c)
        BY <2>0, <4>2 DEF CheckLock, Inside, TypeOK, Call
      <4>3. CASE CheckResult(c) \/ CheckAgain(c)
        <5>1. PICK pc \in {"idle", "wait", "lock"} : Goto(c, pc)
          BY <2>0, <2>1, <4>3 DEF CheckResult, CheckAgain, Decide
        <5> QED BY <5>1 DEF Goto, Inside, TypeOK
      <4> QED BY <2>2, <4>1, <4>2, <4>3
    <3>4. \A d \in Callers : Inside(d)' => Inside(d)
      BY <3>2, <3>3 DEF Inside
    <3> QED BY <2>0, <3>1, <3>4, ExclusionFrame
  <2>3. CASE TakeLock(c)
    <3>1. CASE locks[Redis] = "free"
      <4>1. locks'[Redis] = "bare" /\ calm
        BY <2>0, <2>3, <3>1 DEF TakeLock, SetLock, RedisAnswers, TypeOK
      <4>2. \A d \in Callers : ~Inside(d)
        BY <2>0, <3>1, <4>1 DEF ExclusionInv, Held
      <4>3. \A d \in Callers : d # c => calls'[d] = calls[d]
        BY <2>0, <2>3, <3>1 DEF TakeLock, Goto, TypeOK
      <4>4. \A d \in Callers : Inside(d)' => d = c
        BY <4>2, <4>3 DEF Inside
      <4> QED BY <4>1, <4>4 DEF ExclusionInv, MutualExclusion, Held
    <3>2. CASE locks[Redis] # "free"
      <4>1. locks' = locks /\ calm' = calm /\ Goto(c, "idle")
        BY <2>0, <2>3, <3>2 DEF TakeLock, RedisAnswers
      <4>2. \A d \in Callers : Inside(d)' => Inside(d)
        BY <4>1 DEF Goto, Inside, TypeOK
      <4> QED BY <2>0, <4>1, <4>2, ExclusionFrame
    <3> QED BY <3>1, <3>2
  <2>4. CASE SetExpiry(c)
    <3>1. calm /\ Inside(c)
      BY <2>0, <2>4 DEF SetExpiry, RedisAnswers, Inside, At
    <3>2. locks[Redis] # "free"
      BY <2>0, <3>1 DEF ExclusionInv, Held
    <3>3. locks'[Redis] = "timed"
      BY <2>0, <2>4, <3>2 DEF SetExpiry, SetLock, TypeOK
    <3>4. \A d \in Callers : Inside(d)' => Inside(d)
      BY <2>0, <2>4, <3>1 DEF SetExpiry, Goto, Inside, TypeOK
    <3> QED BY <2>0, <3>1, <3>3, <3>4 DEF ExclusionInv, MutualExclusion, Held
  <2>5. CASE Unlock(c) \/ ReleaseLock(c)
    <3>1. calm /\ Inside(c) /\ Goto(c, "idle")
      BY <2>0, <2>1, <2>5 DEF Unlock, ReleaseLock, RedisAnswers, Inside, At
    <3>2. \A d \in Callers : Inside(d) => d = c
      BY <2>0, <3>1 DEF ExclusionInv, MutualExclusion
    <3>3. \A d \in Callers : ~Inside(d)'
      BY <3>1, <3>2 DEF Goto, Inside, TypeOK
    <3> QED BY <3>3 DEF ExclusionInv, MutualExclusion, Held
  \* A call to activate_ticket is never here.
  <2>6. CASE ClearLock(c) \/ ClearResult(c)
    BY <2>0, <2>6 DEF NeverClears, ClearLock, ClearResult, At
  <2> QED
    BY <1>3, <2>2, <2>3, <2>4, <2>5, <2>6 DEF Step
<1>4. ASSUME NEW s \in Stores, ExpireLock(s) PROVE ExclusionInv'
  <2>1. calm /\ operation' = operation /\ \A c \in Callers : ~Inside(c)
    BY <1>4 DEF ExpireLock
  <2>2. \A c \in Callers : ~Inside(c)'
    BY <1>4, <2>1 DEF ExpireLock, Inside
  <2> QED BY <2>2 DEF ExclusionInv, MutualExclusion, Held
<1>5. ASSUME NEW s \in Stores, ExpireResult(s) PROVE ExclusionInv'
  <2>1. \A c \in Callers : calls'[c].pc = calls[c].pc
    BY <1>5 DEF ExpireResult, ResultGone, TypeOK, Call
  <2> QED BY <1>5, <2>1, ExclusionFrame DEF ExpireResult, Inside
<1>6. ASSUME NEW p \in Processes, Crash(p) PROVE ExclusionInv'
  <2>1. \A c \in Callers : Inside(c)' => Inside(c)
    BY <1>6 DEF Crash, NoCall, Inside
  <2>2. locks'[Redis] = locks[Redis]
    BY <1>6 DEF Crash, TypeOK
  <2> QED BY <1>6, <2>1, <2>2, ExclusionFrame DEF Crash
<1>7. CASE UNCHANGED vars
  BY <1>7, ExclusionFrame DEF vars, Inside
<1> QED
  BY <1>2, <1>3, <1>4, <1>5, <1>6, <1>7 DEF Next

\* For any number of callers and instances: while Redis answers and no lock expires
\* under its holder, no two callers perform activate_ticket at the same time.
THEOREM Exclusion == Spec => []MutualExclusion
<1>1. Init => NeverClears /\ ExclusionInv
  BY DEF Init, NoCall, NeverClears, ExclusionInv, MutualExclusion, Held, Inside
<1> QED
  BY <1>1, TypeInit, TypeStep, NeverClearsStep, ExclusionStep, PTL
     DEF Spec, ExclusionInv

-----------------------------------------------------------------------------
(* A late caller is answered.                                              *)

\* Who began when the result was stored finds it, until it is gone.
LateInv == RetryIsAnswered /\ (calm => \A c \in Callers : calls[c].late => Redis \in results)

LEMMA LateFrame ==
    ASSUME LateInv, calm, Redis \in results => Redis \in results',
           \A c \in Callers : calls'[c].late =>
              /\ calls[c].late
              /\ \/ calls'[c].pc = calls[c].pc
                 \/ calls'[c].pc \in {"idle", "exists", "get", "clear", "clearResult"}
    PROVE  LateInv'
BY DEF LateInv, RetryIsAnswered, Inside

LEMMA LateStep == TypeOK /\ LateInv /\ [Next]_vars => LateInv'
<1> SUFFICES ASSUME TypeOK, LateInv, [Next]_vars, calm' PROVE LateInv'
  BY DEF LateInv, RetryIsAnswered
<1> USE HomeIsStore
<1>1. ASSUME NEW c \in Callers, Begin(c) PROVE LateInv'
  <2>1. /\ calls'[c].pc = "exists" /\ calls'[c].late = (Redis \in results)
        /\ \A d \in Callers : d # c => calls'[d] = calls[d]
    BY <1>1 DEF Begin, NoCall, TypeOK
  <2> QED BY <1>1, <2>1 DEF Begin, LateInv, RetryIsAnswered, Inside
<1>2. ASSUME NEW c \in Callers, Step(c) PROVE LateInv'
  <2>0. calm /\ ~RedisFails
    BY <1>2 DEF Step, RedisFails, RedisAnswers, CheckLock, CheckResult, CheckAgain,
                TakeLock, SetExpiry, Succeed, Fail, KeepResult, Unlock,
                ReleaseLock, ClearLock, ClearResult
  <2>1. CASE CheckLock(c)
    BY <2>0, <2>1, LateFrame DEF CheckLock, TypeOK, Call
  <2>2. CASE CheckResult(c)
    <3>1. calls[c].late => Redis \in results
      BY <2>0 DEF LateInv
    <3>2. CASE Redis \in results
      <4>1. PICK pc \in {"idle", "clear"} : Goto(c, pc)
        BY <2>0, <2>2, <3>2 DEF CheckResult, Decide, AfterReturn
      <4> QED BY <2>0, <2>2, <4>1, LateFrame DEF CheckResult, Goto, TypeOK, Call
    <3>3. CASE ~calls[c].late
      <4>1. PICK pc : Goto(c, pc)
        BY <2>0, <2>2 DEF CheckResult, Decide
      <4> QED
        BY <2>0, <2>2, <3>3, <4>1, LateFrame DEF CheckResult, Goto, TypeOK, Call
    <3> QED BY <3>1, <3>2, <3>3
  \* Nobody who is late waits, takes the lock or is inside.
  <2>3. CASE \/ CheckAgain(c) \/ TakeLock(c) \/ SetExpiry(c) \/ Succeed(c) \/ Fail(c)
             \/ KeepResult(c) \/ Unlock(c) \/ ReleaseLock(c)
    <3>1. ~calls[c].late
      BY <2>0, <2>3 DEF LateInv, RetryIsAnswered, Inside, At, CheckAgain, TakeLock,
                        SetExpiry, Succeed, Fail, KeepResult, Unlock, ReleaseLock
    <3>2. PICK pc : Goto(c, pc)
      BY <2>0, <2>3 DEF CheckAgain, TakeLock, SetExpiry, Succeed, Fail,
                        KeepResult, Unlock, ReleaseLock
    <3>3. Redis \in results => Redis \in results'
      BY <2>0, <2>3 DEF CheckAgain, TakeLock, SetExpiry, Succeed, Fail,
                        KeepResult, Unlock, ReleaseLock
    <3> QED BY <2>0, <3>1, <3>2, <3>3, LateFrame DEF Goto, TypeOK, Call
  <2>4. CASE ClearLock(c)
    BY <2>0, <2>4, LateFrame DEF ClearLock, Goto, TypeOK, Call
  <2>5. CASE ClearResult(c)
    <3>1. \A d \in Callers : ~calls'[d].late
      BY <2>0, <2>5 DEF ClearResult, ResultGone, TypeOK, Call
    <3> QED BY <3>1 DEF LateInv, RetryIsAnswered
  <2> QED BY <1>2, <2>1, <2>2, <2>3, <2>4, <2>5 DEF Step
<1>3. ASSUME NEW s \in Stores, ExpireLock(s) PROVE LateInv'
  BY <1>3, LateFrame DEF ExpireLock
<1>4. ASSUME NEW s \in Stores, ExpireResult(s) PROVE LateInv'
  <2>1. CASE s = Redis
    <3>1. \A d \in Callers : ~calls'[d].late
      BY <1>4, <2>1 DEF ExpireResult, ResultGone, TypeOK, Call
    <3> QED BY <3>1 DEF LateInv, RetryIsAnswered
  <2>2. CASE s # Redis
    BY <1>4, <2>2, LateFrame DEF ExpireResult
  <2> QED BY <2>1, <2>2
<1>5. ASSUME NEW p \in Processes, Crash(p) PROVE LateInv'
  <2>1. Redis \in results => Redis \in results'
    BY <1>5 DEF Crash
  <2> QED BY <1>5, <2>1, LateFrame DEF Crash, NoCall
<1>6. CASE UNCHANGED vars
  BY <1>6, LateFrame DEF vars
<1> QED
  BY <1>1, <1>2, <1>3, <1>4, <1>5, <1>6 DEF Next

\* For any number of callers and instances: while Redis answers, a call that begins
\* when the result is stored never performs the operation again.
THEOREM LateCallers == Spec => []RetryIsAnswered
<1>1. Init => LateInv
  BY DEF Init, NoCall, LateInv, RetryIsAnswered
<1> QED
  BY <1>1, TypeInit, TypeStep, LateStep, PTL DEF Spec, LateInv
=============================================================================
