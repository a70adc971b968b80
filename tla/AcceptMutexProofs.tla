------------------------- MODULE AcceptMutexProofs -------------------------
(***************************************************************************)
(* The accept mutex for any number of workers, slots and clients, any      *)
(* deaths and any failures of epoll_ctl() and accept().  The inductive     *)
(* invariant adds to the properties where accept_mutex_held and the        *)
(* listening event stand in each kind of iteration.                        *)
(***************************************************************************)
EXTENDS AcceptMutexProperties, TLAPS

\* accept_mutex_held is the registration of the listening event; a worker that
\* lost the mutex does not have it, one that won it does until EMFILE, and the
\* listening event is returned to no worker that lost the mutex.
Registered ==
  \A w \in Workers :
    /\ active[w] = held[w]
    /\ mode[w] = "lost" => ~held[w]
    /\ mode[w] = "post" /\ pc[w] = "wait" => held[w]
    /\ pc[w] = "accept" => ~pending[w]
    /\ pc[w] = "accept" \/ (pc[w] = "dispatch" /\ pending[w]) =>
         mode[w] = "skip" \/ (mode[w] = "post" /\ held[w])

IInv == TypeOK /\ WordIsHolder /\ Registered

LEMMA IInvSuffices == IInv => TypeOK /\ WordIsHolder /\ OneListener /\ AcceptorsExclusive
  <1> SUFFICES ASSUME IInv PROVE OneListener /\ AcceptorsExclusive
    BY DEF IInv
  <1>1. OneListener
    BY DEF IInv, OneListener, WordIsHolder, Holding, Registered, TypeOK
  <1>2. AcceptorsExclusive
    BY DEF IInv, AcceptorsExclusive, WordIsHolder, Holding, Registered
  <1> QED BY <1>1, <1>2

LEMMA InitIInv == Init => IInv
  BY AcceptMutexAssumption DEF Init, IInv, TypeOK, WordIsHolder, Holding, Registered

-----------------------------------------------------------------------------
(* The types. *)

LEMMA TypeStep ==
  ASSUME TypeOK, NEW w \in Workers, WorkerNext(w) \/ CloseClient(w) \/ Die(w) \/ Connect
  PROVE  TypeOK'
  <1> USE DEF TypeOK, At, Goto, Set, lockVars, clientVars, ShmtxUnlock
  <1>1. CASE SkipMutex(w)
    BY <1>1 DEF SkipMutex
  <1>2. CASE TrylockLoad(w)
    BY <1>2 DEF TrylockLoad
  <1>3. CASE TrylockCas(w)
    BY <1>3 DEF TrylockCas
  <1>4. CASE Enable(w)
    BY <1>4 DEF Enable
  <1>5. CASE Lost(w)
    BY <1>5 DEF Lost
  <1>6. CASE Poll(w)
    BY <1>6 DEF Poll
  <1>7. CASE StartAccept(w)
    BY <1>7 DEF StartAccept
  <1>8. CASE Accept(w)
    <2>1. (Slots + 1) \div ReserveDiv - (Slots - used[w]) \in Int
      BY AcceptMutexAssumption
    <2>2. taken + 1 \in 0..arrived
      BY <1>8, AcceptMutexAssumption DEF Accept, Backlog
    <2>3. disabled' \in [Workers -> Int]
      BY <1>8, <2>1 DEF Accept
    <2>4. used' \in [Workers -> 0..Slots] /\ pc' \in [Workers -> {"lock", "cas", "enable", "lost", "wait", "dispatch", "accept", "handlers"}]
      BY <1>8, AcceptMutexAssumption DEF Accept
    <2> QED BY <1>8, <2>2, <2>3, <2>4 DEF Accept
  <1>9. CASE AcceptAgain(w)
    BY <1>9 DEF AcceptAgain
  <1>10. CASE AcceptNoFiles(w)
    <2>1. lock' \in Workers \cup {NoWorker}
      <3>1. lock' = lock \/ lock' = NoWorker
        BY <1>10 DEF AcceptNoFiles
      <3> QED BY <3>1
    <2>2. active' \in [Workers -> BOOLEAN] /\ held' \in [Workers -> BOOLEAN]
      <3>1. /\ active' = active \/ active' = [active EXCEPT ![w] = FALSE]
            /\ held' = held \/ held' = [held EXCEPT ![w] = FALSE]
        BY <1>10 DEF AcceptNoFiles
      <3> QED BY <3>1
    <2>4. disabled' \in [Workers -> Int]
      <3>1. disabled' = disabled \/ disabled' = [disabled EXCEPT ![w] = 1]
        BY <1>10 DEF AcceptNoFiles
      <3> QED BY <3>1
    <2>3. /\ UNCHANGED <<mode, pending, clientVars, dead>>
          /\ pc' \in [Workers -> {"lock", "cas", "enable", "lost", "wait", "dispatch", "accept", "handlers"}]
      BY <1>10 DEF AcceptNoFiles
    <2> QED BY <2>1, <2>2, <2>3, <2>4
  <1>11. CASE Unlock(w)
    BY <1>11 DEF Unlock
  <1>12. CASE EndIteration(w)
    BY <1>12 DEF EndIteration
  <1>13. CASE CloseClient(w)
    BY <1>13, AcceptMutexAssumption DEF CloseClient
  <1>14. CASE Die(w)
    BY <1>14, AcceptMutexAssumption DEF Die
  <1>15. CASE Connect
    BY <1>15, AcceptMutexAssumption DEF Connect
  <1> QED BY <1>1, <1>2, <1>3, <1>4, <1>5, <1>6, <1>7, <1>8, <1>9, <1>10, <1>11, <1>12, <1>13,
             <1>14, <1>15 DEF WorkerNext

-----------------------------------------------------------------------------
(* The lock. *)

\* A worker's step leaves the others where they are.
SameElsewhere(w) ==
  \A v \in Workers \ {w} :
    /\ pc'[v] = pc[v] /\ mode'[v] = mode[v] /\ held'[v] = held[v]
    /\ active'[v] = active[v] /\ pending'[v] = pending[v]

\* What a worker's step does to the lock.
Wins(w)   == lock = NoWorker /\ lock' = w /\ pc[w] = "cas" /\ pc'[w] = "enable"
Frees(w)  == Holding(w) /\ lock' = NoWorker /\ pc'[w] # "cas" /\ ~Holding(w)'
Keeps(w)  == UNCHANGED lock /\ (Holding(w)' <=> Holding(w))

LEMMA LockStep ==
  ASSUME IInv, NEW w \in Workers, WorkerNext(w) \/ CloseClient(w)
  PROVE  /\ SameElsewhere(w) /\ UNCHANGED dead /\ w \notin dead
         /\ Wins(w) \/ Frees(w) \/ Keeps(w)
         /\ \/ Wins(w)
            \/ pc[w] # "cas" /\ pc'[w] = "cas" /\ Keeps(w) /\ lock = NoWorker /\ ~Holding(w)
            \/ pc[w] = "cas" /\ pc'[w] # "cas" /\ Keeps(w) /\ lock # NoWorker /\ ~Holding(w)
            \/ pc[w] # "cas" /\ pc'[w] # "cas" /\ (Frees(w) \/ Keeps(w))
         /\ Registered'
  <1> USE DEF IInv, TypeOK, At, Goto, Set, lockVars, clientVars, ShmtxUnlock, Holding, Registered,
              WordIsHolder, SameElsewhere, Wins, Frees, Keeps
  <1>1. CASE SkipMutex(w)
    BY <1>1 DEF SkipMutex
  <1>2. CASE TrylockLoad(w)
    BY <1>2 DEF TrylockLoad
  <1>3. CASE TrylockCas(w)
    BY <1>3 DEF TrylockCas
  <1>4. CASE Enable(w)
    <2>1. pc[w] = "enable" /\ lock = w /\ w \notin dead /\ UNCHANGED <<pending, dead>>
      BY <1>4 DEF Enable
    <2>2. CASE /\ active' = [active EXCEPT ![w] = TRUE] /\ held' = [held EXCEPT ![w] = TRUE]
               /\ mode' = [mode EXCEPT ![w] = "post"] /\ pc' = [pc EXCEPT ![w] = "wait"]
               /\ UNCHANGED lock
      BY <2>1, <2>2
    <2>3. CASE /\ lock' = NoWorker /\ pc' = [pc EXCEPT ![w] = "lock"]
               /\ UNCHANGED <<held, active, mode>>
      BY <2>1, <2>3
    <2> QED BY <1>4, <2>1, <2>2, <2>3 DEF Enable
  <1>5. CASE Lost(w)
    <2>1. pc[w] = "lost" /\ w \notin dead /\ UNCHANGED <<lock, pending, dead>>
      BY <1>5 DEF Lost
    <2>2. CASE /\ active' = [active EXCEPT ![w] = FALSE] /\ held' = [held EXCEPT ![w] = FALSE]
               /\ mode' = [mode EXCEPT ![w] = "lost"] /\ pc' = [pc EXCEPT ![w] = "wait"]
      BY ZenonT(60), <2>1, <2>2
    <2>3. CASE pc' = [pc EXCEPT ![w] = "lock"] /\ UNCHANGED <<held, active, mode>>
      BY <2>1, <2>3
    <2>4. (active[w] /\ ~held[w]) = FALSE
      OBVIOUS
    <2> QED BY <1>5, <2>2, <2>3, <2>4 DEF Lost
  <1>6. CASE Poll(w)
    BY <1>6 DEF Poll
  <1>7. CASE StartAccept(w)
    BY <1>7 DEF StartAccept
  <1>8. CASE Accept(w)
    BY <1>8 DEF Accept
  <1>9. CASE AcceptAgain(w)
    BY <1>9 DEF AcceptAgain
  <1>10. CASE AcceptNoFiles(w)
    <2>1. /\ pc[w] = "accept" /\ pc' = [pc EXCEPT ![w] = "dispatch"] /\ w \notin dead
          /\ UNCHANGED <<mode, pending, dead>>
      BY <1>10 DEF AcceptNoFiles
    <2>2. CASE UNCHANGED <<lock, held, active>>
      BY <2>1, <2>2
    <2>3. CASE /\ active' = [active EXCEPT ![w] = FALSE] /\ held' = [held EXCEPT ![w] = FALSE]
               /\ IF held[w] THEN lock' = (IF lock = w THEN NoWorker ELSE lock) ELSE UNCHANGED lock
      <3>1. CASE Holding(w)
        BY ZenonT(60), <2>1, <2>3, <3>1, AcceptMutexAssumption
      <3>2. CASE ~Holding(w)
        BY ZenonT(60), <2>1, <2>3, <3>2, AcceptMutexAssumption
      <3> QED BY <3>1, <3>2
    <2> QED BY <1>10, <2>2, <2>3 DEF AcceptNoFiles
  <1>11. CASE Unlock(w)
    BY <1>11 DEF Unlock
  <1>12. CASE EndIteration(w)
    BY <1>12 DEF EndIteration
  <1>13. CASE CloseClient(w)
    BY <1>13 DEF CloseClient
  <1> QED BY <1>1, <1>2, <1>3, <1>4, <1>5, <1>6, <1>7, <1>8, <1>9, <1>10, <1>11, <1>12, <1>13
          DEF WorkerNext

\* WordIsHolder only needs to know which of the three a step was.
LEMMA WordStep ==
  ASSUME IInv, NEW w \in Workers, SameElsewhere(w), Wins(w) \/ Frees(w) \/ Keeps(w)
  PROVE  WordIsHolder'
  <1>1. \A v \in Workers \ {w} : Holding(v)' <=> Holding(v)
    BY DEF SameElsewhere, Holding
  <1>2. \A v \in Workers : v # NoWorker
    BY AcceptMutexAssumption
  <1>3. CASE Wins(w)
    BY <1>1, <1>2, <1>3 DEF Wins, IInv, WordIsHolder, Holding
  <1>4. CASE Frees(w)
    BY <1>1, <1>2, <1>4 DEF Frees, IInv, WordIsHolder
  <1>5. CASE Keeps(w)
    BY <1>1, <1>5 DEF Keeps, IInv, WordIsHolder
  <1> QED BY <1>3, <1>4, <1>5

\* A death, a client and stuttering leave all of this alone.
LEMMA IdleStep ==
  ASSUME IInv, UNCHANGED <<lock, pc, mode, held, active, pending>>
  PROVE  WordIsHolder' /\ Registered'
  BY DEF IInv, WordIsHolder, Registered, Holding

LEMMA NextIInv == IInv /\ [Next]_vars => IInv'
  <1> SUFFICES ASSUME IInv, [Next]_vars PROVE IInv'
    OBVIOUS
  <1>1. ASSUME NEW w \in Workers, WorkerNext(w) \/ CloseClient(w) PROVE IInv'
    <2>1. TypeOK'
      BY <1>1, TypeStep DEF IInv
    <2>2. Registered' /\ SameElsewhere(w) /\ (Wins(w) \/ Frees(w) \/ Keeps(w))
      BY <1>1, LockStep
    <2> QED BY <2>1, <2>2, WordStep DEF IInv
  <1>2. ASSUME NEW w \in Workers, Die(w) PROVE IInv'
    BY <1>2, TypeStep, IdleStep DEF Die, lockVars, IInv
  <1>3. CASE Connect
    <2>1. TypeOK'
      BY <1>3, AcceptMutexAssumption DEF Connect, IInv, TypeOK, lockVars
    <2> QED BY <1>3, <2>1, IdleStep DEF Connect, lockVars, IInv
  <1>4. CASE UNCHANGED vars
    BY <1>4, IdleStep DEF vars, IInv, TypeOK
  <1> QED BY <1>1, <1>2, <1>3, <1>4 DEF Next

LEMMA SpecIInv == Spec => []IInv
  BY InitIInv, NextIInv, PTL DEF Spec

\* The lock word always names the worker that holds the mutex: no stray
\* unlock, lost race, failed epoll_ctl() or death makes two holders, and no
\* live worker keeps the word past its unlock.
THEOREM SpecWordIsHolder == Spec => []WordIsHolder
  BY SpecIInv, IInvSuffices, PTL

\* epoll wakes for new clients the holder and the workers that skip.
THEOREM SpecOneListener == Spec => []OneListener
  BY SpecIInv, IInvSuffices, PTL

\* Two workers accept at once only if one of them skipped the mutex.
THEOREM SpecAcceptorsExclusive == Spec => []AcceptorsExclusive
  BY SpecIInv, IInvSuffices, PTL

-----------------------------------------------------------------------------
(* The workers use the lock of module Shmtx. *)

ClassOf(w) == IF pc[w] = "cas" THEN "trycas" ELSE IF Holding(w) THEN "in" ELSE "out"

LEMMA LockPcStep ==
  ASSUME NEW w \in Workers, SameElsewhere(w), NEW l, ClassOf(w)' = l
  PROVE  LockPc' = [LockPc EXCEPT ![w] = l]
  <1>1. \A v \in Workers \ {w} : ClassOf(v)' = ClassOf(v)
    BY DEF SameElsewhere, ClassOf, Holding
  <1>2. LockPc = [v \in Workers |-> ClassOf(v)] /\ LockPc' = [v \in Workers |-> ClassOf(v)']
    BY DEF LockPc, ClassOf
  <1> HIDE DEF ClassOf
  <1> QED BY <1>1, <1>2

LEMMA StepUsesLock ==
  ASSUME IInv, NEW w \in Workers, WorkerNext(w) \/ CloseClient(w)
  PROVE  Lock!Next \/ UNCHANGED Lock!vars
  <1> DEFINE same == [v \in Workers |-> -1]
  <1>1. SameElsewhere(w) /\ UNCHANGED dead /\ w \notin dead
    BY LockStep
  <1>2. LockPc[w] = ClassOf(w)
    BY DEF LockPc, ClassOf
  <1>3. UNCHANGED same
    OBVIOUS
  <1>4. ASSUME Wins(w) PROVE Lock!TryCas(w)
    <2>1. LockPc[w] = "trycas"
      BY <1>2, <1>4 DEF ClassOf, Wins
    <2>2. LockPc' = [LockPc EXCEPT ![w] = "in"]
      BY <1>1, <1>4, LockPcStep DEF ClassOf, Wins, Holding
    <2> QED BY <1>1, <1>3, <1>4, <2>1, <2>2
            DEF Lock!TryCas, Lock!CompareAndSet, Lock!Goto, Lock!Alive, Wins
  <1>5. ASSUME pc[w] # "cas", pc'[w] = "cas", Keeps(w), lock = NoWorker, ~Holding(w)
        PROVE  Lock!TryLoad(w)
    <2>1. LockPc[w] = "out"
      BY <1>2, <1>5 DEF ClassOf
    <2>2. LockPc' = [LockPc EXCEPT ![w] = "trycas"]
      BY <1>1, <1>5, LockPcStep DEF ClassOf
    <2> QED BY <1>1, <1>3, <1>5, <2>1, <2>2 DEF Lock!TryLoad, Lock!Goto, Lock!Alive, Keeps
  <1>6. ASSUME pc[w] = "cas", pc'[w] # "cas", Keeps(w), lock # NoWorker, ~Holding(w)
        PROVE  Lock!TryCas(w)
    <2>1. LockPc[w] = "trycas"
      BY <1>2, <1>6 DEF ClassOf
    <2>2. LockPc' = [LockPc EXCEPT ![w] = "out"]
      BY <1>1, <1>6, LockPcStep DEF ClassOf, Keeps
    <2> QED BY <1>1, <1>3, <1>6, <2>1, <2>2
            DEF Lock!TryCas, Lock!CompareAndSet, Lock!Goto, Lock!Alive, Keeps
  <1>7. ASSUME pc[w] # "cas", Frees(w) PROVE Lock!Unlock(w)
    <2>1. LockPc[w] = "in" /\ lock = w
      BY <1>2, <1>7 DEF ClassOf, Frees, IInv, WordIsHolder
    <2>2. LockPc' = [LockPc EXCEPT ![w] = "out"]
      BY <1>1, <1>7, LockPcStep DEF ClassOf, Frees
    <2> QED BY <1>1, <1>3, <1>7, <2>1, <2>2
            DEF Lock!Unlock, Lock!CompareAndSet, Lock!Goto, Lock!Alive, Frees
  <1>8. ASSUME pc[w] # "cas", pc'[w] # "cas", Keeps(w) PROVE UNCHANGED Lock!vars
    <2>1. ClassOf(w)' = ClassOf(w)
      BY <1>8 DEF ClassOf, Keeps
    <2>2. LockPc' = [LockPc EXCEPT ![w] = ClassOf(w)]
      BY <1>1, <2>1, LockPcStep
    <2>3. LockPc' = LockPc
      BY <1>2, <2>2 DEF LockPc
    <2> QED BY <1>1, <1>3, <1>8, <2>3 DEF Lock!vars, Keeps
  <1> QED BY <1>4, <1>5, <1>6, <1>7, <1>8, LockStep DEF Lock!Next, Lock!Advance

\* What the workers do to the lock word and in which order is what module
\* Shmtx allows its processes, so that its theorems are about the workers.
THEOREM SpecUsesLock == Spec => UsesLock
  <1>1. Init => Lock!Init
    BY DEF Init, Lock!Init, LockPc, Holding
  <1>2. IInv /\ [Next]_vars => [Lock!Next]_(Lock!vars)
    <2> SUFFICES ASSUME IInv, [Next]_vars PROVE Lock!Next \/ UNCHANGED Lock!vars
      OBVIOUS
    <2>1. CASE UNCHANGED <<lock, pc, mode, held, dead>>
      BY <2>1 DEF Lock!vars, LockPc, Holding
    <2>2. ASSUME NEW w \in Workers, WorkerNext(w) \/ CloseClient(w)
          PROVE  Lock!Next \/ UNCHANGED Lock!vars
      BY <2>2, StepUsesLock
    <2>3. ASSUME NEW w \in Workers, Die(w) PROVE Lock!Next
      <3>1. LockPc' = LockPc
        BY <2>3 DEF Die, lockVars, LockPc, Holding
      <3>2. Lock!Die(w)
        BY <2>3, <3>1 DEF Die, lockVars, Lock!Die, Lock!Alive
      <3> QED BY <3>2 DEF Lock!Next
    <2>4. CASE Connect
      BY <2>1, <2>4 DEF Connect, lockVars
    <2>5. CASE UNCHANGED vars
      BY <2>1, <2>5 DEF vars
    <2> QED BY <2>2, <2>3, <2>4, <2>5 DEF Next
  <1> QED BY <1>1, <1>2, InitIInv, NextIInv, PTL DEF Spec, UsesLock
=============================================================================
