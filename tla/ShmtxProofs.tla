---------------------------- MODULE ShmtxProofs ----------------------------
(***************************************************************************)
(* The lock of shmtx.c and spinlock.c, for any number of processes, any    *)
(* spinning parameters and any deaths: exclusion, and that it implements   *)
(* the abstract lock of module Mutex.                                      *)
(***************************************************************************)
EXTENDS Shmtx, TLAPS

\* What exclusion needs of the types.
PcOK == pc \in [Procs -> {"out", "trycas", "load", "cas", "fail", "in"}]

IInv == PcOK /\ WordIsOwner

LEMMA InitIInv == Init => IInv
  BY DEF Init, IInv, PcOK, WordIsOwner, Inside

\* How a step changes who is inside: p enters, p leaves, or nobody does.
Enters(p) ==
  /\ p \in Procs \ dead /\ lock = Free /\ lock' = Value[p]
  /\ Goto(p, "in") /\ UNCHANGED dead
Leaves(p) ==
  /\ p \in Inside \ dead /\ lock' = Free
  /\ Goto(p, "out") /\ UNCHANGED dead
Stays(p) ==
  /\ p \in Procs \ Inside /\ UNCHANGED <<lock, dead>>
  /\ \E l \in {"out", "trycas", "load", "cas", "fail"} : Goto(p, l)
Dies(p) == p \in Procs \ dead /\ dead' = dead \cup {p} /\ UNCHANGED <<lock, pc>>

LEMMA StepKinds ==
  ASSUME IInv, NEW p \in Procs,
         TryLoad(p) \/ LockCall(p) \/ Advance(p) \/ StrayUnlock(p) \/ Die(p)
  PROVE  Enters(p) \/ Leaves(p) \/ Stays(p) \/ Dies(p) \/ UNCHANGED <<lock, pc, dead>>
  <1> USE DEF Alive, Goto, Inside
  <1>1. CASE TryLoad(p) \/ LockCall(p)
    BY <1>1 DEF TryLoad, LockCall, Stays
  <1>2. CASE TryCas(p)
    BY <1>2 DEF TryCas, CompareAndSet, Enters, Stays
  <1>3. CASE LockLoad(p)
    BY <1>3 DEF LockLoad, Stays
  <1>4. CASE LockCas(p)
    BY <1>4 DEF LockCas, CompareAndSet, Enters, Stays
  <1>5. CASE Backoff(p)
    BY <1>5 DEF Backoff, Stays
  <1>6. CASE Unlock(p)
    <2>1. lock = Value[p]
      BY <1>6 DEF Unlock, IInv, WordIsOwner
    <2> QED BY <1>6, <2>1 DEF Unlock, CompareAndSet, Leaves
  <1>7. CASE StrayUnlock(p)
    <2>1. ASSUME lock = Value[p], ~ByStore PROVE FALSE
      <3>1. PICK q \in Inside : lock = Value[q]
        BY <2>1, ShmtxAssumption DEF IInv, WordIsOwner
      <3>2. q = p
        BY <2>1, <3>1, ShmtxAssumption
      <3> QED BY <1>7, <3>1, <3>2 DEF StrayUnlock
    <2> QED BY <1>7, <2>1 DEF StrayUnlock, CompareAndSet
  <1>8. CASE Die(p)
    BY <1>8 DEF Die, Dies
  <1> QED BY <1>1, <1>2, <1>3, <1>4, <1>5, <1>6, <1>7, <1>8 DEF Advance

LEMMA InsideStep ==
  ASSUME IInv, NEW p \in Procs
  PROVE  /\ Enters(p) => Inside = {} /\ Inside' = {p}
         /\ Leaves(p) => Inside = {p} /\ Inside' = {}
         /\ Stays(p) => Inside' = Inside
  <1>1. lock = Free => Inside = {}
    BY ShmtxAssumption DEF IInv, WordIsOwner, Inside
  <1>2. \A q \in Procs : Goto(p, "in") /\ q # p => pc'[q] = pc[q]
    BY DEF Goto, IInv, PcOK
  <1>3. ASSUME Enters(p) PROVE Inside = {} /\ Inside' = {p}
    BY <1>1, <1>3 DEF Enters, Inside, Goto, IInv, PcOK
  <1>4. ASSUME Leaves(p) PROVE Inside = {p} /\ Inside' = {}
    BY <1>4 DEF Leaves, Inside, Goto, IInv, PcOK, WordIsOwner
  <1>5. ASSUME Stays(p) PROVE Inside' = Inside
    BY <1>5 DEF Stays, Inside, Goto, IInv, PcOK
  <1> QED BY <1>3, <1>4, <1>5

LEMMA NextIInv == IInv /\ [Next]_vars => IInv'
  <1> SUFFICES ASSUME IInv, [Next]_vars PROVE IInv'
    OBVIOUS
  <1>1. CASE UNCHANGED <<lock, pc, dead>>
    BY <1>1 DEF IInv, PcOK, WordIsOwner, Inside
  <1>2. ASSUME NEW p \in Procs, Enters(p) PROVE IInv'
    <2>1. Inside' = {p} /\ lock' = Value[p]
      BY <1>2, InsideStep DEF Enters
    <2>2. PcOK'
      BY <1>2 DEF Enters, Goto, IInv, PcOK
    <2> QED BY <2>1, <2>2 DEF IInv, WordIsOwner
  <1>3. ASSUME NEW p \in Procs, Leaves(p) PROVE IInv'
    <2>1. Inside' = {} /\ lock' = Free
      BY <1>3, InsideStep DEF Leaves
    <2>2. PcOK'
      BY <1>3 DEF Leaves, Goto, IInv, PcOK
    <2> QED BY <2>1, <2>2 DEF IInv, WordIsOwner
  <1>4. ASSUME NEW p \in Procs, Stays(p) PROVE IInv'
    <2>1. Inside' = Inside /\ lock' = lock
      BY <1>4, InsideStep DEF Stays
    <2>2. PcOK'
      BY <1>4 DEF Stays, Goto, IInv, PcOK
    <2> QED BY <2>1, <2>2 DEF IInv, WordIsOwner
  <1>5. ASSUME NEW p \in Procs, Dies(p) PROVE IInv'
    BY <1>5 DEF Dies, IInv, PcOK, WordIsOwner, Inside
  <1> QED BY <1>1, <1>2, <1>3, <1>4, <1>5, StepKinds DEF Next, vars

\* One process at a time is inside, and the word names it: a failed
\* compare-and-swap and an unlock by another process change nothing.
THEOREM SpecWordIsOwner == Spec => []WordIsOwner
  <1>1. IInv => WordIsOwner
    BY DEF IInv
  <1> QED BY <1>1, InitIInv, NextIInv, PTL DEF Spec

\* The load and the compare-and-swap of a try, spinning, and stray unlocks
\* add nothing to the abstract lock but stuttering.
THEOREM SpecImplementsMutex == Spec => ImplementsMutex
  <1>1. Init => AbstractMutex!Init
    BY DEF Init, AbstractMutex!Init, Inside
  <1>2. IInv /\ [Next]_vars => [AbstractMutex!Next]_<<Inside, dead>>
    <2> SUFFICES ASSUME IInv, [Next]_vars PROVE [AbstractMutex!Next]_<<Inside, dead>>
      OBVIOUS
    <2>1. CASE UNCHANGED <<lock, pc, dead>>
      BY <2>1 DEF Inside
    <2>2. ASSUME NEW p \in Procs, Enters(p) PROVE AbstractMutex!Enter(p)
      BY <2>2, InsideStep DEF Enters, AbstractMutex!Enter
    <2>3. ASSUME NEW p \in Procs, Leaves(p) PROVE AbstractMutex!Leave(p)
      BY <2>3, InsideStep DEF Leaves, AbstractMutex!Leave
    <2>4. ASSUME NEW p \in Procs, Stays(p) PROVE UNCHANGED <<Inside, dead>>
      BY <2>4, InsideStep DEF Stays
    <2>5. ASSUME NEW p \in Procs, Dies(p) PROVE AbstractMutex!Die(p)
      BY <2>5 DEF Dies, AbstractMutex!Die, Inside
    <2> QED BY <2>1, <2>2, <2>3, <2>4, <2>5, StepKinds DEF Next, vars, AbstractMutex!Next
  <1> QED BY <1>1, <1>2, InitIInv, NextIInv, PTL DEF Spec, ImplementsMutex, AbstractMutex!Spec
=============================================================================
