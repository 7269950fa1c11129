------------------------ MODULE SingleWriterLock_proofs ------------------------
(***************************************************************************)
(* The pidfile protects the database if no two processes boot at once,     *)
(* however many processes there are, whatever pids they get, and wherever  *)
(* they crash.                                                             *)
(***************************************************************************)
EXTENDS SingleWriterLock, TLAPS

\* Every state has the types TypeOK gives it.
THEOREM Typing == Spec => []TypeOK
<1> USE ConstantsAssumption DEF TypeOK, Alive, Booting
<1>1. Init => TypeOK
  BY DEF Init
<1>2. TypeOK /\ [Next]_vars => TypeOK'
  <2> SUFFICES ASSUME TypeOK, [Next]_vars PROVE TypeOK'
    OBVIOUS
  <2>1. ASSUME NEW p \in Processes, Boot(p) PROVE TypeOK'
    BY <2>1 DEF Boot, Goto
  <2>2. ASSUME NEW p \in Processes, Open(p) \/ Retry(p) \/ Reopen(p) PROVE TypeOK'
    BY <2>2 DEF Open, Retry, Reopen, Create, Goto
  <2>3. ASSUME NEW p \in Processes, WritePid(p) \/ Read(p) \/ Check(p) \/ Remove(p)
        PROVE TypeOK'
    BY <2>3 DEF WritePid, Read, Check, Remove, Goto
  <2>4. ASSUME NEW p \in Processes, Release(p) \/ Crash(p) PROVE TypeOK'
    BY <2>4 DEF Release, Crash, Goto
  <2>5. CASE UNCHANGED vars
    BY <2>5 DEF vars
  <2> QED
    BY <2>1, <2>2, <2>3, <2>4, <2>5 DEF Next, Acquire
<1> QED
  BY <1>1, <1>2, PTL DEF Spec

-------------------------------------------------------------------------------
(* Boots that do not overlap *)

\* At most one process is booting.
OneBoot == \A p, o \in Processes : pc[p] \in Booting /\ pc[o] \in Booting => p = o

\* What a booting process has learnt: it is about to write its own file, it has
\* read the holder's pid, or it went past the check and nobody holds the lock.
BootKnows ==
  \A p \in Processes :
    /\ pc[p] = "write" => creator = p
    /\ pc[p] = "check" => \A h \in Holders : seen[p] = pid[h]
    /\ pc[p] = "remove" => Holders = {}
    /\ pc[p] \in {"reopen", "retry"} => creator = NoProcess

AliveHasPid == \A p \in Processes : pc[p] \in Alive => pid[p] \in Pids

SerialInv == OneBoot /\ BootKnows /\ AliveHasPid /\ PidfileNamesHolder

\* The strengthening is inductive: a boot past its check finds no holder, because
\* the only process that could have become one since is the booting one itself.
LEMMA SerialInvariant == ASSUME ~BootsOverlap PROVE Spec => []SerialInv
<1> USE ConstantsAssumption
    DEF TypeOK, Booting, Alive, SerialInv, OneBoot, BootKnows, AliveHasPid, PidfileNamesHolder,
        Holders
<1>1. Init => SerialInv
  BY DEF Init
<1>2. TypeOK /\ TypeOK' /\ SerialInv /\ [Next]_vars => SerialInv'
  <2> SUFFICES ASSUME TypeOK, TypeOK', SerialInv, [Next]_vars PROVE SerialInv'
    OBVIOUS
  <2>1. ASSUME NEW p \in Processes, Boot(p) PROVE SerialInv'
    BY <2>1 DEF Boot, Goto
  <2>2. ASSUME NEW p \in Processes, Open(p) PROVE SerialInv'
    BY <2>2 DEF Open, Create, Goto
  <2>3. ASSUME NEW p \in Processes, WritePid(p) PROVE SerialInv'
    BY <2>3 DEF WritePid, Goto
  <2>4. ASSUME NEW p \in Processes, Read(p) PROVE SerialInv'
    BY <2>4 DEF Read, Goto
  <2>5. ASSUME NEW p \in Processes, Retry(p) PROVE SerialInv'
    BY <2>5 DEF Retry, Create, Goto
  <2>6. ASSUME NEW p \in Processes, Check(p) PROVE SerialInv'
    <3>1. CASE Goto(p, "refused")
      BY <2>6, <3>1 DEF Check, Goto
    <3>2. CASE Goto(p, "remove") /\ (seen[p] = NoPid \/ FALSE \in PidAlive(seen[p]))
      <4>1. FALSE \in PidAlive(seen[p]) =>
              \A o \in Processes : ~(pid[o] = seen[p] /\ pc[o] \in Alive)
        BY DEF PidAlive
      <4>2. ASSUME NEW h \in Processes, pc[h] = "holding" PROVE FALSE
        <5>1. seen[p] = pid[h] /\ pid[h] \in Pids
          BY <2>6, <4>2 DEF Check
        <5>2. seen[p] # NoPid /\ pid[h] = seen[p] /\ pc[h] \in Alive
          BY <4>2, <5>1
        <5> QED
          BY <3>2, <4>1, <5>2
      <4> QED
        BY <2>6, <3>2, <4>2 DEF Check, Goto
    <3> QED
      BY <2>6, <3>1, <3>2 DEF Check
  <2>7. ASSUME NEW p \in Processes, Remove(p) PROVE SerialInv'
    BY <2>7 DEF Remove, Goto
  <2>8. ASSUME NEW p \in Processes, Reopen(p) PROVE SerialInv'
    BY <2>8 DEF Reopen, Create, Goto
  <2>9. ASSUME NEW p \in Processes, Release(p) PROVE SerialInv'
    BY <2>9 DEF Release, Goto
  <2>10. ASSUME NEW p \in Processes, Crash(p) PROVE SerialInv'
    BY <2>10 DEF Crash, Goto
  <2>11. CASE UNCHANGED vars
    BY <2>11 DEF vars
  <2> QED
    BY <2>1, <2>2, <2>3, <2>4, <2>5, <2>6, <2>7, <2>8, <2>9, <2>10, <2>11 DEF Next, Acquire
<1> QED
  BY <1>1, <1>2, Typing, PTL DEF Spec

\* The pidfile always names the process that has the database open.
THEOREM PidfileIsRight == ASSUME ~BootsOverlap PROVE Spec => []PidfileNamesHolder
<1>1. SerialInv => PidfileNamesHolder
  BY DEF SerialInv
<1> QED
  BY <1>1, SerialInvariant, PTL

\* No two processes have the database open.
THEOREM MutualExclusion == ASSUME ~BootsOverlap PROVE Spec => []OneWriter
<1>1. SerialInv => OneWriter
  BY DEF SerialInv, PidfileNamesHolder, OneWriter
<1> QED
  BY <1>1, SerialInvariant, PTL

\* Every behaviour of the lock is one of its abstract specification: the database
\* is opened only when nobody has it open, by the write of the pid.
THEOREM Refinement == ASSUME ~BootsOverlap PROVE Spec => ImplementsExclusiveWriter
<1>1. Init => Abstract!Init
  BY DEF Init, Abstract!Init, Holders
<1>2. TypeOK /\ SerialInv /\ [Next]_vars => [Abstract!Next]_Holders
  <2> SUFFICES ASSUME TypeOK, SerialInv, [Next]_vars PROVE Abstract!Next \/ Holders' = Holders
    OBVIOUS
  <2> USE DEF TypeOK, Goto
  <2>1. ASSUME NEW p \in Processes, WritePid(p) PROVE Abstract!Next
    <3>1. Holders = {}
      BY <2>1 DEF WritePid, SerialInv, BootKnows, PidfileNamesHolder, Holders
    <3>2. Holders' = {p}
      BY <2>1, <3>1 DEF WritePid, Holders
    <3> QED
      BY <3>1, <3>2 DEF Abstract!Next, Abstract!Enter
  <2>2. ASSUME NEW p \in Processes, pc[p] = "holding", pc' = [pc EXCEPT ![p] = "gone"]
        PROVE  Abstract!Next
    <3>1. p \in Holders /\ Holders' = Holders \ {p}
      BY <2>2 DEF Holders
    <3> QED
      BY <3>1 DEF Abstract!Next, Abstract!Leave
  <2>3. ASSUME NEW p \in Processes, NEW label, pc[p] # "holding", label # "holding",
               pc' = [pc EXCEPT ![p] = label]
        PROVE  Holders' = Holders
    BY <2>3 DEF Holders
  <2>4. CASE UNCHANGED vars
    BY <2>4 DEF vars, Holders
  <2>5. ASSUME NEW p \in Processes, Crash(p) PROVE Abstract!Next \/ Holders' = Holders
    BY <2>5, <2>2, <2>3 DEF Crash
  <2>6. ASSUME NEW p \in Processes, Boot(p) \/ Read(p) \/ Check(p) \/ Remove(p)
        PROVE  Holders' = Holders
    BY <2>6, <2>3 DEF Boot, Read, Check, Remove
  <2>7. ASSUME NEW p \in Processes, Open(p) \/ Retry(p) \/ Reopen(p) PROVE Holders' = Holders
    BY <2>7, <2>3 DEF Open, Retry, Reopen, Create
  <2> QED
    BY <2>1, <2>2, <2>4, <2>5, <2>6, <2>7 DEF Next, Acquire, Release
<1> QED
  BY <1>1, <1>2, Typing, SerialInvariant, PTL DEF Spec, ImplementsExclusiveWriter, Abstract!Spec
=============================================================================
