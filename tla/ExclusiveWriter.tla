---------------------------- MODULE ExclusiveWriter ----------------------------
(***************************************************************************)
(* What the lock of db/singleWriterLock.ts promises: of the processes that *)
(* share a database file, one at a time has it open.                       *)
(***************************************************************************)
CONSTANT Processes
VARIABLE writers   \* the processes that have the database open

Init == writers = {}

Enter(p) ==
  /\ writers = {}
  /\ writers' = {p}

Leave(p) ==
  /\ p \in writers
  /\ writers' = writers \ {p}

Next == \E p \in Processes : Enter(p) \/ Leave(p)

Spec == Init /\ [][Next]_writers
=============================================================================
