------------------------------ MODULE LaneLock ------------------------------
(***************************************************************************)
(* What the run store promises about build lanes: a lane is a lock.  An    *)
(* owner takes it only while nobody holds it and gives it back once.  A    *)
(* crash drops all locks, and the restart may find a lane that several     *)
(* owners held in turn and none gave back durably; it hands the lane to no *)
(* one else before all of them have released it.                           *)
(***************************************************************************)
CONSTANTS Lane, Owner

VARIABLE holders

LockInit == holders = [l \in Lane |-> {}]

Acquire(l, o) ==
  /\ holders[l] = {}
  /\ holders' = [holders EXCEPT ![l] = {o}]

Release(l, o) ==
  /\ o \in holders[l]
  /\ holders' = [holders EXCEPT ![l] = @ \ {o}]

Lose == holders' = [l \in Lane |-> {}]

Recover ==
  /\ \A l \in Lane : holders[l] = {}
  /\ holders' \in [Lane -> SUBSET Owner]

LockNext ==
  \/ \E l \in Lane, o \in Owner : Acquire(l, o) \/ Release(l, o)
  \/ Lose \/ Recover

LockSpec == LockInit /\ [][LockNext]_holders
=============================================================================
