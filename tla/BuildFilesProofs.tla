-------------------------- MODULE BuildFilesProofs ---------------------------
(***************************************************************************)
(* Theorems about BuildFiles, for every finite set of slices, every order  *)
(* of the manifest and every number of lost plans and commits.             *)
(***************************************************************************)
EXTENDS BuildFiles, SequenceTheorems, FiniteSetTheorems,
        WellFoundedInduction, TLAPS

Entry == [n : Slice, status : {"todo", "in-progress", "done"},
          rplan : BOOLEAN,
          approved : [done : BOOLEAN, commit : {None} \cup (Slice \X Nat)]]

(* What the invariant needs of an entry, given the reviewed slices r and   *)
(* where the agent is: a recorded commit is the slice's own, a done slice  *)
(* has been reviewed, and no agent is at a done slice before its last step *)
(* (it could commit there again).                                          *)
SoundEntry(s, r, a) ==
  /\ s.approved.done => s.approved.commit[1] = s.n
  /\ s.status = "done" => s.n \in r
  /\ a # None /\ a.step # "qa" /\ s.n = a.slice => s.status # "done"

Sound == \A i \in DOMAIN manifest : SoundEntry(manifest[i], reviewed, at)

IInv == TypeOK /\ Sound

-----------------------------------------------------------------------------
(* A set of entries that is not empty has one with the lowest number, so    *)
(* that the CHOOSE of ComputeResumeTarget is about something.               *)
LEMMA LowestExists ==
  ASSUME NEW P, P # {}, \A s \in P : s.n \in Nat
  PROVE  \E s \in P : \A t \in P : s.n <= t.n
<1> DEFINE N == {s.n : s \in P}
<1>1. N \subseteq Nat /\ N # {}
  OBVIOUS
<1>2. PICK m \in N : \A k \in N : ~ (<<k, m>> \in OpToRel(<, Nat))
  BY <1>1, WFMin, NatLessThanWellFounded, Zenon
<1>3. \A k \in N : m <= k
  <2>1. SUFFICES ASSUME NEW k \in N PROVE m <= k
    OBVIOUS
  <2>2. m \in Nat /\ k \in Nat
    BY <1>1
  <2>3. ~(k < m)
    BY <1>2, <2>2 DEF OpToRel
  <2> QED
    BY <2>2, <2>3
<1>4. PICK s \in P : s.n = m
  OBVIOUS
<1> QED
  BY <1>3, <1>4

(* Entries that are changed but keep their numbers leave a manifest.       *)
LEMMA KeepsNumbers ==
  ASSUME NEW m \in Seq(Entry), NEW m2,
         m2 = [i \in DOMAIN m |-> m2[i]],
         \A i \in DOMAIN m : m2[i] \in Entry /\ m2[i].n = m[i].n
  PROVE  /\ m2 \in Seq(Entry)
         /\ {s.n : s \in Range(m2)} = {s.n : s \in Range(m)}
<1>1. DOMAIN m2 = DOMAIN m
  OBVIOUS
<1>2. m2 \in Seq(Entry)
  <2>1. DOMAIN m = 1 .. Len(m) /\ Len(m) \in Nat
    BY LenProperties
  <2>2. m2 \in [1 .. Len(m) -> Entry]
    BY <2>1
  <2> QED
    BY <2>1, <2>2, SeqDef
<1>3. {s.n : s \in Range(m2)} = {m2[i].n : i \in DOMAIN m2}
  BY DEF Range
<1>4. {s.n : s \in Range(m)} = {m[i].n : i \in DOMAIN m}
  BY DEF Range
<1>5. {m2[i].n : i \in DOMAIN m2} = {m[i].n : i \in DOMAIN m}
  BY <1>1
<1> QED
  BY <1>2, <1>3, <1>4, <1>5, Zenon

LEMMA EntryOf ==
  ASSUME TypeOK
  PROVE  /\ manifest \in Seq(Entry)
         /\ \A i \in DOMAIN manifest : manifest[i] \in Entry
         /\ \A s \in Range(manifest) :
              s \in Entry /\ \E i \in DOMAIN manifest : s = manifest[i]
         /\ \A n \in Slice : \E s \in Range(manifest) : s.n = n
<1>1. manifest \in Seq(Entry)
  BY DEF TypeOK, Entry
<1>2. \A i \in DOMAIN manifest : manifest[i] \in Entry
  BY <1>1
<1>3. \A n \in Slice : \E s \in Range(manifest) : s.n = n
  BY DEF TypeOK
<1> QED
  BY <1>1, <1>2, <1>3 DEF Range

(* The resume target is none exactly when every slice is finished;         *)
(* otherwise every slice before it is.                                     *)
LEMMA TargetIsFirst ==
  ASSUME TypeOK
  PROVE  LET target == ComputeResumeTarget
         IN  /\ target = None \/ target \in [slice : Slice, step : Step]
             /\ target = None => \A s \in Range(manifest) : Finished(s)
             /\ target # None =>
                  \A s \in Range(manifest) : s.n < target.slice => Finished(s)
<1> DEFINE pending == {s \in Range(manifest) : ~Finished(s)}
           first == CHOOSE s \in pending : \A t \in pending : s.n <= t.n
           target == ComputeResumeTarget
<1>1. \A s \in Range(manifest) : s \in Entry /\ s.n \in Nat /\ s.n \in Slice
  BY EntryOf, BuildFilesAssumption DEF Entry
<1>2. CASE pending = {}
  <2>1. target = None
    BY <1>2 DEF ComputeResumeTarget
  <2> QED
    BY <1>2, <2>1
<1>3. CASE pending # {}
  <2>1. first \in pending /\ \A t \in pending : first.n <= t.n
    <3>1. \A s \in pending : s.n \in Nat
      BY <1>1
    <3>2. \E s \in pending : \A t \in pending : s.n <= t.n
      BY <1>3, <3>1, LowestExists
    <3> QED
      BY <3>2
  <2>2. target = [slice |-> first.n,
                  step  |-> IF ~StepVerified("rplan", first) THEN "rplan"
                            ELSE IF ~StepVerified("approved", first)
                            THEN "approved" ELSE "qa"]
    BY <1>3 DEF ComputeResumeTarget
  <2>3. first.n \in Slice /\ first.n \in Nat
    BY <1>1, <2>1
  <2>4. target \in [slice : Slice, step : Step] /\ target.slice = first.n
    BY <2>2, <2>3 DEF Step
  <2>5. target # None
    BY <2>4, BuildFilesAssumption DEF Step
  <2>6. ASSUME NEW s \in Range(manifest), s.n < first.n PROVE Finished(s)
    <3>1. s.n \in Nat
      BY <1>1
    <3> QED
      BY <2>1, <2>3, <2>6, <3>1
  <2> QED
    BY <2>4, <2>5, <2>6
<1> QED
  BY <1>2, <1>3

-----------------------------------------------------------------------------
(* The steps that leave the manifest alone.                                *)
LEMMA InitSound == Init => IInv
<1> SUFFICES ASSUME Init PROVE IInv
  OBVIOUS
<1>1. \A i \in DOMAIN Order : Order[i] \in Slice
  BY BuildFilesAssumption
<1>2. \A i \in DOMAIN Order :
        manifest[i] \in Entry /\ manifest[i].n = Order[i]
          /\ manifest[i].status = "todo" /\ ~manifest[i].approved.done
  BY <1>1 DEF Init, Entry
<1>3. manifest \in Seq(Entry)
  <2>1. DOMAIN Order = 1 .. Len(Order) /\ Len(Order) \in Nat
    BY BuildFilesAssumption, LenProperties
  <2>2. manifest \in [1 .. Len(Order) -> Entry]
    BY <1>2, <2>1 DEF Init
  <2> QED
    BY <2>1, <2>2, SeqDef
<1>4. {s.n : s \in Range(manifest)} = Slice
  <2>1. DOMAIN manifest = DOMAIN Order
    BY DEF Init
  <2>2. {s.n : s \in Range(manifest)} = {manifest[i].n : i \in DOMAIN manifest}
    BY DEF Range
  <2>3. Slice = {Order[i] : i \in DOMAIN Order}
    BY BuildFilesAssumption DEF Range
  <2> QED
    BY <1>2, <2>1, <2>2, <2>3
<1>5. TypeOK
  <2>1. /\ plans = {} /\ reviewed = {} /\ commits = {} /\ ticks = None
        /\ alive = FALSE /\ at = None /\ losses = 0
    BY DEF Init
  <2>2. losses \in 0 .. MaxLosses
    BY <2>1, BuildFilesAssumption
  <2> QED
    BY <1>3, <1>4, <2>1, <2>2, Zenon DEF TypeOK, Entry
<1>6. Sound
  <2>1. DOMAIN manifest = DOMAIN Order /\ at = None
    BY DEF Init
  <2> QED
    BY <1>2, <2>1 DEF Sound, SoundEntry
<1> QED
  BY <1>5, <1>6 DEF IInv

(* Steps that leave the manifest alone: the rest of the types, and that no  *)
(* entry loses what makes it sound.                                        *)
LEMMA KeepsManifest ==
  ASSUME IInv, manifest' = manifest,
         plans' \subseteq Slice, reviewed' \subseteq Slice,
         commits' \subseteq Slice \X (0 .. MaxLosses),
         ticks' = None \/ ticks' \subseteq Slice,
         alive' \in BOOLEAN,
         at' = None \/ (alive' /\ at' \in [slice : Slice, step : Step]),
         losses' \in 0 .. MaxLosses,
         \A i \in DOMAIN manifest :
           SoundEntry(manifest[i], reviewed, at)
             => SoundEntry(manifest[i], reviewed', at')
  PROVE  IInv'
<1>1. TypeOK'
  BY Zenon DEF IInv, TypeOK
<1>2. Sound'
  BY Zenon DEF IInv, Sound
<1> QED
  BY <1>1, <1>2 DEF IInv

(* Steps that change the entry of the slice the agent is at.               *)
LEMMA KeepsMarked ==
  ASSUME IInv, UNCHANGED <<plans, reviewed, commits, ticks, alive, losses>>,
         manifest' = [i \in DOMAIN manifest |-> manifest'[i]],
         at' = None \/ (alive /\ at' \in [slice : Slice, step : Step]),
         \A i \in DOMAIN manifest :
           /\ manifest'[i] \in Entry /\ manifest'[i].n = manifest[i].n
           /\ SoundEntry(manifest'[i], reviewed, at')
  PROVE  IInv'
<1>1. manifest \in Seq(Entry)
  BY EntryOf DEF IInv
<1>2. /\ manifest' \in Seq(Entry)
      /\ {s.n : s \in Range(manifest')} = {s.n : s \in Range(manifest)}
  BY <1>1, KeepsNumbers
<1>3. TypeOK'
  BY <1>2, Zenon DEF IInv, TypeOK, Entry
<1>4. DOMAIN manifest' = DOMAIN manifest
  OBVIOUS
<1>5. Sound'
  BY <1>4 DEF Sound
<1> QED
  BY <1>3, <1>5 DEF IInv

LEMMA AgentFileSteps ==
  ASSUME IInv, Scratchpad \/ WritePlan \/ Commit \/ Review \/ Tick \/ Lose
  PROVE  IInv'
<1>1. CASE Scratchpad
  BY <1>1, KeepsManifest, Zenon DEF Scratchpad, IInv, TypeOK
<1>2. CASE WritePlan
  <2>1. at.slice \in Slice
    BY <1>2 DEF WritePlan, WorksAt, IInv, TypeOK
  <2> QED
    BY <1>2, <2>1, KeepsManifest DEF WritePlan, IInv, TypeOK
<1>3. CASE Commit
  <2>1. at.slice \in Slice /\ at # None /\ at.step = "approved"
    BY <1>3 DEF Commit, WorksAt, IInv, TypeOK
  <2>2. commits' \subseteq Slice \X (0 .. MaxLosses)
    BY <1>3, <2>1 DEF Commit, IInv, TypeOK
  <2>3. ASSUME NEW i \in DOMAIN manifest,
               SoundEntry(manifest[i], reviewed, at)
        PROVE  SoundEntry(manifest[i], reviewed', at')
    BY <1>3, <2>1, <2>3 DEF Commit, SoundEntry
  <2> QED
    BY <1>3, <2>2, <2>3, KeepsManifest DEF Commit, IInv, TypeOK
<1>4. CASE Review
  <2>1. at.slice \in Slice
    BY <1>4 DEF Review, WorksAt, IInv, TypeOK
  <2>2. ASSUME NEW i \in DOMAIN manifest,
               SoundEntry(manifest[i], reviewed, at)
        PROVE  SoundEntry(manifest[i], reviewed', at')
    BY <1>4, <2>2 DEF Review, SoundEntry
  <2> QED
    BY <1>4, <2>1, <2>2, KeepsManifest DEF Review, IInv, TypeOK
<1>5. CASE Tick
  <2>1. at.slice \in Slice /\ ticks \subseteq Slice
    BY <1>5 DEF Tick, WorksAt, IInv, TypeOK
  <2> QED
    BY <1>5, <2>1, KeepsManifest DEF Tick, IInv, TypeOK
<1>6. CASE Lose
  <2>1. losses' \in 0 .. MaxLosses
    BY <1>6, BuildFilesAssumption DEF Lose, IInv, TypeOK
  <2>2. plans' \subseteq Slice /\ commits' \subseteq Slice \X (0 .. MaxLosses)
    BY <1>6 DEF Lose, IInv, TypeOK
  <2> QED
    BY <1>6, <2>1, <2>2, KeepsManifest DEF Lose, IInv, TypeOK
<1> QED
  BY <1>1, <1>2, <1>3, <1>4, <1>5, <1>6

LEMMA AgentProcessSteps ==
  ASSUME IInv, Spawn \/ Ends \/ Go \/ UNCHANGED vars
  PROVE  IInv'
<1>1. CASE Spawn
  BY <1>1, KeepsManifest DEF Spawn, IInv, TypeOK
<1>2. CASE Ends
  <2>1. ASSUME NEW i \in DOMAIN manifest,
               SoundEntry(manifest[i], reviewed, at)
        PROVE  SoundEntry(manifest[i], reviewed', at')
    BY <1>2, <2>1 DEF Ends, SoundEntry
  <2> QED
    BY <1>2, <2>1, KeepsManifest DEF Ends, IInv, TypeOK
<1>3. CASE Go
  <2>1. at # None /\ at \in [slice : Slice, step : Step] /\ alive
    BY <1>3 DEF Go, IInv, TypeOK
  <2>2. at' = None \/ (/\ at' \in [slice : Slice, step : Step]
                       /\ at'.slice = at.slice
                       /\ at'.step # "qa" => at.step # "qa")
    BY <1>3, <2>1 DEF Go, Step
  <2>3. ASSUME NEW i \in DOMAIN manifest,
               SoundEntry(manifest[i], reviewed, at)
        PROVE  SoundEntry(manifest[i], reviewed', at')
    BY <1>3, <2>1, <2>2, <2>3 DEF Go, SoundEntry
  <2> QED
    BY <1>3, <2>1, <2>2, <2>3, KeepsManifest DEF Go, IInv, TypeOK
<1>4. CASE UNCHANGED vars
  BY <1>4, KeepsManifest, Zenon DEF vars, IInv, TypeOK
<1> QED
  BY <1>1, <1>2, <1>3, <1>4

(* Taking a slice reopens it, so that its commit may be made again.        *)
LEMMA TakeKeeps ==
  ASSUME IInv, Take
  PROVE  IInv'
<1>1. at' # None /\ at' \in [slice : Slice, step : Step] /\ alive
  BY TargetIsFirst DEF Take, IInv
<1>2. \A i \in DOMAIN manifest : manifest[i] \in Entry
  BY EntryOf DEF IInv
<1>3. ASSUME NEW i \in DOMAIN manifest
      PROVE  /\ manifest'[i] \in Entry /\ manifest'[i].n = manifest[i].n
             /\ SoundEntry(manifest'[i], reviewed, at')
  <2>1. SoundEntry(manifest[i], reviewed, at)
    BY DEF IInv, Sound
  <2>2. CASE manifest[i].n = at'.slice
    <3>1. manifest'[i] = [manifest[i] EXCEPT !.status = "in-progress"]
      BY <2>2 DEF Take
    <3> QED
      BY <1>2, <2>1, <3>1 DEF Entry, SoundEntry
  <2>3. CASE manifest[i].n # at'.slice
    <3>1. manifest'[i] = manifest[i]
      BY <2>3 DEF Take
    <3> QED
      BY <1>2, <2>1, <2>3, <3>1 DEF SoundEntry
  <2> QED
    BY <2>2, <2>3
<1>4. manifest' = [i \in DOMAIN manifest |-> manifest'[i]]
  BY DEF Take
<1> QED
  BY <1>1, <1>3, <1>4, KeepsMarked DEF Take

LEMMA MarkKeeps ==
  ASSUME IInv, MarkPlan \/ MarkCommit \/ MarkDone
  PROVE  IInv'
<1>1. at # None /\ at \in [slice : Slice, step : Step] /\ alive
  BY DEF MarkPlan, MarkCommit, MarkDone, WorksAt, IInv, TypeOK
<1>2. \A i \in DOMAIN manifest : manifest[i] \in Entry
  BY EntryOf DEF IInv
<1>3. at' = at /\ manifest' = [i \in DOMAIN manifest |-> manifest'[i]]
  BY DEF MarkPlan, MarkCommit, MarkDone, Mark
<1>4. ASSUME NEW i \in DOMAIN manifest
      PROVE  /\ manifest'[i] \in Entry /\ manifest'[i].n = manifest[i].n
             /\ SoundEntry(manifest'[i], reviewed, at)
  <2>1. SoundEntry(manifest[i], reviewed, at)
    BY DEF IInv, Sound
  <2>2. CASE manifest'[i] = manifest[i]
    BY <1>2, <2>1, <2>2
  <2>3. CASE /\ MarkPlan
             /\ manifest'[i] = [manifest[i] EXCEPT !.rplan = TRUE]
    BY <1>2, <2>1, <2>3 DEF Entry, SoundEntry
  <2>4. ASSUME NEW k \in 0 .. MaxLosses, manifest[i].n = at.slice,
               manifest'[i] = [manifest[i] EXCEPT !.approved =
                                [done |-> TRUE, commit |-> <<at.slice, k>>]]
        PROVE  /\ manifest'[i] \in Entry /\ manifest'[i].n = manifest[i].n
               /\ SoundEntry(manifest'[i], reviewed, at)
    <3>1. k \in Nat /\ manifest[i] \in Entry
      BY <1>2, BuildFilesAssumption
    <3> DEFINE a == [done |-> TRUE, commit |-> <<at.slice, k>>]
    <3>2. /\ a \in [done : BOOLEAN, commit : {None} \cup (Slice \X Nat)]
          /\ a.commit[1] = at.slice
      BY <1>1, <3>1
    <3> HIDE DEF a
    <3>3. /\ manifest'[i] \in Entry /\ manifest'[i].n = manifest[i].n
          /\ manifest'[i].status = manifest[i].status
          /\ manifest'[i].approved = a
      BY <2>4, <3>1, <3>2 DEF Entry, a
    <3> QED
      BY <2>1, <2>4, <3>2, <3>3 DEF SoundEntry
  <2>5. CASE /\ MarkDone /\ manifest[i].n = at.slice
             /\ manifest'[i] = [manifest[i] EXCEPT !.status = "done"]
    BY <1>1, <1>2, <2>1, <2>5 DEF Entry, SoundEntry, MarkDone, WorksAt
  <2> QED
    BY <2>2, <2>3, <2>4, <2>5 DEF MarkPlan, MarkCommit, MarkDone, Mark
<1> QED
  BY <1>1, <1>3, <1>4, KeepsMarked DEF MarkPlan, MarkCommit, MarkDone

LEMMA NextSound == IInv /\ [Next]_vars => IInv'
BY AgentFileSteps, AgentProcessSteps, TakeKeeps, MarkKeeps DEF Next

LEMMA Inductive == Spec => []IInv
<1>1. IInv /\ [Next]_vars => IInv'
  BY NextSound
<1> QED
  BY InitSound, <1>1, PTL DEF Spec

-----------------------------------------------------------------------------
(* The files and the agent keep their types, and the manifest keeps its     *)
(* slices (domain/workitems.go, StateManifest), whatever the agents were    *)
(* killed at.                                                              *)
THEOREM TypeCorrect == Spec => []TypeOK
<1>1. IInv => TypeOK
  BY DEF IInv
<1> QED
  BY <1>1, Inductive, PTL

(* A resumed build skips no slice whose commit is missing or was not        *)
(* reviewed (domain/workitems.go, ComputeResumeTarget), for any number of   *)
(* slices, any order of the manifest and any number of losses.             *)
THEOREM ResumeIsSafe == Spec => []ResumeSkipsNothing
<1>1. IInv => ResumeSkipsNothing
  <2>1. SUFFICES ASSUME IInv, NEW n \in Slice,
                        ComputeResumeTarget = None
                          \/ n < ComputeResumeTarget.slice
                 PROVE  n \in reviewed /\ \E c \in commits : c[1] = n
    BY DEF ResumeSkipsNothing
  <2>2. PICK i \in DOMAIN manifest : manifest[i].n = n
    BY <2>1, EntryOf DEF IInv
  <2>3. manifest[i] \in Range(manifest)
    BY DEF Range
  <2>4. Finished(manifest[i])
    BY <2>1, <2>2, <2>3, TargetIsFirst DEF IInv
  <2>5. SoundEntry(manifest[i], reviewed, at)
    BY <2>1 DEF IInv, Sound
  <2> QED
    BY <2>2, <2>4, <2>5 DEF Finished, StepVerified, SoundEntry
<1> QED
  BY <1>1, Inductive, PTL
-----------------------------------------------------------------------------
(* Progress.  Work is what verifies of the build, ticks aside, by slice and *)
(* kind; the resume target is a function of it, and an agent that is at the *)
(* target it was spawned with can change of it only what ends this target.  *)
Kind == {"rplan", "approved", "done"}

Shows(s, k, pl, cm) ==
  \/ k = "rplan" /\ s.rplan /\ s.n \in pl
  \/ k = "approved" /\ s.approved.done /\ s.approved.commit \in cm
  \/ /\ k = "done" /\ s.status = "done"
     /\ s.approved.done /\ s.approved.commit \in cm

Work == {x \in Slice \X Kind :
           \E i \in DOMAIN manifest :
             manifest[i].n = x[1] /\ Shows(manifest[i], x[2], plans, commits)}

(* Entries of one slice do not differ.                                      *)
Same == \A i, j \in DOMAIN manifest :
          manifest[i].n = manifest[j].n => manifest[i] = manifest[j]

(* t is the resume target of a build of which w verifies.                   *)
IsTarget(t, w) ==
  \/ t = None /\ \A n \in Slice : <<n, "done">> \in w
  \/ /\ t # None /\ t \in [slice : Slice, step : Step]
     /\ <<t.slice, "done">> \notin w
     /\ \A n \in Slice : n < t.slice => <<n, "done">> \in w
     /\ t.step = IF <<t.slice, "rplan">> \notin w THEN "rplan"
                 ELSE IF <<t.slice, "approved">> \notin w THEN "approved"
                 ELSE "qa"

Ended(step) == IF step = "qa" THEN "done" ELSE step
Passed(t, w) == t # None /\ <<t.slice, Ended(t.step)>> \in w

(* What was spawned with: the work, the ticks and the target.               *)
WorkThen == started.verified \cap (Slice \X Kind)
TicksThen == {n \in Slice : <<n, "tick">> \in started.verified}
TargetThen == started.fingerprint[2]

Compared == alive /\ started.losses = losses /\ started.fingerprint # None

ProgressInv ==
  /\ started.losses \in 0 .. losses
  /\ Compared =>
       /\ started.verified = WorkThen \cup (TicksThen \X {"tick"})
       /\ started.fingerprint = <<Cardinality(TicksThen), TargetThen>>
       /\ IsTarget(TargetThen, WorkThen)
       /\ \/ Work = WorkThen /\ at \in {None, TargetThen}
          \/ Passed(TargetThen, Work)

PInv == IInv /\ Same /\ ProgressInv

(* A build has one resume target, and it is not one that was passed.        *)
LEMMA TargetIsOne ==
  ASSUME NEW t, NEW u, NEW w, IsTarget(t, w), IsTarget(u, w)
  PROVE  t = u
<1>1. CASE t = None \/ u = None
  BY <1>1 DEF IsTarget
<1>2. CASE t # None /\ u # None
  <2>1. /\ t \in [slice : Slice, step : Step]
        /\ u \in [slice : Slice, step : Step]
    BY <1>2 DEF IsTarget
  <2>2. t.slice \in Nat /\ u.slice \in Nat /\ t.slice \in Slice /\ u.slice \in Slice
    BY <2>1, BuildFilesAssumption
  <2>3. ~(t.slice < u.slice) /\ ~(u.slice < t.slice)
    BY <1>2, <2>2 DEF IsTarget
  <2>4. t.slice = u.slice
    BY <2>2, <2>3
  <2>5. t.step = u.step
    BY <1>2, <2>4 DEF IsTarget
  <2> QED
    BY <2>1, <2>4, <2>5
<1> QED
  BY <1>1, <1>2

LEMMA PassedIsNoTarget ==
  ASSUME NEW t, NEW w, IsTarget(t, w)
  PROVE  ~Passed(t, w)
BY DEF IsTarget, Passed, Ended, Step

(* What verifies of a slice, read off any of its entries.                   *)
LEMMA WorkOf ==
  ASSUME TypeOK, Same, NEW i \in DOMAIN manifest, NEW k \in Kind
  PROVE  <<manifest[i].n, k>> \in Work <=> Shows(manifest[i], k, plans, commits)
<1>1. manifest[i].n \in Slice
  BY EntryOf DEF Entry
<1>2. ASSUME NEW j \in DOMAIN manifest, manifest[j].n = manifest[i].n
      PROVE  manifest[j] = manifest[i]
  BY <1>2 DEF Same
<1> QED
  BY <1>1, <1>2 DEF Work

LEMMA TargetOfWork ==
  ASSUME TypeOK, Same
  PROVE  IsTarget(ComputeResumeTarget, Work)
<1> DEFINE pending == {s \in Range(manifest) : ~Finished(s)}
           first == CHOOSE s \in pending : \A t \in pending : s.n <= t.n
           target == ComputeResumeTarget
<1>1. \A s \in Range(manifest) :
        /\ s.n \in Nat /\ s.n \in Slice
        /\ \E i \in DOMAIN manifest : s = manifest[i]
  BY EntryOf, BuildFilesAssumption DEF Entry
<1>2. ASSUME NEW s \in Range(manifest)
      PROVE  /\ <<s.n, "done">> \in Work <=> Finished(s)
             /\ <<s.n, "rplan">> \in Work <=> StepVerified("rplan", s)
             /\ <<s.n, "approved">> \in Work <=> StepVerified("approved", s)
  <2>1. PICK i \in DOMAIN manifest : s = manifest[i]
    BY <1>1
  <2> QED
    BY <2>1, WorkOf DEF Kind, Shows, Finished, StepVerified
<1>3. \A n \in Slice : \E s \in Range(manifest) : s.n = n
  BY EntryOf
<1>4. CASE pending = {}
  <2>1. target = None
    BY <1>4 DEF ComputeResumeTarget
  <2>2. \A n \in Slice : <<n, "done">> \in Work
    BY <1>2, <1>3, <1>4
  <2> QED
    BY <2>1, <2>2 DEF IsTarget
<1>5. CASE pending # {}
  <2>1. first \in pending /\ \A t \in pending : first.n <= t.n
    <3>1. \A s \in pending : s.n \in Nat
      BY <1>1
    <3>2. \E s \in pending : \A t \in pending : s.n <= t.n
      BY <1>5, <3>1, LowestExists
    <3> QED
      BY <3>2
  <2>2. target = [slice |-> first.n,
                  step  |-> IF ~StepVerified("rplan", first) THEN "rplan"
                            ELSE IF ~StepVerified("approved", first)
                            THEN "approved" ELSE "qa"]
    BY <1>5 DEF ComputeResumeTarget
  <2> HIDE DEF first, target
  <2>3. first \in Range(manifest) /\ ~Finished(first)
    BY <2>1
  <2>4. first.n \in Slice /\ first.n \in Nat
    BY <1>1, <2>3
  <2>5. /\ target \in [slice : Slice, step : Step]
        /\ target.slice = first.n
        /\ target.step = IF ~StepVerified("rplan", first) THEN "rplan"
                         ELSE IF ~StepVerified("approved", first)
                         THEN "approved" ELSE "qa"
    BY <2>2, <2>4 DEF Step
  <2>6. target # None
    BY <2>5, BuildFilesAssumption DEF Step
  <2>7. <<target.slice, "done">> \notin Work
    BY <1>2, <2>3, <2>5
  <2>8. ASSUME NEW n \in Slice, n < target.slice
        PROVE  <<n, "done">> \in Work
    <3>1. PICK s \in Range(manifest) : s.n = n
      BY <1>3
    <3>2. n \in Nat
      BY BuildFilesAssumption
    <3>3. s \notin pending
      BY <2>1, <2>4, <2>5, <2>8, <3>1, <3>2
    <3> QED
      BY <1>2, <3>1, <3>3
  <2>9. target.step = IF <<target.slice, "rplan">> \notin Work THEN "rplan"
                      ELSE IF <<target.slice, "approved">> \notin Work
                      THEN "approved" ELSE "qa"
    BY <1>2, <2>3, <2>5
  <2> QED
    BY <2>5, <2>6, <2>7, <2>8, <2>9 DEF IsTarget, target
<1> QED
  BY <1>4, <1>5

(* All that verifies, with the ticks.                                       *)
LEMMA VerifiedIsWork ==
  ASSUME TypeOK
  PROVE  Verified = Work \cup (IF ticks = None THEN {} ELSE ticks \X {"tick"})
<1>1. Work = {x \in Slice \X {"rplan", "approved"} :
               \E s \in {m \in Range(manifest) : m.n = x[1]} :
                 StepVerified(x[2], s)}
             \cup {x \in Slice \X {"done"} :
               \E s \in {m \in Range(manifest) : m.n = x[1]} : Finished(s)}
  BY DEF Work, Kind, Shows, StepVerified, Finished, Range
<1> QED
  BY <1>1 DEF Verified

-----------------------------------------------------------------------------
(* A step without a loss takes nothing back, and adds at most what the      *)
(* agent is at: a change elsewhere is excluded because a recorded commit is *)
(* the slice's own.                                                         *)
Gains ==
  /\ DOMAIN manifest' = DOMAIN manifest
  /\ \A i \in DOMAIN manifest :
       /\ manifest'[i].n = manifest[i].n
       /\ \A k \in Kind :
            /\ Shows(manifest[i], k, plans, commits)
                 => Shows(manifest'[i], k, plans', commits')
            /\ Shows(manifest'[i], k, plans', commits')
                 => \/ Shows(manifest[i], k, plans, commits)
                    \/ /\ at # None /\ manifest[i].n = at.slice
                       /\ Shows(manifest'[i], Ended(at.step), plans', commits')

LEMMA WorkGains ==
  ASSUME IInv, Gains
  PROVE  /\ Work \subseteq Work'
         /\ Work' = Work \/ (at # None /\ <<at.slice, Ended(at.step)>> \in Work')
<1>1. \A i \in DOMAIN manifest : manifest'[i].n = manifest[i].n
  BY DEF Gains
<1>2. Work \subseteq Work'
  BY DEF Gains, Work
<1>3. CASE \E i \in DOMAIN manifest : \E k \in Kind :
             /\ Shows(manifest'[i], k, plans', commits')
             /\ ~Shows(manifest[i], k, plans, commits)
  <2>1. PICK i \in DOMAIN manifest :
          /\ at # None /\ manifest[i].n = at.slice
          /\ Shows(manifest'[i], Ended(at.step), plans', commits')
    BY <1>3 DEF Gains
  <2>2. at.slice \in Slice /\ at.step \in Step
    BY <2>1 DEF IInv, TypeOK
  <2>3. <<at.slice, Ended(at.step)>> \in Slice \X Kind
    BY <2>2 DEF Ended, Step, Kind
  <2>4. i \in DOMAIN manifest' /\ manifest'[i].n = at.slice
    BY <2>1 DEF Gains
  <2> QED
    BY <1>2, <2>1, <2>3, <2>4 DEF Work
<1>4. CASE \A i \in DOMAIN manifest : \A k \in Kind :
             Shows(manifest'[i], k, plans', commits')
               => Shows(manifest[i], k, plans, commits)
  <2>1. Work' \subseteq Work
    BY <1>4 DEF Gains, Work
  <2> QED
    BY <1>2, <2>1
<1> QED
  BY <1>3, <1>4

(* A step changes all entries of a slice alike.                             *)
LEMMA SameKept ==
  ASSUME IInv, Same, [Next]_vars
  PROVE  Same'
<1>1. \/ manifest' = manifest
      \/ Take \/ MarkPlan \/ MarkCommit \/ MarkDone
  BY DEF Next, vars, Spawn, Scratchpad, WritePlan, Commit, Go, Review, Tick,
         Ends, Lose
<1>2. \A i \in DOMAIN manifest : manifest[i] \in Entry
  BY EntryOf DEF IInv
<1>3. DOMAIN manifest' = DOMAIN manifest
  BY <1>1 DEF Take, MarkPlan, MarkCommit, MarkDone, Mark
<1>4. ASSUME NEW i \in DOMAIN manifest
      PROVE  manifest'[i].n = manifest[i].n
  <2>1. manifest[i] \in Entry
    BY <1>2
  <2>2. CASE manifest' = manifest
    BY <2>2
  <2>3. CASE Take
    BY <2>1, <2>3 DEF Take, Entry
  <2>4. CASE MarkPlan \/ MarkDone
    BY <2>1, <2>4 DEF MarkPlan, MarkDone, Mark, Entry
  <2>5. CASE MarkCommit
    <3>1. PICK k \in 0 .. MaxLosses :
            Mark("approved", [done |-> TRUE, commit |-> <<at.slice, k>>])
      BY <2>5 DEF MarkCommit
    <3> DEFINE a == [done |-> TRUE, commit |-> <<at.slice, k>>]
    <3>2. Mark("approved", a)
      BY <3>1
    <3> HIDE DEF a
    <3> QED
      BY <2>1, <3>2 DEF Mark, Entry
  <2> QED
    BY <1>1, <2>2, <2>3, <2>4, <2>5
<1>5. ASSUME NEW i \in DOMAIN manifest, NEW j \in DOMAIN manifest,
             manifest[i] = manifest[j]
      PROVE  manifest'[i] = manifest'[j]
  <2>1. CASE manifest' = manifest
    BY <1>5, <2>1
  <2>2. CASE Take
    BY <1>5, <2>2 DEF Take
  <2>3. CASE MarkPlan \/ MarkDone
    <3> DEFINE P(s) == IF s.n = at.slice THEN [s EXCEPT !["rplan"] = TRUE]
                       ELSE s
               D(s) == IF s.n = at.slice THEN [s EXCEPT !["status"] = "done"]
                       ELSE s
    <3>1. \/ \A l \in DOMAIN manifest : manifest'[l] = P(manifest[l])
          \/ \A l \in DOMAIN manifest : manifest'[l] = D(manifest[l])
      BY <2>3 DEF MarkPlan, MarkDone, Mark
    <3> HIDE DEF P, D
    <3> QED
      BY <1>5, <3>1
  <2>4. CASE MarkCommit
    <3>1. PICK k \in 0 .. MaxLosses :
            Mark("approved", [done |-> TRUE, commit |-> <<at.slice, k>>])
      BY <2>4 DEF MarkCommit
    <3> DEFINE a == [done |-> TRUE, commit |-> <<at.slice, k>>]
    <3>2. Mark("approved", a)
      BY <3>1
    <3> HIDE DEF a
    <3> QED
      BY <1>5, <3>2 DEF Mark
  <2> QED
    BY <1>1, <2>1, <2>2, <2>3, <2>4
<1> QED
  BY <1>3, <1>4, <1>5 DEF Same

LEMMA FileStepsGain ==
  ASSUME IInv, Scratchpad \/ WritePlan \/ Commit \/ Review \/ Tick \/ Go
  PROVE  Gains
<1>1. manifest' = manifest
  BY DEF Scratchpad, WritePlan, Commit, Review, Tick, Go
<1>2. CASE UNCHANGED <<plans, commits>>
  BY <1>1, <1>2 DEF Gains
<1>3. CASE WritePlan
  <2>1. /\ at # None /\ at.step = "rplan" /\ commits' = commits
        /\ plans' = plans \cup {at.slice}
    BY <1>3 DEF WritePlan, WorksAt
  <2> QED
    BY <1>1, <2>1 DEF Gains, Shows, Kind, Ended
<1>4. CASE Commit
  <2>1. /\ at # None /\ at.step = "approved" /\ plans' = plans
        /\ commits' = commits \cup {<<at.slice, losses>>}
    BY <1>4 DEF Commit, WorksAt
  <2>2. ASSUME NEW i \in DOMAIN manifest, NEW k \in Kind,
               Shows(manifest[i], k, plans', commits'),
               ~Shows(manifest[i], k, plans, commits)
        PROVE  /\ manifest[i].n = at.slice
               /\ Shows(manifest[i], "approved", plans', commits')
    <3>1. /\ manifest[i].approved.done
          /\ manifest[i].approved.commit \in commits'
          /\ manifest[i].approved.commit \notin commits
      BY <2>1, <2>2 DEF Shows
    <3>2. manifest[i].approved.commit[1] = at.slice
      BY <2>1, <3>1
    <3>3. manifest[i].approved.commit[1] = manifest[i].n
      BY <3>1 DEF IInv, Sound, SoundEntry
    <3> QED
      BY <3>1, <3>2, <3>3 DEF Shows
  <2>3. ASSUME NEW i \in DOMAIN manifest, NEW k \in Kind,
               Shows(manifest[i], k, plans, commits)
        PROVE  Shows(manifest[i], k, plans', commits')
    BY <2>1, <2>3 DEF Shows
  <2> QED
    BY <1>1, <2>1, <2>2, <2>3 DEF Gains, Ended
<1> QED
  BY <1>2, <1>3, <1>4 DEF Scratchpad, Review, Tick, Go

LEMMA MarksGain ==
  ASSUME IInv, MarkPlan \/ MarkCommit \/ MarkDone
  PROVE  Gains
<1>1. /\ at # None /\ at.step \in Step
      /\ plans' = plans /\ commits' = commits
      /\ DOMAIN manifest' = DOMAIN manifest
  BY DEF MarkPlan, MarkCommit, MarkDone, Mark, WorksAt, IInv, TypeOK
<1>2. SUFFICES ASSUME NEW i \in DOMAIN manifest
      PROVE  /\ manifest'[i].n = manifest[i].n
             /\ \A k \in Kind :
                  /\ Shows(manifest[i], k, plans, commits)
                       => Shows(manifest'[i], k, plans, commits)
                  /\ Shows(manifest'[i], k, plans, commits)
                       => \/ Shows(manifest[i], k, plans, commits)
                          \/ /\ manifest[i].n = at.slice
                             /\ Shows(manifest'[i], Ended(at.step), plans, commits)
  BY <1>1, Zenon DEF Gains
<1>3. manifest[i] \in Entry
  BY EntryOf DEF IInv
<1>4. CASE manifest'[i] = manifest[i]
  BY <1>4
<1>5. CASE /\ MarkPlan /\ manifest[i].n = at.slice
           /\ manifest'[i] = [manifest[i] EXCEPT !.rplan = TRUE]
  <2>1. /\ at.step = "rplan" /\ at.slice \in plans
        /\ manifest'[i].n = manifest[i].n /\ manifest'[i].rplan
        /\ manifest'[i].status = manifest[i].status
        /\ manifest'[i].approved = manifest[i].approved
    BY <1>3, <1>5 DEF MarkPlan, WorksAt, Entry
  <2> QED
    BY <1>5, <2>1 DEF Shows, Kind, Ended
<1>6. ASSUME NEW c \in commits, MarkCommit, manifest[i].n = at.slice,
             manifest'[i] = [manifest[i] EXCEPT !.approved =
                               [done |-> TRUE, commit |-> c]]
      PROVE  /\ manifest'[i].n = manifest[i].n
             /\ \A k \in Kind :
                  /\ Shows(manifest[i], k, plans, commits)
                       => Shows(manifest'[i], k, plans, commits)
                  /\ Shows(manifest'[i], k, plans, commits)
                       => \/ Shows(manifest[i], k, plans, commits)
                          \/ /\ manifest[i].n = at.slice
                             /\ Shows(manifest'[i], Ended(at.step), plans, commits)
  <2>1. /\ at.step = "approved"
        /\ manifest'[i].n = manifest[i].n
        /\ manifest'[i].approved.done /\ manifest'[i].approved.commit = c
        /\ manifest'[i].status = manifest[i].status
        /\ manifest'[i].rplan = manifest[i].rplan
    BY <1>3, <1>6 DEF MarkCommit, WorksAt, Entry
  <2> QED
    BY <1>6, <2>1 DEF Shows, Kind, Ended
<1>7. CASE /\ MarkDone /\ manifest[i].n = at.slice
           /\ manifest'[i] = [manifest[i] EXCEPT !.status = "done"]
  <2>1. /\ at.step = "qa"
        /\ manifest'[i].n = manifest[i].n /\ manifest'[i].status = "done"
        /\ manifest'[i].rplan = manifest[i].rplan
        /\ manifest'[i].approved = manifest[i].approved
    BY <1>3, <1>7 DEF MarkDone, WorksAt, Entry
  <2> QED
    BY <1>7, <2>1 DEF Shows, Kind, Ended
<1>8. CASE MarkPlan
  BY <1>4, <1>5, <1>8 DEF MarkPlan, Mark
<1>9. CASE MarkCommit
  BY <1>4, <1>6, <1>9 DEF MarkCommit, Mark
<1>10. CASE MarkDone
  BY <1>4, <1>7, <1>10 DEF MarkDone, Mark
<1> QED
  BY <1>8, <1>9, <1>10

(* The slice that is taken was not finished, so that to reopen it takes     *)
(* nothing back.                                                            *)
LEMMA TakeGains ==
  ASSUME IInv, Same, Take
  PROVE  Gains /\ Work' = Work
<1>1. IsTarget(at', Work) /\ at' # None /\ at = None
      /\ plans' = plans /\ commits' = commits
      /\ DOMAIN manifest' = DOMAIN manifest
  BY TargetOfWork DEF Take, IInv
<1>2. ASSUME NEW i \in DOMAIN manifest
      PROVE  /\ manifest'[i].n = manifest[i].n
             /\ \A k \in Kind : Shows(manifest'[i], k, plans, commits)
                                  <=> Shows(manifest[i], k, plans, commits)
  <2>1. manifest[i] \in Entry
    BY EntryOf DEF IInv
  <2>2. CASE manifest[i].n # at'.slice
    BY <2>2 DEF Take
  <2>3. CASE manifest[i].n = at'.slice
    <3>1. /\ manifest'[i].n = manifest[i].n
          /\ manifest'[i].status = "in-progress"
          /\ manifest'[i].rplan = manifest[i].rplan
          /\ manifest'[i].approved = manifest[i].approved
      BY <2>1, <2>3 DEF Take, Entry
    <3>2. <<manifest[i].n, "done">> \notin Work
      BY <1>1, <2>3 DEF IsTarget
    <3>3. ~Shows(manifest[i], "done", plans, commits)
      BY <3>2, WorkOf DEF IInv, Kind
    <3> QED
      BY <3>1, <3>3 DEF Shows, Kind
  <2> QED
    BY <2>2, <2>3
<1>3. Gains
  BY <1>1, <1>2 DEF Gains
<1>4. Work' = Work
  BY <1>1, <1>2 DEF Work
<1> QED
  BY <1>3, <1>4

-----------------------------------------------------------------------------
(* A build that has lost nothing since its agent was spawned either has all *)
(* of the work of then and no other, with the agent at the target of then   *)
(* or at nothing, or has passed this target.                                *)
LEMMA ProgressInit == Init => Same /\ ProgressInv
<1> SUFFICES ASSUME Init PROVE Same /\ ProgressInv
  OBVIOUS
<1>1. Same
  BY DEF Init, Same
<1>2. started.losses = 0 /\ losses = 0 /\ alive = FALSE
  BY DEF Init
<1>3. ProgressInv
  BY <1>2 DEF ProgressInv, Compared
<1> QED
  BY <1>1, <1>3

LEMMA SpawnCompares ==
  ASSUME IInv, Same, Spawn
  PROVE  ProgressInv'
<1>1. /\ ~alive /\ losses \in Nat /\ losses' = losses /\ at = None /\ at' = at
      /\ ticks = None \/ ticks \subseteq Slice
  BY BuildFilesAssumption DEF Spawn, IInv, TypeOK
<1>2. Work' = Work /\ Work \subseteq Slice \X Kind
  BY DEF Spawn, Work
<1>3. /\ started' = [fingerprint |-> ProgressFingerprint, verified |-> Verified,
                     losses |-> losses]
      /\ Verified = Work \cup (IF ticks = None THEN {} ELSE ticks \X {"tick"})
  BY VerifiedIsWork DEF Spawn, IInv
<1>4. started'.losses \in 0 .. losses'
  BY <1>1, <1>3
<1>5. ASSUME Compared'
      PROVE  /\ started'.verified = WorkThen' \cup (TicksThen' \X {"tick"})
             /\ started'.fingerprint = <<Cardinality(TicksThen'), TargetThen'>>
             /\ IsTarget(TargetThen', WorkThen')
             /\ Work' = WorkThen' /\ at' \in {None, TargetThen'}
  <2>1. ProgressFingerprint # None
    BY <1>3, <1>5 DEF Compared
  <2>2. /\ ticks # None /\ ticks \subseteq Slice
        /\ ProgressFingerprint = <<Cardinality(ticks), ComputeResumeTarget>>
    BY <1>1, <2>1 DEF ProgressFingerprint
  <2>3. started'.verified = Work \cup (ticks \X {"tick"})
    BY <1>3, <2>2
  <2>4. WorkThen' = Work
    BY <1>2, <2>3 DEF WorkThen, Kind
  <2>5. TicksThen' = ticks
    BY <1>2, <2>2, <2>3 DEF TicksThen, Kind
  <2>6. TargetThen' = ComputeResumeTarget
    BY <1>3, <2>2 DEF TargetThen
  <2>7. IsTarget(ComputeResumeTarget, Work)
    BY TargetOfWork DEF IInv
  <2> QED
    BY <1>1, <1>2, <1>3, <2>2, <2>3, <2>4, <2>5, <2>6, <2>7
<1> QED
  BY <1>4, <1>5 DEF ProgressInv

(* The steps of an agent: where it is afterwards, and what it has gained.   *)
AgentStep ==
  Scratchpad \/ Take \/ WritePlan \/ MarkPlan \/ Commit \/ MarkCommit \/ Go
    \/ Review \/ MarkDone \/ Tick

LEMMA AgentMoves ==
  ASSUME IInv, Same, AgentStep
  PROVE  \/ at' = at
         \/ at = None /\ at' = ComputeResumeTarget /\ Work' = Work
         \/ at # None /\ at' = None /\ Work' = Work
         \/ at # None /\ <<at.slice, Ended(at.step)>> \in Work
<1>1. CASE Take
  BY <1>1, TakeGains DEF Take
<1>2. CASE Go
  <2>1. /\ at # None /\ at.step \in Step
        /\ plans' = plans /\ commits' = commits /\ manifest' = manifest
    BY <1>2 DEF Go, IInv, TypeOK
  <2>2. Work' = Work
    BY <2>1 DEF Work
  <2>3. PICK s \in Range(manifest) :
          /\ s.n = at.slice
          /\ StepVerified(at.step, s) \/ at' = None
    BY <1>2 DEF Go
  <2>4. CASE StepVerified(at.step, s)
    <3>1. PICK i \in DOMAIN manifest : s = manifest[i]
      BY EntryOf DEF IInv
    <3>2. at.step \in Kind /\ Ended(at.step) = at.step
          /\ Shows(manifest[i], at.step, plans, commits)
      BY <2>1, <2>4, <3>1 DEF StepVerified, Step, Kind, Ended, Shows
    <3>3. <<at.slice, Ended(at.step)>> \in Work
      BY <2>3, <3>1, <3>2, WorkOf DEF IInv
    <3> QED
      BY <2>1, <3>3
  <2>5. CASE at' = None
    BY <2>1, <2>2, <2>5
  <2> QED
    BY <2>3, <2>4, <2>5
<1>3. CASE /\ ~Take /\ ~Go
  BY <1>3 DEF AgentStep, Scratchpad, WritePlan, MarkPlan, Commit, MarkCommit,
              Review, MarkDone, Tick
<1> QED
  BY <1>1, <1>2, <1>3

LEMMA AgentCompares ==
  ASSUME IInv, Same, ProgressInv, AgentStep
  PROVE  ProgressInv'
<1>1. started' = started /\ losses' = losses /\ alive' = alive
  BY DEF AgentStep, Scratchpad, Take, WritePlan, MarkPlan, Commit, MarkCommit,
         Go, Review, MarkDone, Tick
<1>2. /\ WorkThen' = WorkThen /\ TicksThen' = TicksThen
      /\ TargetThen' = TargetThen /\ Compared' = Compared
  BY <1>1 DEF WorkThen, TicksThen, TargetThen, Compared
<1>3. Gains
  BY FileStepsGain, MarksGain, TakeGains DEF AgentStep
<1>4. /\ Work \subseteq Work'
      /\ Work' = Work \/ (at # None /\ <<at.slice, Ended(at.step)>> \in Work')
  BY <1>3, WorkGains
<1>5. SUFFICES ASSUME Compared
               PROVE  \/ Work' = WorkThen /\ at' \in {None, TargetThen}
                      \/ Passed(TargetThen, Work')
  BY <1>1, <1>2 DEF ProgressInv
<1>6. IsTarget(TargetThen, WorkThen)
  BY <1>5 DEF ProgressInv
<1>7. CASE Passed(TargetThen, Work)
  BY <1>4, <1>7 DEF Passed
<1>8. CASE Work = WorkThen /\ at \in {None, TargetThen}
  <2>1. CASE at # None /\ <<at.slice, Ended(at.step)>> \in Work'
    BY <1>8, <2>1 DEF Passed
  <2>2. CASE Work' = Work /\ ~(at # None /\ <<at.slice, Ended(at.step)>> \in Work')
    <3>1. ComputeResumeTarget = TargetThen
      <4>1. IsTarget(ComputeResumeTarget, Work)
        BY TargetOfWork DEF IInv
      <4> QED
        BY <1>6, <1>8, <4>1, TargetIsOne
    <3>2. at' \in {None, TargetThen}
      BY <1>8, <2>2, <3>1, AgentMoves
    <3> QED
      BY <1>8, <2>2, <3>2
  <2> QED
    BY <1>4, <2>1, <2>2
<1> QED
  BY <1>5, <1>7, <1>8 DEF ProgressInv

LEMMA ProgressStep ==
  ASSUME PInv, [Next]_vars
  PROVE  PInv'
<1>1. IInv' /\ Same'
  BY NextSound, SameKept DEF PInv
<1> SUFFICES ProgressInv'
  BY <1>1 DEF PInv
<1>2. CASE Spawn
  BY <1>2, SpawnCompares DEF PInv
<1>3. CASE AgentStep
  BY <1>3, AgentCompares DEF PInv
<1>4. CASE Ends
  BY <1>4 DEF Ends, PInv, ProgressInv, Compared
<1>5. CASE Lose
  <2>1. /\ losses \in Nat /\ started.losses \in 0 .. losses
        /\ losses' = losses + 1 /\ started' = started
    BY <1>5, BuildFilesAssumption DEF Lose, PInv, ProgressInv, IInv, TypeOK
  <2>2. started'.losses \in 0 .. losses' /\ started'.losses # losses'
    BY <2>1
  <2> QED
    BY <2>2 DEF ProgressInv, Compared
<1>6. CASE UNCHANGED vars
  BY <1>6 DEF vars, PInv, ProgressInv, Compared, Work, WorkThen, TicksThen,
              TargetThen
<1> QED
  BY <1>2, <1>3, <1>4, <1>5, <1>6 DEF Next, AgentStep

(* Equal fingerprints mean that nothing more verifies.                      *)
LEMMA EqualMeansNoMore ==
  ASSUME PInv
  PROVE  ProgressShows
<1>1. SUFFICES ASSUME Compared, ProgressFingerprint # None,
                      started.verified \subseteq Verified,
                      started.fingerprint = ProgressFingerprint
               PROVE  started.verified = Verified
  BY DEF ProgressShows, Compared
<1>2. /\ started.verified = WorkThen \cup (TicksThen \X {"tick"})
      /\ started.fingerprint = <<Cardinality(TicksThen), TargetThen>>
      /\ \/ Work = WorkThen
         \/ Passed(TargetThen, Work)
  BY <1>1 DEF PInv, ProgressInv
<1>3. /\ ticks # None /\ ticks \subseteq Slice
      /\ ProgressFingerprint = <<Cardinality(ticks), ComputeResumeTarget>>
  BY <1>1 DEF ProgressFingerprint, PInv, IInv, TypeOK
<1>4. Verified = Work \cup (ticks \X {"tick"})
  BY <1>3, VerifiedIsWork DEF PInv, IInv
<1>5. Cardinality(TicksThen) = Cardinality(ticks)
      /\ TargetThen = ComputeResumeTarget
  <2>1. /\ started.fingerprint = <<Cardinality(TicksThen), TargetThen>>
        /\ started.fingerprint = <<Cardinality(ticks), ComputeResumeTarget>>
    BY <1>1, <1>2, <1>3
  <2>2. \A a, b, x, y : <<a, b>> = <<x, y>> => a = x /\ b = y
    OBVIOUS
  <2>3. <<Cardinality(TicksThen), TargetThen>>
          = <<Cardinality(ticks), ComputeResumeTarget>>
    BY <2>1, Zenon
  <2> QED
    BY <2>2, <2>3, Zenon
<1>6. TicksThen \subseteq ticks
  BY <1>1, <1>4 DEF TicksThen, Work, Kind
<1>7. TicksThen = ticks
  BY <1>3, <1>5, <1>6, BuildFilesAssumption, FS_Subset, FS_CardinalityType
<1>8. ~Passed(TargetThen, Work)
  BY <1>5, TargetOfWork, PassedIsNoTarget DEF PInv, IInv
<1> QED
  BY <1>2, <1>4, <1>7, <1>8

(* An agent that got anything verified done and lost nothing is never taken *)
(* for one without progress (usecase/workitems.go), for any number of       *)
(* slices, any order of the manifest and any number of losses.              *)
THEOREM ProgressIsSeen == Spec => []ProgressShows
<1>1. Init => PInv
  BY InitSound, ProgressInit DEF PInv
<1>2. PInv /\ [Next]_vars => PInv'
  BY ProgressStep
<1>3. PInv => ProgressShows
  BY EqualMeansNoMore
<1> QED
  BY <1>1, <1>2, <1>3, PTL DEF Spec
=============================================================================
